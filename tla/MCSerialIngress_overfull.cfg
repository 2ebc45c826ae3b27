SPECIFICATION Spec
CONSTANTS
  Wires <- Plain
  MaxPayload = 1
  AccMax = 7
  ReadMax = 4
  ChunkMax = 4
  QueueLen = 1
  PacketSizes <- Sizes
INVARIANTS ChunkFits
