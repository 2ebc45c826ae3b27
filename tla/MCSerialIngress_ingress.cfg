SPECIFICATION FairSpec
CONSTANTS
  Wires <- MCWires
  MaxPayload = 1
  AccMax = 5
  ReadMax = 3
  ChunkMax = 2
  QueueLen = 1
  PacketSizes <- OneSize
INVARIANTS TypeOK InOrder NothingVanishes OnlyUnfinishedWaits
PROPERTIES ChannelRefined OnlyFramesHeldBack ChunkFlushed
