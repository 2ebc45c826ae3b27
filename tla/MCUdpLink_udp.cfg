SPECIFICATION FairSpec
CONSTANTS
  n1 = n1
  n2 = n2
  p1 = p1
  p2 = p2
  None = None
  Configs <- MCConfigs
  HostOnly <- NoNets
  Peers <- OnePeer
  Sizes <- OneUnit
  WireMax = 2
  QueueLen = 1
  Priorities = TRUE
INVARIANTS TypeOK NewConfigForgetsPeer
PROPERTIES SendsToKnown UdpComesUp Receives
