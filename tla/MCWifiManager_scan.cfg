SPECIFICATION FairSpec
CONSTANTS
  s1 = s1
  s2 = s2
  None = None
  Ssids <- OneSsid
  Requests <- Scans
  Starts <- Starting
  InitConfigs <- AnyBoot
INVARIANTS ScanFlagHeld
PROPERTIES SoftApAlone StationTries
