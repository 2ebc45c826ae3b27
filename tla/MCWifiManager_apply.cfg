SPECIFICATION FairSpec
CONSTANTS
  s1 = s1
  s2 = s2
  None = None
  Ssids <- OneSsid
  Requests <- Changes
  Starts <- Starting
  InitConfigs <- AnyBoot
INVARIANTS TypeOK
PROPERTIES FallsBack RadioComesBack
