SPECIFICATION FairSpec
CONSTANTS
  odd = odd
  bound = bound
  factory = factory
  uart = uart
  udp = udp
  web = web
  main = main
  None = None
  N = 2
  Values <- ThreeValues
  Odd = odd
  Bound = bound
  Factory = factory
  Ranged <- First
  Mapped <- Second
  Texts <- OneText
  Webs <- OneWeb
  Resetters = {}
  Main = main
INVARIANTS TypeOK SavedWhole StoreInRange NothingOverlooked
PROPERTIES ResetSticks ResetEnds
