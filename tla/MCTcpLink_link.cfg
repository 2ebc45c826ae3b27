SPECIFICATION InTimeSpec
CONSTANTS
  n1 = n1
  n2 = n2
  c1 = c1
  c2 = c2
  c3 = c3
  None = None
  Nets <- OneNet
  Conns <- MCConns
  StatMax = 2
INVARIANTS TypeOK SendExclusive UpMeansSocket DisconnectsBalanced
PROPERTIES SessionRefined
SYMMETRY ConnSymmetry
