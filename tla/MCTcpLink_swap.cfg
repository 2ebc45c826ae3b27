SPECIFICATION Spec
CONSTANTS
  n1 = n1
  n2 = n2
  c1 = c1
  c2 = c2
  c3 = c3
  None = None
  Nets <- MCNets
  Conns <- MCConns
  StatMax = 1
INVARIANTS SendExclusive
SYMMETRY NetSymmetry
