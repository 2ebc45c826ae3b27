SPECIFICATION Spec
CONSTANTS
  Half = 16
  Interval = 5
  Poll = 3
  AgeMax = 80
  Kinds <- AllKinds
INVARIANTS TypeOK NeverLate
PROPERTIES NeverEarly
