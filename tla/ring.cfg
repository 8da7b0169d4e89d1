SPECIFICATION Spec
CONSTANTS
  Nodes = {n1, n2, n3}
  Repl = 2
  HashSpace = {0, 1, 2, 3, 4, 5, 6}
SYMMETRY NodeSymmetry
INVARIANTS RingConsistent LookupIsClockwise
PROPERTY OnlyItsClientsMove
