SPECIFICATION MCSpec
CONSTANTS
  N = 3
  Hash <- DistinctKeys
  Requests = {r1, r2}
  Flaky = {1, 2, 3}
  Calls = {"Stats", "Shutdown"}
  VirtualHash <- Positions2
  ClientHash = {2, 7}
SYMMETRY RequestSymmetry
INVARIANT FlagMatchesRing
PROPERTIES ClientsStick ImplementsRotation
