SPECIFICATION HSpec
CONSTANTS
  N = 2
  Hash <- DistinctKeys
  Requests = {r1, r2}
  Flaky = {1, 2}
  Calls = {"Stats", "Shutdown"}
  CounterMod = 7
  Weight <- WeightValues
  Types = {"round-robin", "w-round-robin", "random"}
  MaxSweeps = 2
SYMMETRY RequestSymmetry
INVARIANTS TypeOK SharesKept SweepHonoursShares TurnsShared
PROPERTY ImplementsRotation
