SPECIFICATION TSpec
CONSTANTS
  N = 3
  Hash <- DistinctKeys
  Requests = {r1}
  Flaky = {}
  Calls = {"Stats", "Shutdown"}
  Types = {"least-connection"}
  CounterMod = 4
  Middleware = FALSE
  Samples = {1, 2, 3}
  FailureSamples = {}
  Usual <- UsualTimes
  Slow = 1
  SlowBackend = 1
PROPERTY TiesTakeTurns
