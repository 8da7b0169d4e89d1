SPECIFICATION TSpec
CONSTANTS
  N = 2
  Hash <- DistinctKeys
  Requests = {r1}
  Flaky = {}
  Calls = {}
  Types = {"least-response-time"}
  CounterMod = 4
  Middleware = FALSE
  Samples = {1, 2, 11}
  FailureSamples = {}
  Usual <- UsualTimes
  Slow = 11
  SlowBackend = 1
PROPERTY FastBackendKeepsTraffic
