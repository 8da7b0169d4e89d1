SPECIFICATION HSpec
CONSTANTS
  N = 2
  Hash <- DistinctKeys
  Requests = {r1, r2}
  Flaky = {2}
  Calls = {}
  Types = {"least-response-time"}
  CounterMod = 2
  Middleware = FALSE
  Samples = {1, 2}
  FailureSamples = {7}
  Steady = {}
PROPERTY RejoinsUnmeasured
