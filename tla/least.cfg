SPECIFICATION HSpec
CONSTANTS
  N = 2
  Hash <- DistinctKeys
  Requests = {r1, r2}
  Flaky = {1, 2}
  Calls = {}
  Types = {"least-connection", "least-response-time"}
  CounterMod = 2
  Middleware = TRUE
  Samples = {1, 2}
  FailureSamples = {7}
  Steady = {1}
SYMMETRY RequestSymmetry
VIEW ScoresWhereRead
PROPERTIES LeastLoadedUpToDrift UnmeasuredOrFastest FailingNotPreferred ImplementsRotation
