SPECIFICATION Spec
CONSTANTS
  N = 3
  Hash <- SharedKey
  Requests = {}
  Flaky = {1, 2}
  Calls = {"Stats"}
  CounterMod = 4
INVARIANT StatsComplete
