SPECIFICATION MonitoringSpec
CONSTANTS
  N = 3
  Hash <- DistinctKeys
  Addr <- DistinctAddresses
  Requests = {}
  Flaky = {1, 3}
  Calls = {"Stats", "Shutdown"}
  CounterMod = 4
INVARIANTS FlagMatchesRotation NoDuplicateServer StatsComplete
PROPERTIES StopEndsChecker ShutdownReturns SettledArePlaced GaugesFollow
