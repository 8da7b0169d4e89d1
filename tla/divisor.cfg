SPECIFICATION Spec
CONSTANTS
  DefaultProxyTimeout = 60
  DefaultMaxRequestBodySize = 1
  Requests = {1, 2}
  Sends <- Sends2
  Files <- Files1
INVARIANTS ServesOnlyUsable BodyLimitHolds WholeBodies  ExitCodeTells BalancerOutlivesRequests
PROPERTIES  SignalEndsProcess DeadListenerEndsProcess
