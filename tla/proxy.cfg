SPECIFICATION HFairSpec
CONSTANTS
  Requests = {r1, r2}
  Middlewares = 2
  ProxyTimeout = TRUE
  ClientHeaders <- Clients
  BackendAnswers <- Answers
  Elapsed = {1, 4}
  Penalty = 9
  MaxRequests = 2
INVARIANTS TypeOK AverageNotDiluted ForwardedHeaders ErrorsReachClient  MeasuredAreSuccesses
PROPERTIES SamplesBlend RequestEnds
