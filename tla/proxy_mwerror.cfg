SPECIFICATION HSpec
CONSTANTS
  Requests = {r1, r2}
  Middlewares = 1
  ProxyTimeout = TRUE
  ClientHeaders <- Clients
  BackendAnswers <- Answers
  Elapsed = {1, 4}
  Penalty = 9
  MaxRequests = 2
INVARIANT MiddlewareErrorIs500
