CONSTANTS
  r1 = r1
  r2 = r2
  NoRequest = NoRequest
  Requests = {r1, r2}
  Kind <- AdvertAndMixed
  Pollers = {p1, p2}
  Responders = {x1}
  MaxTokens = 2
  HasStorage = TRUE
  HasListener = FALSE
SPECIFICATION PollingSpec
PROPERTY PendingReachesDaemon
