CONSTANTS
  r1 = r1
  r2 = r2
  NoRequest = NoRequest
  Requests = {r1, r2}
  Kind <- FetchAndPush
  Pollers = {p1, p2}
  Responders = {x1, x2}
  MaxTokens = 2
  HasStorage = FALSE
  HasListener = TRUE
SPECIFICATION TimedSpec
INVARIANTS
  TypeOK
  WaitingIsTracked
  PollsAreTracked
  VerdictsAgree
PROPERTIES
  ImplementsRelay
  EveryoneIsAnswered
