CONSTANTS
  Sockets = {s1, s2}
  Members = {m1}
  Reviewers = {r1}
  Statuses = {online, away}
  Verdicts = {"approve", "deny"}
  Absent = Absent
  PingInterval = 1
  ConfiguredIdle = 1
  PresenceTtl = 1
  MaxWsSessions = 1
  MaxMessages = 1
  OpensAtOnce = FALSE
SPECIFICATION Spec
INVARIANTS
  TypeOK
  ViewsAreCurrent
  PromptClientsStay
PROPERTY SlotsAreFreed
