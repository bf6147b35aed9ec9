SPECIFICATION FairSpec
CONSTANTS
  c1 = c1
  c2 = c2
  c3 = c3
  d1 = d1
  d2 = d2
  None = None
  Clients = {c1, c2, c3}
  Daemons = {d1, d2}
  MaxSubscribers = 2
  Calls <- SteadyCalls
  Up = TRUE
  DaemonFirst = FALSE
INVARIANTS TypeOK AnswerIsMine OneCommandInFlight
PROPERTY CallsReturn
