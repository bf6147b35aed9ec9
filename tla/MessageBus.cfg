SPECIFICATION FairSpec
CONSTANTS
  s1 = s1
  s2 = s2
  n1 = n1
  Sources <- MCSources
  Careless <- MCCareless
  Notifiers <- MCNotifiers
  Length = 1
  MaxMessages = 3
  Prompt = TRUE
CHECK_DEADLOCK FALSE
INVARIANTS TypeOK  NobodyForgotten AnswersInOrder
PROPERTIES RequestsTaken ShutdownEnds
