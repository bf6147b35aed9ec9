SPECIFICATION Spec
CONSTANTS
  s1 = s1
  s2 = s2
  n1 = n1
  Sources <- MCSources
  Careless <- MCCareless
  Notifiers <- MCNotifiers
  Length = 1
  MaxMessages = 3
  Prompt = FALSE
CHECK_DEADLOCK FALSE
INVARIANT NobodyUsesDestroyedBus
