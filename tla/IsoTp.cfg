SPECIFICATION Spec
CONSTANTS
  Lengths <- MCLengths
  Modulus = 2
  Depth = 2
  MaxCalls = 3
CHECK_DEADLOCK FALSE
INVARIANTS TypeOK NothingMixed AnswerIsMine UndisturbedCallsSucceed
