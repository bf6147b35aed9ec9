SPECIFICATION Spec
CONSTANTS
  RxCount = 3
  MaxArrived = 6
  MaxWritten = 4
  MaxResets = 3
CHECK_DEADLOCK FALSE
INVARIANTS TypeOK FramesAccountedFor NothingStalls
