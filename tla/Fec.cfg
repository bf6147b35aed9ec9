SPECIFICATION Spec
CONSTANTS
  RxCount = 2
  TxCount = 2
  MaxStored = 3
  MaxGranted = 3
  MaxUps = 2
  MaxProbes = 1
CHECK_DEADLOCK FALSE
INVARIANTS TypeOK FramesInOrder NothingStuck
PROPERTIES EveryFrameServed
