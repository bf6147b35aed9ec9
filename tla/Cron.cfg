SPECIFICATION FairSpec
CONSTANTS
  MaxJobs = 2
  Delays <- MCDelays
  Lag = 1
  Horizon = 3
  Fits = 1
  MaxMade = 3
  MaxRestarts = 1
CHECK_DEADLOCK FALSE
INVARIANTS TypeOK PassComplete FileFollows
PROPERTIES FiresInTime DueFires
