SPECIFICATION Spec
CONSTANTS
  tool = tool
  shell = shell
  hot = hot
  low = low
  None = None
  Clients <- MCClients
  Faults <- MCFaults
  Reads <- MCReads
  Clears <- MCClears
  MaxCalls = 3
  MaxEvents = 1
SYMMETRY Symmetry
CHECK_DEADLOCK FALSE
INVARIANTS TypeOK DoneWithinCall ReadsAreTrue RefusedForAReason
