SPECIFICATION Spec
CONSTANTS
  c1 = c1
  c2 = c2
  c3 = c3
  engine = engine
  body = body
  Clients = {c1, c2, c3}
  MaxSubscribers = 2
  QueueDepth = 2
  Ids = {engine, body}
  Filters <- MCFilters
  NoFrame = NoFrame
  NoHandle = NoHandle
  MaxFrames = 3
CHECK_DEADLOCK FALSE
INVARIANTS TypeOK BooksBalance
PROPERTY ImplementsMailbox
SYMMETRY Symmetry
