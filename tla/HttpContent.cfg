\* Two requests on a connection, of up to two chunks.  The client may stop.
CONSTANTS
  Contents <- MCContents
  Sizes <- MCSizes
  LineBuffer = 6
  MaxStream = 3
  MaxChunks = 2
  MaxRequests = 2
SPECIFICATION Spec
CHECK_DEADLOCK FALSE
INVARIANTS
  IInv
  ContentIntact
PROPERTY EveryRequestAnswered
