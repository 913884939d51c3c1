\* Three io threads, three requests on one connection, two parts in all and
\* two buffers in the queue at once; liveness, so no symmetry.
CONSTANTS
  IoThreads = {t1, t2, t3}
  MaxRequests = 3
  MaxParts = 2
  MaxQueue = 2
SPECIFICATION FairSpec
INVARIANTS
  IInv
  OneWriteAtATime
  NoReadWhileAnswering
  EarlierAnswered
  AlwaysTimed
  LeftSetIsDone
PROPERTIES
  ExchangeSpec
  ReleasedIsSent
CHECK_DEADLOCK FALSE
