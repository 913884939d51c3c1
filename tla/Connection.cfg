\* Two io threads and an application thread; the peer sends a frame.
\* A connection that has ended does nothing more.  Liveness, so no symmetry.
CONSTANTS
  Data = {d1}
  Pongs = {p1}
  Closes = {c1, c2}
  IoThreads = {t1, t2}
  AppThreads = {u}
  RequestTimeout = TRUE
  IdleTimeout = TRUE
  MaxReads = 1
SPECIFICATION FairSpec
CHECK_DEADLOCK FALSE
INVARIANTS
  IInv
  RegistryMatchesLoop
  EventsInOrder
  IdleGuardsRead
PROPERTIES
  QueueSpec
  DownIsReported
