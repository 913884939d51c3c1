\* Three threads that call as often as they like, from inside their own locks
\* too: such a call hangs, so the system may stop.  Liveness: no symmetry.
CONSTANT Threads = {t1, t2, t3}
SPECIFICATION FairSpec
CHECK_DEADLOCK FALSE
INVARIANTS
  IInv

PROPERTIES
  SelfStopHangs
  GateSpec
  StopEventuallyReturns
  LateHandlerRefused
