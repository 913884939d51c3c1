\* Two io threads, four frames, with an idle timeout.  The system may stop:
\* frames run out, or the owner stops the handlers.  Liveness: no symmetry.
CONSTANTS
  IoThreads = {t1, t2}
  Msgs = {a, b, c, d}
  Silent = {b}
  IdleTimeout = TRUE
SPECIFICATION FairSpec
CHECK_DEADLOCK FALSE
INVARIANTS
  IInv
  OneWriteAtATime
  QueueIsServed
PROPERTIES
  ChannelSpec
  OvertakenOnlyInHand
  EveryCallerTold
