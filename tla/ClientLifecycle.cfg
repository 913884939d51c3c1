\* A client with TLS, started three times, with three frames each time.
\* Nobody need start it again.
CONSTANTS
  Stages = 5
  MaxStarts = 3
  MaxFrames = 3
SPECIFICATION FairSpec
CHECK_DEADLOCK FALSE
INVARIANT IInv
PROPERTIES
  QuietStop
  StartIsAnswered
  ThreadEnds
