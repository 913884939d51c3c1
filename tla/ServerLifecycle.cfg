\* Both variants of the server, started four times; calls run out.
CONSTANT MaxStarts = 4
SPECIFICATION FairSpec
INVARIANTS
  IInv
  ServerBehindHandlers
  StoppedIsDown
  MapIsCurrent
PROPERTIES
  StopComesBack
  StartIsAnswered
CHECK_DEADLOCK FALSE
