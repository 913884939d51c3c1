\* The smallest instance in which a request is refused for its size.
CONSTANTS
  IoThreads = {t1}
  MaxRequests = 1
  MaxParts = 1
  MaxQueue = 1
SPECIFICATION Spec
INVARIANT ContentIsSent
CHECK_DEADLOCK FALSE
