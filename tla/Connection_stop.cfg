\* The claim of server_ws.hpp:449, with one io thread.
CONSTANTS
  Data = {d1}
  Pongs = {p1}
  Closes = {c1, c2}
  IoThreads = {t1}
  AppThreads = {u}
  RequestTimeout = TRUE
  IdleTimeout = TRUE
  MaxReads = 1
SPECIFICATION Spec
CHECK_DEADLOCK FALSE
INVARIANT StopClosesAll
