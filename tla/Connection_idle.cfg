\* The claim of server_ws.hpp:336, with one io thread and one other.
CONSTANTS
  Data = {d1}
  Pongs = {p1, p2}
  Closes = {c1, c2}
  IoThreads = {t1}
  AppThreads = {u}
  RequestTimeout = TRUE
  IdleTimeout = TRUE
  MaxReads = 2
SPECIFICATION Spec
CHECK_DEADLOCK FALSE
INVARIANT IdleGuardsWrite
