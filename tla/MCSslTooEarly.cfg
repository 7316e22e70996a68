\* Two connections with a reply each in one write pass.
SPECIFICATION SslSpec
CONSTANTS
  Fd = {5, 6}
  MaxConn = 2
  MaxRequests = 2
  MaxBurst = 1
  MaxStalls = 0
INVARIANT
  SentBeforeClose
\* a loop that is over stops
CHECK_DEADLOCK FALSE
