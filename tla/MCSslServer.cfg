\* Two fds, three connections, two reads of up to three requests, a full socket.
SPECIFICATION SslFairSpec
CONSTANTS
  Fd = {5, 6}
  MaxConn = 3
  MaxRequests = 2
  MaxBurst = 3
  MaxStalls = 1
INVARIANTS
  SslTypeOK
  SocketFound
  RepliesForOwner
PROPERTY
  PacketsLeave
\* a loop that is over stops
CHECK_DEADLOCK FALSE
