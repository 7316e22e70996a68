\* One fd used by two connections, two users, two logins, full sockets and a
\* failing call.  Without world commands, which game_overlap has.
SPECIFICATION GameFairSpec
CONSTANTS
  AxisSize = 3
  Player = {1, 2}
  Fd = {5}
  cubes_ <- MCCubes
  exits_ <- MCExits
  reborn_ <- MCReborn
  MaxQueue = 1
  User = {1, 2}
  PlayerOf <- MCPlayerOf
  Command = {}
  MaxAccept = 2
  MaxLogin = 2
  MaxRaw = 1
  MaxFault = 1
INVARIANT GameTypeOK
PROPERTIES
  SessionStable
  ClosingReplyCloses
\* a process that an exception ended stops, and a server loop that is over
CHECK_DEADLOCK FALSE
