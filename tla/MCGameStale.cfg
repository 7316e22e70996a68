\* A client that leaves while its login is being answered.
SPECIFICATION GameSpec
CONSTANTS
  AxisSize = 3
  Player = {1}
  Fd = {5}
  cubes_ <- MCCubes
  exits_ <- MCExits
  reborn_ <- MCReborn
  MaxQueue = 1
  User = {1}
  PlayerOf <- MCPlayerOf
  Command = {100}
  MaxAccept = 1
  MaxLogin = 1
  MaxRaw = 1
  MaxFault = 0
INVARIANT SocketsOpen
\* a process that an exception ended stops, and a server loop that is over
CHECK_DEADLOCK FALSE
