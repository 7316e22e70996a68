\* A client that logs in as two users and leaves.
SPECIFICATION GameSpec
CONSTANTS
  AxisSize = 3
  Player = {1, 2}
  Fd = {5}
  cubes_ <- MCCubes
  exits_ <- MCExits
  reborn_ <- MCReborn
  MaxQueue = 1
  User = {1, 2}
  PlayerOf <- MCPlayerOf
  Command = {100}
  MaxAccept = 1
  MaxLogin = 2
  MaxRaw = 1
  MaxFault = 0
INVARIANT LoginsOpen
\* a process that an exception ended stops, and a server loop that is over
CHECK_DEADLOCK FALSE
