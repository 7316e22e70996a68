\* Two connections that log in as one user, with packets left over.
SPECIFICATION GameSpec
CONSTANTS
  AxisSize = 3
  Player = {1}
  Fd = {5, 6}
  cubes_ <- MCCubes
  exits_ <- MCExits
  reborn_ <- MCReborn
  MaxQueue = 1
  User = {1}
  PlayerOf <- MCPlayerOf
  Command = {100}
  MaxAccept = 1
  MaxLogin = 2
  MaxRaw = 3
  MaxFault = 0
INVARIANT OnlyGranted
\* a process that an exception ended stops, and a server loop that is over
CHECK_DEADLOCK FALSE
