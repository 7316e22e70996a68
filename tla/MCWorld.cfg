\* Two players, two fds, up to two queued events: safety and refinement.
SPECIFICATION WorldFairSpec
CONSTANTS
  AxisSize = 4
  Player = {1, 2}
  Fd = {5, 6}
  cubes_ <- MCCubes
  exits_ <- MCExits
  reborn_ <- MCReborn
  MaxQueue = 2
INVARIANTS
  WorldTypeOK
  PlayersReachable
PROPERTIES
  PresenceKept
  QueueDrains
