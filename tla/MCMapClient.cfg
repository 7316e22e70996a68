\* Every pair of files and list of global links of MCWorldMap is loaded, and
\* the seven maps of MCMapClient are walked with at most three keys.
SPECIFICATION ClientSpec
CONSTANTS
  AxisSize = 8
  IntSize = 4
  Inputs <- MCInputs
  Garbage = {0, 1}
  AtMark = {"a@"}
  MaxAreaId = 9
  MAX_MOB_COUNT_IN_AREA = 3
  LongAgo = 3
  MaxMoves <- MCMaxMoves
INVARIANTS
  WorldMapTypeOK
  LinksLead
  WalkBack
  AdjacencySound
  MobsFound
  ClientAlive
  TextsOnce
  CarriedOnce
PROPERTIES
  IdleQuiet
  IdleShown
\* a client that does not survive its load, its start, or a walk, stops
CHECK_DEADLOCK FALSE
