\* Two connections, two packets of three or four bytes, a buffer of three: a
\* packet goes out whole, in part, also cut within its header, or not at all.
SPECIFICATION StreamFairSpec
CONSTANTS
  Fd = {5, 6}
  Room = 3
  Size = {1, 2}
  MaxSent = 2
  MaxAccept = 2
INVARIANT
  StreamTypeOK
PROPERTIES
  PacketsInOrder
  DeliveredOrClosed
  DoomedCloses
\* a loop that is over stops
CHECK_DEADLOCK FALSE
