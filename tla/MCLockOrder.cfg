\* Three logins answered at the same time.
SPECIFICATION LockSpec
CONSTANTS
  Replier = {r1, r2, r3}
SYMMETRY Symmetric
INVARIANT
  NoCircularWait
