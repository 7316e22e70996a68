---------------------------- MODULE MCLockOrder ----------------------------
EXTENDS LockOrder, TLC

Symmetric == Permutations(Replier)
=============================================================================
