---------------------------- MODULE MCRedisLock ----------------------------
(* TLC instance of RedisLock.                                              *)
EXTENDS RedisLock, FiniteSets, TLC

CONSTANT MaxUnlucky   \* bound: calls with a fault

FewUnlucky == Cardinality({c \in Calls : Unlucky(c)}) <= MaxUnlucky

MCLockSpec == LockInit /\ [][LockNext /\ FewUnlucky']_lockVars /\ LockFairness
=============================================================================
