--------------------------- MODULE RedisLockProofs ---------------------------
(***************************************************************************)
(* Proofs about RedisLock for every number of calls, keys and retries.     *)
(***************************************************************************)
EXTENDS RedisLock, TLAPS

(* Exclusion is not inductive: it does not say why a call that works may   *)
(* do so.  It may because the key still holds its uuid, or else because    *)
(* the key expired under it; and its script, the only command that deletes *)
(* a key with its uuid, is sent last.                                      *)
HolderOrOverran ==
  \A c \in Calls :
    /\ pc[c] = "held" => redis[key[c]] = c \/ c \in overran
    /\ <<c, "script">> \in unanswered => pc[c] = "done"

-----------------------------------------------------------------------------
(* The type invariant *)

(* The state functions keep their type: Init and each action of LockNext.  *)
THEOREM LockTypeCorrect == LockSafetySpec => []LockTypeOK
<1>1. LockInit => LockTypeOK
  BY LockAssumption DEF LockInit, LockTypeOK
<1>2. LockTypeOK /\ [LockNext]_lockVars => LockTypeOK'
  <2> SUFFICES ASSUME LockTypeOK, [LockNext]_lockVars
               PROVE  LockTypeOK'
    OBVIOUS
  <2> USE LockAssumption DEF LockTypeOK, Active, Ended, Goto, contexts
  <2>1. ASSUME NEW c \in Calls, Begin(c)
        PROVE  LockTypeOK'
    BY <2>1 DEF Begin
  <2>2. ASSUME NEW c \in Calls, SetNXTakes(c)
        PROVE  LockTypeOK'
    BY <2>2 DEF SetNXTakes, Take
  <2>3. ASSUME NEW c \in Calls, SetNXRefused(c)
        PROVE  LockTypeOK'
    BY <2>3 DEF SetNXRefused, Tries, Take
  <2>4. ASSUME NEW c \in Calls, SetNXFails(c)
        PROVE  LockTypeOK'
    BY <2>4 DEF SetNXFails, Take
  <2>5. ASSUME NEW c \in Calls, LockGivesUp(c)
        PROVE  LockTypeOK'
    BY <2>5 DEF LockGivesUp
  <2>6. ASSUME NEW c \in Calls, Finish(c)
        PROVE  LockTypeOK'
    BY <2>6 DEF Finish
  <2>7. ASSUME NEW c \in Calls, Release(c)
        PROVE  LockTypeOK'
    BY <2>7 DEF Release, Unlock, UnlockFails, DeleteIfOwn
  <2>8. ASSUME NEW c \in Calls, Cancel(c) \/ Crash(c)
        PROVE  LockTypeOK'
    BY <2>8 DEF Cancel, Crash
  <2>9. ASSUME NEW k \in Keys, Expire(k)
        PROVE  LockTypeOK'
    BY <2>9 DEF Expire
  <2>10. ASSUME NEW c \in Calls, RedisIsLate(c)
         PROVE  LockTypeOK'
    BY <2>10 DEF RedisIsLate, LosesReply, StraySetNX, StrayScript, Take,
                 DeleteIfOwn
  <2>11. CASE UNCHANGED lockVars
    BY <2>11 DEF lockVars
  <2> QED
    BY <2>1, <2>2, <2>3, <2>4, <2>5, <2>6, <2>7, <2>8, <2>9, <2>10, <2>11
       DEF LockNext, LockLoop
<1> QED
  BY <1>1, <1>2, PTL DEF LockSafetySpec

-----------------------------------------------------------------------------
(* Exclusion *)

(* A step that takes a free key disturbs no call that works under it with  *)
(* its own uuid: for such a call the key is not free.                      *)
LEMMA TakeKeepsHolders ==
  ASSUME LockTypeOK, HolderOrOverran,
         NEW c \in Calls, Free(c), Take(c),
         NEW d \in Calls, pc[d] = "held"
  PROVE  redis'[key[d]] = d \/ d \in overran
BY LockAssumption DEF LockTypeOK, HolderOrOverran, Free, Take

(* Each step of the lock keeps HolderOrOverran.                            *)
LEMMA HolderStep ==
  ASSUME LockTypeOK, HolderOrOverran, [LockNext]_lockVars
  PROVE  HolderOrOverran'
<1> USE DEF LockTypeOK, HolderOrOverran, Goto, contexts
<1>1. ASSUME NEW c \in Calls,
             \/ Begin(c) \/ SetNXRefused(c) \/ SetNXFails(c)
             \/ LockGivesUp(c) \/ Finish(c) \/ UnlockFails(c)
             \/ Cancel(c) \/ Crash(c) \/ LosesReply(c)
      PROVE  HolderOrOverran'
  <2>1. /\ UNCHANGED <<redis, key, overran>>
        /\ \A d \in Calls : pc'[d] = "held" => pc[d] = "held"
    BY <1>1 DEF Begin, SetNXRefused, SetNXFails, LockGivesUp, Finish,
                UnlockFails, Cancel, Crash, LosesReply
  <2>2. ASSUME NEW d \in Calls, <<d, "script">> \in unanswered'
        PROVE  pc'[d] = "done"
    <3>1. CASE UnlockFails(c)
      BY <2>2, <3>1 DEF UnlockFails
    <3>2. CASE LosesReply(c)
      BY <2>2, <3>2 DEF LosesReply
    <3>3. CASE ~UnlockFails(c) /\ ~LosesReply(c)
      BY <1>1, <2>2, <3>3 DEF Begin, SetNXRefused, SetNXFails, LockGivesUp,
         Finish, Cancel, Crash, Tries, Active
    <3> QED
      BY <3>1, <3>2, <3>3
  <2> QED
    BY <2>1, <2>2
<1>2. ASSUME NEW c \in Calls, SetNXTakes(c)
      PROVE  HolderOrOverran'
  <2>1. redis'[key[c]] = c
    BY <1>2 DEF SetNXTakes, Take
  <2> QED
    BY <1>2, <2>1, TakeKeepsHolders DEF SetNXTakes, Tries
<1>3. ASSUME NEW c \in Calls, StraySetNX(c)
      PROVE  HolderOrOverran'
  BY <1>3, TakeKeepsHolders DEF StraySetNX
<1>4. ASSUME NEW c \in Calls, Unlock(c) \/ StrayScript(c)
      PROVE  HolderOrOverran'
  <2>1. pc[c] # "held"
    BY <1>4 DEF Unlock, StrayScript
  <2>2. ASSUME NEW d \in Calls, pc'[d] = "held", d \notin overran
        PROVE  redis'[key[d]] = d
    <3>1. d # c /\ pc[d] = "held" /\ redis[key[d]] = d
      BY <1>4, <2>1, <2>2 DEF Unlock, StrayScript
    <3> QED
      BY <1>4, <3>1 DEF Unlock, StrayScript, DeleteIfOwn
  <2>3. \A d \in Calls : <<d, "script">> \in unanswered' => pc'[d] = "done"
    BY <1>4 DEF Unlock, StrayScript
  <2> QED
    BY <1>4, <2>2, <2>3 DEF Unlock, StrayScript
<1>5. ASSUME NEW k \in Keys, Expire(k)
      PROVE  HolderOrOverran'
  BY <1>5, LockAssumption DEF Expire
<1>6. CASE UNCHANGED lockVars
  BY <1>6 DEF lockVars
<1> QED
  BY <1>1, <1>2, <1>3, <1>4, <1>5, <1>6
     DEF LockNext, LockLoop, Release, RedisIsLate

(* A call at work holds the key with its own uuid, or its lease expired.   *)
THEOREM HolderCorrect == LockSafetySpec => []HolderOrOverran
<1>1. LockInit => HolderOrOverran
  BY DEF LockInit, HolderOrOverran
<1>2. LockTypeOK /\ HolderOrOverran /\ [LockNext]_lockVars => HolderOrOverran'
  BY HolderStep
<1> QED
  BY <1>1, <1>2, LockTypeCorrect, PTL DEF LockSafetySpec

(* Mutual exclusion up to the time to live.                                *)
THEOREM ExclusionHolds == LockSafetySpec => []Exclusion
<1>1. HolderOrOverran => Exclusion
  BY DEF HolderOrOverran, Exclusion, Overlap
<1> QED
  BY <1>1, HolderCorrect, PTL

-----------------------------------------------------------------------------
(* Ownership of a key *)

OwnerStep ==
  \A k \in Keys :
    redis[k] # NoHolder /\ redis'[k] # redis[k] =>
      /\ redis'[k] = NoHolder
      /\ \A c \in Calls : pc'[c] # pc[c] => c = redis[k]

(* Only an expiry or the owner's own script removes a key.                 *)
THEOREM OwnershipHolds == LockSafetySpec => OnlyOwnerDeletes
<1>1. ASSUME LockTypeOK, [LockNext]_lockVars
      PROVE  OwnerStep
  <2> USE <1>1 DEF LockTypeOK
  <2>1. ASSUME NEW c \in Calls, LockLoop(c)
        PROVE  OwnerStep
    BY <2>1 DEF LockLoop, SetNXTakes, SetNXRefused, SetNXFails, LockGivesUp,
                Free, Take, OwnerStep
  <2>2. ASSUME NEW c \in Calls, Release(c)
        PROVE  OwnerStep
    BY <2>2 DEF Release, Unlock, UnlockFails, DeleteIfOwn, Goto, OwnerStep
  <2>3. ASSUME NEW c \in Calls, Begin(c) \/ Finish(c) \/ Cancel(c) \/ Crash(c)
        PROVE  OwnerStep
    BY <2>3 DEF Begin, Finish, Cancel, Crash, OwnerStep
  <2>4. ASSUME NEW k \in Keys, Expire(k)
        PROVE  OwnerStep
    BY <2>4 DEF Expire, OwnerStep
  <2>5. ASSUME NEW c \in Calls, RedisIsLate(c)
        PROVE  OwnerStep
    BY <2>5 DEF RedisIsLate, LosesReply, StraySetNX, StrayScript, Free, Take,
                DeleteIfOwn, OwnerStep
  <2>6. CASE UNCHANGED lockVars
    BY <2>6 DEF lockVars, OwnerStep
  <2> QED
    BY <2>1, <2>2, <2>3, <2>4, <2>5, <2>6 DEF LockNext
<1>2. LockTypeOK /\ [LockNext]_lockVars => [OwnerStep]_lockVars
  BY <1>1
<1> QED
  BY <1>2, LockTypeCorrect, PTL DEF LockSafetySpec, OnlyOwnerDeletes, OwnerStep

-----------------------------------------------------------------------------
(* Keys left behind *)

(* The owner of a key still has to run its script, or some fault will or   *)
(* did keep it from doing so.  A call in the loop of Lock owns a key only  *)
(* by a command whose reply it lost.                                       *)
OwnersRelease ==
  \A k \in Keys, c \in Calls :
    redis[k] = c => /\ key[c] = k
                    /\ pc[c] \in {"held", "release"} \/ Unlucky(c)

LEMMA OwnersReleaseStep ==
  ASSUME LockTypeOK, OwnersRelease, [LockNext]_lockVars
  PROVE  OwnersRelease'
<1> USE DEF LockTypeOK, OwnersRelease, Unlucky, Goto, contexts
<1>1. ASSUME NEW c \in Calls,
             \/ Begin(c) \/ SetNXRefused(c) \/ SetNXFails(c)
             \/ LockGivesUp(c) \/ Finish(c) \/ UnlockFails(c)
             \/ Cancel(c) \/ Crash(c) \/ LosesReply(c)
      PROVE  OwnersRelease'
  BY <1>1 DEF Begin, SetNXRefused, SetNXFails, LockGivesUp, Finish,
              UnlockFails, Cancel, Crash, LosesReply, Tries, Active
<1>2. ASSUME NEW c \in Calls, SetNXTakes(c) \/ StraySetNX(c)
      PROVE  OwnersRelease'
  BY <1>2, LockAssumption DEF SetNXTakes, StraySetNX, Take, Tries
<1>3. ASSUME NEW c \in Calls, Unlock(c) \/ StrayScript(c)
      PROVE  OwnersRelease'
  BY <1>3, LockAssumption DEF Unlock, StrayScript, DeleteIfOwn
<1>4. ASSUME NEW k \in Keys, Expire(k)
      PROVE  OwnersRelease'
  BY <1>4, LockAssumption DEF Expire
<1>5. CASE UNCHANGED lockVars
  BY <1>5 DEF lockVars
<1> QED
  BY <1>1, <1>2, <1>3, <1>4, <1>5
     DEF LockNext, LockLoop, Release, RedisIsLate

(* A key is left behind by a fault only: a call that locks, works and      *)
(* unlocks without one takes its key away.                                 *)
THEOREM LeftByFaults == LockSafetySpec => []OnlyFaultsLeaveKeys
<1>1. LockInit => OwnersRelease
  BY LockAssumption DEF LockInit, OwnersRelease
<1>2. LockTypeOK /\ OwnersRelease /\ [LockNext]_lockVars => OwnersRelease'
  BY OwnersReleaseStep
<1>3. OwnersRelease => OnlyFaultsLeaveKeys
  BY DEF OwnersRelease, OnlyFaultsLeaveKeys, Ended
<1> QED
  BY <1>1, <1>2, <1>3, LockTypeCorrect, PTL DEF LockSafetySpec
=============================================================================
