------------------------------ MODULE RedisLock ------------------------------
(***************************************************************************)
(* The distributed lock of internal/lock: one Redis key "lock:"+userID per *)
(* user, taken with SET NX and a time to live, released by a script that   *)
(* deletes the key only if it still holds the caller's uuid.               *)
(*                                                                         *)
(* A call is one execution of a locked repository method: Lock, the work,  *)
(* then the deferred Unlock, all with the same context.  Lock draws a new  *)
(* uuid each time, so the call itself stands for its uuid.  Redis and the  *)
(* clock are outside src: they may be unreachable, lose a reply, execute a *)
(* command long after its caller gave up, and expire a key at any moment,  *)
(* whether or not its owner is still at work.                              *)
(***************************************************************************)
EXTENDS Naturals

CONSTANTS Calls,       \* executions of a locked repository method
          Keys,        \* lock keys (one per user)
          MaxRetries,  \* DistributedLock.maxRetries
          NoHolder     \* the value of an absent Redis key

ASSUME LockAssumption == /\ MaxRetries \in Nat
                         /\ NoHolder \notin Calls

VARIABLES redis,      \* redis[k]: whose uuid the key k holds, or NoHolder
          pc,         \* pc[c]: where the goroutine of call c stands
          key,        \* key[c]: the key call c locks; fixed by its request
          attempt,    \* attempt[c]: the loop counter of Lock
          unanswered, \* <<c, cmd>>: c has no reply to cmd, which Redis may
                      \* have executed or may still execute
          cancelled,  \* calls whose context is done
          overran     \* history: calls whose key expired during their work

contexts == <<cancelled, overran>>
lockVars == <<redis, pc, key, attempt, unanswered, contexts>>

(* "acquire": in the loop of Lock; "held": between Lock and the return of  *)
(* the method; "release": in the deferred Unlock; "failed": Lock returned  *)
(* an error, so there is no Unlock; "crashed": its process died.           *)
Active == {"acquire", "held", "release"}
Ended  == {"done", "failed", "crashed"}

LockTypeOK ==
  /\ redis \in [Keys -> Calls \cup {NoHolder}]
  /\ pc \in [Calls -> {"idle"} \cup Active \cup Ended]
  /\ key \in [Calls -> Keys]
  /\ attempt \in [Calls -> 0..MaxRetries]
  /\ unanswered \in SUBSET (Calls \X {"SET", "script"})
  /\ cancelled \in SUBSET Calls
  /\ overran \in SUBSET Calls

LockInit ==
  /\ redis = [k \in Keys |-> NoHolder]
  /\ pc = [c \in Calls |-> "idle"]
  /\ key \in [Calls -> Keys]
  /\ attempt = [c \in Calls |-> 0]
  /\ unanswered = {}
  /\ cancelled = {}
  /\ overran = {}

-----------------------------------------------------------------------------
(* Lock *)

Goto(c, where) == pc' = [pc EXCEPT ![c] = where]

(* SET without NX. *)
AlwaysFree(c) == TRUE

Free(c) == redis[key[c]] = NoHolder
Take(c) == redis' = [redis EXCEPT ![key[c]] = c]

Begin(c) ==
  /\ pc[c] = "idle"
  /\ Goto(c, "acquire")
  /\ UNCHANGED <<redis, key, attempt, unanswered, contexts>>

(* A loop that runs once more than maxRetries. *)
TriesOnceMore(c) ==
  /\ pc[c] = "acquire"
  /\ attempt[c] <= MaxRetries
  /\ c \notin cancelled

(* An iteration of the loop whose context is still live and reaches SetNX. *)
Tries(c) ==
  /\ pc[c] = "acquire"
  /\ attempt[c] < MaxRetries
  /\ c \notin cancelled

SetNXTakes(c) ==
  /\ Tries(c)
  /\ Free(c)
  /\ Take(c)
  /\ Goto(c, "held")
  /\ UNCHANGED <<key, attempt, unanswered, contexts>>

(* The key exists, be it c's own from a command without a reply, which the *)
(* Redis client sends again.  Lock sleeps and loops.                       *)
SetNXRefused(c) ==
  /\ Tries(c)
  /\ ~Free(c)
  /\ attempt' = [attempt EXCEPT ![c] = @ + 1]
  /\ UNCHANGED <<redis, pc, key, unanswered, contexts>>

(* Redis answers with an error, or not at all (LosesReply).                *)
SetNXFails(c) ==
  /\ Tries(c)
  /\ Goto(c, "failed")
  /\ UNCHANGED <<redis, key, attempt, unanswered, contexts>>

(* After the last attempt, a wait for the context to end.                  *)
GivesUpOnContext(c) ==
  /\ pc[c] = "acquire"
  /\ c \in cancelled
  /\ Goto(c, "failed")
  /\ UNCHANGED <<redis, key, attempt, unanswered, contexts>>

(* Lock returns ctx.Err(), or ErrLockNotAcquired when the loop is over.    *)
LockGivesUp(c) ==
  /\ pc[c] = "acquire"
  /\ c \in cancelled \/ attempt[c] = MaxRetries
  /\ Goto(c, "failed")
  /\ UNCHANGED <<redis, key, attempt, unanswered, contexts>>

-----------------------------------------------------------------------------
(* The work of the caller ends, with or without an error; then Unlock      *)

(* A method that does not defer Unlock. *)
ReturnsAtOnce(c) ==
  /\ pc[c] = "held"
  /\ Goto(c, "done")
  /\ UNCHANGED <<redis, key, attempt, unanswered, contexts>>

Finish(c) ==
  /\ pc[c] = "held"
  /\ Goto(c, "release")
  /\ UNCHANGED <<redis, key, attempt, unanswered, contexts>>

(* DEL without the comparison. *)
DeleteAny(c) == redis' = [redis EXCEPT ![key[c]] = NoHolder]

(* A script that compares the value with the name of the key. *)
DeletesNothing(c) == UNCHANGED redis

(* The script runs: compare with the caller's uuid and delete, atomically. *)
DeleteIfOwn(c) ==
  redis' = IF redis[key[c]] = c THEN [redis EXCEPT ![key[c]] = NoHolder]
                                ELSE redis

Unlock(c) ==
  /\ pc[c] = "release"
  /\ c \notin cancelled
  /\ DeleteIfOwn(c)
  /\ Goto(c, "done")
  /\ UNCHANGED <<key, attempt, unanswered, contexts>>

(* The context is done, so that the client refuses to send the script; or  *)
(* Redis does not reply.  The caller's defer drops the error.              *)
UnlockFails(c) ==
  /\ pc[c] = "release"
  /\ Goto(c, "done")
  /\ \/ c \in cancelled /\ UNCHANGED unanswered
     \/ unanswered' = unanswered \cup {<<c, "script">>}
  /\ UNCHANGED <<redis, key, attempt, contexts>>

-----------------------------------------------------------------------------
(* The environment *)

(* The client of the RPC goes away or its deadline passes.                 *)
Cancel(c) ==
  /\ pc[c] \in Active
  /\ c \notin cancelled
  /\ cancelled' = cancelled \cup {c}
  /\ UNCHANGED <<redis, pc, key, attempt, unanswered, overran>>

Crash(c) ==
  /\ pc[c] \in Active
  /\ Goto(c, "crashed")
  /\ UNCHANGED <<redis, key, attempt, unanswered, contexts>>

(* The connection breaks after SET NX was sent. *)
LosesReply(c) ==
  /\ Tries(c)
  /\ unanswered' = unanswered \cup {<<c, "SET">>}
  /\ UNCHANGED <<redis, pc, key, attempt, contexts>>

(* Redis executes a command whose reply does not reach its caller, while   *)
(* it waits, tries again, works or is long gone.  The client may have sent *)
(* several copies.                                                         *)
StraySetNX(c) ==
  /\ <<c, "SET">> \in unanswered
  /\ Free(c)
  /\ Take(c)
  /\ UNCHANGED <<pc, key, attempt, unanswered, contexts>>

StrayScript(c) ==
  /\ <<c, "script">> \in unanswered
  /\ DeleteIfOwn(c)
  /\ UNCHANGED <<pc, key, attempt, unanswered, contexts>>

RedisIsLate(c) == LosesReply(c) \/ StraySetNX(c) \/ StrayScript(c)

(* The time to live of k is over (or Redis lost the key in a restart).     *)
Expire(k) ==
  /\ redis[k] # NoHolder
  /\ redis' = [redis EXCEPT ![k] = NoHolder]
  /\ overran' = IF pc[redis[k]] = "held" THEN overran \cup {redis[k]}
                                         ELSE overran
  /\ UNCHANGED <<pc, key, attempt, unanswered, cancelled>>

-----------------------------------------------------------------------------

LockLoop(c) == \/ SetNXTakes(c)
               \/ SetNXRefused(c)
               \/ SetNXFails(c)
               \/ LockGivesUp(c)

Release(c) == Unlock(c) \/ UnlockFails(c)

LockNext == \/ \E c \in Calls : \/ Begin(c)
                                \/ LockLoop(c)
                                \/ Finish(c)
                                \/ Release(c)
                                \/ Cancel(c)
                                \/ Crash(c)
                                \/ RedisIsLate(c)
            \/ \E k \in Keys : Expire(k)

(* Goroutines are scheduled, the work returns, and every call to Redis is  *)
(* answered or times out.  Nothing forces a call to begin, a context to be *)
(* cancelled, a process to crash or a key to expire.                       *)
LockFairness ==
  \A c \in Calls : /\ WF_lockVars(LockLoop(c))
                   /\ WF_lockVars(Finish(c))
                   /\ WF_lockVars(Release(c))

LockSafetySpec == LockInit /\ [][LockNext]_lockVars

LockSpec == LockSafetySpec /\ LockFairness

-----------------------------------------------------------------------------
(* Properties *)

Overlap(c, d) == /\ c # d
                 /\ pc[c] = "held"
                 /\ pc[d] = "held"
                 /\ key[c] = key[d]

(* Two calls work under the same key only after the lease of one of them   *)
(* expired during its work: neither a stale Unlock, a lost reply, a retry  *)
(* nor a crash lets a second call in (Lock, Unlock and unlockScript).      *)
Exclusion ==
  \A c, d \in Calls : Overlap(c, d) => c \in overran \/ d \in overran

(* A key leaves its owner only to be absent, by expiry or by the owner's   *)
(* own Unlock: no step of another call deletes or replaces it.             *)
OnlyOwnerDeletes ==
  [][\A k \in Keys :
       redis[k] # NoHolder /\ redis'[k] # redis[k] =>
         /\ redis'[k] = NoHolder
         /\ \A c \in Calls : pc'[c] # pc[c] => c = redis[k]]_lockVars

(* The loop of Lock is bounded: each call of it returns, even when the key *)
(* is never released.                                                      *)
LockReturns == \A c \in Calls : pc[c] = "acquire" ~> pc[c] # "acquire"

(* What can go wrong about a call and leave its key behind.                *)
Unlucky(c) == \/ c \in cancelled
              \/ pc[c] = "crashed"
              \/ \E cmd \in {"SET", "script"} : <<c, cmd>> \in unanswered

(* A key outlives its call, and blocks the cart until its time to live is  *)
(* over, only after a cancelled context, a crash or a lost reply: no way   *)
(* through Lock, the work and Unlock forgets it.                           *)
OnlyFaultsLeaveKeys ==
  \A k \in Keys, c \in Calls :
    redis[k] = c /\ pc[c] \in Ended => Unlucky(c)

(* Without such a fault the owner itself frees its key, long work, refused *)
(* attempts of others and their stray commands notwithstanding: nobody has *)
(* to wait for an expiry, which this does not assume to happen.            *)
OwnerFreesKey ==
  \A k \in Keys, c \in Calls : redis[k] = c ~> redis[k] # c \/ Unlucky(c)
=============================================================================
