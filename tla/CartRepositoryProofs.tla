------------------------ MODULE CartRepositoryProofs ------------------------
(***************************************************************************)
(* Proofs about CartRepository for any sets of users, products, calls and  *)
(* requests: it follows the lock protocol, hence inherits Exclusion, and   *)
(* lists a product twice only when a lease or a statement outlived a call. *)
(***************************************************************************)
EXTENDS CartRepository, RedisLockProofs, CartStoreProofs

(* Steps of Redis on its own: an expiry, a command without a reply.        *)
RedisActs == \/ \E c \in Calls : LockIsLate(c)
             \/ \E k \in Keys : KeyExpires(k)

(* They move no call and write no cart.                                    *)
LEMMA RedisAlone ==
  ASSUME RedisActs
  PROVE  /\ UNCHANGED <<pc, key, attempt, repoOnly>>
         /\ overran \subseteq overran'
BY DEF RedisActs, LockIsLate, RedisIsLate, LosesReply, StraySetNX, StrayScript,
       KeyExpires, Expire, contexts

-----------------------------------------------------------------------------
(* The repository follows the lock protocol *)

(* Each step of the repository is a step of RedisLock or leaves the lock   *)
(* alone.                                                                  *)
LEMMA RepoStepIsLockStep == [RepoNext]_repoVars => [LockNext]_lockVars
<1> SUFFICES ASSUME [RepoNext]_repoVars
             PROVE  [LockNext]_lockVars
  OBVIOUS
<1>1. ASSUME NEW c \in Calls, Call(c) \/ Locking(c) \/ LockError(c)
      PROVE  LockNext
  BY <1>1 DEF Call, Locking, LockError, LockNext, LockLoop
<1>2. ASSUME NEW c \in Calls, Work(c)
      PROVE  LockNext \/ UNCHANGED lockVars
  BY <1>2 DEF Work, UpdateOne, AddItemGoesOn, NotFound, UpdateFails, LockNext
<1>3. ASSUME NEW c \in Calls, Unlocking(c) \/ CallCancelled(c) \/ CallCrashes(c)
      PROVE  LockNext
  BY <1>3 DEF Unlocking, CallCancelled, CallCrashes, LockNext
<1>4. ASSUME NEW c \in Calls, GetCart(c) \/ LateWrite(c)
      PROVE  UNCHANGED lockVars
  BY <1>4 DEF GetCart, LateWrite
<1>5. ASSUME RedisActs
      PROVE  LockNext
  BY <1>5 DEF RedisActs, LockIsLate, KeyExpires, LockNext
<1>6. CASE UNCHANGED repoVars
  BY <1>6 DEF repoVars
<1> QED
  BY <1>1, <1>2, <1>3, <1>4, <1>5, <1>6 DEF RepoNext, RedisActs

(* The methods of the repository use the lock as internal/lock intends.    *)
THEOREM RepoFollowsLock == RepoSafetySpec => FollowsLockProtocol
<1>1. RepoInit => LockInit
  BY DEF RepoInit
<1> QED
  BY <1>1, RepoStepIsLockStep, PTL
     DEF RepoSafetySpec, FollowsLockProtocol, LockSafetySpec

(* Two methods work on one cart only after a lease ran out (inherited from *)
(* the lock).                                                              *)
THEOREM RepoExclusion == RepoSafetySpec => [](LockTypeOK /\ Exclusion)
BY RepoFollowsLock, LockTypeCorrect, ExclusionHolds, PTL DEF FollowsLockProtocol

-----------------------------------------------------------------------------
(* The type invariant.  A statement of GetCart would be none of Pending, so *)
(* the invariant has to say that only the other methods reach a statement. *)

ReadsStayIdle ==
  \A c \in Calls : pc[c] # "idle" \/ c \in inFlight => req[c].op # "GetCart"

StepsInOrder ==
  \A c \in Calls : pc[c] \in {"idle", "acquire"} => step[c] = "inc"

RepoInv == RepoTypeOK /\ ReadsStayIdle /\ StepsInOrder

Pushes(c) == req[c].op = "AddItem" /\ step[c] = "push"

(* A statement leaves a document, and only a push adds an entry: one, of   *)
(* the call's own product, in the call's own cart.                         *)
LEMMA ExecutesCounts ==
  ASSUME RepoTypeOK, NEW c \in Calls, req[c].op # "GetCart", Executes(c)
  PROVE  /\ carts' \in [Users -> Documents]
         /\ \A u \in Users, p \in Products :
              \/ Count(carts'[u], p) <= Count(carts[u], p)
              \/ /\ Pushes(c) /\ Adds(c, u, p)
                 /\ Count(carts'[u], p) = Count(carts[u], p) + 1
<1> DEFINE r    == req[c]
           cart == carts[r.user]
           new  == Pending(c).cart
<1>1. /\ r.op \in Ops /\ r.user \in Users /\ r.product \in Products
      /\ r.quantity \in Nat \ {0}
  BY RepoAssumption, StoreAssumption DEF RepoTypeOK, Request
<1>2. carts \in [Users -> Documents] /\ cart \in Documents
  BY <1>1 DEF RepoTypeOK, CartsTypeOK, Documents
<1>3. \A p \in Products : Count(cart, p) \in Nat
  BY <1>2, CountIsNat
<1>4. /\ new \in Documents
      /\ \A p \in Products :
           \/ Count(new, p) <= Count(cart, p)
           \/ Pushes(c) /\ p = r.product /\ Count(new, p) = Count(cart, p) + 1
  <2> USE <1>1, <1>2, <1>3
  <2> HIDE DEF r, cart
  <2>1. CASE r.op = "AddItem" /\ step[c] = "inc"
    <3>1. new = Incremented(cart, r.product, r.quantity)
      BY <2>1 DEF r, cart, Pending, AddItemInc, Statement, CartOf
    <3> QED
      BY <3>1, IncrementedKeepsCount
  <2>2. CASE r.op = "AddItem" /\ step[c] = "push"
    <3>1. new = Pushed(cart, r.product, r.quantity)
      BY <2>2 DEF r, cart, Pending, AddItemPush, Statement, CartOf
    <3>2. Pushes(c)
      BY <2>2 DEF r, Pushes
    <3> QED
      BY <3>1, <3>2, PushedCounts
  <2>3. CASE r.op = "RemoveItem"
    <3>1. new = Pulled(cart, r.product)
      BY <2>3 DEF r, cart, Pending, RemoveItem, Statement, CartOf
    <3> QED
      BY <3>1, PulledCounts
  <2>4. CASE r.op = "UpdateItem"
    <3>1. new = Replaced(cart, r.product, r.quantity)
      BY <2>4 DEF r, cart, Pending, UpdateItem, Statement, CartOf
    <3> QED
      BY <3>1, ReplacedKeepsCount
  <2>5. CASE r.op = "ClearCart"
    <3>1. new = Cleared(cart)
      BY <2>5 DEF r, cart, Pending, ClearCart, Statement, CartOf
    <3> QED
      BY <3>1, ClearedCounts
  <2>6. step[c] \in {"inc", "push"} /\ r.op # "GetCart"
    BY DEF RepoTypeOK, r
  <2> QED
    BY <2>1, <2>2, <2>3, <2>4, <2>5, <2>6 DEF Ops
<1>5. carts' = [carts EXCEPT ![r.user] = new]
  BY DEF Executes
<1> HIDE DEF new
<1>6. carts' \in [Users -> Documents]
  BY <1>1, <1>2, <1>4, <1>5
<1>7. ASSUME NEW u \in Users, NEW p \in Products
      PROVE  \/ Count(carts'[u], p) <= Count(carts[u], p)
             \/ /\ Pushes(c) /\ Adds(c, u, p)
                /\ Count(carts'[u], p) = Count(carts[u], p) + 1
  <2>1. CASE u = r.user
    <3>1. carts'[u] = new /\ carts[u] = cart
      BY <1>1, <1>2, <1>5, <2>1
    <3>2. Pushes(c) /\ p = r.product => Adds(c, u, p)
      BY <2>1 DEF Pushes, Adds
    <3> QED
      BY <1>4, <3>1, <3>2
  <2>2. CASE u # r.user
    <3>1. carts'[u] = carts[u]
      BY <1>1, <1>2, <1>5, <2>2
    <3>2. Count(carts[u], p) \in Nat
      BY <1>2, CountIsNat
    <3> QED
      BY <3>1, <3>2
  <2> QED
    BY <2>1, <2>2
<1> QED
  BY <1>6, <1>7

(* Each step keeps RepoInv; that of LockTypeOK comes from RepoExclusion.   *)
LEMMA RepoInvStep ==
  ASSUME RepoInv, LockTypeOK', [RepoNext]_repoVars
  PROVE  RepoInv'
<1> USE DEF RepoInv, ReadsStayIdle, StepsInOrder
<1>1. ASSUME NEW c \in Calls, UNCHANGED carts \/ Executes(c),
             req[c].op # "GetCart"
      PROVE  CartsTypeOK'
  BY <1>1, ExecutesCounts DEF RepoTypeOK, CartsTypeOK, Documents
<1>2. ASSUME NEW c \in Calls, Call(c) \/ Locking(c) \/ LockError(c)
      PROVE  RepoInv'
  BY <1>2 DEF Call, Locking, LockError, Begin, SetNXTakes, SetNXRefused, SetNXFails,
              LockGivesUp, Tries, Goto, Return, repoOnly, writes, RepoTypeOK,
              CartsTypeOK, LockTypeOK, Replies
<1>3. ASSUME NEW c \in Calls, Work(c)
      PROVE  RepoInv'
  <2>1. req[c].op # "GetCart" /\ pc[c] = "held"
    BY <1>3 DEF Work, UpdateOne, AddItemGoesOn, NotFound, UpdateFails, Finish
  <2>2. CartsTypeOK'
    <3>1. UNCHANGED carts \/ Executes(c)
      BY <1>3 DEF Work, UpdateOne, AddItemGoesOn, NotFound, UpdateFails, Unanswered
    <3> QED
      BY <1>1, <2>1, <3>1
  <2>3. /\ reply' \in [Calls -> Replies] /\ step' \in [Calls -> {"inc", "push"}]
        /\ UNCHANGED <<req, key>>
    BY <1>3 DEF Work, UpdateOne, AddItemGoesOn, NotFound, UpdateFails, Finish,
                Return, RepoTypeOK, Replies, lockVars
  <2>4. /\ inFlight' \in SUBSET (inFlight \cup {c})
        /\ applied' \in SUBSET Calls /\ stray' = stray /\ applied \subseteq applied'
    BY <1>3 DEF Work, UpdateOne, AddItemGoesOn, NotFound, UpdateFails, Unanswered,
                Executes, RepoTypeOK, writes
  <2>5. \A d \in Calls : /\ pc'[d] \in {"idle", "acquire"} => pc[d] = pc'[d] /\ d # c
                         /\ d # c => pc'[d] = pc[d] /\ step'[d] = step[d]
    BY <1>3, <2>1 DEF Work, UpdateOne, AddItemGoesOn, NotFound, UpdateFails, Finish,
                Goto, lockVars, RepoTypeOK, LockTypeOK
  <2>6. RepoTypeOK'
    BY <2>2, <2>3, <2>4 DEF RepoTypeOK
  <2> QED
    BY <2>1, <2>3, <2>4, <2>5, <2>6
<1>4. ASSUME NEW c \in Calls, Unlocking(c) \/ CallCancelled(c)
      PROVE  RepoInv'
  BY <1>4 DEF Unlocking, CallCancelled, Release, Unlock, UnlockFails, Cancel, Active,
              Goto, repoOnly, writes, RepoTypeOK, CartsTypeOK, LockTypeOK
<1>5. ASSUME NEW c \in Calls, CallCrashes(c)
      PROVE  RepoInv'
  <2>1. /\ req[c].op # "GetCart"
        /\ UNCHANGED <<req, step, reply, key, stray>>
        /\ pc' = [pc EXCEPT ![c] = "crashed"]
    BY <1>5 DEF CallCrashes, Crash, Active, Goto, Unanswered, Executes, writes
  <2>2. CartsTypeOK'
    <3>1. UNCHANGED carts \/ Executes(c)
      BY <1>5 DEF CallCrashes, Unanswered
    <3> QED
      BY <1>1, <2>1, <3>1
  <2>3. /\ inFlight' \in SUBSET (inFlight \cup {c})
        /\ applied' \in SUBSET Calls /\ applied \subseteq applied'
    BY <1>5 DEF CallCrashes, Unanswered, Executes, RepoTypeOK, writes
  <2>4. RepoTypeOK'
    BY <2>1, <2>2, <2>3 DEF RepoTypeOK
  <2> QED
    BY <2>1, <2>3, <2>4 DEF RepoTypeOK, LockTypeOK
<1>6. ASSUME NEW c \in Calls, LateWrite(c)
      PROVE  RepoInv'
  <2>1. /\ req[c].op # "GetCart"
        /\ inFlight' = inFlight \ {c}
        /\ UNCHANGED <<req, step, reply, pc, key>>
    BY <1>6 DEF LateWrite, lockVars
  <2>2. CartsTypeOK'
    <3>1. UNCHANGED carts \/ Executes(c)
      BY <1>6 DEF LateWrite
    <3> QED
      BY <1>1, <2>1, <3>1
  <2>3. applied' \in SUBSET Calls /\ stray' \in SUBSET applied'
    BY <1>6 DEF LateWrite, Executes, RepoTypeOK
  <2>4. RepoTypeOK'
    BY <2>1, <2>2, <2>3 DEF RepoTypeOK
  <2> QED
    BY <2>1, <2>4
<1>7. ASSUME NEW c \in Calls, GetCart(c)
      PROVE  RepoInv'
  BY <1>7 DEF GetCart, Return, lockVars, writes, RepoTypeOK, CartsTypeOK, Replies
<1>8. ASSUME RedisActs
      PROVE  RepoInv'
  BY <1>8, RedisAlone DEF repoOnly, writes, RepoTypeOK, CartsTypeOK
<1>9. CASE UNCHANGED repoVars
  BY <1>9 DEF repoVars, repoOnly, writes, lockVars, RepoTypeOK, CartsTypeOK
<1> QED
  BY <1>2, <1>3, <1>4, <1>5, <1>6, <1>7, <1>8, <1>9 DEF RepoNext, RedisActs

LEMMA RepoInvStarts == RepoInit => RepoInv
BY RepoAssumption, LockAssumption
   DEF RepoInit, RepoInv, RepoTypeOK, ReadsStayIdle, StepsInOrder, CartsTypeOK,
       CartsInit, LockInit, LockTypeOK, Active, Ended, Replies

(* RepoInv holds in every state.                                           *)
LEMMA RepoInvariant == RepoSafetySpec => []RepoInv
<1>1. RepoInit => RepoInv
  BY RepoInvStarts
<1>2. RepoInv /\ LockTypeOK' /\ [RepoNext]_repoVars => RepoInv'
  BY RepoInvStep
<1> QED
  BY <1>1, <1>2, RepoExclusion, PTL DEF RepoSafetySpec

(* Every statement leaves a document of the shape internal/domain declares *)
(* and each method keeps its arguments, step and reply in their ranges.    *)
THEOREM RepoTypeCorrect == RepoSafetySpec => []RepoTypeOK
BY RepoInvariant, PTL DEF RepoInv

-----------------------------------------------------------------------------
(* DuplicateOnlyAfterOverrun.  It is not inductive: it does not say why a  *)
(* call that is about to push may do so.  It may because the cart does not *)
(* list its product, as its own $inc has found out and the lock has kept   *)
(* true, unless the lease of an AddItem of that product expired.           *)

Excused(u, p) == \E c \in overran \cup stray : Adds(c, u, p)

AboutToPush(c) == pc[c] = "held" /\ Pushes(c)

SingleEntries ==
  \A u \in Users, p \in Products :
    \/ Excused(u, p)
    \/ /\ Count(carts[u], p) <= 1
       /\ \A c \in Calls : AboutToPush(c) /\ Adds(c, u, p) => Count(carts[u], p) = 0

(* What every step leaves to the histories, and so to the excuses.         *)
Grows == /\ UNCHANGED req
         /\ overran \subseteq overran'
         /\ stray \subseteq stray'

(* The excuse of a duplicate is never taken back.                          *)
LEMMA ExcusesStay ==
  ASSUME Grows, NEW u \in Users, NEW p \in Products, Excused(u, p)
  PROVE  Excused(u, p)'
BY DEF Grows, Excused, Adds

(* A step that writes no cart and brings no call to its push.              *)
LEMMA QuietStep ==
  ASSUME SingleEntries, Grows, UNCHANGED carts,
         \A c \in Calls : AboutToPush(c)' => AboutToPush(c)
  PROVE  SingleEntries'
<1> SUFFICES ASSUME NEW u \in Users, NEW p \in Products, ~Excused(u, p)'
             PROVE  /\ Count(carts'[u], p) <= 1
                    /\ \A c \in Calls : AboutToPush(c)' /\ Adds(c, u, p)'
                                          => Count(carts'[u], p) = 0
  BY DEF SingleEntries, Count, Exists
<1>1. ~Excused(u, p)
  BY ExcusesStay
<1>2. \A c \in Calls : Adds(c, u, p)' <=> Adds(c, u, p)
  BY DEF Adds, Grows
<1> QED
  BY <1>1, <1>2 DEF SingleEntries

(* The step that executes the statement of c while c works under the lock. *)
(* Any other call that is about to push the same product works under the   *)
(* lock of the same cart: by Exclusion one of the two leases has expired.  *)
LEMMA WorkStep ==
  ASSUME RepoInv, Exclusion, SingleEntries, Grows,
         NEW c \in Calls, pc[c] = "held", Executes(c), pc'[c] # "held",
         \A d \in Calls : AboutToPush(d)' => AboutToPush(d)
  PROVE  SingleEntries'
<1>1. req[c].op # "GetCart"
  BY DEF RepoInv, ReadsStayIdle
<1>2. carts \in [Users -> Documents] /\ carts' \in [Users -> Documents]
  BY <1>1, ExecutesCounts DEF RepoInv, RepoTypeOK, CartsTypeOK, Documents
<1> SUFFICES ASSUME NEW u \in Users, NEW p \in Products, ~Excused(u, p)'
             PROVE  /\ Count(carts'[u], p) <= 1
                    /\ \A d \in Calls : AboutToPush(d)' /\ Adds(d, u, p)'
                                          => Count(carts'[u], p) = 0
  BY DEF SingleEntries, Count, Exists
<1>3. ~Excused(u, p)
  BY ExcusesStay
<1>4. /\ Count(carts[u], p) <= 1
      /\ \A d \in Calls : AboutToPush(d) /\ Adds(d, u, p) => Count(carts[u], p) = 0
  BY <1>3 DEF SingleEntries
<1>5. Count(carts[u], p) \in Nat /\ Count(carts'[u], p) \in Nat
  BY <1>2, CountIsNat
<1>6. \A d \in Calls : Adds(d, u, p)' <=> Adds(d, u, p)
  BY DEF Adds, Grows
<1>7. CASE Count(carts'[u], p) <= Count(carts[u], p)
  BY <1>4, <1>5, <1>6, <1>7
<1>8. CASE /\ Pushes(c) /\ Adds(c, u, p)
           /\ Count(carts'[u], p) = Count(carts[u], p) + 1
  <2>1. Count(carts[u], p) = 0
    BY <1>4, <1>8 DEF AboutToPush
  <2>2. ASSUME NEW d \in Calls, AboutToPush(d)', Adds(d, u, p)'
        PROVE  FALSE
    <3>1. AboutToPush(d) /\ Adds(d, u, p)
      BY <1>6, <2>2
    <3>2. d # c
      BY <2>2 DEF AboutToPush
    <3>3. key[c] = key[d]
      BY <1>8, <3>1 DEF RepoInv, RepoTypeOK, Adds
    <3>4. c \in overran \/ d \in overran
      BY <3>1, <3>2, <3>3 DEF Exclusion, Overlap, AboutToPush
    <3> QED
      BY <1>3, <1>8, <3>1, <3>4 DEF Excused
  <2> QED
    BY <1>8, <2>1, <2>2
<1> QED
  BY <1>1, <1>7, <1>8, ExecutesCounts DEF RepoInv

(* AddItem goes from $inc to $push: its filter has just matched nothing.   *)
LEMMA GoesOnStep ==
  ASSUME RepoInv, SingleEntries, NEW c \in Calls, AddItemGoesOn(c)
  PROVE  SingleEntries'
<1> SUFFICES ASSUME NEW u \in Users, NEW p \in Products, ~Excused(u, p),
                    NEW d \in Calls, AboutToPush(d)', Adds(d, u, p)
             PROVE  Count(carts[u], p) = 0
  BY DEF AddItemGoesOn, SingleEntries, lockVars, contexts, writes, Excused, Adds,
         Count, Exists
<1>1. CASE d = c
  <2>1. ~HasItem(carts[u], p)
    BY <1>1 DEF AddItemGoesOn, Adds, Pending, AddItemInc, Statement, CartOf
  <2>2. carts[u] \in Documents
    BY DEF RepoInv, RepoTypeOK, CartsTypeOK, Documents
  <2> QED
    BY <2>1, <2>2, CountIsNat
<1>2. CASE d # c
  <2>1. AboutToPush(d)
    BY <1>2 DEF AddItemGoesOn, AboutToPush, Pushes, RepoInv, RepoTypeOK, lockVars
  <2> QED
    BY <2>1 DEF SingleEntries
<1> QED
  BY <1>1, <1>2

(* A statement executed after its call was over excuses what it does.      *)
LEMMA LateWriteStep ==
  ASSUME RepoInv, SingleEntries, Grows, NEW c \in Calls, Executes(c),
         req[c].op # "GetCart", stray' = stray \cup {c},
         \A d \in Calls : AboutToPush(d)' => AboutToPush(d)
  PROVE  SingleEntries'
<1> SUFFICES ASSUME NEW u \in Users, NEW p \in Products, ~Excused(u, p)'
             PROVE  /\ Count(carts'[u], p) <= 1
                    /\ \A d \in Calls : AboutToPush(d)' /\ Adds(d, u, p)'
                                          => Count(carts'[u], p) = 0
  BY DEF SingleEntries, Count, Exists
<1>1. ~Excused(u, p) /\ ~Adds(c, u, p)
  BY ExcusesStay DEF Excused, Adds, Grows
<1>2. Count(carts'[u], p) <= Count(carts[u], p)
  BY <1>1, ExecutesCounts DEF RepoInv
<1>3. Count(carts[u], p) \in Nat /\ Count(carts'[u], p) \in Nat
  BY ExecutesCounts, CountIsNat DEF RepoInv, RepoTypeOK, CartsTypeOK, Documents
<1>4. \A d \in Calls : Adds(d, u, p)' <=> Adds(d, u, p)
  BY DEF Adds, Grows
<1> QED
  BY <1>1, <1>2, <1>3, <1>4 DEF SingleEntries

(* Each step of the repository keeps SingleEntries.                        *)
LEMMA SingleEntriesStep ==
  ASSUME RepoInv, Exclusion, SingleEntries, [RepoNext]_repoVars
  PROVE  SingleEntries'
<1>1. ASSUME NEW c \in Calls, Call(c) \/ Locking(c) \/ LockError(c)
      PROVE  SingleEntries'
  <2>1. Grows /\ UNCHANGED carts
    BY <1>1 DEF Call, Locking, LockError, Begin, SetNXTakes, SetNXRefused,
                SetNXFails, LockGivesUp, contexts, repoOnly, writes,
                Grows
  <2>2. ASSUME NEW d \in Calls, AboutToPush(d)'
        PROVE  AboutToPush(d)
    BY <1>1, <2>2 DEF Call, Locking, LockError, Begin, SetNXTakes, SetNXRefused,
                SetNXFails, LockGivesUp, Tries, Goto, repoOnly, AboutToPush, Pushes,
                RepoInv, StepsInOrder, RepoTypeOK, LockTypeOK
  <2> QED
    BY <2>1, <2>2, QuietStep
<1>2. ASSUME NEW c \in Calls, UpdateOne(c) \/ NotFound(c) \/ UpdateFails(c)
      PROVE  SingleEntries'
  <2>1. Grows /\ pc[c] = "held"
    BY <1>2 DEF UpdateOne, NotFound, UpdateFails, Unanswered, Finish,
                contexts, writes, Grows
  <2>2. ASSUME NEW d \in Calls
        PROVE  /\ AboutToPush(d)' => AboutToPush(d)
               /\ pc'[c] # "held"
    BY <1>2 DEF UpdateOne, NotFound, UpdateFails, Finish, Goto,
                AboutToPush, Pushes, RepoInv, RepoTypeOK, LockTypeOK
  <2>3. UNCHANGED carts \/ Executes(c)
    BY <1>2 DEF UpdateOne, NotFound, UpdateFails, Unanswered
  <2> QED
    BY <2>1, <2>2, <2>3, QuietStep, WorkStep
<1>3. ASSUME NEW c \in Calls, AddItemGoesOn(c)
      PROVE  SingleEntries'
  BY <1>3, GoesOnStep
<1>4. ASSUME NEW c \in Calls, Unlocking(c) \/ CallCancelled(c) \/ GetCart(c)
      PROVE  SingleEntries'
  <2>1. Grows /\ UNCHANGED carts
    BY <1>4 DEF Unlocking, CallCancelled, GetCart, Release, Unlock, UnlockFails,
                Cancel, lockVars, contexts, repoOnly, writes, Grows
  <2>2. ASSUME NEW d \in Calls, AboutToPush(d)'
        PROVE  AboutToPush(d)
    BY <1>4, <2>2 DEF Unlocking, CallCancelled, GetCart, Release, Unlock,
                UnlockFails, Cancel, Goto, lockVars, repoOnly, AboutToPush, Pushes,
                RepoInv, RepoTypeOK, LockTypeOK
  <2> QED
    BY <2>1, <2>2, QuietStep
<1>5. ASSUME NEW c \in Calls, CallCrashes(c)
      PROVE  SingleEntries'
  <2>1. Grows
    BY <1>5 DEF CallCrashes, Crash, Unanswered, contexts, writes, Grows
  <2>2. ASSUME NEW d \in Calls
        PROVE  /\ AboutToPush(d)' => AboutToPush(d)
               /\ pc'[c] # "held"
    BY <1>5 DEF CallCrashes, Crash, Goto, AboutToPush, Pushes, RepoInv, RepoTypeOK,
                LockTypeOK
  <2>3. UNCHANGED carts \/ (pc[c] = "held" /\ Executes(c))
    BY <1>5 DEF CallCrashes, Unanswered
  <2> QED
    BY <2>1, <2>2, <2>3, QuietStep, WorkStep
<1>6. ASSUME NEW c \in Calls, LateWrite(c)
      PROVE  SingleEntries'
  <2>1. Grows /\ req[c].op # "GetCart"
    BY <1>6 DEF LateWrite, lockVars, contexts, Grows, RepoInv, ReadsStayIdle
  <2>2. \A d \in Calls : AboutToPush(d)' => AboutToPush(d)
    BY <1>6 DEF LateWrite, lockVars, AboutToPush, Pushes
  <2>3. UNCHANGED carts \/ (Executes(c) /\ stray' = stray \cup {c})
    BY <1>6 DEF LateWrite
  <2> QED
    BY <2>1, <2>2, <2>3, QuietStep, LateWriteStep
<1>7. ASSUME RedisActs
      PROVE  SingleEntries'
  BY <1>7, QuietStep, RedisAlone DEF repoOnly, writes, Grows, AboutToPush,
                         Pushes
<1>8. CASE UNCHANGED repoVars
  BY <1>8, QuietStep DEF repoVars, repoOnly, writes, lockVars, contexts, Grows,
                         AboutToPush, Pushes
<1> QED
  BY <1>1, <1>2, <1>3, <1>4, <1>5, <1>6, <1>7, <1>8 DEF RepoNext, RedisActs, Work

LEMMA SingleEntriesStart == RepoInit => SingleEntries
BY DEF RepoInit, LockInit, CartsInit, SingleEntries, AboutToPush, Count, Exists

(* SingleEntries holds in every state.                                     *)
LEMMA SingleEntriesHold == RepoSafetySpec => []SingleEntries
<1>1. RepoInit => SingleEntries
  BY SingleEntriesStart
<1>2. RepoInv /\ Exclusion /\ SingleEntries /\ [RepoNext]_repoVars
        => SingleEntries'
  BY SingleEntriesStep
<1> QED
  BY <1>1, <1>2, RepoInvariant, RepoExclusion, PTL DEF RepoSafetySpec

LEMMA SingleExplains == RepoInv /\ SingleEntries => DuplicateOnlyAfterOverrun
<1> SUFFICES ASSUME RepoInv, SingleEntries,
                    NEW u \in Users, NEW p \in Products,
                    Exists(carts[u]), Len(carts[u][p]) > 1
             PROVE  Excused(u, p)
  BY DEF DuplicateOnlyAfterOverrun, Excused
<1>1. Count(carts[u], p) \in Nat /\ ~(Count(carts[u], p) <= 1)
  BY CountIsNat DEF Count, RepoInv, RepoTypeOK, CartsTypeOK, Documents
<1> QED
  BY <1>1 DEF SingleEntries

(* A cart lists a product twice only after the lease of an AddItem of that *)
(* product expired during its work, or its statement outlived it.          *)
THEOREM DuplicatesExplained == RepoSafetySpec => []DuplicateOnlyAfterOverrun
BY RepoInvariant, SingleEntriesHold, SingleExplains, PTL

-----------------------------------------------------------------------------
(* NoLostAddition.  It needs to know that the statement of a call is       *)
(* executed at most once: while it may still be, it has not been.          *)

Working(c) == pc[c] \in {"idle", "acquire", "held"}

AtMostOnce ==
  \A c \in Calls : /\ Working(c) => c \notin applied \cup inFlight
                   /\ c \notin inFlight \cap applied

UnitsAddUp ==
  \A u \in Users, p \in Products :
    OnlyAdded(u, p) =>
      /\ IsFiniteSet(Units(carts[u], p)) /\ IsFiniteSet(AddedUnits(u, p))
      /\ Cardinality(Units(carts[u], p)) = Cardinality(AddedUnits(u, p))

(* The only way a step writes the store.                                   *)
LEMMA RepoWrites ==
  ASSUME [RepoNext]_repoVars
  PROVE  /\ req' = req
         /\ \/ UNCHANGED <<carts, applied>>
            \/ \E c \in Calls : /\ pc[c] = "held" \/ c \in inFlight
                                /\ Executes(c)
<1>1. ASSUME NEW c \in Calls, Call(c) \/ Locking(c) \/ LockError(c)
      PROVE  UNCHANGED <<req, carts, applied>>
  BY <1>1 DEF Call, Locking, LockError, repoOnly, writes
<1>2. ASSUME NEW c \in Calls, Work(c)
      PROVE  /\ req' = req
             /\ UNCHANGED <<carts, applied>> \/ (pc[c] = "held" /\ Executes(c))
  BY <1>2 DEF Work, UpdateOne, AddItemGoesOn, NotFound, UpdateFails, Finish,
     Unanswered, writes
<1>3. ASSUME NEW c \in Calls, Unlocking(c) \/ CallCancelled(c) \/ GetCart(c)
      PROVE  UNCHANGED <<req, carts, applied>>
  BY <1>3 DEF Unlocking, CallCancelled, GetCart, repoOnly, writes
<1>4. ASSUME NEW c \in Calls, CallCrashes(c)
      PROVE  /\ req' = req
             /\ UNCHANGED <<carts, applied>> \/ (pc[c] = "held" /\ Executes(c))
  BY <1>4 DEF CallCrashes, Unanswered, writes
<1>5. ASSUME NEW c \in Calls, LateWrite(c)
      PROVE  /\ req' = req
             /\ \/ UNCHANGED <<carts, applied>>
                \/ c \in inFlight /\ Executes(c)
  BY <1>5 DEF LateWrite
<1>6. ASSUME RedisActs
      PROVE  UNCHANGED <<req, carts, applied>>
  BY <1>6, RedisAlone DEF repoOnly, writes
<1>7. CASE UNCHANGED repoVars
  BY <1>7 DEF repoVars, repoOnly, writes
<1> QED
  BY <1>1, <1>2, <1>3, <1>4, <1>5, <1>6, <1>7 DEF RepoNext, RedisActs

LEMMA AtMostOnceStep ==
  ASSUME RepoInv, AtMostOnce, [RepoNext]_repoVars
  PROVE  AtMostOnce'
<1> USE DEF RepoInv, RepoTypeOK, LockTypeOK, AtMostOnce, Working, Goto
<1>1. ASSUME NEW c \in Calls, Call(c) \/ Locking(c) \/ LockError(c)
      PROVE  AtMostOnce'
  BY <1>1 DEF Call, Locking, LockError, Begin, SetNXTakes, SetNXRefused,
     SetNXFails, LockGivesUp, Tries, repoOnly, writes
<1>2. ASSUME NEW c \in Calls, Work(c)
      PROVE  AtMostOnce'
  BY <1>2 DEF Work, UpdateOne, AddItemGoesOn, NotFound, UpdateFails,
     Unanswered, Executes, Finish, lockVars, writes
<1>3. ASSUME NEW c \in Calls, Unlocking(c) \/ CallCancelled(c) \/ GetCart(c)
      PROVE  AtMostOnce'
  BY <1>3 DEF Unlocking, CallCancelled, GetCart, Release, Unlock,
     UnlockFails, Cancel, lockVars, repoOnly, writes
<1>4. ASSUME NEW c \in Calls, CallCrashes(c)
      PROVE  AtMostOnce'
  BY <1>4 DEF CallCrashes, Crash, Unanswered, Executes, writes
<1>5. ASSUME NEW c \in Calls, LateWrite(c)
      PROVE  AtMostOnce'
  BY <1>5 DEF LateWrite, Executes, lockVars
<1>6. ASSUME RedisActs
      PROVE  AtMostOnce'
  BY <1>6, RedisAlone DEF repoOnly, writes
<1>7. CASE UNCHANGED repoVars
  BY <1>7 DEF repoVars, lockVars, repoOnly, writes
<1> QED
  BY <1>1, <1>2, <1>3, <1>4, <1>5, <1>6, <1>7 DEF RepoNext, RedisActs

(* A statement of an AddItem adds its quantity to its product, once; no    *)
(* other product and no other cart is touched.                             *)
LEMMA AdditionExecuted ==
  ASSUME RepoInv, NEW c \in Calls, Executes(c), req[c].op = "AddItem",
         NEW u \in Users, NEW p \in Products, IsFiniteSet(Units(carts[u], p))
  PROVE  IF Adds(c, u, p)
         THEN /\ IsFiniteSet(Units(carts'[u], p))
              /\ Cardinality(Units(carts'[u], p)) =
                   Cardinality(Units(carts[u], p)) + req[c].quantity
         ELSE Units(carts'[u], p) = Units(carts[u], p)
<1> DEFINE r    == req[c]
           cart == carts[r.user]
           new  == Pending(c).cart
<1>1. /\ r.user \in Users /\ r.product \in Products /\ r.quantity \in Nat \ {0}
      /\ step[c] \in {"inc", "push"}
  BY RepoAssumption, StoreAssumption DEF RepoInv, RepoTypeOK, Request
<1>2. carts \in [Users -> Documents] /\ cart \in Documents
  BY <1>1 DEF RepoInv, RepoTypeOK, CartsTypeOK, Documents
<1>3. carts' = [carts EXCEPT ![r.user] = new]
  BY DEF Executes
<1>4. CASE u # r.user
  BY <1>2, <1>3, <1>4 DEF Adds
<1>5. CASE u = r.user
  <2>1. carts'[u] = new /\ carts[u] = cart
    BY <1>1, <1>2, <1>3, <1>5
  <2>2. Adds(c, u, p) <=> p = r.product
    BY <1>5 DEF Adds
  <2>3. CASE step[c] = "inc"
    <3>1. new = Incremented(cart, r.product, r.quantity)
      BY <2>3 DEF Pending, AddItemInc, Statement, CartOf
    <3>2. HasItem(cart, r.product)
      BY <2>3 DEF Executes, Pending, AddItemInc, Statement, CartOf
    <3> HIDE DEF r, cart, new
    <3>3. CASE p = r.product
      BY <1>1, <1>2, <2>1, <2>2, <3>1, <3>2, <3>3, IncrementedUnits DEF r
    <3>4. CASE p # r.product
      BY <1>1, <1>2, <2>1, <2>2, <3>1, <3>2, <3>4, IncrementedOthers
    <3> QED
      BY <3>3, <3>4
  <2>4. CASE step[c] = "push"
    <3>1. new = Pushed(cart, r.product, r.quantity)
      BY <2>4 DEF Pending, AddItemPush, Statement, CartOf
    <3> HIDE DEF r, cart, new
    <3>2. CASE p = r.product
      BY <1>1, <1>2, <2>1, <2>2, <3>1, <3>2, PushedUnits DEF r
    <3>3. CASE p # r.product
      BY <1>1, <1>2, <2>1, <2>2, <3>1, <3>3, PushedOthers
    <3> QED
      BY <3>2, <3>3
  <2> QED
    BY <1>1, <2>3, <2>4
<1> QED
  BY <1>4, <1>5

(* The statement of another method that does not concern the product.      *)
LEMMA OthersUntouched ==
  ASSUME RepoInv, NEW c \in Calls, Executes(c),
         req[c].op \notin {"AddItem", "GetCart"},
         NEW u \in Users, NEW p \in Products,
         req[c].user = u => req[c].product # p /\ req[c].op # "ClearCart"
  PROVE  Units(carts'[u], p) = Units(carts[u], p)
<1> DEFINE r    == req[c]
           cart == carts[r.user]
           new  == Pending(c).cart
<1>1. /\ r.user \in Users /\ r.product \in Products /\ r.quantity \in Nat \ {0}
      /\ r.op \in {"RemoveItem", "UpdateItem", "ClearCart"}
  BY RepoAssumption, StoreAssumption DEF RepoInv, RepoTypeOK, Request, Ops
<1>2. carts \in [Users -> Documents] /\ cart \in Documents
  BY <1>1 DEF RepoInv, RepoTypeOK, CartsTypeOK, Documents
<1>3. carts' = [carts EXCEPT ![r.user] = new]
  BY DEF Executes
<1>4. CASE u # r.user
  BY <1>2, <1>3, <1>4
<1>5. CASE u = r.user
  <2>1. carts'[u] = new /\ carts[u] = cart
    BY <1>1, <1>2, <1>3, <1>5
  <2>2. CASE r.op = "RemoveItem"
    <3>1. new = Pulled(cart, r.product) /\ p # r.product
      BY <1>5, <2>2 DEF Pending, RemoveItem, Statement, CartOf
    <3> HIDE DEF r, cart, new
    <3> QED
      BY <1>1, <1>2, <2>1, <3>1, PulledOthers
  <2>3. CASE r.op = "UpdateItem"
    <3>1. new = Replaced(cart, r.product, r.quantity) /\ p # r.product
      BY <1>5, <2>3 DEF Pending, UpdateItem, Statement, CartOf
    <3>2. HasItem(cart, r.product)
      BY <2>3 DEF Executes, Pending, UpdateItem, Statement, CartOf
    <3> HIDE DEF r, cart, new
    <3> QED
      BY <1>1, <1>2, <2>1, <3>1, <3>2, ReplacedOthers
  <2> QED
    BY <1>1, <1>5, <2>2, <2>3
<1> QED
  BY <1>4, <1>5

(* A call that has had no effect yet adds its quantity to the additions.   *)
LEMMA AdditionCounted ==
  ASSUME RepoInv, NEW c \in Calls, c \notin applied, req' = req,
         applied' = applied \cup {c}, NEW u \in Users, NEW p \in Products,
         IsFiniteSet(AddedUnits(u, p))
  PROVE  IF Adds(c, u, p)
         THEN /\ IsFiniteSet(AddedUnits(u, p)')
              /\ Cardinality(AddedUnits(u, p)') =
                   Cardinality(AddedUnits(u, p)) + req[c].quantity
         ELSE AddedUnits(u, p)' = AddedUnits(u, p)
<1> DEFINE added == {d \in applied : Adds(d, u, p)}
           block == Block(c, 0, req[c].quantity)
<1>1. {d \in applied : Adds(d, u, p)}' =
        IF Adds(c, u, p) THEN added \cup {c} ELSE added
  BY DEF Adds
<1>2. CASE ~Adds(c, u, p)
  BY <1>1, <1>2 DEF AddedUnits
<1>3. CASE Adds(c, u, p)
  <2>1. 0 \in Nat /\ req[c].quantity \in Nat
    BY RepoAssumption, StoreAssumption DEF RepoInv, RepoTypeOK, Request
  <2>2. AddedUnits(u, p)' = AddedUnits(u, p) \cup block
    <3>1. AddedUnits(u, p)' = UNION {{d} \X (1..req[d].quantity) :
                                       d \in added \cup {c}}
      BY <1>1, <1>3 DEF AddedUnits
    <3>2. block = {c} \X (1..req[c].quantity)
      BY <2>1 DEF Block
    <3> HIDE DEF added, block
    <3>3. AddedUnits(u, p) = UNION {{d} \X (1..req[d].quantity) : d \in added}
      BY DEF AddedUnits, added
    <3> QED
      BY <3>1, <3>2, <3>3, Zenon
  <2>3. AddedUnits(u, p) \cap block = {}
    BY DEF AddedUnits, Block
  <2>4. IsFiniteSet(block) /\ Cardinality(block) = req[c].quantity
    BY <2>1, BlockSize, Zenon
  <2> HIDE DEF block
  <2>5. /\ IsFiniteSet(AddedUnits(u, p) \cup block)
        /\ Cardinality(AddedUnits(u, p) \cup block) =
             Cardinality(AddedUnits(u, p)) + Cardinality(block)
    BY <2>3, <2>4, BlockAdded, Zenon
  <2> QED
    BY <1>3, <2>2, <2>4, <2>5
<1> QED
  BY <1>2, <1>3

(* The step of the store that executes the statement of c keeps the sums   *)
(* equal.                                                                  *)
LEMMA SumsStep ==
  ASSUME RepoInv, AtMostOnce, UnitsAddUp, NEW c \in Calls, req' = req,
         pc[c] = "held" \/ c \in inFlight, Executes(c)
  PROVE  UnitsAddUp'
<1>1. c \notin applied /\ applied' = applied \cup {c} /\ req[c].op # "GetCart"
  BY DEF AtMostOnce, Working, Executes, RepoInv, ReadsStayIdle
<1> SUFFICES ASSUME NEW u \in Users, NEW p \in Products, OnlyAdded(u, p)'
             PROVE  /\ IsFiniteSet(Units(carts[u], p)')
                    /\ IsFiniteSet(AddedUnits(u, p)')
                    /\ Cardinality(Units(carts[u], p)')
                         = Cardinality(AddedUnits(u, p)')
  BY DEF UnitsAddUp
<1>2. OnlyAdded(u, p)
  BY <1>1 DEF OnlyAdded
<1>3. /\ IsFiniteSet(Units(carts[u], p)) /\ IsFiniteSet(AddedUnits(u, p))
      /\ Cardinality(Units(carts[u], p)) = Cardinality(AddedUnits(u, p))
  BY <1>2 DEF UnitsAddUp
<1>4. Units(carts[u], p)' = Units(carts'[u], p)
  BY DEF Units, Exists
<1>5. CASE req[c].op = "AddItem"
  <2>1. CASE Adds(c, u, p)
    BY <1>1, <1>3, <1>4, <1>5, <2>1, AdditionExecuted, AdditionCounted
  <2>2. CASE ~Adds(c, u, p)
    BY <1>1, <1>3, <1>4, <1>5, <2>2, AdditionExecuted, AdditionCounted
  <2> QED
    BY <2>1, <2>2
<1>6. CASE req[c].op # "AddItem"
  <2>1. ~Adds(c, u, p)
    BY <1>6 DEF Adds
  <2>2. req[c].user = u => req[c].product # p /\ req[c].op # "ClearCart"
    BY <1>1, <1>6 DEF OnlyAdded
  <2>3. Units(carts'[u], p) = Units(carts[u], p)
    BY <1>1, <1>6, <2>2, OthersUntouched
  <2> QED
    BY <1>1, <1>3, <1>4, <2>1, <2>3, AdditionCounted
<1> QED
  BY <1>5, <1>6

(* The sums stay equal in every step.                                      *)
LEMMA UnitsAddUpStep ==
  ASSUME RepoInv, AtMostOnce, UnitsAddUp, [RepoNext]_repoVars
  PROVE  UnitsAddUp'
<1>1. req' = req
  BY RepoWrites
<1>2. CASE UNCHANGED <<carts, applied>>
  BY <1>1, <1>2 DEF UnitsAddUp, OnlyAdded, AddedUnits, Adds, Units, Exists
<1>3. ASSUME NEW c \in Calls, pc[c] = "held" \/ c \in inFlight, Executes(c)
      PROVE  UnitsAddUp'
  BY <1>1, <1>3, SumsStep
<1> QED
  BY <1>2, <1>3, RepoWrites

LEMMA SumsStart == RepoInit => AtMostOnce /\ UnitsAddUp
<1> SUFFICES ASSUME RepoInit
             PROVE  AtMostOnce /\ UnitsAddUp
  OBVIOUS
<1>1. AtMostOnce
  BY DEF RepoInit, AtMostOnce
<1>2. \A u \in Users, p \in Products :
        Units(carts[u], p) = {} /\ AddedUnits(u, p) = {}
  BY DEF RepoInit, CartsInit, Units, Exists, AddedUnits
<1>3. IsFiniteSet({})
  BY FS_EmptySet, Zenon
<1> QED
  BY <1>1, <1>2, <1>3, Zenon DEF UnitsAddUp

LEMMA SumsInvariant == RepoSafetySpec => [](AtMostOnce /\ UnitsAddUp)
<1>1. RepoInv /\ AtMostOnce /\ UnitsAddUp /\ [RepoNext]_repoVars
        => AtMostOnce' /\ UnitsAddUp'
  BY AtMostOnceStep, UnitsAddUpStep
<1> QED
  BY <1>1, SumsStart, RepoInvariant, PTL DEF RepoSafetySpec

LEMMA SumsAreAdditions == UnitsAddUp => NoLostAddition
BY DEF UnitsAddUp, NoLostAddition

(* Whatever leases expire and however late a statement is executed, what a *)
(* cart holds of a product to which calls have only added is the sum of    *)
(* the additions that took effect.                                         *)
THEOREM NoAdditionIsLost == RepoSafetySpec => []NoLostAddition
BY SumsInvariant, SumsAreAdditions, PTL

(* GetCart can decode a cart to which calls have only added as long as the *)
(* sum of what they added of each product fits CartItem.Quantity.          *)
THEOREM FittingCartsAreReadable == RepoSafetySpec => []FittingCartsDecode
<1>1. RepoInv /\ UnitsAddUp => FittingCartsDecode
  <2> SUFFICES ASSUME RepoInv, UnitsAddUp, NEW u \in CartsThatFit,
                      Exists(carts[u]), NEW p \in Products,
                      NEW i \in DOMAIN carts[u][p]
               PROVE  carts[u][p][i].quantity <= Int32Max
    BY DEF FittingCartsDecode, Decodable
  <2>1. carts[u] \in Documents /\ carts[u][p] \in Seq(Entry)
    BY DEF CartsThatFit, RepoInv, RepoTypeOK, CartsTypeOK, Documents, Exists,
       Cart
  <2>2. /\ IsFiniteSet(Units(carts[u], p)) /\ IsFiniteSet(AddedUnits(u, p))
        /\ Cardinality(Units(carts[u], p)) = Cardinality(AddedUnits(u, p))
        /\ Cardinality(AddedUnits(u, p)) <= Int32Max
    BY DEF CartsThatFit, UnitsAddUp
  <2>3. carts[u][p][i].quantity <= Cardinality(Units(carts[u], p))
    BY <2>1, <2>2, EntryWithinUnits, Zenon
  <2>4. carts[u][p][i].quantity \in Nat
    <3>1. carts[u][p][i] \in Entry
      BY <2>1
    <3> QED
      BY <3>1 DEF Entry
  <2>5. Cardinality(AddedUnits(u, p)) \in Nat /\ Int32Max \in Nat
    BY <2>2, FS_CardinalityType, StoreAssumption
  <2> HIDE DEF CartsThatFit
  <2> QED
    BY <2>2, <2>3, <2>4, <2>5
<1> QED
  BY <1>1, RepoInvariant, SumsInvariant, PTL
=============================================================================
