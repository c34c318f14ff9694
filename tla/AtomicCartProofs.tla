-------------------------- MODULE AtomicCartProofs --------------------------
(***************************************************************************)
(* While leases and statements do not outlive the calls, the repository is *)
(* an AtomicCart, for any number of users, products and calls: the two     *)
(* statements of AddItem, with whatever happens between them, look like    *)
(* one step, the one that changes the cart.                                *)
(***************************************************************************)
EXTENDS CartRepositoryProofs

(* Nothing is late ... *)
OnTime == overran = {} /\ inFlight = {} /\ stray = {}

(* ... and a call that has not finished its work has had no effect yet and *)
(* no answer.                                                              *)
OpenUntilDone ==
  \A c \in Calls :
    /\ pc[c] \in {"idle", "acquire", "held"} => c \notin applied
    /\ pc[c] \in {"idle", "acquire", "held"} /\ req[c].op # "GetCart"
         => reply[c] = "none"

LEMMA OnTimeStep ==
  ASSUME OnTime, [Timely]_repoVars
  PROVE  OnTime'
<1>1. CASE UNCHANGED repoVars
  BY <1>1 DEF OnTime, repoVars, lockVars, contexts, repoOnly, writes
<1>2. CASE Timely
  <2>1. UNCHANGED <<overran, inFlight>>
    BY <1>2 DEF Timely
  <2>2. \A c \in Calls : ~LateWrite(c)
    BY DEF OnTime, LateWrite
  <2>3. stray' = stray
    BY <1>2, <2>2 DEF Timely, RepoNext, Call, Locking, LockError, Work,
       UpdateOne, AddItemGoesOn, NotFound, UpdateFails, Unanswered, Unlocking,
       GetCart, CallCancelled, CallCrashes, LockIsLate, KeyExpires, repoOnly,
       writes
  <2> QED
    BY <2>1, <2>3 DEF OnTime
<1> QED
  BY <1>1, <1>2

LEMMA OpenStep ==
  ASSUME RepoInv, OnTime, OpenUntilDone, [RepoNext]_repoVars
  PROVE  OpenUntilDone'
<1> USE DEF RepoInv, RepoTypeOK, LockTypeOK, ReadsStayIdle, OpenUntilDone, Goto
<1>1. ASSUME NEW c \in Calls, Call(c) \/ Locking(c) \/ LockError(c)
      PROVE  OpenUntilDone'
  BY <1>1 DEF Call, Locking, LockError, Begin, SetNXTakes, SetNXRefused,
     SetNXFails, LockGivesUp, Tries, Return, repoOnly, writes
<1>2. ASSUME NEW c \in Calls, Work(c)
      PROVE  OpenUntilDone'
  BY <1>2 DEF Work, UpdateOne, AddItemGoesOn, NotFound, UpdateFails,
     Unanswered, Executes, Finish, Return, lockVars, writes
<1>3. ASSUME NEW c \in Calls, Unlocking(c) \/ CallCancelled(c)
      PROVE  OpenUntilDone'
  BY <1>3 DEF Unlocking, CallCancelled, Release, Unlock, UnlockFails, Cancel,
     repoOnly, writes
<1>4. ASSUME NEW c \in Calls, CallCrashes(c)
      PROVE  OpenUntilDone'
  BY <1>4 DEF CallCrashes, Crash, Unanswered, Executes, writes
<1>5. ASSUME NEW c \in Calls, GetCart(c)
      PROVE  OpenUntilDone'
  BY <1>5 DEF GetCart, Return, lockVars, writes
<1>6. ASSUME RedisActs
      PROVE  OpenUntilDone'
  BY <1>6, RedisAlone DEF repoOnly, writes
<1>7. CASE UNCHANGED repoVars
  BY <1>7 DEF repoVars, lockVars, repoOnly, writes
<1>8. \A c \in Calls : ~LateWrite(c)
  BY DEF OnTime, LateWrite
<1> QED
  BY <1>1, <1>2, <1>3, <1>4, <1>5, <1>6, <1>7, <1>8 DEF RepoNext, RedisActs

-----------------------------------------------------------------------------
(* The statement that takes effect *)

(* The operators of the instance are those of this module. *)
LEMMA SameStore ==
  ASSUME NEW cart, NEW p, NEW q
  PROVE  /\ Atomic!Exists(cart) <=> Exists(cart)
         /\ Atomic!HasItem(cart, p) <=> HasItem(cart, p)
         /\ Atomic!Incremented(cart, p, q) = Incremented(cart, p, q)
         /\ Atomic!Pushed(cart, p, q) = Pushed(cart, p, q)
         /\ Atomic!Pulled(cart, p) = Pulled(cart, p)
         /\ Atomic!Replaced(cart, p, q) = Replaced(cart, p, q)
         /\ Atomic!Cleared(cart) = Cleared(cart)
         /\ Atomic!Decodable(cart) <=> Decodable(cart)
<1>1. Atomic!Exists(cart) <=> Exists(cart)
  BY DEF Atomic!Exists, Exists
<1>2. Atomic!HasItem(cart, p) <=> HasItem(cart, p)
  BY DEF Atomic!HasItem, HasItem, Atomic!Exists, Exists
<1>3. Atomic!Incremented(cart, p, q) = Incremented(cart, p, q)
  BY <1>2, Zenon DEF Atomic!Incremented, Incremented
<1>4. Atomic!Pushed(cart, p, q) = Pushed(cart, p, q)
  BY <1>1, Zenon DEF Atomic!Pushed, Pushed, Atomic!EmptyCart, EmptyCart
<1>5. Atomic!Pulled(cart, p) = Pulled(cart, p)
  BY <1>1, Zenon DEF Atomic!Pulled, Pulled
<1>6. Atomic!Replaced(cart, p, q) = Replaced(cart, p, q)
  BY <1>2, Zenon DEF Atomic!Replaced, Replaced
<1>7. Atomic!Cleared(cart) = Cleared(cart)
  BY <1>1, Zenon DEF Atomic!Cleared, Cleared, Atomic!EmptyCart, EmptyCart
<1>8. Atomic!Decodable(cart) <=> Decodable(cart)
  BY DEF Atomic!Decodable, Decodable
<1> QED
  BY <1>1, <1>2, <1>3, <1>4, <1>5, <1>6, <1>7, <1>8

(* A matched statement of a call at work does what its request asks for: a *)
(* push only comes when the cart still lacks the product.                  *)
LEMMA StatementIsResult ==
  ASSUME RepoInv, SingleEntries, OnTime, NEW c \in Calls, pc[c] = "held",
         Pending(c).matched
  PROVE  Atomic!Possible(c) /\ Pending(c).cart = Atomic!Result(c)
<1> DEFINE r    == req[c]
           cart == carts[r.user]
<1>1. /\ r.user \in Users /\ r.product \in Products
      /\ r.op \in Ops \ {"GetCart"}
      /\ step[c] \in {"inc", "push"}
  BY RepoAssumption DEF RepoInv, RepoTypeOK, ReadsStayIdle, Request
<1>2. /\ Atomic!CartOf(c) = cart /\ CartOf(c) = cart
      /\ \A q : Statement(q, cart).cart = cart
  BY DEF Atomic!CartOf, CartOf, Statement
<1>3. CASE r.op = "AddItem" /\ step[c] = "inc"
  <2>1. /\ Pending(c).matched = HasItem(cart, r.product)
        /\ Pending(c).cart = Incremented(cart, r.product, r.quantity)
    BY <1>2, <1>3, Zenon DEF Pending, AddItemInc, Statement
  <2> QED
    BY <1>2, <1>3, <2>1, SameStore DEF Atomic!Possible, Atomic!Result
<1>4. CASE r.op = "AddItem" /\ step[c] = "push"
  <2>1. Pending(c).cart = Pushed(cart, r.product, r.quantity)
    BY <1>2, <1>4 DEF Pending, AddItemPush, Statement
  <2>2. Count(cart, r.product) = 0
    BY <1>1, <1>4 DEF OnTime, SingleEntries, Excused, AboutToPush, Pushes, Adds
  <2>3. ~HasItem(cart, r.product)
    BY <1>1, <2>2, CountIsNat DEF RepoInv, RepoTypeOK, CartsTypeOK, Documents
  <2> QED
    BY <1>2, <1>4, <2>1, <2>3, SameStore DEF Atomic!Possible, Atomic!Result
<1>5. CASE r.op = "UpdateItem"
  <2>1. /\ Pending(c).matched = HasItem(cart, r.product)
        /\ Pending(c).cart = Replaced(cart, r.product, r.quantity)
    BY <1>2, <1>5 DEF Pending, UpdateItem, Statement
  <2> QED
    BY <1>2, <1>5, <2>1, SameStore DEF Atomic!Possible, Atomic!Result
<1>6. CASE r.op = "RemoveItem"
  <2>1. /\ Pending(c).matched = Exists(cart)
        /\ Pending(c).cart = Pulled(cart, r.product)
    BY <1>2, <1>6 DEF Pending, RemoveItem, Statement
  <2> QED
    BY <1>2, <1>6, <2>1, SameStore DEF Atomic!Possible, Atomic!Result
<1>7. CASE r.op = "ClearCart"
  <2>1. Pending(c).matched = Exists(cart) /\ Pending(c).cart = Cleared(cart)
    BY <1>2, <1>7 DEF Pending, ClearCart, Statement
  <2> QED
    BY <1>2, <1>7, <2>1, SameStore DEF Atomic!Possible, Atomic!Result
<1> QED
  BY <1>1, <1>3, <1>4, <1>5, <1>6, <1>7 DEF Ops

LEMMA ExecutesPerforms ==
  ASSUME RepoInv, SingleEntries, OnTime, OpenUntilDone, NEW c \in Calls,
         pc[c] = "held", Executes(c), req' = req,
         \/ reply' = reply
         \/ \E a \in {"ok", "error"} : Return(c, a)
  PROVE  Atomic!Perform(c)
<1>1. /\ Atomic!Possible(c)
      /\ Pending(c).cart = Atomic!Result(c)
  BY StatementIsResult DEF Executes
<1>2. /\ req[c].op # "GetCart"
      /\ reply[c] = "none" /\ c \notin applied
      /\ reply \in [Calls -> Replies]
  BY DEF RepoInv, RepoTypeOK, ReadsStayIdle, OpenUntilDone
<1>3. \E a \in {"ok", "error", "none"} : reply' = [reply EXCEPT ![c] = a]
  <2>1. CASE reply' = reply
    BY <1>2, <2>1
  <2>2. CASE \E a \in {"ok", "error"} : Return(c, a)
    BY <2>2 DEF Return
  <2> QED
    BY <2>1, <2>2
<1>4. carts' = [carts EXCEPT ![req[c].user] = Atomic!Result(c)]
  BY <1>1 DEF Executes
<1>5. applied' = applied \cup {c}
  BY DEF Executes
<1> QED
  BY <1>1, <1>2, <1>3, <1>4, <1>5
     DEF Atomic!Perform, Atomic!Open, Atomic!Answered

(* Each step of the repository is one of the atomic cart, or none.         *)
LEMMA StepIsAtomic ==
  ASSUME RepoInv, SingleEntries, OnTime, OpenUntilDone, [Timely]_repoVars
  PROVE  Atomic!Next \/ UNCHANGED Atomic!vars
<1> USE DEF Atomic!vars
<1>1. ASSUME NEW c \in Calls, LockError(c)
      PROVE  Atomic!Next
  <2>1. Atomic!Fail(c)
    BY <1>1 DEF LockError, SetNXFails, LockGivesUp, Tries, Return, writes,
       RepoInv, ReadsStayIdle, OpenUntilDone, Atomic!Fail, Atomic!Open,
       Atomic!Answered
  <2> QED
    BY <2>1 DEF Atomic!Next
<1>2. ASSUME NEW c \in Calls, UpdateOne(c)
      PROVE  Atomic!Next
  <2>1. Atomic!Perform(c)
    BY <1>2, ExecutesPerforms DEF UpdateOne, Finish
  <2> QED
    BY <2>1 DEF Atomic!Next
<1>3. ASSUME NEW c \in Calls, NotFound(c)
      PROVE  Atomic!Next
  <2>1. ~Atomic!Possible(c)
    <3>1. /\ req[c].op \in {"RemoveItem", "UpdateItem", "ClearCart"}
          /\ ~Pending(c).matched
      BY <1>3, RepoAssumption DEF NotFound, Finish, RepoInv, RepoTypeOK,
         ReadsStayIdle, Request, Ops
    <3> QED
      BY <3>1, SameStore DEF Pending, RemoveItem, UpdateItem, ClearCart,
         Statement, CartOf, Atomic!CartOf, Atomic!Possible
  <2>2. Atomic!Miss(c)
    BY <1>3, <2>1 DEF NotFound, Finish, Return, writes, RepoInv,
       ReadsStayIdle, OpenUntilDone, Atomic!Miss, Atomic!Open, Atomic!Answered
  <2> QED
    BY <2>2 DEF Atomic!Next
<1>4. ASSUME NEW c \in Calls, UpdateFails(c), inFlight' = inFlight
      PROVE  Atomic!Next
  <2>1. pc[c] = "held" /\ req' = req /\ Return(c, "error")
    BY <1>4 DEF UpdateFails, Finish
  <2>2. CASE Executes(c)
    BY <2>1, <2>2, ExecutesPerforms DEF Atomic!Next
  <2>3. CASE UNCHANGED <<carts, applied>>
    <3>1. Atomic!Fail(c)
      BY <2>1, <2>3 DEF Return, RepoInv, ReadsStayIdle, OpenUntilDone,
         Atomic!Fail, Atomic!Open, Atomic!Answered
    <3> QED
      BY <3>1 DEF Atomic!Next
  <2> QED
    BY <1>4, <2>2, <2>3 DEF UpdateFails, Unanswered, writes
<1>5. ASSUME NEW c \in Calls, CallCrashes(c), inFlight' = inFlight
      PROVE  Atomic!Next \/ UNCHANGED Atomic!vars
  <2>1. req' = req /\ reply' = reply
    BY <1>5 DEF CallCrashes
  <2>2. CASE pc[c] = "held" /\ Executes(c)
    BY <2>1, <2>2, ExecutesPerforms DEF Atomic!Next
  <2>3. CASE UNCHANGED <<carts, applied>>
    BY <2>1, <2>3
  <2> QED
    BY <1>5, <2>2, <2>3 DEF CallCrashes, Unanswered, writes
<1>6. ASSUME NEW c \in Calls, GetCart(c)
      PROVE  Atomic!Next
  <2>1. /\ Atomic!Open(c) /\ req[c].op = "GetCart"
        /\ UNCHANGED <<carts, req, applied>>
    BY <1>6 DEF GetCart, writes, Atomic!Open, RepoInv, RepoTypeOK,
       ReadsStayIdle, OpenUntilDone
  <2>2. Atomic!Possible(c) <=> Exists(CartOf(c))
    BY <2>1, SameStore DEF Atomic!Possible, Atomic!CartOf, CartOf
  <2>3. Atomic!Decodable(Atomic!CartOf(c)) <=> Decodable(CartOf(c))
    BY SameStore DEF Atomic!CartOf, CartOf
  <2>4. Atomic!Read(c) \/ Atomic!Miss(c) \/ Atomic!Fail(c)
    BY <1>6, <2>1, <2>2, <2>3 DEF GetCart, Return, Atomic!Read, Atomic!Miss,
       Atomic!Fail, Atomic!Answered
  <2> QED
    BY <2>4 DEF Atomic!Next
<1>7. ASSUME NEW c \in Calls,
             \/ Call(c) \/ Locking(c) \/ AddItemGoesOn(c) \/ Unlocking(c)
             \/ CallCancelled(c)
      PROVE  UNCHANGED Atomic!vars
  BY <1>7 DEF Call, Locking, AddItemGoesOn, Unlocking, CallCancelled,
     repoOnly, writes
<1>8. ASSUME RedisActs
      PROVE  UNCHANGED Atomic!vars
  BY <1>8, RedisAlone DEF repoOnly, writes
<1>9. CASE UNCHANGED repoVars
  BY <1>9 DEF repoVars, repoOnly, writes
<1>10. \A c \in Calls : ~LateWrite(c)
  BY DEF OnTime, LateWrite
<1> QED
  BY <1>1, <1>2, <1>3, <1>4, <1>5, <1>6, <1>7, <1>8, <1>9, <1>10
     DEF Timely, RepoNext, RedisActs, Work

(* As long as no lease ends during the work and no statement outlives its  *)
(* call, every method of the repository takes effect in one step, at most  *)
(* once, and is answered from it; AddItem included, with its two UpdateOne.*)
THEOREM RepoRefinesAtomicCart == TimelySpec => RefinesAtomicCart
<1>1. TimelySpec => RepoSafetySpec
  <2>1. [Timely]_repoVars => [RepoNext]_repoVars
    BY DEF Timely
  <2> QED
    BY <2>1, PTL DEF TimelySpec, RepoSafetySpec
<1>2. RepoInit => OnTime /\ OpenUntilDone /\ Atomic!Init
  BY DEF RepoInit, LockInit, OnTime, OpenUntilDone, Atomic!Init, CartsInit,
         Atomic!CartsInit
<1>3. RepoInv /\ OnTime /\ OpenUntilDone /\ [Timely]_repoVars
        => OnTime' /\ OpenUntilDone'
  BY OnTimeStep, OpenStep DEF Timely
<1>4. RepoInv /\ SingleEntries /\ OnTime /\ OpenUntilDone /\ [Timely]_repoVars
        => [Atomic!Next]_Atomic!vars
  BY StepIsAtomic
<1> QED
  BY <1>1, <1>2, <1>3, <1>4, RepoInvariant, SingleEntriesHold, PTL
     DEF TimelySpec, RefinesAtomicCart, Atomic!Spec
=============================================================================
