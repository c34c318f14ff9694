---------------------------- MODULE CartApiProofs ----------------------------
(***************************************************************************)
(* Theorems about CartApi for any number of RPCs, users and products: the  *)
(* RPCs use the repository as CartRepository describes, so that all that is*)
(* proved of the repository holds behind the handlers, and a status code   *)
(* tells what became of the request.                                       *)
(***************************************************************************)
EXTENDS CartApi, CartRepositoryProofs

-----------------------------------------------------------------------------
(* Behind the handlers is the repository *)

LEMMA ApiStartsRepo == ApiInit => RepoInit
<1> SUFFICES ASSUME ApiInit
             PROVE  RepoInit
  OBVIOUS
<1>1. \A c \in Calls : rpc[c] \in Rpcs
  BY DEF ApiInit, RpcsInit
<1>2. \A c \in Calls : Admitted(c) => Passed(rpc[c]) \in Requests
  <2> SUFFICES ASSUME NEW c \in Calls, Admitted(c)
               PROVE  Passed(rpc[c]) \in Requests
    OBVIOUS
  <2> DEFINE r == rpc[c]
  <2>1. r \in Rpcs /\ r \in Rpc /\ r.user # NoUser /\ Valid(r)
    BY <1>1, ApiAssumption DEF Admitted, Authenticated
  <2>2. r.op \in Ops /\ r.user \in Users
    BY <2>1 DEF Rpc
  <2>3. r.product \in Products \cup {NoProduct} /\ r.quantity \in Int32
    BY <2>1 DEF Rpc
  <2>4. r.product \in Products
    BY <2>1, <2>2, <2>3, ApiAssumption DEF Ops, Valid, HasProduct
  <2>5. r.quantity \in 1..Int32Max
    <3>1. CASE r.op \in {"AddItem", "UpdateItem"}
      <4>1. r.quantity > 0
        BY <2>1, <3>1 DEF Valid, Positive
      <4> QED
        BY <2>3, <4>1, StoreAssumption DEF Int32
    <3>2. CASE r.op \notin {"AddItem", "UpdateItem"}
      BY <2>1, <3>2, ApiAssumption
    <3> QED
      BY <3>1, <3>2
  <2> QED
    BY <2>2, <2>4, <2>5, ApiAssumption DEF Passed, Request
<1>3. Unused \in Requests
  BY ApiAssumption DEF Unused
<1>4. req \in [Calls -> Requests]
  BY <1>2, <1>3 DEF ApiInit, RpcsInit
<1> QED
  BY <1>4 DEF ApiInit, RpcsInit, RepoInit

LEMMA ApiStepIsRepoStep == [ApiNext]_apiVars => [RepoNext]_repoVars
BY DEF ApiNext, RefuseUnauthenticated, RefuseInvalid, Enter, Respond, Answer,
       Repository, RepoNext, apiVars

(* Every RPC that changes a cart does so by the repository's methods.      *)
LEMMA ApiFollowsRepo == ApiSafetySpec => RepoSafetySpec
BY ApiStartsRepo, ApiStepIsRepoStep, PTL DEF ApiSafetySpec, RepoSafetySpec

-----------------------------------------------------------------------------
(* What a reply of the repository says *)

Untouched(c) == c \notin applied \cup inFlight

RepliesTellEffect ==
  \A c \in Calls :
    /\ pc[c] \in {"idle", "acquire", "held"} => Untouched(c)
    /\ reply[c] = "not_found" => Untouched(c)
    /\ reply[c] = "ok" /\ req[c].op # "GetCart" => c \in applied
    /\ reply[c] # "none" =>
         pc[c] \notin {"acquire", "held"}
           /\ (req[c].op # "GetCart" => pc[c] # "idle")

LEMMA RepliesStep ==
  ASSUME RepoInv, RepliesTellEffect, [RepoNext]_repoVars
  PROVE  RepliesTellEffect'
<1> USE DEF RepoInv, RepoTypeOK, LockTypeOK, ReadsStayIdle, RepliesTellEffect,
            Untouched, Goto
<1>1. ASSUME NEW c \in Calls, Call(c) \/ Locking(c) \/ LockError(c)
      PROVE  RepliesTellEffect'
  BY <1>1 DEF Call, Locking, LockError, Begin, SetNXTakes, SetNXRefused,
     SetNXFails, LockGivesUp, Tries, Return, repoOnly, writes
<1>2. ASSUME NEW c \in Calls, Work(c)
      PROVE  RepliesTellEffect'
  BY <1>2 DEF Work, UpdateOne, AddItemGoesOn, NotFound, UpdateFails,
     Unanswered, Executes, Finish, Return, lockVars, writes
<1>3. ASSUME NEW c \in Calls, Unlocking(c) \/ CallCancelled(c)
      PROVE  RepliesTellEffect'
  BY <1>3 DEF Unlocking, CallCancelled, Release, Unlock, UnlockFails, Cancel,
     Active, repoOnly, writes
<1>4. ASSUME NEW c \in Calls, CallCrashes(c)
      PROVE  RepliesTellEffect'
  BY <1>4 DEF CallCrashes, Crash, Active, Unanswered, Executes, writes
<1>5. ASSUME NEW c \in Calls, GetCart(c)
      PROVE  RepliesTellEffect'
  BY <1>5 DEF GetCart, Return, lockVars, writes
<1>6. ASSUME NEW c \in Calls, LateWrite(c)
      PROVE  RepliesTellEffect'
  BY <1>6 DEF LateWrite, Executes, lockVars
<1>7. ASSUME RedisActs
      PROVE  RepliesTellEffect'
  BY <1>7, RedisAlone DEF repoOnly, writes
<1>8. CASE UNCHANGED repoVars
  BY <1>8 DEF repoVars, lockVars, repoOnly, writes
<1> QED
  BY <1>1, <1>2, <1>3, <1>4, <1>5, <1>6, <1>7, <1>8 DEF RepoNext, RedisActs

LEMMA RepliesHold == RepoSafetySpec => []RepliesTellEffect
<1>1. RepoInit => RepliesTellEffect
  BY DEF RepoInit, LockInit, RepliesTellEffect, Untouched
<1>2. RepoInv /\ RepliesTellEffect /\ [RepoNext]_repoVars => RepliesTellEffect'
  BY RepliesStep
<1> QED
  BY <1>1, <1>2, RepoInvariant, PTL DEF RepoSafetySpec

-----------------------------------------------------------------------------
(* What a status code says *)

ApiInv ==
  /\ rpc \in [Calls -> Rpcs]
  /\ code \in [Calls -> Codes]
  /\ \A c \in Calls :
       /\ Admitted(c) => req[c] = Passed(rpc[c])
       /\ ~Admitted(c) => pc[c] = "idle" /\ reply[c] = "none"
       /\ code[c] = "OK" => Admitted(c) /\ reply[c] = "ok"
       /\ code[c] = "NotFound" => reply[c] = "not_found"
       /\ code[c] = "Unauthenticated" => ~Admitted(c)

LEMMA ApiInvHolds == ApiInit => ApiInv
BY DEF ApiInit, RpcsInit, LockInit, ApiInv, Codes

(* The repository changes nothing of a call that is not admitted, and no   *)
(* reply once it is given.                                                 *)
LEMMA RepositoryStep ==
  ASSUME RepoInv, RepliesTellEffect, ApiInv, Repository, NEW c \in Calls
  PROVE  /\ UNCHANGED <<rpc, code, req>>
         /\ ~Admitted(c) => pc'[c] = pc[c] /\ reply'[c] = reply[c]
         /\ reply[c] # "none" => reply'[c] = reply[c]
<1> USE DEF RepoInv, RepoTypeOK, LockTypeOK, ApiInv, RepliesTellEffect, Goto
<1>1. UNCHANGED <<rpc, code>>
  BY DEF Repository
<1>2. ASSUME NEW d \in Calls, Locking(d) \/ LockError(d)
      PROVE  /\ pc[d] = "acquire" /\ UNCHANGED req
             /\ d # c => pc'[c] = pc[c] /\ reply'[c] = reply[c]
  BY <1>2 DEF Locking, LockError, SetNXTakes, SetNXRefused, SetNXFails,
     LockGivesUp, Tries, Return, repoOnly
<1>3. ASSUME NEW d \in Calls, Work(d)
      PROVE  /\ pc[d] = "held" /\ UNCHANGED req
             /\ d # c => pc'[c] = pc[c] /\ reply'[c] = reply[c]
  BY <1>3 DEF Work, UpdateOne, AddItemGoesOn, NotFound, UpdateFails, Finish,
     Return, lockVars
<1>4. ASSUME NEW d \in Calls,
             Unlocking(d) \/ CallCancelled(d) \/ CallCrashes(d)
      PROVE  /\ pc[d] # "idle" /\ UNCHANGED <<req, reply>>
             /\ d # c => pc'[c] = pc[c]
  BY <1>4 DEF Unlocking, CallCancelled, CallCrashes, Release, Unlock,
     UnlockFails, Cancel, Crash, Active, repoOnly
<1>5. ASSUME NEW d \in Calls, LateWrite(d)
      PROVE  UNCHANGED <<req, reply, pc>>
  BY <1>5 DEF LateWrite, lockVars
<1>6. ASSUME RedisActs
      PROVE  UNCHANGED <<req, reply, pc>>
  BY <1>6, RedisAlone DEF repoOnly
<1>7. ~Admitted(c) => pc[c] = "idle"
  OBVIOUS
<1>8. reply[c] # "none" => pc[c] \notin {"acquire", "held"}
  OBVIOUS
<1>9. \/ RedisActs
      \/ \E d \in Calls :
           \/ Locking(d) \/ LockError(d) \/ Work(d)
           \/ Unlocking(d) \/ CallCancelled(d) \/ CallCrashes(d)
           \/ LateWrite(d)
  BY DEF Repository, RedisActs
<1> QED
  BY <1>1, <1>2, <1>3, <1>4, <1>5, <1>6, <1>7, <1>8, <1>9, Zenon

LEMMA ApiInvStep ==
  ASSUME RepoInv, RepliesTellEffect, ApiInv, [ApiNext]_apiVars
  PROVE  ApiInv'
<1> USE DEF RepoInv, RepoTypeOK, LockTypeOK, ApiInv, Admitted, Authenticated
<1>1. ASSUME NEW c \in Calls, RefuseUnauthenticated(c) \/ RefuseInvalid(c)
      PROVE  ApiInv'
  BY <1>1 DEF RefuseUnauthenticated, RefuseInvalid, Answer, Codes, repoVars,
     lockVars, repoOnly
<1>2. ASSUME NEW c \in Calls, Respond(c)
      PROVE  ApiInv'
  <2>1. /\ MapError(reply[c]) \in Codes \ {"Unauthenticated"}
        /\ MapError(reply[c]) = "OK" => reply[c] = "ok"
        /\ MapError(reply[c]) = "NotFound" => reply[c] = "not_found"
    BY DEF MapError, Codes
  <2>2. /\ code' = [code EXCEPT ![c] = MapError(reply[c])]
        /\ reply[c] # "none"
        /\ UNCHANGED <<rpc, req, pc, reply>>
    BY <1>2 DEF Respond, Returned, Answer, repoVars, lockVars, repoOnly
  <2> QED
    BY <2>1, <2>2
<1>3. ASSUME NEW c \in Calls, Enter(c)
      PROVE  ApiInv'
  BY <1>3 DEF Enter, Call, Begin, Goto, GetCart, Return, lockVars, repoOnly
<1>4. CASE Repository
  <2>1. UNCHANGED <<rpc, code>>
    BY <1>4 DEF Repository
  <2>2. ASSUME NEW c \in Calls
        PROVE  /\ req' = req
               /\ ~Admitted(c) => pc'[c] = pc[c] /\ reply'[c] = reply[c]
               /\ reply[c] # "none" => reply'[c] = reply[c]
    BY <1>4, RepositoryStep
  <2> QED
    BY <2>1, <2>2
<1>5. CASE UNCHANGED apiVars
  BY <1>5 DEF apiVars, repoVars, lockVars, repoOnly
<1> QED
  BY <1>1, <1>2, <1>3, <1>4, <1>5 DEF ApiNext

LEMMA ApiInvariant ==
  ApiSafetySpec => [](RepoInv /\ RepliesTellEffect /\ ApiInv)
<1>1. RepoInv /\ RepliesTellEffect /\ ApiInv /\ [ApiNext]_apiVars => ApiInv'
  BY ApiInvStep
<1> QED
  BY <1>1, ApiInvHolds, ApiFollowsRepo, RepoInvariant, RepliesHold, PTL
     DEF ApiSafetySpec

(* An RPC never leaves the places its handler, service and method have.    *)
THEOREM ApiTypeCorrect == ApiSafetySpec => []ApiTypeOK
<1>1. RepoInv /\ ApiInv => ApiTypeOK
  BY DEF RepoInv, ApiInv, ApiTypeOK
<1> QED
  BY <1>1, ApiInvariant, PTL

(* OK means done, and NotFound, Unauthenticated or a refused argument mean *)
(* not done now or ever (mapError).                                        *)
THEOREM CodesAreTrue == ApiSafetySpec => []CodesTellEffect
<1>1. RepliesTellEffect /\ ApiInv => CodesTellEffect
  <2> SUFFICES ASSUME RepliesTellEffect, ApiInv, NEW c \in Calls
               PROVE  /\ code[c] = "OK" /\ Writes(c) => c \in applied
                      /\ \/ code[c] \in {"NotFound", "Unauthenticated"}
                         \/ ~Admitted(c)
                         => Untouched(c)
    BY DEF CodesTellEffect, Untouched
  <2>1. code[c] = "OK" => reply[c] = "ok" /\ req[c].op = rpc[c].op
    <3>1. Passed(rpc[c]).op = rpc[c].op
      BY DEF Passed
    <3> QED
      BY <3>1, Zenon DEF ApiInv
  <2>2. code[c] = "NotFound" => reply[c] = "not_found"
    BY DEF ApiInv
  <2>3. code[c] = "Unauthenticated" \/ ~Admitted(c) => pc[c] = "idle"
    BY DEF ApiInv
  <2> QED
    BY <2>1, <2>2, <2>3 DEF RepliesTellEffect, Writes
<1> QED
  BY <1>1, ApiInvariant, PTL

-----------------------------------------------------------------------------
(* A cart, once there, stays *)

(* No statement that matches takes the document away.                      *)
LEMMA StatementKeepsCart ==
  ASSUME RepoInv, NEW c \in Calls, Executes(c), req[c].op # "GetCart"
  PROVE  /\ \A u \in Users : Exists(carts[u]) => Exists(carts'[u])
         /\ Exists(carts'[req[c].user])
<1> DEFINE r    == req[c]
           cart == carts[r.user]
           new  == Pending(c).cart
<1>1. /\ r.op \in Ops \ {"GetCart"} /\ r.user \in Users
      /\ r.product \in Products /\ r.quantity \in Nat \ {0}
      /\ step[c] \in {"inc", "push"}
      /\ carts \in [Users -> Documents] /\ cart \in Documents
  BY RepoAssumption, StoreAssumption
     DEF RepoInv, RepoTypeOK, CartsTypeOK, Request, Documents
<1>2. Exists(new)
  <2> USE <1>1
  <2>1. ASSUME NEW d \in Documents, Count(d, r.product) > 0
        PROVE  Exists(d)
    BY <2>1 DEF Count
  <2> HIDE DEF r, cart
  <2>2. CASE r.op = "AddItem" /\ step[c] = "inc"
    <3>1. /\ new = Incremented(cart, r.product, r.quantity)
          /\ HasItem(cart, r.product)
      BY <2>2, Zenon DEF r, cart, Executes, Pending, AddItemInc, Statement,
         CartOf
    <3> QED
      BY <2>1, <3>1, CountIsNat, IncrementedKeepsCount
  <2>3. CASE r.op = "AddItem" /\ step[c] = "push"
    <3>1. new = Pushed(cart, r.product, r.quantity)
      BY <2>3 DEF r, cart, Pending, AddItemPush, Statement, CartOf
    <3> QED
      BY <2>1, <3>1, CountIsNat, PushedCounts
  <2>4. CASE r.op = "UpdateItem"
    <3>1. /\ new = Replaced(cart, r.product, r.quantity)
          /\ HasItem(cart, r.product)
      BY <2>4, Zenon DEF r, cart, Executes, Pending, UpdateItem, Statement,
         CartOf
    <3> QED
      BY <2>1, <3>1, CountIsNat, ReplacedKeepsCount
  <2>5. CASE r.op = "RemoveItem"
    <3>1. new = [cart EXCEPT ![r.product] = <<>>] /\ cart \in Cart
      BY <2>5 DEF r, cart, Executes, Pending, RemoveItem, Statement, CartOf,
         Pulled, Exists, Documents
    <3>2. new \in Cart
      BY <3>1, EmptySeq DEF Cart
    <3> QED
      BY <3>2, StoreAssumption DEF Exists
  <2>6. CASE r.op = "ClearCart"
    <3>1. new = EmptyCart
      BY <2>6 DEF r, cart, Executes, Pending, ClearCart, Statement, CartOf,
         Cleared
    <3> QED
      BY <3>1, EmptyCartIsCart DEF Exists
  <2> QED
    BY <2>2, <2>3, <2>4, <2>5, <2>6 DEF Ops
<1>3. carts' = [carts EXCEPT ![r.user] = new]
  BY DEF Executes
<1> HIDE DEF new
<1> QED
  BY <1>1, <1>2, <1>3

(* A call that was answered ok has found its cart, and it is still there.  *)
FoundStaysFound ==
  \A c \in Calls : reply[c] = "ok" => Exists(carts[req[c].user])

LEMMA FoundStep ==
  ASSUME RepoInv, FoundStaysFound, [RepoNext]_repoVars
  PROVE  FoundStaysFound'
<1> USE DEF RepoInv, RepoTypeOK, FoundStaysFound
<1>1. ASSUME NEW c \in Calls, Executes(c), req[c].op # "GetCart", req' = req,
             \A d \in Calls : d # c => reply'[d] = reply[d]
      PROVE  FoundStaysFound'
  <2>1. \A d \in Calls : req[d].user \in Users
    BY RepoAssumption DEF Request
  <2> QED
    BY <1>1, <2>1, StatementKeepsCart
<1>2. ASSUME NEW c \in Calls, Call(c) \/ Locking(c) \/ LockError(c)
      PROVE  FoundStaysFound'
  BY <1>2 DEF Call, Locking, LockError, Return, repoOnly
<1>3. ASSUME NEW c \in Calls, Work(c)
      PROVE  FoundStaysFound'
  <2>1. req[c].op # "GetCart"
    BY <1>3 DEF Work, UpdateOne, AddItemGoesOn, NotFound, UpdateFails, Finish,
       ReadsStayIdle
  <2>2. req' = req /\ \A d \in Calls : d # c => reply'[d] = reply[d]
    BY <1>3 DEF Work, UpdateOne, AddItemGoesOn, NotFound, UpdateFails, Return
  <2>3. \/ Executes(c)
        \/ UNCHANGED carts /\ reply'[c] \in {reply[c], "not_found", "error"}
    BY <1>3 DEF Work, UpdateOne, AddItemGoesOn, NotFound, UpdateFails,
       Unanswered, Return
  <2> QED
    BY <1>1, <2>1, <2>2, <2>3
<1>4. ASSUME NEW c \in Calls, Unlocking(c) \/ CallCancelled(c)
      PROVE  FoundStaysFound'
  BY <1>4 DEF Unlocking, CallCancelled, repoOnly
<1>5. ASSUME NEW c \in Calls, CallCrashes(c) \/ LateWrite(c)
      PROVE  FoundStaysFound'
  <2>1. UNCHANGED <<req, reply>> /\ req[c].op # "GetCart"
    BY <1>5 DEF CallCrashes, Crash, Active, LateWrite, ReadsStayIdle
  <2>2. Executes(c) \/ UNCHANGED carts
    BY <1>5 DEF CallCrashes, Unanswered, LateWrite
  <2> QED
    BY <1>1, <2>1, <2>2
<1>6. ASSUME NEW c \in Calls, GetCart(c)
      PROVE  FoundStaysFound'
  BY <1>6 DEF GetCart, Return, CartOf
<1>7. ASSUME RedisActs
      PROVE  FoundStaysFound'
  BY <1>7, RedisAlone DEF repoOnly
<1>8. CASE UNCHANGED repoVars
  BY <1>8 DEF repoVars, repoOnly
<1> QED
  BY <1>2, <1>3, <1>4, <1>5, <1>6, <1>7, <1>8 DEF RepoNext, RedisActs

LEMMA FoundHolds == RepoSafetySpec => []FoundStaysFound
<1>1. RepoInit => FoundStaysFound
  BY DEF RepoInit, FoundStaysFound
<1>2. RepoInv /\ FoundStaysFound /\ [RepoNext]_repoVars => FoundStaysFound'
  BY FoundStep
<1> QED
  BY <1>1, <1>2, RepoInvariant, PTL DEF RepoSafetySpec

(* Only where the filter finds nothing does a method answer not_found.     *)
LEMMA NotFoundNeedsAbsence ==
  ASSUME RepoInv, [RepoNext]_repoVars, NEW d \in Calls,
         reply'[d] # reply[d], reply'[d] = "not_found"
  PROVE  ~Exists(carts[req[d].user]) \/ req[d].op = "UpdateItem"
<1> USE DEF RepoInv, RepoTypeOK
<1>1. ASSUME NEW c \in Calls, Call(c) \/ Locking(c) \/ LockError(c)
      PROVE  FALSE
  BY <1>1 DEF Call, Locking, LockError, Return, repoOnly
<1>2. ASSUME NEW c \in Calls,
             UpdateOne(c) \/ AddItemGoesOn(c) \/ UpdateFails(c)
      PROVE  FALSE
  BY <1>2 DEF UpdateOne, AddItemGoesOn, UpdateFails, Return
<1>3. ASSUME NEW c \in Calls, NotFound(c)
      PROVE  ~Exists(carts[req[d].user]) \/ req[d].op = "UpdateItem"
  <2>1. /\ c = d
        /\ req[c].op \in {"RemoveItem", "UpdateItem", "ClearCart"}
        /\ ~Pending(c).matched
    BY <1>3, RepoAssumption DEF NotFound, Finish, Return, ReadsStayIdle,
       Request, Ops
  <2> QED
    BY <2>1 DEF Pending, RemoveItem, ClearCart, Statement, CartOf
<1>4. ASSUME NEW c \in Calls, GetCart(c)
      PROVE  ~Exists(carts[req[d].user])
  BY <1>4 DEF GetCart, Return, CartOf
<1>5. ASSUME NEW c \in Calls,
             \/ Unlocking(c) \/ CallCancelled(c) \/ CallCrashes(c)
             \/ LateWrite(c)
      PROVE  FALSE
  BY <1>5 DEF Unlocking, CallCancelled, CallCrashes, LateWrite, repoOnly
<1>6. ASSUME RedisActs
      PROVE  FALSE
  BY <1>6, RedisAlone DEF repoOnly
<1> QED
  BY <1>1, <1>2, <1>3, <1>4, <1>5, <1>6 DEF RepoNext, RedisActs, Work,
     repoVars, repoOnly

(* After an OK the cart of the user stays known to every RPC but UpdateItem*)
(* of an item that is not in it: no method or late statement removes it.   *)
THEOREM CartsStayKnown == ApiSafetySpec => KnownCartsAreFound
<1>1. RepoInv /\ RepliesTellEffect /\ ApiInv /\ FoundStaysFound
        /\ [ApiNext]_apiVars
        => [\A c, d \in Calls :
              /\ code[c] = "OK"
              /\ rpc[c].user = rpc[d].user
              /\ reply'[d] # reply[d]
              /\ reply'[d] = "not_found"
              => rpc[d].op = "UpdateItem"]_apiVars
  <2> SUFFICES ASSUME RepoInv, RepliesTellEffect, ApiInv,
                      FoundStaysFound, [ApiNext]_apiVars,
                      NEW c \in Calls, NEW d \in Calls, code[c] = "OK",
                      rpc[c].user = rpc[d].user, reply'[d] # reply[d],
                      reply'[d] = "not_found"
               PROVE  rpc[d].op = "UpdateItem"
    OBVIOUS
  <2>1. ~Exists(carts[req[d].user]) \/ req[d].op = "UpdateItem"
    BY ApiStepIsRepoStep, NotFoundNeedsAbsence
  <2>2. Admitted(c) /\ Exists(carts[req[c].user])
    BY DEF ApiInv, FoundStaysFound
  <2>3. Admitted(d)
    <3>1. CASE Repository
      BY <3>1, RepositoryStep
    <3>2. CASE \E b \in Calls : Enter(b)
      BY <3>2 DEF Enter, Call, GetCart, Return, repoOnly, RepoInv, RepoTypeOK
    <3>3. CASE \E b \in Calls : \/ RefuseUnauthenticated(b)
                               \/ RefuseInvalid(b)
                               \/ Respond(b)
      BY <3>3 DEF RefuseUnauthenticated, RefuseInvalid, Respond, Answer,
         repoVars, repoOnly
    <3> QED
      BY <3>1, <3>2, <3>3 DEF ApiNext, apiVars, repoVars, repoOnly
  <2>4. /\ req[c].user = rpc[c].user
        /\ req[d].user = rpc[d].user /\ req[d].op = rpc[d].op
    <3>1. /\ Passed(rpc[c]).user = rpc[c].user
          /\ Passed(rpc[d]).user = rpc[d].user
          /\ Passed(rpc[d]).op = rpc[d].op
      BY DEF Passed
    <3> QED
      BY <2>2, <2>3, <3>1, Zenon DEF ApiInv
  <2> QED
    BY <2>1, <2>2, <2>4
<1> QED
  BY <1>1, ApiInvariant, ApiFollowsRepo, FoundHolds, PTL
     DEF ApiSafetySpec, KnownCartsAreFound
=============================================================================
