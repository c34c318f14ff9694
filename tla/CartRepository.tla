--------------------------- MODULE CartRepository ---------------------------
(***************************************************************************)
(* internal/repository/mongodb: AddItem, RemoveItem, UpdateItem, ClearCart *)
(* under the distributed lock of the user, and GetCart without it.  Each   *)
(* UpdateOne is atomic in MongoDB; AddItem needs two of them, and only the *)
(* lock keeps other calls out between the two.  The requests are those the *)
(* service lets through (internal/service/cart validates them first).      *)
(*                                                                         *)
(* A statement whose reply is an error may or may not have been executed,  *)
(* or may be executed later, when its caller no longer waits for it; and so*)
(* may one whose sender crashes.                                           *)
(***************************************************************************)
EXTENDS RedisLock, CartStore, FiniteSets

CONSTANT Requests

Ops == {"AddItem", "RemoveItem", "UpdateItem", "ClearCart", "GetCart"}

Request == [op: Ops, user: Users, product: Products, quantity: 1..Int32Max]

ASSUME RepoAssumption == /\ Requests \subseteq Request
                         /\ Keys = Users

VARIABLES req,      \* req[c]: the arguments of call c
          step,     \* step[c]: which UpdateOne AddItem has reached
          reply,    \* reply[c]: what the method returns, "none" until then
          inFlight, \* calls that gave up a statement MongoDB may still execute
          applied,  \* history: calls of which a statement changed the store
          stray     \* history: calls of which one did so from inFlight

writes   == <<inFlight, applied, stray>>
repoOnly == <<carts, req, step, reply, writes>>
repoVars == <<lockVars, repoOnly>>

Replies == {"none", "ok", "not_found", "undecodable", "error"}

RepoTypeOK ==
  /\ LockTypeOK
  /\ CartsTypeOK
  /\ req \in [Calls -> Requests]
  /\ \A c \in Calls : key[c] = req[c].user
  /\ step \in [Calls -> {"inc", "push"}]
  /\ reply \in [Calls -> Replies]
  /\ inFlight \in SUBSET Calls
  /\ applied \in SUBSET Calls
  /\ stray \in SUBSET applied

RepoInit ==
  /\ LockInit
  /\ CartsInit
  /\ req \in [Calls -> Requests]
  /\ key = [c \in Calls |-> req[c].user]
  /\ step = [c \in Calls |-> "inc"]
  /\ reply = [c \in Calls |-> "none"]
  /\ inFlight = {}
  /\ applied = {}
  /\ stray = {}

-----------------------------------------------------------------------------
(* The statements of the methods: does the filter match, and what does the *)
(* document become.                                                        *)

CartOf(c) == carts[req[c].user]

Statement(matched, cart) == [matched |-> matched, cart |-> cart]

(* $inc with a filter that leaves out the product. *)
IncOnAnyCart(c) ==
  LET r == req[c]
  IN  Statement(Exists(CartOf(c)), Incremented(CartOf(c), r.product, r.quantity))

AddItemInc(c) ==
  LET r == req[c]
  IN  Statement(HasItem(CartOf(c), r.product),
                Incremented(CartOf(c), r.product, r.quantity))

(* $set items: [item] in place of $push. *)
AddItemSet(c) ==
  LET r == req[c]
  IN  Statement(TRUE, Pushed(EmptyCart, r.product, r.quantity))

AddItemPush(c) ==
  LET r == req[c]
  IN  Statement(TRUE, Pushed(CartOf(c), r.product, r.quantity))

RemoveItem(c) ==
  Statement(Exists(CartOf(c)), Pulled(CartOf(c), req[c].product))

UpdateItem(c) ==
  LET r == req[c]
  IN  Statement(HasItem(CartOf(c), r.product),
                Replaced(CartOf(c), r.product, r.quantity))

ClearCart(c) == Statement(Exists(CartOf(c)), Cleared(CartOf(c)))

(* The statement call c has to send next. *)
Pending(c) ==
  CASE req[c].op = "AddItem" /\ step[c] = "inc"  -> AddItemInc(c)
    [] req[c].op = "AddItem" /\ step[c] = "push" -> AddItemPush(c)
    [] req[c].op = "RemoveItem" -> RemoveItem(c)
    [] req[c].op = "UpdateItem" -> UpdateItem(c)
    [] req[c].op = "ClearCart"  -> ClearCart(c)

-----------------------------------------------------------------------------
(* The methods *)

Return(c, answer) == reply' = [reply EXCEPT ![c] = answer]

(* MongoDB executes the pending statement of c on a matching document. *)
Executes(c) ==
  /\ Pending(c).matched
  /\ carts' = [carts EXCEPT ![req[c].user] = Pending(c).cart]
  /\ applied' = applied \cup {c}

Call(c) ==
  /\ req[c].op # "GetCart"
  /\ Begin(c)
  /\ UNCHANGED repoOnly

Locking(c) ==
  /\ SetNXTakes(c) \/ SetNXRefused(c)
  /\ UNCHANGED repoOnly

(* The error of Lock ignored: the method works without the lock. *)
LockErrorIgnored(c) ==
  /\ pc[c] = "acquire"
  /\ Goto(c, "held")
  /\ UNCHANGED <<redis, key, attempt, unanswered, contexts, repoOnly>>

(* "lock cart: %w": the method returns, no Unlock was deferred. *)
LockError(c) ==
  /\ SetNXFails(c) \/ LockGivesUp(c)
  /\ Return(c, "error")
  /\ UNCHANGED <<carts, req, step, writes>>

UpdateOne(c) ==
  /\ Finish(c)
  /\ c \notin cancelled
  /\ Executes(c)
  /\ Return(c, "ok")
  /\ UNCHANGED <<req, step, inFlight, stray>>

(* MatchedCount = 0 after $inc: AddItem goes on to $push. *)
AddItemGoesOn(c) ==
  /\ pc[c] = "held"
  /\ c \notin cancelled
  /\ req[c].op = "AddItem"
  /\ step[c] = "inc"
  /\ ~Pending(c).matched
  /\ step' = [step EXCEPT ![c] = "push"]
  /\ UNCHANGED <<lockVars, carts, req, reply, writes>>

(* MatchedCount = 0 elsewhere: ErrCartNotFound or ErrItemNotFound. *)
NotFound(c) ==
  /\ Finish(c)
  /\ c \notin cancelled
  /\ req[c].op # "AddItem"
  /\ ~Pending(c).matched
  /\ Return(c, "not_found")
  /\ UNCHANGED <<carts, req, step, writes>>

(* What may have become of a statement whose reply never comes. *)
Unanswered(c) ==
  /\ \/ UNCHANGED <<carts, writes>>
     \/ Executes(c) /\ UNCHANGED <<inFlight, stray>>
     \/ inFlight' = inFlight \cup {c} /\ UNCHANGED <<carts, applied, stray>>

UpdateFails(c) ==
  /\ Finish(c)
  /\ Unanswered(c)
  /\ Return(c, "error")
  /\ UNCHANGED <<req, step>>

Unlocking(c) == Release(c) /\ UNCHANGED repoOnly

(* No lock: a single FindOne, then the document is decoded. *)
GetCart(c) ==
  /\ req[c].op = "GetCart"
  /\ reply[c] = "none"
  /\ \/ ~Exists(CartOf(c)) /\ Return(c, "not_found")
     \/ Exists(CartOf(c)) /\ Decodable(CartOf(c)) /\ Return(c, "ok")
     \/ Exists(CartOf(c)) /\ ~Decodable(CartOf(c)) /\ Return(c, "undecodable")
     \/ Return(c, "error")
  /\ UNCHANGED <<lockVars, carts, req, step, writes>>

-----------------------------------------------------------------------------
(* The environment *)

CallCancelled(c) == Cancel(c) /\ UNCHANGED repoOnly

CallCrashes(c) ==
  /\ Crash(c)
  /\ IF pc[c] = "held" THEN Unanswered(c) ELSE UNCHANGED <<carts, writes>>
  /\ UNCHANGED <<req, step, reply>>

LateWrite(c) ==
  /\ c \in inFlight
  /\ inFlight' = inFlight \ {c}
  /\ \/ Executes(c) /\ stray' = stray \cup {c}
     \/ UNCHANGED <<carts, applied, stray>>
  /\ UNCHANGED <<lockVars, req, step, reply>>

LockIsLate(c) == RedisIsLate(c) /\ UNCHANGED repoOnly

KeyExpires(k) == Expire(k) /\ UNCHANGED repoOnly

-----------------------------------------------------------------------------

Work(c) == UpdateOne(c) \/ AddItemGoesOn(c) \/ NotFound(c) \/ UpdateFails(c)

RepoNext == \/ \E c \in Calls : \/ Call(c)
                                \/ Locking(c)
                                \/ LockError(c)
                                \/ Work(c)
                                \/ Unlocking(c)
                                \/ GetCart(c)
                                \/ CallCancelled(c)
                                \/ CallCrashes(c)
                                \/ LateWrite(c)
                                \/ LockIsLate(c)
            \/ \E k \in Keys : KeyExpires(k)

(* As LockFairness: the goroutines run and every statement is answered.    *)
RepoFairness ==
  \A c \in Calls : /\ WF_repoVars(Locking(c) \/ LockError(c))
                   /\ WF_repoVars(Work(c))
                   /\ WF_repoVars(Unlocking(c))

RepoSafetySpec == RepoInit /\ [][RepoNext]_repoVars

RepoSpec == RepoSafetySpec /\ RepoFairness

(* The assumption a time to live makes: no key expires while its owner is  *)
(* at work, and no statement outlives the call that sent it.  Nothing in   *)
(* the code enforces it: the work has no deadline and nothing renews the   *)
(* key.                                                                    *)
Timely == RepoNext /\ UNCHANGED <<overran, inFlight>>

TimelySpec == RepoInit /\ [][Timely]_repoVars

-----------------------------------------------------------------------------
(* Properties *)

Adds(c, u, p) == /\ req[c].op = "AddItem"
                 /\ req[c].user = u
                 /\ req[c].product = p

(* A cart lists a product twice only after the lease of an AddItem of that *)
(* product to that cart expired during its work, or MongoDB executed its   *)
(* statement after the call was over: the lock makes $inc-else-$push safe  *)
(* up to its time to live and no further.                                  *)
DuplicateOnlyAfterOverrun ==
  \A u \in Users, p \in Products :
    Exists(carts[u]) /\ Len(carts[u][p]) > 1 =>
      \E c \in overran \cup stray : Adds(c, u, p)

(* The calls that changed p in the cart of u all added to it.              *)
OnlyAdded(u, p) ==
  \A c \in applied :
    /\ req[c].user = u
    /\ req[c].product = p \/ req[c].op = "ClearCart"
    => req[c].op = "AddItem"

AddedUnits(u, p) ==
  UNION {{c} \X (1..req[c].quantity) : c \in {d \in applied : Adds(d, u, p)}}

(* No addition is lost or counted twice, even when leases expire, two      *)
(* AddItem calls interleave and statements are executed after their calls: *)
(* what a cart holds of a product is the sum of the additions that took    *)
(* effect ($inc and $push are atomic, and AddItem sends one or the other). *)
NoLostAddition ==
  \A u \in Users, p \in Products :
    OnlyAdded(u, p) =>
      Cardinality(Units(carts[u], p)) = Cardinality(AddedUnits(u, p))

(* Only the sum of the additions makes a cart undecodable: one to which    *)
(* calls have only added can be read as long as, for each product, what    *)
(* they added together fits CartItem.Quantity (GetCart).                   *)
CartsThatFit ==
  {u \in Users : \A p \in Products :
                   /\ OnlyAdded(u, p)
                   /\ Cardinality(AddedUnits(u, p)) <= Int32Max}

FittingCartsDecode ==
  \A u \in CartsThatFit : Exists(carts[u]) => Decodable(carts[u])

(* The methods use the lock as internal/lock intends: what the repository  *)
(* does to Redis and to the phases of a call is a behaviour of RedisLock.  *)
FollowsLockProtocol == LockSafetySpec

(* While leases outlive the work, the repository is an atomic cart: every  *)
(* call takes effect in one step, at most once, and is answered from it.   *)
Atomic == INSTANCE AtomicCart
RefinesAtomicCart == Atomic!Spec

(* Every quantity stored fits the int32 field it is declared to be         *)
(* (CartItem.Quantity), so that GetCart can decode what AddItem accepted.  *)
StoredCartsDecode == \A u \in Users : Exists(carts[u]) => Decodable(carts[u])
=============================================================================
