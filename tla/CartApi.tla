------------------------------- MODULE CartApi -------------------------------
(***************************************************************************)
(* The RPCs of the service: internal/transport/grpc/v1/handlers takes the  *)
(* user from the metadata, internal/service/cart validates the arguments,  *)
(* the repository does the work, and mapError turns its error into the     *)
(* status code the client sees.                                            *)
(*                                                                         *)
(* A call of CartRepository is one RPC.  req[c] is what the service passes *)
(* on; the repository never looks at the req of an RPC that is refused.    *)
(***************************************************************************)
EXTENDS CartRepository, Integers

CONSTANTS Rpcs,       \* what clients may send
          NoUser,     \* metadata without a user_id, or with an empty one
          NoProduct   \* an empty product_id

VARIABLES rpc,        \* rpc[c]: the request as it comes off the wire
          code        \* code[c]: the status code returned, "none" until then

apiVars == <<repoVars, rpc, code>>

Int32 == -Int32Max - 1..Int32Max

Rpc == [op: Ops, user: Users \cup {NoUser}, product: Products \cup {NoProduct},
        quantity: Int32, price: Int]

(* A field that the protobuf request of a method does not have is read by  *)
(* nobody; here it holds something the repository's types allow.           *)
ASSUME ApiAssumption ==
  /\ Rpcs \subseteq Rpc
  /\ \A r \in Rpcs :
       /\ r.op \notin {"AddItem", "UpdateItem"} => r.quantity \in 1..Int32Max
       /\ r.op \in {"GetCart", "ClearCart"} => r.product \in Products
  /\ Requests = Request /\ Requests # {}
  /\ NoUser \notin Users
  /\ NoProduct \notin Products

Codes == {"none", "OK", "Unauthenticated", "NotFound", "Internal"}

ApiTypeOK == /\ RepoTypeOK
             /\ rpc \in [Calls -> Rpcs]
             /\ code \in [Calls -> Codes]

-----------------------------------------------------------------------------
(* What the service lets through *)

HasProduct(r) == r.product # NoProduct

(* quantity < 0 in place of quantity <= 0. *)
NotNegative(n) == n >= 0

Positive(n) == n > 0

Valid(r) ==
  CASE r.op = "AddItem" -> /\ HasProduct(r)
                           /\ Positive(r.quantity)
                           /\ Positive(r.price)
    [] r.op = "RemoveItem" -> HasProduct(r)
    [] r.op = "UpdateItem" -> HasProduct(r) /\ Positive(r.quantity)
    [] r.op \in {"GetCart", "ClearCart"} -> TRUE

Authenticated(c) == rpc[c].user # NoUser

Admitted(c) == Authenticated(c) /\ Valid(rpc[c])

Passed(r) == [op |-> r.op, user |-> r.user, product |-> r.product,
              quantity |-> r.quantity]

Unused == CHOOSE r \in Requests : TRUE

(* The process has just started; the carts are what others left. *)
RpcsInit ==
  /\ rpc \in [Calls -> Rpcs]
  /\ req = [c \in Calls |-> IF Admitted(c) THEN Passed(rpc[c]) ELSE Unused]
  /\ code = [c \in Calls |-> "none"]
  /\ LockInit
  /\ key = [c \in Calls |-> req[c].user]
  /\ step = [c \in Calls |-> "inc"]
  /\ reply = [c \in Calls |-> "none"]
  /\ inFlight = {}
  /\ applied = {}
  /\ stray = {}

ApiInit == RpcsInit /\ CartsInit

-----------------------------------------------------------------------------
(* The handlers *)

Answer(c, status) ==
  /\ code[c] = "none"
  /\ code' = [code EXCEPT ![c] = status]
  /\ UNCHANGED <<repoVars, rpc>>

RefuseUnauthenticated(c) == ~Authenticated(c) /\ Answer(c, "Unauthenticated")

(* A validation error is neither of the errors mapError knows. *)
RefuseInvalid(c) ==
  Authenticated(c) /\ ~Valid(rpc[c]) /\ Answer(c, "Internal")

(* The service calls the repository. *)
Enter(c) ==
  /\ Admitted(c)
  /\ Call(c) \/ GetCart(c)
  /\ UNCHANGED <<rpc, code>>

(* A default case that reports every other error as a missing cart. *)
NotFoundByDefault(answer) == IF answer = "ok" THEN "OK" ELSE "NotFound"

MapError(answer) ==
  CASE answer = "ok"        -> "OK"
    [] answer = "not_found" -> "NotFound"
    [] OTHER                -> "Internal"

(* The method has returned, its deferred Unlock included. *)
Returned(c) == reply[c] # "none" /\ pc[c] \in {"idle", "done", "failed"}

Respond(c) == Returned(c) /\ Answer(c, MapError(reply[c]))

(* The repository and its environment, once a method has been entered.     *)
Repository ==
  /\ \/ \E c \in Calls : \/ Locking(c)
                         \/ LockError(c)
                         \/ Work(c)
                         \/ Unlocking(c)
                         \/ CallCancelled(c)
                         \/ CallCrashes(c)
                         \/ LateWrite(c)
                         \/ LockIsLate(c)
     \/ \E k \in Keys : KeyExpires(k)
  /\ UNCHANGED <<rpc, code>>

ApiNext ==
  \/ \E c \in Calls : \/ RefuseUnauthenticated(c)
                      \/ RefuseInvalid(c)
                      \/ Enter(c)
                      \/ Respond(c)
  \/ Repository

(* The handlers' goroutines run, too. *)
ApiFairness == RepoFairness /\ \A c \in Calls : WF_apiVars(Respond(c))

ApiSafetySpec == ApiInit /\ [][ApiNext]_apiVars

ApiSpec == ApiSafetySpec /\ ApiFairness

-----------------------------------------------------------------------------
(* Properties *)

Writes(c) == rpc[c].op # "GetCart"

(* A status code is true for good: OK of a write means that the cart was   *)
(* changed, and NotFound, Unauthenticated or a refused argument that it was*)
(* not and never will be, not even by a statement still in flight.  Only   *)
(* Internal for a valid request leaves the client in doubt (mapError).     *)
CodesTellEffect ==
  \A c \in Calls :
    /\ code[c] = "OK" /\ Writes(c) => c \in applied
    /\ code[c] \in {"NotFound", "Unauthenticated"} \/ ~Admitted(c)
         => c \notin applied \cup inFlight

(* Once a call has been answered with OK, which takes a cart, the cart of  *)
(* its user stays known: only UpdateItem, for want of the item, is still   *)
(* answered NotFound; no RemoveItem, ClearCart or late statement takes the *)
(* document away.                                                          *)
KnownCartsAreFound ==
  [][\A c, d \in Calls :
       /\ code[c] = "OK"
       /\ rpc[c].user = rpc[d].user
       /\ reply'[d] # reply[d]
       /\ reply'[d] = "not_found"
       => rpc[d].op = "UpdateItem"]_apiVars

(* Every RPC that reaches the repository is answered, or its process has   *)
(* crashed, although nothing forces the key it waits for to become free.   *)
RpcsAreAnswered ==
  \A c \in Calls :
    pc[c] = "acquire" ~> code[c] # "none" \/ pc[c] = "crashed"
=============================================================================
