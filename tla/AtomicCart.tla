------------------------------ MODULE AtomicCart ------------------------------
(***************************************************************************)
(* What the cart repository promises its callers, without locks, retries   *)
(* or statements: each call takes effect at most once, in one step, and is *)
(* answered from that step; a cart holds a product once.  A call may fail, *)
(* and a failed or lost call may or may not have taken effect.             *)
(***************************************************************************)
EXTENDS CartStore

CONSTANTS Calls,
          Requests   \* what the callers may ask for

VARIABLES req,       \* req[c]: the request of call c
          applied,   \* calls that have taken effect
          reply      \* reply[c]: what c was answered, or "none"

vars == <<carts, req, applied, reply>>

CartOf(c) == carts[req[c].user]

Init ==
  /\ CartsInit
  /\ req \in [Calls -> Requests]
  /\ applied = {}
  /\ reply = [c \in Calls |-> "none"]

(* The target of the request is there. *)
Possible(c) ==
  LET r == req[c] IN
  CASE r.op = "AddItem"    -> TRUE
    [] r.op = "UpdateItem" -> HasItem(CartOf(c), r.product)
    [] r.op \in {"RemoveItem", "ClearCart", "GetCart"} -> Exists(CartOf(c))

Result(c) ==
  LET r == req[c] IN
  CASE r.op = "AddItem" ->
         IF HasItem(CartOf(c), r.product)
         THEN Incremented(CartOf(c), r.product, r.quantity)
         ELSE Pushed(CartOf(c), r.product, r.quantity)
    [] r.op = "UpdateItem" -> Replaced(CartOf(c), r.product, r.quantity)
    [] r.op = "RemoveItem" -> Pulled(CartOf(c), r.product)
    [] r.op = "ClearCart"  -> Cleared(CartOf(c))

Open(c) == reply[c] = "none" /\ c \notin applied

Answered(c, answers) ==
  \E a \in answers : reply' = [reply EXCEPT ![c] = a]

Perform(c) ==
  /\ Open(c)
  /\ req[c].op # "GetCart"
  /\ Possible(c)
  /\ carts' = [carts EXCEPT ![req[c].user] = Result(c)]
  /\ applied' = applied \cup {c}
  /\ Answered(c, {"ok", "error", "none"})
  /\ UNCHANGED req

Read(c) ==
  /\ Open(c)
  /\ req[c].op = "GetCart"
  /\ Possible(c)
  /\ Answered(c, IF Decodable(CartOf(c)) THEN {"ok"} ELSE {"undecodable"})
  /\ UNCHANGED <<carts, req, applied>>

Miss(c) ==
  /\ Open(c)
  /\ ~Possible(c)
  /\ Answered(c, {"not_found"})
  /\ UNCHANGED <<carts, req, applied>>

Fail(c) ==
  /\ Open(c)
  /\ Answered(c, {"error"})
  /\ UNCHANGED <<carts, req, applied>>

Next == \E c \in Calls : Perform(c) \/ Read(c) \/ Miss(c) \/ Fail(c)

Spec == Init /\ [][Next]_vars
=============================================================================
