------------------------------ MODULE CartStore ------------------------------
(***************************************************************************)
(* The MongoDB collection "carts": the documents of internal/domain and    *)
(* the single-document updates that internal/repository/mongodb sends.     *)
(*                                                                         *)
(* The unique index on user_id leaves at most one document per user, so    *)
(* the collection is a function on Users.  No update depends on where in   *)
(* the array "items" the entries of another product stand, so the array is *)
(* kept per product: cart[p] is the sequence of the entries of product p,  *)
(* in array order.  Prices and timestamps are left out.                    *)
(***************************************************************************)
EXTENDS Naturals, Sequences

CONSTANTS Users, Products,
          Int32Max,    \* the largest value of the Go type of Quantity
          NoCart       \* no document for the user

VARIABLE carts

Entry == [quantity: Nat \ {0}, unavailable: BOOLEAN]
Cart  == [Products -> Seq(Entry)]

ASSUME StoreAssumption == /\ Int32Max \in Nat \ {0}
                          /\ NoCart \notin Cart

CartsTypeOK == carts \in [Users -> Cart \cup {NoCart}]

CartsInit == carts = [u \in Users |-> NoCart]

-----------------------------------------------------------------------------
(* Filters and updates.  An update leaves the document alone when its      *)
(* filter matches none.                                                    *)

EmptyCart == [p \in Products |-> <<>>]

Exists(cart) == cart # NoCart

HasItem(cart, p) == Exists(cart) /\ cart[p] # <<>>

(* The number of entries of p.                                             *)
Count(cart, p) == IF Exists(cart) THEN Len(cart[p]) ELSE 0

(* $inc by -q. *)
Decremented(cart, p, q) ==
  IF HasItem(cart, p) THEN [cart EXCEPT ![p][1].quantity = @ - q] ELSE cart

(* $inc sent again by a retry. *)
IncrementedTwice(cart, p, q) ==
  IF HasItem(cart, p) THEN [cart EXCEPT ![p][1].quantity = @ + q + q] ELSE cart

(* $inc "items.$.quantity": the first entry of p; MongoDB widens the       *)
(* number to 64 bits instead of wrapping it around.                        *)
Incremented(cart, p, q) ==
  IF HasItem(cart, p) THEN [cart EXCEPT ![p][1].quantity = @ + q] ELSE cart

(* $push items, with upsert: creates the document when there is none.      *)
Pushed(cart, p, q) ==
  LET doc   == IF Exists(cart) THEN cart ELSE EmptyCart
      entry == [quantity |-> q, unavailable |-> FALSE]
  IN  [doc EXCEPT ![p] = Append(@, entry)]

(* $pull items: every entry of p.                                          *)
Pulled(cart, p) == IF Exists(cart) THEN [cart EXCEPT ![p] = <<>>] ELSE cart

(* $set "items.$.quantity": the first entry of p.                          *)
Replaced(cart, p, q) ==
  IF HasItem(cart, p) THEN [cart EXCEPT ![p][1].quantity = q] ELSE cart

(* DeleteOne in place of $set. *)
Deleted(cart) == NoCart

(* $set items: [].                                                         *)
Cleared(cart) == IF Exists(cart) THEN EmptyCart ELSE cart

(* $set "items.$[item].unavailable": every entry of p (arrayFilters).      *)
Marked(cart, p, flag) ==
  IF HasItem(cart, p)
  THEN [cart EXCEPT ![p] =
         [i \in DOMAIN @ |-> [@[i] EXCEPT !.unavailable = flag]]]
  ELSE cart

(* The driver can decode the document into domain.Cart: a 64-bit quantity  *)
(* does not fit CartItem.Quantity, and one such entry fails the whole cart.*)
Decodable(cart) ==
  \A p \in Products : \A i \in DOMAIN cart[p] : cart[p][i].quantity <= Int32Max

(* The units of p that the cart holds, duplicates included: a pair for each*)
(* unit of the quantity of each entry.                                     *)
Units(cart, p) ==
  IF Exists(cart)
  THEN UNION {{i} \X (1..cart[p][i].quantity) : i \in DOMAIN cart[p]}
  ELSE {}
=============================================================================
