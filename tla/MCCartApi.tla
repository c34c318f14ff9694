------------------------------ MODULE MCCartApi ------------------------------
(* TLC instance of CartApi.                                                *)
EXTENDS CartApi, Functions, TLC

CONSTANT MaxFaulty   \* bound: calls with a fault, a late write or an
                     \* expired lease

R(op, u, p, q, price) ==
  [op |-> op, user |-> u, product |-> p, quantity |-> q, price |-> price]

ValidRequests ==
  [op: Ops, user: Users, product: Products, quantity: 1..Int32Max]

AProduct == CHOOSE p \in Products : TRUE

AUser == CHOOSE u \in Users : TRUE

(* For each method a valid RPC and one for each check it may fail. *)
RpcList ==
  LET p == AProduct
      u == AUser
  IN  <<R("AddItem", u, p, 1, 1), R("AddItem", u, p, 0, 1),
        R("AddItem", u, p, 1, 0), R("RemoveItem", u, p, 1, 1),
        R("RemoveItem", u, NoProduct, 1, 1), R("UpdateItem", u, p, 2, 1),
        R("UpdateItem", u, p, 0, 1), R("GetCart", u, p, 1, 1),
        R("ClearCart", u, p, 1, 1), R("AddItem", NoUser, p, 1, 1)>>

EveryRpc == Range(RpcList)

(* Which of two calls sends which RPC makes no difference. *)
Rank(r) == CHOOSE i \in DOMAIN RpcList : RpcList[i] = r

InOrder ==
  LET first == CHOOSE c \in Calls : TRUE
  IN  \A c \in Calls : Rank(rpc[first]) <= Rank(rpc[c])

(* No cart yet, or one with an item; where a call may add the item itself, *)
(* no cart is enough.                                                      *)
MayAdd(c) == Rank(rpc[c]) = 1

MCInit ==
  /\ RpcsInit
  /\ InOrder
  /\ \/ carts = [u \in Users |-> NoCart]
     \/ /\ \A c \in Calls : ~MayAdd(c)
        /\ carts = [u \in Users |-> Pushed(NoCart, AProduct, 1)]

Faulty == {c \in Calls : Unlucky(c)} \cup inFlight \cup stray \cup overran

FewFaulty == Cardinality(Faulty) <= MaxFaulty

MCApiSpec == MCInit /\ [][ApiNext /\ FewFaulty']_apiVars /\ ApiFairness
=============================================================================
