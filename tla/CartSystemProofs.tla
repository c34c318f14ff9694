-------------------------- MODULE CartSystemProofs --------------------------
(***************************************************************************)
(* Proofs about CartSystem for any number of calls, members, users,        *)
(* products and messages: what the statements of the calls and the         *)
(* transactions of the consumers do to the same carts does not get in each *)
(* other's way.                                                            *)
(***************************************************************************)
EXTENDS CartSystem, AtomicCartProofs, CatalogConsumerProofs

-----------------------------------------------------------------------------
(* What the statements do to the flags of a cart *)

Flags(cart, p) == [i \in DOMAIN cart[p] |-> cart[p][i].unavailable]

(* The entries of p that are left, if no entry was added, have their flags.*)
KeepsFlags(new, old, p) ==
  HasItem(new, p) /\ Count(new, p) <= Count(old, p)
    => Flags(new, p) = Flags(old, p)

(* A change of the quantity of the first entry of p.                       *)
LEMMA QuantityKeepsFlags ==
  ASSUME NEW cart \in Documents, NEW p \in Products, HasItem(cart, p),
         NEW n \in Nat \ {0}
  PROVE  \A q \in Products :
           Flags([cart EXCEPT ![p][1].quantity = n], q) = Flags(cart, q)
<1>1. cart \in Cart /\ cart[p] \in Seq(Entry) /\ cart[p] # <<>>
  BY DEF HasItem, Exists, Documents, Cart
<1> DEFINE first == [cart[p][1] EXCEPT !.quantity = n]
           items == [cart[p] EXCEPT ![1] = first]
           new   == [cart EXCEPT ![p][1].quantity = n]
<1>2. cart[p][1] \in Entry /\ DOMAIN items = DOMAIN cart[p]
  BY <1>1
<1>3. first.unavailable = cart[p][1].unavailable
  BY <1>2 DEF Entry
<1> HIDE DEF first
<1>4. \A i \in DOMAIN items : items[i].unavailable = cart[p][i].unavailable
  BY <1>2, <1>3
<1>5. new = [cart EXCEPT ![p] = items]
  BY DEF first
<1> HIDE DEF items, new
<1>6. new[p] = items /\ \A q \in Products : q # p => new[q] = cart[q]
  BY <1>1, <1>5 DEF Cart
<1>7. \A q \in Products : Flags(new, q) = Flags(cart, q)
  BY <1>2, <1>4, <1>6 DEF Flags
<1> QED
  BY <1>7 DEF new

LEMMA IncrementedKeepsFlags ==
  ASSUME NEW cart \in Documents, NEW p \in Products, HasItem(cart, p),
         NEW q \in Nat \ {0}, NEW o \in Products
  PROVE  Flags(Incremented(cart, p, q), o) = Flags(cart, o)
<1> DEFINE n == cart[p][1].quantity + q
<1>1. cart[p] \in Seq(Entry) /\ cart[p] # <<>>
  BY DEF HasItem, Exists, Documents, Cart
<1>2. cart[p][1] \in Entry
  BY <1>1
<1>3. n \in Nat \ {0}
  BY <1>2 DEF Entry
<1>4. Incremented(cart, p, q) = [cart EXCEPT ![p][1].quantity = n]
  BY DEF Incremented
<1> HIDE DEF n
<1>5. Flags([cart EXCEPT ![p][1].quantity = n], o) = Flags(cart, o)
  BY <1>3, QuantityKeepsFlags, Zenon
<1> QED
  BY <1>4, <1>5, Zenon

LEMMA ReplacedKeepsFlags ==
  ASSUME NEW cart \in Documents, NEW p \in Products, HasItem(cart, p),
         NEW q \in Nat \ {0}, NEW o \in Products
  PROVE  Flags(Replaced(cart, p, q), o) = Flags(cart, o)
<1>1. Replaced(cart, p, q) = [cart EXCEPT ![p][1].quantity = q]
  BY DEF Replaced
<1>2. Flags([cart EXCEPT ![p][1].quantity = q], o) = Flags(cart, o)
  BY QuantityKeepsFlags, Zenon
<1> QED
  BY <1>1, <1>2, Zenon

LEMMA PushedKeepsFlags ==
  ASSUME NEW cart \in Documents, NEW p \in Products, NEW q \in Nat \ {0},
         NEW o \in Products
  PROVE  KeepsFlags(Pushed(cart, p, q), cart, o)
<1>1. CASE o = p
  <2>1. Count(Pushed(cart, p, q), o) = Count(cart, o) + 1
    BY <1>1, PushedCounts
  <2>2. Count(cart, o) \in Nat
    BY CountIsNat
  <2> QED
    BY <2>1, <2>2 DEF KeepsFlags
<1>2. CASE o # p /\ ~Exists(cart)
  <2>1. Pushed(cart, p, q)[o] = <<>>
    BY <1>2, EmptyCartIsCart DEF Pushed, Cart
  <2> QED
    BY <2>1 DEF KeepsFlags, HasItem
<1>3. CASE o # p /\ Exists(cart)
  <2>1. Pushed(cart, p, q)[o] = cart[o]
    BY <1>3 DEF Pushed, Exists, Documents, Cart
  <2> QED
    BY <2>1 DEF KeepsFlags, Flags
<1> QED
  BY <1>1, <1>2, <1>3

LEMMA PulledKeepsFlags ==
  ASSUME NEW cart \in Documents, NEW p \in Products, NEW o \in Products
  PROVE  KeepsFlags(Pulled(cart, p), cart, o)
<1>1. CASE ~Exists(cart)
  BY <1>1 DEF Pulled, KeepsFlags
<1>2. CASE Exists(cart)
  <2>1. Pulled(cart, p) = [cart EXCEPT ![p] = <<>>] /\ cart \in Cart
    BY <1>2 DEF Pulled, Exists, Documents
  <2>2. IF o = p THEN ~HasItem(Pulled(cart, p), o)
                 ELSE Pulled(cart, p)[o] = cart[o]
    BY <2>1 DEF HasItem, Cart
  <2> QED
    BY <2>2 DEF KeepsFlags, Flags
<1> QED
  BY <1>1, <1>2

(* A statement that adds no entry of a product leaves its flags alone.     *)
LEMMA StatementKeepsFlags ==
  ASSUME RepoTypeOK, NEW c \in Calls, req[c].op # "GetCart", Executes(c),
         NEW u \in Users, NEW p \in Products
  PROVE  KeepsFlags(carts'[u], carts[u], p)
<1> DEFINE r    == req[c]
           cart == carts[r.user]
           new  == Pending(c).cart
<1>1. /\ r.user \in Users /\ r.product \in Products /\ r.quantity \in Nat \ {0}
      /\ r.op \in {"AddItem", "RemoveItem", "UpdateItem", "ClearCart"}
      /\ step[c] \in {"inc", "push"}
  BY RepoAssumption, StoreAssumption DEF RepoTypeOK, Request, Ops
<1>2. carts \in [Users -> Documents] /\ cart \in Documents
  BY <1>1 DEF RepoTypeOK, CartsTypeOK, Documents
<1>3. carts' = [carts EXCEPT ![r.user] = new] /\ Pending(c).matched
  BY DEF Executes
<1>4. CASE u # r.user
  BY <1>2, <1>3, <1>4 DEF KeepsFlags
<1>5. CASE u = r.user
  <2>1. carts'[u] = new /\ carts[u] = cart
    BY <1>1, <1>2, <1>3, <1>5
  <2> SUFFICES KeepsFlags(new, cart, p)
    BY <2>1
  <2>2. CASE r.op = "AddItem" /\ step[c] = "inc"
    <3>1. /\ new = Incremented(cart, r.product, r.quantity)
          /\ HasItem(cart, r.product)
      BY <1>3, <2>2 DEF Pending, AddItemInc, Statement, CartOf
    <3> HIDE DEF r, cart, new
    <3>2. Flags(new, p) = Flags(cart, p)
      BY <1>1, <1>2, <3>1, IncrementedKeepsFlags
    <3> QED
      BY <3>2 DEF KeepsFlags
  <2>3. CASE r.op = "AddItem" /\ step[c] = "push"
    <3>1. new = Pushed(cart, r.product, r.quantity)
      BY <2>3 DEF Pending, AddItemPush, Statement, CartOf
    <3> HIDE DEF r, cart, new
    <3> QED
      BY <1>1, <1>2, <3>1, PushedKeepsFlags
  <2>4. CASE r.op = "UpdateItem"
    <3>1. /\ new = Replaced(cart, r.product, r.quantity)
          /\ HasItem(cart, r.product)
      BY <1>3, <2>4 DEF Pending, UpdateItem, Statement, CartOf
    <3> HIDE DEF r, cart, new
    <3>2. Flags(new, p) = Flags(cart, p)
      BY <1>1, <1>2, <3>1, ReplacedKeepsFlags
    <3> QED
      BY <3>2 DEF KeepsFlags
  <2>5. CASE r.op = "RemoveItem"
    <3>1. new = Pulled(cart, r.product)
      BY <2>5 DEF Pending, RemoveItem, Statement, CartOf
    <3> HIDE DEF r, cart, new
    <3> QED
      BY <1>1, <1>2, <3>1, PulledKeepsFlags
  <2>6. CASE r.op = "ClearCart"
    <3>1. new = EmptyCart
      BY <1>3, <2>6 DEF Pending, ClearCart, Statement, CartOf, Cleared
    <3> HIDE DEF r, cart, new
    <3> QED
      BY <3>1, EmptyCartIsCart DEF KeepsFlags, HasItem
  <2> QED
    BY <1>1, <2>2, <2>3, <2>4, <2>5, <2>6
<1> QED
  BY <1>4, <1>5

-----------------------------------------------------------------------------
(* What the marks do to the entries of a cart *)

(* They set the flag of every entry of the product and keep the rest.      *)
LEMMA MarkedSetsFlags ==
  ASSUME NEW cart \in Documents, NEW p \in Products, NEW flag \in BOOLEAN
  PROVE  LET new == Marked(cart, p, flag) IN
         /\ Exists(new) <=> Exists(cart)
         /\ Exists(cart) => \A q \in Products : q # p => new[q] = cart[q]
         /\ Exists(cart) => DOMAIN new[p] = DOMAIN cart[p]
         /\ Exists(cart) => \A i \in DOMAIN new[p] :
              /\ new[p][i].unavailable = flag
              /\ new[p][i].quantity = cart[p][i].quantity
<1>1. CASE ~HasItem(cart, p)
  <2>1. Marked(cart, p, flag) = cart
    BY <1>1 DEF Marked
  <2>2. Exists(cart) => cart[p] = <<>>
    BY <1>1 DEF HasItem
  <2>3. DOMAIN <<>> = {}
    OBVIOUS
  <2> QED
    BY <2>1, <2>2, <2>3
<1>2. CASE HasItem(cart, p)
  <2> DEFINE old   == cart[p]
             items == [i \in DOMAIN old |->
                         [old[i] EXCEPT !.unavailable = flag]]
             new   == [cart EXCEPT ![p] = items]
  <2>1. Marked(cart, p, flag) = new
    BY <1>2 DEF Marked
  <2>2. cart \in Cart /\ old \in Seq(Entry) /\ Exists(cart)
    BY <1>2 DEF HasItem, Exists, Documents, Cart
  <2>3. \A i \in DOMAIN old : old[i] \in Entry
    BY <2>2
  <2>4. \A i \in DOMAIN items : /\ items[i].unavailable = flag
                                /\ items[i].quantity = old[i].quantity
    BY <2>3 DEF Entry
  <2>5. DOMAIN items = DOMAIN old
    OBVIOUS
  <2> HIDE DEF items
  <2>6. new[p] = items /\ \A q \in Products : q # p => new[q] = cart[q]
    BY <2>2 DEF Cart
  <2>7. Exists(new)
    <3>1. Marked(cart, p, flag) \in Documents /\ HasItem(new, p)
      BY <1>2, <2>1, MarkedKeepsItems
    <3> QED
      BY <3>1 DEF HasItem
  <2> HIDE DEF new
  <2> QED
    BY <2>1, <2>2, <2>4, <2>5, <2>6, <2>7
<1> QED
  BY <1>1, <1>2

LEMMA MarkedKeepsAmounts ==
  ASSUME NEW cart \in Documents, NEW p \in Products, NEW flag \in BOOLEAN
  PROVE  Amounts(Marked(cart, p, flag)) = Amounts(cart)
<1> DEFINE new == Marked(cart, p, flag)
<1>1. CASE ~Exists(cart)
  BY <1>1, MarkedSetsFlags DEF Amounts
<1>2. CASE Exists(cart)
  <2>1. /\ Exists(new)
        /\ \A q \in Products : q # p => new[q] = cart[q]
        /\ DOMAIN new[p] = DOMAIN cart[p]
        /\ \A i \in DOMAIN new[p] : new[p][i].quantity = cart[p][i].quantity
    BY <1>2, MarkedSetsFlags
  <2> HIDE DEF new
  <2>2. \A q \in Products : [i \in DOMAIN new[q] |-> new[q][i].quantity]
                              = [i \in DOMAIN cart[q] |-> cart[q][i].quantity]
    BY <2>1
  <2>3. Amounts(new) = Amounts(cart)
    BY <1>2, <2>1, <2>2 DEF Amounts
  <2> QED
    BY <2>3 DEF new
<1> QED
  BY <1>1, <1>2

(* What a cart amounts to decides its entries and units.                   *)
LEMMA SameAmounts ==
  ASSUME NEW new \in Documents, NEW old \in Documents,
         Exists(new) <=> Exists(old), Amounts(new) = Amounts(old),
         NEW p \in Products
  PROVE  /\ Count(new, p) = Count(old, p)
         /\ Units(new, p) = Units(old, p)
<1>1. CASE ~Exists(old)
  BY <1>1 DEF Count, Units
<1>2. CASE Exists(old)
  <2>1. new[p] \in Seq(Entry) /\ old[p] \in Seq(Entry)
    BY <1>2 DEF Exists, Documents, Cart
  <2>2. [i \in DOMAIN new[p] |-> new[p][i].quantity]
          = [i \in DOMAIN old[p] |-> old[p][i].quantity]
    <3>1. Amounts(new)[p] = [i \in DOMAIN new[p] |-> new[p][i].quantity]
      BY <1>2 DEF Amounts
    <3>2. Amounts(old)[p] = [i \in DOMAIN old[p] |-> old[p][i].quantity]
      BY <1>2 DEF Amounts
    <3> QED
      BY <3>1, <3>2
  <2>3. /\ DOMAIN new[p] = DOMAIN old[p]
        /\ \A i \in DOMAIN old[p] : new[p][i].quantity = old[p][i].quantity
    <3> DEFINE a == new[p]
               b == old[p]
    <3>1. [i \in DOMAIN a |-> a[i].quantity] = [i \in DOMAIN b |-> b[i].quantity]
      BY <2>2
    <3> HIDE DEF a, b
    <3>2. DOMAIN a = DOMAIN b
      BY <3>1
    <3>3. \A i \in DOMAIN b : a[i].quantity = b[i].quantity
      BY <3>1, <3>2
    <3> QED
      BY <3>2, <3>3 DEF a, b
  <2>4. Len(new[p]) = Len(old[p])
    BY <2>1, <2>3, LenProperties
  <2>5. Units(new, p) = Units(old, p)
    BY <1>2, <2>3 DEF Units
  <2> QED
    BY <1>2, <2>4, <2>5 DEF Count
<1> QED
  BY <1>1, <1>2

-----------------------------------------------------------------------------
(* The steps of the consumers *)

(* A transaction marks the carts as they are when it commits.              *)
LEMMA TxMarks ==
  ASSUME ConsumerTypeOK, NEW t \in OpenTxs, TxEffect(t), NEW u \in Users
  PROVE  /\ carts[u] \in Documents
         /\ EventOf(t).product \in Products
         /\ Unavailable(EventOf(t)) \in BOOLEAN
         /\ carts'[u] = IF u \in TxWrites(t)
                        THEN Marked(carts[u], EventOf(t).product,
                                    Unavailable(EventOf(t)))
                        ELSE carts[u]
<1>1. /\ EventOf(t).product \in Products
      /\ Unavailable(EventOf(t)) \in BOOLEAN
  BY OpenTx DEF Unavailable
<1>2. carts[u] \in Documents
  BY DEF ConsumerTypeOK, CartsTypeOK, Documents
<1>3. u \in TxWrites(t) => carts[u] = t.seen[u]
  BY DEF TxEffect, Conflict
<1> QED
  BY <1>1, <1>2, <1>3 DEF TxEffect, MarkedCarts

(* No step of theirs changes what a cart amounts to.                       *)
LEMMA ConsumerKeepsAmounts ==
  ASSUME ConsumerTypeOK, ConsumerNext, NEW u \in Users
  PROVE  /\ carts[u] \in Documents /\ carts'[u] \in Documents
         /\ Exists(carts'[u]) <=> Exists(carts[u])
         /\ Amounts(carts'[u]) = Amounts(carts[u])
<1>1. CartsTypeOK /\ CartsTypeOK'
  BY CartsStep DEF ConsumerTypeOK
<1>2. carts' = carts \/ \E t \in OpenTxs : TxEffect(t)
  BY GroupEffect
<1>3. ASSUME NEW t \in OpenTxs, TxEffect(t)
      PROVE  /\ Exists(carts'[u]) <=> Exists(carts[u])
             /\ Amounts(carts'[u]) = Amounts(carts[u])
  BY <1>3, TxMarks, MarkedSetsFlags, MarkedKeepsAmounts
<1> QED
  BY <1>1, <1>2, <1>3 DEF CartsTypeOK, Documents

(* Nor which items it holds.                                               *)
LEMMA ConsumerKeepsItems ==
  ASSUME ConsumerTypeOK, ConsumerNext, NEW u \in Users, NEW p \in Products
  PROVE  HasItem(carts'[u], p) <=> HasItem(carts[u], p)
<1>1. /\ carts[u] \in Documents /\ carts'[u] \in Documents
      /\ Count(carts'[u], p) = Count(carts[u], p)
  BY ConsumerKeepsAmounts, SameAmounts
<1> QED
  BY <1>1, CountIsNat

(* A transaction that is open was open, or sees the carts as they are.     *)
LEMMA OpenTxsStep ==
  ASSUME ConsumerTypeOK, ConsumerNext
  PROVE  \A t \in OpenTxs' : t \in OpenTxs \/ t.seen = carts
<1> USE DEF MoveTo, topic, reader, store
<1>0. /\ phase \in [Members -> {"fetch", "handle", "tx", "commit", "stopped",
                                "down"}]
      /\ snapshot \in [Members -> [Users -> Cart \cup {NoCart}]]
      /\ msg \in [Members -> Offsets]
  BY DEF ConsumerTypeOK
<1>1. ASSUME undecided' \subseteq OpenTxs,
             \A m \in Members : phase'[m] = "tx" =>
               /\ phase[m] = "tx"
               /\ snapshot'[m] = snapshot[m] /\ msg'[m] = msg[m]
      PROVE  \A t \in OpenTxs' : t \in OpenTxs
  BY <1>1 DEF OpenTxs, InTx, Tx
<1>2. ASSUME NEW n \in Members, TxInsert(n)
      PROVE  \A t \in OpenTxs' : t \in OpenTxs \/ t.seen = carts
  <2>1. /\ UNCHANGED <<msg, undecided>>
        /\ phase' = [phase EXCEPT ![n] = "tx"]
        /\ snapshot' = [snapshot EXCEPT ![n] = carts]
    BY <1>2 DEF TxInsert
  <2>2. ASSUME NEW m \in Members, phase'[m] = "tx"
        PROVE  Tx(m)' \in OpenTxs \/ Tx(m)'.seen = carts
    BY <1>0, <2>1, <2>2 DEF Tx, OpenTxs, InTx
  <2> QED
    BY <2>1, <2>2 DEF OpenTxs, InTx
<1>3. ASSUME NEW n \in Members, TxCommit(n) \/ HandleFails(n) \/ Exit(n)
      PROVE  \A t \in OpenTxs' : t \in OpenTxs
  <2>1. /\ phase'[n] # "tx" /\ \A m \in Members \ {n} : phase'[m] = phase[m]
        /\ UNCHANGED <<snapshot, msg>>
        /\ \/ undecided' = undecided
           \/ phase[n] = "tx" /\ undecided' = undecided \cup {Tx(n)}
    BY <1>0, <1>3 DEF TxCommit, HandleReturnsNil, HandleFails, Exit, LeavesTx,
       AfterFailure, TxEffect
  <2>2. undecided' \subseteq OpenTxs
    BY <2>1 DEF OpenTxs, InTx
  <2> QED
    BY <1>1, <2>1, <2>2
<1>4. ASSUME NEW t \in undecided, Decide(t)
      PROVE  \A r \in OpenTxs' : r \in OpenTxs
  <2>1. UNCHANGED <<phase, snapshot, msg>> /\ undecided' \subseteq undecided
    BY <1>4 DEF Decide, LateCommit, LateAbort, TxEffect, Forget
  <2> QED
    BY <1>1, <2>1 DEF OpenTxs
<1>5. ASSUME NEW n \in Members,
             \/ Start(n) \/ Assign(n) \/ Revoke(n) \/ Fetch(n)
             \/ FetchCancelled(n) \/ Ignore(n) \/ AlreadyProcessed(n)
             \/ TxRetry(n) \/ Commit(n) \/ Stop(n)
      PROVE  \A t \in OpenTxs' : t \in OpenTxs
  BY <1>0, <1>1, <1>5 DEF Start, Assign, Revoke, Fetch, FetchCancelled,
     Ignore, AlreadyProcessed, HandleReturnsNil, TxRetry, Commit, Stop, OpenTxs
<1>6. CASE Publish
  BY <1>1, <1>6 DEF Publish, OpenTxs
<1> QED
  BY <1>2, <1>3, <1>4, <1>5, <1>6 DEF ConsumerNext, MemberStep, Loop, Handle

(* Events in the log do not change, so neither does the meaning of effects.*)
LEMMA LastMarkStays ==
  ASSUME ConsumerTypeOK, [ConsumerNext]_consumerOnly,
         effects' = effects, NEW p \in Products
  PROVE  LastMarkIsOut(p)' <=> LastMarkIsOut(p)
<1>1. \A o \in Logged : log'[o + 1] = log[o + 1]
  BY LogGrows
<1>2. \A i \in DOMAIN effects : effects[i] \in Logged
  BY DEF ConsumerTypeOK
<1>3. \A i \in DOMAIN effects : At(effects[i])' = At(effects[i])
  BY <1>1, <1>2 DEF At
<1> QED
  BY <1>3 DEF LastMarkIsOut

(* A transaction makes its event the last one of its product, and of no    *)
(* other.                                                                  *)
LEMMA LastMarkSet ==
  ASSUME ConsumerTypeOK, NEW t \in OpenTxs, TxEffect(t), log' = log,
         NEW p \in Products
  PROVE  LastMarkIsOut(p)' <=> IF p = EventOf(t).product
                               THEN ~EventOf(t).inStock
                               ELSE LastMarkIsOut(p)
<1> DEFINE n     == Len(effects)
           ev(i) == log'[effects'[i] + 1]
           last  == EventOf(t)
           out   == \E i \in 1..n + 1 :
                      /\ ev(i).product = p
                      /\ ~ev(i).inStock
                      /\ \A j \in 1..n + 1 : ev(j).product = p => j <= i
           was   == \E i \in 1..n :
                      /\ ev(i).product = p
                      /\ ~ev(i).inStock
                      /\ \A j \in 1..n : ev(j).product = p => j <= i
<1>1. effects \in Seq(Logged) /\ t.offset \in Logged
  BY OpenTx DEF ConsumerTypeOK
<1>2. /\ n \in Nat /\ DOMAIN effects = 1..n
      /\ DOMAIN effects' = 1..n + 1
      /\ effects'[n + 1] = t.offset
      /\ \A i \in 1..n : effects'[i] = effects[i]
  BY <1>1, AppendProperties DEF TxEffect
<1>3. ev(n + 1) = last
  BY <1>2 DEF At, EventOf
<1>4. \A i \in 1..n : ev(i) = At(effects[i])
  BY <1>2 DEF At
<1>5. LastMarkIsOut(p)' <=> out
  BY <1>2 DEF LastMarkIsOut, At
<1>6. LastMarkIsOut(p) <=> was
  BY <1>2, <1>4 DEF LastMarkIsOut
<1> HIDE DEF n, ev, last
<1>7. CASE p = last.product
  <2>1. ASSUME out
        PROVE  ~last.inStock
    <3>1. PICK i \in 1..n + 1 :
            /\ ~ev(i).inStock
            /\ \A j \in 1..n + 1 : ev(j).product = p => j <= i
      BY <2>1
    <3>2. n + 1 \in 1..n + 1
      BY <1>2
    <3>3. n + 1 <= i
      BY <1>3, <1>7, <3>1, <3>2
    <3>4. i = n + 1
      BY <1>2, <3>1, <3>3
    <3> QED
      BY <1>3, <3>1, <3>4
  <2>2. ASSUME ~last.inStock
        PROVE  out
    <3>1. n + 1 \in 1..n + 1 /\ \A j \in 1..n + 1 : j <= n + 1
      BY <1>2
    <3> QED
      BY <1>3, <1>7, <2>2, <3>1
  <2> QED
    BY <1>5, <1>7, <2>1, <2>2 DEF last
<1>8. CASE p # last.product
  <2>1. \A i \in 1..n + 1 : ev(i).product = p => i \in 1..n
    BY <1>2, <1>3, <1>8
  <2>2. \A i \in 1..n : i \in 1..n + 1
    BY <1>2
  <2>3. out <=> was
    BY <2>1, <2>2
  <2> QED
    BY <1>5, <1>6, <1>8, <2>3 DEF last
<1> QED
  BY <1>7, <1>8 DEF last

-----------------------------------------------------------------------------
(* Both writers *)

SystemInv ==
  /\ RepoInv
  /\ SharedInv
  /\ fresh \in SUBSET (Users \X Products)
  /\ owed \in SUBSET (Messages \X Users)

(* Every step is one of a writer, while the other stands still.            *)
LEMMA OneWriter ==
  ASSUME [SystemNext]_systemVars
  PROVE  \/ CallStep
         \/ ConsumerNext /\ UNCHANGED callsOnly
         \/ UNCHANGED systemVars
BY DEF SystemNext, CatalogStep, ConsumerStep, MongoStep, ConsumerNext

(* An effect of the consumers is the commit of one transaction.            *)
LEMMA ConsumersSettle ==
  ASSUME ConsumerTypeOK,
         \/ \E m \in Members : ConsumerStep(m)
         \/ \E t \in undecided : MongoStep(t)
  PROVE  \/ UNCHANGED <<carts, effects, processed, history>>
         \/ \E t \in OpenTxs : TxEffect(t) /\ Settles(t) /\ UNCHANGED log
<1>1. ASSUME NEW t \in OpenTxs, TxEffect(t)
      PROVE  effects' # effects
  <2>1. effects \in Seq(Logged) /\ t.offset \in Logged
    BY OpenTx DEF ConsumerTypeOK
  <2>2. Len(effects') = Len(effects) + 1 /\ Len(effects) \in Nat
    BY <1>1, <2>1, AppendProperties DEF TxEffect
  <2> QED
    BY <2>2
<1>2. ASSUME NEW m \in Members, ConsumerStep(m)
      PROVE  \/ UNCHANGED <<carts, effects, processed, history>>
             \/ \E t \in OpenTxs : TxEffect(t) /\ Settles(t) /\ UNCHANGED log
  <2>1. CASE UNCHANGED <<carts, effects, processed>>
    BY <1>2, <2>1 DEF ConsumerStep
  <2>2. CASE TxCommit(m)
    BY <1>1, <1>2, <2>2, MemberCommit DEF ConsumerStep
  <2> QED
    BY <1>2, <2>1, <2>2, MemberEffect DEF ConsumerStep
<1>3. ASSUME NEW t \in undecided, MongoStep(t)
      PROVE  \/ UNCHANGED <<carts, effects, processed, history>>
             \/ TxEffect(t) /\ t \in OpenTxs /\ Settles(t) /\ UNCHANGED log
  BY <1>1, <1>3, DecideEffect DEF MongoStep
<1> QED
  BY <1>2, <1>3

(* The consumers leave Redis alone.                                        *)
LEMMA SystemStepIsLockStep == [SystemNext]_systemVars => [LockNext]_lockVars
<1>1. CallStep => [LockNext]_lockVars
  BY RepoStepIsLockStep DEF CallStep
<1> QED
  BY <1>1, OneWriter DEF systemVars, callsOnly

LEMMA SystemExclusion == SystemSpec => [](LockTypeOK /\ Exclusion)
<1>1. SystemSpec => LockSafetySpec
  <2>1. SystemInit => LockInit
    BY DEF SystemInit, RepoInit
  <2> QED
    BY <2>1, SystemStepIsLockStep, PTL DEF SystemSpec, LockSafetySpec
<1> QED
  BY <1>1, LockTypeCorrect, ExclusionHolds, PTL

(* Each writer leaves what the other one relies on: documents.             *)
LEMMA SystemInvStep ==
  ASSUME SystemInv, LockTypeOK', [SystemNext]_systemVars
  PROVE  SystemInv'
<1> USE DEF SystemInv
<1>1. CASE CallStep
  <2>1. RepoNext /\ UNCHANGED consumerOnly
    BY <1>1 DEF CallStep
  <2>2. RepoInv'
    BY <2>1, RepoInvStep
  <2>3. CartsTypeOK'
    BY <2>2 DEF RepoInv, RepoTypeOK
  <2>4. SharedInv'
    BY <2>1, <2>3, SharedInvStep
  <2>5. /\ fresh' \in SUBSET (Users \X Products)
        /\ owed' \in SUBSET (Messages \X Users)
    BY <1>1 DEF CallStep, Entered
  <2> QED
    BY <2>2, <2>4, <2>5
<1>2. CASE ConsumerNext /\ UNCHANGED callsOnly
  <2>1. CartsTypeOK'
    BY <1>2, CartsStep DEF SharedInv
  <2>2. SharedInv'
    BY <1>2, <2>1, SharedInvStep
  <2>3. RepoInv'
    BY <1>2, <2>1 DEF RepoInv, RepoTypeOK, LockTypeOK, ReadsStayIdle,
       StepsInOrder, callsOnly, lockVars, writes
  <2>4. ASSUME NEW t \in OpenTxs, Settles(t)
        PROVE  /\ fresh' \in SUBSET (Users \X Products)
               /\ owed' \in SUBSET (Messages \X Users)
    <3>1. EventOf(t).product \in Products
      BY OpenTx DEF SharedInv
    <3> QED
      BY <2>4, <3>1 DEF Settles, Unseen
  <2>5. CASE CatalogStep
    BY <2>2, <2>3, <2>5 DEF CatalogStep, Published
  <2>6. CASE UNCHANGED history
    BY <2>2, <2>3, <2>6 DEF history
  <2>7. CASE \/ \E m \in Members : ConsumerStep(m)
             \/ \E t \in undecided : MongoStep(t)
    BY <2>2, <2>3, <2>4, <2>6, <2>7, ConsumersSettle DEF SharedInv
  <2>8. CASE UNCHANGED systemVars
    BY <2>6, <2>8 DEF systemVars
  <2> QED
    BY <1>1, <2>5, <2>7, <2>8 DEF SystemNext
<1>3. CASE UNCHANGED systemVars
  <2>1. CartsTypeOK'
    BY <1>3 DEF systemVars, RepoInv, RepoTypeOK, CartsTypeOK
  <2>2. SharedInv'
    BY <1>3, <2>1, SharedInvStep DEF systemVars
  <2>3. RepoInv'
    BY <1>3, <2>1 DEF RepoInv, RepoTypeOK, LockTypeOK, ReadsStayIdle,
       StepsInOrder, systemVars, callsOnly, lockVars, writes
  <2> QED
    BY <1>3, <2>2, <2>3 DEF systemVars, history
<1> QED
  BY <1>1, <1>2, <1>3, OneWriter

LEMMA SystemInvariant == SystemSpec => []SystemInv
<1>1. SystemInit => SystemInv
  <2>1. SystemInit => RepoInv
    BY RepoInvStarts DEF SystemInit
  <2>2. SystemInit => SharedInv
    <3>1. RepoInv => CartsTypeOK
      BY DEF RepoInv, RepoTypeOK
    <3> QED
      BY <2>1, <3>1, GroupInvHolds DEF SystemInit, GroupInv
  <2> QED
    BY <2>1, <2>2 DEF SystemInit, SystemInv
<1>2. SystemInv /\ LockTypeOK' /\ [SystemNext]_systemVars => SystemInv'
  BY SystemInvStep
<1> QED
  BY <1>1, <1>2, SystemExclusion, PTL DEF SystemSpec

(* Neither writer leaves anything behind that the other cannot read.       *)
THEOREM SystemTypeCorrect == SystemSpec => []SystemTypeOK
<1>1. SystemInv => SystemTypeOK
  BY DEF SystemInv, SystemTypeOK, RepoInv, SharedInv
<1> QED
  BY <1>1, SystemInvariant, PTL

-----------------------------------------------------------------------------
(* What the consumers keep next to the calls *)

(* To the consumers, the calls are another writer of the carts.            *)
THEOREM ConsumersAreUndisturbed ==
  SystemSpec => [](/\ EventsTakeEffectOnce
                   /\ CommittedWereDelivered
                   /\ OnlySkippedEventsAreLate)
<1>1. SystemSpec => SharedSpec
  <2>1. SystemInit => ConsumerInit
    BY DEF SystemInit
  <2>2. [SystemNext]_systemVars => [ConsumerNext]_consumerOnly
    BY OneWriter DEF CallStep, systemVars
  <2>3. SystemInv => CartsTypeOK
    BY DEF SystemInv, RepoInv, RepoTypeOK
  <2> QED
    BY <2>1, <2>2, <2>3, SystemInvariant, PTL DEF SystemSpec, SharedSpec
<1> QED
  BY <1>1, ConsumersAmongWriters, PTL

-----------------------------------------------------------------------------
(* What the calls keep next to the consumers *)

LEMMA MarksKeepSingleEntries ==
  ASSUME ConsumerTypeOK, SingleEntries, ConsumerNext, UNCHANGED callsOnly
  PROVE  SingleEntries'
<1>1. ASSUME NEW u \in Users, NEW p \in Products
      PROVE  Count(carts[u], p)' = Count(carts[u], p)
  <2>1. Count(carts'[u], p) = Count(carts[u], p)
    BY ConsumerKeepsAmounts, SameAmounts
  <2> QED
    BY <2>1 DEF Count, Exists
<1> QED
  BY <1>1 DEF SingleEntries, Excused, AboutToPush, Pushes, Adds, callsOnly,
     lockVars, contexts, writes

LEMMA MarksKeepUnits ==
  ASSUME ConsumerTypeOK, UnitsAddUp, ConsumerNext, UNCHANGED callsOnly
  PROVE  UnitsAddUp'
<1>1. ASSUME NEW u \in Users, NEW p \in Products
      PROVE  Units(carts[u], p)' = Units(carts[u], p)
  <2>1. Units(carts'[u], p) = Units(carts[u], p)
    BY ConsumerKeepsAmounts, SameAmounts
  <2> QED
    BY <2>1 DEF Units, Exists
<1>2. UNCHANGED <<req, applied>>
  BY DEF callsOnly, writes
<1>3. \A u \in Users, p \in Products :
        /\ OnlyAdded(u, p)' <=> OnlyAdded(u, p)
        /\ AddedUnits(u, p)' = AddedUnits(u, p)
  BY <1>2 DEF OnlyAdded, AddedUnits, Adds
<1> QED
  BY <1>1, <1>3 DEF UnitsAddUp

CallsInv == SingleEntries /\ AtMostOnce /\ UnitsAddUp

LEMMA CallsInvStep ==
  ASSUME SystemInv, Exclusion, CallsInv, [SystemNext]_systemVars
  PROVE  CallsInv'
<1> USE DEF CallsInv
<1>1. CASE CallStep
  BY <1>1, SingleEntriesStep, AtMostOnceStep, UnitsAddUpStep
     DEF CallStep, SystemInv
<1>2. CASE ConsumerNext /\ UNCHANGED callsOnly
  <2>1. SingleEntries' /\ UnitsAddUp'
    BY <1>2, MarksKeepSingleEntries, MarksKeepUnits DEF SystemInv, SharedInv
  <2>2. AtMostOnce'
    BY <1>2 DEF AtMostOnce, Working, callsOnly, lockVars, writes
  <2> QED
    BY <2>1, <2>2
<1>3. CASE UNCHANGED systemVars
  <2>1. UNCHANGED repoVars
    BY <1>3 DEF systemVars, callsOnly, repoVars, repoOnly
  <2> QED
    BY <2>1, SingleEntriesStep, AtMostOnceStep, UnitsAddUpStep DEF SystemInv
<1> QED
  BY <1>1, <1>2, <1>3, OneWriter

LEMMA CallsInvariant == SystemSpec => []CallsInv
<1>1. SystemInit => CallsInv
  BY SingleEntriesStart, SumsStart DEF SystemInit, CallsInv
<1>2. SystemInv /\ Exclusion /\ CallsInv /\ [SystemNext]_systemVars
        => CallsInv'
  BY CallsInvStep
<1> QED
  BY <1>1, <1>2, SystemInvariant, SystemExclusion, PTL DEF SystemSpec

(* With transactions next to them, calls list a product twice only after a *)
(* lease or a statement outlived an AddItem.                               *)
THEOREM SystemDuplicatesExplained ==
  SystemSpec => []DuplicateOnlyAfterOverrun
BY CallsInvariant, SystemInvariant, SingleExplains, PTL
   DEF CallsInv, SystemInv

(* No transaction of a consumer takes an addition back or counts it twice. *)
THEOREM NoAdditionIsUndone == SystemSpec => []NoLostAddition
BY CallsInvariant, SumsAreAdditions, PTL DEF CallsInv

-----------------------------------------------------------------------------
(* The flags of the items *)

FlagsRight(u, p) ==
  HasItem(carts[u], p) /\ <<u, p>> \notin fresh =>
    \A i \in DOMAIN carts[u][p] :
      carts[u][p][i].unavailable <=> LastMarkIsOut(p)

(* A statement leaves the flags of the entries it finds; a product of which*)
(* it adds an entry is fresh in that cart.                                 *)
LEMMA CallKeepsFlagsRight ==
  ASSUME SystemInv, FlagsFollowLastMark, CallStep
  PROVE  FlagsFollowLastMark'
<1> SUFFICES ASSUME NEW u \in Users, NEW p \in Products
             PROVE  FlagsRight(u, p)'
  BY DEF FlagsFollowLastMark, FlagsRight
<1> USE DEF SystemInv
<1>1. /\ effects' = effects /\ UNCHANGED consumerOnly
      /\ fresh' = fresh \cup Entered
  BY DEF CallStep, consumerOnly
<1>2. LastMarkIsOut(p)' <=> LastMarkIsOut(p)
  BY <1>1, LastMarkStays DEF SharedInv
<1>3. FlagsRight(u, p)
  BY DEF FlagsFollowLastMark, FlagsRight
<1>4. CASE carts' = carts
  BY <1>1, <1>2, <1>3, <1>4 DEF FlagsRight
<1>5. ASSUME NEW c \in Calls, pc[c] = "held" \/ c \in inFlight, Executes(c)
      PROVE  FlagsRight(u, p)'
  <2>1. req[c].op # "GetCart"
    BY <1>5 DEF RepoInv, ReadsStayIdle
  <2>2. KeepsFlags(carts'[u], carts[u], p) /\ carts' \in [Users -> Documents]
    BY <1>5, <2>1, StatementKeepsFlags, ExecutesCounts DEF RepoInv
  <2>3. /\ Count(carts[u], p) \in Nat
        /\ Count(carts'[u], p) \in Nat
        /\ HasItem(carts[u], p) <=> Count(carts[u], p) > 0
        /\ HasItem(carts'[u], p) <=> Count(carts'[u], p) > 0
    <3>1. carts[u] \in Documents /\ carts'[u] \in Documents
      BY <2>2 DEF RepoInv, RepoTypeOK, CartsTypeOK, Documents
    <3> QED
      BY <3>1, CountIsNat
  <2> SUFFICES ASSUME HasItem(carts'[u], p), <<u, p>> \notin fresh'
               PROVE  \A i \in DOMAIN carts'[u][p] :
                        carts'[u][p][i].unavailable <=> LastMarkIsOut(p)'
    BY DEF FlagsRight
  <2>4. <<u, p>> \notin fresh /\ Count(carts'[u], p) <= Count(carts[u], p)
    BY <1>1, <2>3 DEF Entered
  <2>5. HasItem(carts[u], p)
    BY <2>3, <2>4
  <2>6. Flags(carts'[u], p) = Flags(carts[u], p)
    BY <2>2, <2>4 DEF KeepsFlags
  <2>7. /\ DOMAIN carts'[u][p] = DOMAIN carts[u][p]
        /\ \A i \in DOMAIN carts[u][p] :
             carts'[u][p][i].unavailable = carts[u][p][i].unavailable
    <3> DEFINE new == carts'[u][p]
               old == carts[u][p]
    <3>1. [i \in DOMAIN new |-> new[i].unavailable]
            = [i \in DOMAIN old |-> old[i].unavailable]
      BY <2>6 DEF Flags
    <3> HIDE DEF new, old
    <3>2. DOMAIN new = DOMAIN old
      BY <3>1
    <3>3. \A i \in DOMAIN old : new[i].unavailable = old[i].unavailable
      BY <3>1, <3>2
    <3> QED
      BY <3>2, <3>3 DEF new, old
  <2> QED
    BY <1>2, <1>3, <2>4, <2>5, <2>7 DEF FlagsRight
<1> QED
  BY <1>4, <1>5, RepoWrites DEF CallStep

(* A transaction sets the flags of the items it sees and declares the rest *)
(* of its product fresh.                                                   *)
LEMMA TxKeepsFlagsRight ==
  ASSUME SystemInv, FlagsFollowLastMark, NEW t \in OpenTxs, TxEffect(t),
         Settles(t), UNCHANGED log
  PROVE  FlagsFollowLastMark'
<1> SUFFICES ASSUME NEW u \in Users, NEW p \in Products
             PROVE  FlagsRight(u, p)'
  BY DEF FlagsFollowLastMark, FlagsRight
<1> USE DEF SystemInv, SharedInv
<1> DEFINE e    == EventOf(t)
           flag == Unavailable(e)
<1>1. /\ carts[u] \in Documents
      /\ e.product \in Products /\ flag \in BOOLEAN
      /\ carts'[u] = IF u \in TxWrites(t)
                     THEN Marked(carts[u], e.product, flag)
                     ELSE carts[u]
  BY TxMarks
<1>2. LastMarkIsOut(p)' <=> IF p = e.product THEN flag ELSE LastMarkIsOut(p)
  BY LastMarkSet DEF Unavailable
<1>3. fresh' = {up \in fresh : up[2] # e.product} \cup Unseen(t)
  BY DEF Settles
<1>4. FlagsRight(u, p)
  BY DEF FlagsFollowLastMark, FlagsRight
<1> HIDE DEF e, flag
<1> SUFFICES ASSUME HasItem(carts'[u], p), <<u, p>> \notin fresh'
             PROVE  \A i \in DOMAIN carts'[u][p] :
                      carts'[u][p][i].unavailable <=> LastMarkIsOut(p)'
  BY DEF FlagsRight
<1>5. CASE p = e.product
  <2>1. u \in TxWrites(t)
    BY <1>3, <1>5 DEF Unseen, e
  <2>2. carts'[u] = Marked(carts[u], p, flag) /\ Exists(carts'[u])
    BY <1>1, <1>5, <2>1 DEF HasItem
  <2>3. \A i \in DOMAIN carts'[u][p] : carts'[u][p][i].unavailable = flag
    BY <1>1, <2>2, MarkedSetsFlags
  <2> QED
    BY <1>2, <1>5, <2>3
<1>6. CASE p # e.product
  <2>1. Exists(carts'[u]) <=> Exists(carts[u])
    BY <1>1, MarkedSetsFlags
  <2>2. carts'[u][p] = carts[u][p]
    BY <1>1, <1>6, <2>1, MarkedSetsFlags DEF HasItem
  <2>3. HasItem(carts[u], p) /\ <<u, p>> \notin fresh
    BY <1>3, <1>6, <2>1, <2>2 DEF HasItem
  <2> QED
    BY <1>2, <1>4, <1>6, <2>2, <2>3 DEF FlagsRight
<1> QED
  BY <1>5, <1>6

LEMMA FlagsStep ==
  ASSUME SystemInv, FlagsFollowLastMark, [SystemNext]_systemVars
  PROVE  FlagsFollowLastMark'
<1>1. ASSUME UNCHANGED <<carts, fresh, effects>>, [ConsumerNext]_consumerOnly
      PROVE  FlagsFollowLastMark'
  <2>1. \A p \in Products : LastMarkIsOut(p)' <=> LastMarkIsOut(p)
    BY <1>1, LastMarkStays DEF SystemInv, SharedInv
  <2> QED
    BY <1>1, <2>1 DEF FlagsFollowLastMark
<1>2. CASE CallStep
  BY <1>2, CallKeepsFlagsRight
<1>3. CASE \/ \E m \in Members : ConsumerStep(m)
           \/ \E t \in undecided : MongoStep(t)
  <2>1. ConsumerNext
    BY <1>3 DEF ConsumerStep, MongoStep, ConsumerNext
  <2> QED
    BY <1>1, <1>3, <2>1, ConsumersSettle, TxKeepsFlagsRight
       DEF SystemInv, SharedInv, history
<1>4. CASE CatalogStep
  BY <1>1, <1>4 DEF CatalogStep, Publish, store, ConsumerNext
<1>5. CASE UNCHANGED systemVars
  BY <1>1, <1>5 DEF systemVars, history, consumerOnly
<1> QED
  BY <1>2, <1>3, <1>4, <1>5 DEF SystemNext

(* The flag of an item is that of the last event applied to its product,   *)
(* unless the item entered the cart after that event's transaction began.  *)
THEOREM FlagsFollow == SystemSpec => []FlagsFollowLastMark
<1>1. SystemInit => FlagsFollowLastMark
  BY DEF SystemInit, RepoInit, CartsInit, FlagsFollowLastMark, HasItem, Exists
<1>2. SystemInv /\ FlagsFollowLastMark /\ [SystemNext]_systemVars
        => FlagsFollowLastMark'
  BY FlagsStep
<1> QED
  BY <1>1, <1>2, SystemInvariant, PTL DEF SystemSpec

(* A statement is executed in a step that ends the work of its call or     *)
(* takes it out of flight.                                                 *)
LEMMA CallsLeaveTraces ==
  ASSUME RepoInv, RepoNext, UNCHANGED callsOnly
  PROVE  carts' = carts
<1> USE DEF RepoInv, RepoTypeOK, LockTypeOK, callsOnly, lockVars, writes
<1>1. ASSUME NEW c \in Calls, Call(c) \/ Locking(c) \/ LockError(c)
      PROVE  carts' = carts
  BY <1>1 DEF Call, Locking, LockError, repoOnly
<1>2. ASSUME NEW c \in Calls, Finish(c)
      PROVE  FALSE
  BY <1>2 DEF Finish, Goto
<1>3. ASSUME NEW c \in Calls, Work(c)
      PROVE  carts' = carts
  BY <1>2, <1>3 DEF Work, UpdateOne, AddItemGoesOn, NotFound, UpdateFails
<1>4. ASSUME NEW c \in Calls, Unlocking(c) \/ CallCancelled(c) \/ GetCart(c)
      PROVE  carts' = carts
  BY <1>4 DEF Unlocking, CallCancelled, GetCart, repoOnly
<1>5. ASSUME NEW c \in Calls, CallCrashes(c)
      PROVE  FALSE
  BY <1>5 DEF CallCrashes, Crash, Goto, Active
<1>6. ASSUME NEW c \in Calls, LateWrite(c)
      PROVE  FALSE
  BY <1>6 DEF LateWrite
<1>7. RedisActs => carts' = carts
  BY RedisAlone DEF repoOnly
<1> QED
  BY <1>1, <1>3, <1>4, <1>5, <1>6, <1>7 DEF RepoNext, RedisActs

(* Transactions change no quantity and neither add nor remove items.       *)
THEOREM MarksKeepAllAmounts == SystemSpec => MarksKeepAmounts
<1>1. ASSUME SystemInv, [SystemNext]_systemVars
      PROVE  [UNCHANGED callsOnly =>
                \A u \in Users :
                  /\ Exists(carts[u]) <=> Exists(carts'[u])
                  /\ Amounts(carts'[u]) = Amounts(carts[u])]_systemVars
  <2> SUFFICES ASSUME SystemNext, UNCHANGED callsOnly, NEW u \in Users
               PROVE  /\ Exists(carts[u]) <=> Exists(carts'[u])
                      /\ Amounts(carts'[u]) = Amounts(carts[u])
    BY <1>1
  <2>1. CASE ConsumerNext
    BY <1>1, <2>1, ConsumerKeepsAmounts DEF SystemInv, SharedInv
  <2>2. CASE CallStep
    <3>1. carts' = carts
      BY <1>1, <2>2, CallsLeaveTraces DEF CallStep, SystemInv
    <3> QED
      BY <3>1
  <2>3. CASE UNCHANGED systemVars
    BY <2>3 DEF systemVars
  <2> QED
    BY <1>1, <2>1, <2>2, <2>3, OneWriter
<1> QED
  BY <1>1, SystemInvariant, PTL DEF SystemSpec, MarksKeepAmounts

-----------------------------------------------------------------------------
(* Both writers implement AtomicSystem *)

(* The two instances of AtomicCart are the same.                           *)
LEMMA SameCart ==
  /\ Atomic!Init <=> Whole!Init
  /\ Atomic!Next <=> Whole!Next
  /\ Atomic!vars = Whole!vars
<1>1. Atomic!Init <=> Whole!Init
  BY DEF Atomic!Init, Whole!Init, Atomic!CartsInit, Whole!CartsInit
<1>2. ASSUME NEW c \in Calls
      PROVE  /\ Atomic!Possible(c) <=> Whole!Possible(c)
             /\ Atomic!Result(c) = Whole!Result(c)
             /\ Atomic!Decodable(Atomic!CartOf(c))
                  <=> Whole!Decodable(Whole!CartOf(c))
  BY DEF Atomic!Possible, Whole!Possible, Atomic!Result, Whole!Result,
     Atomic!CartOf, Whole!CartOf, Atomic!HasItem, Whole!HasItem,
     Atomic!Exists, Whole!Exists, Atomic!Incremented, Whole!Incremented,
     Atomic!Pushed, Whole!Pushed, Atomic!Replaced, Whole!Replaced,
     Atomic!Pulled, Whole!Pulled, Atomic!Cleared, Whole!Cleared,
     Atomic!EmptyCart, Whole!EmptyCart, Atomic!Decodable, Whole!Decodable
<1>3. ASSUME NEW c \in Calls
      PROVE  /\ Atomic!Perform(c) <=> Whole!Perform(c)
             /\ Atomic!Read(c) <=> Whole!Read(c)
             /\ Atomic!Miss(c) <=> Whole!Miss(c)
             /\ Atomic!Fail(c) <=> Whole!Fail(c)
  BY <1>2 DEF Atomic!Perform, Whole!Perform, Atomic!Read, Whole!Read,
     Atomic!Miss, Whole!Miss, Atomic!Fail, Whole!Fail, Atomic!Open,
     Whole!Open, Atomic!Answered, Whole!Answered
<1> QED
  BY <1>1, <1>3 DEF Atomic!Next, Whole!Next, Atomic!vars, Whole!vars

LEMMA SameMarksInWhole ==
  ASSUME NEW cart, NEW p, NEW flag
  PROVE  Whole!Marked(cart, p, flag) = Marked(cart, p, flag)
BY DEF Whole!Marked, Marked, Whole!HasItem, HasItem, Whole!Exists, Exists

LEMMA SameHolds ==
  ASSUME NEW u, NEW e
  PROVE  /\ Whole!Holds(u, e) <=> Holds(u, e)
         /\ Whole!Holds(u, e)' <=> Holds(u, e)'
BY DEF Whole!Holds, Holds, Whole!HasItem, HasItem, Whole!Exists, Exists

(* A cart that is owed the marks of an event holds its product, and the    *)
(* open transaction of the event, if there is one, has seen that it does.  *)
OwedInv ==
  /\ \A eu \in owed : eu[1] \in Published /\ Holds(eu[2], eu[1])
  /\ \A t \in OpenTxs, u \in Users :
       <<EventOf(t), u>> \in owed => u \in TxWrites(t)

(* The events of the catalog stay published.                               *)
LEMMA PublishedGrows ==
  ASSUME ConsumerTypeOK, [ConsumerNext]_consumerOnly
  PROVE  /\ Published \subseteq Published'
         /\ log' = log => Published' = Published
<1>1. Logged \subseteq Logged' /\ \A o \in Logged : log'[o + 1] = log[o + 1]
  BY LogGrows
<1> QED
  BY <1>1 DEF Published, Logged, At, Relevant

(* The event of an open transaction is in the log.                         *)
LEMMA OpenIsPublished ==
  ASSUME SharedInv, NEW t \in OpenTxs
  PROVE  EventOf(t) \in Published
<1>1. Relevant(EventOf(t))
  BY OpenUnrecorded DEF SharedInv, Unrecorded
<1> QED
  BY <1>1, OpenTx DEF SharedInv, Published, EventOf

LEMMA OwedStep ==
  ASSUME SystemInv, OwedInv, [SystemNext]_systemVars
  PROVE  OwedInv'
<1> USE DEF SystemInv, SharedInv
<1>0. /\ owed \in SUBSET (Messages \X Users)
      /\ \A e \in Messages : e.product \in Products
  BY ConsumerAssumption DEF Message
<1>1. CASE CallStep
  <2>1. /\ UNCHANGED <<log, msg, snapshot, phase, undecided>>
        /\ owed' = {eu \in owed : Holds(eu[2], eu[1])'}
    BY <1>1 DEF CallStep, consumerOnly, topic
  <2>2. /\ Published' = Published /\ OpenTxs' = OpenTxs
        /\ \A t : EventOf(t)' = EventOf(t)
        /\ \A t : TxWrites(t)' = TxWrites(t)
    BY <2>1 DEF Published, Logged, At, Relevant, OpenTxs, InTx, Tx, EventOf,
       TxWrites, HasItem, Exists
  <2> QED
    BY <2>1, <2>2 DEF OwedInv, Holds
<1>2. ASSUME ConsumerNext, UNCHANGED log, owed' \subseteq owed
      PROVE  OwedInv'
  <2>1. Published' = Published
    BY <1>2, PublishedGrows
  <2>2. \A eu \in owed : Holds(eu[2], eu[1])' <=> Holds(eu[2], eu[1])
    BY <1>0, <1>2, ConsumerKeepsItems DEF Holds, HasItem, Exists
  <2>3. \A eu \in owed' : eu[1] \in Published' /\ Holds(eu[2], eu[1])'
    BY <1>2, <2>1, <2>2 DEF OwedInv
  <2>4. ASSUME NEW t \in OpenTxs', NEW u \in Users, <<EventOf(t)', u>> \in owed'
        PROVE  u \in TxWrites(t)'
    <3>1. EventOf(t)' = EventOf(t) /\ TxWrites(t)' = TxWrites(t)
      BY <1>2 DEF EventOf, At, TxWrites, HasItem, Exists
    <3>2. CASE t \in OpenTxs
      BY <1>2, <2>4, <3>1, <3>2 DEF OwedInv
    <3>3. CASE t.seen = carts
      <4>1. Holds(u, EventOf(t))
        BY <1>2, <2>4, <3>1 DEF OwedInv
      <4> QED
        BY <3>1, <3>3, <4>1 DEF Holds, TxWrites
    <3> QED
      BY <1>2, <3>2, <3>3, OpenTxsStep
  <2> QED
    BY <2>3, <2>4 DEF OwedInv
<1>3. CASE \/ \E m \in Members : ConsumerStep(m)
           \/ \E t \in undecided : MongoStep(t)
  <2>1. ConsumerNext
    BY <1>3 DEF ConsumerStep, MongoStep, ConsumerNext
  <2>2. log' = log
    BY <1>3 DEF MemberStep, Start, Assign, Revoke, Loop, Fetch,
       FetchCancelled, Handle, Ignore, TxInsert, AlreadyProcessed, TxCommit,
       TxRetry, HandleFails, HandleReturnsNil, Commit, Stop, Exit, topic,
       Decide, ConsumerStep, MongoStep
  <2>3. owed' \subseteq owed
    BY <1>3, ConsumersSettle DEF history, Settles
  <2> QED
    BY <1>2, <2>1, <2>2, <2>3
<1>4. CASE CatalogStep
  <2>1. /\ UNCHANGED <<carts, msg, snapshot, phase, undecided>>
        /\ ConsumerNext
        /\ owed' = owed \cup {eu \in (Published' \ Published) \X Users :
                               Holds(eu[2], eu[1])}
    BY <1>4 DEF CatalogStep, Publish, store, ConsumerNext
  <2>2. Published \subseteq Published'
    BY <2>1, PublishedGrows
  <2>3. OpenTxs' = OpenTxs
    BY <2>1 DEF OpenTxs, InTx, Tx
  <2>4. ASSUME NEW t \in OpenTxs
        PROVE  EventOf(t)' = EventOf(t) /\ TxWrites(t)' = TxWrites(t)
    <3>1. EventOf(t)' = EventOf(t)
      BY <2>1, LogGrows, OpenTx DEF EventOf, At
    <3> QED
      BY <3>1 DEF TxWrites, HasItem, Exists
  <2>5. \A eu \in owed' : eu[1] \in Published' /\ Holds(eu[2], eu[1])'
    BY <2>1, <2>2 DEF OwedInv, Holds
  <2>6. \A t \in OpenTxs, u \in Users :
          <<EventOf(t), u>> \in owed' => <<EventOf(t), u>> \in owed
    BY <2>1, OpenIsPublished
  <2> QED
    BY <2>3, <2>4, <2>5, <2>6 DEF OwedInv
<1>5. CASE UNCHANGED systemVars
  BY <1>5 DEF systemVars, history, consumerOnly, topic, OwedInv, Published,
     Logged, At, Relevant, OpenTxs, InTx, Tx, EventOf, TxWrites, HasItem,
     Exists, Holds
<1> QED
  BY <1>1, <1>3, <1>4, <1>5 DEF SystemNext

LEMMA OwedInvariant == SystemSpec => []OwedInv
<1>1. SystemInit => OwedInv
  BY DEF SystemInit, ConsumerInit, OwedInv, OpenTxs, InTx
<1>2. SystemInv /\ OwedInv /\ [SystemNext]_systemVars => OwedInv'
  BY OwedStep
<1> QED
  BY <1>1, <1>2, SystemInvariant, PTL DEF SystemSpec

(* The commit of a transaction is the step of its event.                   *)
LEMMA EffectIsMark ==
  ASSUME SharedInv, OwedInv, NEW t \in OpenTxs, TxEffect(t), Settles(t),
         UNCHANGED log, UNCHANGED callsOnly
  PROVE  Whole!SystemNext
<1> DEFINE e == EventOf(t)
<1>1. Unrecorded(t)
  BY OpenUnrecorded DEF SharedInv
<1>2. e \in {i \in Messages : Relevant(i)} /\ e \in Published
  BY OpenIsPublished DEF Published
<1>3. carts' = [u \in Users |->
                  IF u \in TxWrites(t)
                  THEN Whole!Marked(carts[u], e.product, ~e.inStock)
                  ELSE carts[u]]
  <2>1. \A u \in Users : u \in TxWrites(t) => t.seen[u] = carts[u]
    BY DEF TxEffect, Conflict
  <2> QED
    BY <2>1, SameMarksInWhole DEF TxEffect, MarkedCarts, Unavailable
<1>4. /\ TxWrites(t) \in SUBSET Users
      /\ \A u \in Users : <<e, u>> \in owed => u \in TxWrites(t)
  BY DEF TxWrites, OwedInv
<1>5. Published' = Published
  BY DEF Published, Logged, At, Relevant
<1>6. /\ owed' = {eu \in owed : eu[1] # e}
      /\ processed' = processed \cup {e.id} /\ e.id \notin processed
      /\ UNCHANGED <<req, applied, reply>>
  BY <1>1 DEF Settles, TxEffect, Unrecorded, callsOnly, writes
<1>7. Whole!Mark(e)
  BY <1>2, <1>3, <1>4, <1>5, <1>6 DEF Whole!Mark
<1> QED
  BY <1>2, <1>7 DEF Whole!SystemNext

(* So is the first publication of an event.                                *)
LEMMA CatalogIsPublish ==
  ASSUME SystemInv, CatalogStep
  PROVE  Whole!SystemNext \/ UNCHANGED Whole!systemVars
<1> USE DEF SystemInv, SharedInv
<1>1. PICK e \in Messages : log' = Append(log, e)
  BY DEF CatalogStep, Publish
<1>2. /\ UNCHANGED <<carts, req, applied, reply, processed>>
      /\ owed' = owed \cup {eu \in (Published' \ Published) \X Users :
                             Holds(eu[2], eu[1])}
      /\ Len(log) < MaxLog
  BY DEF CatalogStep, Publish, store, callsOnly, writes
<1>3. Published' = IF Relevant(e) THEN Published \cup {e} ELSE Published
  <2>1. /\ Len(log') = Len(log) + 1 /\ Len(log) \in Nat
        /\ \A i \in 1..Len(log) : log'[i] = log[i]
        /\ log'[Len(log) + 1] = e
    BY <1>1, AppendProperties DEF ConsumerTypeOK
  <2>2. /\ Logged' = Logged \cup {Len(log)}
        /\ \A o \in Logged : At(o)' = At(o)
    BY <1>2, <2>1, ConsumerAssumption DEF Logged, Offsets, At
  <2>3. log'[Len(log) + 1] = e
    BY <2>1
  <2>4. \A i \in Messages :
          (\E o \in Logged' : log'[o + 1] = i)
            <=> (\E o \in Logged : log[o + 1] = i) \/ i = e
    BY <2>2, <2>3 DEF At
  <2> QED
    BY <2>4 DEF Published, At, Relevant
<1>4. CASE Relevant(e) /\ e \notin Published
  <2>1. Published' \ Published = {e} /\ Published' = Published \cup {e}
    BY <1>3, <1>4
  <2>2. Whole!Publish(e)
    BY <1>2, <1>4, <2>1, SameHolds DEF Whole!Publish, Whole!vars
  <2> QED
    BY <1>4, <2>2 DEF Whole!SystemNext
<1>5. CASE ~(Relevant(e) /\ e \notin Published)
  <2>1. Published' = Published /\ owed' = owed
    BY <1>2, <1>3, <1>5
  <2> QED
    BY <1>2, <2>1 DEF Whole!systemVars, Whole!vars
<1> QED
  BY <1>4, <1>5

OnTimeInv == OnTime /\ OpenUntilDone

LEMMA OnTimeInvStep ==
  ASSUME SystemInv, OnTimeInv, [TimelyStep]_systemVars
  PROVE  OnTimeInv'
<1> USE DEF OnTimeInv
<1>1. CASE CallStep /\ TimelyStep
  <2>1. Timely
    BY <1>1 DEF CallStep, TimelyStep, Timely
  <2> QED
    BY <2>1, OnTimeStep, OpenStep DEF Timely, SystemInv
<1>2. CASE UNCHANGED callsOnly
  BY <1>2 DEF OnTime, OpenUntilDone, callsOnly, lockVars, contexts, writes
<1> QED
  BY <1>1, <1>2, OneWriter DEF TimelyStep, systemVars

LEMMA StepIsWhole ==
  ASSUME SystemInv, SingleEntries, OnTimeInv, OwedInv, [TimelyStep]_systemVars
  PROVE  Whole!SystemNext \/ UNCHANGED Whole!systemVars
<1>1. CASE CallStep /\ TimelyStep
  <2>1. /\ Timely /\ processed' = processed /\ Published' = Published
        /\ owed' = {eu \in owed : Holds(eu[2], eu[1])'}
    BY <1>1 DEF CallStep, TimelyStep, Timely, consumerOnly, topic, Published,
       Logged, At, Relevant
  <2>2. Whole!Next \/ UNCHANGED Whole!vars
    <3>1. Atomic!Next \/ UNCHANGED Atomic!vars
      BY <2>1, StepIsAtomic DEF SystemInv, OnTimeInv
    <3> QED
      BY <3>1, SameCart DEF Atomic!vars, Whole!vars
  <2>3. CASE Whole!Next
    BY <2>1, <2>3, SameHolds DEF Whole!SystemNext, Whole!CallStep
  <2>4. CASE UNCHANGED Whole!vars
    <3>1. \A eu \in owed : Holds(eu[2], eu[1])'
      BY <2>4 DEF OwedInv, Whole!vars, Holds, HasItem, Exists
    <3> QED
      BY <2>1, <2>4, <3>1 DEF Whole!systemVars
  <2> QED
    BY <2>2, <2>3, <2>4
<1>2. CASE \/ \E m \in Members : ConsumerStep(m)
           \/ \E t \in undecided : MongoStep(t)
  <2>1. UNCHANGED <<callsOnly, log>>
    BY <1>2 DEF MemberStep, Start, Assign, Revoke, Loop, Fetch,
       FetchCancelled, Handle, Ignore, TxInsert, AlreadyProcessed, TxCommit,
       TxRetry, HandleFails, HandleReturnsNil, Commit, Stop, Exit, topic,
       Decide, ConsumerStep, MongoStep
  <2>2. CASE UNCHANGED <<carts, effects, processed, history>>
    BY <2>1, <2>2 DEF Whole!systemVars, Whole!vars, history, callsOnly, writes,
       Published, Logged, At, Relevant
  <2>3. ASSUME NEW t \in OpenTxs, TxEffect(t), Settles(t)
        PROVE  Whole!SystemNext
    BY <2>1, <2>3, EffectIsMark DEF SystemInv
  <2> QED
    BY <1>2, <2>2, <2>3, ConsumersSettle DEF SystemInv, SharedInv
<1>3. CASE CatalogStep
  BY <1>3, CatalogIsPublish
<1>4. CASE UNCHANGED systemVars
  BY <1>4 DEF systemVars, history, callsOnly, writes, consumerOnly, topic,
     Whole!systemVars, Whole!vars, Published, Logged, At, Relevant
<1> QED
  BY <1>1, <1>2, <1>3, <1>4 DEF TimelyStep, SystemNext

(* As long as no lease ends during the work and no statement outlives its  *)
(* call, every method takes effect in one step, with the transactions of   *)
(* the consumers next to it, and every event sets its marks at most once,  *)
(* in one step, in all carts that have held its product since it was       *)
(* published.                                                              *)
THEOREM SystemRefinesAtomicSystem == TimelySystemSpec => RefinesAtomicSystem
<1>1. TimelySystemSpec => SystemSpec
  <2>1. [TimelyStep]_systemVars => [SystemNext]_systemVars
    BY DEF TimelyStep
  <2> QED
    BY <2>1, PTL DEF TimelySystemSpec, SystemSpec
<1>2. SystemInit => OnTimeInv /\ Whole!SystemInit
  <2>1. SystemInit => OnTimeInv
    BY DEF SystemInit, RepoInit, LockInit, OnTimeInv, OnTime, OpenUntilDone
  <2>2. SystemInit => Whole!Init
    BY DEF SystemInit, RepoInit, Whole!Init, CartsInit, Whole!CartsInit
  <2>3. SystemInit => processed = {} /\ owed = {} /\ Published = {}
    <3>1. \A o \in Offsets : ~(o < Len(<<>>))
      BY ConsumerAssumption DEF Offsets
    <3> QED
      BY <3>1 DEF SystemInit, ConsumerInit, Published, Logged
  <2> QED
    BY <2>1, <2>2, <2>3 DEF Whole!SystemInit
<1>3. SystemInv /\ OnTimeInv /\ [TimelyStep]_systemVars => OnTimeInv'
  BY OnTimeInvStep
<1>4. SystemInv /\ CallsInv /\ OnTimeInv /\ OwedInv
        /\ [TimelyStep]_systemVars => [Whole!SystemNext]_(Whole!systemVars)
  BY StepIsWhole DEF CallsInv
<1> QED
  BY <1>1, <1>2, <1>3, <1>4, SystemInvariant, CallsInvariant, OwedInvariant,
     PTL DEF TimelySystemSpec, RefinesAtomicSystem, Whole!SystemSpec
=============================================================================
