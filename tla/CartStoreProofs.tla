-------------------------- MODULE CartStoreProofs ---------------------------
(***************************************************************************)
(* What the updates of CartStore do to a document: they keep its type, and *)
(* change its entries only as their names say.                             *)
(***************************************************************************)
EXTENDS CartStore, SequenceTheorems, FiniteSetTheorems, TLAPS

Documents == Cart \cup {NoCart}

-----------------------------------------------------------------------------
(* What the updates do to the number of entries of a product *)

(* HasItem, the filter of the updates, is about this number.               *)
LEMMA CountIsNat ==
  ASSUME NEW cart \in Documents, NEW p \in Products
  PROVE  /\ Count(cart, p) \in Nat
         /\ HasItem(cart, p) <=> Count(cart, p) > 0
<1>1. CASE cart = NoCart
  BY <1>1 DEF Count, HasItem, Exists
<1>2. CASE cart # NoCart
  <2>1. cart[p] \in Seq(Entry)
    BY <1>2 DEF Documents, Cart
  <2>2. Len(cart[p]) \in Nat /\ (cart[p] # <<>> <=> Len(cart[p]) > 0)
    BY <2>1
  <2> QED
    BY <1>2, <2>2 DEF Count, HasItem, Exists
<1> QED
  BY <1>1, <1>2

(* A change of the quantity of the first entry of p.                       *)
LEMMA FirstEntryChanged ==
  ASSUME NEW cart \in Documents, NEW p \in Products, HasItem(cart, p),
         NEW n \in Nat \ {0}
  PROVE  /\ [cart EXCEPT ![p][1].quantity = n] \in Documents
         /\ \A q \in Products :
              Count([cart EXCEPT ![p][1].quantity = n], q) = Count(cart, q)
<1>1. cart # NoCart /\ cart \in Cart /\ cart[p] \in Seq(Entry) /\ cart[p] # <<>>
  BY DEF HasItem, Exists, Documents, Cart
<1> DEFINE first == [cart[p][1] EXCEPT !.quantity = n]
           items == [cart[p] EXCEPT ![1] = first]
           new   == [cart EXCEPT ![p][1].quantity = n]
<1>2. Len(cart[p]) \in Nat /\ 1 \in 1..Len(cart[p])
  BY <1>1
<1>3. cart[p][1] \in Entry
  BY <1>1, <1>2
<1>4. first \in Entry
  BY <1>3 DEF Entry
<1> HIDE DEF first
<1>5. items \in Seq(Entry) /\ Len(items) = Len(cart[p])
  BY <1>1, <1>2, <1>4, ExceptSeq
<1>6. new = [cart EXCEPT ![p] = items]
  BY DEF first
<1> HIDE DEF items, new
<1>7. new \in Cart /\ new[p] = items
        /\ \A q \in Products : q # p => new[q] = cart[q]
  BY <1>1, <1>5, <1>6 DEF Cart
<1>8. new # NoCart
  BY <1>7, StoreAssumption
<1>9. new \in Documents /\ \A q \in Products : Count(new, q) = Count(cart, q)
  BY <1>1, <1>5, <1>7, <1>8 DEF Documents, Count, Exists
<1> QED
  BY <1>9 DEF new

(* $inc changes a quantity and no number of entries.                       *)
LEMMA IncrementedKeepsCount ==
  ASSUME NEW cart \in Documents, NEW p \in Products, NEW q \in Nat \ {0}
  PROVE  /\ Incremented(cart, p, q) \in Documents
         /\ \A r \in Products : Count(Incremented(cart, p, q), r) = Count(cart, r)
<1>1. CASE HasItem(cart, p)
  <2>1. cart # NoCart /\ cart \in Cart /\ cart[p] \in Seq(Entry) /\ cart[p] # <<>>
    BY <1>1 DEF HasItem, Exists, Documents, Cart
  <2>2. cart[p][1] \in Entry
    BY <2>1
  <2>3. cart[p][1].quantity + q \in Nat \ {0}
    BY <2>2 DEF Entry
  <2> DEFINE n == cart[p][1].quantity + q
  <2>4. Incremented(cart, p, q) = [cart EXCEPT ![p][1].quantity = n]
    BY <1>1 DEF Incremented
  <2> HIDE DEF n
  <2>5. /\ [cart EXCEPT ![p][1].quantity = n] \in Documents
        /\ \A r \in Products :
             Count([cart EXCEPT ![p][1].quantity = n], r) = Count(cart, r)
    BY <1>1, <2>3, FirstEntryChanged DEF n
  <2> QED
    BY <2>4, <2>5, Zenon
<1>2. CASE ~HasItem(cart, p)
  BY <1>2 DEF Incremented
<1> QED
  BY <1>1, <1>2

(* Nor does the $set of a quantity.                                        *)
LEMMA ReplacedKeepsCount ==
  ASSUME NEW cart \in Documents, NEW p \in Products, NEW q \in Nat \ {0}
  PROVE  /\ Replaced(cart, p, q) \in Documents
         /\ \A r \in Products : Count(Replaced(cart, p, q), r) = Count(cart, r)
<1>1. CASE HasItem(cart, p)
  <2>1. Replaced(cart, p, q) = [cart EXCEPT ![p][1].quantity = q]
    BY <1>1 DEF Replaced
  <2>2. /\ [cart EXCEPT ![p][1].quantity = q] \in Documents
        /\ \A r \in Products :
             Count([cart EXCEPT ![p][1].quantity = q], r) = Count(cart, r)
    BY <1>1, FirstEntryChanged, Zenon
  <2> QED
    BY <2>1, <2>2, Zenon
<1>2. CASE ~HasItem(cart, p)
  BY <1>2 DEF Replaced
<1> QED
  BY <1>1, <1>2

(* The document that $push creates, and $set items: [] leaves.             *)
LEMMA EmptyCartIsCart ==
  EmptyCart \in Cart /\ EmptyCart # NoCart /\ \A p \in Products : EmptyCart[p] = <<>>
<1>1. <<>> \in Seq(Entry)
  OBVIOUS
<1>2. EmptyCart \in Cart
  BY <1>1 DEF EmptyCart, Cart
<1> QED
  BY <1>2, StoreAssumption DEF EmptyCart

(* A push adds one entry of its product and nothing else.                  *)
LEMMA PushedCounts ==
  ASSUME NEW cart \in Documents, NEW p \in Products, NEW q \in Nat \ {0}
  PROVE  /\ Pushed(cart, p, q) \in Documents
         /\ \A r \in Products : Count(Pushed(cart, p, q), r) =
              IF r = p THEN Count(cart, r) + 1 ELSE Count(cart, r)
<1> DEFINE doc   == IF Exists(cart) THEN cart ELSE EmptyCart
           entry == [quantity |-> q, unavailable |-> FALSE]
           items == Append(doc[p], entry)
           new   == [doc EXCEPT ![p] = items]
<1>1. doc \in Cart /\ \A r \in Products : Len(doc[r]) = Count(cart, r)
  BY EmptyCartIsCart, EmptySeq DEF Exists, Documents, Count
<1>2. entry \in Entry
  BY DEF Entry
<1>3. Pushed(cart, p, q) = new
  BY DEF Pushed
<1> HIDE DEF doc, entry
<1>4. doc[p] \in Seq(Entry)
  BY <1>1 DEF Cart
<1>5. items \in Seq(Entry) /\ Len(items) = Len(doc[p]) + 1
  BY <1>2, <1>4, AppendProperties
<1> HIDE DEF items
<1>6. new \in Cart /\ new[p] = items
        /\ \A r \in Products : r # p => new[r] = doc[r]
  BY <1>1, <1>5 DEF Cart
<1> HIDE DEF new
<1>7. new # NoCart
  BY <1>6, StoreAssumption
<1> QED
  BY <1>1, <1>3, <1>5, <1>6, <1>7 DEF Documents, Count, Exists

(* $pull removes entries and adds none.                                    *)
LEMMA PulledCounts ==
  ASSUME NEW cart \in Documents, NEW p \in Products
  PROVE  /\ Pulled(cart, p) \in Documents
         /\ \A r \in Products : Count(Pulled(cart, p), r) <= Count(cart, r)
<1>1. CASE cart = NoCart
  BY <1>1 DEF Pulled, Exists, Count
<1>2. CASE cart # NoCart
  <2> DEFINE new == [cart EXCEPT ![p] = <<>>]
  <2>1. Pulled(cart, p) = new
    BY <1>2 DEF Pulled, Exists
  <2>2. cart \in Cart
    BY <1>2 DEF Documents
  <2>3. new \in Cart /\ new[p] = <<>>
          /\ \A r \in Products : r # p => new[r] = cart[r]
    BY <2>2, EmptySeq DEF Cart
  <2> HIDE DEF new
  <2>4. new # NoCart
    BY <2>3, StoreAssumption
  <2>5. \A r \in Products : Len(new[r]) <= Len(cart[r])
    BY <2>2, <2>3 DEF Cart
  <2> QED
    BY <1>2, <2>1, <2>3, <2>4, <2>5 DEF Documents, Count, Exists
<1> QED
  BY <1>1, <1>2

(* Nor does $set items: [] add any.                                        *)
LEMMA ClearedCounts ==
  ASSUME NEW cart \in Documents
  PROVE  /\ Cleared(cart) \in Documents
         /\ \A r \in Products : Count(Cleared(cart), r) <= Count(cart, r)
<1>1. CASE cart = NoCart
  BY <1>1 DEF Cleared, Exists, Count
<1>2. CASE cart # NoCart
  <2>1. \A r \in Products : Count(EmptyCart, r) = 0
    BY EmptyCartIsCart, EmptySeq DEF Count, Exists
  <2>2. Cleared(cart) = EmptyCart
    BY <1>2 DEF Cleared, Exists
  <2> QED
    BY <2>1, <2>2, EmptyCartIsCart, CountIsNat DEF Documents
<1> QED
  BY <1>1, <1>2

-----------------------------------------------------------------------------
(* What the marks do to a document *)

(* $set of the flags keeps the items of a cart.                            *)
LEMMA MarkedKeepsItems ==
  ASSUME NEW cart \in Documents, NEW p \in Products, NEW flag \in BOOLEAN
  PROVE  /\ Marked(cart, p, flag) \in Documents
         /\ \A q \in Products :
              HasItem(Marked(cart, p, flag), q) <=> HasItem(cart, q)
<1>1. CASE HasItem(cart, p)
  <2> DEFINE old   == cart[p]
             items == [i \in DOMAIN old |->
                         [old[i] EXCEPT !.unavailable = flag]]
             new   == [cart EXCEPT ![p] = items]
  <2>1. Marked(cart, p, flag) = new
    BY <1>1 DEF Marked
  <2>2. cart \in Cart /\ old \in Seq(Entry) /\ old # <<>>
    BY <1>1 DEF HasItem, Exists, Documents, Cart
  <2>3. DOMAIN old = 1..Len(old) /\ Len(old) \in Nat
    BY <2>2
  <2>4. ASSUME NEW i \in 1..Len(old)
        PROVE  [old[i] EXCEPT !.unavailable = flag] \in Entry
    <3>1. old[i] \in Entry
      BY <2>2, <2>3
    <3> QED
      BY <3>1 DEF Entry
  <2>5. items \in Seq(Entry) /\ Len(items) = Len(old)
    <3>1. items \in [1..Len(old) -> Entry]
      BY <2>3, <2>4
    <3> HIDE DEF items
    <3> QED
      BY <2>3, <3>1, SeqDef
  <2>6. items # <<>>
    BY <2>2, <2>5, EmptySeq
  <2> HIDE DEF items
  <2>7. /\ new \in Cart
        /\ new[p] = items
        /\ \A q \in Products : q # p => new[q] = cart[q]
    BY <2>2, <2>5 DEF Cart
  <2> HIDE DEF new
  <2>8. new # NoCart
    BY <2>7, StoreAssumption
  <2>9. \A q \in Products : HasItem(new, q) <=> HasItem(cart, q)
    BY <1>1, <2>6, <2>7, <2>8 DEF HasItem, Exists
  <2> QED
    BY <2>1, <2>7, <2>9 DEF Documents
<1>2. CASE ~HasItem(cart, p)
  BY <1>2 DEF Marked
<1> QED
  BY <1>1, <1>2

-----------------------------------------------------------------------------
(* What the updates do to the units of a product.  Quantities are added up *)
(* by counting: each update adds a block of new pairs, or none.            *)

Block(x, a, q) == {x} \X (a + 1 .. a + q)

LEMMA BlockSize ==
  ASSUME NEW x, NEW a \in Nat, NEW q \in Nat
  PROVE  IsFiniteSet(Block(x, a, q)) /\ Cardinality(Block(x, a, q)) = q
<1> DEFINE range == a + 1 .. a + q
<1>1. IsFiniteSet(range) /\ Cardinality(range) = q
  <2>1. a + 1 \in Int /\ a + q \in Int
    OBVIOUS
  <2>2. /\ IsFiniteSet(range)
        /\ Cardinality(range) =
             IF a + 1 > a + q THEN 0 ELSE (a + q) - (a + 1) + 1
    BY <2>1, FS_Interval, Zenon
  <2> HIDE DEF range
  <2> QED
    BY <2>2
<1>2. IsFiniteSet({x}) /\ Cardinality({x}) = 1
  BY FS_Singleton, Zenon
<1> HIDE DEF range
<1>3. IsFiniteSet({x} \X range) /\ Cardinality({x} \X range) = 1 * q
  BY <1>1, <1>2, FS_Product, Zenon
<1>4. Cardinality({x} \X range) = q
  BY <1>3
<1> QED
  BY <1>3, <1>4, Zenon DEF range, Block

LEMMA BlockAdded ==
  ASSUME NEW S, IsFiniteSet(S), NEW block, IsFiniteSet(block),
         S \cap block = {}
  PROVE  /\ IsFiniteSet(S \cup block)
         /\ Cardinality(S \cup block) = Cardinality(S) + Cardinality(block)
<1>1. Cardinality(S) \in Nat /\ Cardinality(block) \in Nat
  BY FS_CardinalityType, Zenon
<1>2. /\ IsFiniteSet(S \cup block)
      /\ Cardinality(S \cup block) =
           Cardinality(S) + Cardinality(block) - Cardinality(S \cap block)
  BY FS_Union, Zenon
<1>3. Cardinality(S \cap block) = 0
  BY FS_EmptySet, Zenon
<1>4. Cardinality(S \cup block) = Cardinality(S) + Cardinality(block)
  BY <1>1, <1>2, <1>3
<1> QED
  BY <1>2, <1>4, Zenon

(* $inc adds q units to the first entry of p.                              *)
LEMMA IncrementedUnits ==
  ASSUME NEW cart \in Documents, NEW p \in Products, NEW q \in Nat \ {0},
         HasItem(cart, p), IsFiniteSet(Units(cart, p))
  PROVE  LET new == Incremented(cart, p, q) IN
         /\ IsFiniteSet(Units(new, p))
         /\ Cardinality(Units(new, p)) = Cardinality(Units(cart, p)) + q
<1> DEFINE n     == cart[p][1].quantity
           first == [cart[p][1] EXCEPT !.quantity = n + q]
           items == [cart[p] EXCEPT ![1] = first]
           new   == Incremented(cart, p, q)
           block == Block(1, n, q)
<1>1. Exists(cart) /\ cart \in Cart /\ cart[p] \in Seq(Entry) /\ cart[p] # <<>>
  BY DEF HasItem, Exists, Documents, Cart
<1>2. 1 \in DOMAIN cart[p] /\ DOMAIN items = DOMAIN cart[p]
  BY <1>1
<1>3. cart[p][1] \in Entry /\ n \in Nat
  <2>1. cart[p][1] \in Entry
    BY <1>1, <1>2
  <2> QED
    BY <2>1 DEF Entry
<1>4. first.quantity = n + q
  BY <1>3 DEF Entry
<1>5. new = [cart EXCEPT ![p] = items]
  BY DEF Incremented
<1> HIDE DEF first
<1>6. \A i \in DOMAIN cart[p] :
        items[i] = IF i = 1 THEN first ELSE cart[p][i]
  BY <1>1
<1>7. new \in Documents
  BY IncrementedKeepsCount
<1> HIDE DEF items
<1>8. new[p] = items /\ \A r \in Products : r # p => new[r] = cart[r]
  BY <1>1, <1>5 DEF Cart
<1>9. Exists(new)
  <2>1. HasItem(new, p)
    BY IncrementedKeepsCount, CountIsNat
  <2> QED
    BY <2>1 DEF HasItem
<1> HIDE DEF new, n
<1>10. 1 .. n + q = (1..n) \cup (n + 1 .. n + q)
  BY <1>3
<1>11. Units(new, p) = Units(cart, p) \cup block
  <2>1. \A i \in DOMAIN cart[p] :
          {i} \X (1..items[i].quantity) =
            ({i} \X (1..cart[p][i].quantity))
              \cup (IF i = 1 THEN block ELSE {})
    BY <1>4, <1>6, <1>10 DEF n, Block
  <2> QED
    BY <1>1, <1>2, <1>8, <1>9, <2>1 DEF Units
<1>12. Units(cart, p) \cap block = {}
  BY <1>1, <1>3 DEF Units, n, Block
<1>13. /\ IsFiniteSet(Units(new, p))
       /\ Cardinality(Units(new, p)) = Cardinality(Units(cart, p)) + q
  <2>1. IsFiniteSet(block) /\ Cardinality(block) = q
    <3>1. q \in Nat
      OBVIOUS
    <3> QED
      BY <1>3, <3>1, BlockSize, Zenon
  <2> HIDE DEF block
  <2>2. /\ IsFiniteSet(Units(cart, p) \cup block)
        /\ Cardinality(Units(cart, p) \cup block) =
             Cardinality(Units(cart, p)) + Cardinality(block)
    BY <1>12, <2>1, BlockAdded, Zenon
  <2> QED
    BY <1>11, <2>1, <2>2, Zenon
<1> QED
  BY <1>13 DEF new

LEMMA IncrementedOthers ==
  ASSUME NEW cart \in Documents, NEW p \in Products, NEW q \in Nat \ {0},
         HasItem(cart, p), NEW r \in Products, r # p
  PROVE  Units(Incremented(cart, p, q), r) = Units(cart, r)
<1> DEFINE new == Incremented(cart, p, q)
<1>1. Exists(cart) /\ cart \in Cart
  BY DEF HasItem, Exists, Documents
<1>2. new[r] = cart[r]
  BY <1>1 DEF Incremented, Cart
<1>3. HasItem(new, p)
  BY IncrementedKeepsCount, CountIsNat
<1> HIDE DEF new
<1>4. Units(new, r) = Units(cart, r)
  BY <1>1, <1>2, <1>3 DEF Units, HasItem
<1> QED
  BY <1>4 DEF new

(* The document an upsert creates holds nothing.                           *)
LEMMA UnitsOfNewCart ==
  ASSUME NEW cart, NEW p \in Products
  PROVE  Units(IF Exists(cart) THEN cart ELSE EmptyCart, p) = Units(cart, p)
<1>1. EmptyCart[p] = <<>> /\ DOMAIN <<>> = {} /\ Exists(EmptyCart)
  BY EmptyCartIsCart DEF Exists
<1>2. Units(EmptyCart, p) = {}
  BY <1>1 DEF Units
<1> QED
  BY <1>2 DEF Units

(* $push adds an entry of q units.                                         *)
LEMMA PushedUnits ==
  ASSUME NEW cart \in Documents, NEW p \in Products, NEW q \in Nat \ {0},
         IsFiniteSet(Units(cart, p))
  PROVE  LET new == Pushed(cart, p, q) IN
         /\ IsFiniteSet(Units(new, p))
         /\ Cardinality(Units(new, p)) = Cardinality(Units(cart, p)) + q
<1> DEFINE doc   == IF Exists(cart) THEN cart ELSE EmptyCart
           entry == [quantity |-> q, unavailable |-> FALSE]
           n     == Len(doc[p])
           items == Append(doc[p], entry)
           new   == Pushed(cart, p, q)
           block == Block(n + 1, 0, q)
<1>1. doc \in Cart /\ Exists(doc)
  BY EmptyCartIsCart DEF Exists, Documents
<1>2. Units(doc, p) = Units(cart, p)
  BY UnitsOfNewCart
<1>3. new = [doc EXCEPT ![p] = items]
  BY DEF Pushed
<1>4. new \in Documents
  BY PushedCounts
<1>5. Exists(new)
  <2>1. HasItem(new, p)
    BY PushedCounts, CountIsNat
  <2> QED
    BY <2>1 DEF HasItem
<1> HIDE DEF doc, new
<1>6. doc[p] \in Seq(Entry) /\ n \in Nat /\ DOMAIN doc[p] = 1..n
  BY <1>1 DEF Cart
<1>7. /\ DOMAIN items = (DOMAIN doc[p]) \cup {n + 1}
      /\ items[n + 1].quantity = q
      /\ \A i \in DOMAIN doc[p] : items[i] = doc[p][i]
  BY <1>6
<1> HIDE DEF items
<1>8. new[p] = items /\ \A r \in Products : r # p => new[r] = doc[r]
  BY <1>1, <1>3 DEF Cart
<1>9. Units(new, p) = Units(doc, p) \cup block
  BY <1>1, <1>5, <1>7, <1>8 DEF Units, Block
<1>10. Units(doc, p) \cap block = {}
  BY <1>1, <1>6 DEF Units, Block
<1>11. /\ IsFiniteSet(Units(new, p))
       /\ Cardinality(Units(new, p)) = Cardinality(Units(cart, p)) + q
  <2>1. IsFiniteSet(block) /\ Cardinality(block) = q
    <3>1. 0 \in Nat /\ q \in Nat
      OBVIOUS
    <3> QED
      BY <3>1, BlockSize, Zenon
  <2>2. Units(doc, p) = Units(cart, p)
    BY <1>2
  <2> HIDE DEF block
  <2>3. /\ IsFiniteSet(Units(cart, p) \cup block)
        /\ Cardinality(Units(cart, p) \cup block) =
             Cardinality(Units(cart, p)) + Cardinality(block)
    BY <1>10, <2>1, <2>2, BlockAdded, Zenon
  <2> QED
    BY <1>9, <2>1, <2>2, <2>3, Zenon
<1> QED
  BY <1>11 DEF new

LEMMA PushedOthers ==
  ASSUME NEW cart \in Documents, NEW p \in Products, NEW q \in Nat \ {0},
         NEW r \in Products, r # p
  PROVE  Units(Pushed(cart, p, q), r) = Units(cart, r)
<1> DEFINE doc == IF Exists(cart) THEN cart ELSE EmptyCart
           new == Pushed(cart, p, q)
<1>1. doc \in Cart /\ Exists(doc)
  BY EmptyCartIsCart DEF Exists, Documents
<1>2. new[r] = doc[r]
  BY <1>1 DEF Pushed, Cart
<1>3. HasItem(new, p)
  BY PushedCounts, CountIsNat
<1> HIDE DEF doc, new
<1>4. Units(new, r) = Units(doc, r)
  BY <1>1, <1>2, <1>3 DEF Units, HasItem
<1>5. Units(doc, r) = Units(cart, r)
  BY UnitsOfNewCart DEF doc
<1> QED
  BY <1>4, <1>5 DEF new

(* $pull and the $set of a quantity leave the other products alone.        *)
LEMMA PulledOthers ==
  ASSUME NEW cart \in Documents, NEW p \in Products,
         NEW r \in Products, r # p
  PROVE  Units(Pulled(cart, p), r) = Units(cart, r)
<1>1. CASE ~Exists(cart)
  BY <1>1 DEF Pulled
<1>2. CASE Exists(cart)
  <2>1. cart \in Cart
    BY <1>2 DEF Exists, Documents
  <2>2. [cart EXCEPT ![p] = <<>>] \in Cart
    BY <2>1, EmptySeq DEF Cart
  <2> DEFINE new == [cart EXCEPT ![p] = <<>>]
  <2>3. Exists(new) /\ new[r] = cart[r]
    BY <2>1, <2>2, StoreAssumption DEF Exists, Cart
  <2>4. Pulled(cart, p) = new
    BY <1>2 DEF Pulled
  <2> HIDE DEF new
  <2> QED
    BY <1>2, <2>3, <2>4 DEF Units
<1> QED
  BY <1>1, <1>2

LEMMA ReplacedOthers ==
  ASSUME NEW cart \in Documents, NEW p \in Products, NEW q \in Nat \ {0},
         HasItem(cart, p), NEW r \in Products, r # p
  PROVE  Units(Replaced(cart, p, q), r) = Units(cart, r)
<1> DEFINE new == Replaced(cart, p, q)
<1>1. Exists(cart) /\ cart \in Cart
  BY DEF HasItem, Exists, Documents
<1>2. new[r] = cart[r]
  BY <1>1 DEF Replaced, Cart
<1>3. HasItem(new, p)
  BY ReplacedKeepsCount, CountIsNat
<1> HIDE DEF new
<1>4. Units(new, r) = Units(cart, r)
  BY <1>1, <1>2, <1>3 DEF Units, HasItem
<1> QED
  BY <1>4 DEF new

(* No entry holds more than all entries of its product do together.        *)
LEMMA EntryWithinUnits ==
  ASSUME NEW cart \in Documents, Exists(cart), NEW p \in Products,
         IsFiniteSet(Units(cart, p)), NEW i \in DOMAIN cart[p]
  PROVE  cart[p][i].quantity <= Cardinality(Units(cart, p))
<1> DEFINE n     == cart[p][i].quantity
           block == Block(i, 0, n)
<1>1. n \in Nat /\ 0 \in Nat
  <2>1. cart[p] \in Seq(Entry)
    BY DEF Exists, Documents, Cart
  <2>2. cart[p][i] \in Entry
    BY <2>1
  <2> QED
    BY <2>2 DEF Entry
<1>2. block \subseteq Units(cart, p)
  <2>1. block = {i} \X (1..n)
    BY <1>1 DEF Block
  <2> QED
    BY <2>1 DEF Units
<1> HIDE DEF n
<1>3. Cardinality(block) = n
  BY <1>1, BlockSize, Zenon
<1> HIDE DEF block
<1>4. block \in SUBSET Units(cart, p)
  BY <1>2
<1>5. Cardinality(block) <= Cardinality(Units(cart, p))
  BY <1>4, FS_Subset, Zenon
<1>6. n <= Cardinality(Units(cart, p))
  BY <1>3, <1>5, Zenon
<1> QED
  BY <1>6 DEF n
=============================================================================
