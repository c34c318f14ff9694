------------------------- MODULE MCCatalogConsumer -------------------------
(* TLC instances of CatalogConsumer: every user has every product in the   *)
(* cart.                                                                   *)
EXTENDS CatalogConsumer, TLC

MemberSymmetry == Permutations(Members)

Stock(id, p, inStock) ==
  [type |-> "stock.changed", id |-> id, product |-> p, inStock |-> inStock]

AllIds == {"e1", "e2", "e3"}

AProduct == CHOOSE p \in Products : TRUE

(* Two opposite events of a product, and one that Handle ignores.  The     *)
(* catalog may publish any of them more than once.                         *)
TwoEvents == {Stock("e1", AProduct, FALSE), Stock("e2", AProduct, TRUE),
              [type |-> "product.updated", id |-> "e3", product |-> AProduct,
               inStock |-> TRUE]}

OutAndBack == {Stock("e1", AProduct, FALSE), Stock("e2", AProduct, TRUE)}

FullCart == [p \in Products |-> <<[quantity |-> 1, unavailable |-> FALSE]>>]

MCInit == ConsumerInit /\ carts = [u \in Users |-> FullCart]

ConsumerSafetySpec == MCInit /\ [][ConsumerNext]_consumerVars

ConsumerSpec == ConsumerSafetySpec /\ ConsumerFairness
=============================================================================
