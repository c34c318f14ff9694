-------------------------- MODULE MCCartRepository --------------------------
(* TLC instances of CartRepository.                                        *)
EXTENDS CartRepository, TLC

CONSTANT MaxFaulty   \* bound: calls with a fault or a late write

CallSymmetry == Permutations(Calls)

Req(op, u, p, q) == [op |-> op, user |-> u, product |-> p, quantity |-> q]

(* One cart, every operation. *)
AllRequests == {Req(op, u, p, 1) : op \in Ops, u \in Users, p \in Products}

(* Additions, with quantities that together exceed Int32Max. *)
AddRequests == {Req("AddItem", u, p, q) : u \in Users, p \in Products,
                                          q \in 1..Int32Max}

(* Calls that make an item appear, grow and disappear. *)
AddRemoveRequests ==
  {Req(op, u, p, 2) : op \in {"AddItem", "RemoveItem"}, u \in Users,
                      p \in Products}

Faulty == {c \in Calls : Unlucky(c)} \cup inFlight \cup stray

FewFaulty == Cardinality(Faulty) <= MaxFaulty

BoundedSpec == RepoInit /\ [][RepoNext /\ FewFaulty']_repoVars

BoundedTimelySpec == RepoInit /\ [][Timely /\ FewFaulty']_repoVars
=============================================================================
