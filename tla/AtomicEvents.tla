---------------------------- MODULE AtomicEvents ----------------------------
(***************************************************************************)
(* What the consumer group promises of a catalog event, without Kafka,     *)
(* members, retries or transactions: its marks are set in all carts in one *)
(* step, at most once.  Nothing is promised about the order of the events. *)
(***************************************************************************)
EXTENDS CartStore

CONSTANT Events    \* the stock events of the catalog

VARIABLE marked    \* event ids whose marks are set

EventsInit == /\ CartsTypeOK
              /\ marked = {}

Apply(e) ==
  /\ e.id \notin marked
  /\ marked' = marked \cup {e.id}
  /\ carts' = [u \in Users |-> Marked(carts[u], e.product, ~e.inStock)]

EventsNext == \E e \in Events : Apply(e)

EventsSpec == EventsInit /\ [][EventsNext]_<<carts, marked>>
=============================================================================
