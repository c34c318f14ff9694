---------------------------- MODULE AtomicSystem ----------------------------
(***************************************************************************)
(* What the service promises of its carts, without locks, statements,      *)
(* Kafka, members or transactions: the calls of AtomicCart, and events     *)
(* each of which sets its marks at most once, in one step, in all carts    *)
(* that have held its product since it was published.  A cart that gets    *)
(* the product later may be left out.                                      *)
(***************************************************************************)
EXTENDS AtomicCart

CONSTANT Events    \* the stock events of the catalog

VARIABLES published,  \* events the catalog has published
          owed,       \* <<e, u>>: e must not pass over the cart of u
          marked      \* event ids whose marks are set

systemVars == <<vars, published, owed, marked>>

SystemInit ==
  /\ Init
  /\ published = {}
  /\ owed = {}
  /\ marked = {}

Holds(u, e) == HasItem(carts[u], e.product)

CallStep ==
  /\ Next
  /\ owed' = {eu \in owed : Holds(eu[2], eu[1])'}
  /\ UNCHANGED <<published, marked>>

Publish(e) ==
  /\ e \notin published
  /\ published' = published \cup {e}
  /\ owed' = owed \cup {eu \in {e} \X Users : Holds(eu[2], eu[1])}
  /\ UNCHANGED <<vars, marked>>

Mark(e) ==
  /\ e \in published
  /\ e.id \notin marked
  /\ marked' = marked \cup {e.id}
  /\ \E reached \in SUBSET Users :
       /\ \A u \in Users : <<e, u>> \in owed => u \in reached
       /\ carts' = [u \in Users |->
                      IF u \in reached
                      THEN Marked(carts[u], e.product, ~e.inStock)
                      ELSE carts[u]]
  /\ owed' = {eu \in owed : eu[1] # e}
  /\ UNCHANGED <<req, applied, reply, published>>

SystemNext == CallStep \/ \E e \in Events : Publish(e) \/ Mark(e)

SystemSpec == SystemInit /\ [][SystemNext]_systemVars
=============================================================================
