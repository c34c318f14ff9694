----------------------------- MODULE CartSystem -----------------------------
(***************************************************************************)
(* The two writers of the collection "carts" together: the calls of the    *)
(* cart repository, statement by statement, and the transactions of the    *)
(* consumer group.  The consumers take no lock: only the atomicity of a    *)
(* statement and MongoDB's write conflicts keep the two apart.             *)
(***************************************************************************)
EXTENDS CartRepository, CatalogConsumer

VARIABLES
  fresh,  \* history: <<u, p>> where an entry of p came into the cart of u after
          \* the snapshot of the last transaction that marked p
  owed    \* history: <<e, u>> where the cart of u has held the product of e
          \* ever since e was published, and e has not taken effect

history == <<fresh, owed>>

callsOnly  == <<lockVars, req, step, reply, writes>>
systemVars == <<carts, callsOnly, consumerOnly, history>>

SystemTypeOK ==
  /\ RepoTypeOK
  /\ ConsumerTypeOK
  /\ fresh \in SUBSET (Users \X Products)
  /\ owed \in SUBSET (Messages \X Users)

SystemInit == /\ RepoInit
              /\ ConsumerInit
              /\ fresh = {}
              /\ owed = {}

-----------------------------------------------------------------------------

Entered == {up \in Users \X Products :
              Count(carts'[up[1]], up[2]) > Count(carts[up[1]], up[2])}

Holds(u, e) == HasItem(carts[u], e.product)

CallStep ==
  /\ RepoNext
  /\ fresh' = fresh \cup Entered
  /\ owed' = {eu \in owed : Holds(eu[2], eu[1])'}
  /\ UNCHANGED consumerOnly

(* Items of the event's product that its transaction could not see.        *)
Unseen(t) == {up \in Users \X {EventOf(t).product} : up[1] \notin TxWrites(t)}

(* The event of t has taken effect. *)
Settles(t) ==
  /\ fresh' = {up \in fresh : up[2] # EventOf(t).product} \cup Unseen(t)
  /\ owed' = {eu \in owed : eu[1] # EventOf(t)}

ConsumerStep(m) ==
  /\ MemberStep(m)
  /\ IF effects' = effects THEN UNCHANGED history ELSE Settles(Tx(m))
  /\ UNCHANGED callsOnly

MongoStep(t) ==
  /\ Decide(t)
  /\ IF effects' = effects THEN UNCHANGED history ELSE Settles(t)
  /\ UNCHANGED callsOnly

Published == {e \in Messages : Relevant(e) /\ \E o \in Logged : At(o) = e}

CatalogStep ==
  /\ Publish
  /\ owed' = owed \cup {eu \in (Published' \ Published) \X Users :
                        Holds(eu[2], eu[1])}
  /\ UNCHANGED <<callsOnly, fresh>>

SystemNext == \/ CallStep
              \/ CatalogStep
              \/ \E m \in Members : ConsumerStep(m)
              \/ \E t \in undecided : MongoStep(t)

SystemSpec == SystemInit /\ [][SystemNext]_systemVars

(* No lease ends during the work, no statement outlives its call.          *)
TimelyStep == SystemNext /\ UNCHANGED <<overran, inFlight>>

TimelySystemSpec == SystemInit /\ [][TimelyStep]_systemVars

-----------------------------------------------------------------------------
(* Properties *)

(* The last event of p whose marks were applied said it is out of stock.   *)
LastMarkIsOut(p) ==
  \E i \in DOMAIN effects :
    /\ At(effects[i]).product = p
    /\ ~At(effects[i]).inStock
    /\ \A j \in DOMAIN effects :
         At(effects[j]).product = p => j <= i

(* The flag of an item is the one of the last event applied to its product,*)
(* unless the item entered the cart after that event looked at it: neither *)
(* statements that race with transactions, nor their retries, redelivery or*)
(* two members at work on one product, leave the flag of an older event    *)
(* behind (MarkItem..., WithTransaction).                                  *)
FlagsFollowLastMark ==
  \A u \in Users, p \in Products :
    HasItem(carts[u], p) /\ <<u, p>> \notin fresh =>
      \A i \in DOMAIN carts[u][p] :
        carts[u][p][i].unavailable <=> LastMarkIsOut(p)

(* The consumer changes no quantity and neither adds nor removes an item or*)
(* a cart: a transaction cannot undo a statement that ran next to it,      *)
(* although it does not take the lock of the cart.                         *)
Amounts(cart) ==
  IF Exists(cart)
  THEN [p \in Products |-> [i \in DOMAIN cart[p] |-> cart[p][i].quantity]]
  ELSE {}

MarksKeepAmounts ==
  [][UNCHANGED callsOnly =>
       \A u \in Users : /\ Exists(carts[u]) <=> Exists(carts'[u])
                        /\ Amounts(carts'[u]) = Amounts(carts[u])]_systemVars

(* While leases outlive the work, the two are a cart whose calls and marks *)
(* are all atomic: marks set between the statements of an AddItem, or an   *)
(* AddItem between the reads and the commit of a transaction, show nothing *)
(* that some order of whole calls and whole events would not; and an event *)
(* passes over no cart that has held its product since it was published.   *)
Whole == INSTANCE AtomicSystem WITH
           marked <- processed, published <- Published,
           Events <- {e \in Messages : Relevant(e)}
RefinesAtomicSystem == Whole!SystemSpec
=============================================================================
