----------------------- MODULE CatalogConsumerProofs -----------------------
(***************************************************************************)
(* Proofs about CatalogConsumer for any number of members, users, products *)
(* and messages, however often the partition is assigned: the group        *)
(* applies each event at most once and in one step, and commits nothing it *)
(* has not handed to Handle, also with another writer of the carts.        *)
(***************************************************************************)
EXTENDS CatalogConsumer, CartStoreProofs

-----------------------------------------------------------------------------
(* The carts have another writer, the calls of the repository.  Whatever   *)
(* documents it leaves, it does not touch the state of the consumers.      *)
SharedSpec == /\ ConsumerInit
              /\ []CartsTypeOK
              /\ [][ConsumerNext]_consumerOnly

LEMMA GroupStepIsShared ==
  [ConsumerNext]_consumerVars => [ConsumerNext]_consumerOnly
BY DEF consumerVars

-----------------------------------------------------------------------------
(* The type invariant, and what holds as long as a transaction is open *)

InTx == {m \in Members : phase[m] = "tx"}

OpenTxs == {Tx(m) : m \in InTx} \cup undecided

Unrecorded(t) == /\ Relevant(EventOf(t))
                 /\ EventOf(t).id \notin processed

(* No other transaction has recorded its event, or is about to.            *)
OpenEvents ==
  /\ \A m \in InTx : Unrecorded(Tx(m))
  /\ \A t \in undecided : Unrecorded(t)
  /\ \A m, n \in InTx : m # n => Event(m).id # Event(n).id
  /\ \A m \in InTx, t \in undecided : Event(m).id # EventOf(t).id
  /\ \A s, t \in undecided : s # t => EventOf(s).id # EventOf(t).id

SharedInv == ConsumerTypeOK /\ OpenEvents

(* As long as only consumers write, the items are those of the snapshot.   *)
TrueToCarts(t) ==
  \A u \in Users, p \in Products :
    HasItem(t.seen[u], p) <=> HasItem(carts[u], p)

SeesItems == /\ \A m \in InTx : TrueToCarts(Tx(m))
             /\ \A t \in undecided : TrueToCarts(t)

GroupInv == SharedInv /\ SeesItems

(* Events in the log stay where they are.                                  *)
LEMMA LogGrows ==
  ASSUME ConsumerTypeOK, [ConsumerNext]_consumerOnly
  PROVE  /\ log' \in Seq(Messages) /\ Len(log') <= MaxLog
         /\ Logged \subseteq Logged'
         /\ \A o \in Logged : log'[o + 1] = log[o + 1]
<1>1. CASE log' = log
  BY <1>1 DEF ConsumerTypeOK, Logged
<1>2. CASE Publish
  <2>1. PICK e \in Messages : log' = Append(log, e)
    BY <1>2 DEF Publish
  <2>2. /\ log' \in Seq(Messages)
        /\ Len(log') = Len(log) + 1
        /\ \A i \in 1..Len(log) : log'[i] = log[i]
    BY <2>1, AppendProperties DEF ConsumerTypeOK
  <2>3. Len(log) < MaxLog /\ Len(log) \in Nat
    BY <1>2 DEF Publish, ConsumerTypeOK
  <2> QED
    BY <2>2, <2>3, ConsumerAssumption DEF Logged, Offsets
<1>3. ASSUME NEW m \in Members, MemberStep(m)
      PROVE  log' = log
  BY <1>3 DEF MemberStep, Start, Assign, Revoke, Loop, Fetch, FetchCancelled,
     Handle, Ignore, TxInsert, AlreadyProcessed, TxCommit, TxRetry,
     HandleFails, HandleReturnsNil, Commit, Stop, Exit, topic
<1>4. ASSUME NEW t \in undecided, Decide(t)
      PROVE  log' = log
  BY <1>4 DEF Decide, topic
<1>5. UNCHANGED consumerOnly => log' = log
  BY DEF consumerOnly, topic
<1> QED
  BY <1>1, <1>2, <1>3, <1>4, <1>5 DEF ConsumerNext

(* The event at an offset of the log. *)
LEMMA LoggedEvent ==
  ASSUME ConsumerTypeOK, NEW o \in Logged
  PROVE  /\ At(o) \in Messages
         /\ At(o).product \in Products
         /\ At(o).inStock \in BOOLEAN
         /\ Relevant(At(o)) => At(o).id \in EventIds
<1>1. o + 1 \in 1..Len(log) /\ log \in Seq(Messages)
  BY ConsumerAssumption DEF ConsumerTypeOK, Logged, Offsets
<1>2. At(o) \in Messages
  BY <1>1 DEF At
<1> QED
  BY <1>2, ConsumerAssumption DEF Message, Relevant

(* The message in hand. *)
LEMMA InHand ==
  ASSUME ConsumerTypeOK, NEW m \in Members,
         phase[m] \in {"handle", "tx", "commit"}
  PROVE  /\ msg[m] \in Logged
         /\ Relevant(Event(m)) => Event(m).id \in EventIds
BY LoggedEvent DEF ConsumerTypeOK, Event

(* An open transaction, whether or not somebody waits for it.              *)
LEMMA OpenTx ==
  ASSUME ConsumerTypeOK, NEW t \in OpenTxs
  PROVE  /\ t.offset \in Logged
         /\ t.seen \in [Users -> Cart \cup {NoCart}]
         /\ EventOf(t) \in Messages
         /\ EventOf(t).product \in Products
         /\ EventOf(t).inStock \in BOOLEAN
         /\ Relevant(EventOf(t)) => EventOf(t).id \in EventIds
<1>1. t.offset \in Logged /\ t.seen \in [Users -> Cart \cup {NoCart}]
  <2>1. CASE t \in undecided
    BY <2>1 DEF ConsumerTypeOK
  <2>2. ASSUME NEW m \in InTx, t = Tx(m)
        PROVE  t.offset \in Logged /\ t.seen \in [Users -> Cart \cup {NoCart}]
    BY <2>2, InHand DEF ConsumerTypeOK, InTx, Tx
  <2> QED
    BY <2>1, <2>2 DEF OpenTxs
<1> QED
  BY <1>1, LoggedEvent DEF EventOf

LEMMA OpenUnrecorded ==
  ASSUME OpenEvents, NEW t \in OpenTxs
  PROVE  Unrecorded(t)
BY DEF OpenEvents, OpenTxs

(* The commit of a transaction of which a member waits for the reply.      *)
LEMMA MemberCommit ==
  ASSUME NEW m \in Members, TxCommit(m)
  PROVE  m \in InTx /\ Tx(m) \in OpenTxs /\ TxEffect(Tx(m)) /\ UNCHANGED log
BY DEF TxCommit, InTx, OpenTxs, HandleReturnsNil, topic

(* Only the commit of a transaction changes the carts and the effects.     *)
LEMMA MemberEffect ==
  ASSUME NEW m \in Members, MemberStep(m)
  PROVE  \/ UNCHANGED <<carts, effects, processed>>
         \/ TxCommit(m)
BY DEF MemberStep, Start, Assign, Revoke, Loop, Fetch, FetchCancelled,
   Handle, Ignore, TxInsert, InsertsInTx, AlreadyProcessed,
   TxRetry, HandleFails, LeavesTx, Commit, Stop, Exit, store

LEMMA DecideEffect ==
  ASSUME NEW t \in undecided, Decide(t)
  PROVE  /\ t \in OpenTxs /\ UNCHANGED log
         /\ \/ UNCHANGED <<carts, effects, processed>>
            \/ TxEffect(t)
BY DEF Decide, LateCommit, LateAbort, OpenTxs, topic

LEMMA GroupEffect ==
  ASSUME ConsumerNext
  PROVE  \/ UNCHANGED <<carts, effects, processed>>
         \/ \E t \in OpenTxs : TxEffect(t) /\ UNCHANGED log
<1>1. Publish => UNCHANGED <<carts, effects, processed>>
  BY DEF Publish, store
<1> QED
  BY <1>1, MemberEffect, MemberCommit, DecideEffect DEF ConsumerNext

(* As GroupEffect, with another writer of the carts.                       *)
LEMMA EffectsGrow ==
  ASSUME [ConsumerNext]_consumerOnly
  PROVE  \/ UNCHANGED <<effects, processed>>
         \/ \E t \in OpenTxs : TxEffect(t) /\ UNCHANGED log
<1>1. UNCHANGED consumerOnly => UNCHANGED <<effects, processed>>
  BY DEF consumerOnly
<1> QED
  BY <1>1, GroupEffect

(* The carts a transaction writes are those it saw, since no other write   *)
(* came between; so its marks are set in all carts.                        *)
LEMMA TxMarksAllCarts ==
  ASSUME GroupInv, NEW t \in OpenTxs, TxEffect(t)
  PROVE  carts' = [u \in Users |-> Marked(carts[u], EventOf(t).product,
                                          ~EventOf(t).inStock)]
<1>1. /\ \A u \in TxWrites(t) : carts[u] = t.seen[u]
      /\ carts' = MarkedCarts(t)
  BY DEF TxEffect, Conflict, TxWrites
<1>2. EventOf(t).product \in Products /\ TrueToCarts(t)
  BY OpenTx DEF GroupInv, SharedInv, SeesItems, OpenTxs
<1>3. ASSUME NEW u \in Users, u \notin TxWrites(t)
      PROVE  Marked(carts[u], EventOf(t).product, ~EventOf(t).inStock) = carts[u]
  BY <1>2, <1>3 DEF TxWrites, Marked, TrueToCarts
<1> QED
  BY <1>1, <1>3 DEF MarkedCarts, Unavailable

LEMMA TxKeepsItems ==
  ASSUME GroupInv, NEW t \in OpenTxs, TxEffect(t)
  PROVE  \A u \in Users, p \in Products :
           HasItem(carts'[u], p) <=> HasItem(carts[u], p)
<1>1. EventOf(t).product \in Products /\ EventOf(t).inStock \in BOOLEAN
  BY OpenTx DEF GroupInv, SharedInv
<1>2. \A u \in Users : carts[u] \in Documents
  BY DEF GroupInv, SharedInv, ConsumerTypeOK, CartsTypeOK, Documents
<1>3. \A u \in Users :
        LET new == Marked(carts[u], EventOf(t).product, ~EventOf(t).inStock)
        IN  \A q \in Products : HasItem(new, q) <=> HasItem(carts[u], q)
  BY <1>1, <1>2, MarkedKeepsItems
<1> QED
  BY <1>3, TxMarksAllCarts

(* Whatever else writes the carts, a transaction leaves documents.         *)
LEMMA TxKeepsType ==
  ASSUME ConsumerTypeOK, NEW t \in OpenTxs, TxEffect(t)
  PROVE  CartsTypeOK'
<1>1. EventOf(t).product \in Products /\ EventOf(t).inStock \in BOOLEAN
  BY OpenTx
<1>2. \A u \in Users : carts[u] \in Documents /\ t.seen[u] \in Documents
  BY OpenTx DEF ConsumerTypeOK, CartsTypeOK, Documents
<1>3. \A u \in Users :
        Marked(t.seen[u], EventOf(t).product, Unavailable(EventOf(t)))
          \in Documents
  BY <1>1, <1>2, MarkedKeepsItems DEF Unavailable
<1>4. carts' = MarkedCarts(t)
  BY DEF TxEffect
<1> QED
  BY <1>2, <1>3, <1>4 DEF MarkedCarts, CartsTypeOK, Documents

(* A step of the consumers leaves documents, whatever else writes them.    *)
LEMMA CartsStep ==
  ASSUME ConsumerTypeOK, [ConsumerNext]_consumerVars
  PROVE  CartsTypeOK'
<1>1. carts' = carts \/ \E t \in OpenTxs : TxEffect(t)
  BY GroupEffect DEF consumerVars
<1>2. carts' = carts => CartsTypeOK'
  BY DEF ConsumerTypeOK, CartsTypeOK
<1> QED
  BY <1>1, <1>2, TxKeepsType

(* Each step of the consumers keeps the type of their state.               *)
LEMMA TypeStep ==
  ASSUME SharedInv, CartsTypeOK', [ConsumerNext]_consumerOnly
  PROVE  ConsumerTypeOK'
<1> USE DEF SharedInv, ConsumerTypeOK, MoveTo, Place, topic, reader, store,
            outcomes
<1>0. /\ Logged \subseteq Offsets
      /\ \A o \in Logged : o + 1 \in Offsets
      /\ Len(log) \in Offsets
  BY ConsumerAssumption DEF Logged, Offsets
<1>1. ASSUME NEW m \in Members, Start(m)
      PROVE  ConsumerTypeOK'
  BY <1>1 DEF Start, Logged, Offsets
<1>2. ASSUME NEW m \in Members, Assign(m)
      PROVE  ConsumerTypeOK'
  <2>1. StartAt \in Offsets
    BY <1>0 DEF StartAt
  <2>2. assigns' \in 0..MaxAssigns
    BY <1>2, ConsumerAssumption DEF Assign
  <2>3. jumped' \subseteq Logged
    BY <1>2 DEF Assign
  <2> QED
    BY <1>2, <2>1, <2>2, <2>3 DEF Assign, Logged
<1>3. ASSUME NEW m \in Members, Revoke(m)
      PROVE  ConsumerTypeOK'
  BY <1>3 DEF Revoke, Logged, Offsets
<1>4. ASSUME NEW m \in Members, Fetch(m)
      PROVE  ConsumerTypeOK'
  BY <1>0, <1>4 DEF Fetch, Logged
<1>5. ASSUME NEW m \in Members, FetchCancelled(m) \/ Stop(m)
      PROVE  ConsumerTypeOK'
  BY <1>5 DEF FetchCancelled, Stop, Logged
<1>6. ASSUME NEW m \in Members, Ignore(m) \/ AlreadyProcessed(m)
      PROVE  ConsumerTypeOK'
  BY <1>6 DEF Ignore, AlreadyProcessed, Marking, HandleReturnsNil, Logged
<1>7. ASSUME NEW m \in Members, TxInsert(m)
      PROVE  ConsumerTypeOK'
  BY <1>7 DEF TxInsert, InsertsInTx, Marking, Logged, CartsTypeOK
<1>8. ASSUME NEW t \in OpenTxs, TxEffect(t)
      PROVE  /\ processed' \in SUBSET EventIds /\ effects' \in Seq(Logged)
             /\ UNCHANGED snapshot
  <2>1. t.offset \in Logged /\ EventOf(t).id \in EventIds
    BY OpenTx, OpenUnrecorded DEF Unrecorded
  <2> QED
    BY <1>8, <2>1, AppendProperties DEF TxEffect
<1>9. ASSUME NEW m \in Members, TxCommit(m)
      PROVE  ConsumerTypeOK'
  <2>1. /\ processed' \in SUBSET EventIds /\ effects' \in Seq(Logged)
        /\ UNCHANGED snapshot
    BY <1>8, <1>9, MemberCommit
  <2> QED
    BY <1>9, <2>1 DEF TxCommit, HandleReturnsNil, Logged
<1>10. ASSUME NEW m \in Members, TxRetry(m)
      PROVE  ConsumerTypeOK'
  BY <1>10 DEF TxRetry, Logged
<1>11. ASSUME NEW m \in Members, LeavesTx(m), log' = log
      PROVE  \A t \in undecided' :
               /\ t.offset \in Logged'
               /\ t.seen \in [Users -> Cart \cup {NoCart}]
  BY <1>11 DEF LeavesTx, Tx, Logged
<1>12. ASSUME NEW m \in Members, HandleFails(m)
      PROVE  ConsumerTypeOK'
  <2>1. msg[m] \in Logged /\ LeavesTx(m) /\ log' = log
    BY <1>12 DEF HandleFails
  <2>2. UNCHANGED <<snapshot, processed, effects>>
    BY <2>1 DEF LeavesTx
  <2> QED
    BY <1>0, <1>11, <1>12, <2>1, <2>2 DEF HandleFails, AfterFailure, Logged
<1>13. ASSUME NEW m \in Members, Exit(m)
      PROVE  ConsumerTypeOK'
  <2>1. LeavesTx(m) /\ log' = log
    BY <1>13 DEF Exit
  <2>2. UNCHANGED <<snapshot, processed, effects>>
    BY <2>1 DEF LeavesTx
  <2> QED
    BY <1>11, <1>13, <2>1, <2>2 DEF Exit, Logged
<1>14. ASSUME NEW m \in Members, Commit(m)
      PROVE  ConsumerTypeOK'
  BY <1>0, <1>14 DEF Commit, NextOffset, Logged
<1>15. ASSUME NEW t \in undecided, Decide(t)
       PROVE  ConsumerTypeOK'
  <2>1. /\ processed' \in SUBSET EventIds /\ effects' \in Seq(Logged)
        /\ UNCHANGED snapshot
    BY <1>8, <1>15 DEF Decide, LateCommit, LateAbort, OpenTxs
  <2>2. undecided' \subseteq undecided
    BY <1>15 DEF Decide, LateCommit, LateAbort, Forget
  <2> QED
    BY <1>15, <2>1, <2>2 DEF Decide, Logged
<1>16. CASE Publish
  <2>1. /\ log' \in Seq(Messages)
        /\ Len(log') <= MaxLog
        /\ Logged \subseteq Logged'
    BY <1>16, LogGrows DEF ConsumerNext
  <2>2. effects' \in Seq(Logged')
    BY <1>16, <2>1 DEF Publish
  <2> QED
    BY <1>16, <2>1, <2>2 DEF Publish
<1>17. CASE UNCHANGED consumerOnly
  BY <1>17 DEF consumerOnly, Logged
<1> QED
  BY <1>1, <1>2, <1>3, <1>4, <1>5, <1>6, <1>7, <1>9, <1>10, <1>12, <1>13,
     <1>14, <1>15, <1>16, <1>17 DEF ConsumerNext, MemberStep, Loop, Handle

(* How transactions come to be open: they were, with the same events; or   *)
(* one opens now, of an event that no other has recorded; or one that was a*)
(* member's is left to MongoDB.                                            *)
LEMMA OpenEventsStep ==
  ASSUME SharedInv, [ConsumerNext]_consumerOnly
  PROVE  OpenEvents'
<1> USE DEF MoveTo, topic, store, SharedInv
<1>0. phase \in [Members -> {"fetch", "handle", "tx", "commit", "stopped",
                             "down"}]
  BY DEF ConsumerTypeOK
<1>1. /\ \A m \in Members : phase[m] \in {"handle", "tx"} /\ msg'[m] = msg[m]
                              => Event(m)' = Event(m)
      /\ \A t \in undecided : log'[t.offset + 1] = EventOf(t)
  BY LogGrows DEF ConsumerTypeOK, Event, EventOf, At
<1>2. \A m : Unrecorded(Tx(m)) <=> /\ Relevant(Event(m))
                                   /\ Event(m).id \notin processed
  BY DEF Unrecorded, Tx, EventOf, Event
<1>3. \A m : Unrecorded(Tx(m))' <=> /\ Relevant(Event(m)')
                                    /\ Event(m)'.id \notin processed'
  BY DEF Unrecorded, Tx, EventOf, Event, At, Relevant
<1>4. ASSUME UNCHANGED processed, undecided' \subseteq undecided,
             \A m \in Members :
                phase'[m] = "tx" => phase[m] = "tx" /\ msg'[m] = msg[m]
      PROVE  OpenEvents'
  BY <1>1, <1>2, <1>3, <1>4 DEF OpenEvents, InTx, Unrecorded, EventOf, At
<1>5. ASSUME NEW n \in Members, TxInsert(n)
      PROVE  OpenEvents'
  <2>1. /\ UNCHANGED <<log, msg, processed, undecided>>
        /\ phase' = [phase EXCEPT ![n] = "tx"]
    BY <1>5 DEF TxInsert, InsertsInTx
  <2>2. /\ Relevant(Event(n)) /\ Event(n).id \notin processed
        /\ \A k \in Members \ {n} : phase[k] = "tx" => Event(k).id # Event(n).id
        /\ \A t \in undecided : EventOf(t).id # Event(n).id
    BY <1>5 DEF TxInsert, Marking, Recorded, Contended
  <2>3. /\ \A k \in Members : Event(k)' = Event(k)
        /\ \A t : EventOf(t)' = EventOf(t)
    BY <2>1 DEF Event, EventOf, At
  <2> QED
    BY <1>0, <1>2, <1>3, <2>1, <2>2, <2>3 DEF OpenEvents, InTx, Unrecorded,
       Relevant
<1>6. ASSUME NEW n \in Members, TxCommit(n)
      PROVE  OpenEvents'
  <2>1. /\ UNCHANGED <<log, msg, undecided>> /\ phase[n] = "tx"
        /\ phase' = [phase EXCEPT ![n] = "commit"]
        /\ processed' = processed \cup {Event(n).id}
    BY <1>6 DEF TxCommit, TxEffect, HandleReturnsNil, Tx, EventOf, Event
  <2>2. /\ \A k \in Members : Event(k)' = Event(k)
        /\ \A t : EventOf(t)' = EventOf(t)
    BY <2>1 DEF Event, EventOf, At
  <2> QED
    BY <1>0, <1>2, <1>3, <2>1, <2>2 DEF OpenEvents, InTx, Unrecorded, Relevant
<1>7. ASSUME NEW n \in Members, HandleFails(n) \/ Exit(n)
      PROVE  OpenEvents'
  <2>1. /\ UNCHANGED <<log, msg, processed>>
        /\ phase' \in {[phase EXCEPT ![n] = "fetch"],
                       [phase EXCEPT ![n] = "down"]}
        /\ \/ undecided' = undecided
           \/ phase[n] = "tx" /\ undecided' = undecided \cup {Tx(n)}
    BY <1>7 DEF HandleFails, Exit, LeavesTx, AfterFailure
  <2>2. CASE undecided' = undecided
    BY <1>0, <1>4, <2>1, <2>2
  <2>3. CASE phase[n] = "tx" /\ undecided' = undecided \cup {Tx(n)}
    <3>1. /\ \A k \in Members : Event(k)' = Event(k)
          /\ \A t : EventOf(t)' = EventOf(t)
          /\ \A t : Unrecorded(t)' <=> Unrecorded(t)
          /\ EventOf(Tx(n)) = Event(n)
      BY <2>1 DEF Event, EventOf, At, Tx, Unrecorded, Relevant
    <3>2. InTx' = InTx \ {n} /\ n \in InTx
      BY <1>0, <2>1, <2>3 DEF InTx
    <3>3. \A k \in InTx : Unrecorded(Tx(k))'
      <4>1. \A k \in InTx : /\ Relevant(Event(k))
                             /\ Event(k).id \notin processed
        BY <1>2 DEF OpenEvents
      <4> QED
        BY <1>3, <2>1, <3>1, <4>1 DEF InTx
    <3>4. \A t \in undecided' : Unrecorded(t)
      BY <2>3, <3>2 DEF OpenEvents
    <3>5. \A k \in InTx', t \in undecided' : Event(k).id # EventOf(t).id
      BY <2>3, <3>1, <3>2 DEF OpenEvents
    <3>6. \A t, r \in undecided' : t # r => EventOf(t).id # EventOf(r).id
      BY <2>3, <3>1, <3>2 DEF OpenEvents
    <3>7. \A k, r \in InTx' : k # r => Event(k).id # Event(r).id
      BY <3>2 DEF OpenEvents
    <3>8. \A k \in InTx' : k \in InTx /\ k \in Members
      BY <3>2 DEF InTx
    <3> HIDE DEF SharedInv
    <3> QED
      BY <3>1, <3>3, <3>4, <3>5, <3>6, <3>7, <3>8 DEF OpenEvents
  <2> QED
    BY <2>1, <2>2, <2>3
<1>8. ASSUME NEW t \in undecided, Decide(t)
      PROVE  OpenEvents'
  <2>1. UNCHANGED <<log, msg, phase>> /\ undecided' = undecided \ {t}
    BY <1>8 DEF Decide, LateCommit, LateAbort, Forget
  <2>2. CASE LateAbort(t)
    BY <1>4, <2>1, <2>2 DEF LateAbort
  <2>3. CASE LateCommit(t)
    <3>1. processed' = processed \cup {EventOf(t).id}
      BY <2>3 DEF LateCommit, TxEffect
    <3>2. /\ \A k \in Members : Event(k)' = Event(k)
          /\ \A s : EventOf(s)' = EventOf(s)
      BY <2>1 DEF Event, EventOf, At
    <3> QED
      BY <1>2, <1>3, <2>1, <3>1, <3>2 DEF OpenEvents, InTx, Unrecorded, Relevant
  <2> QED
    BY <1>8, <2>2, <2>3 DEF Decide
<1>9. ASSUME NEW n \in Members,
             \/ Start(n) \/ Assign(n) \/ Revoke(n) \/ Fetch(n)
             \/ FetchCancelled(n) \/ Ignore(n) \/ AlreadyProcessed(n)
             \/ TxRetry(n) \/ Commit(n) \/ Stop(n)
      PROVE  OpenEvents'
  BY <1>0, <1>4, <1>9 DEF Start, Assign, Revoke, Fetch, FetchCancelled,
     Ignore, AlreadyProcessed, HandleReturnsNil, TxRetry, Commit, Stop,
     ConsumerTypeOK
<1>10. CASE Publish \/ UNCHANGED consumerOnly
  BY <1>4, <1>10 DEF Publish, consumerOnly
<1> QED
  BY <1>5, <1>6, <1>7, <1>8, <1>9, <1>10 DEF ConsumerNext, MemberStep, Loop,
     Handle

(* Marks add and remove no items, so a snapshot stays true to the carts.   *)
LEMMA SeesStep ==
  ASSUME GroupInv, [ConsumerNext]_consumerVars
  PROVE  SeesItems'
<1> USE DEF MoveTo, topic, store
<1>0. /\ phase \in [Members -> {"fetch", "handle", "tx", "commit", "stopped",
                                "down"}]
      /\ snapshot \in [Members -> [Users -> Cart \cup {NoCart}]]
  BY DEF GroupInv, SharedInv, ConsumerTypeOK
<1>1. \A u \in Users, p \in Products :
        HasItem(carts'[u], p) <=> HasItem(carts[u], p)
  BY TxKeepsItems, GroupEffect DEF consumerVars
<1>2. \A t \in OpenTxs : /\ TrueToCarts(t)
                         /\ \A u \in Users, p \in Products :
                              HasItem(t.seen[u], p) <=> HasItem(carts'[u], p)
  BY <1>1 DEF GroupInv, SeesItems, TrueToCarts, OpenTxs
<1>3. ASSUME undecided' \subseteq OpenTxs,
             \A m \in Members : phase'[m] = "tx" =>
               phase[m] = "tx" /\ snapshot'[m] = snapshot[m]
      PROVE  SeesItems'
  <2>1. ASSUME NEW t \in undecided'
        PROVE  TrueToCarts(t)'
    BY <1>2, <1>3, <2>1 DEF TrueToCarts, HasItem, Exists
  <2>2. ASSUME NEW m \in Members, phase'[m] = "tx"
        PROVE  TrueToCarts(Tx(m))'
    <3>1. Tx(m) \in OpenTxs /\ Tx(m).seen = snapshot'[m]
      BY <1>3, <2>2 DEF OpenTxs, InTx, Tx
    <3> QED
      BY <1>2, <3>1 DEF TrueToCarts, Tx, HasItem, Exists
  <2> QED
    BY <2>1, <2>2 DEF SeesItems, InTx
<1>4. ASSUME NEW n \in Members, TxInsert(n)
      PROVE  SeesItems'
  <2>1. /\ UNCHANGED <<carts, undecided>>
        /\ phase' = [phase EXCEPT ![n] = "tx"]
        /\ snapshot' = [snapshot EXCEPT ![n] = carts]
    BY <1>4 DEF TxInsert
  <2>2. ASSUME NEW m \in Members, phase'[m] = "tx"
        PROVE  TrueToCarts(Tx(m))'
    <3>1. CASE m = n
      BY <1>0, <2>1, <3>1 DEF TrueToCarts, Tx
    <3>2. CASE m # n
      <4>1. /\ Tx(m) \in OpenTxs /\ Tx(m).seen = snapshot'[m]
        BY <1>0, <2>1, <2>2, <3>2 DEF OpenTxs, InTx, Tx
      <4> QED
        BY <1>2, <4>1 DEF TrueToCarts, Tx, HasItem, Exists
    <3> QED
      BY <3>1, <3>2
  <2>3. ASSUME NEW t \in undecided'
        PROVE  TrueToCarts(t)'
    BY <1>2, <2>1, <2>3 DEF OpenTxs, TrueToCarts
  <2> QED
    BY <2>2, <2>3 DEF SeesItems, InTx
<1>5. ASSUME NEW n \in Members, TxCommit(n) \/ HandleFails(n) \/ Exit(n)
      PROVE  SeesItems'
  <2>1. /\ phase'[n] # "tx" /\ \A m \in Members \ {n} : phase'[m] = phase[m]
        /\ UNCHANGED snapshot
        /\ \/ undecided' = undecided
           \/ phase[n] = "tx" /\ undecided' = undecided \cup {Tx(n)}
    BY <1>0, <1>5 DEF TxCommit, HandleReturnsNil, HandleFails, Exit, LeavesTx,
       AfterFailure, TxEffect
  <2>2. undecided' \subseteq OpenTxs
    BY <2>1 DEF OpenTxs, InTx
  <2> QED
    BY <1>3, <2>1, <2>2
<1>6. ASSUME NEW t \in undecided, Decide(t)
      PROVE  SeesItems'
  <2>1. UNCHANGED <<phase, snapshot>> /\ undecided' \subseteq undecided
    BY <1>6 DEF Decide, LateCommit, LateAbort, TxEffect, Forget
  <2> QED
    BY <1>3, <2>1 DEF OpenTxs
<1>7. ASSUME NEW n \in Members,
             \/ Start(n) \/ Assign(n) \/ Revoke(n) \/ Fetch(n)
             \/ FetchCancelled(n) \/ Ignore(n) \/ AlreadyProcessed(n)
             \/ TxRetry(n) \/ Commit(n) \/ Stop(n)
      PROVE  SeesItems'
  BY <1>0, <1>3, <1>7 DEF Start, Assign, Revoke, Fetch, FetchCancelled,
     Ignore, AlreadyProcessed, HandleReturnsNil, TxRetry, Commit, Stop, OpenTxs
<1>8. CASE Publish \/ UNCHANGED consumerVars
  BY <1>3, <1>8 DEF Publish, consumerVars, consumerOnly, OpenTxs
<1> QED
  BY <1>4, <1>5, <1>6, <1>7, <1>8 DEF ConsumerNext, MemberStep, Loop, Handle

LEMMA GroupInvHolds == CartsTypeOK /\ ConsumerInit => GroupInv
<1> SUFFICES ASSUME CartsTypeOK, ConsumerInit
             PROVE  GroupInv
  OBVIOUS
<1> USE DEF ConsumerInit
<1>1. log \in Seq(Messages) /\ Len(log) <= MaxLog /\ effects \in Seq(Logged)
  BY EmptySeq, ConsumerAssumption
<1>2. ConsumerTypeOK
  BY <1>1, ConsumerAssumption DEF ConsumerTypeOK, Offsets
<1> QED
  BY <1>2 DEF GroupInv, SharedInv, OpenEvents, SeesItems, InTx

LEMMA SharedInvStep ==
  SharedInv /\ CartsTypeOK' /\ [ConsumerNext]_consumerOnly => SharedInv'
BY TypeStep, OpenEventsStep DEF SharedInv

LEMMA SharedInvariant == SharedSpec => []SharedInv
<1>1. CartsTypeOK /\ ConsumerInit => SharedInv
  BY GroupInvHolds DEF GroupInv
<1> QED
  BY <1>1, SharedInvStep, PTL DEF SharedSpec

LEMMA GroupInvStep == GroupInv /\ [ConsumerNext]_consumerVars => GroupInv'
<1>1. GroupInv /\ [ConsumerNext]_consumerVars
        => CartsTypeOK' /\ [ConsumerNext]_consumerOnly
  BY CartsStep, GroupStepIsShared DEF GroupInv, SharedInv
<1> QED
  BY <1>1, SharedInvStep, SeesStep DEF GroupInv

(* What SharedInv says of the consumers among other writers, and what the  *)
(* snapshots of open transactions show when there are none.                *)
THEOREM GroupInvariant == GroupSpec => []GroupInv
BY GroupInvHolds, GroupInvStep, PTL DEF GroupSpec

(* The consumer group keeps the type of its state.                         *)
THEOREM GroupTypeCorrect == GroupSpec => []ConsumerTypeOK
BY GroupInvariant, PTL DEF GroupInv, SharedInv

(* The group alone is a case of the group with other writers.              *)
LEMMA GroupIsShared == GroupSpec => SharedSpec
<1>1. GroupInv => CartsTypeOK
  BY DEF GroupInv, SharedInv, ConsumerTypeOK
<1> QED
  BY <1>1, GroupInvariant, GroupStepIsShared, PTL DEF GroupSpec, SharedSpec

-----------------------------------------------------------------------------
(* The group implements AtomicEvents *)

(* The operators of the instance are those of this module. *)
LEMMA SameMarks ==
  ASSUME NEW cart, NEW p, NEW flag
  PROVE  Once!Marked(cart, p, flag) = Marked(cart, p, flag)
BY DEF Once!Marked, Marked, Once!HasItem, HasItem, Once!Exists, Exists

LEMMA EffectIsApply ==
  ASSUME GroupInv, NEW t \in OpenTxs, TxEffect(t)
  PROVE  Once!EventsNext
<1> DEFINE e == EventOf(t)
<1>1. Unrecorded(t)
  BY OpenUnrecorded DEF GroupInv, SharedInv
<1>2. e \in {i \in Messages : Relevant(i)}
  BY <1>1, OpenTx DEF GroupInv, SharedInv, Unrecorded
<1>3. Once!Apply(e)
  <2>1. carts' = [u \in Users |-> Once!Marked(carts[u], e.product, ~e.inStock)]
    BY TxMarksAllCarts, SameMarks
  <2> QED
    BY <1>1, <2>1 DEF Once!Apply, TxEffect, Unrecorded
<1> QED
  BY <1>2, <1>3 DEF Once!EventsNext

(* Whatever Kafka, MongoDB and the members do, the marks of an event appear*)
(* in all carts in one step, and at most once (Mark... methods).           *)
THEOREM GroupRefinesAtomicEvents == GroupSpec => RefinesAtomicEvents
<1>1. CartsTypeOK /\ ConsumerInit => Once!EventsInit
  BY DEF ConsumerInit, Once!EventsInit, CartsTypeOK, Once!CartsTypeOK, Cart,
         Once!Cart, Entry, Once!Entry
<1>2. GroupInv /\ [ConsumerNext]_consumerVars
        => [Once!EventsNext]_<<carts, processed>>
  <2> SUFFICES ASSUME GroupInv, [ConsumerNext]_consumerVars
               PROVE  Once!EventsNext \/ UNCHANGED <<carts, processed>>
    OBVIOUS
  <2>1. UNCHANGED consumerVars => UNCHANGED <<carts, processed>>
    BY DEF consumerVars, consumerOnly
  <2> QED
    BY <2>1, GroupEffect, EffectIsApply
<1> QED
  BY <1>1, <1>2, GroupInvariant, PTL
     DEF GroupSpec, RefinesAtomicEvents, Once!EventsSpec

-----------------------------------------------------------------------------
(* The history of the group *)

(* The loop goes through the log without a gap; only what a member has in  *)
(* hand is not yet done.                                                   *)
Done == handled \cup failed \cup jumped

DoneBefore(o) == \A i \in Offsets : i < o => i \in Done

CommittedDone == committed # NoOffset => DoneBefore(committed)

MessageDone(m) ==
  /\ phase[m] \in {"handle", "tx", "commit"} => DoneBefore(msg[m])
  /\ phase[m] = "commit" => msg[m] \in Done

CursorDone(m) ==
  phase[m] # "down" /\ cursor[m] # NoOffset =>
    \A i \in Offsets :
      i < cursor[m] =>
        \/ i \in Done
        \/ phase[m] \in {"handle", "tx"} /\ i = msg[m]

EffectsDone == /\ \A i \in DOMAIN effects : DoneBefore(effects[i])
               /\ \A t \in undecided : DoneBefore(t.offset)

(* Handle returns nil for a stock event only when it is recorded.          *)
HandledRecorded ==
  \A o \in handled : Relevant(At(o)) => At(o).id \in processed

HistoryInv == /\ CommittedDone
              /\ \A m \in Members : MessageDone(m) /\ CursorDone(m)
              /\ EffectsDone
              /\ HandledRecorded

LEMMA HistoryHolds == ConsumerInit => HistoryInv
BY DEF ConsumerInit, HistoryInv, CommittedDone, MessageDone, CursorDone,
       EffectsDone, HandledRecorded

(* What is done stays done, and what was handled keeps its event.          *)
LEMMA DoneGrows ==
  ASSUME SharedInv, [ConsumerNext]_consumerOnly
  PROVE  /\ Done \subseteq Done'
         /\ failed \cup jumped \subseteq failed' \cup jumped'
         /\ processed \subseteq processed'
         /\ \A o : DoneBefore(o) => DoneBefore(o)'
<1>1. ASSUME NEW m \in Members, MemberStep(m)
      PROVE  /\ handled \subseteq handled' /\ failed \subseteq failed'
             /\ jumped \subseteq jumped' /\ processed \subseteq processed'
  BY <1>1 DEF MemberStep, Start, Assign, Revoke, Loop, Fetch, FetchCancelled,
     Handle, Ignore, TxInsert, InsertsInTx, AlreadyProcessed, TxCommit,
     TxEffect, TxRetry, HandleFails, LeavesTx, HandleReturnsNil, Commit, Stop,
     Exit, store, outcomes, reader
<1>2. ASSUME NEW t \in undecided, Decide(t)
      PROVE  /\ UNCHANGED <<handled, failed, jumped>>
             /\ processed \subseteq processed'
  BY <1>2 DEF Decide, LateCommit, LateAbort, TxEffect, outcomes, reader
<1>3. Publish \/ UNCHANGED consumerOnly
        => /\ handled \subseteq handled' /\ failed \subseteq failed'
           /\ jumped \subseteq jumped' /\ processed \subseteq processed'
  BY DEF Publish, consumerOnly, store, outcomes, reader
<1>4. /\ handled \subseteq handled' /\ failed \subseteq failed'
      /\ jumped \subseteq jumped' /\ processed \subseteq processed'
  BY <1>1, <1>2, <1>3 DEF ConsumerNext
<1> QED
  BY <1>4 DEF DoneBefore, Done

LEMMA Following ==
  ASSUME NEW o \in Offsets, NEW i \in Offsets, i < o + 1
  PROVE  i < o \/ i = o
BY ConsumerAssumption DEF Offsets

LEMMA UpTo == ASSUME NEW o \in Offsets, DoneBefore(o), o \in Done
              PROVE  DoneBefore(o + 1)
BY Following DEF DoneBefore

(* No step leaves a gap: a fetch goes from a message that is done to the   *)
(* next, an assignment to the committed offset or to the end of the log.   *)
LEMMA HistoryStep ==
  ASSUME SharedInv, HistoryInv, [ConsumerNext]_consumerOnly
  PROVE  HistoryInv'
<1> USE DEF MoveTo, Place, topic, reader, store, outcomes
<1>0. /\ phase \in [Members -> {"fetch", "handle", "tx", "commit", "stopped",
                                "down"}]
      /\ msg \in [Members -> Offsets]
      /\ cursor \in [Members -> Offsets \cup {NoOffset}]
      /\ committed \in Offsets \cup {NoOffset}
      /\ handled \subseteq Logged
      /\ Offsets \subseteq Nat /\ NoOffset \notin Offsets
  BY ConsumerAssumption DEF SharedInv, ConsumerTypeOK, Offsets
<1>1. CommittedDone'
  <2>1. CASE committed' = committed
    BY <2>1, DoneGrows DEF HistoryInv, CommittedDone
  <2>2. ASSUME NEW m \in Members, Commit(m), committed' = NextOffset(m)
        PROVE  CommittedDone'
    <3>1. DoneBefore(msg[m]) /\ msg[m] \in Done /\ msg[m] \in Offsets
      BY <1>0, <2>2 DEF Commit, HistoryInv, MessageDone
    <3>2. DoneBefore(msg[m] + 1)
      BY <3>1, UpTo
    <3> QED
      BY <2>2, <3>2, DoneGrows DEF CommittedDone, NextOffset
  <2>3. ASSUME NEW m \in Members, MemberStep(m)
        PROVE  \/ committed' = committed
               \/ Commit(m) /\ committed' = NextOffset(m)
    BY <2>3 DEF MemberStep, Start, Assign, Revoke, Loop, Fetch,
       FetchCancelled, Handle, Ignore, TxInsert, AlreadyProcessed, TxCommit,
       TxRetry, HandleFails, HandleReturnsNil, Commit, Stop, Exit
  <2>4. CASE \/ Publish
             \/ \E t \in undecided : Decide(t)
             \/ UNCHANGED consumerOnly
    BY <2>1, <2>4 DEF Publish, Decide, consumerOnly
  <2> QED
    BY <2>1, <2>2, <2>3, <2>4 DEF ConsumerNext
<1>2. ASSUME NEW m \in Members
      PROVE  MessageDone(m)' /\ CursorDone(m)'
  <2> USE <1>0
  <2>1. CASE UNCHANGED <<phase, msg, cursor>>
    BY <2>1, DoneGrows DEF HistoryInv, MessageDone, CursorDone
  <2>2. ASSUME NEW n \in Members, MemberStep(n), n # m
        PROVE  /\ phase'[m] = phase[m]
               /\ msg'[m] = msg[m]
               /\ cursor'[m] = cursor[m]
    BY <2>2 DEF MemberStep, Start, Assign, Revoke, Loop, Fetch,
       FetchCancelled, Handle, Ignore, TxInsert, AlreadyProcessed, TxCommit,
       TxRetry, HandleFails, HandleReturnsNil, Commit, Stop, Exit
  <2>3. CASE phase'[m] = phase[m] /\ msg'[m] = msg[m] /\ cursor'[m] = cursor[m]
    BY <2>3, DoneGrows DEF HistoryInv, MessageDone, CursorDone
  <2>4. CASE Start(m)
    BY <2>4 DEF Start, MessageDone, CursorDone
  <2>5. CASE Assign(m)
    <3>1. StartAt \in Offsets
      BY ConsumerAssumption DEF StartAt, SharedInv, ConsumerTypeOK, Offsets
    <3>2. \A i \in Offsets : i < StartAt => i \in Done'
      <4>1. CASE committed = NoOffset
        <5>1. Logged \subseteq jumped'
          BY <2>5, <4>1 DEF Assign
        <5> QED
          BY <4>1, <5>1 DEF StartAt, Done, Logged
      <4>2. CASE committed # NoOffset
        BY <4>2, DoneGrows DEF StartAt, HistoryInv, CommittedDone, DoneBefore
      <4> QED
        BY <4>1, <4>2
    <3> QED
      BY <2>5, <3>1, <3>2, DoneGrows
         DEF Assign, HistoryInv, MessageDone, CursorDone
  <2>6. CASE Revoke(m)
    BY <2>6, DoneGrows DEF Revoke, HistoryInv, MessageDone, CursorDone
  <2>7. CASE Fetch(m)
    <3>1. cursor[m] \in Offsets /\ DoneBefore(cursor[m])
      BY <2>7 DEF Fetch, Logged, HistoryInv, CursorDone, DoneBefore
    <3>2. /\ phase'[m] = "handle"
          /\ msg'[m] = cursor[m]
          /\ cursor'[m] = cursor[m] + 1
      BY <2>7 DEF Fetch
    <3> QED
      BY <3>1, <3>2, Following, DoneGrows
         DEF MessageDone, CursorDone, DoneBefore
  <2>8. CASE FetchCancelled(m) \/ Stop(m) \/ Exit(m) \/ TxRetry(m)
    BY <2>8, DoneGrows DEF FetchCancelled, Stop, Exit, TxRetry, HistoryInv,
       MessageDone, CursorDone
  <2>9. CASE TxInsert(m)
    BY <2>9, DoneGrows DEF TxInsert, Marking, HistoryInv, MessageDone,
       CursorDone
  <2>10. CASE Ignore(m) \/ AlreadyProcessed(m) \/ TxCommit(m)
    BY <2>10, DoneGrows DEF Ignore, AlreadyProcessed, Marking, TxCommit,
       TxEffect, HandleReturnsNil, HistoryInv, MessageDone, CursorDone, Done
  <2>11. CASE HandleFails(m)
    BY <2>11, DoneGrows DEF HandleFails, AfterFailure, HistoryInv,
       MessageDone, CursorDone, Done
  <2>12. CASE Commit(m)
    BY <2>12, DoneGrows DEF Commit, HistoryInv, MessageDone, CursorDone
  <2>13. CASE \/ Publish
              \/ \E t \in undecided : Decide(t)
              \/ UNCHANGED consumerOnly
    BY <2>1, <2>13 DEF Publish, Decide, consumerOnly
  <2> QED
    BY <2>2, <2>3, <2>4, <2>5, <2>6, <2>7, <2>8, <2>9, <2>10, <2>11, <2>12,
       <2>13 DEF ConsumerNext, MemberStep, Loop, Handle
<1>3. EffectsDone'
  <2> DEFINE After(o) == \A k \in Offsets : k < o => k \in Done'
  <2>0. \A o : DoneBefore(o) => After(o)
    BY DoneGrows DEF DoneBefore
  <2>1. \A t \in OpenTxs : DoneBefore(t.offset)
    BY DEF OpenTxs, InTx, Tx, HistoryInv, MessageDone, EffectsDone
  <2>2. \A t \in undecided' : After(t.offset)
    <3>1. undecided' \subseteq OpenTxs
      <4>1. ASSUME NEW m \in Members, MemberStep(m)
            PROVE  \/ undecided' \subseteq undecided
                   \/ phase[m] = "tx" /\ undecided' = undecided \cup {Tx(m)}
        BY <4>1 DEF MemberStep, Start, Assign, Revoke, Loop, Fetch,
           FetchCancelled, Handle, Ignore, TxInsert, AlreadyProcessed,
           TxCommit, TxRetry, HandleFails, Commit, Stop, Exit, LeavesTx
      <4>2. ASSUME NEW t \in undecided, Decide(t)
            PROVE  undecided' \subseteq undecided
        BY <4>2 DEF Decide, LateCommit, LateAbort, Forget
      <4>3. Publish \/ UNCHANGED consumerOnly => undecided' = undecided
        BY DEF Publish, consumerOnly
      <4> QED
        BY <4>1, <4>2, <4>3 DEF ConsumerNext, OpenTxs, InTx
    <3> QED
      BY <2>0, <2>1, <3>1
  <2>3. \A i \in DOMAIN effects' : After(effects'[i])
    <3>1. CASE effects' = effects
      BY <2>0, <3>1 DEF HistoryInv, EffectsDone
    <3>2. ASSUME NEW t \in OpenTxs, TxEffect(t)
          PROVE  \A i \in DOMAIN effects' : After(effects'[i])
      <4>1. \A i \in DOMAIN effects' :
              \/ effects'[i] = t.offset
              \/ i \in DOMAIN effects /\ effects'[i] = effects[i]
        BY <3>2 DEF TxEffect, SharedInv, ConsumerTypeOK
      <4> QED
        BY <2>0, <2>1, <4>1 DEF HistoryInv, EffectsDone
    <3> QED
      BY <3>1, <3>2, EffectsGrow
  <2> QED
    BY <2>2, <2>3 DEF EffectsDone, DoneBefore
<1>4. HandledRecorded'
  <2>1. \A o \in handled : At(o)' = At(o)
    BY <1>0, LogGrows DEF At, SharedInv
  <2>2. CASE handled' = handled
    BY <2>1, <2>2, DoneGrows DEF HistoryInv, HandledRecorded
  <2>3. ASSUME NEW m \in Members, HandleReturnsNil(m),
               Ignore(m) \/ AlreadyProcessed(m) \/ TxCommit(m)
        PROVE  HandledRecorded'
    <3>1. Relevant(Event(m)) => Event(m).id \in processed'
      BY <2>3 DEF Ignore, AlreadyProcessed, Recorded, TxCommit, TxEffect,
         Tx, EventOf, Event
    <3>2. /\ log'[msg[m] + 1] = Event(m)
          /\ handled' = handled \cup {msg[m]}
      BY <2>3 DEF HandleReturnsNil, At, Event
    <3> QED
      BY <2>1, <3>1, <3>2, DoneGrows DEF HistoryInv, HandledRecorded, At
  <2>4. ASSUME NEW m \in Members, MemberStep(m)
        PROVE  \/ handled' = handled
               \/ /\ HandleReturnsNil(m)
                  /\ Ignore(m) \/ AlreadyProcessed(m) \/ TxCommit(m)
    BY <2>4 DEF MemberStep, Start, Assign, Revoke, Loop, Fetch,
       FetchCancelled, Handle, Ignore, TxInsert, AlreadyProcessed, TxCommit,
       TxRetry, HandleFails, Commit, Stop, Exit
  <2>5. CASE \/ Publish
             \/ \E t \in undecided : Decide(t)
             \/ UNCHANGED consumerOnly
    BY <2>2, <2>5 DEF Publish, Decide, consumerOnly
  <2> QED
    BY <2>2, <2>3, <2>4, <2>5 DEF ConsumerNext
<1> QED
  BY <1>1, <1>2, <1>3, <1>4 DEF HistoryInv

(* What TxEffect appends, and what it finds recorded.                      *)
LEMMA EffectAppended ==
  ASSUME SharedInv, NEW t \in OpenTxs, TxEffect(t)
  PROVE  /\ Len(effects) \in Nat /\ DOMAIN effects = 1..Len(effects)
         /\ DOMAIN effects' = 1..Len(effects) + 1
         /\ effects'[Len(effects) + 1] = t.offset
         /\ \A i \in DOMAIN effects : effects'[i] = effects[i]
         /\ Unrecorded(t)
<1>1. effects \in Seq(Logged) /\ t.offset \in Logged
  BY OpenTx DEF SharedInv, ConsumerTypeOK, TxEffect
<1>2. Unrecorded(t)
  BY OpenUnrecorded DEF SharedInv
<1> QED
  BY <1>1, <1>2, AppendProperties DEF TxEffect

LEMMA OnceStep ==
  ASSUME SharedInv, EventsTakeEffectOnce, [ConsumerNext]_consumerOnly
  PROVE  EventsTakeEffectOnce'
<1>1. \A i \in DOMAIN effects : log'[effects[i] + 1] = log[effects[i] + 1]
  BY LogGrows DEF SharedInv, ConsumerTypeOK
<1>2. CASE UNCHANGED <<effects, processed>>
  BY <1>1, <1>2 DEF EventsTakeEffectOnce, At
<1>3. ASSUME NEW t \in OpenTxs, TxEffect(t), UNCHANGED log
      PROVE  EventsTakeEffectOnce'
  <2> DEFINE n == Len(effects) + 1
  <2>1. /\ Len(effects) \in Nat /\ DOMAIN effects = 1..Len(effects)
        /\ DOMAIN effects' = 1..n
        /\ effects'[n] = t.offset
        /\ \A i \in DOMAIN effects : effects'[i] = effects[i]
        /\ Unrecorded(t)
    BY <1>3, EffectAppended
  <2>2. \A i \in DOMAIN effects' : i = n \/ i \in DOMAIN effects
    BY <2>1
  <2>3. \A i \in DOMAIN effects : log[effects[i] + 1].id # EventOf(t).id
    BY <2>1 DEF EventsTakeEffectOnce, Unrecorded, At
  <2>4. processed' = processed \cup {EventOf(t).id} /\ EventOf(t) = log[t.offset + 1]
    BY <1>3 DEF TxEffect, EventOf, At
  <2>5. DOMAIN effects \subseteq DOMAIN effects' /\ n \in DOMAIN effects'
    BY <2>1
  <2> HIDE DEF n
  <2>6. processed' = {log'[effects'[i] + 1].id : i \in DOMAIN effects'}
    BY <1>3, <2>1, <2>2, <2>4, <2>5 DEF EventsTakeEffectOnce, At
  <2>7. \A i, j \in DOMAIN effects' :
          log'[effects'[i] + 1].id = log'[effects'[j] + 1].id => i = j
    BY <1>3, <2>1, <2>2, <2>3, <2>4 DEF EventsTakeEffectOnce, At
  <2> QED
    BY <2>6, <2>7 DEF EventsTakeEffectOnce, At
<1> QED
  BY <1>2, <1>3, EffectsGrow

(* An event that comes after a later one was done before it: Handle had    *)
(* not recorded it, so it had failed or was passed over.                   *)
LEMMA LateStep ==
  ASSUME SharedInv, HistoryInv, OnlySkippedEventsAreLate,
         [ConsumerNext]_consumerOnly
  PROVE  OnlySkippedEventsAreLate'
<1>1. \A i \in DOMAIN effects : log'[effects[i] + 1] = log[effects[i] + 1]
  BY LogGrows DEF SharedInv, ConsumerTypeOK
<1>2. CASE UNCHANGED <<effects, processed>>
  BY <1>1, <1>2, DoneGrows DEF OnlySkippedEventsAreLate, At
<1>3. ASSUME NEW t \in OpenTxs, TxEffect(t), UNCHANGED log
      PROVE  OnlySkippedEventsAreLate'
  <2> DEFINE n == Len(effects) + 1
  <2>1. /\ Len(effects) \in Nat /\ DOMAIN effects = 1..Len(effects)
        /\ DOMAIN effects' = 1..n
        /\ effects'[n] = t.offset
        /\ \A i \in DOMAIN effects : effects'[i] = effects[i]
        /\ Unrecorded(t)
    BY <1>3, EffectAppended
  <2>2. ASSUME NEW i \in DOMAIN effects', NEW j \in DOMAIN effects', i < j
        PROVE  i \in DOMAIN effects /\ (j = n \/ j \in DOMAIN effects)
    BY <2>1, <2>2
  <2>3. t.offset \notin handled
    BY <2>1 DEF Unrecorded, HistoryInv, HandledRecorded, EventOf
  <2>4. \A i \in DOMAIN effects :
          effects[i] > t.offset => t.offset \in failed \cup jumped
    <3>1. \A i \in DOMAIN effects :
            /\ effects[i] \in Nat /\ t.offset \in Offsets /\ t.offset \in Nat
            /\ DoneBefore(effects[i])
      BY OpenTx, ConsumerAssumption DEF HistoryInv, EffectsDone, SharedInv,
         ConsumerTypeOK, Logged, Offsets
    <3> QED
      BY <2>3, <3>1 DEF DoneBefore, Done
  <2> HIDE DEF n
  <2>5. ASSUME NEW i \in DOMAIN effects', NEW j \in DOMAIN effects',
               i < j, effects'[i] > effects'[j],
               log'[effects'[i] + 1].product = log'[effects'[j] + 1].product
        PROVE  effects'[j] \in failed' \cup jumped'
    <3>1. CASE j = n
      BY <2>1, <2>2, <2>4, <2>5, <3>1, DoneGrows
    <3>2. CASE j \in DOMAIN effects
      BY <1>3, <2>1, <2>2, <2>5, <3>2, DoneGrows
         DEF OnlySkippedEventsAreLate, At
    <3> QED
      BY <2>2, <2>5, <3>1, <3>2
  <2> QED
    BY <2>5 DEF OnlySkippedEventsAreLate, At
<1> QED
  BY <1>2, <1>3, EffectsGrow

LEMMA SharedHistory == SharedSpec => []HistoryInv
BY HistoryHolds, HistoryStep, SharedInvariant, PTL DEF SharedSpec

LEMMA SharedEffectsOnce == SharedSpec => []EventsTakeEffectOnce
<1>1. ConsumerInit => EventsTakeEffectOnce
  BY DEF ConsumerInit, EventsTakeEffectOnce
<1>2. SharedInv /\ EventsTakeEffectOnce /\ [ConsumerNext]_consumerOnly
        => EventsTakeEffectOnce'
  BY OnceStep
<1> QED
  BY <1>1, <1>2, SharedInvariant, PTL DEF SharedSpec

LEMMA SharedCommits == SharedSpec => []CommittedWereDelivered
<1>1. SharedInv /\ HistoryInv => CommittedWereDelivered
  <2> SUFFICES ASSUME SharedInv, HistoryInv, committed # NoOffset,
                      NEW o \in 0..committed - 1
               PROVE  o \in handled \cup failed \cup jumped
    BY DEF CommittedWereDelivered
  <2>1. committed \in Offsets /\ o \in Offsets /\ o < committed
    BY ConsumerAssumption DEF SharedInv, ConsumerTypeOK, Offsets
  <2> QED
    BY <2>1 DEF HistoryInv, CommittedDone, DoneBefore, Done
<1> QED
  BY <1>1, SharedInvariant, SharedHistory, PTL

LEMMA SharedLate == SharedSpec => []OnlySkippedEventsAreLate
<1>1. ConsumerInit => OnlySkippedEventsAreLate
  BY DEF ConsumerInit, OnlySkippedEventsAreLate
<1>2. SharedInv /\ HistoryInv /\ OnlySkippedEventsAreLate
        /\ [ConsumerNext]_consumerOnly => OnlySkippedEventsAreLate'
  BY LateStep
<1> QED
  BY <1>1, <1>2, SharedInvariant, SharedHistory, PTL DEF SharedSpec

-----------------------------------------------------------------------------
(* The theorems, for any other writer of the carts *)

(* However often an event is delivered, and to however many members, its   *)
(* marks and its record take effect together, once (InsertOne in the       *)
(* transaction); the loop commits only what it has handed to Handle, or    *)
(* what a start without an offset has passed over; and only a failure of   *)
(* Handle, or such a start, reorders the marks of a product.  The calls of *)
(* the repository, which change the carts meanwhile and make transactions  *)
(* abort, do not matter.                                                   *)
THEOREM ConsumersAmongWriters ==
  SharedSpec => [](/\ EventsTakeEffectOnce
                   /\ CommittedWereDelivered
                   /\ OnlySkippedEventsAreLate)
BY SharedEffectsOnce, SharedCommits, SharedLate, PTL

(* The group by itself: redelivery is harmless.                            *)
THEOREM EffectsOnce == GroupSpec => []EventsTakeEffectOnce
BY GroupIsShared, SharedEffectsOnce, PTL

(* The loop commits only what it has handed to Handle, or what a start     *)
(* without an offset has passed over.                                      *)
THEOREM CommitsAreDelivered == GroupSpec => []CommittedWereDelivered
BY GroupIsShared, SharedCommits, PTL

(* Crashes, rebalances and redelivery do not reorder the marks.            *)
THEOREM LateWereSkipped == GroupSpec => []OnlySkippedEventsAreLate
BY GroupIsShared, SharedLate, PTL

(* No message below a place the consumers have reached is left out.        *)
THEOREM HistoryInvariant == GroupSpec => []HistoryInv
BY GroupIsShared, SharedHistory, PTL
=============================================================================
