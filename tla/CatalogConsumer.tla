--------------------------- MODULE CatalogConsumer ---------------------------
(***************************************************************************)
(* internal/events and the two Mark... methods of internal/repository/     *)
(* mongodb: the loop that fetches catalog events from Kafka, marks items   *)
(* available or unavailable in all carts in one MongoDB transaction that   *)
(* also records the event id, and commits the offset.  Each process of the *)
(* service is a member of the same consumer group.                         *)
(*                                                                         *)
(* One partition of the topic.  Kafka, kafka-go and MongoDB are outside src*)
(* and modelled from their use:                                            *)
(*  - FetchMessage returns successive messages: a reader keeps its own     *)
(*    cursor, which goes back to the committed offset only when the reader *)
(*    is assigned the partition; without a committed offset StartOffset    *)
(*    applies, which is LastOffset, the end of the log;                    *)
(*  - a rebalance gives the partition to another member while the loop of  *)
(*    the last one goes on with its message and its buffer;                *)
(*  - CommitMessages stores the offset after the message, whoever has the  *)
(*    partition by then; an error may come from a commit that was stored;  *)
(*  - a transaction reads the snapshot of its start, and aborts if another *)
(*    write changed a document it writes; of two open transactions that    *)
(*    insert the same _id the later aborts.  WithTransaction runs an       *)
(*    aborted transaction again.  A commit whose sender gives up or dies   *)
(*    may be executed at any time later, or never.                         *)
(***************************************************************************)
EXTENDS CartStore, FiniteSets

CONSTANTS Members,     \* the processes of the service
          EventIds,    \* the event_ids of the catalog
          Messages,    \* what the catalog may publish
          MaxLog,      \* bound: length of the log
          MaxAssigns,  \* bound: assignments of the partition
          NoOffset,    \* nothing committed, or no partition assigned
          NoId         \* an event without event_id

VARIABLES log,         \* the partition; offset o is log[o + 1]
          committed,   \* the group's committed offset, or NoOffset
          cursor,      \* cursor[m]: offset m fetches next, or NoOffset
          msg,         \* msg[m]: offset of the message in hand
          phase,       \* phase[m]: where the consumer goroutine stands
          snapshot,    \* snapshot[m]: the carts as its transaction sees them
          undecided,   \* transactions nobody waits for any more
          processed,   \* ids in the collection processed_events
          stopping,    \* members whose consumer context is cancelled
          assigns,     \* assignments so far
          born,        \* history: cursor of the first assignment
          handled,     \* history: offsets for which Handle returned nil
          failed,      \* history: offsets for which Handle returned an error
          justFailed,  \* history: the offset m failed on since its last fetch
          jumped,      \* history: offsets passed over by a start at the end
          effects      \* history: offsets whose transaction committed, in order

topic    == <<log, committed>>
reader   == <<cursor, assigns, born, jumped>>
store    == <<carts, snapshot, undecided, processed, effects>>
outcomes == <<handled, failed, justFailed>>

consumerOnly == <<topic, reader, msg, phase, stopping, snapshot, undecided,
                  processed, effects, outcomes>>
consumerVars == <<carts, consumerOnly>>

Message == [type: {"garbled", "product.updated", "stock.changed"},
            id: EventIds \cup {NoId}, product: Products, inStock: BOOLEAN]

ASSUME ConsumerAssumption == /\ Messages \subseteq Message
                             /\ NoId \notin EventIds
                             /\ MaxLog \in Nat
                             /\ MaxAssigns \in Nat
                             /\ NoOffset \notin Nat

Offsets == 0..MaxLog

At(o) == log[o + 1]

Logged == {o \in Offsets : o < Len(log)}

Event(m) == At(msg[m])

(* A transaction: its event, by offset, and the carts as it sees them.     *)
Tx(m) == [offset |-> msg[m], seen |-> snapshot[m]]

EventOf(t) == At(t.offset)

ConsumerTypeOK ==
  /\ CartsTypeOK
  /\ log \in Seq(Messages) /\ Len(log) <= MaxLog
  /\ committed \in Offsets \cup {NoOffset}
  /\ cursor \in [Members -> Offsets \cup {NoOffset}]
  /\ msg \in [Members -> Offsets]
  /\ phase \in [Members ->
                  {"fetch", "handle", "tx", "commit", "stopped", "down"}]
  /\ \A m \in Members : phase[m] \in {"handle", "tx", "commit"} =>
                           msg[m] \in Logged
  /\ snapshot \in [Members -> [Users -> Cart \cup {NoCart}]]
  /\ \A t \in undecided : /\ t.offset \in Logged
                          /\ t.seen \in [Users -> Cart \cup {NoCart}]
  /\ processed \in SUBSET EventIds
  /\ stopping \in SUBSET Members
  /\ assigns \in 0..MaxAssigns
  /\ born \in Offsets \cup {NoOffset}
  /\ justFailed \in [Members -> Offsets \cup {NoOffset}]
  /\ handled \cup failed \cup jumped \subseteq Logged
  /\ effects \in Seq(Logged)

ConsumerInit ==
  /\ log = <<>>
  /\ committed = NoOffset
  /\ cursor = [m \in Members |-> NoOffset]
  /\ msg = [m \in Members |-> 0]
  /\ phase = [m \in Members |-> "down"]
  /\ snapshot = [m \in Members |-> [u \in Users |-> NoCart]]
  /\ undecided = {}
  /\ processed = {}
  /\ stopping = {}
  /\ assigns = 0
  /\ born = NoOffset
  /\ handled = {}
  /\ failed = {}
  /\ justFailed = [m \in Members |-> NoOffset]
  /\ jumped = {}
  /\ effects = <<>>

-----------------------------------------------------------------------------
(* The reader and its place in the log *)

MoveTo(m, where) == phase' = [phase EXCEPT ![m] = where]

Place(m, offset) == cursor' = [cursor EXCEPT ![m] = offset]

(* App.Run starts the loop; the reader joins the group in the background.  *)
Start(m) ==
  /\ phase[m] = "down"
  /\ MoveTo(m, "fetch")
  /\ Place(m, NoOffset)
  /\ stopping' = stopping \ {m}
  /\ justFailed' = [justFailed EXCEPT ![m] = NoOffset]
  /\ UNCHANGED <<topic, assigns, born, jumped, msg, store, handled, failed>>

(* A start that skips the message at the committed offset. *)
StartsPastCommitted ==
  IF committed = NoOffset THEN Len(log) ELSE committed + 1

StartAt == IF committed = NoOffset THEN Len(log) ELSE committed

(* m gets the partition, for the first time or again, while its goroutine  *)
(* and those of the other members go on with what they have in hand.       *)
Assign(m) ==
  /\ phase[m] \notin {"down", "stopped"}
  /\ assigns < MaxAssigns
  /\ assigns' = assigns + 1
  /\ Place(m, StartAt)
  /\ born' = IF born = NoOffset THEN StartAt ELSE born
  /\ jumped' = IF committed = NoOffset THEN jumped \cup Logged ELSE jumped
  /\ justFailed' = [justFailed EXCEPT ![m] = NoOffset]
  /\ UNCHANGED <<topic, msg, phase, stopping, store, handled, failed>>

(* The partition is taken from m. *)
Revoke(m) ==
  /\ phase[m] \notin {"down", "stopped"}
  /\ cursor[m] # NoOffset
  /\ Place(m, NoOffset)
  /\ UNCHANGED <<topic, assigns, born, jumped, msg, phase, stopping, store,
                 outcomes>>

-----------------------------------------------------------------------------
(* The loop of Run *)

(* FetchMessage may still return a buffered message after the context is   *)
(* cancelled: its select picks either.                                     *)
Fetch(m) ==
  /\ phase[m] = "fetch"
  /\ cursor[m] \in Logged
  /\ msg' = [msg EXCEPT ![m] = cursor[m]]
  /\ Place(m, cursor[m] + 1)
  /\ MoveTo(m, "handle")
  /\ justFailed' = [justFailed EXCEPT ![m] = NoOffset]
  /\ UNCHANGED <<topic, assigns, born, jumped, stopping, store, handled, failed>>

FetchCancelled(m) ==
  /\ phase[m] = "fetch"
  /\ m \in stopping
  /\ MoveTo(m, "stopped")
  /\ UNCHANGED <<topic, reader, msg, stopping, store, outcomes>>

Relevant(e) == e.type = "stock.changed" /\ e.id # NoId

HandleReturnsNil(m) ==
  /\ handled' = handled \cup {msg[m]}
  /\ MoveTo(m, "commit")
  /\ UNCHANGED <<topic, reader, msg, stopping, failed, justFailed>>

(* Garbled JSON, no event_id, or an event type that is not stock.changed. *)
Ignore(m) ==
  /\ phase[m] = "handle"
  /\ ~Relevant(Event(m))
  /\ HandleReturnsNil(m)
  /\ UNCHANGED store

(* A commit of one message too many. *)
OffsetAfterNext(m) == msg[m] + 2

NextOffset(m) == msg[m] + 1

(* CommitMessages after a successful Handle; on an error the loop goes on  *)
(* all the same.                                                           *)
Commit(m) ==
  /\ phase[m] = "commit"
  /\ committed' \in {NextOffset(m), committed}
  /\ MoveTo(m, "fetch")
  /\ UNCHANGED <<log, reader, msg, stopping, store, outcomes>>

-----------------------------------------------------------------------------
(* MarkItemAvailableByProductID and MarkItemUnavailableByProductID *)

(* A handler without the record of processed events. *)
NeverRecorded(m) == FALSE

Recorded(m) == Event(m).id \in processed

(* Another open transaction has inserted the same _id. *)
Contended(m) ==
  \/ \E n \in Members \ {m} : phase[n] = "tx" /\ Event(n).id = Event(m).id
  \/ \E t \in undecided : EventOf(t).id = Event(m).id

(* InsertOne with ctx instead of sc: it is not part of the transaction. *)
InsertsAtOnce(m) == processed' = processed \cup {Event(m).id}

(* What the others see of the InsertOne before the commit: nothing. *)
InsertsInTx(m) == UNCHANGED processed

Marking(m) ==
  /\ phase[m] = "handle"
  /\ Relevant(Event(m))
  /\ m \notin stopping

(* InsertOne of the event id opens the transaction. *)
TxInsert(m) ==
  /\ Marking(m)
  /\ ~Recorded(m)
  /\ ~Contended(m)
  /\ InsertsInTx(m)
  /\ snapshot' = [snapshot EXCEPT ![m] = carts]
  /\ MoveTo(m, "tx")
  /\ UNCHANGED <<topic, reader, msg, stopping, carts, undecided, effects,
                 outcomes>>

(* Duplicate key: ErrEventAlreadyProcessed, which the method turns to nil. *)
AlreadyProcessed(m) ==
  /\ Marking(m)
  /\ Recorded(m)
  /\ HandleReturnsNil(m)
  /\ UNCHANGED store

(* A filter on a field that no document has. *)
MatchesNothing(t) == {}

(* Carts UpdateMany writes: those that hold the product in the snapshot.   *)
TxWrites(t) == {u \in Users : HasItem(t.seen[u], EventOf(t).product)}

(* Carts read, changed and written back without a transaction. *)
NeverConflicts(t) == FALSE

Conflict(t) == \E u \in TxWrites(t) : carts[u] # t.seen[u]

(* Both methods set the flag. *)
AlwaysUnavailable(e) == TRUE

Unavailable(e) == ~e.inStock

MarkedCarts(t) ==
  [u \in Users |->
     IF u \in TxWrites(t)
     THEN Marked(t.seen[u], EventOf(t).product, Unavailable(EventOf(t)))
     ELSE carts[u]]

(* The record of the event and the marks become visible together. *)
TxEffect(t) ==
  /\ ~Conflict(t)
  /\ carts' = MarkedCarts(t)
  /\ processed' = processed \cup {EventOf(t).id}
  /\ effects' = Append(effects, t.offset)
  /\ UNCHANGED snapshot

TxCommit(m) ==
  /\ phase[m] = "tx"
  /\ m \notin stopping
  /\ TxEffect(Tx(m))
  /\ HandleReturnsNil(m)
  /\ UNCHANGED undecided

(* TransientTransactionError: WithTransaction runs the callback again. *)
TxRetry(m) ==
  /\ phase[m] = "tx"
  /\ m \notin stopping
  /\ Conflict(Tx(m))
  /\ MoveTo(m, "handle")
  /\ UNCHANGED <<topic, reader, msg, stopping, store, outcomes>>

(* A loop that handles the message again until Handle succeeds. *)
RetriesInPlace == "handle"

AfterFailure == "fetch"

(* What becomes of its transaction: none, aborted, or left to MongoDB.     *)
LeavesTx(m) ==
  /\ \/ UNCHANGED undecided
     \/ phase[m] = "tx" /\ undecided' = undecided \cup {Tx(m)}
  /\ UNCHANGED <<carts, snapshot, processed, effects>>

(* MongoDB fails or the context is cancelled: Handle returns the error, no *)
(* offset is committed and the loop goes on with the next fetch.           *)
HandleFails(m) ==
  /\ phase[m] \in {"handle", "tx"}
  /\ Relevant(Event(m))
  /\ LeavesTx(m)
  /\ failed' = failed \cup {msg[m]}
  /\ justFailed' = [justFailed EXCEPT ![m] = msg[m]]
  /\ MoveTo(m, AfterFailure)
  /\ UNCHANGED <<topic, reader, msg, stopping, handled>>

-----------------------------------------------------------------------------
(* The environment *)

Publish ==
  /\ Len(log) < MaxLog
  /\ \E e \in Messages : log' = Append(log, e)
  /\ UNCHANGED <<committed, reader, msg, phase, stopping, store, outcomes>>

(* App.Shutdown calls consumerCancel. *)
Stop(m) ==
  /\ phase[m] \notin {"down", "stopped"}
  /\ m \notin stopping
  /\ stopping' = stopping \cup {m}
  /\ UNCHANGED <<topic, reader, msg, phase, store, outcomes>>

(* The process exits or crashes. *)
Exit(m) ==
  /\ phase[m] # "down"
  /\ LeavesTx(m)
  /\ MoveTo(m, "down")
  /\ UNCHANGED <<topic, reader, msg, stopping, outcomes>>

Forget(t) == undecided' = undecided \ {t}

(* MongoDB executes the commit, or aborts for a conflict or after a while. *)
LateCommit(t) == TxEffect(t) /\ Forget(t)

LateAbort(t) == Forget(t) /\ UNCHANGED <<carts, snapshot, processed, effects>>

Decide(t) ==
  /\ LateCommit(t) \/ LateAbort(t)
  /\ UNCHANGED <<topic, reader, msg, phase, stopping, outcomes>>

-----------------------------------------------------------------------------

Handle(m) == \/ Ignore(m)
             \/ TxInsert(m)
             \/ AlreadyProcessed(m)
             \/ TxCommit(m)
             \/ TxRetry(m)
             \/ HandleFails(m)

Loop(m) == Fetch(m) \/ FetchCancelled(m) \/ Handle(m) \/ Commit(m)

MemberStep(m) == \/ Start(m)
                 \/ Assign(m)
                 \/ Revoke(m)
                 \/ Loop(m)
                 \/ Stop(m)
                 \/ Exit(m)

ConsumerNext == \/ Publish
                \/ \E m \in Members : MemberStep(m)
                \/ \E t \in undecided : Decide(t)

(* The goroutines run and their calls return.  Nothing forces the catalog  *)
(* to publish, a process to be started again or the group to assign.       *)
ConsumerFairness == \A m \in Members : WF_consumerVars(Loop(m))

(* The carts may hold anything the repository has left in them.            *)
GroupSpec == CartsTypeOK /\ ConsumerInit /\ [][ConsumerNext]_consumerVars

-----------------------------------------------------------------------------
(* Properties *)

(* Redelivery is harmless: the event ids of the committed transactions are *)
(* all different, and processed_events holds exactly them, so no failure   *)
(* between the record of an event and its marks can separate the two.      *)
EventsTakeEffectOnce ==
  /\ \A i, j \in DOMAIN effects :
       At(effects[i]).id = At(effects[j]).id => i = j
  /\ processed = {At(effects[i]).id : i \in DOMAIN effects}

(* Whatever the members, the broker and MongoDB do between the fetch of an *)
(* event and its commit, and however often it is delivered, its marks      *)
(* appear in all carts at once, once, and with the flag of the event.      *)
Once == INSTANCE AtomicEvents WITH
          marked <- processed, Events <- {e \in Messages : Relevant(e)}
RefinesAtomicEvents == Once!EventsSpec

(* What the group has committed was handed to Handle, or was passed over   *)
(* by a start without a committed offset: the loop itself skips nothing,   *)
(* also when a member commits for a partition it no longer has.            *)
CommittedWereDelivered ==
  committed # NoOffset =>
    \A o \in 0..committed - 1 : o \in handled \cup failed \cup jumped

(* An event overtaken by a later one of its product was, before that,      *)
(* refused by Handle or passed over at a start; crashes, rebalances and    *)
(* redelivery alone never reorder the marks of a product.  A step that     *)
(* applies an event adds to neither failed nor jumped, so that what is     *)
(* late was in one of them before.                                         *)
OnlySkippedEventsAreLate ==
  \A i, j \in DOMAIN effects :
    /\ i < j
    /\ effects[i] > effects[j]
    /\ At(effects[i]).product = At(effects[j]).product
    => effects[j] \in failed \cup jumped

(* No member gets stuck on a message: while it runs it reaches the end of  *)
(* the log, whatever Handle and CommitMessages return.                     *)
ReachesTheEnd ==
  \A m \in Members :
    <>[](\/ phase[m] \in {"down", "stopped"}
         \/ phase[m] = "fetch" /\ cursor[m] \in {NoOffset, Len(log)})

(* "The next FetchMessage returns this same message" (after an error).     *)
FailedIsFetchedAgain ==
  [][\A m \in Members :
       phase[m] = "fetch" /\ phase'[m] = "handle" /\ justFailed[m] # NoOffset
         => msg'[m] = justFailed[m]]_consumerVars

(* "We commit only after successful processing": of the messages since the *)
(* group started that no start passed over, every one below the committed  *)
(* offset was handled.                                                     *)
CommittedWereHandled ==
  committed # NoOffset =>
    \A o \in Offsets :
      born <= o /\ o < committed => o \in handled \cup jumped
=============================================================================
