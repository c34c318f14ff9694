---------------------------- MODULE MCCartSystem ----------------------------
(* TLC instances of CartSystem.                                            *)
EXTENDS CartSystem, TLC

(* Calls and members may be exchanged independently of each other.         *)
Symmetry ==
  {[x \in Calls \cup Members |-> IF x \in Calls THEN f[x] ELSE g[x]] :
     f \in Permutations(Calls), g \in Permutations(Members)}

Stock(id, p, inStock) ==
  [type |-> "stock.changed", id |-> id, product |-> p, inStock |-> inStock]

AllIds == {"e1", "e2"}

AProduct == CHOOSE p \in Products : TRUE

(* Calls that make an item appear, grow and disappear. *)
SomeRequests ==
  {[op |-> op, user |-> u, product |-> AProduct, quantity |-> 1] :
     op \in {"AddItem", "RemoveItem"}, u \in Users}

(* A product goes out of stock and comes back. *)
OutAndBack == {Stock("e1", AProduct, FALSE), Stock("e2", AProduct, TRUE)}

(* Every member has been assigned the empty partition. *)
AtTheStart ==
  /\ LockInit
  /\ req \in [Calls -> Requests]
  /\ key = [c \in Calls |-> req[c].user]
  /\ step = [c \in Calls |-> "inc"]
  /\ reply = [c \in Calls |-> "none"]
  /\ inFlight = {}
  /\ applied = {}
  /\ stray = {}
  /\ fresh = {}
  /\ committed = NoOffset
  /\ cursor = [m \in Members |-> 0]
  /\ msg = [m \in Members |-> 0]
  /\ phase = [m \in Members |-> "fetch"]
  /\ snapshot = [m \in Members |-> [u \in Users |-> NoCart]]
  /\ undecided = {}
  /\ processed = {}
  /\ stopping = {}
  /\ assigns = MaxAssigns
  /\ born = 0
  /\ handled = {}
  /\ failed = {}
  /\ justFailed = [m \in Members |-> NoOffset]
  /\ jumped = {}
  /\ effects = <<>>

(* The calls of the past left no cart or one with an available item, and   *)
(* MaxLog messages were published since.                                   *)
MCInit ==
  /\ AtTheStart
  /\ carts \in [Users -> {NoCart, Pushed(NoCart, AProduct, 1)}]
  /\ log \in [1..MaxLog -> Messages]
  /\ owed = {eu \in Published \X Users : Holds(eu[2], eu[1])}

(* Bound: no member loses the partition, stops or crashes, at most one     *)
(* message fails, no call is cancelled, crashes or loses a reply of Redis. *)
AllAtWork ==
  /\ \A m \in Members : /\ cursor[m] # NoOffset
                         /\ phase[m] # "down"
                         /\ m \notin stopping
  /\ \A c \in Calls : ~Unlucky(c)
  /\ Cardinality(failed) <= 1

(* Bound: no commit of an offset is lost.  With the partition in place      *)
(* nobody reads the committed offset.                                      *)
CommitsArrive ==
  \A m \in Members :
    phase[m] = "commit" /\ phase'[m] = "fetch" => committed' = NextOffset(m)

MCSystemSpec ==
  MCInit /\ [][SystemNext /\ AllAtWork' /\ CommitsArrive]_systemVars

(* No carts and no messages at first. *)
EmptyInit ==
  /\ AtTheStart
  /\ CartsInit
  /\ log = <<>>
  /\ owed = {}

(* Bound: each message is published once. *)
PublishedOnce == \A o, q \in Logged : At(o) = At(q) => o = q

MCTimelySpec ==
  /\ EmptyInit
  /\ [][/\ TimelyStep
        /\ AllAtWork'
        /\ CommitsArrive
        /\ PublishedOnce']_systemVars
=============================================================================
