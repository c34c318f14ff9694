------------------------- MODULE AppLifecycleProofs -------------------------
(***************************************************************************)
(* Theorems about AppLifecycle, for any number of calls and probes.        *)
(*                                                                         *)
(* Who may use the clients depends on how far main has come, so the        *)
(* inductive invariant LifeInv says for each part of its way what is open  *)
(* and who has stopped working.                                            *)
(***************************************************************************)
EXTENDS AppLifecycle, FiniteSetTheorems, TLAPS

Idle == /\ Working = {}
        /\ consumer # "handling"
        /\ checking = {}

(* Nobody works before Run. *)
IdleAtStart ==
  main \in Starting \cup {"run", "failed"} =>
    /\ up = {}
    /\ server = [s \in Servers |-> "new"]
    /\ consumer = "new"
    /\ Working = {}
    /\ checking = {}

(* After New, and until Shutdown disconnects, the clients are there. *)
Equipped == open = Clients /\ indexed

EquippedInBetween ==
  /\ main \in {"run", "notify", "select", "await_consumer", "stop_grpc",
               "drain", "stop_http", "await_http", "disconnect"} => Equipped
  /\ main = "killed" => Equipped \/ Idle

OpenedInOrder ==
  /\ main = "connect_mongo" => "redis" \in open
  /\ main \in {"ensure_indexes", "listen"} => open = Clients
  /\ main = "listen" => indexed

(* What Shutdown has waited for. *)
CallsOver ==
  main \in {"stop_http", "await_http", "disconnect", "close_redis", "exited"}
    => Working = {}

ConsumerOver ==
  main \in {"stop_grpc", "drain", "stop_http", "await_http", "disconnect",
            "close_redis", "exited"} => consumer = "returned" \/ timedOut

ProbesOver ==
  main \in {"disconnect", "close_redis", "exited"} => checking = {} \/ expired

(* Each error comes from a goroutine that has ended. *)
Count(state) == (IF server["grpc"] = state THEN 1 ELSE 0)
                  + (IF server["http"] = state THEN 1 ELSE 0)

ErrorsCounted == errCh <= Count("ended")

LifeInv == /\ LifecycleTypeOK
           /\ IdleAtStart
           /\ EquippedInBetween
           /\ OpenedInOrder
           /\ CallsOver
           /\ ConsumerOver
           /\ ProbesOver
           /\ ErrorsCounted

-----------------------------------------------------------------------------

LEMMA TwoServers == Cardinality(Servers) = 2
<1>1. IsFiniteSet({"grpc"}) /\ Cardinality({"grpc"}) = 1
  BY FS_Singleton
<1>2. Servers = {"grpc"} \cup {"http"} /\ "http" \notin {"grpc"}
  BY DEF Servers
<1> QED
  BY <1>1, <1>2, FS_AddElement

LEMMA InvHolds == ASSUME LifeInit PROVE LifeInv
<1> USE DEF LifeInit
<1>1. LifecycleTypeOK
  <2>1. main \in Starting /\ consumer \in ConsumerStates
    BY DEF Starting, ConsumerStates
  <2>2. /\ server \in [Servers -> ServerStates]
        /\ errCh \in 0..Cardinality(Servers)
    BY TwoServers DEF ServerStates
  <2>3. rpc \in [Calls -> {"new", "working", "ended"}]
    OBVIOUS
  <2>4. /\ up \in SUBSET Servers
        /\ checking \in SUBSET Probes
        /\ open \in SUBSET Clients
    OBVIOUS
  <2> QED
    BY <2>1, <2>2, <2>3, <2>4 DEF LifecycleTypeOK
<1>2. IdleAtStart
  BY DEF IdleAtStart, Working
<1>3. EquippedInBetween /\ OpenedInOrder
  BY DEF EquippedInBetween, OpenedInOrder
<1>4. CallsOver /\ ConsumerOver /\ ProbesOver
  BY DEF CallsOver, ConsumerOver, ProbesOver
<1>5. ErrorsCounted
  BY DEF ErrorsCounted, Count, Servers
<1> QED
  BY <1>1, <1>2, <1>3, <1>4, <1>5 DEF LifeInv

LEMMA InvStep == ASSUME LifeInv, [LifeNext]_lifeVars PROVE LifeInv'
<1> USE TwoServers DEF LifeInv, LifecycleTypeOK, IdleAtStart,
        EquippedInBetween, OpenedInOrder, CallsOver, ConsumerOver, ProbesOver, ErrorsCounted,
        Count, Equipped, Idle, Working, Servers, Clients, Starting,
        ShuttingDown, Ended, ServerStates, ConsumerStates,
        served, clients, contexts
<1>1. CASE PingRedis
  BY <1>1 DEF PingRedis
<1>2. CASE ConnectMongo
  <2>1. open' = Clients
    BY <1>2 DEF ConnectMongo
  <2> QED
    BY <1>2, <2>1 DEF ConnectMongo
<1>3. CASE EnsureIndexes
  BY <1>3 DEF EnsureIndexes
<1>4. CASE Listen
  BY <1>4 DEF Listen
<1>5. CASE NewFails
  BY <1>5 DEF NewFails
<1>6. CASE Run
  BY <1>6 DEF Run
<1>7. CASE NotifyContext
  BY <1>7 DEF NotifyContext
<1>8. CASE Killed
  BY <1>8 DEF Killed
<1>9. CASE SelectSignal
  BY <1>9 DEF SelectSignal, BeginShutdown
<1>10. CASE SelectError
  BY <1>10 DEF SelectError, BeginShutdown
<1>11. CASE ShutdownExpires
  BY <1>11 DEF ShutdownExpires
<1>12. CASE ConsumerDone
  BY <1>12 DEF ConsumerDone, Proceed
<1>13. CASE WaitTimesOut
  BY <1>13 DEF WaitTimesOut, Proceed
<1>14. CASE StopGrpc
  BY <1>14 DEF StopGrpc, Proceed
<1>15. CASE Drained
  BY <1>15 DEF Drained, Proceed
<1>16. CASE StopHttp
  BY <1>16 DEF StopHttp, Proceed
<1>17. CASE HttpStopped
  BY <1>17 DEF HttpStopped, HttpMayGo, Proceed
<1>18. CASE DisconnectMongo
  BY <1>18 DEF DisconnectMongo, Proceed
<1>19. CASE CloseRedis
  BY <1>19 DEF CloseRedis, Proceed
<1>20. ASSUME NEW s \in Servers, main \notin Ended, Serve(s)
      PROVE  LifeInv'
  BY <1>20 DEF Serve, Becomes
<1>21. ASSUME NEW s \in Servers, main \notin Ended, ServerFails(s)
      PROVE  LifeInv'
  BY <1>21 DEF ServerFails, Becomes
<1>22. ASSUME NEW s \in Servers, main \notin Ended, ServerReturns(s)
      PROVE  LifeInv'
  BY <1>22 DEF ServerReturns, Becomes
<1>23. ASSUME NEW s \in Servers, main \notin Ended, Report(s)
      PROVE  LifeInv'
  BY <1>23 DEF Report, Becomes, ErrCap
<1>24. ASSUME NEW c \in Calls, main \notin Ended, RpcBegins(c)
      PROVE  LifeInv'
  BY <1>24 DEF RpcBegins, Accepts
<1>25. ASSUME NEW c \in Calls, main \notin Ended, RpcEnds(c)
      PROVE  LifeInv'
  BY <1>25 DEF RpcEnds
<1>26. ASSUME NEW p \in Probes, main \notin Ended, ProbeBegins(p)
      PROVE  LifeInv'
  BY <1>26 DEF ProbeBegins, Accepts
<1>27. ASSUME NEW p \in Probes, main \notin Ended, ProbeEnds(p)
      PROVE  LifeInv'
  BY <1>27 DEF ProbeEnds
<1>28. CASE main \notin Ended /\ ConsumerLoops
  BY <1>28 DEF ConsumerLoops
<1>29. CASE main \notin Ended /\ ConsumerReturns
  BY <1>29 DEF ConsumerReturns
<1>30. CASE UNCHANGED lifeVars
  BY <1>30 DEF lifeVars
<1> QED
  BY <1>1, <1>2, <1>3, <1>4, <1>5, <1>6, <1>7, <1>8, <1>9, <1>10, <1>11,
     <1>12, <1>13, <1>14, <1>15, <1>16, <1>17, <1>18, <1>19, <1>20, <1>21,
     <1>22, <1>23, <1>24, <1>25, <1>26, <1>27, <1>28, <1>29, <1>30 DEF
     LifeNext, New, Shutdown, Others
-----------------------------------------------------------------------------

(* The state of the process keeps its type, from start-up to its end.      *)
THEOREM LifeInvariant == LifeSafetySpec => []LifeInv
BY InvHolds, InvStep, PTL DEF LifeSafetySpec

THEOREM LifeTypeCorrect == LifeSafetySpec => []LifecycleTypeOK
BY LifeInvariant, PTL DEF LifeInv

(* However many calls there are, none works without its clients and the    *)
(* unique index (New, GracefulStop before Disconnect).                     *)
THEOREM CallsKeepTheirClients == LifeSafetySpec => []CallsKeepClients
<1>1. LifeInv => CallsKeepClients
  BY DEF LifeInv, LifecycleTypeOK, IdleAtStart, EquippedInBetween, CallsOver,
         Equipped, Idle, CallsKeepClients, Starting, ShuttingDown, Ended
<1> QED
  BY <1>1, LifeInvariant, PTL

(* Handle loses a client only after the five seconds Shutdown waits.       *)
THEOREM HandleKeepsItsClients == LifeSafetySpec => []HandleKeepsClients
<1>1. LifeInv => HandleKeepsClients
  BY DEF LifeInv, LifecycleTypeOK, IdleAtStart, EquippedInBetween,
         ConsumerOver, Equipped, Idle, HandleKeepsClients, Starting,
         ShuttingDown, Ended
<1> QED
  BY <1>1, LifeInvariant, PTL

(* A readiness probe loses one only after the deadline of the shutdown.    *)
THEOREM ProbesKeepTheirClients == LifeSafetySpec => []ProbesKeepClients
<1>1. LifeInv => ProbesKeepClients
  BY DEF LifeInv, LifecycleTypeOK, IdleAtStart, EquippedInBetween, ProbesOver,
         Equipped, Idle, ProbesKeepClients, Starting, ShuttingDown, Ended
<1> QED
  BY <1>1, LifeInvariant, PTL

LEMMA ReportsCounted ==
  ASSUME server \in [Servers -> ServerStates]
  PROVE  Cardinality({s \in Servers : server[s] = "reports"})
           = Count("reports")
<1> DEFINE R == {s \in Servers : server[s] = "reports"}
<1>1. CASE server["grpc"] = "reports" /\ server["http"] = "reports"
  <2>1. R = Servers
    BY <1>1 DEF Servers
  <2> QED
    BY <1>1, <2>1, TwoServers DEF Count
<1>2. CASE server["grpc"] = "reports" /\ server["http"] # "reports"
  <2>1. R = {"grpc"}
    BY <1>2 DEF Servers
  <2> QED
    BY <1>2, <2>1, FS_Singleton DEF Count
<1>3. CASE server["grpc"] # "reports" /\ server["http"] = "reports"
  <2>1. R = {"http"}
    BY <1>3 DEF Servers
  <2> QED
    BY <1>3, <2>1, FS_Singleton DEF Count
<1>4. CASE server["grpc"] # "reports" /\ server["http"] # "reports"
  <2>1. R = {}
    BY <1>4 DEF Servers
  <2> QED
    BY <1>4, <2>1, FS_EmptySet DEF Count
<1> QED
  BY <1>1, <1>2, <1>3, <1>4

(* errCh has room for every error still to be sent: an error is buffered   *)
(* only for a goroutine that has ended, and there are two.                 *)
THEOREM AllReportsFit == LifeSafetySpec => []ReportsFit
<1>1. LifeInv => ReportsFit
  BY ReportsCounted DEF LifeInv, LifecycleTypeOK, ErrorsCounted, Count,
                        ReportsFit, ErrCap
<1> QED
  BY <1>1, LifeInvariant, PTL
=============================================================================
