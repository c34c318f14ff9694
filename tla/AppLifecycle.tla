---------------------------- MODULE AppLifecycle ----------------------------
(***************************************************************************)
(* internal/app, internal/app/grpcapp, internal/app/httpapp and            *)
(* cmd/cart/main.go: New opens the clients of Redis and MongoDB, creates   *)
(* the indexes and the listener; Run starts three goroutines; main waits   *)
(* for a signal or for the error of a server; Shutdown stops the consumer, *)
(* the two servers and the clients, in that order.                         *)
(*                                                                         *)
(* RPCs, readiness probes and the consumer's Handle use both clients.      *)
(* Whether an RPC, a probe or Handle ever returns is left open.            *)
(***************************************************************************)
EXTENDS Naturals, FiniteSets

CONSTANTS Calls,   \* RPCs
          Probes   \* GETs of /ready, one after the other on a connection

Servers == {"grpc", "http"}
Clients == {"mongo", "redis"}

VARIABLES main,      \* where the main goroutine stands
          server,    \* server[s]: the goroutine of server s
          consumer,  \* the goroutine of the consumer
          up,        \* servers that have taken connections
          errCh,     \* number of errors buffered in App.errCh
          rpc,       \* rpc[c]: the handler of call c
          checking,  \* probes whose readinessChecker.Check is running
          cancelled, \* the consumer's context is cancelled
          expired,   \* the deadline of shutdownCtx has passed
          open,      \* clients that are usable
          indexed,   \* EnsureIndexes has succeeded
          timedOut   \* history: Shutdown stopped waiting for the consumer

served   == <<up, rpc, checking>>
clients  == <<open, indexed>>
contexts == <<cancelled, expired, timedOut>>
lifeVars == <<main, server, consumer, errCh, served, contexts, clients>>

Starting     == {"ping_redis", "connect_mongo", "ensure_indexes", "listen"}
ShuttingDown == {"await_consumer", "stop_grpc", "drain", "stop_http",
                 "await_http", "disconnect", "close_redis"}
Ended        == {"exited", "failed", "killed"}

(* A goroutine that reports has an error to send to errCh. *)
ServerStates   == {"new", "starting", "serving", "stopped", "reports", "ended"}
ConsumerStates == {"new", "fetching", "handling", "returned"}

LifecycleTypeOK ==
  /\ main \in Starting \cup {"run", "notify", "select"} \cup ShuttingDown
              \cup Ended
  /\ server \in [Servers -> ServerStates]
  /\ consumer \in ConsumerStates
  /\ up \in SUBSET Servers
  /\ errCh \in 0..Cardinality(Servers)
  /\ rpc \in [Calls -> {"new", "working", "ended"}]
  /\ checking \in SUBSET Probes
  /\ cancelled \in BOOLEAN /\ expired \in BOOLEAN /\ timedOut \in BOOLEAN
  /\ open \in SUBSET Clients
  /\ indexed \in BOOLEAN

LifeInit ==
  /\ main = "ping_redis"
  /\ server = [s \in Servers |-> "new"]
  /\ consumer = "new"
  /\ up = {}
  /\ errCh = 0
  /\ rpc = [c \in Calls |-> "new"]
  /\ checking = {}
  /\ cancelled = FALSE
  /\ expired = FALSE
  /\ timedOut = FALSE
  /\ open = {}
  /\ indexed = FALSE

-----------------------------------------------------------------------------
(* New and Run *)

PingRedis ==
  /\ main = "ping_redis"
  /\ open' = open \cup {"redis"}
  /\ main' = "connect_mongo"
  /\ UNCHANGED <<server, consumer, errCh, served, contexts, indexed>>

ConnectMongo ==
  /\ main = "connect_mongo"
  /\ open' = open \cup {"mongo"}
  /\ main' = "ensure_indexes"
  /\ UNCHANGED <<server, consumer, errCh, served, contexts, indexed>>

EnsureIndexes ==
  /\ main = "ensure_indexes"
  /\ indexed' = TRUE
  /\ main' = "listen"
  /\ UNCHANGED <<server, consumer, errCh, served, contexts, open>>

(* TLS files, the gRPC listener and the servers' configuration. *)
Listen ==
  /\ main = "listen"
  /\ main' = "run"
  /\ UNCHANGED <<server, consumer, errCh, served, contexts, clients>>

(* New returns an error, having disconnected MongoDB but not Redis; main   *)
(* calls log.Fatalf.                                                       *)
NewFails ==
  /\ main \in Starting
  /\ main' = "failed"
  /\ open' = open \ {"mongo"}
  /\ UNCHANGED <<server, consumer, errCh, served, contexts, indexed>>

Run ==
  /\ main = "run"
  /\ server' = [s \in Servers |-> "starting"]
  /\ consumer' = "fetching"
  /\ main' = "notify"
  /\ UNCHANGED <<errCh, served, contexts, clients>>

NotifyContext ==
  /\ main = "notify"
  /\ main' = "select"
  /\ UNCHANGED <<server, consumer, errCh, served, contexts, clients>>

(* A signal before NotifyContext: its default action ends the process.     *)
Killed ==
  /\ main \in Starting \cup {"run", "notify"}
  /\ main' = "killed"
  /\ UNCHANGED <<server, consumer, errCh, served, contexts, clients>>

-----------------------------------------------------------------------------
(* The servers' goroutines *)

Becomes(s, state) == server' = [server EXCEPT ![s] = state]

Serve(s) ==
  /\ server[s] = "starting"
  /\ Becomes(s, "serving")
  /\ up' = up \cup {s}
  /\ UNCHANGED <<main, consumer, errCh, rpc, checking, contexts, clients>>

(* A listener breaks; or ListenAndServe cannot listen, whereas the gRPC    *)
(* listener was opened by New.                                             *)
ServerFails(s) ==
  /\ server[s] = "serving" \/ (s = "http" /\ server[s] = "starting")
  /\ Becomes(s, "reports")
  /\ UNCHANGED <<main, consumer, errCh, served, contexts, clients>>

(* Serve returns because its server was stopped: nil, or ErrServerClosed,  *)
(* which httpapp turns to nil.                                             *)
ServerReturns(s) ==
  /\ server[s] = "stopped"
  /\ Becomes(s, "ended")
  /\ UNCHANGED <<main, consumer, errCh, served, contexts, clients>>

(* A channel for the error of one server only. *)
RoomForOne == 1

ErrCap == 3

(* A send to a full channel blocks. *)
Report(s) ==
  /\ server[s] = "reports"
  /\ errCh < ErrCap
  /\ errCh' = errCh + 1
  /\ Becomes(s, "ended")
  /\ UNCHANGED <<main, consumer, served, contexts, clients>>

-----------------------------------------------------------------------------
(* RPCs, probes and the consumer *)

(* Open connections outlive a broken listener: requests may begin until the*)
(* server is stopped, and calls even while GracefulStop drains it, as long *)
(* as a connection has not had its final GOAWAY.                           *)
Accepts(s, stop) ==
  /\ s \in up
  /\ main \in {"notify", "select", "await_consumer"} \cup stop

RpcBegins(c) ==
  /\ Accepts("grpc", {"stop_grpc", "drain"})
  /\ rpc[c] = "new"
  /\ rpc' = [rpc EXCEPT ![c] = "working"]
  /\ UNCHANGED <<main, server, consumer, errCh, up, checking, contexts, clients>>

RpcEnds(c) ==
  /\ rpc[c] = "working"
  /\ rpc' = [rpc EXCEPT ![c] = "ended"]
  /\ UNCHANGED <<main, server, consumer, errCh, up, checking, contexts, clients>>

(* Ready calls Check, which pings MongoDB and then Redis. *)
ProbeBegins(p) ==
  /\ Accepts("http", {"stop_grpc", "drain", "stop_http"})
  /\ p \notin checking
  /\ checking' = checking \cup {p}
  /\ UNCHANGED <<main, server, consumer, errCh, up, rpc, contexts, clients>>

ProbeEnds(p) ==
  /\ p \in checking
  /\ checking' = checking \ {p}
  /\ UNCHANGED <<main, server, consumer, errCh, up, rpc, contexts, clients>>

(* The loop of Run: it may fetch a buffered message although its context is*)
(* cancelled, and it returns from FetchMessage only when it is.            *)
ConsumerLoops ==
  /\ \/ consumer = "fetching" /\ consumer' = "handling"
     \/ consumer = "handling" /\ consumer' = "fetching"
  /\ UNCHANGED <<main, server, errCh, served, contexts, clients>>

ConsumerReturns ==
  /\ consumer = "fetching"
  /\ cancelled
  /\ consumer' = "returned"
  /\ UNCHANGED <<main, server, errCh, served, contexts, clients>>

-----------------------------------------------------------------------------
(* main and Shutdown.  A signal during Shutdown has no effect: it goes to  *)
(* the channel of NotifyContext, which nobody reads any more.              *)

BeginShutdown ==
  /\ main = "select"
  /\ main' = "await_consumer"
  /\ cancelled' = TRUE
  /\ UNCHANGED <<server, consumer, served, expired, timedOut, clients>>

SelectSignal == BeginShutdown /\ UNCHANGED errCh

(* A main that reads the channel without waiting for an error. *)
SelectsAnyway == BeginShutdown /\ errCh' = errCh - 1

(* A main that waits for signals only. *)
SelectsSignalsOnly == FALSE

SelectError ==
  /\ BeginShutdown
  /\ errCh > 0
  /\ errCh' = errCh - 1

(* The deadline covers all of Shutdown, the steps that ignore it included. *)
ShutdownExpires ==
  /\ main \in ShuttingDown
  /\ ~expired
  /\ expired' = TRUE
  /\ UNCHANGED <<main, server, consumer, errCh, served, cancelled, timedOut,
                 clients>>

(* Shutdown goes on from one step to a later one. *)
Proceed(from, to) == main = from /\ main' = to

(* A Shutdown that does not wait for consumerDone. *)
NoWait ==
  /\ Proceed("await_consumer", "stop_grpc")
  /\ UNCHANGED <<server, consumer, errCh, served, contexts, clients>>

(* consumerDone is closed; then the reader is closed. *)
ConsumerDone ==
  /\ Proceed("await_consumer", "stop_grpc")
  /\ consumer = "returned"
  /\ UNCHANGED <<server, consumer, errCh, served, contexts, clients>>

(* A wait without the five seconds. *)
WaitsForEver == FALSE

(* Five seconds have passed; the reader is closed under the consumer. *)
WaitTimesOut ==
  /\ Proceed("await_consumer", "stop_grpc")
  /\ timedOut' = TRUE
  /\ UNCHANGED <<server, consumer, errCh, served, cancelled, expired, clients>>

(* GracefulStop closes the listener and tells the connections to go away...*)
(* A Serve that is called only now returns ErrServerStopped, an error for  *)
(* errCh.                                                                  *)
StopGrpc ==
  /\ Proceed("stop_grpc", "drain")
  /\ server' = [server EXCEPT !["grpc"] = CASE @ = "starting" -> "reports"
                                            [] @ = "serving"  -> "stopped"
                                            [] OTHER          -> @]
  /\ UNCHANGED <<consumer, errCh, served, contexts, clients>>

(* Stop in place of GracefulStop, which leaves handlers behind. *)
StopAtOnce ==
  /\ Proceed("drain", "stop_http")
  /\ UNCHANGED <<server, consumer, errCh, served, contexts, clients>>

(* ... and it returns when the connections are gone, so when every call has*)
(* ended, those that began meanwhile included, however long they take.     *)
Drained ==
  /\ Proceed("drain", "stop_http")
  /\ \A c \in Calls : rpc[c] # "working"
  /\ UNCHANGED <<server, consumer, errCh, served, contexts, clients>>

StopHttp ==
  /\ Proceed("stop_http", "await_http")
  /\ server' = [server EXCEPT !["http"] =
                   IF @ \in {"starting", "serving"} THEN "stopped" ELSE @]
  /\ UNCHANGED <<consumer, errCh, served, contexts, clients>>

(* A Close in place of http.Server.Shutdown. *)
ClosesAtOnce == TRUE

(* http.Server.Shutdown waits for requests until its context expires.      *)
HttpMayGo == checking = {} \/ expired

HttpStopped ==
  /\ Proceed("await_http", "disconnect")
  /\ HttpMayGo
  /\ UNCHANGED <<server, consumer, errCh, served, contexts, clients>>

DisconnectMongo ==
  /\ Proceed("disconnect", "close_redis")
  /\ open' = open \ {"mongo"}
  /\ UNCHANGED <<server, consumer, errCh, served, contexts, indexed>>

CloseRedis ==
  /\ Proceed("close_redis", "exited")
  /\ open' = open \ {"redis"}
  /\ UNCHANGED <<server, consumer, errCh, served, contexts, indexed>>

-----------------------------------------------------------------------------

New == PingRedis \/ ConnectMongo \/ EnsureIndexes \/ Listen \/ NewFails

Shutdown == \/ ConsumerDone
            \/ WaitTimesOut
            \/ StopGrpc
            \/ Drained
            \/ StopHttp
            \/ HttpStopped
            \/ DisconnectMongo
            \/ CloseRedis

(* The other goroutines live as long as the process. *)
Others ==
  /\ main \notin Ended
  /\ \/ \E s \in Servers : \/ Serve(s)
                            \/ ServerFails(s)
                            \/ ServerReturns(s)
                            \/ Report(s)
     \/ \E c \in Calls : RpcBegins(c) \/ RpcEnds(c)
     \/ \E p \in Probes : ProbeBegins(p) \/ ProbeEnds(p)
     \/ ConsumerLoops
     \/ ConsumerReturns

LifeNext == \/ New
            \/ Run
            \/ NotifyContext
            \/ Killed
            \/ SelectSignal
            \/ SelectError
            \/ ShutdownExpires
            \/ Shutdown
            \/ Others

(* main runs, goroutines send their errors and time passes.  RPCs, probes  *)
(* and Handle may never return.                                            *)
LifeFairness ==
  /\ WF_lifeVars(NotifyContext)
  /\ WF_lifeVars(SelectError)
  /\ WF_lifeVars(Shutdown)
  /\ WF_lifeVars(ShutdownExpires)
  /\ \A s \in Servers : WF_lifeVars(main \notin Ended /\ Report(s))

LifeSafetySpec == LifeInit /\ [][LifeNext]_lifeVars

LifeSpec == LifeSafetySpec /\ LifeFairness

-----------------------------------------------------------------------------
(* Properties *)

Working == {c \in Calls : rpc[c] = "working"}

(* A call finds both clients open and the unique index of the carts in     *)
(* place as long as it works: New is over before the servers start, and    *)
(* Shutdown closes the clients after the gRPC server has drained, whatever *)
(* failed, timed out or was slow before.                                   *)
CallsKeepClients == Working # {} => open = Clients /\ indexed

(* The consumer's Handle loses its client only after Shutdown has given up *)
(* the wait for it.                                                        *)
HandleKeepsClients == consumer = "handling" => open = Clients \/ timedOut

(* A readiness probe that began in time loses a client, and so reports the *)
(* service as not ready on its own account, only when the deadline of the  *)
(* shutdown passed: by then the consumer, which has five seconds of it, and*)
(* the calls, which have no limit, may have used it up.                    *)
ProbesKeepClients == checking # {} => open = Clients \/ expired

(* No goroutine is stuck on errCh: there is room for the error of every    *)
(* server, those that fail during Shutdown included, when nobody receives. *)
ReportsFit ==
  errCh + Cardinality({s \in Servers : server[s] = "reports"}) <= ErrCap

(* GracefulStop has no deadline: a call that never returns holds up the    *)
(* shutdown for ever.  Nothing else does, neither a Handle nor a probe that*)
(* never returns.                                                          *)
HeldUpByACall == \E c \in Calls : [](rpc[c] = "working")

ShutdownEndsUnlessHeldUp ==
  main \in ShuttingDown ~> main = "exited" \/ HeldUpByACall

(* The failure of a server ends the process, unless a call holds it up.    *)
FailureEndsProcess ==
  \A s \in Servers :
    server[s] = "reports" ~> main \in Ended \/ HeldUpByACall
=============================================================================
