------------------------------ MODULE Process -------------------------------
(***************************************************************************)
(* One process of nous: run of cmd/nous/main.go from opening the store to  *)
(* its last deferred call, with the requests its gRPC and HTTP servers     *)
(* handle and the background worker of module Worker.  The goroutine of    *)
(* main is one of the worker's callers: it calls Start once, and Stop as   *)
(* the first of its deferred calls, so before the store is closed.         *)
(***************************************************************************)
EXTENDS Worker

CONSTANTS
  Main,     \* the goroutine of main
  MaxReqs   \* bound: requests in flight on each server

ASSUME ProcessConfig == Main \in Callers /\ MaxReqs \in Nat \ {0}

VARIABLES
  main,     \* where run is
  store,    \* the connection to the database
  grpc,     \* the gRPC server: off, serving or stopping
  http,     \* the HTTP server: off, serving or stopping
  rpcs,     \* gRPC handlers at work
  hits,     \* HTTP handlers at work
  signal,   \* SIGINT or SIGTERM came: the context of run is done
  abrupt    \* history: run left a server unstopped or with handlers at work

procVars == <<main, store, grpc, http, rpcs, hits, signal, abrupt>>
allVars == <<vars, procVars>>

ProcessInit ==
  /\ Init
  /\ main = "open"
  /\ store = "none"
  /\ grpc = "off" /\ http = "off"
  /\ rpcs = 0 /\ hits = 0
  /\ signal = FALSE /\ abrupt = FALSE

Servers == <<grpc, http, rpcs, hits>>
-----------------------------------------------------------------------------
(* Starting up.  A step that fails makes run return: whatever was deferred *)
(* until then runs.                                                        *)
OpenStore ==
  /\ main = "open"
  /\ \/ main' = "listen_grpc" /\ store' = "open"
     \/ main' = "exited" /\ UNCHANGED store
  /\ UNCHANGED <<Servers, signal, abrupt>> /\ UNCHANGED vars

ListenGRPC ==
  /\ main = "listen_grpc"
  /\ \/ main' = "listen_http" /\ grpc' = "serving"
     \/ main' = "close" /\ UNCHANGED grpc
  /\ UNCHANGED <<store, http, rpcs, hits, signal, abrupt>> /\ UNCHANGED vars

(* The HTTP server is optional.  When it cannot be set up, run returns     *)
(* with the gRPC server already serving.                                   *)
ListenHTTP ==
  /\ main = "listen_http"
  /\ \/ main' = "start" /\ http' \in {"off", "serving"} /\ UNCHANGED abrupt
     \/ main' = "close" /\ abrupt' = TRUE /\ UNCHANGED http
  /\ UNCHANGED <<store, grpc, rpcs, hits, signal>> /\ UNCHANGED vars

StartWorker ==
  /\ main = "start"
  /\ Start(Main)
  /\ main' = "select"
  /\ UNCHANGED <<store, Servers, signal, abrupt>>
-----------------------------------------------------------------------------
(* The servers' handlers, for as long as the process lives.  A server that *)
(* was not told to stop takes requests on the connections it has.          *)
RpcBegins ==
  /\ grpc = "serving" /\ main # "exited" /\ rpcs < MaxReqs
  /\ rpcs' = rpcs + 1
  /\ UNCHANGED <<main, store, grpc, http, hits, signal, abrupt>> /\ UNCHANGED vars

RpcEnds ==
  /\ rpcs > 0 /\ main # "exited"
  /\ rpcs' = rpcs - 1
  /\ UNCHANGED <<main, store, grpc, http, hits, signal, abrupt>> /\ UNCHANGED vars

HitBegins ==
  /\ http = "serving" /\ main # "exited" /\ hits < MaxReqs
  /\ hits' = hits + 1
  /\ UNCHANGED <<main, store, grpc, http, rpcs, signal, abrupt>> /\ UNCHANGED vars

HitEnds ==
  /\ hits > 0 /\ main # "exited"
  /\ hits' = hits - 1
  /\ UNCHANGED <<main, store, grpc, http, rpcs, signal, abrupt>> /\ UNCHANGED vars

Signal ==
  /\ main # "exited"
  /\ signal' = TRUE
  /\ ParentCancel
  /\ UNCHANGED <<main, store, Servers, abrupt>>
-----------------------------------------------------------------------------
(* select: a signal starts the graceful shutdown; the error of a server    *)
(* that stopped serving makes run return, the other server left alone.     *)
SelectSignal ==
  /\ main = "select" /\ signal
  /\ main' = "stop_grpc"
  /\ UNCHANGED <<store, Servers, signal, abrupt>> /\ UNCHANGED vars

SelectError ==
  /\ main = "select"
  /\ main' = "stop_worker"
  /\ abrupt' = TRUE
  /\ UNCHANGED <<store, Servers, signal>> /\ UNCHANGED vars

(* A plausible bug, for the mutation runs: the calls at work are not       *)
(* waited for.                                                             *)
GracefulStop_unwaited ==
  /\ main = "stop_grpc"
  /\ grpc' = "stopping"
  /\ main' = IF http = "off" THEN "stop_worker" ELSE "stop_http"
  /\ UNCHANGED <<store, http, rpcs, hits, signal, abrupt>> /\ UNCHANGED vars

(* GracefulStop takes no new call and waits, without a bound, for those at *)
(* work; the HTTP server serves on meanwhile.                              *)
GracefulStop ==
  /\ main = "stop_grpc"
  /\ \/ grpc = "serving" /\ grpc' = "stopping" /\ UNCHANGED main
     \/ /\ grpc = "stopping" /\ rpcs = 0
        /\ main' = IF http = "off" THEN "stop_worker" ELSE "stop_http"
        /\ UNCHANGED grpc
  /\ UNCHANGED <<store, http, rpcs, hits, signal, abrupt>> /\ UNCHANGED vars

(* A plausible bug, for the mutation runs: Shutdown without a deadline.    *)
Shutdown_unbounded ==
  /\ main = "stop_http"
  /\ \/ http = "serving" /\ http' = "stopping" /\ UNCHANGED main
     \/ http = "stopping" /\ hits = 0 /\ main' = "stop_worker" /\ UNCHANGED http
  /\ UNCHANGED <<store, grpc, rpcs, hits, signal, abrupt>> /\ UNCHANGED vars

(* Shutdown waits for the handlers at work, ten seconds at most.           *)
Shutdown ==
  /\ main = "stop_http"
  /\ \/ http = "serving" /\ http' = "stopping" /\ UNCHANGED <<main, abrupt>>
     \/ /\ http = "stopping"
        /\ main' = "stop_worker"
        /\ abrupt' = (abrupt \/ hits > 0)
        /\ UNCHANGED http
  /\ UNCHANGED <<store, grpc, rpcs, hits, signal>> /\ UNCHANGED vars

(* A plausible bug, for the mutation runs: Stop is not waited for.         *)
StopWorker_unwaited ==
  /\ main = "stop_worker"
  /\ Stop(Main)
  /\ main' = "close"
  /\ UNCHANGED <<store, Servers, signal, abrupt>>

(* The deferred calls, last first: Stop of the worker,                     *)
StopWorker ==
  /\ \/ main = "stop_worker" /\ Stop(Main) /\ main' = "stopping_worker"
     \/ main = "stopping_worker" /\ StopCancel(Main) /\ UNCHANGED main
     \/ main = "stopping_worker" /\ StopWait(Main) /\ main' = "close"
  /\ UNCHANGED <<store, Servers, signal, abrupt>>

(* Close of the listeners, the rotator and the adapters, which nobody      *)
(* waits for, then of the store,                                           *)
CloseStore ==
  /\ main = "close"
  /\ store' = "closed"
  /\ main' = "flush"
  /\ UNCHANGED <<Servers, signal, abrupt>> /\ UNCHANGED vars

(* and of the tracer; then the process ends and its handlers with it.      *)
Exit ==
  /\ main = "flush"
  /\ main' = "exited"
  /\ UNCHANGED <<store, Servers, signal, abrupt>> /\ UNCHANGED vars

(* Other goroutines may call the worker once it exists.                    *)
Others == Callers \ {Main}
WorkerExists ==
  \/ main \in {"start", "select", "stop_grpc", "stop_http", "stop_worker", "stopping_worker"}
  \/ main \in {"close", "flush"} /\ stopped

WorkerSteps ==
  /\ \/ WorkerExists /\ \E c \in Others : Start(c) \/ Stop(c)
     \/ \E c \in Others : StopCancel(c) \/ StopWait(c)
     \/ TickerFires \/ FindActive \/ CheckContext \/ Write \/ LoopDone \/ LoopTick
  /\ UNCHANGED procVars

ProcessNext ==
  \/ OpenStore \/ ListenGRPC \/ ListenHTTP \/ StartWorker
  \/ RpcBegins \/ RpcEnds \/ HitBegins \/ HitEnds \/ Signal
  \/ SelectSignal \/ SelectError \/ GracefulStop \/ Shutdown
  \/ StopWorker \/ CloseStore \/ Exit
  \/ WorkerSteps

(* run goes on when it can.  Nothing is assumed of the handlers: they call *)
(* Mnemos and Chronos without a deadline, and none of them need return.    *)
ProcessSpec ==
  /\ ProcessInit /\ [][ProcessNext]_allVars
  /\ WF_allVars(OpenStore) /\ WF_allVars(ListenGRPC) /\ WF_allVars(ListenHTTP)
  /\ WF_allVars(StartWorker) /\ WF_allVars(SelectSignal) /\ WF_allVars(GracefulStop)
  /\ WF_allVars(Shutdown) /\ WF_allVars(StopWorker) /\ WF_allVars(CloseStore)
  /\ WF_allVars(Exit)
  /\ Fairness
-----------------------------------------------------------------------------
(* conn.Close is deferred first and so runs last: on every path out of run,*)
(* a failed start and a server error among them, the worker's goroutine is *)
(* gone before the store is.                                               *)
StoreOutlivesWorker == store = "closed" => loop \in {"none", "done"}

(* After a graceful shutdown no handler of either server is left when the  *)
(* store is closed.  The paths that do not promise it are an HTTP server   *)
(* that cannot be set up, a server error and an HTTP handler that outlasts *)
(* the ten seconds.                                                        *)
Drained ==
  store = "closed" /\ ~abrupt => rpcs = 0 /\ hits = 0 /\ grpc # "serving" /\ http # "serving"

(* A signal ends the process, whatever run is doing when it comes and      *)
(* although handlers may never return, unless GracefulStop waits for ever  *)
(* for an RPC: no other wait of the shutdown is without a bound.           *)
ShutdownEnds == signal ~> (main = "exited" \/ [](main = "stop_grpc" /\ rpcs > 0))

(* "process honours SIGTERM and drains in-flight gRPC/HTTP requests for up *)
(* to 10 s": a signal ends the process, whatever its handlers do.          *)
DrainIsBounded == signal ~> main = "exited"
=============================================================================
