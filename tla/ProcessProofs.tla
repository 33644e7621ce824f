--------------------------- MODULE ProcessProofs ----------------------------
(***************************************************************************)
(* The background worker and the process around it: its worker is the      *)
(* worker of module Worker, the store outlives it, and a graceful shutdown *)
(* drains both servers.  For any number of goroutines calling Start and    *)
(* Stop, of commitments and of requests in flight.                         *)
(***************************************************************************)
EXTENDS Process, TLAPS

(* The WaitGroup counts exactly the live loop, and a loop lives from the   *)
(* one Start that set w.cancel.                                            *)
Counted ==
  /\ wg = IF loop \in {"none", "done"} THEN 0 ELSE 1
  /\ started <=> loop # "none"
  /\ \A c \in Callers : cancel[c] => started
  /\ stopped => loop = "done"

(* A late write ends the visit it belongs to, and no other visit begins.   *)
Late ==
  /\ late <= 1
  /\ late = 1 => cancelled /\ loop # "write"

(* What the loop has still to visit while it is inside a visit.            *)
Visiting == loop = "write" => left > 0

IInv == TypeOK /\ Counted /\ Visiting /\ Late

(* Every reachable state is of the right type, the WaitGroup counts the    *)
(* live loop, and at most one visit is written late.                       *)
LEMMA Inductive == Spec => []IInv
<1>1. Init => IInv
  <2> SUFFICES ASSUME Init PROVE IInv
    OBVIOUS
  <2>1. cancel \in [Callers -> BOOLEAN] /\ \A c \in Callers : ~cancel[c]
    BY Zenon DEF Init
  <2>2. TypeOK
    <3>1. started \in BOOLEAN /\ cancelled \in BOOLEAN /\ ticked \in BOOLEAN
            /\ stopped \in BOOLEAN
      BY Zenon DEF Init
    <3>2. QED
      BY <2>1, <3>1, WorkerConfig DEF WorkerConfig, Init, TypeOK
  <2>3. Counted
    BY <2>1 DEF Init, Counted
  <2>4. QED
    BY <2>2, <2>3 DEF Init, IInv, Visiting, Late
<1>2. IInv /\ [Next]_vars => IInv'
  <2> SUFFICES ASSUME IInv, [Next]_vars PROVE IInv'
    OBVIOUS
  <2> USE WorkerConfig DEF WorkerConfig, IInv, TypeOK, Counted, Visiting, Late, theLoop, Goto
  <2>1. ASSUME NEW c \in Callers, Start(c) PROVE IInv'
    <3>1. CASE started
      BY <2>1, <3>1 DEF Start
    <3>2. CASE ~started
      <4>1. started' \in BOOLEAN /\ started'
        BY <2>1, <3>2, Zenon DEF Start
      <4>2. wg' = 1 /\ loop' = "find" /\ ~stopped
        BY <2>1, <3>2 DEF Start
      <4>3. \A c2 \in Callers : ~cancel[c2]
        BY <3>2
      <4>4. TypeOK'
        BY <2>1, <4>1, <4>2 DEF Start
      <4>5. Counted'
        BY <2>1, <4>1, <4>2, <4>3 DEF Start
      <4>6. QED
        BY <2>1, <4>2, <4>4, <4>5 DEF Start
    <3>3. QED
      BY <3>1, <3>2
  <2>2. ASSUME NEW c \in Callers, Stop(c) PROVE IInv'
    BY <2>2 DEF Stop
  <2>3. ASSUME NEW c \in Callers, StopCancel(c) PROVE IInv'
    BY <2>3 DEF StopCancel
  <2>4. ASSUME NEW c \in Callers, StopWait(c) PROVE IInv'
    BY <2>4 DEF StopWait
  <2>5. CASE ParentCancel
    BY <2>5 DEF ParentCancel
  <2>6. CASE TickerFires
    BY <2>6 DEF TickerFires
  <2>7. CASE FindActive
    BY <2>7 DEF FindActive
  <2>8. CASE CheckContext
    BY <2>8 DEF CheckContext
  <2>9. CASE Write
    BY <2>9 DEF Write
  <2>10. CASE LoopDone
    <3>1. ticked' \in BOOLEAN
      BY <2>10, Zenon DEF LoopDone
    <3>2. QED
      BY <2>10, <3>1 DEF LoopDone
  <2>11. CASE LoopTick
    BY <2>11 DEF LoopTick
  <2>12. CASE UNCHANGED vars
    BY <2>12 DEF vars
  <2>13. QED
    BY <2>1, <2>2, <2>3, <2>4, <2>5, <2>6, <2>7, <2>8, <2>9, <2>10, <2>11, <2>12
       DEF Next
<1>3. QED
  BY <1>1, <1>2, PTL DEF Spec

(* Every reachable state of the worker is of the right type; the           *)
(* WaitGroup's counter never passes one and never goes negative.           *)
THEOREM TypeCorrect == Spec => []TypeOK
<1>1. IInv => TypeOK
  BY DEF IInv
<1>2. QED
  BY <1>1, Inductive, PTL

(* When a Stop that found the worker started has returned, the loop is     *)
(* gone and never comes back, whoever else calls Start or Stop.            *)
THEOREM StopIsFinal == Spec => []StoppedIsQuiet
<1>1. IInv => StoppedIsQuiet
  BY DEF IInv, Counted, StoppedIsQuiet
<1>2. QED
  BY <1>1, Inductive, PTL

(* After the context is done at most one more commitment is written.       *)
THEOREM AtMostOneLateWrite == Spec => []OneLateWrite
<1>1. IInv => OneLateWrite
  BY DEF IInv, Late, OneLateWrite
<1>2. QED
  BY <1>1, Inductive, PTL
-----------------------------------------------------------------------------
(* What happens in the process is, for the worker, a step of its own or    *)
(* none.                                                                   *)
LEMMA WorkerStep == ProcessNext => [Next]_vars
<1> SUFFICES ASSUME ProcessNext PROVE [Next]_vars
  OBVIOUS
<1>1. CASE OpenStore \/ ListenGRPC \/ ListenHTTP
  BY <1>1 DEF OpenStore, ListenGRPC, ListenHTTP
<1>2. CASE StartWorker
  BY <1>2, ProcessConfig DEF StartWorker, Next, ProcessConfig
<1>3. CASE RpcBegins \/ RpcEnds \/ HitBegins \/ HitEnds
  BY <1>3 DEF RpcBegins, RpcEnds, HitBegins, HitEnds
<1>4. CASE Signal
  BY <1>4 DEF Signal, Next
<1>5. CASE SelectSignal \/ SelectError \/ GracefulStop \/ Shutdown
  BY <1>5 DEF SelectSignal, SelectError, GracefulStop, Shutdown
<1>6. CASE StopWorker
  BY <1>6, ProcessConfig DEF StopWorker, Next, ProcessConfig
<1>7. CASE CloseStore \/ Exit
  BY <1>7 DEF CloseStore, Exit
<1>8. CASE WorkerSteps
  BY <1>8 DEF WorkerSteps, Others, Next
<1>9. QED
  BY <1>1, <1>2, <1>3, <1>4, <1>5, <1>6, <1>7, <1>8 DEF ProcessNext

(* The process, from its first step to its last, drives the worker only    *)
(* through what Worker specifies: main's Start and Stop, and its signal,   *)
(* are steps of the worker's callers and its parent context.               *)
THEOREM ProcessImplementsWorker == ProcessSpec => Spec
<1>1. ProcessInit => Init
  BY DEF ProcessInit
<1>2. [ProcessNext]_allVars => [Next]_vars
  BY WorkerStep DEF allVars
<1>3. QED
  BY <1>1, <1>2, PTL DEF ProcessSpec, Spec
-----------------------------------------------------------------------------
(* Where run is, and what that says of the worker.                         *)
Early == {"open", "listen_grpc", "listen_http"}
Serving == {"select", "stop_grpc", "stop_http", "stop_worker", "stopping_worker"}
Leaving == {"close", "flush", "exited"}

(* Before Start there is no loop; from Start on main finds the worker      *)
(* started, so that its Stop cancels and waits; whichever way run came to  *)
(* its last deferred calls, a Stop has returned or there never was a loop. *)
Deferred ==
  /\ main \in Early => loop = "none"
  /\ main \in Serving => started
  /\ main = "stopping_worker" => cancel[Main]
  /\ main \in Leaving => stopped \/ loop = "none"
  /\ store = "closed" => main \in {"flush", "exited"}

(* Whoever calls Start finds the worker started when it returns.           *)
LEMMA StartStarts == ASSUME NEW c, Start(c) PROVE started'
<1>1. CASE started
  <2>1. started' = started
    BY <1>1 DEF Start
  <2>2. QED
    BY <1>1, <2>1, Zenon
<1>2. CASE ~started
  BY <1>2, Zenon DEF Start
<1>3. QED
  BY <1>1, <1>2

LEMMA DeferredStep == IInv /\ Deferred /\ [ProcessNext]_allVars => Deferred'
<1> SUFFICES ASSUME IInv, Deferred, [ProcessNext]_allVars PROVE Deferred'
  OBVIOUS
<1> USE DEF Deferred, Early, Serving, Leaving
<1>1. /\ started <=> loop # "none"
      /\ stopped => loop = "done"
      /\ cancel \in [Callers -> BOOLEAN]
  BY DEF IInv, TypeOK, Counted
<1>2. Main \in Callers
  BY ProcessConfig DEF ProcessConfig
<1>3. CASE OpenStore
  BY <1>3 DEF OpenStore, vars
<1>4. CASE ListenGRPC
  BY <1>4 DEF ListenGRPC, vars
<1>5. CASE ListenHTTP
  BY <1>5 DEF ListenHTTP, vars
<1>6. CASE StartWorker
  <2>1. started'
    BY <1>6, StartStarts, Zenon DEF StartWorker
  <2>2. main = "start" /\ main' = "select" /\ store' = store
    BY <1>6 DEF StartWorker
  <2>3. QED
    BY <2>1, <2>2
<1>7. CASE RpcBegins \/ RpcEnds \/ HitBegins \/ HitEnds
  BY <1>7 DEF RpcBegins, RpcEnds, HitBegins, HitEnds, vars
<1>8. CASE Signal
  BY <1>8 DEF Signal, ParentCancel, theLoop
<1>9. CASE SelectSignal \/ SelectError
  BY <1>9 DEF SelectSignal, SelectError, vars
<1>10. CASE GracefulStop
  BY <1>10 DEF GracefulStop, vars
<1>11. CASE Shutdown
  BY <1>11 DEF Shutdown, vars
<1>12. CASE StopWorker
  <2>1. store' = store
    BY <1>12 DEF StopWorker
  <2>2. CASE main = "stop_worker" /\ Stop(Main) /\ main' = "stopping_worker"
    <3>1. started /\ started' = started /\ cancel' = [cancel EXCEPT ![Main] = started]
      BY <2>2 DEF Stop
    <3>2. cancel'[Main]
      BY <3>1, <1>1, <1>2, Zenon
    <3>3. QED
      BY <2>1, <2>2, <3>1, <3>2
  <2>3. CASE main = "stopping_worker" /\ StopCancel(Main) /\ UNCHANGED main
    BY <2>1, <2>3 DEF StopCancel, theLoop
  <2>4. CASE main = "stopping_worker" /\ StopWait(Main) /\ main' = "close"
    <3>1. stopped'
      BY <2>4, Zenon DEF StopWait
    <3>2. QED
      BY <2>1, <2>4, <3>1
  <2>5. QED
    BY <1>12, <2>2, <2>3, <2>4 DEF StopWorker
<1>13. CASE CloseStore
  BY <1>13 DEF CloseStore, vars
<1>14. CASE Exit
  BY <1>14 DEF Exit, vars
<1>15. CASE WorkerSteps
  <2>1. main' = main /\ store' = store
    BY <1>15 DEF WorkerSteps, procVars
  <2>2. ASSUME NEW c \in Others, WorkerExists, Start(c) PROVE Deferred'
    <3>1. main \notin Early /\ (main \in Leaving => stopped)
      BY <2>2 DEF WorkerExists
    <3>2. started'
      BY <2>2, StartStarts
    <3>3. cancel' = cancel /\ stopped' = stopped
      BY <2>2 DEF Start
    <3>4. QED
      BY <2>1, <3>1, <3>2, <3>3
  <2>3. ASSUME NEW c \in Others, Stop(c) PROVE Deferred'
    BY <1>1, <1>2, <2>1, <2>3 DEF Stop, theLoop, Others
  <2>4. ASSUME NEW c \in Others, StopCancel(c) PROVE Deferred'
    BY <2>1, <2>4 DEF StopCancel, theLoop
  <2>5. ASSUME NEW c \in Others, StopWait(c) PROVE Deferred'
    <3>1. c # Main /\ cancel'[Main] = cancel[Main]
      BY <1>1, <1>2, <2>5 DEF StopWait, Others
    <3>2. stopped => stopped'
      BY <2>5, Zenon DEF StopWait
    <3>3. started' = started /\ loop' = loop
      BY <2>5 DEF StopWait, theLoop
    <3>4. QED
      BY <2>1, <3>1, <3>2, <3>3
  <2>6. CASE TickerFires
    BY <2>1, <2>6 DEF TickerFires, theLoop
  <2>7. CASE FindActive \/ CheckContext \/ Write
    BY <1>1, <2>1, <2>7 DEF FindActive, CheckContext, Write
  <2>8. CASE LoopDone \/ LoopTick
    BY <1>1, <2>1, <2>8 DEF LoopDone, LoopTick
  <2>9. QED
    BY <1>15, <2>2, <2>3, <2>4, <2>5, <2>6, <2>7, <2>8 DEF WorkerSteps
<1>16. CASE UNCHANGED allVars
  BY <1>16 DEF allVars, vars, procVars
<1>17. QED
  BY <1>3, <1>4, <1>5, <1>6, <1>7, <1>8, <1>9, <1>10, <1>11, <1>12, <1>13, <1>14,
     <1>15, <1>16 DEF ProcessNext

(* On every path out of run the worker's goroutine is gone before          *)
(* conn.Close, which main defers first, runs.                              *)
THEOREM WorkerGoneBeforeStore == ProcessSpec => []StoreOutlivesWorker
<1>1. ProcessInit => Deferred
  BY DEF ProcessInit, Init, Deferred, Early, Serving, Leaving
<1>2. IInv /\ Deferred => StoreOutlivesWorker
  BY DEF IInv, Counted, Deferred, Leaving, StoreOutlivesWorker
<1>3. QED
  BY <1>1, <1>2, DeferredStep, ProcessImplementsWorker, Inductive, PTL DEF ProcessSpec
-----------------------------------------------------------------------------
(* What run has seen to by the time it gets to each of its calls, if it    *)
(* has left nothing behind.                                                *)
Drains ==
  /\ rpcs \in Nat /\ hits \in Nat
  /\ grpc = "off" => rpcs = 0
  /\ http = "off" => hits = 0
  /\ main \in {"open", "listen_grpc"} => grpc = "off"
  /\ main \in Early => http = "off"
  /\ main \in {"stop_http", "stop_worker", "stopping_worker"} \cup Leaving /\ ~abrupt =>
       grpc # "serving" /\ rpcs = 0
  /\ main \in {"stop_worker", "stopping_worker"} \cup Leaving /\ ~abrupt =>
       http # "serving" /\ hits = 0

LEMMA DrainsStep == Drains /\ [ProcessNext]_allVars => Drains'
<1> SUFFICES ASSUME Drains, [ProcessNext]_allVars PROVE Drains'
  OBVIOUS
<1> USE DEF Drains, Early, Leaving, Servers
<1>1. CASE OpenStore \/ StartWorker
  BY <1>1 DEF OpenStore, StartWorker
<1>2. CASE ListenGRPC
  BY <1>2 DEF ListenGRPC
<1>3. CASE ListenHTTP
  BY <1>3 DEF ListenHTTP
<1>4. CASE RpcBegins
  BY <1>4 DEF RpcBegins
<1>5. CASE RpcEnds
  BY <1>5 DEF RpcEnds
<1>6. CASE HitBegins
  BY <1>6 DEF HitBegins
<1>7. CASE HitEnds
  BY <1>7 DEF HitEnds
<1>8. CASE Signal \/ SelectSignal \/ SelectError
  BY <1>8 DEF Signal, SelectSignal, SelectError
<1>9. CASE GracefulStop
  BY <1>9 DEF GracefulStop
<1>10. CASE Shutdown
  <2>1. CASE http = "serving" /\ http' = "stopping" /\ UNCHANGED <<main, abrupt>>
    BY <1>10, <2>1 DEF Shutdown
  <2>2. CASE /\ http = "stopping"
             /\ main' = "stop_worker"
             /\ abrupt' = (abrupt \/ hits > 0)
             /\ UNCHANGED http
    <3>1. ~abrupt' => ~abrupt /\ ~(hits > 0)
      BY <2>2, Zenon
    <3>2. QED
      BY <1>10, <2>2, <3>1 DEF Shutdown
  <2>3. QED
    BY <1>10, <2>1, <2>2 DEF Shutdown
<1>11. CASE StopWorker
  BY <1>11 DEF StopWorker
<1>12. CASE CloseStore \/ Exit
  BY <1>12 DEF CloseStore, Exit
<1>13. CASE WorkerSteps
  BY <1>13 DEF WorkerSteps, procVars
<1>14. CASE UNCHANGED allVars
  BY <1>14 DEF allVars, procVars
<1>15. QED
  BY <1>1, <1>2, <1>3, <1>4, <1>5, <1>6, <1>7, <1>8, <1>9, <1>10, <1>11, <1>12,
     <1>13, <1>14 DEF ProcessNext

(* When the store is closed after a graceful shutdown neither server       *)
(* serves and no handler of theirs is at work: GracefulStop and Shutdown   *)
(* were through before the deferred calls began.                           *)
THEOREM GracefulShutdownDrains == ProcessSpec => []Drained
<1>1. ProcessInit => Drains /\ Deferred
  BY DEF ProcessInit, Init, Drains, Deferred, Early, Serving, Leaving
<1>2. Drains /\ Deferred => Drained
  BY DEF Drains, Deferred, Leaving, Drained
<1>3. QED
  BY <1>1, <1>2, DrainsStep, DeferredStep, ProcessImplementsWorker, Inductive, PTL
     DEF ProcessSpec
=============================================================================
