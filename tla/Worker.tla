------------------------------- MODULE Worker -------------------------------
(***************************************************************************)
(* The background worker (internal/worker/worker.go): Start, Stop and the  *)
(* loop goroutine, which runs Evaluate once and then at every tick until   *)
(* its context is cancelled.  Any number of goroutines call Start and Stop *)
(* in any order; a step is a critical section of w.mu, a call of cancel,   *)
(* the end of wg.Wait, or a stretch of the loop between two of its waits.  *)
(***************************************************************************)
EXTENDS Naturals, FiniteSets

CONSTANTS
  Callers,  \* goroutines that call Start and Stop
  Visits    \* bound: commitments one Evaluate visits at most

ASSUME WorkerConfig == Visits \in Nat \ {0}

VARIABLES
  started,    \* w.cancel # nil
  cancelled,  \* the loop's context is done
  wg,         \* the counter of w.wg
  loop,       \* where the loop goroutine is
  ticked,     \* ticker.C holds a tick
  left,       \* commitments the running Evaluate has still to visit
  pc,         \* where each caller is
  cancel,     \* Stop's local cancel is not nil
  late,       \* history: commitments written after the context was done
  stopped     \* history: a Stop that had a loop to stop has returned

vars == <<started, cancelled, wg, loop, ticked, left, pc, cancel, late, stopped>>
theLoop == <<loop, left>>

Goto(c, l) == pc' = [pc EXCEPT ![c] = l]

(* New.                                                                    *)
Init ==
  /\ started = FALSE /\ cancelled = FALSE
  /\ wg = 0
  /\ loop = "none"
  /\ ticked = FALSE
  /\ left = 0
  /\ pc = [c \in Callers |-> "idle"]
  /\ cancel = [c \in Callers |-> FALSE]
  /\ late = 0
  /\ stopped = FALSE

(* Plausible bugs, for the mutation runs.                                  *)
Start_addsInLoop(c) ==
  /\ pc[c] = "idle" /\ ~started
  /\ started' = TRUE
  /\ loop' = "find"
  /\ UNCHANGED <<cancelled, wg, ticked, left, pc, cancel, late, stopped>>

StopCancel_forgets(c) ==
  /\ pc[c] = "cancel"
  /\ Goto(c, "wait")
  /\ UNCHANGED <<started, cancelled, wg, theLoop, ticked, cancel, late, stopped>>

Start_again(c) ==
  /\ pc[c] = "idle"
  /\ started' = TRUE
  /\ wg' = wg + 1
  /\ loop' = "find"
  /\ UNCHANGED <<cancelled, ticked, left, pc, cancel, late, stopped>>

CheckContext_forgotten ==
  /\ loop = "visit"
  /\ loop' = IF left = 0 THEN "select" ELSE "write"
  /\ UNCHANGED <<started, cancelled, wg, left, ticked, pc, cancel, late, stopped>>
-----------------------------------------------------------------------------
(* Start under the mutex: the second call finds cancel set and returns.    *)
Start(c) ==
  /\ pc[c] = "idle"
  /\ \/ started /\ UNCHANGED <<started, wg, loop>>
     \/ /\ ~started
        /\ started' = TRUE
        /\ wg' = wg + 1
        /\ loop' = "find"
  /\ UNCHANGED <<cancelled, ticked, left, pc, cancel, late, stopped>>

(* Stop copies cancel under the mutex,                                     *)
Stop(c) ==
  /\ pc[c] = "idle"
  /\ cancel' = [cancel EXCEPT ![c] = started]
  /\ Goto(c, IF started THEN "cancel" ELSE "wait")
  /\ UNCHANGED <<started, cancelled, wg, theLoop, ticked, late, stopped>>

(* calls it outside,                                                       *)
StopCancel(c) ==
  /\ pc[c] = "cancel"
  /\ cancelled' = TRUE
  /\ Goto(c, "wait")
  /\ UNCHANGED <<started, wg, theLoop, ticked, cancel, late, stopped>>

(* and returns when wg.Wait does.                                          *)
StopWait(c) ==
  /\ pc[c] = "wait"
  /\ wg = 0
  /\ stopped' = (stopped \/ cancel[c])
  /\ cancel' = [cancel EXCEPT ![c] = FALSE]
  /\ Goto(c, "idle")
  /\ UNCHANGED <<started, cancelled, wg, theLoop, ticked, late>>

(* A signal cancels the context main passes to Start, maybe before it does.*)
ParentCancel ==
  /\ cancelled' = TRUE
  /\ UNCHANGED <<started, wg, theLoop, ticked, pc, cancel, late, stopped>>

(* The ticker's channel holds one tick; further ones are dropped.          *)
TickerFires ==
  /\ loop \in {"find", "visit", "write", "select"}
  /\ ticked' = TRUE
  /\ UNCHANGED <<started, cancelled, wg, theLoop, pc, cancel, late, stopped>>

(* tick calls Evaluate, whose FindActive ignores the context or fails on   *)
(* it, depending on the store.                                             *)
FindActive ==
  /\ loop = "find"
  /\ \/ \E n \in 0..Visits : left' = n /\ loop' = "visit"
     \/ loop' = "select" /\ UNCHANGED left
  /\ UNCHANGED <<started, cancelled, wg, ticked, pc, cancel, late, stopped>>

(* Evaluate's loop checks the context before each commitment,              *)
CheckContext ==
  /\ loop = "visit"
  /\ loop' = IF left = 0 \/ cancelled THEN "select" ELSE "write"
  /\ UNCHANGED <<started, cancelled, wg, left, ticked, pc, cancel, late, stopped>>

(* and the visit that follows ends with the store's writes.                *)
Write ==
  /\ loop = "write"
  /\ left' = left - 1
  /\ loop' = "visit"
  /\ late' = IF cancelled /\ late < Visits THEN late + 1 ELSE late
  /\ UNCHANGED <<started, cancelled, wg, ticked, pc, cancel, stopped>>

(* select: the context is done, or a tick runs the next Evaluate; with     *)
(* both ready Go picks at random.                                          *)
LoopDone ==
  /\ loop = "select" /\ cancelled
  /\ loop' = "done"
  /\ ticked' = FALSE
  /\ wg' = wg - 1
  /\ UNCHANGED <<started, cancelled, left, pc, cancel, late, stopped>>

LoopTick ==
  /\ loop = "select" /\ ticked
  /\ loop' = "find"
  /\ ticked' = FALSE
  /\ UNCHANGED <<started, cancelled, wg, left, pc, cancel, late, stopped>>

Next ==
  \/ \E c \in Callers : Start(c) \/ Stop(c) \/ StopCancel(c) \/ StopWait(c)
  \/ ParentCancel \/ TickerFires
  \/ FindActive \/ CheckContext \/ Write \/ LoopDone \/ LoopTick

Spec == Init /\ [][Next]_vars

(* Goroutines are scheduled and store calls return; Go's select is random, *)
(* so a branch that is ready again and again is taken.                     *)
Fairness ==
  /\ WF_vars(FindActive) /\ WF_vars(CheckContext) /\ WF_vars(Write)
  /\ SF_vars(LoopDone)
  /\ \A c \in Callers : WF_vars(StopCancel(c)) /\ WF_vars(StopWait(c))
-----------------------------------------------------------------------------
TypeOK ==
  /\ started \in BOOLEAN /\ cancelled \in BOOLEAN /\ ticked \in BOOLEAN
  /\ wg \in {0, 1}
  /\ loop \in {"none", "find", "visit", "write", "select", "done"}
  /\ left \in 0..Visits
  /\ pc \in [Callers -> {"idle", "cancel", "wait"}]
  /\ cancel \in [Callers -> BOOLEAN]
  /\ late \in 0..Visits
  /\ stopped \in BOOLEAN

(* Once a Stop of a started worker has returned, the loop goroutine is     *)
(* gone for good: main may close the store, and no later Start brings a    *)
(* second loop to life.                                                    *)
StoppedIsQuiet == stopped => loop = "done" /\ wg = 0

(* Once the context is done, at most the commitment being visited is still *)
(* written, although the loop may call Evaluate again for a tick that was  *)
(* pending when it chose between the tick and the context.                 *)
OneLateWrite == late <= 1

(* Stop returns, also when a tick is always pending at select, if Stop     *)
(* found the worker started.  (A Stop that reads w.cancel before a         *)
(* concurrent Start sets it has nothing to cancel and may wait for ever.)  *)
StopReturns == \A c \in Callers : cancel[c] ~> ~cancel[c]
=============================================================================
