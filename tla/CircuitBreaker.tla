--------------------------- MODULE CircuitBreaker ---------------------------
(***************************************************************************)
(* The circuit breaker every adapter wraps its remote calls in             *)
(* (internal/circuit/breaker.go).  Concurrent goroutines ("callers") run   *)
(* Breaker.Call; the mutex is released between the steps of one call, and  *)
(* the deadline nextTry is read with no lock at all, so every step below   *)
(* is one critical section of Call or one unlocked read.                   *)
(*                                                                         *)
(* Time is relative: nextTry is the number of ticks left until the         *)
(* deadline, 0 once it has passed, so "time.Now().Before(b.nextTry)" is    *)
(* nextTry > 0 and the model needs no bound on the clock.                  *)
(***************************************************************************)
EXTENDS Naturals, FiniteSets

CONSTANTS
  Callers,      \* goroutines that share one Breaker
  MaxFailures,  \* Config.MaxFailures, after New's default
  Timeout,      \* Config.Timeout in ticks, after New's default
  MaxRequests,  \* Config.MaxRequests; New leaves a 0 as it is
  FailureCap    \* bound: the failure counter saturates here

ASSUME BreakerConfig ==
  /\ MaxFailures \in Nat \ {0}
  /\ Timeout \in Nat \ {0}
  /\ MaxRequests \in Nat
  /\ FailureCap \in Nat
  /\ MaxFailures <= FailureCap

ASSUME CallersFinite == IsFiniteSet(Callers)

VARIABLES
  state,             \* Breaker.state
  failures,          \* Breaker.failures
  nextTry,           \* Breaker.nextTry, as ticks left
  halfOpenRequests,  \* Breaker.halfOpenRequests
  pc,                \* where each caller is inside Call
  deadline,          \* the nextTry a caller loaded, as ticks left
  up,                \* environment: would the remote service answer now
  fresh,             \* history: callers since whose entry nothing tripped
  probing,           \* history: calls admitted in this half-open episode
                     \* and not yet reported
  late               \* history: "success" once one was reported to the open
                     \* breaker, until the next trip, "none" otherwise

breaker == <<state, failures, nextTry, halfOpenRequests>>
vars == <<state, failures, nextTry, halfOpenRequests, pc, deadline, up,
          fresh, probing, late>>

(* A caller is outside Call ("idle"), saw Open and is about to load        *)
(* nextTry ("load"), compares it with the clock ("compare"), is about to   *)
(* move an expired breaker to half-open ("halfOpen"), is about to be       *)
(* admitted ("admit"), runs fn ("fn"), or holds fn's result ("ok", "err"). *)
PCs == {"idle", "load", "compare", "halfOpen", "admit", "fn", "ok", "err"}
InFlight == {"fn", "ok", "err"}
States == {"closed", "open", "halfOpen"}

Goto(c, l) == pc' = [pc EXCEPT ![c] = l]
-----------------------------------------------------------------------------
(* New: zero values except the configuration.                              *)
Init ==
  /\ state = "closed"
  /\ failures = 0
  /\ nextTry = 0
  /\ halfOpenRequests = 0
  /\ pc = [c \in Callers |-> "idle"]
  /\ deadline = [c \in Callers |-> 0]
  /\ up \in BOOLEAN
  /\ fresh = {}
  /\ probing = {}
  /\ late = "none"

(* Plausible bugs in the steps of Call, for the mutation runs.             *)
Enter_ignoresOpen(c) ==
  /\ pc[c] = "idle"
  /\ fresh' = fresh \cup {c}
  /\ Goto(c, IF state = "open" THEN "halfOpen" ELSE "admit")
  /\ UNCHANGED <<breaker, deadline, up, probing, late>>

HalfOpen_unguarded(c) ==
  /\ pc[c] = "halfOpen"
  /\ state' = "halfOpen" /\ halfOpenRequests' = 0
  /\ probing' = IF state = "halfOpen" THEN probing ELSE {}
  /\ Goto(c, "admit")
  /\ UNCHANGED <<failures, nextTry, deadline, up, fresh, late>>

Admit_offByOne(c) ==
  /\ pc[c] = "admit"
  /\ \/ /\ state = "halfOpen" /\ halfOpenRequests > MaxRequests
        /\ Goto(c, "idle")
        /\ UNCHANGED <<halfOpenRequests, probing>>
     \/ /\ state = "halfOpen" /\ halfOpenRequests <= MaxRequests
        /\ halfOpenRequests' = halfOpenRequests + 1
        /\ probing' = probing \cup {c}
        /\ Goto(c, "fn")
     \/ /\ state # "halfOpen"
        /\ Goto(c, "fn")
        /\ UNCHANGED <<halfOpenRequests, probing>>
  /\ UNCHANGED <<state, failures, nextTry, deadline, up, fresh, late>>

onSuccess_alwaysCloses ==
  /\ failures' = 0
  /\ state' = "closed"
  /\ late' = "none"
  /\ UNCHANGED <<nextTry, halfOpenRequests, fresh>>

onSuccess_keepsCount ==
  /\ state' = IF state = "halfOpen" THEN "closed" ELSE state
  /\ late' = IF state = "open" THEN "success" ELSE "none"
  /\ UNCHANGED <<failures, nextTry, halfOpenRequests, fresh>>

onFailure_onlyWhenClosed ==
  /\ failures' = IF failures < FailureCap THEN failures + 1 ELSE failures
  /\ IF failures' >= MaxFailures /\ state = "closed"
       THEN state' = "open" /\ nextTry' = Timeout /\ fresh' = {} /\ late' = "none"
       ELSE UNCHANGED <<state, nextTry, fresh, late>>
  /\ UNCHANGED halfOpenRequests
-----------------------------------------------------------------------------
(* Call reads the state under the lock and drops the lock.                 *)
Enter(c) ==
  /\ pc[c] = "idle"
  /\ fresh' = fresh \cup {c}
  /\ Goto(c, IF state = "open" THEN "load" ELSE "admit")
  /\ UNCHANGED <<breaker, deadline, up, probing, late>>

(* The unlocked load of nextTry: a race with onFailure.  Its old and its   *)
(* new value are what the build can return; loading at a moment of its     *)
(* own, apart from the clock read of Compare, yields both.                 *)
LoadNextTry(c) ==
  /\ pc[c] = "load"
  /\ deadline' = [deadline EXCEPT ![c] = nextTry]
  /\ Goto(c, "compare")
  /\ UNCHANGED <<breaker, up, fresh, probing, late>>

(* Before the deadline the call returns ErrCircuitOpen.                    *)
Compare(c) ==
  /\ pc[c] = "compare"
  /\ Goto(c, IF deadline[c] > 0 THEN "idle" ELSE "halfOpen")
  /\ deadline' = [deadline EXCEPT ![c] = 0]
  /\ UNCHANGED <<breaker, up, fresh, probing, late>>

(* Under the lock again: the first caller past the deadline starts a       *)
(* half-open episode, the others find it started.                          *)
HalfOpen(c) ==
  /\ pc[c] = "halfOpen"
  /\ \/ /\ state = "open"
        /\ state' = "halfOpen" /\ halfOpenRequests' = 0 /\ probing' = {}
     \/ /\ state # "open"
        /\ UNCHANGED <<state, halfOpenRequests, probing>>
  /\ Goto(c, "admit")
  /\ UNCHANGED <<failures, nextTry, deadline, up, fresh, late>>

(* Under the lock a third time: the half-open budget.  Neither a closed    *)
(* nor an open breaker stops the call here.                                *)
Admit(c) ==
  /\ pc[c] = "admit"
  /\ \/ /\ state = "halfOpen" /\ halfOpenRequests >= MaxRequests
        /\ Goto(c, "idle")
        /\ UNCHANGED <<halfOpenRequests, probing>>
     \/ /\ state = "halfOpen" /\ halfOpenRequests < MaxRequests
        /\ halfOpenRequests' = halfOpenRequests + 1
        /\ probing' = probing \cup {c}
        /\ Goto(c, "fn")
     \/ /\ state # "halfOpen"
        /\ Goto(c, "fn")
        /\ UNCHANGED <<halfOpenRequests, probing>>
  /\ UNCHANGED <<state, failures, nextTry, deadline, up, fresh, late>>

(* fn returns: the remote service decides the outcome.                     *)
Return(c) ==
  /\ pc[c] = "fn"
  /\ Goto(c, IF up THEN "ok" ELSE "err")
  /\ UNCHANGED <<breaker, deadline, up, fresh, probing, late>>

onSuccess ==
  /\ failures' = 0
  /\ state' = IF state = "halfOpen" THEN "closed" ELSE state
  /\ late' = IF state = "open" THEN "success" ELSE "none"
  /\ UNCHANGED <<nextTry, halfOpenRequests, fresh>>

onFailure ==
  /\ failures' = IF failures < FailureCap THEN failures + 1 ELSE failures
  /\ IF failures' >= MaxFailures
       THEN state' = "open" /\ nextTry' = Timeout /\ fresh' = {} /\ late' = "none"
       ELSE UNCHANGED <<state, nextTry, fresh, late>>
  /\ UNCHANGED halfOpenRequests

(* The lock is taken a last time to record fn's result.                    *)
Report(c) ==
  /\ \/ pc[c] = "ok" /\ onSuccess
     \/ pc[c] = "err" /\ onFailure
  /\ probing' = probing \ {c}
  /\ Goto(c, "idle")
  /\ UNCHANGED <<deadline, up>>

Step(c) ==
  Enter(c) \/ LoadNextTry(c) \/ Compare(c) \/ HalfOpen(c) \/ Admit(c)
    \/ Return(c) \/ Report(c)

(* A tick of the clock brings every pending deadline closer.               *)
Earlier(n) == IF n > 0 THEN n - 1 ELSE 0
Tick ==
  /\ nextTry > 0 \/ \E c \in Callers : deadline[c] > 0
  /\ nextTry' = Earlier(nextTry)
  /\ deadline' = [c \in Callers |-> Earlier(deadline[c])]
  /\ UNCHANGED <<state, failures, halfOpenRequests, pc, up, fresh, probing, late>>

(* The remote service goes down or comes back.                             *)
Flip ==
  /\ up' = ~up
  /\ UNCHANGED <<breaker, pc, deadline, fresh, probing, late>>

Next == Tick \/ Flip \/ \E c \in Callers : Step(c)

Spec == Init /\ [][Next]_vars

(* Calls keep coming, goroutines are scheduled, fn returns and time        *)
(* passes; no fairness on Flip: an outage may last for ever.  This is more *)
(* than the program guarantees (a Mnemos or Chronos call has no deadline,  *)
(* Praxis is asked only about automations).  It is what AutoReset is owed: *)
(* that the breaker stays stuck is no fault of its callers or of the       *)
(* service.                                                                *)
FairSpec ==
  /\ Spec
  /\ WF_vars(Tick)
  /\ \A c \in Callers : WF_vars(Step(c))
-----------------------------------------------------------------------------
TypeOK ==
  /\ state \in States
  /\ failures \in 0..FailureCap
  /\ nextTry \in 0..Timeout
  /\ halfOpenRequests \in 0..MaxRequests
  /\ pc \in [Callers -> PCs]
  /\ deadline \in [Callers -> 0..Timeout]
  /\ up \in BOOLEAN
  /\ fresh \subseteq Callers
  /\ probing \subseteq Callers
  /\ late \in {"none", "success"}

(* A half-open episode never has more unreported calls than the budget     *)
(* MaxRequests, however the callers that saw the expired deadline          *)
(* interleave between the two critical sections of Call.                   *)
ProbeBudget ==
  state = "halfOpen" =>
    /\ \A c \in probing : pc[c] \in InFlight
    /\ Cardinality(probing) <= halfOpenRequests
    /\ halfOpenRequests <= MaxRequests

(* A call that entered after the last trip and found the breaker open runs *)
(* fn only once that trip's timeout is over, although it read state,       *)
(* nextTry and the clock at three different moments.                       *)
NoCallInsideTimeout ==
  \A c \in fresh :
    state = "open" /\ pc[c] \in InFlight \cup {"halfOpen", "admit"}
      => nextTry = 0

(* A closed breaker is always short of its threshold: whatever order late  *)
(* results arrive in, MaxFailures reports cannot leave it closed.          *)
ClosedBelowThreshold == state = "closed" => failures < MaxFailures

(* The breaker only trips, starts an episode, closes after an episode or   *)
(* reopens: a result that arrives late never closes an open breaker.       *)
StateOrder ==
  [][\/ state = "closed" /\ state' = "open"
     \/ state = "open" /\ state' = "halfOpen"
     \/ state = "halfOpen" /\ state' \in {"closed", "open"}]_state

(* A half-open breaker with a budget that admits nobody any more still has *)
(* a call in flight that will decide it.  The one exception is a success   *)
(* reported while the breaker was open: onSuccess cleared the count that   *)
(* the probes' failures have to bring to MaxFailures again, and a budget   *)
(* below MaxFailures may run out before they do.                           *)
SomeoneDecides ==
  state = "halfOpen" /\ MaxRequests > 0 /\ halfOpenRequests >= MaxRequests
    => probing # {} \/ (late = "success" /\ MaxRequests < MaxFailures)

(* Once the remote service answers for good, the breaker closes for good.  *)
AutoReset == <>[]up => <>[](state = "closed")
=============================================================================
