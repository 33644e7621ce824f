------------------------------ MODULE Adapters ------------------------------
(***************************************************************************)
(* The clients of Mnemos, Chronos and Praxis, each over a CircuitBreaker   *)
(* of its own, and the coordination kernels that run an accepted           *)
(* intervention through Praxis.  A behaviour follows one adapter and the   *)
(* goroutines that call it; an adapter without an address returns before   *)
(* it reaches its breaker and has nothing to follow.                       *)
(*                                                                         *)
(* The gRPC clients (Mnemos, Chronos) return every error from inside the   *)
(* breaker; the Praxis client returns only transport errors from there and *)
(* keeps a health of its own, written after Call has returned.             *)
(***************************************************************************)
EXTENDS CircuitBreaker

CONSTANT SuggestedKey   \* the suggested action's idempotency key, 0 if unset
ASSUME SuggestedKeyIsKey == SuggestedKey \in Nat

VARIABLES
  adapter,   \* whose client this is
  health,    \* Praxis: Adapter.health
  does,      \* what each goroutine calls the adapter for
  reply,     \* what came of it, until the goroutine has dealt with it
  reachable, \* environment: the service answers
  refusing,  \* environment: it refuses what is asked
  wasDown,   \* history: the service was unreachable at some moment
  ledger     \* environment: keys under which Praxis performed the action

service == <<reachable, refusing, wasDown>>
adapterVars == <<adapter, health, does, reply, service, ledger>>
allVars == <<vars, adapterVars>>

(* A plausible bug, for the mutation runs: an HTTP status from 400 is an   *)
(* error inside the breaker, as a gRPC status is.                          *)
doErr_everyRefusal == ~reachable \/ refusing

(* fn's error.  Mnemos: a gRPC error, and an event that was not accepted.  *)
(* Chronos: a gRPC error, and a filter whose scope is no UUID, which is an *)
(* outage to the breaker although Chronos was not asked.  Praxis: no HTTP  *)
(* answer, whatever the answer says.                                       *)
MnemosErr == ~reachable \/ refusing
ChronosErr == ~reachable \/ refusing
doErr == ~reachable
Fails ==
  \/ adapter = "mnemos" /\ MnemosErr
  \/ adapter = "chronos" /\ ChronosErr
  \/ adapter = "praxis" /\ doErr
-----------------------------------------------------------------------------
(* The breaker knows of the service only whether fn fails: its up.         *)
AdaptersInit ==
  /\ Init
  /\ adapter \in {"mnemos", "chronos", "praxis"}
  /\ health = "healthy"
  /\ does = [c \in Callers |-> "nothing"]
  /\ reply = [c \in Callers |-> "none"]
  /\ refusing = FALSE
  /\ reachable \in BOOLEAN
  /\ wasDown = ~reachable
  /\ up = ~Fails
  /\ ledger = {}
-----------------------------------------------------------------------------
(* Every goroutine calls again and again.  What the clients of the domain  *)
(* ask for makes no difference to the breaker, so one kind of call stands  *)
(* for Recall and AppendEvent, and one for DryRun and ListCapabilities.    *)
Begin(c, call) ==
  /\ does[c] = "nothing"
  /\ does' = [does EXCEPT ![c] = call]
  /\ UNCHANGED <<vars, adapter, health, reply, service, ledger>>

RecallOrAppend(c) == adapter = "mnemos" /\ Begin(c, "call")
GetSignals(c) == adapter = "chronos" /\ Begin(c, "call")
DryRun(c) == adapter = "praxis" /\ Begin(c, "call")

(* Whoever holds a kernel executes one and the same intervention as often  *)
(* as it likes.  The AxiKernel's session waits for an approval the kernel  *)
(* gives itself; a gate of axi-go that refuses ends the attempt before it  *)
(* gets to Praxis.                                                         *)
Kernels == {"direct", "axi"}
DirectExecute(c) == adapter = "praxis" /\ Begin(c, "direct")
AxiExecute(c) == adapter = "praxis" /\ Begin(c, "axi")

(* A plausible bug, for the mutation runs: the key is left to the client.  *)
IdempotencyKey_unset == SuggestedKey

(* The kernels' default is the intervention, here number 1.                *)
IdempotencyKey == IF SuggestedKey = 0 THEN 1 ELSE SuggestedKey

(* Adapter.Execute makes up a key where there is none.                     *)
WireKey == IF IdempotencyKey = 0 THEN 2 + Cardinality(ledger) ELSE IdempotencyKey

(* Praxis performs the action of a key it has not seen, or fails to, and   *)
(* repeats its answer for one it has.                                      *)
Perform(answers) ==
  \/ WireKey \in ledger /\ answers = "done" /\ UNCHANGED ledger
  \/ WireKey \notin ledger /\ answers = "done" /\ ledger' = ledger \cup {WireKey}
  \/ WireKey \notin ledger /\ answers = "failed" /\ UNCHANGED ledger

(* fn returns.  An answer that is lost says nothing about the action.      *)
AdapterReturn(c) ==
  /\ Return(c)
  /\ \E r \in {"lost", "refused", "answered", "done", "failed"} :
       /\ reply' = [reply EXCEPT ![c] = r]
       /\ \/ /\ Fails /\ r = "lost"
             /\ \/ UNCHANGED ledger
                \/ ~reachable /\ does[c] \in Kernels /\ \E a \in {"done", "failed"} : Perform(a)
          \/ ~Fails /\ refusing /\ r = "refused" /\ UNCHANGED ledger
          \/ ~Fails /\ ~refusing /\ does[c] \in Kernels /\ Perform(r)
          \/ ~Fails /\ ~refusing /\ does[c] \notin Kernels /\ r = "answered"
             /\ UNCHANGED ledger
  /\ UNCHANGED <<adapter, health, does, service>>

(* The other steps of Call; one that ends it without an answer returns     *)
(* ErrCircuitOpen.                                                         *)
CallStep(c) ==
  /\ does[c] # "nothing" /\ (pc[c] = "idle" => reply[c] = "none")
  /\ Enter(c) \/ LoadNextTry(c) \/ Compare(c) \/ HalfOpen(c) \/ Admit(c) \/ Report(c)
  /\ reply' = [reply EXCEPT ![c] = IF pc'[c] = "idle" /\ @ = "none" THEN "lost" ELSE @]
  /\ UNCHANGED <<adapter, health, does, service, ledger>>

(* Outcome.Success.  The DirectKernel copies Praxis's; the executor in the *)
(* AxiKernel returns an error in its place, which fails the session.       *)
DirectSuccess(r) == r = "done"
ExecutorErr(r) == r # "done"
AxiSuccess(r) == ~ExecutorErr(r)
Success(c) ==
  \/ does[c] = "direct" /\ DirectSuccess(reply[c])
  \/ does[c] = "axi" /\ AxiSuccess(reply[c])

(* What do writes once Call has returned, under the adapter's own lock.    *)
Health(r) ==
  CASE adapter # "praxis" \/ r = "refused" -> health
    [] adapter = "praxis" /\ r = "lost" -> "degraded"
    [] OTHER -> "healthy"

AfterCall(c) ==
  /\ pc[c] = "idle" /\ reply[c] # "none"
  /\ health' = Health(reply[c])
  /\ does' = [does EXCEPT ![c] = "nothing"]
  /\ reply' = [reply EXCEPT ![c] = "none"]
  /\ UNCHANGED <<vars, adapter, service, ledger>>
-----------------------------------------------------------------------------
(* The environment: the clock, outages, and a service that starts or stops *)
(* to refuse (what it is asked may be malformed as well).                  *)
Change ==
  /\ \/ reachable' = ~reachable /\ wasDown' = TRUE /\ UNCHANGED refusing
     \/ refusing' = ~refusing /\ UNCHANGED <<reachable, wasDown>>
  /\ UNCHANGED <<adapter, health, does, reply, ledger>>
  /\ IF Fails' = Fails THEN UNCHANGED vars ELSE Flip

Environment == Change \/ (Tick /\ UNCHANGED adapterVars)

AdapterStep(c) ==
  \/ RecallOrAppend(c) \/ GetSignals(c) \/ DryRun(c) \/ DirectExecute(c) \/ AxiExecute(c)
  \/ CallStep(c) \/ AdapterReturn(c) \/ AfterCall(c)

AdaptersNext == Environment \/ \E c \in Callers : AdapterStep(c)

(* Safety only: a Mnemos or Chronos call carries no deadline and need not  *)
(* return, and Praxis is called only when somebody asks for an automation. *)
AdaptersSpec == AdaptersInit /\ [][AdaptersNext]_allVars
-----------------------------------------------------------------------------
(* AdapterStatus, which the readiness probe compares with "healthy".       *)
AdapterStatus ==
  CASE adapter = "praxis" -> health
    [] adapter # "praxis" /\ state = "closed" -> "healthy"
    [] adapter # "praxis" /\ state = "halfOpen" -> "degraded"
    [] adapter # "praxis" /\ state = "open" -> "unhealthy"

(* However often Praxis refuses what it is asked, an adapter whose service *)
(* was always reachable is healthy and its breaker closed.                 *)
RefusalIsNoOutage ==
  adapter = "praxis" /\ ~wasDown => state = "closed" /\ AdapterStatus = "healthy"

(* "so re-execution after a transient failure doesn't double up": however  *)
(* often, through whichever kernel and past whichever lost answers an      *)
(* intervention is executed, Praxis performs its action at most once, and  *)
(* exactly once when a kernel reports success.                             *)
PerformedOnce ==
  /\ Cardinality(ledger) <= 1
  /\ \A c \in Callers : Success(c) => ledger # {}
=============================================================================
