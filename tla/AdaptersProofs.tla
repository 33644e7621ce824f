--------------------------- MODULE AdaptersProofs ---------------------------
(***************************************************************************)
(* The circuit breaker, for any set of callers and any configuration, and  *)
(* the adapters and the coordination kernels that call through it.         *)
(***************************************************************************)
EXTENDS Adapters, FiniteSetTheorems, TLAPS

(* Breaker.Call and its helpers keep every field in its range; in          *)
(* particular halfOpenRequests never passes Config.MaxRequests.            *)
THEOREM TypeCorrect == Spec => []TypeOK
<1> USE BreakerConfig DEF TypeOK, States, PCs
<1>1. Init => TypeOK
  BY DEF Init
<1>2. ASSUME TypeOK, [Next]_vars
      PROVE  TypeOK'
  <2> USE <1>2
  <2>1. CASE UNCHANGED vars
    BY <2>1 DEF vars
  <2>2. CASE Tick
    BY <2>2 DEF Tick, Earlier
  <2>3. CASE Flip
    BY <2>3 DEF Flip, breaker
  <2>4. ASSUME NEW c \in Callers, Step(c)
        PROVE  TypeOK'
    <3>1. CASE Enter(c)
      BY <3>1 DEF Enter, Goto, breaker
    <3>2. CASE LoadNextTry(c)
      BY <3>2 DEF LoadNextTry, Goto, breaker
    <3>3. CASE Compare(c)
      BY <3>3 DEF Compare, Goto, breaker
    <3>4. CASE HalfOpen(c)
      BY <3>4 DEF HalfOpen, Goto
    <3>5. CASE Admit(c)
      BY <3>5 DEF Admit, Goto
    <3>6. CASE Return(c)
      BY <3>6 DEF Return, Goto, breaker
    <3>7. CASE Report(c)
      BY <3>7 DEF Report, Goto, onSuccess, onFailure
    <3>8. QED BY <2>4, <3>1, <3>2, <3>3, <3>4, <3>5, <3>6, <3>7 DEF Step
  <2>5. QED BY <2>1, <2>2, <2>3, <2>4 DEF Next
<1>3. QED BY <1>1, <1>2, PTL DEF Spec
-----------------------------------------------------------------------------
(* onSuccess clears the count whenever it closes the breaker, and          *)
(* onFailure opens it at the threshold, so a closed breaker is always      *)
(* short of MaxFailures.                                                   *)
THEOREM ClosedIsBelowThreshold == Spec => []ClosedBelowThreshold
<1> USE BreakerConfig DEF ClosedBelowThreshold
<1>1. Init => ClosedBelowThreshold
  BY DEF Init
<1>2. ASSUME TypeOK, ClosedBelowThreshold, [Next]_vars
      PROVE  ClosedBelowThreshold'
  <2> USE <1>2 DEF TypeOK
  <2>1. CASE UNCHANGED vars
    BY <2>1 DEF vars
  <2>2. CASE Tick \/ Flip
    BY <2>2 DEF Tick, Flip, breaker
  <2>3. ASSUME NEW c \in Callers, Step(c)
        PROVE  ClosedBelowThreshold'
    <3>1. CASE Report(c)
      BY <3>1 DEF Report, onSuccess, onFailure
    <3>2. CASE Enter(c) \/ LoadNextTry(c) \/ Compare(c) \/ Return(c)
      BY <3>2 DEF Enter, LoadNextTry, Compare, Return, breaker
    <3>3. CASE HalfOpen(c) \/ Admit(c)
      BY <3>3 DEF HalfOpen, Admit
    <3>4. QED BY <2>3, <3>1, <3>2, <3>3 DEF Step
  <2>4. QED BY <2>1, <2>2, <2>3 DEF Next
<1>3. QED BY <1>1, <1>2, TypeCorrect, PTL DEF Spec

(* No step of Call takes the breaker from open to closed or from closed to *)
(* half-open.                                                              *)
THEOREM StatesInOrder == Spec => StateOrder
<1>1. ASSUME TypeOK, [Next]_vars
      PROVE  [\/ state = "closed" /\ state' = "open"
              \/ state = "open" /\ state' = "halfOpen"
              \/ state = "halfOpen" /\ state' \in {"closed", "open"}]_state
  <2> USE <1>1 DEF TypeOK, States
  <2>1. CASE UNCHANGED vars
    BY <2>1 DEF vars
  <2>2. CASE Tick \/ Flip
    BY <2>2 DEF Tick, Flip, breaker
  <2>3. ASSUME NEW c \in Callers, Step(c), state' # state
        PROVE  \/ state = "closed" /\ state' = "open"
               \/ state = "open" /\ state' = "halfOpen"
               \/ state = "halfOpen" /\ state' \in {"closed", "open"}
    <3>1. HalfOpen(c) \/ Report(c)
      BY <2>3 DEF Step, Enter, LoadNextTry, Compare, Admit, Return, breaker
    <3>2. QED BY <2>3, <3>1 DEF HalfOpen, Report, onSuccess, onFailure
  <2>4. QED BY <2>1, <2>2, <2>3 DEF Next
<1>2. QED BY <1>1, TypeCorrect, PTL DEF Spec, StateOrder
-----------------------------------------------------------------------------
(* The inductive form of NoCallInsideTimeout: while the breaker is open, a *)
(* caller that entered after the last trip and has loaded nextTry carries  *)
(* the same deadline as the breaker, and one that passed the comparison    *)
(* did so after the deadline.                                              *)
FreshDeadline ==
  \A c \in fresh :
    state = "open" =>
      /\ pc[c] = "compare" => deadline[c] = nextTry
      /\ pc[c] \in InFlight \cup {"halfOpen", "admit"} => nextTry = 0

(* Reading state, nextTry and the clock at three different moments, the    *)
(* last two without the lock, admits no call inside the timeout of the     *)
(* last trip it could have seen.                                           *)
THEOREM TimeoutRespected == Spec => []NoCallInsideTimeout
<1> USE DEF InFlight
<1>1. Init => FreshDeadline
  BY DEF Init, FreshDeadline
<1>2. ASSUME TypeOK, FreshDeadline, [Next]_vars
      PROVE  FreshDeadline'
  <2> SUFFICES ASSUME NEW d \in fresh', (state = "open")'
               PROVE  /\ (pc[d] = "compare" => deadline[d] = nextTry)'
                      /\ (pc[d] \in InFlight \cup {"halfOpen", "admit"}
                            => nextTry = 0)'
    BY DEF FreshDeadline
  <2> USE BreakerConfig, <1>2 DEF TypeOK, FreshDeadline
  <2>1. CASE UNCHANGED vars
    BY <2>1 DEF vars
  <2>2. CASE Tick
    BY <2>2 DEF Tick, Earlier
  <2>3. CASE Flip
    BY <2>3 DEF Flip, breaker
  <2>4. ASSUME NEW c \in Callers, Step(c)
        PROVE  /\ (pc[d] = "compare" => deadline[d] = nextTry)'
               /\ (pc[d] \in InFlight \cup {"halfOpen", "admit"}
                     => nextTry = 0)'
    <3>1. CASE Enter(c)
      BY <3>1 DEF Enter, Goto, breaker
    <3>2. CASE LoadNextTry(c)
      BY <3>2 DEF LoadNextTry, Goto, breaker
    <3>3. CASE Compare(c)
      BY <3>3 DEF Compare, Goto, breaker
    <3>4. CASE HalfOpen(c)
      BY <3>4 DEF HalfOpen, Goto
    <3>5. CASE Admit(c)
      BY <3>5 DEF Admit, Goto
    <3>6. CASE Return(c)
      BY <3>6 DEF Return, Goto, breaker
    <3>7. CASE Report(c)
      BY <3>7 DEF Report, Goto, onSuccess, onFailure
    <3>8. QED BY <2>4, <3>1, <3>2, <3>3, <3>4, <3>5, <3>6, <3>7 DEF Step
  <2>5. QED BY <2>1, <2>2, <2>3, <2>4 DEF Next
<1>3. FreshDeadline => NoCallInsideTimeout
  BY DEF FreshDeadline, NoCallInsideTimeout
<1>4. QED BY <1>1, <1>2, <1>3, TypeCorrect, PTL DEF Spec
-----------------------------------------------------------------------------
(* The inductive invariant behind the two half-open results.  In a         *)
(* half-open episode every unreported call of the episode is in flight,    *)
(* and of the halfOpenRequests calls admitted all are unreported unless a  *)
(* failure has been counted since, in which case the count covers the      *)
(* reported ones and is still below the threshold.                         *)
Episode ==
  state = "halfOpen" =>
    /\ \A c \in probing : pc[c] \in InFlight
    /\ Cardinality(probing) <= halfOpenRequests
    /\ \/ halfOpenRequests = Cardinality(probing)
       \/ /\ failures < MaxFailures
          /\ halfOpenRequests <= Cardinality(probing) + failures

(* The unreported calls of a half-open episode are finitely many.          *)
LEMMA ProbingFinite ==
  ASSUME TypeOK
  PROVE  IsFiniteSet(probing) /\ Cardinality(probing) \in Nat
BY CallersFinite, FS_Subset, FS_CardinalityType DEF TypeOK

(* Every step of Call keeps the books of the half-open episode: who was    *)
(* admitted, who has reported, and what the failures add up to.            *)
LEMMA EpisodeStep ==
  ASSUME TypeOK, TypeOK', Episode, [Next]_vars
  PROVE  Episode'
<1> SUFFICES ASSUME (state = "halfOpen")' PROVE Episode'
  BY DEF Episode
<1> USE BreakerConfig, ProbingFinite DEF TypeOK, InFlight
<1>1. CASE UNCHANGED vars
  BY <1>1 DEF vars, Episode
<1>2. CASE Tick
  BY <1>2 DEF Tick, Episode
<1>3. CASE Flip
  BY <1>3 DEF Flip, breaker, Episode
<1>4. ASSUME NEW c \in Callers, Step(c)
      PROVE  Episode'
  <2>1. CASE Enter(c)
    BY <2>1 DEF Enter, Goto, breaker, Episode
  <2>2. CASE LoadNextTry(c)
    BY <2>2 DEF LoadNextTry, Goto, breaker, Episode
  <2>3. CASE Compare(c)
    BY <2>3 DEF Compare, Goto, breaker, Episode
  <2>4. CASE HalfOpen(c)
    <3>1. CASE state = "open"
      <4>1. probing' = {} /\ halfOpenRequests' = 0
        BY <2>4, <3>1 DEF HalfOpen
      <4>2. Cardinality(probing') = 0
        BY <4>1, FS_EmptySet
      <4>3. QED BY <4>1, <4>2 DEF Episode
    <3>2. CASE state # "open"
      BY <2>4, <3>2 DEF HalfOpen, Goto, Episode
    <3>3. QED BY <3>1, <3>2
  <2>5. CASE Admit(c)
    <3>1. state = "halfOpen" /\ c \notin probing
      BY <2>5 DEF Admit, Episode
    <3>2. CASE halfOpenRequests >= MaxRequests
      BY <2>5, <3>1, <3>2 DEF Admit, Goto, Episode
    <3>3. CASE halfOpenRequests < MaxRequests
      <4>1. Cardinality(probing \cup {c}) = Cardinality(probing) + 1
        BY <3>1, FS_AddElement
      <4>2. QED BY <2>5, <3>1, <3>3, <4>1 DEF Admit, Goto, Episode
    <3>4. QED BY <3>2, <3>3
  <2>6. CASE Return(c)
    BY <2>6 DEF Return, Goto, breaker, Episode
  <2>7. CASE Report(c)
    <3>1. /\ state = "halfOpen"
          /\ pc[c] = "err"
          /\ failures' = failures + 1
          /\ failures' < MaxFailures
          /\ halfOpenRequests' = halfOpenRequests
          /\ probing' = probing \ {c}
          /\ pc' = [pc EXCEPT ![c] = "idle"]
      BY <2>7 DEF Report, Goto, onSuccess, onFailure
    <3>2. Cardinality(probing \ {c}) \in
            {Cardinality(probing), Cardinality(probing) - 1}
      BY FS_RemoveElement, probing \ {c} = probing \/ c \in probing
    <3>3. halfOpenRequests <= Cardinality(probing) + failures
      BY <3>1 DEF Episode
    <3>4. QED BY <3>1, <3>2, <3>3 DEF Episode
  <2>8. QED BY <1>4, <2>1, <2>2, <2>3, <2>4, <2>5, <2>6, <2>7 DEF Step
<1>5. QED BY <1>1, <1>2, <1>3, <1>4 DEF Next

(* The books are right in every reachable state.                           *)
LEMMA EpisodeInvariant == Spec => []Episode
<1>1. Init => Episode
  BY DEF Init, Episode
<1>2. QED BY <1>1, EpisodeStep, TypeCorrect, PTL DEF Spec

(* However the callers that passed the deadline interleave, at most        *)
(* Config.MaxRequests calls of one half-open episode are unreported.       *)
THEOREM ProbesWithinBudget == Spec => []ProbeBudget
<1>1. TypeOK /\ Episode => ProbeBudget
  BY BreakerConfig DEF TypeOK, Episode, ProbeBudget
<1>2. QED BY <1>1, EpisodeInvariant, TypeCorrect, PTL

(* Since a trip the count stands at the threshold, in the half-open        *)
(* episode too, unless a success was reported to the open breaker.         *)
Tripped == state # "closed" /\ late = "none" => failures >= MaxFailures

LEMMA TrippedStep ==
  ASSUME TypeOK, Tripped, [Next]_vars
  PROVE  Tripped'
<1> USE BreakerConfig DEF Tripped, TypeOK
<1>1. CASE UNCHANGED vars
  BY <1>1 DEF vars
<1>2. CASE Tick \/ Flip
  BY <1>2 DEF Tick, Flip, breaker
<1>3. ASSUME NEW c \in Callers, Step(c)
      PROVE  Tripped'
  <2>1. CASE pc[c] = "ok" /\ onSuccess
    BY <2>1 DEF onSuccess, States
  <2>2. CASE pc[c] = "err" /\ onFailure
    BY <2>2 DEF onFailure
  <2>3. CASE Enter(c) \/ LoadNextTry(c) \/ Compare(c) \/ Return(c)
    BY <2>3 DEF Enter, LoadNextTry, Compare, Return, breaker
  <2>4. CASE HalfOpen(c) \/ Admit(c)
    BY <2>4 DEF HalfOpen, Admit
  <2>5. QED BY <1>3, <2>1, <2>2, <2>3, <2>4 DEF Step, Report
<1>4. QED BY <1>1, <1>2, <1>3 DEF Next

(* Whatever its threshold and its budget, and so for the breakers of       *)
(* Mnemos and Chronos (5 and 1) as well: a half-open breaker that has      *)
(* spent its budget is waiting for a call in flight.  It can be without    *)
(* one in two cases only, a budget of 0 (which New leaves as it is) and a  *)
(* success that onSuccess counted while the breaker was open.              *)
THEOREM SpentBudgetHasProbe == Spec => []SomeoneDecides
<1>1. TypeOK /\ Episode /\ Tripped => SomeoneDecides
  <2> SUFFICES ASSUME TypeOK, Episode, Tripped, state = "halfOpen", MaxRequests > 0,
                      halfOpenRequests >= MaxRequests, probing = {},
                      ~(late = "success" /\ MaxRequests < MaxFailures)
               PROVE  FALSE
    BY DEF SomeoneDecides
  <2>1. Cardinality(probing) = 0
    BY FS_EmptySet
  <2>2. failures < MaxFailures /\ halfOpenRequests <= failures
    BY <2>1, BreakerConfig DEF Episode, TypeOK
  <2>3. late = "success"
    BY <2>2, BreakerConfig DEF Tripped, TypeOK
  <2>4. QED BY <2>2, <2>3, BreakerConfig DEF TypeOK
<1>2. Init => Tripped
  BY DEF Init, Tripped
<1>3. QED BY <1>1, <1>2, TrippedStep, EpisodeInvariant, TypeCorrect, PTL DEF Spec

(* Half-open, and no call in flight that could report.                     *)
Unattended == state = "halfOpen" /\ \A c \in Callers : pc[c] \notin InFlight

(* Config.MaxRequests 0 is not the 1 its comment says ("(0 = 1)"): New     *)
(* leaves it as it is, as it does for the Praxis adapter.  Once such a     *)
(* breaker is half-open and the last call in flight has reported, every    *)
(* caller is refused and the breaker stays half-open, whatever Praxis and  *)
(* the callers do.                                                         *)
THEOREM ZeroBudgetRefusesForEver ==
  ASSUME MaxRequests = 0
  PROVE  Spec => [][Unattended => Unattended']_vars
<1>1. ASSUME TypeOK, Unattended, [Next]_vars
      PROVE  Unattended'
  <2> USE <1>1 DEF Unattended, InFlight, TypeOK
  <2>1. CASE UNCHANGED vars
    BY <2>1 DEF vars
  <2>2. CASE Tick \/ Flip
    BY <2>2 DEF Tick, Flip, breaker
  <2>3. ASSUME NEW c \in Callers, Step(c)
        PROVE  Unattended'
    <3>1. CASE Enter(c)
      BY <3>1 DEF Enter, Goto, breaker
    <3>2. CASE LoadNextTry(c) \/ Compare(c)
      BY <3>2 DEF LoadNextTry, Compare, Goto, breaker
    <3>3. CASE HalfOpen(c)
      BY <3>3 DEF HalfOpen, Goto
    <3>4. CASE Admit(c)
      <4>1. halfOpenRequests >= MaxRequests
        BY BreakerConfig
      <4>2. state' = state /\ Goto(c, "idle")
        BY <3>4, <4>1, BreakerConfig DEF Admit
      <4>3. QED BY <4>2 DEF Goto
    <3>5. CASE Return(c) \/ Report(c)
      BY <3>5 DEF Return, Report
    <3>6. QED BY <2>3, <3>1, <3>2, <3>3, <3>4, <3>5 DEF Step
  <2>4. QED BY <2>1, <2>2, <2>3 DEF Next
<1>2. TypeOK /\ [Next]_vars => [Unattended => Unattended']_vars
  BY <1>1
<1>3. QED BY <1>2, TypeCorrect, PTL DEF Spec
-----------------------------------------------------------------------------
(* Whatever the adapters, the kernels and the services do is, for the      *)
(* breaker, a step of Call, of the clock or of the service, or nothing.    *)
LEMMA BreakerStep == AdaptersNext => [Next]_vars
<1> SUFFICES ASSUME AdaptersNext PROVE [Next]_vars
  OBVIOUS
<1>1. CASE Environment
  BY <1>1 DEF Environment, Change, Next
<1>2. ASSUME NEW c \in Callers, AdapterStep(c) PROVE [Next]_vars
  <2>1. CASE RecallOrAppend(c) \/ GetSignals(c) \/ DryRun(c)
    BY <2>1 DEF RecallOrAppend, GetSignals, DryRun, Begin
  <2>2. CASE DirectExecute(c) \/ AxiExecute(c) \/ AfterCall(c)
    BY <2>2 DEF DirectExecute, AxiExecute, AfterCall, Begin
  <2>3. CASE CallStep(c)
    BY <2>3 DEF CallStep, Step, Next
  <2>4. CASE AdapterReturn(c)
    BY <2>4 DEF AdapterReturn, Step, Next
  <2>5. QED
    BY <1>2, <2>1, <2>2, <2>3, <2>4 DEF AdapterStep
<1>3. QED
  BY <1>1, <1>2 DEF AdaptersNext

(* The clients of Mnemos, Chronos and Praxis use the breaker as it is      *)
(* specified: what is proved of CircuitBreaker holds in each of them.      *)
THEOREM AdaptersImplementBreaker == AdaptersSpec => Spec
<1>1. AdaptersInit => Init
  BY DEF AdaptersInit
<1>2. [AdaptersNext]_allVars => [Next]_vars
  BY BreakerStep DEF allVars
<1>3. QED
  BY <1>1, <1>2, PTL DEF AdaptersSpec, Spec

(* The half-open budget and who decides once it is spent, the timeout of   *)
(* the last trip, the threshold and the order of states hold for each      *)
(* adapter, retries of the kernels and refusals of the services included.  *)
THEOREM AdaptersKeepBreaker ==
  /\ AdaptersSpec => []TypeOK
  /\ AdaptersSpec => []ProbeBudget
  /\ AdaptersSpec => []NoCallInsideTimeout
  /\ AdaptersSpec => []ClosedBelowThreshold
  /\ AdaptersSpec => []SomeoneDecides
  /\ AdaptersSpec => StateOrder
BY AdaptersImplementBreaker, TypeCorrect, ProbesWithinBudget, TimeoutRespected,
   ClosedIsBelowThreshold, SpentBudgetHasProbe, StatesInOrder, PTL
-----------------------------------------------------------------------------
(* The books of the action: it was performed under no other key than the   *)
(* kernels', and nobody holds a success without it.                        *)
Performed ==
  /\ ledger \subseteq {IdempotencyKey}
  /\ reply \in [Callers -> {"none", "lost", "refused", "answered", "done", "failed"}]
  /\ \A c \in Callers : reply[c] = "done" => ledger # {}

(* The kernels never leave the key to the client, so that what goes over   *)
(* the wire is the same however often the intervention is executed.        *)
LEMMA SameKey == WireKey = IdempotencyKey
BY SuggestedKeyIsKey DEF WireKey, IdempotencyKey, SuggestedKeyIsKey

LEMMA PerformedStep == Performed /\ [AdaptersNext]_allVars => Performed'
<1> SUFFICES ASSUME Performed, [AdaptersNext]_allVars PROVE Performed'
  OBVIOUS
<1> USE DEF Performed
<1>1. CASE UNCHANGED allVars
  BY <1>1 DEF allVars, adapterVars, IdempotencyKey
<1>2. CASE Environment
  BY <1>2 DEF Environment, Change, adapterVars, IdempotencyKey
<1>3. ASSUME NEW c \in Callers, AdapterStep(c) PROVE Performed'
  <2>1. CASE RecallOrAppend(c) \/ GetSignals(c) \/ DryRun(c)
    BY <2>1 DEF RecallOrAppend, GetSignals, DryRun, Begin, IdempotencyKey
  <2>2. CASE DirectExecute(c) \/ AxiExecute(c)
    BY <2>2 DEF DirectExecute, AxiExecute, Begin, IdempotencyKey
  <2>3. CASE AfterCall(c)
    BY <2>3 DEF AfterCall, IdempotencyKey
  <2>4. CASE CallStep(c)
    BY <2>4 DEF CallStep, IdempotencyKey
  <2>5. CASE AdapterReturn(c)
    <3>1. PICK r \in {"lost", "refused", "answered", "done", "failed"} :
            /\ reply' = [reply EXCEPT ![c] = r]
            /\ \/ UNCHANGED ledger /\ r # "done"
               \/ r = "lost" /\ \E a \in {"done", "failed"} : Perform(a)
               \/ Perform(r)
      BY <2>5 DEF AdapterReturn
    <3>2. ASSUME NEW a, Perform(a)
          PROVE  /\ ledger' \subseteq {IdempotencyKey}
                 /\ ledger \subseteq ledger'
                 /\ a = "done" => ledger' # {}
      BY <3>2, SameKey DEF Perform
    <3>3. /\ ledger' \subseteq {IdempotencyKey}
          /\ ledger \subseteq ledger'
          /\ r = "done" => ledger' # {}
      BY <3>1, <3>2
    <3>4. QED
      BY <3>1, <3>3 DEF IdempotencyKey
  <2>6. QED
    BY <1>3, <2>1, <2>2, <2>3, <2>4, <2>5 DEF AdapterStep
<1>4. QED
  BY <1>1, <1>2, <1>3 DEF AdaptersNext

(* However often, through whichever kernel and past whichever lost answers *)
(* an intervention is executed, Praxis performs its action at most once,   *)
(* and a kernel reports success only when it has.                          *)
THEOREM ActionPerformedOnce == AdaptersSpec => []PerformedOnce
<1>1. AdaptersInit => Performed
  BY DEF AdaptersInit, Performed
<1>2. Performed => PerformedOnce
  <2> SUFFICES ASSUME Performed PROVE PerformedOnce
    OBVIOUS
  <2>1. ledger = {} \/ ledger = {IdempotencyKey}
    BY DEF Performed
  <2>2. Cardinality(ledger) <= 1
    <3>1. CASE ledger = {}
      BY <3>1, FS_EmptySet
    <3>2. CASE ledger = {IdempotencyKey}
      BY <3>2, FS_Singleton, Cardinality({IdempotencyKey}) = 1
    <3>3. QED
      BY <2>1, <3>1, <3>2
  <2>3. QED
    BY <2>2 DEF Performed, PerformedOnce, Success, DirectSuccess, AxiSuccess, ExecutorErr
<1>3. QED
  BY <1>1, <1>2, PerformedStep, PTL DEF AdaptersSpec
-----------------------------------------------------------------------------
(* What a Praxis whose service was always reachable looks like: nothing    *)
(* was counted, nobody is on the way to report an error, and no reply was  *)
(* lost.                                                                   *)
Calm ==
  /\ reachable \in BOOLEAN /\ wasDown \in BOOLEAN /\ up \in BOOLEAN
  /\ adapter = "praxis" /\ ~wasDown =>
       /\ reachable /\ up
       /\ state = "closed" /\ failures = 0 /\ health = "healthy"
       /\ \A c \in Callers :
            /\ pc[c] \in {"idle", "admit", "fn", "ok"}
            /\ reply[c] # "lost"
            /\ pc[c] = "ok" => reply[c] # "none"

LEMMA CalmStep == TypeOK /\ Performed /\ Calm /\ [AdaptersNext]_allVars => Calm'
<1> SUFFICES ASSUME TypeOK, Performed, Calm, [AdaptersNext]_allVars PROVE Calm'
  OBVIOUS
<1>1. CASE UNCHANGED allVars
  BY <1>1 DEF allVars, adapterVars, vars, service, Calm
<1>2. CASE Change
  <2>1. reachable' \in BOOLEAN /\ wasDown' \in BOOLEAN /\ up' \in BOOLEAN
    BY <1>2, Zenon DEF Change, Calm, Flip, vars
  <2>2. ASSUME adapter' = "praxis", ~wasDown'
        PROVE  adapter = "praxis" /\ ~wasDown /\ reachable' = reachable /\ UNCHANGED vars
    <3>1. adapter = "praxis" /\ reachable' = reachable /\ wasDown' = wasDown
      BY <1>2, <2>2, Zenon DEF Change
    <3>2. Fails' = Fails
      BY <2>2, <3>1 DEF Fails, doErr
    <3>3. QED
      BY <1>2, <2>2, <3>1, <3>2 DEF Change
  <2>3. QED
    BY <1>2, <2>1, <2>2 DEF Calm, vars, Change
<1>3. CASE Tick /\ UNCHANGED adapterVars
  BY <1>3 DEF Tick, adapterVars, service, Calm
<1>4. ASSUME NEW c \in Callers, AdapterStep(c) PROVE Calm'
  <2>1. CASE RecallOrAppend(c) \/ GetSignals(c) \/ DryRun(c)
    BY <2>1 DEF RecallOrAppend, GetSignals, DryRun, Begin, vars, service, Calm
  <2>2. CASE DirectExecute(c) \/ AxiExecute(c)
    BY <2>2 DEF DirectExecute, AxiExecute, Begin, vars, service, Calm
  <2>3. CASE AfterCall(c)
    BY <2>3 DEF AfterCall, Health, vars, service, Calm, Performed
  <2>4. CASE CallStep(c)
    <3>1. CASE Report(c)
      BY <2>4, <3>1, BreakerConfig DEF CallStep, Report, onSuccess, onFailure, Goto,
         service, Calm, Performed, TypeOK
    <3>2. CASE Enter(c) \/ Admit(c)
      BY <2>4, <3>2 DEF CallStep, Enter, Admit, Goto, breaker, service, Calm, Performed, TypeOK
    <3>3. CASE LoadNextTry(c) \/ Compare(c) \/ HalfOpen(c)
      BY <2>4, <3>3 DEF CallStep, LoadNextTry, Compare, HalfOpen, breaker, service, Calm
    <3>4. QED
      BY <2>4, <3>1, <3>2, <3>3 DEF CallStep
  <2>5. CASE AdapterReturn(c)
    BY <2>5 DEF AdapterReturn, Return, Goto, Fails, doErr, breaker, service, Calm,
       Performed, TypeOK, Perform
  <2>6. QED
    BY <1>4, <2>1, <2>2, <2>3, <2>4, <2>5 DEF AdapterStep
<1>5. QED
  BY <1>1, <1>2, <1>3, <1>4 DEF AdaptersNext, Environment

(* However often Praxis refuses, an adapter whose service was always       *)
(* reachable is healthy and its breaker closed.                            *)
THEOREM RefusalsAreNoOutage == AdaptersSpec => []RefusalIsNoOutage
<1>1. AdaptersInit => Calm
  BY DEF AdaptersInit, Init, Calm, Fails, doErr
<1>2. AdaptersInit => Performed
  BY DEF AdaptersInit, Performed
<1>3. Calm => RefusalIsNoOutage
  BY DEF Calm, RefusalIsNoOutage, AdapterStatus
<1>4. QED
  BY <1>1, <1>2, <1>3, PerformedStep, CalmStep, TypeCorrect, AdaptersImplementBreaker,
     PTL DEF AdaptersSpec
=============================================================================
