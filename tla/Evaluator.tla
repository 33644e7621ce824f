----------------------------- MODULE Evaluator ------------------------------
(***************************************************************************)
(* The evaluation pipeline (internal/pipeline/evaluate.go) over the        *)
(* commitment, decision and intervention tables.  The worker's tick, the   *)
(* HTTP handler and the gRPC handler each run Evaluate, with nothing       *)
(* between them: every store call of a run is one atomic step, and runs    *)
(* interleave between their store calls.                                   *)
(***************************************************************************)
EXTENDS Risk, Sequences, FiniteSets

CONSTANTS
  Commitments,   \* commitment ids
  Runs,          \* goroutines that run Evaluate
  Limits,        \* Limits[r]: values of EvaluateOptions.Limit, 0 for none
  Quota,         \* bound: how often a goroutine runs Evaluate, 0 for no bound
  Cancellable,   \* runs whose context may be cancelled
  Dues,          \* due times of extracted commitments, 0 for none
  Confidences,   \* their confidences, in hundredths
  Signals,       \* what fetchSignals can find: {FALSE} without a Chronos
  MaxTime        \* bound: the clock stops here

ASSUME EvaluatorConfig ==
  /\ IsFiniteSet(Commitments)
  /\ Limits \in [Runs -> SUBSET Nat]
  /\ Quota \in [Runs -> Nat]
  /\ Cancellable \subseteq Runs
  /\ Dues \subseteq Nat /\ Confidences \subseteq 0..100 /\ Signals \subseteq BOOLEAN
  /\ MaxTime \in Nat \ {0}

VARIABLES
  now,            \* the wall clock
  known,          \* ids in the commitments table
  row,            \* its rows
  decisions,      \* the decisions table
  interventions,  \* the interventions table, by content
  pc,             \* where each run is
  at,             \* the run's now, read when it began
  limit,          \* its Limit
  todo,           \* the commitments it has still to visit, current one first
  score,          \* the current assessment's Score
  begun,          \* how often each goroutine began, where it has a quota
  listed,         \* history: what the run's FindActive returned
  lost,           \* history: decisions whose Save failed
  failed          \* history: commitments whose UpdateRisk failed in this run

tables == <<known, row, decisions, interventions>>
vars == <<now, known, row, decisions, interventions, pc, at, limit, todo, score,
          begun, listed, lost, failed>>

Times == 1..MaxTime
Row == [due : Dues \cup {0}, confidence : 0..100, created : 0..MaxTime,
        score : Scores, evaluatedAt : 0..MaxTime]
Absent == [due |-> 0, confidence |-> 0, created |-> 0, score |-> 0, evaluatedAt |-> 0]
Decision == [commitment : Commitments, score : Scores, at : Times]
Intervention == [commitment : Commitments, type : DraftTypes, at : Times]

Goto(r, l) == pc' = [pc EXCEPT ![r] = l]
Current(r) == Head(todo[r])

(* The decision of r's current visit.                                      *)
Dec(r) == [commitment |-> Current(r), score |-> score[r], at |-> at[r]]

(* The next commitment of the loop.                                        *)
Continue(r) ==
  /\ todo' = [todo EXCEPT ![r] = Tail(@)]
  /\ Goto(r, "loop")

Init ==
  /\ now = 1
  /\ known = {}
  /\ row = [c \in Commitments |-> Absent]
  /\ decisions = {} /\ interventions = {}
  /\ pc = [r \in Runs |-> "idle"]
  /\ at = [r \in Runs |-> 1]
  /\ limit = [r \in Runs |-> 0]
  /\ todo = [r \in Runs |-> <<>>]
  /\ score = [r \in Runs |-> 0]
  /\ listed = [r \in Runs |-> {}]
  /\ lost = {}
  /\ failed = [r \in Runs |-> {}]
  /\ begun = [r \in Runs |-> 0]
-----------------------------------------------------------------------------
Tick ==
  /\ now < MaxTime
  /\ now' = now + 1
  /\ UNCHANGED <<tables, pc, at, limit, todo, score, begun, listed, lost, failed>>

(* Extract's commitments.Save of a pending commitment.  Extract reads the  *)
(* clock before it calls the language model, so created_at may be old.     *)
SaveCommitment(c) ==
  /\ c \notin known
  /\ known' = known \cup {c}
  /\ \E d \in Dues, f \in Confidences, t \in 1..now :
       row' = [row EXCEPT ![c] = [due |-> d, confidence |-> f, created |-> t,
                                  score |-> 0, evaluatedAt |-> 0]]
  /\ UNCHANGED <<now, decisions, interventions, pc, at, limit, todo, score,
                 begun, listed, lost, failed>>

(* Evaluate is called and reads the clock, once for the whole run.         *)
Begin(r) ==
  /\ pc[r] = "idle"
  /\ \/ Quota[r] = 0 /\ UNCHANGED begun
     \/ begun[r] < Quota[r] /\ begun' = [begun EXCEPT ![r] = @ + 1]
  /\ at' = [at EXCEPT ![r] = now]
  /\ \E l \in Limits[r] : limit' = [limit EXCEPT ![r] = l]
  /\ Goto(r, "find")
  /\ listed' = [listed EXCEPT ![r] = {}] /\ failed' = [failed EXCEPT ![r] = {}]
  /\ UNCHANGED <<now, tables, todo, score, lost>>

(* risk_score descending, due_at ascending with nulls last, created_at     *)
(* ascending; rows equal in all three come in any order.                   *)
Before(c, d) ==
  LET a == row[c]
      b == row[d]
  IN \/ a.score > b.score
     \/ /\ a.score = b.score
        /\ \/ a.due # 0 /\ b.due = 0
           \/ a.due # 0 /\ b.due # 0 /\ a.due < b.due
           \/ a.due = b.due /\ a.created < b.created

Orderings(S) ==
  {s \in [1..Cardinality(S) -> S] :
     \A i, j \in DOMAIN s : i < j => s[i] # s[j] /\ ~Before(s[j], s[i])}

FirstOf(s, l) == IF l > 0 /\ Len(s) > l THEN SubSeq(s, 1, l) ELSE s

(* Every extracted commitment is pending and stays so: all rows are active.*)
FindActive(r) ==
  /\ pc[r] = "find"
  /\ \/ \E s \in Orderings(known) :
          LET found == FirstOf(s, limit[r]) IN
          /\ todo' = [todo EXCEPT ![r] = found]
          /\ listed' = [listed EXCEPT ![r] = {found[i] : i \in DOMAIN found}]
          /\ Goto(r, "loop")
     \/ /\ Goto(r, "idle")
        /\ UNCHANGED <<todo, listed>>
  /\ UNCHANGED <<now, tables, at, limit, score, begun, lost, failed>>

(* ctx.Err() at the head of the loop ends a cancelled run.                 *)
Cancel(r) ==
  /\ pc[r] = "loop" /\ todo[r] # <<>>
  /\ r \in Cancellable
  /\ todo' = [todo EXCEPT ![r] = <<>>]
  /\ Goto(r, "idle")
  /\ UNCHANGED <<now, tables, at, limit, score, begun, listed, lost, failed>>

(* Plausible bugs, for the mutation runs.                                  *)
UpdateRisk_stopsAtError(r) ==
  /\ pc[r] = "loop" /\ todo[r] # <<>>
  /\ \/ \E signals \in Signals :
          LET c == Current(r)
              s == EvaluateCommitment(row[c].due, row[c].confidence, signals, at[r])
          IN /\ row' = [row EXCEPT ![c] = [@ EXCEPT !.score = s, !.evaluatedAt = at[r]]]
             /\ score' = [score EXCEPT ![r] = s]
             /\ Goto(r, "decide")
             /\ UNCHANGED <<todo, failed>>
     \/ /\ failed' = [failed EXCEPT ![r] = @ \cup {Current(r)}]
        /\ todo' = [todo EXCEPT ![r] = <<>>]
        /\ Goto(r, "loop")
        /\ UNCHANGED <<row, score>>
  /\ UNCHANGED <<now, known, decisions, interventions, at, limit, begun, listed,
                 lost>>

UpdateRisk_unclamped(r) ==
  /\ pc[r] = "loop" /\ todo[r] # <<>>
  /\ \E signals \in Signals :
       LET c == Current(r)
           s == DueFactor(row[c].due, at[r]) + row[c].confidence * ConfidenceWeight
                  + (IF signals THEN One ELSE 0)
       IN /\ row' = [row EXCEPT ![c] = [@ EXCEPT !.score = s, !.evaluatedAt = at[r]]]
          /\ score' = [score EXCEPT ![r] = s]
          /\ Goto(r, "decide")
  /\ UNCHANGED <<now, known, todo, failed, decisions, interventions, at, limit,
                 begun, listed, lost>>

recordDecision_readsClock(r) ==
  /\ pc[r] = "decide"
  /\ decisions' = decisions \cup {[Dec(r) EXCEPT !.at = now]}
  /\ Goto(r, "intervene")
  /\ UNCHANGED <<now, known, row, interventions, at, limit, todo, score, begun,
                 listed, lost, failed>>

Intervene_readsRow(r) ==
  /\ pc[r] = "intervene"
  /\ \/ \E t \in MaybeIntervene(row[Current(r)].score, row[Current(r)].confidence) :
          interventions' = interventions \cup
            {[commitment |-> Current(r), type |-> t, at |-> at[r]]}
     \/ UNCHANGED interventions
  /\ Continue(r)
  /\ UNCHANGED <<now, known, row, decisions, at, limit, score, begun, listed,
                 lost, failed>>
-----------------------------------------------------------------------------
(* A visit: fetch signals and memories (errors count as none), score the   *)
(* commitment as FindActive returned it, and write score and time to the   *)
(* row, whatever is there by now.  An error skips to the next commitment.  *)
(* Of the fields the score depends on, none changes after Extract, so the  *)
(* row stands for the run's copy.                                          *)
UpdateRisk(r) ==
  /\ pc[r] = "loop" /\ todo[r] # <<>>
  /\ \/ \E signals \in Signals :
          LET c == Current(r)
              s == EvaluateCommitment(row[c].due, row[c].confidence, signals, at[r])
          IN /\ row' = [row EXCEPT ![c] = [@ EXCEPT !.score = s, !.evaluatedAt = at[r]]]
             /\ score' = [score EXCEPT ![r] = s]
             /\ Goto(r, "decide")
             /\ UNCHANGED <<todo, failed>>
     \/ /\ failed' = [failed EXCEPT ![r] = @ \cup {Current(r)}]
        /\ Continue(r)
        /\ UNCHANGED <<row, score>>
  /\ UNCHANGED <<now, known, decisions, interventions, at, limit, begun, listed,
                 lost>>

(* recordDecision; an error of decisions.Save is ignored.                  *)
recordDecision(r) ==
  /\ pc[r] = "decide"
  /\ \/ decisions' = decisions \cup {Dec(r)} /\ UNCHANGED lost
     \/ lost' = lost \cup {Dec(r)} /\ UNCHANGED decisions
  /\ Goto(r, "intervene")
  /\ UNCHANGED <<now, known, row, interventions, at, limit, todo, score, begun,
                 listed, failed>>

(* MaybeIntervene and interventions.Save; the dry run of an automation     *)
(* changes nothing here.  No draft and a failed Save both go on.           *)
Intervene(r) ==
  /\ pc[r] = "intervene"
  /\ \/ \E t \in MaybeIntervene(score[r], row[Current(r)].confidence) :
          interventions' = interventions \cup
            {[commitment |-> Current(r), type |-> t, at |-> at[r]]}
     \/ UNCHANGED interventions
  /\ Continue(r)
  /\ UNCHANGED <<now, known, row, decisions, at, limit, score, begun, listed,
                 lost, failed>>

Finish(r) ==
  /\ pc[r] = "loop" /\ todo[r] = <<>>
  /\ Goto(r, "idle")
  /\ UNCHANGED <<now, tables, at, limit, todo, score, begun, listed, lost, failed>>

Step(r) ==
  FindActive(r) \/ Cancel(r) \/ UpdateRisk(r) \/ recordDecision(r)
    \/ Intervene(r) \/ Finish(r)

(* Nobody runs Evaluate.                                                   *)
Rest == (\A r \in Runs : pc[r] = "idle") /\ UNCHANGED vars

Next ==
  \/ Tick
  \/ Rest
  \/ \E c \in Commitments : SaveCommitment(c)
  \/ \E r \in Runs : Begin(r) \/ Step(r)

Spec == Init /\ [][Next]_vars

(* The background worker: never cancelled while the process lives, and no  *)
(* Limit.                                                                  *)
Workers == {r \in Runs \ Cancellable : Limits[r] = {0}}
Found(r) == FindActive(r) /\ pc'[r] = "loop"
Updated(r, c) == UpdateRisk(r) /\ Current(r) = c /\ pc'[r] = "decide"

(* The worker's ticker keeps starting runs, goroutines are scheduled and   *)
(* store calls return.  A store call that is made again and again succeeds *)
(* at times; nothing says that any one call does.                          *)
FairSpec ==
  /\ Spec
  /\ \A r \in Runs : WF_vars(Step(r))
  /\ \A w \in Workers : /\ WF_vars(Begin(w))
                         /\ SF_vars(Found(w))
                         /\ \A c \in Commitments : SF_vars(Updated(w, c))
-----------------------------------------------------------------------------
TypeOK ==
  /\ now \in Times
  /\ known \subseteq Commitments
  /\ row \in [Commitments -> Row]
  /\ decisions \subseteq Decision /\ lost \subseteq Decision
  /\ interventions \subseteq Intervention
  /\ pc \in [Runs -> {"idle", "find", "loop", "decide", "intervene"}]
  /\ at \in [Runs -> 1..now]
  /\ limit \in [Runs -> Nat]
  /\ todo \in [Runs -> Seq(known)]
  /\ \A r \in Runs : pc[r] \in {"decide", "intervene"} => todo[r] # <<>>
  /\ score \in [Runs -> Scores]
  /\ listed \in [Runs -> SUBSET known]
  /\ failed \in [Runs -> SUBSET known]
  /\ begun \in [Runs -> Nat]

(* Whatever runs overlap, a score in the commitments table can be looked   *)
(* up: the decision that states this score for this evaluation time is in  *)
(* the decisions table, or its Save failed, or the run that wrote the      *)
(* score is just about to record it.                                       *)
ScoreExplained ==
  \A c \in known : row[c].evaluatedAt # 0 =>
    [commitment |-> c, score |-> row[c].score, at |-> row[c].evaluatedAt]
      \in decisions \cup lost \cup {Dec(r) : r \in {q \in Runs : pc[q] = "decide"}}

(* Every intervention rests on an assessment of its own run that crossed   *)
(* the nudge threshold, also when another run rewrote the row in between.  *)
InterventionExplained ==
  \A i \in interventions : \E d \in decisions \cup lost :
    /\ d.commitment = i.commitment /\ d.at = i.at
    /\ d.score >= NudgeThreshold

(* "This keeps a single bad row from stalling the worker": a run that      *)
(* comes to its end has visited every commitment FindActive gave it, and   *)
(* of each visit there is a trace.                                         *)
NoRowSkipped ==
  [][\A r \in Runs : Finish(r) => \A c \in listed[r] :
       \/ c \in failed[r]
       \/ \E d \in decisions \cup lost : d.commitment = c /\ d.at = at[r]]_vars

(* An overdue commitment is found out: its score comes to include the      *)
(* overdue weight and keeps it, although a run that read the clock before  *)
(* it was due may still overwrite the score, and store calls fail.         *)
OverdueNoticed ==
  \A c \in Commitments :
    c \in known /\ row[c].due # 0 /\ now > row[c].due
      ~> [](row[c].score >= OverdueWeight)
=============================================================================
