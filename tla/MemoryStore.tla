---------------------------- MODULE MemoryStore -----------------------------
(***************************************************************************)
(* The repositories of internal/store/memory over a database value: five   *)
(* Go maps behind one RWMutex.  Save replaces the whole row and checks no  *)
(* reference.  A slice or map field is "nil", "empty" or "some".  A        *)
(* decision's form says what the values in its inputs and outcome are: the *)
(* pipeline's own Go types ("go"), JSON text ("json"), or what JSON        *)
(* decodes to in a map[string]any ("any").                                 *)
(***************************************************************************)
EXTENDS Sql

CONSTANT Nil   \* a nil pointer

NotFound == <<>>

(* New: five empty maps.                                                   *)
New == [commitments |-> <<>>, decisions |-> <<>>, interventions |-> <<>>,
        goals |-> <<>>, tasks |-> <<>>]

(* append([]T(nil), s...) copies a slice; a copy without elements is nil.  *)
Copied(s) == IF s = "empty" THEN "nil" ELSE s

cloneCommitment(c) == [c EXCEPT !.refs = Copied(@)]
(* Inputs and outcome are copied value by value, so their form stays.      *)
cloneDecision(d) == [d EXCEPT !.refs = Copied(@)]
cloneGoal(g) == [g EXCEPT !.refs = Copied(@)]

(* A plausible bug, for the mutation runs: nulls first.                    *)
CommitmentBefore_nullsFirst(a, b) ==
  \/ a.risk > b.risk
  \/ /\ a.risk = b.risk
     /\ \/ a.due = 0 /\ b.due # 0
        \/ a.due # 0 /\ b.due # 0 /\ a.due < b.due
        \/ a.due = b.due /\ a.created < b.created

(* FindActive's comparison of two rows.                                    *)
CommitmentBefore(a, b) ==
  \/ a.risk > b.risk
  \/ /\ a.risk = b.risk
     /\ \/ a.due # 0 /\ b.due = 0
        \/ a.due # 0 /\ b.due # 0 /\ a.due < b.due
        \/ a.due = b.due /\ a.created < b.created

(* The map's rows that match, sorted with sort.Slice and cut to the limit. *)
Sliced(t, matches(_), less(_, _), n) ==
  LET Less(j, k) == less(t[j], t[k]) IN
  {First(s, n) : s \in Sorted({k \in DOMAIN t : matches(t[k])}, Less)}

OldestFirst(a, b) == a.created < b.created
NewestFirst(a, b) == b.created < a.created
-----------------------------------------------------------------------------
SaveCommitment(db, id, c) ==
  [db EXCEPT !.commitments = Insert(@, id, cloneCommitment(c))]

GetCommitment(db, id) ==
  IF id \in DOMAIN db.commitments THEN cloneCommitment(db.commitments[id]) ELSE NotFound

matchesCommitment(c, f) ==
  /\ f.owner = "" \/ c.owner = f.owner
  /\ f.statuses = {} \/ c.status \in f.statuses
  /\ f.dueBy = 0 \/ ~(c.due = 0 \/ c.due > f.dueBy)

ListCommitments(db, f) ==
  Sliced(db.commitments, LAMBDA c : matchesCommitment(c, f), OldestFirst, f.limit)

FindActive(db, n) ==
  Sliced(db.commitments, LAMBDA c : c.status \in {"pending", "in_progress"},
         CommitmentBefore, n)

UpdateRisk(db, id, score, at) ==
  IF id \notin DOMAIN db.commitments THEN db
  ELSE [db EXCEPT !.commitments[id] =
          [@ EXCEPT !.risk = score, !.evaluatedAt = at, !.updated = at]]

SaveDecision(db, id, d) == [db EXCEPT !.decisions = Insert(@, id, cloneDecision(d))]

GetDecision(db, id) ==
  IF id \in DOMAIN db.decisions THEN cloneDecision(db.decisions[id]) ELSE NotFound

ListBySubject(db, subject, n) ==
  Sliced(db.decisions, LAMBDA d : d.subject = subject, NewestFirst, n)

SaveIntervention(db, id, iv) == [db EXCEPT !.interventions = Insert(@, id, iv)]

GetIntervention(db, id) ==
  IF id \in DOMAIN db.interventions THEN db.interventions[id] ELSE NotFound

matchesIntervention(iv, f) ==
  /\ f.commitment = Nil \/ iv.commitment = f.commitment
  /\ f.task = Nil \/ iv.task = f.task
  /\ f.statuses = {} \/ iv.status \in f.statuses
  /\ f.since = 0 \/ ~(iv.triggeredAt < f.since)

ListInterventions(db, f) ==
  Sliced(db.interventions, LAMBDA iv : matchesIntervention(iv, f),
         LAMBDA a, b : b.triggeredAt < a.triggeredAt, f.limit)

SaveGoal(db, id, g) == [db EXCEPT !.goals = Insert(@, id, cloneGoal(g))]

GetGoal(db, id) == IF id \in DOMAIN db.goals THEN cloneGoal(db.goals[id]) ELSE NotFound

ListByOwner(db, owner, n) ==
  Sliced(db.goals, LAMBDA g : g.owner = owner, NewestFirst, n)

SaveTask(db, id, t) == [db EXCEPT !.tasks = Insert(@, id, t)]

GetTask(db, id) == IF id \in DOMAIN db.tasks THEN db.tasks[id] ELSE NotFound

matchesTask(t, f) ==
  /\ f.goal = Nil \/ t.goal = f.goal
  /\ f.commitment = Nil \/ t.commitment = f.commitment
  /\ f.assignedTo = Nil \/ t.assignedTo = f.assignedTo
  /\ f.statuses = {} \/ t.status \in f.statuses

ListTasks(db, f) ==
  Sliced(db.tasks, LAMBDA t : matchesTask(t, f), OldestFirst, f.limit)
=============================================================================
