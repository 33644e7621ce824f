---------------------------- MODULE SqliteStore -----------------------------
(***************************************************************************)
(* The repositories of internal/store/sqlite over a database value: five   *)
(* tables with foreign keys switched on.  Every Save is one statement; a   *)
(* Save that breaks a foreign key fails and leaves the database as it was. *)
(* A NULL time is 0.                                                       *)
(***************************************************************************)
EXTENDS Sql

CONSTANT Nil   \* a nil pointer

NotFound == <<>>

(* The schema of 001_initial.sql and 002_decision_weights.sql, empty.      *)
New == [commitments |-> <<>>, decisions |-> <<>>, interventions |-> <<>>,
        goals |-> <<>>, tasks |-> <<>>]

(* JSON columns: a nil slice or map is the text null, which decodes to a   *)
(* nil one; anything else comes back as it was.                            *)
encJSON(v) == IF v = "nil" THEN "null" ELSE v
decJSON(raw) == IF raw = "null" THEN "nil" ELSE raw

(* An optional id or string is NULL in its column when it is nil.          *)
Column(p) == IF p = Nil THEN "NULL" ELSE p
stringPtr(c) == IF c = "NULL" THEN Nil ELSE c

(* A filter's clause, left out of the WHERE when the filter is not set.    *)
Clause(set, condition) == set => condition

scanCommitment(c) == [c EXCEPT !.refs = decJSON(@)]

(* Inputs and outcome are decoded into map[string]any: a number comes back *)
(* as float64, a slice as []any, a struct as a map.                        *)
scanDecision(d) == [d EXCEPT !.form = "any", !.refs = decJSON(@),
                             !.weights = IF @ = "NULL" THEN "nil" ELSE decJSON(@)]

scanGoal(g) == [g EXCEPT !.refs = decJSON(@)]
scanIntervention(iv) ==
  [iv EXCEPT !.commitment = stringPtr(@), !.task = stringPtr(@),
             !.action = IF @ = "NULL" THEN "nil" ELSE decJSON(@)]
scanTask(t) ==
  [t EXCEPT !.goal = stringPtr(@), !.commitment = stringPtr(@), !.assignedTo = stringPtr(@)]

Get(t, id, scan(_)) == IF id \in DOMAIN t THEN scan(t[id]) ELSE NotFound
-----------------------------------------------------------------------------
SaveCommitment(db, id, c) ==
  [db EXCEPT !.commitments =
     Upsert(@, id, [c EXCEPT !.refs = encJSON(@)],
            {"owner", "refs", "due", "status", "risk", "evaluatedAt", "updated"})]

GetCommitment(db, id) == Get(db.commitments, id, scanCommitment)

ListCommitments(db, f) ==
  Select(db.commitments,
         LAMBDA c : /\ Clause(f.owner # "", c.owner = f.owner)
                    /\ Clause(f.statuses # {}, c.status \in f.statuses)
                    /\ Clause(f.dueBy # 0, c.due # 0 /\ c.due <= f.dueBy),
         LAMBDA c : <<c.created>>, f.limit)

FindActive(db, n) ==
  Select(db.commitments, LAMBDA c : c.status \in {"pending", "in_progress"},
         LAMBDA c : <<-c.risk, IF c.due = 0 THEN 1 ELSE 0, c.due, c.created>>, n)

UpdateRisk(db, id, score, at) ==
  [db EXCEPT !.commitments = [k \in DOMAIN @ |->
     IF k = id THEN [@[k] EXCEPT !.risk = score, !.evaluatedAt = at, !.updated = at]
               ELSE @[k]]]

SaveDecision(db, id, d) ==
  [db EXCEPT !.decisions =
     InsertNew(@, id, [d EXCEPT !.form = "json", !.refs = encJSON(@),
                                !.weights = IF @ \in {"nil", "empty"} THEN "NULL" ELSE @])]

GetDecision(db, id) == Get(db.decisions, id, scanDecision)

ListBySubject(db, subject, n) ==
  Select(db.decisions, LAMBDA d : d.subject = subject, LAMBDA d : <<-d.created>>, n)

SaveIntervention(db, id, iv) ==
  IF References(Column(iv.commitment), db.commitments) /\ References(Column(iv.task), db.tasks)
    THEN [db EXCEPT !.interventions =
            Upsert(@, id, [iv EXCEPT !.commitment = Column(@), !.task = Column(@),
                                     !.action = IF @ = "nil" THEN "NULL" ELSE encJSON(@)],
                   {"action", "status", "resolvedAt"})]
    ELSE db

GetIntervention(db, id) == Get(db.interventions, id, scanIntervention)

ListInterventions(db, f) ==
  Select(db.interventions,
         LAMBDA iv : /\ Clause(f.commitment # Nil, iv.commitment = f.commitment)
                     /\ Clause(f.task # Nil, iv.task = f.task)
                     /\ Clause(f.statuses # {}, iv.status \in f.statuses)
                     /\ Clause(f.since # 0, iv.triggeredAt >= f.since),
         LAMBDA iv : <<-iv.triggeredAt>>, f.limit)

SaveGoal(db, id, g) ==
  [db EXCEPT !.goals = Upsert(@, id, [g EXCEPT !.refs = encJSON(@)],
                              {"status", "refs", "updated"})]

GetGoal(db, id) == Get(db.goals, id, scanGoal)

ListByOwner(db, owner, n) ==
  Select(db.goals, LAMBDA g : g.owner = owner, LAMBDA g : <<-g.created>>, n)

SaveTask(db, id, t) ==
  IF References(Column(t.goal), db.goals) /\ References(Column(t.commitment), db.commitments)
    THEN [db EXCEPT !.tasks =
            Upsert(@, id, [t EXCEPT !.goal = Column(@), !.commitment = Column(@),
                                    !.assignedTo = Column(@)],
                   {"goal", "commitment", "assignedTo", "status", "updated"})]
    ELSE db

GetTask(db, id) == Get(db.tasks, id, scanTask)

ListTasks(db, f) ==
  Select(db.tasks,
         LAMBDA t : /\ Clause(f.goal # Nil, t.goal = f.goal)
                    /\ Clause(f.commitment # Nil, t.commitment = f.commitment)
                    /\ Clause(f.assignedTo # Nil, t.assignedTo = f.assignedTo)
                    /\ Clause(f.statuses # {}, t.status \in f.statuses),
         LAMBDA t : <<t.created>>, f.limit)
=============================================================================
