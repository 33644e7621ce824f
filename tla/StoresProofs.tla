---------------------------- MODULE StoresProofs ----------------------------
(***************************************************************************)
(* Proofs about the three stores.  Mirror says that a memory database and  *)
(* a SQL one hold the same rows, each in its own encoding; every Save      *)
(* keeps it, and two databases it relates answer every query alike.  That  *)
(* the columns outside an upsert's SET clause never change is what makes   *)
(* it inductive, and so is what a resolve handler (Holding) and a client   *)
(* that moves a row (Carried) hold of it.                                  *)
(***************************************************************************)
EXTENDS Stores, InterventionsProofs, FiniteSetTheorems

(* A Save of the PostgreSQL store writes the row that the SQLite one       *)
(* writes.                                                                 *)
LEMMA PostgresWrites ==
  \A d, i, r, n, t :
    /\ Pg!SaveCommitment(d, i, r) = Lite!SaveCommitment(d, i, r)
    /\ Pg!UpdateRisk(d, i, n, t) = Lite!UpdateRisk(d, i, n, t)
    /\ Pg!SaveDecision(d, i, r) = Lite!SaveDecision(d, i, r)
    /\ Pg!SaveIntervention(d, i, r) = Lite!SaveIntervention(d, i, r)
    /\ Pg!SaveGoal(d, i, r) = Lite!SaveGoal(d, i, r)
    /\ Pg!SaveTask(d, i, r) = Lite!SaveTask(d, i, r)
BY DEF Pg!SaveCommitment, Lite!SaveCommitment, Pg!UpdateRisk, Lite!UpdateRisk,
   Pg!SaveDecision, Lite!SaveDecision, Pg!SaveIntervention, Lite!SaveIntervention,
   Pg!SaveGoal, Lite!SaveGoal, Pg!SaveTask, Lite!SaveTask,
   Pg!Insert, Lite!Insert, Pg!InsertNew, Lite!InsertNew, Pg!Upsert, Lite!Upsert,
   Pg!References, Lite!References, Pg!encJSON, Lite!encJSON,
   Pg!nullUUID, Pg!nullString, Lite!Column

(* A Get of the PostgreSQL store scans a row as the SQLite one does.       *)
LEMMA PostgresGets ==
  \A d, i :
    /\ Pg!GetCommitment(d, i) = Lite!GetCommitment(d, i)
    /\ Pg!GetDecision(d, i) = Lite!GetDecision(d, i)
    /\ Pg!GetIntervention(d, i) = Lite!GetIntervention(d, i)
    /\ Pg!GetGoal(d, i) = Lite!GetGoal(d, i)
    /\ Pg!GetTask(d, i) = Lite!GetTask(d, i)
BY DEF Pg!GetCommitment, Lite!GetCommitment, Pg!GetDecision, Lite!GetDecision,
   Pg!GetIntervention, Lite!GetIntervention, Pg!GetGoal, Lite!GetGoal, Pg!GetTask, Lite!GetTask,
   Pg!Get, Lite!Get, Pg!NotFound, Lite!NotFound, Pg!scanCommitment, Lite!scanCommitment,
   Pg!scanDecision, Lite!scanDecision, Pg!scanIntervention, Lite!scanIntervention,
   Pg!scanGoal, Lite!scanGoal, Pg!scanTask, Lite!scanTask,
   Pg!decJSON, Lite!decJSON, Pg!uuidPtr, Pg!stringPtr, Lite!stringPtr

(* The two SQL stores answer a list with the same query.                   *)
LEMMA PostgresLists ==
  \A d, f, n, v :
    /\ Pg!ListCommitments(d, f) = Lite!ListCommitments(d, f)
    /\ Pg!FindActive(d, n) = Lite!FindActive(d, n)
    /\ Pg!ListBySubject(d, v, n) = Lite!ListBySubject(d, v, n)
    /\ Pg!ListInterventions(d, f) = Lite!ListInterventions(d, f)
    /\ Pg!ListByOwner(d, v, n) = Lite!ListByOwner(d, v, n)
    /\ Pg!ListTasks(d, f) = Lite!ListTasks(d, f)
BY DEF Pg!ListCommitments, Lite!ListCommitments, Pg!FindActive, Lite!FindActive,
   Pg!ListBySubject, Lite!ListBySubject, Pg!ListInterventions, Lite!ListInterventions,
   Pg!ListByOwner, Lite!ListByOwner, Pg!ListTasks, Lite!ListTasks,
   Pg!Select, Lite!Select, Pg!Sorted, Lite!Sorted, Pg!First, Lite!First,
   Pg!Precedes, Lite!Precedes, Pg!Clause, Lite!Clause,
   Pg!SetToSeqs, Lite!SetToSeqs, Pg!Cardinality, Lite!Cardinality
-----------------------------------------------------------------------------
(* The rows the clients write, and what the SQL stores keep of them: a nil *)
(* slice is the JSON text null, an absent reference or map is NULL.        *)
Refs == {"nil", "some"}

CommitmentRows ==
  [owner : Owners, due : Nat, status : CommitmentStatus, risk : Nat,
   evaluatedAt : Nat, created : Nat, updated : Nat, refs : Refs]
CommitmentCode ==
  [r \in CommitmentRows |->
     [owner |-> r.owner, due |-> r.due, status |-> r.status, risk |-> r.risk,
      evaluatedAt |-> r.evaluatedAt, created |-> r.created, updated |-> r.updated,
      refs |-> IF r.refs = "nil" THEN "null" ELSE r.refs]]

Outcomes == [considered : Nat, saved : SUBSET Cs, dropped : Nat] \cup [commitment : Cs]
DecisionRows ==
  [subject : Subjects, refs : Refs, weights : Refs, created : Nat, form : {"go"},
   outcome : Outcomes]
DecisionCode ==
  [r \in DecisionRows |->
     [subject |-> r.subject, refs |-> IF r.refs = "nil" THEN "null" ELSE r.refs,
      weights |-> IF r.weights = "nil" THEN "NULL" ELSE r.weights,
      created |-> r.created, form |-> "json", outcome |-> r.outcome]]

(* A decision as it comes back from JSON.                                  *)
Decoded(r) == [r EXCEPT !.form = "any"]

InterventionRows ==
  [commitment : Cs, task : {Nil}, status : InterventionStatus, triggeredAt : Nat,
   resolvedAt : Nat, action : {"nil"}]
InterventionCode ==
  [r \in InterventionRows |->
     [commitment |-> r.commitment, task |-> "NULL", status |-> r.status,
      triggeredAt |-> r.triggeredAt, resolvedAt |-> r.resolvedAt, action |-> "NULL"]]

GoalRows ==
  [owner : Owners, status : GoalStatus, created : Nat, updated : Nat, refs : Refs]
GoalCode ==
  [r \in GoalRows |->
     [owner |-> r.owner, status |-> r.status, created |-> r.created, updated |-> r.updated,
      refs |-> IF r.refs = "nil" THEN "null" ELSE r.refs]]

TaskRows ==
  [goal : Goals \cup {Nil}, commitment : Cs \cup {Nil}, assignedTo : {"agent", Nil},
   status : TaskStatus, created : Nat, updated : Nat]
TaskCode ==
  [r \in TaskRows |->
     [goal |-> Lite!Column(r.goal), commitment |-> Lite!Column(r.commitment),
      assignedTo |-> Lite!Column(r.assignedTo),
      status |-> r.status, created |-> r.created, updated |-> r.updated]]

(* Encoding a row and scanning it back is the identity, and so is cloning. *)
LEMMA CommitmentRoundTrip ==
  ASSUME NEW r \in CommitmentRows
  PROVE  /\ [r EXCEPT !.refs = Lite!encJSON(@)] = CommitmentCode[r]
         /\ Mem!cloneCommitment(r) = r
         /\ Lite!scanCommitment(CommitmentCode[r]) = r
         /\ "status" \in DOMAIN r
<1>1. [r EXCEPT !.refs = Lite!encJSON(@)] = CommitmentCode[r]
  BY DEF CommitmentRows, CommitmentCode, Lite!encJSON, Refs
<1>2. Mem!cloneCommitment(r) = r
  BY DEF CommitmentRows, Mem!cloneCommitment, Mem!Copied, Refs
<1>3. Lite!scanCommitment(CommitmentCode[r]) = r
  BY DEF CommitmentRows, CommitmentCode, Lite!scanCommitment, Lite!decJSON, Refs
<1>4. "status" \in DOMAIN r
  BY DEF CommitmentRows
<1>5. QED
  BY <1>1, <1>2, <1>3, <1>4

(* A decision's weights are NULL when there are none, and its inputs and   *)
(* outcome come back in another form.                                      *)
LEMMA DecisionRoundTrip ==
  ASSUME NEW r \in DecisionRows
  PROVE  /\ [r EXCEPT !.form = "json", !.refs = Lite!encJSON(@),
                      !.weights = IF @ \in {"nil", "empty"} THEN "NULL" ELSE @]
              = DecisionCode[r]
         /\ Mem!cloneDecision(r) = r
         /\ Lite!scanDecision(DecisionCode[r]) = Decoded(r)
         /\ "subject" \in DOMAIN r /\ "subject" \in DOMAIN Decoded(r)
         /\ [r EXCEPT !.form = "json"] = [Decoded(r) EXCEPT !.form = "json"]
<1> USE DEF DecisionRows, DecisionCode, Refs
<1>1. [r EXCEPT !.form = "json", !.refs = Lite!encJSON(@),
                !.weights = IF @ \in {"nil", "empty"} THEN "NULL" ELSE @] = DecisionCode[r]
  <2> DEFINE one == [r EXCEPT !.form = "json"]
             two == [one EXCEPT !.refs = Lite!encJSON(r.refs)]
             three == [two EXCEPT !.weights = IF r.weights \in {"nil", "empty"} THEN "NULL"
                                              ELSE r.weights]
  <2>1. one = [subject |-> r.subject, refs |-> r.refs, weights |-> r.weights,
               created |-> r.created, form |-> "json", outcome |-> r.outcome]
    OBVIOUS
  <2> HIDE DEF one
  <2>2. two = [subject |-> r.subject, refs |-> Lite!encJSON(r.refs), weights |-> r.weights,
               created |-> r.created, form |-> "json", outcome |-> r.outcome]
    BY <2>1
  <2> HIDE DEF two
  <2>3. three = DecisionCode[r]
    BY <2>2 DEF Lite!encJSON
  <2>4. QED
    BY <2>3, Zenon DEF one, two
<1>2. Mem!cloneDecision(r) = r
  BY DEF Mem!cloneDecision, Mem!Copied
<1>3. Decoded(r) = [subject |-> r.subject, refs |-> r.refs, weights |-> r.weights,
                    created |-> r.created, form |-> "any", outcome |-> r.outcome]
  BY DEF Decoded
<1>4. Lite!scanDecision(DecisionCode[r]) = Decoded(r)
  <2> DEFINE code == DecisionCode[r]
             one == [code EXCEPT !.form = "any"]
             two == [one EXCEPT !.refs = Lite!decJSON(code.refs)]
             three == [two EXCEPT !.weights = IF code.weights = "NULL" THEN "nil"
                                              ELSE Lite!decJSON(code.weights)]
  <2>1. /\ code.refs = IF r.refs = "nil" THEN "null" ELSE r.refs
        /\ code.weights = IF r.weights = "nil" THEN "NULL" ELSE r.weights
        /\ code = [subject |-> r.subject, refs |-> code.refs, weights |-> code.weights,
                   created |-> r.created, form |-> "json", outcome |-> r.outcome]
    OBVIOUS
  <2> HIDE DEF code
  <2>2. one = [subject |-> r.subject, refs |-> code.refs, weights |-> code.weights,
               created |-> r.created, form |-> "any", outcome |-> r.outcome]
    BY <2>1
  <2> HIDE DEF one
  <2>3. two = [subject |-> r.subject, refs |-> r.refs, weights |-> code.weights,
               created |-> r.created, form |-> "any", outcome |-> r.outcome]
    BY <2>1, <2>2 DEF Lite!decJSON
  <2> HIDE DEF two
  <2>4. three = Decoded(r)
    BY <1>3, <2>1, <2>3 DEF Lite!decJSON
  <2>5. QED
    BY <2>4, Zenon DEF one, two, code, Lite!scanDecision
<1>5. "subject" \in DOMAIN r /\ "subject" \in DOMAIN Decoded(r)
  BY <1>3
<1>6. [r EXCEPT !.form = "json"] = [Decoded(r) EXCEPT !.form = "json"]
  BY <1>3
<1>7. QED
  BY <1>1, <1>2, <1>4, <1>5, <1>6

(* An intervention's optional columns, NULL and back to nil.               *)
LEMMA InterventionRoundTrip ==
  ASSUME NEW r \in InterventionRows
  PROVE  /\ [r EXCEPT !.commitment = Lite!Column(@), !.task = Lite!Column(@),
                      !.action = IF @ = "nil" THEN "NULL" ELSE Lite!encJSON(@)]
              = InterventionCode[r]
         /\ Lite!scanIntervention(InterventionCode[r]) = r
         /\ "status" \in DOMAIN r
<1> USE StoreInputs DEF InterventionRows, InterventionCode
<1>1. [r EXCEPT !.commitment = Lite!Column(@), !.task = Lite!Column(@),
                !.action = IF @ = "nil" THEN "NULL" ELSE Lite!encJSON(@)]
        = InterventionCode[r]
  <2> DEFINE one == [r EXCEPT !.commitment = Lite!Column(@)]
             two == [one EXCEPT !.task = Lite!Column(r.task)]
             three == [two EXCEPT !.action = IF r.action = "nil" THEN "NULL"
                                             ELSE Lite!encJSON(r.action)]
  <2>1. one = r
    BY DEF Lite!Column
  <2> HIDE DEF one
  <2>2. two = [commitment |-> r.commitment, task |-> "NULL", status |-> r.status,
               triggeredAt |-> r.triggeredAt, resolvedAt |-> r.resolvedAt, action |-> "nil"]
    BY <2>1 DEF Lite!Column
  <2> HIDE DEF two
  <2>3. three = InterventionCode[r]
    BY <2>2
  <2>4. QED
    BY <2>3, Zenon DEF one, two
<1>2. Lite!scanIntervention(InterventionCode[r]) = r
  <2> DEFINE code == InterventionCode[r]
             one == [code EXCEPT !.commitment = Lite!stringPtr(@)]
             two == [one EXCEPT !.task = Lite!stringPtr(code.task)]
             three == [two EXCEPT !.action = IF code.action = "NULL" THEN "nil"
                                             ELSE Lite!decJSON(code.action)]
  <2>1. /\ code.commitment = r.commitment /\ code.task = "NULL" /\ code.action = "NULL"
        /\ code = [commitment |-> r.commitment, task |-> "NULL", status |-> r.status,
                   triggeredAt |-> r.triggeredAt, resolvedAt |-> r.resolvedAt,
                   action |-> "NULL"]
    OBVIOUS
  <2> HIDE DEF code
  <2>2. one = [commitment |-> r.commitment, task |-> "NULL", status |-> r.status,
               triggeredAt |-> r.triggeredAt, resolvedAt |-> r.resolvedAt,
               action |-> "NULL"]
    BY <2>1 DEF Lite!stringPtr
  <2> HIDE DEF one
  <2>3. two = [commitment |-> r.commitment, task |-> Nil, status |-> r.status,
               triggeredAt |-> r.triggeredAt, resolvedAt |-> r.resolvedAt,
               action |-> "NULL"]
    BY <2>1, <2>2 DEF Lite!stringPtr
  <2> HIDE DEF two
  <2>4. three = r
    BY <2>1, <2>3
  <2>5. QED
    BY <2>4, Zenon DEF one, two, code, Lite!scanIntervention
<1>3. "status" \in DOMAIN r
  OBVIOUS
<1>4. QED
  BY <1>1, <1>2, <1>3

(* A goal, encoded and scanned back.                                       *)
LEMMA GoalRoundTrip ==
  ASSUME NEW r \in GoalRows
  PROVE  /\ [r EXCEPT !.refs = Lite!encJSON(@)] = GoalCode[r]
         /\ Mem!cloneGoal(r) = r
         /\ Lite!scanGoal(GoalCode[r]) = r
         /\ "status" \in DOMAIN r
<1> USE DEF GoalRows, GoalCode, Refs
<1>1. [r EXCEPT !.refs = Lite!encJSON(@)] = GoalCode[r]
  BY DEF Lite!encJSON
<1>2. Mem!cloneGoal(r) = r
  BY DEF Mem!cloneGoal, Mem!Copied
<1>3. Lite!scanGoal(GoalCode[r]) = r
  BY DEF Lite!scanGoal, Lite!decJSON
<1>4. "status" \in DOMAIN r
  OBVIOUS
<1>5. QED
  BY <1>1, <1>2, <1>3, <1>4

(* A task's optional columns, NULL and back to nil.                        *)
LEMMA TaskRoundTrip ==
  ASSUME NEW r \in TaskRows
  PROVE  /\ [r EXCEPT !.goal = Lite!Column(@), !.commitment = Lite!Column(@),
                      !.assignedTo = Lite!Column(@)] = TaskCode[r]
         /\ Lite!scanTask(TaskCode[r]) = r
         /\ "status" \in DOMAIN r
<1> USE DEF TaskRows, TaskCode
<1>1. [r EXCEPT !.goal = Lite!Column(@), !.commitment = Lite!Column(@),
                !.assignedTo = Lite!Column(@)] = TaskCode[r]
  <2> DEFINE one == [r EXCEPT !.goal = Lite!Column(@)]
             two == [one EXCEPT !.commitment = Lite!Column(r.commitment)]
             three == [two EXCEPT !.assignedTo = Lite!Column(r.assignedTo)]
  <2>1. one = [goal |-> Lite!Column(r.goal), commitment |-> r.commitment,
               assignedTo |-> r.assignedTo, status |-> r.status,
               created |-> r.created, updated |-> r.updated]
    OBVIOUS
  <2> HIDE DEF one
  <2>2. two = [goal |-> Lite!Column(r.goal), commitment |-> Lite!Column(r.commitment),
               assignedTo |-> r.assignedTo, status |-> r.status,
               created |-> r.created, updated |-> r.updated]
    BY <2>1
  <2> HIDE DEF two
  <2>3. three = TaskCode[r]
    BY <2>2
  <2>4. QED
    BY <2>3, Zenon DEF one, two
<1>2. \A x \in {r.goal, r.commitment, r.assignedTo} : Lite!stringPtr(Lite!Column(x)) = x
  BY StoreInputs DEF Lite!stringPtr, Lite!Column
<1>3. Lite!scanTask(TaskCode[r]) = r
  <2> DEFINE code == TaskCode[r]
             one == [code EXCEPT !.goal = Lite!stringPtr(@)]
             two == [one EXCEPT !.commitment = Lite!stringPtr(code.commitment)]
             three == [two EXCEPT !.assignedTo = Lite!stringPtr(code.assignedTo)]
  <2>1. /\ code.goal = Lite!Column(r.goal) /\ code.commitment = Lite!Column(r.commitment)
        /\ code.assignedTo = Lite!Column(r.assignedTo)
        /\ code = [goal |-> code.goal, commitment |-> code.commitment,
                   assignedTo |-> code.assignedTo, status |-> r.status,
                   created |-> r.created, updated |-> r.updated]
    OBVIOUS
  <2> HIDE DEF code
  <2>2. one = [goal |-> r.goal, commitment |-> code.commitment,
               assignedTo |-> code.assignedTo, status |-> r.status,
               created |-> r.created, updated |-> r.updated]
    BY <1>2, <2>1
  <2> HIDE DEF one
  <2>3. two = [goal |-> r.goal, commitment |-> r.commitment,
               assignedTo |-> code.assignedTo, status |-> r.status,
               created |-> r.created, updated |-> r.updated]
    BY <1>2, <2>1, <2>2
  <2> HIDE DEF two
  <2>4. three = r
    BY <1>2, <2>1, <2>3
  <2>5. QED
    BY <2>4, Zenon DEF one, two, code, Lite!scanTask
<1>4. "status" \in DOMAIN r
  OBVIOUS
<1>5. QED
  BY <1>1, <1>3, <1>4

(* The columns that hold a field as it is.                                 *)
LEMMA KeptColumns ==
  /\ DOMAIN CommitmentCode = CommitmentRows /\ DOMAIN DecisionCode = DecisionRows
  /\ DOMAIN InterventionCode = InterventionRows
  /\ DOMAIN GoalCode = GoalRows /\ DOMAIN TaskCode = TaskRows
  /\ \A r \in CommitmentRows :
       /\ CommitmentCode[r].owner = r.owner /\ CommitmentCode[r].due = r.due
       /\ CommitmentCode[r].status = r.status /\ CommitmentCode[r].risk = r.risk
       /\ CommitmentCode[r].created = r.created
  /\ \A r \in DecisionRows :
       /\ DecisionCode[r].subject = r.subject /\ DecisionCode[r].created = r.created
       /\ DecisionCode[r].outcome = r.outcome
  /\ \A r \in InterventionRows :
       /\ InterventionCode[r].commitment = r.commitment /\ InterventionCode[r].task = "NULL"
       /\ InterventionCode[r].status = r.status
       /\ InterventionCode[r].triggeredAt = r.triggeredAt
  /\ \A r \in GoalRows :
       /\ GoalCode[r].owner = r.owner /\ GoalCode[r].created = r.created
  /\ \A r \in TaskRows :
       /\ TaskCode[r].goal = Lite!Column(r.goal)
       /\ TaskCode[r].commitment = Lite!Column(r.commitment)
       /\ TaskCode[r].assignedTo = Lite!Column(r.assignedTo)
       /\ TaskCode[r].status = r.status /\ TaskCode[r].created = r.created
BY DEF CommitmentCode, DecisionCode, InterventionCode, GoalCode, TaskCode
-----------------------------------------------------------------------------
(* A table of the memory store and the SQL table that holds the same rows. *)
Same(m, s, Ids, code) ==
  /\ DOMAIN m \subseteq Ids /\ DOMAIN s = DOMAIN m
  /\ \A k \in DOMAIN m : m[k] \in DOMAIN code /\ s[k] = code[m[k]]

(* Two databases with the same rows and no dangling reference.             *)
Mirror(m, s) ==
  /\ m = [commitments |-> m.commitments, decisions |-> m.decisions,
          interventions |-> m.interventions, goals |-> m.goals, tasks |-> m.tasks]
  /\ s = [commitments |-> s.commitments, decisions |-> s.decisions,
          interventions |-> s.interventions, goals |-> s.goals, tasks |-> s.tasks]
  /\ Same(m.commitments, s.commitments, Cs, CommitmentCode)
  /\ Same(m.decisions, s.decisions, Decs, DecisionCode)
  /\ Same(m.interventions, s.interventions, Ivs, InterventionCode)
  /\ Same(m.goals, s.goals, Goals, GoalCode)
  /\ Same(m.tasks, s.tasks, Tasks, TaskCode)
  /\ \A i \in DOMAIN m.interventions :
       m.interventions[i].commitment \in DOMAIN m.commitments
  /\ \A t \in DOMAIN m.tasks :
       /\ m.tasks[t].goal \in DOMAIN m.goals \cup {Nil}
       /\ m.tasks[t].commitment \in DOMAIN m.commitments \cup {Nil}

(* The rows of two such databases.                                         *)
LEMMA MirrorRows ==
  ASSUME NEW m, NEW s, Mirror(m, s)
  PROVE  /\ DOMAIN m.commitments \subseteq Cs /\ DOMAIN s.commitments = DOMAIN m.commitments
         /\ \A k \in DOMAIN m.commitments :
              /\ m.commitments[k] \in CommitmentRows
              /\ s.commitments[k] = CommitmentCode[m.commitments[k]]
         /\ DOMAIN m.decisions \subseteq Decs /\ DOMAIN s.decisions = DOMAIN m.decisions
         /\ \A k \in DOMAIN m.decisions :
              /\ m.decisions[k] \in DecisionRows
              /\ s.decisions[k] = DecisionCode[m.decisions[k]]
         /\ DOMAIN m.interventions \subseteq Ivs
         /\ DOMAIN s.interventions = DOMAIN m.interventions
         /\ \A k \in DOMAIN m.interventions :
              /\ m.interventions[k] \in InterventionRows
              /\ s.interventions[k] = InterventionCode[m.interventions[k]]
         /\ DOMAIN m.goals \subseteq Goals /\ DOMAIN s.goals = DOMAIN m.goals
         /\ \A k \in DOMAIN m.goals :
              /\ m.goals[k] \in GoalRows /\ s.goals[k] = GoalCode[m.goals[k]]
         /\ DOMAIN m.tasks \subseteq Tasks /\ DOMAIN s.tasks = DOMAIN m.tasks
         /\ \A k \in DOMAIN m.tasks :
              /\ m.tasks[k] \in TaskRows /\ s.tasks[k] = TaskCode[m.tasks[k]]
BY KeptColumns DEF Mirror, Same

(* Inserting a row and its code keeps two tables the same.                 *)
LEMMA SameInsert ==
  ASSUME NEW m, NEW s, NEW Ids, NEW code, Same(m, s, Ids, code),
         NEW id \in Ids, NEW r \in DOMAIN code
  PROVE  Same(Mem!Insert(m, id, r), Lite!Insert(s, id, code[r]), Ids, code)
BY DEF Same, Mem!Insert, Lite!Insert

(* An upsert replaces the whole row when the columns outside its SET       *)
(* clause do not change.                                                   *)
LEMMA UpsertReplaces ==
  ASSUME NEW t, NEW id, NEW cols, NEW r, r = [c \in DOMAIN r |-> r[c]],
         id \in DOMAIN t => \A c \in DOMAIN r \ cols : t[id][c] = r[c]
  PROVE  Lite!Upsert(t, id, r, cols) = Lite!Insert(t, id, r)
<1>1. [c \in DOMAIN r |-> IF id \in DOMAIN t /\ c \notin cols THEN t[id][c] ELSE r[c]] = r
  OBVIOUS
<1>2. QED
  BY <1>1 DEF Lite!Upsert

(* Replacing the commitments of both databases: no row may vanish, for     *)
(* interventions and tasks refer to it.                                    *)
LEMMA MirrorCommitments ==
  ASSUME NEW m, NEW s, Mirror(m, s), NEW M, NEW S,
         Same(M, S, Cs, CommitmentCode), DOMAIN m.commitments \subseteq DOMAIN M
  PROVE  Mirror([m EXCEPT !.commitments = M], [s EXCEPT !.commitments = S])
<1> DEFINE m1 == [m EXCEPT !.commitments = M]
           s1 == [s EXCEPT !.commitments = S]
<1>1. m1 = [commitments |-> M, decisions |-> m.decisions,
            interventions |-> m.interventions, goals |-> m.goals, tasks |-> m.tasks]
  BY DEF Mirror
<1>2. s1 = [commitments |-> S, decisions |-> s.decisions,
            interventions |-> s.interventions, goals |-> s.goals, tasks |-> s.tasks]
  BY DEF Mirror
<1> HIDE DEF m1, s1
<1>3. Mirror(m1, s1)
  BY <1>1, <1>2 DEF Mirror
<1>4. QED
  BY <1>3 DEF m1, s1

(* Replacing the decisions of both databases.                              *)
LEMMA MirrorDecisions ==
  ASSUME NEW m, NEW s, Mirror(m, s), NEW M, NEW S, Same(M, S, Decs, DecisionCode)
  PROVE  Mirror([m EXCEPT !.decisions = M], [s EXCEPT !.decisions = S])
<1> DEFINE m1 == [m EXCEPT !.decisions = M]
           s1 == [s EXCEPT !.decisions = S]
<1>1. m1 = [commitments |-> m.commitments, decisions |-> M,
            interventions |-> m.interventions, goals |-> m.goals, tasks |-> m.tasks]
  BY DEF Mirror
<1>2. s1 = [commitments |-> s.commitments, decisions |-> S,
            interventions |-> s.interventions, goals |-> s.goals, tasks |-> s.tasks]
  BY DEF Mirror
<1> HIDE DEF m1, s1
<1>3. Mirror(m1, s1)
  BY <1>1, <1>2 DEF Mirror
<1>4. QED
  BY <1>3 DEF m1, s1

(* Replacing the interventions: each refers to a commitment.               *)
LEMMA MirrorInterventions ==
  ASSUME NEW m, NEW s, Mirror(m, s), NEW M, NEW S, Same(M, S, Ivs, InterventionCode),
         \A i \in DOMAIN M : M[i].commitment \in DOMAIN m.commitments
  PROVE  Mirror([m EXCEPT !.interventions = M], [s EXCEPT !.interventions = S])
<1> DEFINE m1 == [m EXCEPT !.interventions = M]
           s1 == [s EXCEPT !.interventions = S]
<1>1. m1 = [commitments |-> m.commitments, decisions |-> m.decisions,
            interventions |-> M, goals |-> m.goals, tasks |-> m.tasks]
  BY DEF Mirror
<1>2. s1 = [commitments |-> s.commitments, decisions |-> s.decisions,
            interventions |-> S, goals |-> s.goals, tasks |-> s.tasks]
  BY DEF Mirror
<1> HIDE DEF m1, s1
<1>3. Mirror(m1, s1)
  BY <1>1, <1>2 DEF Mirror
<1>4. QED
  BY <1>3 DEF m1, s1

(* Replacing the goals: no row may vanish, for tasks refer to it.          *)
LEMMA MirrorGoals ==
  ASSUME NEW m, NEW s, Mirror(m, s), NEW M, NEW S,
         Same(M, S, Goals, GoalCode), DOMAIN m.goals \subseteq DOMAIN M
  PROVE  Mirror([m EXCEPT !.goals = M], [s EXCEPT !.goals = S])
<1> DEFINE m1 == [m EXCEPT !.goals = M]
           s1 == [s EXCEPT !.goals = S]
<1>1. m1 = [commitments |-> m.commitments, decisions |-> m.decisions,
            interventions |-> m.interventions, goals |-> M, tasks |-> m.tasks]
  BY DEF Mirror
<1>2. s1 = [commitments |-> s.commitments, decisions |-> s.decisions,
            interventions |-> s.interventions, goals |-> S, tasks |-> s.tasks]
  BY DEF Mirror
<1> HIDE DEF m1, s1
<1>3. Mirror(m1, s1)
  BY <1>1, <1>2 DEF Mirror
<1>4. QED
  BY <1>3 DEF m1, s1

(* Replacing the tasks: each refers to rows that exist.                    *)
LEMMA MirrorTasks ==
  ASSUME NEW m, NEW s, Mirror(m, s), NEW M, NEW S, Same(M, S, Tasks, TaskCode),
         \A t \in DOMAIN M : /\ M[t].goal \in DOMAIN m.goals \cup {Nil}
                             /\ M[t].commitment \in DOMAIN m.commitments \cup {Nil}
  PROVE  Mirror([m EXCEPT !.tasks = M], [s EXCEPT !.tasks = S])
<1> DEFINE m1 == [m EXCEPT !.tasks = M]
           s1 == [s EXCEPT !.tasks = S]
<1>1. m1 = [commitments |-> m.commitments, decisions |-> m.decisions,
            interventions |-> m.interventions, goals |-> m.goals, tasks |-> M]
  BY DEF Mirror
<1>2. s1 = [commitments |-> s.commitments, decisions |-> s.decisions,
            interventions |-> s.interventions, goals |-> s.goals, tasks |-> S]
  BY DEF Mirror
<1> HIDE DEF m1, s1
<1>3. Mirror(m1, s1)
  BY <1>1, <1>2 DEF Mirror
<1>4. QED
  BY <1>3 DEF m1, s1
-----------------------------------------------------------------------------
(* What a Get answers, from either database.                               *)
Found(t, id) == IF id \in DOMAIN t THEN t[id] ELSE <<>>

(* A Get of the memory and of the SQLite store finds the same row; a       *)
(* decision comes back decoded.                                            *)
LEMMA SameGets ==
  ASSUME NEW m, NEW s, Mirror(m, s), NEW id
  PROVE  /\ Mem!GetCommitment(m, id) = Found(m.commitments, id)
         /\ Lite!GetCommitment(s, id) = Found(m.commitments, id)
         /\ Mem!GetDecision(m, id) = Found(m.decisions, id)
         /\ Lite!GetDecision(s, id) =
              IF id \in DOMAIN m.decisions THEN Decoded(m.decisions[id]) ELSE <<>>
         /\ Mem!GetIntervention(m, id) = Found(m.interventions, id)
         /\ Lite!GetIntervention(s, id) = Found(m.interventions, id)
         /\ Mem!GetGoal(m, id) = Found(m.goals, id)
         /\ Lite!GetGoal(s, id) = Found(m.goals, id)
         /\ Mem!GetTask(m, id) = Found(m.tasks, id)
         /\ Lite!GetTask(s, id) = Found(m.tasks, id)
<1> USE DEF Found, Lite!Get, Lite!NotFound, Mem!NotFound
<1>1. /\ Mem!GetCommitment(m, id) = Found(m.commitments, id)
      /\ Lite!GetCommitment(s, id) = Found(m.commitments, id)
  <2>1. /\ DOMAIN s.commitments = DOMAIN m.commitments
        /\ id \in DOMAIN m.commitments =>
             /\ m.commitments[id] \in CommitmentRows
             /\ s.commitments[id] = CommitmentCode[m.commitments[id]]
    BY MirrorRows
  <2>2. id \in DOMAIN m.commitments =>
          /\ Mem!cloneCommitment(m.commitments[id]) = m.commitments[id]
          /\ Lite!scanCommitment(s.commitments[id]) = m.commitments[id]
    BY <2>1, CommitmentRoundTrip
  <2>3. QED
    BY <2>1, <2>2 DEF Mem!GetCommitment, Lite!GetCommitment
<1>2. /\ Mem!GetDecision(m, id) = Found(m.decisions, id)
      /\ Lite!GetDecision(s, id) =
           IF id \in DOMAIN m.decisions THEN Decoded(m.decisions[id]) ELSE <<>>
  <2>1. /\ DOMAIN s.decisions = DOMAIN m.decisions
        /\ id \in DOMAIN m.decisions =>
             /\ m.decisions[id] \in DecisionRows
             /\ s.decisions[id] = DecisionCode[m.decisions[id]]
    BY MirrorRows
  <2>2. id \in DOMAIN m.decisions =>
          /\ Mem!cloneDecision(m.decisions[id]) = m.decisions[id]
          /\ Lite!scanDecision(s.decisions[id]) = Decoded(m.decisions[id])
    BY <2>1, DecisionRoundTrip
  <2>3. QED
    BY <2>1, <2>2 DEF Mem!GetDecision, Lite!GetDecision
<1>3. /\ Mem!GetIntervention(m, id) = Found(m.interventions, id)
      /\ Lite!GetIntervention(s, id) = Found(m.interventions, id)
  <2>1. /\ DOMAIN s.interventions = DOMAIN m.interventions
        /\ id \in DOMAIN m.interventions =>
             /\ m.interventions[id] \in InterventionRows
             /\ s.interventions[id] = InterventionCode[m.interventions[id]]
    BY MirrorRows
  <2>2. id \in DOMAIN m.interventions =>
          /\ Lite!scanIntervention(s.interventions[id]) = m.interventions[id]
    BY <2>1, InterventionRoundTrip
  <2>3. QED
    BY <2>1, <2>2 DEF Mem!GetIntervention, Lite!GetIntervention
<1>4. /\ Mem!GetGoal(m, id) = Found(m.goals, id)
      /\ Lite!GetGoal(s, id) = Found(m.goals, id)
  <2>1. /\ DOMAIN s.goals = DOMAIN m.goals
        /\ id \in DOMAIN m.goals =>
             /\ m.goals[id] \in GoalRows
             /\ s.goals[id] = GoalCode[m.goals[id]]
    BY MirrorRows
  <2>2. id \in DOMAIN m.goals =>
          /\ Mem!cloneGoal(m.goals[id]) = m.goals[id]
          /\ Lite!scanGoal(s.goals[id]) = m.goals[id]
    BY <2>1, GoalRoundTrip
  <2>3. QED
    BY <2>1, <2>2 DEF Mem!GetGoal, Lite!GetGoal
<1>5. /\ Mem!GetTask(m, id) = Found(m.tasks, id)
      /\ Lite!GetTask(s, id) = Found(m.tasks, id)
  <2>1. /\ DOMAIN s.tasks = DOMAIN m.tasks
        /\ id \in DOMAIN m.tasks =>
             /\ m.tasks[id] \in TaskRows
             /\ s.tasks[id] = TaskCode[m.tasks[id]]
    BY MirrorRows
  <2>2. id \in DOMAIN m.tasks =>
          /\ Lite!scanTask(s.tasks[id]) = m.tasks[id]
    BY <2>1, TaskRoundTrip
  <2>3. QED
    BY <2>1, <2>2 DEF Mem!GetTask, Lite!GetTask
<1>6. QED
  BY <1>1, <1>2, <1>3, <1>4, <1>5

(* Each Save of a row keeps the two databases the same.                    *)
LEMMA SavesCommitment ==
  ASSUME NEW m, NEW s, Mirror(m, s), NEW c \in Cs, NEW r \in CommitmentRows,
         c \in DOMAIN m.commitments => r.created = m.commitments[c].created
  PROVE  /\ Mirror(Mem!SaveCommitment(m, c, r), Lite!SaveCommitment(s, c, r))
         /\ Mem!SaveCommitment(m, c, r) =
              [m EXCEPT !.commitments = Mem!Insert(m.commitments, c, r)]
<1> DEFINE e == CommitmentCode[r]
           cols == {"owner", "refs", "due", "status", "risk", "evaluatedAt", "updated"}
<1>1. Mem!SaveCommitment(m, c, r) =
        [m EXCEPT !.commitments = Mem!Insert(m.commitments, c, r)]
  BY CommitmentRoundTrip DEF Mem!SaveCommitment
<1>2. /\ e = [k \in DOMAIN e |-> e[k]] /\ DOMAIN e \ cols = {"created"}
      /\ e["created"] = r.created
  BY DEF CommitmentCode
<1>3. c \in DOMAIN s.commitments => s.commitments[c].created = r.created
  BY MirrorRows, KeptColumns
<1> HIDE DEF e, cols
<1>4. Lite!Upsert(s.commitments, c, e, cols) = Lite!Insert(s.commitments, c, e)
  BY <1>2, <1>3, UpsertReplaces
<1>5. Lite!SaveCommitment(s, c, r) =
        [s EXCEPT !.commitments = Lite!Insert(s.commitments, c, e)]
  BY <1>4, CommitmentRoundTrip DEF Lite!SaveCommitment, e, cols
<1>6. Same(Mem!Insert(m.commitments, c, r), Lite!Insert(s.commitments, c, e), Cs, CommitmentCode)
  BY SameInsert DEF Mirror, e, CommitmentCode
<1>7. DOMAIN m.commitments \subseteq DOMAIN Mem!Insert(m.commitments, c, r)
  BY DEF Mem!Insert
<1>8. QED
  BY <1>1, <1>5, <1>6, <1>7, MirrorCommitments

(* UpdateRisk leaves every status and the other tables as they are.        *)
Kept(m, m1) ==
  /\ DOMAIN m1.commitments = DOMAIN m.commitments
  /\ \A c \in DOMAIN m.commitments : /\ m1.commitments[c].status = m.commitments[c].status
                                     /\ m1.commitments[c].created = m.commitments[c].created
  /\ m1.decisions = m.decisions /\ m1.interventions = m.interventions
  /\ m1.goals = m.goals /\ m1.tasks = m.tasks

(* UpdateRisk on both databases touches three fields of one row.           *)
LEMMA UpdatesRisk ==
  ASSUME NEW m, NEW s, Mirror(m, s), NEW c \in DOMAIN m.commitments,
         NEW score \in Nat, NEW at \in Nat
  PROVE  /\ Mirror(Mem!UpdateRisk(m, c, score, at), Lite!UpdateRisk(s, c, score, at))
         /\ Kept(m, Mem!UpdateRisk(m, c, score, at))
<1> DEFINE Risked(r) == [r EXCEPT !.risk = score, !.evaluatedAt = at, !.updated = at]
           M == [m.commitments EXCEPT ![c] = Risked(m.commitments[c])]
           S == [k \in DOMAIN s.commitments |->
                   IF k = c THEN Risked(s.commitments[k]) ELSE s.commitments[k]]
<1>1. Mem!UpdateRisk(m, c, score, at) = [m EXCEPT !.commitments = M]
  BY DEF Mem!UpdateRisk, Mirror
<1>2. Lite!UpdateRisk(s, c, score, at) = [s EXCEPT !.commitments = S]
  BY DEF Lite!UpdateRisk
<1>3. ASSUME NEW r \in CommitmentRows
      PROVE  /\ Risked(r) \in CommitmentRows
             /\ Risked(r).status = r.status /\ Risked(r).created = r.created
             /\ Risked(CommitmentCode[r]) = CommitmentCode[Risked(r)]
  <2> DEFINE code == CommitmentCode[r]
             Full(q, f) == [owner |-> q.owner, due |-> q.due, status |-> q.status,
                            risk |-> score, evaluatedAt |-> at, created |-> q.created,
                            updated |-> at, refs |-> f]
  <2>1. Risked(r) = Full(r, r.refs)
    <3> DEFINE one == [r EXCEPT !.risk = score]
               two == [one EXCEPT !.evaluatedAt = at]
               three == [two EXCEPT !.updated = at]
    <3>1. one = [owner |-> r.owner, due |-> r.due, status |-> r.status,
                 risk |-> score, evaluatedAt |-> r.evaluatedAt, created |-> r.created,
                 updated |-> r.updated, refs |-> r.refs]
      BY DEF CommitmentRows
    <3> HIDE DEF one
    <3>2. two = [owner |-> r.owner, due |-> r.due, status |-> r.status,
                 risk |-> score, evaluatedAt |-> at, created |-> r.created,
                 updated |-> r.updated, refs |-> r.refs]
      BY <3>1
    <3> HIDE DEF two
    <3>3. three = Full(r, r.refs)
      BY <3>2
    <3>4. QED
      BY <3>3, Zenon DEF one, two
  <2>2. Risked(code) = Full(code, code.refs)
    <3> DEFINE one == [code EXCEPT !.risk = score]
               two == [one EXCEPT !.evaluatedAt = at]
               three == [two EXCEPT !.updated = at]
    <3>1. one = [owner |-> code.owner, due |-> code.due, status |-> code.status,
                 risk |-> score, evaluatedAt |-> code.evaluatedAt, created |-> code.created,
                 updated |-> code.updated, refs |-> code.refs]
      BY DEF CommitmentCode
    <3> HIDE DEF one
    <3>2. two = [owner |-> code.owner, due |-> code.due, status |-> code.status,
                 risk |-> score, evaluatedAt |-> at, created |-> code.created,
                 updated |-> code.updated, refs |-> code.refs]
      BY <3>1
    <3> HIDE DEF two
    <3>3. three = Full(code, code.refs)
      BY <3>2
    <3>4. QED
      BY <3>3, Zenon DEF one, two
  <2> HIDE DEF Risked
  <2>3. /\ Risked(r) \in CommitmentRows
        /\ Risked(r).status = r.status /\ Risked(r).created = r.created
    BY <2>1 DEF CommitmentRows
  <2>4. Full(code, code.refs) = CommitmentCode[Risked(r)]
    BY <2>1, <2>3 DEF CommitmentCode, CommitmentRows
  <2>5. QED
    BY <2>2, <2>3, <2>4
<1> HIDE DEF Risked
<1>4. /\ DOMAIN M = DOMAIN m.commitments
      /\ \A k \in DOMAIN M : M[k] = IF k = c THEN Risked(m.commitments[k]) ELSE m.commitments[k]
  OBVIOUS
<1>5. /\ DOMAIN S = DOMAIN s.commitments
      /\ \A k \in DOMAIN S : S[k] = IF k = c THEN Risked(s.commitments[k]) ELSE s.commitments[k]
  OBVIOUS
<1> HIDE DEF M, S
<1>6. /\ Same(M, S, Cs, CommitmentCode)
      /\ \A k \in DOMAIN M : /\ M[k].status = m.commitments[k].status
                             /\ M[k].created = m.commitments[k].created
  <2>1. DOMAIN M \subseteq Cs /\ DOMAIN S = DOMAIN M /\ DOMAIN CommitmentCode = CommitmentRows
    BY <1>4, <1>5, MirrorRows, KeptColumns
  <2>2. ASSUME NEW k \in DOMAIN M
        PROVE  /\ M[k] \in CommitmentRows /\ S[k] = CommitmentCode[M[k]]
               /\ M[k].status = m.commitments[k].status
               /\ M[k].created = m.commitments[k].created
    <3>1. /\ m.commitments[k] \in CommitmentRows
          /\ s.commitments[k] = CommitmentCode[m.commitments[k]]
      BY <1>4, MirrorRows
    <3>2. CASE k = c
      BY <1>3, <1>4, <1>5, <2>1, <3>1, <3>2
    <3>3. CASE k # c
      BY <1>4, <1>5, <2>1, <3>1, <3>3
    <3>4. QED
      BY <3>2, <3>3
  <2>3. QED
    BY <2>1, <2>2 DEF Same
<1>7. Mirror([m EXCEPT !.commitments = M], [s EXCEPT !.commitments = S])
  BY <1>4, <1>6, MirrorCommitments
<1>8. Kept(m, [m EXCEPT !.commitments = M])
  BY <1>4, <1>6 DEF Mirror, Kept
<1>9. QED
  BY <1>1, <1>2, <1>7, <1>8

(* Save of a new decision, in both databases.                              *)
LEMMA SavesDecision ==
  ASSUME NEW m, NEW s, Mirror(m, s), NEW d \in Decs \ DOMAIN m.decisions, NEW r \in DecisionRows
  PROVE  /\ Mirror(Mem!SaveDecision(m, d, r), Lite!SaveDecision(s, d, r))
         /\ Mem!SaveDecision(m, d, r) =
              [m EXCEPT !.decisions = Mem!Insert(m.decisions, d, r)]
<1>1. Mem!SaveDecision(m, d, r) = [m EXCEPT !.decisions = Mem!Insert(m.decisions, d, r)]
  BY DecisionRoundTrip DEF Mem!SaveDecision
<1>2. d \notin DOMAIN s.decisions
  BY DEF Mirror, Same
<1>3. Lite!SaveDecision(s, d, r) =
        [s EXCEPT !.decisions = Lite!Insert(s.decisions, d, DecisionCode[r])]
  BY <1>2, DecisionRoundTrip DEF Lite!SaveDecision, Lite!InsertNew
<1>4. Same(Mem!Insert(m.decisions, d, r), Lite!Insert(s.decisions, d, DecisionCode[r]),
           Decs, DecisionCode)
  BY SameInsert DEF Mirror, DecisionCode
<1>5. QED
  BY <1>1, <1>3, <1>4, MirrorDecisions

(* Save of an intervention, new or not: the foreign key holds, and the     *)
(* columns that the upsert leaves alone do not change.                     *)
LEMMA SavesIntervention ==
  ASSUME NEW m, NEW s, Mirror(m, s), NEW i \in Ivs, NEW r \in InterventionRows,
         r.commitment \in DOMAIN m.commitments,
         i \in DOMAIN m.interventions =>
           /\ r.commitment = m.interventions[i].commitment
           /\ r.triggeredAt = m.interventions[i].triggeredAt
  PROVE  /\ Mirror(Mem!SaveIntervention(m, i, r), Lite!SaveIntervention(s, i, r))
         /\ Mem!SaveIntervention(m, i, r) =
              [m EXCEPT !.interventions = Mem!Insert(m.interventions, i, r)]
<1> DEFINE e == InterventionCode[r]
           cols == {"action", "status", "resolvedAt"}
<1>1. Mem!SaveIntervention(m, i, r) =
        [m EXCEPT !.interventions = Mem!Insert(m.interventions, i, r)]
  BY DEF Mem!SaveIntervention
<1>2. /\ e = [k \in DOMAIN e |-> e[k]] /\ DOMAIN e \ cols = {"commitment", "task", "triggeredAt"}
      /\ e["commitment"] = r.commitment /\ e["task"] = "NULL"
      /\ e["triggeredAt"] = r.triggeredAt
  BY DEF InterventionCode
<1>3. i \in DOMAIN s.interventions =>
        /\ s.interventions[i].commitment = r.commitment
        /\ s.interventions[i].task = "NULL"
        /\ s.interventions[i].triggeredAt = r.triggeredAt
  BY MirrorRows, KeptColumns
<1>4. /\ Lite!References(Lite!Column(r.commitment), s.commitments)
      /\ Lite!References(Lite!Column(r.task), s.tasks)
  BY StoreInputs DEF Lite!References, Lite!Column, Mirror, Same, InterventionRows
<1> HIDE DEF e, cols
<1>5. Lite!Upsert(s.interventions, i, e, cols) = Lite!Insert(s.interventions, i, e)
  BY <1>2, <1>3, UpsertReplaces
<1>6. Lite!SaveIntervention(s, i, r) =
        [s EXCEPT !.interventions = Lite!Insert(s.interventions, i, e)]
  BY <1>4, <1>5, InterventionRoundTrip DEF Lite!SaveIntervention, e, cols
<1>7. Same(Mem!Insert(m.interventions, i, r), Lite!Insert(s.interventions, i, e),
           Ivs, InterventionCode)
  BY SameInsert DEF Mirror, e, InterventionCode
<1>8. \A k \in DOMAIN Mem!Insert(m.interventions, i, r) :
        Mem!Insert(m.interventions, i, r)[k].commitment \in DOMAIN m.commitments
  BY DEF Mem!Insert, Mirror
<1>9. QED
  BY <1>1, <1>6, <1>7, <1>8, MirrorInterventions

(* Save of a goal: its owner and creation time never change.               *)
LEMMA SavesGoal ==
  ASSUME NEW m, NEW s, Mirror(m, s), NEW g \in Goals, NEW r \in GoalRows,
         g \in DOMAIN m.goals => /\ r.created = m.goals[g].created
                                 /\ r.owner = m.goals[g].owner
  PROVE  /\ Mirror(Mem!SaveGoal(m, g, r), Lite!SaveGoal(s, g, r))
         /\ Mem!SaveGoal(m, g, r) = [m EXCEPT !.goals = Mem!Insert(m.goals, g, r)]
<1> DEFINE e == GoalCode[r]
           cols == {"status", "refs", "updated"}
<1>1. Mem!SaveGoal(m, g, r) = [m EXCEPT !.goals = Mem!Insert(m.goals, g, r)]
  BY GoalRoundTrip DEF Mem!SaveGoal
<1>2. /\ e = [k \in DOMAIN e |-> e[k]] /\ DOMAIN e \ cols = {"owner", "created"}
      /\ e["created"] = r.created /\ e["owner"] = r.owner
  BY DEF GoalCode
<1>3. g \in DOMAIN s.goals => /\ s.goals[g].created = r.created
                              /\ s.goals[g].owner = r.owner
  BY MirrorRows, KeptColumns
<1> HIDE DEF e, cols
<1>4. Lite!Upsert(s.goals, g, e, cols) = Lite!Insert(s.goals, g, e)
  BY <1>2, <1>3, UpsertReplaces
<1>5. Lite!SaveGoal(s, g, r) = [s EXCEPT !.goals = Lite!Insert(s.goals, g, e)]
  BY <1>4, GoalRoundTrip DEF Lite!SaveGoal, e, cols
<1>6. Same(Mem!Insert(m.goals, g, r), Lite!Insert(s.goals, g, e), Goals, GoalCode)
  BY SameInsert DEF Mirror, e, GoalCode
<1>7. DOMAIN m.goals \subseteq DOMAIN Mem!Insert(m.goals, g, r)
  BY DEF Mem!Insert
<1>8. QED
  BY <1>1, <1>5, <1>6, <1>7, MirrorGoals

(* Save of a task: the foreign keys hold.                                  *)
LEMMA SavesTask ==
  ASSUME NEW m, NEW s, Mirror(m, s), NEW t \in Tasks, NEW r \in TaskRows,
         r.goal \in DOMAIN m.goals \cup {Nil},
         r.commitment \in DOMAIN m.commitments \cup {Nil},
         t \in DOMAIN m.tasks => r.created = m.tasks[t].created
  PROVE  /\ Mirror(Mem!SaveTask(m, t, r), Lite!SaveTask(s, t, r))
         /\ Mem!SaveTask(m, t, r) = [m EXCEPT !.tasks = Mem!Insert(m.tasks, t, r)]
<1> DEFINE e == TaskCode[r]
           cols == {"goal", "commitment", "assignedTo", "status", "updated"}
<1>1. Mem!SaveTask(m, t, r) = [m EXCEPT !.tasks = Mem!Insert(m.tasks, t, r)]
  BY DEF Mem!SaveTask
<1>2. /\ e = [k \in DOMAIN e |-> e[k]] /\ DOMAIN e \ cols = {"created"}
      /\ e["created"] = r.created
  BY DEF TaskCode
<1>3. t \in DOMAIN s.tasks => s.tasks[t].created = r.created
  BY MirrorRows, KeptColumns
<1>4. /\ Lite!References(Lite!Column(r.goal), s.goals)
      /\ Lite!References(Lite!Column(r.commitment), s.commitments)
  BY DEF Lite!References, Lite!Column, Mirror, Same
<1> HIDE DEF e, cols
<1>5. Lite!Upsert(s.tasks, t, e, cols) = Lite!Insert(s.tasks, t, e)
  BY <1>2, <1>3, UpsertReplaces
<1>6. Lite!SaveTask(s, t, r) = [s EXCEPT !.tasks = Lite!Insert(s.tasks, t, e)]
  BY <1>4, <1>5, TaskRoundTrip DEF Lite!SaveTask, e, cols
<1>7. Same(Mem!Insert(m.tasks, t, r), Lite!Insert(s.tasks, t, e), Tasks, TaskCode)
  BY SameInsert DEF Mirror, e, TaskCode
<1>8. \A k \in DOMAIN Mem!Insert(m.tasks, t, r) :
        /\ Mem!Insert(m.tasks, t, r)[k].goal \in DOMAIN m.goals \cup {Nil}
        /\ Mem!Insert(m.tasks, t, r)[k].commitment \in DOMAIN m.commitments \cup {Nil}
  BY DEF Mem!Insert, Mirror
<1>9. QED
  BY <1>1, <1>6, <1>7, <1>8, MirrorTasks
-----------------------------------------------------------------------------
(* The three databases hold the same rows.                                 *)
Faithful ==
  /\ db = [memory |-> db.memory, sqlite |-> db.sqlite, postgres |-> db.postgres]
  /\ Mirror(db.memory, db.sqlite) /\ db.postgres = db.sqlite

Extractions ==
  [left : Nat, considered : Nat, now : Nat, refs : Refs, saved : SUBSET Cs, dropped : Nat]

(* The books of the running extraction: every draft is still to be looked  *)
(* at, saved or dropped.                                                   *)
Extracting ==
  ex # NoExtract =>
    /\ ex \in Extractions
    /\ IsFiniteSet(ex.saved) /\ ex.saved \subseteq DOMAIN db.memory.commitments
    /\ ex.considered = Cardinality(ex.saved) + ex.dropped + ex.left

(* What a resolve handler holds of each store is the same row, whose       *)
(* columns outside the SET clause are those of the stored one.             *)
Holding(h) ==
  LET I == db.memory.interventions
      iv == held[h].memory IN
  /\ req[h].id \in DOMAIN I
  /\ iv \in InterventionRows
  /\ held[h] = [memory |-> iv, sqlite |-> iv, postgres |-> iv]
  /\ iv.commitment = I[req[h].id].commitment
  /\ iv.triggeredAt = I[req[h].id].triggeredAt
  /\ copy[h] = [status |-> iv.status, resolvedAt |-> iv.resolvedAt]

RowOf(t, i) ==
  IF i \in DOMAIN t THEN [status |-> t[i].status, resolvedAt |-> t[i].resolvedAt] ELSE Absent

Resolving ==
  /\ held = [h \in Handlers |-> held[h]]
  /\ \A i \in Ivs : row[i] = RowOf(db.memory.interventions, i)
  /\ \A h \in Handlers : pc[h] # "idle" => Holding(h)

StoresInv == Faithful /\ Extracting /\ Resolving

(* What a client holds of the three stores is one row of a table of m,     *)
(* with the columns that no Save changes as they are stored.               *)
Carried(x, m) ==
  LET r == x.memory IN
  /\ x.sqlite = r /\ x.postgres = r
  /\ \/ /\ x.table = "commitments" /\ x.id \in DOMAIN m.commitments /\ r \in CommitmentRows
        /\ r.created = m.commitments[x.id].created
     \/ /\ x.table = "goals" /\ x.id \in DOMAIN m.goals /\ r \in GoalRows
        /\ r.created = m.goals[x.id].created /\ r.owner = m.goals[x.id].owner
     \/ /\ x.table = "tasks" /\ x.id \in DOMAIN m.tasks /\ r \in TaskRows
        /\ r.created = m.tasks[x.id].created
        /\ r.goal \in DOMAIN m.goals \cup {Nil}
        /\ r.commitment \in DOMAIN m.commitments \cup {Nil}

Moving ==
  /\ moving = [w \in Movers |-> moving[w]]
  /\ \A w \in Movers : moving[w] # <<>> => Carried(moving[w], db.memory)

(* No row vanishes, and the columns that no Save changes stay.             *)
Grows(m, n) ==
  /\ \A c \in DOMAIN m.commitments :
       c \in DOMAIN n.commitments /\ n.commitments[c].created = m.commitments[c].created
  /\ \A g \in DOMAIN m.goals :
       /\ g \in DOMAIN n.goals
       /\ n.goals[g].created = m.goals[g].created /\ n.goals[g].owner = m.goals[g].owner
  /\ \A t \in DOMAIN m.tasks :
       t \in DOMAIN n.tasks /\ n.tasks[t].created = m.tasks[t].created

(* Then a copy read earlier is still one that may be saved.                *)
LEMMA CarriedOn ==
  ASSUME NEW m, NEW n, Grows(m, n), NEW x, Carried(x, m)
  PROVE  Carried(x, n)
BY DEF Grows, Carried

(* A saved commitment keeps created of the one it replaces, and the other  *)
(* tables are what they were.                                              *)
LEMMA CommitmentGrowth ==
  ASSUME NEW m, NEW s, Mirror(m, s), NEW id, NEW r, NEW n,
         id \in DOMAIN m.commitments => r.created = m.commitments[id].created,
         n = [m EXCEPT !.commitments = Mem!Insert(m.commitments, id, r)]
  PROVE  Grows(m, n)
<1> DEFINE C == Mem!Insert(m.commitments, id, r)
<1>1. n.commitments = C /\ n.goals = m.goals /\ n.tasks = m.tasks
  BY DEF Mirror
<1>2. \A c \in DOMAIN m.commitments :
        c \in DOMAIN C /\ C[c].created = m.commitments[c].created
  BY DEF Mem!Insert
<1>3. QED
  BY <1>1, <1>2 DEF Grows

(* A saved goal keeps created and owner of the one it replaces.            *)
LEMMA GoalGrowth ==
  ASSUME NEW m, NEW s, Mirror(m, s), NEW id, NEW r, NEW n,
         id \in DOMAIN m.goals => r.created = m.goals[id].created
                                  /\ r.owner = m.goals[id].owner,
         n = [m EXCEPT !.goals = Mem!Insert(m.goals, id, r)]
  PROVE  Grows(m, n)
<1> DEFINE G == Mem!Insert(m.goals, id, r)
<1>1. n.goals = G /\ n.commitments = m.commitments /\ n.tasks = m.tasks
  BY DEF Mirror
<1>2. \A g \in DOMAIN m.goals : /\ g \in DOMAIN G /\ G[g].created = m.goals[g].created
                                /\ G[g].owner = m.goals[g].owner
  BY DEF Mem!Insert
<1>3. QED
  BY <1>1, <1>2 DEF Grows

(* A saved task keeps created of the one it replaces.                      *)
LEMMA TaskGrowth ==
  ASSUME NEW m, NEW s, Mirror(m, s), NEW id, NEW r, NEW n,
         id \in DOMAIN m.tasks => r.created = m.tasks[id].created,
         n = [m EXCEPT !.tasks = Mem!Insert(m.tasks, id, r)]
  PROVE  Grows(m, n)
<1> DEFINE A == Mem!Insert(m.tasks, id, r)
<1>1. n.tasks = A /\ n.commitments = m.commitments /\ n.goals = m.goals
  BY DEF Mirror
<1>2. \A t \in DOMAIN m.tasks : t \in DOMAIN A /\ A[t].created = m.tasks[t].created
  BY DEF Mem!Insert
<1>3. QED
  BY <1>1, <1>2 DEF Grows

(* Decisions and interventions are copied by nobody who moves rows.        *)
LEMMA OtherGrowth ==
  ASSUME NEW m, NEW s, Mirror(m, s), NEW T, NEW n,
         n = [m EXCEPT !.decisions = T] \/ n = [m EXCEPT !.interventions = T]
  PROVE  Grows(m, n)
<1>1. n.commitments = m.commitments /\ n.goals = m.goals /\ n.tasks = m.tasks
  BY DEF Mirror
<1>2. QED
  BY <1>1 DEF Grows

(* A call that all three stores carry out.                                 *)
LEMMA Stored3 ==
  ASSUME NEW m, NEW s, NEW p, Mirror(m, s), p = s, Store(m, s, p)
  PROVE  Faithful' /\ db'.memory = m
BY DEF Store, Faithful

(* Transition changes the status and the time of the update.               *)
LEMMA MovedCommitment ==
  ASSUME NEW r \in CommitmentRows, NEW t \in CommitmentStatus, NEW at \in Nat
  PROVE  /\ Moved(r, t, at) \in CommitmentRows
         /\ Moved(r, t, at).status = t /\ Moved(r, t, at).created = r.created
<1> DEFINE one == [r EXCEPT !.status = t]
           two == [one EXCEPT !.updated = at]
<1>2. one = [owner |-> r.owner, due |-> r.due, status |-> t, risk |-> r.risk,
             evaluatedAt |-> r.evaluatedAt, created |-> r.created, updated |-> r.updated,
             refs |-> r.refs]
  BY DEF CommitmentRows
<1> HIDE DEF one
<1>3. two = [owner |-> r.owner, due |-> r.due, status |-> t, risk |-> r.risk,
             evaluatedAt |-> r.evaluatedAt, created |-> r.created, updated |-> at,
             refs |-> r.refs]
  BY <1>2
<1>4. two = Moved(r, t, at)
  BY Zenon DEF one, Moved
<1> HIDE DEF two
<1>5. QED
  BY <1>3, <1>4 DEF CommitmentRows

(* Transition of a goal keeps its owner.                                   *)
LEMMA MovedGoal ==
  ASSUME NEW r \in GoalRows, NEW t \in GoalStatus, NEW at \in Nat
  PROVE  /\ Moved(r, t, at) \in GoalRows
         /\ Moved(r, t, at).created = r.created /\ Moved(r, t, at).owner = r.owner
<1> DEFINE one == [r EXCEPT !.status = t]
           two == [one EXCEPT !.updated = at]
<1>2. one = [owner |-> r.owner, status |-> t, created |-> r.created, updated |-> r.updated,
             refs |-> r.refs]
  BY DEF GoalRows
<1> HIDE DEF one
<1>3. two = [owner |-> r.owner, status |-> t, created |-> r.created, updated |-> at,
             refs |-> r.refs]
  BY <1>2
<1>4. two = Moved(r, t, at)
  BY Zenon DEF one, Moved
<1> HIDE DEF two
<1>5. QED
  BY <1>3, <1>4 DEF GoalRows

(* Transition of a task keeps its references.                              *)
LEMMA MovedTask ==
  ASSUME NEW r \in TaskRows, NEW t \in TaskStatus, NEW at \in Nat
  PROVE  /\ Assigned(r, t, at) \in TaskRows /\ Assigned(r, t, at).created = r.created
         /\ Assigned(r, t, at).goal = r.goal /\ Assigned(r, t, at).commitment = r.commitment
<1> DEFINE one == [r EXCEPT !.status = t]
           two == [one EXCEPT !.updated = at]
           to == [two EXCEPT !.assignedTo = IF t = "assigned" THEN "agent" ELSE @]
<1>1. one = [goal |-> r.goal, commitment |-> r.commitment, assignedTo |-> r.assignedTo,
             status |-> t, created |-> r.created, updated |-> r.updated]
  BY DEF TaskRows
<1> HIDE DEF one
<1>2. two = [goal |-> r.goal, commitment |-> r.commitment, assignedTo |-> r.assignedTo,
             status |-> t, created |-> r.created, updated |-> at]
  BY <1>1
<1>3. two = Moved(r, t, at)
  BY Zenon DEF one, Moved
<1> HIDE DEF two
<1>4. to = [goal |-> r.goal, commitment |-> r.commitment,
            assignedTo |-> IF t = "assigned" THEN "agent" ELSE r.assignedTo,
            status |-> t, created |-> r.created, updated |-> at]
  BY <1>2
<1>5. to = Assigned(r, t, at)
  BY <1>3, Zenon DEF Assigned
<1> HIDE DEF to
<1>6. QED
  BY <1>4, <1>5 DEF TaskRows
-----------------------------------------------------------------------------
(* What each kind of call does to the rows.                                *)
LEMMA TablesApart ==
  ASSUME NEW m, NEW s, Mirror(m, s), NEW T
  PROVE  /\ [m EXCEPT !.commitments = T].commitments = T
         /\ [m EXCEPT !.commitments = T].decisions = m.decisions
         /\ [m EXCEPT !.commitments = T].interventions = m.interventions
         /\ [m EXCEPT !.decisions = T].commitments = m.commitments
         /\ [m EXCEPT !.decisions = T].decisions = T
         /\ [m EXCEPT !.decisions = T].interventions = m.interventions
         /\ [m EXCEPT !.interventions = T].commitments = m.commitments
         /\ [m EXCEPT !.interventions = T].decisions = m.decisions
         /\ [m EXCEPT !.interventions = T].interventions = T
         /\ [m EXCEPT !.goals = T].commitments = m.commitments
         /\ [m EXCEPT !.goals = T].decisions = m.decisions
         /\ [m EXCEPT !.goals = T].interventions = m.interventions
         /\ [m EXCEPT !.tasks = T].commitments = m.commitments
         /\ [m EXCEPT !.tasks = T].decisions = m.decisions
         /\ [m EXCEPT !.tasks = T].interventions = m.interventions
BY DEF Mirror

(* Times are natural numbers.                                              *)
LEMMA Times == 0..MaxTime \subseteq Nat
BY ResolveInputs

(* A saved draft is one new row in each store.                             *)
LEMMA DraftSaved ==
  ASSUME TypeOK, StoresInv, SaveDraft
  PROVE  /\ Faithful'
         /\ \E c \in Cs \ DOMAIN db.memory.commitments, r \in CommitmentRows :
              /\ db'.memory.commitments = Mem!Insert(db.memory.commitments, c, r)
              /\ ex' = [ex EXCEPT !.left = @ - 1, !.saved = @ \cup {c}]
         /\ db'.memory.decisions = db.memory.decisions
         /\ db'.memory.interventions = db.memory.interventions
         /\ Grows(db.memory, db'.memory)
<1> DEFINE m == db.memory
           s == db.sqlite
<1>1. Mirror(m, s) /\ db.postgres = s
  BY DEF StoresInv, Faithful
<1>2. PICK d \in Drafts, c \in Cs \ Stored("commitments") :
        /\ Accepts(d)
        /\ NewCommitmentRow(c, ToCommitment(d, ex.now, ex.refs))
        /\ ex' = [ex EXCEPT !.left = @ - 1, !.saved = @ \cup {c}]
  BY DEF SaveDraft
<1> DEFINE r == ToCommitment(d, ex.now, ex.refs)
<1>3. r \in CommitmentRows
  <2>1. ex.now \in Nat /\ ex.refs \in Refs
    BY DEF SaveDraft, StoresInv, Extracting, Extractions
  <2>2. d.owner \in Owners /\ d.due \in Nat
    <3>1. d.owner # ""
      BY <1>2, Zenon DEF Accepts
    <3>2. d.owner \in Owners \cup {""} /\ d.due \in 0..MaxTime
      BY DEF Drafts
    <3>3. d.owner \in Owners
      BY <3>1, <3>2, Zenon
    <3>4. QED
      BY <3>2, <3>3, Times, Zenon
  <2>3. QED
    BY <2>1, <2>2 DEF ToCommitment, CommitmentRows, CommitmentStatus
<1> HIDE DEF r
<1>4. c \in Cs \ DOMAIN m.commitments
  BY DEF Stored
<1>5. Store(Mem!SaveCommitment(m, c, r), Lite!SaveCommitment(s, c, r),
            Pg!SaveCommitment(db.postgres, c, r))
  BY <1>2 DEF NewCommitmentRow, Write, r
<1>6. /\ Mirror(Mem!SaveCommitment(m, c, r), Lite!SaveCommitment(s, c, r))
      /\ Mem!SaveCommitment(m, c, r) =
           [m EXCEPT !.commitments = Mem!Insert(m.commitments, c, r)]
  BY <1>1, <1>3, <1>4, SavesCommitment
<1>7. Pg!SaveCommitment(db.postgres, c, r) = Lite!SaveCommitment(s, c, r)
  BY <1>1, PostgresWrites
<1>8. Faithful' /\ db'.memory = [m EXCEPT !.commitments = Mem!Insert(m.commitments, c, r)]
  BY <1>5, <1>6, <1>7, Stored3
<1>9. /\ db'.memory.commitments = Mem!Insert(db.memory.commitments, c, r)
      /\ db'.memory.decisions = db.memory.decisions
      /\ db'.memory.interventions = db.memory.interventions
  BY <1>1, <1>8, TablesApart
<1>10. Grows(db.memory, db'.memory)
  BY <1>1, <1>4, <1>8, CommitmentGrowth
<1>11. QED
  BY <1>2, <1>3, <1>4, <1>8, <1>9, <1>10, Zenon

(* UpdateRisk changes no status and adds no row.                           *)
LEMMA RiskUpdated ==
  ASSUME TypeOK, StoresInv, UpdateRisk
  PROVE  /\ Faithful'
         /\ DOMAIN db'.memory.commitments = DOMAIN db.memory.commitments
         /\ \A c \in DOMAIN db.memory.commitments :
              db'.memory.commitments[c].status = db.memory.commitments[c].status
         /\ db'.memory.decisions = db.memory.decisions
         /\ db'.memory.interventions = db.memory.interventions
         /\ Grows(db.memory, db'.memory)
<1> DEFINE m == db.memory
           s == db.sqlite
<1>1. Mirror(m, s) /\ db.postgres = s
  BY DEF StoresInv, Faithful
<1>2. PICK c \in Stored("commitments"), score \in 1..MaxScore, at \in 1..now :
        Store(Mem!UpdateRisk(m, c, score, at), Lite!UpdateRisk(s, c, score, at),
              Pg!UpdateRisk(db.postgres, c, score, at))
  BY DEF UpdateRisk, Write
<1>3. c \in DOMAIN m.commitments /\ score \in Nat /\ at \in Nat
  BY StoreInputs, ResolveInputs DEF Stored, TypeOK
<1>4. /\ Mirror(Mem!UpdateRisk(m, c, score, at), Lite!UpdateRisk(s, c, score, at))
      /\ Kept(m, Mem!UpdateRisk(m, c, score, at))
  BY <1>1, <1>3, UpdatesRisk
<1>5. Pg!UpdateRisk(db.postgres, c, score, at) = Lite!UpdateRisk(s, c, score, at)
  BY <1>1, PostgresWrites
<1>6. Faithful' /\ Kept(m, db'.memory)
  BY <1>2, <1>4, <1>5, Stored3
<1>7. QED
  BY <1>6 DEF Kept, Grows

(* A client that moves a row holds one copy of it, three times.            *)
LEMMA Copy ==
  ASSUME Moving, NEW w \in Movers, NEW t \in {"commitments", "goals", "tasks"}, Holds(w, t)
  PROVE  /\ Carried(moving[w], db.memory) /\ moving[w].table = t
         /\ moving[w].sqlite = moving[w].memory /\ moving[w].postgres = moving[w].memory
         /\ t = "commitments" =>
              /\ moving[w].id \in DOMAIN db.memory.commitments
              /\ moving[w].memory \in CommitmentRows
              /\ moving[w].memory.created = db.memory.commitments[moving[w].id].created
         /\ t = "goals" =>
              /\ moving[w].id \in DOMAIN db.memory.goals
              /\ moving[w].memory \in GoalRows
              /\ moving[w].memory.created = db.memory.goals[moving[w].id].created
              /\ moving[w].memory.owner = db.memory.goals[moving[w].id].owner
         /\ t = "tasks" =>
              /\ moving[w].id \in DOMAIN db.memory.tasks
              /\ moving[w].memory \in TaskRows
              /\ moving[w].memory.created = db.memory.tasks[moving[w].id].created
              /\ moving[w].memory.goal \in DOMAIN db.memory.goals \cup {Nil}
              /\ moving[w].memory.commitment \in DOMAIN db.memory.commitments \cup {Nil}
BY DEF Moving, Carried, Holds

(* A moved commitment follows the table of its transitions, from the       *)
(* status that its copy has.                                               *)
LEMMA CommitmentMoved ==
  ASSUME TypeOK, StoresInv, Moving, NEW w \in Movers, MoveCommitment(w)
  PROVE  /\ Faithful'
         /\ moving[w].id \in DOMAIN db.memory.commitments
         /\ \E r \in CommitmentRows :
              /\ db'.memory.commitments = Mem!Insert(db.memory.commitments, moving[w].id, r)
              /\ CommitmentCanTransitionTo(moving[w].memory.status, r.status)
         /\ db'.memory.decisions = db.memory.decisions
         /\ db'.memory.interventions = db.memory.interventions
         /\ Grows(db.memory, db'.memory)
<1> DEFINE m == db.memory
           s == db.sqlite
           x == moving[w]
           c == x.id
<1>1. Mirror(m, s) /\ db.postgres = s
  BY DEF StoresInv, Faithful
<1>2. PICK target \in CommitmentStatus, at \in 1..now :
        /\ CommitmentCanTransitionTo(x.memory.status, target)
        /\ Store(Mem!SaveCommitment(m, c, Moved(x.memory, target, at)),
                 Lite!SaveCommitment(s, c, Moved(x.sqlite, target, at)),
                 Pg!SaveCommitment(db.postgres, c, Moved(x.postgres, target, at)))
  BY DEF MoveCommitment, Write
<1> DEFINE r == Moved(x.memory, target, at)
<1>3. /\ c \in DOMAIN m.commitments /\ x.memory \in CommitmentRows
      /\ x.memory.created = m.commitments[c].created
      /\ x.sqlite = x.memory /\ x.postgres = x.memory
  BY Copy DEF MoveCommitment
<1>4. c \in Cs /\ at \in Nat
  BY <1>1, <1>3, MirrorRows, ResolveInputs DEF TypeOK
<1>5. r \in CommitmentRows /\ r.status = target /\ r.created = m.commitments[c].created
  BY <1>3, <1>4, MovedCommitment
<1>6. Store(Mem!SaveCommitment(m, c, r), Lite!SaveCommitment(s, c, r),
            Pg!SaveCommitment(db.postgres, c, r))
  BY <1>2, <1>3
<1> HIDE DEF r, c, x
<1>7. /\ Mirror(Mem!SaveCommitment(m, c, r), Lite!SaveCommitment(s, c, r))
      /\ Mem!SaveCommitment(m, c, r) =
           [m EXCEPT !.commitments = Mem!Insert(m.commitments, c, r)]
  BY <1>1, <1>3, <1>4, <1>5, SavesCommitment
<1>8. Pg!SaveCommitment(db.postgres, c, r) = Lite!SaveCommitment(s, c, r)
  BY <1>1, PostgresWrites
<1>9. Faithful' /\ db'.memory = [m EXCEPT !.commitments = Mem!Insert(m.commitments, c, r)]
  BY <1>6, <1>7, <1>8, Stored3
<1>10. Grows(m, db'.memory)
  BY <1>1, <1>5, <1>9, CommitmentGrowth
<1>11. /\ db'.memory.commitments = Mem!Insert(m.commitments, c, r)
       /\ db'.memory.decisions = m.decisions /\ db'.memory.interventions = m.interventions
  BY <1>1, <1>9, TablesApart
<1>12. \E q \in CommitmentRows :
         /\ db'.memory.commitments = Mem!Insert(m.commitments, c, q)
         /\ CommitmentCanTransitionTo(x.memory.status, q.status)
  BY <1>2, <1>5, <1>11
<1>13. QED
  BY <1>3, <1>9, <1>10, <1>11, <1>12 DEF c, x

(* A decision under a new id, of whichever pipeline.                       *)
LEMMA DecisionSaved ==
  ASSUME StoresInv, NEW d \in Decs \ Stored("decisions"), NEW r \in DecisionRows,
         NewDecisionRow(d, r)
  PROVE  /\ Faithful'
         /\ db'.memory.decisions = Mem!Insert(db.memory.decisions, d, r)
         /\ db'.memory.commitments = db.memory.commitments
         /\ db'.memory.interventions = db.memory.interventions
         /\ Grows(db.memory, db'.memory)
<1> DEFINE m == db.memory
           s == db.sqlite
<1>1. Mirror(m, s) /\ db.postgres = s
  BY DEF StoresInv, Faithful
<1>2. d \in Decs \ DOMAIN m.decisions
  BY DEF Stored
<1>3. Store(Mem!SaveDecision(m, d, r), Lite!SaveDecision(s, d, r),
            Pg!SaveDecision(db.postgres, d, r))
  BY DEF NewDecisionRow, Write
<1>4. /\ Mirror(Mem!SaveDecision(m, d, r), Lite!SaveDecision(s, d, r))
      /\ Mem!SaveDecision(m, d, r) = [m EXCEPT !.decisions = Mem!Insert(m.decisions, d, r)]
  BY <1>1, <1>2, SavesDecision
<1>5. Pg!SaveDecision(db.postgres, d, r) = Lite!SaveDecision(s, d, r)
  BY <1>1, PostgresWrites
<1>6. Faithful' /\ db'.memory = [m EXCEPT !.decisions = Mem!Insert(m.decisions, d, r)]
  BY <1>3, <1>4, <1>5, Stored3
<1>7. Grows(m, db'.memory)
  BY <1>1, <1>6, OtherGrowth
<1>8. QED
  BY <1>1, <1>6, <1>7, TablesApart

(* An intervention, new or with the columns outside the SET clause as they *)
(* are stored.                                                             *)
LEMMA InterventionSaved ==
  ASSUME StoresInv, NEW i \in Ivs, NEW r \in InterventionRows,
         r.commitment \in DOMAIN db.memory.commitments,
         i \in DOMAIN db.memory.interventions =>
           /\ r.commitment = db.memory.interventions[i].commitment
           /\ r.triggeredAt = db.memory.interventions[i].triggeredAt,
         Store(Mem!SaveIntervention(db.memory, i, r), Lite!SaveIntervention(db.sqlite, i, r),
               Pg!SaveIntervention(db.postgres, i, r))
  PROVE  /\ Faithful'
         /\ db'.memory.interventions = Mem!Insert(db.memory.interventions, i, r)
         /\ db'.memory.commitments = db.memory.commitments
         /\ db'.memory.decisions = db.memory.decisions
<1> DEFINE m == db.memory
           s == db.sqlite
<1>1. Mirror(m, s) /\ db.postgres = s
  BY DEF StoresInv, Faithful
<1>2. /\ Mirror(Mem!SaveIntervention(m, i, r), Lite!SaveIntervention(s, i, r))
      /\ Mem!SaveIntervention(m, i, r) =
           [m EXCEPT !.interventions = Mem!Insert(m.interventions, i, r)]
  BY <1>1, SavesIntervention
<1>3. Pg!SaveIntervention(db.postgres, i, r) = Lite!SaveIntervention(s, i, r)
  BY <1>1, PostgresWrites
<1>4. Faithful' /\ db'.memory = [m EXCEPT !.interventions = Mem!Insert(m.interventions, i, r)]
  BY <1>2, <1>3, Stored3
<1>5. QED
  BY <1>1, <1>4, TablesApart

(* Goals and tasks: the other tables stay as they are.                     *)
OnlyPlans ==
  /\ Faithful' /\ Grows(db.memory, db'.memory)
  /\ db'.memory.commitments = db.memory.commitments
  /\ db'.memory.decisions = db.memory.decisions
  /\ db'.memory.interventions = db.memory.interventions

(* A saved goal leaves the other tables alone.                             *)
LEMMA GoalSaved ==
  ASSUME StoresInv, NEW g \in Goals, NEW r \in GoalRows,
         g \in DOMAIN db.memory.goals => /\ r.created = db.memory.goals[g].created
                                         /\ r.owner = db.memory.goals[g].owner,
         SaveGoal(g, r, r, r)
  PROVE  OnlyPlans
<1> DEFINE m == db.memory
           s == db.sqlite
<1>1. Mirror(m, s) /\ db.postgres = s
  BY DEF StoresInv, Faithful
<1>2. Store(Mem!SaveGoal(m, g, r), Lite!SaveGoal(s, g, r), Pg!SaveGoal(db.postgres, g, r))
  BY DEF SaveGoal, Write
<1>3. /\ Mirror(Mem!SaveGoal(m, g, r), Lite!SaveGoal(s, g, r))
      /\ Mem!SaveGoal(m, g, r) = [m EXCEPT !.goals = Mem!Insert(m.goals, g, r)]
  BY <1>1, SavesGoal
<1>4. Pg!SaveGoal(db.postgres, g, r) = Lite!SaveGoal(s, g, r)
  BY <1>1, PostgresWrites
<1>5. Faithful' /\ db'.memory = [m EXCEPT !.goals = Mem!Insert(m.goals, g, r)]
  BY <1>2, <1>3, <1>4, Stored3
<1>6. Grows(m, db'.memory)
  BY <1>1, <1>5, GoalGrowth
<1>7. QED
  BY <1>1, <1>5, <1>6, TablesApart DEF OnlyPlans

(* A saved task leaves the other tables alone.                             *)
LEMMA TaskSaved ==
  ASSUME StoresInv, NEW t \in Tasks, NEW r \in TaskRows,
         r.goal \in DOMAIN db.memory.goals \cup {Nil},
         r.commitment \in DOMAIN db.memory.commitments \cup {Nil},
         t \in DOMAIN db.memory.tasks => r.created = db.memory.tasks[t].created,
         SaveTask(t, r, r, r)
  PROVE  OnlyPlans
<1> DEFINE m == db.memory
           s == db.sqlite
<1>1. Mirror(m, s) /\ db.postgres = s
  BY DEF StoresInv, Faithful
<1>2. Store(Mem!SaveTask(m, t, r), Lite!SaveTask(s, t, r), Pg!SaveTask(db.postgres, t, r))
  BY DEF SaveTask, Write
<1>3. /\ Mirror(Mem!SaveTask(m, t, r), Lite!SaveTask(s, t, r))
      /\ Mem!SaveTask(m, t, r) = [m EXCEPT !.tasks = Mem!Insert(m.tasks, t, r)]
  BY <1>1, SavesTask
<1>4. Pg!SaveTask(db.postgres, t, r) = Lite!SaveTask(s, t, r)
  BY <1>1, PostgresWrites
<1>5. Faithful' /\ db'.memory = [m EXCEPT !.tasks = Mem!Insert(m.tasks, t, r)]
  BY <1>2, <1>3, <1>4, Stored3
<1>6. Grows(m, db'.memory)
  BY <1>1, <1>5, TaskGrowth
<1>7. QED
  BY <1>1, <1>5, <1>6, TablesApart DEF OnlyPlans

(* Every action on goals and tasks is such a save.                         *)
LEMMA Planned ==
  ASSUME TypeOK, StoresInv, Moving, NEW w,
         Creates \/ (w \in Movers /\ (MoveGoal(w) \/ MoveTask(w)))
  PROVE  OnlyPlans
<1> DEFINE m == db.memory
           s == db.sqlite
<1>1. Mirror(m, s) /\ db.postgres = s /\ now \in Nat
  BY ResolveInputs DEF StoresInv, Faithful, TypeOK
<1>2. CASE NewGoal
  <2>1. PICK g \in Goals \ Stored("goals"), o \in Owners :
          LET r == [owner |-> o, status |-> "open", created |-> now, updated |-> now,
                    refs |-> "some"] IN SaveGoal(g, r, r, r)
    BY <1>2 DEF NewGoal
  <2> DEFINE r == [owner |-> o, status |-> "open", created |-> now, updated |-> now,
                   refs |-> "some"]
  <2>2. r \in GoalRows
    BY <1>1 DEF GoalRows, GoalStatus, Refs
  <2> HIDE DEF r
  <2>3. g \notin DOMAIN db.memory.goals /\ SaveGoal(g, r, r, r)
    BY <2>1 DEF Stored, r
  <2>4. QED
    BY <2>2, <2>3, GoalSaved
<1>3. CASE w \in Movers /\ MoveGoal(w)
  <2> DEFINE x == moving[w]
  <2>1. PICK target \in GoalStatus, at \in 1..now :
          SaveGoal(x.id, Moved(x.memory, target, at), Moved(x.sqlite, target, at),
                   Moved(x.postgres, target, at))
    BY <1>3 DEF MoveGoal
  <2> DEFINE r == Moved(x.memory, target, at)
  <2>2. /\ x.id \in DOMAIN m.goals /\ x.memory \in GoalRows
        /\ x.memory.created = m.goals[x.id].created /\ x.memory.owner = m.goals[x.id].owner
        /\ x.sqlite = x.memory /\ x.postgres = x.memory
    BY <1>3, Copy DEF MoveGoal
  <2>3. x.id \in Goals /\ at \in Nat
    BY <1>1, <2>2, MirrorRows
  <2>4. r \in GoalRows /\ r.created = m.goals[x.id].created /\ r.owner = m.goals[x.id].owner
    BY <2>2, <2>3, MovedGoal
  <2>5. SaveGoal(x.id, r, r, r)
    BY <2>1, <2>2
  <2> HIDE DEF r, x
  <2>6. QED
    BY <2>3, <2>4, <2>5, GoalSaved
<1>4. CASE NewTask
  <2>1. PICK t \in Tasks \ Stored("tasks"), g \in Stored("goals") \cup {Nil},
             c \in Stored("commitments") \cup {Nil} :
          LET r == [goal |-> g, commitment |-> c, assignedTo |-> Nil, status |-> "pending",
                    created |-> now, updated |-> now] IN SaveTask(t, r, r, r)
    BY <1>4 DEF NewTask
  <2> DEFINE r == [goal |-> g, commitment |-> c, assignedTo |-> Nil, status |-> "pending",
                   created |-> now, updated |-> now]
  <2>2. g \in DOMAIN m.goals \cup {Nil} /\ c \in DOMAIN m.commitments \cup {Nil}
    BY DEF Stored
  <2>3. g \in Goals \cup {Nil} /\ c \in Cs \cup {Nil}
    BY <1>1, <2>2, MirrorRows
  <2>4. r \in TaskRows /\ r.goal = g /\ r.commitment = c
    BY <1>1, <2>3 DEF TaskRows, TaskStatus
  <2> HIDE DEF r
  <2>5. t \notin DOMAIN db.memory.tasks /\ SaveTask(t, r, r, r)
    BY <2>1 DEF Stored, r
  <2>6. QED
    BY <2>2, <2>4, <2>5, TaskSaved
<1>5. CASE w \in Movers /\ MoveTask(w)
  <2> DEFINE x == moving[w]
  <2>1. PICK target \in TaskStatus, at \in 1..now :
          SaveTask(x.id, Assigned(x.memory, target, at), Assigned(x.sqlite, target, at),
                   Assigned(x.postgres, target, at))
    BY <1>5 DEF MoveTask
  <2> DEFINE r == Assigned(x.memory, target, at)
  <2>2. /\ x.id \in DOMAIN m.tasks /\ x.memory \in TaskRows
        /\ x.memory.created = m.tasks[x.id].created
        /\ x.memory.goal \in DOMAIN m.goals \cup {Nil}
        /\ x.memory.commitment \in DOMAIN m.commitments \cup {Nil}
        /\ x.sqlite = x.memory /\ x.postgres = x.memory
    BY <1>5, Copy DEF MoveTask
  <2>3. x.id \in Tasks /\ at \in Nat
    BY <1>1, <2>2, MirrorRows
  <2>4. /\ r \in TaskRows /\ r.created = m.tasks[x.id].created
        /\ r.goal = x.memory.goal /\ r.commitment = x.memory.commitment
    BY <2>2, <2>3, MovedTask
  <2>5. SaveTask(x.id, r, r, r)
    BY <2>1, <2>2
  <2>6. r.goal \in DOMAIN m.goals \cup {Nil} /\ r.commitment \in DOMAIN m.commitments \cup {Nil}
    BY <2>2, <2>4
  <2> HIDE DEF r, x
  <2>7. QED
    BY <2>3, <2>4, <2>5, <2>6, TaskSaved
<1>6. QED
  BY <1>2, <1>3, <1>4, <1>5 DEF Creates
-----------------------------------------------------------------------------
(* Steps that leave the handlers, or the extraction, alone.                *)
LEMMA ResolvingKept ==
  ASSUME Resolving, UNCHANGED <<row, pc, req, copy, held>>,
         db'.memory.interventions = db.memory.interventions
  PROVE  Resolving'
BY DEF Resolving, Holding, RowOf

(* A step outside the extraction keeps its books.                          *)
LEMMA ExtractingKept ==
  ASSUME Extracting, ex' = ex,
         DOMAIN db.memory.commitments \subseteq DOMAIN db'.memory.commitments
  PROVE  Extracting'
BY DEF Extracting, NoExtract

(* Three empty databases.                                                  *)
LEMMA StoresStart == StoresInit => StoresInv /\ Moving
<1> SUFFICES ASSUME StoresInit PROVE StoresInv /\ Moving
  OBVIOUS
<1>1. /\ db = [memory |-> Mem!New, sqlite |-> Lite!New, postgres |-> Pg!New]
      /\ held = [h \in Handlers |-> <<>>] /\ ex = NoExtract
      /\ row = [i \in Ivs |-> Absent] /\ pc = [h \in Handlers |-> "idle"]
  BY DEF StoresInit, Init
<1>2. DOMAIN <<>> = {}
  OBVIOUS
<1>3. Faithful
  <2>1. db.memory = Mem!New /\ db.sqlite = Lite!New /\ db.postgres = Pg!New
    BY <1>1
  <2>2. Mirror(Mem!New, Lite!New)
    BY <1>2 DEF Mem!New, Lite!New, Mirror, Same
  <2>3. Pg!New = Lite!New
    BY DEF Pg!New, Lite!New
  <2>4. QED
    BY <1>1, <2>1, <2>2, <2>3 DEF Faithful
<1>4. Resolving
  <2>1. DOMAIN db.memory.interventions = {}
    BY <1>1, <1>2 DEF Mem!New
  <2>2. QED
    BY <1>1, <2>1 DEF Resolving, RowOf
<1>5. Moving
  BY DEF StoresInit, Moving
<1>6. QED
  BY <1>1, <1>3, <1>4, <1>5 DEF StoresInv, Extracting

(* A draft is dropped or saved: the fields of the extraction after it.     *)
LEMMA DraftsCounted ==
  ASSUME ex \in Extractions, NEW c
  PROVE  /\ [ex EXCEPT !.left = @ - 1, !.dropped = @ + 1] =
              [left |-> ex.left - 1, considered |-> ex.considered, now |-> ex.now,
               refs |-> ex.refs, saved |-> ex.saved, dropped |-> ex.dropped + 1]
         /\ [ex EXCEPT !.left = @ - 1, !.saved = @ \cup {c}] =
              [left |-> ex.left - 1, considered |-> ex.considered, now |-> ex.now,
               refs |-> ex.refs, saved |-> ex.saved \cup {c}, dropped |-> ex.dropped]
<1> DEFINE one == [ex EXCEPT !.left = @ - 1]
           dropped == [one EXCEPT !.dropped = ex.dropped + 1]
           saved == [one EXCEPT !.saved = ex.saved \cup {c}]
<1>1. one = [left |-> ex.left - 1, considered |-> ex.considered, now |-> ex.now,
             refs |-> ex.refs, saved |-> ex.saved, dropped |-> ex.dropped]
  BY DEF Extractions
<1> HIDE DEF one
<1>2. dropped = [left |-> ex.left - 1, considered |-> ex.considered, now |-> ex.now,
                 refs |-> ex.refs, saved |-> ex.saved, dropped |-> ex.dropped + 1]
  BY <1>1
<1>3. saved = [left |-> ex.left - 1, considered |-> ex.considered, now |-> ex.now,
               refs |-> ex.refs, saved |-> ex.saved \cup {c}, dropped |-> ex.dropped]
  BY <1>1
<1>4. QED
  BY <1>2, <1>3, Zenon DEF one

(* The extraction pipeline.                                                *)
LEMMA ExtractStep ==
  ASSUME TypeOK, StoresInv, ExBegin \/ SaveDraft \/ DropDraft
  PROVE  StoresInv'
<1> USE DEF StoresInv
<1>1. CASE ExBegin
  <2>1. PICK n \in 0..MaxDrafts, r \in RequestRefs :
          ex' = [left |-> n, considered |-> n, now |-> now, refs |-> r,
                 saved |-> {}, dropped |-> 0]
    BY <1>1 DEF ExBegin
  <2>2. n \in Nat /\ r \in Refs /\ now \in Nat
    BY StoreInputs, ResolveInputs DEF TypeOK, Refs
  <2>3. db' = db /\ UNCHANGED <<row, pc, req, copy, held>>
    BY <1>1 DEF ExBegin, vars
  <2>4. Faithful' /\ Resolving'
    BY <2>3, ResolvingKept DEF Faithful
  <2>5. IsFiniteSet({}) /\ Cardinality({}) = 0
    BY FS_EmptySet
  <2>6. Extracting'
    <3>1. /\ ex' \in Extractions
          /\ ex'.saved = {} /\ ex'.considered = n /\ ex'.left = n /\ ex'.dropped = 0
      BY <2>1, <2>2 DEF Extractions
    <3>2. QED
      BY <2>2, <2>5, <3>1 DEF Extracting
  <2>7. QED
    BY <2>4, <2>6
<1>2. CASE DropDraft
  <2>1. /\ ex # NoExtract /\ ex.left > 0
        /\ ex' = [ex EXCEPT !.left = @ - 1, !.dropped = @ + 1]
    BY <1>2 DEF DropDraft
  <2>2. db' = db /\ UNCHANGED <<row, pc, req, copy, held>>
    BY <1>2 DEF DropDraft, vars
  <2>3. Faithful' /\ Resolving'
    BY <2>2, ResolvingKept DEF Faithful
  <2>4. /\ ex \in Extractions
        /\ IsFiniteSet(ex.saved) /\ ex.saved \subseteq DOMAIN db.memory.commitments
        /\ ex.considered = Cardinality(ex.saved) + ex.dropped + ex.left
    BY <2>1 DEF Extracting
  <2>5. ex' = [left |-> ex.left - 1, considered |-> ex.considered, now |-> ex.now,
               refs |-> ex.refs, saved |-> ex.saved, dropped |-> ex.dropped + 1]
    BY <2>1, <2>4, DraftsCounted
  <2>6. Cardinality(ex.saved) \in Nat
    BY <2>4, FS_CardinalityType
  <2>7. Extracting'
    <3>1. /\ ex' \in Extractions
          /\ ex'.saved = ex.saved /\ ex'.considered = ex.considered
          /\ ex'.left = ex.left - 1 /\ ex'.dropped = ex.dropped + 1
      BY <2>1, <2>4, <2>5 DEF Extractions
    <3>2. ex'.considered = Cardinality(ex'.saved) + ex'.dropped + ex'.left
      BY <2>1, <2>4, <2>6, <3>1 DEF Extractions
    <3>3. QED
      BY <2>2, <2>4, <3>1, <3>2 DEF Extracting
  <2>8. QED
    BY <2>3, <2>7
<1>3. CASE SaveDraft
  <2>1. ex # NoExtract /\ ex.left > 0 /\ UNCHANGED <<row, pc, req, copy, held>>
    BY <1>3 DEF SaveDraft, vars
  <2>2. PICK c \in Cs \ DOMAIN db.memory.commitments, r \in CommitmentRows :
          /\ db'.memory.commitments = Mem!Insert(db.memory.commitments, c, r)
          /\ ex' = [ex EXCEPT !.left = @ - 1, !.saved = @ \cup {c}]
    BY <1>3, DraftSaved, Zenon
  <2>3. Faithful' /\ db'.memory.interventions = db.memory.interventions
    BY <1>3, DraftSaved
  <2>4. Resolving'
    BY <2>1, <2>3, ResolvingKept
  <2>5. /\ ex \in Extractions
        /\ IsFiniteSet(ex.saved) /\ ex.saved \subseteq DOMAIN db.memory.commitments
        /\ ex.considered = Cardinality(ex.saved) + ex.dropped + ex.left
    BY <2>1 DEF Extracting
  <2>6. ex' = [left |-> ex.left - 1, considered |-> ex.considered, now |-> ex.now,
               refs |-> ex.refs, saved |-> ex.saved \cup {c}, dropped |-> ex.dropped]
    BY <2>2, <2>5, DraftsCounted
  <2>7. /\ Cardinality(ex.saved) \in Nat
        /\ IsFiniteSet(ex.saved \cup {c})
        /\ Cardinality(ex.saved \cup {c}) = Cardinality(ex.saved) + 1
    BY <2>5, FS_CardinalityType, FS_AddElement
  <2>8. Extracting'
    <3>1. /\ ex' \in Extractions
          /\ ex'.saved = ex.saved \cup {c} /\ ex'.considered = ex.considered
          /\ ex'.left = ex.left - 1 /\ ex'.dropped = ex.dropped
      BY <2>1, <2>5, <2>6 DEF Extractions
    <3>2. ex'.considered = Cardinality(ex'.saved) + ex'.dropped + ex'.left
      BY <2>1, <2>5, <2>7, <3>1 DEF Extractions
    <3>3. ex'.saved \subseteq DOMAIN db'.memory.commitments
      BY <2>2, <2>5, <3>1 DEF Mem!Insert
    <3>4. QED
      BY <2>7, <3>1, <3>2, <3>3 DEF Extracting
  <2>9. QED
    BY <2>3, <2>4, <2>8
<1>4. QED
  BY <1>1, <1>2, <1>3

(* The decision of an extraction is a row; so is the evaluator's.          *)
LEMMA ExtractDecides ==
  ASSUME StoresInv, ex # NoExtract
  PROVE  ExtractDecision \in DecisionRows
<1>1. /\ ex.now \in Nat /\ ex.refs \in Refs /\ ex.considered \in Nat
      /\ ex.saved \in SUBSET Cs /\ ex.dropped \in Nat
  BY DEF StoresInv, Extracting, Extractions
<1>2. [considered |-> ex.considered, saved |-> ex.saved, dropped |-> ex.dropped] \in Outcomes
  BY <1>1 DEF Outcomes
<1>3. QED
  BY <1>1, <1>2 DEF ExtractDecision, DecisionRows, Subjects, Refs

(* The evaluator's decision is a row about another subject.                *)
LEMMA EvaluationSaved ==
  ASSUME TypeOK, StoresInv, recordDecision
  PROVE  /\ Faithful'
         /\ \E d \in Decs \ DOMAIN db.memory.decisions, r \in DecisionRows :
              /\ db'.memory.decisions = Mem!Insert(db.memory.decisions, d, r)
              /\ r.subject = "commitment.evaluate"
         /\ db'.memory.commitments = db.memory.commitments
         /\ db'.memory.interventions = db.memory.interventions
         /\ Grows(db.memory, db'.memory)
<1>1. PICK c \in Stored("commitments"), d \in Decs \ Stored("decisions"), at \in 1..now :
        NewDecisionRow(d, [subject |-> "commitment.evaluate", weights |-> "some",
                           refs |-> Mem!Copied(db.memory.commitments[c].refs),
                           created |-> at, form |-> "go", outcome |-> [commitment |-> c]])
  BY DEF recordDecision
<1> DEFINE r == [subject |-> "commitment.evaluate", weights |-> "some",
                 refs |-> Mem!Copied(db.memory.commitments[c].refs),
                 created |-> at, form |-> "go", outcome |-> [commitment |-> c]]
<1>2. c \in Cs /\ db.memory.commitments[c] \in CommitmentRows
  BY MirrorRows DEF Stored, StoresInv, Faithful
<1>3. Mem!Copied(db.memory.commitments[c].refs) \in Refs
  BY <1>2 DEF CommitmentRows, Refs, Mem!Copied
<1>4. at \in Nat /\ [commitment |-> c] \in Outcomes
  BY <1>2, ResolveInputs DEF TypeOK, Outcomes
<1>5. r \in DecisionRows /\ r.subject = "commitment.evaluate"
  BY <1>3, <1>4 DEF DecisionRows, Subjects, Refs
<1> HIDE DEF r
<1>6. NewDecisionRow(d, r)
  BY <1>1 DEF r
<1>7. d \in Decs \ DOMAIN db.memory.decisions
  BY DEF Stored
<1>8. QED
  BY <1>5, <1>6, <1>7, DecisionSaved

(* The pipelines' decisions keep the invariant.                            *)
LEMMA DecideStep ==
  ASSUME TypeOK, StoresInv, ExDecide \/ recordDecision
  PROVE  StoresInv'
<1>1. UNCHANGED <<row, pc, req, copy, held>>
  BY DEF ExDecide, recordDecision, vars
<1>2. CASE ExDecide
  <2>1. ex # NoExtract /\ ex' = NoExtract
    BY <1>2 DEF ExDecide
  <2>2. Extracting'
    BY <2>1 DEF Extracting, NoExtract
  <2>3. Faithful' /\ db'.memory.interventions = db.memory.interventions
    <3>1. CASE db' = db
      BY <3>1 DEF StoresInv, Faithful
    <3>2. ASSUME NEW d \in Decs \ Stored("decisions"), NewDecisionRow(d, ExtractDecision)
          PROVE  Faithful' /\ db'.memory.interventions = db.memory.interventions
      BY <2>1, <3>2, ExtractDecides, DecisionSaved
    <3>3. QED
      BY <1>2, <3>1, <3>2 DEF ExDecide
  <2>4. QED
    BY <1>1, <2>2, <2>3, ResolvingKept DEF StoresInv
<1>3. CASE recordDecision
  <2>1. ex' = ex
    BY <1>3 DEF recordDecision
  <2>2. /\ Faithful' /\ db'.memory.interventions = db.memory.interventions
        /\ db'.memory.commitments = db.memory.commitments
    BY <1>3, EvaluationSaved
  <2>3. QED
    BY <1>1, <2>1, <2>2, ResolvingKept, ExtractingKept DEF StoresInv
<1>4. QED
  BY <1>2, <1>3

(* Evaluator, planners and movers keep the invariant.                      *)
LEMMA PlanStep ==
  ASSUME TypeOK, StoresInv, Moving, UpdateRisk \/ Creates \/ Moves
  PROVE  StoresInv' /\ Grows(db.memory, db'.memory)
<1>1. ex' = ex /\ UNCHANGED <<row, pc, req, copy, held>>
  BY DEF UpdateRisk, Creates, Moves, Read, GiveUp, MoveCommitment, NewGoal, MoveGoal, NewTask,
     MoveTask, vars
<1>2. /\ Faithful' /\ db'.memory.interventions = db.memory.interventions
      /\ DOMAIN db.memory.commitments \subseteq DOMAIN db'.memory.commitments
      /\ Grows(db.memory, db'.memory)
  <2>1. CASE UpdateRisk
    BY <2>1, RiskUpdated
  <2>2. ASSUME NEW w \in Movers, MoveCommitment(w)
        PROVE  /\ Faithful' /\ db'.memory.interventions = db.memory.interventions
               /\ DOMAIN db.memory.commitments \subseteq DOMAIN db'.memory.commitments
               /\ Grows(db.memory, db'.memory)
    BY <2>2, CommitmentMoved DEF Mem!Insert
  <2>3. ASSUME NEW w, Creates \/ (w \in Movers /\ (MoveGoal(w) \/ MoveTask(w)))
        PROVE  /\ Faithful' /\ db'.memory.interventions = db.memory.interventions
               /\ DOMAIN db.memory.commitments \subseteq DOMAIN db'.memory.commitments
               /\ Grows(db.memory, db'.memory)
    BY <2>3, Planned DEF OnlyPlans
  <2>4. ASSUME NEW w \in Movers, Read(w) \/ GiveUp(w)
        PROVE  /\ Faithful' /\ db'.memory.interventions = db.memory.interventions
               /\ DOMAIN db.memory.commitments \subseteq DOMAIN db'.memory.commitments
               /\ Grows(db.memory, db'.memory)
    BY <2>4 DEF Read, GiveUp, StoresInv, Faithful, Grows
  <2>5. QED
    BY <2>1, <2>2, <2>3, <2>4 DEF Moves
<1>3. QED
  BY <1>1, <1>2, ResolvingKept, ExtractingKept DEF StoresInv

(* The evaluator's new intervention gets a row of its own.                 *)
LEMMA InterveneStep ==
  ASSUME TypeOK, StoresInv, NEW i \in Ivs, Intervene(i)
  PROVE  StoresInv'
<1> DEFINE I == db.memory.interventions
<1>1. /\ row[i].status = "none" /\ row' = [row EXCEPT ![i] = [status |-> "pending", resolvedAt |-> 0]]
      /\ UNCHANGED <<pc, req, copy, held, ex>>
  BY DEF Intervene, Create, Put
<1>2. PICK c \in Stored("commitments"), at \in 1..now :
        Store(Mem!SaveIntervention(db.memory, i, NewIntervention(c, at)),
              Lite!SaveIntervention(db.sqlite, i, NewIntervention(c, at)),
              Pg!SaveIntervention(db.postgres, i, NewIntervention(c, at)))
  BY DEF Intervene, Write
<1> DEFINE r == NewIntervention(c, at)
<1>3. c \in DOMAIN db.memory.commitments /\ c \in Cs /\ at \in Nat
  BY MirrorRows, ResolveInputs DEF Stored, StoresInv, Faithful, TypeOK
<1>4. /\ r \in InterventionRows /\ r.commitment = c
      /\ r.status = "pending" /\ r.resolvedAt = 0
  BY <1>3 DEF NewIntervention, InterventionRows, InterventionStatus
<1> HIDE DEF r
<1>5. i \notin DOMAIN I
  <2>1. \A k \in DOMAIN I : I[k].status \in InterventionStatus
    BY MirrorRows DEF StoresInv, Faithful, InterventionRows
  <2>2. row[i] = RowOf(I, i)
    BY DEF StoresInv, Resolving
  <2>3. i \in DOMAIN I => row[i].status = I[i].status
    BY <2>2 DEF RowOf
  <2>4. QED
    BY <1>1, <2>1, <2>3 DEF InterventionStatus
<1>6. /\ Faithful' /\ db'.memory.interventions = Mem!Insert(I, i, r)
      /\ db'.memory.commitments = db.memory.commitments
  BY <1>2, <1>3, <1>4, <1>5, InterventionSaved DEF r
<1>7. /\ DOMAIN db'.memory.interventions = DOMAIN I \cup {i}
      /\ db'.memory.interventions[i] = r
      /\ \A k \in DOMAIN I : db'.memory.interventions[k] = I[k]
  BY <1>5, <1>6 DEF Mem!Insert
<1>8. Resolving'
  <2>1. \A k \in Ivs : row'[k] = RowOf(db'.memory.interventions, k)
    <3> SUFFICES ASSUME NEW k \in Ivs PROVE row'[k] = RowOf(db'.memory.interventions, k)
      OBVIOUS
    <3>1. CASE k = i
      BY <1>1, <1>4, <1>7, <3>1 DEF TypeOK, RowOf
    <3>2. CASE k # i
      <4>1. row'[k] = row[k] /\ row[k] = RowOf(I, k)
        BY <1>1, <3>2 DEF TypeOK, StoresInv, Resolving
      <4>2. QED
        BY <1>7, <3>2, <4>1 DEF RowOf
    <3>3. QED
      BY <3>1, <3>2
  <2>2. ASSUME NEW h \in Handlers, pc'[h] # "idle" PROVE Holding(h)'
    <3>1. Holding(h)
      BY <1>1, <2>2 DEF StoresInv, Resolving
    <3>2. QED
      BY <1>1, <1>7, <3>1 DEF Holding
  <2>3. held' = [h \in Handlers |-> held'[h]]
    BY <1>1 DEF StoresInv, Resolving
  <2>4. QED
    BY <2>1, <2>2, <2>3 DEF Resolving
<1>9. QED
  BY <1>1, <1>6, <1>8, ExtractingKept DEF StoresInv

(* The resolve handler's three steps.                                      *)
LEMMA GetStep ==
  ASSUME TypeOK, StoresInv, NEW h \in Handlers, HandlerGet(h)
  PROVE  StoresInv'
<1> DEFINE I == db.memory.interventions
<1>1. PICK i \in Ivs, t \in Targets :
        /\ row[i].status # "none"
        /\ req' = [req EXCEPT ![h] = [id |-> i, target |-> t]]
        /\ copy' = [copy EXCEPT ![h] = row[i]]
  BY DEF HandlerGet, Get
<1>2. db' = db /\ ex' = ex /\ row' = row /\ pc' = [pc EXCEPT ![h] = "resolve"]
  BY DEF HandlerGet, Get
<1>3. req'[h] = [id |-> i, target |-> t] /\ req'[h].id = i /\ copy'[h] = row[i]
  BY <1>1 DEF TypeOK
<1>4. row[i] = [status |-> I[i].status, resolvedAt |-> I[i].resolvedAt] /\ i \in DOMAIN I
  <2>1. row[i] = RowOf(I, i)
    BY DEF StoresInv, Resolving
  <2>2. QED
    BY <1>1, <2>1 DEF RowOf, Absent
<1>5. I[i] \in InterventionRows
  BY <1>4, MirrorRows DEF StoresInv, Faithful
<1>6. /\ Mem!GetIntervention(db.memory, i) = I[i] /\ Lite!GetIntervention(db.sqlite, i) = I[i]
      /\ Pg!GetIntervention(db.postgres, i) = I[i]
  BY <1>4, SameGets, PostgresGets DEF Found, StoresInv, Faithful
<1>7. held' = [held EXCEPT ![h] = [memory |-> I[i], sqlite |-> I[i], postgres |-> I[i]]]
  BY <1>3, <1>6 DEF HandlerGet
<1>8. held'[h] = [memory |-> I[i], sqlite |-> I[i], postgres |-> I[i]]
  BY <1>7 DEF StoresInv, Resolving
<1>9. Holding(h)'
  BY <1>2, <1>3, <1>4, <1>5, <1>8 DEF Holding
<1>10. ASSUME NEW g \in Handlers, g # h, pc'[g] # "idle" PROVE Holding(g)'
  <2>1. /\ pc[g] = pc'[g] /\ held'[g] = held[g]
        /\ req'[g] = req[g] /\ copy'[g] = copy[g]
    BY <1>1, <1>2, <1>7, <1>10 DEF TypeOK, StoresInv, Resolving
  <2>2. Holding(g)
    BY <1>10, <2>1 DEF StoresInv, Resolving
  <2>3. QED
    BY <1>2, <2>1, <2>2 DEF Holding
<1>11. held' = [g \in Handlers |-> held'[g]]
  BY <1>7 DEF StoresInv, Resolving
<1>12. Resolving'
  BY <1>2, <1>9, <1>10, <1>11 DEF StoresInv, Resolving
<1>13. QED
  BY <1>2, <1>12, ExtractingKept DEF StoresInv, Faithful

(* The handler stamps its copies of the three rows alike.                  *)
LEMMA ResolveStep ==
  ASSUME TypeOK, StoresInv, NEW h \in Handlers, HandlerResolve(h)
  PROVE  StoresInv'
<1> DEFINE I == db.memory.interventions
<1>1. /\ db' = db /\ ex' = ex /\ row' = row /\ pc[h] = "resolve"
      /\ \A g \in Handlers \ {h} :
           pc'[g] = pc[g] /\ req'[g] = req[g] /\ copy'[g] = copy[g]
  BY DEF HandlerResolve, Resolve, Done, TypeOK
<1>2. Holding(h)
  BY <1>1 DEF StoresInv, Resolving
<1>3. ASSUME NEW g \in Handlers, g # h, held'[g] = held[g], pc'[g] # "idle" PROVE Holding(g)'
  <2>1. Holding(g)
    BY <1>1, <1>3 DEF StoresInv, Resolving
  <2>2. QED
    BY <1>1, <1>3, <2>1 DEF Holding
<1>4. CASE pc'[h] = "save"
  <2> DEFINE iv == held[h].memory
             Stamp(q) == [q EXCEPT !.status = copy'[h].status, !.resolvedAt = copy'[h].resolvedAt]
  <2>1. /\ req'[h] = req[h] /\ req[h].target \in InterventionStatus
        /\ copy'[h] = [status |-> req[h].target, resolvedAt |-> now]
    BY <1>4 DEF HandlerResolve, Resolve, Done, TypeOK
  <2>2. copy'[h].status \in InterventionStatus /\ copy'[h].resolvedAt \in Nat
    BY <2>1, ResolveInputs DEF TypeOK
  <2>3. held' = [held EXCEPT ![h] = [b \in DOMAIN held[h] |-> Stamp(held[h][b])]]
    BY <1>4, Zenon DEF HandlerResolve
  <2>4. held'[h] = [b \in DOMAIN held[h] |-> Stamp(held[h][b])]
    BY <2>3 DEF StoresInv, Resolving
  <2>5. iv \in InterventionRows /\ held[h] = [memory |-> iv, sqlite |-> iv, postgres |-> iv]
    BY <1>2 DEF Holding
  <2>6. Stamp(iv) = [commitment |-> iv.commitment, task |-> iv.task,
                     status |-> copy'[h].status, triggeredAt |-> iv.triggeredAt,
                     resolvedAt |-> copy'[h].resolvedAt, action |-> iv.action]
    <3> DEFINE one == [iv EXCEPT !.status = copy'[h].status]
               two == [one EXCEPT !.resolvedAt = copy'[h].resolvedAt]
    <3>1. one = [commitment |-> iv.commitment, task |-> iv.task,
                 status |-> copy'[h].status, triggeredAt |-> iv.triggeredAt,
                 resolvedAt |-> iv.resolvedAt, action |-> iv.action]
      BY <2>5 DEF InterventionRows
    <3> HIDE DEF one
    <3>2. two = [commitment |-> iv.commitment, task |-> iv.task,
                 status |-> copy'[h].status, triggeredAt |-> iv.triggeredAt,
                 resolvedAt |-> copy'[h].resolvedAt, action |-> iv.action]
      BY <3>1
    <3>3. QED
      BY <3>2, Zenon DEF one
  <2> HIDE DEF Stamp
  <2>7. /\ Stamp(iv) \in InterventionRows
        /\ Stamp(iv).status = copy'[h].status /\ Stamp(iv).resolvedAt = copy'[h].resolvedAt
        /\ Stamp(iv).commitment = iv.commitment /\ Stamp(iv).triggeredAt = iv.triggeredAt
    BY <2>2, <2>5, <2>6 DEF InterventionRows
  <2>8. held'[h] = [memory |-> Stamp(iv), sqlite |-> Stamp(iv), postgres |-> Stamp(iv)]
    BY <2>4, <2>5
  <2>9. Holding(h)'
    <3>1. held'[h].memory = Stamp(iv)
      BY <2>8
    <3>2. copy'[h] = [status |-> Stamp(iv).status, resolvedAt |-> Stamp(iv).resolvedAt]
      BY <2>1, <2>7
    <3>3. QED
      BY <1>1, <1>2, <2>1, <2>7, <2>8, <3>1, <3>2 DEF Holding
  <2>10. \A g \in Handlers \ {h} : held'[g] = held[g]
    BY <2>3 DEF StoresInv, Resolving
  <2>11. held' = [g \in Handlers |-> held'[g]]
    BY <2>3 DEF StoresInv, Resolving
  <2>12. Resolving'
    BY <1>1, <1>3, <2>9, <2>10, <2>11 DEF StoresInv, Resolving
  <2>13. QED
    BY <1>1, <2>12, ExtractingKept DEF StoresInv, Faithful
<1>5. CASE pc'[h] # "save"
  <2>1. held' = [held EXCEPT ![h] = <<>>] /\ pc'[h] = "idle"
    BY <1>5 DEF HandlerResolve, Resolve, Done, Forget, TypeOK
  <2>2. /\ \A g \in Handlers \ {h} : held'[g] = held[g]
        /\ held' = [g \in Handlers |-> held'[g]]
    BY <2>1 DEF StoresInv, Resolving
  <2>3. Resolving'
    BY <1>1, <1>3, <2>1, <2>2 DEF StoresInv, Resolving
  <2>4. QED
    BY <1>1, <2>3, ExtractingKept DEF StoresInv, Faithful
<1>6. QED
  BY <1>4, <1>5

(* Save writes the handler's copies, stale or not, over the rows; the      *)
(* columns that it leaves alone are those the handler read.                *)
LEMMA SaveStep ==
  ASSUME TypeOK, StoresInv, NEW h \in Handlers, HandlerSave(h)
  PROVE  StoresInv'
<1> DEFINE I == db.memory.interventions
           id == req[h].id
           iv == held[h].memory
<1>1. /\ ex' = ex /\ held' = [held EXCEPT ![h] = <<>>] /\ pc[h] = "save" /\ pc'[h] = "idle"
      /\ \A g \in Handlers \ {h} :
           pc'[g] = pc[g] /\ req'[g] = req[g] /\ copy'[g] = copy[g]
  BY DEF HandlerSave, Forget, SaveOK, SaveFails, Done, TypeOK
<1>2. /\ \A g \in Handlers \ {h} : held'[g] = held[g]
      /\ held' = [g \in Handlers |-> held'[g]]
  BY <1>1 DEF StoresInv, Resolving
<1>3. Holding(h)
  BY <1>1 DEF StoresInv, Resolving
<1>4. CASE SaveFails(h) /\ db' = db
  <2>1. row' = row
    BY <1>4 DEF SaveFails
  <2>2. ASSUME NEW g \in Handlers, pc'[g] # "idle" PROVE Holding(g)'
    <3>1. g # h /\ Holding(g)
      BY <1>1, <2>2 DEF StoresInv, Resolving
    <3>2. QED
      BY <1>1, <1>2, <1>4, <3>1 DEF Holding
  <2>3. Resolving'
    BY <1>2, <1>4, <2>1, <2>2 DEF StoresInv, Resolving
  <2>4. QED
    BY <1>1, <1>4, <2>3, ExtractingKept DEF StoresInv, Faithful
<1>5. CASE /\ SaveOK(h)
           /\ Store(Mem!SaveIntervention(db.memory, req[h].id, held[h].memory),
                    Lite!SaveIntervention(db.sqlite, req[h].id, held[h].sqlite),
                    Pg!SaveIntervention(db.postgres, req[h].id, held[h].postgres))
  <2>1. /\ id \in Ivs /\ id \in DOMAIN I /\ iv \in InterventionRows
        /\ held[h].sqlite = iv /\ held[h].postgres = iv
        /\ iv.commitment = I[id].commitment /\ iv.triggeredAt = I[id].triggeredAt
        /\ copy[h] = [status |-> iv.status, resolvedAt |-> iv.resolvedAt]
    BY <1>1, <1>3 DEF Holding, TypeOK
  <2>2. iv.commitment \in DOMAIN db.memory.commitments
    BY <2>1 DEF StoresInv, Faithful, Mirror
  <2>3. /\ Faithful' /\ db'.memory.interventions = Mem!Insert(I, id, iv)
        /\ db'.memory.commitments = db.memory.commitments
    BY <1>5, <2>1, <2>2, InterventionSaved
  <2>4. /\ DOMAIN db'.memory.interventions = DOMAIN I
        /\ db'.memory.interventions[id] = iv
        /\ \A k \in DOMAIN I \ {id} : db'.memory.interventions[k] = I[k]
    BY <2>1, <2>3 DEF Mem!Insert
  <2>5. row' = [row EXCEPT ![id] = copy[h]]
    BY <1>5 DEF SaveOK, Put
  <2>6. \A k \in Ivs : row'[k] = RowOf(db'.memory.interventions, k)
    <3> SUFFICES ASSUME NEW k \in Ivs PROVE row'[k] = RowOf(db'.memory.interventions, k)
      OBVIOUS
    <3>1. CASE k = id
      BY <2>1, <2>4, <2>5, <3>1 DEF TypeOK, RowOf
    <3>2. CASE k # id
      <4>1. row'[k] = row[k] /\ row[k] = RowOf(I, k)
        BY <2>5, <3>2 DEF TypeOK, StoresInv, Resolving
      <4>2. QED
        BY <2>4, <3>2, <4>1 DEF RowOf
    <3>3. QED
      BY <3>1, <3>2
  <2>7. ASSUME NEW g \in Handlers, pc'[g] # "idle" PROVE Holding(g)'
    <3>1. g # h /\ Holding(g)
      BY <1>1, <2>7 DEF StoresInv, Resolving
    <3>2. /\ held'[g] = held[g] /\ req'[g] = req[g] /\ copy'[g] = copy[g]
      BY <1>1, <1>2, <3>1
    <3>3. /\ db'.memory.interventions[req[g].id].commitment = I[req[g].id].commitment
          /\ db'.memory.interventions[req[g].id].triggeredAt = I[req[g].id].triggeredAt
      BY <2>1, <2>4, <3>1 DEF Holding
    <3>4. QED
      BY <2>4, <3>1, <3>2, <3>3 DEF Holding
  <2>8. Resolving'
    BY <1>2, <2>6, <2>7 DEF Resolving
  <2>9. QED
    BY <1>1, <2>3, <2>8, ExtractingKept DEF StoresInv
<1>6. QED
  BY <1>4, <1>5 DEF HandlerSave

(* Saving interventions touches no other table.                            *)
LEMMA CommitmentsKept ==
  ASSUME TypeOK, StoresInv, Intervenes \/ Resolves
  PROVE  /\ db'.memory.commitments = db.memory.commitments
         /\ db'.memory.decisions = db.memory.decisions
         /\ Grows(db.memory, db'.memory)
<1>1. \/ db' = db
      \/ \E i, a, b, c : Store(Mem!SaveIntervention(db.memory, i, a),
                             Lite!SaveIntervention(db.sqlite, i, b),
                             Pg!SaveIntervention(db.postgres, i, c))
  <2>1. CASE Intervenes
    BY <2>1 DEF Intervenes, Intervene, Write
  <2>2. CASE Resolves
    BY <2>2 DEF Resolves, HandlerGet, HandlerResolve, HandlerSave
  <2>3. QED
    BY <2>1, <2>2
<1>2. ASSUME NEW i, NEW a, NEW b, NEW c,
             Store(Mem!SaveIntervention(db.memory, i, a),
                   Lite!SaveIntervention(db.sqlite, i, b),
                   Pg!SaveIntervention(db.postgres, i, c))
      PROVE  /\ db'.memory.commitments = db.memory.commitments
             /\ db'.memory.decisions = db.memory.decisions
             /\ Grows(db.memory, db'.memory)
  <2>1. db'.memory = [db.memory EXCEPT !.interventions =
                        Mem!Insert(db.memory.interventions, i, a)]
    BY <1>2 DEF Store, Mem!SaveIntervention
  <2>2. Mirror(db.memory, db.sqlite)
    BY DEF StoresInv, Faithful
  <2>3. Grows(db.memory, db'.memory)
    BY <2>1, <2>2, OtherGrowth
  <2>4. QED
    BY <2>1, <2>2, <2>3, TablesApart
<1>3. QED
  BY <1>1, <1>2 DEF Grows

(* Every step of the three stores keeps them the same.                     *)
LEMMA StoresStep ==
  TypeOK /\ StoresInv /\ Moving /\ [StoresNext]_<<vars, storeVars>> => StoresInv'
<1> SUFFICES ASSUME TypeOK, StoresInv, Moving, [StoresNext]_<<vars, storeVars>> PROVE StoresInv'
  OBVIOUS
<1>1. CASE \/ UNCHANGED <<vars, storeVars>>
           \/ Tick /\ UNCHANGED <<db, held, ex, moving, silent, writes>>
  <2>1. UNCHANGED <<db, held, ex, row, pc, req, copy>>
    BY <1>1 DEF vars, storeVars, Tick
  <2>2. QED
    BY <2>1, ResolvingKept, ExtractingKept DEF StoresInv, Faithful
<1>2. CASE ExBegin \/ SaveDraft \/ DropDraft
  BY <1>2, ExtractStep
<1>3. CASE ExDecide \/ Evaluates
  BY <1>3, DecideStep, PlanStep DEF Evaluates
<1>4. CASE Intervenes
  BY <1>4, InterveneStep DEF Intervenes
<1>5. CASE Resolves
  BY <1>5, GetStep, ResolveStep, SaveStep DEF Resolves
<1>6. CASE Creates \/ Moves
  BY <1>6, PlanStep
<1>7. QED
  BY <1>1, <1>2, <1>3, <1>4, <1>5, <1>6 DEF StoresNext

(* No step takes a row away or changes what no Save may change.            *)
LEMMA RowsStay ==
  ASSUME TypeOK, StoresInv, Moving, [StoresNext]_<<vars, storeVars>>
  PROVE  Grows(db.memory, db'.memory)
<1>1. CASE db' = db
  BY <1>1 DEF Grows
<1>2. CASE SaveDraft
  BY <1>2, DraftSaved
<1>3. ASSUME NEW d \in Decs \ Stored("decisions"), NewDecisionRow(d, ExtractDecision),
             ex # NoExtract
      PROVE  Grows(db.memory, db'.memory)
  BY <1>3, ExtractDecides, DecisionSaved
<1>4. CASE ExDecide
  BY <1>1, <1>3, <1>4 DEF ExDecide
<1>5. CASE recordDecision
  BY <1>5, EvaluationSaved
<1>6. CASE UpdateRisk \/ Creates \/ Moves
  BY <1>6, PlanStep
<1>7. CASE Intervenes \/ Resolves
  BY <1>7, CommitmentsKept
<1>8. CASE ExBegin \/ DropDraft \/ UNCHANGED <<vars, storeVars>>
           \/ (Tick /\ UNCHANGED <<db, held, ex, moving, silent, writes>>)
  BY <1>1, <1>8 DEF ExBegin, DropDraft, storeVars
<1>9. QED
  BY <1>2, <1>4, <1>5, <1>6, <1>7, <1>8 DEF StoresNext, Evaluates

(* What Read puts into a client's hands are rows of the stores.            *)
LEMMA ReadCarries ==
  ASSUME StoresInv, Moving, NEW w \in Movers, Read(w)
  PROVE  /\ db' = db /\ \E x : moving' = [moving EXCEPT ![w] = x] /\ Carried(x, db.memory)
<1> DEFINE m == db.memory
           s == db.sqlite
           p == db.postgres
<1>1. Mirror(m, s) /\ p = s
  BY DEF StoresInv, Faithful
<1>2. ASSUME NEW c \in Stored("commitments")
      PROVE  Carried(Copies("commitments", c, Mem!GetCommitment(m, c), Lite!GetCommitment(s, c),
                            Pg!GetCommitment(p, c)), m)
  <2> DEFINE r == m.commitments[c]
  <2>1. c \in DOMAIN m.commitments /\ r \in CommitmentRows
    BY <1>1, MirrorRows DEF Stored
  <2>2. /\ Mem!GetCommitment(m, c) = r /\ Lite!GetCommitment(s, c) = r
        /\ Pg!GetCommitment(p, c) = r
    BY <1>1, <2>1, SameGets, PostgresGets DEF Found
  <2>3. Carried(Copies("commitments", c, r, r, r), m)
    BY <2>1 DEF Carried, Copies
  <2>4. QED
    BY <2>2, <2>3
<1>3. ASSUME NEW g \in Stored("goals")
      PROVE  Carried(Copies("goals", g, Mem!GetGoal(m, g), Lite!GetGoal(s, g),
                            Pg!GetGoal(p, g)), m)
  <2> DEFINE r == m.goals[g]
  <2>1. g \in DOMAIN m.goals /\ r \in GoalRows
    BY <1>1, MirrorRows DEF Stored
  <2>2. Mem!GetGoal(m, g) = r /\ Lite!GetGoal(s, g) = r /\ Pg!GetGoal(p, g) = r
    BY <1>1, <2>1, SameGets, PostgresGets DEF Found
  <2>3. Carried(Copies("goals", g, r, r, r), m)
    BY <2>1 DEF Carried, Copies
  <2>4. QED
    BY <2>2, <2>3
<1>4. ASSUME NEW t \in Stored("tasks")
      PROVE  Carried(Copies("tasks", t, Mem!GetTask(m, t), Lite!GetTask(s, t),
                            Pg!GetTask(p, t)), m)
  <2> DEFINE r == m.tasks[t]
  <2>1. t \in DOMAIN m.tasks /\ r \in TaskRows
    BY <1>1, MirrorRows DEF Stored
  <2>2. r.goal \in DOMAIN m.goals \cup {Nil} /\ r.commitment \in DOMAIN m.commitments \cup {Nil}
    BY <1>1, <2>1 DEF Mirror
  <2>3. Mem!GetTask(m, t) = r /\ Lite!GetTask(s, t) = r /\ Pg!GetTask(p, t) = r
    BY <1>1, <2>1, SameGets, PostgresGets DEF Found
  <2>4. Carried(Copies("tasks", t, r, r, r), m)
    BY <2>1, <2>2 DEF Carried, Copies
  <2>5. QED
    BY <2>3, <2>4
<1>5. QED
  BY <1>2, <1>3, <1>4, Zenon DEF Read

(* A client's copy grows old, and may still be saved.                      *)
LEMMA MovingStep ==
  TypeOK /\ StoresInv /\ Moving /\ [StoresNext]_<<vars, storeVars>> => Moving'
<1> SUFFICES ASSUME TypeOK, StoresInv, Moving, [StoresNext]_<<vars, storeVars>> PROVE Moving'
  OBVIOUS
<1>1. \A x : Carried(x, db.memory) => Carried(x, db'.memory)
  BY RowsStay, CarriedOn
<1>2. CASE moving' = moving
  BY <1>1, <1>2 DEF Moving
<1>3. ASSUME NEW w \in Movers, Finished(w) PROVE Moving'
  BY <1>1, <1>3 DEF Moving, Finished
<1>4. ASSUME NEW w \in Movers, Read(w) PROVE Moving'
  <2>1. PICK x : moving' = [moving EXCEPT ![w] = x] /\ Carried(x, db.memory)
    BY <1>4, ReadCarries
  <2>2. QED
    BY <1>1, <2>1 DEF Moving
<1>5. CASE Moves
  BY <1>3, <1>4, <1>5 DEF Moves, GiveUp, MoveCommitment, MoveGoal, MoveTask
<1>6. CASE \/ ExBegin \/ SaveDraft \/ DropDraft \/ ExDecide \/ Evaluates \/ Intervenes
           \/ Creates \/ UNCHANGED <<vars, storeVars>>
           \/ (Tick /\ UNCHANGED <<db, held, ex, moving, silent, writes>>)
  BY <1>2, <1>6 DEF ExBegin, SaveDraft, DropDraft, ExDecide, Evaluates, UpdateRisk,
     recordDecision, Intervenes, Intervene, Creates, NewGoal, NewTask, storeVars
<1>7. CASE Resolves
  BY <1>2, <1>7 DEF Resolves, HandlerGet, HandlerResolve, HandlerSave
<1>8. QED
  BY <1>5, <1>6, <1>7 DEF StoresNext

(* For the table of Interventions a step of the stores is a step of its    *)
(* own or none.                                                            *)
LEMMA TableStep == StoresNext => [Next]_vars
<1> SUFFICES ASSUME StoresNext PROVE [Next]_vars
  OBVIOUS
<1>1. CASE Tick
  BY <1>1 DEF Next
<1>2. CASE ExBegin \/ SaveDraft \/ DropDraft \/ ExDecide
  BY <1>2 DEF ExBegin, SaveDraft, DropDraft, ExDecide
<1>3. CASE Evaluates \/ Creates \/ Moves
  BY <1>3 DEF Evaluates, UpdateRisk, recordDecision, Creates, Moves, Read, GiveUp,
     MoveCommitment, NewGoal, MoveGoal, NewTask, MoveTask
<1>4. CASE Intervenes
  BY <1>4 DEF Intervenes, Intervene, Next
<1>5. CASE Resolves
  BY <1>5 DEF Resolves, HandlerGet, HandlerResolve, HandlerSave, Save, Next
<1>6. QED
  BY <1>1, <1>2, <1>3, <1>4, <1>5 DEF StoresNext

(* The handlers over the three stores are the handlers of Interventions:   *)
(* whatever is proved of its table holds of what the stores show.          *)
THEOREM StoresImplementTable == StoresSpec => Spec
<1>1. StoresInit => Init
  BY DEF StoresInit
<1>2. [StoresNext]_<<vars, storeVars>> => [Next]_vars
  BY TableStep DEF storeVars
<1>3. QED
  BY <1>1, <1>2, PTL DEF StoresSpec, Spec

(* In every reachable state the three stores hold the same rows.           *)
LEMMA StoresInvariant == StoresSpec => [](TypeOK /\ StoresInv /\ Moving)
BY StoresStart, StoresStep, MovingStep, StoresImplementTable, TypeCorrect, PTL DEF StoresSpec

(* Encoding an intervention, upserting it with the columns of its SET      *)
(* clause and scanning it back loses no resolution, in any store and       *)
(* however handlers overtake each other.                                   *)
THEOREM RowsAreShown == StoresSpec => []StoresShowTheRow
<1>1. TypeOK /\ StoresInv => StoresShowTheRow
  <2> SUFFICES ASSUME TypeOK, StoresInv, NEW i \in Ivs
               PROVE  LET Shows(iv) ==
                            IF iv = <<>> THEN row[i] = Absent
                            ELSE row[i] = [status |-> iv.status, resolvedAt |-> iv.resolvedAt] IN
                      /\ Shows(Mem!GetIntervention(db.memory, i))
                      /\ Shows(Lite!GetIntervention(db.sqlite, i))
                      /\ Shows(Pg!GetIntervention(db.postgres, i))
    BY DEF StoresShowTheRow
  <2> DEFINE iv == Found(db.memory.interventions, i)
  <2>1. /\ Mem!GetIntervention(db.memory, i) = iv /\ Lite!GetIntervention(db.sqlite, i) = iv
        /\ Pg!GetIntervention(db.postgres, i) = iv
    BY SameGets, PostgresGets DEF StoresInv, Faithful
  <2>2. row[i] = RowOf(db.memory.interventions, i)
    BY DEF StoresInv, Resolving
  <2>3. i \in DOMAIN db.memory.interventions => db.memory.interventions[i] # <<>>
    <3>1. DOMAIN <<>> = {}
      OBVIOUS
    <3>2. i \in DOMAIN db.memory.interventions => "status" \in DOMAIN db.memory.interventions[i]
      BY MirrorRows, InterventionRoundTrip DEF StoresInv, Faithful
    <3>3. QED
      BY <3>1, <3>2
  <2>4. IF iv = <<>> THEN row[i] = Absent
        ELSE row[i] = [status |-> iv.status, resolvedAt |-> iv.resolvedAt]
    BY <2>2, <2>3 DEF Found, RowOf
  <2> HIDE DEF iv
  <2>5. QED
    BY <2>1, <2>4
<1>2. QED
  BY <1>1, StoresInvariant, PTL

(* A commitment that has left the worklist of a store comes back to it in  *)
(* one way only, in every interleaving and for any number of clients: one  *)
(* of them saves a copy that it read while the commitment was active.  No  *)
(* write of the evaluator or of an extraction brings it back.              *)
THEOREM OnlyStaleCopiesReopen == StoresSpec => OffTheWorklist
<1> DEFINE Active(r) == r.status \in {"pending", "in_progress"}
           Stale(b, c) == \E w \in Movers :
             /\ Holds(w, "commitments") /\ moving[w].id = c /\ Active(moving[w][b])
             /\ moving'[w] = <<>>
<1>1. ASSUME TypeOK, StoresInv, Moving, StoresInv', [StoresNext]_<<vars, storeVars>>,
             NEW b \in DOMAIN db, NEW c \in DOMAIN db[b].commitments,
             ~Active(db[b].commitments[c]), Active(db'[b].commitments[c])
      PROVE  Stale(b, c)
  <2> USE <1>1
  <2> DEFINE C == db.memory.commitments
             D == db'.memory.commitments
  <2>1. /\ b \in {"memory", "sqlite", "postgres"}
        /\ db["memory"] = db.memory /\ db["sqlite"] = db.sqlite
        /\ db["postgres"] = db.sqlite
        /\ db'["memory"] = db'.memory /\ db'["sqlite"] = db'.sqlite
        /\ db'["postgres"] = db'.sqlite
    BY DEF StoresInv, Faithful
  <2>2. /\ DOMAIN db.sqlite.commitments = DOMAIN C /\ DOMAIN db'.sqlite.commitments = DOMAIN D
        /\ \A k \in DOMAIN C : db.sqlite.commitments[k].status = C[k].status
        /\ \A k \in DOMAIN D : db'.sqlite.commitments[k].status = D[k].status
    <3>1. Mirror(db.memory, db.sqlite) /\ Mirror(db'.memory, db'.sqlite)
      BY DEF StoresInv, Faithful
    <3>2. QED
      BY <3>1, MirrorRows, KeptColumns
  <2>3. c \in DOMAIN C /\ c \in DOMAIN D
    <3>1. c \in DOMAIN C
      BY <2>1, <2>2
    <3>2. QED
      BY <3>1, RowsStay DEF Grows
  <2>4. ~Active(C[c]) /\ Active(D[c])
    BY <2>1, <2>2, <2>3
  <2>5. ASSUME NEW w \in Movers, MoveCommitment(w) PROVE Stale(b, c)
    <3>1. PICK r \in CommitmentRows :
            /\ D = Mem!Insert(C, moving[w].id, r)
            /\ CommitmentCanTransitionTo(moving[w].memory.status, r.status)
      BY <2>5, CommitmentMoved
    <3>2. c = moving[w].id /\ D[c] = r
      BY <2>3, <2>4, <3>1 DEF Mem!Insert
    <3>3. Active(moving[w].memory)
      BY <2>4, <3>1, <3>2 DEF CommitmentCanTransitionTo
    <3>4. /\ moving[w].sqlite = moving[w].memory /\ moving[w].postgres = moving[w].memory
          /\ Holds(w, "commitments")
      BY <2>5, Copy DEF MoveCommitment
    <3>5. Active(moving[w][b])
      BY <2>1, <3>3, <3>4
    <3>6. moving'[w] = <<>>
      BY <2>5 DEF MoveCommitment, Finished, Moving
    <3>7. QED
      BY <3>2, <3>4, <3>5, <3>6
  <2>6. ~SaveDraft
    BY <2>3, <2>4, DraftSaved DEF Mem!Insert
  <2>7. ~UpdateRisk
    BY <2>3, <2>4, RiskUpdated
  <2>8. D # C
    BY <2>4
  <2>9. db' # db /\ ~recordDecision /\ ~Intervenes /\ ~Resolves
    BY <2>8, EvaluationSaved, CommitmentsKept
  <2>10. ~ExDecide
    BY <2>8, <2>9, ExtractDecides, DecisionSaved DEF ExDecide
  <2>11. ~Creates /\ \A w \in Movers : ~MoveGoal(w) /\ ~MoveTask(w)
    BY <2>8, Planned DEF OnlyPlans
  <2>12. QED
    BY <2>5, <2>6, <2>7, <2>9, <2>10, <2>11
       DEF StoresNext, Evaluates, Moves, Read, GiveUp, ExBegin, DropDraft, storeVars
<1>2. ASSUME TypeOK, StoresInv, Moving, StoresInv', [StoresNext]_<<vars, storeVars>>
      PROVE  [\A b \in DOMAIN db : \A c \in DOMAIN db[b].commitments :
                LET A(r) == r.status \in {"pending", "in_progress"} IN
                ~A(db[b].commitments[c]) /\ A(db'[b].commitments[c]) =>
                  \E w \in Movers :
                    /\ Holds(w, "commitments") /\ moving[w].id = c /\ A(moving[w][b])
                    /\ moving'[w] = <<>>]_<<vars, storeVars>>
  BY <1>1, <1>2, Zenon
<1>3. QED
  BY <1>2, StoresInvariant, PTL DEF StoresSpec, OffTheWorklist

(* Served one at a time, resolutions follow the lifecycle whichever store  *)
(* holds them.                                                             *)
THEOREM StoresImplementLifecycle ==
  ASSUME \A g, h \in Handlers : g = h
  PROVE  StoresSpec => ImplementsLifecycle
<1>1. Spec => ImplementsLifecycle
  BY SerialImplementsLifecycle
<1>2. QED
  BY <1>1, StoresImplementTable, PTL
-----------------------------------------------------------------------------
(* The audit trail: its decisions add up, and with the commitments no      *)
(* decision tells of yet they account for every commitment.                *)
Audits(D) == {d \in DOMAIN D : D[d].subject = "commitment.extract"}
Books(D, Written, untold) ==
  /\ \A d \in Audits(D) :
       D[d].outcome.considered = Cardinality(D[d].outcome.saved) + D[d].outcome.dropped
  /\ Written = untold \cup UNION {D[d].outcome.saved : d \in Audits(D)}

Untold == silent \cup (IF ex = NoExtract THEN {} ELSE ex.saved)
Booked == Books(db.memory.decisions, DOMAIN db.memory.commitments, Untold)

(* A decision under a new id tells of what it saved.                       *)
LEMMA AuditBooked ==
  ASSUME NEW D, NEW Written, NEW untold, NEW d, d \notin DOMAIN D, NEW r,
         r.subject = "commitment.extract",
         r.outcome.considered = Cardinality(r.outcome.saved) + r.outcome.dropped,
         Books(D, Written, untold \cup r.outcome.saved)
  PROVE  Books(Mem!Insert(D, d, r), Written, untold)
<1> DEFINE E == Mem!Insert(D, d, r)
<1>1. E[d] = r /\ \A k \in DOMAIN D : E[k] = D[k]
  BY DEF Mem!Insert
<1>2. Audits(E) = Audits(D) \cup {d}
  BY DEF Mem!Insert, Audits
<1> HIDE DEF E
<1>3. UNION {E[k].outcome.saved : k \in Audits(E)} =
        r.outcome.saved \cup UNION {D[k].outcome.saved : k \in Audits(D)}
  BY <1>1, <1>2 DEF Audits
<1>4. Written = untold \cup UNION {E[k].outcome.saved : k \in Audits(E)}
  BY <1>3 DEF Books
<1>5. Books(E, Written, untold)
  BY <1>1, <1>2, <1>4 DEF Books, Audits
<1>6. QED
  BY <1>5 DEF E

(* A decision on another subject is no part of the trail.                  *)
LEMMA OtherBooked ==
  ASSUME NEW D, NEW Written, NEW untold, NEW d, d \notin DOMAIN D, NEW r,
         r.subject # "commitment.extract", Books(D, Written, untold)
  PROVE  Books(Mem!Insert(D, d, r), Written, untold)
<1> DEFINE E == Mem!Insert(D, d, r)
<1>1. \A k \in DOMAIN D : E[k] = D[k]
  BY DEF Mem!Insert
<1>2. Audits(E) = Audits(D)
  BY DEF Mem!Insert, Audits
<1> HIDE DEF E
<1>3. UNION {E[k].outcome.saved : k \in Audits(E)} =
        UNION {D[k].outcome.saved : k \in Audits(D)}
  BY <1>1, <1>2 DEF Audits
<1>4. Books(E, Written, untold)
  BY <1>1, <1>2, <1>3 DEF Books, Audits
<1>5. QED
  BY <1>4 DEF E


(* Every step keeps the audit trail complete.                              *)
LEMMA BookedStep ==
  TypeOK /\ StoresInv /\ Moving /\ Booked /\ [StoresNext]_<<vars, storeVars>> => Booked'
<1> SUFFICES ASSUME TypeOK, StoresInv, Moving, Booked, [StoresNext]_<<vars, storeVars>>
             PROVE  Booked'
  OBVIOUS
<1> DEFINE D == db.memory.decisions
           C == DOMAIN db.memory.commitments
<1>1. CASE ExBegin
  <2>1. /\ ex = NoExtract /\ UNCHANGED <<db, silent>>
        /\ \E n \in 0..MaxDrafts, r \in RequestRefs :
             ex' = [left |-> n, considered |-> n, now |-> now, refs |-> r,
                    saved |-> {}, dropped |-> 0]
    BY <1>1 DEF ExBegin
  <2>2. ex'.saved = {}
    BY <2>1
  <2>3. Untold' = Untold
    BY <2>1, <2>2 DEF Untold
  <2>4. QED
    BY <2>1, <2>3 DEF Booked
<1>2. CASE DropDraft
  <2>1. /\ ex # NoExtract /\ UNCHANGED <<db, silent>>
        /\ ex' = [ex EXCEPT !.left = @ - 1, !.dropped = @ + 1]
    BY <1>2 DEF DropDraft
  <2>2. ex \in Extractions
    BY <2>1 DEF StoresInv, Extracting
  <2>3. ex' = [left |-> ex.left - 1, considered |-> ex.considered, now |-> ex.now,
               refs |-> ex.refs, saved |-> ex.saved, dropped |-> ex.dropped + 1]
    BY <2>1, <2>2, DraftsCounted
  <2>4. ex'.saved = ex.saved /\ "saved" \in DOMAIN ex'
    BY <2>3
  <2>5. ex' # NoExtract
    BY <2>4 DEF NoExtract
  <2>6. Untold' = Untold
    BY <2>1, <2>4, <2>5 DEF Untold, NoExtract
  <2>7. QED
    BY <2>1, <2>6 DEF Booked
<1>3. CASE SaveDraft
  <2>1. ex # NoExtract /\ silent' = silent
    BY <1>3 DEF SaveDraft
  <2>2. PICK c \in Cs \ C, r \in CommitmentRows :
          /\ db'.memory.commitments = Mem!Insert(db.memory.commitments, c, r)
          /\ ex' = [ex EXCEPT !.left = @ - 1, !.saved = @ \cup {c}]
    BY <1>3, DraftSaved, Zenon
  <2>3. db'.memory.decisions = D
    BY <1>3, DraftSaved
  <2>4. ex \in Extractions
    BY <2>1 DEF StoresInv, Extracting
  <2>5. ex' = [left |-> ex.left - 1, considered |-> ex.considered, now |-> ex.now,
               refs |-> ex.refs, saved |-> ex.saved \cup {c}, dropped |-> ex.dropped]
    BY <2>2, <2>4, DraftsCounted
  <2>6. ex'.saved = ex.saved \cup {c} /\ "saved" \in DOMAIN ex'
    BY <2>5
  <2>7. ex' # NoExtract
    BY <2>6 DEF NoExtract
  <2>8. Untold' = Untold \cup {c}
    BY <2>1, <2>6, <2>7 DEF Untold, NoExtract
  <2>9. DOMAIN db'.memory.commitments = C \cup {c}
    BY <2>2 DEF Mem!Insert
  <2>10. QED
    BY <2>3, <2>8, <2>9 DEF Booked, Books
<1>4. CASE ExDecide
  <2>1. /\ ex # NoExtract /\ ex.left = 0 /\ ex' = NoExtract
    BY <1>4 DEF ExDecide
  <2>2. Untold = silent \cup ex.saved /\ Untold' = silent'
    BY <2>1 DEF Untold, NoExtract
  <2>3. CASE silent' = silent \cup ex.saved /\ UNCHANGED <<db, writes>>
    BY <2>2, <2>3 DEF Booked
  <2>4. ASSUME NEW d \in Decs \ Stored("decisions"), NewDecisionRow(d, ExtractDecision),
               silent' = silent
        PROVE  Booked'
    <3>1. /\ db'.memory.decisions = Mem!Insert(D, d, ExtractDecision)
          /\ db'.memory.commitments = db.memory.commitments
      BY <2>1, <2>4, ExtractDecides, DecisionSaved
    <3>2. d \notin DOMAIN D
      BY DEF Stored
    <3>3. ex.considered = Cardinality(ex.saved) + ex.dropped
      <4>1. /\ ex \in Extractions /\ Cardinality(ex.saved) \in Nat
            /\ ex.considered = Cardinality(ex.saved) + ex.dropped + ex.left
        BY <2>1, FS_CardinalityType DEF StoresInv, Extracting
      <4>2. QED
        BY <2>1, <4>1 DEF Extractions
    <3>4. /\ ExtractDecision.subject = "commitment.extract"
          /\ ExtractDecision.outcome.considered = ex.considered
          /\ ExtractDecision.outcome.saved = ex.saved
          /\ ExtractDecision.outcome.dropped = ex.dropped
      BY DEF ExtractDecision
    <3>5. Books(D, C, silent \cup ExtractDecision.outcome.saved)
      BY <2>2, <3>4 DEF Booked
    <3>6. Books(Mem!Insert(D, d, ExtractDecision), C, silent)
      BY <3>2, <3>3, <3>4, <3>5, AuditBooked
    <3>7. QED
      BY <2>2, <2>4, <3>1, <3>6 DEF Booked
  <2>5. QED
    BY <1>4, <2>3, <2>4 DEF ExDecide
<1>5. CASE recordDecision
  <2>1. UNCHANGED <<ex, silent>>
    BY <1>5 DEF recordDecision
  <2>2. PICK d \in Decs \ DOMAIN D, r \in DecisionRows :
          /\ db'.memory.decisions = Mem!Insert(D, d, r)
          /\ r.subject = "commitment.evaluate"
    BY <1>5, EvaluationSaved, Zenon
  <2>3. db'.memory.commitments = db.memory.commitments
    BY <1>5, EvaluationSaved
  <2>4. Books(Mem!Insert(D, d, r), C, Untold)
    BY <2>2, OtherBooked DEF Booked
  <2>5. QED
    BY <2>1, <2>2, <2>3, <2>4 DEF Booked, Untold, NoExtract
<1>6. ASSUME UNCHANGED <<ex, silent>>, db'.memory.decisions = D,
             DOMAIN db'.memory.commitments = C
      PROVE  Booked'
  BY <1>6 DEF Booked, Untold, NoExtract
<1>7. CASE UpdateRisk
  BY <1>6, <1>7, RiskUpdated DEF UpdateRisk
<1>8. ASSUME NEW w \in Movers, MoveCommitment(w) PROVE Booked'
  <2>1. UNCHANGED <<ex, silent>>
    BY <1>8 DEF MoveCommitment
  <2>2. DOMAIN db'.memory.commitments = C /\ db'.memory.decisions = D
    BY <1>8, CommitmentMoved DEF Mem!Insert
  <2>3. QED
    BY <1>6, <2>1, <2>2
<1>9. ASSUME NEW w, Creates \/ (w \in Movers /\ (MoveGoal(w) \/ MoveTask(w))) PROVE Booked'
  <2>1. UNCHANGED <<ex, silent>>
    BY <1>9 DEF Creates, NewGoal, MoveGoal, NewTask, MoveTask
  <2>2. QED
    BY <1>6, <1>9, <2>1, Planned DEF OnlyPlans
<1>10. CASE Intervenes \/ Resolves
  <2>1. UNCHANGED <<ex, silent>>
    BY <1>10 DEF Intervenes, Intervene, Resolves, HandlerGet, HandlerResolve, HandlerSave
  <2>2. QED
    BY <1>6, <1>10, <2>1, CommitmentsKept
<1>11. CASE UNCHANGED <<db, ex, silent>>
  BY <1>6, <1>11
<1>12. QED
  BY <1>1, <1>2, <1>3, <1>4, <1>5, <1>7, <1>8, <1>9, <1>10, <1>11
     DEF StoresNext, Evaluates, Moves, Read, GiveUp, storeVars

(* Extract's audit trail adds up in each store: every decision accounts    *)
(* for its drafts, and together they account for every commitment but      *)
(* those of a running call and of calls whose decision was not saved.      *)
THEOREM AuditTrailAddsUp == StoresSpec => []AuditAddsUp
<1>1. StoresInit => Booked
  <2> SUFFICES ASSUME StoresInit PROVE Booked
    OBVIOUS
  <2>1. /\ db.memory = Mem!New /\ ex = NoExtract /\ silent = {}
    BY DEF StoresInit
  <2>2. DOMAIN <<>> = {}
    OBVIOUS
  <2>3. DOMAIN db.memory.decisions = {} /\ DOMAIN db.memory.commitments = {}
    BY <2>1, <2>2 DEF Mem!New
  <2>4. QED
    BY <2>1, <2>3 DEF Booked, Books, Audits, Untold
<1>2. StoresInv /\ Booked => AuditAddsUp
  <2> SUFFICES ASSUME StoresInv, Booked, NEW b \in DOMAIN db
               PROVE  Books(db[b].decisions, DOMAIN db[b].commitments, Untold)
    BY DEF AuditAddsUp, Books, Audits, Untold
  <2> DEFINE D == db.memory.decisions
             E == db.sqlite.decisions
  <2>1. /\ b \in {"memory", "sqlite", "postgres"}
        /\ db["memory"] = db.memory /\ db["sqlite"] = db.sqlite
        /\ db["postgres"] = db.sqlite
    BY DEF StoresInv, Faithful
  <2>2. /\ DOMAIN E = DOMAIN D /\ DOMAIN db.sqlite.commitments = DOMAIN db.memory.commitments
        /\ \A k \in DOMAIN D : E[k].subject = D[k].subject /\ E[k].outcome = D[k].outcome
    <3>1. Mirror(db.memory, db.sqlite)
      BY DEF StoresInv, Faithful
    <3>2. QED
      BY <3>1, MirrorRows, KeptColumns
  <2>3. Audits(E) = Audits(D)
    BY <2>2 DEF Audits
  <2>4. {E[k].outcome.saved : k \in Audits(E)} = {D[k].outcome.saved : k \in Audits(D)}
    BY <2>2, <2>3 DEF Audits
  <2>5. Books(E, DOMAIN db.sqlite.commitments, Untold)
    BY <2>2, <2>3, <2>4 DEF Booked, Books, Audits
  <2>6. QED
    BY <2>1, <2>5 DEF Booked
<1>3. QED
  BY <1>1, <1>2, BookedStep, StoresInvariant, PTL DEF StoresSpec
-----------------------------------------------------------------------------
(* The orders of the keys S, cut to n, that put no key before one it is to *)
(* come after: R holds the pairs whose first key comes first.              *)
Answers(S, R, n) ==
  {Lite!First(s, n) : s \in
     {q \in Lite!SetToSeqs(S) : \A i, j \in DOMAIN q : i < j => <<q[j], q[i]>> \notin R}}

(* The library's operators mean the same in every store.                   *)
LEMMA SameLibrary ==
  /\ \A S : Mem!SetToSeqs(S) = Lite!SetToSeqs(S)
  /\ \A s, n : Mem!First(s, n) = Lite!First(s, n)
BY DEF Mem!SetToSeqs, Lite!SetToSeqs, Mem!Cardinality, Lite!Cardinality, Mem!First, Lite!First

(* The order of a set's elements holds nothing else.                       *)
LEMMA Ordered ==
  ASSUME NEW S, NEW q \in Lite!SetToSeqs(S)
  PROVE  \A i \in DOMAIN q : q[i] \in S
BY DEF Lite!SetToSeqs

(* ORDER BY one column.                                                    *)
LEMMA OneColumn ==
  ASSUME NEW a \in Int, NEW b \in Int
  PROVE  Lite!Precedes(<<a>>, <<b>>) <=> a < b
<1>1. DOMAIN <<a>> = {1} /\ 1..(1 - 1) = {} /\ <<a>>[1] = a /\ <<b>>[1] = b
  OBVIOUS
<1>2. QED
  BY <1>1 DEF Lite!Precedes

(* List of commitments, in order of creation.                              *)
LEMMA CommitmentLists ==
  ASSUME NEW m, NEW s, Mirror(m, s), NEW f \in CommitmentFilters
  PROVE  Mem!ListCommitments(m, f) = Lite!ListCommitments(s, f)
<1> DEFINE C == m.commitments
           S == {k \in DOMAIN C : Mem!matchesCommitment(C[k], f)}
           R == {p \in S \X S : C[p[1]].created < C[p[2]].created}
<1>1. Mem!ListCommitments(m, f) = Answers(S, R, f.limit)
  <2>1. {q \in Mem!SetToSeqs(S) : \A i, j \in DOMAIN q :
           i < j => ~(C[q[j]].created < C[q[i]].created)} =
        {q \in Lite!SetToSeqs(S) : \A i, j \in DOMAIN q : i < j => <<q[j], q[i]>> \notin R}
    BY SameLibrary, Ordered
  <2>2. Mem!ListCommitments(m, f) = {Mem!First(t, f.limit) : t \in
          {q \in Mem!SetToSeqs(S) : \A i, j \in DOMAIN q :
             i < j => ~(C[q[j]].created < C[q[i]].created)}}
    BY Zenon DEF Mem!ListCommitments, Mem!Sliced, Mem!Sorted, Mem!OldestFirst
  <2> HIDE DEF S, R
  <2>3. QED
    BY <2>1, <2>2, SameLibrary DEF Answers
<1>2. Lite!ListCommitments(s, f) = Answers(S, R, f.limit)
  <2> DEFINE W(c) == /\ Lite!Clause(f.owner # "", c.owner = f.owner)
                     /\ Lite!Clause(f.statuses # {}, c.status \in f.statuses)
                     /\ Lite!Clause(f.dueBy # 0, c.due # 0 /\ c.due <= f.dueBy)
             D == s.commitments
             T == {k \in DOMAIN D : W(D[k])}
  <2>1. f.dueBy \in {0, 1}
    <3> DEFINE none == [owner |-> "", statuses |-> {}, dueBy |-> 0, limit |-> 0]
    <3>1. CASE f = none
      BY <3>1
    <3>2. CASE f = [none EXCEPT !.statuses = {"pending"}]
      BY <3>2
    <3>3. CASE f = [none EXCEPT !.dueBy = 1]
      BY <3>3
    <3>4. ASSUME NEW o \in Owners,
                 f = [owner |-> o, statuses |-> {"pending", "missed"}, dueBy |-> 1, limit |-> 1]
          PROVE  f.dueBy \in {0, 1}
      BY <3>4
    <3>5. QED
      BY <3>1, <3>2, <3>3, <3>4, Zenon DEF CommitmentFilters
  <2>2. DOMAIN D = DOMAIN C /\ \A k \in DOMAIN C :
          /\ D[k].owner = C[k].owner /\ D[k].status = C[k].status /\ D[k].due = C[k].due
          /\ D[k].created = C[k].created /\ C[k].due \in Nat /\ C[k].created \in Nat
    BY MirrorRows, KeptColumns DEF CommitmentRows
  <2>3. T = S
    <3>1. ASSUME NEW k \in DOMAIN C PROVE W(D[k]) <=> Mem!matchesCommitment(C[k], f)
      <4> DEFINE c == C[k]
                 d == D[k]
      <4>1. /\ d.owner = c.owner /\ d.status = c.status /\ d.due = c.due /\ c.due \in Nat
        BY <2>2
      <4> HIDE DEF c, d
      <4>2. Lite!Clause(f.owner # "", d.owner = f.owner) <=> (f.owner = "" \/ c.owner = f.owner)
        BY <4>1 DEF Lite!Clause
      <4>3. Lite!Clause(f.statuses # {}, d.status \in f.statuses)
              <=> (f.statuses = {} \/ c.status \in f.statuses)
        BY <4>1 DEF Lite!Clause
      <4>4. Lite!Clause(f.dueBy # 0, d.due # 0 /\ d.due <= f.dueBy)
              <=> (f.dueBy = 0 \/ ~(c.due = 0 \/ c.due > f.dueBy))
        BY <2>1, <4>1 DEF Lite!Clause
      <4>5. QED
        BY <4>2, <4>3, <4>4 DEF Mem!matchesCommitment, c, d
    <3> HIDE DEF W
    <3>2. QED
      BY <2>2, <3>1
  <2>4. \A j, k \in S : Lite!Precedes(<<D[j].created>>, <<D[k].created>>) <=> <<j, k>> \in R
    BY <2>2, OneColumn
  <2>5. Lite!ListCommitments(s, f) = {Lite!First(t, f.limit) : t \in
          {q \in Lite!SetToSeqs(T) : \A i, j \in DOMAIN q :
             i < j => ~Lite!Precedes(<<D[q[j]].created>>, <<D[q[i]].created>>)}}
    BY Zenon DEF Lite!ListCommitments, Lite!Select, Lite!Sorted
  <2> HIDE DEF S, R, T, D
  <2>6. {q \in Lite!SetToSeqs(S) : \A i, j \in DOMAIN q :
             i < j => ~Lite!Precedes(<<D[q[j]].created>>, <<D[q[i]].created>>)} =
        {q \in Lite!SetToSeqs(S) : \A i, j \in DOMAIN q : i < j => <<q[j], q[i]>> \notin R}
    BY <2>4, Ordered
  <2>7. QED
    BY <2>3, <2>5, <2>6 DEF Answers
<1>3. QED
  BY <1>1, <1>2

(* Decisions on a subject, the newest first.                               *)
LEMMA DecisionLists ==
  ASSUME NEW m, NEW s, Mirror(m, s), NEW u, NEW n
  PROVE  Mem!ListBySubject(m, u, n) = Lite!ListBySubject(s, u, n)
<1> DEFINE C == m.decisions
           S == {k \in DOMAIN C : C[k].subject = u}
           R == {p \in S \X S : C[p[2]].created < C[p[1]].created}
<1>1. Mem!ListBySubject(m, u, n) = Answers(S, R, n)
  <2>1. {q \in Mem!SetToSeqs(S) : \A i, j \in DOMAIN q :
           i < j => ~(C[q[i]].created < C[q[j]].created)} =
        {q \in Lite!SetToSeqs(S) : \A i, j \in DOMAIN q : i < j => <<q[j], q[i]>> \notin R}
    BY SameLibrary, Ordered
  <2>2. Mem!ListBySubject(m, u, n) = {Mem!First(t, n) : t \in
          {q \in Mem!SetToSeqs(S) : \A i, j \in DOMAIN q :
             i < j => ~(C[q[i]].created < C[q[j]].created)}}
    BY Zenon DEF Mem!ListBySubject, Mem!Sliced, Mem!Sorted, Mem!NewestFirst
  <2> HIDE DEF S, R
  <2>3. QED
    BY <2>1, <2>2, SameLibrary DEF Answers
<1>2. Lite!ListBySubject(s, u, n) = Answers(S, R, n)
  <2> DEFINE D == s.decisions
             W(c) == c.subject = u
             T == {k \in DOMAIN D : W(D[k])}
  <2>2. DOMAIN D = DOMAIN C /\ \A k \in DOMAIN C :
          /\ D[k].subject = C[k].subject
          /\ D[k].created = C[k].created /\ C[k].created \in Nat
    BY MirrorRows, KeptColumns DEF DecisionRows
  <2>3. T = S
    BY <2>2
  <2>4. \A j, k \in S : Lite!Precedes(<<-D[j].created>>, <<-D[k].created>>) <=> <<j, k>> \in R
    BY <2>2, OneColumn
  <2>5. Lite!ListBySubject(s, u, n) = {Lite!First(t, n) : t \in
          {q \in Lite!SetToSeqs(T) : \A i, j \in DOMAIN q :
             i < j => ~Lite!Precedes(<<-D[q[j]].created>>, <<-D[q[i]].created>>)}}
    BY Zenon DEF Lite!ListBySubject, Lite!Select, Lite!Sorted
  <2> HIDE DEF S, R, T, D
  <2>6. {q \in Lite!SetToSeqs(S) : \A i, j \in DOMAIN q :
             i < j => ~Lite!Precedes(<<-D[q[j]].created>>, <<-D[q[i]].created>>)} =
        {q \in Lite!SetToSeqs(S) : \A i, j \in DOMAIN q : i < j => <<q[j], q[i]>> \notin R}
    BY <2>4, Ordered
  <2>7. QED
    BY <2>3, <2>5, <2>6 DEF Answers
<1>3. QED
  BY <1>1, <1>2

(* Goals of an owner, the newest first.                                    *)
LEMMA GoalLists ==
  ASSUME NEW m, NEW s, Mirror(m, s), NEW o, NEW n
  PROVE  Mem!ListByOwner(m, o, n) = Lite!ListByOwner(s, o, n)
<1> DEFINE C == m.goals
           S == {k \in DOMAIN C : C[k].owner = o}
           R == {p \in S \X S : C[p[2]].created < C[p[1]].created}
<1>1. Mem!ListByOwner(m, o, n) = Answers(S, R, n)
  <2>1. {q \in Mem!SetToSeqs(S) : \A i, j \in DOMAIN q :
           i < j => ~(C[q[i]].created < C[q[j]].created)} =
        {q \in Lite!SetToSeqs(S) : \A i, j \in DOMAIN q : i < j => <<q[j], q[i]>> \notin R}
    BY SameLibrary, Ordered
  <2>2. Mem!ListByOwner(m, o, n) = {Mem!First(t, n) : t \in
          {q \in Mem!SetToSeqs(S) : \A i, j \in DOMAIN q :
             i < j => ~(C[q[i]].created < C[q[j]].created)}}
    BY Zenon DEF Mem!ListByOwner, Mem!Sliced, Mem!Sorted, Mem!NewestFirst
  <2> HIDE DEF S, R
  <2>3. QED
    BY <2>1, <2>2, SameLibrary DEF Answers
<1>2. Lite!ListByOwner(s, o, n) = Answers(S, R, n)
  <2> DEFINE D == s.goals
             W(c) == c.owner = o
             T == {k \in DOMAIN D : W(D[k])}
  <2>2. DOMAIN D = DOMAIN C /\ \A k \in DOMAIN C :
          /\ D[k].owner = C[k].owner
          /\ D[k].created = C[k].created /\ C[k].created \in Nat
    BY MirrorRows, KeptColumns DEF GoalRows
  <2>3. T = S
    BY <2>2
  <2>4. \A j, k \in S : Lite!Precedes(<<-D[j].created>>, <<-D[k].created>>) <=> <<j, k>> \in R
    BY <2>2, OneColumn
  <2>5. Lite!ListByOwner(s, o, n) = {Lite!First(t, n) : t \in
          {q \in Lite!SetToSeqs(T) : \A i, j \in DOMAIN q :
             i < j => ~Lite!Precedes(<<-D[q[j]].created>>, <<-D[q[i]].created>>)}}
    BY Zenon DEF Lite!ListByOwner, Lite!Select, Lite!Sorted
  <2> HIDE DEF S, R, T, D
  <2>6. {q \in Lite!SetToSeqs(S) : \A i, j \in DOMAIN q :
             i < j => ~Lite!Precedes(<<-D[q[j]].created>>, <<-D[q[i]].created>>)} =
        {q \in Lite!SetToSeqs(S) : \A i, j \in DOMAIN q : i < j => <<q[j], q[i]>> \notin R}
    BY <2>4, Ordered
  <2>7. QED
    BY <2>3, <2>5, <2>6 DEF Answers
<1>3. QED
  BY <1>1, <1>2

(* Interventions, the latest first: a set task filter meets no row, nil in *)
(* memory and NULL in SQL.                                                 *)
LEMMA InterventionLists ==
  ASSUME NEW m, NEW s, Mirror(m, s), NEW f \in InterventionFilters
  PROVE  Mem!ListInterventions(m, f) = Lite!ListInterventions(s, f)
<1> DEFINE C == m.interventions
           S == {k \in DOMAIN C : Mem!matchesIntervention(C[k], f)}
           R == {p \in S \X S : C[p[2]].triggeredAt < C[p[1]].triggeredAt}
<1>1. Mem!ListInterventions(m, f) = Answers(S, R, f.limit)
  <2>1. {q \in Mem!SetToSeqs(S) : \A i, j \in DOMAIN q :
           i < j => ~(C[q[i]].triggeredAt < C[q[j]].triggeredAt)} =
        {q \in Lite!SetToSeqs(S) : \A i, j \in DOMAIN q : i < j => <<q[j], q[i]>> \notin R}
    BY SameLibrary, Ordered
  <2>2. Mem!ListInterventions(m, f) = {Mem!First(t, f.limit) : t \in
          {q \in Mem!SetToSeqs(S) : \A i, j \in DOMAIN q :
             i < j => ~(C[q[i]].triggeredAt < C[q[j]].triggeredAt)}}
    BY Zenon DEF Mem!ListInterventions, Mem!Sliced, Mem!Sorted
  <2> HIDE DEF S, R
  <2>3. QED
    BY <2>1, <2>2, SameLibrary DEF Answers
<1>2. Lite!ListInterventions(s, f) = Answers(S, R, f.limit)
  <2> DEFINE D == s.interventions
             W(c) == /\ Lite!Clause(f.commitment # Nil, c.commitment = f.commitment)
                     /\ Lite!Clause(f.task # Nil, c.task = f.task)
                     /\ Lite!Clause(f.statuses # {}, c.status \in f.statuses)
                     /\ Lite!Clause(f.since # 0, c.triggeredAt >= f.since)
             T == {k \in DOMAIN D : W(D[k])}
  <2>1. f.task \in Tasks \cup {Nil} /\ f.since \in Nat
    <3> DEFINE none == [commitment |-> Nil, task |-> Nil, statuses |-> {}, since |-> 0, limit |-> 0]
    <3>1. CASE f \in {none, [none EXCEPT !.statuses = {"pending", "accepted"}],
                     [none EXCEPT !.since = MaxTime], [none EXCEPT !.limit = 1]}
      BY <3>1, ResolveInputs
    <3>2. ASSUME NEW c \in Cs, f = [none EXCEPT !.commitment = c]
          PROVE  f.task \in Tasks \cup {Nil} /\ f.since \in Nat
      BY <3>2
    <3>3. ASSUME NEW t \in Tasks, f = [none EXCEPT !.task = t]
          PROVE  f.task \in Tasks \cup {Nil} /\ f.since \in Nat
      BY <3>3
    <3>4. QED
      BY <3>1, <3>2, <3>3, Zenon DEF InterventionFilters
  <2>2. DOMAIN D = DOMAIN C /\ \A k \in DOMAIN C :
          /\ D[k].commitment = C[k].commitment /\ D[k].task = "NULL" /\ C[k].task = Nil
          /\ D[k].status = C[k].status
          /\ D[k].triggeredAt = C[k].triggeredAt /\ C[k].triggeredAt \in Nat
    BY MirrorRows, KeptColumns DEF InterventionRows
  <2>3. T = S
    <3>1. ASSUME NEW k \in DOMAIN C PROVE W(D[k]) <=> Mem!matchesIntervention(C[k], f)
      <4> DEFINE c == C[k]
                 d == D[k]
      <4>1. /\ d.commitment = c.commitment /\ d.task = "NULL" /\ c.task = Nil
            /\ d.status = c.status /\ d.triggeredAt = c.triggeredAt /\ c.triggeredAt \in Nat
        BY <2>2
      <4> HIDE DEF c, d
      <4>2. Lite!Clause(f.commitment # Nil, d.commitment = f.commitment)
              <=> (f.commitment = Nil \/ c.commitment = f.commitment)
        BY <4>1 DEF Lite!Clause
      <4>3. Lite!Clause(f.task # Nil, d.task = f.task)
              <=> (f.task = Nil \/ c.task = f.task)
        BY <2>1, <4>1, StoreInputs DEF Lite!Clause
      <4>4. Lite!Clause(f.statuses # {}, d.status \in f.statuses)
              <=> (f.statuses = {} \/ c.status \in f.statuses)
        BY <4>1 DEF Lite!Clause
      <4>5. Lite!Clause(f.since # 0, d.triggeredAt >= f.since)
              <=> (f.since = 0 \/ ~(c.triggeredAt < f.since))
        BY <2>1, <4>1, StoreInputs DEF Lite!Clause
      <4>6. QED
        BY <4>2, <4>3, <4>4, <4>5 DEF Mem!matchesIntervention, c, d
    <3> HIDE DEF W
    <3>2. QED
      BY <2>2, <3>1
  <2>4. \A j, k \in S : Lite!Precedes(<<-D[j].triggeredAt>>, <<-D[k].triggeredAt>>) <=> <<j, k>> \in R
    BY <2>2, OneColumn
  <2>5. Lite!ListInterventions(s, f) = {Lite!First(t, f.limit) : t \in
          {q \in Lite!SetToSeqs(T) : \A i, j \in DOMAIN q :
             i < j => ~Lite!Precedes(<<-D[q[j]].triggeredAt>>, <<-D[q[i]].triggeredAt>>)}}
    BY Zenon DEF Lite!ListInterventions, Lite!Select, Lite!Sorted
  <2> HIDE DEF S, R, T, D
  <2>6. {q \in Lite!SetToSeqs(S) : \A i, j \in DOMAIN q :
             i < j => ~Lite!Precedes(<<-D[q[j]].triggeredAt>>, <<-D[q[i]].triggeredAt>>)} =
        {q \in Lite!SetToSeqs(S) : \A i, j \in DOMAIN q : i < j => <<q[j], q[i]>> \notin R}
    BY <2>4, Ordered
  <2>7. QED
    BY <2>3, <2>5, <2>6 DEF Answers
<1>3. QED
  BY <1>1, <1>2

(* Tasks: a set filter is no nil pointer, and its column no NULL.          *)
LEMMA TaskLists ==
  ASSUME NEW m, NEW s, Mirror(m, s), NEW f \in TaskFilters
  PROVE  Mem!ListTasks(m, f) = Lite!ListTasks(s, f)
<1> DEFINE C == m.tasks
           S == {k \in DOMAIN C : Mem!matchesTask(C[k], f)}
           R == {p \in S \X S : C[p[1]].created < C[p[2]].created}
<1>1. Mem!ListTasks(m, f) = Answers(S, R, f.limit)
  <2>1. {q \in Mem!SetToSeqs(S) : \A i, j \in DOMAIN q :
           i < j => ~(C[q[j]].created < C[q[i]].created)} =
        {q \in Lite!SetToSeqs(S) : \A i, j \in DOMAIN q : i < j => <<q[j], q[i]>> \notin R}
    BY SameLibrary, Ordered
  <2>2. Mem!ListTasks(m, f) = {Mem!First(t, f.limit) : t \in
          {q \in Mem!SetToSeqs(S) : \A i, j \in DOMAIN q :
             i < j => ~(C[q[j]].created < C[q[i]].created)}}
    BY Zenon DEF Mem!ListTasks, Mem!Sliced, Mem!Sorted, Mem!OldestFirst
  <2> HIDE DEF S, R
  <2>3. QED
    BY <2>1, <2>2, SameLibrary DEF Answers
<1>2. Lite!ListTasks(s, f) = Answers(S, R, f.limit)
  <2> DEFINE D == s.tasks
             W(c) == /\ Lite!Clause(f.goal # Nil, c.goal = f.goal)
                     /\ Lite!Clause(f.commitment # Nil, c.commitment = f.commitment)
                     /\ Lite!Clause(f.assignedTo # Nil, c.assignedTo = f.assignedTo)
                     /\ Lite!Clause(f.statuses # {}, c.status \in f.statuses)
             T == {k \in DOMAIN D : W(D[k])}
  <2>1. /\ f.goal \in Goals \cup {Nil} /\ f.commitment \in Cs \cup {Nil}
        /\ f.assignedTo \in {"agent", Nil}
    <3> DEFINE none == [goal |-> Nil, commitment |-> Nil, assignedTo |-> Nil, statuses |-> {},
                        limit |-> 0]
               set == /\ f.goal \in Goals \cup {Nil} /\ f.commitment \in Cs \cup {Nil}
                      /\ f.assignedTo \in {"agent", Nil}
    <3>1. CASE f \in {none, [none EXCEPT !.assignedTo = "agent"],
                     [none EXCEPT !.statuses = {"pending"}], [none EXCEPT !.limit = 1]}
      BY <3>1
    <3>2. ASSUME NEW g \in Goals, f = [none EXCEPT !.goal = g] PROVE set
      BY <3>2
    <3>3. ASSUME NEW c \in Cs, f = [none EXCEPT !.commitment = c] PROVE set
      BY <3>3
    <3>4. QED
      BY <3>1, <3>2, <3>3, Zenon DEF TaskFilters
  <2>2. DOMAIN D = DOMAIN C /\ \A k \in DOMAIN C :
          /\ D[k].goal = Lite!Column(C[k].goal)
          /\ D[k].commitment = Lite!Column(C[k].commitment)
          /\ D[k].assignedTo = Lite!Column(C[k].assignedTo) /\ D[k].status = C[k].status
          /\ D[k].created = C[k].created /\ C[k].created \in Nat
    BY MirrorRows, KeptColumns DEF TaskRows
  <2>3. T = S
    <3>1. ASSUME NEW k \in DOMAIN C PROVE W(D[k]) <=> Mem!matchesTask(C[k], f)
      <4> DEFINE c == C[k]
                 d == D[k]
      <4>1. /\ d.goal = Lite!Column(c.goal) /\ d.commitment = Lite!Column(c.commitment)
            /\ d.assignedTo = Lite!Column(c.assignedTo) /\ d.status = c.status
        BY <2>2
      <4> HIDE DEF c, d
      <4>2. Lite!Clause(f.goal # Nil, d.goal = f.goal)
              <=> (f.goal = Nil \/ c.goal = f.goal)
        BY <2>1, <4>1, StoreInputs DEF Lite!Clause, Lite!Column
      <4>3. Lite!Clause(f.commitment # Nil, d.commitment = f.commitment)
              <=> (f.commitment = Nil \/ c.commitment = f.commitment)
        BY <2>1, <4>1, StoreInputs DEF Lite!Clause, Lite!Column
      <4>4. Lite!Clause(f.assignedTo # Nil, d.assignedTo = f.assignedTo)
              <=> (f.assignedTo = Nil \/ c.assignedTo = f.assignedTo)
        BY <2>1, <4>1, StoreInputs DEF Lite!Clause, Lite!Column
      <4>5. Lite!Clause(f.statuses # {}, d.status \in f.statuses)
              <=> (f.statuses = {} \/ c.status \in f.statuses)
        BY <4>1 DEF Lite!Clause
      <4>6. QED
        BY <4>2, <4>3, <4>4, <4>5 DEF Mem!matchesTask, c, d
    <3> HIDE DEF W
    <3>2. QED
      BY <2>2, <3>1
  <2>4. \A j, k \in S : Lite!Precedes(<<D[j].created>>, <<D[k].created>>) <=> <<j, k>> \in R
    BY <2>2, OneColumn
  <2>5. Lite!ListTasks(s, f) = {Lite!First(t, f.limit) : t \in
          {q \in Lite!SetToSeqs(T) : \A i, j \in DOMAIN q :
             i < j => ~Lite!Precedes(<<D[q[j]].created>>, <<D[q[i]].created>>)}}
    BY Zenon DEF Lite!ListTasks, Lite!Select, Lite!Sorted
  <2> HIDE DEF S, R, T, D
  <2>6. {q \in Lite!SetToSeqs(S) : \A i, j \in DOMAIN q :
             i < j => ~Lite!Precedes(<<D[q[j]].created>>, <<D[q[i]].created>>)} =
        {q \in Lite!SetToSeqs(S) : \A i, j \in DOMAIN q : i < j => <<q[j], q[i]>> \notin R}
    BY <2>4, Ordered
  <2>7. QED
    BY <2>3, <2>5, <2>6 DEF Answers
<1>3. QED
  BY <1>1, <1>2

(* ORDER BY four columns, spelt out.                                       *)
LEMMA FourColumns ==
  ASSUME NEW a, NEW b, DOMAIN a = {1, 2, 3, 4}
  PROVE  Lite!Precedes(a, b) <=>
           \/ a[1] < b[1]
           \/ a[1] = b[1] /\ a[2] < b[2]
           \/ a[1] = b[1] /\ a[2] = b[2] /\ a[3] < b[3]
           \/ a[1] = b[1] /\ a[2] = b[2] /\ a[3] = b[3] /\ a[4] < b[4]
<1> DEFINE At(i) == a[i] < b[i] /\ \A j \in 1..(i - 1) : a[j] = b[j]
<1>1. /\ 1..(1 - 1) = {} /\ 1..(2 - 1) = {1} /\ 1..(3 - 1) = {1, 2} /\ 1..(4 - 1) = {1, 2, 3}
  OBVIOUS
<1>2. At(1) <=> a[1] < b[1]
  BY <1>1
<1>3. At(2) <=> a[1] = b[1] /\ a[2] < b[2]
  BY <1>1
<1>4. At(3) <=> a[1] = b[1] /\ a[2] = b[2] /\ a[3] < b[3]
  BY <1>1
<1>5. At(4) <=> a[1] = b[1] /\ a[2] = b[2] /\ a[3] = b[3] /\ a[4] < b[4]
  BY <1>1
<1>6. Lite!Precedes(a, b) <=> \E i \in {1, 2, 3, 4} : At(i)
  BY DEF Lite!Precedes
<1> HIDE DEF At
<1>7. QED
  BY <1>2, <1>3, <1>4, <1>5, <1>6

(* FindActive's comparison in Go is the ORDER BY of its query.             *)
LEMMA WorklistOrder ==
  ASSUME NEW a \in CommitmentRows, NEW b \in CommitmentRows
  PROVE  Lite!Precedes(<<-a.risk, IF a.due = 0 THEN 1 ELSE 0, a.due, a.created>>,
                       <<-b.risk, IF b.due = 0 THEN 1 ELSE 0, b.due, b.created>>)
           <=> Mem!CommitmentBefore(a, b)
<1> DEFINE x == IF a.due = 0 THEN 1 ELSE 0
           y == IF b.due = 0 THEN 1 ELSE 0
           p == <<-a.risk, x, a.due, a.created>>
           q == <<-b.risk, y, b.due, b.created>>
<1>1. /\ a.risk \in Nat /\ a.due \in Nat /\ a.created \in Nat
      /\ b.risk \in Nat /\ b.due \in Nat /\ b.created \in Nat
  BY DEF CommitmentRows
<1>2. Mem!CommitmentBefore(a, b) <=>
        \/ -a.risk < -b.risk
        \/ -a.risk = -b.risk /\ x < y
        \/ -a.risk = -b.risk /\ x = y /\ a.due < b.due
        \/ -a.risk = -b.risk /\ x = y /\ a.due = b.due /\ a.created < b.created
  BY <1>1 DEF Mem!CommitmentBefore
<1>3. /\ DOMAIN p = {1, 2, 3, 4}
      /\ p[1] = -a.risk /\ p[2] = x /\ p[3] = a.due /\ p[4] = a.created
      /\ q[1] = -b.risk /\ q[2] = y /\ q[3] = b.due /\ q[4] = b.created
  OBVIOUS
<1> HIDE DEF p, q, x, y
<1>4. Lite!Precedes(p, q) <=>
        \/ p[1] < q[1]
        \/ p[1] = q[1] /\ p[2] < q[2]
        \/ p[1] = q[1] /\ p[2] = q[2] /\ p[3] < q[3]
        \/ p[1] = q[1] /\ p[2] = q[2] /\ p[3] = q[3] /\ p[4] < q[4]
  BY <1>3, FourColumns
<1>5. Lite!Precedes(p, q) <=> Mem!CommitmentBefore(a, b)
  BY <1>2, <1>3, <1>4
<1>6. QED
  BY <1>5, Zenon DEF p, q, x, y

(* The evaluator's worklist.                                               *)
LEMMA Worklists ==
  ASSUME NEW m, NEW s, Mirror(m, s), NEW n
  PROVE  Mem!FindActive(m, n) = Lite!FindActive(s, n)
<1> DEFINE C == m.commitments
           D == s.commitments
           Active(c) == c.status \in {"pending", "in_progress"}
           Key(c) == <<-c.risk, IF c.due = 0 THEN 1 ELSE 0, c.due, c.created>>
           S == {k \in DOMAIN C : Active(C[k])}
           T == {k \in DOMAIN D : Active(D[k])}
           R == {p \in S \X S : Mem!CommitmentBefore(C[p[1]], C[p[2]])}
<1>1. Mem!FindActive(m, n) = Answers(S, R, n)
  <2>1. {q \in Mem!SetToSeqs(S) : \A i, j \in DOMAIN q :
           i < j => ~Mem!CommitmentBefore(C[q[j]], C[q[i]])} =
        {q \in Lite!SetToSeqs(S) : \A i, j \in DOMAIN q : i < j => <<q[j], q[i]>> \notin R}
    BY SameLibrary, Ordered
  <2>2. Mem!FindActive(m, n) = {Mem!First(t, n) : t \in
          {q \in Mem!SetToSeqs(S) : \A i, j \in DOMAIN q :
             i < j => ~Mem!CommitmentBefore(C[q[j]], C[q[i]])}}
    BY Zenon DEF Mem!FindActive, Mem!Sliced, Mem!Sorted
  <2> HIDE DEF S, R
  <2>3. QED
    BY <2>1, <2>2, SameLibrary DEF Answers
<1>2. Lite!FindActive(s, n) = Answers(S, R, n)
  <2>1. DOMAIN D = DOMAIN C /\ \A k \in DOMAIN C : C[k] \in CommitmentRows
    BY MirrorRows
  <2>2. \A k \in DOMAIN C : Active(D[k]) <=> Active(C[k])
    BY MirrorRows, KeptColumns
  <2>3. T = S
    BY <2>1, <2>2
  <2>4. \A k \in DOMAIN C : Key(D[k]) = Key(C[k])
    BY MirrorRows, KeptColumns
  <2>5. \A j, k \in S : Lite!Precedes(Key(D[j]), Key(D[k])) <=> <<j, k>> \in R
    <3> SUFFICES ASSUME NEW j \in S, NEW k \in S
                 PROVE  Lite!Precedes(Key(D[j]), Key(D[k])) <=> <<j, k>> \in R
      OBVIOUS
    <3>1. Lite!Precedes(Key(C[j]), Key(C[k])) <=> Mem!CommitmentBefore(C[j], C[k])
      BY <2>1, WorklistOrder
    <3>2. Key(D[j]) = Key(C[j]) /\ Key(D[k]) = Key(C[k])
      BY <2>4
    <3> HIDE DEF Key
    <3>3. QED
      BY <3>1, <3>2
  <2>6. Lite!FindActive(s, n) = {Lite!First(t, n) : t \in
          {q \in Lite!SetToSeqs(T) : \A i, j \in DOMAIN q :
             i < j => ~Lite!Precedes(Key(D[q[j]]), Key(D[q[i]]))}}
    BY Zenon DEF Lite!FindActive, Lite!Select, Lite!Sorted
  <2> HIDE DEF S, R, T, D, Key
  <2>7. {q \in Lite!SetToSeqs(S) : \A i, j \in DOMAIN q :
             i < j => ~Lite!Precedes(Key(D[q[j]]), Key(D[q[i]]))} =
        {q \in Lite!SetToSeqs(S) : \A i, j \in DOMAIN q : i < j => <<q[j], q[i]>> \notin R}
    BY <2>5, Ordered
  <2>8. QED
    BY <2>3, <2>6, <2>7 DEF Answers
<1>3. QED
  BY <1>1, <1>2

(* What memory keeps as Go values and SQLite as JSON is one response.      *)
LEMMA DecisionsAsJSON ==
  ASSUME NEW m, NEW s, Mirror(m, s), NEW i
  PROVE  decisionToJSON(Mem!GetDecision(m, i)) = decisionToJSON(Lite!GetDecision(s, i))
<1> DEFINE r == m.decisions[i]
<1>1. CASE i \in DOMAIN m.decisions
  <2>1. Mem!GetDecision(m, i) = r /\ Lite!GetDecision(s, i) = Decoded(r)
    BY <1>1, SameGets DEF Found
  <2>2. r \in DecisionRows
    BY <1>1, MirrorRows
  <2> HIDE DEF r
  <2>3. DOMAIN <<>> = {}
    OBVIOUS
  <2>4. r # <<>> /\ Decoded(r) # <<>>
    BY <2>2, <2>3, DecisionRoundTrip
  <2>5. [r EXCEPT !.form = "json"] = [Decoded(r) EXCEPT !.form = "json"]
    BY <2>2, DecisionRoundTrip
  <2>6. QED
    BY <2>1, <2>4, <2>5, Zenon DEF decisionToJSON
<1>2. CASE i \notin DOMAIN m.decisions
  BY <1>2, SameGets DEF Found
<1>3. QED
  BY <1>1, <1>2

(* ADR 003 promises identical behaviour of the storage backends: in every  *)
(* reachable state each Get and each list answers the same from the three, *)
(* ties of the ORDER BY and limits included; of a decision's inputs and    *)
(* outcome memory keeps the Go values, and the JSON response is the same.  *)
THEOREM StoresAnswerAlike == StoresSpec => []SameAnswers
<1>1. StoresInv => SameAnswers
  <2> SUFFICES ASSUME StoresInv PROVE SameAnswers
    OBVIOUS
  <2> DEFINE m == db.memory
             s == db.sqlite
             p == db.postgres
  <2>1. Mirror(m, s) /\ p = s
    BY DEF StoresInv, Faithful
  <2> HIDE DEF m, s, p
  <2>2. /\ \A i : Agree(Mem!GetCommitment(m, i), Lite!GetCommitment(s, i), Pg!GetCommitment(p, i))
        /\ \A i : Agree(Mem!GetIntervention(m, i), Lite!GetIntervention(s, i),
                        Pg!GetIntervention(p, i))
        /\ \A i : Agree(Mem!GetGoal(m, i), Lite!GetGoal(s, i), Pg!GetGoal(p, i))
        /\ \A i : Agree(Mem!GetTask(m, i), Lite!GetTask(s, i), Pg!GetTask(p, i))
    BY <2>1, SameGets, PostgresGets DEF Agree
  <2>3. \A n : Agree(Mem!FindActive(m, n), Lite!FindActive(s, n), Pg!FindActive(p, n))
    BY <2>1, Worklists, PostgresLists DEF Agree
  <2>4. \A f \in CommitmentFilters :
          Agree(Mem!ListCommitments(m, f), Lite!ListCommitments(s, f), Pg!ListCommitments(p, f))
    BY <2>1, CommitmentLists, PostgresLists DEF Agree
  <2>5. \A n, u : Agree(Mem!ListBySubject(m, u, n), Lite!ListBySubject(s, u, n),
                        Pg!ListBySubject(p, u, n))
    BY <2>1, DecisionLists, PostgresLists DEF Agree
  <2>6. \A f \in InterventionFilters :
          Agree(Mem!ListInterventions(m, f), Lite!ListInterventions(s, f),
                Pg!ListInterventions(p, f))
    BY <2>1, InterventionLists, PostgresLists DEF Agree
  <2>7. \A n, o : Agree(Mem!ListByOwner(m, o, n), Lite!ListByOwner(s, o, n),
                        Pg!ListByOwner(p, o, n))
    BY <2>1, GoalLists, PostgresLists DEF Agree
  <2>8. \A f \in TaskFilters :
          Agree(Mem!ListTasks(m, f), Lite!ListTasks(s, f), Pg!ListTasks(p, f))
    BY <2>1, TaskLists, PostgresLists DEF Agree
  <2>9. \A i : /\ Lite!GetDecision(s, i) = Pg!GetDecision(p, i)
               /\ decisionToJSON(Mem!GetDecision(m, i)) = decisionToJSON(Lite!GetDecision(s, i))
    BY <2>1, DecisionsAsJSON, PostgresGets
  <2>10. QED
    BY <2>2, <2>3, <2>4, <2>5, <2>6, <2>7, <2>8, <2>9, Zenon DEF SameAnswers, m, s, p
<1>2. QED
  BY <1>1, StoresInvariant, PTL
=============================================================================
