------------------------------- MODULE Stores -------------------------------
(***************************************************************************)
(* The persistence layer under its clients.  Interventions describes the   *)
(* handlers that resolve interventions over an abstract table; here the    *)
(* same handlers, the extraction pipeline, the evaluator and clients of    *)
(* the commitment, goal and task repositories share the memory, the SQLite *)
(* and the PostgreSQL store, side by side: one call, three databases.  A   *)
(* call that fails changes none of them.  A client that moves a row reads  *)
(* it with one call and saves its copy with another.                       *)
(***************************************************************************)
EXTENDS Interventions, FiniteSets

CONSTANTS
  Cs, Goals, Tasks, Decs,   \* ids of the other aggregates
  Owners,                   \* owner ids
  Movers,                   \* clients that move commitments, goals and tasks
  RequestRefs,              \* source refs of an extraction request
  Nil,                      \* a nil pointer
  MaxScore,                 \* bound: risk scores are 0..MaxScore
  MaxWrites,                \* bound: how many rows are written in all
  MaxCalls,                 \* bound: callers between a Get and its Save at once
  MaxDrafts                 \* bound: drafts the extractor returns for one text

(* A nil pointer and a NULL column are no ids.  The pipelines copy refs by *)
(* append, which leaves an empty slice nil.                                *)
ASSUME StoreInputs ==
  /\ {Nil, "NULL"} \cap (Cs \cup Goals \cup Tasks \cup {"agent"}) = {}
  /\ RequestRefs \subseteq {"nil", "some"}
  /\ MaxScore \in Nat /\ MaxDrafts \in Nat

VARIABLES
  db,      \* the three databases
  held,    \* the intervention each store's Get gave the resolve handler
  ex,      \* the extraction request being served
  moving,  \* the row each store's Get gave a client that is to move it
  silent,  \* history: commitments whose extraction could save no decision
  writes   \* how many rows have been written, resolutions left out

storeVars == <<db, held, ex, moving, silent, writes>>

Mem == INSTANCE MemoryStore
Lite == INSTANCE SqliteStore
Pg == INSTANCE PostgresStore

NoExtract == [left |-> 0, considered |-> 0]

StoresInit ==
  /\ Init
  /\ db = [memory |-> Mem!New, sqlite |-> Lite!New, postgres |-> Pg!New]
  /\ held = [h \in Handlers |-> <<>>]
  /\ ex = NoExtract
  /\ moving = [w \in Movers |-> <<>>]
  /\ silent = {}
  /\ writes = 0

Store(m, s, p) == db' = [memory |-> m, sqlite |-> s, postgres |-> p]
Write(m, s, p) ==
  /\ writes < MaxWrites
  /\ writes' = writes + 1
  /\ Store(m, s, p)

(* A row that does not exist yet is saved to the three stores.             *)
NewCommitmentRow(c, r) ==
  Write(Mem!SaveCommitment(db.memory, c, r), Lite!SaveCommitment(db.sqlite, c, r),
        Pg!SaveCommitment(db.postgres, c, r))
NewDecisionRow(d, r) ==
  Write(Mem!SaveDecision(db.memory, d, r), Lite!SaveDecision(db.sqlite, d, r),
        Pg!SaveDecision(db.postgres, d, r))

Stored(table) == DOMAIN db.memory[table]

(* Extraction, resolve handlers and clients in the middle of their work.   *)
Calls ==
  (IF ex = NoExtract THEN 0 ELSE 1) + Cardinality({h \in Handlers : pc[h] # "idle"})
    + Cardinality({w \in Movers : moving[w] # <<>>})
-----------------------------------------------------------------------------
(* Extract: the model returned some drafts; now is read before it is asked.*)
ExBegin ==
  /\ ex = NoExtract /\ Calls < MaxCalls
  /\ \E n \in 0..MaxDrafts, r \in RequestRefs :
       ex' = [left |-> n, considered |-> n, now |-> now, refs |-> r,
              saved |-> {}, dropped |-> 0]
  /\ UNCHANGED <<db, held, moving, silent, writes>> /\ UNCHANGED vars

Drafts == [owner : Owners \cup {""}, due : 0..MaxTime, confident : BOOLEAN]

(* ToCommitment: NewCommitment refuses a draft without an owner.           *)
Accepts(d) == d.confident /\ d.owner # ""
ToCommitment(d, at, refs) ==
  [owner |-> d.owner, due |-> d.due, status |-> "pending", risk |-> 0,
   evaluatedAt |-> 0, created |-> at, updated |-> at, refs |-> refs]

(* A plausible bug, for the mutation runs: a draft that is not saved is    *)
(* not counted.                                                            *)
DropDraft_uncounted ==
  /\ ex # NoExtract /\ ex.left > 0
  /\ ex' = [ex EXCEPT !.left = @ - 1]
  /\ UNCHANGED <<db, held, moving, silent, writes>> /\ UNCHANGED vars

(* Below the threshold, not valid, or accepted and not saved.              *)
DropDraft ==
  /\ ex # NoExtract /\ ex.left > 0
  /\ ex' = [ex EXCEPT !.left = @ - 1, !.dropped = @ + 1]
  /\ UNCHANGED <<db, held, moving, silent, writes>> /\ UNCHANGED vars

SaveDraft ==
  /\ ex # NoExtract /\ ex.left > 0
  /\ \E d \in Drafts, c \in Cs \ Stored("commitments") :
       /\ Accepts(d)
       /\ NewCommitmentRow(c, ToCommitment(d, ex.now, ex.refs))
       /\ ex' = [ex EXCEPT !.left = @ - 1, !.saved = @ \cup {c}]
  /\ UNCHANGED <<held, moving, silent>> /\ UNCHANGED vars

ExtractDecision ==
  [subject |-> "commitment.extract", refs |-> ex.refs, weights |-> "nil",
   created |-> ex.now, form |-> "go",
   outcome |-> [considered |-> ex.considered, saved |-> ex.saved,
                dropped |-> ex.dropped]]

(* One decision per call, saved or, when its Save fails, left out.         *)
ExDecide ==
  /\ ex # NoExtract /\ ex.left = 0
  /\ \/ /\ \E d \in Decs \ Stored("decisions") : NewDecisionRow(d, ExtractDecision)
        /\ UNCHANGED silent
     \/ silent' = silent \cup ex.saved /\ UNCHANGED <<db, writes>>
  /\ ex' = NoExtract
  /\ UNCHANGED <<held, moving>> /\ UNCHANGED vars
-----------------------------------------------------------------------------
(* The evaluator's writes for a commitment that its run listed as active,  *)
(* at the clock of that run; what became of the commitment since, it does  *)
(* not look.  The module Evaluator has their order and their failures.     *)

(* A plausible bug, for the mutation runs: the evaluator saves the row as  *)
(* it listed it instead of updating three columns.                         *)
UpdateRisk_savesRow ==
  /\ \E c \in Stored("commitments"), score \in 1..MaxScore, at \in 1..now :
       LET r == [db.memory.commitments[c] EXCEPT !.status = "pending", !.risk = score,
                                                 !.evaluatedAt = at, !.updated = at] IN
       Write(Mem!SaveCommitment(db.memory, c, r), Lite!SaveCommitment(db.sqlite, c, r),
             Pg!SaveCommitment(db.postgres, c, r))
  /\ UNCHANGED <<held, ex, moving, silent>> /\ UNCHANGED vars

UpdateRisk ==
  /\ \E c \in Stored("commitments"), score \in 1..MaxScore, at \in 1..now :
       Write(Mem!UpdateRisk(db.memory, c, score, at),
             Lite!UpdateRisk(db.sqlite, c, score, at),
             Pg!UpdateRisk(db.postgres, c, score, at))
  /\ UNCHANGED <<held, ex, moving, silent>> /\ UNCHANGED vars

recordDecision ==
  /\ \E c \in Stored("commitments"), d \in Decs \ Stored("decisions"), at \in 1..now :
       NewDecisionRow(d, [subject |-> "commitment.evaluate", weights |-> "some",
                          refs |-> Mem!Copied(db.memory.commitments[c].refs),
                          created |-> at, form |-> "go",
                          outcome |-> [commitment |-> c]])
  /\ UNCHANGED <<held, ex, moving, silent>> /\ UNCHANGED vars

NewIntervention(c, at) ==
  [commitment |-> c, task |-> Nil, status |-> "pending", triggeredAt |-> at,
   resolvedAt |-> 0, action |-> "nil"]

Intervene(i) ==
  /\ Create(i)
  /\ \E c \in Stored("commitments"), at \in 1..now :
       LET iv == NewIntervention(c, at) IN
       Write(Mem!SaveIntervention(db.memory, i, iv), Lite!SaveIntervention(db.sqlite, i, iv),
             Pg!SaveIntervention(db.postgres, i, iv))
  /\ UNCHANGED <<held, ex, moving, silent>>
-----------------------------------------------------------------------------
(* The resolve handler, on whichever store it was configured with.         *)
HandlerGet(h) ==
  /\ Calls < MaxCalls
  /\ Get(h)
  /\ held' = [held EXCEPT ![h] =
       [memory |-> Mem!GetIntervention(db.memory, req'[h].id),
        sqlite |-> Lite!GetIntervention(db.sqlite, req'[h].id),
        postgres |-> Pg!GetIntervention(db.postgres, req'[h].id)]]
  /\ UNCHANGED <<db, ex, moving, silent, writes>>

Forget(h) == held' = [held EXCEPT ![h] = <<>>]

(* A plausible bug, for the mutation runs: the stamp is not part of what   *)
(* is saved.                                                               *)
HandlerResolve_unstamped(h) ==
  /\ Resolve(h)
  /\ IF pc'[h] = "save"
       THEN held' = [held EXCEPT ![h] = [b \in DOMAIN @ |->
              [@[b] EXCEPT !.status = copy'[h].status]]]
       ELSE Forget(h)
  /\ UNCHANGED <<db, ex, moving, silent, writes>>

HandlerResolve(h) ==
  /\ Resolve(h)
  /\ IF pc'[h] = "save"
       THEN held' = [held EXCEPT ![h] = [b \in DOMAIN @ |->
              [@[b] EXCEPT !.status = copy'[h].status, !.resolvedAt = copy'[h].resolvedAt]]]
       ELSE Forget(h)
  /\ UNCHANGED <<db, ex, moving, silent, writes>>

HandlerSave(h) ==
  /\ \/ /\ SaveOK(h)
        /\ Store(Mem!SaveIntervention(db.memory, req[h].id, held[h].memory),
                 Lite!SaveIntervention(db.sqlite, req[h].id, held[h].sqlite),
                 Pg!SaveIntervention(db.postgres, req[h].id, held[h].postgres))
     \/ SaveFails(h) /\ UNCHANGED db
  /\ Forget(h)
  /\ UNCHANGED <<ex, moving, silent, writes>>
-----------------------------------------------------------------------------
(* Clients of the commitment, goal and task repositories: Get, Transition, *)
(* Save.  The store makes Get and Save each atomic, and nothing the pair.  *)
Copies(table, id, m, s, p) ==
  [table |-> table, id |-> id, memory |-> m, sqlite |-> s, postgres |-> p]

Read(w) ==
  /\ moving[w] = <<>> /\ Calls < MaxCalls
  /\ \E x \in
       {Copies("commitments", c, Mem!GetCommitment(db.memory, c),
               Lite!GetCommitment(db.sqlite, c), Pg!GetCommitment(db.postgres, c)) :
          c \in Stored("commitments")}
       \cup {Copies("goals", g, Mem!GetGoal(db.memory, g), Lite!GetGoal(db.sqlite, g),
                    Pg!GetGoal(db.postgres, g)) : g \in Stored("goals")}
       \cup {Copies("tasks", t, Mem!GetTask(db.memory, t), Lite!GetTask(db.sqlite, t),
                    Pg!GetTask(db.postgres, t)) : t \in Stored("tasks")} :
       moving' = [moving EXCEPT ![w] = x]
  /\ UNCHANGED <<db, held, ex, silent, writes>> /\ UNCHANGED vars

Holds(w, table) == moving[w] # <<>> /\ moving[w].table = table
Finished(w) == moving' = [moving EXCEPT ![w] = <<>>]

(* Transition refuses the edge, or the Save fails.                         *)
GiveUp(w) ==
  /\ moving[w] # <<>>
  /\ Finished(w)
  /\ UNCHANGED <<db, held, ex, silent, writes>> /\ UNCHANGED vars

(* Transition, with the time its caller hands it.                          *)
Moved(r, target, at) == [r EXCEPT !.status = target, !.updated = at]

MoveCommitment(w) ==
  /\ Holds(w, "commitments")
  /\ \E target \in CommitmentStatus, at \in 1..now :
       LET x == moving[w] IN
       /\ CommitmentCanTransitionTo(x.memory.status, target)
       /\ Write(Mem!SaveCommitment(db.memory, x.id, Moved(x.memory, target, at)),
                Lite!SaveCommitment(db.sqlite, x.id, Moved(x.sqlite, target, at)),
                Pg!SaveCommitment(db.postgres, x.id, Moved(x.postgres, target, at)))
  /\ Finished(w)
  /\ UNCHANGED <<held, ex, silent>> /\ UNCHANGED vars

SaveGoal(g, m, s, p) ==
  Write(Mem!SaveGoal(db.memory, g, m), Lite!SaveGoal(db.sqlite, g, s),
        Pg!SaveGoal(db.postgres, g, p))

NewGoal ==
  /\ \E g \in Goals \ Stored("goals"), o \in Owners :
       LET r == [owner |-> o, status |-> "open", created |-> now, updated |-> now,
                 refs |-> "some"] IN
       SaveGoal(g, r, r, r)
  /\ UNCHANGED <<held, ex, moving, silent>> /\ UNCHANGED vars

MoveGoal(w) ==
  /\ Holds(w, "goals")
  /\ \E target \in GoalStatus, at \in 1..now :
       LET x == moving[w] IN
       /\ GoalCanTransitionTo(x.memory.status, target)
       /\ SaveGoal(x.id, Moved(x.memory, target, at), Moved(x.sqlite, target, at),
                   Moved(x.postgres, target, at))
  /\ Finished(w)
  /\ UNCHANGED <<held, ex, silent>> /\ UNCHANGED vars

SaveTask(t, m, s, p) ==
  Write(Mem!SaveTask(db.memory, t, m), Lite!SaveTask(db.sqlite, t, s),
        Pg!SaveTask(db.postgres, t, p))

NewTask ==
  /\ \E t \in Tasks \ Stored("tasks"), g \in Stored("goals") \cup {Nil},
        c \in Stored("commitments") \cup {Nil} :
       LET r == [goal |-> g, commitment |-> c, assignedTo |-> Nil, status |-> "pending",
                 created |-> now, updated |-> now] IN
       SaveTask(t, r, r, r)
  /\ UNCHANGED <<held, ex, moving, silent>> /\ UNCHANGED vars

(* The caller of Transition sets AssignedTo in the same update.            *)
Assigned(r, target, at) ==
  [Moved(r, target, at) EXCEPT !.assignedTo = IF target = "assigned" THEN "agent" ELSE @]

MoveTask(w) ==
  /\ Holds(w, "tasks")
  /\ \E target \in TaskStatus, at \in 1..now :
       LET x == moving[w] IN
       /\ TaskCanTransitionTo(x.memory.status, target)
       /\ SaveTask(x.id, Assigned(x.memory, target, at), Assigned(x.sqlite, target, at),
                   Assigned(x.postgres, target, at))
  /\ Finished(w)
  /\ UNCHANGED <<held, ex, silent>> /\ UNCHANGED vars

Evaluates == UpdateRisk \/ recordDecision
Intervenes == \E i \in Ivs : Intervene(i)
Resolves == \E h \in Handlers : HandlerGet(h) \/ HandlerResolve(h) \/ HandlerSave(h)
Creates == NewGoal \/ NewTask
Moves == \E w \in Movers : \/ Read(w) \/ GiveUp(w)
                           \/ MoveCommitment(w) \/ MoveGoal(w) \/ MoveTask(w)

StoresNext ==
  \/ Tick /\ UNCHANGED <<db, held, ex, moving, silent, writes>>
  \/ ExBegin \/ SaveDraft \/ DropDraft \/ ExDecide
  \/ Evaluates \/ Intervenes \/ Resolves \/ Creates \/ Moves

StoresSpec == StoresInit /\ [][StoresNext]_<<vars, storeVars>>
-----------------------------------------------------------------------------
(* Filters: none set, one set, or all set.                                 *)
CommitmentFilters ==
  LET none == [owner |-> "", statuses |-> {}, dueBy |-> 0, limit |-> 0] IN
  {none, [none EXCEPT !.statuses = {"pending"}], [none EXCEPT !.dueBy = 1]}
  \cup {[owner |-> o, statuses |-> {"pending", "missed"}, dueBy |-> 1, limit |-> 1] : o \in Owners}
InterventionFilters ==
  LET none == [commitment |-> Nil, task |-> Nil, statuses |-> {}, since |-> 0, limit |-> 0] IN
  {none, [none EXCEPT !.statuses = {"pending", "accepted"}],
   [none EXCEPT !.since = MaxTime], [none EXCEPT !.limit = 1]}
  \cup {[none EXCEPT !.commitment = c] : c \in Cs} \cup {[none EXCEPT !.task = t] : t \in Tasks}
TaskFilters ==
  LET none == [goal |-> Nil, commitment |-> Nil, assignedTo |-> Nil, statuses |-> {},
               limit |-> 0] IN
  {none, [none EXCEPT !.assignedTo = "agent"], [none EXCEPT !.statuses = {"pending"}],
   [none EXCEPT !.limit = 1]}
  \cup {[none EXCEPT !.goal = g] : g \in Goals} \cup {[none EXCEPT !.commitment = c] : c \in Cs}
Subjects == {"commitment.extract", "commitment.evaluate"}

Agree(a, b, c) == a = b /\ a = c
Listed(table) == Stored(table) # {}   \* lists of an empty table are empty

(* A decision as GET /v1/decisions writes it: inputs and outcome as JSON.  *)
decisionToJSON(d) == IF d = <<>> THEN d ELSE [d EXCEPT !.form = "json"]

(* ADR 003: "three storage backends with identical behavior".  Whatever    *)
(* was written, in whatever order, every Get and every list, under every   *)
(* filter and limit, has the same answers from the three stores.  A        *)
(* decision's inputs and outcome are the exception: memory hands out the   *)
(* Go values it was given and the SQL stores what their JSON decodes to    *)
(* ("memory keeps the original int", store_test.go); there the two SQL     *)
(* stores agree, and memory agrees with them once the response is JSON.    *)
SameAnswers ==
  LET m == db.memory s == db.sqlite p == db.postgres IN
  /\ \A c \in Cs : Agree(Mem!GetCommitment(m, c), Lite!GetCommitment(s, c),
                        Pg!GetCommitment(p, c))
  /\ \A d \in Decs :
       /\ Lite!GetDecision(s, d) = Pg!GetDecision(p, d)
       /\ decisionToJSON(Mem!GetDecision(m, d)) = decisionToJSON(Lite!GetDecision(s, d))
  /\ \A i \in Ivs : Agree(Mem!GetIntervention(m, i), Lite!GetIntervention(s, i),
                         Pg!GetIntervention(p, i))
  /\ \A g \in Goals : Agree(Mem!GetGoal(m, g), Lite!GetGoal(s, g), Pg!GetGoal(p, g))
  /\ \A t \in Tasks : Agree(Mem!GetTask(m, t), Lite!GetTask(s, t), Pg!GetTask(p, t))
  /\ Listed("commitments") =>
       /\ \A n \in 0..1 :
            Agree(Mem!FindActive(m, n), Lite!FindActive(s, n), Pg!FindActive(p, n))
       /\ \A f \in CommitmentFilters :
            Agree(Mem!ListCommitments(m, f), Lite!ListCommitments(s, f),
                  Pg!ListCommitments(p, f))
  /\ Listed("decisions") => \A n \in 0..1, u \in Subjects :
       Agree(Mem!ListBySubject(m, u, n), Lite!ListBySubject(s, u, n),
             Pg!ListBySubject(p, u, n))
  /\ Listed("interventions") => \A f \in InterventionFilters :
       Agree(Mem!ListInterventions(m, f), Lite!ListInterventions(s, f),
             Pg!ListInterventions(p, f))
  /\ Listed("goals") => \A n \in 0..1, o \in Owners :
       Agree(Mem!ListByOwner(m, o, n), Lite!ListByOwner(s, o, n), Pg!ListByOwner(p, o, n))
  /\ Listed("tasks") => \A f \in TaskFilters :
       Agree(Mem!ListTasks(m, f), Lite!ListTasks(s, f), Pg!ListTasks(p, f))

(* The table the resolve handlers of Interventions work on is what each    *)
(* store shows: encoding a row, upserting it with the columns of its SET   *)
(* clause and scanning it back loses no resolution.                        *)
StoresShowTheRow ==
  \A i \in Ivs :
    LET Shows(iv) == IF iv = <<>> THEN row[i] = Absent
                     ELSE row[i] = [status |-> iv.status, resolvedAt |-> iv.resolvedAt] IN
    /\ Shows(Mem!GetIntervention(db.memory, i))
    /\ Shows(Lite!GetIntervention(db.sqlite, i))
    /\ Shows(Pg!GetIntervention(db.postgres, i))

(* Extract's audit trail, in each store: "we saw N drafts, kept K" adds up,*)
(* names only rows that are there, and covers every commitment except      *)
(* those of a call still running and of a call whose decision failed.      *)
AuditAddsUp ==
  \A b \in DOMAIN db :
    LET D == db[b].decisions
        Audits == {d \in DOMAIN D : D[d].subject = "commitment.extract"} IN
    /\ \A d \in Audits :
         LET o == D[d].outcome IN o.considered = Cardinality(o.saved) + o.dropped
    /\ DOMAIN db[b].commitments =
         silent \cup (IF ex = NoExtract THEN {} ELSE ex.saved)
                \cup UNION {D[d].outcome.saved : d \in Audits}

(* "Completed/missed/cancelled are terminal", and a row that left the      *)
(* worklist comes back to it, in whichever store, in one way only: a       *)
(* client saves a copy it read while the commitment was still active.  The *)
(* evaluator, which listed the commitment as active, never does that: its  *)
(* UPDATE names the risk columns and no status.  Nor does an extraction.   *)
OffTheWorklist ==
  [][\A b \in DOMAIN db : \A c \in DOMAIN db[b].commitments :
       LET Active(r) == r.status \in {"pending", "in_progress"} IN
       ~Active(db[b].commitments[c]) /\ Active(db'[b].commitments[c]) =>
         \E w \in Movers :
           /\ Holds(w, "commitments") /\ moving[w].id = c /\ Active(moving[w][b])
           /\ moving'[w] = <<>>]_<<vars, storeVars>>
=============================================================================
