--------------------------- MODULE Interventions ----------------------------
(***************************************************************************)
(* Interventions from creation to resolution: the evaluator saves a        *)
(* pending row, and any number of HTTP (handleResolveIntervention) and     *)
(* gRPC (ResolveIntervention) handlers resolve rows by reading one,        *)
(* changing the copy with Intervention.Resolve and saving the copy back.   *)
(* The store's mutex or statement makes Get and Save each atomic; nothing  *)
(* makes the pair atomic.                                                  *)
(***************************************************************************)
EXTENDS Naturals, DomainStatus

CONSTANTS
  Ivs,        \* intervention ids
  Handlers,   \* goroutines serving a resolve request
  Targets,    \* status strings clients send, "bogus" for an unknown one
  MaxTime     \* bound: the clock stops here

ASSUME ResolveInputs == MaxTime \in Nat \ {0}

VARIABLES
  row,    \* the interventions table: status and resolved_at (0 is NULL)
  now,    \* the wall clock
  pc,     \* where each handler is
  req,    \* the request a handler serves
  copy,   \* the row as the handler read and then changed it
  ever,   \* history: the statuses each row has had
  read    \* history: the status a handler's Get returned

vars == <<row, now, pc, req, copy, ever, read>>

Absent == [status |-> "none", resolvedAt |-> 0]
Rows == [status : InterventionStatus \cup {"none"}, resolvedAt : 0..MaxTime]
NoReq == <<>>

Init ==
  /\ row = [i \in Ivs |-> Absent]
  /\ now = 1
  /\ pc = [h \in Handlers |-> "idle"]
  /\ req = [h \in Handlers |-> NoReq]
  /\ copy = [h \in Handlers |-> Absent]
  /\ ever = [i \in Ivs |-> {}]
  /\ read = [h \in Handlers |-> "none"]

Put(i, r) ==
  /\ row' = [row EXCEPT ![i] = r]
  /\ ever' = [ever EXCEPT ![i] = @ \cup {r.status}]

Done(h) ==
  /\ pc' = [pc EXCEPT ![h] = "idle"]
  /\ req' = [req EXCEPT ![h] = NoReq]
  /\ copy' = [copy EXCEPT ![h] = Absent]
  /\ read' = [read EXCEPT ![h] = "none"]

(* Plausible bugs, for the mutation runs.                                  *)
Resolve_savesAnyway(h) ==
  /\ pc[h] = "resolve"
  /\ copy' = [copy EXCEPT ![h] = [status |-> req[h].target, resolvedAt |-> now]]
  /\ pc' = [pc EXCEPT ![h] = "save"]
  /\ UNCHANGED <<row, now, req, ever, read>>
-----------------------------------------------------------------------------
(* The evaluator's interventions.Save of a NewIntervention.                *)
Create(i) ==
  /\ row[i].status = "none"
  /\ Put(i, [status |-> "pending", resolvedAt |-> 0])
  /\ UNCHANGED <<now, pc, req, copy, read>>

(* A request arrives; Get finds the row or answers 404.                    *)
Get(h) ==
  /\ pc[h] = "idle"
  /\ \E i \in Ivs, t \in Targets :
       /\ row[i].status # "none"
       /\ req' = [req EXCEPT ![h] = [id |-> i, target |-> t]]
       /\ copy' = [copy EXCEPT ![h] = row[i]]
       /\ read' = [read EXCEPT ![h] = row[i].status]
  /\ pc' = [pc EXCEPT ![h] = "resolve"]
  /\ UNCHANGED <<row, now, ever>>

(* Valid and Resolve on the copy: 400 for an unknown status, 409 for an    *)
(* edge that is not there, else the target and a resolved_at stamp, also   *)
(* when the target is the status the row already has.                      *)
Resolve(h) ==
  /\ pc[h] = "resolve"
  /\ \/ /\ req[h].target \in InterventionStatus
        /\ InterventionCanTransitionTo(copy[h].status, req[h].target)
        /\ copy' = [copy EXCEPT ![h] = [status |-> req[h].target, resolvedAt |-> now]]
        /\ pc' = [pc EXCEPT ![h] = "save"]
        /\ UNCHANGED <<req, read>>
     \/ /\ \/ req[h].target \notin InterventionStatus
           \/ ~InterventionCanTransitionTo(copy[h].status, req[h].target)
        /\ Done(h)
  /\ UNCHANGED <<row, now, ever>>

(* Save overwrites the row with the copy; a store error answers 500.       *)
SaveOK(h) ==
  /\ pc[h] = "save"
  /\ Put(req[h].id, copy[h])
  /\ Done(h)
  /\ UNCHANGED now

SaveFails(h) ==
  /\ pc[h] = "save"
  /\ Done(h)
  /\ UNCHANGED <<row, ever, now>>

Save(h) == SaveOK(h) \/ SaveFails(h)

Tick ==
  /\ now < MaxTime
  /\ now' = now + 1
  /\ UNCHANGED <<row, pc, req, copy, ever, read>>

Next ==
  \/ Tick
  \/ \E i \in Ivs : Create(i)
  \/ \E h \in Handlers : Get(h) \/ Resolve(h) \/ Save(h)

Spec == Init /\ [][Next]_vars
-----------------------------------------------------------------------------
TypeOK ==
  /\ row \in [Ivs -> Rows]
  /\ now \in 1..MaxTime
  /\ pc \in [Handlers -> {"idle", "resolve", "save"}]
  /\ req \in [Handlers -> [id : Ivs, target : Targets] \cup {NoReq}]
  /\ \A h \in Handlers :
       pc[h] # "idle" => /\ req[h] \in [id : Ivs, target : Targets]
                         /\ copy[h].status # "none"
  /\ copy \in [Handlers -> Rows]
  /\ ever \in [Ivs -> SUBSET InterventionStatus]
  /\ read \in [Handlers -> InterventionStatus \cup {"none"}]

(* However concurrent requests overwrite each other, a row is executed     *)
(* only if it was accepted before.                                         *)
ExecutedWasAccepted ==
  \A i \in Ivs : row[i].status = "executed" => "accepted" \in ever[i]

Terminal == {"rejected", "expired", "executed"}

(* A terminal row keeps its status unless a handler is at work that read   *)
(* it in another one: Resolve lets nothing out of a terminal status, so    *)
(* the read-modify-write window is the only way out.                       *)
StickyOnceQuiet ==
  [][\A i \in Ivs :
       /\ row[i].status \in Terminal
       /\ \A h \in Handlers :
            pc[h] # "idle" /\ req[h].id = i => read[h] = row[i].status
       => row'[i].status = row[i].status]_vars

(* The abstract lifecycle of every row.                                    *)
Lifecycle ==
  INSTANCE InterventionLifecycle WITH status <- [i \in Ivs |-> row[i].status]
ImplementsLifecycle == Lifecycle!Spec
-----------------------------------------------------------------------------
(* What the comments of intervention.go say.                               *)

(* "other terminal states are sticky": whoever else is resolving it, a     *)
(* terminal row stays as it is.                                            *)
TerminalSticky ==
  [][\A i \in Ivs :
       row[i].status \in Terminal => row'[i].status = row[i].status]_vars
=============================================================================
