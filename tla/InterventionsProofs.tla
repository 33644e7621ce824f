------------------------ MODULE InterventionsProofs -------------------------
(***************************************************************************)
(* Proofs about resolving interventions, for any ids and handlers.         *)
(***************************************************************************)
EXTENDS Interventions, TLAPS

(* Get, Resolve and Save keep rows, requests and copies well formed.       *)
THEOREM TypeCorrect == Spec => []TypeOK
<1> USE ResolveInputs DEF TypeOK, Rows, Absent, InterventionStatus
<1>1. ASSUME Init PROVE TypeOK
  BY <1>1 DEF Init
<1>2. ASSUME TypeOK, [Next]_vars
      PROVE  TypeOK'
  <2> USE <1>2
  <2>1. CASE UNCHANGED vars
    BY <2>1 DEF vars
  <2>2. CASE Tick
    BY <2>2 DEF Tick
  <2>3. ASSUME NEW i \in Ivs, Create(i)
        PROVE  TypeOK'
    BY <2>3 DEF Create, Put
  <2>4. ASSUME NEW h \in Handlers, Get(h)
        PROVE  TypeOK'
    <3>1. PICK i \in Ivs, t \in Targets :
            /\ row[i].status # "none"
            /\ req' = [req EXCEPT ![h] = [id |-> i, target |-> t]]
            /\ copy' = [copy EXCEPT ![h] = row[i]]
            /\ read' = [read EXCEPT ![h] = row[i].status]
      BY <2>4 DEF Get
    <3>2. row[i] \in Rows
      OBVIOUS
    <3>3. QED BY <2>4, <3>1, <3>2 DEF Get
  <2>5. ASSUME NEW h \in Handlers, Resolve(h)
        PROVE  TypeOK'
    <3>1. CASE /\ copy' = [copy EXCEPT ![h] = [status |-> req[h].target,
                                               resolvedAt |-> now]]
               /\ req[h].target \in InterventionStatus
               /\ pc' = [pc EXCEPT ![h] = "save"]
               /\ req' = req /\ read' = read
      BY <2>5, <3>1 DEF Resolve
    <3>2. CASE Done(h)
      BY <2>5, <3>2 DEF Resolve, Done
    <3>3. QED BY <2>5, <3>1, <3>2 DEF Resolve
  <2>6. ASSUME NEW h \in Handlers, Save(h)
        PROVE  TypeOK'
    <3>1. req[h].id \in Ivs /\ copy[h] \in Rows /\ copy[h].status \in InterventionStatus
      BY <2>6 DEF Save, SaveOK, SaveFails
    <3>2. Done(h) /\ UNCHANGED now
      BY <2>6 DEF Save, SaveOK, SaveFails
    <3>3. CASE Put(req[h].id, copy[h])
      BY <3>1, <3>2, <3>3 DEF Put, Done
    <3>4. CASE UNCHANGED <<row, ever>>
      BY <3>2, <3>4 DEF Done
    <3>5. QED BY <2>6, <3>3, <3>4 DEF Save, SaveOK, SaveFails
  <2>7. QED BY <2>1, <2>2, <2>3, <2>4, <2>5, <2>6 DEF Next
<1>3. QED BY <1>1, <1>2, PTL DEF Spec
-----------------------------------------------------------------------------
(* Every status on its way into a row is one the row has had or one step   *)
(* from it, so "executed" cannot overtake "accepted".                      *)
Traceable ==
  /\ \A i \in Ivs : row[i].status # "none" => row[i].status \in ever[i]
  /\ \A h \in Handlers :
       /\ pc[h] = "resolve" => copy[h].status \in ever[req[h].id]
       /\ pc[h] = "save" /\ copy[h].status = "executed"
            => ever[req[h].id] \cap {"accepted", "executed"} # {}
  /\ \A i \in Ivs : "executed" \in ever[i] => "accepted" \in ever[i]

(* Concurrent resolves may overwrite each other, but a row is executed     *)
(* only after it was accepted.                                             *)
THEOREM ExecutedAfterAccepted == Spec => []ExecutedWasAccepted
<1>1. Init => Traceable
  BY DEF Init, Traceable, Absent
<1>2. ASSUME TypeOK, Traceable, [Next]_vars
      PROVE  Traceable'
  <2> USE <1>2 DEF TypeOK, Traceable, Rows, InterventionStatus
  <2>1. CASE UNCHANGED vars
    BY <2>1 DEF vars
  <2>2. CASE Tick
    BY <2>2 DEF Tick
  <2>3. ASSUME NEW i \in Ivs, Create(i)
        PROVE  Traceable'
    BY <2>3 DEF Create, Put
  <2>4. ASSUME NEW h \in Handlers, Get(h)
        PROVE  Traceable'
    <3>1. PICK i \in Ivs, t \in Targets :
            /\ row[i].status # "none"
            /\ req' = [req EXCEPT ![h] = [id |-> i, target |-> t]]
            /\ copy' = [copy EXCEPT ![h] = row[i]]
            /\ read' = [read EXCEPT ![h] = row[i].status]
      BY <2>4 DEF Get
    <3>2. QED BY <2>4, <3>1 DEF Get
  <2>5. ASSUME NEW h \in Handlers, Resolve(h)
        PROVE  Traceable'
    <3>1. CASE Done(h)
      BY <2>5, <3>1 DEF Resolve, Done
    <3>2. CASE /\ InterventionCanTransitionTo(copy[h].status, req[h].target)
               /\ copy' = [copy EXCEPT ![h] = [status |-> req[h].target,
                                               resolvedAt |-> now]]
               /\ pc' = [pc EXCEPT ![h] = "save"]
               /\ req' = req /\ read' = read
      <4>1. copy'[h].status = "executed"
              => copy[h].status \in {"accepted", "executed"}
        BY <3>2 DEF InterventionCanTransitionTo
      <4>2. copy[h].status \in ever[req[h].id]
        BY <2>5 DEF Resolve
      <4>3. QED BY <2>5, <3>2, <4>1, <4>2 DEF Resolve
    <3>3. QED BY <2>5, <3>1, <3>2 DEF Resolve
  <2>6. ASSUME NEW h \in Handlers, Save(h)
        PROVE  Traceable'
    <3>1. /\ req[h].id \in Ivs /\ copy[h].status \in InterventionStatus
          /\ copy[h].status = "executed" => "accepted" \in ever[req[h].id]
      BY <2>6 DEF Save, SaveOK, SaveFails
    <3>2. Done(h) /\ UNCHANGED now
      BY <2>6 DEF Save, SaveOK, SaveFails
    <3>3. CASE Put(req[h].id, copy[h])
      BY <3>1, <3>2, <3>3 DEF Put, Done
    <3>4. CASE UNCHANGED <<row, ever>>
      BY <3>2, <3>4 DEF Done
    <3>5. QED BY <2>6, <3>3, <3>4 DEF Save, SaveOK, SaveFails
  <2>7. QED BY <2>1, <2>2, <2>3, <2>4, <2>5, <2>6 DEF Next
<1>3. TypeOK /\ Traceable => ExecutedWasAccepted
  BY DEF TypeOK, Traceable, ExecutedWasAccepted
<1>4. QED BY <1>1, <1>2, <1>3, TypeCorrect, PTL DEF Spec

(* What a handler is about to save is one legal edge from what it read.    *)
OneEdge ==
  \A h \in Handlers :
    /\ pc[h] = "resolve" => copy[h].status = read[h]
    /\ pc[h] = "save" => InterventionCanTransitionTo(read[h], copy[h].status)

(* Get reads, Resolve takes an edge, Save ends the request.                *)
LEMMA OneEdgeStep == TypeOK /\ OneEdge /\ [Next]_vars => OneEdge'
<1> SUFFICES ASSUME TypeOK, OneEdge, [Next]_vars PROVE OneEdge'
  OBVIOUS
<1> USE DEF TypeOK, OneEdge
<1>1. CASE UNCHANGED vars
  BY <1>1 DEF vars
<1>2. CASE Tick
  BY <1>2 DEF Tick
<1>3. ASSUME NEW i \in Ivs, Create(i) PROVE OneEdge'
  BY <1>3 DEF Create
<1>4. ASSUME NEW h \in Handlers, Get(h) PROVE OneEdge'
  BY <1>4 DEF Get
<1>5. ASSUME NEW h \in Handlers, Resolve(h) PROVE OneEdge'
  <2>1. CASE Done(h)
    BY <1>5, <2>1 DEF Done
  <2>2. CASE /\ InterventionCanTransitionTo(copy[h].status, req[h].target)
             /\ copy' = [copy EXCEPT ![h] = [status |-> req[h].target,
                                             resolvedAt |-> now]]
             /\ pc' = [pc EXCEPT ![h] = "save"]
             /\ req' = req /\ read' = read
    <3>1. copy[h].status = read[h]
      BY <1>5 DEF Resolve
    <3>2. QED BY <2>2, <3>1
  <2>3. QED BY <1>5, <2>1, <2>2 DEF Resolve
<1>6. ASSUME NEW h \in Handlers, Save(h) PROVE OneEdge'
  BY <1>6 DEF Save, SaveOK, SaveFails, Done
<1>7. QED BY <1>1, <1>2, <1>3, <1>4, <1>5, <1>6 DEF Next

(* The status of a terminal row changes only through a handler that read   *)
(* the row in another status.                                              *)
THEOREM QuietRowsAreSticky == Spec => StickyOnceQuiet
<1>1. Init => OneEdge
  BY DEF Init, OneEdge
<1>2. ASSUME TypeOK, OneEdge, [Next]_vars,
             NEW i \in Ivs, row[i].status \in Terminal,
             \A h \in Handlers :
               pc[h] # "idle" /\ req[h].id = i => read[h] = row[i].status
      PROVE  row'[i].status = row[i].status
  <2> USE <1>2 DEF TypeOK, Terminal
  <2>1. CASE UNCHANGED vars
    BY <2>1 DEF vars
  <2>2. CASE Tick
    BY <2>2 DEF Tick
  <2>3. ASSUME NEW j \in Ivs, Create(j)
        PROVE  row'[i].status = row[i].status
    BY <2>3 DEF Create, Put
  <2>4. ASSUME NEW h \in Handlers, Get(h) \/ Resolve(h)
        PROVE  row'[i].status = row[i].status
    BY <2>4 DEF Get, Resolve
  <2>5. ASSUME NEW h \in Handlers, Save(h)
        PROVE  row'[i].status = row[i].status
    <3>1. req[h].id = i => copy[h].status = row[i].status
      BY <2>5 DEF Save, SaveOK, SaveFails, OneEdge, InterventionCanTransitionTo
    <3>2. QED BY <2>5, <3>1 DEF Save, SaveOK, SaveFails, Put
  <2>6. QED BY <2>1, <2>2, <2>3, <2>4, <2>5 DEF Next
<1>3. TypeOK /\ OneEdge /\ [Next]_vars =>
        [\A i \in Ivs :
           /\ row[i].status \in Terminal
           /\ \A h \in Handlers :
                pc[h] # "idle" /\ req[h].id = i => read[h] = row[i].status
           => row'[i].status = row[i].status]_vars
  BY <1>2
<1>4. QED
  BY <1>1, <1>3, OneEdgeStep, TypeCorrect, PTL DEF Spec, StickyOnceQuiet
-----------------------------------------------------------------------------
(* With one handler the copy is never stale: it is the row itself, or one  *)
(* legal edge ahead of it.                                                 *)
InStep ==
  \A h \in Handlers :
    /\ pc[h] = "resolve" => copy[h].status = row[req[h].id].status
    /\ pc[h] = "save" => InterventionCanTransitionTo(row[req[h].id].status,
                                                     copy[h].status)
    /\ pc[h] # "idle" => row[req[h].id].status # "none"

(* Served one request at a time, the handlers implement the lifecycle: the *)
(* lost update needs two handlers.                                         *)
THEOREM SerialImplementsLifecycle ==
  ASSUME \A g, h \in Handlers : g = h
  PROVE  Spec => ImplementsLifecycle
<1> DEFINE status == [i \in Ivs |-> row[i].status]
<1>1. Init => InStep /\ Lifecycle!Init
  BY DEF Init, InStep, Lifecycle!Init, Absent
<1>2. ASSUME TypeOK, InStep, [Next]_vars
      PROVE  InStep' /\ [Lifecycle!Next]_status
  <2> USE <1>2 DEF TypeOK, InStep, Rows
  <2>1. CASE UNCHANGED vars
    BY <2>1 DEF vars
  <2>2. CASE Tick
    BY <2>2 DEF Tick
  <2>3. ASSUME NEW i \in Ivs, Create(i)
        PROVE  InStep' /\ [Lifecycle!Next]_status
    <3>1. InStep'
      BY <2>3 DEF Create, Put
    <3>2. Lifecycle!Create(i)
      BY <2>3 DEF Create, Put, Lifecycle!Create
    <3>3. QED BY <3>1, <3>2 DEF Lifecycle!Next
  <2>4. ASSUME NEW h \in Handlers, Get(h)
        PROVE  InStep' /\ [Lifecycle!Next]_status
    <3>1. PICK i \in Ivs, t \in Targets :
            /\ row[i].status # "none"
            /\ req' = [req EXCEPT ![h] = [id |-> i, target |-> t]]
            /\ copy' = [copy EXCEPT ![h] = row[i]]
            /\ read' = [read EXCEPT ![h] = row[i].status]
      BY <2>4 DEF Get
    <3>2. QED BY <2>4, <3>1 DEF Get
  <2>5. ASSUME NEW h \in Handlers, Resolve(h)
        PROVE  InStep' /\ [Lifecycle!Next]_status
    BY <2>5 DEF Resolve, Done
  <2>6. ASSUME NEW h \in Handlers, Save(h)
        PROVE  InStep' /\ [Lifecycle!Next]_status
    <3>1. /\ req[h].id \in Ivs
          /\ copy[h].status \in InterventionStatus
          /\ pc' = [pc EXCEPT ![h] = "idle"]
      BY <2>6 DEF Save, SaveOK, SaveFails, Done
    <3>2. InStep'
      BY <3>1
    <3>3. CASE Put(req[h].id, copy[h])
      <4>1. PICK i \in Ivs, t \in Lifecycle!InterventionStatus :
              i = req[h].id /\ t = copy[h].status
        BY <3>1 DEF InterventionStatus, Lifecycle!InterventionStatus
      <4>2. status' = [status EXCEPT ![i] = t]
        BY <3>1, <3>3, <4>1 DEF Put
      <4>3. Lifecycle!Move(i, t)
        BY <2>6, <3>1, <4>1, <4>2 DEF Save, SaveOK, SaveFails, Lifecycle!Move,
           InterventionCanTransitionTo, Lifecycle!InterventionCanTransitionTo
      <4>4. QED BY <3>2, <4>3 DEF Lifecycle!Next
    <3>4. CASE UNCHANGED <<row, ever>>
      BY <3>2, <3>4
    <3>5. QED BY <2>6, <3>3, <3>4 DEF Save, SaveOK, SaveFails
  <2>7. QED BY <2>1, <2>2, <2>3, <2>4, <2>5, <2>6 DEF Next
<1>3. QED BY <1>1, <1>2, TypeCorrect, PTL DEF Spec, ImplementsLifecycle, Lifecycle!Spec
=============================================================================
