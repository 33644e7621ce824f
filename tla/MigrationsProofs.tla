-------------------------- MODULE MigrationsProofs --------------------------
(***************************************************************************)
(* Proofs about opening the database, for any number of processes and of   *)
(* migration files.                                                        *)
(***************************************************************************)
EXTENDS Migrations, TLAPS

(* The steps of Open keep every variable in its range.                     *)
THEOREM TypeCorrect == Spec => []TypeOK
<1> USE MigrationConfig DEF MigrationConfig, TypeOK, Files
<1>1. ASSUME Init PROVE TypeOK
  BY <1>1 DEF Init
<1>2. ASSUME TypeOK, [Next]_vars PROVE TypeOK'
  <2> USE <1>2 DEF Goto, Release
  <2>1. CASE UNCHANGED vars
    BY <2>1 DEF vars
  <2>2. ASSUME NEW p \in Procs, Open(p) PROVE TypeOK'
    BY <2>2 DEF Open
  <2>3. ASSUME NEW p \in Procs, Lock(p) PROVE TypeOK'
    BY <2>3 DEF Lock
  <2>4. ASSUME NEW p \in Procs, Check(p) PROVE TypeOK'
    <3>1. next[p] + 1 \in 1..(Last + 1)
      BY <2>4 DEF Check
    <3>2. CASE next[p] \in book
      BY <2>4, <3>1, <3>2 DEF Check
    <3>3. CASE next[p] \notin book
      <4>1. next[p] \in Files /\ pc' = [pc EXCEPT ![p] = "apply"]
        BY <2>4, <3>3 DEF Check
      <4>2. \A q \in Procs : pc'[q] = "apply" => next[q] \in Files
        BY <4>1
      <4>3. QED BY <2>4, <3>3, <4>1, <4>2 DEF Check
    <3>4. QED BY <3>2, <3>3
  <2>5. ASSUME NEW p \in Procs, Apply(p) PROVE TypeOK'
    <3>1. next[p] + 1 \in 1..(Last + 1) /\ next[p] \in Files
      BY <2>5 DEF Apply
    <3>2. CASE pc' = [pc EXCEPT ![p] = "check"]
      <4>1. next' = [next EXCEPT ![p] = @ + 1]
        BY <2>5, <3>2 DEF Apply
      <4>2. \A q \in Procs : pc'[q] = "apply" => next'[q] \in Files
        BY <3>2, <4>1
      <4>3. QED BY <2>5, <3>1, <3>2, <4>1, <4>2 DEF Apply
    <3>3. CASE pc' = [pc EXCEPT ![p] = "refused"]
      <4>1. UNCHANGED <<next, schema, book>>
        BY <2>5, <3>3 DEF Apply
      <4>2. QED BY <2>5, <3>3, <4>1 DEF Apply
    <3>4. QED BY <2>5, <3>2, <3>3 DEF Apply
  <2>6. ASSUME NEW p \in Procs, Unlock(p) PROVE TypeOK'
    BY <2>6 DEF Unlock
  <2>7. ASSUME NEW p \in Procs, Exec(p) PROVE TypeOK'
    <3>1. next[p] + 1 \in 1..(Last + 1)
      BY <2>7 DEF Exec
    <3>2. QED BY <2>7, <3>1 DEF Exec
  <2>8. ASSUME NEW p \in Procs, Commit(p) PROVE TypeOK'
    BY <2>8 DEF Commit
  <2>9. ASSUME NEW p \in Procs, Crash(p) PROVE TypeOK'
    BY <2>9 DEF Crash
  <2>10. QED
    BY <2>1, <2>2, <2>3, <2>4, <2>5, <2>6, <2>7, <2>8, <2>9 DEF Next, Step
<1>3. QED BY <1>1, <1>2, PTL DEF Spec
-----------------------------------------------------------------------------
(* Why PostgreSQL's migrations can be trusted: the bookkeeping table and   *)
(* the schema agree, who migrates holds the lock, and has behind it only   *)
(* what is committed.  A start is refused by SQLite alone.                 *)
Bookkept ==
  /\ backend = "postgres" => book = schema
  /\ \A p \in Procs :
       /\ pc[p] \in {"down", "lock"} => next[p] = 1
       /\ pc[p] \in {"lock", "check", "apply"} => backend = "postgres"
       /\ pc[p] \in {"exec", "refused"} => backend # "postgres"
       /\ pc[p] \in {"check", "apply"} => /\ owner = p
                                         /\ 1..(next[p] - 1) \subseteq schema
       /\ pc[p] = "apply" => next[p] \notin book
       /\ pc[p] = "serving" => schema = Files

(* A file that was just applied, or found applied, joins the prefix.       *)
LEMMA PrefixGrows ==
  ASSUME NEW n \in Nat, NEW S, n \in S, 1..(n - 1) \subseteq S
  PROVE  1..((n + 1) - 1) \subseteq S
OBVIOUS

(* The advisory lock keeps every other process out of check and apply, so  *)
(* what Check read still holds when Apply commits.                         *)
LEMMA BookkeptStep == TypeOK /\ Bookkept /\ [Next]_vars => Bookkept'
<1> SUFFICES ASSUME TypeOK, Bookkept, [Next]_vars PROVE Bookkept'
  OBVIOUS
<1> USE MigrationConfig DEF MigrationConfig, TypeOK, Files, Bookkept, Goto, Release
<1>1. CASE UNCHANGED vars
  BY <1>1 DEF vars
<1>2. ASSUME NEW p \in Procs, Open(p) PROVE Bookkept'
  BY <1>2 DEF Open
<1>3. ASSUME NEW p \in Procs, Lock(p) PROVE Bookkept'
  <2>1. /\ owner' = p /\ owner = NoProc /\ pc[p] = "lock"
        /\ pc' = [pc EXCEPT ![p] = "check"]
        /\ UNCHANGED <<backend, schema, book, next>>
    BY <1>3 DEF Lock
  <2>2. \A q \in Procs : pc[q] \notin {"check", "apply"}
    BY <2>1
  <2>3. 1..(next[p] - 1) \subseteq schema
    BY <2>1
  <2>4. QED BY <2>1, <2>2, <2>3
<1>4. ASSUME NEW p \in Procs, Check(p) PROVE Bookkept'
  BY <1>4, PrefixGrows DEF Check
<1>5. ASSUME NEW p \in Procs, Apply(p) PROVE Bookkept'
  <2>1. /\ next[p] \notin book /\ backend = "postgres" /\ owner = p
        /\ next[p] \in Nat /\ 1..(next[p] - 1) \subseteq schema
        /\ book = schema
    BY <1>5 DEF Apply
  <2>2. /\ schema' = schema \cup {next[p]} /\ book' = book \cup {next[p]}
        /\ next' = [next EXCEPT ![p] = @ + 1]
        /\ pc' = [pc EXCEPT ![p] = "check"]
        /\ UNCHANGED <<owner, backend>>
    BY <1>5, <2>1 DEF Apply
  <2>3. \A q \in Procs : q # p => pc'[q] = pc[q] /\ pc[q] \notin {"check", "apply"}
    BY <2>1, <2>2
  <2>4. 1..(next'[p] - 1) \subseteq schema'
    BY <2>1, <2>2, PrefixGrows
  <2>5. schema = Files => schema' = Files
    BY <2>2, <1>5 DEF Apply
  <2>6. pc'[p] = "check" /\ book' = schema' /\ owner' = p
    BY <2>1, <2>2
  <2>7. QED BY <2>1, <2>2, <2>3, <2>4, <2>5, <2>6
<1>6. ASSUME NEW p \in Procs, Unlock(p) PROVE Bookkept'
  <2>1. /\ pc[p] = "check" /\ next[p] > Last /\ owner = p
        /\ backend = "postgres"
        /\ owner' = NoProc /\ pc' = [pc EXCEPT ![p] = "serving"]
        /\ UNCHANGED <<backend, schema, book, next>>
    BY <1>6 DEF Unlock
  <2>2. next[p] - 1 = Last /\ 1..(next[p] - 1) \subseteq schema
    BY <2>1
  <2>3. schema = Files
    BY <2>2
  <2>4. \A q \in Procs : q # p => pc[q] \notin {"check", "apply"}
    BY <2>1
  <2>5. QED BY <2>1, <2>3, <2>4
<1>7. ASSUME NEW p \in Procs, Exec(p) PROVE Bookkept'
  BY <1>7 DEF Exec
<1>8. ASSUME NEW p \in Procs, Commit(p) PROVE Bookkept'
  BY <1>8 DEF Commit
<1>9. ASSUME NEW p \in Procs, Crash(p) PROVE Bookkept'
  BY <1>9 DEF Crash
<1>10. QED
  BY <1>1, <1>2, <1>3, <1>4, <1>5, <1>6, <1>7, <1>8, <1>9 DEF Next, Step
-----------------------------------------------------------------------------
(* Bookkept holds at every moment of every run.                            *)
LEMMA AlwaysBookkept == Spec => []Bookkept
<1>1. Init => Bookkept
  BY MigrationConfig DEF MigrationConfig, Init, Bookkept, Files
<1>2. QED BY <1>1, TypeCorrect, BookkeptStep, PTL DEF Spec

(* Whoever gets its connection finds every migration file committed: the   *)
(* return of sqlite.Open and postgres.Open.                                *)
THEOREM SchemaIsComplete == Spec => []SchemaComplete
<1>1. Bookkept => SchemaComplete
  BY DEF Bookkept, SchemaComplete
<1>2. QED BY <1>1, AlwaysBookkept, PTL

(* runMigrations of PostgreSQL executes no file whose effect is committed. *)
THEOREM MigrationsRunOnce == Spec => []NoReplay
<1>1. Bookkept => NoReplay
  BY DEF Bookkept, NoReplay
<1>2. QED BY <1>1, AlwaysBookkept, PTL

(* No start on PostgreSQL fails over a migration, whatever crashed before. *)
THEOREM PostgresAlwaysStarts == Spec => []PostgresStarts
<1>1. Bookkept => PostgresStarts
  BY DEF Bookkept, PostgresStarts
<1>2. QED BY <1>1, AlwaysBookkept, PTL
=============================================================================
