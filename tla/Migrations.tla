----------------------------- MODULE Migrations -----------------------------
(***************************************************************************)
(* Opening the database: sqlite.Open and postgres.Open with runMigrations  *)
(* (internal/store/sqlite/db.go, internal/store/postgres/db.go), by any    *)
(* number of processes that share one database, start, crash and start     *)
(* again.  The migration files are numbered in lexical order.  SQLite runs *)
(* all of them at every start in one transaction; PostgreSQL holds an      *)
(* advisory lock, asks its bookkeeping table and runs each missing file in *)
(* a transaction of its own.                                               *)
(***************************************************************************)
EXTENDS Naturals

CONSTANTS
  Procs,       \* processes opening the database
  NoProc,      \* no holder of a lock
  Backends,    \* the kinds of database that may be configured
  Last,        \* number of migration files
  Repeatable   \* per kind of database: the files that may run twice

Files == 1..Last

ASSUME MigrationConfig ==
  /\ NoProc \notin Procs
  /\ Backends \subseteq {"sqlite", "postgres"}
  /\ Last \in Nat
  /\ Repeatable \in [Backends -> SUBSET Files]

VARIABLES
  backend,  \* the configured database
  schema,   \* files whose effect is committed
  book,     \* files listed in nous_schema_migrations (PostgreSQL)
  owner,    \* holder of the advisory lock, or of SQLite's write lock
  pc,       \* where each process is
  next      \* the file a process has come to

vars == <<backend, schema, book, owner, pc, next>>

Goto(p, l) == pc' = [pc EXCEPT ![p] = l]
Release(p) == owner' = IF owner = p THEN NoProc ELSE owner

Init ==
  /\ backend \in Backends
  /\ schema = {} /\ book = {}
  /\ owner = NoProc
  /\ pc = [p \in Procs |-> "down"]
  /\ next = [p \in Procs |-> 1]

(* Plausible bugs, for the mutation runs.                                  *)
Lock_ungated(p) ==
  /\ pc[p] = "lock"
  /\ owner' = p
  /\ Goto(p, "check")
  /\ UNCHANGED <<backend, schema, book, next>>

Apply_recordsFirst(p) ==
  /\ pc[p] = "apply"
  /\ book' = book \cup {next[p]}
  /\ \/ /\ schema' = schema \cup {next[p]}
        /\ next' = [next EXCEPT ![p] = @ + 1]
        /\ Goto(p, "check")
        /\ UNCHANGED owner
     \/ /\ Goto(p, "down")
        /\ next' = [next EXCEPT ![p] = 1]
        /\ Release(p)
        /\ UNCHANGED schema
  /\ UNCHANGED backend

Apply_forgetsRecord(p) ==
  /\ pc[p] = "apply"
  /\ schema' = schema \cup {next[p]}
  /\ next' = [next EXCEPT ![p] = @ + 1]
  /\ Goto(p, "check")
  /\ UNCHANGED <<backend, owner, book>>

Crash_keepsLock(p) ==
  /\ pc[p] # "down"
  /\ Goto(p, "down")
  /\ next' = [next EXCEPT ![p] = 1]
  /\ UNCHANGED <<backend, schema, book, owner>>
-----------------------------------------------------------------------------
(* A process starts and reaches the database.                              *)
Open(p) ==
  /\ pc[p] = "down"
  /\ Goto(p, IF backend = "postgres" THEN "lock" ELSE "exec")
  /\ UNCHANGED <<backend, schema, book, owner, next>>

(* PostgreSQL: pg_advisory_lock waits for its turn.                        *)
Lock(p) ==
  /\ pc[p] = "lock" /\ owner = NoProc
  /\ owner' = p
  /\ Goto(p, "check")
  /\ UNCHANGED <<backend, schema, book, next>>

(* SELECT EXISTS on the bookkeeping table: skip the file or apply it.      *)
Check(p) ==
  /\ pc[p] = "check" /\ next[p] <= Last
  /\ \/ /\ next[p] \in book
        /\ next' = [next EXCEPT ![p] = @ + 1]
        /\ UNCHANGED pc
     \/ /\ next[p] \notin book
        /\ Goto(p, "apply")
        /\ UNCHANGED next
  /\ UNCHANGED <<backend, schema, book, owner>>

(* The file and its record are committed together.  A file that cannot run *)
(* twice, or a record that is there already (name is the primary key),     *)
(* rolls the transaction back and Open returns the error.                  *)
Apply(p) ==
  /\ pc[p] = "apply"
  /\ \/ /\ next[p] \notin book
        /\ next[p] \notin schema \/ next[p] \in Repeatable[backend]
        /\ schema' = schema \cup {next[p]}
        /\ book' = book \cup {next[p]}
        /\ next' = [next EXCEPT ![p] = @ + 1]
        /\ Goto(p, "check")
        /\ UNCHANGED owner
     \/ /\ \/ next[p] \in book
           \/ next[p] \in schema /\ next[p] \notin Repeatable[backend]
        /\ Goto(p, "refused")
        /\ Release(p)
        /\ UNCHANGED <<schema, book, next>>
  /\ UNCHANGED backend

(* All files are behind: unlock and return the connection.                 *)
Unlock(p) ==
  /\ pc[p] = "check" /\ next[p] > Last
  /\ Release(p)
  /\ Goto(p, "serving")
  /\ UNCHANGED <<backend, schema, book, next>>

(* SQLite: the next file inside the transaction.  What is committed and    *)
(* says IF NOT EXISTS writes nothing; the first write takes the write      *)
(* lock.  A file that is committed and cannot run twice rolls everything   *)
(* back, and so does waiting for the lock longer than busy_timeout.        *)
Exec(p) ==
  /\ pc[p] = "exec" /\ next[p] <= Last
  /\ \/ /\ next[p] \in schema /\ next[p] \in Repeatable[backend]
        /\ next' = [next EXCEPT ![p] = @ + 1]
        /\ UNCHANGED <<owner, pc>>
     \/ /\ next[p] \notin schema /\ owner \in {NoProc, p}
        /\ owner' = p
        /\ next' = [next EXCEPT ![p] = @ + 1]
        /\ UNCHANGED pc
     \/ /\ \/ next[p] \in schema /\ next[p] \notin Repeatable[backend]
           \/ next[p] \notin schema /\ owner \notin {NoProc, p}
        /\ Goto(p, "refused")
        /\ Release(p)
        /\ UNCHANGED next
  /\ UNCHANGED <<backend, schema, book>>

Commit(p) ==
  /\ pc[p] = "exec" /\ next[p] > Last
  /\ schema' = Files
  /\ Release(p)
  /\ Goto(p, "serving")
  /\ UNCHANGED <<backend, book, next>>

(* The process ends at any point, or gives up on an error of the           *)
(* connection: the connection drops, its locks are released and its open   *)
(* transaction is gone.                                                    *)
Crash(p) ==
  /\ pc[p] # "down"
  /\ Goto(p, "down")
  /\ next' = [next EXCEPT ![p] = 1]
  /\ Release(p)
  /\ UNCHANGED <<backend, schema, book>>

Step(p) == Lock(p) \/ Check(p) \/ Apply(p) \/ Unlock(p) \/ Exec(p) \/ Commit(p)

Next == \E p \in Procs : Open(p) \/ Step(p) \/ Crash(p)

Spec == Init /\ [][Next]_vars

(* Processes are scheduled and the database answers; the advisory lock is  *)
(* granted in the order it was asked for.  Nobody has to start or crash.   *)
FairSpec ==
  /\ Spec
  /\ \A p \in Procs : WF_vars(Step(p)) /\ SF_vars(Lock(p))
-----------------------------------------------------------------------------
TypeOK ==
  /\ backend \in Backends
  /\ schema \subseteq Files /\ book \subseteq Files
  /\ owner \in Procs \cup {NoProc}
  /\ pc \in [Procs -> {"down", "lock", "check", "apply", "exec", "serving",
                       "refused"}]
  /\ next \in [Procs -> 1..(Last + 1)]
  /\ \A p \in Procs : pc[p] = "apply" => next[p] \in Files

(* "a freshly opened database is always at the expected schema": however   *)
(* many processes migrate at once and crash half-way, the one that gets    *)
(* its connection finds every migration committed.                         *)
SchemaComplete == \A p \in Procs : pc[p] = "serving" => schema = Files

(* "repeated Open() calls against a shared database don't replay           *)
(* migrations": what PostgreSQL is about to apply is not in the schema.    *)
NoReplay == \A p \in Procs : pc[p] = "apply" => next[p] \notin schema

(* "Idempotent migrations make repeated startups safe": PostgreSQL never   *)
(* refuses to start over its own migrations.                               *)
PostgresStarts ==
  backend = "postgres" => \A p \in Procs : pc[p] # "refused"

(* "a panicking migration cannot deadlock new opens": who waits for a lock *)
(* gets an answer, or crashes itself, whoever crashes while holding it.    *)
OpenReturns ==
  \A p \in Procs :
    pc[p] \in {"lock", "exec"} ~> pc[p] \in {"serving", "refused", "down"}
-----------------------------------------------------------------------------
(* What the comment of the SQLite runMigrations says.                      *)

(* "Each migration is idempotent (CREATE TABLE IF NOT EXISTS), so repeated *)
(* startups are safe": no start is refused.                                *)
RepeatedStartups == \A p \in Procs : pc[p] # "refused"
=============================================================================
