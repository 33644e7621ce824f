-------------------------------- MODULE Sql ---------------------------------
(***************************************************************************)
(* What the SQL of the SQLite and PostgreSQL repositories means.  A table  *)
(* is a function from primary keys to rows, a row a record of its columns. *)
(* A query answers with a sequence of keys; where ORDER BY leaves rows     *)
(* tied, the engine may return them in any order, so an answer is a set of *)
(* such sequences.                                                         *)
(***************************************************************************)
EXTENDS Integers, SequencesExt

Insert(t, id, r) == [k \in DOMAIN t \cup {id} |-> IF k = id THEN r ELSE t[k]]

(* INSERT ... ON CONFLICT(id) DO UPDATE SET cols                           *)
Upsert(t, id, r, cols) ==
  Insert(t, id, [c \in DOMAIN r |->
                   IF id \in DOMAIN t /\ c \notin cols THEN t[id][c] ELSE r[c]])

(* INSERT ... ON CONFLICT(id) DO NOTHING                                   *)
InsertNew(t, id, r) == IF id \in DOMAIN t THEN t ELSE Insert(t, id, r)

(* A foreign key: a column that is not NULL names a row of the other table.*)
References(key, t) == key = "NULL" \/ key \in DOMAIN t

(* Sequences of S in which nothing comes before what Less puts before it.  *)
Sorted(S, Less(_, _)) ==
  {s \in SetToSeqs(S) : \A i, j \in DOMAIN s : i < j => ~Less(s[j], s[i])}

(* LIMIT n, where 0 stands for no LIMIT clause.                            *)
First(s, n) == IF n > 0 /\ Len(s) > n THEN SubSeq(s, 1, n) ELSE s

(* ORDER BY several columns: the first one that differs decides.           *)
Precedes(a, b) ==
  \E i \in DOMAIN a : a[i] < b[i] /\ \A j \in 1..(i - 1) : a[j] = b[j]

(* SELECT id FROM t WHERE ... ORDER BY ... LIMIT n                         *)
Select(t, Where(_), OrderBy(_), n) ==
  LET Before(j, k) == Precedes(OrderBy(t[j]), OrderBy(t[k])) IN
  {First(s, n) : s \in Sorted({k \in DOMAIN t : Where(t[k])}, Before)}
=============================================================================
