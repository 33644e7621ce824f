-------------------------- MODULE EvaluatorProofs ---------------------------
(***************************************************************************)
(* Safety of the evaluation pipeline, for any number of commitments and of *)
(* overlapping runs, any weights and thresholds, and any limits.           *)
(***************************************************************************)
EXTENDS Evaluator, FiniteSetTheorems, TLAPS

(* A clamped integer is a score.                                           *)
LEMMA ClampType == ASSUME NEW x \in Int PROVE Clamp(x) \in Scores
BY DEF Clamp, Scores, One

(* The due-time factor is an integer.                                      *)
LEMMA DueFactorType ==
  ASSUME NEW d \in Nat, NEW t \in Nat PROVE DueFactor(d, t) \in Int
BY EngineConfig DEF EngineConfig, DueFactor

(* The risk engine's score is in its range whatever the weights are.       *)
LEMMA ScoreType ==
  ASSUME NEW d \in Nat, NEW f \in 0..100, NEW b \in BOOLEAN, NEW t \in Nat
  PROVE  EvaluateCommitment(d, f, b, t) \in Scores
<1>1. f * ConfidenceWeight \in Int
  BY EngineConfig DEF EngineConfig
<1> DEFINE q == IF f > 0 THEN f * ConfidenceWeight ELSE 0
           g == IF b THEN SignalWeight ELSE 0
<1>2. q \in Int /\ g \in Int
  BY <1>1, EngineConfig DEF EngineConfig
<1> HIDE DEF q, g
<1>3. DueFactor(d, t) + q + g \in Int
  BY <1>2, DueFactorType
<1>4. QED
  BY <1>3, ClampType DEF EvaluateCommitment, q, g

(* The policy fires at or above the nudge threshold only.                  *)
LEMMA PolicyFires ==
  ASSUME NEW s \in Scores, NEW f, NEW t \in MaybeIntervene(s, f)
  PROVE  t \in DraftTypes /\ s >= NudgeThreshold
BY EngineConfig DEF EngineConfig, MaybeIntervene, DraftTypes, Scores, One

(* A sequence over a set is a sequence over every larger set.              *)
LEMMA SeqMonotone ==
  ASSUME NEW A, NEW B, A \subseteq B, NEW s \in Seq(A) PROVE s \in Seq(B)
OBVIOUS

Elems(s) == {s[i] : i \in DOMAIN s}

(* The elements of a sequence are its head and those of its tail.          *)
LEMMA HeadAndTail ==
  ASSUME NEW A, NEW s \in Seq(A), s # <<>>
  PROVE  /\ Head(s) \in A /\ Tail(s) \in Seq(A)
         /\ Elems(s) = {Head(s)} \cup Elems(Tail(s))
<1> DEFINE n == Len(s)
           t == Tail(s)
<1>1. n \in Nat /\ n >= 1 /\ DOMAIN s = 1..n
  OBVIOUS
<1>2. Head(s) \in A /\ Head(s) = s[1] /\ t \in Seq(A)
  OBVIOUS
<1>3. DOMAIN t = 1..(n - 1) /\ \A i \in 1..(n - 1) : t[i] = s[i + 1]
  OBVIOUS
<1> HIDE DEF n, t
<1>4. ASSUME NEW i \in 1..n, i # 1 PROVE \E j \in 1..(n - 1) : s[i] = t[j]
  <2>1. i - 1 \in 1..(n - 1) /\ (i - 1) + 1 = i
    BY <1>1, <1>4
  <2>2. t[i - 1] = s[i]
    BY <1>3, <2>1
  <2>3. QED
    BY <2>1, <2>2
<1>5. \A i \in 1..(n - 1) : i + 1 \in 1..n
  BY <1>1
<1>6. 1 \in 1..n
  BY <1>1
<1>7. Elems(s) \subseteq {Head(s)} \cup Elems(t)
  <2> SUFFICES ASSUME NEW i \in 1..n PROVE s[i] \in {Head(s)} \cup Elems(t)
    BY <1>1 DEF Elems
  <2>1. CASE i = 1
    BY <1>2, <2>1
  <2>2. CASE i # 1
    BY <1>3, <1>4, <2>2 DEF Elems
  <2>3. QED
    BY <2>1, <2>2
<1>8. {Head(s)} \cup Elems(t) \subseteq Elems(s)
  BY <1>1, <1>2, <1>3, <1>5, <1>6 DEF Elems
<1>9. QED
  BY <1>2, <1>7, <1>8 DEF t

(* What FindActive returns is a sequence of known commitments.             *)
LEMMA FoundType ==
  ASSUME NEW S, S \subseteq Commitments, NEW s \in Orderings(S), NEW l \in Nat
  PROVE  FirstOf(s, l) \in Seq(S)
<1>1. Cardinality(S) \in Nat
  BY FS_Subset, FS_CardinalityType, EvaluatorConfig DEF EvaluatorConfig
<1>2. s \in Seq(S)
  BY <1>1 DEF Orderings
<1>3. QED
  BY <1>2 DEF FirstOf
-----------------------------------------------------------------------------
(* The fields a score depends on.                                          *)
LEMMA RowFields ==
  ASSUME NEW q \in Row PROVE q.due \in Nat /\ q.confidence \in 0..100
<1>1. q.due \in Dues \cup {0} /\ q.confidence \in 0..100
  BY DEF Row
<1>2. Dues \cup {0} \subseteq Nat
  BY EvaluatorConfig DEF EvaluatorConfig
<1>3. QED
  BY <1>1, <1>2

(* UpdateRisk leaves a row.                                                *)
LEMMA RowUpdate ==
  ASSUME NEW q \in Row, NEW x \in Scores, NEW a \in 0..MaxTime
  PROVE  [q EXCEPT !.score = x, !.evaluatedAt = a] \in Row
BY DEF Row

(* NewCommitment makes a row that is not evaluated yet.                    *)
LEMMA RowNew ==
  ASSUME NEW d \in Dues, NEW f \in 0..100, NEW t \in 0..MaxTime
  PROVE  [due |-> d, confidence |-> f, created |-> t, score |-> 0, evaluatedAt |-> 0]
           \in Row
<1>1. 0 \in Scores /\ 0 \in 0..MaxTime
  BY EvaluatorConfig DEF EvaluatorConfig, Scores, One
<1>2. QED
  BY <1>1 DEF Row

(* Steps keep every table, and every run's place in it, of the right type. *)
LEMMA TypeStep == TypeOK /\ [Next]_vars => TypeOK'
<1> SUFFICES ASSUME TypeOK, [Next]_vars PROVE TypeOK'
  OBVIOUS
<1> USE EvaluatorConfig DEF EvaluatorConfig, TypeOK, Times, tables, Goto
<1>1. CASE Tick
  BY <1>1 DEF Tick
<1>2. ASSUME NEW c \in Commitments, SaveCommitment(c) PROVE TypeOK'
  <2>1. PICK d \in Dues, f \in Confidences, t \in 1..now :
          row' = [row EXCEPT ![c] = [due |-> d, confidence |-> f, created |-> t,
                                     score |-> 0, evaluatedAt |-> 0]]
    BY <1>2 DEF SaveCommitment
  <2>2. [due |-> d, confidence |-> f, created |-> t, score |-> 0, evaluatedAt |-> 0]
          \in Row
    <3>1. f \in 0..100 /\ t \in 0..MaxTime
      OBVIOUS
    <3>2. QED
      BY <3>1, RowNew
  <2>3. row' \in [Commitments -> Row]
    BY <2>1, <2>2
  <2>4. known \subseteq known' /\ known' \subseteq Commitments
    BY <1>2 DEF SaveCommitment
  <2>5. todo' \in [Runs -> Seq(known')] /\ todo' = todo
    BY <1>2, <2>4, SeqMonotone DEF SaveCommitment
  <2>6. QED
    BY <1>2, <2>3, <2>4, <2>5 DEF SaveCommitment
<1>3. ASSUME NEW r \in Runs, Begin(r) PROVE TypeOK'
  <2>1. PICK l \in Limits[r] : limit' = [limit EXCEPT ![r] = l]
    BY <1>3 DEF Begin
  <2>2. limit' \in [Runs -> Nat]
    BY <2>1
  <2>3. begun' \in [Runs -> Nat]
    <3>1. begun[r] + 1 \in Nat
      OBVIOUS
    <3>2. begun' = begun \/ begun' = [begun EXCEPT ![r] = begun[r] + 1]
      BY <1>3 DEF Begin
    <3>3. QED
      BY <3>1, <3>2
  <2>4. QED
    BY <1>3, <2>2, <2>3 DEF Begin
<1>4. ASSUME NEW r \in Runs, FindActive(r) PROVE TypeOK'
  <2>1. CASE pc' = [pc EXCEPT ![r] = "idle"] /\ UNCHANGED <<todo, listed>>
    BY <1>4, <2>1 DEF FindActive
  <2>2. ASSUME NEW s \in Orderings(known),
               todo' = [todo EXCEPT ![r] = FirstOf(s, limit[r])],
               listed' = [listed EXCEPT ![r] = Elems(FirstOf(s, limit[r]))],
               pc' = [pc EXCEPT ![r] = "loop"]
        PROVE  TypeOK'
    <3>1. FirstOf(s, limit[r]) \in Seq(known)
      BY FoundType
    <3>2. Elems(FirstOf(s, limit[r])) \subseteq known
      BY <3>1 DEF Elems
    <3>3. QED
      BY <1>4, <2>2, <3>1, <3>2 DEF FindActive
  <2>3. QED
    BY <1>4, <2>1, <2>2 DEF FindActive, Elems
<1>5. ASSUME NEW r \in Runs, Cancel(r) PROVE TypeOK'
  BY <1>5 DEF Cancel
<1>6. ASSUME NEW r \in Runs, UpdateRisk(r) PROVE TypeOK'
  <2> DEFINE c == Current(r)
  <2>1. c \in known /\ c \in Commitments /\ Tail(todo[r]) \in Seq(known)
    BY <1>6, HeadAndTail DEF UpdateRisk, Current
  <2>2. /\ at[r] \in Nat /\ at[r] \in Times
        /\ row[c].due \in Nat /\ row[c].confidence \in 0..100
    <3> HIDE DEF c
    <3>1. row[c] \in Row
      BY <2>1
    <3>2. row[c].due \in Nat /\ row[c].confidence \in 0..100
      BY <3>1, RowFields
    <3>3. at[r] \in Nat /\ at[r] \in Times
      OBVIOUS
    <3>4. QED
      BY <3>2, <3>3
  <2>3. ASSUME NEW b \in Signals, NEW x,
               x = EvaluateCommitment(row[c].due, row[c].confidence, b, at[r]),
               row' = [row EXCEPT ![c] = [@ EXCEPT !.score = x, !.evaluatedAt = at[r]]],
               score' = [score EXCEPT ![r] = x],
               pc' = [pc EXCEPT ![r] = "decide"],
               UNCHANGED <<todo, failed>>
        PROVE  TypeOK'
    <3> HIDE DEF c
    <3>1. x \in Scores
      BY <2>2, <2>3, ScoreType
    <3>2. row' \in [Commitments -> Row]
      <4>1. \A k \in Commitments : row[k] \in Row
        OBVIOUS
      <4>2. at[r] \in 0..MaxTime
        BY <2>2
      <4>3. [row[c] EXCEPT !.score = x, !.evaluatedAt = at[r]] \in Row
        BY <2>1, <3>1, <4>1, <4>2, RowUpdate
      <4>4. row' = [row EXCEPT ![c] = [row[c] EXCEPT !.score = x, !.evaluatedAt = at[r]]]
        BY <2>3
      <4>5. QED
        BY <2>1, <4>3, <4>4
    <3>3. QED
      BY <1>6, <2>3, <3>1, <3>2 DEF UpdateRisk
  <2>4. CASE /\ failed' = [failed EXCEPT ![r] = @ \cup {c}]
             /\ Continue(r)
             /\ UNCHANGED <<row, score>>
    BY <1>6, <2>1, <2>4 DEF UpdateRisk, Continue
  <2>5. QED
    BY <1>6, <2>3, <2>4 DEF UpdateRisk
<1>7. ASSUME NEW r \in Runs, recordDecision(r) PROVE TypeOK'
  <2>1. Current(r) \in Commitments
    BY <1>7, HeadAndTail DEF recordDecision, Current
  <2>2. Dec(r) \in Decision
    BY <2>1 DEF Dec, Decision
  <2>3. QED
    BY <1>7, <2>2 DEF recordDecision
<1>8. ASSUME NEW r \in Runs, Intervene(r) PROVE TypeOK'
  <2>1. Current(r) \in Commitments /\ Tail(todo[r]) \in Seq(known)
    BY <1>8, HeadAndTail DEF Intervene, Current
  <2>2. ASSUME NEW t \in MaybeIntervene(score[r], row[Current(r)].confidence)
        PROVE  [commitment |-> Current(r), type |-> t, at |-> at[r]] \in Intervention
    BY <2>1, PolicyFires DEF Intervention
  <2>3. interventions' \subseteq Intervention
    BY <1>8, <2>2 DEF Intervene
  <2>4. QED
    BY <1>8, <2>1, <2>3 DEF Intervene, Continue
<1>9. ASSUME NEW r \in Runs, Finish(r) PROVE TypeOK'
  BY <1>9 DEF Finish
<1>10. CASE UNCHANGED vars
  BY <1>10 DEF vars
<1>11. QED
  BY <1>1, <1>2, <1>3, <1>4, <1>5, <1>6, <1>7, <1>8, <1>9, <1>10
     DEF Next, Step, Rest

(* Every reachable state of the pipeline is of the right type; in          *)
(* particular every stored score lies between 0 and 1.                     *)
THEOREM TypeCorrect == Spec => []TypeOK
<1>1. Init => TypeOK
  BY EvaluatorConfig DEF EvaluatorConfig, Init, TypeOK, Times, Row, Absent, Scores, One
<1>2. QED
  BY <1>1, TypeStep, PTL DEF Spec
-----------------------------------------------------------------------------
Recordeds == decisions \cup lost
Deciding == {q \in Runs : pc[q] = "decide"}
RowDecision(c) ==
  [commitment |-> c, score |-> row[c].score, at |-> row[c].evaluatedAt]

(* Steps never forget a decision, and a decision about to be recorded      *)
(* stays as it is until it is.                                             *)
LEMMA DecisionsStay ==
  ASSUME TypeOK, [Next]_vars
  PROVE  /\ Recordeds \subseteq Recordeds'
         /\ \A q \in Deciding : \/ q \in Deciding' /\ Dec(q)' = Dec(q)
                                \/ Dec(q) \in Recordeds'
<1> DEFINE Stay == /\ Recordeds \subseteq Recordeds'
                   /\ \A q \in Deciding : \/ q \in Deciding' /\ Dec(q)' = Dec(q)
                                          \/ Dec(q) \in Recordeds'
<1> USE DEF Recordeds, Deciding, TypeOK, tables, Goto, Dec, Current
<1>1. CASE Tick
  BY <1>1 DEF Tick
<1>2. ASSUME NEW c \in Commitments, SaveCommitment(c) PROVE Stay
  BY <1>2 DEF SaveCommitment
<1>3. ASSUME NEW r \in Runs, Begin(r) PROVE Stay
  BY <1>3 DEF Begin
<1>4. ASSUME NEW r \in Runs, FindActive(r) PROVE Stay
  BY <1>4 DEF FindActive
<1>5. ASSUME NEW r \in Runs, Cancel(r) PROVE Stay
  BY <1>5 DEF Cancel
<1>6. ASSUME NEW r \in Runs, UpdateRisk(r) PROVE Stay
  <2>1. /\ pc[r] = "loop"
        /\ UNCHANGED <<decisions, lost, at>>
        /\ \A q \in Runs \ {r} : pc'[q] = pc[q] /\ todo'[q] = todo[q]
                                /\ score'[q] = score[q]
    BY <1>6 DEF UpdateRisk, Continue
  <2>2. QED
    BY <2>1
<1>7. ASSUME NEW r \in Runs, recordDecision(r) PROVE Stay
  <2>1. Dec(r) \in Recordeds'
    BY <1>7 DEF recordDecision
  <2>2. Recordeds \subseteq Recordeds'
    BY <1>7 DEF recordDecision
  <2>3. /\ UNCHANGED <<at, todo, score>>
        /\ \A q \in Runs \ {r} : pc'[q] = pc[q]
    BY <1>7 DEF recordDecision
  <2>4. QED
    BY <2>1, <2>2, <2>3
<1>8. ASSUME NEW r \in Runs, Intervene(r) PROVE Stay
  BY <1>8 DEF Intervene, Continue
<1>9. ASSUME NEW r \in Runs, Finish(r) PROVE Stay
  BY <1>9 DEF Finish
<1>10. CASE UNCHANGED vars
  BY <1>10 DEF vars
<1>11. QED
  BY <1>1, <1>2, <1>3, <1>4, <1>5, <1>6, <1>7, <1>8, <1>9, <1>10
     DEF Next, Step, Rest

(* What a step may do to a row: save it, not yet evaluated, or write score *)
(* and time of a run that goes on to record them, or nothing.              *)
LEMMA RowsStep ==
  ASSUME TypeOK, [Next]_vars, NEW c \in known'
  PROVE  \/ c \in known /\ row'[c] = row[c]
         \/ row'[c].evaluatedAt = 0
         \/ \E r \in Deciding' : RowDecision(c)' = Dec(r)'
<1> DEFINE Same == known' = known /\ row' = row
<1> USE DEF TypeOK, tables
<1>1. CASE Tick
  BY <1>1 DEF Tick
<1>2. ASSUME NEW k \in Commitments, SaveCommitment(k)
      PROVE  \/ c \in known /\ row'[c] = row[c]
             \/ row'[c].evaluatedAt = 0
  BY <1>2 DEF SaveCommitment
<1>3. ASSUME NEW r \in Runs, UpdateRisk(r)
      PROVE  \/ c \in known /\ row'[c] = row[c]
             \/ \E q \in Deciding' : RowDecision(c)' = Dec(q)'
  <2>1. CASE UNCHANGED row
    BY <1>3, <2>1 DEF UpdateRisk
  <2>2. ASSUME NEW x,
               row' = [row EXCEPT ![Current(r)] =
                        [@ EXCEPT !.score = x, !.evaluatedAt = at[r]]],
               score' = [score EXCEPT ![r] = x],
               pc' = [pc EXCEPT ![r] = "decide"],
               todo' = todo, at' = at, known' = known
        PROVE  \/ c \in known /\ row'[c] = row[c]
               \/ \E q \in Deciding' : RowDecision(c)' = Dec(q)'
    <3>1. CASE c # Current(r)
      BY <2>2, <3>1
    <3>2. CASE c = Current(r)
      <4>1. r \in Deciding'
        BY <2>2 DEF Deciding
      <4>2. row[c] \in Row
        BY <2>2
      <4>3. row'[c] = [row[c] EXCEPT !.score = x, !.evaluatedAt = at[r]]
        BY <2>2, <3>2
      <4>4. row'[c].score = x /\ row'[c].evaluatedAt = at[r]
        BY <4>2, <4>3 DEF Row
      <4>5. Dec(r)' = [commitment |-> c, score |-> x, at |-> at[r]]
        BY <2>2, <3>2 DEF Dec, Current
      <4>6. QED
        BY <4>1, <4>4, <4>5 DEF RowDecision
    <3>3. QED
      BY <3>1, <3>2
  <2>3. QED
    BY <1>3, <2>1, <2>2 DEF UpdateRisk, Goto
<1>4. ASSUME NEW r \in Runs,
             Begin(r) \/ FindActive(r) \/ Cancel(r) \/ recordDecision(r)
               \/ Intervene(r) \/ Finish(r)
      PROVE  Same
  BY <1>4 DEF Begin, FindActive, Cancel, recordDecision, Intervene, Finish
<1>5. CASE UNCHANGED vars
  BY <1>5 DEF vars
<1>6. QED
  BY <1>1, <1>2, <1>3, <1>4, <1>5 DEF Next, Step, Rest

(* The score in a row can be looked up, whatever runs overlap.             *)
THEOREM ScoresAreExplained == Spec => []ScoreExplained
<1> DEFINE Explained == \A c \in known : row[c].evaluatedAt # 0 =>
             RowDecision(c) \in Recordeds \/ \E r \in Deciding : RowDecision(c) = Dec(r)
<1>1. ScoreExplained <=> Explained
  BY DEF ScoreExplained, RowDecision, Recordeds, Deciding
<1>2. Init => Explained
  BY DEF Init
<1>3. TypeOK /\ Explained /\ [Next]_vars => Explained'
  <2> SUFFICES ASSUME TypeOK, Explained, [Next]_vars, NEW c \in known',
                      row'[c].evaluatedAt # 0
               PROVE  \/ RowDecision(c)' \in Recordeds'
                      \/ \E r \in Deciding' : RowDecision(c)' = Dec(r)'
    OBVIOUS
  <2>1. CASE c \in known /\ row'[c] = row[c]
    <3>1. RowDecision(c)' = RowDecision(c)
      BY <2>1 DEF RowDecision
    <3>2. RowDecision(c) \in Recordeds \/ \E r \in Deciding : RowDecision(c) = Dec(r)
      BY <2>1
    <3>3. QED
      BY <3>1, <3>2, DecisionsStay
  <2>2. QED
    BY <2>1, RowsStep
<1> HIDE DEF Explained
<1>4. QED
  BY <1>1, <1>2, <1>3, TypeCorrect, PTL DEF Spec
-----------------------------------------------------------------------------
(* A run asks the policy only after its decision was recorded or lost.     *)
Recorded == \A r \in Runs : pc[r] = "intervene" => Dec(r) \in Recordeds

(* A run comes to the policy only through recordDecision.                  *)
LEMMA RecordedInvariant == Spec => []Recorded
<1>1. Init => Recorded
  BY DEF Init, Recorded
<1>2. TypeOK /\ Recorded /\ [Next]_vars => Recorded'
  <2> SUFFICES ASSUME TypeOK, Recorded, [Next]_vars,
                      NEW q \in Runs, pc'[q] = "intervene"
               PROVE  Dec(q)' \in Recordeds'
    BY DEF Recorded
  <2> USE DEF TypeOK, tables, Goto, Dec, Current, Recorded
  <2>1. Recordeds \subseteq Recordeds'
    BY DecisionsStay
  <2>2. ASSUME pc'[q] = pc[q], todo'[q] = todo[q], score'[q] = score[q], at'[q] = at[q]
        PROVE  Dec(q)' \in Recordeds'
    BY <2>1, <2>2
  <2>3. CASE Tick \/ \E c \in Commitments : SaveCommitment(c)
    BY <2>2, <2>3 DEF Tick, SaveCommitment
  <2>4. ASSUME NEW r \in Runs, recordDecision(r) PROVE Dec(q)' \in Recordeds'
    <3>1. CASE q = r
      BY <2>4, <3>1 DEF recordDecision, Recordeds
    <3>2. CASE q # r
      BY <2>2, <2>4, <3>2 DEF recordDecision
    <3>3. QED
      BY <3>1, <3>2
  <2>5. ASSUME NEW r \in Runs,
               Begin(r) \/ FindActive(r) \/ Cancel(r) \/ UpdateRisk(r)
                 \/ Intervene(r) \/ Finish(r)
        PROVE  Dec(q)' \in Recordeds'
    <3>1. pc'[r] # "intervene"
      BY <2>5 DEF Begin, FindActive, Cancel, UpdateRisk, Intervene, Finish, Continue
    <3>2. \A k \in Runs \ {r} : /\ pc'[k] = pc[k] /\ todo'[k] = todo[k]
                               /\ score'[k] = score[k] /\ at'[k] = at[k]
      BY <2>5 DEF Begin, FindActive, Cancel, UpdateRisk, Intervene, Finish, Continue
    <3>3. QED
      BY <2>2, <3>1, <3>2
  <2>6. CASE UNCHANGED vars
    BY <2>2, <2>6 DEF vars
  <2>7. QED
    BY <2>3, <2>4, <2>5, <2>6 DEF Next, Step, Rest
<1>3. QED
  BY <1>1, <1>2, TypeCorrect, PTL DEF Spec

(* Every intervention rests on an assessment of its own run at or above    *)
(* the nudge threshold.                                                    *)
THEOREM InterventionsAreExplained == Spec => []InterventionExplained
<1>1. Init => InterventionExplained
  BY DEF Init, InterventionExplained
<1>2. TypeOK /\ Recorded /\ InterventionExplained /\ [Next]_vars
        => InterventionExplained'
  <2> SUFFICES ASSUME TypeOK, Recorded, InterventionExplained, [Next]_vars,
                      NEW i \in interventions'
               PROVE  \E d \in Recordeds' : /\ d.commitment = i.commitment
                                           /\ d.at = i.at
                                           /\ d.score >= NudgeThreshold
    BY DEF InterventionExplained, Recordeds
  <2>1. Recordeds \subseteq Recordeds'
    BY DecisionsStay
  <2>2. CASE i \in interventions
    BY <2>1, <2>2 DEF InterventionExplained, Recordeds
  <2>3. ASSUME NEW r \in Runs, Intervene(r), i \notin interventions
        PROVE  \E d \in Recordeds' : /\ d.commitment = i.commitment
                                    /\ d.at = i.at
                                    /\ d.score >= NudgeThreshold
    <3>1. PICK t \in MaybeIntervene(score[r], row[Current(r)].confidence) :
            i = [commitment |-> Current(r), type |-> t, at |-> at[r]]
      BY <2>3 DEF Intervene
    <3>2. score[r] >= NudgeThreshold
      BY PolicyFires DEF TypeOK
    <3>3. Dec(r) \in Recordeds'
      BY <2>1, <2>3 DEF Recorded, Intervene
    <3>4. /\ Dec(r).commitment = i.commitment /\ Dec(r).at = i.at
          /\ Dec(r).score = score[r]
      BY <3>1 DEF Dec
    <3>5. QED
      BY <3>2, <3>3, <3>4
  <2>4. CASE \A r \in Runs : ~Intervene(r)
    <3>1. interventions' = interventions
      BY <2>4 DEF Next, Step, Rest, Tick, SaveCommitment, Begin, FindActive, Cancel,
                  UpdateRisk, recordDecision, Finish, vars, tables
    <3>2. QED
      BY <2>2, <3>1
  <2>5. QED
    BY <2>2, <2>3, <2>4
<1>3. QED
  BY <1>1, <1>2, TypeCorrect, RecordedInvariant, PTL DEF Spec
-----------------------------------------------------------------------------
Traced(r, c) ==
  \/ c \in failed[r]
  \/ \E d \in Recordeds : d.commitment = c /\ d.at = at[r]

(* Of the commitments FindActive gave a run, each is still to be visited   *)
(* or has left a trace.                                                    *)
Covered ==
  \A r \in Runs : pc[r] \in {"loop", "decide", "intervene"} =>
    \A c \in listed[r] : c \in Elems(todo[r]) \/ Traced(r, c)

(* A visit takes a commitment off the list only once it left a trace.      *)
LEMMA CoveredInvariant == Spec => []Covered
<1>1. Init => Covered
  BY DEF Init, Covered
<1>2. TypeOK /\ Recorded /\ Covered /\ [Next]_vars => Covered'
  <2> SUFFICES ASSUME TypeOK, Recorded, Covered, [Next]_vars,
                      NEW q \in Runs, pc'[q] \in {"loop", "decide", "intervene"},
                      NEW c \in listed'[q]
               PROVE  c \in Elems(todo'[q]) \/ Traced(q, c)'
    BY DEF Covered, Elems
  <2> USE DEF TypeOK, tables, Goto
  <2>1. Recordeds \subseteq Recordeds'
    BY DecisionsStay
  <2>2. ASSUME pc[q] \in {"loop", "decide", "intervene"}, listed'[q] = listed[q],
               failed[q] \subseteq failed'[q], at'[q] = at[q],
               \/ todo'[q] = todo[q]
               \/ \E h \in known : /\ todo[q] # <<>> /\ h = Head(todo[q])
                                   /\ todo'[q] = Tail(todo[q])
                                   /\ Traced(q, h)'
        PROVE  c \in Elems(todo'[q]) \/ Traced(q, c)'
    <3>1. c \in Elems(todo[q]) \/ Traced(q, c)
      BY <2>2 DEF Covered
    <3>2. Traced(q, c) => Traced(q, c)'
      BY <2>1, <2>2 DEF Traced
    <3>3. CASE c \in Elems(todo[q]) /\ todo'[q] # todo[q]
      <4>1. PICK h \in known : /\ todo[q] # <<>> /\ h = Head(todo[q])
                                /\ todo'[q] = Tail(todo[q])
                                /\ Traced(q, h)'
        BY <2>2, <3>3
      <4>2. Elems(todo[q]) = {h} \cup Elems(todo'[q])
        BY <4>1, HeadAndTail
      <4>3. CASE c = h
        BY <4>1, <4>3
      <4>4. QED
        BY <3>3, <4>2, <4>3
    <3>4. QED
      BY <3>1, <3>2, <3>3
  <2>3. ASSUME pc'[q] = pc[q], listed'[q] = listed[q], failed'[q] = failed[q],
               at'[q] = at[q], todo'[q] = todo[q]
        PROVE  c \in Elems(todo'[q]) \/ Traced(q, c)'
    BY <2>2, <2>3
  <2>4. CASE Tick \/ \E k \in Commitments : SaveCommitment(k)
    BY <2>3, <2>4 DEF Tick, SaveCommitment
  <2>5. ASSUME NEW r \in Runs, r # q, Begin(r) \/ Step(r)
        PROVE  c \in Elems(todo'[q]) \/ Traced(q, c)'
    BY <2>3, <2>5 DEF Step, Begin, FindActive, Cancel, UpdateRisk, recordDecision,
                      Intervene, Finish, Continue
  <2>6. CASE FindActive(q)
    <3>1. PICK s \in Orderings(known) :
            /\ todo' = [todo EXCEPT ![q] = FirstOf(s, limit[q])]
            /\ listed' = [listed EXCEPT ![q] = Elems(FirstOf(s, limit[q]))]
      BY <2>6 DEF FindActive, Elems
    <3>2. QED
      BY <3>1
  <2>7. CASE UpdateRisk(q) \/ recordDecision(q)
    <3>1. CASE todo' = todo
      <4>1. UNCHANGED <<at, listed>> /\ pc[q] \in {"loop", "decide"}
        BY <2>7 DEF UpdateRisk, recordDecision
      <4>2. failed[q] \subseteq failed'[q]
        BY <2>7 DEF UpdateRisk, recordDecision
      <4>3. QED
        BY <2>2, <3>1, <4>1, <4>2
    <3>2. CASE todo' # todo
      <4>1. /\ pc[q] = "loop" /\ todo[q] # <<>>
            /\ failed' = [failed EXCEPT ![q] = @ \cup {Head(todo[q])}]
            /\ todo' = [todo EXCEPT ![q] = Tail(@)]
            /\ UNCHANGED <<at, listed>>
        BY <2>7, <3>2 DEF UpdateRisk, recordDecision, Continue, Current
      <4>2. PICK h \in known : h = Head(todo[q])
        BY <4>1, HeadAndTail
      <4>3. Traced(q, h)'
        BY <4>1, <4>2 DEF Traced
      <4>4. QED
        BY <2>2, <4>1, <4>2, <4>3
    <3>3. QED
      BY <3>1, <3>2
  <2>8. CASE Intervene(q)
    <3>1. todo[q] # <<>>
      BY <2>8 DEF Intervene
    <3>2. PICK h \in known : h = Head(todo[q])
      BY <3>1, HeadAndTail
    <3>3. Dec(q) \in Recordeds'
      BY <2>1, <2>8 DEF Intervene, Recorded
    <3>4. Dec(q).commitment = h /\ Dec(q).at = at'[q]
      BY <2>8, <3>2 DEF Dec, Current, Intervene
    <3>5. Traced(q, h)'
      BY <3>3, <3>4 DEF Traced
    <3>6. QED
      BY <2>2, <2>8, <3>1, <3>2, <3>5 DEF Intervene, Continue
  <2>9. CASE Begin(q) \/ Cancel(q) \/ Finish(q)
    BY <2>9 DEF Begin, Cancel, Finish
  <2>10. CASE UNCHANGED vars
    BY <2>3, <2>10 DEF vars
  <2>11. QED
    BY <2>4, <2>5, <2>6, <2>7, <2>8, <2>9, <2>10 DEF Next, Step, Rest
<1>3. QED
  BY <1>1, <1>2, TypeCorrect, RecordedInvariant, PTL DEF Spec

(* A run that comes to its end has visited every commitment it was given,  *)
(* whichever of its store calls failed.                                    *)
THEOREM NoRowIsSkipped == Spec => NoRowSkipped
<1> DEFINE Visited ==
      \A r \in Runs : Finish(r) => \A c \in listed[r] :
        \/ c \in failed[r]
        \/ \E d \in decisions \cup lost : d.commitment = c /\ d.at = at[r]
<1>1. Covered => Visited
  <2> SUFFICES ASSUME Covered, NEW r \in Runs, Finish(r), NEW c \in listed[r]
               PROVE  Traced(r, c)
    BY DEF Traced, Recordeds
  <2>1. Elems(todo[r]) = {}
    BY DEF Finish, Elems
  <2>2. QED
    BY <2>1 DEF Covered, Finish
<1>2. Covered /\ [Next]_vars => [Visited]_vars
  BY <1>1
<1> HIDE DEF Visited
<1>3. Spec => [][Visited]_vars
  BY <1>2, CoveredInvariant, PTL DEF Spec
<1>4. QED
  BY <1>3 DEF NoRowSkipped, Visited
=============================================================================
