------------------------- MODULE RateLimiterProofs --------------------------
(***************************************************************************)
(* Proofs about the token bucket for any keys, capacity, rate and clock.   *)
(***************************************************************************)
EXTENDS RateLimiter, TLAPS

(* What flows in during d ticks is a natural number and grows by Rate per  *)
(* tick.                                                                   *)
LEMMA Inflow ==
  /\ \A d \in Nat : Rate * d \in Nat
  /\ \A d, e \in Nat : Rate * (d + e) = Rate * d + Rate * e
BY LimiterConfig

(* What n grants cost grows by Cost per grant.                             *)
LEMMA Price ==
  /\ Full \in Nat /\ Cost <= Full
  /\ \A n \in Nat : n * Cost \in Nat /\ (n + 1) * Cost = n * Cost + Cost
BY LimiterConfig DEF Full

(* What Allow finds in a bucket is between nothing and a full bucket.      *)
LEMMA LevelType ==
  ASSUME TypeOK, NEW k \in Keys
  PROVE  Level(k) \in 0..Full
<1>1. Full \in Nat
  BY Price
<1>2. tokens[k] \in Nat /\ now \in Nat /\ lastCheck[k] \in 0..now
  BY LimiterConfig, <1>1 DEF TypeOK
<1>3. Rate * (now - lastCheck[k]) \in Nat
  <2>1. now - lastCheck[k] \in Nat
    BY <1>2
  <2>2. QED BY <2>1, Inflow
<1>4. QED BY <1>1, <1>2, <1>3 DEF Level, Least

(* Allow and Cleanup keep every bucket between empty and full and its      *)
(* lastCheck in the past.                                                  *)
THEOREM TypeCorrect == Spec => []TypeOK
<1> USE LimiterConfig, Price
<1>1. Init => TypeOK
  BY DEF Init, TypeOK
<1>2. ASSUME TypeOK, [Next]_vars
      PROVE  TypeOK'
  <2> USE <1>2
  <2>1. CASE UNCHANGED vars
    BY <2>1 DEF vars, TypeOK
  <2>2. CASE Tick
    BY <2>2 DEF Tick, TypeOK
  <2>3. CASE Watch
    BY <2>3 DEF Watch, TypeOK
  <2>4. CASE Cleanup
    BY <2>4 DEF Cleanup, TypeOK
  <2>5. ASSUME NEW k \in Keys, Allow(k)
        PROVE  TypeOK'
    <3>1. Level(k) \in 0..Full
      BY LevelType
    <3>2. Level(k) - (IF Level(k) >= Cost THEN Cost ELSE 0) \in 0..Full
      BY <3>1
    <3>3. tokens' \in [Keys -> 0..Full] /\ lastCheck' \in [Keys -> 0..now]
      BY <2>5, <3>2 DEF Allow, TypeOK
    <3>4. winGrants' \in [Keys -> Nat]
      BY <2>5 DEF Allow, Account, TypeOK
    <3>5. fullAt' \in [Keys -> 0..now] /\ spent' \in [Keys -> Nat]
      BY <2>5 DEF Allow, Account, TypeOK
    <3>6. QED BY <2>5, <3>3, <3>4, <3>5 DEF Allow, TypeOK
  <2>6. QED BY <2>1, <2>2, <2>3, <2>4, <2>5 DEF Next
<1>3. QED BY <1>1, <1>2, PTL DEF Spec
-----------------------------------------------------------------------------
(* The inductive form of WindowBound: what the key was granted in the      *)
(* window plus what its bucket still holds stays within the promise.       *)
LevelBound ==
  \A k \in Keys :
    winGrants[k] * Cost + Level(k) <= Full + Rate * (now - winStart)

(* Deleting a bucket gives its key a full one.  That is no gift when the   *)
(* bucket was idle long enough to be full anyway.                          *)
SafeMaxAge == Rate * MaxAge >= Full

(* The refill of one more tick is at most Rate.                            *)
LEMMA LevelTick ==
  ASSUME TypeOK, Tick, NEW k \in Keys
  PROVE  Level(k)' \in Nat /\ Level(k)' <= Level(k) + Rate
<1> USE LimiterConfig, Price
<1>1. now \in Nat /\ lastCheck[k] \in 0..now /\ tokens[k] \in Nat
  BY DEF TypeOK
<1>2. Rate * (now + 1 - lastCheck[k]) = Rate * (now - lastCheck[k]) + Rate * 1
  <2>1. now - lastCheck[k] \in Nat /\ now + 1 - lastCheck[k] = (now - lastCheck[k]) + 1
    BY <1>1
  <2>2. QED BY <2>1, Inflow
<1>3. Rate * (now - lastCheck[k]) \in Nat /\ Rate * 1 = Rate
  BY <1>1, Inflow
<1>4. QED BY <1>1, <1>2, <1>3 DEF Tick, Level, Least

(* A bucket that Cleanup deletes would have refilled to capacity.          *)
LEMMA StaleIsFull ==
  ASSUME SafeMaxAge, TypeOK, NEW k \in buckets, now - lastCheck[k] > MaxAge
  PROVE  Level(k) = Full
<1> USE LimiterConfig, Price
<1>1. /\ now \in Nat /\ lastCheck[k] \in 0..now /\ tokens[k] \in Nat
      /\ k \in Keys
  BY DEF TypeOK
<1>2. PICK e \in Nat : now - lastCheck[k] = MaxAge + e
  <2>1. (now - lastCheck[k]) - MaxAge \in Nat
    BY <1>1
  <2>2. QED BY <1>1, <2>1
<1>3. Rate * (now - lastCheck[k]) = Rate * MaxAge + Rate * e
  BY <1>2, Inflow
<1>4. Rate * (now - lastCheck[k]) >= Full
  BY <1>3, Inflow DEF SafeMaxAge
<1>5. tokens[k] + Rate * (now - lastCheck[k]) >= Full
  BY <1>1, <1>4, <1>3, Inflow
<1>6. tokens[k] + Rate * (now - lastCheck[k]) \in Nat
  <2>1. now - lastCheck[k] \in Nat
    BY <1>2
  <2>2. QED BY <1>1, <2>1, Inflow
<1>7. QED BY <1>5, <1>6 DEF Level, Least

(* Each step of the limiter keeps grants plus level within the promise.    *)
LEMMA LevelBoundStep ==
  ASSUME SafeMaxAge, TypeOK, TypeOK', LevelBound, [Next]_vars
  PROVE  LevelBound'
<1> USE LimiterConfig, Price
<1> SUFFICES ASSUME NEW k \in Keys
             PROVE  (winGrants[k] * Cost + Level(k)
                       <= Full + Rate * (now - winStart))'
  BY DEF LevelBound
<1> DEFINE promise == Full + Rate * (now - winStart)
<1>1. /\ winGrants[k] * Cost + Level(k) <= promise
      /\ winGrants[k] \in Nat /\ winGrants[k] * Cost \in Nat
      /\ Level(k) \in 0..Full
      /\ promise \in Nat
      /\ now - winStart \in Nat /\ now \in Nat
  <2>1. now \in Nat /\ winStart \in 0..now
    BY DEF TypeOK
  <2>2. now - winStart \in Nat
    BY <2>1
  <2>3. QED BY <2>1, <2>2, Inflow, LevelType DEF LevelBound, TypeOK
<1>2. CASE UNCHANGED vars
  BY <1>1, <1>2 DEF vars, Level, Least
<1>3. CASE Tick
  <2>1. now' - winStart = (now - winStart) + 1
    BY <1>1, <1>3 DEF Tick, TypeOK
  <2>2. Rate * (now' - winStart) = Rate * (now - winStart) + Rate * 1
    BY <1>1, <2>1, Inflow
  <2>3. Level(k)' <= Level(k) + Rate /\ Level(k)' \in Nat
    BY <1>3, LevelTick
  <2>4. winGrants' = winGrants /\ winStart' = winStart /\ Full' = Full
    BY <1>3 DEF Tick, Full
  <2>5. QED BY <1>1, <2>2, <2>3, <2>4, Inflow
<1>4. CASE Watch
  <2>1. Level(k)' = Level(k)
    BY <1>4 DEF Watch, Level, Least
  <2>2. winGrants'[k] = 0 /\ now' - winStart' = 0
    BY <1>1, <1>4 DEF Watch
  <2>3. Rate * 0 = 0 /\ 0 * Cost = 0
    OBVIOUS
  <2>4. QED BY <1>1, <2>1, <2>2, <2>3
<1>5. CASE Cleanup
  <2>1. Level(k)' = Level(k)
    <3>1. CASE k \in buckets /\ now - lastCheck[k] > MaxAge
      BY <1>5, <3>1, StaleIsFull DEF Cleanup, Level
    <3>2. CASE ~(k \in buckets /\ now - lastCheck[k] > MaxAge)
      BY <1>5, <3>2 DEF Cleanup, Level, Least
    <3>3. QED BY <3>1, <3>2
  <2>2. QED BY <1>1, <1>5, <2>1 DEF Cleanup
<1>6. ASSUME NEW j \in Keys, Allow(j)
      PROVE  (winGrants[k] * Cost + Level(k)
                <= Full + Rate * (now - winStart))'
  <2>1. CASE j # k
    <3>1. Level(k)' = Level(k) /\ winGrants'[k] = winGrants[k]
      BY <1>6, <2>1 DEF Allow, Account, Level, Least, TypeOK
    <3>2. QED BY <1>1, <1>6, <3>1 DEF Allow
  <2>2. CASE j = k
    <3> DEFINE granted == Level(k) >= Cost
    <3>1. /\ tokens'[k] = Level(k) - (IF granted THEN Cost ELSE 0)
          /\ lastCheck'[k] = now' /\ k \in buckets'
          /\ winGrants'[k] = winGrants[k] + (IF granted THEN 1 ELSE 0)
          /\ now' = now /\ winStart' = winStart
      BY <1>6, <2>2 DEF Allow, Account, TypeOK
    <3>2. Level(k)' = tokens'[k]
      <4>1. now' - lastCheck'[k] = 0 /\ Rate * 0 = 0
        BY <1>1, <3>1
      <4>2. Level(k)' = Least(Full, tokens'[k] + 0)
        BY <3>1, <4>1 DEF Level
      <4>3. tokens'[k] \in 0..Full
        BY <1>1, <3>1
      <4>4. QED BY <4>2, <4>3 DEF Least
    <3>3. CASE granted
      BY <1>1, <3>1, <3>2, <3>3
    <3>4. CASE ~granted
      BY <1>1, <3>1, <3>2, <3>4
    <3>5. QED BY <3>3, <3>4
  <2>3. QED BY <2>1, <2>2
<1>7. QED BY <1>2, <1>3, <1>4, <1>5, <1>6 DEF Next

(* In every window a key is let through at most capacity + rate * length   *)
(* times, for any rate and capacity, as long as Cleanup waits until an     *)
(* idle bucket is full again.                                              *)
THEOREM RateIsBounded ==
  ASSUME SafeMaxAge
  PROVE  Spec => []WindowBound
<1> USE LimiterConfig, Price
<1>1. Init => LevelBound
  <2> SUFFICES ASSUME Init, NEW k \in Keys
               PROVE  winGrants[k] * Cost + Level(k) <= Full + Rate * (now - winStart)
    BY DEF LevelBound
  <2>1. winGrants[k] = 0 /\ Level(k) = Full /\ now = 0 /\ winStart = 0
    BY DEF Init, Level
  <2>2. Rate * 0 = 0 /\ 0 * Cost = 0 /\ now - winStart = 0
    BY <2>1
  <2>3. QED BY <2>1, <2>2
<1>2. TypeOK /\ LevelBound => WindowBound
  <2> SUFFICES ASSUME TypeOK, LevelBound, NEW k \in Keys
               PROVE  winGrants[k] * Cost <= Full + Rate * (now - winStart)
    BY DEF WindowBound
  <2>1. now - winStart \in Nat
    BY DEF TypeOK
  <2>2. winGrants[k] * Cost \in Nat /\ Rate * (now - winStart) \in Nat
    BY <2>1, Inflow DEF TypeOK
  <2>3. QED BY <2>2, LevelType DEF LevelBound
<1>3. QED BY <1>1, <1>2, LevelBoundStep, TypeCorrect, PTL DEF Spec
-----------------------------------------------------------------------------
(* The books of a bucket balance: what it holds and what was taken since   *)
(* it was last full is a full bucket plus the inflow since.                *)
Balance ==
  \A k \in buckets :
    /\ fullAt[k] <= lastCheck[k]
    /\ tokens[k] + spent[k] = Full + Rate * (lastCheck[k] - fullAt[k])

(* Time spent up to lastCheck and from there to now adds up.               *)
LEMMA InflowSplit ==
  ASSUME TypeOK, Balance, NEW k \in buckets
  PROVE  /\ Rate * (now - fullAt[k]) =
              Rate * (lastCheck[k] - fullAt[k]) + Rate * (now - lastCheck[k])
         /\ Rate * (now - lastCheck[k]) \in Nat
<1>1. /\ now \in Nat /\ lastCheck[k] \in Nat /\ fullAt[k] \in Nat
      /\ lastCheck[k] <= now /\ fullAt[k] <= lastCheck[k]
  BY LimiterConfig DEF TypeOK, Balance
<1>2. /\ lastCheck[k] - fullAt[k] \in Nat /\ now - lastCheck[k] \in Nat
      /\ now - fullAt[k] = (lastCheck[k] - fullAt[k]) + (now - lastCheck[k])
  BY <1>1
<1>3. QED BY <1>2, Inflow

(* Allow keeps the books: a refill below capacity adds exactly the inflow, *)
(* and the remembered time moves with it.                                  *)
LEMMA BalanceStep ==
  ASSUME TypeOK, Balance, [Next]_vars
  PROVE  Balance'
<1> USE LimiterConfig, Price
<1> SUFFICES ASSUME NEW k \in buckets'
             PROVE  (/\ fullAt[k] <= lastCheck[k]
                     /\ tokens[k] + spent[k] =
                          Full + Rate * (lastCheck[k] - fullAt[k]))'
  BY DEF Balance
<1>1. CASE UNCHANGED vars
  BY <1>1 DEF vars, Balance
<1>2. CASE Tick \/ Watch \/ Cleanup
  BY <1>2 DEF Tick, Watch, Cleanup, Balance
<1>3. ASSUME NEW j \in Keys, Allow(j)
      PROVE  (/\ fullAt[k] <= lastCheck[k]
              /\ tokens[k] + spent[k] =
                   Full + Rate * (lastCheck[k] - fullAt[k]))'
  <2>1. CASE j # k
    BY <1>3, <2>1 DEF Allow, Account, TypeOK, Balance
  <2>2. CASE j = k
    <3> DEFINE paid == IF Level(k) >= Cost THEN Cost ELSE 0
    <3>1. /\ tokens'[k] = Level(k) - paid /\ lastCheck'[k] = now
          /\ Level(k) \in 0..Full /\ paid \in Nat /\ now \in Nat
          /\ spent[k] \in Nat
      BY <1>3, <2>2, LevelType DEF Allow, TypeOK
    <3> HIDE DEF paid
    <3>2. CASE Level(k) = Full
      <4>1. fullAt'[k] = now /\ spent'[k] = paid
        BY <1>3, <2>2, <3>2 DEF Allow, Account, TypeOK, paid
      <4>2. lastCheck'[k] - fullAt'[k] = 0 /\ Rate * 0 = 0
        BY <3>1, <4>1
      <4>3. Rate * (lastCheck'[k] - fullAt'[k]) = 0
        BY <4>2
      <4>4. tokens'[k] + spent'[k] = Full
        BY <3>1, <3>2, <4>1
      <4>5. Full' = Full /\ fullAt'[k] <= lastCheck'[k]
        BY <3>1, <4>1 DEF Full
      <4>6. QED BY <4>3, <4>4, <4>5
    <3>3. CASE Level(k) # Full
      <4>1. k \in buckets /\ fullAt'[k] = fullAt[k] /\ spent'[k] = spent[k] + paid
        BY <1>3, <2>2, <3>3 DEF Allow, Account, TypeOK, Level, paid
      <4>2. Level(k) = tokens[k] + Rate * (now - lastCheck[k])
        BY <3>3, <4>1 DEF Level, Least
      <4>3. /\ tokens[k] + spent[k] = Full + Rate * (lastCheck[k] - fullAt[k])
            /\ fullAt[k] <= now /\ tokens[k] \in Nat
        BY <4>1 DEF Balance, TypeOK
      <4>4. tokens'[k] + spent'[k] = Level(k) + spent[k]
        BY <3>1, <4>1
      <4>5. Level(k) + spent[k] = (tokens[k] + spent[k]) + Rate * (now - lastCheck[k])
        BY <3>1, <4>1, <4>2, <4>3, InflowSplit
      <4>6. lastCheck[k] - fullAt[k] \in Nat
        BY <4>1 DEF Balance, TypeOK
      <4>7. Rate * (lastCheck[k] - fullAt[k]) \in Nat
        BY <4>6, Inflow
      <4>8. tokens'[k] + spent'[k] = Full + Rate * (now - fullAt[k])
        BY <4>1, <4>3, <4>4, <4>5, <4>7, InflowSplit
      <4>9. QED BY <3>1, <4>1, <4>3, <4>8
    <3>4. QED BY <3>2, <3>3
  <2>3. QED BY <2>1, <2>2
<1>4. QED BY <1>1, <1>2, <1>3 DEF Next

(* Allow refuses only a request whose grant would break the promise over   *)
(* the window since the key's bucket was last full, for any polling        *)
(* pattern of the client.                                                  *)
THEOREM RefusalsAreJustified == Spec => RefusalsJustified
<1> USE LimiterConfig, Price
<1>1. Init => Balance
  BY DEF Init, Balance
<1>2. ASSUME TypeOK, Balance, [Next]_vars
      PROVE  [\A k \in Keys :
                Refused(k) => spent[k] + Cost > Full + Rate * (now - fullAt[k])]_vars
  <2> SUFFICES ASSUME NEW k \in Keys, Refused(k)
               PROVE  spent[k] + Cost > Full + Rate * (now - fullAt[k])
    OBVIOUS
  <2> USE <1>2
  <2>1. Level(k) \in 0..Full /\ spent[k] \in Nat
    BY LevelType DEF TypeOK
  <2>2. Level(k) < Cost
    BY <2>1 DEF Refused, Allow, Account, TypeOK
  <2>3. k \in buckets /\ Level(k) = tokens[k] + Rate * (now - lastCheck[k])
    BY <2>1, <2>2 DEF Level, Least
  <2>4. /\ tokens[k] + spent[k] = Full + Rate * (lastCheck[k] - fullAt[k])
        /\ tokens[k] \in Nat /\ lastCheck[k] - fullAt[k] \in Nat
    BY <2>3 DEF Balance, TypeOK
  <2>5. Rate * (lastCheck[k] - fullAt[k]) \in Nat
    BY <2>4, Inflow
  <2>6. Level(k) + spent[k] = Full + Rate * (now - fullAt[k])
    <3> DEFINE before == Rate * (lastCheck[k] - fullAt[k])
               since == Rate * (now - lastCheck[k])
               all == Rate * (now - fullAt[k])
    <3>1. all = before + since /\ before \in Nat /\ since \in Nat
      BY <2>3, <2>5, InflowSplit
    <3>2. Level(k) = tokens[k] + since /\ tokens[k] + spent[k] = Full + before
      BY <2>3, <2>4
    <3>3. tokens[k] \in Nat /\ spent[k] \in Nat /\ Full \in Nat
      BY <2>1, <2>4
    <3> HIDE DEF before, since, all
    <3>4. Level(k) + spent[k] = Full + all
      BY <3>1, <3>2, <3>3
    <3>5. QED BY <3>4 DEF all
  <2>7. QED BY <2>1, <2>2, <2>6
<1>3. QED BY <1>1, <1>2, BalanceStep, TypeCorrect, PTL DEF Spec, RefusalsJustified
-----------------------------------------------------------------------------
(* The rate is a token or more per second, as the header takes it to be.   *)
TokenASecond == Rate * Second >= Cost

(* Whoever comes back after the second of the Retry-After header is        *)
(* served, polling, Cleanup and other clients notwithstanding, as long as  *)
(* the rate is at least a token per second.                                *)
THEOREM RetryAfterIsHonest ==
  ASSUME TokenASecond
  PROVE  Spec => RetryAfterHonest
<1> USE LimiterConfig, Price
<1>1. ASSUME TypeOK, [Next]_vars
      PROVE  [\A k \in Keys : now - lastCheck[k] >= Second => ~Refused(k)]_vars
  <2> SUFFICES ASSUME NEW k \in Keys, now - lastCheck[k] >= Second, Refused(k)
               PROVE  FALSE
    OBVIOUS
  <2> USE <1>1
  <2>1. Level(k) \in 0..Full
    BY LevelType
  <2>2. Level(k) < Cost
    BY <2>1 DEF Refused, Allow, Account, TypeOK
  <2>3. k \in buckets /\ Level(k) = tokens[k] + Rate * (now - lastCheck[k])
    BY <2>1, <2>2 DEF Level, Least
  <2>4. tokens[k] \in Nat /\ now \in Nat /\ lastCheck[k] \in Nat
    BY DEF TypeOK
  <2>5. PICK e \in Nat : now - lastCheck[k] = Second + e
    <3>1. (now - lastCheck[k]) - Second \in Nat
      BY <2>4
    <3>2. now - lastCheck[k] = Second + ((now - lastCheck[k]) - Second)
      BY <2>4
    <3>3. QED
      BY <3>1, <3>2
  <2>6. Rate * (now - lastCheck[k]) = Rate * Second + Rate * e
    BY <2>5, Inflow
  <2>7. Rate * Second \in Nat /\ Rate * e \in Nat
    BY Inflow
  <2>8. Rate * (now - lastCheck[k]) >= Cost
    BY <2>6, <2>7 DEF TokenASecond
  <2>9. Rate * (now - lastCheck[k]) \in Nat
    BY <2>6, <2>7
  <2>10. QED
    BY <2>2, <2>3, <2>4, <2>8, <2>9
<1>2. QED
  BY <1>1, TypeCorrect, PTL DEF Spec, RetryAfterHonest
=============================================================================
