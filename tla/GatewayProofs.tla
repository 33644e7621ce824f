--------------------------- MODULE GatewayProofs ----------------------------
(***************************************************************************)
(* The way of a request through authentication and both limiters, for any  *)
(* number of addresses and owners, any rates, any period of the rotator    *)
(* and any lateness of its ticks below a period.                           *)
(***************************************************************************)
EXTENDS Gateway, RateLimiterProofs

(* For the limiter of addresses a step of the gateway is a step of its own *)
(* or none.                                                                *)
LEMMA LimiterStep == GatewayNext => [Next]_vars
<1> SUFFICES ASSUME GatewayNext PROVE [Next]_vars
  OBVIOUS
<1>1. CASE Clock \/ WatchBoth \/ CleanupIP
  BY <1>1 DEF Clock, WatchBoth, CleanupIP, Next
<1>2. CASE CleanupOwner
  BY <1>2 DEF CleanupOwner, Owner!Cleanup, vars
<1>3. CASE Issue \/ Rotate
  BY <1>3 DEF Issue, Rotate
<1>4. ASSUME NEW k \in Keys, AskIP(k) PROVE [Next]_vars
  BY <1>4 DEF AskIP, Next
<1>5. ASSUME NEW o \in OwnerKeys, AskOwner(o) PROVE [Next]_vars
  BY <1>5 DEF AskOwner, Owner!Allow, vars
<1>6. QED
  BY <1>1, <1>2, <1>3, <1>4, <1>5 DEF GatewayNext

(* The middleware uses the limiter of addresses as it is specified, the    *)
(* owner limiter behind it and the rotation of keys beside it.             *)
THEOREM GatewayImplementsLimiter == GatewaySpec => Spec
<1>1. GatewayInit => Init
  BY DEF GatewayInit
<1>2. [GatewayNext]_gatewayVars => [Next]_vars
  BY LimiterStep DEF gatewayVars
<1>3. QED
  BY <1>1, <1>2, PTL DEF GatewaySpec, Spec

(* The promises of the address limiter hold for requests that come through *)
(* the whole middleware.                                                   *)
THEOREM GatewayKeepsLimits ==
  ASSUME SafeMaxAge, TokenASecond
  PROVE  /\ GatewaySpec => []TypeOK
         /\ GatewaySpec => []WindowBound
         /\ GatewaySpec => RefusalsJustified
         /\ GatewaySpec => RetryAfterHonest
<1>1. (Spec => []WindowBound) /\ (Spec => RetryAfterHonest)
  BY RateIsBounded, RetryAfterIsHonest
<1>2. QED
  BY <1>1, GatewayImplementsLimiter, TypeCorrect, RefusalsAreJustified, PTL
-----------------------------------------------------------------------------
(* For the owner limiter, too, a step of the gateway is its own or none.   *)
LEMMA OwnerStep == GatewayNext => [Owner!Next]_(Owner!vars)
<1> SUFFICES ASSUME GatewayNext PROVE [Owner!Next]_(Owner!vars)
  OBVIOUS
<1>1. CASE Clock
  BY <1>1 DEF Clock, Tick, ownerVars, Owner!Tick, Owner!Next
<1>2. CASE WatchBoth
  BY <1>2 DEF WatchBoth, Watch, Owner!Watch, Owner!Next
<1>3. CASE CleanupIP
  BY <1>3 DEF CleanupIP, Cleanup, ownerVars, Owner!vars
<1>4. CASE CleanupOwner
  BY <1>4 DEF CleanupOwner, Owner!Next
<1>5. CASE Issue \/ Rotate
  BY <1>5 DEF Issue, Rotate, vars, ownerVars, Owner!vars
<1>6. ASSUME NEW k \in Keys, AskIP(k) PROVE [Owner!Next]_(Owner!vars)
  BY <1>6 DEF AskIP, Allow, ownerVars, Owner!vars
<1>7. ASSUME NEW o \in OwnerKeys, AskOwner(o) PROVE [Owner!Next]_(Owner!vars)
  BY <1>7 DEF AskOwner, Owner!Next
<1>8. QED
  BY <1>1, <1>2, <1>3, <1>4, <1>5, <1>6, <1>7 DEF GatewayNext

(* Two goroutines between the limiters do not disturb the owner limiter:   *)
(* the middleware uses it as it is specified.                              *)
THEOREM GatewayImplementsOwner == GatewaySpec => Owner!Spec
<1>1. GatewayInit => Owner!Init
  BY DEF GatewayInit
<1>2. [GatewayNext]_gatewayVars => [Owner!Next]_(Owner!vars)
  BY OwnerStep DEF gatewayVars, vars, ownerVars, Owner!vars
<1>3. QED
  BY <1>1, <1>2, PTL DEF GatewaySpec, Owner!Spec

(* The owner limiter is the same code with a rate of its own.  A theorem   *)
(* of RateLimiterProofs cannot be cited for an instance, so the argument   *)
(* of its window bound is made again for the owner's buckets.              *)
LEMMA OwnerInflow ==
  /\ \A d \in Nat : OwnerRate * d \in Nat
  /\ \A d, e \in Nat : OwnerRate * (d + e) = OwnerRate * d + OwnerRate * e
BY GatewayConfig DEF GatewayConfig

(* What n grants cost grows by Cost per grant.                             *)
LEMMA OwnerPrice ==
  /\ Owner!Full \in Nat /\ Cost <= Owner!Full
  /\ \A n \in Nat : n * Cost \in Nat /\ (n + 1) * Cost = n * Cost + Cost
BY LimiterConfig, GatewayConfig DEF GatewayConfig, Owner!Full

(* What Allow finds in an owner's bucket is between nothing and full.      *)
LEMMA OwnerLevelType ==
  ASSUME Owner!TypeOK, NEW k \in OwnerKeys
  PROVE  Owner!Level(k) \in 0..Owner!Full
<1>1. Owner!Full \in Nat
  BY OwnerPrice
<1>2. oTokens[k] \in Nat /\ now \in Nat /\ oLastCheck[k] \in 0..now
  BY LimiterConfig, <1>1 DEF Owner!TypeOK
<1>3. OwnerRate * (now - oLastCheck[k]) \in Nat
  <2>1. now - oLastCheck[k] \in Nat
    BY <1>2
  <2>2. QED BY <2>1, OwnerInflow
<1>4. QED BY <1>1, <1>2, <1>3 DEF Owner!Level, Owner!Least

(* Every owner's bucket stays between empty and full and its lastCheck in  *)
(* the past.                                                               *)
LEMMA OwnerTypes == Owner!Spec => []Owner!TypeOK
<1> USE LimiterConfig, GatewayConfig, OwnerPrice DEF GatewayConfig
<1>1. Owner!Init => Owner!TypeOK
  BY DEF Owner!Init, Owner!TypeOK
<1>2. ASSUME Owner!TypeOK, [Owner!Next]_(Owner!vars)
      PROVE  Owner!TypeOK'
  <2> USE <1>2
  <2>1. CASE UNCHANGED Owner!vars
    BY <2>1 DEF Owner!vars, Owner!TypeOK
  <2>2. CASE Owner!Tick
    BY <2>2 DEF Owner!Tick, Owner!TypeOK
  <2>3. CASE Owner!Watch
    BY <2>3 DEF Owner!Watch, Owner!TypeOK
  <2>4. CASE Owner!Cleanup
    BY <2>4 DEF Owner!Cleanup, Owner!TypeOK
  <2>5. ASSUME NEW k \in OwnerKeys, Owner!Allow(k)
        PROVE  Owner!TypeOK'
    <3>1. Owner!Level(k) \in 0..Owner!Full
      BY OwnerLevelType
    <3>2. Owner!Level(k) - (IF Owner!Level(k) >= Cost THEN Cost ELSE 0) \in 0..Owner!Full
      BY <3>1
    <3>3. oTokens' \in [OwnerKeys -> 0..Owner!Full] /\ oLastCheck' \in [OwnerKeys -> 0..now]
      BY <2>5, <3>2 DEF Owner!Allow, Owner!TypeOK
    <3>4. oGrants' \in [OwnerKeys -> Nat]
      BY <2>5 DEF Owner!Allow, Owner!Account, Owner!TypeOK
    <3>5. oFullAt' \in [OwnerKeys -> 0..now] /\ oSpent' \in [OwnerKeys -> Nat]
      BY <2>5 DEF Owner!Allow, Owner!Account, Owner!TypeOK
    <3>6. QED BY <2>5, <3>3, <3>4, <3>5 DEF Owner!Allow, Owner!TypeOK
  <2>6. QED BY <2>1, <2>2, <2>3, <2>4, <2>5 DEF Owner!Next
<1>3. QED BY <1>1, <1>2, PTL DEF Owner!Spec
(* The inductive form of OwnerWindowBound: what the owner was granted in   *)
(* the window plus what its bucket still holds.                            *)
OwnerLevelBound ==
  \A k \in OwnerKeys :
    oGrants[k] * Cost + Owner!Level(k) <= Owner!Full + OwnerRate * (now - winStart)


(* Deleting an owner's bucket is no gift when it would be full by then.    *)
OwnerSafeMaxAge == OwnerRate * MaxAge >= Owner!Full

(* The refill of one more tick is at most the rate.                        *)
LEMMA OwnerTick ==
  ASSUME Owner!TypeOK, Owner!Tick, NEW k \in OwnerKeys
  PROVE  Owner!Level(k)' \in Nat /\ Owner!Level(k)' <= Owner!Level(k) + OwnerRate
<1> USE LimiterConfig, GatewayConfig, OwnerPrice DEF GatewayConfig
<1>1. now \in Nat /\ oLastCheck[k] \in 0..now /\ oTokens[k] \in Nat
  BY DEF Owner!TypeOK
<1>2. OwnerRate * (now + 1 - oLastCheck[k]) = OwnerRate * (now - oLastCheck[k]) + OwnerRate * 1
  <2>1. now - oLastCheck[k] \in Nat /\ now + 1 - oLastCheck[k] = (now - oLastCheck[k]) + 1
    BY <1>1
  <2>2. QED BY <2>1, OwnerInflow
<1>3. OwnerRate * (now - oLastCheck[k]) \in Nat /\ OwnerRate * 1 = OwnerRate
  BY <1>1, OwnerInflow
<1>4. QED BY <1>1, <1>2, <1>3 DEF Owner!Tick, Owner!Level, Owner!Least

(* A bucket that Cleanup deletes would have refilled to capacity.          *)
LEMMA OwnerStaleIsFull ==
  ASSUME OwnerSafeMaxAge, Owner!TypeOK, NEW k \in oBuckets, now - oLastCheck[k] > MaxAge
  PROVE  Owner!Level(k) = Owner!Full
<1> USE LimiterConfig, GatewayConfig, OwnerPrice DEF GatewayConfig
<1>1. /\ now \in Nat /\ oLastCheck[k] \in 0..now /\ oTokens[k] \in Nat
      /\ k \in OwnerKeys
  BY DEF Owner!TypeOK
<1>2. PICK e \in Nat : now - oLastCheck[k] = MaxAge + e
  <2>1. (now - oLastCheck[k]) - MaxAge \in Nat
    BY <1>1
  <2>2. QED BY <1>1, <2>1
<1>3. OwnerRate * (now - oLastCheck[k]) = OwnerRate * MaxAge + OwnerRate * e
  BY <1>2, OwnerInflow
<1>4. OwnerRate * (now - oLastCheck[k]) >= Owner!Full
  BY <1>3, OwnerInflow DEF OwnerSafeMaxAge
<1>5. oTokens[k] + OwnerRate * (now - oLastCheck[k]) >= Owner!Full
  BY <1>1, <1>4, <1>3, OwnerInflow
<1>6. oTokens[k] + OwnerRate * (now - oLastCheck[k]) \in Nat
  <2>1. now - oLastCheck[k] \in Nat
    BY <1>2
  <2>2. OwnerRate * (now - oLastCheck[k]) \in Nat
    BY <2>1, OwnerInflow
  <2>3. QED BY <1>1, <2>2
<1>7. QED BY <1>5, <1>6 DEF Owner!Level, Owner!Least

(* Each step of the owner limiter keeps grants plus level in the promise.  *)
LEMMA OwnerLevelStep ==
  ASSUME OwnerSafeMaxAge, Owner!TypeOK, Owner!TypeOK', OwnerLevelBound, [Owner!Next]_(Owner!vars)
  PROVE  OwnerLevelBound'
<1> USE LimiterConfig, GatewayConfig, OwnerPrice DEF GatewayConfig
<1> SUFFICES ASSUME NEW k \in OwnerKeys
             PROVE  (oGrants[k] * Cost + Owner!Level(k)
                       <= Owner!Full + OwnerRate * (now - winStart))'
  BY DEF OwnerLevelBound
<1> DEFINE promise == Owner!Full + OwnerRate * (now - winStart)
<1>1. /\ oGrants[k] * Cost + Owner!Level(k) <= promise
      /\ oGrants[k] \in Nat /\ oGrants[k] * Cost \in Nat
      /\ Owner!Level(k) \in 0..Owner!Full
      /\ promise \in Nat
      /\ now - winStart \in Nat /\ now \in Nat
  <2>1. now \in Nat /\ winStart \in 0..now
    BY DEF Owner!TypeOK
  <2>2. now - winStart \in Nat
    BY <2>1
  <2>3. QED BY <2>1, <2>2, OwnerInflow, OwnerLevelType DEF OwnerLevelBound, Owner!TypeOK
<1>2. CASE UNCHANGED Owner!vars
  BY <1>1, <1>2 DEF Owner!vars, Owner!Level, Owner!Least
<1>3. CASE Owner!Tick
  <2>1. now' - winStart = (now - winStart) + 1
    BY <1>1, <1>3 DEF Owner!Tick, Owner!TypeOK
  <2>2. OwnerRate * (now' - winStart) = OwnerRate * (now - winStart) + OwnerRate * 1
    BY <1>1, <2>1, OwnerInflow
  <2>3. Owner!Level(k)' <= Owner!Level(k) + OwnerRate /\ Owner!Level(k)' \in Nat
    BY <1>3, OwnerTick
  <2>4. oGrants' = oGrants /\ winStart' = winStart /\ Owner!Full' = Owner!Full
    BY <1>3 DEF Owner!Tick, Owner!Full
  <2>5. QED BY <1>1, <2>2, <2>3, <2>4, OwnerInflow
<1>4. CASE Owner!Watch
  <2>1. Owner!Level(k)' = Owner!Level(k)
    BY <1>4 DEF Owner!Watch, Owner!Level, Owner!Least
  <2>2. oGrants'[k] = 0 /\ now' - winStart' = 0
    BY <1>1, <1>4 DEF Owner!Watch
  <2>3. OwnerRate * 0 = 0 /\ 0 * Cost = 0
    OBVIOUS
  <2>4. QED BY <1>1, <2>1, <2>2, <2>3
<1>5. CASE Owner!Cleanup
  <2>1. Owner!Level(k)' = Owner!Level(k)
    <3>1. CASE k \in oBuckets /\ now - oLastCheck[k] > MaxAge
      BY <1>5, <3>1, OwnerStaleIsFull DEF Owner!Cleanup, Owner!Level
    <3>2. CASE ~(k \in oBuckets /\ now - oLastCheck[k] > MaxAge)
      BY <1>5, <3>2 DEF Owner!Cleanup, Owner!Level, Owner!Least
    <3>3. QED BY <3>1, <3>2
  <2>2. QED BY <1>1, <1>5, <2>1 DEF Owner!Cleanup
<1>6. ASSUME NEW j \in OwnerKeys, Owner!Allow(j)
      PROVE  (oGrants[k] * Cost + Owner!Level(k)
                <= Owner!Full + OwnerRate * (now - winStart))'
  <2>1. CASE j # k
    <3>1. Owner!Level(k)' = Owner!Level(k) /\ oGrants'[k] = oGrants[k]
      BY <1>6, <2>1 DEF Owner!Allow, Owner!Account, Owner!Level, Owner!Least, Owner!TypeOK
    <3>2. QED BY <1>1, <1>6, <3>1 DEF Owner!Allow
  <2>2. CASE j = k
    <3> DEFINE granted == Owner!Level(k) >= Cost
    <3>1. /\ oTokens'[k] = Owner!Level(k) - (IF granted THEN Cost ELSE 0)
          /\ oLastCheck'[k] = now' /\ k \in oBuckets'
          /\ oGrants'[k] = oGrants[k] + (IF granted THEN 1 ELSE 0)
          /\ now' = now /\ winStart' = winStart
      BY <1>6, <2>2 DEF Owner!Allow, Owner!Account, Owner!TypeOK
    <3>2. Owner!Level(k)' = oTokens'[k]
      <4>1. now' - oLastCheck'[k] = 0 /\ OwnerRate * 0 = 0
        BY <1>1, <3>1
      <4>2. Owner!Level(k)' = Owner!Least(Owner!Full, oTokens'[k] + 0)
        BY <3>1, <4>1 DEF Owner!Level
      <4>3. oTokens'[k] \in 0..Owner!Full
        BY <1>1, <3>1
      <4>4. QED BY <4>2, <4>3 DEF Owner!Least
    <3>3. CASE granted
      BY <1>1, <3>1, <3>2, <3>3
    <3>4. CASE ~granted
      BY <1>1, <3>1, <3>2, <3>4
    <3>5. QED BY <3>3, <3>4
  <2>3. QED BY <2>1, <2>2
<1>7. QED BY <1>2, <1>3, <1>4, <1>5, <1>6 DEF Owner!Next

(* However many addresses an owner's requests come from, in every window   *)
(* it gets through both limiters at most burst + rate * length times, as   *)
(* long as Cleanup waits until an idle bucket is full again.               *)
THEOREM OwnerRateIsBounded ==
  ASSUME OwnerSafeMaxAge
  PROVE  GatewaySpec => []OwnerWindowBound
<1> USE LimiterConfig, GatewayConfig, OwnerPrice DEF GatewayConfig
<1>1. Owner!Init => OwnerLevelBound
  <2> SUFFICES ASSUME Owner!Init, NEW k \in OwnerKeys
               PROVE  oGrants[k] * Cost + Owner!Level(k) <= Owner!Full + OwnerRate * (now - winStart)
    BY DEF OwnerLevelBound
  <2>1. oGrants[k] = 0 /\ Owner!Level(k) = Owner!Full /\ now = 0 /\ winStart = 0
    BY DEF Owner!Init, Owner!Level
  <2>2. OwnerRate * 0 = 0 /\ 0 * Cost = 0 /\ now - winStart = 0
    BY <2>1
  <2>3. QED BY <2>1, <2>2
<1>2. Owner!TypeOK /\ OwnerLevelBound => Owner!WindowBound
  <2> SUFFICES ASSUME Owner!TypeOK, OwnerLevelBound, NEW k \in OwnerKeys
               PROVE  oGrants[k] * Cost <= Owner!Full + OwnerRate * (now - winStart)
    BY DEF Owner!WindowBound
  <2>1. now - winStart \in Nat
    BY DEF Owner!TypeOK
  <2>2. oGrants[k] * Cost \in Nat /\ OwnerRate * (now - winStart) \in Nat
    BY <2>1, OwnerInflow DEF Owner!TypeOK
  <2>3. QED BY <2>2, OwnerLevelType DEF OwnerLevelBound
<1>3. QED BY <1>1, <1>2, OwnerLevelStep, OwnerTypes, GatewayImplementsOwner,
            PTL DEF Owner!Spec, OwnerWindowBound
-----------------------------------------------------------------------------
(* The rotator's keys: the active one and, since the first rotation, the   *)
(* one made before it.  Its ticker is less than Lag behind, and it has not *)
(* made more keys than it had ticks.                                       *)
KeyBook ==
  /\ keys.active \in Nat \ {0}
  /\ keys = [activeKID |-> keys.active, active |-> keys.active,
             previousKID |-> keys.active - 1, previous |-> keys.active - 1]
  /\ rotating \in BOOLEAN
  /\ due \in Nat /\ due <= now + Period
  /\ rotating => now <= due + Lag
  /\ keys.active * Period <= due

(* The client's token was signed with a key of the rotator, and names it   *)
(* or none.                                                                *)
Signed ==
  token # NoToken =>
    /\ rotating
    /\ token \in [kid : Nat, secret : Nat \ {0}, issued : Nat, expires : Nat]
    /\ token.secret <= keys.active
    /\ token.kid = 0 \/ token.kid = token.secret

(* A rotation is a period away from the one before: how often the key that *)
(* signed the token has been rotated says how long ago it was signed,      *)
Aged ==
  token # NoToken =>
    /\ token.issued <= due + Lag
    /\ token.secret < keys.active => token.issued + Period <= due + Lag
    /\ token.secret < keys.active - 1 => token.issued + 2 * Period <= due + Lag

(* and, unless a rotation failed, how recently.                            *)
Recent ==
  token # NoToken /\ due < keys.active * Period + Period =>
    /\ token.secret = keys.active => due <= token.issued + Period
    /\ token.secret = keys.active - 1 => due <= token.issued + 2 * Period

Rotation == KeyBook /\ Signed /\ Aged /\ Recent

(* What n keys take, at one a period.                                      *)
LEMMA Periods ==
  \A n \in Nat : n * Period \in Nat /\ (n + 1) * Period = n * Period + Period
BY GatewayConfig DEF GatewayConfig

LEMMA RotationStep == TypeOK /\ Rotation /\ [GatewayNext]_gatewayVars => Rotation'
<1> SUFFICES ASSUME TypeOK, Rotation, [GatewayNext]_gatewayVars PROVE Rotation'
  OBVIOUS
<1> USE GatewayConfig DEF GatewayConfig
<1>1. now \in Nat
  BY LimiterConfig DEF TypeOK, LimiterConfig
<1>2. ASSUME UNCHANGED <<keys, due, token, rotating>>, now' = now PROVE Rotation'
  BY <1>2 DEF Rotation, KeyBook, Signed, Aged, Recent
<1>3. CASE UNCHANGED gatewayVars \/ WatchBoth \/ CleanupIP \/ CleanupOwner
  BY <1>2, <1>3 DEF gatewayVars, vars, keyVars, WatchBoth, Watch, CleanupIP, Cleanup,
     CleanupOwner, Owner!Cleanup
<1>4. ASSUME NEW k \in Keys, AskIP(k) PROVE Rotation'
  BY <1>2, <1>4 DEF AskIP, Allow, keyVars
<1>5. ASSUME NEW o \in OwnerKeys, AskOwner(o) PROVE Rotation'
  BY <1>2, <1>5 DEF AskOwner, Owner!Allow, keyVars
<1>6. CASE Clock
  <2>1. /\ now' = now + 1 /\ UNCHANGED <<keys, due, token, rotating>>
        /\ rotating => now < due + Lag
    BY <1>6 DEF Clock, Tick, keyVars
  <2>2. QED
    BY <1>1, <2>1 DEF Rotation, KeyBook, Signed, Aged, Recent
<1>7. CASE Issue
  <2>1. PICK ttl \in Lifetimes, named \in BOOLEAN :
          token' = [kid |-> IF named THEN keys.activeKID ELSE 0, secret |-> keys.active,
                    issued |-> now, expires |-> now + ttl]
    BY <1>7 DEF Issue
  <2>2. rotating /\ UNCHANGED <<now, keys, due, rotating>>
    BY <1>7 DEF Issue, vars
  <2>3. ttl \in Nat
    OBVIOUS
  <2>4. /\ token'.kid \in {0, keys.active} /\ token'.secret = keys.active
        /\ token'.issued = now /\ token'.expires = now + ttl
        /\ token' \in [kid : Nat, secret : Nat \ {0}, issued : Nat, expires : Nat]
    BY <1>1, <2>1, <2>3 DEF Rotation, KeyBook
  <2>5. QED
    BY <1>1, <2>2, <2>4 DEF Rotation, KeyBook, Signed, Aged, Recent
<1>8. CASE Rotate
  <2>1. /\ rotating /\ now >= due /\ due' = due + Period
        /\ UNCHANGED <<now, token, rotating>>
    BY <1>8 DEF Rotate, vars
  <2>2. /\ keys.active * Period \in Nat
        /\ (keys.active + 1) * Period = keys.active * Period + Period
    BY Periods DEF Rotation, KeyBook
  <2>3. CASE RotateNow
    <3>1. /\ keys'.active = keys.active + 1
          /\ keys' = [activeKID |-> keys'.active, active |-> keys'.active,
                      previousKID |-> keys'.active - 1, previous |-> keys'.active - 1]
      BY <2>3 DEF RotateNow, Rotation, KeyBook
    <3>2. KeyBook'
      BY <1>1, <2>1, <2>2, <3>1 DEF Rotation, KeyBook
    <3>3. (Signed /\ Aged)'
      BY <1>1, <2>1, <3>1 DEF Rotation, KeyBook, Signed, Aged
    <3>4. Recent'
      BY <1>1, <2>1, <2>2, <3>1 DEF Rotation, KeyBook, Signed, Recent
    <3>5. QED
      BY <3>2, <3>3, <3>4 DEF Rotation
  <2>4. CASE UNCHANGED keys
    BY <1>1, <2>1, <2>2, <2>4 DEF Rotation, KeyBook, Signed, Aged, Recent
  <2>5. QED
    BY <1>8, <2>3, <2>4 DEF Rotate
<1>9. QED
  BY <1>3, <1>4, <1>5, <1>6, <1>7, <1>8 DEF GatewayNext

LEMMA RotationInvariant == GatewaySpec => [](TypeOK /\ Rotation)
<1>1. GatewayInit => Rotation
  <2> SUFFICES ASSUME GatewayInit PROVE Rotation
    OBVIOUS
  <2>1. /\ keys = [activeKID |-> 1, active |-> 1, previousKID |-> 0, previous |-> 0]
        /\ due = Period /\ token = NoToken /\ now = 0 /\ rotating \in BOOLEAN
    BY DEF GatewayInit, Init
  <2>2. QED
    BY <2>1, GatewayConfig DEF GatewayConfig, Rotation, KeyBook, Signed, Aged, Recent
<1>2. QED
  BY <1>1, RotationStep, GatewayImplementsLimiter, TypeCorrect, PTL DEF GatewaySpec

(* A key that is not older than the previous one is one of the two.        *)
LEMMA LastTwo ==
  \A a, b \in Nat : a <= b /\ ~(a < b - 1) => a = b \/ a = b - 1
OBVIOUS

(* A rotation completes without invalidating live tokens: a token that     *)
(* does not outlive the period less the ticker's lag verifies until it     *)
(* expires, whenever it was issued and however late rotations come or      *)
(* whether they fail.                                                      *)
THEOREM LiveTokensVerify == GatewaySpec => []TokensLive
<1>1. TypeOK /\ Rotation => TokensLive
  <2> SUFFICES ASSUME TypeOK, Rotation,
                      token # NoToken,
                      now < token.expires,
                      token.expires - token.issued + Lag <= Period,
                      token.kid # 0 \/ keys.previousKID # 0
               PROVE  Verify(token)
    BY DEF TokensLive
  <2>1. now \in Nat /\ Period \in Nat /\ Lag \in Nat
    BY LimiterConfig, GatewayConfig DEF TypeOK, LimiterConfig, GatewayConfig
  <2>2. token.secret = keys.active \/ token.secret = keys.active - 1
    <3>1. /\ token.issued \in Nat /\ token.expires \in Nat /\ due \in Nat
          /\ token.secret \in Nat /\ keys.active \in Nat
          /\ token.secret <= keys.active /\ due <= now + Period
      BY DEF Rotation, KeyBook, Signed
    <3>2. ~(token.issued + 2 * Period <= due + Lag)
      BY <2>1, <3>1
    <3>3. ~(token.secret < keys.active - 1)
      BY <3>2 DEF Rotation, Aged
    <3>4. QED
      BY <3>1, <3>3, LastTwo
  <2>3. /\ keys.activeKID = keys.active
        /\ keys.previousKID = keys.active - 1 /\ keys.previous = keys.active - 1
    BY DEF Rotation, KeyBook
  <2>4. Picked(token) # 0 /\ (token.secret = Picked(token) \/ token.secret = keys.previous)
    BY <2>2, <2>3 DEF Picked, Rotation, KeyBook, Signed
  <2>5. QED
    BY <2>4 DEF Verify
<1>2. QED
  BY <1>1, RotationInvariant, PTL

(* Rotation retires keys: as long as rotations succeed no token verifies   *)
(* longer than two periods and the ticker's lag, whatever its lifetime and *)
(* whether or not it names its key.                                        *)
THEOREM RotatedKeysRetire == GatewaySpec => []RotationRetires
<1>1. TypeOK /\ Rotation => RotationRetires
  <2> SUFFICES ASSUME TypeOK, Rotation,
                      keys.active = due \div Period, Verify(token)
               PROVE  now <= token.issued + 2 * Period + Lag
    BY DEF RotationRetires
  <2>1. now \in Nat /\ Period \in Nat \ {0} /\ Lag \in Nat /\ due \in Nat
    BY LimiterConfig, GatewayConfig DEF TypeOK, LimiterConfig, GatewayConfig, Rotation, KeyBook
  <2>2. due < (due \div Period) * Period + Period
    BY <2>1
  <2>3. token # NoToken
    BY <2>1 DEF Verify, NoToken
  <2>4. token.secret = keys.active \/ token.secret = keys.active - 1
    BY <2>3 DEF Verify, Picked, Rotation, KeyBook, Signed
  <2>5. due <= token.issued + 2 * Period /\ rotating /\ token.issued \in Nat
    BY <2>1, <2>2, <2>3, <2>4 DEF Rotation, Recent, Signed
  <2>6. QED
    BY <2>1, <2>5 DEF Rotation, KeyBook
<1>2. QED
  BY <1>1, RotationInvariant, PTL
=============================================================================
