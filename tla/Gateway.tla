------------------------------ MODULE Gateway -------------------------------
(***************************************************************************)
(* A request's way through the HTTP middleware of main: authentication     *)
(* against a static token or a JWT, the limiter per client IP (module      *)
(* RateLimiter), the limiter per owner (a second instance of it), the      *)
(* handler.  Beside it the Rotator replaces the signing key once a Period. *)
(* The gRPC interceptor authenticates alike and has no limiter.  Secrets   *)
(* are numbered in the order the rotator makes them; a key id is the       *)
(* secret's number too, 0 for none.                                        *)
(***************************************************************************)
EXTENDS RateLimiter

CONSTANTS
  OwnerKeys,      \* keys of the owner limiter: an owner, or an IP without one
  OwnerCapacity,  \* its burst capacity, in tokens
  OwnerRate,      \* its units refilled per tick
  Period,         \* the rotator's period
  Lag,            \* how late its goroutine may take a tick of the ticker
  Lifetimes,      \* lifetimes a token is issued with
  MaxAsks,        \* bound: requests made while keys are rotated
  MaxPassed       \* bound: requests between the two limiters, per owner key

ASSUME GatewayConfig ==
  /\ OwnerCapacity \in Nat \ {0} /\ OwnerRate \in Nat
  /\ Period \in Nat \ {0} /\ Lag \in Nat /\ Lag < Period
  /\ Lifetimes \subseteq Nat \ {0}

VARIABLES
  oBuckets, oTokens, oLastCheck,   \* the owner limiter
  oGrants, oFullAt, oSpent,        \* and its history
  passed,   \* requests between the two limiters, by owner key
  keys,     \* the rotator's KeySet
  due,      \* when its ticker fires next
  token,    \* the JWT a client holds
  rotating, \* the configuration: JWTs with rotation, or a static token
  asks      \* requests made under rotation

ownerVars == <<oBuckets, oTokens, oLastCheck, oGrants, oFullAt, oSpent>>
keyVars == <<keys, due, token, rotating>>
gatewayVars == <<vars, ownerVars, passed, keyVars, asks>>

Owner == INSTANCE RateLimiter WITH
  Keys <- OwnerKeys, Capacity <- OwnerCapacity, Rate <- OwnerRate,
  buckets <- oBuckets, tokens <- oTokens, lastCheck <- oLastCheck,
  winGrants <- oGrants, fullAt <- oFullAt, spent <- oSpent

NoToken == [kid |-> 0, secret |-> 0, issued |-> 0, expires |-> 0]

GatewayInit ==
  /\ Init /\ Owner!Init
  /\ passed = [k \in OwnerKeys |-> 0]
  /\ keys = [activeKID |-> 1, active |-> 1, previousKID |-> 0, previous |-> 0]
  /\ due = Period
  /\ token = NoToken
  /\ rotating \in BOOLEAN
  /\ asks = 0
-----------------------------------------------------------------------------
(* Issue signs with the active key and names it in the header; a token     *)
(* issued elsewhere with the same secret may leave the name out.           *)
Issue ==
  /\ rotating
  /\ \E ttl \in Lifetimes, named \in BOOLEAN :
       token' = [kid |-> IF named THEN keys.activeKID ELSE 0, secret |-> keys.active,
                 issued |-> now, expires |-> now + ttl]
  /\ UNCHANGED <<vars, ownerVars, passed, keys, due, rotating, asks>>

(* A plausible bug, for the mutation runs: the oldest key stays previous.  *)
RotateNow_keepsOldest ==
  keys' = [activeKID |-> keys.active + 1, active |-> keys.active + 1,
           previousKID |-> IF keys.previous = 0 THEN keys.activeKID ELSE keys.previousKID,
           previous |-> IF keys.previous = 0 THEN keys.active ELSE keys.previous]

RotateNow ==
  keys' = [activeKID |-> keys.active + 1, active |-> keys.active + 1,
           previousKID |-> keys.activeKID, previous |-> keys.active]

(* Run takes a tick; when no key can be generated the old ones stay.       *)
Rotate ==
  /\ rotating /\ now >= due
  /\ due' = due + Period
  /\ RotateNow \/ UNCHANGED keys
  /\ UNCHANGED <<vars, ownerVars, passed, token, rotating, asks>>

(* The secret Verify's key function picks.  PreviousKID is empty until the *)
(* first rotation, and then takes the tokens without a key id.             *)
Picked(t) ==
  IF t.kid = keys.activeKID THEN keys.active
  ELSE IF t.kid = keys.previousKID THEN keys.previous
  ELSE IF t.kid = 0 THEN keys.active ELSE 0

(* Verify: the signature by the picked secret, or, when it was another's,  *)
(* by the previous one; and not expired.                                   *)
Verify(t) ==
  /\ Picked(t) # 0
  /\ t.secret = Picked(t) \/ t.secret = keys.previous
  /\ now < t.expires
-----------------------------------------------------------------------------
(* Requests.  The middleware asks the owner limiter only after the IP      *)
(* limiter let the request through; each limiter has a lock of its own.    *)
Credentials == {"none", "static", "jwt"}
Authorised(c) ==
  \/ c = "static" /\ ~rotating
  \/ c = "jwt" /\ rotating /\ token # NoToken /\ Verify(token)

Granted(k) == Level(k) >= Cost

(* A request that is not authorised is answered 401 and counts nowhere; a  *)
(* request to an open path needs no credential and stops counting here.    *)
AskIP(k) ==
  /\ rotating => asks < MaxAsks
  /\ asks' = IF rotating THEN asks + 1 ELSE asks
  /\ Allow(k)
  /\ \/ UNCHANGED passed       \* refused, an open path, or no readable owner
     \/ /\ Granted(k)
        /\ \E c \in Credentials : Authorised(c)
        /\ \E o \in OwnerKeys : /\ passed[o] < MaxPassed
                             /\ passed' = [passed EXCEPT ![o] = @ + 1]
  /\ UNCHANGED <<ownerVars, keyVars>>

AskOwner(o) ==
  /\ passed[o] > 0
  /\ Owner!Allow(o)
  /\ passed' = [passed EXCEPT ![o] = @ - 1]
  /\ UNCHANGED <<buckets, tokens, lastCheck, winGrants, fullAt, spent, keyVars, asks>>

(* Time passes, but the rotator's goroutine takes a tick within Lag.       *)
Clock ==
  /\ rotating => now < due + Lag
  /\ Tick
  /\ UNCHANGED <<ownerVars, passed, keyVars, asks>>

(* The observer's window is the same for both limiters.                    *)
WatchBoth ==
  /\ Watch
  /\ oGrants' = [k \in OwnerKeys |-> 0]
  /\ UNCHANGED <<oBuckets, oTokens, oLastCheck, oFullAt, oSpent, passed, keyVars, asks>>

CleanupIP == Cleanup /\ UNCHANGED <<ownerVars, passed, keyVars, asks>>
CleanupOwner ==
  /\ Owner!Cleanup
  /\ UNCHANGED <<buckets, tokens, lastCheck, winGrants, fullAt, spent, passed, keyVars, asks>>

GatewayNext ==
  \/ Clock \/ WatchBoth \/ CleanupIP \/ CleanupOwner
  \/ Issue \/ Rotate
  \/ \E k \in Keys : AskIP(k)
  \/ \E o \in OwnerKeys : AskOwner(o)

GatewaySpec == GatewayInit /\ [][GatewayNext]_gatewayVars
-----------------------------------------------------------------------------
(* However many addresses its requests come from, an owner's requests      *)
(* reach the handlers no more often in any window than the owner limiter's *)
(* burst and rate allow.                                                   *)
OwnerWindowBound == Owner!WindowBound

(* "a rotation can complete without invalidating live tokens": a token     *)
(* signed by the active key verifies until it expires, across rotations,   *)
(* late and failed ones too, if it does not outlive the period less the    *)
(* ticker's lag.  A token without a key id needs a rotation to have        *)
(* happened: before that Verify takes its empty id for PreviousKID.        *)
TokensLive ==
  /\ token # NoToken
  /\ now < token.expires
  /\ token.expires - token.issued + Lag <= Period
  /\ token.kid # 0 \/ keys.previousKID # 0
  => Verify(token)

(* Rotation retires keys: whatever lifetime and key id a token has, it     *)
(* stops verifying within two periods, as long as rotations succeed.       *)
RotationRetires ==
  keys.active = due \div Period /\ Verify(token) => now <= token.issued + 2 * Period + Lag
=============================================================================
