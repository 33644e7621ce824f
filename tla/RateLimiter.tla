---------------------------- MODULE RateLimiter -----------------------------
(***************************************************************************)
(* The token-bucket limiter of the HTTP gateway                            *)
(* (internal/transport/http/ratelimit.go).  One RateLimiter serves every   *)
(* handler goroutine; Allow and Cleanup run under its mutex, so each is    *)
(* one step.  The float64 token count is an exact count of units: a token  *)
(* is Cost units and Rate units flow in per tick of the clock.             *)
(***************************************************************************)
EXTENDS Naturals, FiniteSets

CONSTANTS
  Keys,      \* client keys: "ip:..." or "owner:..."
  Capacity,  \* burst capacity, in tokens
  Cost,      \* units per token
  Rate,      \* units refilled per tick
  Second,    \* ticks in the one second of the Retry-After header
  MaxAge,    \* Cleanup's maxAge, in ticks
  Horizon    \* bound: the clock stops here

ASSUME LimiterConfig ==
  /\ Capacity \in Nat \ {0} /\ Cost \in Nat \ {0}
  /\ Rate \in Nat /\ Second \in Nat /\ MaxAge \in Nat /\ Horizon \in Nat

VARIABLES
  now,        \* the monotonic clock
  buckets,    \* the keys of the map
  tokens,     \* bucket.tokens, in units
  lastCheck,  \* bucket.lastCheck
  winStart,   \* history: start of the window an observer watches
  winGrants,  \* history: requests let through per key in that window
  fullAt,     \* history: when the key's bucket was last seen full
  spent       \* history: units the key was granted since then

vars == <<now, buckets, tokens, lastCheck, winStart, winGrants, fullAt, spent>>

Full == Capacity * Cost
Least(a, b) == IF a < b THEN a ELSE b

(* A plausible bug, for the mutation runs: the refill forgets the burst.   *)
Level_uncapped(k) ==
  IF k \in buckets THEN tokens[k] + Rate * (now - lastCheck[k]) ELSE Full

(* What Allow would find in k's bucket now: min(capacity, tokens +         *)
(* elapsed * rate), and a full bucket for a key the map does not hold.     *)
Level(k) ==
  IF k \in buckets
    THEN Least(Full, tokens[k] + Rate * (now - lastCheck[k]))
    ELSE Full

Init ==
  /\ now = 0
  /\ buckets = {}
  /\ tokens = [k \in Keys |-> 0]
  /\ lastCheck = [k \in Keys |-> 0]
  /\ winStart = 0
  /\ winGrants = [k \in Keys |-> 0]
  /\ fullAt = [k \in Keys |-> 0]
  /\ spent = [k \in Keys |-> 0]

Tick ==
  /\ now < Horizon
  /\ now' = now + 1
  /\ UNCHANGED <<buckets, tokens, lastCheck, winStart, winGrants, fullAt, spent>>

(* The history of a decision on k's bucket.                                *)
Account(k, granted) ==
  LET paid == IF granted THEN Cost ELSE 0 IN
  /\ winGrants' = [winGrants EXCEPT ![k] = @ + (IF granted THEN 1 ELSE 0)]
  /\ IF Level(k) = Full
       THEN /\ fullAt' = [fullAt EXCEPT ![k] = now]
            /\ spent' = [spent EXCEPT ![k] = paid]
       ELSE /\ spent' = [spent EXCEPT ![k] = @ + paid]
            /\ UNCHANGED fullAt

(* Plausible bugs, for the mutation runs.                                  *)
Allow_wholeTokensOnly(k) ==
  LET level == (Level(k) \div Cost) * Cost
      granted == level >= Cost
  IN
  /\ buckets' = buckets \cup {k}
  /\ tokens' = [tokens EXCEPT ![k] = level - (IF granted THEN Cost ELSE 0)]
  /\ lastCheck' = [lastCheck EXCEPT ![k] = now]
  /\ Account(k, granted)
  /\ UNCHANGED <<now, winStart>>

Allow_refillsAfter(k) ==
  LET held == IF k \in buckets THEN tokens[k] ELSE Full
      granted == held >= Cost
  IN
  /\ buckets' = buckets \cup {k}
  /\ tokens' = [tokens EXCEPT ![k] = Level(k) - (IF granted THEN Cost ELSE 0)]
  /\ lastCheck' = [lastCheck EXCEPT ![k] = now]
  /\ Account(k, granted)
  /\ UNCHANGED <<now, winStart>>

Cleanup_keepsIdle ==
  LET stale == {k \in buckets : now - lastCheck[k] < MaxAge} IN
  /\ buckets' = buckets \ stale
  /\ UNCHANGED <<now, tokens, lastCheck, winStart, winGrants, fullAt, spent>>
-----------------------------------------------------------------------------
(* Allow(key): refill by the time since the last call on the key, remember *)
(* the time whether or not the request passes, take one token if there is  *)
(* a whole one.  The bucket of a new key starts full.                      *)
Allow(k) ==
  LET granted == Level(k) >= Cost IN
  /\ buckets' = buckets \cup {k}
  /\ tokens' = [tokens EXCEPT ![k] = Level(k) - (IF granted THEN Cost ELSE 0)]
  /\ lastCheck' = [lastCheck EXCEPT ![k] = now]
  /\ Account(k, granted)
  /\ UNCHANGED <<now, winStart>>

(* Cleanup(maxAge) deletes every bucket unused for longer than maxAge.     *)
Cleanup ==
  LET stale == {k \in buckets : now - lastCheck[k] > MaxAge} IN
  /\ buckets' = buckets \ stale
  /\ UNCHANGED <<now, tokens, lastCheck, winStart, winGrants, fullAt, spent>>

(* The observer starts a window at any moment.                             *)
Watch ==
  /\ winStart' = now
  /\ winGrants' = [k \in Keys |-> 0]
  /\ UNCHANGED <<now, buckets, tokens, lastCheck, fullAt, spent>>

Next == Tick \/ Watch \/ Cleanup \/ \E k \in Keys : Allow(k)

Spec == Init /\ [][Next]_vars
-----------------------------------------------------------------------------
TypeOK ==
  /\ now \in 0..Horizon
  /\ buckets \subseteq Keys
  /\ tokens \in [Keys -> 0..Full]
  /\ lastCheck \in [Keys -> 0..now]
  /\ winStart \in 0..now
  /\ winGrants \in [Keys -> Nat]
  /\ fullAt \in [Keys -> 0..now]
  /\ spent \in [Keys -> Nat]

(* "allows rate tokens per second with a burst of capacity": in no window  *)
(* of time, whenever it starts, does a key get through more often than the *)
(* burst plus what flows in during the window; Cleanup included.           *)
WindowBound ==
  \A k \in Keys : winGrants[k] * Cost <= Full + Rate * (now - winStart)

Refused(k) == Allow(k) /\ winGrants' = winGrants

(* A request is refused only when one more grant would break the promise   *)
(* over the window that began when the key's bucket was last full: polling *)
(* an empty bucket loses no fraction of a token.                           *)
RefusalsJustified ==
  [][\A k \in Keys :
       Refused(k) => spent[k] + Cost > Full + Rate * (now - fullAt[k])]_vars

(* "Retry-After: 1": a client that waits the second it was told to wait is *)
(* served, whether or not Cleanup removed its bucket meanwhile.            *)
RetryAfterHonest ==
  [][\A k \in Keys :
       now - lastCheck[k] >= Second => ~Refused(k)]_vars
=============================================================================
