----------------------------- MODULE RateLimiter -----------------------------
(***************************************************************************)
(* The per-address rate limiter of POST /pickups                           *)
(* (internal/adapter/in/http/middleware/ratelimit.go).  A request looks    *)
(* its address up under the mutex and uses the limiter it got after the    *)
(* mutex is released; a janitor deletes addresses that were not seen for   *)
(* a while.  A deleted address comes back with a full bucket.              *)
(*                                                                         *)
(* golang.org/x/time/rate is external: a bucket that is brought up to date *)
(* whenever it is used, and in which a negative rate or burst, which the   *)
(* configuration does not exclude, counts as none.                         *)
(***************************************************************************)
EXTENDS Integers

CONSTANTS
  Addresses, Slots,
  Limiters,   \* identities of rate.Limiter objects
  Rate,       \* tokens per unit of time (PICKUP_RATE_RPM / 60 per second)
  Burst,      \* PICKUP_RATE_BURST
  TTL,        \* 10 minutes: idle time after which an address may be deleted
  MaxStall,   \* bound on the time between limiterFor and Allow
  MaxTime,    \* bound on the clock
  None

Visitor == [limiter: Limiters, lastSeen: Nat]
Bucket == [tokens: 0 .. Burst, last: Nat]
Holding == [address: Addresses, limiter: Limiters, since: Nat]

ASSUME LimiterAssumption ==
  /\ Rate \in Nat /\ Burst \in Nat /\ TTL \in Nat /\ MaxStall \in Nat
  /\ MaxTime \in Nat
  /\ None \notin Addresses \cup Limiters \cup Visitor \cup Holding

\* Nothing keeps a request from its Allow for as long as the janitor's period.
ASSUME StallAssumption == MaxStall <= TTL

VARIABLES
  now,
  visitors,   \* address -> its limiter and when it was last seen, or None
  buckets,    \* limiter -> tokens at the time it was last used
  held,       \* slot -> the address and limiter its request goes on with, or None
  sweepAt,    \* when the janitor's ticker fires next
  verdict,    \* address -> what its last request was told
  asked       \* address -> when that was (read by no action)

vars == <<now, visitors, buckets, held, sweepAt, verdict, asked>>

\* A bucket never holds more than the burst; an address has a limiter and a time,
\* or is not in the map.
TypeOK ==
  /\ now \in Nat
  /\ visitors \in [Addresses -> Visitor \cup {None}]
  /\ buckets \in [Limiters -> Bucket]
  /\ held \in [Slots -> Holding \cup {None}]
  /\ sweepAt \in Nat
  /\ verdict \in [Addresses -> {"none", "admitted", "refused"}]
  /\ asked \in [Addresses -> Nat]

Init ==
  /\ now = 0
  /\ visitors = [a \in Addresses |-> None]
  /\ buckets = [l \in Limiters |-> [tokens |-> Burst, last |-> 0]]
  /\ held = [s \in Slots |-> None]
  /\ sweepAt = TTL
  /\ verdict = [a \in Addresses |-> "none"]
  /\ asked = [a \in Addresses |-> 0]

\* rate.NewLimiter returns an object nobody else has.
Unused(l) ==
  /\ \A a \in Addresses : visitors[a] # None => visitors[a].limiter # l
  /\ \A s \in Slots : held[s] # None => held[s].limiter # l

\* an address that is known is not seen again
BugLookUpKnown(s, a) ==
  /\ visitors[a] # None
  /\ held' = [held EXCEPT ![s] =
                [address |-> a, limiter |-> visitors[a].limiter, since |-> now]]
  /\ UNCHANGED <<visitors, buckets>>

LookUpKnown(s, a) ==
  /\ visitors[a] # None
  /\ visitors' = [visitors EXCEPT ![a] = [@ EXCEPT !.lastSeen = now]]
  /\ held' = [held EXCEPT ![s] =
                [address |-> a, limiter |-> visitors[a].limiter, since |-> now]]
  /\ UNCHANGED buckets

\* a new bucket holds one token, whatever the burst
BugLookUpNew(s, a, l) ==
  /\ visitors[a] = None
  /\ Unused(l)
  /\ visitors' = [visitors EXCEPT ![a] = [limiter |-> l, lastSeen |-> now]]
  /\ buckets' = [buckets EXCEPT ![l] = [tokens |-> 1, last |-> now]]
  /\ held' = [held EXCEPT ![s] = [address |-> a, limiter |-> l, since |-> now]]

LookUpNew(s, a, l) ==
  /\ visitors[a] = None
  /\ Unused(l)
  /\ visitors' = [visitors EXCEPT ![a] = [limiter |-> l, lastSeen |-> now]]
  /\ buckets' = [buckets EXCEPT ![l] = [tokens |-> Burst, last |-> now]]
  /\ held' = [held EXCEPT ![s] = [address |-> a, limiter |-> l, since |-> now]]

LimiterFor(s, a) ==
  /\ held[s] = None
  /\ LookUpKnown(s, a) \/ \E l \in Limiters : LookUpNew(s, a, l)
  /\ UNCHANGED <<now, sweepAt, verdict, asked>>

\* refills without a limit
BugAvailable(bucket, time) == bucket.tokens + Rate * (time - bucket.last)

Available(bucket, time) ==
  IF bucket.tokens + Rate * (time - bucket.last) <= Burst
    THEN bucket.tokens + Rate * (time - bucket.last) ELSE Burst

\* Limiter.Allow, and the middleware's choice between the handler and a 429.
Allow(s) ==
  LET a == held[s].address
      l == held[s].limiter
      tokens == Available(buckets[l], now)
  IN /\ held[s] # None
     /\ \/ /\ tokens >= 1
           /\ buckets' = [buckets EXCEPT ![l] = [tokens |-> tokens - 1, last |-> now]]
           /\ verdict' = [verdict EXCEPT ![a] = "admitted"]
        \/ /\ tokens = 0
           /\ verdict' = [verdict EXCEPT ![a] = "refused"]
           /\ UNCHANGED buckets
     /\ held' = [held EXCEPT ![s] = None]
     /\ asked' = [asked EXCEPT ![a] = now]
     /\ UNCHANGED <<now, visitors, sweepAt>>

\* keeps an address for two periods
BugExpired(a) == visitors[a] # None /\ visitors[a].lastSeen + 2 * TTL < now

\* lastSeen.Before(cutoff)
Expired(a) == visitors[a] # None /\ visitors[a].lastSeen + TTL < now

Evict ==
  /\ now = sweepAt
  /\ visitors' = [a \in Addresses |-> IF Expired(a) THEN None ELSE visitors[a]]
  /\ sweepAt' = now + TTL
  /\ UNCHANGED <<now, buckets, held, verdict, asked>>

\* Time passes; neither the janitor nor a request between its two steps is
\* delayed beyond its time.
Tick ==
  /\ now < MaxTime
  /\ now < sweepAt
  /\ \A s \in Slots : held[s] # None => now < held[s].since + MaxStall
  /\ now' = now + 1
  /\ UNCHANGED <<visitors, buckets, held, sweepAt, verdict, asked>>

Next ==
  \/ \E s \in Slots : (\E a \in Addresses : LimiterFor(s, a)) \/ Allow(s)
  \/ Evict
  \/ Tick

Spec == Init /\ [][Next]_vars

-----------------------------------------------------------------------------
\* A request never uses a limiter that was deleted meanwhile, and addresses do
\* not share one: otherwise an address would have two buckets at once.
NoOrphanIsUsed ==
  /\ \A s \in Slots : held[s] # None =>
       LET v == visitors[held[s].address] IN
         v # None /\ v.limiter = held[s].limiter /\ held[s].since <= v.lastSeen
  /\ \A a, b \in Addresses :
       visitors[a] # None /\ visitors[b] # None /\ a # b
         => visitors[a].limiter # visitors[b].limiter

\* The map does not grow with addresses long gone: the janitor keeps none that
\* was not seen for two periods of its ticker.
IdleAreForgotten ==
  \A a \in Addresses : visitors[a] # None => now <= visitors[a].lastSeen + 2 * TTL

\* A forgotten address counts as one with a full bucket.
level ==
  [a \in Addresses |->
     IF visitors[a] = None THEN Burst
     ELSE Available(buckets[visitors[a].limiter], now)]

Promise ==
  INSTANCE TokenBuckets WITH now <- now, level <- level, asked <- asked,
                             verdict <- verdict, Idle <- TTL - MaxStall

\* Deleting addresses beside requests that hold their limiters gives a full
\* bucket only to one that got no answer, not even a refusal, for the janitor's
\* period (less what a request may take between its two steps); nobody ever
\* loses a token to it, and no address gets two buckets to draw from.
ImplementsTokenBuckets == Promise!Spec
=============================================================================
