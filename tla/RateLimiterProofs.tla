-------------------------- MODULE RateLimiterProofs --------------------------
(***************************************************************************)
(* What RateLimiter promises, for any number of addresses, requests and    *)
(* limiters, any rate, burst and period: no request uses a forgotten       *)
(* bucket, no address stays for more than two periods, and only the idle   *)
(* are forgotten - the limiter implements TokenBuckets.                    *)
(***************************************************************************)
EXTENDS RateLimiter, TLAPS

\* Clocks that the limiter compares are in order: the janitor's next tick is at
\* most a period away, nobody was seen in the future, a request between its two
\* steps is no older than MaxStall.
ClocksInOrder ==
  /\ now <= sweepAt /\ sweepAt <= now + TTL
  /\ \A s \in Slots : held[s] # None =>
       held[s].since <= now /\ now <= held[s].since + MaxStall

\* What the last eviction has left, and when an address that was not seen since
\* can have got its last answer.
KnownAreFresh ==
  \A a \in Addresses : visitors[a] # None =>
    /\ visitors[a].lastSeen <= now
    /\ sweepAt <= visitors[a].lastSeen + 2 * TTL
    /\ buckets[visitors[a].limiter].last <= now
    /\ asked[a] <= visitors[a].lastSeen + MaxStall

NobodyAskedLater == \A a \in Addresses : asked[a] <= now

IInv == TypeOK /\ NoOrphanIsUsed /\ ClocksInOrder /\ KnownAreFresh /\ NobodyAskedLater

USE DEF Visitor, Bucket, Holding

-----------------------------------------------------------------------------
(* Buckets.                                                                *)

LEMMA Products ==
  ASSUME NEW m \in Nat, NEW n \in Nat
  PROVE  m * n \in Nat /\ (m <= n => \A k \in Nat : k * m <= k * n)
OBVIOUS

\* A bucket holds between none and all of its tokens, whenever it is looked at.
LEMMA AvailableRange ==
  ASSUME NEW b \in Bucket, NEW time \in Nat, b.last <= time
  PROVE  Available(b, time) \in 0 .. Burst
<1> DEFINE gain == Rate * (time - b.last)
<1>1. gain \in Nat
  <2>1. time - b.last \in Nat
    OBVIOUS
  <2>2. QED
    BY <2>1, LimiterAssumption, Products
<1>2. Available(b, time) = IF b.tokens + gain <= Burst THEN b.tokens + gain ELSE Burst
  BY DEF Available
<1> HIDE DEF gain
<1>3. QED
  BY <1>1, <1>2, LimiterAssumption

\* A bucket that was just used has what it was left with.
LEMMA JustUsed ==
  ASSUME NEW tokens \in 0 .. Burst, NEW time \in Nat
  PROVE  Available([tokens |-> tokens, last |-> time], time) = tokens
<1>1. Rate * (time - time) = 0
  BY LimiterAssumption
<1>2. QED
  BY <1>1, LimiterAssumption DEF Available

\* Waiting one unit of time is one gain, however long the wait before it was.
LEMMA OneGain ==
  ASSUME NEW b \in Bucket, NEW time \in Nat, b.last <= time
  PROVE  Available(b, time + 1) = Promise!Gain(Available(b, time))
<1> DEFINE waited == time - b.last
           gain == Rate * waited
<1>1. waited \in Nat /\ time + 1 - b.last = waited + 1
  OBVIOUS
<1>2. gain \in Nat
  BY <1>1, LimiterAssumption, Products
<1>3. Rate * (time + 1 - b.last) = gain + Rate
  BY <1>1, LimiterAssumption
<1>4. /\ Available(b, time) = IF b.tokens + gain <= Burst THEN b.tokens + gain ELSE Burst
      /\ Available(b, time + 1) = IF b.tokens + (gain + Rate) <= Burst
                                    THEN b.tokens + (gain + Rate) ELSE Burst
  BY <1>3 DEF Available
<1> HIDE DEF gain
<1>5. QED
  BY <1>2, <1>4, LimiterAssumption DEF Promise!Gain

-----------------------------------------------------------------------------
(* The invariant.                                                          *)

LEMMA InitInvariant == Init => IInv
BY LimiterAssumption
   DEF Init, IInv, TypeOK, NoOrphanIsUsed, ClocksInOrder, KnownAreFresh, NobodyAskedLater

\* What a request that holds a limiter can rely on.
LEMMA HoldersLimiter ==
  ASSUME IInv, NEW s \in Slots, held[s] # None
  PROVE  /\ held[s].address \in Addresses /\ held[s].limiter \in Limiters
         /\ held[s].since \in Nat /\ held[s].since <= now
         /\ held[s].since <= visitors[held[s].address].lastSeen
         /\ visitors[held[s].address] \in Visitor /\ visitors[held[s].address] # None
         /\ visitors[held[s].address].limiter = held[s].limiter
         /\ now <= visitors[held[s].address].lastSeen + MaxStall
         /\ buckets[held[s].limiter] \in Bucket
         /\ buckets[held[s].limiter].last <= now
<1>1. held[s] \in Holding
  BY DEF IInv, TypeOK
<1>2. visitors[held[s].address] \in Visitor
  BY <1>1 DEF IInv, TypeOK, NoOrphanIsUsed
<1>3. QED
  BY <1>1, <1>2, LimiterAssumption
     DEF IInv, TypeOK, NoOrphanIsUsed, ClocksInOrder, KnownAreFresh

LEMMA LookUpKnownKeeps ==
  ASSUME IInv, NEW s \in Slots, NEW a \in Addresses, held[s] = None,
         LookUpKnown(s, a), UNCHANGED <<now, sweepAt, verdict, asked>>
  PROVE  IInv'
<1>1. /\ visitors[a] \in Visitor
      /\ visitors' = [visitors EXCEPT ![a] = [limiter |-> @.limiter, lastSeen |-> now]]
  <2>1. visitors[a] \in Visitor
    BY DEF IInv, TypeOK, LookUpKnown
  <2>2. [visitors[a] EXCEPT !.lastSeen = now]
          = [limiter |-> visitors[a].limiter, lastSeen |-> now]
    BY <2>1
  <2>3. QED
    BY <2>1, <2>2 DEF LookUpKnown
<1> DEFINE seen == [limiter |-> visitors[a].limiter, lastSeen |-> now]
           holding == [address |-> a, limiter |-> visitors[a].limiter, since |-> now]
<1>2. /\ visitors' = [visitors EXCEPT ![a] = seen]
      /\ held' = [held EXCEPT ![s] = holding] /\ UNCHANGED <<now, buckets, sweepAt, verdict, asked>>
  BY <1>1 DEF LookUpKnown
<1>3. TypeOK'
  <2>1. visitors[a].limiter \in Limiters /\ now \in Nat
    BY <1>1, LimiterAssumption DEF IInv, TypeOK, LookUpKnown
  <2>2. seen \in Visitor /\ holding \in Holding
    BY <2>1
  <2>3. QED
    BY <1>2, <2>2 DEF IInv, TypeOK
<1>4. NoOrphanIsUsed'
  <2>1. seen.limiter = visitors[a].limiter /\ seen.lastSeen = now /\ seen # None
    BY <1>1, LimiterAssumption DEF IInv, TypeOK
  <2>2. /\ holding.address = a /\ holding.limiter = visitors[a].limiter
        /\ holding.since = now
    OBVIOUS
  <2> HIDE DEF seen, holding
  <2>3. ASSUME NEW t \in Slots, held'[t] # None
        PROVE  LET v == visitors'[held'[t].address] IN
                 v # None /\ v.limiter = held'[t].limiter /\ held'[t].since <= v.lastSeen
    <3>1. CASE t = s
      BY <1>2, <2>1, <2>2, <3>1 DEF IInv, TypeOK
    <3>2. CASE t # s
      <4>1. held'[t] = held[t]
        BY <1>2, <3>2 DEF IInv, TypeOK
      <4>2. CASE held[t].address = a
        BY <1>2, <2>1, <2>3, <4>1, <4>2, HoldersLimiter DEF IInv, TypeOK
      <4>3. CASE held[t].address # a
        BY <1>2, <2>3, <4>1, <4>3, HoldersLimiter DEF IInv, TypeOK
      <4>4. QED
        BY <4>2, <4>3
    <3>3. QED
      BY <3>1, <3>2
  <2>4. \A b \in Addresses : visitors'[b] # None =>
          visitors[b] # None /\ visitors'[b].limiter = visitors[b].limiter
    BY <1>1, <1>2, <2>1 DEF IInv, TypeOK, LookUpKnown
  <2>5. QED
    BY <2>3, <2>4 DEF IInv, NoOrphanIsUsed
<1>5. ClocksInOrder'
  BY LimiterAssumption DEF IInv, TypeOK, ClocksInOrder, LookUpKnown
<1>6. KnownAreFresh'
  BY <1>1, LimiterAssumption
     DEF IInv, TypeOK, ClocksInOrder, KnownAreFresh, NobodyAskedLater, LookUpKnown
<1>7. NobodyAskedLater'
  BY DEF IInv, NobodyAskedLater
<1>8. QED
  BY <1>3, <1>4, <1>5, <1>6, <1>7 DEF IInv

LEMMA LookUpNewKeeps ==
  ASSUME IInv, NEW s \in Slots, NEW a \in Addresses, NEW l \in Limiters,
         held[s] = None, LookUpNew(s, a, l), UNCHANGED <<now, sweepAt, verdict, asked>>
  PROVE  IInv'
<1> DEFINE seen == [limiter |-> l, lastSeen |-> now]
           holding == [address |-> a, limiter |-> l, since |-> now]
<1>1. /\ visitors[a] = None /\ Unused(l)
      /\ visitors' = [visitors EXCEPT ![a] = seen]
      /\ held' = [held EXCEPT ![s] = holding]
  BY DEF LookUpNew
<1>2. TypeOK'
  BY LimiterAssumption DEF IInv, TypeOK, LookUpNew
<1>3. NoOrphanIsUsed'
  <2>1. seen.limiter = l /\ seen.lastSeen = now /\ seen # None
    BY LimiterAssumption DEF IInv, TypeOK
  <2>2. holding.address = a /\ holding.limiter = l /\ holding.since = now
    OBVIOUS
  <2> HIDE DEF seen, holding
  <2>3. ASSUME NEW t \in Slots, held'[t] # None
        PROVE  LET v == visitors'[held'[t].address] IN
                 v # None /\ v.limiter = held'[t].limiter /\ held'[t].since <= v.lastSeen
    <3>1. CASE t = s
      BY <1>1, <2>1, <2>2, <3>1 DEF IInv, TypeOK
    <3>2. CASE t # s
      <4>1. held'[t] = held[t]
        BY <1>1, <3>2 DEF IInv, TypeOK
      <4>2. held[t].address # a
        BY <1>1, <2>3, <4>1, HoldersLimiter
      <4>3. QED
        BY <1>1, <2>3, <4>1, <4>2, HoldersLimiter DEF IInv, TypeOK
    <3>3. QED
      BY <3>1, <3>2
  <2>4. \A b \in Addresses : b # a => visitors'[b] = visitors[b]
    BY <1>1 DEF IInv, TypeOK
  <2>5. visitors'[a].limiter = l
    BY <1>1, <2>1 DEF IInv, TypeOK
  <2>6. QED
    BY <1>1, <2>3, <2>4, <2>5 DEF IInv, NoOrphanIsUsed, Unused
<1>4. ClocksInOrder'
  BY LimiterAssumption DEF IInv, TypeOK, ClocksInOrder, LookUpNew
<1>5. KnownAreFresh'
  BY LimiterAssumption
     DEF IInv, TypeOK, ClocksInOrder, KnownAreFresh, NobodyAskedLater, Unused, LookUpNew
<1>6. NobodyAskedLater'
  BY DEF IInv, NobodyAskedLater
<1>7. QED
  BY <1>2, <1>3, <1>4, <1>5, <1>6 DEF IInv

LEMMA AllowKeeps ==
  ASSUME IInv, NEW s \in Slots, Allow(s)
  PROVE  IInv'
<1> DEFINE a == held[s].address
           l == held[s].limiter
           tokens == Available(buckets[l], now)
<1>1. /\ held[s] # None /\ held' = [held EXCEPT ![s] = None]
      /\ asked' = [asked EXCEPT ![a] = now] /\ UNCHANGED <<now, visitors, sweepAt>>
  BY DEF Allow
<1>2. /\ a \in Addresses /\ l \in Limiters /\ visitors[a].limiter = l
      /\ now <= visitors[a].lastSeen + MaxStall
      /\ visitors[a] # None /\ visitors[a] \in Visitor
  BY <1>1, HoldersLimiter
<1>3. tokens \in 0 .. Burst
  BY <1>1, HoldersLimiter, AvailableRange DEF IInv, TypeOK
<1>4. \/ /\ tokens >= 1
         /\ buckets' = [buckets EXCEPT ![l] = [tokens |-> tokens - 1, last |-> now]]
         /\ verdict' = [verdict EXCEPT ![a] = "admitted"]
      \/ UNCHANGED buckets /\ verdict' = [verdict EXCEPT ![a] = "refused"]
  BY DEF Allow
<1> HIDE DEF tokens
<1>5. TypeOK'
  <2>1. buckets' \in [Limiters -> Bucket]
    BY <1>2, <1>3, <1>4, LimiterAssumption DEF IInv, TypeOK
  <2>2. QED
    BY <1>1, <1>2, <1>4, <2>1 DEF IInv, TypeOK
<1>6. NoOrphanIsUsed'
  BY <1>1, LimiterAssumption DEF IInv, TypeOK, NoOrphanIsUsed
<1>7. ClocksInOrder'
  BY <1>1, LimiterAssumption DEF IInv, TypeOK, ClocksInOrder
<1>8. KnownAreFresh'
  <2> SUFFICES ASSUME NEW b \in Addresses, visitors[b] # None
               PROVE  /\ buckets'[visitors[b].limiter].last <= now
                      /\ asked'[b] <= visitors[b].lastSeen + MaxStall
    BY <1>1 DEF IInv, KnownAreFresh
  <2>1. visitors[b] \in Visitor
    BY DEF IInv, TypeOK
  <2>2. asked'[b] <= visitors[b].lastSeen + MaxStall
    BY <1>1, <1>2 DEF IInv, TypeOK, KnownAreFresh
  <2>3. buckets'[visitors[b].limiter].last <= now
    <3>1. CASE buckets' = [buckets EXCEPT ![l] = [tokens |-> tokens - 1, last |-> now]]
      BY <1>2, <2>1, <3>1 DEF IInv, TypeOK, KnownAreFresh
    <3>2. CASE UNCHANGED buckets
      BY <3>2 DEF IInv, KnownAreFresh
    <3>3. QED
      BY <1>4, <3>1, <3>2
  <2>4. QED
    BY <2>2, <2>3
<1>9. NobodyAskedLater'
  BY <1>1, <1>2 DEF IInv, TypeOK, NobodyAskedLater
<1>10. QED
  BY <1>5, <1>6, <1>7, <1>8, <1>9 DEF IInv

\* No request holds the limiter of an address that expires: it was seen by the
\* request, which is not that old.
LEMMA ExpiredIsNotHeld ==
  ASSUME IInv, NEW s \in Slots, held[s] # None
  PROVE  ~Expired(held[s].address)
BY HoldersLimiter, LimiterAssumption, StallAssumption DEF Expired, IInv, TypeOK

LEMMA EvictKeeps ==
  ASSUME IInv, Evict
  PROVE  IInv'
<1>1. TypeOK'
  BY LimiterAssumption DEF IInv, TypeOK, Evict
<1>2. \A a \in Addresses : visitors'[a] # None =>
        visitors'[a] = visitors[a] /\ ~Expired(a) /\ visitors[a] \in Visitor
  BY DEF IInv, TypeOK, Evict
<1>3. \A s \in Slots : held[s] # None =>
        visitors'[held[s].address] = visitors[held[s].address]
  BY ExpiredIsNotHeld, HoldersLimiter DEF Evict
<1>4. NoOrphanIsUsed'
  BY <1>2, <1>3 DEF IInv, NoOrphanIsUsed, Evict
<1>5. ClocksInOrder'
  BY LimiterAssumption DEF IInv, TypeOK, ClocksInOrder, Evict
<1>6. KnownAreFresh'
  BY <1>2, LimiterAssumption DEF IInv, TypeOK, KnownAreFresh, Expired, Evict
<1>7. NobodyAskedLater'
  BY DEF IInv, NobodyAskedLater, Evict
<1>8. QED
  BY <1>1, <1>4, <1>5, <1>6, <1>7 DEF IInv

LEMMA TickKeeps ==
  ASSUME IInv, Tick
  PROVE  IInv'
<1>1. TypeOK' /\ NoOrphanIsUsed'
  BY DEF IInv, TypeOK, NoOrphanIsUsed, Tick
<1>2. ClocksInOrder'
  BY LimiterAssumption DEF IInv, TypeOK, ClocksInOrder, Tick
<1>3. KnownAreFresh'
  <2> SUFFICES ASSUME NEW a \in Addresses, visitors[a] # None
               PROVE  /\ visitors[a].lastSeen <= now'
                      /\ buckets[visitors[a].limiter].last <= now'
    BY DEF IInv, KnownAreFresh, Tick
  <2>1. visitors[a] \in Visitor /\ buckets[visitors[a].limiter] \in Bucket
    BY DEF IInv, TypeOK
  <2>2. QED
    BY <2>1 DEF IInv, TypeOK, KnownAreFresh, Tick
<1>4. NobodyAskedLater'
  BY DEF IInv, TypeOK, NobodyAskedLater, Tick
<1>5. QED
  BY <1>1, <1>2, <1>3, <1>4 DEF IInv

LEMMA NextInvariant == IInv /\ [Next]_vars => IInv'
<1> SUFFICES ASSUME IInv, [Next]_vars PROVE IInv'
  OBVIOUS
<1>1. ASSUME NEW s \in Slots, NEW a \in Addresses, LimiterFor(s, a) PROVE IInv'
  BY <1>1, LookUpKnownKeeps, LookUpNewKeeps DEF LimiterFor
<1>2. ASSUME NEW s \in Slots, Allow(s) PROVE IInv'
  BY <1>2, AllowKeeps
<1>3. CASE Evict
  BY <1>3, EvictKeeps
<1>4. CASE Tick
  BY <1>4, TickKeeps
<1>5. CASE UNCHANGED vars
  BY <1>5 DEF vars, IInv, TypeOK, NoOrphanIsUsed, ClocksInOrder, KnownAreFresh,
              NobodyAskedLater
<1>6. QED
  BY <1>1, <1>2, <1>3, <1>4, <1>5 DEF Next

LEMMA Invariant == Spec => []IInv
BY InitInvariant, NextInvariant, PTL DEF Spec

-----------------------------------------------------------------------------
(* Theorems.                                                               *)

\* Whatever requests and the janitor of ratelimit.go do to the map and the
\* buckets, a bucket holds between none and Burst tokens and clocks are naturals.
THEOREM LimiterIsTyped == Spec => []TypeOK
BY Invariant, PTL DEF IInv

\* Every request that holds a limiter holds the one its address has, although
\* ratelimit.go uses it after the mutex is released and the janitor deletes
\* addresses meanwhile; no two addresses share one.
THEOREM NoOrphans == Spec => []NoOrphanIsUsed
BY Invariant, PTL DEF IInv

\* The janitor keeps no address for more than two periods after it was seen.
THEOREM Forgetting == Spec => []IdleAreForgotten
<1>1. IInv => IdleAreForgotten
  <2> SUFFICES ASSUME IInv, NEW a \in Addresses, visitors[a] # None
               PROVE  now <= visitors[a].lastSeen + 2 * TTL
    BY DEF IdleAreForgotten
  <2>1. visitors[a].lastSeen \in Nat
    BY DEF IInv, TypeOK
  <2>2. QED
    BY <2>1, LimiterAssumption DEF IInv, TypeOK, ClocksInOrder, KnownAreFresh
<1>2. QED
  BY <1>1, Invariant, PTL

-----------------------------------------------------------------------------
(* The limiter implements buckets of which only idle ones are forgotten.   *)

USE DEF level, Promise!abstractVars

LEMMA LevelOfKnown ==
  ASSUME IInv, NEW a \in Addresses, visitors[a] # None
  PROVE  /\ level[a] = Available(buckets[visitors[a].limiter], now)
         /\ visitors[a] \in Visitor /\ visitors[a].limiter \in Limiters
         /\ buckets[visitors[a].limiter] \in Bucket
         /\ buckets[visitors[a].limiter].last <= now
<1>1. visitors[a] \in Visitor
  BY DEF IInv, TypeOK
<1>2. QED
  BY <1>1 DEF IInv, TypeOK, KnownAreFresh

LEMMA LookUpIsNotNoticed ==
  ASSUME IInv, NEW s \in Slots, NEW a \in Addresses, LimiterFor(s, a)
  PROVE  UNCHANGED Promise!abstractVars
<1>1. CASE LookUpKnown(s, a)
  <2>1. /\ visitors' = [visitors EXCEPT ![a] = [@ EXCEPT !.lastSeen = now]]
        /\ visitors[a] # None /\ UNCHANGED <<now, buckets, verdict, asked>>
    BY <1>1 DEF LookUpKnown, LimiterFor
  <2>2. IInv'
    BY <1>1, LookUpKnownKeeps DEF LimiterFor
  <2>3. \A b \in Addresses : /\ visitors'[b] = None <=> visitors[b] = None
                             /\ visitors'[b] # None =>
                                  visitors'[b].limiter = visitors[b].limiter
    <3>1. visitors[a] \in Visitor
      BY <2>1 DEF IInv, TypeOK
    <3>2. visitors'[a] # None /\ visitors'[a].limiter = visitors[a].limiter
      <4>1. visitors'[a] = [visitors[a] EXCEPT !.lastSeen = now]
        BY <2>1 DEF IInv, TypeOK
      <4>2. visitors'[a] \in Visitor
        BY <3>1, <4>1 DEF IInv, TypeOK
      <4>3. QED
        BY <3>1, <4>1, <4>2, LimiterAssumption
    <3>3. QED
      BY <2>1, <3>2 DEF IInv, TypeOK
  <2>4. level' = level
    BY <2>1, <2>3
  <2>5. QED
    BY <2>1, <2>4
<1>2. ASSUME NEW l \in Limiters, LookUpNew(s, a, l)
      PROVE  UNCHANGED Promise!abstractVars
  <2>1. /\ visitors[a] = None /\ Unused(l)
        /\ visitors' = [visitors EXCEPT ![a] = [limiter |-> l, lastSeen |-> now]]
        /\ buckets' = [buckets EXCEPT ![l] = [tokens |-> Burst, last |-> now]]
        /\ UNCHANGED <<now, verdict, asked>>
    BY <1>2 DEF LookUpNew, LimiterFor
  <2>2. IInv'
    BY <1>2, LookUpNewKeeps DEF LimiterFor
  <2>3. \A b \in Addresses \ {a} :
          (IF visitors[b] = None THEN Burst
             ELSE Available(buckets[visitors[b].limiter], now))'
            = IF visitors[b] = None THEN Burst
                ELSE Available(buckets[visitors[b].limiter], now)
    <3> SUFFICES ASSUME NEW b \in Addresses \ {a}, visitors[b] # None
                 PROVE  /\ visitors'[b] = visitors[b]
                        /\ buckets'[visitors[b].limiter] = buckets[visitors[b].limiter]
      BY <2>1 DEF IInv, TypeOK, Available
    <3>1. visitors[b].limiter # l
      BY <2>1 DEF Unused
    <3>2. QED
      BY <2>1, <3>1, LevelOfKnown DEF IInv, TypeOK
  <2>4. (IF visitors[a] = None THEN Burst
           ELSE Available(buckets[visitors[a].limiter], now))' = Burst
    <3>1. /\ visitors'[a].limiter = l
          /\ buckets'[l] = [tokens |-> Burst, last |-> now]
      BY <2>1 DEF IInv, TypeOK
    <3>2. Available([tokens |-> Burst, last |-> now], now) = Burst
      BY JustUsed, LimiterAssumption DEF IInv, TypeOK
    <3>3. QED
      BY <2>1, <3>1, <3>2 DEF Available
  <2>5. level' = level
    BY <2>1, <2>3, <2>4
  <2>6. QED
    BY <2>1, <2>5
<1>3. QED
  BY <1>1, <1>2 DEF LimiterFor

\* The level of an address, as a function of what it depends on.
LevelIn(map, tokens, time, a) ==
  IF map[a] = None THEN Burst ELSE Available(tokens[map[a].limiter], time)

LEMMA Levels ==
  /\ level = [a \in Addresses |-> LevelIn(visitors, buckets, now, a)]
  /\ level' = [a \in Addresses |-> LevelIn(visitors', buckets', now', a)]
BY DEF LevelIn, Available

LEMMA Answers ==
  \A a \in Addresses : Promise!Admit(a) \/ Promise!Refuse(a) => Promise!Next
BY DEF Promise!Next

\* A request takes a token of its address's bucket, or finds none there.
LEMMA AllowIsAnswer ==
  ASSUME IInv, NEW s \in Slots, Allow(s)
  PROVE  Promise!Next
<1> DEFINE l == held[s].limiter
           tokens == Available(buckets[l], now)
<1>1. held[s] # None /\ UNCHANGED <<now, visitors, sweepAt>>
  BY DEF Allow
<1>2. PICK a \in Addresses :
        /\ a = held[s].address /\ l \in Limiters
        /\ asked' = [asked EXCEPT ![a] = now]
        /\ visitors[a] # None /\ visitors[a].limiter = l
        /\ level[a] = tokens
  BY <1>1, HoldersLimiter DEF Allow
<1>3. tokens \in 0 .. Burst
  BY <1>1, HoldersLimiter, AvailableRange DEF IInv, TypeOK
<1>4. CASE /\ tokens >= 1
           /\ buckets' = [buckets EXCEPT ![l] = [tokens |-> tokens - 1, last |-> now]]
           /\ verdict' = [verdict EXCEPT ![a] = "admitted"]
  <2>1. LevelIn(visitors', buckets', now', a) = tokens - 1
    <3>1. tokens - 1 \in 0 .. Burst
      BY <1>3, <1>4, LimiterAssumption
    <3>2. buckets'[l] = [tokens |-> tokens - 1, last |-> now]
      BY <1>2, <1>4 DEF IInv, TypeOK
    <3>3. Available([tokens |-> tokens - 1, last |-> now], now) = tokens - 1
      BY <3>1, JustUsed DEF IInv, TypeOK
    <3>4. LevelIn(visitors', buckets', now', a) = Available(buckets'[l], now)
      BY <1>1, <1>2 DEF LevelIn
    <3>5. QED
      BY <3>2, <3>3, <3>4
  <2>2. ASSUME NEW b \in Addresses, b # a
        PROVE  LevelIn(visitors', buckets', now', b) = LevelIn(visitors, buckets, now, b)
    <3>1. CASE visitors[b] # None
      <4>1. visitors[b].limiter # l /\ visitors[b].limiter \in Limiters
        BY <1>2, <2>2, <3>1, LevelOfKnown DEF IInv, NoOrphanIsUsed
      <4>2. buckets'[visitors[b].limiter] = buckets[visitors[b].limiter]
        BY <1>4, <4>1 DEF IInv, TypeOK
      <4>3. QED
        BY <1>1, <4>2 DEF LevelIn
    <3>2. CASE visitors[b] = None
      BY <1>1, <3>2 DEF LevelIn
    <3>3. QED
      BY <3>1, <3>2
  <2>3. level' = [level EXCEPT ![a] = @ - 1]
    <3> HIDE DEF level, tokens
    <3>1. QED
      BY <1>2, <2>1, <2>2, Levels
  <2>4. Promise!Admit(a)
    BY <1>1, <1>2, <1>4, <2>3 DEF Promise!Admit
  <2>5. QED
    BY <2>4, Answers
<1>5. CASE tokens = 0 /\ verdict' = [verdict EXCEPT ![a] = "refused"] /\ UNCHANGED buckets
  <2>1. level' = level
    BY <1>1, <1>5, Levels
  <2>2. Promise!Refuse(a)
    BY <1>1, <1>2, <1>5, <2>1 DEF Promise!Refuse
  <2>3. QED
    BY <1>2, <2>2, Answers
<1>6. QED
  BY <1>2, <1>4, <1>5 DEF Allow

\* The janitor refills the buckets it deletes: they are those of idle addresses.
LEMMA EvictForgetsIdle ==
  ASSUME IInv, Evict
  PROVE  Promise!Next
<1> DEFINE gone == {a \in Addresses : Expired(a)}
<1>1. /\ visitors' = [a \in Addresses |-> IF Expired(a) THEN None ELSE visitors[a]]
      /\ UNCHANGED <<now, buckets, verdict, asked>>
  BY DEF Evict
<1>2. ASSUME NEW a \in gone PROVE asked[a] + (TTL - MaxStall) < now
  <2>1. visitors[a] # None /\ visitors[a].lastSeen + TTL < now
    BY DEF Expired
  <2>2. /\ visitors[a].lastSeen \in Nat /\ asked[a] \in Nat
        /\ asked[a] <= visitors[a].lastSeen + MaxStall
    BY <2>1, LevelOfKnown DEF IInv, TypeOK, KnownAreFresh
  <2>3. QED
    BY <2>1, <2>2, LimiterAssumption DEF IInv, TypeOK
<1>3. ASSUME NEW a \in Addresses
      PROVE  LevelIn(visitors', buckets', now', a) = IF a \in gone THEN Burst ELSE level[a]
  <2>1. level[a] = LevelIn(visitors, buckets, now, a)
    BY Levels
  <2>2. QED
    BY <1>1, <2>1 DEF LevelIn
<1>4. level' = [a \in Addresses |-> IF a \in gone THEN Burst ELSE level[a]]
  <2> HIDE DEF level, gone
  <2>1. QED
    BY <1>3, Levels
<1>5. gone \in SUBSET Addresses
  OBVIOUS
<1>6. Promise!Forget(gone)
  <2> HIDE DEF level, gone
  <2>1. QED
    BY <1>1, <1>2, <1>4 DEF Promise!Forget
<1>7. QED
  <2> HIDE DEF level, gone
  <2>1. QED
    BY <1>5, <1>6 DEF Promise!Next

LEMMA TickIsTick ==
  ASSUME IInv, Tick
  PROVE  Promise!Tick
<1>1. now' = now + 1 /\ UNCHANGED <<visitors, buckets, verdict, asked>>
  BY DEF Tick
<1>2. ASSUME NEW a \in Addresses
      PROVE  (IF visitors[a] = None THEN Burst
                ELSE Available(buckets[visitors[a].limiter], now))' = Promise!Gain(level[a])
  <2>1. CASE visitors[a] = None
    BY <1>1, <2>1, LimiterAssumption DEF Promise!Gain
  <2>2. CASE visitors[a] # None
    <3>1. Available(buckets[visitors[a].limiter], now + 1)
            = Promise!Gain(Available(buckets[visitors[a].limiter], now))
      BY <2>2, LevelOfKnown, OneGain DEF IInv, TypeOK
    <3>2. QED
      BY <1>1, <2>2, <3>1, LevelOfKnown DEF Available
  <2>3. QED
    BY <2>1, <2>2
<1>3. level' = [a \in Addresses |-> Promise!Gain(level[a])]
  BY <1>2
<1>4. QED
  BY <1>1, <1>3 DEF Promise!Tick

\* ratelimit.go deletes addresses and gives them a full bucket when they come
\* back: whatever the rate, the burst and the period, only an address that got
\* no answer for the period (less a request's delay) can gain by it.
THEOREM OnlyIdleAreForgotten == Spec => ImplementsTokenBuckets
<1>1. Init => Promise!Init
  BY DEF Init, Promise!Init
<1>2. IInv /\ [Next]_vars => [Promise!Next]_Promise!abstractVars
  <2> SUFFICES ASSUME IInv, [Next]_vars PROVE [Promise!Next]_Promise!abstractVars
    OBVIOUS
  <2>1. ASSUME NEW s \in Slots, NEW a \in Addresses, LimiterFor(s, a)
        PROVE  UNCHANGED Promise!abstractVars
    BY <2>1, LookUpIsNotNoticed
  <2>2. ASSUME NEW s \in Slots, Allow(s) PROVE Promise!Next
    BY <2>2, AllowIsAnswer
  <2>3. CASE Evict
    BY <2>3, EvictForgetsIdle
  <2>4. CASE Tick
    BY <2>4, TickIsTick DEF Promise!Next
  <2>5. CASE UNCHANGED vars
    BY <2>5 DEF vars, Available
  <2>6. QED
    BY <2>1, <2>2, <2>3, <2>4, <2>5 DEF Next
<1>3. QED
  BY <1>1, <1>2, Invariant, PTL DEF Spec, ImplementsTokenBuckets, Promise!Spec
==============================================================================
