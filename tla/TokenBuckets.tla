---------------------------- MODULE TokenBuckets ----------------------------
(***************************************************************************)
(* What rate limiting of POST /pickups promises: every address has a       *)
(* bucket of Burst tokens that gains Rate tokens per unit of time; a       *)
(* request takes a token or is refused because there is none.  Addresses   *)
(* that have got no answer for longer than Idle may find their buckets     *)
(* full, however slowly buckets fill; nobody else's ever changes but by    *)
(* the passing of time and by an admission of its own.                     *)
(***************************************************************************)
EXTENDS Integers

CONSTANTS
  Addresses,
  Rate,      \* tokens gained per unit of time, a natural number
  Burst,     \* tokens a bucket holds, a natural number
  Idle       \* time without an answer after which an address may be forgotten

VARIABLES
  now,
  level,    \* address -> tokens in its bucket now
  asked,    \* address -> when it last got an answer
  verdict   \* address -> what its last request was told

abstractVars == <<now, level, asked, verdict>>

Init ==
  /\ now = 0
  /\ level = [a \in Addresses |-> Burst]
  /\ asked = [a \in Addresses |-> 0]
  /\ verdict = [a \in Addresses |-> "none"]

Admit(a) ==
  /\ level[a] >= 1
  /\ level' = [level EXCEPT ![a] = @ - 1]
  /\ asked' = [asked EXCEPT ![a] = now]
  /\ verdict' = [verdict EXCEPT ![a] = "admitted"]
  /\ UNCHANGED now

Refuse(a) ==
  /\ level[a] = 0
  /\ asked' = [asked EXCEPT ![a] = now]
  /\ verdict' = [verdict EXCEPT ![a] = "refused"]
  /\ UNCHANGED <<now, level>>

Forget(gone) ==
  /\ \A a \in gone : asked[a] + Idle < now
  /\ level' = [a \in Addresses |-> IF a \in gone THEN Burst ELSE level[a]]
  /\ UNCHANGED <<now, asked, verdict>>

Gain(tokens) == IF tokens + Rate <= Burst THEN tokens + Rate ELSE Burst

Tick ==
  /\ now' = now + 1
  /\ level' = [a \in Addresses |-> Gain(level[a])]
  /\ UNCHANGED <<asked, verdict>>

Next ==
  \/ \E a \in Addresses : Admit(a) \/ Refuse(a)
  \/ \E gone \in SUBSET Addresses : Forget(gone)
  \/ Tick

Spec == Init /\ [][Next]_abstractVars
=============================================================================
