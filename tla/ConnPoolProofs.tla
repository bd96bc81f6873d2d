---------------------------- MODULE ConnPoolProofs ----------------------------
(***************************************************************************)
(* Any number of connections and of requests, in whatever order they come, *)
(* wait, are granted connections, and end: a connection is occupied by     *)
(* whoever may use it, and by nobody else.                                 *)
(***************************************************************************)
EXTENDS ConnPool, SequenceTheorems, FiniteSetTheorems, TLAPS

\* what is left of a program behind its first n steps
Left(k, n) == SubSeq(Program[k], n + 1, Len(Program[k]))

Suffix(w) == \E k \in DOMAIN Program, n \in 0 .. 4 : w = Left(k, n)

Transactions == {"createPickup", "complete"}

\* what is left of a transaction that has begun
TxRest(w) == \E k \in Transactions, n \in 1 .. 3 : w = Left(k, n)

\* A request occupies a connection when it has been granted one, and as long as
\* its transaction lasts, which waits for nothing that the pool hands out.
Discipline ==
  \A r \in Requests :
    /\ phase[r] # "go" => Served(r) /\ Step(r) \notin {"upload", "commit"}
    /\ r \in inTx => phase[r] = "go" /\ TxRest(todo[r])
    /\ held[r] = IF r \in inTx \/ phase[r] = "granted" THEN 1 ELSE 0
    /\ lock = r => r \in inTx

\* Those in the queue wait, each in one place.
QueueOK ==
  /\ \A i \in 1 .. Len(queue) : phase[queue[i]] = "queued"
  /\ \A i, j \in 1 .. Len(queue) : queue[i] = queue[j] => i = j

IInv == TypeOK /\ todo = [r \in Requests |-> todo[r]] /\ Discipline /\ QueueOK /\ NoConnectionIsLost

USE DEF Served, Step

-----------------------------------------------------------------------------
(* Facts about programs and about counting.                                *)

Words == {"begin", "select", "insert", "update", "upload", "ping", "commit"}

LEMMA Programs ==
  ASSUME NEW k \in DOMAIN Program
  PROVE  /\ Program[k] \in Seq(Words) /\ Len(Program[k]) \in 1 .. 4
         /\ k \in Transactions => Len(Program[k]) = 4
         /\ \A i \in 1 .. Len(Program[k]) :
              /\ Program[k][i] = "begin" => k \in Transactions /\ i = 1
              /\ Program[k][i] = "upload" => k \notin Transactions
              /\ k \in Transactions =>
                   (i = 1 <=> Program[k][i] = "begin") /\ (i = 4 <=> Program[k][i] = "commit")
<1>1. k \in {"createPickup", "complete", "schedule", "confirm", "history", "ready"}
  BY DEF Program
<1>2. CASE k = "createPickup"
  <2>1. Program[k] = <<"begin", "select", "insert", "commit">>
    BY <1>2 DEF Program
  <2> QED BY <1>2, <2>1 DEF Words, Transactions
<1>3. CASE k = "complete"
  <2>1. Program[k] = <<"begin", "update", "insert", "commit">>
    BY <1>3 DEF Program
  <2> QED BY <1>3, <2>1 DEF Words, Transactions
<1>4. CASE k = "schedule"
  <2>1. Program[k] = <<"update", "select">>
    BY <1>4 DEF Program
  <2> QED BY <1>4, <2>1 DEF Words, Transactions
<1>5. CASE k = "confirm"
  <2>1. Program[k] = <<"select", "upload", "update">>
    BY <1>5 DEF Program
  <2> QED BY <1>5, <2>1 DEF Words, Transactions
<1>6. CASE k = "history"
  <2>1. Program[k] = <<"select", "select", "select">>
    BY <1>6 DEF Program
  <2> QED BY <1>6, <2>1 DEF Words, Transactions
<1>7. CASE k = "ready"
  <2>1. Program[k] = <<"ping">>
    BY <1>7 DEF Program
  <2> QED BY <1>7, <2>1 DEF Words, Transactions
<1> QED BY <1>1, <1>2, <1>3, <1>4, <1>5, <1>6, <1>7

LEMMA WhatIsLeft ==
  ASSUME NEW k \in DOMAIN Program, NEW n \in 0 .. 4
  PROVE  /\ Left(k, n) = <<>> <=> n >= Len(Program[k])
         /\ n < Len(Program[k]) =>
              Head(Left(k, n)) = Program[k][n + 1] /\ Tail(Left(k, n)) = Left(k, n + 1)
<1>1. Program[k] \in Seq(Words) /\ Len(Program[k]) \in 1 .. 4
  BY Programs
<1>2. CASE n >= Len(Program[k])
  BY <1>1, <1>2, SubSeqEmpty DEF Left
<1>3. CASE n < Len(Program[k])
  <2>1. n + 1 \in 1 .. Len(Program[k]) /\ Len(Program[k]) \in n + 1 .. Len(Program[k])
    BY <1>1, <1>3
  <2>2. /\ Head(Left(k, n)) = Program[k][n + 1]
        /\ Tail(Left(k, n)) = Left(k, n + 1)
    BY <1>1, <2>1, HeadTailOfSubSeq DEF Left
  <2>3. Len(Left(k, n)) = Len(Program[k]) - n
    BY <1>1, <1>3 DEF Left
  <2> QED BY <1>1, <1>3, <2>2, <2>3
<1> QED BY <1>1, <1>2, <1>3

LEMMA Wholes ==
  /\ Suffix(<<>>)
  /\ \A k \in DOMAIN Program : Suffix(Program[k])
<1>1. \A k \in DOMAIN Program : Program[k] = Left(k, 0)
  BY Programs, SubSeqFull DEF Left
<1>2. "ready" \in DOMAIN Program
  BY DEF Program
<1>3. Left("ready", 4) = <<>>
  <2>1. 4 >= Len(Program["ready"]) /\ 4 \in 0 .. 4
    BY <1>2, Programs
  <2> QED BY <1>2, <2>1, WhatIsLeft
<1> QED BY <1>1, <1>2, <1>3 DEF Suffix

LEMMA Tails ==
  ASSUME NEW w, Suffix(w), w # <<>>
  PROVE  /\ Suffix(Tail(w))
         /\ Head(w) = "begin" => TxRest(Tail(w))
<1>1. PICK k \in DOMAIN Program, n \in 0 .. 4 : w = Left(k, n)
  BY DEF Suffix
<1>2. /\ n < Len(Program[k]) /\ Len(Program[k]) \in 1 .. 4 /\ n + 1 \in 0 .. 4
      /\ Head(w) = Program[k][n + 1] /\ Tail(w) = Left(k, n + 1)
  <2>1. Len(Program[k]) \in 1 .. 4
    BY Programs
  <2>2. n < Len(Program[k])
    BY <1>1, <2>1, WhatIsLeft
  <2>3. Head(Left(k, n)) = Program[k][n + 1] /\ Tail(Left(k, n)) = Left(k, n + 1)
    BY <2>2, WhatIsLeft
  <2> QED BY <1>1, <2>1, <2>2, <2>3
<1>3. Head(w) = "begin" => k \in Transactions /\ n + 1 = 1
  BY <1>2, Programs
<1> QED BY <1>2, <1>3 DEF Suffix, TxRest

LEMMA TxRests ==
  ASSUME NEW w, TxRest(w)
  PROVE  /\ w # <<>> /\ Head(w) \notin {"begin", "upload"}
         /\ Head(w) # "commit" => TxRest(Tail(w))
<1>1. PICK k \in Transactions, n \in 1 .. 3 : w = Left(k, n)
  BY DEF TxRest
<1>2. k \in DOMAIN Program
  BY <1>1 DEF Program, Transactions
<1>3. /\ Len(Program[k]) = 4 /\ n < Len(Program[k]) /\ w # <<>>
      /\ Head(w) = Program[k][n + 1] /\ Tail(w) = Left(k, n + 1)
  <2>1. Len(Program[k]) = 4
    BY <1>1, <1>2, Programs
  <2>2. n \in 0 .. 4 /\ n < Len(Program[k])
    BY <1>1, <2>1
  <2>3. /\ Head(Left(k, n)) = Program[k][n + 1] /\ Tail(Left(k, n)) = Left(k, n + 1)
        /\ Left(k, n) # <<>>
    BY <1>2, <2>2, WhatIsLeft
  <2> QED BY <1>1, <2>1, <2>2, <2>3
<1>4. Head(w) \notin {"begin", "upload"} /\ (Head(w) # "commit" => n + 1 \in 1 .. 3)
  <2>1. n + 1 \in 1 .. Len(Program[k]) /\ n + 1 # 1
    BY <1>3
  <2>2. /\ Program[k][n + 1] # "begin" /\ Program[k][n + 1] # "upload"
        /\ n + 1 = 4 <=> Program[k][n + 1] = "commit"
    BY <1>1, <1>2, <2>1, Programs
  <2> QED BY <1>3, <2>2
<1> QED BY <1>1, <1>3, <1>4 DEF TxRest

Holders == {q \in Requests : held[q] = 1}

LEMMA CountOne ==
  ASSUME NEW r \in Requests, NEW h \in {0, 1}, held \in [Requests -> 0 .. 1],
         held' = [held EXCEPT ![r] = h]
  PROVE  /\ Cardinality(Holders) \in Nat /\ Cardinality(Holders') \in Nat
         /\ Cardinality(Holders') = Cardinality(Holders) + h - held[r]
<1>1. IsFiniteSet(Holders)
  BY FiniteAssumption, FS_Subset DEF Holders
<1>2. Cardinality(Holders) \in Nat
  BY <1>1, FS_CardinalityType
<1>3. held[r] \in {0, 1} /\ (r \in Holders <=> held[r] = 1)
  BY DEF Holders
<1>4. \A q \in Requests : held'[q] = IF q = r THEN h ELSE held[q]
  OBVIOUS
<1>5. CASE h = 1
  <2>1. Holders' = Holders \cup {r}
    BY <1>4, <1>5 DEF Holders
  <2>2. Cardinality(Holders') = IF r \in Holders THEN Cardinality(Holders) ELSE Cardinality(Holders) + 1
    BY <1>1, <2>1, FS_AddElement
  <2> QED BY <1>2, <1>3, <1>5, <2>2
<1>6. CASE h = 0
  <2>1. Holders' = Holders \ {r}
    BY <1>4, <1>6 DEF Holders
  <2>2. Cardinality(Holders') = IF r \in Holders THEN Cardinality(Holders) - 1 ELSE Cardinality(Holders)
    BY <1>1, <2>1, FS_RemoveElement
  <2>3. r \in Holders => Cardinality(Holders) # 0
    BY <1>1, FS_EmptySet
  <2> QED BY <1>1, <1>2, <1>3, <1>6, <2>2, <2>3
<1> QED BY <1>5, <1>6

-----------------------------------------------------------------------------
(* A step of one request.                                                  *)

LEMMA MoveOne ==
  ASSUME IInv, NEW r \in Requests, NEW w, Suffix(w), NEW p \in {"go", "queued", "granted"},
         NEW h \in {0, 1},
         todo' = [todo EXCEPT ![r] = w], phase' = [phase EXCEPT ![r] = p],
         held' = [held EXCEPT ![r] = h],
         inTx' \in SUBSET Requests, \A q \in Requests : q # r => (q \in inTx' <=> q \in inTx),
         lock' \in Requests \cup {None},
         \A q \in Requests : lock' = q => lock = q \/ q = r,
         lock' = r => r \in inTx',
         p # "go" => w # <<>> /\ Head(w) \notin {"upload", "commit"},
         r \in inTx' => p = "go" /\ TxRest(w),
         h = IF r \in inTx' \/ p = "granted" THEN 1 ELSE 0,
         free' = free + held[r] - h, free > 0 \/ h = 0 \/ held[r] = 1,
         queue' \in Seq(Requests), QueueOK'
  PROVE  IInv'
<1>1. \A q \in Requests :
        /\ todo'[q] = IF q = r THEN w ELSE todo[q]
        /\ phase'[q] = IF q = r THEN p ELSE phase[q]
        /\ held'[q] = IF q = r THEN h ELSE held[q]
  BY DEF IInv, TypeOK
<1>2. Discipline'
  BY <1>1 DEF IInv, Discipline
<1>3. NoConnectionIsLost'
  <2>1. free + Cardinality(Holders) = MaxConns
    BY DEF IInv, NoConnectionIsLost, Holders
  <2>2. Cardinality(Holders') = Cardinality(Holders) + h - held[r]
    BY CountOne DEF IInv, TypeOK
  <2>3. free' + Cardinality(Holders') = MaxConns
    <3>1. free \in Nat /\ held[r] \in {0, 1}
      BY PoolAssumption DEF IInv, TypeOK
    <3>2. Cardinality(Holders) \in Nat
      BY CountOne DEF IInv, TypeOK
    <3> QED BY <2>1, <2>2, <3>1, <3>2, PoolAssumption
  <2>4. \A q \in Requests : held'[q] > 0 => todo'[q] # <<>>
    <3>1. h > 0 => w # <<>>
      BY TxRests
    <3>2. \A q \in Requests : q # r /\ held[q] > 0 => todo[q] # <<>>
      BY DEF IInv, NoConnectionIsLost
    <3> QED BY <1>1, <3>1, <3>2
  <2> QED BY <2>3, <2>4 DEF NoConnectionIsLost, Holders
<1>4. free' \in 0 .. MaxConns
  <2>1. free \in Nat /\ held[r] \in {0, 1}
    BY PoolAssumption DEF IInv, TypeOK
  <2>3. Cardinality(Holders') \in Nat
    BY CountOne DEF IInv, TypeOK
  <2>2. free' + Cardinality(Holders') = MaxConns
    BY <1>3 DEF NoConnectionIsLost, Holders
  <2> QED BY <2>1, <2>2, <2>3, PoolAssumption
<1>5. TypeOK'
  <2>1. \A q \in Requests : Suffix(todo'[q])
    <3>1. \A q \in Requests : Suffix(todo[q])
      BY DEF IInv, TypeOK, Suffix, Left
    <3> QED BY <1>1, <3>1
  <2>2. \A q \in Requests :
          \E k \in DOMAIN Program, n \in 0 .. 4 :
            todo'[q] = SubSeq(Program[k], n + 1, Len(Program[k]))
    BY <2>1 DEF Suffix, Left
  <2>3. /\ phase' \in [Requests -> {"go", "queued", "granted"}]
        /\ held' \in [Requests -> 0 .. 1]
    BY DEF IInv, TypeOK
  <2> QED BY <1>4, <2>2, <2>3 DEF TypeOK
<1>6. todo' = [q \in Requests |-> todo'[q]]
  BY DEF IInv
<1> QED BY <1>2, <1>3, <1>5, <1>6 DEF IInv

\* The queue, when a request comes, is served or gives up.

LEMMA SameQueue ==
  ASSUME IInv, NEW r \in Requests, phase[r] # "queued", NEW p,
         phase' = [phase EXCEPT ![r] = p], UNCHANGED queue
  PROVE  queue' \in Seq(Requests) /\ QueueOK'
<1>1. /\ queue \in Seq(Requests) /\ phase \in [Requests -> {"go", "queued", "granted"}]
      /\ \A i \in 1 .. Len(queue) : queue[i] \in Requests /\ phase[queue[i]] = "queued"
  BY DEF IInv, TypeOK, QueueOK
<1>2. \A i \in 1 .. Len(queue) : phase'[queue[i]] = "queued"
  BY <1>1
<1> QED BY <1>1, <1>2 DEF IInv, QueueOK

LEMMA JoinQueue ==
  ASSUME IInv, NEW r \in Requests, phase[r] = "go",
         phase' = [phase EXCEPT ![r] = "queued"], queue' = Append(queue, r)
  PROVE  queue' \in Seq(Requests) /\ QueueOK'
<1>1. /\ queue \in Seq(Requests) /\ phase \in [Requests -> {"go", "queued", "granted"}]
      /\ \A i \in 1 .. Len(queue) : queue[i] \in Requests /\ phase[queue[i]] = "queued"
      /\ \A i, j \in 1 .. Len(queue) : queue[i] = queue[j] => i = j
  BY DEF IInv, TypeOK, QueueOK
<1>2. /\ queue' \in Seq(Requests) /\ Len(queue') = Len(queue) + 1 /\ Len(queue) \in Nat
      /\ \A i \in 1 .. Len(queue) : queue'[i] = queue[i]
      /\ queue'[Len(queue) + 1] = r
  BY <1>1, AppendProperties
<1>3. \A i \in 1 .. Len(queue') : i \in 1 .. Len(queue) \/ i = Len(queue) + 1
  BY <1>2
<1>4. \A i \in 1 .. Len(queue) : queue[i] # r
  BY <1>1
<1>5. \A i \in 1 .. Len(queue') : phase'[queue'[i]] = "queued"
  BY <1>1, <1>2, <1>3
<1>6. \A i, j \in 1 .. Len(queue') : queue'[i] = queue'[j] => i = j
  BY <1>1, <1>2, <1>3, <1>4
<1> QED BY <1>2, <1>5, <1>6 DEF QueueOK

LEMMA Removed ==
  ASSUME NEW S, NEW s \in Seq(S), NEW i \in 1 .. Len(s)
  PROVE  /\ RemoveAt(s, i) \in Seq(S)
         /\ Len(RemoveAt(s, i)) = Len(s) - 1
         /\ \A j \in 1 .. Len(s) - 1 : RemoveAt(s, i)[j] = IF j < i THEN s[j] ELSE s[j + 1]
<1> DEFINE a == SubSeq(s, 1, i - 1)
           b == SubSeq(s, i + 1, Len(s))
<1>1. a \in Seq(S) /\ Len(a) = i - 1 /\ \A j \in 1 .. Len(a) : a[j] = s[j]
  OBVIOUS
<1>2. b \in Seq(S) /\ Len(b) = Len(s) - i /\ \A j \in 1 .. Len(b) : b[j] = s[j + i]
  OBVIOUS
<1>3. RemoveAt(s, i) = a \o b
  BY DEF RemoveAt
<1> HIDE DEF a, b
<1>4. /\ a \o b \in Seq(S) /\ Len(a \o b) = Len(a) + Len(b)
      /\ \A j \in 1 .. Len(a) + Len(b) :
           (a \o b)[j] = IF j <= Len(a) THEN a[j] ELSE b[j - Len(a)]
  BY <1>1, <1>2, ConcatProperties
<1>5. ASSUME NEW j \in 1 .. Len(s) - 1 PROVE (a \o b)[j] = IF j < i THEN s[j] ELSE s[j + 1]
  <2>1. (a \o b)[j] = IF j <= Len(a) THEN a[j] ELSE b[j - Len(a)]
    BY <1>1, <1>2, <1>4
  <2>2. CASE j < i
    BY <1>1, <2>1, <2>2
  <2>3. CASE ~(j < i)
    <3>1. j - Len(a) \in 1 .. Len(b) /\ ~(j <= Len(a)) /\ (j - Len(a)) + i = j + 1
      BY <1>1, <1>2, <2>3
    <3>2. b[j - Len(a)] = s[(j - Len(a)) + i]
      BY <1>2, <3>1
    <3> QED BY <2>1, <2>3, <3>1, <3>2
  <2> QED BY <2>2, <2>3
<1>6. Len(a \o b) = Len(s) - 1
  BY <1>1, <1>2, <1>4
<1> QED BY <1>3, <1>4, <1>5, <1>6

LEMMA LeaveQueue ==
  ASSUME IInv, NEW i \in 1 .. Len(queue), NEW p,
         phase' = [phase EXCEPT ![queue[i]] = p],
         queue' = RemoveAt(queue, i) \/ (i = 1 /\ queue' = Tail(queue))
  PROVE  queue' \in Seq(Requests) /\ QueueOK'
<1>1. /\ queue \in Seq(Requests) /\ phase \in [Requests -> {"go", "queued", "granted"}]
      /\ \A j \in 1 .. Len(queue) : queue[j] \in Requests /\ phase[queue[j]] = "queued"
      /\ \A j, k \in 1 .. Len(queue) : queue[j] = queue[k] => j = k
  BY DEF IInv, TypeOK, QueueOK
<1>2. /\ queue' \in Seq(Requests) /\ Len(queue') = Len(queue) - 1 /\ Len(queue) \in Nat
      /\ \A j \in 1 .. Len(queue) - 1 : queue'[j] = IF j < i THEN queue[j] ELSE queue[j + 1]
  <2>1. CASE queue' = RemoveAt(queue, i)
    <3> DEFINE rest == RemoveAt(queue, i)
    <3>1. /\ rest \in Seq(Requests) /\ Len(rest) = Len(queue) - 1
          /\ \A j \in 1 .. Len(queue) - 1 : rest[j] = IF j < i THEN queue[j] ELSE queue[j + 1]
      BY <1>1, Removed
    <3>2. queue' = rest /\ Len(queue) \in Nat
      BY <1>1, <2>1
    <3> HIDE DEF rest
    <3> QED BY <3>1, <3>2
  <2>2. CASE i = 1 /\ queue' = Tail(queue)
    <3>1. queue # <<>> /\ Len(queue) \in Nat
      BY <1>1
    <3>2. /\ Tail(queue) \in Seq(Requests) /\ Len(Tail(queue)) = Len(queue) - 1
          /\ \A j \in 1 .. Len(Tail(queue)) : Tail(queue)[j] = queue[j + 1]
      BY <1>1, <3>1, HeadTailProperties
    <3>3. \A j \in 1 .. Len(queue) - 1 : ~(j < i)
      BY <2>2
    <3> QED BY <1>1, <2>2, <3>2, <3>3
  <2> QED BY <2>1, <2>2
<1> DEFINE at(j) == IF j < i THEN j ELSE j + 1
<1>3. \A j \in 1 .. Len(queue') :
        at(j) \in 1 .. Len(queue) /\ at(j) # i /\ queue'[j] = queue[at(j)]
  BY <1>2
<1>4. \A j, k \in 1 .. Len(queue') : at(j) = at(k) => j = k
  BY <1>2
<1> HIDE DEF at
<1>5. \A j \in 1 .. Len(queue') : phase'[queue'[j]] = "queued"
  BY <1>1, <1>3
<1>6. \A j, k \in 1 .. Len(queue') : queue'[j] = queue'[k] => j = k
  BY <1>1, <1>3, <1>4
<1> QED BY <1>2, <1>5, <1>6 DEF QueueOK

-----------------------------------------------------------------------------
(* The actions.                                                            *)

LEMMA InitInvariant == Init => IInv
<1> SUFFICES ASSUME Init PROVE IInv
  OBVIOUS
<1>1. Holders = {}
  BY DEF Init, Holders
<1>2. NoConnectionIsLost
  BY <1>1, FS_EmptySet, PoolAssumption DEF Init, NoConnectionIsLost, Holders
<1>3. \A r \in Requests : Suffix(todo[r])
  BY Wholes DEF Init
<1>4. TypeOK
  BY <1>3, PoolAssumption DEF Init, TypeOK, Suffix, Left
<1>5. Discipline
  BY PoolAssumption DEF Init, Discipline
<1>6. QueueOK
  BY DEF Init, QueueOK
<1> QED BY <1>2, <1>4, <1>5, <1>6 DEF IInv, Init

\* What is known of a request.
LEMMA OfRequest ==
  ASSUME IInv, NEW r \in Requests
  PROVE  /\ Suffix(todo[r]) /\ todo = [todo EXCEPT ![r] = todo[r]]
         /\ phase[r] \in {"go", "queued", "granted"}
         /\ phase \in [Requests -> {"go", "queued", "granted"}] /\ held \in [Requests -> 0 .. 1]
         /\ inTx \in SUBSET Requests /\ lock \in Requests \cup {None}
         /\ phase[r] # "go" => Served(r) /\ Step(r) \notin {"upload", "commit"} /\ r \notin inTx
         /\ r \in inTx => phase[r] = "go" /\ TxRest(todo[r]) /\ Served(r)
         /\ held[r] = IF r \in inTx \/ phase[r] = "granted" THEN 1 ELSE 0
         /\ lock = r => r \in inTx
         /\ free \in Nat
<1>1. Suffix(todo[r])
  BY DEF IInv, TypeOK, Suffix, Left
<1>2. r \in inTx => TxRest(todo[r]) /\ Served(r)
  BY TxRests DEF IInv, Discipline
<1>3. free \in Nat
  BY PoolAssumption DEF IInv, TypeOK
<1> QED BY <1>1, <1>2, <1>3 DEF IInv, TypeOK, Discipline

LEMMA ArriveStep ==
  ASSUME IInv, NEW r \in Requests, NEW kind \in Kinds, Arrive(r, kind) PROVE IInv'
<1>1. /\ phase[r] = "go" /\ r \notin inTx /\ held[r] = 0 /\ lock # r
      /\ inTx \in SUBSET Requests /\ lock \in Requests \cup {None}
  BY OfRequest DEF Arrive
<1>2. Suffix(Program[kind])
  BY KindAssumption, Wholes
<1>3. phase' = [phase EXCEPT ![r] = "go"] /\ held' = [held EXCEPT ![r] = 0]
  BY <1>1, OfRequest DEF Arrive
<1>4. todo' = [todo EXCEPT ![r] = Program[kind]] /\ UNCHANGED <<inTx, queue, free, lock>>
  BY DEF Arrive
<1>5. queue' \in Seq(Requests) /\ QueueOK'
  BY <1>1, <1>3, <1>4, SameQueue
<1>6. free' = free + held[r] - 0
  BY <1>1, <1>4, OfRequest
<1> QED BY <1>1, <1>2, <1>3, <1>4, <1>5, <1>6, MoveOne

\* A request is granted a connection.
LEMMA Granted ==
  ASSUME IInv, NEW r \in Requests, Served(r), NeedsConnection(r) \/ phase[r] = "queued",
         phase[r] # "granted", free > 0, Take(r), UNCHANGED <<todo, inTx, lock>>,
         queue' \in Seq(Requests), QueueOK'
  PROVE  IInv'
<1>1. /\ r \notin inTx /\ Step(r) \notin {"upload", "commit"} /\ held[r] = 0 /\ lock # r
      /\ Suffix(todo[r]) /\ inTx \in SUBSET Requests /\ lock \in Requests \cup {None}
      /\ free \in Nat
  BY OfRequest DEF NeedsConnection
<1>2. todo' = [todo EXCEPT ![r] = todo[r]]
  BY OfRequest
<1>3. /\ phase' = [phase EXCEPT ![r] = "granted"]
      /\ held' = [held EXCEPT ![r] = 1]
      /\ free' = free + held[r] - 1
  BY <1>1 DEF Take
<1> QED BY <1>1, <1>2, <1>3, MoveOne

LEMMA AcquireStep == ASSUME IInv, NEW r \in Requests, Acquire(r) PROVE IInv'
<1>1. Served(r) /\ phase[r] = "go" /\ NeedsConnection(r) /\ UNCHANGED <<todo, inTx, lock>>
  BY DEF Acquire
<1>2. CASE free > 0 /\ queue = <<>> /\ Take(r) /\ UNCHANGED queue
  <2>1. queue' \in Seq(Requests) /\ QueueOK'
    BY <1>1, <1>2, SameQueue DEF Take
  <2> QED BY <1>1, <1>2, <2>1, Granted
<1>3. CASE /\ phase' = [phase EXCEPT ![r] = "queued"]
           /\ queue' = Append(queue, r)
           /\ UNCHANGED <<held, free>>
  <2>1. queue' \in Seq(Requests) /\ QueueOK'
    BY <1>1, <1>3, JoinQueue
  <2>2. /\ r \notin inTx /\ Step(r) \notin {"upload", "commit"} /\ held[r] = 0 /\ lock # r
        /\ Suffix(todo[r]) /\ inTx \in SUBSET Requests /\ lock \in Requests \cup {None}
        /\ free \in Nat
    BY <1>1, OfRequest DEF NeedsConnection
  <2>3. todo' = [todo EXCEPT ![r] = todo[r]] /\ held' = [held EXCEPT ![r] = 0]
    BY <1>1, <1>3, <2>2, OfRequest
  <2>4. free' = free + held[r] - 0
    BY <1>3, <2>2
  <2> QED BY <1>1, <1>3, <2>1, <2>2, <2>3, <2>4, MoveOne
<1> QED BY <1>2, <1>3 DEF Acquire

LEMMA GrantStep == ASSUME IInv, Grant PROVE IInv'
<1>1. /\ queue # <<>> /\ free > 0 /\ Take(Head(queue)) /\ queue' = Tail(queue)
      /\ UNCHANGED <<todo, inTx, lock>>
  BY DEF Grant
<1>2. /\ 1 \in 1 .. Len(queue) /\ Head(queue) = queue[1] /\ queue[1] \in Requests
      /\ phase[queue[1]] = "queued"
  BY <1>1 DEF IInv, TypeOK, QueueOK
<1>3. queue' \in Seq(Requests) /\ QueueOK'
  BY <1>1, <1>2, LeaveQueue DEF Take
<1>4. Served(queue[1]) /\ Take(queue[1])
  BY <1>1, <1>2, OfRequest
<1> QED BY <1>1, <1>2, <1>3, <1>4, Granted

LEMMA BeginStep == ASSUME IInv, NEW r \in Requests, Begin(r) PROVE IInv'
<1>1. /\ Served(r) /\ Step(r) = "begin" /\ inTx' = inTx \cup {r}
      /\ todo' = [todo EXCEPT ![r] = Tail(todo[r])] /\ phase' = [phase EXCEPT ![r] = "go"]
      /\ UNCHANGED <<held, queue, free, lock>>
      /\ phase[r] = "granted" \/ (phase[r] = "go" /\ ~NeedsConnection(r))
  BY DEF Begin, MayExecute, Finish
<1>2. r \notin inTx
  BY <1>1, TxRests, OfRequest
<1>3. phase[r] = "granted" /\ held[r] = 1 /\ lock # r /\ lock \in Requests \cup {None}
  BY <1>1, <1>2, OfRequest DEF NeedsConnection
<1>4. Suffix(Tail(todo[r])) /\ TxRest(Tail(todo[r]))
  BY <1>1, Tails, OfRequest
<1>5. held' = [held EXCEPT ![r] = 1] /\ free' = free + held[r] - 1
  BY <1>1, <1>3, OfRequest
<1>6. queue' \in Seq(Requests) /\ QueueOK'
  BY <1>1, <1>3, SameQueue
<1>7. inTx' \in SUBSET Requests /\ \A q \in Requests : q # r => (q \in inTx' <=> q \in inTx)
  BY <1>1, OfRequest
<1>8. r \in inTx'
  BY <1>1
<1> QED BY <1>1, <1>3, <1>4, <1>5, <1>6, <1>7, <1>8, MoveOne

\* A statement in a transaction keeps its connection, any other gives it back.
LEMMA StatementStep == ASSUME IInv, NEW r \in Requests, Statement(r) PROVE IInv'
<1>1. /\ Served(r) /\ Step(r) \in {"select", "insert", "update", "ping"} /\ GiveBack(r)
      /\ todo' = [todo EXCEPT ![r] = Tail(todo[r])] /\ phase' = [phase EXCEPT ![r] = "go"]
      /\ lock' = IF Step(r) = "update" /\ r \in inTx THEN r ELSE lock
      /\ UNCHANGED <<inTx, queue>>
      /\ phase[r] = "granted" \/ (phase[r] = "go" /\ ~NeedsConnection(r))
  BY DEF Statement, MayExecute, Finish
<1>2. Suffix(Tail(todo[r])) /\ (r \in inTx => TxRest(Tail(todo[r])))
  BY <1>1, Tails, TxRests, OfRequest
<1>3. queue' \in Seq(Requests) /\ QueueOK'
  BY <1>1, SameQueue
<1>4. /\ lock' \in Requests \cup {None} /\ (lock' = r => r \in inTx')
      /\ \A q \in Requests : lock' = q => lock = q \/ q = r
      /\ inTx' \in SUBSET Requests
  BY <1>1, OfRequest
<1>5. CASE phase[r] = "granted"
  <2>1. r \notin inTx /\ held[r] = 1 /\ free \in Nat
    BY <1>5, OfRequest
  <2>2. held' = [held EXCEPT ![r] = 0] /\ free' = free + held[r] - 0
    BY <1>1, <1>5, <2>1 DEF GiveBack
  <2> QED BY <1>1, <1>2, <1>3, <1>4, <2>1, <2>2, MoveOne
<1>6. CASE phase[r] = "go"
  <2>1. r \in inTx /\ held[r] = 1 /\ free \in Nat
    BY <1>1, <1>6, OfRequest DEF NeedsConnection
  <2>2. held' = [held EXCEPT ![r] = 1] /\ free' = free + held[r] - 1
    BY <1>1, <1>6, <2>1, OfRequest DEF GiveBack
  <2> QED BY <1>1, <1>2, <1>3, <1>4, <2>1, <2>2, MoveOne
<1> QED BY <1>1, <1>5, <1>6

LEMMA UploadStep == ASSUME IInv, NEW r \in Requests, Upload(r) PROVE IInv'
<1>1. /\ Served(r) /\ Step(r) = "upload"
      /\ todo' = [todo EXCEPT ![r] = Tail(todo[r])] /\ phase' = [phase EXCEPT ![r] = "go"]
      /\ UNCHANGED <<held, inTx, queue, free, lock>>
  BY DEF Upload, MayExecute, Finish
<1>2. /\ r \notin inTx /\ phase[r] = "go" /\ held[r] = 0 /\ lock # r
      /\ inTx \in SUBSET Requests /\ lock \in Requests \cup {None} /\ free \in Nat
  BY <1>1, TxRests, OfRequest
<1>3. Suffix(Tail(todo[r]))
  BY <1>1, Tails, OfRequest
<1>4. held' = [held EXCEPT ![r] = 0] /\ free' = free + held[r] - 0
  BY <1>1, <1>2, OfRequest
<1>5. queue' \in Seq(Requests) /\ QueueOK'
  BY <1>1, <1>2, SameQueue
<1> QED BY <1>1, <1>2, <1>3, <1>4, <1>5, MoveOne

\* A request ends: with its transaction, with its connection, or in the queue.
LEMMA EndStep ==
  ASSUME IInv, NEW r \in Requests, EndTx(r), Release(r), Finish(r, <<>>),
         queue' \in Seq(Requests), QueueOK'
  PROVE  IInv'
<1>1. /\ todo' = [todo EXCEPT ![r] = <<>>] /\ phase' = [phase EXCEPT ![r] = "go"]
      /\ held' = [held EXCEPT ![r] = 0] /\ inTx' = inTx \ {r}
      /\ lock' = IF lock = r THEN None ELSE lock
  BY DEF EndTx, Release, Finish
<1>2. free' = free + held[r] - 0
  BY OfRequest DEF Release
<1>3. r \notin inTx' /\ \A q \in Requests : q # r => (q \in inTx' <=> q \in inTx)
  BY <1>1
<1>4. /\ inTx' \in SUBSET Requests /\ lock' \in Requests \cup {None} /\ lock' # r
      /\ \A q \in Requests : lock' = q => lock = q \/ q = r
  BY <1>1, OfRequest, PoolAssumption
<1> QED BY <1>1, <1>2, <1>3, <1>4, Wholes, MoveOne

LEMMA EndSteps ==
  ASSUME IInv, NEW r \in Requests, Commit(r) \/ Fail(r) \/ Leave(r) PROVE IInv'
<1>1. CASE Commit(r) \/ Fail(r)
  <2>1. /\ EndTx(r) /\ Release(r) /\ Finish(r, <<>>) /\ UNCHANGED queue
        /\ phase[r] # "queued"
    BY <1>1 DEF Commit, Fail, MayExecute
  <2>2. queue' \in Seq(Requests) /\ QueueOK'
    BY <2>1, SameQueue DEF Finish
  <2> QED BY <2>1, <2>2, EndStep
<1>2. CASE Leave(r)
  <2>1. EndTx(r) /\ Release(r) /\ Finish(r, <<>>)
    BY <1>2 DEF Leave
  <2>2. PICK i \in 1 .. Len(queue) : queue[i] = r /\ queue' = RemoveAt(queue, i)
    BY <1>2 DEF Leave, IInv, TypeOK
  <2>3. queue' \in Seq(Requests) /\ QueueOK'
    BY <2>1, <2>2, LeaveQueue DEF Finish
  <2> QED BY <2>1, <2>3, EndStep
<1> QED BY <1>1, <1>2

LEMMA StepKeepsInvariant == ASSUME IInv, [Next]_vars PROVE IInv'
<1>1. CASE Next
  BY <1>1, ArriveStep, AcquireStep, GrantStep, BeginStep, StatementStep, UploadStep, EndSteps
     DEF Next, Execute
<1>2. CASE UNCHANGED vars
  BY <1>2 DEF vars, IInv, TypeOK, Discipline, QueueOK, NoConnectionIsLost
<1> QED BY <1>1, <1>2

LEMMA Invariance == Spec => []IInv
  BY InitInvariant, StepKeepsInvariant, PTL DEF Spec

\* Nobody occupies two connections, and the pool never hands out more than it has.
THEOREM PoolIsTyped == Spec => []TypeOK
<1>1. IInv => TypeOK
  BY DEF IInv
<1> QED BY <1>1, Invariance, PTL

\* Only a granted request or a transaction occupies a connection, and neither
\* waits for another one or for the store.
THEOREM NobodyHoldsAndWaits == Spec => []WaitersHoldNothing
<1>1. IInv => WaitersHoldNothing
  <2> SUFFICES ASSUME IInv, NEW r \in Requests,
                      phase[r] = "queued" \/ (Served(r) /\ Step(r) = "upload")
               PROVE  held[r] = 0 /\ r \notin inTx /\ lock # r
    BY DEF WaitersHoldNothing
  <2> QED BY OfRequest, TxRests
<1> QED BY <1>1, Invariance, PTL

\* A connection goes back whichever way a request ends.
THEOREM ConnectionsReturn == Spec => []NoConnectionIsLost
<1>1. IInv => NoConnectionIsLost
  BY DEF IInv
<1> QED BY <1>1, Invariance, PTL
=============================================================================
