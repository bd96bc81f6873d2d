------------------------------ MODULE ConnPool ------------------------------
(***************************************************************************)
(* Requests and the pool of database connections                           *)
(* (internal/adapter/out/postgres/tx.go and pool.go).  A statement outside *)
(* a transaction takes a connection and gives it back; a transaction keeps *)
(* one from Begin to its end, and Executor sends the statements of its     *)
(* context through it.  pgxpool is external: it hands connections to       *)
(* waiting requests in the order they asked.  One row of the database can  *)
(* be locked, which makes updates wait while they occupy a connection.     *)
(***************************************************************************)
EXTENDS Naturals, SequencesExt, FiniteSets

CONSTANTS
  Requests,   \* requests served at the same time, the worker's run among them
  Kinds,      \* what they do in this instance
  MaxConns,   \* POSTGRES_MAX_CONNS
  None

ASSUME PoolAssumption == MaxConns \in Nat \ {0} /\ None \notin Requests

ASSUME FiniteAssumption == IsFiniteSet(Requests)

\* What the services execute, as far as connections and locks matter; any of
\* them may end early (not found, a refused update, an error).
Program ==
  [createPickup  |-> <<"begin", "select", "insert", "commit">>,
   complete      |-> <<"begin", "update", "insert", "commit">>,
   schedule      |-> <<"update", "select">>,
   confirm       |-> <<"select", "upload", "update">>,
   history       |-> <<"select", "select", "select">>,
   ready         |-> <<"ping">>]

ASSUME KindAssumption == Kinds \subseteq DOMAIN Program

VARIABLES
  todo,    \* request -> what it has left to do; empty when it is not served
  phase,   \* request -> "go", "queued" for a connection, or "granted" one
  held,    \* request -> how many connections it occupies
  inTx,    \* requests whose context carries a transaction
  queue,   \* requests waiting for a connection, first come first served
  free,    \* connections nobody occupies
  lock     \* the request whose transaction has locked the row, or None

vars == <<todo, phase, held, inTx, queue, free, lock>>

TypeOK ==
  /\ \A r \in Requests :
       \E k \in DOMAIN Program, n \in 0 .. 4 :
         todo[r] = SubSeq(Program[k], n + 1, Len(Program[k]))
  /\ phase \in [Requests -> {"go", "queued", "granted"}]
  /\ held \in [Requests -> 0 .. 1]
  /\ inTx \in SUBSET Requests
  /\ queue \in Seq(Requests)
  /\ free \in 0 .. MaxConns
  /\ lock \in Requests \cup {None}

Init ==
  /\ todo = [r \in Requests |-> <<>>]
  /\ phase = [r \in Requests |-> "go"]
  /\ held = [r \in Requests |-> 0]
  /\ inTx = {}
  /\ queue = <<>>
  /\ free = MaxConns
  /\ lock = None

Served(r) == todo[r] # <<>>
Step(r) == Head(todo[r])

Arrive(r, kind) ==
  /\ ~Served(r)
  /\ todo' = [todo EXCEPT ![r] = Program[kind]]
  /\ UNCHANGED <<phase, held, inTx, queue, free, lock>>

\* statements inside a transaction go to the pool, too
BugNeedsConnection(r) == Step(r) \notin {"upload", "commit"}

\* Begin, and a statement whose context carries no transaction
NeedsConnection(r) == Step(r) \notin {"upload", "commit"} /\ r \notin inTx

-----------------------------------------------------------------------------
(* The pool.                                                               *)

Take(r) ==
  /\ phase' = [phase EXCEPT ![r] = "granted"]
  /\ held' = [held EXCEPT ![r] = @ + 1]
  /\ free' = free - 1

Acquire(r) ==
  /\ Served(r)
  /\ phase[r] = "go"
  /\ NeedsConnection(r)
  /\ \/ free > 0 /\ queue = <<>> /\ Take(r) /\ UNCHANGED queue
     \/ /\ free = 0 \/ queue # <<>>
        /\ phase' = [phase EXCEPT ![r] = "queued"]
        /\ queue' = Append(queue, r)
        /\ UNCHANGED <<held, free>>
  /\ UNCHANGED <<todo, inTx, lock>>

Grant ==
  /\ queue # <<>>
  /\ free > 0
  /\ Take(Head(queue))
  /\ queue' = Tail(queue)
  /\ UNCHANGED <<todo, inTx, lock>>

-----------------------------------------------------------------------------
(* Requests.                                                               *)

MayExecute(r) ==
  /\ Served(r)
  /\ phase[r] = "granted" \/ (phase[r] = "go" /\ ~NeedsConnection(r))

Finish(r, rest) ==
  /\ todo' = [todo EXCEPT ![r] = rest]
  /\ phase' = [phase EXCEPT ![r] = "go"]

Release(r) ==
  /\ held' = [held EXCEPT ![r] = 0]
  /\ free' = free + held[r]

\* TxManager.Do keeps the connection it begins on.
Begin(r) ==
  /\ MayExecute(r)
  /\ Step(r) = "begin"
  /\ inTx' = inTx \cup {r}
  /\ Finish(r, Tail(todo[r]))
  /\ UNCHANGED <<held, queue, free, lock>>

\* keeps the connection until the request ends
BugGiveBack(r) == UNCHANGED <<held, free>>

\* after a statement, unless it ran in a transaction
GiveBack(r) ==
  IF phase[r] = "granted"
    THEN held' = [held EXCEPT ![r] = @ - 1] /\ free' = free + 1
    ELSE UNCHANGED <<held, free>>

Statement(r) ==
  /\ MayExecute(r)
  /\ Step(r) \in {"select", "insert", "update", "ping"}
  /\ Step(r) = "update" => lock = None
  /\ lock' = IF Step(r) = "update" /\ r \in inTx THEN r ELSE lock
  /\ GiveBack(r)
  /\ Finish(r, Tail(todo[r]))
  /\ UNCHANGED <<inTx, queue>>

\* PUT of the proof: no business of the database
Upload(r) ==
  /\ MayExecute(r)
  /\ Step(r) = "upload"
  /\ Finish(r, Tail(todo[r]))
  /\ UNCHANGED <<held, inTx, queue, free, lock>>

EndTx(r) ==
  /\ inTx' = inTx \ {r}
  /\ lock' = IF lock = r THEN None ELSE lock

Commit(r) ==
  /\ MayExecute(r)
  /\ Step(r) = "commit"
  /\ EndTx(r)
  /\ Release(r)
  /\ Finish(r, <<>>)
  /\ UNCHANGED queue

\* an error inside a transaction is returned without a rollback
BugFail(r) ==
  /\ Served(r)
  /\ phase[r] # "queued"
  /\ EndTx(r)
  /\ IF r \in inTx THEN held' = [held EXCEPT ![r] = 0] /\ UNCHANGED free ELSE Release(r)
  /\ Finish(r, <<>>)
  /\ UNCHANGED queue

\* The request ends where it is: a statement, Begin or Commit reports an error
\* or no row, or the deadline passes.  Do rolls its transaction back.
Fail(r) ==
  /\ Served(r)
  /\ phase[r] # "queued"
  /\ EndTx(r)
  /\ Release(r)
  /\ Finish(r, <<>>)
  /\ UNCHANGED queue

\* The deadline passes while the request waits for a connection.
Leave(r) ==
  /\ phase[r] = "queued"
  /\ \E i \in DOMAIN queue : queue[i] = r /\ queue' = RemoveAt(queue, i)
  /\ EndTx(r)
  /\ Release(r)
  /\ Finish(r, <<>>)

Execute(r) == Begin(r) \/ Statement(r) \/ Upload(r) \/ Commit(r)

Next ==
  \/ \E r \in Requests :
       \/ \E kind \in Kinds : Arrive(r, kind)
       \/ Acquire(r) \/ Execute(r) \/ Fail(r) \/ Leave(r)
  \/ Grant

Spec == Init /\ [][Next]_vars

\* A request that can take its next step takes it: goroutines are scheduled and
\* the database answers; an update that waits for a row lock gets it when it is
\* free again and again.  No use is made of deadlines and errors.
Fairness ==
  /\ \A r \in Requests : WF_vars(Acquire(r)) /\ SF_vars(Execute(r))
  /\ WF_vars(Grant)

FairSpec == Spec /\ Fairness

-----------------------------------------------------------------------------
\* A request that waits for a connection, or for the store while it uploads a
\* proof, occupies no connection and blocks nobody in the database: Executor
\* never asks the pool inside a transaction, the services finish one statement
\* before they start the next, and Confirm uploads outside any transaction.
WaitersHoldNothing ==
  \A r \in Requests :
    phase[r] = "queued" \/ (Served(r) /\ Step(r) = "upload") =>
      held[r] = 0 /\ r \notin inTx /\ lock # r

\* Every connection is free or occupied by a request being served, however
\* requests end.
NoConnectionIsLost ==
  /\ free + Cardinality({r \in Requests : held[r] = 1}) = MaxConns
  /\ \A r \in Requests : held[r] > 0 => Served(r)

\* Every request ends, even if there are fewer connections than requests.
EveryRequestIsServed == \A r \in Requests : Served(r) ~> ~Served(r)
=============================================================================
