--------------------------- MODULE LifecycleProofs ---------------------------
(***************************************************************************)
(* Whatever the order in which the goroutines of App.Run start, fail and   *)
(* return, when the signal arrives and what clients do: the pool is open   *)
(* as long as anybody can use it, and only the shutdown deadline or a      *)
(* ticker's panic cuts a request off.  Any number of requests, any         *)
(* intervals, negative ones too.                                           *)
(***************************************************************************)
EXTENDS Lifecycle, TLAPS

Goroutines == {listener, worker, janitor, stopper}

\* Before Run there are no goroutines and no clients.
NotYetRunning ==
  main \in {"pool", "storage", "run"} =>
    /\ Goroutines = {"none"}
    /\ err = "none"
    /\ serving = {}
    /\ main # "pool" => pool = "open"
    /\ main = "pool" => pool = "none"

\* Only what runs under Run uses the pool.
UsersAreRunning ==
  /\ main = "wait" => pool = "open"
  /\ serving # {} \/ worker = "running" => main = "wait"
  /\ Alive => cut = {}

\* Requests are served while the listener is open or after it was; Shutdown
\* closes it, or comes too early for it.
ListenerIsStopped ==
  /\ listener \in {"none", "starting"} => serving = {}
  /\ stopper = "draining" => listener \in {"closed", "returned"}
  /\ listener = "closed" => stopper \in {"draining", "returned"}
  /\ listener = "returned" /\ err = "none" => stopper \in {"draining", "returned"}

\* When Shutdown has closed the listener and its deadline has not passed, nobody
\* is served; nor when the port was taken.
ShutdownDrains ==
  /\ listener \in {"closed", "returned"} /\ stopper = "returned" /\ err # "deadline"
       => serving = {}
  /\ err = "port" => serving = {} /\ listener = "returned"

\* What Wait, and then Close, leave behind.
EndsInOrder ==
  /\ main \in {"close", "stopped"} => AllReturned /\ err = "none" /\ cut = {}
  /\ main = "close" => pool \in {"open", "closed"}
  /\ main = "stopped" => pool = "closed"
  /\ main = "startup" => pool # "open" /\ cut = {}
  /\ main = "fatal" => err # "none"
  /\ cut # {} => (main = "fatal" /\ err = "deadline") \/ main = "panic"
  /\ main = "panic" => interval <= 0

IInv ==
  /\ TypeOK
  /\ NotYetRunning
  /\ UsersAreRunning
  /\ ListenerIsStopped
  /\ ShutdownDrains
  /\ EndsInOrder

-----------------------------------------------------------------------------
USE DEF Ended, Alive, group, clients, Exit, Raise, Goroutines

LEMMA InitInvariant == Init => IInv
BY DEF Init, IInv, TypeOK, NotYetRunning, UsersAreRunning, ListenerIsStopped,
       ShutdownDrains, EndsInOrder, AllReturned

LEMMA SignalKeeps == ASSUME IInv, Signal PROVE IInv'
BY DEF Signal, IInv, TypeOK, NotYetRunning, UsersAreRunning, ListenerIsStopped,
       ShutdownDrains, EndsInOrder, AllReturned

\* The main goroutine.
LEMMA StartupKeeps == ASSUME IInv, ConnectPool \/ ConnectStorage PROVE IInv'
<1>1. main \in {"pool", "storage"}
  BY DEF ConnectPool, ConnectStorage
<1>2. TypeOK'
  BY DEF IInv, TypeOK, ConnectPool, ConnectStorage, StorageFails
<1>3. NotYetRunning' /\ UsersAreRunning'
  BY <1>1 DEF IInv, NotYetRunning, UsersAreRunning, ConnectPool, ConnectStorage, StorageFails
<1>4. ListenerIsStopped' /\ ShutdownDrains'
  BY <1>1 DEF IInv, NotYetRunning, ListenerIsStopped, ShutdownDrains, ConnectPool,
              ConnectStorage, StorageFails
<1>5. EndsInOrder'
  BY <1>1 DEF IInv, NotYetRunning, UsersAreRunning, EndsInOrder, ConnectPool,
              ConnectStorage, StorageFails
<1>6. QED
  BY <1>2, <1>3, <1>4, <1>5 DEF IInv

LEMMA RunKeeps == ASSUME IInv, Run PROVE IInv'
<1>1. TypeOK'
  BY DEF IInv, TypeOK, Run
<1>2. NotYetRunning' /\ UsersAreRunning' /\ ListenerIsStopped'
  BY DEF IInv, NotYetRunning, UsersAreRunning, ListenerIsStopped, Run
<1>3. ShutdownDrains' /\ EndsInOrder'
  BY DEF IInv, NotYetRunning, UsersAreRunning, ShutdownDrains, EndsInOrder, Run
<1>4. QED
  BY <1>1, <1>2, <1>3 DEF IInv

\* Wait returns without an error: Shutdown has drained what the listener let in.
LEMMA NobodyIsServedAfterWait ==
  ASSUME IInv, AllReturned, err = "none"
  PROVE  serving = {} /\ worker # "running"
BY DEF IInv, ShutdownDrains, AllReturned

LEMMA WaitReturnsKeeps == ASSUME IInv, WaitReturns PROVE IInv'
<1>1. main = "wait" /\ AllReturned /\ UNCHANGED <<pool, signaled, group, interval>>
  BY DEF WaitReturns
<1>2. CASE err # "none" /\ Exit("fatal")
  <2>1. TypeOK'
    BY <1>1, <1>2 DEF IInv, TypeOK
  <2>2. NotYetRunning' /\ UsersAreRunning' /\ ListenerIsStopped'
    BY <1>1, <1>2 DEF IInv, NotYetRunning, UsersAreRunning, ListenerIsStopped, AllReturned
  <2>3. ShutdownDrains' /\ EndsInOrder'
    BY <1>1, <1>2 DEF IInv, UsersAreRunning, ShutdownDrains, EndsInOrder, AllReturned
  <2>4. QED
    BY <2>1, <2>2, <2>3 DEF IInv
<1>3. CASE err = "none" /\ main' = "close" /\ UNCHANGED clients
  <2>1. serving = {} /\ worker # "running"
    BY <1>1, <1>3, NobodyIsServedAfterWait
  <2>2. TypeOK'
    BY <1>1, <1>3 DEF IInv, TypeOK
  <2>3. NotYetRunning' /\ UsersAreRunning' /\ ListenerIsStopped'
    BY <1>1, <1>3, <2>1 DEF IInv, NotYetRunning, UsersAreRunning, ListenerIsStopped
  <2>4. ShutdownDrains' /\ EndsInOrder'
    BY <1>1, <1>3 DEF IInv, UsersAreRunning, ShutdownDrains, EndsInOrder, AllReturned
  <2>5. QED
    BY <2>2, <2>3, <2>4 DEF IInv
<1>4. QED
  BY <1>2, <1>3 DEF WaitReturns

LEMMA CloseKeeps == ASSUME IInv, Close PROVE IInv'
<1>1. /\ main = "close" /\ AllReturned /\ serving = {} /\ cut = {}
      /\ UNCHANGED <<signaled, group, interval>>
  BY DEF Close, IInv, EndsInOrder, UsersAreRunning
<1>2. TypeOK'
  BY <1>1 DEF Close, IInv, TypeOK
<1>3. NotYetRunning' /\ UsersAreRunning' /\ ListenerIsStopped'
  BY <1>1 DEF Close, IInv, NotYetRunning, UsersAreRunning, ListenerIsStopped, AllReturned
<1>4. ShutdownDrains' /\ EndsInOrder'
  BY <1>1 DEF Close, IInv, ShutdownDrains, EndsInOrder, AllReturned
<1>5. QED
  BY <1>2, <1>3, <1>4 DEF IInv

\* A goroutine that is under way is one that Run started and Wait waits for.
LEMMA UnderWayIsAwaited ==
  ASSUME IInv, Alive, Goroutines \cap {"starting", "open", "closed", "waiting",
                                       "running", "draining"} # {}
  PROVE  main = "wait" /\ pool = "open" /\ cut = {}
<1>1. main # "close" /\ main \notin {"pool", "storage", "run"}
  BY DEF IInv, NotYetRunning, EndsInOrder, AllReturned
<1>2. QED
  BY <1>1 DEF IInv, TypeOK, UsersAreRunning

\* The HTTP server.
LEMMA ListenKeeps == ASSUME IInv, Listen \/ ListenReturns PROVE IInv'
<1>1. /\ main = "wait" /\ pool = "open" /\ cut = {}
      /\ UNCHANGED <<main, pool, signaled, worker, janitor, stopper, clients, interval>>
  BY UnderWayIsAwaited DEF Listen, ListenReturns
<1>2. TypeOK'
  BY <1>1 DEF IInv, TypeOK, Listen, ListenReturns
<1>3. NotYetRunning' /\ UsersAreRunning' /\ EndsInOrder'
  BY <1>1 DEF IInv, NotYetRunning, UsersAreRunning, EndsInOrder
<1>4. ListenerIsStopped' /\ ShutdownDrains'
  BY <1>1 DEF IInv, TypeOK, ListenerIsStopped, ShutdownDrains, Listen, ListenReturns
<1>5. QED
  BY <1>2, <1>3, <1>4 DEF IInv

LEMMA ClientsKeep ==
  ASSUME IInv, NEW r \in Requests, Accept(r) \/ Answer(r) PROVE IInv'
<1>1. UNCHANGED <<main, pool, signaled, group, cut, interval>>
  BY DEF Accept, Answer
<1>2. main = "wait"
  BY UnderWayIsAwaited DEF Accept, Answer, IInv, UsersAreRunning
<1>3. TypeOK'
  BY <1>1 DEF IInv, TypeOK, Accept, Answer
<1>4. NotYetRunning' /\ UsersAreRunning' /\ EndsInOrder'
  BY <1>1, <1>2 DEF IInv, NotYetRunning, UsersAreRunning, EndsInOrder
<1>5. ListenerIsStopped' /\ ShutdownDrains'
  BY <1>1 DEF IInv, ListenerIsStopped, ShutdownDrains, Accept, Answer
<1>6. QED
  BY <1>3, <1>4, <1>5 DEF IInv

LEMMA BeginShutdownKeeps == ASSUME IInv, BeginShutdown PROVE IInv'
<1>1. /\ main = "wait" /\ stopper = "waiting"
      /\ UNCHANGED <<main, pool, signaled, err, worker, janitor, clients, interval>>
      /\ \/ listener = "open" /\ stopper' = "draining" /\ listener' = "closed"
         \/ listener # "open" /\ stopper' = "returned" /\ UNCHANGED listener
  BY UnderWayIsAwaited DEF BeginShutdown
<1>2. TypeOK'
  BY <1>1 DEF IInv, TypeOK
<1>3. NotYetRunning' /\ UsersAreRunning' /\ EndsInOrder'
  BY <1>1 DEF IInv, NotYetRunning, UsersAreRunning, EndsInOrder
<1>4. ListenerIsStopped' /\ ShutdownDrains'
  BY <1>1 DEF IInv, TypeOK, ListenerIsStopped, ShutdownDrains
<1>5. QED
  BY <1>2, <1>3, <1>4 DEF IInv

LEMMA ShutdownEndsKeeps == ASSUME IInv, EndShutdown \/ ShutdownExpires PROVE IInv'
<1>1. /\ main = "wait" /\ stopper = "draining" /\ stopper' = "returned"
      /\ UNCHANGED <<main, pool, signaled, listener, worker, janitor, clients, interval>>
      /\ \/ serving = {} /\ UNCHANGED err
         \/ err' = IF err = "none" THEN "deadline" ELSE err
  BY UnderWayIsAwaited DEF EndShutdown, ShutdownExpires, Drained
<1>2. TypeOK'
  BY <1>1 DEF IInv, TypeOK
<1>3. NotYetRunning' /\ UsersAreRunning' /\ EndsInOrder'
  BY <1>1 DEF IInv, NotYetRunning, UsersAreRunning, EndsInOrder
<1>4. ListenerIsStopped' /\ ShutdownDrains'
  BY <1>1 DEF IInv, TypeOK, ListenerIsStopped, ShutdownDrains
<1>5. QED
  BY <1>2, <1>3, <1>4 DEF IInv

\* The worker and the janitor.
LEMMA StartWorkerKeeps == ASSUME IInv, StartWorker PROVE IInv'
<1>1. /\ main = "wait" /\ pool = "open" /\ cut = {} /\ worker = "starting"
      /\ UNCHANGED <<pool, signaled, err, listener, janitor, stopper, interval>>
      /\ \/ worker' = "waiting" /\ UNCHANGED <<main, clients>>
         \/ interval <= 0 /\ Exit("panic") /\ UNCHANGED worker
  BY UnderWayIsAwaited DEF StartWorker
<1>2. TypeOK'
  BY <1>1 DEF IInv, TypeOK
<1>3. NotYetRunning' /\ UsersAreRunning' /\ EndsInOrder'
  BY <1>1 DEF IInv, NotYetRunning, UsersAreRunning, EndsInOrder
<1>4. ListenerIsStopped' /\ ShutdownDrains'
  BY <1>1 DEF IInv, ListenerIsStopped, ShutdownDrains
<1>5. QED
  BY <1>2, <1>3, <1>4 DEF IInv

LEMMA WorkerKeeps ==
  ASSUME IInv, WorkerTicks \/ JobEnds \/ WorkerReturns \/ JanitorReturns PROVE IInv'
<1>1. /\ main = "wait" /\ UNCHANGED <<main, pool, signaled, err, listener, stopper>>
      /\ UNCHANGED <<clients, interval>>
  BY UnderWayIsAwaited
     DEF WorkerTicks, JobEnds, WorkerReturns, WorkerStops, JanitorReturns
<1>2. TypeOK'
  BY <1>1 DEF IInv, TypeOK, WorkerTicks, JobEnds, WorkerReturns, JanitorReturns
<1>3. NotYetRunning' /\ UsersAreRunning' /\ EndsInOrder'
  BY <1>1 DEF IInv, NotYetRunning, UsersAreRunning, EndsInOrder
<1>4. ListenerIsStopped' /\ ShutdownDrains'
  BY <1>1 DEF IInv, ListenerIsStopped, ShutdownDrains
<1>5. QED
  BY <1>2, <1>3, <1>4 DEF IInv

LEMMA NextInvariant == IInv /\ [Next]_vars => IInv'
<1> SUFFICES ASSUME IInv, [Next]_vars PROVE IInv'
  OBVIOUS
<1>1. CASE Signal \/ ConnectPool \/ ConnectStorage \/ Run \/ WaitReturns \/ Close
  BY <1>1, SignalKeeps, StartupKeeps, RunKeeps, WaitReturnsKeeps, CloseKeeps
<1>2. CASE Listen \/ ListenReturns \/ BeginShutdown \/ EndShutdown \/ ShutdownExpires
  BY <1>2, ListenKeeps, BeginShutdownKeeps, ShutdownEndsKeeps
<1>3. ASSUME NEW r \in Requests, Accept(r) \/ Answer(r) PROVE IInv'
  BY <1>3, ClientsKeep
<1>4. CASE StartWorker \/ WorkerTicks \/ JobEnds \/ WorkerReturns \/ JanitorReturns
  BY <1>4, StartWorkerKeeps, WorkerKeeps
<1>5. CASE UNCHANGED vars
  BY <1>5 DEF vars, IInv, TypeOK, NotYetRunning, UsersAreRunning, ListenerIsStopped,
              ShutdownDrains, EndsInOrder, AllReturned
<1>6. QED
  BY <1>1, <1>2, <1>3, <1>4, <1>5 DEF Next, Halted

LEMMA Invariant == Spec => []IInv
BY InitInvariant, NextInvariant, PTL DEF Spec

-----------------------------------------------------------------------------
(* Theorems.                                                               *)

\* main, the errgroup and its goroutines are where their code says they can be.
THEOREM LifecycleIsTyped == Spec => []TypeOK
BY Invariant, PTL DEF IInv

\* App.Close closes the pool only after Wait, and Wait returns without an error
\* only after Shutdown has drained the requests and the worker's run has ended:
\* at every step of every interleaving the pool is open to whoever can use it.
THEOREM PoolIsThere == Spec => []PoolOutlivesItsUsers
<1>1. IInv => PoolOutlivesItsUsers
  BY DEF IInv, UsersAreRunning, PoolOutlivesItsUsers
<1>2. QED
  BY <1>1, Invariant, PTL

\* Of all the ends of the process only two cut requests off: the shutdown deadline
\* and the panic of a ticker whose SWEEP_INTERVAL is not positive.  A process that
\* ends by itself leaks nothing, and logger.Fatal after Run has an error to report.
THEOREM ExitsAreClean == Spec => []ExitIsClean
<1>1. IInv => ExitIsClean
  BY DEF IInv, EndsInOrder, AllReturned, ExitIsClean
<1>2. QED
  BY <1>1, Invariant, PTL
==============================================================================
