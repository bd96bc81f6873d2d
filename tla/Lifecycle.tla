----------------------------- MODULE Lifecycle -----------------------------
(***************************************************************************)
(* The process from its start to its end (cmd/api/main.go, internal/app):  *)
(* connecting, the four goroutines of Run in an errgroup, SIGTERM, the     *)
(* shutdown deadline, and what is left when the process exits.             *)
(*                                                                         *)
(* Fiber is external: Shutdown of a server that has no listener yet        *)
(* returns at once and leaves no trace; otherwise it closes the listener,  *)
(* whereupon Listen returns nil, and waits for the connections that are    *)
(* open until its context expires.                                         *)
(***************************************************************************)
EXTENDS Integers

CONSTANTS
  Requests,       \* connections served at the same time
  SweepIntervals  \* values of SWEEP_INTERVAL; config.Load lets any duration through

ASSUME IntervalAssumption == SweepIntervals \subseteq Int

VARIABLES
  main,      \* main goroutine: "pool", "storage", "run", "wait", "close", or its end
  pool,      \* "none", "open" or "closed"
  signaled,  \* the context of signal.NotifyContext is canceled
  err,       \* the first error of the group: "none", "port" or "deadline"
  listener,  \* Listen: "none", "starting", "open", "closed" or "returned"
  worker,    \* Scheduler.Start: "none", "starting", "waiting", "running" or "returned"
  janitor,   \* StartJanitor: "none", "waiting" or "returned"
  stopper,   \* the goroutine that calls Shutdown: "none", "waiting", "draining" or "returned"
  serving,   \* requests being served
  cut,       \* requests the end of the process has cut off
  interval   \* SWEEP_INTERVAL

vars ==
  <<main, pool, signaled, err, listener, worker, janitor, stopper, serving, cut, interval>>

\* How the process ends: by itself, through logger.Fatal in two places, by a panic.
Ended == {"stopped", "startup", "fatal", "panic"}

TypeOK ==
  /\ main \in {"pool", "storage", "run", "wait", "close"} \cup Ended
  /\ pool \in {"none", "open", "closed"}
  /\ signaled \in BOOLEAN /\ err \in {"none", "port", "deadline"}
  /\ listener \in {"none", "starting", "open", "closed", "returned"}
  /\ worker \in {"none", "starting", "waiting", "running", "returned"}
  /\ janitor \in {"none", "waiting", "returned"}
  /\ stopper \in {"none", "waiting", "draining", "returned"}
  /\ main = "wait" => "none" \notin {listener, worker, janitor, stopper}
  /\ serving \in SUBSET Requests /\ cut \in SUBSET Requests
  /\ interval \in SweepIntervals

Init ==
  /\ main = "pool"
  /\ pool = "none"
  /\ signaled = FALSE
  /\ err = "none"
  /\ listener = "none"
  /\ worker = "none"
  /\ janitor = "none"
  /\ stopper = "none"
  /\ serving = {}
  /\ cut = {}
  /\ interval \in SweepIntervals

group == <<err, listener, worker, janitor, stopper>>
clients == <<serving, cut>>
Alive == main \notin Ended

\* os.Exit, or the end of main: requests still being served are cut off.
Exit(how) ==
  /\ main' = how
  /\ cut' = cut \cup serving
  /\ serving' = {}

-----------------------------------------------------------------------------
(* main and app.New                                                        *)

\* SIGINT or SIGTERM; further ones are absorbed.
Signal ==
  /\ Alive
  /\ ~signaled
  /\ signaled' = TRUE
  /\ UNCHANGED <<main, pool, group, clients, interval>>

\* NewPool closes what it opened when the first ping fails.
ConnectPool ==
  /\ main = "pool"
  /\ \/ /\ ~signaled
        /\ main' = "storage"
        /\ pool' = "open"
        /\ UNCHANGED clients
     \/ Exit("startup") /\ UNCHANGED pool
  /\ UNCHANGED <<signaled, group, interval>>

\* leaves the pool open
BugStorageFails == Exit("startup") /\ UNCHANGED pool

StorageFails == Exit("startup") /\ pool' = "closed"

ConnectStorage ==
  /\ main = "storage"
  /\ \/ ~signaled /\ main' = "run" /\ UNCHANGED <<pool, clients>>
     \/ StorageFails
  /\ UNCHANGED <<signaled, group, interval>>

\* forgets the janitor
BugRun ==
  /\ main = "run"
  /\ main' = "wait"
  /\ listener' = "starting"
  /\ worker' = "starting"
  /\ stopper' = "waiting"
  /\ UNCHANGED <<pool, signaled, err, janitor, clients, interval>>

\* App.Run starts its four goroutines and waits for them.
Run ==
  /\ main = "run"
  /\ main' = "wait"
  /\ listener' = "starting"
  /\ worker' = "starting"
  /\ janitor' = "waiting"
  /\ stopper' = "waiting"
  /\ UNCHANGED <<pool, signaled, err, clients, interval>>

\* goroutines look at the context of the signal only
BugDone == signaled

\* the context of the errgroup is canceled
Done == signaled \/ err # "none"

\* does not wait for Shutdown
BugAllReturned == listener = "returned" /\ worker = "returned" /\ janitor = "returned"

AllReturned ==
  listener = "returned" /\ worker = "returned" /\ janitor = "returned" /\ stopper = "returned"

\* Wait returns the first error; with one, logger.Fatal ends the process.
WaitReturns ==
  /\ main = "wait"
  /\ AllReturned
  /\ \/ err # "none" /\ Exit("fatal")
     \/ err = "none" /\ main' = "close" /\ UNCHANGED clients
  /\ UNCHANGED <<pool, signaled, group, interval>>

\* the deferred calls: App.Close, then the end of main
Close ==
  /\ main = "close"
  /\ \/ pool = "open" /\ pool' = "closed" /\ UNCHANGED <<main, clients>>
     \/ pool = "closed" /\ Exit("stopped") /\ UNCHANGED pool
  /\ UNCHANGED <<signaled, group, interval>>

\* the errgroup keeps the first error
Raise(error) == err' = IF err = "none" THEN error ELSE err

-----------------------------------------------------------------------------
(* The HTTP server.                                                        *)

Listen ==
  /\ Alive
  /\ listener = "starting"
  /\ \/ listener' = "open" /\ UNCHANGED err
     \/ listener' = "returned" /\ Raise("port")    \* the port is taken
  /\ UNCHANGED <<main, pool, signaled, worker, janitor, stopper, clients, interval>>

ListenReturns ==
  /\ Alive
  /\ listener = "closed"
  /\ listener' = "returned"
  /\ UNCHANGED <<main, pool, signaled, err, worker, janitor, stopper, clients, interval>>

Accept(r) ==
  /\ Alive
  /\ listener = "open"
  /\ r \notin serving \cup cut
  /\ serving' = serving \cup {r}
  /\ UNCHANGED <<main, pool, signaled, group, cut, interval>>

Answer(r) ==
  /\ r \in serving
  /\ serving' = serving \ {r}
  /\ UNCHANGED <<main, pool, signaled, group, cut, interval>>

\* <-gctx.Done(), then Shutdown
BeginShutdown ==
  /\ Alive
  /\ stopper = "waiting"
  /\ Done
  /\ IF listener = "open"
       THEN stopper' = "draining" /\ listener' = "closed"
       ELSE stopper' = "returned" /\ UNCHANGED listener
  /\ UNCHANGED <<main, pool, signaled, err, worker, janitor, clients, interval>>

Drained == serving = {}

EndShutdown ==
  /\ Alive
  /\ stopper = "draining"
  /\ Drained
  /\ stopper' = "returned"
  /\ UNCHANGED <<main, pool, signaled, err, listener, worker, janitor, clients, interval>>

\* SHUTDOWN_TIMEOUT passes with a request still served; Shutdown returns an error.
ShutdownExpires ==
  /\ Alive
  /\ stopper = "draining"
  /\ ~Drained
  /\ stopper' = "returned"
  /\ Raise("deadline")
  /\ UNCHANGED <<main, pool, signaled, listener, worker, janitor, clients, interval>>

-----------------------------------------------------------------------------
(* The worker and the janitor.                                             *)

\* time.NewTicker panics unless its interval is positive.
StartWorker ==
  /\ Alive
  /\ worker = "starting"
  /\ \/ /\ interval > 0
        /\ worker' = "waiting"
        /\ UNCHANGED <<main, clients>>
     \/ interval <= 0 /\ Exit("panic") /\ UNCHANGED worker
  /\ UNCHANGED <<pool, signaled, err, listener, janitor, stopper, interval>>

\* A tick may win against the end of the context; the job then ends soon.
WorkerTicks ==
  /\ Alive
  /\ worker = "waiting"
  /\ worker' = "running"
  /\ UNCHANGED <<main, pool, signaled, err, listener, janitor, stopper, clients, interval>>

JobEnds ==
  /\ Alive
  /\ worker = "running"
  /\ worker' = "waiting"
  /\ UNCHANGED <<main, pool, signaled, err, listener, janitor, stopper, clients, interval>>

WorkerStops == worker = "waiting" /\ Done

WorkerReturns ==
  /\ Alive
  /\ WorkerStops
  /\ worker' = "returned"
  /\ UNCHANGED <<main, pool, signaled, err, listener, janitor, stopper, clients, interval>>

JanitorReturns ==
  /\ Alive
  /\ janitor = "waiting"
  /\ Done
  /\ janitor' = "returned"
  /\ UNCHANGED <<main, pool, signaled, err, listener, worker, stopper, clients, interval>>

-----------------------------------------------------------------------------
Halted == ~Alive /\ UNCHANGED vars

Next ==
  \/ Signal
  \/ ConnectPool \/ ConnectStorage \/ Run \/ WaitReturns \/ Close
  \/ Listen \/ ListenReturns
  \/ \E r \in Requests : Accept(r) \/ Answer(r)
  \/ BeginShutdown \/ EndShutdown \/ ShutdownExpires
  \/ StartWorker \/ WorkerTicks \/ JobEnds \/ WorkerReturns \/ JanitorReturns
  \/ Halted

Spec == Init /\ [][Next]_vars

\* Every goroutine that can go on does, timers fire, and a select that has the
\* end of the context to choose again and again chooses it once.  Nothing is
\* assumed of clients: a request may be served for ever.
Fairness ==
  /\ WF_vars(ConnectPool) /\ WF_vars(ConnectStorage) /\ WF_vars(Run)
  /\ WF_vars(WaitReturns) /\ WF_vars(Close)
  /\ WF_vars(Listen) /\ WF_vars(ListenReturns)
  /\ WF_vars(BeginShutdown) /\ WF_vars(EndShutdown) /\ WF_vars(ShutdownExpires)
  /\ WF_vars(StartWorker) /\ WF_vars(JobEnds)
  /\ SF_vars(WorkerReturns) /\ WF_vars(JanitorReturns)

FairSpec == Spec /\ Fairness

-----------------------------------------------------------------------------
\* While anything can still use the pool - a request, a run of the worker - it
\* is open: Close comes after Wait, Wait after Shutdown and the worker's end.
PoolOutlivesItsUsers ==
  serving # {} \/ worker = "running" => pool = "open"

\* What an exit leaves behind.  A process that ends by itself has drained its
\* requests, stopped its goroutines and closed its pool; one that could not start
\* leaves no pool behind; logger.Fatal after Run has an error to report; a request
\* is cut off only by the shutdown deadline or a panic, never by a taken port or
\* a signal; and the panic is that of a SWEEP_INTERVAL of zero or below.
ExitIsClean ==
  /\ main = "stopped" =>
       /\ cut = {}
       /\ pool = "closed"
       /\ {worker, janitor, listener} = {"returned"}
  /\ main = "startup" => pool # "open"
  /\ main = "fatal" => err # "none"
  /\ cut # {} => (main = "fatal" /\ err = "deadline") \/ main = "panic"
  /\ main = "panic" => interval <= 0

\* A process whose server is up when the signal arrives ends, even if some
\* request never does; and one whose group fails before that - the port is
\* taken - does not linger with its worker.
ProcessEnds ==
  (signaled /\ listener = "open" /\ stopper = "waiting") \/ err # "none" ~> ~Alive

\* README.md: "`SIGINT`/`SIGTERM` drains in-flight HTTP requests, stops the worker,
\* and closes the pool, bounded by `SHUTDOWN_TIMEOUT`": the process ends whenever
\* the signal arrives.
EverySignalEnds == signaled ~> ~Alive
=============================================================================
