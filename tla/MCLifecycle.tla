---------------------------- MODULE MCLifecycle ----------------------------
(***************************************************************************)
(* TLC's instance of Lifecycle: a cfg has no negative numbers.             *)
(***************************************************************************)
EXTENDS Lifecycle

\* SWEEP_INTERVAL is any duration time.ParseDuration reads.
AnyIntervals == {-1, 0, 60}
=============================================================================
