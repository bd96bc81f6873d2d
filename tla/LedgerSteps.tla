----------------------------- MODULE LedgerSteps -----------------------------
(***************************************************************************)
(* The operations of the ledger as steps of the tables of a module that    *)
(* extends this one: what BackendProperties shows WasteBackend implements, *)
(* and what happens beside a reader of Reads.                              *)
(***************************************************************************)
EXTENDS Database

LedgerSpec ==
  INSTANCE Ledger WITH households <- households, pickups <- pickups,
                       payments <- payments, objects <- objects, clock <- clock
==============================================================================
