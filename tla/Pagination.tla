----------------------------- MODULE Pagination -----------------------------
(***************************************************************************)
(* Page numbers and page sizes of the list endpoints                       *)
(* (internal/pkg/pagination).  int is as wide as MaxInt says; a product    *)
(* that does not fit wraps around.                                         *)
(***************************************************************************)
EXTENDS Integers

CONSTANTS
  DefaultPerPage, MaxPerPage,  \* 10 and 100 in the code
  MaxInt,                      \* largest int
  Malformed                    \* a query parameter that is not a number

ASSUME PageAssumption ==
  /\ DefaultPerPage \in Nat \ {0}
  /\ MaxPerPage \in Nat
  /\ MaxInt \in Nat
  /\ DefaultPerPage <= MaxPerPage
  /\ MaxPerPage <= MaxInt
  /\ Malformed \notin Int

\* a number too large for an int is an error of Atoi, too
OrDefault(text, default) == IF text \in 1 .. MaxInt THEN text ELSE default

Parse(pageText, perPageText) ==
  LET perPage == OrDefault(perPageText, DefaultPerPage)
  IN [page |-> OrDefault(pageText, 1),
      perPage |-> IF perPage <= MaxPerPage THEN perPage ELSE MaxPerPage]

\* two's complement
Wrap(n) == ((n + MaxInt + 1) % (2 * (MaxInt + 1))) - (MaxInt + 1)

\* counts pages from zero
BugOffset(params) == Wrap(params.page * params.perPage)

Offset(params) == Wrap((params.page - 1) * params.perPage)

Limit(params) == params.perPage

NewMeta(params, total) ==
  [page |-> params.page, perPage |-> params.perPage, total |-> total]
=============================================================================
