---------------------------- MODULE MCRateLimiter ----------------------------
(* Instances of RateLimiter for TLC. *)
EXTENDS RateLimiter, TLC

Symmetry ==
  Permutations(Addresses) \cup Permutations(Slots) \cup Permutations(Limiters)
=============================================================================
