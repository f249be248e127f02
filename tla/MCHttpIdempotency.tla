-------------------------- MODULE MCHttpIdempotency --------------------------
(***************************************************************************)
(* Small instances of HttpIdempotency for TLC.                             *)
(***************************************************************************)
EXTENDS HttpIdempotency, TLC

Symmetry == Permutations(Requests) \cup Permutations(Keys) \cup Permutations(Payloads)

=============================================================================
