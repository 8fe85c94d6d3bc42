--------------------------- MODULE MCIdempotency ---------------------------
(***************************************************************************)
(* Small instances of Idempotency for TLC.                                 *)
(***************************************************************************)
EXTENDS Idempotency, TLC

\* Attempts and payloads are interchangeable.
Symmetry == Permutations(Attempt) \cup Permutations(Payload)
=============================================================================
