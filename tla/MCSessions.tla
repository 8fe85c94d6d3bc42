----------------------------- MODULE MCSessions -----------------------------
(***************************************************************************)
(* Small instances of Sessions for TLC.                                    *)
(***************************************************************************)
EXTENDS Sessions, TLC

\* Requests and unused token ids are interchangeable.
Symmetry == Permutations(Request) \cup Permutations(Token)
=============================================================================
