------------------------------ MODULE MCSales -------------------------------
(***************************************************************************)
(* Small instances of Sales for TLC.                                       *)
(***************************************************************************)
EXTENDS Sales, TLC

CONSTANTS Fair    \* the one event

MCEventOf == [y \in Type |-> Fair]

\* Requests, unused order ids and ticket types are interchangeable.
Symmetry == Permutations(Request) \cup Permutations(Order) \cup Permutations(Type)
=============================================================================
