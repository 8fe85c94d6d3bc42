--------------------------- MODULE MCOrganizerPage ---------------------------
(* A list with room for one event.  When the visit begins it is a gala that  *)
(* was cancelled; the organizer creates a fair, which begins before it.      *)
EXTENDS OrganizerPage

CONSTANTS Fair, Gala

MCStartAt == [e \in Event |-> IF e = Fair THEN 1 ELSE 2]
MCAlready == [e \in Event |-> IF e = Gala
    THEN [status |-> "CANCELLED", types |-> 1, sold |-> 1, team |-> {}]
    ELSE [status |-> "ABSENT", types |-> 0, sold |-> 0, team |-> {}]]
=============================================================================
