--------------------------- MODULE TokenFamilies ----------------------------
(***************************************************************************)
(* What refresh token rotation promises: a sign-in opens a family with one *)
(* token; the family's token can be exchanged for a fresh one, once, or    *)
(* given up; a token that was exchanged or given up never works again.     *)
(* Sessions is shown to implement this.                                    *)
(***************************************************************************)
CONSTANTS Token, None

VARIABLES
    current,    \* the working token of the family each token opened, or None
    spent       \* tokens that were exchanged or given up

vars == <<current, spent>>

FamiliesTypeOK ==
    /\ current \in [Token -> Token \cup {None}]
    /\ spent \in SUBSET Token

Fresh(k) == k \notin spent /\ \A f \in Token : current[f] # k

Init ==
    /\ current = [f \in Token |-> None]
    /\ spent = {}

\* A family is named after its first token.
Open(k) ==
    /\ Fresh(k)
    /\ current' = [current EXCEPT ![k] = k]
    /\ UNCHANGED spent

Exchange(f, k) ==
    /\ current[f] # None
    /\ Fresh(k)
    /\ current' = [current EXCEPT ![f] = k]
    /\ spent' = spent \cup {current[f]}

\* Several families at once: all the sessions of a user.
GiveUp(F) ==
    /\ \A f \in F : current[f] # None
    /\ current' = [f \in Token |-> IF f \in F THEN None ELSE current[f]]
    /\ spent' = spent \cup {current[f] : f \in F}

Next ==
    \/ \E k \in Token : Open(k)
    \/ \E f, k \in Token : Exchange(f, k)
    \/ \E F \in SUBSET Token : GiveUp(F)

Spec == Init /\ [][Next]_vars
=============================================================================
