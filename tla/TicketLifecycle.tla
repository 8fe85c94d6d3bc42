-------------------------- MODULE TicketLifecycle ---------------------------
(***************************************************************************)
(* What TicketGuard promises of its tickets, with no database, transfer    *)
(* rows, locks or transactions: once issued a ticket has one owner and,    *)
(* until it is voided, one pass.  It can be offered to one user, who       *)
(* becomes the owner by taking it, and gets a pass never seen before; a    *)
(* valid ticket can be used for one entry, with its current pass; it can   *)
(* be voided.  Nothing leaves "used" or "void".  Ticketing is shown to     *)
(* implement this.                                                         *)
(***************************************************************************)
CONSTANTS User, Ticket, Pass, None

VARIABLES
    owner,      \* the user each issued ticket belongs to
    state,      \* "unissued", "valid", "offered", "used" or "void"
    offeredTo,  \* the user an offered ticket is offered to, else None
    pass,       \* the pass that admits the holder, None once revoked
    retired     \* passes that have been replaced or revoked

vars == <<owner, state, offeredTo, pass, retired>>

LifecycleTypeOK ==
    /\ owner \in [Ticket -> User \cup {None}]
    /\ state \in [Ticket -> {"unissued", "valid", "offered", "used", "void"}]
    /\ offeredTo \in [Ticket -> User \cup {None}]
    /\ pass \in [Ticket -> Pass \cup {None}]
    /\ retired \in SUBSET Pass

Init ==
    /\ owner = [t \in Ticket |-> None]
    /\ state = [t \in Ticket |-> "unissued"]
    /\ offeredTo = [t \in Ticket |-> None]
    /\ pass = [t \in Ticket |-> None]
    /\ retired = {}

Fresh(k) == k \notin retired /\ \A t \in Ticket : pass[t] # k

\* User u gets the tickets T, each with a fresh pass of its own.
Issue(u, T, new) ==
    /\ \A t \in T : state[t] = "unissued" /\ Fresh(new[t])
    /\ \A t, v \in T : new[t] = new[v] => t = v
    /\ owner' = [t \in Ticket |-> IF t \in T THEN u ELSE owner[t]]
    /\ state' = [t \in Ticket |-> IF t \in T THEN "valid" ELSE state[t]]
    /\ pass' = [t \in Ticket |-> IF t \in T THEN new[t] ELSE pass[t]]
    /\ UNCHANGED <<offeredTo, retired>>

Offer(t, u) ==
    /\ state[t] = "valid"
    /\ u # owner[t]
    /\ state' = [state EXCEPT ![t] = "offered"]
    /\ offeredTo' = [offeredTo EXCEPT ![t] = u]
    /\ UNCHANGED <<owner, pass, retired>>

\* The offer is withdrawn, refused, or lapses.
TakeBack(t) ==
    /\ state[t] = "offered"
    /\ state' = [state EXCEPT ![t] = "valid"]
    /\ offeredTo' = [offeredTo EXCEPT ![t] = None]
    /\ UNCHANGED <<owner, pass, retired>>

HandOver(t, k) ==
    /\ state[t] = "offered"
    /\ Fresh(k)
    /\ owner' = [owner EXCEPT ![t] = offeredTo[t]]
    /\ state' = [state EXCEPT ![t] = "valid"]
    /\ offeredTo' = [offeredTo EXCEPT ![t] = None]
    /\ retired' = retired \cup {pass[t]}
    /\ pass' = [pass EXCEPT ![t] = k]

Admit(t) ==
    /\ state[t] = "valid"
    /\ pass[t] # None
    /\ state' = [state EXCEPT ![t] = "used"]
    /\ UNCHANGED <<owner, offeredTo, pass, retired>>

\* Voids what is still live in T; no pass of a ticket of T admits any more.
Void(T) ==
    /\ state' = [t \in Ticket |-> IF t \in T /\ state[t] \in {"valid", "offered"}
                                  THEN "void" ELSE state[t]]
    /\ offeredTo' = [t \in Ticket |-> IF t \in T THEN None ELSE offeredTo[t]]
    /\ retired' = retired \cup {pass[t] : t \in {u \in T : pass[u] # None}}
    /\ pass' = [t \in Ticket |-> IF t \in T THEN None ELSE pass[t]]
    /\ UNCHANGED owner

Next ==
    \/ \E u \in User, T \in SUBSET Ticket :
          \E new \in [T -> Pass] : Issue(u, T, new)
    \/ \E t \in Ticket, u \in User : Offer(t, u)
    \/ \E t \in Ticket : TakeBack(t)
    \/ \E t \in Ticket, k \in Pass : HandOver(t, k)
    \/ \E t \in Ticket : Admit(t)
    \/ \E T \in SUBSET Ticket : Void(T)

Spec == Init /\ [][Next]_vars
=============================================================================
