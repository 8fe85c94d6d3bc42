----------------------------- MODULE BoxOffice ------------------------------
(***************************************************************************)
(* What organizers and buyers are promised, as if one clerk did everything *)
(* one thing after the other: an event is set up as a draft, opened once   *)
(* there is something to buy, and closed; every ticket comes out of the    *)
(* stock there is at that moment; and what an order buys was charged for.  *)
(* Sales is shown to implement this.                                       *)
(*                                                                         *)
(* No promise is made that an order is charged once, or filled once, or    *)
(* not after its event was closed.                                         *)
(***************************************************************************)
EXTENDS Naturals

CONSTANTS
    Event,
    Type,       \* the kinds of ticket
    Order,
    EventOf,    \* the event of each type
    MaxUnits,   \* bound on a capacity, a quantity and a number of tickets
    Total(_, _) \* Total(f, S), the sum of f over S

VARIABLES
    event,      \* status and capacity of each event
    type,       \* status, quantity and number sold of each type
    live,       \* number of tickets of each type that admit somebody
    wants,      \* what each order is for, nothing if it was not placed
    bought,     \* how many times each order was filled
    charged     \* how many times each order was charged

vars == <<event, type, live, wants, bought, charged>>

Units == 1..MaxUnits
TypesOf(e) == {y \in Type : EventOf[y] = e}

\* The places that the types in S take up.
Places(S) ==
    Total([y \in Type |-> IF type[y].status = "NONE" THEN 0 ELSE type[y].quantity], S)

\* n tickets of type y are for sale.
Available(y, n) == type[y].status = "ACTIVE" /\ type[y].sold + n <= type[y].quantity

Wanted(w) == {y \in Type : w[y] > 0}

Init ==
    /\ event = [e \in Event |-> [status |-> "NONE", capacity |-> 0]]
    /\ type = [y \in Type |-> [status |-> "NONE", quantity |-> 0, sold |-> 0]]
    /\ live = [y \in Type |-> 0]
    /\ wants = [o \in Order |-> [y \in Type |-> 0]]
    /\ bought = [o \in Order |-> 0]
    /\ charged = [o \in Order |-> 0]

Announce(e, c) ==
    /\ event[e].status = "NONE"
    /\ event' = [event EXCEPT ![e] = [status |-> "DRAFT", capacity |-> c]]
    /\ UNCHANGED <<type, live, wants, bought, charged>>

Resize(e, c) ==
    /\ event[e].status = "DRAFT"
    /\ Places(TypesOf(e)) <= c
    /\ event' = [event EXCEPT ![e].capacity = c]
    /\ UNCHANGED <<type, live, wants, bought, charged>>

Configure(y, q, status) ==
    /\ event[EventOf[y]].status = "DRAFT"
    /\ Places(TypesOf(EventOf[y]) \ {y}) + q <= event[EventOf[y]].capacity
    /\ type[y].sold <= q
    /\ type' = [type EXCEPT ![y].status = status, ![y].quantity = q]
    /\ UNCHANGED <<event, live, wants, bought, charged>>

Open(e) ==
    /\ event[e].status = "DRAFT"
    /\ \E y \in TypesOf(e) : type[y].status = "ACTIVE"
    /\ event' = [event EXCEPT ![e].status = "PUBLISHED"]
    /\ UNCHANGED <<type, live, wants, bought, charged>>

Close(e) ==
    /\ event[e].status \in {"DRAFT", "PUBLISHED"}
    /\ event' = [event EXCEPT ![e].status = "CANCELLED"]
    /\ live' = [y \in Type |-> IF EventOf[y] = e THEN 0 ELSE live[y]]
    /\ UNCHANGED <<type, wants, bought, charged>>

HandOut(y, n) ==
    /\ event[EventOf[y]].status = "PUBLISHED"
    /\ Available(y, n)
    /\ type' = [type EXCEPT ![y].sold = @ + n]
    /\ live' = [live EXCEPT ![y] = @ + n]
    /\ UNCHANGED <<event, wants, bought, charged>>

\* An order is for one event and reserves nothing.
Place(o, e, w) ==
    /\ Wanted(wants[o]) = {}
    /\ Wanted(w) # {}
    /\ event[e].status = "PUBLISHED"
    /\ \A y \in Wanted(w) : EventOf[y] = e /\ Available(y, w[y])
    /\ wants' = [wants EXCEPT ![o] = w]
    /\ UNCHANGED <<event, type, live, bought, charged>>

Charge(o) ==
    /\ Wanted(wants[o]) # {}
    /\ charged' = [charged EXCEPT ![o] = @ + 1]
    /\ UNCHANGED <<event, type, live, wants, bought>>

Fill(o) ==
    /\ Wanted(wants[o]) # {}
    /\ bought[o] < charged[o]
    /\ \A y \in Wanted(wants[o]) :
          /\ event[EventOf[y]].status \in {"PUBLISHED", "CANCELLED"}
          /\ Available(y, wants[o][y])
    /\ type' = [y \in Type |-> [type[y] EXCEPT !.sold = @ + wants[o][y]]]
    /\ live' = [y \in Type |-> live[y] + wants[o][y]]
    /\ bought' = [bought EXCEPT ![o] = @ + 1]
    /\ UNCHANGED <<event, wants, charged>>

Next ==
    \/ \E e \in Event : Open(e) \/ Close(e)
    \/ \E e \in Event, c \in Units : Announce(e, c) \/ Resize(e, c)
    \/ \E y \in Type, q \in Units, status \in {"ACTIVE", "INACTIVE"} : Configure(y, q, status)
    \/ \E y \in Type, n \in Units : HandOut(y, n)
    \/ \E o \in Order, e \in Event, w \in [Type -> 0..MaxUnits] : Place(o, e, w)
    \/ \E o \in Order : Charge(o) \/ Fill(o)

Spec == Init /\ [][Next]_vars
=============================================================================
