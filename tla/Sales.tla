------------------------------- MODULE Sales --------------------------------
(***************************************************************************)
(* What is on sale and who has paid for it: the draft, publication and     *)
(* cancellation of events and the configuration of their ticket types      *)
(* (events/event.service.ts), the issue of tickets by the organizer        *)
(* (tickets/ticket.service.ts) and checkout and payment                    *)
(* (orders/order.service.ts, orders/payment.provider.ts).                  *)
(*                                                                         *)
(* As in Ticketing a transaction is READ COMMITTED, waits for one row lock *)
(* per step, and its writes are visible at its last step.  What it has     *)
(* read it acts on: checks are made in the step that reads, writes in the  *)
(* step that commits.  Requests of users who may not make them change      *)
(* nothing and are left out.                                               *)
(***************************************************************************)
EXTENDS Naturals, FiniteSets

CONSTANTS
    Event,      \* rows of events
    Type,       \* rows of ticket_types
    Order,      \* rows of orders, including the unused ids
    Request,    \* API requests that can be open at the same time
    EventOf,    \* the event of each ticket type
    MaxUnits,   \* bound on a capacity, a quantity and a number of tickets
    MaxCharges, \* bound on the charges made for one order
    None

ASSUME SalesAssumption ==
    /\ IsFiniteSet(Type) /\ IsFiniteSet(Request)
    /\ EventOf \in [Type -> Event]
    /\ MaxUnits \in Nat \ {0}
    /\ MaxCharges \in Nat
    /\ Event \cap Type = {}
    /\ None \notin Event \cup Type \cup Order

VARIABLES
    event,      \* status, capacity and whether endAt has passed, per event
    type,       \* status, quantity and sold_count of each ticket type; a
                \* ticket row is created with every increment of sold_count
    live,       \* number of tickets of each type that are not cancelled
    order,      \* status, quantities and payment status of each order; due:
                \* its expiresAt has passed
    bought,     \* how many times the tickets of an order were created
    charged,    \* how many times the provider charged for an order
    holds,      \* row locks of each request
    tx          \* what each request is doing

tables == <<event, type, live, order, bought, charged>>
vars == <<event, type, live, order, bought, charged, holds, tx>>

Units == 1..MaxUnits
TypesOf(e) == {y \in Type : EventOf[y] = e}

\* The sum of f over S, as the number of single units it stands for.
Total(f, S) == Cardinality(UNION {{y} \X (1..f[y]) : y \in S})

Quantities == [y \in Type |-> IF type[y].status = "NONE" THEN 0 ELSE type[y].quantity]
Sold == [y \in Type |-> type[y].sold]

Operations == {"update", "configure", "publish", "cancel", "issue",
               "charge", "lapse", "recheck", "fulfil"}

NoTx == [op |-> "idle", event |-> None, type |-> None, order |-> None,
         n |-> 0, status |-> "NONE"]

TypeOK ==
    /\ event \in [Event -> [status : {"NONE", "DRAFT", "PUBLISHED", "CANCELLED"},
                            capacity : 0..MaxUnits, ended : BOOLEAN]]
    /\ type \in [Type -> [status : {"NONE", "ACTIVE", "INACTIVE"},
                          quantity : 0..MaxUnits, sold : Nat]]
    /\ live \in [Type -> Nat]
    /\ order \in [Order -> [status : {"NONE", "PENDING", "CONFIRMED", "EXPIRED"},
                            wants : [Type -> 0..MaxUnits], due : BOOLEAN,
                            payment : {"PENDING", "SUCCEEDED"}]]
    /\ bought \in [Order -> Nat]
    /\ charged \in [Order -> 0..MaxCharges]
    /\ holds \in [Request -> SUBSET (Event \cup Type)]
    /\ tx \in [Request -> [op : {"idle"} \cup Operations,
                           event : Event \cup {None}, type : Type \cup {None},
                           order : Order \cup {None}, n : 0..MaxUnits,
                           status : {"NONE", "ACTIVE", "INACTIVE"}]]

-----------------------------------------------------------------------------
(* Requests and row locks. *)

Idle(s) == tx[s].op = "idle"
Doing(s, o) == tx[s].op = o

\* Mutant: a plain SELECT where the code says FOR UPDATE.
FreeAlways(s, r) == TRUE

Free(s, r) == \A o \in Request \ {s} : r \notin holds[o]

\* A transaction that starts by locking an event's row.
Begin(s, e, todo) ==
    /\ Idle(s)
    /\ Free(s, e)
    /\ tx' = [tx EXCEPT ![s] = todo]
    /\ holds' = [holds EXCEPT ![s] = {e}]
    /\ UNCHANGED tables

LockMore(s, r) ==
    /\ r \notin holds[s]
    /\ Free(s, r)
    /\ holds' = [holds EXCEPT ![s] = @ \cup {r}]
    /\ UNCHANGED <<tables, tx>>

End(s) ==
    /\ tx' = [tx EXCEPT ![s] = NoTx]
    /\ holds' = [holds EXCEPT ![s] = {}]

\* A step of pay between its transactions.
Goto(s, o) ==
    /\ tx' = [tx EXCEPT ![s].op = o]
    /\ UNCHANGED holds

-----------------------------------------------------------------------------
(* EventService: drafts *)

\* Only the capacity and endAt, which may be in the past, matter here.
CreateEvent(e, c) ==
    /\ event[e].status = "NONE"
    /\ \E past \in BOOLEAN : event' = [event EXCEPT ![e] =
                    [status |-> "DRAFT", capacity |-> c, ended |-> past]]
    /\ UNCHANGED <<type, live, order, bought, charged, holds, tx>>

UpdateLock(s, e, c) ==
    /\ event[e].status = "DRAFT"
    /\ Total(Quantities, TypesOf(e)) <= c
    /\ Begin(s, e, [NoTx EXCEPT !.op = "update", !.event = e, !.n = c])

UpdateCommit(s) ==
    /\ Doing(s, "update")
    /\ \E past \in BOOLEAN :
          event' = [event EXCEPT ![tx[s].event].capacity = tx[s].n,
                                 ![tx[s].event].ended = past]
    /\ End(s)
    /\ UNCHANGED <<type, live, order, bought, charged>>

CreateTypeLock(s, y, q) ==
    LET e == EventOf[y] IN
    /\ event[e].status = "DRAFT"
    /\ type[y].status = "NONE"
    /\ Total(Quantities, TypesOf(e)) + q <= event[e].capacity
    /\ Begin(s, e, [op |-> "configure", event |-> e, type |-> y, order |-> None,
                    n |-> q, status |-> "ACTIVE"])

\* Mutant: a type is updated whatever the status of its event.
UpdateTypeLockAny(s, y, q, st) ==
    LET e == EventOf[y] IN
    /\ type[y].status # "NONE"
    /\ q >= type[y].sold
    /\ Total(Quantities, TypesOf(e) \ {y}) + q <= event[e].capacity
    /\ Begin(s, e, [op |-> "configure", event |-> e, type |-> y, order |-> None,
                    n |-> q, status |-> st])

UpdateTypeLock(s, y, q, st) ==
    LET e == EventOf[y] IN
    /\ event[e].status = "DRAFT"
    /\ type[y].status # "NONE"
    /\ q >= type[y].sold
    /\ Total(Quantities, TypesOf(e) \ {y}) + q <= event[e].capacity
    /\ Begin(s, e, [op |-> "configure", event |-> e, type |-> y, order |-> None,
                    n |-> q, status |-> st])

\* Both write the type's row, which a payment or an issue may have locked.
ConfigureCommit(s) ==
    /\ Doing(s, "configure")
    /\ Free(s, tx[s].type)
    /\ type' = [type EXCEPT ![tx[s].type].status = tx[s].status,
                            ![tx[s].type].quantity = tx[s].n]
    /\ End(s)
    /\ UNCHANGED <<event, live, order, bought, charged>>

(* EventService.publish and cancel *)

PublishLock(s, e) ==
    LET types == {y \in TypesOf(e) : type[y].status # "NONE"} IN
    /\ event[e].status = "DRAFT"
    /\ ~event[e].ended
    /\ Total(Quantities, types) <= event[e].capacity
    /\ \E y \in types : type[y].status = "ACTIVE"
    /\ Begin(s, e, [NoTx EXCEPT !.op = "publish", !.event = e])

PublishCommit(s) ==
    /\ Doing(s, "publish")
    /\ event' = [event EXCEPT ![tx[s].event].status = "PUBLISHED"]
    /\ End(s)
    /\ UNCHANGED <<type, live, order, bought, charged>>

CancelLock(s, e) ==
    /\ event[e].status \in {"DRAFT", "PUBLISHED"}
    /\ Begin(s, e, [NoTx EXCEPT !.op = "cancel", !.event = e])

\* The locks on the tickets themselves are in Ticketing.
CancelCommit(s) ==
    /\ Doing(s, "cancel")
    /\ event' = [event EXCEPT ![tx[s].event].status = "CANCELLED"]
    /\ live' = [y \in Type |-> IF EventOf[y] = tx[s].event THEN 0 ELSE live[y]]
    /\ End(s)
    /\ UNCHANGED <<type, order, bought, charged>>

-----------------------------------------------------------------------------
(* TicketService.issue *)

\* Mutant: nobody asks whether the event is on sale.
IssueLockUnasked(s, y, n) ==
    LET e == EventOf[y] IN
    /\ Total(Sold, TypesOf(e)) + n <= event[e].capacity
    /\ Begin(s, e, [NoTx EXCEPT !.op = "issue", !.event = e, !.type = y, !.n = n])

IssueLock(s, y, n) ==
    LET e == EventOf[y] IN
    /\ event[e].status = "PUBLISHED"
    /\ Total(Sold, TypesOf(e)) + n <= event[e].capacity
    /\ Begin(s, e, [NoTx EXCEPT !.op = "issue", !.event = e, !.type = y, !.n = n])

IssueLockType(s) ==
    /\ Doing(s, "issue")
    /\ LET y == tx[s].type IN
          /\ LockMore(s, y)
          /\ type[y].status = "ACTIVE"
          /\ type[y].sold + tx[s].n <= type[y].quantity

IssueCommit(s) ==
    /\ Doing(s, "issue")
    /\ LET y == tx[s].type IN
          /\ y \in holds[s]
          /\ type' = [type EXCEPT ![y].sold = @ + tx[s].n]
          /\ live' = [live EXCEPT ![y] = @ + tx[s].n]
    /\ End(s)
    /\ UNCHANGED <<event, order, bought, charged>>

-----------------------------------------------------------------------------
(* OrderService.checkout *)

\* It locks the types it reads until it has read the event's status, without
\* a lock, and written rows of its own: nobody can tell that from one step.
\* No stock is reserved.
Checkout(s, o, e, wants) ==
    LET types == {y \in Type : wants[y] > 0} IN
    /\ Idle(s)
    /\ order[o].status = "NONE"
    /\ types # {}
    /\ \A y \in types :
          /\ EventOf[y] = e
          /\ Free(s, y)
          /\ type[y].status = "ACTIVE"
          /\ type[y].sold + wants[y] <= type[y].quantity
    /\ event[e].status = "PUBLISHED"
    /\ ~event[e].ended
    /\ order' = [order EXCEPT ![o] = [status |-> "PENDING", wants |-> wants,
                                      due |-> FALSE, payment |-> "PENDING"]]
    /\ UNCHANGED <<event, type, live, bought, charged, holds, tx>>

(* OrderService.pay *)

Wanted(o) == {y \in Type : order[o].wants[y] > 0}

\* The order is read without a transaction: CONFIRMED is answered at once,
\* PENDING goes on, to expire it or to charge for it.
PayRead(s, o) ==
    /\ Idle(s)
    /\ order[o].status = "PENDING"
    /\ tx' = [tx EXCEPT ![s] = [NoTx EXCEPT !.order = o,
                  !.op = IF order[o].due THEN "lapse" ELSE "charge"]]
    /\ UNCHANGED <<tables, holds>>

\* The update is not conditional on the status that was read.
PayLapse(s) ==
    /\ Doing(s, "lapse")
    /\ order' = [order EXCEPT ![tx[s].order].status = "EXPIRED"]
    /\ End(s)
    /\ UNCHANGED <<event, type, live, bought, charged>>

\* Mutant: the provider is not asked.
PayUnasked(s) ==
    /\ Doing(s, "charge")
    /\ Goto(s, "recheck")
    /\ UNCHANGED tables

\* The sandbox provider always succeeds.
PayCharge(s) ==
    /\ Doing(s, "charge")
    /\ charged[tx[s].order] < MaxCharges
    /\ charged' = [charged EXCEPT ![tx[s].order] = @ + 1]
    /\ Goto(s, "recheck")
    /\ UNCHANGED <<event, type, live, order, bought>>

\* The fulfilling transaction reads the order again, without locking it.
PayRecheck(s) ==
    /\ Doing(s, "recheck")
    /\ IF order[tx[s].order].status = "PENDING"
       THEN Goto(s, "fulfil")
       ELSE End(s)
    /\ UNCHANGED tables

PayLockEvent(s) ==
    /\ Doing(s, "fulfil")
    /\ \E e \in {EventOf[y] : y \in Wanted(tx[s].order)} : LockMore(s, e)

\* Mutant: the stock is not checked again when the type is locked.
PayLockTypeBlind(s) ==
    /\ Doing(s, "fulfil")
    /\ \E y \in Wanted(tx[s].order) : EventOf[y] \in holds[s] /\ LockMore(s, y)

\* Stock that is gone fails the payment: the FAILED statuses are written and
\* rolled back with the error that follows (Rollback).
PayLockType(s) ==
    /\ Doing(s, "fulfil")
    /\ LET o == tx[s].order IN
       \E y \in Wanted(o) :
          /\ EventOf[y] \in holds[s]
          /\ LockMore(s, y)
          /\ type[y].status = "ACTIVE"
          /\ type[y].sold + order[o].wants[y] <= type[y].quantity

PayCommit(s) ==
    /\ Doing(s, "fulfil")
    /\ LET o == tx[s].order
           n == [y \in Type |-> order[o].wants[y]]
       IN /\ Wanted(o) \subseteq holds[s]
          /\ type' = [y \in Type |-> [type[y] EXCEPT !.sold = @ + n[y]]]
          /\ live' = [y \in Type |-> live[y] + n[y]]
          /\ bought' = [bought EXCEPT ![o] = @ + 1]
          /\ order' = [order EXCEPT ![o].status = "CONFIRMED", ![o].due = FALSE,
                                    ![o].payment = "SUCCEEDED"]
    /\ End(s)
    /\ UNCHANGED <<event, charged>>

-----------------------------------------------------------------------------
(* What happens around the code. *)

\* An error, a deadlock, a transaction timeout, a lost connection or a crash.
Rollback(s) ==
    /\ ~Idle(s)
    /\ End(s)
    /\ UNCHANGED tables

OrderLapses(o) ==
    /\ order[o].status = "PENDING"
    /\ ~order[o].due
    /\ order' = [order EXCEPT ![o].due = TRUE]
    /\ UNCHANGED <<event, type, live, bought, charged, holds, tx>>

EventEnds(e) ==
    /\ event[e].status # "NONE"
    /\ ~event[e].ended
    /\ event' = [event EXCEPT ![e].ended = TRUE]
    /\ UNCHANGED <<type, live, order, bought, charged, holds, tx>>

-----------------------------------------------------------------------------

Init ==
    /\ event = [e \in Event |-> [status |-> "NONE", capacity |-> 0, ended |-> FALSE]]
    /\ type = [y \in Type |-> [status |-> "NONE", quantity |-> 0, sold |-> 0]]
    /\ live = [y \in Type |-> 0]
    /\ order = [o \in Order |-> [status |-> "NONE", wants |-> [y \in Type |-> 0],
                                 due |-> FALSE, payment |-> "PENDING"]]
    /\ bought = [o \in Order |-> 0]
    /\ charged = [o \in Order |-> 0]
    /\ holds = [s \in Request |-> {}]
    /\ tx = [s \in Request |-> NoTx]

Organizing(s) ==
    \/ \E e \in Event, c \in Units : UpdateLock(s, e, c)
    \/ UpdateCommit(s)
    \/ \E y \in Type, q \in Units : CreateTypeLock(s, y, q)
    \/ \E y \in Type, q \in Units, st \in {"ACTIVE", "INACTIVE"} :
          UpdateTypeLock(s, y, q, st)
    \/ ConfigureCommit(s)
    \/ \E e \in Event : PublishLock(s, e)
    \/ PublishCommit(s)
    \/ \E e \in Event : CancelLock(s, e)
    \/ CancelCommit(s)
    \/ \E y \in Type, n \in Units : IssueLock(s, y, n)
    \/ IssueLockType(s)
    \/ IssueCommit(s)

Buying(s) ==
    \/ \E o \in Order, e \in Event, w \in [Type -> 0..MaxUnits] : Checkout(s, o, e, w)
    \/ \E o \in Order : PayRead(s, o)
    \/ PayLapse(s)
    \/ PayCharge(s)
    \/ PayRecheck(s)
    \/ PayLockEvent(s)
    \/ PayLockType(s)
    \/ PayCommit(s)

Environment ==
    \/ \E e \in Event, c \in Units : CreateEvent(e, c)
    \/ \E s \in Request : Rollback(s)
    \/ \E o \in Order : OrderLapses(o)
    \/ \E e \in Event : EventEnds(e)

Next ==
    \/ \E s \in Request : Organizing(s) \/ Buying(s)
    \/ Environment

Spec == Init /\ [][Next]_vars

-----------------------------------------------------------------------------
(* Properties. *)

\* The organizer never configures more tickets than the event has places,
\* though the capacity and the quantities are changed by requests of their
\* own, each of which reads what the others write.
InventoryFits == \A e \in Event : Total(Quantities, TypesOf(e)) <= event[e].capacity

\* Neither the last unit of a type nor the last place of an event is sold
\* twice, however payments and the organizer's own issues race for it.
NeverOversold ==
    /\ \A y \in Type : type[y].sold <= type[y].quantity
    /\ \A e \in Event : Total(Sold, TypesOf(e)) <= event[e].capacity

\* Nobody gets tickets for an order without a charge of their own, a
\* confirmed order has its tickets and its payment, an open one none yet.
TicketsArePaid ==
    \A o \in Order :
        /\ bought[o] <= charged[o]
        /\ order[o].status = "CONFIRMED" =>
              bought[o] > 0 /\ order[o].payment = "SUCCEEDED"
        /\ order[o].status \in {"NONE", "PENDING"} =>
              bought[o] = 0 /\ order[o].payment = "PENDING"

\* What buyers were promised does not move under them: once an event has left
\* the draft its capacity and types are frozen, an event on sale can only be
\* cancelled and a cancelled one stays so; and sales never go backwards.
TermsAreFrozen ==
    [][/\ \A e \in Event : event[e].status \in {"PUBLISHED", "CANCELLED"} =>
              /\ event'[e].status \in {event[e].status, "CANCELLED"}
              /\ event'[e].capacity = event[e].capacity
       /\ \A y \in Type :
              /\ type'[y].sold >= type[y].sold
              /\ event[EventOf[y]].status \in {"PUBLISHED", "CANCELLED"} =>
                    /\ type'[y].status = type[y].status
                    /\ type'[y].quantity = type[y].quantity]_vars

Clerk == INSTANCE BoxOffice WITH
    event <- [e \in Event |-> [status |-> event[e].status, capacity |-> event[e].capacity]],
    wants <- [o \in Order |-> order[o].wants]

\* Row locks, stale reads and rollbacks keep the promise of BoxOffice: whatever
\* was checked before a wait is still so when it is acted on.
ImplementsBoxOffice == Clerk!Spec

\* Refuted. pay reads the order again before it creates the tickets, to
\* answer or refuse the second of two payments; the read takes no lock.
TicketsOnce == \A o \in Order : bought[o] <= 1

\* Refuted. Tickets of an event that is not published are not issued: the
\* organizer's own issue says so, a payment does not ask.
CancelledEventsSellNothing ==
    \A y \in Type : event[EventOf[y]].status = "CANCELLED" => live[y] = 0
=============================================================================
