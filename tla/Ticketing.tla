----------------------------- MODULE Ticketing ------------------------------
(***************************************************************************)
(* Tickets, their QR credentials and their transfers under concurrent      *)
(* requests: tickets/*.service.ts, transfers/transfer.service.ts,          *)
(* verification/verification.service.ts, the cancellation and scanner      *)
(* assignment of events/event.service.ts and the tickets that a payment    *)
(* creates (orders/order.service.ts; what it pays for is Sales').          *)
(*                                                                         *)
(* Every operation is a PostgreSQL transaction at READ COMMITTED.  A       *)
(* session waits for one row lock at a time (SELECT ... FOR UPDATE or the  *)
(* UPDATE of a row) and each such wait is a step of its own; the writes    *)
(* become visible at commit, which is the last step.  A row that is        *)
(* written is locked until then, so nobody can tell the difference.        *)
(* A request that fails before it holds a lock changes nothing and is not  *)
(* a step.                                                                 *)
(***************************************************************************)
EXTENDS TicketStates, Naturals, FiniteSets

CONSTANTS
    User,       \* accounts: owners, recipients, organizers, scanners
    Event,      \* rows of events
    Ticket,     \* rows of tickets, including the unused ids
    Key,        \* rows of ticket_credentials, including the unused ids
    Transfer,   \* rows of transfers, including the unused ids
    Request,    \* API requests that can be open at the same time
    Job,        \* runs of the transfer expiry worker (concurrency 2)
    EventOf,    \* the event of each ticket
    Organizer,  \* who created each event (events.created_by)
    Scanner,    \* the users whose role is SCANNER
    None

Session == Request \cup Job
Row == Event \cup Ticket \cup Key \cup Transfer

\* Row ids are uuids: no two tables share one.  Sessions are distinct, and
\* None is no id at all.
ASSUME ConstantsAssumption ==
    /\ EventOf \in [Ticket -> Event]
    /\ Organizer \in [Event -> User]
    /\ Scanner \subseteq User
    /\ Event \cap (Ticket \cup Key \cup Transfer) = {}
    /\ Ticket \cap (Key \cup Transfer) = {}
    /\ Key \cap Transfer = {}
    /\ Request \cap Job = {}
    /\ None \notin User \cup Row \cup Statuses

VARIABLES
    event,      \* status of each event and where the clock is in its window
    assigned,   \* scanner_assignments: pairs <<user, event>>
    ticket,     \* owner and status of each ticket
    cred,       \* ticket_credentials; holder is the user its QR was shown to
    transfer,   \* transfers; due: expiresAt has passed
    entries,    \* number of TICKET_USED rows in the audit log per ticket
    holds,      \* row locks of each session
    tx,         \* the open transaction of each session
    sweep,      \* expirePending: candidates a worker run has still to visit
    late        \* history: tickets bought when their event was cancelled

tables == <<event, assigned, ticket, cred, transfer, entries, late>>
vars == <<event, assigned, ticket, cred, transfer, entries, late, holds, tx, sweep>>

TransferStatuses == {"PENDING", "ACCEPTED", "REJECTED", "CANCELLED", "EXPIRED"}

Operations == {"offer", "accept", "reject", "withdraw", "expire", "verify",
               "cancelTicket", "cancelEvent", "issue", "buy"}

NoTx == [op |-> "idle", user |-> None, row |-> None, peer |-> None,
         seen |-> None]

TypeOK ==
    /\ event \in [Event -> [status : {"PUBLISHED", "CANCELLED"},
                            clock : {"before", "open", "over"}]]
    /\ assigned \in SUBSET (Scanner \X Event)
    /\ ticket \in [Ticket -> [owner : User \cup {None},
                              status : {"UNUSED"} \cup Statuses]]
    /\ cred \in [Key -> [status : {"UNUSED", "ACTIVE", "REVOKED"},
                         ticket : Ticket \cup {None},
                         holder : User \cup {None}]]
    /\ transfer \in [Transfer -> [status : {"UNUSED"} \cup TransferStatuses,
                                  ticket : Ticket \cup {None},
                                  initiator : User \cup {None},
                                  recipient : User \cup {None},
                                  due : BOOLEAN]]
    /\ entries \in [Ticket -> Nat]
    /\ late \in SUBSET Ticket
    /\ holds \in [Session -> SUBSET Row]
    /\ tx \in [Session -> [op : {"idle"} \cup Operations,
                           user : User \cup {None}, row : Row \cup {None},
                           peer : User \cup {None}, seen : Statuses \cup {None}]]
    /\ sweep \in [Job -> SUBSET Transfer]

-----------------------------------------------------------------------------
(* Rows as the queries find them. *)

ActiveKeys(T) == {k \in Key : cred[k].status = "ACTIVE" /\ cred[k].ticket \in T}
PendingTransfers(T) ==
    {x \in Transfer : transfer[x].status = "PENDING" /\ transfer[x].ticket \in T}
TicketsOf(e) == {t \in Ticket : EventOf[t] = e}
Unissued(T) == {t \in T : ticket[t].status = "UNUSED"}
LiveTickets(T) == {t \in T : ticket[t].status \in LiveStatuses}

(* Row locks and transactions. *)

Idle(s) == tx[s].op = "idle"
Doing(s, o) == tx[s].op = o

\* Mutant: a plain SELECT where the code says FOR UPDATE.
FreeAlways(s, r) == TRUE

Free(s, r) == \A o \in Session \ {s} : r \notin holds[o]

Begin(s, o, u, r, p, st) ==
    /\ Idle(s)
    /\ Free(s, r)
    /\ tx' = [tx EXCEPT ![s] = [op |-> o, user |-> u, row |-> r, peer |-> p,
                                seen |-> st]]
    /\ holds' = [holds EXCEPT ![s] = {r}]
    /\ UNCHANGED <<tables, sweep>>

\* Mutant: the second row is read without FOR UPDATE.
LockMoreShared(s, r) ==
    /\ r \notin holds[s]
    /\ holds' = [holds EXCEPT ![s] = @ \cup {r}]
    /\ UNCHANGED <<tables, tx, sweep>>

LockMore(s, r) ==
    /\ r \notin holds[s]
    /\ Free(s, r)
    /\ holds' = [holds EXCEPT ![s] = @ \cup {r}]
    /\ UNCHANGED <<tables, tx, sweep>>

End(s) ==
    /\ tx' = [tx EXCEPT ![s] = NoTx]
    /\ holds' = [holds EXCEPT ![s] = {}]

\* TicketStateService.transition: an update guarded by the expected status,
\* and an error (a rollback, see Rollback) unless it changes one row.
Transition(t, from, to) ==
    /\ CanTransition(from, to)
    /\ ticket[t].status = from
    /\ ticket' = [ticket EXCEPT ![t].status = to]

-----------------------------------------------------------------------------
(* TicketService.issue and the tickets of OrderService.pay *)

\* The organizer issues tickets to user u.
IssueLock(s, e, u) ==
    /\ event[e].status = "PUBLISHED"
    /\ Begin(s, "issue", u, e, None, None)

\* User u's payment has been taken.  The event's row is locked, its status
\* is not looked at: the order was made while the event was on sale.
BuyLock(s, e, u) == Begin(s, "buy", u, e, None, None)

\* Each new ticket gets a code of its own.  A row goes from ISSUED to ACTIVE
\* before anybody else can see it.
CreateTickets(s) ==
    /\ Doing(s, "issue") \/ Doing(s, "buy")
    /\ LET e == tx[s].row
           u == tx[s].user
           free == {k \in Key : cred[k].status = "UNUSED"}
       IN \E new \in SUBSET Unissued(TicketsOf(e)) :
          \E code \in [new -> free] :
             /\ new # {}
             /\ \A t, v \in new : code[t] = code[v] => t = v
             /\ ticket' = [t \in Ticket |->
                   IF t \in new THEN [owner |-> u, status |-> "ACTIVE"]
                   ELSE ticket[t]]
             /\ cred' = [k \in Key |->
                   IF \E t \in new : code[t] = k
                   THEN [status |-> "ACTIVE", holder |-> u,
                         ticket |-> CHOOSE t \in new : code[t] = k]
                   ELSE cred[k]]
             /\ late' = IF Doing(s, "buy") /\ event[e].status = "CANCELLED"
                        THEN late \cup new ELSE late
    /\ End(s)
    /\ UNCHANGED <<event, assigned, transfer, entries, sweep>>

(* TransferService.create *)

\* Mutant: the recipient is not compared with the owner.
OfferLockAnyone(s, u, t, p) ==
    /\ ticket[t].owner = u
    /\ CanTransition(ticket[t].status, "TRANSFER_PENDING")
    /\ Begin(s, "offer", u, t, p, ticket[t].status)

\* The ticket row is locked and read again; the recipient is looked up.
OfferLock(s, u, t, p) ==
    /\ ticket[t].owner = u
    /\ CanTransition(ticket[t].status, "TRANSFER_PENDING")
    /\ p # u
    /\ Begin(s, "offer", u, t, p, ticket[t].status)

OfferCommit(s) ==
    /\ Doing(s, "offer")
    /\ PendingTransfers({tx[s].row}) = {}
    /\ Transition(tx[s].row, tx[s].seen, "TRANSFER_PENDING")
    /\ \E x \in Transfer :
          /\ transfer[x].status = "UNUSED"
          /\ transfer' = [transfer EXCEPT ![x] =
                [status |-> "PENDING", ticket |-> tx[s].row,
                 initiator |-> tx[s].user, recipient |-> tx[s].peer,
                 due |-> FALSE]]
    /\ End(s)
    /\ UNCHANGED <<event, assigned, cred, entries, late, sweep>>

(* TransferService.accept *)

\* Mutant: anybody can accept.
AcceptLockAnyone(s, u, x) ==
    /\ transfer[x].status = "PENDING"
    /\ ~transfer[x].due
    /\ Begin(s, "accept", u, x, None, None)

\* On an expired transfer accept throws after expireLockedTransfer, in the
\* same transaction: the expiry is rolled back and nothing changes.
AcceptLock(s, u, x) ==
    /\ transfer[x].status = "PENDING"
    /\ transfer[x].recipient = u
    /\ ~transfer[x].due
    /\ Begin(s, "accept", u, x, None, None)

AcceptLockTicket(s) ==
    /\ Doing(s, "accept")
    /\ LET x == transfer[tx[s].row] IN
          /\ LockMore(s, x.ticket)
          /\ ticket[x.ticket].owner = x.initiator
          /\ ticket[x.ticket].status = "TRANSFER_PENDING"

\* Mutant: the new code is created and the old one left active.
CreateOnly(t, u) ==
    \E new \in Key :
        /\ cred[new].status = "UNUSED"
        /\ cred' = [cred EXCEPT ![new] =
                       [status |-> "ACTIVE", ticket |-> t, holder |-> u]]

\* TicketCredentialService.revokeAndCreate: one active code is revoked (the
\* newest, should there be several) and u is shown the payload of a new one.
RevokeAndCreate(t, u) ==
    \E old \in IF ActiveKeys({t}) = {} THEN {None} ELSE ActiveKeys({t}),
       new \in Key :
        /\ cred[new].status = "UNUSED"
        /\ cred' = [k \in Key |->
              IF k = new THEN [status |-> "ACTIVE", ticket |-> t, holder |-> u]
              ELSE IF k = old THEN [cred[k] EXCEPT !.status = "REVOKED"]
              ELSE cred[k]]

\* The revocation waits for the current credential's row.
AcceptCommit(s) ==
    /\ Doing(s, "accept")
    /\ LET x == tx[s].row
           t == transfer[x].ticket
       IN /\ t \in holds[s]
          /\ \A k \in ActiveKeys({t}) : Free(s, k)
          /\ CanTransition(ticket[t].status, "ACTIVE")
          /\ RevokeAndCreate(t, tx[s].user)
          /\ ticket' = [ticket EXCEPT ![t] = [owner |-> tx[s].user,
                                              status |-> "ACTIVE"]]
          /\ transfer' = [transfer EXCEPT ![x].status = "ACCEPTED"]
    /\ End(s)
    /\ UNCHANGED <<event, assigned, entries, late, sweep>>

(* TransferService.reject and cancel, both by way of finish *)

FinishLock(s, u, x, o) ==
    /\ transfer[x].status = "PENDING"
    /\ u = IF o = "reject" THEN transfer[x].recipient ELSE transfer[x].initiator
    /\ Begin(s, o, u, x, None, None)

\* Waits for the ticket row; everything it then writes is locked.
FinishCommit(s) ==
    /\ Doing(s, "reject") \/ Doing(s, "withdraw")
    /\ LET x == tx[s].row
           t == transfer[x].ticket
       IN /\ Free(s, t)
          /\ Transition(t, ticket[t].status, "ACTIVE")
          /\ transfer' = [transfer EXCEPT ![x].status =
                            IF Doing(s, "reject") THEN "REJECTED" ELSE "CANCELLED"]
    /\ End(s)
    /\ UNCHANGED <<event, assigned, cred, entries, late, sweep>>

(* TransferService.expirePending, run by the expiry worker *)

SweepBegin(j) ==
    /\ Idle(j)
    /\ sweep[j] = {}
    /\ LET found == {x \in PendingTransfers(Ticket) : transfer[x].due}
       IN /\ found # {}
          /\ sweep' = [sweep EXCEPT ![j] = found]
    /\ UNCHANGED <<tables, holds, tx>>

\* Mutant: the transfer's status is not read again under the lock.
SweepLockBlind(j, x) ==
    /\ x \in sweep[j]
    /\ Begin(j, "expire", None, x, None, ticket[transfer[x].ticket].status)

\* The ticket's status is read without a lock and used at commit.
SweepLock(j, x) ==
    /\ x \in sweep[j]
    /\ transfer[x].status = "PENDING"
    /\ Begin(j, "expire", None, x, None, ticket[transfer[x].ticket].status)

\* The candidate was resolved since the run listed it.
SweepSkip(j, x) ==
    /\ Idle(j)
    /\ x \in sweep[j]
    /\ Free(j, x)
    /\ transfer[x].status # "PENDING"
    /\ sweep' = [sweep EXCEPT ![j] = @ \ {x}]
    /\ UNCHANGED <<tables, holds, tx>>

\* Mutant: throws after expiring, as accept does, and so rolls back.
SweepThrow(j) ==
    /\ Doing(j, "expire")
    /\ sweep' = [sweep EXCEPT ![j] = @ \ {tx[j].row}]
    /\ End(j)
    /\ UNCHANGED tables

SweepCommit(j) ==
    /\ Doing(j, "expire")
    /\ LET x == tx[j].row
           t == transfer[x].ticket
       IN /\ IF tx[j].seen = "TRANSFER_PENDING"
             THEN Free(j, t) /\ Transition(t, tx[j].seen, "ACTIVE")
             ELSE UNCHANGED ticket
          /\ transfer' = [transfer EXCEPT ![x].status = "EXPIRED"]
          /\ sweep' = [sweep EXCEPT ![j] = @ \ {x}]
    /\ End(j)
    /\ UNCHANGED <<event, assigned, cred, entries, late>>

(* VerificationService.verify *)

\* A scanner presents a QR code, current or not; its row is locked first.
VerifyLock(s, u, k) ==
    /\ cred[k].status = "ACTIVE"
    /\ Begin(s, "verify", u, k, None, None)

\* Mutant: the code is checked, the ticket's status is not.
VerifyCodeOnly(s) ==
    /\ Doing(s, "verify")
    /\ LET t == cred[tx[s].row].ticket IN
          /\ LockMore(s, t)
          /\ <<tx[s].user, EventOf[t]>> \in assigned
          /\ ActiveKeys({t}) = {tx[s].row}
          /\ event[EventOf[t]] = [status |-> "PUBLISHED", clock |-> "open"]

\* The assignment and the event are read here without a lock.
VerifyLockTicket(s) ==
    /\ Doing(s, "verify")
    /\ LET t == cred[tx[s].row].ticket IN
          /\ LockMore(s, t)
          /\ <<tx[s].user, EventOf[t]>> \in assigned
          /\ ActiveKeys({t}) = {tx[s].row}
          /\ event[EventOf[t]] = [status |-> "PUBLISHED", clock |-> "open"]
          /\ ticket[t].status = "ACTIVE"

VerifyCommit(s) ==
    /\ Doing(s, "verify")
    /\ LET t == cred[tx[s].row].ticket
       IN /\ t \in holds[s]
          /\ ticket' = [ticket EXCEPT ![t].status = "USED"]
          /\ entries' = [entries EXCEPT ![t] = @ + 1]
    /\ End(s)
    /\ UNCHANGED <<event, assigned, cred, transfer, late, sweep>>

-----------------------------------------------------------------------------
(* TicketService.cancel and EventService.cancel *)

CancelTicketLock(s, u, t) ==
    /\ ticket[t].status # "UNUSED"
    /\ u \in {ticket[t].owner, Organizer[EventOf[t]]}
    /\ CanTransition(ticket[t].status, "CANCELLED")
    /\ Begin(s, "cancelTicket", u, t, None, ticket[t].status)

CancelEventLock(s, e) ==
    /\ event[e].status # "CANCELLED"
    /\ Begin(s, "cancelEvent", Organizer[e], e, None, None)

\* The tickets a cancellation is about.
Scope(s) == IF Doing(s, "cancelEvent") THEN TicketsOf(tx[s].row) ELSE {tx[s].row}

\* The rows the first unfinished UPDATE of a cancellation has still to lock:
\* live tickets, then active credentials, then pending transfers.
RowsLeft(s) ==
    LET T == LiveTickets(Scope(s)) \ holds[s]
        K == ActiveKeys(Scope(s)) \ holds[s]
        X == PendingTransfers(Scope(s)) \ holds[s]
    IN IF T # {} THEN T ELSE IF K # {} THEN K ELSE X

CancelLockRow(s) ==
    /\ Doing(s, "cancelTicket") \/ Doing(s, "cancelEvent")
    /\ \E r \in RowsLeft(s) : LockMore(s, r)

\* Mutants: the codes, or the pending transfers, are forgotten.
VoidTransfersOnly(T) ==
    /\ UNCHANGED cred
    /\ transfer' = [x \in Transfer |-> IF x \in PendingTransfers(T)
                              THEN [transfer[x] EXCEPT !.status = "CANCELLED"]
                              ELSE transfer[x]]

VoidCodesOnly(T) ==
    /\ cred' = [k \in Key |-> IF k \in ActiveKeys(T)
                              THEN [cred[k] EXCEPT !.status = "REVOKED"]
                              ELSE cred[k]]
    /\ UNCHANGED transfer

VoidRows(T) ==
    /\ cred' = [k \in Key |-> IF k \in ActiveKeys(T)
                              THEN [cred[k] EXCEPT !.status = "REVOKED"]
                              ELSE cred[k]]
    /\ transfer' = [x \in Transfer |-> IF x \in PendingTransfers(T)
                              THEN [transfer[x] EXCEPT !.status = "CANCELLED"]
                              ELSE transfer[x]]

CancelTicketCommit(s) ==
    /\ Doing(s, "cancelTicket")
    /\ RowsLeft(s) = {}
    /\ Transition(tx[s].row, tx[s].seen, "CANCELLED")
    /\ VoidRows({tx[s].row})
    /\ End(s)
    /\ UNCHANGED <<event, assigned, entries, late, sweep>>

CancelEventCommit(s) ==
    /\ Doing(s, "cancelEvent")
    /\ RowsLeft(s) = {}
    /\ event' = [event EXCEPT ![tx[s].row].status = "CANCELLED"]
    /\ LET T == TicketsOf(tx[s].row)
       IN /\ ticket' = [t \in Ticket |-> IF t \in LiveTickets(T)
                              THEN [ticket[t] EXCEPT !.status = "CANCELLED"]
                              ELSE ticket[t]]
          /\ VoidRows(T)
    /\ End(s)
    /\ UNCHANGED <<assigned, entries, late, sweep>>

(* EventService.assignScanner and removeScanner: no row of these tables is *)
(* locked and the event's status is read once, so each is one step (an     *)
(* assignment that commits behind a cancellation it did not see leaves the *)
(* tables as if it had come first).                                        *)

AssignScanner(u, e) ==
    /\ u \in Scanner
    /\ event[e].status # "CANCELLED"
    /\ <<u, e>> \notin assigned
    /\ assigned' = assigned \cup {<<u, e>>}
    /\ UNCHANGED <<event, ticket, cred, transfer, entries, late, holds, tx, sweep>>

RemoveScanner(u, e) ==
    /\ <<u, e>> \in assigned
    /\ assigned' = assigned \ {<<u, e>>}
    /\ UNCHANGED <<event, ticket, cred, transfer, entries, late, holds, tx, sweep>>

-----------------------------------------------------------------------------
(* What happens around the code. *)

\* A check that throws, a deadlock PostgreSQL resolves, the five seconds an
\* interactive transaction may take, a lost connection or a crash: the
\* transaction's writes and locks are gone.  A worker run dies with it.
Rollback(s) ==
    /\ ~Idle(s)
    /\ End(s)
    /\ sweep' = [j \in Job |-> IF j = s THEN {} ELSE sweep[j]]
    /\ UNCHANGED tables

\* Fifteen minutes pass since the transfer was created.
Lapse(x) ==
    /\ transfer[x].status = "PENDING"
    /\ ~transfer[x].due
    /\ transfer' = [transfer EXCEPT ![x].due = TRUE]
    /\ UNCHANGED <<event, assigned, ticket, cred, entries, late, holds, tx, sweep>>

\* The clock reaches startAt, then endAt.
ClockMoves(e) ==
    /\ event[e].clock # "over"
    /\ event' = [event EXCEPT ![e].clock =
                    IF @ = "before" THEN "open" ELSE "over"]
    /\ UNCHANGED <<assigned, ticket, cred, transfer, entries, late, holds, tx, sweep>>

-----------------------------------------------------------------------------

\* The events are published and no ticket has been issued yet.
Init ==
    /\ event = [e \in Event |-> [status |-> "PUBLISHED", clock |-> "before"]]
    /\ assigned = {}
    /\ ticket = [t \in Ticket |-> [owner |-> None, status |-> "UNUSED"]]
    /\ cred = [k \in Key |->
                  [status |-> "UNUSED", ticket |-> None, holder |-> None]]
    /\ transfer = [x \in Transfer |->
                      [status |-> "UNUSED", ticket |-> None, initiator |-> None,
                       recipient |-> None, due |-> FALSE]]
    /\ entries = [t \in Ticket |-> 0]
    /\ late = {}
    /\ holds = [s \in Session |-> {}]
    /\ tx = [s \in Session |-> NoTx]
    /\ sweep = [j \in Job |-> {}]

RequestStep(s) ==
    \/ \E e \in Event, u \in User : IssueLock(s, e, u) \/ BuyLock(s, e, u)
    \/ CreateTickets(s)
    \/ \E u, p \in User, t \in Ticket : OfferLock(s, u, t, p)
    \/ OfferCommit(s)
    \/ \E u \in User, x \in Transfer : AcceptLock(s, u, x)
    \/ AcceptLockTicket(s)
    \/ AcceptCommit(s)
    \/ \E u \in User, x \in Transfer, o \in {"reject", "withdraw"} :
          FinishLock(s, u, x, o)
    \/ FinishCommit(s)
    \/ \E u \in Scanner, k \in Key : VerifyLock(s, u, k)
    \/ VerifyLockTicket(s)
    \/ VerifyCommit(s)
    \/ \E u \in User, t \in Ticket : CancelTicketLock(s, u, t)
    \/ \E e \in Event : CancelEventLock(s, e)
    \/ CancelLockRow(s)
    \/ CancelTicketCommit(s)
    \/ CancelEventCommit(s)

JobStep(j) ==
    \/ SweepBegin(j)
    \/ \E x \in Transfer : SweepLock(j, x)
    \/ \E x \in Transfer : SweepSkip(j, x)
    \/ SweepCommit(j)

Environment ==
    \/ \E s \in Session : Rollback(s)
    \/ \E x \in Transfer : Lapse(x)
    \/ \E e \in Event : ClockMoves(e)
    \/ \E u \in User, e \in Event : AssignScanner(u, e) \/ RemoveScanner(u, e)

Next ==
    \/ \E s \in Request : RequestStep(s)
    \/ \E j \in Job : JobStep(j)
    \/ Environment

Spec == Init /\ [][Next]_vars
=============================================================================
