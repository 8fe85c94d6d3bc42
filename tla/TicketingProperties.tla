------------------------ MODULE TicketingProperties -------------------------
(***************************************************************************)
(* What Ticketing is checked and proved to guarantee.                      *)
(***************************************************************************)
EXTENDS Ticketing

-----------------------------------------------------------------------------
(* Safety. *)

Offered(t) == ticket[t].status = "TRANSFER_PENDING"

\* A row is locked by one session at a time.
LocksExclusive ==
    \A s, o \in Session : s # o => holds[s] \cap holds[o] = {}

\* The two tables that say "this ticket is being transferred" agree at every
\* commit: a ticket is TRANSFER_PENDING exactly while it has a pending
\* transfer, only one, started by its present owner for somebody else.
\* Five operations, two of them of other modules, resolve a transfer.
OffersConsistent ==
    \A t \in Ticket :
        /\ Offered(t) <=> PendingTransfers({t}) # {}
        /\ \A x, y \in PendingTransfers({t}) : x = y
        /\ \A x \in PendingTransfers({t}) :
              /\ transfer[x].initiator = ticket[t].owner
              /\ transfer[x].recipient # ticket[t].owner

\* Of all the QR codes issued for a ticket at most one is active, and it was
\* issued to the present owner: no former owner keeps a code that works and
\* no holder of a ticket that can still be used is left without one.
CredentialFollowsOwner ==
    \A t \in Ticket :
        /\ \A k, l \in ActiveKeys({t}) : k = l
        /\ \A k \in ActiveKeys({t}) : cred[k].holder = ticket[t].owner
        /\ ticket[t].status \in LiveStatuses => ActiveKeys({t}) # {}
        /\ ticket[t].status = "CANCELLED" => ActiveKeys({t}) = {}

\* However many scanners present a ticket at once it admits one person, and
\* the audit log's TICKET_USED rows and the ticket table tell the same story.
AdmitsOnce ==
    \A t \in Ticket : entries[t] = IF ticket[t].status = "USED" THEN 1 ELSE 0

\* Once the cancellation of an event has committed, whatever was under way
\* meanwhile, no ticket of the event is left to use, to accept or to present,
\* but for those that a payment creates afterwards: pay is the one operation
\* that does not ask whether the event is cancelled.
CancelledEventIsDead ==
    \A e \in Event : event[e].status = "CANCELLED" =>
        LET T == TicketsOf(e) \ late
        IN LiveTickets(T) = {} /\ ActiveKeys(T) = {} /\ PendingTransfers(T) = {}

(* Action properties. *)

\* A ticket changes hands only by the acceptance of its pending transfer: in
\* the same commit the transfer's recipient becomes the owner, the old code
\* stops working, and the new one has never been anybody else's.
OwnerChanges(t) ==
    ticket[t].status # "UNUSED" /\ ticket'[t].owner # ticket[t].owner =>
        /\ \E x \in PendingTransfers({t}) :
              /\ transfer'[x].status = "ACCEPTED"
              /\ transfer[x].recipient = ticket'[t].owner
        /\ \A k \in ActiveKeys({t}) : cred'[k].status = "REVOKED"
        /\ \E k \in Key : /\ cred[k].status = "UNUSED"
                          /\ cred'[k].status = "ACTIVE"
                          /\ cred'[k].ticket = t

OwnershipMovesByAcceptance == [][\A t \in Ticket : OwnerChanges(t)]_vars

\* A check-in commits only for a ticket that was ACTIVE, by the code its
\* present owner holds, and while the event is still published: the event's
\* status was read without a lock, yet its cancellation cannot slip between
\* that read and the commit.
Admitted(t) ==
    ticket[t].status # "USED" /\ ticket'[t].status = "USED" =>
        /\ ticket[t].status = "ACTIVE"
        /\ event'[EventOf[t]].status = "PUBLISHED"
        /\ \E s \in Request : /\ Doing(s, "verify") /\ tx'[s] = NoTx
                              /\ tx[s].row \in ActiveKeys({t})
                              /\ cred[tx[s].row].holder = ticket[t].owner

AdmissionIsCurrent == [][\A t \in Ticket : Admitted(t)]_vars

\* USED and CANCELLED are final, a transfer is resolved once, and a code that
\* was revoked is never active again.
NothingRevives ==
    [][/\ \A t \in Ticket : ticket[t].status \in TerminalStatuses =>
              ticket'[t] = ticket[t]
       /\ \A x \in Transfer : transfer[x].status \in TransferStatuses \ {"PENDING"} =>
              transfer'[x] = transfer[x]
       /\ \A k \in Key : cred[k].status = "REVOKED" => cred'[k] = cred[k]]_vars

(* The inductive invariant. *)

\* A ticket has an owner once it is issued, and a used row refers to rows that
\* exist (foreign keys).
References ==
    /\ \A t \in Ticket : ticket[t].status # "UNUSED" <=> ticket[t].owner \in User
    /\ \A k \in Key : cred[k].status # "UNUSED" =>
          /\ cred[k].ticket \in Ticket
          /\ ticket[cred[k].ticket].status # "UNUSED"
    /\ \A x \in Transfer : transfer[x].status # "UNUSED" =>
          /\ transfer[x].ticket \in Ticket
          /\ ticket[transfer[x].ticket].status # "UNUSED"
          /\ transfer[x].initiator \in User
          /\ transfer[x].recipient \in User

\* What a transaction found in the rows it has locked stays true of them
\* until it ends, because every other writer needs the same locks.
Knows(s) ==
    LET r == tx[s].row IN
    /\ Idle(s) => holds[s] = {}
    /\ ~Idle(s) => r \in holds[s]
    /\ Doing(s, "offer") =>
          /\ r \in Ticket /\ ticket[r] = [owner |-> tx[s].user, status |-> "ACTIVE"]
          /\ tx[s].seen = "ACTIVE" /\ tx[s].peer \in User \ {tx[s].user}
    /\ tx[s].op \in {"accept", "reject", "withdraw", "expire"} =>
          r \in Transfer /\ transfer[r].status = "PENDING"
    /\ Doing(s, "accept") => tx[s].user = transfer[r].recipient
    /\ Doing(s, "expire") => s \in Job /\ tx[s].seen = "TRANSFER_PENDING"
    /\ Doing(s, "verify") =>
          /\ s \in Request /\ r \in Key /\ cred[r].status = "ACTIVE"
          /\ cred[r].ticket \in holds[s] =>
                /\ ticket[cred[r].ticket].status = "ACTIVE"
                /\ event[EventOf[cred[r].ticket]].status = "PUBLISHED"
    /\ Doing(s, "cancelTicket") =>
          /\ r \in Ticket /\ tx[s].seen = ticket[r].status
          /\ tx[s].seen \in Statuses
          /\ CanTransition(tx[s].seen, "CANCELLED")
    /\ tx[s].op \in {"cancelEvent", "issue", "buy"} => r \in Event
    /\ tx[s].op \in {"issue", "buy"} => tx[s].user \in User
    /\ Doing(s, "issue") => event[r].status = "PUBLISHED"

TicketingInv ==
    /\ TypeOK
    /\ References
    /\ LocksExclusive
    /\ \A s \in Session : Knows(s)
    /\ OffersConsistent
    /\ CredentialFollowsOwner
    /\ AdmitsOnce
    /\ CancelledEventIsDead

-----------------------------------------------------------------------------
(* Liveness. *)

\* Requests come or do not come; the only thing granted is that no
\* transaction stays open for ever (it ends or times out), that the worker
\* is started again while there is something to expire (the repeatable job
\* of infrastructure/queue/index.ts) and that PostgreSQL's lock queue does
\* not pass the worker over for ever.
Fairness ==
    /\ \A s \in Session : WF_vars(Rollback(s))
    /\ \A j \in Job :
          /\ WF_vars(SweepBegin(j))
          /\ SF_vars(\E x \in Transfer : SweepLock(j, x) \/ SweepSkip(j, x))
          /\ SF_vars(SweepCommit(j))

FairSpec == Spec /\ Fairness

\* From some point on no new request arrives (those under way may finish).
RequestsCease == <>[][\A s \in Request : Idle(s) => Idle(s)']_vars

\* An offer nobody answers does not hold its ticket for ever: once requests
\* stop contending for its rows, a transfer that is past its expiry is
\* resolved, though any single run of the worker may lose a deadlock, time
\* out, die or find the transfer locked, and though accept's own attempt to
\* expire it is always rolled back.
ExpiredOffersResolve ==
    RequestsCease =>
        \A x \in Transfer :
            (transfer[x].status = "PENDING" /\ transfer[x].due)
                ~> transfer[x].status # "PENDING"

-----------------------------------------------------------------------------
(* Refinement. *)

TheOne(S) == IF S = {} THEN None ELSE CHOOSE v \in S : TRUE

LifecycleState(t) ==
    CASE ticket[t].status = "UNUSED" -> "unissued"
      [] ticket[t].status = "USED" -> "used"
      [] ticket[t].status = "CANCELLED" -> "void"
      [] Offered(t) -> "offered"
      [] OTHER -> "valid"

Lifecycle == INSTANCE TicketLifecycle WITH
    Pass <- Key,
    owner <- [t \in Ticket |-> ticket[t].owner],
    state <- [t \in Ticket |-> LifecycleState(t)],
    offeredTo <- [t \in Ticket |->
        TheOne({transfer[x].recipient : x \in PendingTransfers({t})})],
    pass <- [t \in Ticket |-> TheOne(ActiveKeys({t}))],
    retired <- {k \in Key : cred[k].status = "REVOKED"}

\* The tables, with their locks, transfer rows and background job, keep the
\* promise of TicketLifecycle: an owner changes only by an offer taken up by
\* the user it was made to, a new pass is always fresh, nobody enters twice.
ImplementsLifecycle == Lifecycle!Spec

=============================================================================
