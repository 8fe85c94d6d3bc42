-------------------------- MODULE TicketingProofs ---------------------------
(***************************************************************************)
(* Proofs, for any number of users, tickets, requests and worker runs,     *)
(* that Ticketing keeps its inductive invariant, what follows from it, and *)
(* that Ticketing implements TicketLifecycle.                              *)
(*                                                                         *)
(* A step is either quiet (it only takes locks or opens a transaction; see *)
(* QuietStep) or a commit (see CommitStep).  The first keeps the tables,   *)
(* the second keeps every row that another session has locked.             *)
(***************************************************************************)
EXTENDS TicketingProperties, TLAPS

TablesOK ==
    /\ References
    /\ OffersConsistent
    /\ CredentialFollowsOwner
    /\ AdmitsOnce
    /\ CancelledEventIsDead

TxTypeOK ==
    /\ holds \in [Session -> SUBSET Row]
    /\ tx \in [Session -> [op : {"idle"} \cup Operations,
                           user : User \cup {None}, row : Row \cup {None},
                           peer : User \cup {None}, seen : Statuses \cup {None}]]
    /\ sweep \in [Job -> SUBSET Transfer]

TableTypeOK ==
    /\ event \in [Event -> [status : {"PUBLISHED", "CANCELLED"},
                            clock : {"before", "open", "over"}]]
    /\ assigned \in SUBSET (Scanner \X Event)
    /\ ticket \in [Ticket -> [owner : User \cup {None}, status : {"UNUSED"} \cup Statuses]]
    /\ cred \in [Key -> [status : {"UNUSED", "ACTIVE", "REVOKED"},
                         ticket : Ticket \cup {None},
                         holder : User \cup {None}]]
    /\ transfer \in [Transfer -> [status : {"UNUSED"} \cup TransferStatuses,
                                  ticket : Ticket \cup {None},
                                  initiator : User \cup {None},
                                  recipient : User \cup {None},
                                  due : BOOLEAN]]
    /\ entries \in [Ticket -> Nat]
    /\ late \in SUBSET Ticket

\* The parts of the invariant, as the lemmas below use them.
LEMMA InvParts ==
    TicketingInv <=> /\ TxTypeOK /\ TableTypeOK /\ TablesOK /\ LocksExclusive
                     /\ \A s \in Session : Knows(s)
BY DEF TicketingInv, TypeOK, TxTypeOK, TableTypeOK, TablesOK

LEMMA InvPartsNext ==
    TicketingInv' <=> /\ TxTypeOK' /\ TableTypeOK' /\ TablesOK' /\ LocksExclusive'
                      /\ \A s \in Session : Knows(s)'
BY DEF TicketingInv, TypeOK, TxTypeOK, TableTypeOK, TablesOK

\* Tables that do not change keep everything said about them.
LEMMA TablesKept ==
    ASSUME TableTypeOK, TablesOK, UNCHANGED tables
    PROVE  TableTypeOK' /\ TablesOK'
BY DEF TableTypeOK, TablesOK, tables, References, OffersConsistent,
       CredentialFollowsOwner, AdmitsOnce, CancelledEventIsDead, Offered,
       PendingTransfers, ActiveKeys, LiveTickets, TicketsOf

\* What another session knows survives a step that keeps the rows it holds.
LEMMA KnowsKept ==
    ASSUME NEW o \in Session, Knows(o),
           tx'[o] = tx[o], holds'[o] = holds[o],
           \A e \in Event : e \in holds[o] => event'[e].status = event[e].status,
           \A t \in Ticket : t \in holds[o] /\ ticket[t].status # "UNUSED" =>
               /\ ticket'[t] = ticket[t]
               /\ ticket[t].status = "ACTIVE" =>
                      event'[EventOf[t]].status = event[EventOf[t]].status,
           \A k \in Key : k \in holds[o] /\ cred[k].status = "ACTIVE" =>
               cred'[k] = cred[k],
           \A x \in Transfer : x \in holds[o] /\ transfer[x].status = "PENDING" =>
               /\ transfer'[x].status = transfer[x].status
               /\ transfer'[x].recipient = transfer[x].recipient,
           References
    PROVE  Knows(o)'
<1>1. /\ Idle(o)' <=> Idle(o)
      /\ \A op \in {"offer", "accept", "verify", "expire", "cancelTicket", "issue"} :
            Doing(o, op)' <=> Doing(o, op)
  BY DEF Idle, Doing
<1> DEFINE r == tx[o].row
<1>2. Doing(o, "verify") =>
          /\ o \in Request /\ r \in Key /\ cred'[r] = cred[r] /\ cred[r].status = "ACTIVE"
          /\ cred[r].ticket \in holds[o] =>
                /\ cred[r].ticket \in Ticket
                /\ ticket'[cred[r].ticket].status = "ACTIVE"
                /\ event'[EventOf[cred[r].ticket]].status = "PUBLISHED"
  BY DEF Knows, Idle, Doing, References
<1>3. /\ Doing(o, "offer") \/ Doing(o, "cancelTicket") =>
            r \in Ticket /\ ticket'[r] = ticket[r]
      /\ tx[o].op \in {"accept", "reject", "withdraw", "expire"} =>
            /\ r \in Transfer /\ transfer'[r].status = "PENDING"
            /\ transfer'[r].recipient = transfer[r].recipient
      /\ Doing(o, "issue") => r \in Event /\ event'[r].status = "PUBLISHED"
  <2>1. CASE Doing(o, "cancelTicket")
    <3>1. /\ r \in Ticket /\ r \in holds[o] /\ tx[o].seen = ticket[r].status
          /\ tx[o].seen \in Statuses
      BY <2>1 DEF Knows, Idle, Doing
    <3>2. ticket[r].status # "UNUSED"
      BY <3>1 DEF Statuses
    <3> QED BY <2>1, <3>1, <3>2 DEF Doing
  <2>2. CASE ~Doing(o, "cancelTicket")
    BY <2>2 DEF Knows, Idle, Doing
  <2> QED BY <2>1, <2>2
<1> QED BY <1>1, <1>2, <1>3 DEF Knows, Idle, Doing

\* A step that only takes locks, or opens or drops a transaction.
LEMMA QuietStep ==
    ASSUME TicketingInv, NEW s \in Session, UNCHANGED tables, TxTypeOK',
           \A o \in Session \ {s} : tx'[o] = tx[o] /\ holds'[o] = holds[o],
           \A o \in Session \ {s} : holds'[s] \cap holds[o] = {},
           Knows(s)'
    PROVE  TicketingInv'
<1>1. TableTypeOK' /\ TablesOK'
  BY InvParts, TablesKept
<1>2. LocksExclusive'
  BY InvParts DEF LocksExclusive
<1>3. ASSUME NEW o \in Session PROVE Knows(o)'
  <2>1. CASE o = s
    BY <2>1
  <2>2. CASE o # s
    BY <2>2, InvParts, KnowsKept DEF tables, TablesOK
  <2>3. QED
    BY <2>1, <2>2
<1>4. QED
  BY <1>1, <1>2, <1>3, InvPartsNext

-----------------------------------------------------------------------------
(* The steps that only take locks. *)

\* Opening a transaction with the lock of its first row.
LEMMA BeginStep ==
    ASSUME TicketingInv, NEW s \in Session, NEW o \in Operations,
           NEW u \in User \cup {None}, NEW r \in Row, NEW p \in User \cup {None},
           NEW st \in Statuses \cup {None}, Begin(s, o, u, r, p, st),
           Knows(s)'
    PROVE  TicketingInv'
<1>1. /\ TxTypeOK /\ UNCHANGED <<tables, sweep>>
      /\ tx' = [tx EXCEPT ![s] = [op |-> o, user |-> u, row |-> r,
                                  peer |-> p, seen |-> st]]
      /\ holds' = [holds EXCEPT ![s] = {r}]
      /\ Free(s, r)
  BY InvParts DEF Begin
<1>2. TxTypeOK'
  BY <1>1 DEF TxTypeOK
<1>3. \A q \in Session \ {s} : tx'[q] = tx[q] /\ holds'[q] = holds[q]
  BY <1>1 DEF TxTypeOK
<1>4. \A q \in Session \ {s} : holds'[s] \cap holds[q] = {}
  BY <1>1 DEF TxTypeOK, Free
<1>5. QED
  BY <1>1, <1>2, <1>3, <1>4, QuietStep

\* One more row.
LEMMA LockMoreStep ==
    ASSUME TicketingInv, NEW s \in Session, NEW r \in Row, LockMore(s, r),
           Knows(s)'
    PROVE  TicketingInv'
<1>1. /\ TxTypeOK /\ LocksExclusive /\ UNCHANGED <<tables, tx, sweep>>
      /\ holds' = [holds EXCEPT ![s] = holds[s] \cup {r}]
      /\ Free(s, r)
  BY InvParts DEF LockMore
<1>2. TxTypeOK'
  BY <1>1 DEF TxTypeOK
<1>3. \A q \in Session \ {s} : tx'[q] = tx[q] /\ holds'[q] = holds[q]
  BY <1>1 DEF TxTypeOK
<1>4. \A q \in Session \ {s} : holds'[s] \cap holds[q] = {}
  BY <1>1 DEF TxTypeOK, Free, LocksExclusive
<1>5. QED
  BY <1>1, <1>2, <1>3, <1>4, QuietStep

\* The row and the record a session has after Begin.
LEMMA BegunTx ==
    ASSUME TicketingInv, NEW s \in Session, NEW o, NEW u, NEW r, NEW p, NEW st,
           Begin(s, o, u, r, p, st)
    PROVE  /\ tx'[s].op = o /\ tx'[s].user = u /\ tx'[s].row = r
           /\ tx'[s].peer = p /\ tx'[s].seen = st
           /\ holds'[s] = {r}
           /\ UNCHANGED tables
BY InvParts DEF Begin, TxTypeOK

LEMMA IssueLockInv ==
    ASSUME TicketingInv, NEW s \in Request, NEW e \in Event, NEW u \in User,
           IssueLock(s, e, u) \/ BuyLock(s, e, u)
    PROVE  TicketingInv'
<1>1. s \in Session /\ e \in Row
  BY DEF Session, Row
<1>2. CASE IssueLock(s, e, u)
  <2>1. Begin(s, "issue", u, e, None, None)
    BY <1>2 DEF IssueLock
  <2>2. Knows(s)'
    BY <1>1, <1>2, <2>1, BegunTx DEF IssueLock, Knows, Idle, Doing, tables
  <2> QED BY <1>1, <2>1, <2>2, BeginStep DEF Operations
<1>3. CASE BuyLock(s, e, u)
  <2>1. Begin(s, "buy", u, e, None, None)
    BY <1>3 DEF BuyLock
  <2>2. Knows(s)'
    BY <1>1, <2>1, BegunTx DEF Knows, Idle, Doing, tables
  <2> QED BY <1>1, <2>1, <2>2, BeginStep DEF Operations
<1> QED BY <1>2, <1>3

LEMMA OfferLockInv ==
    ASSUME TicketingInv, NEW s \in Request, NEW u \in User, NEW p \in User,
           NEW t \in Ticket, OfferLock(s, u, t, p)
    PROVE  TicketingInv'
<1>1. /\ s \in Session /\ t \in Row
      /\ ticket[t] \in [owner : User \cup {None}, status : {"UNUSED"} \cup Statuses]
  BY InvParts DEF Session, Row, TableTypeOK
<1>2. ticket[t] = [owner |-> u, status |-> "ACTIVE"]
  BY <1>1, InvParts DEF OfferLock, CanTransition, Transitions, Statuses, TablesOK,
                        References
<1>3. Begin(s, "offer", u, t, p, "ACTIVE")
  BY <1>2 DEF OfferLock
<1>4. Knows(s)'
  BY <1>1, <1>2, <1>3, BegunTx DEF OfferLock, Knows, Idle, Doing, tables
<1>5. QED
  BY <1>1, <1>3, <1>4, BeginStep DEF Operations, Statuses

LEMMA AcceptLockInv ==
    ASSUME TicketingInv, NEW s \in Request, NEW u \in User, NEW x \in Transfer,
           AcceptLock(s, u, x)
    PROVE  TicketingInv'
<1>1. s \in Session /\ x \in Row /\ Begin(s, "accept", u, x, None, None)
  BY DEF AcceptLock, Session, Row
<1>2. Knows(s)'
  BY <1>1, BegunTx DEF AcceptLock, Knows, Idle, Doing, tables
<1>3. QED
  BY <1>1, <1>2, BeginStep DEF Operations

LEMMA FinishLockInv ==
    ASSUME TicketingInv, NEW s \in Request, NEW u \in User, NEW x \in Transfer,
           NEW o \in {"reject", "withdraw"}, FinishLock(s, u, x, o)
    PROVE  TicketingInv'
<1>1. s \in Session /\ x \in Row /\ Begin(s, o, u, x, None, None)
  BY DEF FinishLock, Session, Row
<1>2. Knows(s)'
  BY <1>1, BegunTx DEF FinishLock, Knows, Idle, Doing, tables
<1>3. QED
  BY <1>1, <1>2, BeginStep DEF Operations

LEMMA VerifyLockInv ==
    ASSUME TicketingInv, NEW s \in Request, NEW u \in Scanner, NEW k \in Key,
           VerifyLock(s, u, k)
    PROVE  TicketingInv'
<1>1. /\ s \in Session /\ k \in Row /\ u \in User
      /\ Begin(s, "verify", u, k, None, None)
  BY ConstantsAssumption DEF VerifyLock, Session, Row
<1>2. cred[k].ticket \in Ticket /\ cred[k].ticket # k
  BY InvParts, ConstantsAssumption DEF VerifyLock, TablesOK, References
<1>3. Knows(s)'
  BY <1>1, <1>2, BegunTx DEF VerifyLock, Knows, Idle, Doing, tables
<1>4. QED
  BY <1>1, <1>3, BeginStep DEF Operations

LEMMA CancelTicketLockInv ==
    ASSUME TicketingInv, NEW s \in Request, NEW u \in User, NEW t \in Ticket,
           CancelTicketLock(s, u, t)
    PROVE  TicketingInv'
<1>1. /\ s \in Session /\ t \in Row
      /\ Begin(s, "cancelTicket", u, t, None, ticket[t].status)
  BY DEF CancelTicketLock, Session, Row
<1>2. ticket[t].status \in Statuses
  BY InvParts DEF TableTypeOK, CancelTicketLock
<1>3. Knows(s)'
  BY <1>1, <1>2, BegunTx DEF CancelTicketLock, Knows, Idle, Doing, tables
<1>4. QED
  BY <1>1, <1>2, <1>3, BeginStep DEF Operations

LEMMA CancelEventLockInv ==
    ASSUME TicketingInv, NEW s \in Request, NEW e \in Event, CancelEventLock(s, e)
    PROVE  TicketingInv'
<1>1. /\ s \in Session /\ e \in Row /\ Organizer[e] \in User
      /\ Begin(s, "cancelEvent", Organizer[e], e, None, None)
  BY ConstantsAssumption DEF CancelEventLock, Session, Row
<1>2. Knows(s)'
  BY <1>1, BegunTx DEF Knows, Idle, Doing, tables
<1>3. QED
  BY <1>1, <1>2, BeginStep DEF Operations

LEMMA SweepLockInv ==
    ASSUME TicketingInv, NEW j \in Job, NEW x \in Transfer, SweepLock(j, x)
    PROVE  TicketingInv'
<1>1. /\ j \in Session /\ x \in Row /\ transfer[x].ticket \in Ticket
  BY InvParts DEF SweepLock, Session, Row, TablesOK, References
<1>2. ticket[transfer[x].ticket].status = "TRANSFER_PENDING"
  BY <1>1, InvParts DEF SweepLock, TablesOK, OffersConsistent, Offered,
                        PendingTransfers
<1>3. Begin(j, "expire", None, x, None, "TRANSFER_PENDING")
  BY <1>2 DEF SweepLock
<1>4. Knows(j)'
  BY <1>1, <1>3, BegunTx DEF SweepLock, Knows, Idle, Doing, tables
<1>5. QED
  BY <1>1, <1>3, <1>4, BeginStep DEF Operations, Statuses

LEMMA AcceptLockTicketInv ==
    ASSUME TicketingInv, NEW s \in Request, AcceptLockTicket(s)
    PROVE  TicketingInv'
<1>1. s \in Session /\ Knows(s) /\ Doing(s, "accept")
  BY InvParts DEF AcceptLockTicket, Session
<1> DEFINE t == transfer[tx[s].row].ticket
<1>2. t \in Row /\ LockMore(s, t)
  BY <1>1, InvParts DEF AcceptLockTicket, Knows, Doing, TablesOK, References, Row
<1>3. Knows(s)'
  BY <1>1, <1>2, InvParts DEF Knows, LockMore, Idle, Doing, tables, TxTypeOK
<1>4. QED
  BY <1>1, <1>2, <1>3, LockMoreStep

LEMMA VerifyLockTicketInv ==
    ASSUME TicketingInv, NEW s \in Request, VerifyLockTicket(s)
    PROVE  TicketingInv'
<1>1. s \in Session /\ Knows(s) /\ Doing(s, "verify")
  BY InvParts DEF VerifyLockTicket, Session
<1> DEFINE t == cred[tx[s].row].ticket
<1>2. /\ t \in Row /\ LockMore(s, t) /\ ticket[t].status = "ACTIVE"
      /\ event[EventOf[t]] = [status |-> "PUBLISHED", clock |-> "open"]
  BY <1>1, InvParts DEF VerifyLockTicket, Knows, TablesOK, References, Row
<1>3. Knows(s)'
  BY <1>1, <1>2, InvParts DEF Knows, LockMore, Idle, Doing, tables, TxTypeOK
<1>4. QED
  BY <1>1, <1>2, <1>3, LockMoreStep

LEMMA CancelLockRowInv ==
    ASSUME TicketingInv, NEW s \in Request, CancelLockRow(s)
    PROVE  TicketingInv'
<1>1. /\ s \in Session /\ Knows(s)
      /\ Doing(s, "cancelTicket") \/ Doing(s, "cancelEvent")
  BY InvParts DEF CancelLockRow, Session
<1>2. PICK r \in RowsLeft(s) : LockMore(s, r)
  BY DEF CancelLockRow
<1>3. r \in Row
  BY <1>1, <1>2 DEF RowsLeft, Scope, LiveTickets, ActiveKeys, PendingTransfers,
                    TicketsOf, Row, Knows
<1>4. Knows(s)'
  BY <1>1, <1>2, InvParts DEF Knows, LockMore, Idle, Doing, tables, TxTypeOK
<1>5. QED
  BY <1>1, <1>2, <1>3, <1>4, LockMoreStep

LEMMA SweepListInv ==
    ASSUME TicketingInv, NEW j \in Job,
           SweepBegin(j) \/ \E x \in Transfer : SweepSkip(j, x)
    PROVE  TicketingInv'
<1>1. UNCHANGED <<tables, holds, tx>> /\ TxTypeOK'
  BY InvParts DEF SweepBegin, SweepSkip, TxTypeOK, PendingTransfers
<1>2. j \in Session /\ Knows(j)'
  BY <1>1, InvParts DEF Session, Knows, Idle, Doing, tables
<1>3. \A o \in Session \ {j} : holds'[j] \cap holds[o] = {}
  BY <1>1, <1>2, InvParts DEF LocksExclusive
<1>4. QED
  BY <1>1, <1>2, <1>3, QuietStep

LEMMA RollbackInv ==
    ASSUME TicketingInv, NEW s \in Session, Rollback(s)
    PROVE  TicketingInv'
<1>1. /\ TxTypeOK /\ UNCHANGED tables
      /\ tx' = [tx EXCEPT ![s] = NoTx] /\ holds' = [holds EXCEPT ![s] = {}]
  BY InvParts DEF Rollback, End
<1>2. TxTypeOK'
  BY <1>1 DEF TxTypeOK, NoTx, Rollback
<1>3. Knows(s)'
  BY <1>1 DEF TxTypeOK, Knows, Idle, Doing, NoTx
<1>4. /\ \A o \in Session \ {s} : tx'[o] = tx[o] /\ holds'[o] = holds[o]
      /\ \A o \in Session \ {s} : holds'[s] \cap holds[o] = {}
  BY <1>1 DEF TxTypeOK
<1>5. QED
  BY <1>1, <1>2, <1>3, <1>4, QuietStep

-----------------------------------------------------------------------------
(* The commits. *)

\* A commit of s that writes only rows no other session holds, or new rows.
LEMMA CommitStep ==
    ASSUME TicketingInv, NEW s \in Session, End(s),
           sweep' \in [Job -> SUBSET Transfer],
           TableTypeOK', TablesOK',
           \A o \in Session \ {s} :
             /\ \A e \in Event : e \in holds[o] => event'[e].status = event[e].status
             /\ \A t \in Ticket : t \in holds[o] /\ ticket[t].status # "UNUSED" =>
                   /\ ticket'[t] = ticket[t]
                   /\ ticket[t].status = "ACTIVE" =>
                          event'[EventOf[t]].status = event[EventOf[t]].status
             /\ \A k \in Key : k \in holds[o] /\ cred[k].status = "ACTIVE" =>
                   cred'[k] = cred[k]
             /\ \A x \in Transfer : x \in holds[o] /\ transfer[x].status = "PENDING" =>
                   /\ transfer'[x].status = transfer[x].status
                   /\ transfer'[x].recipient = transfer[x].recipient
    PROVE  TicketingInv'
<1>1. /\ TxTypeOK /\ LocksExclusive
      /\ tx' = [tx EXCEPT ![s] = NoTx] /\ holds' = [holds EXCEPT ![s] = {}]
  BY InvParts DEF End
<1>2. TxTypeOK'
  BY <1>1 DEF TxTypeOK, NoTx
<1>3. LocksExclusive'
  BY <1>1 DEF TxTypeOK, LocksExclusive
<1>4. Knows(s)'
  BY <1>1 DEF TxTypeOK, Knows, Idle, Doing, NoTx
<1>5. ASSUME NEW o \in Session \ {s} PROVE Knows(o)'
  <2>1. tx'[o] = tx[o] /\ holds'[o] = holds[o] /\ Knows(o) /\ References
    BY <1>1, <1>5, InvParts DEF TxTypeOK, TablesOK
  <2>2. QED
    BY <2>1, <1>5, KnowsKept
<1>6. QED
  BY <1>2, <1>3, <1>4, <1>5, InvPartsNext

\* Rows of s, and rows that are free for s, are held by nobody else.
LEMMA NotOthers ==
    ASSUME LocksExclusive, NEW s \in Session, NEW r,
           r \in holds[s] \/ Free(s, r)
    PROVE  \A o \in Session \ {s} : r \notin holds[o]
BY DEF LocksExclusive, Free

\* What every commit lemma starts from.
LEMMA Known ==
    ASSUME TicketingInv, NEW s \in Request \cup Job
    PROVE  /\ s \in Session /\ Knows(s) /\ TableTypeOK /\ TablesOK /\ TxTypeOK
           /\ LocksExclusive /\ References /\ OffersConsistent
           /\ CredentialFollowsOwner /\ AdmitsOnce /\ CancelledEventIsDead
BY InvParts DEF Session, TablesOK

\* The rows after user u has been given the tickets new, ticket by ticket.
TicketsMade(u, new, code) ==
    /\ u \in User /\ new \in SUBSET Ticket /\ code \in [new -> Key]
    /\ \A t \in new : /\ ticket[t].status = "UNUSED"
                      /\ ActiveKeys({t}) = {} /\ PendingTransfers({t}) = {}
                      /\ cred[code[t]].status = "UNUSED"
                      /\ cred'[code[t]] = [status |-> "ACTIVE", holder |-> u, ticket |-> t]
                      /\ ActiveKeys({t})' = {code[t]}
    /\ \A t, v \in new : code[t] = code[v] => t = v
    /\ ticket' = [t \in Ticket |->
          IF t \in new THEN [owner |-> u, status |-> "ACTIVE"] ELSE ticket[t]]
    /\ cred' = [k \in Key |-> cred'[k]]
    /\ \A k \in Key : (\A t \in new : code[t] # k) => cred'[k] = cred[k]
    /\ \A v \in Ticket \ new : ActiveKeys({v})' = ActiveKeys({v})
    /\ transfer' = transfer

LEMMA TicketsCreated ==
    ASSUME TicketingInv, NEW s \in Request, CreateTickets(s)
    PROVE  \E u \in User, new \in SUBSET TicketsOf(tx[s].row) :
              /\ \E code \in [new -> Key] : TicketsMade(u, new, code)
              /\ late' = IF Doing(s, "buy") /\ event[tx[s].row].status = "CANCELLED"
                         THEN late \cup new ELSE late
<1> DEFINE e == tx[s].row
           u == tx[s].user
           free == {k \in Key : cred[k].status = "UNUSED"}
<1>1. e \in Event /\ u \in User
  BY Known DEF CreateTickets, Knows, Doing
<1>2. PICK new \in SUBSET Unissued(TicketsOf(e)) :
         \E code \in [new -> free] :
          /\ \A t, v \in new : code[t] = code[v] => t = v
          /\ ticket' = [t \in Ticket |->
                IF t \in new THEN [owner |-> u, status |-> "ACTIVE"] ELSE ticket[t]]
          /\ cred' = [k \in Key |->
                IF \E t \in new : code[t] = k
                THEN [status |-> "ACTIVE", holder |-> u,
                      ticket |-> CHOOSE t \in new : code[t] = k]
                ELSE cred[k]]
          /\ late' = IF Doing(s, "buy") /\ event[e].status = "CANCELLED"
                     THEN late \cup new ELSE late
  BY Zenon DEF CreateTickets
<1>3. PICK code \in [new -> free] :
          /\ \A t, v \in new : code[t] = code[v] => t = v
          /\ ticket' = [t \in Ticket |->
                IF t \in new THEN [owner |-> u, status |-> "ACTIVE"] ELSE ticket[t]]
          /\ cred' = [k \in Key |->
                IF \E t \in new : code[t] = k
                THEN [status |-> "ACTIVE", holder |-> u,
                      ticket |-> CHOOSE t \in new : code[t] = k]
                ELSE cred[k]]
          /\ late' = IF Doing(s, "buy") /\ event[e].status = "CANCELLED"
                     THEN late \cup new ELSE late
  BY <1>2
<1>4. /\ new \in SUBSET Ticket /\ new \in SUBSET TicketsOf(e) /\ code \in [new -> Key]
      /\ \A t \in new : ticket[t].status = "UNUSED" /\ cred[code[t]].status = "UNUSED"
  BY <1>3 DEF Unissued, TicketsOf
<1>5. /\ transfer' = transfer /\ References
  BY Known DEF CreateTickets
<1> HIDE DEF u, e
<1>6. ASSUME NEW t \in new
      PROVE  cred'[code[t]] = [status |-> "ACTIVE", holder |-> u, ticket |-> t]
  <2>1. (CHOOSE v \in new : code[v] = code[t]) = t
    BY <1>3
  <2>2. cred'[code[t]] = [status |-> "ACTIVE", holder |-> u,
                          ticket |-> CHOOSE v \in new : code[v] = code[t]]
    BY <1>3, <1>4
  <2> QED BY <2>1, <2>2
<1>7. \A k \in Key : (\A t \in new : code[t] # k) => cred'[k] = cred[k]
  BY <1>3
<1>8. ASSUME NEW t \in new
      PROVE  ActiveKeys({t}) = {} /\ PendingTransfers({t}) = {}
  BY <1>4, <1>5 DEF References, ActiveKeys, PendingTransfers
<1>9. ASSUME NEW k \in Key, NEW v \in Ticket
      PROVE  (cred'[k].status = "ACTIVE" /\ cred'[k].ticket = v) <=>
                \/ v \in new /\ k = code[v]
                \/ v \notin new /\ cred[k].status = "ACTIVE" /\ cred[k].ticket = v
  <2>1. CASE \E t \in new : code[t] = k
    <3>1. PICK t \in new : code[t] = k
      BY <2>1
    <3>2. /\ cred'[code[t]] = [status |-> "ACTIVE", holder |-> u, ticket |-> t]
          /\ cred[code[t]].status = "UNUSED"
      BY <1>4, <1>6
    <3>3. v \in new /\ k = code[v] <=> v = t
      BY <1>3, <3>1
    <3> QED BY <3>1, <3>2, <3>3
  <2>2. CASE \A t \in new : code[t] # k
    <3>1. cred'[k] = cred[k]
      BY <1>7, <2>2
    <3>2. cred[k].status = "ACTIVE" => cred[k].ticket \notin new
      BY <1>4, <1>5 DEF References
    <3> QED BY <2>2, <3>1, <3>2
  <2> QED BY <2>1, <2>2
<1>10. ASSUME NEW t \in new PROVE ActiveKeys({t})' = {code[t]}
  <2>1. \A k \in Key : (cred'[k].status = "ACTIVE" /\ cred'[k].ticket = t) <=> k = code[t]
    BY <1>4, <1>9
  <2> QED BY <1>4, <2>1 DEF ActiveKeys
<1>11. ASSUME NEW v \in Ticket \ new PROVE ActiveKeys({v})' = ActiveKeys({v})
  BY <1>9 DEF ActiveKeys
<1>12. cred' = [k \in Key |-> cred'[k]]
  BY <1>3
<1>13. TicketsMade(u, new, code)
  BY <1>1, <1>3, <1>4, <1>5, <1>6, <1>7, <1>8, <1>10, <1>11, <1>12 DEF TicketsMade
<1> QED BY <1>1, <1>3, <1>4, <1>13 DEF e

LEMMA CreateTicketsInv ==
    ASSUME TicketingInv, NEW s \in Request, CreateTickets(s)
    PROVE  TicketingInv'
<1> DEFINE e == tx[s].row
<1>1. PICK u \in User, new \in SUBSET TicketsOf(e) :
          /\ \E code \in [new -> Key] : TicketsMade(u, new, code)
          /\ late' = IF Doing(s, "buy") /\ event[e].status = "CANCELLED"
                     THEN late \cup new ELSE late
  BY TicketsCreated
<1>2. /\ s \in Session /\ e \in Event
      /\ Doing(s, "issue") => event[e].status = "PUBLISHED"
  BY Known DEF CreateTickets, Knows, Doing
<1>3. PICK code \in [new -> Key] : TicketsMade(u, new, code)
  BY <1>1
<1>4. /\ UNCHANGED <<event, assigned, transfer, entries, sweep>> /\ End(s)
      /\ Doing(s, "issue") \/ Doing(s, "buy")
  BY DEF CreateTickets
<1>5. /\ new \in SUBSET Ticket /\ code \in [new -> Key]
      /\ \A t \in new : /\ EventOf[t] = e
                         /\ ticket[t].status = "UNUSED"
                         /\ cred[code[t]].status = "UNUSED"
  BY <1>3 DEF TicketsMade, TicketsOf
<1>6. /\ \A t \in new : /\ cred'[code[t]] = [status |-> "ACTIVE", holder |-> u, ticket |-> t]
                         /\ ActiveKeys({t})' = {code[t]}
                         /\ ActiveKeys({t}) = {} /\ PendingTransfers({t}) = {}
      /\ \A k \in Key : (\A t \in new : code[t] # k) => cred'[k] = cred[k]
      /\ \A v \in Ticket \ new : ActiveKeys({v})' = ActiveKeys({v})
  BY <1>3 DEF TicketsMade
<1>7. /\ \A t \in Ticket : ticket'[t] = IF t \in new THEN [owner |-> u, status |-> "ACTIVE"]
                                       ELSE ticket[t]
      /\ ticket' = [t \in Ticket |-> ticket'[t]] /\ cred' = [k \in Key |-> cred'[k]]
  BY <1>3 DEF TicketsMade
<1> HIDE DEF e
<1>8. TableTypeOK'
  <2>1. cred' \in [Key -> [status : {"UNUSED", "ACTIVE", "REVOKED"},
                          ticket : Ticket \cup {None}, holder : User \cup {None}]]
    <3>1. ASSUME NEW k \in Key
          PROVE  cred'[k] \in [status : {"UNUSED", "ACTIVE", "REVOKED"},
                               ticket : Ticket \cup {None}, holder : User \cup {None}]
      <4>1. CASE \E t \in new : code[t] = k
        <5>1. PICK t \in new : code[t] = k
          BY <4>1
        <5>2. cred'[k] = [status |-> "ACTIVE", holder |-> u, ticket |-> t]
          BY <1>6, <5>1
        <5> QED BY <1>5, <5>2
      <4>2. CASE \A t \in new : code[t] # k
        BY <1>6, <4>2, Known DEF TableTypeOK
      <4> QED BY <4>1, <4>2
    <3> QED BY <1>7, <3>1
  <2>2. ticket' \in [Ticket -> [owner : User \cup {None}, status : {"UNUSED"} \cup Statuses]]
    <3>1. ASSUME NEW t \in Ticket
          PROVE  ticket'[t] \in [owner : User \cup {None}, status : {"UNUSED"} \cup Statuses]
      BY <1>2, <1>7, Known DEF TableTypeOK, Statuses
    <3> QED BY <1>7, <3>1
  <2>3. late' \in SUBSET Ticket
    BY <1>1, <1>5, Known DEF TableTypeOK
  <2> QED BY <1>4, <2>1, <2>2, <2>3, Known DEF TableTypeOK
<1>9. TablesOK'
  <2>1. References'
    <3>1. \A t \in Ticket : (ticket'[t].status # "UNUSED") <=> (ticket'[t].owner \in User)
      BY <1>2, <1>7, Known DEF References
    <3>2. ASSUME NEW k \in Key, cred'[k].status # "UNUSED"
          PROVE  cred'[k].ticket \in Ticket /\ ticket'[cred'[k].ticket].status # "UNUSED"
      <4>1. CASE \E t \in new : code[t] = k
        <5>1. PICK t \in new : code[t] = k
          BY <4>1
        <5>1a. cred'[code[t]] = [status |-> "ACTIVE", holder |-> u, ticket |-> t]
          BY <1>6
        <5>2. cred'[k].ticket = t
          BY <5>1, <5>1a
        <5>3. ticket'[t].status = "ACTIVE"
          BY <1>5, <1>7
        <5> QED BY <1>5, <5>2, <5>3
      <4>2. CASE \A t \in new : code[t] # k
        BY <1>6, <1>7, <3>2, <4>2, Known DEF References
      <4> QED BY <4>1, <4>2
    <3>3. \A t \in Ticket : ticket[t].status # "UNUSED" => ticket'[t].status # "UNUSED"
      BY <1>7
    <3> QED BY <1>4, <3>1, <3>2, <3>3, Known DEF References
  <2>2. OffersConsistent'
    <3>1. SUFFICES ASSUME NEW v \in Ticket
          PROVE  /\ Offered(v)' <=> PendingTransfers({v})' # {}
                 /\ \A x, y \in PendingTransfers({v})' : x = y
                 /\ \A x \in PendingTransfers({v})' :
                       /\ transfer'[x].initiator = ticket'[v].owner
                       /\ transfer'[x].recipient # ticket'[v].owner
      BY DEF OffersConsistent
    <3>2. PendingTransfers({v})' = PendingTransfers({v}) /\ transfer' = transfer
      BY <1>4 DEF PendingTransfers
    <3>3. CASE v \in new
      <4>0. ticket'[v] = [owner |-> u, status |-> "ACTIVE"] /\ PendingTransfers({v}) = {}
        BY <1>6, <1>7, <3>3
      <4>1. ticket'[v].status = "ACTIVE" /\ PendingTransfers({v}) = {}
        BY <4>0
      <4>1a. ~Offered(v)'
        BY <4>1 DEF Offered
      <4> QED BY <3>2, <4>1, <4>1a
    <3>4. CASE v \notin new
      <4>1. ticket'[v] = ticket[v] /\ (Offered(v)' <=> Offered(v))
        BY <1>7, <3>4 DEF Offered
      <4>2. /\ Offered(v) <=> PendingTransfers({v}) # {}
            /\ \A x, y \in PendingTransfers({v}) : x = y
            /\ \A x \in PendingTransfers({v}) :
                  /\ transfer[x].initiator = ticket[v].owner
                  /\ transfer[x].recipient # ticket[v].owner
        BY Known DEF OffersConsistent
      <4> QED BY <3>2, <4>1, <4>2
    <3> QED BY <3>3, <3>4
  <2>3. CredentialFollowsOwner'
    <3>1. SUFFICES ASSUME NEW v \in Ticket
          PROVE  /\ \A k, l \in ActiveKeys({v})' : k = l
                 /\ \A k \in ActiveKeys({v})' : cred'[k].holder = ticket'[v].owner
                 /\ ticket'[v].status \in LiveStatuses => ActiveKeys({v})' # {}
                 /\ ticket'[v].status = "CANCELLED" => ActiveKeys({v})' = {}
      BY DEF CredentialFollowsOwner
    <3>2. CASE v \in new
      <4>1. /\ ticket'[v] = [owner |-> u, status |-> "ACTIVE"]
            /\ ActiveKeys({v})' = {code[v]}
            /\ cred'[code[v]] = [status |-> "ACTIVE", holder |-> u, ticket |-> v]
        BY <1>6, <1>7, <3>2
      <4>2. /\ ticket'[v].owner = u /\ ticket'[v].status = "ACTIVE"
            /\ \A k \in ActiveKeys({v})' : k = code[v]
            /\ cred'[code[v]].holder = u /\ code[v] \in ActiveKeys({v})'
        BY <4>1
      <4> QED BY <4>2
    <3>3. CASE v \notin new
      <4>1. /\ \A k, l \in ActiveKeys({v}) : k = l
            /\ \A k \in ActiveKeys({v}) : cred[k].holder = ticket[v].owner
            /\ ticket[v].status \in LiveStatuses => ActiveKeys({v}) # {}
            /\ ticket[v].status = "CANCELLED" => ActiveKeys({v}) = {}
        BY Known DEF CredentialFollowsOwner
      <4>2. ASSUME NEW k \in ActiveKeys({v}) PROVE cred'[k] = cred[k]
        <5>1. k \in Key /\ cred[k].status = "ACTIVE"
          BY DEF ActiveKeys
        <5>2. \A t \in new : code[t] # k
          BY <1>5, <5>1
        <5> QED BY <1>6, <5>1, <5>2
      <4>3. ticket'[v] = ticket[v] /\ ActiveKeys({v})' = ActiveKeys({v})
        BY <1>6, <1>7, <3>3
      <4> QED BY <4>1, <4>2, <4>3
    <3> QED BY <3>2, <3>3
  <2>4. AdmitsOnce'
    BY <1>4, <1>5, <1>7, Known DEF AdmitsOnce
  <2>5. CancelledEventIsDead'
    <3>1. SUFFICES ASSUME NEW f \in Event, event[f].status = "CANCELLED"
          PROVE  /\ LiveTickets(TicketsOf(f) \ late)' = {}
                 /\ ActiveKeys(TicketsOf(f) \ late)' = {}
                 /\ PendingTransfers(TicketsOf(f) \ late)' = {}
      BY <1>4 DEF CancelledEventIsDead
    <3>2. /\ LiveTickets(TicketsOf(f) \ late) = {}
          /\ ActiveKeys(TicketsOf(f) \ late) = {}
          /\ PendingTransfers(TicketsOf(f) \ late) = {}
      BY <3>1, Known DEF CancelledEventIsDead
    \* What is created for a cancelled event is late.
    <3>3. ASSUME NEW v \in TicketsOf(f), v \notin late' PROVE v \notin late /\ v \notin new
      BY <1>1, <1>2, <1>4, <1>5, <3>1, <3>3 DEF TicketsOf
    <3>4. LiveTickets(TicketsOf(f) \ late)' = {}
      BY <1>7, <3>2, <3>3 DEF LiveTickets, TicketsOf
    <3>5. ActiveKeys(TicketsOf(f) \ late)' = {}
      <4>1. ASSUME NEW k \in Key, cred'[k].status = "ACTIVE",
                   cred'[k].ticket \in TicketsOf(f) \ late'
            PROVE  FALSE
        <5>1. ASSUME NEW t \in new, code[t] = k PROVE FALSE
          <6>0. cred'[code[t]] = [status |-> "ACTIVE", holder |-> u, ticket |-> t]
            BY <1>6, <5>1
          <6>1. cred'[k].ticket = t
            BY <5>1, <6>0
          <6> QED BY <3>3, <4>1, <6>1
        <5>2. cred'[k] = cred[k]
          BY <1>6, <5>1
        <5> QED BY <3>2, <3>3, <4>1, <5>2 DEF ActiveKeys
      <4> QED BY <4>1 DEF ActiveKeys, TicketsOf
    <3>6. PendingTransfers(TicketsOf(f) \ late)' = {}
      BY <1>4, <3>2, <3>3 DEF PendingTransfers, TicketsOf
    <3> QED BY <3>4, <3>5, <3>6
  <2> QED BY <2>1, <2>2, <2>3, <2>4, <2>5 DEF TablesOK
<1>10. ASSUME NEW k \in Key, cred[k].status = "ACTIVE" PROVE cred'[k] = cred[k]
  BY <1>5, <1>6, <1>10
<1>11. \A t \in Ticket : ticket[t].status # "UNUSED" => ticket'[t] = ticket[t]
  BY <1>5, <1>7
<1>12. sweep' \in [Job -> SUBSET Transfer]
  BY <1>4, Known DEF TxTypeOK
<1> QED BY <1>2, <1>4, <1>8, <1>9, <1>10, <1>11, <1>12, CommitStep

LEMMA OfferCommitInv ==
    ASSUME TicketingInv, NEW s \in Request, OfferCommit(s)
    PROVE  TicketingInv'
<1> DEFINE t == tx[s].row
           u == tx[s].user
           p == tx[s].peer
<1>1. /\ s \in Session /\ t \in holds[s] /\ t \in Ticket
      /\ ticket[t] = [owner |-> u, status |-> "ACTIVE"]
      /\ p \in User \ {u}
  BY Known DEF OfferCommit, Knows, Doing, Idle
<1>2. ticket[t].owner \in User
  BY <1>1, Known DEF References
<1>3. u \in User
  BY <1>1, <1>2
<1>4. /\ ticket' = [ticket EXCEPT ![t].status = "TRANSFER_PENDING"]
      /\ UNCHANGED <<event, assigned, cred, entries, late, sweep>>
      /\ PendingTransfers({t}) = {} /\ End(s)
  BY DEF OfferCommit, Transition
<1>5. PICK x \in Transfer :
          /\ transfer[x].status = "UNUSED"
          /\ transfer' = [transfer EXCEPT ![x] =
                [status |-> "PENDING", ticket |-> t, initiator |-> u,
                 recipient |-> p, due |-> FALSE]]
  BY DEF OfferCommit
<1>6. TableTypeOK'
  BY <1>1, <1>3, <1>4, <1>5, Known DEF TableTypeOK, Statuses, TransferStatuses
<1>7. TablesOK'
  <2>1. References'
    BY <1>1, <1>3, <1>4, <1>5, Known DEF TableTypeOK, References
  <2>2. OffersConsistent'
    BY <1>1, <1>3, <1>4, <1>5, Known
       DEF TableTypeOK, OffersConsistent, Offered, PendingTransfers
  <2>3. CredentialFollowsOwner'
    BY <1>1, <1>4, Known
       DEF TableTypeOK, CredentialFollowsOwner, ActiveKeys, LiveStatuses
  <2>4. AdmitsOnce'
    BY <1>1, <1>4, Known DEF TableTypeOK, AdmitsOnce
  <2>5. CancelledEventIsDead'
    BY <1>1, <1>4, <1>5, Known
       DEF TableTypeOK, CancelledEventIsDead, LiveTickets, TicketsOf,
           ActiveKeys, PendingTransfers, LiveStatuses
  <2>6. QED
    BY <2>1, <2>2, <2>3, <2>4, <2>5 DEF TablesOK
<1>8. \A o \in Session \ {s} : t \notin holds[o]
  BY <1>1, Known, NotOthers
<1>9. /\ \A v \in Ticket : v # t => ticket'[v] = ticket[v]
      /\ \A y \in Transfer : y # x => transfer'[y] = transfer[y]
  BY <1>1, <1>4, <1>5, Known DEF TableTypeOK
<1>10. sweep' \in [Job -> SUBSET Transfer]
  BY <1>4, Known DEF TxTypeOK
<1>11. QED
  BY <1>1, <1>4, <1>5, <1>6, <1>7, <1>8, <1>9, <1>10, CommitStep

\* A pending transfer that is rejected, withdrawn or expired gives its ticket
\* back to the owner, and takes no other transfer of the ticket with it.
LEMMA ReleaseOffer ==
    ASSUME TicketingInv, NEW x \in Transfer, transfer[x].status = "PENDING",
           NEW st \in {"REJECTED", "CANCELLED", "EXPIRED"},
           ticket' = [ticket EXCEPT ![transfer[x].ticket].status = "ACTIVE"],
           transfer' = [transfer EXCEPT ![x].status = st],
           UNCHANGED <<event, assigned, cred, entries, late>>
    PROVE  TableTypeOK' /\ TablesOK'
<1> DEFINE t == transfer[x].ticket
<1>1. /\ TableTypeOK /\ References /\ OffersConsistent /\ CredentialFollowsOwner
      /\ AdmitsOnce /\ CancelledEventIsDead
  BY InvParts DEF TablesOK
<1>2. /\ t \in Ticket /\ ticket[t].status = "TRANSFER_PENDING"
      /\ \A y \in Transfer : transfer[y].status = "PENDING" /\ transfer[y].ticket = t
            => y = x
  BY <1>1 DEF References, OffersConsistent, Offered, PendingTransfers
<1>3. TableTypeOK'
  <2>1. ticket' \in [Ticket -> [owner : User \cup {None}, status : {"UNUSED"} \cup Statuses]]
    BY <1>1, <1>2 DEF TableTypeOK, Statuses
  <2>2. st \in {"UNUSED"} \cup TransferStatuses
    BY DEF TransferStatuses
  <2>3. transfer' \in [Transfer -> [status : {"UNUSED"} \cup TransferStatuses,
                                   ticket : Ticket \cup {None},
                                   initiator : User \cup {None},
                                   recipient : User \cup {None},
                                   due : BOOLEAN]]
    BY <1>1, <2>2 DEF TableTypeOK
  <2>4. QED
    BY <1>1, <2>1, <2>3 DEF TableTypeOK
<1>4. References'
  BY <1>1, <1>2 DEF TableTypeOK, References
<1>5. OffersConsistent'
  BY <1>1, <1>2 DEF TableTypeOK, OffersConsistent, Offered, PendingTransfers
<1>6. CredentialFollowsOwner'
  BY <1>1, <1>2 DEF TableTypeOK, CredentialFollowsOwner, ActiveKeys, LiveStatuses
<1>7. AdmitsOnce'
  BY <1>1, <1>2 DEF TableTypeOK, AdmitsOnce
<1>8. CancelledEventIsDead'
  BY <1>1, <1>2 DEF TableTypeOK, CancelledEventIsDead, LiveTickets, TicketsOf,
                    ActiveKeys, PendingTransfers, LiveStatuses
<1>9. QED
  BY <1>3, <1>4, <1>5, <1>6, <1>7, <1>8 DEF TablesOK

LEMMA FinishCommitInv ==
    ASSUME TicketingInv, NEW s \in Request, FinishCommit(s)
    PROVE  TicketingInv'
<1> DEFINE x == tx[s].row
           t == transfer[x].ticket
           st == IF Doing(s, "reject") THEN "REJECTED" ELSE "CANCELLED"
<1>1. /\ s \in Session /\ x \in holds[s] /\ x \in Transfer
      /\ transfer[x].status = "PENDING"
  BY Known DEF FinishCommit, Knows, Doing, Idle
<1>2. /\ ticket' = [ticket EXCEPT ![t].status = "ACTIVE"]
      /\ transfer' = [transfer EXCEPT ![x].status = st]
      /\ UNCHANGED <<event, assigned, cred, entries, late, sweep>>
      /\ Free(s, t) /\ End(s)
  BY DEF FinishCommit, Transition
<1>3. TableTypeOK' /\ TablesOK'
  BY <1>1, <1>2, ReleaseOffer
<1>4. \A o \in Session \ {s} : t \notin holds[o] /\ x \notin holds[o]
  BY <1>1, <1>2, Known, NotOthers
<1>5. /\ \A v \in Ticket : v # t => ticket'[v] = ticket[v]
      /\ \A y \in Transfer : y # x => transfer'[y] = transfer[y]
  BY <1>1, <1>2, Known DEF TableTypeOK
<1>6. sweep' \in [Job -> SUBSET Transfer]
  BY <1>2, Known DEF TxTypeOK
<1>7. QED
  BY <1>1, <1>2, <1>3, <1>4, <1>5, <1>6, CommitStep

LEMMA SweepCommitInv ==
    ASSUME TicketingInv, NEW j \in Job, SweepCommit(j)
    PROVE  TicketingInv'
<1> DEFINE x == tx[j].row
           t == transfer[x].ticket
<1>1. /\ j \in Session /\ x \in holds[j] /\ x \in Transfer
      /\ transfer[x].status = "PENDING" /\ tx[j].seen = "TRANSFER_PENDING"
  BY Known DEF SweepCommit, Knows, Doing, Idle
<1>2. /\ ticket' = [ticket EXCEPT ![t].status = "ACTIVE"]
      /\ transfer' = [transfer EXCEPT ![x].status = "EXPIRED"]
      /\ UNCHANGED <<event, assigned, cred, entries, late>>
      /\ sweep' = [sweep EXCEPT ![j] = sweep[j] \ {x}]
      /\ Free(j, t) /\ End(j)
  BY <1>1 DEF SweepCommit, Transition
<1>3. TableTypeOK' /\ TablesOK'
  BY <1>1, <1>2, ReleaseOffer
<1>4. \A o \in Session \ {j} : t \notin holds[o] /\ x \notin holds[o]
  BY <1>1, <1>2, Known, NotOthers
<1>5. /\ \A v \in Ticket : v # t => ticket'[v] = ticket[v]
      /\ \A y \in Transfer : y # x => transfer'[y] = transfer[y]
  BY <1>1, <1>2, Known DEF TableTypeOK
<1>6. sweep' \in [Job -> SUBSET Transfer]
  BY <1>2, Known DEF TxTypeOK
<1>7. QED
  BY <1>1, <1>2, <1>3, <1>4, <1>5, <1>6, CommitStep

LEMMA VerifyCommitInv ==
    ASSUME TicketingInv, NEW s \in Request, VerifyCommit(s)
    PROVE  TicketingInv'
<1> DEFINE k == tx[s].row
           t == cred[k].ticket
<1>1. /\ s \in Session /\ k \in Key /\ cred[k].status = "ACTIVE"
      /\ t \in holds[s] /\ ticket[t].status = "ACTIVE"
  BY Known DEF VerifyCommit, Knows, Doing
<1>2. t \in Ticket
  BY <1>1, Known DEF References
<1>3. /\ ticket' = [ticket EXCEPT ![t].status = "USED"]
      /\ entries' = [entries EXCEPT ![t] = entries[t] + 1]
      /\ UNCHANGED <<event, assigned, cred, transfer, late, sweep>> /\ End(s)
  BY DEF VerifyCommit
<1>4. TableTypeOK'
  BY <1>1, <1>2, <1>3, Known DEF TableTypeOK, Statuses
<1>5. TablesOK'
  <2>1. References'
    BY <1>1, <1>2, <1>3, Known DEF References, TableTypeOK
  <2>2. OffersConsistent'
    BY <1>1, <1>2, <1>3, Known
       DEF TableTypeOK, OffersConsistent, Offered, PendingTransfers
  <2>3. CredentialFollowsOwner'
    BY <1>1, <1>2, <1>3, Known
       DEF TableTypeOK, CredentialFollowsOwner, ActiveKeys, LiveStatuses
  <2>4. AdmitsOnce'
    BY <1>1, <1>2, <1>3, Known DEF TableTypeOK, AdmitsOnce
  <2>5. CancelledEventIsDead'
    BY <1>1, <1>2, <1>3, Known
       DEF TableTypeOK, CancelledEventIsDead, LiveTickets, TicketsOf,
           ActiveKeys, PendingTransfers, LiveStatuses
  <2>6. QED
    BY <2>1, <2>2, <2>3, <2>4, <2>5 DEF TablesOK
<1>6. \A o \in Session \ {s} : t \notin holds[o]
  BY <1>1, Known, NotOthers
<1>7. \A v \in Ticket : v # t => ticket'[v] = ticket[v]
  BY <1>2, <1>3, Known DEF TableTypeOK
<1>8. sweep' \in [Job -> SUBSET Transfer]
  BY <1>3, Known DEF TxTypeOK
<1>9. QED
  BY <1>1, <1>3, <1>4, <1>5, <1>6, <1>7, <1>8, CommitStep

CodeMoved(t, u, new) ==
    /\ cred[new].status = "UNUSED"
    /\ cred' = [k \in Key |->
          IF k = new THEN [status |-> "ACTIVE", ticket |-> t, holder |-> u]
          ELSE IF k \in ActiveKeys({t}) THEN [cred[k] EXCEPT !.status = "REVOKED"]
          ELSE cred[k]]

\* A ticket has one active code at most: revoking one revokes them all.
LEMMA OneCodeRevoked ==
    ASSUME TicketingInv, NEW t \in Ticket, NEW u, RevokeAndCreate(t, u)
    PROVE  \E new \in Key : CodeMoved(t, u, new)
<1>1. PICK old \in IF ActiveKeys({t}) = {} THEN {None} ELSE ActiveKeys({t}),
           new \in Key :
          /\ cred[new].status = "UNUSED"
          /\ cred' = [k \in Key |->
                IF k = new THEN [status |-> "ACTIVE", ticket |-> t, holder |-> u]
                ELSE IF k = old THEN [cred[k] EXCEPT !.status = "REVOKED"]
                ELSE cred[k]]
  BY DEF RevokeAndCreate
<1>2. \A k \in Key : k = old <=> k \in ActiveKeys({t})
  <2>1. CredentialFollowsOwner /\ None \notin Key
    BY InvParts, ConstantsAssumption DEF TablesOK, Row
  <2> QED BY <1>1, <2>1 DEF CredentialFollowsOwner
<1>3. cred' = [k \in Key |->
                IF k = new THEN [status |-> "ACTIVE", ticket |-> t, holder |-> u]
                ELSE IF k \in ActiveKeys({t}) THEN [cred[k] EXCEPT !.status = "REVOKED"]
                ELSE cred[k]]
  BY <1>1, <1>2
<1> QED BY <1>1, <1>3 DEF CodeMoved

LEMMA AcceptCommitInv ==
    ASSUME TicketingInv, NEW s \in Request, AcceptCommit(s)
    PROVE  TicketingInv'
<1>0. PICK x, t, u : x = tx[s].row /\ t = transfer[x].ticket /\ u = tx[s].user
  OBVIOUS
<1>1. /\ s \in Session /\ x \in holds[s] /\ x \in Transfer
      /\ transfer[x].status = "PENDING" /\ u = transfer[x].recipient
      /\ t \in holds[s]
  BY <1>0, Known DEF AcceptCommit, Knows, Doing, Idle
<1>2. /\ t \in Ticket /\ u \in User /\ ticket[t].status = "TRANSFER_PENDING"
      /\ \A y \in Transfer : transfer[y].status = "PENDING" /\ transfer[y].ticket = t
            => y = x
  BY <1>0, <1>1, Known DEF References, OffersConsistent, Offered, PendingTransfers
<1>3. /\ ticket' = [ticket EXCEPT ![t] = [owner |-> u, status |-> "ACTIVE"]]
      /\ transfer' = [transfer EXCEPT ![x].status = "ACCEPTED"]
      /\ UNCHANGED <<event, assigned, entries, late, sweep>>
      /\ \A k \in ActiveKeys({t}) : Free(s, k)
      /\ End(s)
  BY <1>0 DEF AcceptCommit
<1>4. PICK new \in Key :
          /\ cred[new].status = "UNUSED"
          /\ cred' = [k \in Key |->
                IF k = new THEN [status |-> "ACTIVE", ticket |-> t, holder |-> u]
                ELSE IF k \in ActiveKeys({t})
                THEN [cred[k] EXCEPT !.status = "REVOKED"]
                ELSE cred[k]]
  <2>1. t \in Ticket /\ RevokeAndCreate(t, u)
    BY <1>0, <1>2 DEF AcceptCommit
  <2>2. \E new \in Key : CodeMoved(t, u, new)
    BY <2>1, OneCodeRevoked
  <2> QED BY <2>2 DEF CodeMoved
\* The rows after the commit, one table at a time.
<1>5. /\ ticket'[t] = [owner |-> u, status |-> "ACTIVE"]
      /\ \A v \in Ticket : v # t => ticket'[v] = ticket[v]
  BY <1>2, <1>3, Known DEF TableTypeOK
<1>6. /\ transfer'[x].status = "ACCEPTED"
      /\ \A y \in Transfer : y # x => transfer'[y] = transfer[y]
      /\ \A y \in Transfer : /\ transfer'[y].ticket = transfer[y].ticket
                             /\ transfer'[y].initiator = transfer[y].initiator
                             /\ transfer'[y].recipient = transfer[y].recipient
                             /\ transfer'[y].status # "UNUSED" =>
                                    transfer[y].status # "UNUSED"
  BY <1>1, <1>3, Known DEF TableTypeOK
<1>7. /\ cred'[new].status = "ACTIVE" /\ cred'[new].ticket = t
      /\ cred'[new].holder = u
      /\ \A k \in Key : k # new => /\ cred'[k].ticket = cred[k].ticket
                                   /\ cred'[k].holder = cred[k].holder
      /\ \A k \in Key : cred'[k].status = "ACTIVE" <=>
            k = new \/ (cred[k].status = "ACTIVE" /\ cred[k].ticket # t)
      /\ \A k \in Key : cred'[k].status # "UNUSED" =>
            k = new \/ cred[k].status # "UNUSED"
      /\ \A k \in Key : k # new /\ k \notin ActiveKeys({t}) => cred'[k] = cred[k]
  <2>1. \A k \in Key : cred[k] \in [status : {"UNUSED", "ACTIVE", "REVOKED"},
                                    ticket : Ticket \cup {None},
                                    holder : User \cup {None}]
    BY Known DEF TableTypeOK
  <2>2. cred'[new] = [status |-> "ACTIVE", ticket |-> t, holder |-> u]
    BY <1>4
  <2>3. ASSUME NEW k \in Key, k # new
        PROVE  /\ cred'[k].ticket = cred[k].ticket
               /\ cred'[k].holder = cred[k].holder
               /\ cred'[k].status = IF k \in ActiveKeys({t}) THEN "REVOKED"
                                    ELSE cred[k].status
               /\ k \notin ActiveKeys({t}) => cred'[k] = cred[k]
    BY <2>1, <2>3, <1>4
  <2>4. QED
    BY <2>2, <2>3, <1>4 DEF ActiveKeys
<1>8. /\ ActiveKeys({t})' = {new}
      /\ \A v \in Ticket : v # t => ActiveKeys({v})' = ActiveKeys({v})
  <2>1. ActiveKeys({t})' = {new}
    <3>1. ActiveKeys({t})' \subseteq Key
      BY DEF ActiveKeys
    <3>2. \A k \in Key : k \in ActiveKeys({t})' <=> k = new
      BY <1>7 DEF ActiveKeys
    <3>3. QED
      BY <3>1, <3>2
  <2>2. ASSUME NEW v \in Ticket, v # t
        PROVE  ActiveKeys({v})' = ActiveKeys({v})
    <3>1. ActiveKeys({v})' \subseteq Key /\ ActiveKeys({v}) \subseteq Key
      BY DEF ActiveKeys
    <3>2. \A k \in Key : k \in ActiveKeys({v})' <=> k \in ActiveKeys({v})
      BY <2>2, <1>4, <1>7 DEF ActiveKeys
    <3>3. QED
      BY <3>1, <3>2
  <2>3. QED
    BY <2>1, <2>2, <1>7
<1>9. TableTypeOK'
  <2>1. ticket' \in [Ticket -> [owner : User \cup {None}, status : {"UNUSED"} \cup Statuses]]
    BY <1>2, <1>3, Known DEF TableTypeOK, Statuses
  <2>2. transfer' \in [Transfer -> [status : {"UNUSED"} \cup TransferStatuses,
                                   ticket : Ticket \cup {None},
                                   initiator : User \cup {None},
                                   recipient : User \cup {None},
                                   due : BOOLEAN]]
    BY <1>1, <1>3, Known DEF TableTypeOK, TransferStatuses
  <2>3. cred' \in [Key -> [status : {"UNUSED", "ACTIVE", "REVOKED"},
                          ticket : Ticket \cup {None}, holder : User \cup {None}]]
    <3>1. cred \in [Key -> [status : {"UNUSED", "ACTIVE", "REVOKED"},
                           ticket : Ticket \cup {None}, holder : User \cup {None}]]
      BY Known DEF TableTypeOK
    <3>2. QED
      BY <1>2, <1>4, <3>1
  <2>4. QED
    BY <1>3, <2>1, <2>2, <2>3, Known DEF TableTypeOK
<1>10. TablesOK'
  <2>1. References'
    <3>1. \A v \in Ticket :
              /\ (ticket'[v].status # "UNUSED") <=> (ticket[v].status # "UNUSED")
              /\ (ticket'[v].status # "UNUSED") <=> (ticket'[v].owner \in User)
      BY <1>2, <1>5, Known DEF References
    <3>2. \A k \in Key : cred'[k].status # "UNUSED" =>
              cred'[k].ticket \in Ticket /\ ticket'[cred'[k].ticket].status # "UNUSED"
      BY <1>2, <1>7, <3>1, Known DEF References
    <3>3. QED
      BY <1>6, <3>1, <3>2, Known DEF References
  <2>2. OffersConsistent'
    BY <1>1, <1>2, <1>3, Known
       DEF TableTypeOK, OffersConsistent, Offered, PendingTransfers
  <2>3. CredentialFollowsOwner'
    <3>1. SUFFICES ASSUME NEW v \in Ticket
          PROVE  /\ \A k, l \in ActiveKeys({v})' : k = l
                 /\ \A k \in ActiveKeys({v})' : cred'[k].holder = ticket'[v].owner
                 /\ ticket'[v].status \in LiveStatuses => ActiveKeys({v})' # {}
                 /\ ticket'[v].status = "CANCELLED" => ActiveKeys({v})' = {}
      BY DEF CredentialFollowsOwner
    <3>2. CASE v = t
      BY <3>2, <1>5, <1>7, <1>8
    <3>3. CASE v # t
      <4>1. /\ \A k, l \in ActiveKeys({v}) : k = l
            /\ \A k \in ActiveKeys({v}) : cred[k].holder = ticket[v].owner
            /\ ticket[v].status \in LiveStatuses => ActiveKeys({v}) # {}
            /\ ticket[v].status = "CANCELLED" => ActiveKeys({v}) = {}
        BY Known DEF CredentialFollowsOwner
      <4>2. \A k \in ActiveKeys({v}) : cred'[k].holder = cred[k].holder
        BY <1>4, <1>7 DEF ActiveKeys
      <4>3. ticket'[v] = ticket[v] /\ ActiveKeys({v})' = ActiveKeys({v})
        BY <3>3, <1>5, <1>8
      <4>4. QED
        BY <4>1, <4>2, <4>3
    <3>4. QED
      BY <3>2, <3>3
  <2>4. AdmitsOnce'
    BY <1>2, <1>3, <1>5, Known DEF AdmitsOnce
  <2>5. CancelledEventIsDead'
    <3>1. SUFFICES ASSUME NEW e \in Event, event[e].status = "CANCELLED"
          PROVE  /\ LiveTickets(TicketsOf(e) \ late)' = {}
                 /\ ActiveKeys(TicketsOf(e) \ late)' = {}
                 /\ PendingTransfers(TicketsOf(e) \ late)' = {}
      BY <1>3 DEF CancelledEventIsDead
    <3>2. /\ LiveTickets(TicketsOf(e) \ late) = {}
          /\ ActiveKeys(TicketsOf(e) \ late) = {}
          /\ PendingTransfers(TicketsOf(e) \ late) = {}
      BY <3>1, Known DEF CancelledEventIsDead
    <3>3. t \notin TicketsOf(e) \ late /\ late' = late
      BY <3>2, <1>2, <1>3 DEF LiveTickets, LiveStatuses
    <3>4. LiveTickets(TicketsOf(e) \ late)' = {}
      BY <3>2, <3>3, <1>5 DEF LiveTickets, TicketsOf
    <3>5. ActiveKeys(TicketsOf(e) \ late)' = {}
      BY <3>2, <3>3, <1>7 DEF ActiveKeys, TicketsOf
    <3>6. PendingTransfers(TicketsOf(e) \ late)' = {}
      BY <3>2, <3>3, <1>6 DEF PendingTransfers, TicketsOf
    <3>7. QED
      BY <3>4, <3>5, <3>6
  <2>6. QED
    BY <2>1, <2>2, <2>3, <2>4, <2>5 DEF TablesOK
<1>11. \A o \in Session \ {s} :
          /\ t \notin holds[o] /\ x \notin holds[o]
          /\ \A k \in ActiveKeys({t}) : k \notin holds[o]
  BY <1>1, <1>3, Known, NotOthers
<1>12. \A o \in Session \ {s}, k \in Key :
          k \in holds[o] /\ cred[k].status = "ACTIVE" => cred'[k] = cred[k]
  BY <1>4, <1>7, <1>11 DEF ActiveKeys
<1>13. sweep' \in [Job -> SUBSET Transfer]
  BY <1>3, Known DEF TxTypeOK
<1>14. QED
  BY <1>1, <1>3, <1>5, <1>6, <1>9, <1>10, <1>11, <1>12, <1>13, CommitStep

\* Cancelling the live tickets of T with their codes and pending transfers,
\* and at most the events all of whose tickets are in T.
LEMMA VoidTables ==
    ASSUME TicketingInv, NEW T \in SUBSET Ticket,
           ticket' = [v \in Ticket |-> IF v \in LiveTickets(T)
                            THEN [ticket[v] EXCEPT !.status = "CANCELLED"]
                            ELSE ticket[v]],
           VoidRows(T),
           event' \in [Event -> [status : {"PUBLISHED", "CANCELLED"},
                                 clock : {"before", "open", "over"}]],
           \A e \in Event : event'[e].status = "CANCELLED" =>
               event[e].status = "CANCELLED" \/ TicketsOf(e) \subseteq T,
           UNCHANGED <<assigned, entries, late>>
    PROVE  TableTypeOK' /\ TablesOK'
<1>1. /\ TableTypeOK /\ References /\ OffersConsistent /\ CredentialFollowsOwner
      /\ AdmitsOnce /\ CancelledEventIsDead
  BY InvParts DEF TablesOK
<1>2. \A v \in Ticket :
          /\ ticket'[v].owner = ticket[v].owner
          /\ ticket'[v].status = IF v \in T /\ ticket[v].status \in LiveStatuses
                                 THEN "CANCELLED" ELSE ticket[v].status
  BY <1>1 DEF TableTypeOK, LiveTickets
<1>3. \A k \in Key :
          /\ cred'[k].ticket = cred[k].ticket /\ cred'[k].holder = cred[k].holder
          /\ cred'[k].status = IF cred[k].status = "ACTIVE" /\ cred[k].ticket \in T
                               THEN "REVOKED" ELSE cred[k].status
  BY <1>1 DEF TableTypeOK, VoidRows, ActiveKeys
<1>4. \A x \in Transfer :
          /\ transfer'[x].ticket = transfer[x].ticket
          /\ transfer'[x].initiator = transfer[x].initiator
          /\ transfer'[x].recipient = transfer[x].recipient
          /\ transfer'[x].status =
                IF transfer[x].status = "PENDING" /\ transfer[x].ticket \in T
                THEN "CANCELLED" ELSE transfer[x].status
  BY <1>1 DEF TableTypeOK, VoidRows, PendingTransfers
<1>5. TableTypeOK'
  <2>1. ticket' \in [Ticket -> [owner : User \cup {None}, status : {"UNUSED"} \cup Statuses]]
    <3>1. \A v \in Ticket : /\ ticket[v] \in [owner : User \cup {None}, status : {"UNUSED"} \cup Statuses]
                            /\ [ticket[v] EXCEPT !.status = "CANCELLED"]
                                  \in [owner : User \cup {None}, status : {"UNUSED"} \cup Statuses]
      BY <1>1 DEF TableTypeOK, Statuses
    <3>2. QED
      BY <3>1
  <2>2. cred' \in [Key -> [status : {"UNUSED", "ACTIVE", "REVOKED"},
                          ticket : Ticket \cup {None}, holder : User \cup {None}]]
    <3> DEFINE C == [status : {"UNUSED", "ACTIVE", "REVOKED"},
                     ticket : Ticket \cup {None}, holder : User \cup {None}]
    <3>1. cred \in [Key -> C]
      BY <1>1 DEF TableTypeOK
    <3>2. \A c \in C : [c EXCEPT !.status = "REVOKED"] \in C
      OBVIOUS
    <3> HIDE DEF C
    <3>3. cred' \in [Key -> C]
      BY <3>1, <3>2 DEF VoidRows
    <3>4. QED
      BY <3>3 DEF C
  <2>3. transfer' \in [Transfer -> [status : {"UNUSED"} \cup TransferStatuses,
                                   ticket : Ticket \cup {None},
                                   initiator : User \cup {None},
                                   recipient : User \cup {None},
                                   due : BOOLEAN]]
    <3> DEFINE R == [status : {"UNUSED"} \cup TransferStatuses,
                     ticket : Ticket \cup {None}, initiator : User \cup {None},
                     recipient : User \cup {None}, due : BOOLEAN]
    <3>1. transfer \in [Transfer -> R]
      BY <1>1 DEF TableTypeOK
    <3>2. \A r \in R : [r EXCEPT !.status = "CANCELLED"] \in R
      BY DEF TransferStatuses
    <3> HIDE DEF R
    <3>3. transfer' \in [Transfer -> R]
      BY <3>1, <3>2 DEF VoidRows
    <3>4. QED
      BY <3>3 DEF R
  <2>4. QED
    BY <1>1, <2>1, <2>2, <2>3 DEF TableTypeOK
<1>6. References'
  <2>1. \A v \in Ticket : (ticket'[v].status # "UNUSED") <=> (ticket[v].status # "UNUSED")
    BY <1>2 DEF LiveStatuses
  <2> QED BY <1>1, <1>2, <1>3, <1>4, <2>1 DEF References
<1>7. OffersConsistent'
  <2>1. SUFFICES ASSUME NEW v \in Ticket
        PROVE  /\ Offered(v)' <=> PendingTransfers({v})' # {}
               /\ \A x, y \in PendingTransfers({v})' : x = y
               /\ \A x \in PendingTransfers({v})' :
                     /\ transfer'[x].initiator = ticket'[v].owner
                     /\ transfer'[x].recipient # ticket'[v].owner
    BY DEF OffersConsistent
  <2>2. CASE v \in T
    <3>1. PendingTransfers({v})' = {}
      BY <1>4, <2>2 DEF PendingTransfers
    <3>2. ~Offered(v)'
      BY <1>2, <2>2 DEF Offered, LiveStatuses
    <3>3. QED
      BY <3>1, <3>2
  <2>3. CASE v \notin T
    <3>1. PendingTransfers({v})' = PendingTransfers({v})
      BY <1>4, <2>3 DEF PendingTransfers
    <3>2. Offered(v)' <=> Offered(v)
      BY <1>2, <2>3 DEF Offered
    <3>3. PendingTransfers({v}) \subseteq Transfer
      BY DEF PendingTransfers
    <3>4. /\ Offered(v) <=> PendingTransfers({v}) # {}
          /\ \A x, y \in PendingTransfers({v}) : x = y
          /\ \A x \in PendingTransfers({v}) :
                /\ transfer[x].initiator = ticket[v].owner
                /\ transfer[x].recipient # ticket[v].owner
      BY <1>1 DEF OffersConsistent
    <3>5. ticket'[v].owner = ticket[v].owner
      BY <1>2
    <3>6. \A x \in PendingTransfers({v}) :
             /\ transfer'[x].initiator = transfer[x].initiator
             /\ transfer'[x].recipient = transfer[x].recipient
      BY <1>4, <3>3
    <3>7. QED
      BY <3>1, <3>2, <3>4, <3>5, <3>6
  <2>4. QED
    BY <2>2, <2>3
<1>8. CredentialFollowsOwner'
  <2>1. SUFFICES ASSUME NEW v \in Ticket
        PROVE  /\ \A k, l \in ActiveKeys({v})' : k = l
               /\ \A k \in ActiveKeys({v})' : cred'[k].holder = ticket'[v].owner
               /\ ticket'[v].status \in LiveStatuses => ActiveKeys({v})' # {}
               /\ ticket'[v].status = "CANCELLED" => ActiveKeys({v})' = {}
    BY DEF CredentialFollowsOwner
  <2>2. CASE v \in T
    <3>1. ActiveKeys({v})' = {}
      BY <1>3, <2>2 DEF ActiveKeys
    <3>2. ticket'[v].status \notin LiveStatuses
      BY <1>2, <2>2 DEF LiveStatuses
    <3>3. QED
      BY <3>1, <3>2
  <2>3. CASE v \notin T
    <3>1. ActiveKeys({v})' = ActiveKeys({v}) /\ ActiveKeys({v}) \subseteq Key
      BY <1>3, <2>3 DEF ActiveKeys
    <3>2. /\ \A k, l \in ActiveKeys({v}) : k = l
          /\ \A k \in ActiveKeys({v}) : cred[k].holder = ticket[v].owner
          /\ ticket[v].status \in LiveStatuses => ActiveKeys({v}) # {}
          /\ ticket[v].status = "CANCELLED" => ActiveKeys({v}) = {}
      BY <1>1 DEF CredentialFollowsOwner
    <3>3. /\ ticket'[v].owner = ticket[v].owner
          /\ ticket'[v].status = ticket[v].status
          /\ \A k \in ActiveKeys({v}) : cred'[k].holder = cred[k].holder
      BY <1>2, <1>3, <2>3, <3>1
    <3>4. QED
      BY <3>1, <3>2, <3>3
  <2>4. QED
    BY <2>2, <2>3
<1>9. AdmitsOnce'
  BY <1>1, <1>2 DEF AdmitsOnce, LiveStatuses
<1>10. CancelledEventIsDead'
  <2>1. SUFFICES ASSUME NEW e \in Event, event'[e].status = "CANCELLED"
        PROVE  /\ LiveTickets(TicketsOf(e) \ late)' = {}
               /\ ActiveKeys(TicketsOf(e) \ late)' = {}
               /\ PendingTransfers(TicketsOf(e) \ late)' = {}
    BY DEF CancelledEventIsDead
  <2>2. CASE TicketsOf(e) \subseteq T
    BY <1>2, <1>3, <1>4, <2>2
       DEF LiveTickets, ActiveKeys, PendingTransfers, TicketsOf, LiveStatuses
  <2>3. CASE event[e].status = "CANCELLED"
    <3>1. /\ LiveTickets(TicketsOf(e) \ late) = {}
          /\ ActiveKeys(TicketsOf(e) \ late) = {}
          /\ PendingTransfers(TicketsOf(e) \ late) = {}
      BY <1>1, <2>3 DEF CancelledEventIsDead
    <3>2. QED
      BY <1>2, <1>3, <1>4, <3>1
         DEF LiveTickets, ActiveKeys, PendingTransfers, TicketsOf, LiveStatuses
  <2>4. QED
    BY <2>1, <2>2, <2>3
<1>11. QED
  BY <1>5, <1>6, <1>7, <1>8, <1>9, <1>10 DEF TablesOK

\* A cancellation that has nothing left to lock owns all it writes.
LEMMA NothingLeft ==
    ASSUME TicketingInv, NEW s \in Session, NEW T, T = Scope(s), RowsLeft(s) = {}
    PROVE  \A o \in Session \ {s} :
              /\ \A t \in LiveTickets(T) : t \notin holds[o]
              /\ \A k \in ActiveKeys(T) : k \notin holds[o]
              /\ \A x \in PendingTransfers(T) : x \notin holds[o]
BY InvParts DEF RowsLeft, LocksExclusive

LEMMA CancelTicketCommitInv ==
    ASSUME TicketingInv, NEW s \in Request, CancelTicketCommit(s)
    PROVE  TicketingInv'
<1>1. PICK t : t = tx[s].row
  OBVIOUS
<1>2. /\ s \in Session /\ t \in Ticket /\ t \in holds[s] /\ Scope(s) = {t}
      /\ ticket[t].status \in {"ACTIVE", "TRANSFER_PENDING"}
  <2>1. /\ Doing(s, "cancelTicket") /\ t \in Ticket /\ t \in holds[s]
        /\ CanTransition(ticket[t].status, "CANCELLED")
    BY <1>1, Known DEF CancelTicketCommit, Knows, Doing, Idle
  <2>2. ticket[t].status \in Statuses
    BY <1>1, Known DEF CancelTicketCommit, Knows, Doing
  <2>3. QED
    BY <1>1, <2>1, <2>2, Known DEF CanTransition, Transitions, Statuses, Scope, Doing
<1>3. /\ ticket' = [ticket EXCEPT ![t].status = "CANCELLED"]
      /\ VoidRows({t}) /\ RowsLeft(s) = {} /\ End(s)
      /\ UNCHANGED <<event, assigned, entries, late, sweep>>
  BY <1>1 DEF CancelTicketCommit, Transition
<1>4. LiveTickets({t}) = {t}
  BY <1>2 DEF LiveTickets, LiveStatuses
<1>5. ticket' = [v \in Ticket |-> IF v \in LiveTickets({t})
                    THEN [ticket[v] EXCEPT !.status = "CANCELLED"] ELSE ticket[v]]
  BY <1>2, <1>3, <1>4, Known DEF TableTypeOK
<1>6. TableTypeOK' /\ TablesOK'
  <2>1. event' \in [Event -> [status : {"PUBLISHED", "CANCELLED"},
                              clock : {"before", "open", "over"}]]
    BY <1>3, Known DEF TableTypeOK
  <2>2. QED
    BY <1>2, <1>3, <1>5, <2>1, VoidTables
<1>7. \A o \in Session \ {s} :
          /\ t \notin holds[o]
          /\ \A k \in ActiveKeys({t}) : k \notin holds[o]
          /\ \A x \in PendingTransfers({t}) : x \notin holds[o]
  BY <1>2, <1>3, <1>4, NothingLeft
<1>8. /\ \A v \in Ticket : v # t => ticket'[v] = ticket[v]
      /\ \A k \in Key : k \notin ActiveKeys({t}) => cred'[k] = cred[k]
      /\ \A x \in Transfer : x \notin PendingTransfers({t}) =>
            transfer'[x] = transfer[x]
  BY <1>4, <1>3, <1>5 DEF VoidRows
<1>9. sweep' \in [Job -> SUBSET Transfer]
  BY <1>3, Known DEF TxTypeOK
<1>10. QED
  BY <1>2, <1>3, <1>6, <1>7, <1>8, <1>9, CommitStep

LEMMA CancelEventCommitInv ==
    ASSUME TicketingInv, NEW s \in Request, CancelEventCommit(s)
    PROVE  TicketingInv'
<1>1. PICK e, T : e = tx[s].row /\ T = TicketsOf(e)
  OBVIOUS
<1>2. /\ s \in Session /\ e \in Event /\ T = Scope(s) /\ T \in SUBSET Ticket
  BY <1>1, Known DEF CancelEventCommit, Knows, Doing, Scope, TicketsOf
<1>3. /\ event' = [event EXCEPT ![e].status = "CANCELLED"]
      /\ ticket' = [v \in Ticket |-> IF v \in LiveTickets(T)
                       THEN [ticket[v] EXCEPT !.status = "CANCELLED"] ELSE ticket[v]]
      /\ VoidRows(T) /\ RowsLeft(s) = {} /\ End(s)
      /\ UNCHANGED <<assigned, entries, late, sweep>>
  BY <1>1 DEF CancelEventCommit
<1>4. TableTypeOK' /\ TablesOK'
  <2>1. event' \in [Event -> [status : {"PUBLISHED", "CANCELLED"},
                              clock : {"before", "open", "over"}]]
    BY <1>3, Known DEF TableTypeOK
  <2>2. \A f \in Event : event'[f].status = "CANCELLED" =>
               event[f].status = "CANCELLED" \/ TicketsOf(f) \subseteq T
    BY <1>1, <1>3, Known DEF TableTypeOK
  <2>3. QED
    BY <1>2, <1>3, <2>1, <2>2, VoidTables
<1>5. \A o \in Session \ {s} :
          /\ \A t \in LiveTickets(T) : t \notin holds[o]
          /\ \A k \in ActiveKeys(T) : k \notin holds[o]
          /\ \A x \in PendingTransfers(T) : x \notin holds[o]
  BY <1>2, <1>3, NothingLeft
<1>6. /\ \A v \in Ticket : v \notin LiveTickets(T) => ticket'[v] = ticket[v]
      /\ \A k \in Key : k \notin ActiveKeys(T) => cred'[k] = cred[k]
      /\ \A x \in Transfer : x \notin PendingTransfers(T) =>
            transfer'[x] = transfer[x]
  BY <1>3 DEF VoidRows
<1>7. sweep' \in [Job -> SUBSET Transfer]
  BY <1>3, Known DEF TxTypeOK
<1>8. ASSUME NEW o \in Session \ {s}
      PROVE  /\ \A f \in Event : f \in holds[o] => event'[f].status = event[f].status
             /\ \A t \in Ticket : t \in holds[o] /\ ticket[t].status = "ACTIVE" =>
                   event'[EventOf[t]].status = event[EventOf[t]].status
  <2>1. \A f \in Event \ {e} : event'[f].status = event[f].status
    BY <1>2, <1>3, Known DEF TableTypeOK
  <2>2. e \notin holds[o]
    BY <1>1, <1>2, Known, NotOthers DEF CancelEventCommit, Knows, Doing, Idle
  <2>3. ASSUME NEW t \in Ticket, t \in holds[o], ticket[t].status = "ACTIVE"
        PROVE  EventOf[t] \in Event \ {e}
    BY <1>1, <1>5, <2>3, ConstantsAssumption DEF LiveTickets, TicketsOf, LiveStatuses
  <2> QED BY <2>1, <2>2, <2>3
<1>9. QED
  BY <1>2, <1>3, <1>4, <1>5, <1>6, <1>7, <1>8, CommitStep

-----------------------------------------------------------------------------
(* Time, and the scanner assignments. *)

LEMMA LapseInv ==
    ASSUME TicketingInv, NEW x \in Transfer, Lapse(x)
    PROVE  TicketingInv'
<1>1. /\ transfer' = [transfer EXCEPT ![x].due = TRUE]
      /\ UNCHANGED <<event, assigned, ticket, cred, entries, late, holds, tx, sweep>>
  BY DEF Lapse
<1>2. \A y \in Transfer : /\ transfer'[y].status = transfer[y].status
                          /\ transfer'[y].ticket = transfer[y].ticket
                          /\ transfer'[y].initiator = transfer[y].initiator
                          /\ transfer'[y].recipient = transfer[y].recipient
  BY <1>1, InvParts DEF TableTypeOK
<1>3. TableTypeOK'
  BY <1>1, InvParts DEF TableTypeOK
<1>4. TablesOK'
  <2>1. References'
    BY <1>1, <1>2, InvParts DEF TablesOK, References
  <2>2. OffersConsistent'
    <3>1. SUFFICES ASSUME NEW v \in Ticket
          PROVE  /\ Offered(v)' <=> PendingTransfers({v})' # {}
                 /\ \A y, z \in PendingTransfers({v})' : y = z
                 /\ \A y \in PendingTransfers({v})' :
                       /\ transfer'[y].initiator = ticket'[v].owner
                       /\ transfer'[y].recipient # ticket'[v].owner
      BY DEF OffersConsistent
    <3>2. /\ PendingTransfers({v})' = PendingTransfers({v})
          /\ PendingTransfers({v}) \subseteq Transfer
      BY <1>2 DEF PendingTransfers
    <3>3. QED
      <4>1. /\ Offered(v) <=> PendingTransfers({v}) # {}
            /\ \A y, z \in PendingTransfers({v}) : y = z
            /\ \A y \in PendingTransfers({v}) :
                  /\ transfer[y].initiator = ticket[v].owner
                  /\ transfer[y].recipient # ticket[v].owner
        BY InvParts DEF TablesOK, OffersConsistent
      <4>2. ticket' = ticket /\ (Offered(v)' <=> Offered(v))
        BY <1>1 DEF Offered
      <4>3. QED
        BY <1>2, <3>2, <4>1, <4>2
  <2>3. CredentialFollowsOwner' /\ AdmitsOnce'
    BY <1>1, InvParts DEF TablesOK, CredentialFollowsOwner, AdmitsOnce, ActiveKeys
  <2>4. CancelledEventIsDead'
    BY <1>1, <1>2, InvParts DEF TablesOK, CancelledEventIsDead, LiveTickets,
                                TicketsOf, ActiveKeys, PendingTransfers
  <2>5. QED
    BY <2>1, <2>2, <2>3, <2>4 DEF TablesOK
<1>5. \A o \in Session : Knows(o)'
  BY <1>1, <1>2, InvParts, KnowsKept DEF TablesOK
<1>6. TxTypeOK' /\ LocksExclusive'
  BY <1>1, InvParts DEF TxTypeOK, LocksExclusive
<1>7. QED
  BY <1>3, <1>4, <1>5, <1>6, InvPartsNext

LEMMA EventTableInv ==
    ASSUME TicketingInv,
           \/ \E e \in Event : ClockMoves(e)
           \/ \E u \in User, e \in Event : AssignScanner(u, e) \/ RemoveScanner(u, e)
    PROVE  TicketingInv'
<1>1. /\ UNCHANGED <<ticket, cred, transfer, entries, late, holds, tx, sweep>>
      /\ event' \in [Event -> [status : {"PUBLISHED", "CANCELLED"},
                               clock : {"before", "open", "over"}]]
      /\ assigned' \in SUBSET (Scanner \X Event)
      /\ \A e \in Event : event'[e].status = event[e].status
  <2>1. CASE \E e \in Event : ClockMoves(e)
    BY <2>1, InvParts DEF TableTypeOK, ClockMoves
  <2>2. CASE \E u \in User, e \in Event : AssignScanner(u, e) \/ RemoveScanner(u, e)
    BY <2>2, InvParts DEF TableTypeOK, AssignScanner, RemoveScanner
  <2>3. QED
    BY <2>1, <2>2
<1>2. TableTypeOK'
  BY <1>1, InvParts DEF TableTypeOK
<1>3. TablesOK'
  BY <1>1, InvParts DEF TablesOK, References, OffersConsistent, Offered,
       CredentialFollowsOwner, AdmitsOnce, CancelledEventIsDead, PendingTransfers,
       ActiveKeys, LiveTickets, TicketsOf
<1>4. \A o \in Session : Knows(o)'
  BY <1>1, InvParts, ConstantsAssumption, KnowsKept DEF TablesOK
<1>5. TxTypeOK' /\ LocksExclusive'
  BY <1>1, InvParts DEF TxTypeOK, LocksExclusive
<1>6. QED
  BY <1>2, <1>3, <1>4, <1>5, InvPartsNext

-----------------------------------------------------------------------------
(* The theorems. *)

LEMMA InitInv == Init => TicketingInv
<1> SUFFICES ASSUME Init PROVE TicketingInv
  OBVIOUS
<1>1. TxTypeOK /\ LocksExclusive /\ \A s \in Session : Knows(s)
  BY DEF Init, TxTypeOK, LocksExclusive, Knows, Idle, Doing, NoTx, Operations
<1>2. TableTypeOK
  BY DEF Init, TableTypeOK
<1>3. References /\ OffersConsistent /\ CredentialFollowsOwner
  BY ConstantsAssumption
     DEF Init, References, OffersConsistent, CredentialFollowsOwner, Offered,
         PendingTransfers, ActiveKeys, LiveStatuses
<1>4. AdmitsOnce /\ CancelledEventIsDead
  BY DEF Init, AdmitsOnce, CancelledEventIsDead
<1> QED BY <1>1, <1>2, <1>3, <1>4, InvParts DEF TablesOK

LEMMA NextInv == TicketingInv /\ [Next]_vars => TicketingInv'
<1> SUFFICES ASSUME TicketingInv, [Next]_vars PROVE TicketingInv'
  OBVIOUS
<1>1. ASSUME NEW s \in Request, RequestStep(s) PROVE TicketingInv'
  <2>0. CASE \/ \E e \in Event, u \in User : IssueLock(s, e, u) \/ BuyLock(s, e, u)
             \/ CreateTickets(s)
    BY <2>0, IssueLockInv, CreateTicketsInv
  <2>1. CASE \E u, p \in User, t \in Ticket : OfferLock(s, u, t, p)
    BY <2>1, OfferLockInv
  <2>2. CASE OfferCommit(s)
    BY <2>2, OfferCommitInv
  <2>3. CASE \E u \in User, x \in Transfer : AcceptLock(s, u, x)
    BY <2>3, AcceptLockInv
  <2>4. CASE AcceptLockTicket(s)
    BY <2>4, AcceptLockTicketInv
  <2>5. CASE AcceptCommit(s)
    BY <2>5, AcceptCommitInv
  <2>6. CASE \E u \in User, x \in Transfer, o \in {"reject", "withdraw"} :
                FinishLock(s, u, x, o)
    BY <2>6, FinishLockInv
  <2>7. CASE FinishCommit(s)
    BY <2>7, FinishCommitInv
  <2>8. CASE \E u \in Scanner, k \in Key : VerifyLock(s, u, k)
    BY <2>8, VerifyLockInv
  <2>9. CASE VerifyLockTicket(s)
    BY <2>9, VerifyLockTicketInv
  <2>10. CASE VerifyCommit(s)
    BY <2>10, VerifyCommitInv
  <2>11. CASE \E u \in User, t \in Ticket : CancelTicketLock(s, u, t)
    BY <2>11, CancelTicketLockInv
  <2>12. CASE \E e \in Event : CancelEventLock(s, e)
    BY <2>12, CancelEventLockInv
  <2>13. CASE CancelLockRow(s)
    BY <2>13, CancelLockRowInv
  <2>14. CASE CancelTicketCommit(s)
    BY <2>14, CancelTicketCommitInv
  <2>15. CASE CancelEventCommit(s)
    BY <2>15, CancelEventCommitInv
  <2>16. QED
    BY <1>1, <2>0, <2>1, <2>2, <2>3, <2>4, <2>5, <2>6, <2>7, <2>8, <2>9, <2>10,
       <2>11, <2>12, <2>13, <2>14, <2>15 DEF RequestStep
<1>2. ASSUME NEW j \in Job, JobStep(j) PROVE TicketingInv'
  BY <1>2, SweepListInv, SweepLockInv, SweepCommitInv DEF JobStep
<1>3. CASE Environment
  BY <1>3, RollbackInv, LapseInv, EventTableInv DEF Environment
<1>4. CASE UNCHANGED vars
  <2>1. UNCHANGED <<tables, holds, tx, sweep>>
    BY <1>4 DEF vars, tables
  <2>2. TxTypeOK' /\ LocksExclusive' /\ TableTypeOK' /\ TablesOK'
    BY <2>1, InvParts, TablesKept DEF TxTypeOK, LocksExclusive
  <2>3. \A o \in Session : Knows(o)'
    BY <2>1, InvParts, KnowsKept DEF tables, TablesOK
  <2>4. QED
    BY <2>2, <2>3, InvPartsNext
<1>5. QED
  BY <1>1, <1>2, <1>3, <1>4 DEF Next

\* Whatever the requests, the worker runs and the rollbacks do, and however
\* many there are of them, the tables and the open transactions satisfy the
\* inductive invariant.
THEOREM InvariantHolds == Spec => []TicketingInv
BY InitInv, NextInv, PTL DEF Spec

\* Every variable keeps its type.
THEOREM TypeCorrect == Spec => []TypeOK
<1>1. TicketingInv => TypeOK
  BY DEF TicketingInv
<1>2. QED
  BY <1>1, InvariantHolds, PTL

\* A ticket is TRANSFER_PENDING exactly while it has a pending transfer, one,
\* from its present owner to somebody else.
THEOREM TransfersMatchTickets == Spec => []OffersConsistent
<1>1. TicketingInv => OffersConsistent
  BY DEF TicketingInv
<1>2. QED
  BY <1>1, InvariantHolds, PTL

\* The one active QR code of a ticket is its present owner's.
THEOREM CodesFollowOwners == Spec => []CredentialFollowsOwner
<1>1. TicketingInv => CredentialFollowsOwner
  BY DEF TicketingInv
<1>2. QED
  BY <1>1, InvariantHolds, PTL

\* A ticket admits at most one person, and then it is USED.
THEOREM OneAdmission == Spec => []AdmitsOnce
<1>1. TicketingInv => AdmitsOnce
  BY DEF TicketingInv
<1>2. QED
  BY <1>1, InvariantHolds, PTL

\* A committed cancellation of an event leaves none of its tickets usable, but
\* for those a payment creates afterwards.
THEOREM CancellationIsComplete == Spec => []CancelledEventIsDead
<1>1. TicketingInv => CancelledEventIsDead
  BY DEF TicketingInv
<1>2. QED
  BY <1>1, InvariantHolds, PTL

-----------------------------------------------------------------------------
(***************************************************************************)
(* What a step of Ticketing may do to the rows, and that Ticketing         *)
(* implements TicketLifecycle.                                             *)
(*                                                                         *)
(* Seen from the rows there are seven kinds of step: tickets are created,  *)
(* an offer is made, ends or is taken up, a ticket admits somebody,        *)
(* tickets are voided, or the rows stay (RowsStay).  Each has one action   *)
(* of TicketLifecycle, and RowSteps says that every step of Ticketing is   *)
(* of one of these kinds.                                                  *)
(***************************************************************************)

\* Time and the transactions move, the rows stay.
RowsStay ==
    /\ ticket' = ticket
    /\ cred' = cred
    /\ \A x \in Transfer :
          /\ transfer'[x].status = transfer[x].status
          /\ transfer'[x].ticket = transfer[x].ticket
          /\ transfer'[x].recipient = transfer[x].recipient
          /\ transfer[x].status # "PENDING" => transfer'[x] = transfer[x]

OfferMade(t, x, u) ==
    /\ ticket[t].status = "ACTIVE"
    /\ u # ticket[t].owner
    /\ PendingTransfers({t}) = {}
    /\ transfer[x].status = "UNUSED"
    /\ transfer'[x].status = "PENDING"
    /\ transfer'[x].ticket = t
    /\ transfer'[x].recipient = u
    /\ ticket' = [ticket EXCEPT ![t].status = "TRANSFER_PENDING"]
    /\ \A y \in Transfer \ {x} : transfer'[y] = transfer[y]
    /\ cred' = cred

OfferEnds(t, x) ==
    /\ x \in PendingTransfers({t})
    /\ ticket[t].status = "TRANSFER_PENDING"
    /\ ticket' = [ticket EXCEPT ![t].status = "ACTIVE"]
    /\ transfer'[x].status \in TransferStatuses \ {"PENDING"}
    /\ \A y \in Transfer \ {x} : transfer'[y] = transfer[y]
    /\ cred' = cred

OfferTaken(t, x, new) ==
    /\ x \in PendingTransfers({t})
    /\ ticket[t].status = "TRANSFER_PENDING"
    /\ cred[new].status = "UNUSED"
    /\ ticket' = [ticket EXCEPT ![t] = [owner |-> transfer[x].recipient,
                                        status |-> "ACTIVE"]]
    /\ transfer' = [transfer EXCEPT ![x].status = "ACCEPTED"]
    /\ cred' = [k \in Key |->
          IF k = new
          THEN [status |-> "ACTIVE", ticket |-> t, holder |-> transfer[x].recipient]
          ELSE IF k \in ActiveKeys({t}) THEN [cred[k] EXCEPT !.status = "REVOKED"]
          ELSE cred[k]]

Admits(s, t) ==
    /\ Doing(s, "verify")
    /\ tx'[s] = NoTx
    /\ tx[s].row \in ActiveKeys({t})
    /\ ticket[t].status = "ACTIVE"
    /\ event[EventOf[t]].status = "PUBLISHED"
    /\ ticket' = [ticket EXCEPT ![t].status = "USED"]
    /\ UNCHANGED <<event, cred, transfer>>

Voids(T) ==
    /\ ticket' = [v \in Ticket |-> IF v \in LiveTickets(T)
                      THEN [ticket[v] EXCEPT !.status = "CANCELLED"] ELSE ticket[v]]
    /\ VoidRows(T)

RowStep ==
    \/ RowsStay
    \/ \E u \in User, new \in SUBSET Ticket :
          \E code \in [new -> Key] : TicketsMade(u, new, code)
    \/ \E t \in Ticket, x \in Transfer, u \in User : OfferMade(t, x, u)
    \/ \E t \in Ticket, x \in Transfer : OfferEnds(t, x)
    \/ \E t \in Ticket, x \in Transfer, new \in Key : OfferTaken(t, x, new)
    \/ \E s \in Request, t \in Ticket : Admits(s, t)
    \/ \E T \in SUBSET Ticket : Voids(T)

-----------------------------------------------------------------------------
(* Every step is of one of the seven kinds. *)

\* TicketService.issue and the tickets of OrderService.pay.
LEMMA CreateTicketsRows ==
    ASSUME TicketingInv, NEW s \in Request, CreateTickets(s)
    PROVE  RowStep
<1>1. PICK u \in User, new \in SUBSET TicketsOf(tx[s].row) :
          \E code \in [new -> Key] : TicketsMade(u, new, code)
  BY TicketsCreated
<1>2. new \in SUBSET Ticket
  BY DEF TicketsOf
<1> QED BY <1>1, <1>2 DEF RowStep

\* TransferService.create.
LEMMA OfferCommitRows ==
    ASSUME TicketingInv, NEW s \in Request, OfferCommit(s)
    PROVE  RowStep
<1> DEFINE t == tx[s].row
           u == tx[s].peer
<1>1. /\ t \in Ticket /\ ticket[t] = [owner |-> tx[s].user, status |-> "ACTIVE"]
      /\ u \in User \ {tx[s].user} /\ PendingTransfers({t}) = {}
      /\ ticket' = [ticket EXCEPT ![t].status = "TRANSFER_PENDING"]
  BY Known DEF OfferCommit, Knows, Doing, Transition
<1>2. PICK x \in Transfer :
          /\ transfer[x].status = "UNUSED"
          /\ transfer' = [transfer EXCEPT ![x] =
                [status |-> "PENDING", ticket |-> t, initiator |-> tx[s].user,
                 recipient |-> u, due |-> FALSE]]
  BY DEF OfferCommit
<1>3. transfer'[x] = [status |-> "PENDING", ticket |-> t, initiator |-> tx[s].user,
                      recipient |-> u, due |-> FALSE]
      /\ \A y \in Transfer \ {x} : transfer'[y] = transfer[y]
  BY <1>2, Known DEF TableTypeOK
<1>4. OfferMade(t, x, u)
  <2>1. u # ticket[t].owner /\ ticket[t].status = "ACTIVE" /\ cred' = cred
    BY <1>1 DEF OfferCommit
  <2> QED BY <1>1, <1>2, <1>3, <2>1 DEF OfferMade
<1> QED BY <1>1, <1>4 DEF RowStep

\* reject, cancel and the worker resolve a transfer in the same way.
LEMMA ReleaseRows ==
    ASSUME TicketingInv, NEW x \in Transfer, transfer[x].status = "PENDING",
           NEW st \in {"REJECTED", "CANCELLED", "EXPIRED"},
           ticket' = [ticket EXCEPT ![transfer[x].ticket].status = "ACTIVE"],
           transfer' = [transfer EXCEPT ![x].status = st],
           cred' = cred
    PROVE  RowStep
<1> DEFINE t == transfer[x].ticket
<1>1. TableTypeOK /\ References /\ OffersConsistent
  BY InvParts DEF TablesOK
<1>2. t \in Ticket /\ x \in PendingTransfers({t})
      /\ ticket[t].status = "TRANSFER_PENDING"
  BY <1>1 DEF References, OffersConsistent, Offered, PendingTransfers
<1>3. transfer'[x].status = st /\ \A y \in Transfer \ {x} : transfer'[y] = transfer[y]
  BY <1>1 DEF TableTypeOK
<1>4. OfferEnds(t, x)
  BY <1>2, <1>3 DEF OfferEnds, TransferStatuses
<1> QED BY <1>2, <1>4 DEF RowStep

\* TransferService.finish.
LEMMA FinishCommitRows ==
    ASSUME TicketingInv, NEW s \in Request, FinishCommit(s)
    PROVE  RowStep
<1> DEFINE x == tx[s].row
           st == IF Doing(s, "reject") THEN "REJECTED" ELSE "CANCELLED"
<1>1. x \in Transfer /\ transfer[x].status = "PENDING"
  BY Known DEF FinishCommit, Knows, Doing
<1>2. /\ ticket' = [ticket EXCEPT ![transfer[x].ticket].status = "ACTIVE"]
      /\ transfer' = [transfer EXCEPT ![x].status = st] /\ cred' = cred
  BY DEF FinishCommit, Transition
<1> QED BY <1>1, <1>2, ReleaseRows

\* TransferService.expireLockedTransfer, called by the worker.
LEMMA SweepCommitRows ==
    ASSUME TicketingInv, NEW j \in Job, SweepCommit(j)
    PROVE  RowStep
<1> DEFINE x == tx[j].row
<1>1. x \in Transfer /\ transfer[x].status = "PENDING"
      /\ tx[j].seen = "TRANSFER_PENDING"
  BY Known DEF SweepCommit, Knows, Doing
<1>2. /\ ticket' = [ticket EXCEPT ![transfer[x].ticket].status = "ACTIVE"]
      /\ transfer' = [transfer EXCEPT ![x].status = "EXPIRED"] /\ cred' = cred
  BY <1>1 DEF SweepCommit, Transition
<1> QED BY <1>1, <1>2, ReleaseRows

\* TransferService.accept.
LEMMA AcceptCommitRows ==
    ASSUME TicketingInv, NEW s \in Request, AcceptCommit(s)
    PROVE  RowStep
<1> DEFINE x == tx[s].row
           t == transfer[x].ticket
<1>1. x \in Transfer /\ transfer[x].status = "PENDING"
      /\ tx[s].user = transfer[x].recipient
  BY Known DEF AcceptCommit, Knows, Doing
<1>2. t \in Ticket /\ x \in PendingTransfers({t})
      /\ ticket[t].status = "TRANSFER_PENDING"
  BY <1>1, Known DEF References, OffersConsistent, Offered, PendingTransfers
<1>3. \E new \in Key : OfferTaken(t, x, new)
  <2>1. RevokeAndCreate(t, tx[s].user)
    BY DEF AcceptCommit
  <2>2. PICK new \in Key : CodeMoved(t, tx[s].user, new)
    BY <1>2, <2>1, OneCodeRevoked
  <2>3. /\ cred[new].status = "UNUSED"
        /\ cred' = [k \in Key |->
              IF k = new
              THEN [status |-> "ACTIVE", ticket |-> t, holder |-> transfer[x].recipient]
              ELSE IF k \in ActiveKeys({t}) THEN [cred[k] EXCEPT !.status = "REVOKED"]
              ELSE cred[k]]
    BY <1>1, <2>2 DEF CodeMoved
  <2>4. /\ ticket' = [ticket EXCEPT ![t] = [owner |-> transfer[x].recipient,
                                            status |-> "ACTIVE"]]
        /\ transfer' = [transfer EXCEPT ![x].status = "ACCEPTED"]
    BY <1>1 DEF AcceptCommit
  <2> QED BY <1>2, <2>3, <2>4 DEF OfferTaken
<1> QED BY <1>1, <1>2, <1>3 DEF RowStep

\* VerificationService.verify.
LEMMA VerifyCommitRows ==
    ASSUME TicketingInv, NEW s \in Request, VerifyCommit(s)
    PROVE  RowStep
<1> DEFINE k == tx[s].row
           t == cred[k].ticket
<1>1. k \in Key /\ cred[k].status = "ACTIVE" /\ t \in holds[s]
      /\ ticket[t].status = "ACTIVE" /\ event[EventOf[t]].status = "PUBLISHED"
  BY Known DEF VerifyCommit, Knows, Doing
<1>2. t \in Ticket /\ k \in ActiveKeys({t})
  BY <1>1, Known DEF References, ActiveKeys
<1>3. tx'[s] = NoTx
  BY Known DEF VerifyCommit, End, TxTypeOK
<1>4. Admits(s, t)
  BY <1>1, <1>2, <1>3 DEF VerifyCommit, Admits
<1> QED BY <1>2, <1>4 DEF RowStep

\* TicketService.cancel.
LEMMA CancelTicketCommitRows ==
    ASSUME TicketingInv, NEW s \in Request, CancelTicketCommit(s)
    PROVE  RowStep
<1> DEFINE t == tx[s].row
<1>1. t \in Ticket /\ ticket[t].status \in Statuses
      /\ CanTransition(ticket[t].status, "CANCELLED")
  BY Known DEF CancelTicketCommit, Knows, Doing
<1>2. LiveTickets({t}) = {t}
  BY <1>1 DEF LiveTickets, LiveStatuses, CanTransition, Transitions, Statuses
<1>3. ticket' = [ticket EXCEPT ![t].status = "CANCELLED"] /\ VoidRows({t})
  BY DEF CancelTicketCommit, Transition
<1>4. Voids({t})
  BY <1>1, <1>2, <1>3, Known DEF Voids, TableTypeOK
<1> QED BY <1>1, <1>4 DEF RowStep

\* EventService.cancel.
LEMMA CancelEventCommitRows ==
    ASSUME NEW s \in Request, CancelEventCommit(s)
    PROVE  RowStep
<1>1. Voids(TicketsOf(tx[s].row)) /\ TicketsOf(tx[s].row) \in SUBSET Ticket
  BY DEF CancelEventCommit, Voids, TicketsOf
<1> QED BY <1>1 DEF RowStep

\* Everything else leaves the rows alone, but for the clocks.
LEMMA OtherRows ==
    ASSUME TicketingInv,
           \/ UNCHANGED <<ticket, cred, transfer>>
           \/ \E x \in Transfer : Lapse(x)
    PROVE  RowsStay
<1>1. CASE UNCHANGED <<ticket, cred, transfer>>
  BY <1>1 DEF RowsStay
<1>2. ASSUME NEW x \in Transfer, Lapse(x) PROVE RowsStay
  BY <1>2, InvParts DEF RowsStay, Lapse, TableTypeOK
<1> QED BY <1>1, <1>2

\* Every step of Ticketing is one of the seven kinds.
LEMMA RowSteps ==
    ASSUME TicketingInv, [Next]_vars
    PROVE  RowStep
<1>1. ASSUME NEW s \in Request, RequestStep(s) PROVE RowStep
  <2>0. CASE CreateTickets(s)
    BY <2>0, CreateTicketsRows
  <2>1. CASE OfferCommit(s)
    BY <2>1, OfferCommitRows
  <2>2. CASE AcceptCommit(s)
    BY <2>2, AcceptCommitRows
  <2>3. CASE FinishCommit(s)
    BY <2>3, FinishCommitRows
  <2>4. CASE VerifyCommit(s)
    BY <2>4, VerifyCommitRows
  <2>5. CASE CancelTicketCommit(s)
    BY <2>5, CancelTicketCommitRows
  <2>6. CASE CancelEventCommit(s)
    BY <2>6, CancelEventCommitRows
  <2>7. CASE UNCHANGED <<ticket, cred, transfer>>
    BY <2>7, OtherRows DEF RowStep
  <2> QED
    BY <1>1, <2>0, <2>1, <2>2, <2>3, <2>4, <2>5, <2>6, <2>7
       DEF RequestStep, IssueLock, BuyLock, OfferLock, AcceptLock, AcceptLockTicket,
           FinishLock, VerifyLock,
           VerifyLockTicket, CancelTicketLock, CancelEventLock, CancelLockRow,
           Begin, LockMore, tables
<1>2. ASSUME NEW j \in Job, JobStep(j) PROVE RowStep
  <2>1. CASE SweepCommit(j)
    BY <2>1, SweepCommitRows
  <2>2. CASE UNCHANGED <<ticket, cred, transfer>>
    BY <2>2, OtherRows DEF RowStep
  <2> QED
    BY <1>2, <2>1, <2>2 DEF JobStep, SweepBegin, SweepLock, SweepSkip, Begin, tables
<1>3. CASE Environment
  BY <1>3, OtherRows
     DEF Environment, Rollback, ClockMoves, AssignScanner, RemoveScanner, tables, RowStep
<1>4. CASE UNCHANGED vars
  BY <1>4, OtherRows DEF vars, RowStep
<1> QED BY <1>1, <1>2, <1>3, <1>4 DEF Next

-----------------------------------------------------------------------------
(* What no step may do. *)

\* An owner changes only with the acceptance of the offer made to the new one.
LEMMA OwnersMove ==
    ASSUME TicketingInv, RowStep, NEW t \in Ticket
    PROVE  OwnerChanges(t)
<1>1. /\ ticket \in [Ticket -> [owner : User \cup {None}, status : {"UNUSED"} \cup Statuses]]
      /\ transfer \in [Transfer -> [status : {"UNUSED"} \cup TransferStatuses,
                                    ticket : Ticket \cup {None},
                                    initiator : User \cup {None},
                                    recipient : User \cup {None}, due : BOOLEAN]]
  BY InvParts DEF TableTypeOK
<1>2. CASE ticket'[t].owner = ticket[t].owner \/ ticket[t].status = "UNUSED"
  BY <1>2 DEF OwnerChanges
<1>3. ASSUME NEW v \in Ticket, NEW x \in Transfer, NEW new \in Key, OfferTaken(v, x, new),
             ticket'[t].owner # ticket[t].owner
      PROVE  OwnerChanges(t)
  <2>1. v = t
    BY <1>1, <1>3 DEF OfferTaken
  <2>2. ticket'[t].owner = transfer[x].recipient /\ transfer'[x].status = "ACCEPTED"
    BY <1>1, <1>3, <2>1 DEF OfferTaken
  <2>3. cred'[new] = [status |-> "ACTIVE", ticket |-> t, holder |-> transfer[x].recipient]
    BY <1>3, <2>1 DEF OfferTaken
  <2>4. ASSUME NEW k \in ActiveKeys({t}) PROVE cred'[k].status = "REVOKED"
    <3>1. k \in Key /\ k # new
      BY <1>3 DEF ActiveKeys, OfferTaken
    <3>2. cred'[k] = [cred[k] EXCEPT !.status = "REVOKED"]
      BY <1>3, <2>1, <2>4, <3>1 DEF OfferTaken
    <3>3. cred[k] \in [status : {"UNUSED", "ACTIVE", "REVOKED"},
                       ticket : Ticket \cup {None}, holder : User \cup {None}]
      BY <3>1, InvParts DEF TableTypeOK
    <3> QED BY <3>2, <3>3
  <2>5. x \in PendingTransfers({t}) /\ cred[new].status = "UNUSED"
    BY <1>3, <2>1 DEF OfferTaken
  <2> QED BY <2>2, <2>3, <2>4, <2>5 DEF OwnerChanges
<1>4. CASE \/ \E s \in Request, v \in Ticket : Admits(s, v)
           \/ \E v \in Ticket, x \in Transfer : OfferEnds(v, x)
           \/ \E v \in Ticket, x \in Transfer, u \in User : OfferMade(v, x, u)
           \/ RowsStay
  <2>1. \/ ticket' = ticket
        \/ \E v \in Ticket, st \in Statuses : ticket' = [ticket EXCEPT ![v].status = st]
    BY <1>4 DEF Admits, OfferEnds, OfferMade, RowsStay, Statuses
  <2>2. ticket'[t].owner = ticket[t].owner
    BY <1>1, <2>1
  <2> QED BY <1>2, <2>2
<1>5. CASE \E T \in SUBSET Ticket : Voids(T)
  <2>1. ticket'[t].owner = ticket[t].owner
    BY <1>1, <1>5 DEF Voids
  <2> QED BY <1>2, <2>1
<1>6. ASSUME NEW u \in User, NEW new \in SUBSET Ticket, NEW code \in [new -> Key],
             TicketsMade(u, new, code)
      PROVE  OwnerChanges(t)
  <2>1. ticket[t].status = "UNUSED" \/ ticket'[t] = ticket[t]
    BY <1>6 DEF TicketsMade
  <2> QED BY <1>2, <2>1
<1> QED BY <1>2, <1>3, <1>4, <1>5, <1>6 DEF RowStep

\* A ticket becomes USED only by its owner's code, before its event is
\* cancelled: the lock on the ticket keeps the cancellation waiting.
LEMMA AdmissionsCurrent ==
    ASSUME TicketingInv, RowStep, NEW t \in Ticket
    PROVE  Admitted(t)
<1>1. /\ ticket \in [Ticket -> [owner : User \cup {None}, status : {"UNUSED"} \cup Statuses]]
      /\ event \in [Event -> [status : {"PUBLISHED", "CANCELLED"},
                              clock : {"before", "open", "over"}]]
      /\ CredentialFollowsOwner
  BY InvParts DEF TableTypeOK, TablesOK
<1>2. CASE ticket[t].status = "USED" \/ ticket'[t].status # "USED"
  BY <1>2 DEF Admitted
<1>3. ASSUME NEW s \in Request, NEW v \in Ticket, Admits(s, v),
             ticket[t].status # "USED", ticket'[t].status = "USED"
      PROVE  Admitted(t)
  <2>1. v = t
    BY <1>1, <1>3 DEF Admits
  <2>2. ticket[t].status = "ACTIVE" /\ event' = event
    BY <1>3, <2>1 DEF Admits
  <2>3. event[EventOf[t]].status = "PUBLISHED"
    BY <1>3, <2>1 DEF Admits
  <2>4. /\ Doing(s, "verify") /\ tx'[s] = NoTx /\ tx[s].row \in ActiveKeys({t})
        /\ cred[tx[s].row].holder = ticket[t].owner
    BY <1>1, <1>3, <2>1 DEF Admits, CredentialFollowsOwner
  <2> QED BY <2>2, <2>3, <2>4 DEF Admitted
<1>4. CASE ~\E s \in Request, v \in Ticket : Admits(s, v)
  <2>1. CASE \/ \E v \in Ticket, x \in Transfer : OfferEnds(v, x)
             \/ \E v \in Ticket, x \in Transfer, u \in User : OfferMade(v, x, u)
             \/ RowsStay
    BY <1>1, <1>2, <2>1 DEF OfferEnds, OfferMade, RowsStay
  <2>2. CASE \E v \in Ticket, x \in Transfer, new \in Key : OfferTaken(v, x, new)
    BY <1>1, <1>2, <2>2 DEF OfferTaken
  <2>3. CASE \E T \in SUBSET Ticket : Voids(T)
    BY <1>1, <1>2, <2>3 DEF Voids
  <2>4. ASSUME NEW u \in User, NEW new \in SUBSET Ticket, NEW code \in [new -> Key],
               TicketsMade(u, new, code)
        PROVE  Admitted(t)
    <3>1. ticket'[t] = [owner |-> u, status |-> "ACTIVE"] \/ ticket'[t] = ticket[t]
      BY <2>4 DEF TicketsMade
    <3> QED BY <1>2, <3>1
  <2> QED BY <1>4, <2>1, <2>2, <2>3, <2>4 DEF RowStep
<1> QED BY <1>2, <1>3, <1>4

\* What is over stays as it is.
Finished ==
    /\ \A t \in Ticket : ticket[t].status \in TerminalStatuses => ticket'[t] = ticket[t]
    /\ \A x \in Transfer : transfer[x].status \in TransferStatuses \ {"PENDING"} =>
          transfer'[x] = transfer[x]
    /\ \A k \in Key : cred[k].status = "REVOKED" => cred'[k] = cred[k]

LEMMA FinishedStays ==
    ASSUME TicketingInv, RowStep
    PROVE  Finished
<1>1. TableTypeOK
  BY InvParts
<1>2. CASE RowsStay
  BY <1>2 DEF RowsStay, Finished
<1>3. ASSUME NEW t \in Ticket, NEW x \in Transfer,
             OfferEnds(t, x) \/ \E u \in User : OfferMade(t, x, u)
      PROVE  Finished
  <2>1. cred' = cred /\ ticket[t].status \notin TerminalStatuses
        /\ \A v \in Ticket \ {t} : ticket'[v] = ticket[v]
    BY <1>1, <1>3 DEF OfferEnds, OfferMade, TableTypeOK, TerminalStatuses
  <2>2. transfer[x].status \in {"PENDING", "UNUSED"}
        /\ \A y \in Transfer \ {x} : transfer'[y] = transfer[y]
    BY <1>3 DEF OfferEnds, OfferMade, PendingTransfers
  <2> QED BY <2>1, <2>2 DEF Finished, TransferStatuses
<1>4. ASSUME NEW t \in Ticket, NEW x \in Transfer, NEW new \in Key, OfferTaken(t, x, new)
      PROVE  Finished
  <2>1. ticket[t].status \notin TerminalStatuses
        /\ \A v \in Ticket \ {t} : ticket'[v] = ticket[v]
    BY <1>1, <1>4 DEF OfferTaken, TableTypeOK, TerminalStatuses
  <2>2. transfer[x].status = "PENDING"
        /\ \A y \in Transfer \ {x} : transfer'[y] = transfer[y]
    BY <1>1, <1>4 DEF OfferTaken, TableTypeOK, PendingTransfers
  <2>3. \A k \in Key : cred[k].status = "REVOKED" => cred'[k] = cred[k]
    BY <1>4 DEF OfferTaken, ActiveKeys
  <2> QED BY <2>1, <2>2, <2>3 DEF Finished
<1>5. ASSUME NEW s \in Request, NEW t \in Ticket, Admits(s, t) PROVE Finished
  BY <1>1, <1>5 DEF Admits, Finished, TableTypeOK, TerminalStatuses
<1>6. ASSUME NEW T \in SUBSET Ticket, Voids(T) PROVE Finished
  <2>1. \A t \in Ticket : ticket[t].status \in TerminalStatuses => ticket'[t] = ticket[t]
    BY <1>6 DEF Voids, LiveTickets, LiveStatuses, TerminalStatuses
  <2>2. \A x \in Transfer : transfer[x].status # "PENDING" => transfer'[x] = transfer[x]
    BY <1>6 DEF Voids, VoidRows, PendingTransfers
  <2>3. \A k \in Key : cred[k].status = "REVOKED" => cred'[k] = cred[k]
    BY <1>6 DEF Voids, VoidRows, ActiveKeys
  <2> QED BY <2>1, <2>2, <2>3 DEF Finished
<1>7. ASSUME NEW u \in User, NEW new \in SUBSET Ticket, NEW code \in [new -> Key],
             TicketsMade(u, new, code)
      PROVE  Finished
  <2>1. \A t \in Ticket : ticket[t].status \in TerminalStatuses => ticket'[t] = ticket[t]
    BY <1>7 DEF TicketsMade, TerminalStatuses
  <2>2. \A k \in Key : cred[k].status = "REVOKED" => cred'[k] = cred[k]
    <3>1. ASSUME NEW k \in Key, cred[k].status = "REVOKED" PROVE \A t \in new : code[t] # k
      BY <1>7, <3>1 DEF TicketsMade
    <3> QED BY <1>7, <3>1 DEF TicketsMade
  <2> QED BY <1>7, <2>1, <2>2 DEF Finished, TicketsMade
<1> QED BY <1>2, <1>3, <1>4, <1>5, <1>6, <1>7 DEF RowStep

\* A ticket changes hands only when the transfer offered to its new owner is
\* accepted, which retires the old code in the same commit.
THEOREM OwnersMoveByAcceptance == Spec => OwnershipMovesByAcceptance
<1>1. TicketingInv /\ [Next]_vars => [\A t \in Ticket : OwnerChanges(t)]_vars
  BY RowSteps, OwnersMove
<1> QED BY <1>1, InvariantHolds, PTL DEF Spec, OwnershipMovesByAcceptance

\* A check-in is by the present owner's code and while the event is
\* published, though verify reads the event without a lock.
THEOREM AdmissionsAreCurrent == Spec => AdmissionIsCurrent
<1>1. TicketingInv /\ [Next]_vars => [\A t \in Ticket : Admitted(t)]_vars
  BY RowSteps, AdmissionsCurrent
<1> QED BY <1>1, InvariantHolds, PTL DEF Spec, AdmissionIsCurrent

\* Used and cancelled tickets, resolved transfers and revoked codes are final.
THEOREM NothingComesBack == Spec => NothingRevives
<1>1. TicketingInv /\ [Next]_vars => [Finished]_vars
  BY RowSteps, FinishedStays
<1> QED BY <1>1, InvariantHolds, PTL DEF Spec, NothingRevives, Finished

-----------------------------------------------------------------------------
(* Ticketing implements TicketLifecycle. *)

OfferedTo(t) == TheOne({transfer[x].recipient : x \in PendingTransfers({t})})

PassOf(t) == TheOne(ActiveKeys({t}))

Revoked == {k \in Key : cred[k].status = "REVOKED"}

\* Of the statuses in ticket-state.ts the operations use four.
StatusesUsed ==
    \A t \in Ticket : ticket[t].status \in
        {"UNUSED", "ACTIVE", "TRANSFER_PENDING", "USED", "CANCELLED"}

\* TheOne picks the only member of a set.
LEMMA TheOnly ==
    ASSUME NEW v
    PROVE  TheOne({v}) = v
BY DEF TheOne

\* There is nothing to pick in an empty set.
LEMMA TheNone == TheOne({}) = None
BY DEF TheOne

\* The offer a ticket is under, and the pass it has.
LEMMA Chosen ==
    ASSUME TicketingInv, NEW t \in Ticket
    PROVE  /\ \A x \in PendingTransfers({t}) : OfferedTo(t) = transfer[x].recipient
           /\ \A k \in ActiveKeys({t}) : ActiveKeys({t}) = {k} /\ PassOf(t) = k
           /\ ActiveKeys({t}) = {} => PassOf(t) = None
<1>1. OffersConsistent /\ CredentialFollowsOwner
  BY InvParts DEF TablesOK
<1>2. ASSUME NEW x \in PendingTransfers({t}) PROVE OfferedTo(t) = transfer[x].recipient
  <2>1. PendingTransfers({t}) = {x}
    BY <1>1, <1>2 DEF OffersConsistent
  <2>2. {transfer[y].recipient : y \in PendingTransfers({t})} = {transfer[x].recipient}
    BY <2>1
  <2> QED BY <2>2, TheOnly DEF OfferedTo
<1>3. ASSUME NEW k \in ActiveKeys({t}) PROVE ActiveKeys({t}) = {k} /\ PassOf(t) = k
  <2>1. ActiveKeys({t}) = {k}
    BY <1>1, <1>3 DEF CredentialFollowsOwner
  <2> QED BY <2>1, TheOnly DEF PassOf
<1>4. ActiveKeys({t}) = {} => PassOf(t) = None
  BY TheNone DEF PassOf
<1> QED BY <1>2, <1>3, <1>4

\* A live ticket has a pass, and its pass is a code.
LEMMA PassExists ==
    ASSUME TicketingInv, NEW t \in Ticket
    PROVE  /\ ticket[t].status \in LiveStatuses => PassOf(t) \in ActiveKeys({t})
           /\ PassOf(t) = None <=> ActiveKeys({t}) = {}
           /\ PassOf(t) # None => PassOf(t) \in ActiveKeys({t}) /\ PassOf(t) \in Key
<1>1. CredentialFollowsOwner
  BY InvParts DEF TablesOK
<1>2. ActiveKeys({t}) \subseteq Key /\ None \notin Key
  BY ConstantsAssumption DEF ActiveKeys, Row
<1>3. CASE ActiveKeys({t}) = {}
  BY <1>1, <1>3, Chosen DEF CredentialFollowsOwner
<1>4. ASSUME NEW k \in ActiveKeys({t})
      PROVE  PassOf(t) = k /\ k \in Key /\ k # None /\ ActiveKeys({t}) # {}
  BY <1>2, <1>4, Chosen
<1> QED BY <1>3, <1>4

-----------------------------------------------------------------------------
(* The actions of TicketLifecycle, told by their effect on each ticket. *)

\* Nothing the specification speaks of has changed.
LEMMA AbstractStutter ==
    ASSUME \A v \in Ticket : /\ ticket'[v].owner = ticket[v].owner
                             /\ LifecycleState(v)' = LifecycleState(v)
                             /\ OfferedTo(v)' = OfferedTo(v)
                             /\ PassOf(v)' = PassOf(v),
           Revoked' = Revoked
    PROVE  UNCHANGED Lifecycle!vars
BY DEF Lifecycle!vars, OfferedTo, PassOf, Revoked

\* Tickets are issued.
LEMMA AbstractIssue ==
    ASSUME NEW u \in User, NEW T \in SUBSET Ticket, NEW new \in [T -> Key],
           \A t \in T : LifecycleState(t) = "unissued" /\ new[t] \notin Revoked
                       /\ \A v \in Ticket : PassOf(v) # new[t],
           \A t, v \in T : new[t] = new[v] => t = v,
           \A v \in Ticket :
               /\ ticket'[v].owner = IF v \in T THEN u ELSE ticket[v].owner
               /\ LifecycleState(v)' = IF v \in T THEN "valid" ELSE LifecycleState(v)
               /\ OfferedTo(v)' = OfferedTo(v)
               /\ PassOf(v)' = IF v \in T THEN new[v] ELSE PassOf(v),
           Revoked' = Revoked
    PROVE  Lifecycle!Next
<1>1. Lifecycle!Issue(u, T, new)
  BY DEF Lifecycle!Issue, Lifecycle!Fresh, OfferedTo, PassOf, Revoked
<1> QED BY <1>1 DEF Lifecycle!Next

\* An offer.
LEMMA AbstractOffer ==
    ASSUME NEW t \in Ticket, NEW u \in User, LifecycleState(t) = "valid",
           u # ticket[t].owner,
           \A v \in Ticket :
               /\ ticket'[v].owner = ticket[v].owner
               /\ LifecycleState(v)' = IF v = t THEN "offered" ELSE LifecycleState(v)
               /\ OfferedTo(v)' = IF v = t THEN u ELSE OfferedTo(v)
               /\ PassOf(v)' = PassOf(v),
           Revoked' = Revoked
    PROVE  Lifecycle!Next
<1>1. Lifecycle!Offer(t, u)
  BY DEF Lifecycle!Offer, OfferedTo, PassOf, Revoked
<1> QED BY <1>1 DEF Lifecycle!Next

\* An offer that comes to nothing.
LEMMA AbstractTakeBack ==
    ASSUME NEW t \in Ticket, LifecycleState(t) = "offered",
           \A v \in Ticket :
               /\ ticket'[v].owner = ticket[v].owner
               /\ LifecycleState(v)' = IF v = t THEN "valid" ELSE LifecycleState(v)
               /\ OfferedTo(v)' = IF v = t THEN None ELSE OfferedTo(v)
               /\ PassOf(v)' = PassOf(v),
           Revoked' = Revoked
    PROVE  Lifecycle!Next
<1>1. Lifecycle!TakeBack(t)
  BY DEF Lifecycle!TakeBack, OfferedTo, PassOf, Revoked
<1> QED BY <1>1 DEF Lifecycle!Next

\* A ticket changes hands.
LEMMA AbstractHandOver ==
    ASSUME NEW t \in Ticket, NEW k \in Key, LifecycleState(t) = "offered",
           k \notin Revoked, \A v \in Ticket : PassOf(v) # k,
           \A v \in Ticket :
               /\ ticket'[v].owner = IF v = t THEN OfferedTo(t) ELSE ticket[v].owner
               /\ LifecycleState(v)' = IF v = t THEN "valid" ELSE LifecycleState(v)
               /\ OfferedTo(v)' = IF v = t THEN None ELSE OfferedTo(v)
               /\ PassOf(v)' = IF v = t THEN k ELSE PassOf(v),
           Revoked' = Revoked \cup {PassOf(t)}
    PROVE  Lifecycle!Next
<1>1. Lifecycle!HandOver(t, k)
  BY DEF Lifecycle!HandOver, Lifecycle!Fresh, OfferedTo, PassOf, Revoked
<1> QED BY <1>1 DEF Lifecycle!Next

\* A ticket admits its holder.
LEMMA AbstractAdmit ==
    ASSUME NEW t \in Ticket, LifecycleState(t) = "valid", PassOf(t) # None,
           \A v \in Ticket :
               /\ ticket'[v].owner = ticket[v].owner
               /\ LifecycleState(v)' = IF v = t THEN "used" ELSE LifecycleState(v)
               /\ OfferedTo(v)' = OfferedTo(v)
               /\ PassOf(v)' = PassOf(v),
           Revoked' = Revoked
    PROVE  Lifecycle!Next
<1>1. Lifecycle!Admit(t)
  BY DEF Lifecycle!Admit, OfferedTo, PassOf, Revoked
<1> QED BY <1>1 DEF Lifecycle!Next

\* Tickets are voided.
LEMMA AbstractVoid ==
    ASSUME NEW T \in SUBSET Ticket,
           \A v \in Ticket :
               /\ ticket'[v].owner = ticket[v].owner
               /\ LifecycleState(v)' = IF v \in T /\ LifecycleState(v) \in {"valid", "offered"}
                                       THEN "void" ELSE LifecycleState(v)
               /\ OfferedTo(v)' = IF v \in T THEN None ELSE OfferedTo(v)
               /\ PassOf(v)' = IF v \in T THEN None ELSE PassOf(v),
           Revoked' = Revoked \cup {PassOf(v) : v \in {w \in T : PassOf(w) # None}}
    PROVE  Lifecycle!Next
<1>1. Lifecycle!Void(T)
  BY DEF Lifecycle!Void, OfferedTo, PassOf, Revoked
<1> QED BY <1>1 DEF Lifecycle!Next

-----------------------------------------------------------------------------
(* Each kind of step takes the action of its name. *)

\* The statuses a ticket can have are the four that the commits write.
LEMMA StatusesKept ==
    ASSUME TicketingInv, StatusesUsed, RowStep
    PROVE  StatusesUsed'
<1>1. ticket \in [Ticket -> [owner : User \cup {None}, status : {"UNUSED"} \cup Statuses]]
  BY InvParts DEF TableTypeOK
<1>2. CASE \E T \in SUBSET Ticket : Voids(T)
  BY <1>1, <1>2 DEF StatusesUsed, Voids
<1>3. CASE \E t \in Ticket, x \in Transfer, new \in Key : OfferTaken(t, x, new)
  BY <1>1, <1>3 DEF StatusesUsed, OfferTaken
<1>4. CASE RowsStay
  BY <1>4 DEF StatusesUsed, RowsStay
<1>5. ASSUME NEW t \in Ticket, NEW st \in {"ACTIVE", "TRANSFER_PENDING", "USED"},
             ticket' = [ticket EXCEPT ![t].status = st]
      PROVE  StatusesUsed'
  BY <1>1, <1>5 DEF StatusesUsed
<1>6. CASE \E t \in Ticket, x \in Transfer, u \in User : OfferMade(t, x, u)
  BY <1>5, <1>6 DEF OfferMade
<1>7. CASE \E t \in Ticket, x \in Transfer : OfferEnds(t, x)
  BY <1>5, <1>7 DEF OfferEnds
<1>8. CASE \E s \in Request, t \in Ticket : Admits(s, t)
  BY <1>5, <1>8 DEF Admits
<1>9. ASSUME NEW u \in User, NEW new \in SUBSET Ticket, NEW code \in [new -> Key],
             TicketsMade(u, new, code)
      PROVE  StatusesUsed'
  <2>1. ASSUME NEW t \in Ticket
        PROVE  ticket'[t] = [owner |-> u, status |-> "ACTIVE"] \/ ticket'[t] = ticket[t]
    BY <1>9 DEF TicketsMade
  <2>2. ASSUME NEW t \in Ticket
        PROVE  ticket'[t].status = "ACTIVE" \/ ticket'[t].status = ticket[t].status
    BY <2>1
  <2> QED BY <2>2 DEF StatusesUsed
<1> QED BY <1>2, <1>3, <1>4, <1>6, <1>7, <1>8, <1>9 DEF RowStep

\* Rows that stay mean the same.
LEMMA SameTicket ==
    ASSUME NEW v, ticket'[v].status = ticket[v].status,
           PendingTransfers({v})' = PendingTransfers({v}),
           \A x \in PendingTransfers({v}) : transfer'[x].recipient = transfer[x].recipient,
           ActiveKeys({v})' = ActiveKeys({v})
    PROVE  /\ LifecycleState(v)' = LifecycleState(v)
           /\ OfferedTo(v)' = OfferedTo(v)
           /\ PassOf(v)' = PassOf(v)
<1>1. LifecycleState(v)' = LifecycleState(v)
  BY DEF LifecycleState, Offered
<1>2. {transfer[x].recipient : x \in PendingTransfers({v})}' =
      {transfer[x].recipient : x \in PendingTransfers({v})}
  OBVIOUS
<1>3. OfferedTo(v)' = OfferedTo(v)
  BY <1>2 DEF OfferedTo, TheOne
<1>4. PassOf(v)' = PassOf(v)
  BY DEF PassOf
<1> QED BY <1>1, <1>3, <1>4

\* A step that leaves the rows is a stutter.
LEMMA StayImplements ==
    ASSUME TicketingInv, RowsStay
    PROVE  UNCHANGED Lifecycle!vars
<1>1. ASSUME NEW v \in Ticket
      PROVE  /\ PendingTransfers({v})' = PendingTransfers({v})
             /\ ActiveKeys({v})' = ActiveKeys({v})
             /\ \A x \in PendingTransfers({v}) : transfer'[x].recipient = transfer[x].recipient
  BY DEF RowsStay, PendingTransfers, ActiveKeys
<1>2. Revoked' = Revoked
  BY DEF RowsStay, Revoked
<1> QED BY <1>1, <1>2, SameTicket, AbstractStutter DEF RowsStay

\* Creating tickets.
LEMMA IssueImplements ==
    ASSUME TicketingInv, NEW u \in User, NEW new \in SUBSET Ticket,
           NEW code \in [new -> Key], TicketsMade(u, new, code)
    PROVE  Lifecycle!Next
<1>1. ASSUME NEW t \in new
      PROVE  /\ LifecycleState(t) = "unissued" /\ code[t] \notin Revoked
             /\ \A v \in Ticket : PassOf(v) # code[t]
  <2>1. /\ ticket[t].status = "UNUSED" /\ code[t] \in Key
        /\ cred[code[t]].status = "UNUSED"
    BY DEF TicketsMade
  <2>2. ASSUME NEW v \in Ticket PROVE PassOf(v) # code[t]
    <3>1. PassOf(v) = None \/ PassOf(v) \in ActiveKeys({v})
      BY PassExists
    <3>2. code[t] # None /\ code[t] \notin ActiveKeys({v})
      BY <2>1, ConstantsAssumption DEF ActiveKeys, Row
    <3> QED BY <3>1, <3>2
  <2>3. LifecycleState(t) = "unissued"
    BY <2>1 DEF LifecycleState, Offered
  <2> QED BY <2>1, <2>2, <2>3 DEF Revoked
<1>2. ASSUME NEW v \in Ticket \ new
      PROVE  /\ ticket'[v] = ticket[v]
             /\ LifecycleState(v)' = LifecycleState(v)
             /\ OfferedTo(v)' = OfferedTo(v)
             /\ PassOf(v)' = PassOf(v)
  <2>1. /\ ticket'[v] = ticket[v] /\ ActiveKeys({v})' = ActiveKeys({v})
        /\ transfer' = transfer
    BY DEF TicketsMade
  <2>2. PendingTransfers({v})' = PendingTransfers({v})
    BY <2>1 DEF PendingTransfers
  <2> QED BY <2>1, <2>2, SameTicket
<1>3. ASSUME NEW v \in new
      PROVE  /\ ticket'[v].owner = u
             /\ LifecycleState(v)' = "valid"
             /\ OfferedTo(v)' = OfferedTo(v)
             /\ PassOf(v)' = code[v]
  <2>1. /\ ticket'[v] = [owner |-> u, status |-> "ACTIVE"]
        /\ ActiveKeys({v})' = {code[v]} /\ transfer' = transfer
    BY DEF TicketsMade
  <2>2. ticket'[v].owner = u /\ ticket'[v].status = "ACTIVE"
    BY <2>1
  <2>3. LifecycleState(v)' = "valid"
    BY <2>2 DEF LifecycleState, Offered
  <2>4. OfferedTo(v)' = OfferedTo(v)
    BY <2>1 DEF OfferedTo, PendingTransfers, TheOne
  <2>5. TheOne({code[v]}) = code[v]
    BY TheOnly
  <2>6. PassOf(v)' = code[v]
    BY <2>1, <2>5 DEF PassOf
  <2> QED BY <2>2, <2>3, <2>4, <2>6
<1>4. Revoked' = Revoked
  <2>1. ASSUME NEW k \in Key
        PROVE  cred'[k].status = "REVOKED" <=> cred[k].status = "REVOKED"
    <3>1. CASE \E t \in new : code[t] = k
      <4>1. PICK t \in new : code[t] = k
        BY <3>1
      <4>2. cred'[code[t]] = [status |-> "ACTIVE", holder |-> u, ticket |-> t]
            /\ cred[code[t]].status = "UNUSED"
        BY DEF TicketsMade
      <4> QED BY <4>1, <4>2
    <3>2. CASE \A t \in new : code[t] # k
      BY <3>2 DEF TicketsMade
    <3> QED BY <3>1, <3>2
  <2> QED BY <2>1 DEF Revoked
<1>5. \A t, v \in new : code[t] = code[v] => t = v
  BY DEF TicketsMade
<1> QED BY <1>1, <1>2, <1>3, <1>4, <1>5, AbstractIssue

\* Making an offer.
LEMMA OfferImplements ==
    ASSUME TicketingInv, NEW t \in Ticket, NEW x \in Transfer, NEW u \in User,
           OfferMade(t, x, u)
    PROVE  Lifecycle!Next
<1>1. ticket \in [Ticket -> [owner : User \cup {None}, status : {"UNUSED"} \cup Statuses]]
  BY InvParts DEF TableTypeOK
<1>2. LifecycleState(t) = "valid"
  BY DEF OfferMade, LifecycleState, Offered
<1>3. Revoked' = Revoked /\ \A v \in Ticket : ActiveKeys({v})' = ActiveKeys({v})
  BY DEF OfferMade, Revoked, ActiveKeys
<1>4. ASSUME NEW v \in Ticket \ {t}
      PROVE  /\ ticket'[v] = ticket[v]
             /\ LifecycleState(v)' = LifecycleState(v)
             /\ OfferedTo(v)' = OfferedTo(v)
             /\ PassOf(v)' = PassOf(v)
  <2>1. ticket'[v] = ticket[v]
    BY <1>1 DEF OfferMade
  <2>2. /\ PendingTransfers({v})' = PendingTransfers({v})
        /\ \A y \in PendingTransfers({v}) : transfer'[y].recipient = transfer[y].recipient
    BY <1>4 DEF OfferMade, PendingTransfers
  <2> QED BY <1>3, <2>1, <2>2, SameTicket
<1>5. ticket'[t].owner = ticket[t].owner /\ LifecycleState(t)' = "offered"
  <2>1. ticket'[t] = [ticket[t] EXCEPT !.status = "TRANSFER_PENDING"]
    BY <1>1 DEF OfferMade
  <2>2. ticket'[t].status = "TRANSFER_PENDING" /\ ticket'[t].owner = ticket[t].owner
    BY <1>1, <2>1
  <2> QED BY <2>2 DEF LifecycleState, Offered
<1>6. OfferedTo(t)' = u
  <2>1. PendingTransfers({t})' = {x}
    BY DEF OfferMade, PendingTransfers
  <2>2. {transfer[y].recipient : y \in PendingTransfers({t})}' = {u}
    BY <2>1 DEF OfferMade
  <2> QED BY <2>2, TheOnly DEF OfferedTo, TheOne
<1>7. PassOf(t)' = PassOf(t)
  BY <1>3 DEF PassOf
<1> QED BY <1>2, <1>3, <1>4, <1>5, <1>6, <1>7, AbstractOffer DEF OfferMade

\* Rejecting, withdrawing or expiring it.
LEMMA EndImplements ==
    ASSUME TicketingInv, NEW t \in Ticket, NEW x \in Transfer, OfferEnds(t, x)
    PROVE  Lifecycle!Next
<1>1. /\ ticket \in [Ticket -> [owner : User \cup {None}, status : {"UNUSED"} \cup Statuses]] /\ OffersConsistent
  BY InvParts DEF TableTypeOK, TablesOK
<1>2. LifecycleState(t) = "offered"
  BY DEF OfferEnds, LifecycleState, Offered
<1>3. Revoked' = Revoked /\ \A v \in Ticket : ActiveKeys({v})' = ActiveKeys({v})
  BY DEF OfferEnds, Revoked, ActiveKeys
<1>4. ASSUME NEW v \in Ticket \ {t}
      PROVE  /\ ticket'[v] = ticket[v]
             /\ LifecycleState(v)' = LifecycleState(v)
             /\ OfferedTo(v)' = OfferedTo(v)
             /\ PassOf(v)' = PassOf(v)
  <2>1. ticket'[v] = ticket[v]
    BY <1>1 DEF OfferEnds
  <2>2. /\ PendingTransfers({v})' = PendingTransfers({v})
        /\ \A y \in PendingTransfers({v}) : transfer'[y].recipient = transfer[y].recipient
    BY <1>4 DEF OfferEnds, PendingTransfers
  <2> QED BY <1>3, <2>1, <2>2, SameTicket
<1>5. ticket'[t].owner = ticket[t].owner /\ LifecycleState(t)' = "valid"
  <2>1. ticket'[t] = [ticket[t] EXCEPT !.status = "ACTIVE"]
    BY <1>1 DEF OfferEnds
  <2>2. ticket'[t].status = "ACTIVE" /\ ticket'[t].owner = ticket[t].owner
    BY <1>1, <2>1
  <2> QED BY <2>2 DEF LifecycleState, Offered
<1>6. OfferedTo(t)' = None
  <2>1. PendingTransfers({t}) = {x}
    <3>1. x \in PendingTransfers({t})
      BY DEF OfferEnds
    <3> QED BY <1>1, <3>1 DEF OffersConsistent
  <2>2. PendingTransfers({t})' = {}
    BY <2>1 DEF OfferEnds, PendingTransfers
  <2>3. {transfer[y].recipient : y \in PendingTransfers({t})}' = {}
    BY <2>2
  <2> QED BY <2>3, TheNone DEF OfferedTo, TheOne
<1>7. PassOf(t)' = PassOf(t)
  BY <1>3 DEF PassOf
<1> QED BY <1>2, <1>3, <1>4, <1>5, <1>6, <1>7, AbstractTakeBack

\* Accepting it.
LEMMA TakeImplements ==
    ASSUME TicketingInv, NEW t \in Ticket, NEW x \in Transfer, NEW new \in Key,
           OfferTaken(t, x, new)
    PROVE  Lifecycle!Next
<1>1. /\ ticket \in [Ticket -> [owner : User \cup {None}, status : {"UNUSED"} \cup Statuses]]
      /\ \A y \in Transfer \ {x} : transfer'[y] = transfer[y]
      /\ transfer'[x].status = "ACCEPTED"
      /\ OffersConsistent /\ cred \in [Key -> [status : {"UNUSED", "ACTIVE", "REVOKED"},
                                               ticket : Ticket \cup {None},
                                               holder : User \cup {None}]]
  BY InvParts DEF OfferTaken, TableTypeOK, TablesOK
<1>2. LifecycleState(t) = "offered" /\ x \in PendingTransfers({t})
      /\ cred[new].status = "UNUSED" /\ PassOf(t) \in ActiveKeys({t})
  BY PassExists DEF OfferTaken, LifecycleState, Offered, LiveStatuses
<1>3. new \notin Revoked /\ \A v \in Ticket : PassOf(v) # new
  <2>1. ASSUME NEW v \in Ticket PROVE PassOf(v) # new
    <3>1. PassOf(v) = None \/ PassOf(v) \in ActiveKeys({v})
      BY PassExists
    <3>2. new # None /\ new \notin ActiveKeys({v})
      BY <1>2, ConstantsAssumption DEF ActiveKeys, Row
    <3> QED BY <3>1, <3>2
  <2> QED BY <1>2, <2>1 DEF Revoked
<1>4. /\ cred'[new].status = "ACTIVE" /\ cred'[new].ticket = t
      /\ \A k \in Key \ {new} : cred'[k].ticket = cred[k].ticket
      /\ \A k \in Key \ {new} :
            cred'[k].status = IF k \in ActiveKeys({t}) THEN "REVOKED" ELSE cred[k].status
  BY <1>1 DEF OfferTaken
<1>5. ASSUME NEW v \in Ticket \ {t}
      PROVE  /\ ticket'[v] = ticket[v]
             /\ LifecycleState(v)' = LifecycleState(v)
             /\ OfferedTo(v)' = OfferedTo(v)
             /\ PassOf(v)' = PassOf(v)
  <2>1. ticket'[v] = ticket[v]
    BY <1>1 DEF OfferTaken
  <2>2. /\ PendingTransfers({v})' = PendingTransfers({v})
        /\ \A y \in PendingTransfers({v}) : transfer'[y].recipient = transfer[y].recipient
    BY <1>1, <1>2 DEF PendingTransfers
  <2>3. ActiveKeys({v})' = ActiveKeys({v})
    BY <1>2, <1>4 DEF ActiveKeys
  <2> QED BY <2>1, <2>2, <2>3, SameTicket
<1>6. ticket'[t].owner = OfferedTo(t) /\ LifecycleState(t)' = "valid"
  <2>1. ticket'[t] = [owner |-> transfer[x].recipient, status |-> "ACTIVE"]
    BY <1>1 DEF OfferTaken
  <2>2. OfferedTo(t) = transfer[x].recipient
    BY <1>2, Chosen
  <2> QED BY <2>1, <2>2 DEF LifecycleState, Offered
<1>7. OfferedTo(t)' = None
  <2>1. PendingTransfers({t}) = {x}
    <3>1. OffersConsistent /\ x \in PendingTransfers({t})
      BY <1>1, <1>2
    <3> QED BY <3>1 DEF OffersConsistent
  <2>2. PendingTransfers({t})' = {}
    BY <1>1, <2>1 DEF PendingTransfers
  <2>3. {transfer[y].recipient : y \in PendingTransfers({t})}' = {}
    BY <2>2
  <2> QED BY <2>3, TheNone DEF OfferedTo, TheOne
<1>8. PassOf(t)' = new
  <2>1. ActiveKeys({t})' = {new}
    BY <1>4 DEF ActiveKeys
  <2>2. TheOne({new}) = new
    BY TheOnly
  <2> QED BY <2>1, <2>2 DEF PassOf
<1>9. Revoked' = Revoked \cup {PassOf(t)}
  <2>1. ActiveKeys({t}) = {PassOf(t)} /\ ActiveKeys({t}) \subseteq Key
    BY <1>2, Chosen DEF ActiveKeys
  <2>2. ASSUME NEW k \in Key
        PROVE  cred'[k].status = "REVOKED" <=>
                   cred[k].status = "REVOKED" \/ k \in ActiveKeys({t})
    BY <1>2, <1>4 DEF ActiveKeys
  <2> QED BY <2>1, <2>2 DEF Revoked
<1> QED BY <1>2, <1>3, <1>5, <1>6, <1>7, <1>8, <1>9, AbstractHandOver

\* Checking in.
LEMMA AdmitImplements ==
    ASSUME TicketingInv, NEW s \in Request, NEW t \in Ticket, Admits(s, t)
    PROVE  Lifecycle!Next
<1>1. ticket \in [Ticket -> [owner : User \cup {None}, status : {"UNUSED"} \cup Statuses]]
  BY InvParts DEF TableTypeOK
<1>2. LifecycleState(t) = "valid" /\ PassOf(t) # None
  BY PassExists DEF Admits, LifecycleState, Offered, LiveStatuses
<1>3. /\ Revoked' = Revoked
      /\ \A v \in Ticket : /\ ActiveKeys({v})' = ActiveKeys({v})
                           /\ PendingTransfers({v})' = PendingTransfers({v})
  BY DEF Admits, Revoked, ActiveKeys, PendingTransfers
<1>4. ASSUME NEW v \in Ticket
      PROVE  OfferedTo(v)' = OfferedTo(v) /\ PassOf(v)' = PassOf(v)
  <2>1. {transfer[y].recipient : y \in PendingTransfers({v})}' =
        {transfer[y].recipient : y \in PendingTransfers({v})}
    BY <1>3 DEF Admits
  <2> QED BY <1>3, <2>1 DEF OfferedTo, PassOf
<1>5. ASSUME NEW v \in Ticket \ {t}
      PROVE  ticket'[v] = ticket[v] /\ LifecycleState(v)' = LifecycleState(v)
  BY <1>1 DEF Admits, LifecycleState, Offered
<1>6. ticket'[t].owner = ticket[t].owner /\ LifecycleState(t)' = "used"
  <2>1. ticket'[t] = [ticket[t] EXCEPT !.status = "USED"]
    BY <1>1 DEF Admits
  <2>2. ticket'[t].status = "USED" /\ ticket'[t].owner = ticket[t].owner
    BY <1>1, <2>1
  <2> QED BY <2>2 DEF LifecycleState, Offered
<1> QED BY <1>2, <1>3, <1>4, <1>5, <1>6, AbstractAdmit

\* Cancelling a ticket or an event.
LEMMA VoidImplements ==
    ASSUME TicketingInv, StatusesUsed, NEW T \in SUBSET Ticket, Voids(T)
    PROVE  Lifecycle!Next
<1>1. ticket \in [Ticket -> [owner : User \cup {None}, status : {"UNUSED"} \cup Statuses]] /\ TableTypeOK
  BY InvParts DEF TableTypeOK
<1>2. ASSUME NEW v \in Ticket
      PROVE  /\ ticket'[v].owner = ticket[v].owner
             /\ ticket'[v].status = IF v \in LiveTickets(T) THEN "CANCELLED"
                                    ELSE ticket[v].status
  BY <1>1 DEF Voids
<1>3. /\ \A x \in Transfer : /\ transfer'[x].ticket = transfer[x].ticket
                             /\ transfer'[x].recipient = transfer[x].recipient
                             /\ transfer'[x].status = IF x \in PendingTransfers(T)
                                                      THEN "CANCELLED" ELSE transfer[x].status
      /\ \A k \in Key : /\ cred'[k].ticket = cred[k].ticket
                        /\ cred'[k].status = IF k \in ActiveKeys(T)
                                             THEN "REVOKED" ELSE cred[k].status
  BY <1>1 DEF Voids, VoidRows, TableTypeOK
<1>4. ASSUME NEW v \in Ticket \ T
      PROVE  /\ LifecycleState(v)' = LifecycleState(v)
             /\ OfferedTo(v)' = OfferedTo(v)
             /\ PassOf(v)' = PassOf(v)
  <2>1. ticket'[v].status = ticket[v].status
    BY <1>2, <1>4 DEF LiveTickets
  <2>2. /\ PendingTransfers({v})' = PendingTransfers({v})
        /\ \A x \in PendingTransfers({v}) : transfer'[x].recipient = transfer[x].recipient
    BY <1>3, <1>4 DEF PendingTransfers
  <2>3. ActiveKeys({v})' = ActiveKeys({v})
    BY <1>3, <1>4 DEF ActiveKeys
  <2> QED BY <2>1, <2>2, <2>3, SameTicket
<1>5. ASSUME NEW v \in T
      PROVE  /\ LifecycleState(v)' = IF LifecycleState(v) \in {"valid", "offered"}
                                     THEN "void" ELSE LifecycleState(v)
             /\ OfferedTo(v)' = None
             /\ PassOf(v)' = None
  <2>1. LifecycleState(v)' = IF LifecycleState(v) \in {"valid", "offered"}
                             THEN "void" ELSE LifecycleState(v)
    BY <1>2, <1>5 DEF StatusesUsed, LiveTickets, LiveStatuses, LifecycleState, Offered
  <2>2. PendingTransfers({v})' = {} /\ ActiveKeys({v})' = {}
    BY <1>3, <1>5 DEF PendingTransfers, ActiveKeys
  <2>3. {transfer[y].recipient : y \in PendingTransfers({v})}' = {}
    BY <2>2
  <2> QED BY <2>1, <2>2, <2>3, TheNone DEF OfferedTo, PassOf
<1>6. Revoked' = Revoked \cup {PassOf(v) : v \in {w \in T : PassOf(w) # None}}
  <2>1. ASSUME NEW k
        PROVE  k \in ActiveKeys(T) <=> \E v \in T : PassOf(v) # None /\ k = PassOf(v)
    <3>1. ASSUME k \in ActiveKeys(T)
          PROVE  \E v \in T : PassOf(v) # None /\ k = PassOf(v)
      <4>1. cred[k].ticket \in T /\ k \in ActiveKeys({cred[k].ticket})
        BY <3>1 DEF ActiveKeys
      <4> QED BY <4>1, Chosen, PassExists
    <3>2. ASSUME NEW v \in T, PassOf(v) # None, k = PassOf(v) PROVE k \in ActiveKeys(T)
      <4>1. k \in ActiveKeys({v})
        BY <3>2, PassExists
      <4> QED BY <4>1 DEF ActiveKeys
    <3> QED BY <3>1, <3>2
  <2>2. ActiveKeys(T) = {PassOf(v) : v \in {w \in T : PassOf(w) # None}}
    BY <2>1
  <2>3. Revoked' = Revoked \cup ActiveKeys(T)
    BY <1>3 DEF Revoked, ActiveKeys
  <2> QED BY <2>2, <2>3
<1> QED BY <1>2, <1>4, <1>5, <1>6, AbstractVoid

\* There is no ticket, no offer and no pass at first.
LEMMA InitImplements == Init => Lifecycle!Init /\ StatusesUsed
<1> SUFFICES ASSUME Init PROVE Lifecycle!Init /\ StatusesUsed
  OBVIOUS
<1>1. \A t \in Ticket : ticket[t].owner = None /\ ticket[t].status = "UNUSED"
  BY DEF Init
<1>2. ASSUME NEW t \in Ticket
      PROVE  LifecycleState(t) = "unissued" /\ OfferedTo(t) = None /\ PassOf(t) = None
  <2>1. PendingTransfers({t}) = {} /\ ActiveKeys({t}) = {}
    BY DEF Init, PendingTransfers, ActiveKeys
  <2>2. {transfer[y].recipient : y \in PendingTransfers({t})} = {}
    BY <2>1
  <2>3. LifecycleState(t) = "unissued"
    BY <1>1 DEF LifecycleState, Offered
  <2> QED BY <2>1, <2>2, <2>3, TheNone DEF OfferedTo, PassOf
<1>3. Revoked = {}
  BY DEF Init, Revoked
<1>4. Lifecycle!Init
  BY <1>1, <1>2, <1>3 DEF Lifecycle!Init, OfferedTo, PassOf, Revoked
<1> QED BY <1>1, <1>4 DEF StatusesUsed

\* Every step maps to a step of TicketLifecycle or to a stutter.
LEMMA NextImplements ==
    ASSUME TicketingInv, StatusesUsed, [Next]_vars
    PROVE  [Lifecycle!Next]_(Lifecycle!vars) /\ StatusesUsed'
<1>1. RowStep
  BY RowSteps
<1>2. StatusesUsed'
  BY <1>1, StatusesKept
<1>3. Lifecycle!Next \/ UNCHANGED Lifecycle!vars
  BY <1>1, StayImplements, IssueImplements, OfferImplements, EndImplements, TakeImplements,
     AdmitImplements, VoidImplements DEF RowStep
<1> QED BY <1>2, <1>3

\* The tables under concurrent transactions keep the promise of
\* TicketLifecycle.
THEOREM LifecycleIsImplemented == Spec => ImplementsLifecycle
<1>1. Init => Lifecycle!Init /\ StatusesUsed
  BY InitImplements
<1>2. TicketingInv /\ StatusesUsed /\ [Next]_vars
          => [Lifecycle!Next]_(Lifecycle!vars) /\ StatusesUsed'
  BY NextImplements
<1> QED BY <1>1, <1>2, InvariantHolds, PTL DEF Spec, ImplementsLifecycle, Lifecycle!Spec

=============================================================================
