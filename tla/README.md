# TicketGuard in TLA+

A verification project for TicketGuard: the backend that sells event tickets,
transfers them between users and checks them in (`src/backend`), and the web
app in front of it (`src/frontend`). It holds TLA+ modules of the system's own
logic, the configurations with which TLC checks them on small instances, and
TLAPS proofs for every instance.

## 1. The system

The backend is one Express process (several can run side by side) over
PostgreSQL, through Prisma, with Redis for rate limits and a BullMQ queue.
Everything that matters is a row of PostgreSQL; the process keeps no state
between requests. So what can go wrong is what concurrent transactions do to
each other. Prisma's interactive transactions run at READ COMMITTED: each
statement sees what was committed when the statement started, a row lock
(`SELECT ... FOR UPDATE`, or the `UPDATE` of the row) is held until commit, and
nothing else is protected.

| Part | Source (`src/backend/src/`) | State | Operations |
| --- | --- | --- | --- |
| Ticket states | `modules/tickets/ticket-state*.ts` | `tickets.status` | the transition table, a guarded update |
| Codes | `modules/tickets/ticket-credential.service.ts` | `ticket_credentials` | create, revoke and create, parse |
| Transfers | `modules/transfers` | `transfers`, `tickets` | create, accept, reject, cancel, expire |
| Verification | `modules/verification` | `tickets`, audit log | verify (check-in) |
| Cancellation, scanners | `modules/tickets/ticket.service.ts`, `modules/events` | `tickets`, codes, transfers, `scanner_assignments` | cancel a ticket or an event, assign and remove scanners |
| Expiry worker | `infrastructure/queue` | BullMQ job | expirePending every minute, two runs at a time |
| Events and ticket types | `modules/events` | `events`, `ticket_types` | create, update, publish, cancel, configure types |
| Issue and inventory | `modules/tickets/ticket.service.ts` | `ticket_types.sold_count`, `tickets` | issue |
| Orders and payment | `modules/orders` | `orders`, `payments` | checkout, pay |
| Sessions | `modules/auth`, `modules/admin` | `users`, `refresh_tokens` | register, login, refresh, logout, change password, suspend, reactivate |
| Idempotency | `middleware/idempotency.ts`, `error-handler.ts`, the cleanup job | `idempotency_keys` | claim, replay, take over, finalize, clean up |
| Notifications | `modules/notifications`, `infrastructure/websocket`, `src/frontend/src/lib/useNotifications.ts`, `socket.ts` | `notifications`, rooms and sockets, the page's list | create in the transaction, emit after it, connect, fetch, show, mark read |
| API client | `src/frontend/src/lib/api.ts`, `lib/auth.tsx` | cookie, `localStorage`, who each tab shows, one refresh under way per tab | restore the session, send, refresh after 401 and repeat, sign in and out |
| Scanner page | `src/frontend/src/pages/Scanner.tsx` | camera, verification under way | start, stop, scan, verify |
| Organizer page | `src/frontend/src/pages/Organizer.tsx` | the lists shown, a dialog, two busy flags | load, create, publish, cancel, add a ticket type, assign and remove scanners, issue |
| The rest | validation, rate limits, audit log, controllers, health, configuration, other pages | | see section 8 |

How they interact. Tickets, codes, transfers, event cancellation, check-in and
the worker all write the same three tables, and take the locks in different
orders: `verify` locks code then ticket; `accept`, `finish` and the worker
transfer then ticket, `accept` then the code; `TicketService.cancel` ticket,
code, transfer; `EventService.cancel` event, tickets, codes, transfers.
PostgreSQL resolves the deadlocks this allows by killing one of the
transactions. Issue, payment and configuration share the event's row as their
lock and the ticket type's row as the stock. Idempotency wraps every mutating
route in statements of its own, outside the route's transaction. Sessions guard
all of it. The notifications of a transaction are rows written in it; the
socket events are sent after the commit. In the browser, the tabs share the
cookie with the refresh token and `localStorage`, and nothing else: each has its
own promise of a refresh, its own socket and its own lists.

What is hard here, and where: the full list is `hazards` in `PROJECT.json`. In
short: lost races for one row (check-in, acceptance, last unit of a type);
values read without a lock and acted on later (the worker's candidates, the
event's status in `verify`, an order's status in `pay`, a user's status in
`refresh`, an event's status at the checkout); updates of many rows that do not see rows committed meanwhile;
errors thrown inside a transaction that roll back what they report; a process
that dies between a commit and the statement that remembers it; answers that
arrive in another order than their requests were handled, or not at all, at a
page that has moved on.

What must be true of each component is stated as the properties listed in
section 4.

## 2. Modules

| Module | What it is |
| --- | --- |
| `TicketStates` | The ticket statuses and the transition table. |
| `TicketLifecycle` | Abstract specification: what a ticket holder is promised, without rows, transfers, locks or transactions. |
| `Ticketing` | Tickets and how they come to be, codes, transfers, check-in, cancellation, scanner assignments and the expiry worker, as concurrent transactions. |
| `TicketingProperties` | Its properties, inductive invariant, fairness, and the refinement mapping to `TicketLifecycle`. |
| `TicketingProofs` | TLAPS proofs about `Ticketing`: the invariants, the action properties and the refinement. |
| `BoxOffice` | Abstract specification: what organizers and buyers are promised, as if one clerk did one thing after the other. |
| `Sales`, `SalesProofs` | Events, ticket types, issue, orders and payment, as concurrent transactions, with the refinement mapping to `BoxOffice`; TLAPS proofs. |
| `TokenFamilies` | Abstract specification of refresh-token rotation. |
| `Sessions`, `SessionsProofs` | Accounts and refresh tokens, with the refinement mapping to `TokenFamilies`; TLAPS proofs. |
| `ApiClient`, `ApiClientProofs` | The tabs of one browser over `TokenFamilies`, which is their server (`INSTANCE`); TLAPS proofs. |
| `Idempotency`, `IdempotencyProofs` | The idempotency middleware, its finalizer and cleanup job; TLAPS proofs. |
| `Notifications`, `NotificationsProofs` | Notifications from their transaction to the list of a tab; TLAPS proofs. |
| `ScannerPage`, `ScannerPageProofs` | The page at the entrance, its camera and its verifications; TLAPS proofs. |
| `OrganizerPage`, `OrganizerPageProofs` | The organizer's workspace over the rows it shows; TLAPS proofs. |
| `MCTicketing`, `MCSales`, `MCSessions`, `MCIdempotency`, `MCScannerPage`, `MCOrganizerPage`, `MCNotifications`, `MCApiClient` | Instances for TLC, with their `.cfg` files. |

A definition whose comment starts with "Mutant" is not part of the model: it is
a plausible bug in the definition that follows it, with which TLC is made to
violate a property, to show that the property can fail.

### How code becomes actions

`Ticketing`, `Sales` and `Sessions` use one scheme.

- **A transaction is a sequence of steps, one per row lock it waits for.**
  `tx[s]` is what session `s` is doing and what it has read, `holds[s]` the
  rows it has locked. A lock step is enabled when no other session holds the
  row.
- **Checks are made in the step that reads.** The conditions after a
  `FOR UPDATE` read are conjuncts of the lock step. A value read without a
  lock and used later is kept in `tx[s]` (`seen`, `todo`).
- **Writes become visible in the last step, the commit.** A written row is
  locked until then, so no other transaction can tell.
- **A request that fails changes nothing.** If it fails before it has a lock
  it is not a step at all. Later it is `Rollback`, which stands for a thrown
  `AppError`, the deadlock victim, Prisma's five-second limit on interactive
  transactions, a lost connection and a crash alike. It is always enabled, so
  every check that may throw may do so.
- **An UPDATE of many rows** (`updateMany`) works on the rows its statement
  finds: `RowsLeft` in `Ticketing` locks them one by one and rechecks each,
  `todo` in `Sessions` is the snapshot it started with.
- **Time** is three kinds of step: a transfer, order or token becomes `due`, an
  event's clock moves, a row becomes `stale`. They can happen at any moment.

What each module leaves out:

- `Ticketing`: the stock, the orders and the money (in `Sales`), whether the
  recipient's account is active, and the notifications. At first no row of
  `tickets` exists. `issue` (`IssueLock`) finds the event published and `pay`
  (`BuyLock`) does not ask; both then create any number of tickets, each
  `ACTIVE` with a code of its own (`CreateTickets`). `late` is the history of
  the tickets that a payment creates when their event is cancelled. `holder` of
  a code and
  `entries`, the number of `TICKET_USED` rows, are what the audit log and the
  people at the door know; no operation reads them. `accept` of a transfer past
  its expiry calls `expireLockedTransfer` and throws in the same transaction,
  so it changes nothing.
- `Sales`: `sold` stands for `sold_count` and for the number of ticket rows of
  the type, which are written together. Prices, currencies and whose request it
  is are left out. The sums the code makes of quantities and sales are numbers
  of (type, unit) pairs here, which needs no recursion. The one payment
  provider never declines, so the branch for a declined charge is not there.
  `pay` is modelled statement by statement outside its transaction too: the
  first read, the unconditional `EXPIRED`, the charge, the second read without
  a lock, the locks, the commit. When the stock is gone, the `FAILED` statuses
  are written and rolled back by the error, which is `Rollback`. `checkout`
  reserves nothing and is one step.
- `Sessions`: hashes and JWTs; a token is a row. `refresh` joins the account in
  the statement that waits for the token, so it knows the account's status as
  of the start of its wait (`seen`). `login` issues its session outside a
  transaction, after the password was verified.
- `Idempotency` has no transactions of more than one statement: every statement
  is a step. `Handle` is the route's own transaction; it commits, is refused
  (4xx), or fails (5xx), and a failure may hide a commit whose confirmation was
  lost. The finalizer runs after the answer to a success and before the answer
  to an error, and may fail in both. An attempt is one HTTP request. `done`
  and `lost` (claims that were taken over or whose row was deleted) are
  history.
- `ScannerPage` is one visit to the page, in one thread: a step runs from one
  `await` to the next, and clicks, decoded frames, answers and leaving the page
  come in between. `page` is React's state and `drawn` what was last rendered,
  which is what the buttons go by; a click renders at once. A call of
  `startCamera` and the `Html5Qrcode` object it makes are one id; `stopCamera`
  is `LetGo` up to its `await` and `Closed` after it, for each of its callers
  (`closer`). Outside the code: `stop()` of a camera that does not run yet
  throws and `start()` goes on; an answer that is not an error is `VALID`.
  `last` and `early` are history. Left out: the credential, and what the
  library's `clear()` removes from the page.
- `OrganizerPage` is one visit too, with the rows of the organizer's events as
  the server. Every function of the page (`call`) sends one request and, when
  it is accepted, runs `load`: the list, shown when it was read, then the
  scanners of the events listed, shown together. `busy` guards the form for new
  events, `actionId` everything else and the first load of the visit neither,
  so loads can overlap and an older one be shown last (`raced`). A request
  without an answer may be handled late, and every click has a fresh
  `Idempotency-Key`. A load that fails after a success reports the success as a
  failure (`missed`). The list is the first events by their start, as many as
  the query takes (`Limit`, 100 in `listMine`): which of several that begin
  together come first is any choice (`AreFirst`). `Scanner` is the answer of
  `/users/scanners`, the first 100 active scanners by name, and does not change
  in a visit. The rows at the beginning of the visit are the parameter
  `Already`. Left out: a second tab, texts, forms the page itself refuses, and
  changes of the scanners' accounts.
- `Notifications` is one tab. A tab that is loaded without a token has no
  listeners until it is loaded again; it asks for its list all the same, and if
  the browser has a cookie the 401 is answered by a refresh (`Refreshed`), for
  the account of the cookie, whichever that is; a tab that signs out and in has a new
  socket without listeners and its old list. The answer of the one fetch
  replaces what events brought meanwhile; a reconnection brings no second fetch.
  `stranded` and `lost` are history. A socket is authenticated at its handshake,
  so a suspended account's stays in its room, which needs no action. Left out:
  the limit of 50 rows, React's StrictMode, and any other refresh and retry of
  a request (in `ApiClient`). No page calls `markRead`, so `Read` happens
  elsewhere.
- `ApiClient` has tabs that share a cookie and `localStorage`. A refresh token
  has a name, an access token has none: any request that carries one may be
  answered 401. The browser takes the cookie of an answer before the tab's code
  runs (`StoreCookie`, `Refreshed`). A 401 of `login` or of the refresh itself
  is an error like any other. `Load` cuts a tab's requests off; what reaches
  the server after that is `EndedElsewhere`. `spender` is history.

### The abstract specifications

`TicketLifecycle`: a ticket is issued to an owner, with a pass; it is offered,
handed over with a pass never seen before, taken back, used once, or voided.
`Ticketing` implements it: the owner and status of a row, the recipient of its
pending transfer, its active code and the revoked codes are the abstract state,
every commit is one abstract step (the cancellation of an event, which takes
its tickets, codes and transfers one row at a time, included) and every other
step is a stutter.

`TokenFamilies`: a sign-in opens a family with one token, which can be
exchanged for a fresh one, once, or given up. `Sessions` implements it.

`BoxOffice`: a clerk announces an event, resizes and configures it while it is a
draft, opens it when something is for sale, hands out tickets of the stock there
is, and closes it; an order is placed for what is for sale, charged, and filled
from the stock if a charge of it has bought nothing yet. Each of these is one
step with its conditions. `Sales` implements it: the clerk sees the rows without
what times do to them (`ended`, `due`) and without an order's status, a commit
is a step of the clerk, and so are `CreateEvent`, `Checkout` and the charge.
That is where the waits matter: an organizer's request checks what it reads when
it gets the event's lock, and the clerk checks again when it writes. What the
code does not keep `BoxOffice` does not promise: that an order is charged or
filled once, or not after its event was closed (section 3). The sum of
quantities is the operator `Total` of `Sales`, a parameter of `BoxOffice`.

## 3. Findings

Three runs check a claim of the repository and find it violated by the code.

| Run | Claim | What the code does |
| --- | --- | --- |
| `sessions_replay` | `src/README.md:140`, "reuse revokes the token family"; `auth-security.integration.test.ts:27` expects no active token | `refresh` throws inside the transaction in which it revoked the family; the revocation and the security event are rolled back. |
| `sessions_password` | `swagger.ts:57`, "Change password and revoke active refresh sessions" | A rotation that commits while the revocation waits for the token leaves its successor alive: the `UPDATE` does not see it. |
| `pay_twice` | `order.service.ts:90-91`, the second read is there to answer or refuse the second payment | The row called `locked` is not: two payments both read `PENDING`, the tickets are created twice. |

Two more claims have a property and a configuration, and are not among the
runs of `PROJECT.json`:

- `MCSalesCancelled.cfg`, `CancelledEventsSellNothing`: `ticket.service.ts:20`
  says "Tickets can only be issued for published events." `pay` never looks at
  the event's status, so an order made before the cancellation yields live
  tickets of a cancelled event. In `Ticketing` these are the tickets in `late`:
  they can be transferred, but `verify` refuses them, because it reads the
  event's status (`AdmissionIsCurrent`).
- `MCIdempotencyCrash.cfg`, `OneOperation`: `tests/concurrency/README.md:9` says
  "duplicate idempotency keys create one logical operation". An attempt that
  committed and has not stored its answer for five minutes, because it was held
  up or died, is run again.

What each of these claims but the first rests on is a theorem (section 5, "What
the refuted claims rest on").

The first finding and `ApiClient` belong together. Two tabs of one browser that
refresh at once present one token twice, as the client is written. That costs
the browser nothing, because the revocation of the family is rolled back; if
reuse did revoke the family, as documented, two tabs would sign the user out.
The mutant `RefuseAndRevoke` of `SessionSurvives` is that server.

Met while modelling, without a run: `pay` answers "Your payment was not
captured." (`order.service.ts:106`) after a successful charge; an order paid
while another request finds it expired ends as `EXPIRED` with its tickets
(`order.service.ts:73`); `tests/unit/event-rules.test.ts:12` calls `PUBLISHED`
to `CANCELLED` invalid where `EventService.cancel` allows it; a camera let go
of while it is being started (the page is left, or a typed-in ticket approved,
during `getCameras` or `start`) opens all the same, and nobody can stop it
(`Scanner.tsx:199`): `RunningCamerasAreHeld` shows that this is the only way a
camera escapes. A second tab whose refresh is refused fails its requests, and
if it is just being loaded it removes `tg_access` and `tg_user` for all tabs
(`auth.tsx:17`); a sign-out that overlaps a refresh lets the late answer put
the access token and a live cookie back (`api.ts:17`). An organizer whose
answer is lost and who clicks again makes a second event or issues a second
ticket, because each click has a new `Idempotency-Key`.

## 4. Runs

Distinct states are those TLC reports, with symmetry.

| Run | Instance | Checks | States |
| --- | --- | --- | --- |
| `ticketing_one` | 1 ticket, 3 users, 3 codes, 2 transfers, 2 requests, 1 worker run | all safety and action properties, the refinement | 1,106,000 |
| `ticketing_expiry` | 2 tickets, each with a transfer, 2 users, 3 codes, 1 request, 2 worker runs | `ExpiredOffersResolve` | 290,000 |
| `sales` | 1 event, 2 types, 2 orders, 2 requests, stock up to 2 | all safety and action properties, the refinement | 367,000 |
| `pay_twice` | 1 event, 1 type, 1 order, 2 requests | one refuted property | |
| `sessions` | 1 account, 3 tokens, 3 requests | safety, action property, the refinement | 621,000 |
| `sessions_replay`, `sessions_password` | the same with 2 requests | one refuted property each | |
| `idempotency` | 1 key, 2 payloads, 3 attempts | all safety and action properties | 189,000 |
| `scanner` | 3 starts of the camera, 2 verifications | safety, `PageIsFreed` | 161,000 |
| `organizer` | 2 events, a list with room for 1, up to 1 type and 1 ticket each, 1 scanner, 2 functions under way, 1 late request | safety, `NeverBackward`, `PageIsFreed` | 1,551,000 |
| `notifications` | 2 accounts, 2 notifications | safety, `RowsAreFetched` | 928,000 |
| `api_client` | 2 tabs, 2 requests, 2 refreshes, 2 tokens | safety, `RequestsEnd` | 588,000 |

`MCTicketingTwo.cfg` is a further instance, not one of the runs: 2 tickets, 2
users, 3 codes, 2 transfers and 2 requests (1,101,000 states), for
`CancelledEventIsDead` and the refinement. `sales` and `organizer` do not list
`TypeOK`, which is proved.

`ticketing_expiry` starts where the host holds both tickets and has offered them
to the guest (`AllOffered`), a state that `Init` leads to; a run of
the worker has then two candidates, and can be rolled back or die between them.

What the properties say:

- `OffersConsistent`: a ticket is `TRANSFER_PENDING` exactly while it has one
  pending transfer, from its owner to somebody else.
- `CredentialFollowsOwner`: of all codes issued for a ticket at most one is
  active and it was issued to the present owner. (`getOwned` can show it to the
  owner before: section 6.)
- `AdmitsOnce`, `AdmissionIsCurrent`: one entry per ticket, by the current
  owner's code, while the event is published; `verify` reads the event without
  a lock, and what saves it is that cancellation needs the ticket and the code.
- `CancelledEventIsDead`: when the cancellation of an event has committed,
  nothing of it is left to use, to accept or to present, whatever issue,
  payment, transfer or check-in was under way; but for what a payment creates
  after that (`late`), which is the finding of `MCSalesCancelled` above.
- `OwnershipMovesByAcceptance`, `NothingRevives`: what a step may do to owners,
  finished tickets, resolved transfers and revoked codes.
- `ExpiredOffersResolve`: an expired transfer does not keep its ticket locked
  for ever.
- `InventoryFits`, `NeverOversold`, `TicketsArePaid`, `TermsAreFrozen`: the
  organizer's configuration fits the event, nothing is sold twice, nobody gets
  tickets without a charge of the order, a published event's terms do not move.
  `TicketsArePaid` says nothing of a charge that buys nothing (its fulfilment
  fails and it is not refunded), nor of what the order's status says (an order
  paid while another request finds it expired ends as `EXPIRED`).
- `ImplementsLifecycle`, `ImplementsBoxOffice`, `ImplementsFamilies`: the
  refinements of section 2.
- `OneSuccessor`, `RevokedIsFinal`: a refresh token has one successor and one
  life.
- `OneClaim`, `ReplaysAreTrue`, `FreshRowsStay`: one attempt per key reaches the
  handler unless its claim was lost; a replay is the answer to the same
  request; only an expired row makes room for another.
- `OneVerification`, `ResultIsCurrent`: one verification at a time, whatever the
  camera and the buttons do, and what the page shows is the answer to the last.
  A lost answer is shown as a refusal, whatever the server decided.
- `RunningCamerasAreHeld`: a camera runs without the page holding it only if it
  was let go of before it had opened.
- `PageIsFreed` (in both pages): a busy page becomes usable again.
- `PageCatchesUp`, `NeverBackward`: at rest, after a load that ended well, the
  organizer's page shows the first events, as many as the list has room for,
  with the status, types and scanners they have. No step makes it show an
  earlier state, and an event leaves the list only when the list is full of
  others that begin no later. Both hold unless a click came while another
  function was under way, which the two flags do not always prevent.
- `DialogIsKept`: the dialog that an answer closes is the one whose request it
  answers.
- `ShownIsTrue`: no notification is shown of what did not happen, or as read
  when it is not.
- `OneAccount`: a list is never made of two accounts' notifications, unless
  somebody signed in over a session that had not signed out.
- `NothingElseIsMissed`, `RowsAreFetched`: these are all the ways in which a
  notification is missed, and the next load makes up for them.
- `SessionSurvives`: the browser's cookie is spent only while the answer that
  replaces it is under way, or when no answer could say so: no order of two
  tabs' refreshes, answers and refusals costs them the session.
- `RefusedByOthers`: a tab never presents a token it exchanged itself, whatever
  number of its requests gets a 401, and whenever.
- `RequestsEnd`: every request ends, those that wait for a refresh included.

### Bounds, and why they are enough

Ids (`Key`, `Transfer`, `Token`, `Order`, `Attempt`) are finite sets with
unused members; when none is left the operations that create rows are disabled.
Two transfers and three codes let a ticket change hands twice, or go back and
forth, which is what leaves a former owner with an old code. Two requests and a
worker run make every pair of operations race, and the worker's stale list a
third party. Two tickets are the least for which a cancellation is interrupted
half-way through a statement. `MaxUnits` = 2 makes both the last unit and a
purchase of two, split over two types, possible; two orders and the organizer's
issue compete for them. `MaxCharges` bounds the charges per order, and must be
at least 2 for the double payment. Three tokens make a chain in which the first
is replayed while the last lives; three requests let two refreshes and a
revocation meet at one token. `MaxPasswords` = 1: a second change repeats the
first. Two verifications are one under way and one that must wait; three starts
of the camera are one let go of early, one that fails and one that runs. Three
attempts are one that holds a claim and two that race to take it over or to
replace its expired row; keys do not interact, so one is enough. Three
functions of the organizer's page can overlap, the first load, the form for new
events and one of the rest; two of them are enough for one to overtake the
other. `MaxLate` = 1 is one request that is handled after the page gave it up.
One of the two events is cancelled with a ticket sold and on the list when the
visit begins; the other is created in it and, beginning earlier, takes the one
place there is. What else the page shows of an event depends on that event
alone, and the server's rules about several events are in `Sales`. Two notifications of two accounts make a list of one and
an event of the other, or an event that the fetch overwrites. Two tabs with one
refresh each are the race for the cookie; with two tokens the first is spent by
one tab and presented by the other, or a second session is opened over the
first.

`CHECK_DEADLOCK FALSE` in the instances of `Ticketing`, `Sales`, `Sessions`,
`Idempotency` and `ScannerPage`: those systems really stop, when every ticket is
used or void, every id is used, every attempt has ended, or the page was left.

Symmetry is used for requests and unused ids, never in the liveness run.

### Fairness

Five runs need it. In the browser a request is answered or its connection fails
and the code that awaits it goes on, which is weak fairness of the steps that
do this: `Advance(c)` for each function in `organizer`, `Fetch` in
`notifications`, `Proceed(c)` and `ProceedRefresh(r)` for each request in
`api_client`. In `scanner`, besides, a camera that is told to close does, and
the browser renders. Nobody has to click, and no event has to reach a socket.
`RowsAreFetched` is conditional on `LoadsCease`: a tab that is loaded again and
again never gets an answer. `ticketing_expiry` (`Fairness` in
`TicketingProperties`): an open transaction ends (weak fairness of `Rollback`:
Prisma ends it after five seconds); the worker is started again while there is
something to expire (weak fairness of `SweepBegin`: the job scheduler repeats
every minute); a run that could go on with one candidate or another again and
again does, and a lock it could have again and again is granted in the end
(strong fairness of "lock or skip some candidate" and of `SweepCommit`:
PostgreSQL's lock queue is first come, first served, and the scheduler's next
run asks again). Which candidate comes next is not assumed. None is assumed of
requests. The property is conditional on `RequestsCease`: with requests arriving
for ever, each may lock the transfer and time out, and no fairness of the code
prevents that.

## 5. What is proved

`TicketingProofs` proves for every set of users, events, tickets, codes,
transfers, requests and worker runs, under `ConstantsAssumption` only (ids of
different tables differ, scanners are users), first the invariants:

| Theorem | States |
| --- | --- |
| `InvariantHolds` | `Spec => []TicketingInv` |
| `TypeCorrect` | `Spec => []TypeOK` |
| `TransfersMatchTickets` | `Spec => []OffersConsistent` |
| `CodesFollowOwners` | `Spec => []CredentialFollowsOwner` |
| `OneAdmission` | `Spec => []AdmitsOnce` |
| `CancellationIsComplete` | `Spec => []CancelledEventIsDead` |

The argument. The four table invariants are not inductive: a commit acts on
what its transaction read some steps earlier. `TicketingInv` adds that a row is
locked by one session (`LocksExclusive`), that used rows refer to rows that
exist (`References`), and `Knows(s)`: what session `s` found in the rows it has
locked is still true of them. A step is then one of two kinds. A *quiet* step
only takes locks (`QuietStep`): the tables stay, and what the other sessions
know stays. A *commit* (`CommitStep`) writes only rows nobody else has locked,
so what the others know stays, and its own `Knows(s)` gives the table
invariants after it. There is one lemma per action, and one step per conjunct
the action can disturb.

and from `TicketingInv` what steps may do:

| Theorem | States |
| --- | --- |
| `OwnersMoveByAcceptance` | `Spec => OwnershipMovesByAcceptance` |
| `AdmissionsAreCurrent` | `Spec => AdmissionIsCurrent` |
| `NothingComesBack` | `Spec => NothingRevives` |
| `LifecycleIsImplemented` | `Spec => ImplementsLifecycle`, the refinement |

`CancellationIsComplete` is proved with the late payments among the steps: that
`issue` cannot create a ticket of a cancelled event rests on the event's lock,
under which it reads the status (`Knows`), and that everything else is voided on
the rows that the cancellation takes one by one. `AdmissionsAreCurrent` is about
the ticket, its code and its event; that the scanner was assigned to the event
is a guard of `VerifyLockTicket`, an assignment removed afterwards does not
undo the check-in, and the theorem does not speak of it. `NothingComesBack` is
about tickets, transfers and codes, not about events.

The argument. All that a step can do to the tables is one of seven kinds of row
step (tickets are created, an offer is made, ends or is taken up, a ticket
admits somebody, tickets are voided, or the rows stay), and every action
is shown once to be one of them. The action properties and the step simulation
then follow from the kind, not from the action. Each kind maps to one step of
`TicketLifecycle`, with the revoked codes as the passes that are gone, or to a
stutter.

`SalesProofs` proves for any events, orders and bounds and any finite sets of
types and requests, under `SalesAssumption`:

| Theorem | States |
| --- | --- |
| `InvariantHolds`, `TypeCorrect` | `Spec => []SalesInv`, `Spec => []TypeOK` |
| `InventoryAlwaysFits` | `Spec => []InventoryFits` |
| `NothingIsOversold` | `Spec => []NeverOversold` |
| `TicketsAreAlwaysPaid` | `Spec => []TicketsArePaid` |
| `TermsStayFrozen` | `Spec => TermsAreFrozen` |
| `BoxOfficeIsImplemented` | `Spec => ImplementsBoxOffice`, the refinement |

`SalesInv` is built like `TicketingInv`: `LocksExclusive` and `Knows(s)`, and
`StockOK` (sales fit quantities), `ChargesOK` (every purchase, made or under
way, has a charge of its own) and `OrdersOK`. A check made under the event's
lock is still true at the commit, because whoever could make it false needs the
same lock. The totals are cardinalities of sets of units, so a total that grows
by what one type gains is a fact about finite sets and needs no induction over
the types. Finiteness is assumed for that.

The refinement has one lemma for each commit: what `Knows(s)` says of the rows
the request has locked is what the clerk's step asks for. `ChargesOK` gives the
clerk's charge that bought nothing yet. One thing is not known to any lock: that
the event of an order is published or cancelled when it is filled, which `pay`
does not ask. `PlacedOK` says it, and is an invariant because a checkout asks
and `TermsAreFrozen` never takes it back. All other steps change nothing the
clerk sees.

`SessionsProofs` proves for any accounts, tokens and requests, under
`SessionsAssumption`:

| Theorem | States |
| --- | --- |
| `InvariantHolds`, `TypeCorrect` | `Spec => []SessionsInv`, `Spec => []TypeOK` |
| `OneSuccessorHolds` | `Spec => []OneSuccessor` |
| `RevokedStaysRevoked` | `Spec => RevokedIsFinal` |
| `FamiliesAreImplemented` | `Spec => ImplementsFamilies`, the refinement |

A step leaves the tokens, opens a family, exchanges a live token or revokes
some; `SessionsInv` says that a `refresh` about to rotate has locked a live
token, which makes each exchange the only one of its token.

`ApiClientProofs` proves for any number of tabs, requests, refreshes and tokens,
under `ApiClientAssumption` only (names differ):

| Theorem | States |
| --- | --- |
| `InvariantHolds`, `TypeCorrect` | `Spec => []ClientInv`, `Spec => []TypeOK` |
| `SessionSurvivesHolds` | `Spec => []SessionSurvives` |
| `RefusedByOthersHolds` | `Spec => []RefusedByOthers` |

`ClientInv` follows each token: it travels in one answer, lies in the cookie, is
presented, is spent. What makes it inductive is that a token that still travels
was never presented (`TravelOK`), so no refresh can spend it behind the back of
the answer that brings it, and that a tab's refresh under way is the one it
waits for (`FlightOK`). With `TokenFamilies` as the server and `SessionsProofs`
for the server's side, the argument reaches from the browser to the rows of
`refresh_tokens`.

`NotificationsProofs` proves for any accounts and notifications, under
`NotificationsAssumption` only:

| Theorem | States |
| --- | --- |
| `InvariantHolds` | `Spec => []NotificationsInv` |
| `ShownIsTrueHolds` | `Spec => []ShownIsTrue` |
| `OneAccountHolds` | `Spec => []OneAccount` |
| `NothingElseIsMissedHolds` | `Spec => []NothingElseIsMissed` |

`NotificationsInv` says that what is on its way is true (`EventsAreTrue`,
`AnswerIsTrue`), that a tab that has to refresh has no listeners, that the room is the socket's, that list, fetch and socket
belong to one account unless the tab is `stranded`, and that every notification
is in the list, on its way to it, or lost (`Accounted`).

`ScannerPageProofs` proves for any sets of cameras and verifications, under
`ScannerAssumption`:

| Theorem | States |
| --- | --- |
| `InvariantHolds`, `TypeCorrect` | `Spec => []ScannerInv`, `Spec => []TypeOK` |
| `OneVerificationHolds` | `Spec => []OneVerification` |
| `ResultIsCurrentHolds` | `Spec => []ResultIsCurrent` |
| `RunningCamerasAreHeldHolds` | `Spec => []RunningCamerasAreHeld` |

`ScannerInv` says that the reference `verifyingRef` is set while a verification
is under way, of which there is one (`VerifyingOK`), that a camera that runs or
will is the one held or was let go of early (`CamerasOK`), and that a caller
waits for one camera to close (`ClosersOK`).

`IdempotencyProofs` proves for every set of keys, payloads and attempts, under
`IdempotencyAssumption` only (`None` is none of them):

| Theorem | States |
| --- | --- |
| `InvariantHolds`, `TypeCorrect` | `Spec => []IdempotencyInv`, `Spec => []TypeOK` |
| `OneClaimHolds` | `Spec => []OneClaim` |
| `ReplaysAreTrueHold` | `Spec => []ReplaysAreTrue` |
| `FreshRowsStayHolds` | `Spec => FreshRowsStay` |

The argument. `OneClaim` speaks of pairs of attempts and follows from a fact
about each: an attempt that ran and has not lost its claim is the `by` of its
key's row, and a row has one `by`. `ReplaysAreTrue` needs that the ids in rows
and attempts belong to attempts of the same key and payload. `FreshRowsStay`
needs that an attempt about to delete a row by id means an expired one, for
ever: an id is not used again, because only attempts past `Create` are ids.
`AttemptOK` and `RowOK` say this. Every step keeps what is known of the past
(`History`), so the attempts and rows it does not touch stay as they were
(`AttemptKept`, `RowKept`), and each action has one lemma about the attempt
that takes it and the row it writes.

`OrganizerPageProofs` proves for any events, starts, limit of the list, rows at
the beginning of the visit, scanners, functions under way and bounds, under
`OrganizerAssumption` and `AlreadyAssumption` (constants have their types):

| Theorem | States |
| --- | --- |
| `InvariantHolds`, `TypeCorrect` | `Spec => []OrganizerInv`, `Spec => []TypeOK` |
| `ThePageCatchesUp` | `Spec => []PageCatchesUp` |
| `TheDialogIsKept` | `Spec => []DialogIsKept` |
| `NothingGoesBack` | `Spec => NeverBackward` |

`PageCatchesUp` speaks of a page at rest, and what it shows then was read
several steps before: the list when `load` asked for it, the scanners event by
event after that. `OrganizerInv` follows the answer: while a function has the
list and has not shown it, the list fits the rows (it is what the query would
return now, but for sales); while it asks for scanners,
the events shown fit the rows, and so do the scanners it has so far, of all
events but those it has yet to ask for (`CatchesUp`). Only sales, which no page
makes, come between, and they leave a list fitting (`Sells`, `FitsSells`). That
nothing else does is the work of the flags: a function under way holds a flag no
other holds (`FlagsHeld`), so in a visit that was never raced it is the only one
(`Lone`), and a request that was given up may still be handled only if the page
missed it (`Heard`). `NeverBackward` needs less: a list shown or about to be
shown is never ahead of the rows, and one about to be shown is not older than
the one shown, nor leaves out what has a place in it (`NothingInvented`). What the invariant says of lists and rows is
said of values (`Behind`, `Fits`, `Follows`), so each step is only asked what it
does to `server` (`Grows`, `Sells`).

### What the refuted claims rest on

A run refutes a claim with one behaviour. These theorems say that there is no
other kind:

| Module | Theorem | States |
| --- | --- | --- |
| `SalesProofs` | `OnePaymentBuysOnce` | `Spec /\ []OnePayment => []TicketsOnce` |
| `SalesProofs` | `NothingElseSells` | `Spec /\ []NoLatePayment => []CancelledEventsSellNothing` |
| `SessionsProofs` | `OnlyRotationOutlives` | `Spec /\ []NoRotation => PasswordChangeEndsSessions` |
| `IdempotencyProofs` | `RepeatedOnlyWhenLost` | `Spec => []RepeatsAreLost` |

`OnePayment`: an order is served by one `pay` at a time. Then what the second
read of the order found (`OnceInv`) stays true up to the commit, and an order
that expires, or whose fulfilment fails after the charge and is paid for again,
still gets its tickets once. `NoLatePayment`: no payment is in its fulfilling
transaction while the event of its order is cancelled. The organizer's `issue`
needs no such condition, because it holds the event's lock from the read of the
status on. `NoRotation`: no refresh has locked, to rotate it, a token that a
waiting password change has on its list. Then the list has every working token
of its families (`RenewInv`); sign-ins, which open families of their own, and
other revocations leave it so. The code enforces none of the three conditions,
which is why they are hypotheses. `OnePayment` and `NoRotation` hold whenever
requests do not overlap; `NoLatePayment` fails as soon as somebody pays for an
order whose event was cancelled. `RepeatsAreLost` has no hypothesis: of two attempts with one key
that committed, one has lost its claim, by five minutes of silence or by the
expiry of its row.

### What is only model-checked

Every invariant and action property of the passing runs is proved. Only
model-checked is liveness (`ExpiredOffersResolve`, the two `PageIsFreed`,
`RowsAreFetched`, `RequestsEnd`): the prover does not handle `ENABLED`, so
nothing that rests on fairness is within its reach.

## 6. Plan

The order in which the modules were written: the tickets, where most
transactions meet (`TicketStates`, `Ticketing`, `TicketLifecycle`); stock and
money (`Sales`); `Sessions` and `TokenFamilies`; `Idempotency`; `ScannerPage`;
then the browser's side of it, `OrganizerPage`, `Notifications` and
`ApiClient`. What would come next:

1. `ScannerPage` composed with `Ticketing` and `Idempotency`: a scan whose
   answer is lost is repeated with a fresh key and refused as already used.
2. The reads of the API that take two statements (`getOwned`), and what a reader
   may be shown.

## 7. Running it

`tlc -config MCTicketing.cfg MCTicketing` and likewise for the other
configurations, and `tlapm TicketingProofs.tla` and likewise for `SalesProofs`,
`SessionsProofs`, `ApiClientProofs`, `IdempotencyProofs`, `NotificationsProofs`,
`ScannerPageProofs` and `OrganizerPageProofs`. The runs
take between a second and two and a half minutes on two cores (`organizer` and
`ticketing_one` the longest),
the proofs of a module between half a minute and a few minutes.

## 8. Not modelled

- `requireAuth` and the rate limiter: one atomic step each (a read of the
  account's status, a Lua script in Redis).
- The audit and security log: append-only rows in the transactions of the other
  components. What a rollback does to them is in `Sessions` and `Ticketing`.
- Validation, controllers, routes, API documentation, health checks,
  configuration, logging, start-up: no state, or none that two requests share.
  A shutdown is a `Rollback` or `Crash` of what was open.
- Hashing, encryption and the format of codes and tokens: data.
- The other pages of the web app (`Checkout`, `Orders`, `Admin`, the layout):
  forms and lists over the API. The models of the services allow every order of
  requests they can produce.
- Migrations, seeds, containers, CI.
- Prices and currencies (`checkout` adds prices of several currencies as
  floating-point numbers under the first's currency): no control depends on
  them.
