---------------------------- MODULE OrganizerPage ----------------------------
(***************************************************************************)
(* One visit to the organizer's workspace (pages/Organizer.tsx): what the  *)
(* organizer asks of the server there, and how the page comes by what it   *)
(* shows.  Every function sends one request and, when it was answered,     *)
(* loads everything anew with load: the list of events, then the scanners  *)
(* of each.  The answers of a load are kept until they are shown, and      *)
(* nothing tells the page that a load was overtaken by another.            *)
(*                                                                         *)
(* The page is one thread: a step runs from one await to the next.  The    *)
(* server is the rows of the organizer's events; what its transactions do  *)
(* to each other is in Ticketing and Sales.                                *)
(***************************************************************************)
EXTENDS Naturals, FiniteSets, TLC

CONSTANTS
    Event,      \* rows of events, those included that are yet to be created
    StartAt,    \* when each event begins
    Already,    \* the rows of the events when the visit begins
    Limit,      \* the events that listMine returns at most (100)
    Scanner,    \* the accounts that /users/scanners returns: the active
                \* scanners, the first 100 by name
    Call,       \* calls of the page's functions under way at a time, reused
    MaxTypes,   \* bound on the ticket types of an event: its capacity
    MaxSold,    \* bound on the tickets of an event: its inventory
    MaxLate,    \* bound on the requests given up that are still on their way
    None

ASSUME OrganizerAssumption ==
    /\ StartAt \in [Event -> Nat] /\ {Limit, MaxTypes, MaxSold, MaxLate} \subseteq Nat
    /\ None \notin Event \cup Scanner /\ Call # {}

VARIABLES
    server,     \* the rows: status, ticket types, units sold, scanners
    events,     \* React state: the list of events
    scanners,   \* React state: the accounts to choose from
    assigned,   \* React state: the scanners of the listed events
    form,       \* React state: modal and scannerId
    busy,       \* React state: an event is being created
    actionId,   \* React state: something else is being done (not what)
    call,       \* the functions under way
    late,       \* requests given up by the page that may reach the server yet
    raced,      \* history: a click came while another function was under way
    missed      \* history: of what was done since the list was read last, the
                \* page may have heard nothing

shown == <<events, scanners, assigned>>
vars == <<server, shown, form, busy, actionId, call, late, raced, missed>>

Actions == {"publish", "cancel", "ticket", "assign", "remove", "issue"}
Statuses == {"ABSENT", "DRAFT", "PUBLISHED", "CANCELLED"}

Row == [status : Statuses, types : 0..MaxTypes, sold : 0..MaxSold, team : SUBSET Scanner]

ASSUME AlreadyAssumption == Already \in [Event -> Row]

Listing == [status : Statuses \ {"ABSENT"}, types : 0..MaxTypes, sold : 0..MaxSold]
Lists == UNION {[E -> Listing] : E \in SUBSET Event}
Teams == UNION {[E -> SUBSET Scanner] : E \in SUBSET Event}
Requests == [kind : Actions \cup {"create"}, event : Event \cup {None},
             scanner : Scanner \cup {None}]

Nothing == [e \in {} |-> None]
Idle == [at |-> "idle", request |-> None, frees |-> "nothing",
         list |-> Nothing, todo |-> {}, team |-> Nothing]

\* A call of load that frees a flag when it has ended.
Load(frees) == [Idle EXCEPT !.at = "list", !.frees = frees]

TypeOK ==
    /\ server \in [Event -> Row]
    /\ events \in Lists /\ scanners \in SUBSET Scanner /\ assigned \in Teams
    /\ form.modal \in [event : Event, type : {"ticket", "scanner"}] \cup {None}
    /\ form.scannerId \in Scanner \cup {None}
    /\ {busy, actionId, raced, missed} \subseteq BOOLEAN
    /\ \A c \in Call :
          /\ call[c].request \in Requests \cup {None}
          /\ call[c].frees \in {"busy", "actionId", "nothing"}
          /\ call[c].at \in {"idle", "sent", "answered", "list", "listed", "teams"}
          /\ call[c].list \in Lists /\ call[c].team \in Teams
          /\ call[c].todo \subseteq Event
    /\ late \subseteq Requests

-----------------------------------------------------------------------------
(* The server. *)

\* A request is accepted and does what it asks for.  The page does not choose
\* the id of an event that it creates.
Commit(r) ==
    \E e \in Event :
        LET row == server[e]
            draft == row.status = "DRAFT"
            open == row.status \in {"DRAFT", "PUBLISHED"} IN
        /\ r.kind # "create" => e = r.event
        /\ \/ /\ r.kind = "create" /\ row.status = "ABSENT"
              /\ server' = [server EXCEPT ![e].status = "DRAFT"]
           \/ /\ r.kind = "publish" /\ draft /\ row.types > 0
              /\ server' = [server EXCEPT ![e].status = "PUBLISHED"]
           \/ /\ r.kind = "cancel" /\ open
              /\ server' = [server EXCEPT ![e].status = "CANCELLED"]
           \/ /\ r.kind = "ticket" /\ draft /\ row.types < MaxTypes
              /\ server' = [server EXCEPT ![e].types = @ + 1]
           \/ /\ r.kind = "assign" /\ open
              /\ server' = [server EXCEPT ![e].team = @ \cup {r.scanner}]
           \/ /\ r.kind = "remove" /\ r.scanner \in row.team
              /\ server' = [server EXCEPT ![e].team = @ \ {r.scanner}]
           \/ /\ r.kind = "issue" /\ row.status = "PUBLISHED" /\ row.sold < MaxSold
              /\ server' = [server EXCEPT ![e].sold = @ + 1]

\* A buyer pays.  The event may have been cancelled since the checkout.
SoldElsewhere(e) ==
    /\ server[e].status \in {"PUBLISHED", "CANCELLED"}
    /\ server[e].types > 0 /\ server[e].sold < MaxSold
    /\ server' = [server EXCEPT ![e].sold = @ + 1]
    /\ UNCHANGED <<shown, form, busy, actionId, call, late, raced, missed>>

\* A request whose connection was lost is handled all the same.
HandledLate(r) ==
    /\ r \in late
    /\ Commit(r)
    /\ late' = late \ {r}
    /\ missed' = TRUE
    /\ UNCHANGED <<shown, form, busy, actionId, call, raced>>

-----------------------------------------------------------------------------
(* load, and the end of the function that awaits it *)

\* finally: the first load of a visit belongs to no function.
End(c) ==
    /\ call' = [call EXCEPT ![c] = Idle]
    /\ busy' = (busy /\ call[c].frees # "busy")
    /\ actionId' = (actionId /\ call[c].frees # "actionId")

\* The dialog closes when its request was accepted.
Reset(kind) ==
    form' = [modal |-> IF kind \in {"ticket", "assign"} THEN None ELSE form.modal,
             scannerId |-> IF kind = "assign" THEN None ELSE form.scannerId]

\* Mutant: the button is freed when the request is answered, not after load.
SucceedsEarly(c) ==
    /\ call[c].at = "answered"
    /\ Reset(call[c].request.kind)
    /\ call' = [call EXCEPT ![c] = Load(call[c].frees)]
    /\ busy' = (busy /\ call[c].frees # "busy")
    /\ actionId' = (actionId /\ call[c].frees # "actionId")
    /\ UNCHANGED <<server, shown, late, raced, missed>>

Succeeds(c) ==
    /\ call[c].at = "answered"
    /\ Reset(call[c].request.kind)
    /\ call' = [call EXCEPT ![c] = Load(call[c].frees)]
    /\ UNCHANGED <<server, shown, busy, actionId, late, raced, missed>>

\* L is what a query for the events E returns: the first by their start, up to
\* the limit.  Of those that start together any may come first.
AreFirst(L, E) ==
    /\ L \subseteq E
    /\ Cardinality(L) <= Limit
    /\ L # E => Cardinality(L) = Limit
    /\ \A d \in L, e \in E \ L : StartAt[d] <= StartAt[e]

Existing == {e \in Event : server[e].status # "ABSENT"}

\* The list is read on the server.  Both requests are awaited together.
ListRead(c) ==
    /\ call[c].at = "list"
    /\ \E L \in SUBSET Event :
          /\ AreFirst(L, Existing)
          /\ call' = [call EXCEPT ![c].at = "listed",
                ![c].list = [e \in L |->
                    [status |-> server[e].status, types |-> server[e].types,
                     sold |-> server[e].sold]]]
    /\ missed' = (late # {})
    /\ UNCHANGED <<server, shown, form, busy, actionId, late, raced>>

ListShown(c) ==
    /\ call[c].at = "listed"
    /\ events' = call[c].list
    /\ scanners' = Scanner
    /\ call' = [call EXCEPT ![c].at = "teams", ![c].list = Nothing,
                            ![c].todo = DOMAIN call[c].list]
    /\ UNCHANGED <<server, assigned, form, busy, actionId, late, raced, missed>>

TeamRead(c, e) ==
    /\ call[c].at = "teams"
    /\ e \in call[c].todo
    /\ call' = [call EXCEPT ![c].todo = @ \ {e},
          ![c].team = [x \in DOMAIN @ \cup {e} |-> IF x = e THEN server[e].team ELSE @[x]]]
    /\ UNCHANGED <<server, shown, form, busy, actionId, late, raced, missed>>

\* Mutant: the scanners of an event are added to those that are shown.
TeamsMerged(c) ==
    /\ call[c].at = "teams" /\ call[c].todo = {}
    /\ assigned' = assigned @@ call[c].team
    /\ End(c)
    /\ UNCHANGED <<server, events, scanners, form, late, raced, missed>>

TeamsShown(c) ==
    /\ call[c].at = "teams" /\ call[c].todo = {}
    /\ assigned' = call[c].team
    /\ End(c)
    /\ UNCHANGED <<server, events, scanners, form, late, raced, missed>>

-----------------------------------------------------------------------------
(* The request of a function, and its catch *)

Handled(c) ==
    /\ call[c].at = "sent"
    /\ Commit(call[c].request)
    /\ call' = [call EXCEPT ![c].at = "answered"]
    /\ UNCHANGED <<shown, form, busy, actionId, late, raced, missed>>

\* Mutant: the button comes back only if all went well.
CaughtBusy(c) ==
    /\ call' = [call EXCEPT ![c] = Idle]
    /\ UNCHANGED <<server, shown, form, busy, actionId, raced>>

Caught(c) ==
    /\ End(c)
    /\ UNCHANGED <<server, shown, form, raced>>

\* By a rule of its own, a rate limit, or because it failed.
Refused(c) ==
    /\ call[c].at = "sent"
    /\ Caught(c)
    /\ UNCHANGED <<late, missed>>

\* No answer comes; the request may be on its way, or done.
Lost(c) ==
    /\ call[c].at \in {"sent", "answered"}
    /\ call[c].at = "sent" => Cardinality(late) < MaxLate
    /\ late' = IF call[c].at = "sent" THEN late \cup {call[c].request} ELSE late
    /\ missed' = TRUE
    /\ Caught(c)

\* The page then says that it could not do what it has done.
LoadFails(c) ==
    /\ call[c].at \in {"list", "listed", "teams"}
    /\ missed' = TRUE
    /\ Caught(c)
    /\ UNCHANGED late

-----------------------------------------------------------------------------
(* Clicks *)

Unused == {c \in Call : call[c] = Idle}

\* With an Idempotency-Key of its own.
Send(kind, e, u) ==
    /\ Unused # {}
    /\ call' = [call EXCEPT ![CHOOSE c \in Unused : TRUE] =
                    [Idle EXCEPT !.at = "sent",
                                 !.request = [kind |-> kind, event |-> e, scanner |-> u],
                                 !.frees = IF kind = "create" THEN "busy" ELSE "actionId"]]
    /\ busy' = (busy \/ kind = "create")
    /\ actionId' = (actionId \/ kind # "create")
    /\ raced' = (raced \/ busy \/ actionId \/ \E c \in Call : call[c].frees = "nothing" /\ call[c] # Idle)
    /\ UNCHANGED <<server, shown, form, late, missed>>

Create == ~busy /\ Send("create", None, None)

Act(kind, e, u) == ~actionId /\ Send(kind, e, u)

Listed(e, statuses) == e \in DOMAIN events /\ events[e].status \in statuses

Publish(e) == Listed(e, {"DRAFT"}) /\ Act("publish", e, None)

\* window.confirm holds everything up.
Cancel(e) == Listed(e, {"DRAFT", "PUBLISHED"}) /\ Act("cancel", e, None)

Issue(e) ==
    /\ Listed(e, {"PUBLISHED"}) /\ events[e].types > 0
    /\ Act("issue", e, None)

AssignedTo(e) == IF e \in DOMAIN assigned THEN assigned[e] ELSE {}

Remove(e, u) ==
    /\ e \in DOMAIN events /\ u \in AssignedTo(e)
    /\ Act("remove", e, u)

AddTicket ==
    /\ form.modal # None /\ form.modal.type = "ticket"
    /\ Act("ticket", form.modal.event, None)

Assign ==
    /\ form.modal # None /\ form.modal.type = "scanner" /\ form.scannerId # None
    /\ Act("assign", form.modal.event, form.scannerId)

OpenModal(e, type) ==
    /\ ~actionId
    /\ Listed(e, IF type = "ticket" THEN {"DRAFT"} ELSE {"DRAFT", "PUBLISHED"})
    /\ form' = [form EXCEPT !.modal = [event |-> e, type |-> type]]
    /\ UNCHANGED <<server, shown, busy, actionId, call, late, raced, missed>>

ChooseScanner(u) ==
    /\ form.modal # None /\ form.modal.type = "scanner"
    /\ u \in scanners \ AssignedTo(form.modal.event)
    /\ form' = [form EXCEPT !.scannerId = u]
    /\ UNCHANGED <<server, shown, busy, actionId, call, late, raced, missed>>

\* Mutant: the dialog closes whatever is under way.
CloseModalAlways ==
    /\ form.modal # None
    /\ form' = [form EXCEPT !.modal = None, !.scannerId = None]
    /\ UNCHANGED <<server, shown, busy, actionId, call, late, raced, missed>>

CloseModal ==
    /\ form.modal # None /\ ~actionId
    /\ form' = [form EXCEPT !.modal = None, !.scannerId = None]
    /\ UNCHANGED <<server, shown, busy, actionId, call, late, raced, missed>>

-----------------------------------------------------------------------------

\* The effect of the first rendering has called load.
Init ==
    /\ server = Already
    /\ events = Nothing /\ scanners = {} /\ assigned = Nothing
    /\ form = [modal |-> None, scannerId |-> None]
    /\ busy = FALSE /\ actionId = FALSE
    /\ call = [c \in Call |-> IF c = CHOOSE o \in Call : TRUE
                              THEN Load("nothing") ELSE Idle]
    /\ late = {}
    /\ raced = FALSE
    /\ missed = TRUE

Click ==
    \/ Create \/ AddTicket \/ Assign
    \/ \E e \in Event : Publish(e) \/ Cancel(e) \/ Issue(e)
    \/ \E e \in Event, u \in Scanner : Remove(e, u)

Dialog ==
    \/ CloseModal
    \/ \E e \in Event, type \in {"ticket", "scanner"} : OpenModal(e, type)
    \/ \E u \in Scanner : ChooseScanner(u)

Advance(c) ==
    \/ Handled(c) \/ Refused(c) \/ Lost(c)
    \/ Succeeds(c) \/ ListRead(c) \/ ListShown(c) \/ TeamsShown(c) \/ LoadFails(c)
    \/ \E e \in Event : TeamRead(c, e)

Next ==
    \/ Click \/ Dialog
    \/ \E c \in Call : Advance(c)
    \/ \E r \in late : HandledLate(r)
    \/ \E e \in Event : SoldElsewhere(e)

Spec == Init /\ [][Next]_vars

\* A request is answered, or its connection fails.  Nobody need click.
FairSpec == Spec /\ \A c \in Call : WF_vars(Advance(c))

-----------------------------------------------------------------------------
(* Properties. *)

\* At rest the page shows what the organizer did: whatever failed before, a
\* load that ended well has brought status, ticket types and scanners of the
\* first events up to date, and no sale is invented.  Unless the organizer
\* clicked while another function was under way, which the flags prevent but
\* between the form for new events and the rest: then loads overlap.
PageCatchesUp ==
    (\A c \in Call : call[c] = Idle) /\ ~raced /\ ~missed =>
        /\ AreFirst(DOMAIN events, Existing)
        /\ \A e \in DOMAIN events :
              /\ events[e].status = server[e].status
              /\ events[e].types = server[e].types
              /\ events[e].sold <= server[e].sold
              /\ assigned[e] = server[e].team

\* Event e has no place in a list of L.
Outranked(e, L) ==
    e \notin L /\ Cardinality(L) = Limit /\ \A d \in L : StartAt[d] <= StartAt[e]

\* The list never goes back to what was before, with the same exception: no
\* event is a draft again, loses ticket types or tickets sold, and none
\* disappears but from a list that is full of others which begin no later.
NeverBackward ==
    [][~raced => \A e \in DOMAIN events :
          \/ Outranked(e, DOMAIN events')
          \/ /\ e \in DOMAIN events'
             /\ events'[e].status = "DRAFT" => events[e].status = "DRAFT"
             /\ events[e].status = "CANCELLED" => events'[e].status = "CANCELLED"
             /\ events'[e].types >= events[e].types
             /\ events'[e].sold >= events[e].sold]_vars

\* The dialog that sent a request is the one that its answer closes: while it
\* is under way, no other is opened in its place.
DialogIsKept ==
    \A c \in Call :
        LET r == call[c].request IN
        call[c].at \in {"sent", "answered"} /\ r.kind \in {"ticket", "assign"} =>
            /\ form.modal # None
            /\ form.modal.event = r.event
            /\ form.modal.type = "ticket" <=> r.kind = "ticket"

\* The buttons come back: every function ends, whatever fails.
PageIsFreed == []<>~busy /\ []<>~actionId
=============================================================================
