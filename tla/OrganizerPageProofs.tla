------------------------ MODULE OrganizerPageProofs -------------------------
(***************************************************************************)
(* Proofs, for any number of events, scanners and functions under way, of  *)
(* what the organizer's page shows.                                        *)
(*                                                                         *)
(* The invariant follows one answer on its way: read on the server into    *)
(* the row of the call (Fits when it is read: the first events, as many as *)
(* a list has room for), shown as events, completed                        *)
(* by the scanners of each event, and kept until something is done again   *)
(* (CatchesUp).  That nothing comes between is the work of the flags: each *)
(* function under way holds its own (FlagsHeld), so that a visit that was  *)
(* never raced has one function under way (Lone).                          *)
(*                                                                         *)
(* What is said of lists and rows is said of values (Grows, Behind, Fits), *)
(* so that a step is only asked what it does to server.                    *)
(***************************************************************************)
EXTENDS OrganizerPage, TLAPS

-----------------------------------------------------------------------------
(* Lists and rows *)

\* Nothing of row or listing b is older than in a.
NotLater(a, b) ==
    /\ b.status = "DRAFT" => a.status = "DRAFT"
    /\ a.status = "CANCELLED" => b.status = "CANCELLED"
    /\ a.types <= b.types
    /\ a.sold <= b.sold

\* What the requests of anybody do to the rows.
Grows(s, t) ==
    \A e \in Event : s[e].status # "ABSENT" =>
        t[e].status # "ABSENT" /\ NotLater(s[e], t[e])

\* What the buyers do to them.
Sells(s, t) ==
    \A e \in Event :
        /\ t[e].status = s[e].status /\ t[e].types = s[e].types
        /\ t[e].team = s[e].team
        /\ s[e].sold <= t[e].sold

\* A list may be old, but it shows nothing that never was.
Behind(l, s) ==
    \A e \in DOMAIN l : s[e].status # "ABSENT" /\ NotLater(l[e], s[e])

Exist(s) == {e \in Event : s[e].status # "ABSENT"}

\* A list is what a query for all events would return, but for sales since.
Fits(l, s) ==
    /\ AreFirst(DOMAIN l, Exist(s))
    /\ \A e \in DOMAIN l :
          /\ l[e].status = s[e].status
          /\ l[e].types = s[e].types
          /\ l[e].sold <= s[e].sold

\* The scanners of some of the events.
TeamsFit(m, s) == \A e \in DOMAIN m : m[e] = s[e].team

\* One list after another: an event that is gone has lost its place.
Follows(l, k) ==
    \A e \in DOMAIN l :
        Outranked(e, DOMAIN k) \/ (e \in DOMAIN k /\ NotLater(l[e], k[e]))

-----------------------------------------------------------------------------
(* The inductive invariant *)

Stages == {"idle", "sent", "answered", "list", "listed", "teams"}

CallRows == [at : Stages, request : Requests \cup {None},
             frees : {"busy", "actionId", "nothing"},
             list : Lists, todo : SUBSET Event, team : Teams]

Modals == [event : Event, type : {"ticket", "scanner"}] \cup {None}

Forms == [modal : Modals, scannerId : Scanner \cup {None}]

\* The page asks for the assignment of somebody.
Asked == {r \in Requests : r.kind = "assign" => r.scanner \in Scanner}

Typed ==
    /\ server \in [Event -> Row]
    /\ events \in Lists /\ scanners \in SUBSET Scanner /\ assigned \in Teams
    /\ form \in Forms
    /\ busy \in BOOLEAN /\ actionId \in BOOLEAN
    /\ raced \in BOOLEAN /\ missed \in BOOLEAN
    /\ call \in [Call -> CallRows]
    /\ late \subseteq Asked

Sent(r) == r.at \in {"sent", "answered"}

\* What is on its way asks for something, and frees the flag that goes with it.
WellSent(r) ==
    Sent(r) =>
        /\ r.request \in Asked
        /\ r.frees = IF r.request.kind = "create" THEN "busy" ELSE "actionId"

\* A row of call is empty when no function is under way, and has no scanners
\* before the list is shown.
WellKept(r) ==
    /\ r.at = "idle" => r = Idle
    /\ r.at \in {"list", "listed"} => r.team = Nothing

RowsKept == \A c \in Call : WellSent(call[c]) /\ WellKept(call[c])

Underway(c) == call[c].at # "idle"

\* A function under way holds its flag, and no other holds the same.
FlagsHeld ==
    /\ \A c \in Call : Underway(c) =>
          /\ call[c].frees = "busy" => busy
          /\ call[c].frees = "actionId" => actionId
    /\ \A c, d \in Call :
          Underway(c) /\ Underway(d) /\ call[c].frees = call[d].frees => c = d

Lone == ~raced => \A c, d \in Call : Underway(c) /\ Underway(d) => c = d

Heard == ~missed => late = {}

\* Everything that the page shows or is about to show was once so, and what it
\* is about to show is not older than what it shows.
NothingInvented ==
    /\ Behind(events, server)
    /\ \A c \in Call : call[c].at = "listed" =>
          /\ Behind(call[c].list, server)
          /\ ~raced => Follows(events, call[c].list)

\* The function that loads knows what was done, and so does the page when no
\* function has had an answer that it has not shown.
CatchesUp ==
    ~raced /\ ~missed =>
        /\ \A c \in Call : call[c].at = "listed" => Fits(call[c].list, server)
        /\ \A c \in Call : call[c].at = "teams" =>
              /\ Fits(events, server)
              /\ TeamsFit(call[c].team, server)
              /\ DOMAIN call[c].team \subseteq DOMAIN events
              /\ call[c].todo = DOMAIN events \ DOMAIN call[c].team
        /\ (\A c \in Call : call[c].at \in {"idle", "sent"}) =>
              /\ Fits(events, server)
              /\ TeamsFit(assigned, server)
              /\ DOMAIN assigned = DOMAIN events

OrganizerInv ==
    /\ Typed
    /\ RowsKept
    /\ FlagsHeld
    /\ Lone
    /\ Heard
    /\ DialogIsKept
    /\ NothingInvented
    /\ CatchesUp

-----------------------------------------------------------------------------
(* Facts about lists and rows. *)

\* Being behind a row is kept when the row grows, and so is a list.
LEMMA NotLaterGrows ==
    ASSUME NEW a, NEW b, NEW d,
           a.types \in Nat, b.types \in Nat, d.types \in Nat,
           a.sold \in Nat, b.sold \in Nat, d.sold \in Nat,
           NotLater(a, b), NotLater(b, d)
    PROVE  NotLater(a, d)
  BY DEF NotLater

LEMMA ListTypes ==
    ASSUME NEW l \in Lists
    PROVE  /\ DOMAIN l \subseteq Event
           /\ \A e \in DOMAIN l : l[e] \in Listing
  BY DEF Lists

LEMMA TeamTypes ==
    ASSUME NEW m \in Teams
    PROVE  /\ DOMAIN m \subseteq Event
           /\ \A e \in DOMAIN m : m[e] \in SUBSET Scanner
  BY DEF Teams

LEMMA Numbers ==
    /\ \A r \in Row : r.types \in Nat /\ r.sold \in Nat
    /\ \A r \in Listing : r.types \in Nat /\ r.sold \in Nat
  BY OrganizerAssumption DEF Row, Listing

LEMMA NothingTypes == Nothing \in Lists /\ Nothing \in Teams /\ DOMAIN Nothing = {}
<1>1. DOMAIN Nothing = {} /\ Nothing \in [{} -> Listing] /\ Nothing \in [{} -> SUBSET Scanner]
  BY DEF Nothing
<1> QED BY <1>1 DEF Lists, Teams

\* A list that was once so stays behind the rows, whatever anybody does.
LEMMA BehindGrows ==
    ASSUME NEW s \in [Event -> Row], NEW t \in [Event -> Row], Grows(s, t),
           NEW l \in Lists, Behind(l, s)
    PROVE  Behind(l, t)
<1> SUFFICES ASSUME NEW e \in DOMAIN l
             PROVE  t[e].status # "ABSENT" /\ NotLater(l[e], t[e])
  BY DEF Behind
<1>1. e \in Event /\ l[e] \in Listing
  BY ListTypes
<1>2. s[e].status # "ABSENT" /\ NotLater(l[e], s[e])
  BY DEF Behind
<1>3. t[e].status # "ABSENT" /\ NotLater(s[e], t[e])
  BY <1>1, <1>2 DEF Grows
<1>4. s[e] \in Row /\ t[e] \in Row
  BY <1>1
<1> QED BY <1>1, <1>2, <1>3, <1>4, NotLaterGrows, Numbers

LEMMA SellsGrows ==
    ASSUME NEW s \in [Event -> Row], NEW t \in [Event -> Row], Sells(s, t)
    PROVE  Grows(s, t)
<1> SUFFICES ASSUME NEW e \in Event, s[e].status # "ABSENT"
             PROVE  t[e].status # "ABSENT" /\ NotLater(s[e], t[e])
  BY DEF Grows
<1>1. s[e] \in Row /\ t[e] \in Row
  OBVIOUS
<1>2. s[e].types \in Nat /\ t[e].types \in Nat
  BY <1>1, Numbers
<1> QED BY <1>2 DEF Sells, NotLater

\* What fits goes on fitting while only tickets are sold.
LEMMA FitsSells ==
    ASSUME NEW s \in [Event -> Row], NEW t \in [Event -> Row], Sells(s, t),
           NEW l \in Lists, Fits(l, s)
    PROVE  Fits(l, t)
<1>1. Exist(t) = Exist(s)
  BY DEF Exist, Sells
<1>2. ASSUME NEW e \in DOMAIN l
      PROVE  /\ l[e].status = t[e].status
             /\ l[e].types = t[e].types
             /\ l[e].sold <= t[e].sold
  <2>1. e \in Event /\ l[e] \in Listing
    BY ListTypes
  <2>2. s[e] \in Row /\ t[e] \in Row
    BY <2>1
  <2>3. s[e].sold \in Nat /\ t[e].sold \in Nat /\ l[e].sold \in Nat
    BY <2>1, <2>2, Numbers
  <2>4. /\ l[e].status = s[e].status /\ l[e].types = s[e].types
        /\ l[e].sold <= s[e].sold
    BY DEF Fits
  <2> QED BY <2>1, <2>3, <2>4 DEF Sells
<1> QED BY <1>1, <1>2 DEF Fits

LEMMA TeamsFitSells ==
    ASSUME NEW s \in [Event -> Row], NEW t \in [Event -> Row], Sells(s, t),
           NEW m \in Teams, TeamsFit(m, s)
    PROVE  TeamsFit(m, t)
  BY TeamTypes DEF TeamsFit, Sells

\* The rows of the events L as a query returns them.
ListOf(s, L) ==
    [e \in L |-> [status |-> s[e].status, types |-> s[e].types, sold |-> s[e].sold]]

\* If L are the first events the list fits, is behind nothing else, and what
\* it does not show of a list before has no place in it.
LEMMA ListOfFits ==
    ASSUME NEW s \in [Event -> Row], NEW L, AreFirst(L, Exist(s))
    PROVE  /\ ListOf(s, L) \in Lists
           /\ Fits(ListOf(s, L), s)
           /\ Behind(ListOf(s, L), s)
           /\ \A l \in Lists : Behind(l, s) => Follows(l, ListOf(s, L))
<1>1. L \subseteq Exist(s) /\ \A e \in Exist(s) : e \in Event /\ s[e].status # "ABSENT"
  BY DEF AreFirst, Exist
<1>2. DOMAIN ListOf(s, L) = L
  BY DEF ListOf
<1>3. \A e \in L : ListOf(s, L)[e] =
          [status |-> s[e].status, types |-> s[e].types, sold |-> s[e].sold]
  BY DEF ListOf
<1>4. \A e \in L :
          /\ ListOf(s, L)[e].status = s[e].status
          /\ ListOf(s, L)[e].types = s[e].types
          /\ ListOf(s, L)[e].sold = s[e].sold
          /\ ListOf(s, L)[e] \in Listing
  <2> SUFFICES ASSUME NEW e \in L
               PROVE  /\ ListOf(s, L)[e].status = s[e].status
                      /\ ListOf(s, L)[e].types = s[e].types
                      /\ ListOf(s, L)[e].sold = s[e].sold
                      /\ ListOf(s, L)[e] \in Listing
    OBVIOUS
  <2>1. s[e] \in Row /\ s[e].status # "ABSENT"
    BY <1>1
  <2>2. /\ s[e].status \in Statuses \ {"ABSENT"}
        /\ s[e].types \in 0..MaxTypes /\ s[e].sold \in 0..MaxSold
    BY <2>1 DEF Row
  <2>3. ListOf(s, L)[e] = [status |-> s[e].status, types |-> s[e].types, sold |-> s[e].sold]
    BY <1>3
  <2> QED BY <2>2, <2>3 DEF Listing
<1>5. L \in SUBSET Event
  BY <1>1
<1>6. ListOf(s, L) \in [L -> Listing]
  BY <1>4 DEF ListOf
<1>7. ListOf(s, L) \in Lists
  BY <1>5, <1>6 DEF Lists
<1>8. \A e \in L : s[e].types <= s[e].types /\ s[e].sold <= s[e].sold
  BY <1>5, Numbers
<1>9. Fits(ListOf(s, L), s)
  BY <1>2, <1>4, <1>8 DEF Fits
<1>10. Behind(ListOf(s, L), s)
  BY <1>1, <1>2, <1>4, <1>8 DEF Behind, NotLater
<1>11. ASSUME NEW l \in Lists, Behind(l, s), NEW e \in DOMAIN l
       PROVE  \/ Outranked(e, L)
              \/ e \in L /\ NotLater(l[e], ListOf(s, L)[e])
  <2>1. e \in Exist(s) /\ NotLater(l[e], s[e])
    BY <1>11, ListTypes DEF Behind, Exist
  <2>2. CASE e \in L
    BY <1>4, <2>1, <2>2 DEF NotLater
  <2>3. CASE e \notin L
    BY <2>1, <2>3 DEF AreFirst, Outranked
  <2> QED BY <2>2, <2>3
<1> QED BY <1>2, <1>7, <1>9, <1>10, <1>11 DEF Follows

-----------------------------------------------------------------------------
(* What the server does. *)

\* One row grows, the others stay.
LEMMA OneGrows ==
    ASSUME NEW s \in [Event -> Row], NEW e \in Event, NEW n \in Row,
           s[e].status # "ABSENT" => n.status # "ABSENT" /\ NotLater(s[e], n)
    PROVE  /\ [s EXCEPT ![e] = n] \in [Event -> Row]
           /\ Grows(s, [s EXCEPT ![e] = n])
<1> DEFINE t == [s EXCEPT ![e] = n]
<1>1. t \in [Event -> Row] /\ t[e] = n /\ \A d \in Event \ {e} : t[d] = s[d]
  OBVIOUS
<1> HIDE DEF t
<1>2. \A d \in Event : s[d].types \in Nat /\ s[d].sold \in Nat
  BY Numbers
<1>3. Grows(s, t)
  BY <1>1, <1>2 DEF Grows, NotLater
<1> QED BY <1>1, <1>3 DEF t

\* A request that is accepted takes nothing back.
LEMMA CommitGrows ==
    ASSUME Typed, NEW r \in Asked, Commit(r)
    PROVE  server' \in [Event -> Row] /\ Grows(server, server')
<1>1. PICK e \in Event :
        LET row == server[e]
            draft == row.status = "DRAFT"
            open == row.status \in {"DRAFT", "PUBLISHED"} IN
        /\ r.kind # "create" => e = r.event
        /\ \/ /\ r.kind = "create" /\ row.status = "ABSENT"
              /\ server' = [server EXCEPT ![e].status = "DRAFT"]
           \/ /\ r.kind = "publish" /\ draft /\ row.types > 0
              /\ server' = [server EXCEPT ![e].status = "PUBLISHED"]
           \/ /\ r.kind = "cancel" /\ open
              /\ server' = [server EXCEPT ![e].status = "CANCELLED"]
           \/ /\ r.kind = "ticket" /\ draft /\ row.types < MaxTypes
              /\ server' = [server EXCEPT ![e].types = @ + 1]
           \/ /\ r.kind = "assign" /\ open
              /\ server' = [server EXCEPT ![e].team = @ \cup {r.scanner}]
           \/ /\ r.kind = "remove" /\ r.scanner \in row.team
              /\ server' = [server EXCEPT ![e].team = @ \ {r.scanner}]
           \/ /\ r.kind = "issue" /\ row.status = "PUBLISHED" /\ row.sold < MaxSold
              /\ server' = [server EXCEPT ![e].sold = @ + 1]
  BY DEF Commit
<1> DEFINE row == server[e]
<1>2. server \in [Event -> Row] /\ row \in Row
  BY DEF Typed
<1>3. /\ row.status \in Statuses /\ row.team \in SUBSET Scanner
      /\ row.types \in 0..MaxTypes /\ row.sold \in 0..MaxSold
      /\ row = [status |-> row.status, types |-> row.types,
                sold |-> row.sold, team |-> row.team]
  BY <1>2 DEF Row
<1>4. MaxTypes \in Nat /\ MaxSold \in Nat
  BY OrganizerAssumption
<1>5. ASSUME NEW n \in Row, server' = [server EXCEPT ![e] = n],
             row.status # "ABSENT" => n.status # "ABSENT" /\ NotLater(row, n)
      PROVE  server' \in [Event -> Row] /\ Grows(server, server')
  BY <1>2, <1>5, OneGrows
<1>6. CASE /\ r.kind = "create" /\ row.status = "ABSENT"
           /\ server' = [server EXCEPT ![e].status = "DRAFT"]
  <2> DEFINE n == [row EXCEPT !.status = "DRAFT"]
  <2>1. n \in Row
    BY <1>2, <1>3 DEF Row, Statuses
  <2>2. server' = [server EXCEPT ![e] = n]
    BY <1>2, <1>6
  <2> QED BY <1>5, <1>6, <2>1, <2>2
<1>7. ASSUME NEW w \in {"PUBLISHED", "CANCELLED"},
             row.status \in {"DRAFT", "PUBLISHED"},
             server' = [server EXCEPT ![e].status = w]
      PROVE  server' \in [Event -> Row] /\ Grows(server, server')
  <2> DEFINE n == [row EXCEPT !.status = w]
  <2>1. n \in Row /\ n.status = w /\ n.types = row.types /\ n.sold = row.sold
    BY <1>2, <1>3 DEF Row, Statuses
  <2>2. server' = [server EXCEPT ![e] = n]
    BY <1>2, <1>7
  <2>3. row.types <= n.types /\ row.sold <= n.sold
    BY <1>3, <1>4, <2>1
  <2>4. n.status # "ABSENT" /\ NotLater(row, n)
    BY <1>7, <2>1, <2>3 DEF NotLater
  <2> QED BY <1>5, <2>1, <2>2, <2>4
<1>8. CASE /\ r.kind = "ticket" /\ row.status = "DRAFT" /\ row.types < MaxTypes
           /\ server' = [server EXCEPT ![e].types = @ + 1]
  <2> DEFINE n == [row EXCEPT !.types = @ + 1]
  <2>1. row.types + 1 \in 0..MaxTypes
    BY <1>3, <1>4, <1>8
  <2>2. /\ n \in Row /\ n.status = row.status
        /\ n.types = row.types + 1 /\ n.sold = row.sold
    BY <1>2, <1>3, <2>1 DEF Row
  <2>3. server' = [server EXCEPT ![e] = n]
    BY <1>2, <1>8
  <2>4. row.types <= n.types /\ row.sold <= n.sold
    BY <1>3, <1>4, <2>2
  <2>5. row.status # "ABSENT" => n.status # "ABSENT" /\ NotLater(row, n)
    BY <2>2, <2>4 DEF NotLater
  <2> HIDE DEF n
  <2> QED BY <1>5, <2>2, <2>3, <2>5
<1>9. ASSUME NEW m \in SUBSET Scanner, server' = [server EXCEPT ![e].team = m]
      PROVE  server' \in [Event -> Row] /\ Grows(server, server')
  <2> DEFINE n == [row EXCEPT !.team = m]
  <2>1. /\ n \in Row /\ n.status = row.status
        /\ n.types = row.types /\ n.sold = row.sold
    BY <1>2, <1>3 DEF Row
  <2>2. server' = [server EXCEPT ![e] = n]
    BY <1>2, <1>9
  <2>3. row.types <= n.types /\ row.sold <= n.sold
    BY <1>3, <1>4, <2>1
  <2>4. row.status # "ABSENT" => n.status # "ABSENT" /\ NotLater(row, n)
    BY <2>1, <2>3 DEF NotLater
  <2> HIDE DEF n
  <2> QED BY <1>5, <2>1, <2>2, <2>4
<1>10. CASE /\ r.kind = "issue" /\ row.status = "PUBLISHED" /\ row.sold < MaxSold
            /\ server' = [server EXCEPT ![e].sold = @ + 1]
  <2> DEFINE n == [row EXCEPT !.sold = @ + 1]
  <2>1. row.sold + 1 \in 0..MaxSold
    BY <1>3, <1>4, <1>10
  <2>2. /\ n \in Row /\ n.status = row.status
        /\ n.types = row.types /\ n.sold = row.sold + 1
    BY <1>2, <1>3, <2>1 DEF Row
  <2>3. server' = [server EXCEPT ![e] = n]
    BY <1>2, <1>10
  <2>4. row.types <= n.types /\ row.sold <= n.sold
    BY <1>3, <1>4, <2>2
  <2>5. row.status # "ABSENT" => n.status # "ABSENT" /\ NotLater(row, n)
    BY <2>2, <2>4 DEF NotLater
  <2> HIDE DEF n
  <2> QED BY <1>5, <2>2, <2>3, <2>5
<1>11. ASSUME NEW u \in Scanner \cup {None}
       PROVE  row.team \ {u} \in SUBSET Scanner
  BY <1>3
<1>12. r.kind = "assign" => row.team \cup {r.scanner} \in SUBSET Scanner
  BY <1>3 DEF Asked
<1>13. r.scanner \in Scanner \cup {None}
  BY DEF Asked, Requests
<1> QED BY <1>1, <1>3, <1>6, <1>7, <1>8, <1>9, <1>10, <1>11, <1>12, <1>13

LEMMA SoldElsewhereSells ==
    ASSUME Typed, NEW e \in Event, SoldElsewhere(e)
    PROVE  server' \in [Event -> Row] /\ Sells(server, server')
<1> DEFINE n == [server[e] EXCEPT !.sold = @ + 1]
<1>1. server \in [Event -> Row] /\ server[e] \in Row
  BY DEF Typed
<1>2. MaxSold \in Nat
  BY OrganizerAssumption
<1>3. server[e].sold \in 0..MaxSold /\ server[e].sold < MaxSold
  BY <1>1 DEF SoldElsewhere, Row
<1>4. server[e].sold + 1 \in 0..MaxSold
  BY <1>2, <1>3
<1>5. /\ n \in Row /\ n.status = server[e].status /\ n.types = server[e].types
      /\ n.team = server[e].team /\ n.sold = server[e].sold + 1
  BY <1>1, <1>4 DEF Row
<1>6. server' = [server EXCEPT ![e] = n]
  BY <1>1 DEF SoldElsewhere
<1> HIDE DEF n
<1>7. /\ server' \in [Event -> Row] /\ server'[e] = n
      /\ \A d \in Event \ {e} : server'[d] = server[d]
  BY <1>1, <1>5, <1>6
<1>8. server[e].sold <= n.sold /\ \A d \in Event : server[d].sold <= server[d].sold
  BY <1>1, <1>3, <1>5, Numbers
<1> QED BY <1>5, <1>7, <1>8 DEF Sells

LEMMA AnyRowStays ==
    ASSUME Typed
    PROVE  Sells(server, server) /\ Grows(server, server)
<1>1. \A d \in Event : server[d].sold <= server[d].sold
  BY Numbers DEF Typed
<1>2. Sells(server, server)
  BY <1>1 DEF Sells
<1> QED BY <1>2, SellsGrows DEF Typed

-----------------------------------------------------------------------------
(* What a step does to a row of call. *)

\* The function c moves on, the others stay where they are.
Becomes(c, n) ==
    /\ n \in CallRows
    /\ call' = [call EXCEPT ![c] = n]

LEMMA Becoming ==
    ASSUME Typed, NEW c \in Call, NEW n, Becomes(c, n)
    PROVE  /\ call' \in [Call -> CallRows]
           /\ call'[c] = n
           /\ \A d \in Call \ {c} : call'[d] = call[d]
  BY DEF Typed, Becomes

\* Every field of a row is of its type, and a row is its fields.
LEMMA RowTypes ==
    ASSUME Typed, NEW c \in Call
    PROVE  /\ call[c] \in CallRows
           /\ call[c].at \in Stages
           /\ call[c].request \in Requests \cup {None}
           /\ call[c].frees \in {"busy", "actionId", "nothing"}
           /\ call[c].list \in Lists
           /\ call[c].todo \in SUBSET Event
           /\ call[c].team \in Teams
  BY DEF Typed, CallRows

LEMMA IdleRow ==
    /\ Idle \in CallRows
    /\ Idle.at = "idle" /\ Idle.request = None /\ Idle.frees = "nothing"
    /\ Idle.list = Nothing /\ Idle.todo = {} /\ Idle.team = Nothing
  BY NothingTypes DEF Idle, CallRows, Stages

LEMMA LoadRow ==
    ASSUME NEW f \in {"busy", "actionId", "nothing"}
    PROVE  /\ Load(f) \in CallRows
           /\ Load(f).at = "list" /\ Load(f).frees = f
           /\ Load(f).list = Nothing /\ Load(f).todo = {} /\ Load(f).team = Nothing
           /\ WellSent(Load(f)) /\ WellKept(Load(f))
<1> DEFINE n == Load(f)
<1> DEFINE m == [Idle EXCEPT !.at = "list"]
<1>1. /\ m \in CallRows /\ m.at = "list" /\ m.list = Nothing
      /\ m.todo = {} /\ m.team = Nothing
  BY IdleRow DEF CallRows, Stages
<1>2. n = [m EXCEPT !.frees = f]
  BY DEF Load
<1> HIDE DEF m
<1>3. n \in CallRows /\ n.at = "list" /\ n.frees = f
      /\ n.list = Nothing /\ n.todo = {} /\ n.team = Nothing
  <2> HIDE DEF n
  <2> QED BY <1>1, <1>2 DEF CallRows
<1> HIDE DEF n
<1>4. WellSent(n) /\ WellKept(n)
  BY <1>3 DEF WellSent, WellKept, Sent
<1> QED BY <1>3, <1>4 DEF n

LEMMA IdleWell == WellSent(Idle) /\ WellKept(Idle)
  BY IdleRow DEF WellSent, WellKept, Sent

\* The rows stay well-formed if the new one is.
LEMMA RowsStayKept ==
    ASSUME Typed, RowsKept, NEW c \in Call, NEW n, Becomes(c, n),
           WellSent(n), WellKept(n)
    PROVE  RowsKept'
<1>1. \A d \in Call : WellSent(call'[d]) /\ WellKept(call'[d])
  BY Becoming DEF RowsKept
<1> QED BY <1>1 DEF RowsKept

\* Moving on, a function keeps its flag.
LEMMA MovingKeepsFlags ==
    ASSUME Typed, FlagsHeld, Lone, NEW c \in Call, NEW n, Becomes(c, n),
           Underway(c), n.at # "idle", n.frees = call[c].frees,
           UNCHANGED <<busy, actionId, raced>>
    PROVE  FlagsHeld' /\ Lone'
<1>1. /\ call'[c] = n
      /\ \A d \in Call \ {c} : call'[d] = call[d]
  BY Becoming
<1>2. \A d \in Call : /\ call'[d].at # "idle" => Underway(d)
                      /\ call'[d].at # "idle" => call'[d].frees = call[d].frees
  BY <1>1 DEF Underway
<1>3. FlagsHeld'
  BY <1>2 DEF FlagsHeld, Underway
<1>4. Lone'
  BY <1>2 DEF Lone, Underway
<1> QED BY <1>3, <1>4

\* Ending, a function gives it up.
LEMMA EndingKeepsFlags ==
    ASSUME Typed, RowsKept, FlagsHeld, Lone, NEW c \in Call, Underway(c), End(c),
           raced' = raced
    PROVE  /\ Becomes(c, Idle)
           /\ RowsKept' /\ FlagsHeld' /\ Lone'
           /\ busy' \in BOOLEAN /\ actionId' \in BOOLEAN
<1>1. Becomes(c, Idle)
  BY IdleRow DEF Becomes, End
<1>2. /\ call'[c] = Idle
      /\ \A d \in Call \ {c} : call'[d] = call[d]
  BY <1>1, Becoming
<1>3. RowsKept'
  BY <1>1, IdleWell, RowsStayKept
<1>4. \A d \in Call : call'[d].at # "idle" => d # c /\ call'[d] = call[d]
  BY <1>2, IdleRow
<1>5. ASSUME NEW d \in Call, call'[d].at # "idle"
      PROVE  call'[d] = call[d] /\ Underway(d) /\ call[d].frees # call[c].frees
  BY <1>4, <1>5 DEF FlagsHeld, Underway
<1>6. FlagsHeld'
  <2>1. ASSUME NEW d \in Call, call'[d].at # "idle"
        PROVE  /\ call'[d].frees = "busy" => busy'
               /\ call'[d].frees = "actionId" => actionId'
    BY <1>5, <2>1 DEF FlagsHeld, End
  <2>2. ASSUME NEW d \in Call, NEW b \in Call, call'[d].at # "idle", call'[b].at # "idle",
               call'[d].frees = call'[b].frees
        PROVE  d = b
    BY <1>5, <2>2 DEF FlagsHeld
  <2> QED BY <2>1, <2>2 DEF FlagsHeld, Underway
<1>7. Lone'
  BY <1>5 DEF Lone, Underway
<1> QED BY <1>1, <1>3, <1>6, <1>7 DEF End

\* While no dialog is opened or closed, and no function asks for something
\* new, the dialogs of those that ask are kept.
LEMMA DialogStays ==
    ASSUME DialogIsKept, form'.modal = form.modal,
           \A c \in Call : Sent(call'[c]) =>
               Sent(call[c]) /\ call'[c].request = call[c].request
    PROVE  DialogIsKept'
  BY DEF DialogIsKept, Sent

\* What is shown stays, and so does what is about to be.
LEMMA InventsNothing ==
    ASSUME Typed, NothingInvented, server' \in [Event -> Row], Grows(server, server'),
           events' = events, raced' = raced,
           \A c \in Call : call'[c].at = "listed" =>
               call[c].at = "listed" /\ call'[c].list = call[c].list
    PROVE  NothingInvented'
<1>1. server \in [Event -> Row] /\ events \in Lists
  BY DEF Typed
<1>2. Behind(events, server')
  BY <1>1, BehindGrows DEF NothingInvented
<1>3. ASSUME NEW c \in Call, call'[c].at = "listed"
      PROVE  Behind(call'[c].list, server') /\ (~raced => Follows(events, call'[c].list))
  <2>1. call[c].at = "listed" /\ call'[c].list = call[c].list /\ call[c].list \in Lists
    BY <1>3, RowTypes
  <2>2. Behind(call[c].list, server) /\ (~raced => Follows(events, call[c].list))
    BY <2>1 DEF NothingInvented
  <2> QED BY <1>1, <2>1, <2>2, BehindGrows
<1> QED BY <1>2, <1>3 DEF NothingInvented

\* With one function under way, every other row is empty.
LEMMA OthersIdle ==
    ASSUME Typed, Lone, ~raced, NEW c \in Call, Underway(c), NEW d \in Call \ {c}
    PROVE  call[d].at = "idle"
  BY DEF Lone, Underway

\* A step of one function says nothing of the others.
LEMMA CatchUpOfOne ==
    ASSUME Typed, Lone, NEW c \in Call, Underway(c), NEW n, Becomes(c, n),
           raced' = raced,
           ~raced /\ ~missed' =>
              /\ n.at = "listed" => Fits(n.list, server')
              /\ n.at = "teams" =>
                    /\ Fits(events', server')
                    /\ TeamsFit(n.team, server')
                    /\ DOMAIN n.team \subseteq DOMAIN events'
                    /\ n.todo = DOMAIN events' \ DOMAIN n.team
              /\ n.at \in {"idle", "sent"} =>
                    /\ Fits(events', server')
                    /\ TeamsFit(assigned', server')
                    /\ DOMAIN assigned' = DOMAIN events'
    PROVE  CatchesUp'
<1>1. /\ call'[c] = n
      /\ \A d \in Call \ {c} : call'[d] = call[d]
  BY Becoming
<1> SUFFICES ASSUME ~raced, ~missed'
             PROVE  /\ \A d \in Call : call'[d].at = "listed" => Fits(call'[d].list, server')
                    /\ \A d \in Call : call'[d].at = "teams" =>
                          /\ Fits(events', server')
                          /\ TeamsFit(call'[d].team, server')
                          /\ DOMAIN call'[d].team \subseteq DOMAIN events'
                          /\ call'[d].todo = DOMAIN events' \ DOMAIN call'[d].team
                    /\ (\A d \in Call : call'[d].at \in {"idle", "sent"}) =>
                          /\ Fits(events', server')
                          /\ TeamsFit(assigned', server')
                          /\ DOMAIN assigned' = DOMAIN events'
  BY DEF CatchesUp
<1>2. \A d \in Call \ {c} : call'[d].at = "idle"
  BY <1>1, OthersIdle
<1>3. \A d \in Call : call'[d].at # "idle" => d = c
  BY <1>2
<1> QED BY <1>1, <1>3

-----------------------------------------------------------------------------
(* Every step keeps the invariant. *)

LEMMA InitKeeps ==
    ASSUME Init
    PROVE  OrganizerInv
<1> DEFINE first == CHOOSE o \in Call : TRUE
<1>1. /\ call = [c \in Call |-> IF c = first THEN Load("nothing") ELSE Idle]
      /\ events = Nothing /\ assigned = Nothing /\ scanners = {}
      /\ server = Already
      /\ form = [modal |-> None, scannerId |-> None]
      /\ busy = FALSE /\ actionId = FALSE /\ late = {} /\ raced = FALSE /\ missed = TRUE
  BY DEF Init
<1> HIDE DEF first
<1>2. \A c \in Call :
          \/ c = first /\ call[c] = Load("nothing")
          \/ call[c] = Idle
  BY <1>1
<1>3. \A c \in Call : call[c].at \in {"idle", "list"} /\ call[c].frees = "nothing"
                      /\ (c # first => call[c].at = "idle")
  BY <1>1, <1>2, IdleRow, LoadRow
<1>4. Typed
  <2>1. server \in [Event -> Row]
    BY <1>1, AlreadyAssumption
  <2>2. call \in [Call -> CallRows]
    BY <1>1, IdleRow, LoadRow
  <2>3. form \in Forms
    BY <1>1 DEF Forms, Modals
  <2> QED BY <1>1, <2>1, <2>2, <2>3, NothingTypes DEF Typed
<1>5. RowsKept
  BY <1>2, IdleWell, LoadRow DEF RowsKept
<1>6. FlagsHeld /\ Lone /\ Heard
  BY <1>1, <1>3 DEF FlagsHeld, Lone, Heard, Underway
<1>7. DialogIsKept
  BY <1>3 DEF DialogIsKept
<1>8. NothingInvented
  BY <1>1, <1>3, NothingTypes DEF NothingInvented, Behind
<1>9. CatchesUp
  BY <1>1 DEF CatchesUp
<1> QED BY <1>4, <1>5, <1>6, <1>7, <1>8, <1>9 DEF OrganizerInv

\* Where no function moves, nor its flags, they are all as they were.
LEMMA CallsStay ==
    ASSUME OrganizerInv, UNCHANGED <<call, busy, actionId, raced>>
    PROVE  RowsKept' /\ FlagsHeld' /\ Lone'
  BY DEF OrganizerInv, RowsKept, FlagsHeld, Lone, Underway

LEMMA SoldElsewhereKeeps ==
    ASSUME OrganizerInv, NEW e \in Event, SoldElsewhere(e)
    PROVE  OrganizerInv'
<1>1. UNCHANGED <<shown, form, busy, actionId, call, late, raced, missed>>
  BY DEF SoldElsewhere
<1>2. server \in [Event -> Row] /\ server' \in [Event -> Row] /\ Sells(server, server')
  BY SoldElsewhereSells DEF OrganizerInv, Typed
<1>3. Typed'
  BY <1>1, <1>2 DEF OrganizerInv, Typed, shown
<1>4. RowsKept' /\ FlagsHeld' /\ Lone'
  BY <1>1, CallsStay
<1>5. Heard' /\ DialogIsKept'
  BY <1>1 DEF OrganizerInv, Heard, DialogIsKept
<1>6. NothingInvented'
  BY <1>1, <1>2, SellsGrows, InventsNothing DEF OrganizerInv, shown
<1>7. CatchesUp'
  <2>1. /\ events \in Lists /\ assigned \in Teams
        /\ \A c \in Call : call[c].list \in Lists /\ call[c].team \in Teams
    BY RowTypes DEF OrganizerInv, Typed
  <2>2. \A l \in Lists : Fits(l, server) => Fits(l, server')
    BY <1>2, FitsSells
  <2>3. \A m \in Teams : TeamsFit(m, server) => TeamsFit(m, server')
    BY <1>2, TeamsFitSells
  <2>4. CatchesUp
    BY DEF OrganizerInv
  <2> QED BY <1>1, <2>1, <2>2, <2>3, <2>4 DEF CatchesUp, shown
<1> QED BY <1>3, <1>4, <1>5, <1>6, <1>7 DEF OrganizerInv

LEMMA HandledLateKeeps ==
    ASSUME OrganizerInv, NEW r \in late, HandledLate(r)
    PROVE  OrganizerInv'
<1>1. UNCHANGED <<shown, form, busy, actionId, call, raced>> /\ missed' = TRUE
      /\ late' = late \ {r} /\ Commit(r)
  BY DEF HandledLate
<1>2. server' \in [Event -> Row] /\ Grows(server, server')
  BY <1>1, CommitGrows DEF OrganizerInv, Typed
<1>3. Typed'
  BY <1>1, <1>2 DEF OrganizerInv, Typed, shown
<1>4. RowsKept' /\ FlagsHeld' /\ Lone'
  BY <1>1, CallsStay
<1>5. Heard' /\ DialogIsKept' /\ CatchesUp'
  BY <1>1 DEF OrganizerInv, Heard, DialogIsKept, CatchesUp
<1>6. NothingInvented'
  BY <1>1, <1>2, InventsNothing DEF OrganizerInv, shown
<1> QED BY <1>3, <1>4, <1>5, <1>6 DEF OrganizerInv

LEMMA HandledKeeps ==
    ASSUME OrganizerInv, NEW c \in Call, Handled(c)
    PROVE  OrganizerInv'
<1> DEFINE n == [call[c] EXCEPT !.at = "answered"]
<1>1. /\ UNCHANGED <<shown, form, busy, actionId, late, raced, missed>>
      /\ call[c].at = "sent" /\ Commit(call[c].request)
      /\ call' = [call EXCEPT ![c].at = "answered"]
  BY DEF Handled
<1>2. /\ Typed /\ RowsKept /\ FlagsHeld /\ Lone /\ Heard
      /\ DialogIsKept /\ NothingInvented
  BY DEF OrganizerInv
<1>3. n \in CallRows /\ n.at = "answered" /\ n.frees = call[c].frees
      /\ n.request = call[c].request
  BY <1>2, RowTypes DEF CallRows, Stages
<1>4. Becomes(c, n)
  BY <1>1, <1>2, <1>3 DEF Becomes, Typed
<1> HIDE DEF n
<1>5. WellSent(call[c])
  BY <1>2 DEF RowsKept
<1>6. WellSent(n) /\ WellKept(n)
  BY <1>1, <1>3, <1>5 DEF WellSent, WellKept, Sent
<1>7. server' \in [Event -> Row] /\ Grows(server, server')
  BY <1>1, <1>2, <1>5, CommitGrows DEF WellSent, Sent
<1>8. Underway(c)
  BY <1>1 DEF Underway
<1>9. call' \in [Call -> CallRows] /\ call'[c] = n /\ \A d \in Call \ {c} : call'[d] = call[d]
  BY <1>2, <1>4, Becoming
<1>10. Typed'
  BY <1>1, <1>2, <1>7, <1>9 DEF Typed, shown
<1>11. RowsKept' /\ FlagsHeld' /\ Lone'
  BY <1>1, <1>2, <1>3, <1>4, <1>6, <1>8, RowsStayKept, MovingKeepsFlags
<1>12. Heard'
  BY <1>1, <1>2 DEF Heard
<1>13. \A d \in Call : Sent(call'[d]) => Sent(call[d]) /\ call'[d].request = call[d].request
  BY <1>1, <1>3, <1>9 DEF Sent
<1>14. DialogIsKept'
  BY <1>1, <1>2, <1>13, DialogStays
<1>15. NothingInvented'
  BY <1>1, <1>2, <1>3, <1>7, <1>9, InventsNothing DEF shown
<1>16. CatchesUp'
  BY <1>1, <1>2, <1>3, <1>4, <1>8, CatchUpOfOne
<1> QED BY <1>10, <1>11, <1>12, <1>14, <1>15, <1>16 DEF OrganizerInv

\* A function ends and its row is empty again.
LEMMA EndKeeps ==
    ASSUME OrganizerInv, NEW c \in Call, Underway(c), End(c),
           UNCHANGED <<server, events, scanners, form, raced>>,
           assigned' \in Teams, late' \subseteq Asked, missed' \in BOOLEAN, Heard',
           ~raced /\ ~missed' =>
              /\ Fits(events, server)
              /\ TeamsFit(assigned', server)
              /\ DOMAIN assigned' = DOMAIN events
    PROVE  OrganizerInv'
<1>1. /\ Typed /\ RowsKept /\ FlagsHeld /\ Lone
      /\ DialogIsKept /\ NothingInvented
  BY DEF OrganizerInv
<1>2. /\ Becomes(c, Idle)
      /\ RowsKept' /\ FlagsHeld' /\ Lone'
      /\ busy' \in BOOLEAN /\ actionId' \in BOOLEAN
  BY <1>1, EndingKeepsFlags
<1>3. call' \in [Call -> CallRows] /\ call'[c] = Idle /\ \A d \in Call \ {c} : call'[d] = call[d]
  BY <1>1, <1>2, Becoming
<1>4. Typed'
  BY <1>1, <1>2, <1>3 DEF Typed
<1>5. \A d \in Call : call'[d].at # "idle" => call'[d] = call[d]
  BY <1>3, IdleRow
<1>6. DialogIsKept'
  BY <1>1, <1>5, DialogStays DEF Sent
<1>7. NothingInvented'
  BY <1>1, <1>5, AnyRowStays, InventsNothing DEF Typed
<1>8. CatchesUp'
  BY <1>1, <1>2, IdleRow, CatchUpOfOne
<1> QED BY <1>2, <1>4, <1>6, <1>7, <1>8 DEF OrganizerInv

LEMMA RefusedKeeps ==
    ASSUME OrganizerInv, NEW c \in Call, Refused(c)
    PROVE  OrganizerInv'
<1>1. /\ call[c].at = "sent" /\ End(c)
      /\ UNCHANGED <<server, shown, form, raced, late, missed>>
  BY DEF Refused, Caught
<1>2. Typed /\ Lone /\ Heard /\ CatchesUp /\ Underway(c)
  BY <1>1 DEF OrganizerInv, Underway
<1>3. assigned' \in Teams /\ late' \subseteq Asked /\ missed' \in BOOLEAN /\ Heard'
  BY <1>1, <1>2 DEF Typed, shown, Heard
<1>4. ASSUME ~raced, ~missed'
      PROVE  /\ Fits(events, server)
             /\ TeamsFit(assigned', server)
             /\ DOMAIN assigned' = DOMAIN events
  <2>1. \A d \in Call : call[d].at \in {"idle", "sent"}
    BY <1>1, <1>2, <1>4, OthersIdle
  <2> QED BY <1>1, <1>2, <1>4, <2>1 DEF CatchesUp, shown
<1> QED BY <1>1, <1>2, <1>3, <1>4, EndKeeps DEF shown

LEMMA LostKeeps ==
    ASSUME OrganizerInv, NEW c \in Call, Lost(c)
    PROVE  OrganizerInv'
<1>1. /\ call[c].at \in {"sent", "answered"} /\ End(c) /\ missed' = TRUE
      /\ late' = IF call[c].at = "sent" THEN late \cup {call[c].request} ELSE late
      /\ UNCHANGED <<server, shown, form, raced>>
  BY DEF Lost, Caught
<1>2. Typed /\ RowsKept /\ Underway(c)
  BY <1>1 DEF OrganizerInv, Underway
<1>3. call[c].request \in Asked
  BY <1>1, <1>2 DEF RowsKept, WellSent, Sent
<1>4. assigned' \in Teams /\ late' \subseteq Asked /\ missed' \in BOOLEAN /\ Heard'
  BY <1>1, <1>2, <1>3 DEF Typed, shown, Heard
<1> QED BY <1>1, <1>2, <1>4, EndKeeps DEF shown

LEMMA LoadFailsKeeps ==
    ASSUME OrganizerInv, NEW c \in Call, LoadFails(c)
    PROVE  OrganizerInv'
<1>1. /\ call[c].at \in {"list", "listed", "teams"} /\ End(c) /\ missed' = TRUE
      /\ UNCHANGED <<server, shown, form, raced, late>>
  BY DEF LoadFails, Caught
<1>2. Typed /\ Underway(c)
  BY <1>1 DEF OrganizerInv, Underway
<1>3. assigned' \in Teams /\ late' \subseteq Asked /\ missed' \in BOOLEAN /\ Heard'
  BY <1>1, <1>2 DEF Typed, shown, Heard
<1> QED BY <1>1, <1>2, <1>3, EndKeeps DEF shown

LEMMA TeamsShownKeeps ==
    ASSUME OrganizerInv, NEW c \in Call, TeamsShown(c)
    PROVE  OrganizerInv'
<1>1. /\ call[c].at = "teams" /\ call[c].todo = {} /\ End(c)
      /\ assigned' = call[c].team
      /\ UNCHANGED <<server, events, scanners, form, late, raced, missed>>
  BY DEF TeamsShown
<1>2. Typed /\ Heard /\ CatchesUp /\ Underway(c)
  BY <1>1 DEF OrganizerInv, Underway
<1>3. assigned' \in Teams /\ late' \subseteq Asked /\ missed' \in BOOLEAN /\ Heard'
  BY <1>1, <1>2, RowTypes DEF Typed, Heard
<1>4. ASSUME ~raced, ~missed'
      PROVE  /\ Fits(events, server)
             /\ TeamsFit(assigned', server)
             /\ DOMAIN assigned' = DOMAIN events
  <2>1. /\ Fits(events, server) /\ TeamsFit(call[c].team, server)
        /\ DOMAIN call[c].team \subseteq DOMAIN events
        /\ call[c].todo = DOMAIN events \ DOMAIN call[c].team
    BY <1>1, <1>2, <1>4 DEF CatchesUp
  <2> QED BY <1>1, <2>1
<1> QED BY <1>1, <1>2, <1>3, <1>4, EndKeeps

\* A function goes on loading.
LEMMA LoadingKeeps ==
    ASSUME OrganizerInv, NEW c \in Call, Underway(c), NEW n, Becomes(c, n),
           n.at \in {"list", "listed", "teams"}, n.frees = call[c].frees, WellKept(n),
           UNCHANGED <<server, assigned, busy, actionId, late, raced>>,
           events' \in Lists, scanners' \in SUBSET Scanner, form' \in Forms,
           missed' \in BOOLEAN, Heard', DialogIsKept', NothingInvented',
           ~raced /\ ~missed' =>
              /\ n.at = "listed" => Fits(n.list, server')
              /\ n.at = "teams" =>
                    /\ Fits(events', server')
                    /\ TeamsFit(n.team, server')
                    /\ DOMAIN n.team \subseteq DOMAIN events'
                    /\ n.todo = DOMAIN events' \ DOMAIN n.team
    PROVE  OrganizerInv'
<1>1. Typed /\ RowsKept /\ FlagsHeld /\ Lone
  BY DEF OrganizerInv
<1>2. call' \in [Call -> CallRows]
  BY <1>1, Becoming
<1>3. Typed'
  BY <1>1, <1>2 DEF Typed
<1>4. WellSent(n)
  BY DEF WellSent, Sent
<1>5. RowsKept' /\ FlagsHeld' /\ Lone'
  BY <1>1, <1>4, RowsStayKept, MovingKeepsFlags
<1>6. CatchesUp'
  BY <1>1, CatchUpOfOne
<1> QED BY <1>3, <1>5, <1>6 DEF OrganizerInv

LEMMA SucceedsKeeps ==
    ASSUME OrganizerInv, NEW c \in Call, Succeeds(c)
    PROVE  OrganizerInv'
<1> DEFINE n == Load(call[c].frees)
           kind == call[c].request.kind
<1>1. /\ call[c].at = "answered" /\ Reset(kind)
      /\ call' = [call EXCEPT ![c] = n]
      /\ UNCHANGED <<server, shown, busy, actionId, late, raced, missed>>
  BY DEF Succeeds
<1>2. /\ Typed /\ RowsKept /\ FlagsHeld /\ Heard
      /\ DialogIsKept /\ NothingInvented /\ Underway(c)
  BY <1>1 DEF OrganizerInv, Underway
<1>3. /\ n \in CallRows /\ n.at = "list" /\ n.frees = call[c].frees
      /\ WellKept(n)
  BY <1>2, RowTypes, LoadRow
<1>4. Becomes(c, n)
  BY <1>1, <1>3 DEF Becomes
<1> HIDE DEF n
<1>5. call'[c] = n /\ \A d \in Call \ {c} : call'[d] = call[d]
  BY <1>2, <1>4, Becoming
<1>6. form' = [modal |-> IF kind \in {"ticket", "assign"} THEN None ELSE form.modal,
               scannerId |-> IF kind = "assign" THEN None ELSE form.scannerId]
  BY <1>1 DEF Reset
<1>7. form' \in Forms
  <2>1. form.modal \in Modals /\ form.scannerId \in Scanner \cup {None} /\ None \in Modals
    BY <1>2 DEF Typed, Forms, Modals
  <2> QED BY <1>6, <2>1 DEF Forms
<1>8. Heard'
  BY <1>1, <1>2 DEF Heard
<1>9. DialogIsKept'
  <2>1. \A d \in Call : Sent(call'[d]) => d # c /\ call'[d] = call[d] /\ Sent(call[d])
    BY <1>3, <1>5 DEF Sent
  <2>2. CASE kind \in {"ticket", "assign"}
    \* Nobody else holds actionId.
    <3>1. call[c].frees = "actionId"
      BY <1>1, <1>2, <2>2 DEF RowsKept, WellSent, Sent
    <3>2. ASSUME NEW d \in Call, Sent(call'[d]), call'[d].request.kind \in {"ticket", "assign"}
          PROVE  FALSE
      <4>1. d # c /\ Sent(call[d]) /\ call[d].request.kind \in {"ticket", "assign"}
        BY <2>1, <3>2
      <4>2. call[d].frees = "actionId"
        BY <1>2, <4>1 DEF RowsKept, WellSent
      <4>3. Underway(d)
        BY <4>1 DEF Underway, Sent
      <4> QED BY <1>2, <3>1, <4>1, <4>2, <4>3 DEF FlagsHeld
    <3> QED BY <3>2 DEF DialogIsKept, Sent
  <2>3. CASE kind \notin {"ticket", "assign"}
    <3>1. form'.modal = form.modal
      BY <1>6, <2>3
    <3> QED BY <1>2, <2>1, <3>1, DialogStays
  <2> QED BY <2>2, <2>3
<1>10. NothingInvented'
  <2>1. server' = server /\ events' = events
    BY <1>1 DEF shown
  <2> QED BY <1>1, <1>2, <1>3, <1>5, <2>1, AnyRowStays, InventsNothing DEF Typed
<1> QED BY <1>1, <1>2, <1>3, <1>4, <1>7, <1>8, <1>9, <1>10, LoadingKeeps DEF Typed, shown

LEMMA ListReadKeeps ==
    ASSUME OrganizerInv, NEW c \in Call, ListRead(c)
    PROVE  OrganizerInv'
<1>0. PICK L \in SUBSET Event :
        /\ AreFirst(L, Existing)
        /\ call' = [call EXCEPT ![c].at = "listed",
              ![c].list = [e \in L |->
                  [status |-> server[e].status, types |-> server[e].types,
                   sold |-> server[e].sold]]]
  BY DEF ListRead
<1> DEFINE m == [call[c] EXCEPT !.at = "listed"]
           n == [m EXCEPT !.list = ListOf(server, L)]
<1>1. /\ call[c].at = "list"
      /\ AreFirst(L, Exist(server))
      /\ call' = [call EXCEPT ![c].at = "listed", ![c].list = ListOf(server, L)]
      /\ missed' = (late # {})
      /\ UNCHANGED <<server, shown, form, busy, actionId, late, raced>>
  BY <1>0 DEF ListRead, ListOf, Existing, Exist
<1>2. /\ Typed /\ RowsKept /\ Heard /\ DialogIsKept /\ NothingInvented /\ Underway(c)
  BY <1>1 DEF OrganizerInv, Underway
<1>3. /\ ListOf(server, L) \in Lists /\ Fits(ListOf(server, L), server)
      /\ Behind(ListOf(server, L), server)
      /\ Follows(events, ListOf(server, L))
  BY <1>1, <1>2, ListOfFits DEF Typed, NothingInvented
<1>4. m \in CallRows /\ m.at = "listed" /\ m.frees = call[c].frees /\ m.team = call[c].team
  BY <1>2, RowTypes DEF CallRows, Stages
<1>5. call' = [call EXCEPT ![c] = n]
  BY <1>1, <1>2 DEF Typed
<1> HIDE DEF m
<1>6. n \in CallRows /\ n.at = "listed" /\ n.frees = call[c].frees /\ n.team = call[c].team
      /\ n.list = ListOf(server, L)
  BY <1>3, <1>4 DEF CallRows
<1> HIDE DEF n
<1>7. Becomes(c, n)
  BY <1>5, <1>6 DEF Becomes
<1>8. WellKept(n)
  BY <1>1, <1>2, <1>6 DEF WellKept, RowsKept
<1>9. call'[c] = n /\ \A d \in Call \ {c} : call'[d] = call[d]
  BY <1>2, <1>7, Becoming
<1>10. Heard'
  BY <1>1 DEF Heard
<1>11. DialogIsKept'
  BY <1>1, <1>2, <1>6, <1>9, DialogStays DEF Sent
<1>12. NothingInvented'
  BY <1>1, <1>2, <1>3, <1>6, <1>9 DEF NothingInvented, shown
<1> QED BY <1>1, <1>2, <1>3, <1>6, <1>7, <1>8, <1>10, <1>11, <1>12, LoadingKeeps DEF Typed, shown

LEMMA ListShownKeeps ==
    ASSUME OrganizerInv, NEW c \in Call, ListShown(c)
    PROVE  OrganizerInv'
<1> DEFINE l == call[c].list
           m == [call[c] EXCEPT !.at = "teams"]
           k == [m EXCEPT !.list = Nothing]
           n == [k EXCEPT !.todo = DOMAIN l]
<1>1. /\ call[c].at = "listed" /\ events' = l /\ scanners' = Scanner
      /\ call' = [call EXCEPT ![c].at = "teams", ![c].list = Nothing,
                              ![c].todo = DOMAIN l]
      /\ UNCHANGED <<server, assigned, form, busy, actionId, late, raced, missed>>
  BY DEF ListShown
<1>2. /\ Typed /\ RowsKept /\ Heard /\ Lone /\ DialogIsKept /\ NothingInvented /\ CatchesUp
      /\ Underway(c)
  BY <1>1 DEF OrganizerInv, Underway
<1>3. l \in Lists /\ DOMAIN l \in SUBSET Event
  BY <1>2, RowTypes, ListTypes
<1>4. m \in CallRows /\ m.at = "teams" /\ m.frees = call[c].frees /\ m.team = call[c].team
  BY <1>2, RowTypes DEF CallRows, Stages
<1>5. call' = [call EXCEPT ![c] = n]
  BY <1>1, <1>2 DEF Typed
<1> HIDE DEF m
<1>6. k \in CallRows /\ k.at = "teams" /\ k.frees = call[c].frees /\ k.team = call[c].team
  BY <1>4, NothingTypes DEF CallRows
<1> HIDE DEF k
<1>7. n \in CallRows /\ n.at = "teams" /\ n.frees = call[c].frees
      /\ n.team = call[c].team /\ n.todo = DOMAIN l
  BY <1>3, <1>6 DEF CallRows
<1> HIDE DEF n
<1>8. Becomes(c, n)
  BY <1>5, <1>7 DEF Becomes
<1>9. n.team = Nothing
  BY <1>1, <1>2, <1>7 DEF RowsKept, WellKept
<1>10. WellKept(n)
  BY <1>7 DEF WellKept
<1>11. call'[c] = n /\ \A d \in Call \ {c} : call'[d] = call[d]
  BY <1>2, <1>8, Becoming
<1>12. Heard'
  BY <1>1, <1>2 DEF Heard
<1>13. DialogIsKept'
  BY <1>1, <1>2, <1>7, <1>11, DialogStays DEF Sent
<1>14. NothingInvented'
  <2>1. Behind(l, server)
    BY <1>1, <1>2 DEF NothingInvented
  <2>2. ASSUME NEW d \in Call, call'[d].at = "listed"
        PROVE  d # c /\ call'[d] = call[d] /\ Behind(call[d].list, server) /\ raced
    BY <1>2, <1>7, <1>11, <2>2, OthersIdle DEF NothingInvented
  <2> QED BY <1>1, <2>1, <2>2 DEF NothingInvented
<1>15. ~raced /\ ~missed => Fits(l, server)
  BY <1>1, <1>2 DEF CatchesUp
<1>16. TeamsFit(n.team, server) /\ DOMAIN n.team = {}
  BY <1>9, NothingTypes DEF TeamsFit
<1> QED BY <1>1, <1>2, <1>3, <1>7, <1>8, <1>10, <1>12, <1>13, <1>14, <1>15, <1>16, LoadingKeeps
        DEF Typed

LEMMA TeamReadKeeps ==
    ASSUME OrganizerInv, NEW c \in Call, NEW e \in Event, TeamRead(c, e)
    PROVE  OrganizerInv'
<1> DEFINE old == call[c].team
           new == [x \in DOMAIN old \cup {e} |-> IF x = e THEN server[e].team ELSE old[x]]
           m == [call[c] EXCEPT !.todo = @ \ {e}]
           n == [m EXCEPT !.team = new]
<1>1. /\ call[c].at = "teams" /\ e \in call[c].todo
      /\ call' = [call EXCEPT ![c].todo = @ \ {e}, 
            ![c].team = [x \in DOMAIN @ \cup {e} |-> IF x = e THEN server[e].team ELSE @[x]]]
      /\ UNCHANGED <<server, shown, form, busy, actionId, late, raced, missed>>
  BY DEF TeamRead
<1>2. /\ Typed /\ RowsKept /\ Heard /\ DialogIsKept /\ NothingInvented /\ CatchesUp
      /\ Underway(c)
  BY <1>1 DEF OrganizerInv, Underway
<1>3. server[e].team \in SUBSET Scanner
  BY <1>2 DEF Typed, Row
<1>4. old \in Teams /\ DOMAIN old \subseteq Event /\ \A x \in DOMAIN old : old[x] \in SUBSET Scanner
  BY <1>2, RowTypes, TeamTypes
<1>5. new \in Teams
  <2>1. new \in [DOMAIN old \cup {e} -> SUBSET Scanner]
    BY <1>3, <1>4
  <2>2. DOMAIN old \cup {e} \in SUBSET Event
    BY <1>4
  <2> HIDE DEF new
  <2> QED BY <2>1, <2>2 DEF Teams
<1>6. /\ m \in CallRows /\ m.at = "teams" /\ m.frees = call[c].frees
      /\ m.todo = call[c].todo \ {e} /\ m.team = old
  BY <1>1, <1>2, RowTypes DEF CallRows
<1>7. call' = [call EXCEPT ![c] = n]
  BY <1>1, <1>2 DEF Typed
<1> HIDE DEF m
<1>8. DOMAIN new = DOMAIN old \cup {e} /\ new[e] = server[e].team
      /\ \A x \in DOMAIN old \ {e} : new[x] = old[x]
  OBVIOUS
<1> HIDE DEF new
<1>9. /\ n \in CallRows /\ n.at = "teams" /\ n.frees = call[c].frees
      /\ n.todo = call[c].todo \ {e} /\ n.team = new
  BY <1>5, <1>6 DEF CallRows
<1> HIDE DEF n
<1>10. Becomes(c, n)
  BY <1>7, <1>9 DEF Becomes
<1>11. WellKept(n)
  BY <1>9 DEF WellKept
<1>12. call'[c] = n /\ \A d \in Call \ {c} : call'[d] = call[d]
  BY <1>2, <1>10, Becoming
<1>13. Heard'
  BY <1>1, <1>2 DEF Heard
<1>14. DialogIsKept'
  BY <1>1, <1>2, <1>9, <1>12, DialogStays DEF Sent
<1>15. server' = server /\ events' = events
  BY <1>1 DEF shown
<1>16. NothingInvented'
  BY <1>1, <1>2, <1>9, <1>12, <1>15, AnyRowStays, InventsNothing DEF Typed
<1>17. ASSUME ~raced, ~missed
       PROVE  /\ Fits(events, server)
              /\ TeamsFit(n.team, server)
              /\ DOMAIN n.team \subseteq DOMAIN events
              /\ n.todo = DOMAIN events \ DOMAIN n.team
  <2>1. /\ Fits(events, server) /\ TeamsFit(old, server)
        /\ DOMAIN old \subseteq DOMAIN events
        /\ call[c].todo = DOMAIN events \ DOMAIN old
    BY <1>1, <1>2, <1>17 DEF CatchesUp
  <2>2. TeamsFit(new, server)
    BY <1>8, <2>1 DEF TeamsFit
  <2> QED BY <1>1, <1>8, <1>9, <2>1, <2>2
<1> QED BY <1>1, <1>2, <1>9, <1>10, <1>11, <1>13, <1>14, <1>15, <1>16, <1>17, LoadingKeeps
        DEF Typed, shown

\* A click: what the page asks for is well asked, and its dialog is open.
LEMMA SendKeeps ==
    ASSUME OrganizerInv, NEW kind \in Actions \cup {"create"},
           NEW e \in Event \cup {None}, NEW u \in Scanner \cup {None},
           kind = "assign" => u \in Scanner,
           IF kind = "create" THEN ~busy ELSE ~actionId,
           kind \in {"ticket", "assign"} =>
               /\ form.modal # None /\ form.modal.event = e
               /\ form.modal.type = "ticket" <=> kind = "ticket",
           Send(kind, e, u)
    PROVE  OrganizerInv'
<1> DEFINE c == CHOOSE c \in Unused : TRUE
           r == [kind |-> kind, event |-> e, scanner |-> u]
           flag == IF kind = "create" THEN "busy" ELSE "actionId"
           m == [Idle EXCEPT !.at = "sent"]
           k == [m EXCEPT !.request = r]
           n == [k EXCEPT !.frees = flag]
<1>1. /\ Unused # {}
      /\ call' = [call EXCEPT ![c] = n]
      /\ busy' = (busy \/ kind = "create")
      /\ actionId' = (actionId \/ kind # "create")
      /\ raced' = (raced \/ busy \/ actionId
                     \/ \E d \in Call : call[d].frees = "nothing" /\ call[d] # Idle)
      /\ UNCHANGED <<server, shown, form, late, missed>>
  BY DEF Send
<1>2. /\ Typed /\ RowsKept /\ FlagsHeld /\ Lone /\ Heard
      /\ DialogIsKept /\ NothingInvented /\ CatchesUp
  BY DEF OrganizerInv
<1>3. c \in Call /\ call[c] = Idle
  BY <1>1 DEF Unused
<1> HIDE DEF c
<1>4. r \in Asked /\ r.kind = kind /\ r.event = e /\ r.scanner = u
  BY DEF Asked, Requests
<1> HIDE DEF r
<1>5. m \in CallRows /\ m.at = "sent"
  BY IdleRow DEF CallRows, Stages
<1> HIDE DEF m
<1>6. k \in CallRows /\ k.at = "sent" /\ k.request = r
  BY <1>4, <1>5 DEF CallRows, Asked
<1> HIDE DEF k
<1>7. flag \in {"busy", "actionId", "nothing"}
  OBVIOUS
<1>8. n \in CallRows /\ n.at = "sent" /\ n.request = r /\ n.frees = flag
  BY <1>6, <1>7 DEF CallRows
<1> HIDE DEF n
<1>9. Becomes(c, n)
  BY <1>1, <1>8 DEF Becomes
<1>10. call' \in [Call -> CallRows] /\ call'[c] = n /\ \A d \in Call \ {c} : call'[d] = call[d]
  BY <1>2, <1>3, <1>9, Becoming
<1>11. WellSent(n) /\ WellKept(n)
  BY <1>4, <1>8 DEF WellSent, WellKept, Sent
<1>12. RowsKept'
  BY <1>2, <1>3, <1>9, <1>11, RowsStayKept
<1>13. Typed'
  BY <1>1, <1>2, <1>10 DEF Typed, shown
<1>14. FlagsHeld'
  <2>1. ASSUME NEW d \in Call, call'[d].at # "idle"
        PROVE  /\ call'[d].frees = "busy" => busy'
               /\ call'[d].frees = "actionId" => actionId'
    <3>1. CASE d = c
      BY <1>1, <1>8, <1>10, <3>1
    <3>2. CASE d # c
      <4>1. call'[d] = call[d]
        BY <1>10, <3>2
      <4> QED BY <1>1, <1>2, <2>1, <4>1 DEF FlagsHeld, Underway
    <3> QED BY <3>1, <3>2
  <2>2. ASSUME NEW d \in Call \ {c}, call'[d].at # "idle"
        PROVE  call'[d].frees # flag
    <3>1. call'[d] = call[d]
      BY <1>10
    <3> QED BY <1>2, <2>2, <3>1 DEF FlagsHeld, Underway
  <2>3. ASSUME NEW d \in Call, NEW b \in Call, call'[d].at # "idle", call'[b].at # "idle",
               call'[d].frees = call'[b].frees
        PROVE  d = b
    <3>1. CASE d = c \/ b = c
      BY <1>8, <1>10, <2>2, <2>3, <3>1
    <3>2. CASE d # c /\ b # c
      <4>1. call'[d] = call[d] /\ call'[b] = call[b]
        BY <1>10, <3>2
      <4> QED BY <1>2, <2>3, <4>1 DEF FlagsHeld, Underway
    <3> QED BY <3>1, <3>2
  <2> QED BY <2>1, <2>3 DEF FlagsHeld, Underway
<1>15. ASSUME ~raced'
       PROVE  ~raced /\ \A d \in Call : call[d].at = "idle"
  <2>1. ~raced /\ ~busy /\ ~actionId /\ \A d \in Call : call[d].frees = "nothing" => call[d] = Idle
    BY <1>1, <1>15
  <2>2. SUFFICES ASSUME NEW d \in Call, call[d].at # "idle" PROVE FALSE
    BY <2>1
  <2>3. call[d].frees # "busy" /\ call[d].frees # "actionId"
    BY <1>2, <2>1, <2>2 DEF FlagsHeld, Underway
  <2>4. call[d].frees = "nothing"
    BY <1>2, <2>3, RowTypes
  <2> QED BY <2>1, <2>2, <2>4, IdleRow
<1>16. Lone'
  <2>1. ASSUME ~raced', NEW d \in Call, call'[d].at # "idle"
        PROVE  d = c
    BY <1>10, <1>15, <2>1
  <2> QED BY <2>1 DEF Lone, Underway
<1>17. Heard'
  BY <1>1, <1>2 DEF Heard
<1>18. DialogIsKept'
  <2>1. \A d \in Call \ {c} : call'[d] = call[d]
    BY <1>10
  <2>2. call'[c].request = r /\ r.kind = kind /\ r.event = e
    BY <1>4, <1>8, <1>10
  <2>3. form' = form
    BY <1>1
  <2>4. ASSUME NEW d \in Call, call'[d].at \in {"sent", "answered"},
               call'[d].request.kind \in {"ticket", "assign"}
        PROVE  /\ form'.modal # None
               /\ form'.modal.event = call'[d].request.event
               /\ form'.modal.type = "ticket" <=> call'[d].request.kind = "ticket"
    <3>1. CASE d = c
      BY <2>2, <2>3, <2>4, <3>1
    <3>2. CASE d # c
      <4>1. call'[d] = call[d]
        BY <2>1, <3>2
      <4> QED BY <1>2, <2>3, <2>4, <4>1 DEF DialogIsKept
    <3> QED BY <3>1, <3>2
  <2> QED BY <2>4 DEF DialogIsKept
<1>19. NothingInvented'
  <2>1. server' = server /\ events' = events
    BY <1>1 DEF shown
  <2>2. ASSUME NEW d \in Call, call'[d].at = "listed"
        PROVE  call'[d] = call[d] /\ raced'
    BY <1>8, <1>10, <1>15, <2>2
  <2> QED BY <1>2, <2>1, <2>2 DEF NothingInvented
<1>20. CatchesUp'
  <2>1. server' = server /\ events' = events /\ assigned' = assigned /\ missed' = missed
    BY <1>1 DEF shown
  <2>2. ASSUME ~raced', ~missed'
        PROVE  /\ \A d \in Call : call'[d].at \in {"idle", "sent"}
               /\ Fits(events, server) /\ TeamsFit(assigned, server)
               /\ DOMAIN assigned = DOMAIN events
    BY <1>2, <1>8, <1>10, <1>15, <2>1, <2>2 DEF CatchesUp
  <2>3. ~raced' /\ ~missed' => \A d \in Call : call'[d].at # "listed" /\ call'[d].at # "teams"
    BY <2>2
  <2> QED BY <2>1, <2>2, <2>3 DEF CatchesUp
<1> QED BY <1>12, <1>13, <1>14, <1>16, <1>17, <1>18, <1>19, <1>20 DEF OrganizerInv

\* The buttons, with what each asks for.
LEMMA ClickKeeps ==
    ASSUME OrganizerInv, Click
    PROVE  OrganizerInv'
<1>1. Typed
  BY DEF OrganizerInv
<1>2. None \notin Scanner
  BY OrganizerAssumption
<1>3. form.modal # None => form.modal.event \in Event
  BY <1>1 DEF Typed, Forms, Modals
<1>4. form.scannerId # None => form.scannerId \in Scanner
  BY <1>1 DEF Typed, Forms
<1>5. CASE Create
  <2>1. ~busy /\ Send("create", None, None)
    BY <1>5 DEF Create
  <2> QED BY <2>1, SendKeeps
<1>6. CASE AddTicket
  <2>1. /\ form.modal # None /\ form.modal.type = "ticket"
        /\ ~actionId /\ Send("ticket", form.modal.event, None)
    BY <1>6 DEF AddTicket, Act
  <2> QED BY <1>3, <2>1, SendKeeps DEF Actions
<1>7. CASE Assign
  <2>1. /\ form.modal # None /\ form.modal.type = "scanner" /\ form.scannerId # None
        /\ ~actionId /\ Send("assign", form.modal.event, form.scannerId)
    BY <1>7 DEF Assign, Act
  <2> QED BY <1>3, <1>4, <2>1, SendKeeps DEF Actions
<1>8. ASSUME NEW e \in Event, Publish(e) \/ Cancel(e) \/ Issue(e)
      PROVE  OrganizerInv'
  <2>1. PICK kind \in {"publish", "cancel", "issue"} : ~actionId /\ Send(kind, e, None)
    BY <1>8 DEF Publish, Cancel, Issue, Act
  <2> QED BY <2>1, SendKeeps DEF Actions
<1>9. ASSUME NEW e \in Event, NEW u \in Scanner, Remove(e, u)
      PROVE  OrganizerInv'
  <2>1. ~actionId /\ Send("remove", e, u)
    BY <1>9 DEF Remove, Act
  <2> QED BY <2>1, SendKeeps DEF Actions
<1> QED BY <1>5, <1>6, <1>7, <1>8, <1>9 DEF Click

\* While actionId is held, no dialog is opened or closed by hand.
LEMMA DialogKeeps ==
    ASSUME OrganizerInv, Dialog
    PROVE  OrganizerInv'
<1>1. /\ Typed /\ RowsKept /\ FlagsHeld /\ Heard
      /\ DialogIsKept /\ NothingInvented /\ CatchesUp
  BY DEF OrganizerInv
<1> DEFINE OnlyForm ==
        /\ UNCHANGED <<server, shown, busy, actionId, call, late, raced, missed>>
        /\ form' \in Forms
        /\ form'.modal = form.modal \/ ~actionId
<1>2. OnlyForm
  <2>1. form \in Forms /\ None \in Modals
    BY <1>1 DEF Typed, Modals
  <2>2. CASE CloseModal
    <3> DEFINE m == [form EXCEPT !.modal = None]
    <3>1. m \in Forms
      BY <2>1 DEF Forms
    <3>2. form' = [m EXCEPT !.scannerId = None]
      BY <2>2 DEF CloseModal
    <3> HIDE DEF m
    <3>3. form' \in Forms
      BY <3>1, <3>2 DEF Forms
    <3> QED BY <2>2, <3>3 DEF CloseModal
  <2>3. ASSUME NEW e \in Event, NEW type \in {"ticket", "scanner"}, OpenModal(e, type)
        PROVE  OnlyForm
    <3>1. [event |-> e, type |-> type] \in Modals
      BY DEF Modals
    <3>2. form' \in Forms
      BY <2>1, <2>3, <3>1 DEF OpenModal, Forms
    <3> QED BY <2>3, <3>2 DEF OpenModal
  <2>4. ASSUME NEW u \in Scanner, ChooseScanner(u)
        PROVE  OnlyForm
    <3>1. form' = [form EXCEPT !.scannerId = u]
      BY <2>4 DEF ChooseScanner
    <3>2. form' \in Forms /\ form'.modal = form.modal
      BY <2>1, <3>1 DEF Forms
    <3> QED BY <2>4, <3>2 DEF ChooseScanner
  <2> QED BY <2>2, <2>3, <2>4 DEF Dialog
<1>3. Typed'
  BY <1>1, <1>2 DEF Typed, shown
<1>4. RowsKept' /\ FlagsHeld' /\ Lone'
  BY <1>2, CallsStay
<1>5. Heard' /\ NothingInvented' /\ CatchesUp'
  BY <1>1, <1>2 DEF Heard, NothingInvented, CatchesUp, shown
<1>6. DialogIsKept'
  <2>1. CASE form'.modal = form.modal
    BY <1>1, <1>2, <2>1, DialogStays
  <2>2. CASE ~actionId
    <3>1. ASSUME NEW c \in Call, Sent(call[c]), call[c].request.kind \in {"ticket", "assign"}
          PROVE  FALSE
      <4>1. call[c].frees = "actionId"
        BY <1>1, <3>1 DEF RowsKept, WellSent
      <4> QED BY <1>1, <2>2, <3>1, <4>1 DEF FlagsHeld, Underway, Sent
    <3>2. call' = call
      BY <1>2
    <3> QED BY <3>1, <3>2 DEF DialogIsKept, Sent
  <2> QED BY <1>2, <2>1, <2>2
<1> QED BY <1>3, <1>4, <1>5, <1>6 DEF OrganizerInv

LEMMA NextKeeps ==
    ASSUME OrganizerInv, [Next]_vars
    PROVE  OrganizerInv'
<1>1. CASE Click
  BY <1>1, ClickKeeps
<1>2. CASE Dialog
  BY <1>2, DialogKeeps
<1>3. ASSUME NEW c \in Call, Advance(c)
      PROVE  OrganizerInv'
  BY <1>3, HandledKeeps, RefusedKeeps, LostKeeps, SucceedsKeeps, ListReadKeeps,
     ListShownKeeps, TeamsShownKeeps, LoadFailsKeeps, TeamReadKeeps DEF Advance
<1>4. ASSUME NEW r \in late, HandledLate(r)
      PROVE  OrganizerInv'
  BY <1>4, HandledLateKeeps
<1>5. ASSUME NEW e \in Event, SoldElsewhere(e)
      PROVE  OrganizerInv'
  BY <1>5, SoldElsewhereKeeps
<1>6. CASE UNCHANGED vars
  BY <1>6 DEF vars, shown, OrganizerInv, Typed, RowsKept, FlagsHeld, Lone, Heard, Underway,
     DialogIsKept, NothingInvented, CatchesUp
<1> QED BY <1>1, <1>2, <1>3, <1>4, <1>5, <1>6 DEF Next

-----------------------------------------------------------------------------
(* Theorems *)

\* The inductive invariant holds in every state of every visit, whatever of
\* load, click, refusal, lost connection and late request comes in between.
THEOREM InvariantHolds == Spec => []OrganizerInv
<1>1. Init => OrganizerInv
  BY InitKeeps
<1>2. OrganizerInv /\ [Next]_vars => OrganizerInv'
  BY NextKeeps
<1> QED BY <1>1, <1>2, PTL DEF Spec

\* Type correctness.  That the scanners of an event are accounts rests on the
\* form: nobody is sent to the server as nobody (Asked).
THEOREM TypeCorrect == Spec => []TypeOK
<1>1. OrganizerInv => TypeOK
  <2> SUFFICES ASSUME OrganizerInv PROVE TypeOK
    OBVIOUS
  <2>1. Typed
    BY DEF OrganizerInv
  <2>2. form.modal \in Modals /\ form.scannerId \in Scanner \cup {None}
    BY <2>1 DEF Typed, Forms
  <2>3. \A c \in Call : /\ call[c].request \in Requests \cup {None}
                        /\ call[c].frees \in {"busy", "actionId", "nothing"}
                        /\ call[c].at \in Stages
                        /\ call[c].list \in Lists /\ call[c].team \in Teams
                        /\ call[c].todo \subseteq Event
    BY <2>1, RowTypes
  <2>4. {busy, actionId, raced, missed} \subseteq BOOLEAN
    BY <2>1 DEF Typed
  <2>5. late \subseteq Requests
    BY <2>1 DEF Typed, Asked
  <2> QED BY <2>1, <2>2, <2>3, <2>4, <2>5 DEF TypeOK, Typed, Modals, Stages
<1> QED BY <1>1, InvariantHolds, PTL

\* Once a load has ended well and nothing is under way, the page shows the
\* first events, as many as a list has room for, as the server has them but
\* for sales since.
THEOREM ThePageCatchesUp == Spec => []PageCatchesUp
<1>1. OrganizerInv => PageCatchesUp
  <2> SUFFICES ASSUME OrganizerInv, \A c \in Call : call[c] = Idle, ~raced, ~missed
               PROVE  /\ AreFirst(DOMAIN events, Existing)
                      /\ \A e \in DOMAIN events :
                            /\ events[e].status = server[e].status
                            /\ events[e].types = server[e].types
                            /\ events[e].sold <= server[e].sold
                            /\ assigned[e] = server[e].team
    BY DEF PageCatchesUp
  <2>1. \A c \in Call : call[c].at \in {"idle", "sent"}
    BY IdleRow
  <2>2. Fits(events, server) /\ TeamsFit(assigned, server) /\ DOMAIN assigned = DOMAIN events
    BY <2>1 DEF OrganizerInv, CatchesUp
  <2>3. Existing = Exist(server)
    BY DEF Existing, Exist
  <2> QED BY <2>2, <2>3 DEF Fits, TeamsFit
<1> QED BY <1>1, InvariantHolds, PTL

\* The dialog that an answer closes is the one that its request came from.
THEOREM TheDialogIsKept == Spec => []DialogIsKept
<1>1. OrganizerInv => DialogIsKept
  BY DEF OrganizerInv
<1> QED BY <1>1, InvariantHolds, PTL

\* What the page shows next is never older than what it shows, and leaves out
\* nothing but what has no place in a full list.
THEOREM NothingGoesBack == Spec => NeverBackward
<1> DEFINE Forward ==
        ~raced => \A e \in DOMAIN events :
          \/ Outranked(e, DOMAIN events')
          \/ /\ e \in DOMAIN events'
             /\ events'[e].status = "DRAFT" => events[e].status = "DRAFT"
             /\ events[e].status = "CANCELLED" => events'[e].status = "CANCELLED"
             /\ events'[e].types >= events[e].types
             /\ events'[e].sold >= events[e].sold
<1>1. ASSUME OrganizerInv, [Next]_vars
      PROVE  events' = events \/ \E c \in Call : ListShown(c)
  BY <1>1 DEF Next, vars, shown, Click, Dialog, Advance, Create, AddTicket, Assign,
     Publish, Cancel, Issue, Remove, Act, Send, CloseModal, OpenModal, ChooseScanner,
     Handled, Refused, Lost, LoadFails, Caught, Succeeds, ListRead, TeamRead, TeamsShown,
     HandledLate, SoldElsewhere
<1>2. ASSUME OrganizerInv, NEW c \in Call, ListShown(c)
      PROVE  Forward
  <2>1. call[c].at = "listed" /\ events' = call[c].list
    BY <1>2 DEF ListShown
  <2>2. Typed /\ (~raced => Follows(events, events'))
    BY <1>2, <2>1 DEF OrganizerInv, NothingInvented
  <2>3. events \in Lists /\ events' \in Lists
    BY <2>1, <2>2, RowTypes DEF Typed
  <2>4. /\ \A e \in DOMAIN events : events[e].types \in Nat /\ events[e].sold \in Nat
        /\ \A e \in DOMAIN events' : events'[e].types \in Nat /\ events'[e].sold \in Nat
    BY <2>3, ListTypes, Numbers
  <2> QED BY <2>2, <2>4 DEF Follows, NotLater
<1>3. ASSUME OrganizerInv, events' = events
      PROVE  [Forward]_vars
  <2>1. events \in Lists
    BY <1>3 DEF OrganizerInv, Typed
  <2>2. \A e \in DOMAIN events : events[e].types \in Nat /\ events[e].sold \in Nat
    BY <2>1, ListTypes, Numbers
  <2> QED BY <1>3, <2>2
<1>4. OrganizerInv /\ [Next]_vars => [Forward]_vars
  BY <1>1, <1>2, <1>3
<1> QED BY <1>4, InvariantHolds, PTL DEF Spec, NeverBackward

=============================================================================
