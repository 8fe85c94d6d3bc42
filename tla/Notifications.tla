---------------------------- MODULE Notifications ----------------------------
(***************************************************************************)
(* Notifications, from the transaction that writes one to the list a tab   *)
(* of the web app keeps (lib/useNotifications.ts).  The row commits with   *)
(* what it tells of; then an event is emitted to the room of its owner     *)
(* (infrastructure/websocket/socket.ts), where the tab is while its socket *)
(* is connected.  The tab fetches the list once, when it is loaded.        *)
(*                                                                         *)
(* The server's requests run side by side: events are emitted in any order *)
(* after their commits.  A socket keeps the order of what is sent on it.   *)
(***************************************************************************)
EXTENDS Sequences

CONSTANTS
    User,   \* accounts
    Note,   \* rows of notifications
    None

ASSUME NotificationsAssumption == None \notin User \cup Note

VARIABLES
    row,        \* owner of each notification, and whether readAt is set
    pending,    \* events of committed rows that have not been emitted
    joined,     \* whose room the tab's socket is in, on the server
    pipe,       \* events on their way to the tab
    auth,       \* who is signed in, as the tab shows it
    token,      \* whose access token the browser stores (tg_access)
    socket,     \* whose token the tab's Socket object carries
    listening,  \* that object has the listeners of useNotifications
    boot,       \* whose /users/me the tab waits for since it was loaded
    fetch,      \* the list asked for when the tab was loaded
    list,       \* React state: the notifications, and which of them are read
    stranded,   \* history: a session was given up without signing out, or is
                \* being restored, when somebody signs in: its socket stays
    lost        \* history: notifications whose event was lost or overwritten

tab == <<auth, token, socket, listening, boot, fetch, list>>
vars == <<row, pending, joined, pipe, tab, stranded, lost>>

Events == [type : {"created", "read"}, note : Note]
Lists == UNION {[N -> BOOLEAN] : N \in SUBSET Note}
Nobody == [n \in {} |-> FALSE]

TypeOK ==
    /\ row \in [Note -> [user : User \cup {None}, read : BOOLEAN]]
    /\ pending \subseteq Events
    /\ pipe \in Seq(Events)
    /\ {joined, auth, token, socket, boot} \subseteq User \cup {None}
    /\ {listening, stranded} \subseteq BOOLEAN
    /\ fetch \in [at : {"none", "refused", "asked", "read", "done"}, user : User \cup {None},
                  answer : Lists]
    /\ list \in Lists
    /\ lost \subseteq Note

NoFetch == [at |-> "none", user |-> None, answer |-> Nobody]

CreatedIn(events) == {m.note : m \in {m \in events : m.type = "created"}}
InPipe == {pipe[i] : i \in DOMAIN pipe}

-----------------------------------------------------------------------------
(* The server *)

\* Mutant: the event is emitted within the transaction, which may roll back.
CreateEmitting(n, u) ==
    /\ row[n].user = None
    /\ row' \in {row, [row EXCEPT ![n].user = u]}
    /\ IF joined = u
       THEN pipe' = Append(pipe, [type |-> "created", note |-> n]) /\ UNCHANGED lost
       ELSE lost' = lost \cup {n} /\ UNCHANGED pipe
    /\ UNCHANGED <<pending, joined, tab, stranded>>

\* A transfer, a check-in or an expiry commits with the row.
Create(n, u) ==
    /\ row[n].user = None
    /\ row' = [row EXCEPT ![n].user = u]
    /\ pending' = pending \cup {[type |-> "created", note |-> n]}
    /\ UNCHANGED <<joined, pipe, tab, stranded, lost>>

\* readNotification.  A second call would emit the same again.
Read(n) ==
    /\ row[n].user # None /\ ~row[n].read
    /\ row' = [row EXCEPT ![n].read = TRUE]
    /\ pending' = pending \cup {[type |-> "read", note |-> n]}
    /\ UNCHANGED <<joined, pipe, tab, stranded, lost>>

\* To the room of the owner, and to nobody if nobody is there.
Emit(m) ==
    /\ m \in pending
    /\ pending' = pending \ {m}
    /\ IF joined = row[m.note].user
       THEN pipe' = Append(pipe, m) /\ UNCHANGED lost
       ELSE lost' = lost \cup CreatedIn({m}) /\ UNCHANGED pipe
    /\ UNCHANGED <<row, joined, tab, stranded>>

\* The handshake is checked once; the room is the account's of the token.
Connect ==
    /\ socket # None /\ joined = None
    /\ joined' = socket
    /\ UNCHANGED <<row, pending, pipe, tab, stranded, lost>>

\* The connection breaks; what was on it is gone.
Drop ==
    /\ joined' = None
    /\ pipe' = <<>>
    /\ lost' = lost \cup CreatedIn(InPipe)

Disconnect ==
    /\ joined # None
    /\ Drop
    /\ UNCHANGED <<row, pending, tab, stranded>>

\* The process dies: commits stay, events that were to follow them do not.
Crash ==
    /\ pending' = {}
    /\ joined' = None
    /\ pipe' = <<>>
    /\ lost' = lost \cup CreatedIn(InPipe) \cup CreatedIn(pending)
    /\ UNCHANGED <<row, tab, stranded>>

-----------------------------------------------------------------------------
(* The tab: its list *)

\* Mutant: a new notification replaces the list.
ShowAlone(m) == IF m.type = "created" THEN [n \in {m.note} |-> FALSE]
                ELSE [n \in DOMAIN list |-> list[n] \/ n = m.note]

\* onCreated and onRead; what is created is unread, whatever came before.
Show(m) == IF m.type = "created"
           THEN [n \in DOMAIN list \cup {m.note} |-> n # m.note /\ list[n]]
           ELSE [n \in DOMAIN list |-> list[n] \/ n = m.note]

Deliver ==
    /\ pipe # <<>>
    /\ pipe' = Tail(pipe)
    /\ IF listening
       THEN list' = Show(Head(pipe)) /\ lost' = lost \ DOMAIN list'
       ELSE lost' = lost \cup CreatedIn({Head(pipe)}) /\ UNCHANGED list
    /\ UNCHANGED <<row, pending, joined, auth, token, socket, listening, boot, fetch, stranded>>

\* The interceptor of lib/api.ts answers the 401 with a refresh.  Its token is
\* stored for everybody, over one that a sign-in has stored meanwhile.
Refreshed ==
    /\ fetch.at = "refused"
    /\ fetch' = [fetch EXCEPT !.at = "asked"]
    /\ token' = fetch.user
    /\ UNCHANGED <<row, pending, joined, pipe, auth, socket, listening, boot, list,
                   stranded, lost>>

FetchRead ==
    /\ fetch.at = "asked"
    /\ fetch' = [fetch EXCEPT !.at = "read",
                    !.answer = [n \in {n \in Note : row[n].user = fetch.user} |-> row[n].read]]
    /\ UNCHANGED <<row, pending, joined, pipe, auth, token, socket, listening, boot, list,
                   stranded, lost>>

\* Mutant: the answer is dropped if events were faster.
FetchShownIfFirst ==
    /\ fetch.at = "read"
    /\ list' = IF DOMAIN list = {} THEN fetch.answer ELSE list
    /\ lost' = lost \ DOMAIN list'
    /\ fetch' = [NoFetch EXCEPT !.at = "done", !.user = fetch.user]
    /\ UNCHANGED <<row, pending, joined, pipe, auth, token, socket, listening, boot, stranded>>

\* The answer takes the place of what events have brought meanwhile.
FetchShown ==
    /\ fetch.at = "read"
    /\ list' = fetch.answer
    /\ lost' = (lost \cup DOMAIN list) \ DOMAIN list'
    /\ fetch' = [NoFetch EXCEPT !.at = "done", !.user = fetch.user]
    /\ UNCHANGED <<row, pending, joined, pipe, auth, token, socket, listening, boot, stranded>>

FetchFails ==
    /\ fetch.at \in {"refused", "asked", "read"}
    /\ fetch' = NoFetch
    /\ UNCHANGED <<row, pending, joined, pipe, auth, token, socket, listening, boot, list,
                   stranded, lost>>

-----------------------------------------------------------------------------
(* The tab: signing in and out *)

\* The tab is loaded.  The effect of useNotifications runs first: without a
\* token there is no socket to listen to, then or later.  The list is asked
\* for all the same; if the browser has a cookie, for the account of that.
Load ==
    /\ socket' = token /\ listening' = (token # None)
    /\ Drop
    /\ auth' = None /\ boot' = token
    /\ \/ token # None /\ fetch' = [NoFetch EXCEPT !.at = "asked", !.user = token]
       \/ /\ token = None
          /\ \/ fetch' = NoFetch
             \/ \E u \in User : fetch' = [NoFetch EXCEPT !.at = "refused", !.user = u]
    /\ list' = Nobody
    /\ stranded' = FALSE
    /\ UNCHANGED <<row, pending, token>>

\* connectSocket, for the token of u: a socket that is connected is left as it
\* is, one that is not is given the token, and a new one has no listeners.
ConnectSocket(u) ==
    /\ socket' = IF joined # None THEN socket ELSE u
    /\ listening' = (listening /\ socket # None)

\* Whoever has signed in meanwhile, the tab shows who it asked for.
Restored ==
    /\ boot # None
    /\ boot' = None /\ auth' = boot
    /\ IF token = None THEN UNCHANGED <<socket, listening>> ELSE ConnectSocket(token)
    /\ UNCHANGED <<row, pending, joined, pipe, token, fetch, list, stranded, lost>>

\* Nothing is disconnected when the session cannot be restored.
NotRestored ==
    /\ boot # None
    /\ boot' = None /\ auth' = None
    /\ token' = None
    /\ stranded' = TRUE
    /\ UNCHANGED <<row, pending, joined, pipe, socket, listening, fetch, list, lost>>

\* The session, the account and the socket, as one step.  The form is there
\* for everybody, whoever is signed in.
Login(u) ==
    /\ auth' = u /\ token' = u
    /\ ConnectSocket(u)
    /\ stranded' = (stranded \/ boot # None \/ auth # None)
    /\ UNCHANGED <<row, pending, joined, pipe, boot, fetch, list, lost>>

\* Mutant: the socket stays when the user signs out.
LogoutKeepsSocket ==
    /\ auth # None
    /\ auth' = None /\ token' = None
    /\ UNCHANGED <<row, pending, joined, pipe, socket, listening, boot, fetch, list,
                   stranded, lost>>

Logout ==
    /\ auth # None
    /\ auth' = None /\ token' = None
    /\ socket' = None /\ listening' = FALSE
    /\ Drop
    /\ UNCHANGED <<row, pending, boot, fetch, list, stranded>>

-----------------------------------------------------------------------------

Init ==
    /\ row = [n \in Note |-> [user |-> None, read |-> FALSE]]
    /\ pending = {}
    /\ joined = None /\ pipe = <<>>
    /\ auth = None /\ token = None /\ socket = None /\ listening = FALSE /\ boot = None
    /\ fetch = NoFetch
    /\ list = Nobody
    /\ stranded = FALSE
    /\ lost = {}

Fetch == Refreshed \/ FetchRead \/ FetchShown \/ FetchFails

Next ==
    \/ \E n \in Note, u \in User : Create(n, u)
    \/ \E n \in Note : Read(n)
    \/ \E m \in pending : Emit(m)
    \/ Connect \/ Disconnect \/ Crash \/ Deliver \/ Fetch
    \/ Load \/ Restored \/ NotRestored \/ Logout
    \/ \E u \in User : Login(u)

Spec == Init /\ [][Next]_vars

\* A request is answered, or its connection fails.
FairSpec == Spec /\ WF_vars(Fetch)

-----------------------------------------------------------------------------
(* Properties. *)

\* What the tab shows is in the database: no notification of something that
\* did not happen, and none shown as read that is not.
ShownIsTrue ==
    \A n \in DOMAIN list : row[n].user # None /\ (list[n] => row[n].read)

\* The list is never made of two accounts' notifications: whoever signs out
\* and in, the answer to the fetch and the events belong to one account.  The
\* exception is who signs in without signing out: while a session is there or
\* being restored, or after that failed.  Its socket goes over to them.
OneAccount ==
    ~stranded => \A n, m \in DOMAIN list : row[n].user = row[m].user

\* Once the list was fetched and everything has arrived, a notification is
\* missing from it only if its event was lost: emitted while the tab was not
\* connected, on a connection that broke, by a process that died before it, to
\* a tab without listeners, or overwritten by the answer to the fetch.
NothingElseIsMissed ==
    fetch.at = "done" /\ pending = {} /\ pipe = <<>> =>
        \A n \in Note : row[n].user = fetch.user => n \in DOMAIN list \cup lost

LoadsCease == <>[][~Load]_vars

\* A notification whose event was lost is shown all the same when the tab is
\* loaded again, because its row was committed; unless that fetch fails too.
RowsAreFetched ==
    LoadsCease =>
        \A n \in Note :
            (row[n].user # None /\ fetch.at = "asked" /\ fetch.user = row[n].user)
                ~> (n \in DOMAIN list \/ fetch.user # row[n].user)
=============================================================================
