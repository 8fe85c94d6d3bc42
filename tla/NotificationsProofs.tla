------------------------- MODULE NotificationsProofs -------------------------
(***************************************************************************)
(* Proofs about Notifications, for any number of accounts and              *)
(* notifications: what a tab shows is in the database, belongs to one      *)
(* account, and is complete but for the events that were lost.             *)
(***************************************************************************)
EXTENDS Notifications, Integers, TLAPS

\* An event tells of a committed row, and of what was written to it.
EventsAreTrue ==
    \A m \in pending \cup InPipe :
        row[m.note].user # None /\ (m.type = "read" => row[m.note].read)

\* So does the answer to the fetch, and of one account.  A tab that has to
\* refresh first had no token to open a socket with.
AnswerIsTrue ==
    /\ fetch.at # "none" => fetch.user \in User
    /\ fetch.at = "refused" => ~listening
    /\ fetch.at = "read" =>
        \A n \in DOMAIN fetch.answer :
            row[n].user = fetch.user /\ (fetch.answer[n] => row[n].read)

\* The server and the tab agree on whose socket it is, and only that account's
\* events are on it.
RoomIsSockets ==
    /\ joined # None => joined = socket
    /\ \A m \in InPipe : joined = row[m.note].user

\* Unless somebody signed in over a session, whom the socket listens for is
\* whose notifications are shown and asked for, and still there.
ListIsSockets ==
    ~stranded =>
        /\ listening => socket # None /\ socket = token /\ (auth # None \/ boot # None)
        /\ listening => \A n \in DOMAIN list : row[n].user = socket
        /\ fetch.at \in {"refused", "asked", "read"} =>
            /\ \A n \in DOMAIN list : row[n].user = fetch.user
            /\ listening => socket = fetch.user

\* Where a notification of the account is, once the rows were read.
Accounted ==
    fetch.at \in {"read", "done"} =>
        \A n \in Note : row[n].user = fetch.user =>
            \/ n \in DOMAIN list \cup lost \cup CreatedIn(pending) \cup CreatedIn(InPipe)
            \/ fetch.at = "read" /\ n \in DOMAIN fetch.answer

NotificationsInv ==
    /\ TypeOK
    /\ EventsAreTrue
    /\ AnswerIsTrue
    /\ ShownIsTrue
    /\ RoomIsSockets
    /\ OneAccount
    /\ ListIsSockets
    /\ Accounted

-----------------------------------------------------------------------------

\* What CreatedIn collects.
LEMMA InCreated ==
    ASSUME NEW S, NEW n
    PROVE  n \in CreatedIn(S) <=> \E m \in S : m.type = "created" /\ m.note = n
BY DEF CreatedIn

\* What the four things that happen to the pipe do to the events in it.
LEMMA PipeSame == pipe' = pipe => InPipe' = InPipe
BY DEF InPipe

LEMMA PipeEmpty == pipe' = <<>> => InPipe' = {} /\ pipe' \in Seq(Events)
BY DEF InPipe

LEMMA PipeAppended ==
    ASSUME pipe \in Seq(Events), NEW m \in Events, pipe' = Append(pipe, m)
    PROVE  InPipe' = InPipe \cup {m} /\ pipe' \in Seq(Events)
<1>1. Len(pipe') = Len(pipe) + 1 /\ Len(pipe) \in Nat /\ pipe' \in Seq(Events)
  OBVIOUS
<1>2. DOMAIN pipe = 1 .. Len(pipe) /\ DOMAIN pipe' = 1 .. (Len(pipe) + 1)
  BY <1>1
<1>3. \A i \in 1 .. Len(pipe) : pipe'[i] = pipe[i]
  OBVIOUS
<1>4. pipe'[Len(pipe) + 1] = m
  OBVIOUS
<1>5. ASSUME NEW e \in InPipe' PROVE e \in InPipe \cup {m}
  BY <1>1, <1>2, <1>3, <1>4, <1>5 DEF InPipe
<1>6. ASSUME NEW e \in InPipe \cup {m} PROVE e \in InPipe'
  BY <1>1, <1>2, <1>3, <1>4, <1>6 DEF InPipe
<1> QED BY <1>1, <1>5, <1>6

LEMMA PipeTail ==
    ASSUME pipe \in Seq(Events), pipe # <<>>, pipe' = Tail(pipe)
    PROVE  InPipe = InPipe' \cup {Head(pipe)} /\ pipe' \in Seq(Events)
<1>1. Len(pipe) \in Nat \ {0} /\ Len(pipe') = Len(pipe) - 1 /\ pipe' \in Seq(Events)
  OBVIOUS
<1>2. DOMAIN pipe = 1 .. Len(pipe) /\ DOMAIN pipe' = 1 .. (Len(pipe) - 1)
  BY <1>1
<1>3. \A i \in 1 .. (Len(pipe) - 1) : pipe'[i] = pipe[i + 1]
  OBVIOUS
<1>4. Head(pipe) = pipe[1]
  OBVIOUS
<1>5. ASSUME NEW e \in InPipe PROVE e \in InPipe' \cup {Head(pipe)}
  <2>1. PICK i \in 1 .. Len(pipe) : e = pipe[i]
    BY <1>2, <1>5 DEF InPipe
  <2>2. CASE i = 1
    BY <1>4, <2>1, <2>2
  <2>3. CASE i # 1
    <3>1. i - 1 \in 1 .. (Len(pipe) - 1) /\ (i - 1) + 1 = i
      BY <1>1, <2>3
    <3>2. e = pipe'[i - 1]
      BY <1>3, <2>1, <3>1
    <3> QED BY <1>2, <3>1, <3>2 DEF InPipe
  <2> QED BY <2>2, <2>3
<1>6. ASSUME NEW e \in InPipe' \cup {Head(pipe)} PROVE e \in InPipe
  BY <1>1, <1>2, <1>3, <1>4, <1>6 DEF InPipe
<1> QED BY <1>1, <1>5, <1>6

\* Membership in Lists, in both directions, and of the events of the pipe.
LEMMA CreatedNotes ==
    ASSUME NEW S, S \subseteq Events
    PROVE  CreatedIn(S) \subseteq Note
BY DEF CreatedIn, Events

LEMMA ListType ==
    ASSUME NEW f \in Lists
    PROVE  DOMAIN f \subseteq Note /\ f \in [DOMAIN f -> BOOLEAN]
BY DEF Lists

LEMMA TypeList ==
    ASSUME NEW N \in SUBSET Note, NEW f \in [N -> BOOLEAN]
    PROVE  f \in Lists
BY DEF Lists

LEMMA NobodyListed == Nobody \in Lists
<1>1. Nobody \in [{} -> BOOLEAN] /\ {} \in SUBSET Note
  BY DEF Nobody
<1> QED BY <1>1, TypeList

LEMMA PipeEvents == pipe \in Seq(Events) => InPipe \subseteq Events
BY DEF InPipe

-----------------------------------------------------------------------------
(* One lemma per action, one step per part of the invariant. *)

\* A row that is added is nobody's yet: nothing shown is about it.
LEMMA CreateKeeps ==
    ASSUME NotificationsInv, NEW n \in Note, NEW u \in User, Create(n, u)
    PROVE  NotificationsInv'
<1> USE NotificationsAssumption DEF NotificationsInv
<1>0. TypeOK'
  <2>1. row' \in [Note -> [user : User \cup {None}, read : BOOLEAN]]
    BY DEF TypeOK, Create
  <2>2. pending' \subseteq Events
    BY DEF TypeOK, Create, Events
  <2> QED BY <2>1, <2>2 DEF TypeOK, Create, tab
<1>1. EventsAreTrue'
  BY PipeSame DEF EventsAreTrue, TypeOK, Create
<1>2. AnswerIsTrue'
  BY DEF AnswerIsTrue, tab, Create
<1>3. ShownIsTrue'
  BY DEF ShownIsTrue, tab, Create
<1>4. RoomIsSockets'
  BY PipeSame DEF RoomIsSockets, EventsAreTrue, tab, Create
<1>5. OneAccount'
  BY DEF OneAccount, ShownIsTrue, Create, TypeOK, tab
<1>6. ListIsSockets'
  BY DEF ListIsSockets, RoomIsSockets, OneAccount, AnswerIsTrue, tab, Create
<1>7. Accounted'
  <2> SUFFICES ASSUME fetch.at \in {"read", "done"}, NEW k \in Note, row'[k].user = fetch.user
               PROVE  \/ k \in (DOMAIN list \cup lost \cup CreatedIn(pending)
                                             \cup CreatedIn(InPipe))'
                      \/ fetch.at = "read" /\ k \in DOMAIN fetch.answer
    BY DEF Accounted, Create, tab
  <2>1. CASE k = n
    <3>1. [type |-> "created", note |-> n] \in pending'
      BY DEF Create
    <3>2. n \in CreatedIn(pending')
      BY <3>1, InCreated
    <3> QED BY <2>1, <3>2
  <2>2. CASE k # n
    <3>1. row[k].user = fetch.user
      BY <2>2 DEF Create, TypeOK
    <3>2. CreatedIn(pending) \subseteq CreatedIn(pending') /\ InPipe' = InPipe
      BY PipeSame, InCreated DEF Create
    <3> QED BY <3>1, <3>2 DEF Accounted, Create, tab
  <2> QED BY <2>1, <2>2
<1> QED BY <1>0, <1>1, <1>2, <1>3, <1>4, <1>5, <1>6, <1>7

\* A row that is read stays with its owner.
LEMMA ReadKeeps ==
    ASSUME NotificationsInv, NEW n \in Note, Read(n)
    PROVE  NotificationsInv'
<1> USE NotificationsAssumption DEF NotificationsInv
<1>0. TypeOK'
  <2>1. row' \in [Note -> [user : User \cup {None}, read : BOOLEAN]]
    BY DEF TypeOK, Read
  <2>2. pending' \subseteq Events
    BY DEF TypeOK, Read, Events
  <2> QED BY <2>1, <2>2 DEF TypeOK, Read, tab
<1>1. EventsAreTrue'
  BY PipeSame DEF EventsAreTrue, TypeOK, Read
<1>2. AnswerIsTrue'
  BY DEF AnswerIsTrue, tab, Read
<1>3. ShownIsTrue'
  BY DEF ShownIsTrue, tab, Read
<1>4. RoomIsSockets'
  BY PipeSame DEF RoomIsSockets, tab, Read
<1>5. OneAccount'
  BY DEF OneAccount, tab, Read
<1>6. ListIsSockets'
  BY DEF ListIsSockets, tab, Read
<1>7. Accounted'
  BY PipeSame, InCreated DEF Accounted, tab, Read
<1> QED BY <1>0, <1>1, <1>2, <1>3, <1>4, <1>5, <1>6, <1>7

\* An event goes to the room of its owner, or is lost.
LEMMA EmitKeeps ==
    ASSUME NotificationsInv, NEW m \in pending, Emit(m)
    PROVE  NotificationsInv'
<1> USE NotificationsAssumption DEF NotificationsInv
<1>. m \in Events
  BY DEF TypeOK
<1>p. /\ InPipe' \in {InPipe, InPipe \cup {m}} /\ pipe' \in Seq(Events)
      /\ joined = row[m.note].user => InPipe' = InPipe \cup {m}
      /\ joined # row[m.note].user =>
            InPipe' = InPipe /\ lost' = lost \cup CreatedIn({m})
      /\ lost \subseteq lost'
  BY PipeAppended, PipeSame DEF Emit, TypeOK
<1>0. TypeOK'
  BY <1>p, CreatedNotes DEF TypeOK, tab, Emit
<1>1. EventsAreTrue'
  BY <1>p DEF EventsAreTrue, Emit
<1>2. AnswerIsTrue'
  BY DEF AnswerIsTrue, tab, Emit
<1>3. ShownIsTrue'
  BY DEF ShownIsTrue, tab, Emit
<1>4. RoomIsSockets'
  BY <1>p DEF RoomIsSockets, Emit, tab
<1>5. OneAccount'
  BY DEF OneAccount, tab, Emit
<1>6. ListIsSockets'
  BY DEF ListIsSockets, tab, Emit
<1>7. Accounted'
  <2> SUFFICES ASSUME fetch.at \in {"read", "done"}, NEW k \in Note, row[k].user = fetch.user
               PROVE  \/ k \in (DOMAIN list \cup lost \cup CreatedIn(pending)
                                             \cup CreatedIn(InPipe))'
                      \/ fetch.at = "read" /\ k \in DOMAIN fetch.answer
    BY DEF Accounted, Emit, tab
  <2>1. CASE k \in CreatedIn(pending)
    <3>1. PICK e \in pending : e.type = "created" /\ e.note = k
      BY <2>1, InCreated
    <3>2. CASE e = m
      BY <1>p, <3>1, <3>2, InCreated
    <3>3. CASE e # m
      BY <3>1, <3>3, InCreated DEF Emit
    <3> QED BY <3>2, <3>3
  <2>2. CASE k \in CreatedIn(InPipe)
    BY <1>p, <2>2, InCreated
  <2> QED BY <1>p, <2>1, <2>2 DEF Accounted, Emit, tab
<1> QED BY <1>0, <1>1, <1>2, <1>3, <1>4, <1>5, <1>6, <1>7

\* The room is the one of the token the tab's socket carries.
LEMMA ConnectKeeps ==
    ASSUME NotificationsInv, Connect
    PROVE  NotificationsInv'
<1> USE NotificationsAssumption DEF NotificationsInv
<1>0. TypeOK'
  BY DEF TypeOK, tab, Connect
<1>1. EventsAreTrue'
  BY PipeSame DEF EventsAreTrue, Connect
<1>2. AnswerIsTrue'
  BY DEF AnswerIsTrue, tab, Connect
<1>3. ShownIsTrue'
  BY DEF ShownIsTrue, tab, Connect
<1>4. RoomIsSockets'
  BY PipeSame DEF RoomIsSockets, EventsAreTrue, tab, Connect
<1>5. OneAccount'
  BY DEF OneAccount, tab, Connect
<1>6. ListIsSockets'
  BY DEF ListIsSockets, tab, Connect
<1>7. Accounted'
  BY PipeSame DEF Accounted, tab, Connect
<1> QED BY <1>0, <1>1, <1>2, <1>3, <1>4, <1>5, <1>6, <1>7

\* What was on the connection is lost.
LEMMA DisconnectKeeps ==
    ASSUME NotificationsInv, Disconnect
    PROVE  NotificationsInv'
<1> USE NotificationsAssumption DEF NotificationsInv
<1>0. TypeOK'
  BY PipeEmpty, CreatedNotes, PipeEvents DEF TypeOK, tab, Disconnect, Drop
<1>1. EventsAreTrue'
  BY PipeEmpty DEF EventsAreTrue, Disconnect, Drop
<1>2. AnswerIsTrue'
  BY DEF AnswerIsTrue, tab, Disconnect, Drop
<1>3. ShownIsTrue'
  BY DEF ShownIsTrue, tab, Disconnect, Drop
<1>4. RoomIsSockets'
  BY PipeEmpty DEF RoomIsSockets, Disconnect, Drop
<1>5. OneAccount'
  BY DEF OneAccount, tab, Disconnect, Drop
<1>6. ListIsSockets'
  BY DEF ListIsSockets, tab, Disconnect, Drop
<1>7. Accounted'
  BY PipeEmpty DEF Accounted, tab, Disconnect, Drop
<1> QED BY <1>0, <1>1, <1>2, <1>3, <1>4, <1>5, <1>6, <1>7

\* What was to be emitted is lost too.
LEMMA CrashKeeps ==
    ASSUME NotificationsInv, Crash
    PROVE  NotificationsInv'
<1> USE NotificationsAssumption DEF NotificationsInv
<1>0. TypeOK'
  BY PipeEmpty, CreatedNotes, PipeEvents DEF TypeOK, tab, Crash
<1>1. EventsAreTrue'
  BY PipeEmpty DEF EventsAreTrue, Crash
<1>2. AnswerIsTrue'
  BY DEF AnswerIsTrue, tab, Crash
<1>3. ShownIsTrue'
  BY DEF ShownIsTrue, tab, Crash
<1>4. RoomIsSockets'
  BY PipeEmpty DEF RoomIsSockets, Crash
<1>5. OneAccount'
  BY DEF OneAccount, tab, Crash
<1>6. ListIsSockets'
  BY DEF ListIsSockets, tab, Crash
<1>7. Accounted'
  BY PipeEmpty DEF Accounted, tab, Crash
<1> QED BY <1>0, <1>1, <1>2, <1>3, <1>4, <1>5, <1>6, <1>7

\* The tab shows the event, if it listens.
LEMMA DeliverKeeps ==
    ASSUME NotificationsInv, Deliver
    PROVE  NotificationsInv'
<1> USE NotificationsAssumption DEF NotificationsInv
<1>0. TypeOK'
  <2>1. Head(pipe) \in Events /\ pipe' \in Seq(Events)
    BY PipeTail DEF Deliver, TypeOK
  <2>2. DOMAIN list \subseteq Note /\ list \in [DOMAIN list -> BOOLEAN]
    BY ListType DEF TypeOK
  <2>3. Show(Head(pipe)) \in Lists
    <3>1. CASE Head(pipe).type = "created"
      <4>1. DOMAIN list \cup {Head(pipe).note} \in SUBSET Note
        BY <2>1, <2>2 DEF Events
      <4>2. Show(Head(pipe)) \in [DOMAIN list \cup {Head(pipe).note} -> BOOLEAN]
        BY <2>2, <3>1 DEF Show
      <4> QED BY <4>1, <4>2, TypeList
    <3>2. CASE Head(pipe).type # "created"
      <4>1. Show(Head(pipe)) \in [DOMAIN list -> BOOLEAN]
        BY <2>2, <3>2 DEF Show
      <4> QED BY <2>2, <4>1, TypeList
    <3> QED BY <3>1, <3>2
  <2>4. CreatedIn({Head(pipe)}) \subseteq Note
    BY <2>1, CreatedNotes
  <2> QED BY <2>1, <2>3, <2>4 DEF Deliver, TypeOK
<1>1. EventsAreTrue'
  BY PipeTail DEF EventsAreTrue, TypeOK, Deliver, Show
<1>2. AnswerIsTrue'
  BY DEF AnswerIsTrue, Deliver, Show
<1>3. ShownIsTrue'
  <2>1. Head(pipe) \in InPipe
    BY PipeTail DEF Deliver, TypeOK
  <2> SUFFICES ASSUME NEW n \in DOMAIN list', listening
               PROVE  row[n].user # None /\ (list'[n] => row[n].read)
    BY DEF ShownIsTrue, Deliver
  <2>2. CASE n = Head(pipe).note
    <3>1. CASE n \in DOMAIN list /\ list[n]
      BY <3>1 DEF ShownIsTrue
    <3>2. row[n].user # None /\ (Head(pipe).type = "read" => row[n].read)
      BY <2>1, <2>2 DEF EventsAreTrue
    <3>3. Head(pipe).type = "created" => ~list'[n]
      BY <2>2 DEF Deliver, Show
    <3>4. Head(pipe).type \in {"created", "read"}
      BY <2>1, PipeEvents DEF TypeOK, Events
    <3> QED BY <3>2, <3>3, <3>4
  <2>3. CASE n # Head(pipe).note
    <3>1. n \in DOMAIN list /\ list'[n] = list[n]
      BY <2>3, ListType DEF Deliver, Show, TypeOK
    <3> QED BY <3>1 DEF ShownIsTrue
  <2> QED BY <2>2, <2>3
<1>4. RoomIsSockets'
  BY PipeTail DEF RoomIsSockets, TypeOK, Deliver, Show
<1>9. Head(pipe) \in InPipe /\ listening' = listening
  BY PipeTail DEF Deliver, TypeOK
<1>6. ListIsSockets'
  <2>1. listening => DOMAIN list' \subseteq DOMAIN list \cup {Head(pipe).note}
    BY DEF Deliver, Show
  <2>2. ~listening => list' = list
    BY DEF Deliver
  <2>3. listening /\ ~stranded => row[Head(pipe).note].user = socket
    BY <1>9 DEF RoomIsSockets, ListIsSockets, EventsAreTrue
  <2> QED BY <2>1, <2>2, <2>3 DEF ListIsSockets, Deliver
<1>5. OneAccount'
  BY <1>6 DEF OneAccount, ListIsSockets, Deliver
<1>7. Accounted'
  BY PipeTail, InCreated DEF Accounted, TypeOK, Deliver, Show
<1> QED BY <1>0, <1>1, <1>2, <1>3, <1>4, <1>5, <1>6, <1>7

\* A token that no socket of the tab carries.
LEMMA RefreshedKeeps ==
    ASSUME NotificationsInv, Refreshed
    PROVE  NotificationsInv'
<1> USE NotificationsAssumption DEF NotificationsInv
<1>0. TypeOK'
  BY DEF TypeOK, AnswerIsTrue, Refreshed
<1>1. EventsAreTrue'
  BY PipeSame DEF EventsAreTrue, Refreshed
<1>2. AnswerIsTrue'
  BY DEF AnswerIsTrue, TypeOK, Refreshed
<1>3. ShownIsTrue'
  BY DEF ShownIsTrue, Refreshed
<1>4. RoomIsSockets'
  BY PipeSame DEF RoomIsSockets, Refreshed
<1>5. OneAccount'
  BY DEF OneAccount, Refreshed
<1>6. ListIsSockets'
  BY DEF ListIsSockets, AnswerIsTrue, TypeOK, Refreshed
<1>7. Accounted'
  BY PipeSame DEF Accounted, TypeOK, Refreshed
<1> QED BY <1>0, <1>1, <1>2, <1>3, <1>4, <1>5, <1>6, <1>7

\* The rows are read: all of the account's, and no other.
LEMMA FetchReadKeeps ==
    ASSUME NotificationsInv, FetchRead
    PROVE  NotificationsInv'
<1> USE NotificationsAssumption DEF NotificationsInv
<1>0. TypeOK'
  <2> DEFINE N == {n \in Note : row[n].user = fetch.user}
  <2>1. [n \in N |-> row[n].read] \in [N -> BOOLEAN] /\ N \in SUBSET Note
    BY DEF TypeOK
  <2>2. [n \in N |-> row[n].read] \in Lists
    BY <2>1, TypeList
  <2> QED BY <2>2 DEF TypeOK, FetchRead
<1>1. EventsAreTrue'
  BY PipeSame DEF EventsAreTrue, FetchRead
<1>2. AnswerIsTrue'
  BY DEF AnswerIsTrue, FetchRead
<1>3. ShownIsTrue'
  BY DEF ShownIsTrue, FetchRead
<1>4. RoomIsSockets'
  BY PipeSame DEF RoomIsSockets, FetchRead
<1>5. OneAccount'
  BY DEF OneAccount, FetchRead
<1>6. ListIsSockets'
  BY DEF ListIsSockets, FetchRead
<1>7. Accounted'
  BY PipeSame DEF Accounted, FetchRead
<1> QED BY <1>0, <1>1, <1>2, <1>3, <1>4, <1>5, <1>6, <1>7

\* The answer takes the place of the list.
LEMMA FetchShownKeeps ==
    ASSUME NotificationsInv, FetchShown
    PROVE  NotificationsInv'
<1> USE NotificationsAssumption DEF NotificationsInv
<1>0. TypeOK'
  <2>1. fetch' \in [at : {"none", "refused", "asked", "read", "done"}, user : User \cup {None}, answer : Lists]
    BY NobodyListed DEF TypeOK, FetchShown, NoFetch
  <2>2. list' \in Lists /\ lost' \subseteq Note
    BY ListType DEF TypeOK, FetchShown
  <2> QED BY <2>1, <2>2 DEF TypeOK, FetchShown
<1>1. EventsAreTrue'
  BY PipeSame DEF EventsAreTrue, FetchShown, NoFetch
<1>2. AnswerIsTrue'
  BY DEF AnswerIsTrue, FetchShown, NoFetch
<1>3. ShownIsTrue'
  BY DEF ShownIsTrue, EventsAreTrue, AnswerIsTrue, FetchShown, NoFetch
<1>4. RoomIsSockets'
  BY PipeSame DEF RoomIsSockets, FetchShown, NoFetch
<1>5. OneAccount'
  BY DEF OneAccount, AnswerIsTrue, FetchShown
<1>6. ListIsSockets'
  BY DEF ListIsSockets, RoomIsSockets, OneAccount, AnswerIsTrue, FetchShown, NoFetch
<1>7. Accounted'
  BY PipeSame DEF Accounted, FetchShown, NoFetch
<1> QED BY <1>0, <1>1, <1>2, <1>3, <1>4, <1>5, <1>6, <1>7

\* Nothing is shown.
LEMMA FetchFailsKeeps ==
    ASSUME NotificationsInv, FetchFails
    PROVE  NotificationsInv'
<1> USE NotificationsAssumption DEF NotificationsInv
<1>0. TypeOK'
  BY NobodyListed DEF TypeOK, FetchFails, NoFetch
<1>1. EventsAreTrue'
  BY PipeSame DEF EventsAreTrue, FetchFails, NoFetch
<1>2. AnswerIsTrue'
  BY DEF AnswerIsTrue, FetchFails, NoFetch
<1>3. ShownIsTrue'
  BY DEF ShownIsTrue, FetchFails, NoFetch
<1>4. RoomIsSockets'
  BY PipeSame DEF RoomIsSockets, FetchFails, NoFetch
<1>5. OneAccount'
  BY DEF OneAccount, FetchFails, NoFetch
<1>6. ListIsSockets'
  BY DEF ListIsSockets, FetchFails, NoFetch
<1>7. Accounted'
  BY PipeSame DEF Accounted, FetchFails, NoFetch
<1> QED BY <1>0, <1>1, <1>2, <1>3, <1>4, <1>5, <1>6, <1>7

\* Everything in the tab is set anew.
LEMMA LoadKeeps ==
    ASSUME NotificationsInv, Load
    PROVE  NotificationsInv'
<1> USE NotificationsAssumption DEF NotificationsInv
<1>f. /\ fetch'.at \in {"none", "refused", "asked"}
      /\ fetch' \in [at : {"none", "refused", "asked", "read", "done"},
                    user : User \cup {None}, answer : Lists]
      /\ fetch'.at # "none" => fetch'.user \in User
      /\ fetch'.at # "none" => (fetch'.at = "refused" <=> token = None)
      /\ token # None => fetch'.user = token
  <2>1. \/ fetch' = NoFetch /\ token = None
        \/ \E u \in User :
              \/ token = u /\ fetch' = [NoFetch EXCEPT !.at = "asked", !.user = u]
              \/ token = None /\ fetch' = [NoFetch EXCEPT !.at = "refused", !.user = u]
    BY DEF Load, TypeOK
  <2>2. CASE fetch' = NoFetch /\ token = None
    BY <2>2, NobodyListed DEF NoFetch
  <2>3. ASSUME NEW u \in User, NEW at \in {"asked", "refused"},
               fetch' = [NoFetch EXCEPT !.at = at, !.user = u]
        PROVE  /\ fetch'.at = at /\ fetch'.user = u
               /\ fetch' \in [at : {"none", "refused", "asked", "read", "done"},
                             user : User \cup {None}, answer : Lists]
    <3>1. fetch' = [at |-> at, user |-> u, answer |-> Nobody]
      BY <2>3 DEF NoFetch
    <3> QED BY <3>1, NobodyListed
  <2> QED BY <2>1, <2>2, <2>3
<1>0. TypeOK'
  BY <1>f, PipeEmpty, CreatedNotes, PipeEvents, NobodyListed DEF TypeOK, Load, Drop
<1>1. EventsAreTrue'
  BY PipeEmpty DEF EventsAreTrue, Load, Drop
<1>2. AnswerIsTrue'
  BY <1>f DEF AnswerIsTrue, Load
<1>3. ShownIsTrue'
  BY DEF ShownIsTrue, Load, Nobody
<1>4. RoomIsSockets'
  BY PipeEmpty DEF RoomIsSockets, Load, Drop
<1>5. OneAccount'
  BY DEF OneAccount, Load, Nobody
<1>6. ListIsSockets'
  BY <1>f DEF ListIsSockets, Load, Nobody
<1>7. Accounted'
  BY <1>f DEF Accounted
<1> QED BY <1>0, <1>1, <1>2, <1>3, <1>4, <1>5, <1>6, <1>7

\* A socket that listens is already the restored account's.
LEMMA RestoredKeeps ==
    ASSUME NotificationsInv, Restored
    PROVE  NotificationsInv'
<1> USE NotificationsAssumption DEF NotificationsInv
<1>0. TypeOK'
  BY DEF TypeOK, Restored, ConnectSocket
<1>1. EventsAreTrue'
  BY PipeSame DEF EventsAreTrue, Restored, ConnectSocket
<1>2. AnswerIsTrue'
  BY DEF AnswerIsTrue, Restored, ConnectSocket
<1>3. ShownIsTrue'
  BY DEF ShownIsTrue, Restored, ConnectSocket
<1>4. RoomIsSockets'
  BY PipeSame DEF RoomIsSockets, Restored, ConnectSocket
<1>5. OneAccount'
  BY DEF OneAccount, Restored, ConnectSocket
<1>6. ListIsSockets'
  BY DEF ListIsSockets, Restored, ConnectSocket
<1>7. Accounted'
  BY PipeSame DEF Accounted, Restored, ConnectSocket
<1> QED BY <1>0, <1>1, <1>2, <1>3, <1>4, <1>5, <1>6, <1>7

\* The socket stays: nothing is claimed from here on.
LEMMA NotRestoredKeeps ==
    ASSUME NotificationsInv, NotRestored
    PROVE  NotificationsInv'
<1> USE NotificationsAssumption DEF NotificationsInv
<1>0. TypeOK'
  BY DEF TypeOK, NotRestored
<1>1. EventsAreTrue'
  BY PipeSame DEF EventsAreTrue, NotRestored
<1>2. AnswerIsTrue'
  BY DEF AnswerIsTrue, NotRestored
<1>3. ShownIsTrue'
  BY DEF ShownIsTrue, NotRestored
<1>4. RoomIsSockets'
  BY PipeSame DEF RoomIsSockets, NotRestored
<1>5. OneAccount'
  BY DEF OneAccount, NotRestored
<1>6. ListIsSockets'
  BY DEF ListIsSockets, NotRestored
<1>7. Accounted'
  BY PipeSame DEF Accounted, NotRestored
<1> QED BY <1>0, <1>1, <1>2, <1>3, <1>4, <1>5, <1>6, <1>7

\* A socket that listens implies somebody signed in, which strands it.
LEMMA LoginKeeps ==
    ASSUME NotificationsInv, NEW u \in User, Login(u)
    PROVE  NotificationsInv'
<1> USE NotificationsAssumption DEF NotificationsInv
<1>0. TypeOK'
  BY DEF TypeOK, Login, ConnectSocket
<1>1. EventsAreTrue'
  BY PipeSame DEF EventsAreTrue, Login, ConnectSocket
<1>2. AnswerIsTrue'
  BY DEF AnswerIsTrue, Login, ConnectSocket
<1>3. ShownIsTrue'
  BY DEF ShownIsTrue, Login, ConnectSocket
<1>4. RoomIsSockets'
  BY PipeSame DEF RoomIsSockets, Login, ConnectSocket
<1>5. OneAccount'
  BY DEF OneAccount, Login, ConnectSocket
<1>6. ListIsSockets'
  BY DEF ListIsSockets, Login, ConnectSocket
<1>7. Accounted'
  BY PipeSame DEF Accounted, Login, ConnectSocket
<1> QED BY <1>0, <1>1, <1>2, <1>3, <1>4, <1>5, <1>6, <1>7

\* The socket is gone, the list is not.
LEMMA LogoutKeeps ==
    ASSUME NotificationsInv, Logout
    PROVE  NotificationsInv'
<1> USE NotificationsAssumption DEF NotificationsInv
<1>0. TypeOK'
  BY PipeEmpty, CreatedNotes, PipeEvents DEF TypeOK, Logout, Drop
<1>1. EventsAreTrue'
  BY PipeEmpty DEF EventsAreTrue, Logout, Drop
<1>2. AnswerIsTrue'
  BY DEF AnswerIsTrue, Logout, Drop
<1>3. ShownIsTrue'
  BY DEF ShownIsTrue, Logout, Drop
<1>4. RoomIsSockets'
  BY PipeEmpty DEF RoomIsSockets, Logout, Drop
<1>5. OneAccount'
  BY DEF OneAccount, Logout, Drop
<1>6. ListIsSockets'
  BY DEF ListIsSockets, Logout, Drop
<1>7. Accounted'
  BY PipeEmpty DEF Accounted, Logout, Drop
<1> QED BY <1>0, <1>1, <1>2, <1>3, <1>4, <1>5, <1>6, <1>7

-----------------------------------------------------------------------------

\* The three facts of the theorems: initially, by every step, and so always.
LEMMA InitHolds == Init => NotificationsInv
<1> SUFFICES ASSUME Init PROVE NotificationsInv
  OBVIOUS
<1>1. InPipe = {} /\ pipe \in Seq(Events)
  BY DEF Init, InPipe
<1>2. TypeOK
  <2>1. fetch \in [at : {"none", "refused", "asked", "read", "done"}, user : User \cup {None}, answer : Lists]
    BY NobodyListed DEF Init, NoFetch
  <2>2. row \in [Note -> [user : User \cup {None}, read : BOOLEAN]]
    BY DEF Init
  <2> QED BY <1>1, <2>1, <2>2, NobodyListed DEF TypeOK, Init
<1>3. DOMAIN list = {} /\ fetch.at = "none"
  BY DEF Init, Nobody, NoFetch
<1> QED
  BY <1>1, <1>2, <1>3 DEF Init, NotificationsInv, EventsAreTrue, AnswerIsTrue, ShownIsTrue,
                          RoomIsSockets, OneAccount, ListIsSockets, Accounted

LEMMA NextKeeps == NotificationsInv /\ [Next]_vars => NotificationsInv'
<1> SUFFICES ASSUME NotificationsInv, [Next]_vars PROVE NotificationsInv'
  OBVIOUS
<1>1. ASSUME NEW n \in Note, NEW u \in User, Create(n, u) PROVE NotificationsInv'
  BY <1>1, CreateKeeps
<1>2. ASSUME NEW n \in Note, Read(n) PROVE NotificationsInv'
  BY <1>2, ReadKeeps
<1>3. ASSUME NEW m \in pending, Emit(m) PROVE NotificationsInv'
  BY <1>3, EmitKeeps
<1>4. CASE Connect \/ Disconnect \/ Crash \/ Deliver
  BY <1>4, ConnectKeeps, DisconnectKeeps, CrashKeeps, DeliverKeeps
<1>5. CASE Fetch
  BY <1>5, RefreshedKeeps, FetchReadKeeps, FetchShownKeeps, FetchFailsKeeps DEF Fetch
<1>6. CASE Load \/ Restored \/ NotRestored \/ Logout
  BY <1>6, LoadKeeps, RestoredKeeps, NotRestoredKeeps, LogoutKeeps
<1>7. ASSUME NEW u \in User, Login(u) PROVE NotificationsInv'
  BY <1>7, LoginKeeps
<1>8. CASE UNCHANGED vars
  BY <1>8 DEF vars, tab, NotificationsInv, TypeOK, EventsAreTrue, AnswerIsTrue, ShownIsTrue,
              RoomIsSockets, OneAccount, ListIsSockets, Accounted, InPipe
<1> QED BY <1>1, <1>2, <1>3, <1>4, <1>5, <1>6, <1>7, <1>8 DEF Next

\* The inductive invariant, and with it every variable's type.
THEOREM InvariantHolds == Spec => []NotificationsInv
BY InitHolds, NextKeeps, PTL DEF Spec

\* What a tab shows is in the database, read if shown as read: events are
\* emitted after their commit, and the fetch reads what is committed.
THEOREM ShownIsTrueHolds == Spec => []ShownIsTrue
<1>1. NotificationsInv => ShownIsTrue
  BY DEF NotificationsInv
<1> QED BY <1>1, InvariantHolds, PTL

\* A tab never mixes two accounts' notifications, unless somebody signed in
\* over a session: the socket and the fetch are the account's that is shown.
THEOREM OneAccountHolds == Spec => []OneAccount
<1>1. NotificationsInv => OneAccount
  BY DEF NotificationsInv
<1> QED BY <1>1, InvariantHolds, PTL

\* A notification that is missing from the list, once everything has arrived,
\* is one whose event was lost.
THEOREM NothingElseIsMissedHolds == Spec => []NothingElseIsMissed
<1>1. NotificationsInv => NothingElseIsMissed
  <2> SUFFICES ASSUME NotificationsInv, fetch.at = "done", pending = {}, pipe = <<>>,
                      NEW n \in Note, row[n].user = fetch.user
               PROVE  n \in DOMAIN list \cup lost
    BY DEF NothingElseIsMissed
  <2>1. CreatedIn(pending) = {} /\ CreatedIn(InPipe) = {}
    BY DEF CreatedIn, InPipe
  <2> QED BY <2>1 DEF NotificationsInv, Accounted
<1> QED BY <1>1, InvariantHolds, PTL

=============================================================================
