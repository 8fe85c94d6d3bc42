----------------------------- MODULE ApiClient ------------------------------
(***************************************************************************)
(* The tabs of one browser signed in to TicketGuard: the interceptors of   *)
(* lib/api.ts and the session of lib/auth.tsx.  The tabs share the cookie  *)
(* with the refresh token and localStorage; each has a promise of its own, *)
(* "refreshing", for the refresh that is under way.                        *)
(*                                                                         *)
(* The server is TokenFamilies, which Sessions implements.  Access tokens  *)
(* have no names: a request that carries one may get a 401 at any time,    *)
(* because the token is past its time or the account is suspended.         *)
(***************************************************************************)
EXTENDS FiniteSets

CONSTANTS
    Tab,
    Call,       \* requests that can be under way at the same time
    Refresh,    \* POSTs of /auth/refresh that can
    Token,
    None

ASSUME ApiClientAssumption == {None, "lost"} \cap (Tab \cup Token \cup Refresh) = {}

VARIABLES
    current, spent,     \* the server: see TokenFamilies
    cookie,             \* the refresh token the browser holds
    access, remembered, \* localStorage: whether tg_access and tg_user are there
    auth,               \* what each tab shows
    refreshing,         \* the refresh each tab waits for
    refresh, call,      \* requests and answers on their way
    spender             \* history: the tab whose refresh spent a token; or
                        \* "lost": it stopped working and no answer says so

Server == INSTANCE TokenFamilies

server == <<current, spent>>
browser == <<cookie, access, remembered, auth, refreshing>>
vars == <<server, browser, refresh, call, spender>>

NoCall == [kind |-> "none", tab |-> None, at |-> "none", token |-> FALSE, cookie |-> None,
           again |-> FALSE]
NoRefresh == [at |-> "none", tab |-> None, sent |-> None, got |-> None]

TypeOK ==
    /\ Server!FamiliesTypeOK
    /\ cookie \in Token \cup {None}
    /\ {access, remembered} \subseteq BOOLEAN
    /\ auth \in [Tab -> {"loading", "asking", "out", "in"}]
    /\ refreshing \in [Tab -> Refresh \cup {None}]
    /\ refresh \in [Refresh -> [at : {"none", "sent", "granted", "stored", "refused", "failed"},
                                tab : Tab \cup {None},
                                sent : Token \cup {None}, got : Token \cup {None}]]
    /\ call \in [Call -> [kind : {"none", "page", "boot", "me", "login", "logout"},
                          tab : Tab \cup {None},
                          at : {"none", "sent", "waiting", "answered"},
                          token : BOOLEAN, cookie : Token \cup {None}, again : BOOLEAN]]
    /\ spender \in [Token -> Tab \cup {None, "lost"}]

\* Current(None) is false: a request without the cookie.
Current(k) == k # None /\ \E f \in Token : current[f] = k
Doing(c, kinds, at) == call[c].kind \in kinds /\ call[c].at = at
Asking == {"page", "boot", "me"}

\* Unused tokens are alike; the next one is any of them.
NextToken == CHOOSE k \in Token : Server!Fresh(k)

\* No answer will tell the browser that these tokens are spent.
Lost(K) == spender' = [k \in Token |-> IF k \in K THEN "lost" ELSE spender[k]]
GivenUp(C) == {call[c].cookie : c \in {c \in C : Doing(c, {"logout"}, "answered")}} \ {None}

-----------------------------------------------------------------------------
(* Requests that need the access token *)

\* The request interceptor adds the stored token, whoever stored it.
Send(c, kind, t) ==
    /\ call[c] = NoCall
    /\ call' = [call EXCEPT ![c] =
                  [NoCall EXCEPT !.kind = kind, !.tab = t, !.at = "sent", !.token = access]]

Ask(c, t) ==
    /\ auth[t] = "in"
    /\ Send(c, "page", t)
    /\ UNCHANGED <<server, browser, refresh, spender>>

\* AuthProvider, when the tab was loaded.
Boot(c, t) ==
    /\ auth[t] = "loading"
    /\ IF remembered
       THEN Send(c, "boot", t) /\ auth' = [auth EXCEPT ![t] = "asking"]
       ELSE UNCHANGED call /\ auth' = [auth EXCEPT ![t] = "out"]
    /\ UNCHANGED <<server, cookie, access, remembered, refreshing, refresh, spender>>

Answer(c) ==
    /\ Doing(c, Asking, "sent")
    /\ call[c].token
    /\ IF call[c].kind = "page" THEN UNCHANGED <<remembered, auth>>
       ELSE remembered' = TRUE /\ auth' = [auth EXCEPT ![call[c].tab] = "in"]
    /\ call' = [call EXCEPT ![c] = NoCall]
    /\ UNCHANGED <<server, cookie, access, refreshing, refresh, spender>>

\* Requests that end in an error.  A tab whose session cannot be restored
\* clears what all tabs share.
Reject(C) ==
    LET boots == {c \in C : call[c].kind = "boot"} IN
    /\ access' = (access /\ boots = {})
    /\ remembered' = (remembered /\ boots = {})
    /\ auth' = [t \in Tab |-> IF \E c \in boots : call[c].tab = t THEN "out" ELSE auth[t]]

\* Any error but 401, the request lost or its answer.
Error(c) ==
    /\ call[c].kind \in Asking \cup {"login"} /\ call[c].at # "waiting"
    /\ Reject({c})
    /\ call' = [call EXCEPT ![c] = NoCall]
    /\ UNCHANGED <<server, cookie, refreshing, refresh, spender>>

\* Mutant: every 401 starts a refresh of its own.
WaitAlone(t) ==
    \E r \in Refresh :
        /\ refresh[r] = NoRefresh
        /\ refreshing' = [refreshing EXCEPT ![t] = r]
        /\ refresh' = [refresh EXCEPT ![r] =
                         [NoRefresh EXCEPT !.at = "sent", !.tab = t, !.sent = cookie]]

\* refreshing ??= ...: the refresh under way in this tab, or a new one.
Wait(t) ==
    IF refreshing[t] # None THEN UNCHANGED <<refreshing, refresh>>
    ELSE \E r \in Refresh :
        /\ refresh[r] = NoRefresh
        /\ refreshing' = [refreshing EXCEPT ![t] = r]
        /\ refresh' = [refresh EXCEPT ![r] =
                         [NoRefresh EXCEPT !.at = "sent", !.tab = t, !.sent = cookie]]

\* The answer is 401.  A request is repeated once.
Unauthorized(c) ==
    /\ Doing(c, Asking, "sent")
    /\ IF call[c].again
       THEN /\ Reject({c})
            /\ call' = [call EXCEPT ![c] = NoCall]
            /\ UNCHANGED <<refreshing, refresh>>
       ELSE /\ Wait(call[c].tab)
            /\ call' = [call EXCEPT ![c].at = "waiting"]
            /\ UNCHANGED <<access, remembered, auth>>
    /\ UNCHANGED <<server, cookie, spender>>

-----------------------------------------------------------------------------
(* The refresh *)

Grant(r) ==
    /\ refresh[r].at = "sent"
    /\ \E k \in Token : Server!Fresh(k)
    /\ \E f \in Token :
          /\ current[f] = refresh[r].sent
          /\ Server!Exchange(f, NextToken)
    /\ refresh' = [refresh EXCEPT ![r].at = "granted", ![r].got = NextToken]
    /\ spender' = [spender EXCEPT ![refresh[r].sent] = refresh[r].tab]
    /\ UNCHANGED <<browser, call>>

\* Mutant: a reused token ends its family (what the rollback prevents).
RefuseAndRevoke(r) ==
    /\ refresh[r].at = "sent"
    /\ ~Current(refresh[r].sent)
    /\ refresh' = [refresh EXCEPT ![r].at = "refused"]
    /\ \E f \in Token : Server!GiveUp({f})
    /\ UNCHANGED <<browser, call, spender>>

\* 401: no cookie, or its token is spent, which changes nothing: see Sessions.
Refuse(r) ==
    /\ refresh[r].at = "sent"
    /\ ~Current(refresh[r].sent)
    /\ refresh' = [refresh EXCEPT ![r].at = "refused"]
    /\ UNCHANGED <<server, browser, call, spender>>

\* The request is lost or fails, before its commit or after it.
Break(r) ==
    /\ refresh[r].at \in {"sent", "granted"}
    /\ refresh' = [refresh EXCEPT ![r].at = "failed"]
    /\ Lost(IF refresh[r].at = "sent" THEN {} ELSE {refresh[r].sent})
    /\ UNCHANGED <<server, browser, call>>

\* The browser takes the cookie when the answer arrives; the tab's code runs
\* after that.
StoreCookie(r) ==
    /\ refresh[r].at = "granted"
    /\ cookie' = refresh[r].got
    /\ refresh' = [refresh EXCEPT ![r].at = "stored"]
    /\ UNCHANGED <<server, access, remembered, auth, refreshing, call, spender>>

Waiting(r) == {c \in Call : call[c].at = "waiting" /\ call[c].tab = refresh[r].tab}

\* The promise is settled; then whoever waited for it goes on.
Settled(r) ==
    /\ refreshing' = [t \in Tab |-> IF refreshing[t] = r THEN None ELSE refreshing[t]]
    /\ refresh' = [refresh EXCEPT ![r] = NoRefresh]

Refreshed(r) ==
    /\ refresh[r].at = "stored"
    /\ access' = TRUE
    /\ call' = [c \in Call |-> IF c \in Waiting(r)
                  THEN [call[c] EXCEPT !.at = "sent", !.token = TRUE, !.again = TRUE]
                  ELSE call[c]]
    /\ Settled(r)
    /\ UNCHANGED <<server, cookie, remembered, auth, spender>>

\* Mutant: a refused refresh is a 401 like any other and waits for the refresh
\* under way, which is itself.
NotRefreshedIfFailed(r) ==
    /\ refresh[r].at = "failed"
    /\ Reject(Waiting(r))
    /\ call' = [c \in Call |-> IF c \in Waiting(r) THEN NoCall ELSE call[c]]
    /\ Settled(r)
    /\ UNCHANGED <<server, cookie, spender>>

NotRefreshed(r) ==
    /\ refresh[r].at \in {"refused", "failed"}
    /\ Reject(Waiting(r))
    /\ call' = [c \in Call |-> IF c \in Waiting(r) THEN NoCall ELSE call[c]]
    /\ Settled(r)
    /\ UNCHANGED <<server, cookie, spender>>

-----------------------------------------------------------------------------
(* Signing in and out *)

Login(c, t) ==
    /\ call[c] = NoCall
    /\ call' = [call EXCEPT ![c] = [NoCall EXCEPT !.kind = "login", !.tab = t, !.at = "sent"]]
    /\ UNCHANGED <<server, browser, refresh, spender>>

LoginServed(c) ==
    /\ Doing(c, {"login"}, "sent")
    /\ \E k \in Token : Server!Fresh(k)
    /\ Server!Open(NextToken)
    /\ call' = [call EXCEPT ![c].at = "answered", ![c].cookie = NextToken]
    /\ UNCHANGED <<browser, refresh, spender>>

\* The tab goes on to ask who it is.
LoggedIn(c) ==
    /\ Doing(c, {"login"}, "answered")
    /\ cookie' = call[c].cookie /\ access' = TRUE
    /\ call' = [call EXCEPT ![c] = [NoCall EXCEPT !.kind = "me", !.tab = call[c].tab,
                                                  !.at = "sent", !.token = TRUE]]
    /\ UNCHANGED <<server, remembered, auth, refreshing, refresh, spender>>

\* The cookie goes with it, not the stored token.
Logout(c, t) ==
    /\ auth[t] = "in"
    /\ call[c] = NoCall
    /\ call' = [call EXCEPT ![c] = [NoCall EXCEPT !.kind = "logout", !.tab = t, !.at = "sent",
                                                  !.cookie = cookie]]
    /\ UNCHANGED <<server, browser, refresh, spender>>

LogoutServed(c) ==
    /\ Doing(c, {"logout"}, "sent")
    /\ IF Current(call[c].cookie)
       THEN /\ Server!GiveUp({f \in Token : current[f] = call[c].cookie})
            /\ call' = [call EXCEPT ![c].at = "answered"]
       ELSE /\ UNCHANGED server
            /\ call' = [call EXCEPT ![c].at = "answered", ![c].cookie = None]
    /\ UNCHANGED <<browser, refresh, spender>>

\* finally: the tab signs out even when the server was not reached; then the
\* cookie stays.
LoggedOut(c) ==
    /\ call[c].kind = "logout"
    /\ \/ call[c].at = "answered" /\ cookie' = None /\ UNCHANGED spender
       \/ UNCHANGED cookie /\ Lost(GivenUp({c}))
    /\ access' = FALSE /\ remembered' = FALSE
    /\ auth' = [auth EXCEPT ![call[c].tab] = "out"]
    /\ call' = [call EXCEPT ![c] = NoCall]
    /\ UNCHANGED <<server, refreshing, refresh>>

-----------------------------------------------------------------------------
(* What happens around the code. *)

\* The session runs out, or is ended by a new password or a suspension.
EndedElsewhere(f) ==
    /\ Server!GiveUp({f})
    /\ Lost({current[f]})
    /\ UNCHANGED <<browser, refresh, call>>

\* A tab is opened or loaded again.  Its requests are cut off, so their answers
\* are lost.  (A refresh or sign-out that reaches the server only then is an
\* EndedElsewhere to the browser.)
Load(t) ==
    LET mine == {r \in Refresh : refresh[r].tab = t} IN
    /\ auth' = [auth EXCEPT ![t] = "loading"]
    /\ refreshing' = [refreshing EXCEPT ![t] = None]
    /\ call' = [c \in Call |-> IF call[c].tab = t THEN NoCall ELSE call[c]]
    /\ refresh' = [r \in Refresh |-> IF r \in mine THEN NoRefresh ELSE refresh[r]]
    /\ Lost({refresh[r].sent : r \in {r \in mine : refresh[r].at = "granted"}}
              \cup GivenUp({c \in Call : call[c].tab = t}))
    /\ UNCHANGED <<server, cookie, access, remembered>>

-----------------------------------------------------------------------------

Init ==
    /\ Server!Init
    /\ cookie = None /\ access = FALSE /\ remembered = FALSE
    /\ auth = [t \in Tab |-> "loading"]
    /\ refreshing = [t \in Tab |-> None]
    /\ refresh = [r \in Refresh |-> NoRefresh]
    /\ call = [c \in Call |-> NoCall]
    /\ spender = [k \in Token |-> None]

Proceed(c) ==
    \/ Answer(c) \/ Error(c) \/ Unauthorized(c)
    \/ LoginServed(c) \/ LoggedIn(c) \/ LogoutServed(c) \/ LoggedOut(c)

ProceedRefresh(r) ==
    \/ Grant(r) \/ Refuse(r) \/ Break(r) \/ StoreCookie(r) \/ Refreshed(r) \/ NotRefreshed(r)

Next ==
    \/ \E c \in Call, t \in Tab : Ask(c, t) \/ Boot(c, t) \/ Login(c, t) \/ Logout(c, t)
    \/ \E c \in Call : Proceed(c)
    \/ \E r \in Refresh : ProceedRefresh(r)
    \/ \E f \in Token : EndedElsewhere(f)
    \/ \E t \in Tab : Load(t)

Spec == Init /\ [][Next]_vars

\* Every HTTP request ends, with an answer or an error, and JavaScript runs on.
FairSpec ==
    /\ Spec
    /\ \A c \in Call : WF_vars(Proceed(c))
    /\ \A r \in Refresh : WF_vars(ProceedRefresh(r))

-----------------------------------------------------------------------------
(* Properties. *)

\* The browser never loses a session it did not end: the token in its cookie
\* works, or the answer that replaces it is under way, or was lost, or the
\* session was ended elsewhere.  Two tabs that refresh at once present one
\* token twice, and the second is refused; but neither the refusal nor any
\* order of their answers costs them the session.
SessionSurvives ==
    cookie \in spent /\ spender[cookie] # "lost" =>
        \/ \E r \in Refresh : refresh[r].at = "granted" /\ refresh[r].sent = cookie
        \/ \E c \in Call : call[c].kind = "logout" /\ call[c].cookie = cookie

\* A tab never presents a token that it has itself exchanged: however many of
\* its requests get a 401, and whenever they do, what one refresh of the tab
\* spends no other sends, unless the answer was lost.
RefusedByOthers ==
    \A r \in Refresh :
        /\ refresh[r].at = "refused"
        /\ refresh[r].sent \in spent
        => spender[refresh[r].sent] # refresh[r].tab

\* Whatever the refresh comes to, the requests that wait for it end.
RequestsEnd == \A c \in Call : []<>(call[c] = NoCall)
=============================================================================
