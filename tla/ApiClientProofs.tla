-------------------------- MODULE ApiClientProofs ---------------------------
(***************************************************************************)
(* Proofs, for any number of tabs, requests, refreshes and tokens, that    *)
(* the browser never loses a session it did not end, and that a tab never  *)
(* presents a token it has itself exchanged.                               *)
(*                                                                         *)
(* The argument follows each token: it travels to the browser in an answer *)
(* (cargo), lies in the cookie, is sent with requests, and is spent.  A    *)
(* token that still travels has never been sent.                           *)
(***************************************************************************)
EXTENDS ApiClient, TLAPS

RefreshRows == [at : {"none", "sent", "granted", "stored", "refused", "failed"},
                tab : Tab \cup {None}, sent : Token \cup {None}, got : Token \cup {None}]

CallRows == [kind : {"none", "page", "boot", "me", "login", "logout"},
             tab : Tab \cup {None}, at : {"none", "sent", "waiting", "answered"},
             token : BOOLEAN, cookie : Token \cup {None}, again : BOOLEAN]

Used(k) == k \in spent \/ \E f \in Token : current[f] = k

\* The tokens a refresh and a request have to do with, or None.
Cargo(r) == IF refresh[r].at = "granted" THEN refresh[r].got ELSE None
CargoOf(c) == IF Doing(c, {"login"}, "answered") THEN call[c].cookie ELSE None
Sent(r) == IF refresh[r].at # "none" THEN refresh[r].sent ELSE None
SignsOut(c) == IF call[c].kind = "logout" THEN call[c].cookie ELSE None
Ended(c) == IF Doing(c, {"logout"}, "answered") THEN call[c].cookie ELSE None

Travels(k) == (\E r \in Refresh : Cargo(r) = k) \/ (\E c \in Call : CargoOf(c) = k)
Presented(k) == \/ cookie = k
                \/ \E r \in Refresh : Sent(r) = k
                \/ \E c \in Call : SignsOut(c) = k

ServerOK ==
    \A f \in Token :
        /\ current[f] \notin spent
        /\ current[f] # None => Used(f)
        /\ \A g \in Token : current[f] = current[g] /\ current[f] # None => f = g

\* One answer brings a token, which nobody has presented before.
TravelOK ==
    /\ \A r, q \in Refresh : Cargo(r) = Cargo(q) /\ Cargo(r) # None => r = q
    /\ \A c, d \in Call : CargoOf(c) = CargoOf(d) /\ CargoOf(c) # None => c = d
    /\ \A r \in Refresh, c \in Call : Cargo(r) = CargoOf(c) => Cargo(r) = None
    /\ \A k \in Token : Travels(k) =>
          Used(k) /\ ~Presented(k) /\ (k \in spent => spender[k] = "lost")

PresentedOK == \A k \in Token : Presented(k) => Used(k)

\* SessionSurvives, with the sign-outs that have been served only.
CookieOK ==
    cookie \in spent /\ spender[cookie] # "lost" =>
        \/ \E r \in Refresh : refresh[r].at = "granted" /\ refresh[r].sent = cookie
        \/ \E c \in Call : Ended(c) = cookie

SpenderOK ==
    /\ \A k \in Token \ spent : spender[k] = None
    /\ \A c \in Call : Ended(c) # None =>
          Ended(c) \in spent /\ spender[Ended(c)] \in {None, "lost"}

\* Single flight, and what follows from it for the tokens of a tab.
FlightOK ==
    \A r \in Refresh : refresh[r].at # "none" =>
        /\ refresh[r].tab \in Tab
        /\ refreshing[refresh[r].tab] = r
        /\ refresh[r].at = "granted" =>
              /\ refresh[r].sent \in spent
              /\ spender[refresh[r].sent] \in {refresh[r].tab, "lost"}
        /\ refresh[r].at \in {"sent", "refused"} /\ refresh[r].sent \in spent =>
              spender[refresh[r].sent] # refresh[r].tab

CallersOK == \A c \in Call : call[c].kind # "none" => call[c].tab \in Tab

ClientInv ==
    /\ TypeOK /\ ServerOK /\ TravelOK /\ PresentedOK
    /\ CookieOK /\ SpenderOK /\ FlightOK /\ CallersOK

-----------------------------------------------------------------------------
(* Lemmas. *)

LEMMA Types ==
    ASSUME TypeOK
    PROVE  /\ current \in [Token -> Token \cup {None}] /\ spent \in SUBSET Token
           /\ cookie \in Token \cup {None} /\ access \in BOOLEAN /\ remembered \in BOOLEAN
           /\ auth \in [Tab -> {"loading", "asking", "out", "in"}]
           /\ refreshing \in [Tab -> Refresh \cup {None}]
           /\ refresh \in [Refresh -> RefreshRows] /\ call \in [Call -> CallRows]
           /\ spender \in [Token -> Tab \cup {None, "lost"}]
BY DEF TypeOK, RefreshRows, CallRows, Server!FamiliesTypeOK

LEMMA Names == None \notin Token /\ None \notin Refresh /\ None \notin Tab /\ "lost" \notin Tab
BY ApiClientAssumption

\* The empty rows.
LEMMA Empty ==
    /\ NoCall \in CallRows /\ NoRefresh \in RefreshRows /\ NoRefresh.at = "none"
    /\ NoCall.kind = "none" /\ NoCall.at = "none" /\ NoCall.cookie = None
BY DEF NoCall, NoRefresh, CallRows, RefreshRows

LEMMA FreshIsUnused ==
    ASSUME TypeOK, NEW k \in Token
    PROVE  Server!Fresh(k) <=> ~Used(k)
BY DEF Server!Fresh, Used

\* What the server does to the tokens.
LEMMA OpenOK ==
    ASSUME TypeOK, ServerOK, NEW k \in Token, Server!Open(k)
    PROVE  /\ current' \in [Token -> Token \cup {None}] /\ ServerOK' /\ spent' = spent
           /\ ~Used(k) /\ \A x \in Token : Used(x)' <=> Used(x) \/ x = k
<1>1. /\ ~Used(k) /\ spent' = spent /\ current' = [current EXCEPT ![k] = k]
      /\ current \in [Token -> Token \cup {None}] /\ current[k] = None
  BY Types, FreshIsUnused DEF Server!Open, ServerOK
<1>2. /\ current' \in [Token -> Token \cup {None}] /\ current'[k] = k
      /\ \A f \in Token \ {k} : current'[f] = current[f]
  BY <1>1
<1>3. \A x \in Token : Used(x)' <=> Used(x) \/ x = k
  BY <1>1, <1>2, Names DEF Used
<1>4. ServerOK'
  BY <1>1, <1>2, <1>3 DEF ServerOK, Used
<1> QED BY <1>1, <1>2, <1>3, <1>4

LEMMA ExchangeOK ==
    ASSUME TypeOK, ServerOK, NEW k \in Token, NEW e \in Token, Server!Exchange(e, k)
    PROVE  /\ current' \in [Token -> Token \cup {None}] /\ ServerOK'
           /\ current[e] \in Token \ spent /\ spent' = spent \cup {current[e]}
           /\ ~Used(k) /\ \A x \in Token : Used(x)' <=> Used(x) \/ x = k
<1>1. /\ ~Used(k) /\ spent' = spent \cup {current[e]}
      /\ current' = [current EXCEPT ![e] = k]
      /\ current \in [Token -> Token \cup {None}] /\ current[e] \in Token \ spent
  BY Types, FreshIsUnused DEF Server!Exchange, ServerOK
<1>2. /\ current' \in [Token -> Token \cup {None}] /\ current'[e] = k
      /\ \A f \in Token \ {e} : current'[f] = current[f]
  BY <1>1
<1>3. \A x \in Token : Used(x)' <=> Used(x) \/ x = k
  BY <1>1, <1>2 DEF Used
<1>4. \A f \in Token \ {e} : current[f] # current[e] /\ current[f] # k
  BY <1>1, Names DEF ServerOK, Used
<1>5. k \notin spent' /\ k # current[e]
  BY <1>1 DEF Used
<1>6. ServerOK'
  BY <1>1, <1>2, <1>3, <1>4, <1>5 DEF ServerOK, Used
<1> QED BY <1>1, <1>2, <1>3, <1>6

LEMMA GiveUpOK ==
    ASSUME TypeOK, ServerOK, NEW F \in SUBSET Token, Server!GiveUp(F)
    PROVE  /\ current' \in [Token -> Token \cup {None}] /\ ServerOK'
           /\ spent' = spent \cup {current[f] : f \in F} /\ spent' \in SUBSET Token
           /\ \A f \in F : current[f] \in Token \ spent
           /\ \A x \in Token : Used(x)' <=> Used(x)
<1>1. /\ spent' = spent \cup {current[f] : f \in F}
      /\ current' = [f \in Token |-> IF f \in F THEN None ELSE current[f]]
      /\ current \in [Token -> Token \cup {None}] /\ spent \in SUBSET Token
      /\ \A f \in F : current[f] \in Token \ spent
  BY Types DEF Server!GiveUp, ServerOK
<1>2. /\ current' \in [Token -> Token \cup {None}] /\ spent' \in SUBSET Token
      /\ \A f \in Token : current'[f] = IF f \in F THEN None ELSE current[f]
  BY <1>1
<1>3. \A x \in Token : Used(x)' <=> Used(x)
  BY <1>1, <1>2, Names DEF Used
<1>4. ASSUME NEW f \in Token
      PROVE  /\ current'[f] \notin spent' /\ (current'[f] # None => Used(f)')
             /\ \A g \in Token : current'[f] = current'[g] /\ current'[f] # None => f = g
  <2>1. CASE f \in F
    BY <1>2, <2>1, Names
  <2>2. CASE f \notin F
    <3>1. \A g \in F : current[f] # current[g]
      BY <1>1, <2>2, Names DEF ServerOK
    <3> QED BY <1>1, <1>2, <1>3, <2>2, <3>1, Names DEF ServerOK
  <2> QED BY <2>1, <2>2
<1> QED BY <1>1, <1>2, <1>3, <1>4 DEF ServerOK

\* No new cargo, and none of the old is presented or spent.
LEMMA TravelKept ==
    ASSUME TravelOK,
           \A r \in Refresh : Cargo(r)' \in {Cargo(r), None},
           \A c \in Call : CargoOf(c)' \in {CargoOf(c), None},
           \A k \in Token : Used(k) => Used(k)',
           \A k \in Token : Travels(k) /\ Travels(k)' =>
               ~Presented(k)' /\ (k \in spent' => spender'[k] = "lost")
    PROVE  TravelOK'
<1>1. \A r, q \in Refresh : Cargo(r)' = Cargo(q)' /\ Cargo(r)' # None => r = q
  BY DEF TravelOK
<1>2. \A c, d \in Call : CargoOf(c)' = CargoOf(d)' /\ CargoOf(c)' # None => c = d
  BY DEF TravelOK
<1>3. \A r \in Refresh, c \in Call : Cargo(r)' = CargoOf(c)' => Cargo(r)' = None
  BY DEF TravelOK
<1>4. \A k \in Token : Travels(k)' => Travels(k)
  BY Names DEF Travels
<1>5. \A k \in Token : Travels(k)' =>
          Used(k)' /\ ~Presented(k)' /\ (k \in spent' => spender'[k] = "lost")
  BY <1>4 DEF TravelOK
<1> QED BY <1>1, <1>2, <1>3, <1>5 DEF TravelOK

\* The refreshes go on or end, in the tabs they belong to.
LEMMA FlightKept ==
    ASSUME FlightOK, TypeOK, UNCHANGED spent,
           \A k \in Token : spender'[k] \in {spender[k], "lost"},
           \A r \in Refresh : refresh'[r].at # "none" =>
               /\ refresh[r].at # "none"
               /\ refresh'[r].tab = refresh[r].tab /\ refresh'[r].sent = refresh[r].sent
               /\ refreshing'[refresh[r].tab] = refreshing[refresh[r].tab]
               /\ \/ refresh'[r].at \in {refresh[r].at, "stored", "failed"}
                  \/ refresh[r].at = "sent" /\ refresh'[r].at = "refused"
    PROVE  FlightOK'
<1> SUFFICES ASSUME NEW r \in Refresh, refresh'[r].at # "none"
             PROVE  /\ refresh'[r].tab \in Tab
                    /\ refreshing'[refresh'[r].tab] = r
                    /\ refresh'[r].at = "granted" =>
                          /\ refresh'[r].sent \in spent'
                          /\ spender'[refresh'[r].sent] \in {refresh'[r].tab, "lost"}
                    /\ refresh'[r].at \in {"sent", "refused"} /\ refresh'[r].sent \in spent' =>
                          spender'[refresh'[r].sent] # refresh'[r].tab
  BY DEF FlightOK
<1>1. spent \in SUBSET Token
  BY Types
<1>2. refresh'[r].tab \in Tab /\ refreshing'[refresh'[r].tab] = r
  BY DEF FlightOK
<1>3. refresh'[r].at = "granted" =>
          /\ refresh'[r].sent \in spent'
          /\ spender'[refresh'[r].sent] \in {refresh'[r].tab, "lost"}
  BY <1>1 DEF FlightOK
<1>4. refresh'[r].at \in {"sent", "refused"} /\ refresh'[r].sent \in spent' =>
          spender'[refresh'[r].sent] # refresh'[r].tab
  <2>1. refresh'[r].at \in {"sent", "refused"} => refresh[r].at \in {"sent", "refused"}
    OBVIOUS
  <2> QED BY <1>1, <2>1, Names DEF FlightOK
<1> QED BY <1>2, <1>3, <1>4

\* A step of the browser only: no token moves, some are given up.
LEMMA BrowserKeeps ==
    ASSUME ClientInv, TypeOK', FlightOK', CallersOK', UNCHANGED <<server, cookie>>,
           \A k \in Token : \/ spender'[k] = spender[k]
                            \/ spender'[k] = "lost" /\ k \in spent,
           \A r \in Refresh :
               /\ Cargo(r)' \in {Cargo(r), None} /\ Sent(r)' \in {Sent(r), None, cookie}
               /\ refresh[r].at = "granted" /\ refresh[r].sent = cookie =>
                     \/ refresh'[r].at = "granted" /\ refresh'[r].sent = cookie
                     \/ spender'[cookie] = "lost",
           \A c \in Call :
               /\ CargoOf(c)' \in {CargoOf(c), None}
               /\ SignsOut(c)' \in {SignsOut(c), None, cookie}
               /\ Ended(c)' \in {Ended(c), None}
               /\ Ended(c) = cookie => Ended(c)' = cookie \/ spender'[cookie] = "lost"
    PROVE  ClientInv'
<1>1. /\ spent' = spent /\ cookie' = cookie /\ spent \in SUBSET Token
      /\ \A k \in Token : Used(k)' <=> Used(k)
  BY Types DEF server, Used, ClientInv
<1>2. ServerOK'
  BY DEF server, Used, ServerOK, ClientInv
<1>3. \A k \in Token : Presented(k)' => Presented(k)
  BY <1>1, Names DEF Presented
<1>4. PresentedOK'
  BY <1>1, <1>3 DEF ClientInv, PresentedOK
<1>5. \A k \in Token : Travels(k) =>
          ~Presented(k)' /\ (k \in spent' => spender'[k] = "lost")
  BY <1>1, <1>3 DEF ClientInv, TravelOK
<1>6. TravelOK'
  BY <1>1, <1>5, TravelKept DEF ClientInv
<1>7. SpenderOK'
  <2>1. \A k \in Token \ spent' : spender'[k] = None
    BY <1>1 DEF ClientInv, SpenderOK
  <2>2. \A c \in Call : Ended(c)' # None =>
            Ended(c)' \in spent' /\ spender'[Ended(c)'] \in {None, "lost"}
    BY <1>1 DEF ClientInv, SpenderOK
  <2> QED BY <2>1, <2>2 DEF SpenderOK
<1>8. CookieOK'
  <2> SUFFICES ASSUME cookie \in spent, spender'[cookie] # "lost"
               PROVE  \/ \E r \in Refresh : refresh'[r].at = "granted" /\ refresh'[r].sent = cookie
                      \/ \E c \in Call : Ended(c)' = cookie
    BY <1>1 DEF CookieOK
  <2>1. spender'[cookie] = spender[cookie]
    BY <1>1
  <2> QED BY <2>1 DEF ClientInv, CookieOK
<1> QED BY <1>2, <1>4, <1>6, <1>7, <1>8 DEF ClientInv

\* A step of the requests.
LEMMA CallsKeep ==
    ASSUME ClientInv, TypeOK', CallersOK',
           UNCHANGED <<server, cookie, spender, refresh, refreshing>>,
           \A c \in Call : /\ CargoOf(c)' \in {CargoOf(c), None}
                           /\ SignsOut(c)' \in {SignsOut(c), None, cookie}
                           /\ Ended(c)' = Ended(c)
    PROVE  ClientInv'
<1>1. FlightOK'
  BY DEF server, ClientInv, FlightOK
<1>2. \A r \in Refresh : Cargo(r)' = Cargo(r) /\ Sent(r)' = Sent(r)
  BY DEF Cargo, Sent
<1> QED BY <1>1, <1>2, BrowserKeeps

\* What one new row of a request means for the tokens.
LEMMA CallChanges ==
    ASSUME TypeOK, NEW c \in Call, NEW n \in CallRows, call' = [call EXCEPT ![c] = n]
    PROVE  /\ call' \in [Call -> CallRows] /\ call'[c] = n
           /\ CargoOf(c)' = (IF n.kind = "login" /\ n.at = "answered" THEN n.cookie ELSE None)
           /\ SignsOut(c)' = (IF n.kind = "logout" THEN n.cookie ELSE None)
           /\ Ended(c)' = (IF n.kind = "logout" /\ n.at = "answered" THEN n.cookie ELSE None)
           /\ \A d \in Call \ {c} : /\ call'[d] = call[d] /\ CargoOf(d)' = CargoOf(d)
                                    /\ SignsOut(d)' = SignsOut(d) /\ Ended(d)' = Ended(d)
<1>1. /\ call' \in [Call -> CallRows] /\ call'[c] = n
      /\ \A d \in Call \ {c} : call'[d] = call[d]
  BY Types
<1> QED BY <1>1 DEF CargoOf, SignsOut, Ended, Doing

\* Likewise for a refresh.
LEMMA RefreshChanges ==
    ASSUME TypeOK, NEW r \in Refresh, NEW n \in RefreshRows,
           refresh' = [refresh EXCEPT ![r] = n]
    PROVE  /\ refresh' \in [Refresh -> RefreshRows] /\ refresh'[r] = n
           /\ Cargo(r)' = (IF n.at = "granted" THEN n.got ELSE None)
           /\ Sent(r)' = (IF n.at # "none" THEN n.sent ELSE None)
           /\ \A q \in Refresh \ {r} :
                 refresh'[q] = refresh[q] /\ Cargo(q)' = Cargo(q) /\ Sent(q)' = Sent(q)
<1>1. /\ refresh' \in [Refresh -> RefreshRows] /\ refresh'[r] = n
      /\ \A q \in Refresh \ {r} : refresh'[q] = refresh[q]
  BY Types
<1> QED BY <1>1 DEF Cargo, Sent

-----------------------------------------------------------------------------
(* Requests. *)

LEMMA RejectTypes ==
    ASSUME TypeOK, NEW C \in SUBSET Call, Reject(C)
    PROVE  /\ access' \in BOOLEAN /\ remembered' \in BOOLEAN
           /\ auth' \in [Tab -> {"loading", "asking", "out", "in"}]
<1>1. access' \in BOOLEAN /\ remembered' \in BOOLEAN
  BY DEF Reject
<1>2. auth' \in [Tab -> {"loading", "asking", "out", "in"}]
  BY Types DEF Reject
<1> QED BY <1>1, <1>2

\* A request is sent, or ends, or waits, unless it is a sign-out that was
\* served: no token is touched.
LEMMA OneCallKeeps ==
    ASSUME ClientInv, NEW c \in Call, NEW n \in CallRows, call' = [call EXCEPT ![c] = n],
           n.at # "answered", n.kind = "logout" => n.cookie = cookie,
           n.kind # "none" => n.tab \in Tab,
           call[c].kind # "logout",
           access' \in BOOLEAN, remembered' \in BOOLEAN,
           auth' \in [Tab -> {"loading", "asking", "out", "in"}],
           UNCHANGED <<server, cookie, refreshing, refresh, spender>>
    PROVE  ClientInv'
<1>1. TypeOK
  BY DEF ClientInv
<1>2. /\ call' \in [Call -> CallRows]
      /\ CargoOf(c)' = None /\ SignsOut(c)' \in {None, cookie} /\ Ended(c)' = None
      /\ \A d \in Call \ {c} : /\ CargoOf(d)' = CargoOf(d)
                               /\ SignsOut(d)' = SignsOut(d) /\ Ended(d)' = Ended(d)
  BY <1>1, CallChanges
<1>3. Ended(c) = None
  BY DEF Ended, Doing
<1>4. TypeOK'
  BY <1>1, <1>2, Types DEF TypeOK, RefreshRows, CallRows, Server!FamiliesTypeOK, server
<1>5. CallersOK'
  BY <1>1, CallChanges DEF ClientInv, CallersOK
<1> QED BY <1>2, <1>3, <1>4, <1>5, CallsKeep

\* A request that is sent with the stored access token.
LEMMA SendRow ==
    ASSUME TypeOK, NEW c \in Call, NEW t \in Tab, NEW kind \in Asking, Send(c, kind, t)
    PROVE  \E n \in CallRows : /\ call' = [call EXCEPT ![c] = n] /\ n.at = "sent" /\ n.tab = t
                               /\ n.kind # "logout" /\ call[c].kind # "logout"
<1> DEFINE n == [NoCall EXCEPT !.kind = kind, !.tab = t, !.at = "sent", !.token = access]
<1>1. access \in BOOLEAN
  BY Types
<1>2. n \in CallRows /\ n.at = "sent" /\ n.kind = kind /\ n.tab = t
  BY <1>1 DEF NoCall, CallRows, Asking
<1>3. call' = [call EXCEPT ![c] = n] /\ call[c].kind # "logout" /\ kind # "logout"
  BY Empty DEF Send, Asking
<1> QED BY <1>2, <1>3

LEMMA AskKeeps ==
    ASSUME ClientInv, NEW c \in Call, NEW t \in Tab, Ask(c, t)
    PROVE  ClientInv'
<1>1. TypeOK /\ "page" \in Asking
  BY DEF ClientInv, Asking
<1>2. PICK n \in CallRows : /\ call' = [call EXCEPT ![c] = n] /\ n.at = "sent" /\ n.tab = t
                            /\ n.kind # "logout" /\ call[c].kind # "logout"
  BY <1>1, SendRow DEF Ask
<1> QED BY <1>1, <1>2, Types, OneCallKeeps DEF Ask, browser

LEMMA BootKeeps ==
    ASSUME ClientInv, NEW c \in Call, NEW t \in Tab, Boot(c, t)
    PROVE  ClientInv'
<1>1. TypeOK /\ "boot" \in Asking
  BY DEF ClientInv, Asking
<1>2. /\ auth' \in [Tab -> {"loading", "asking", "out", "in"}]
      /\ UNCHANGED <<server, cookie, access, remembered, refreshing, refresh, spender>>
  BY <1>1, Types DEF Boot
<1>3. CASE remembered
  <2>1. PICK n \in CallRows : /\ call' = [call EXCEPT ![c] = n] /\ n.at = "sent" /\ n.tab = t
                              /\ n.kind # "logout" /\ call[c].kind # "logout"
    BY <1>1, <1>3, SendRow DEF Boot
  <2> QED BY <1>1, <1>2, <2>1, Types, OneCallKeeps
<1>4. CASE ~remembered
  <2>1. call' = call
    BY <1>4 DEF Boot
  <2>2. \A d \in Call : /\ CargoOf(d)' = CargoOf(d)
                        /\ SignsOut(d)' = SignsOut(d) /\ Ended(d)' = Ended(d)
    BY <2>1 DEF CargoOf, SignsOut, Ended, Doing
  <2>3. TypeOK'
    BY <1>1, <1>2, <2>1, Types DEF TypeOK, RefreshRows, CallRows, Server!FamiliesTypeOK, server
  <2>4. CallersOK'
    BY <2>1 DEF ClientInv, CallersOK
  <2> QED BY <1>2, <2>2, <2>3, <2>4, CallsKeep
<1> QED BY <1>3, <1>4

LEMMA AnswerKeeps ==
    ASSUME ClientInv, NEW c \in Call, Answer(c)
    PROVE  ClientInv'
<1>1. TypeOK
  BY DEF ClientInv
<1>2. /\ remembered' \in BOOLEAN /\ auth' \in [Tab -> {"loading", "asking", "out", "in"}]
      /\ call' = [call EXCEPT ![c] = NoCall] /\ call[c].kind # "logout"
      /\ UNCHANGED <<server, cookie, access, refreshing, refresh, spender>>
  BY <1>1, Types DEF Answer, Doing, Asking
<1> QED BY <1>1, <1>2, Types, Empty, OneCallKeeps

LEMMA ErrorKeeps ==
    ASSUME ClientInv, NEW c \in Call, Error(c)
    PROVE  ClientInv'
<1>1. TypeOK /\ {c} \in SUBSET Call
  BY DEF ClientInv
<1>2. /\ Reject({c}) /\ call' = [call EXCEPT ![c] = NoCall] /\ call[c].kind # "logout"
      /\ UNCHANGED <<server, cookie, refreshing, refresh, spender>>
  BY DEF Error, Asking
<1> QED BY <1>1, <1>2, RejectTypes, Empty, OneCallKeeps

LEMMA LoginKeeps ==
    ASSUME ClientInv, NEW c \in Call, NEW t \in Tab, Login(c, t)
    PROVE  ClientInv'
<1> DEFINE n == [NoCall EXCEPT !.kind = "login", !.tab = t, !.at = "sent"]
<1>1. n \in CallRows /\ n.kind = "login" /\ n.at = "sent" /\ n.tab = t
  BY DEF NoCall, CallRows
<1>2. /\ call' = [call EXCEPT ![c] = n] /\ call[c].kind # "logout"
      /\ UNCHANGED <<server, browser, refresh, spender>>
  BY Empty DEF Login
<1> HIDE DEF n
<1>3. TypeOK
  BY DEF ClientInv
<1> QED BY <1>1, <1>2, <1>3, Types, OneCallKeeps DEF browser

LEMMA LogoutKeeps ==
    ASSUME ClientInv, NEW c \in Call, NEW t \in Tab, Logout(c, t)
    PROVE  ClientInv'
<1> DEFINE n == [NoCall EXCEPT !.kind = "logout", !.tab = t, !.at = "sent", !.cookie = cookie]
<1>1. TypeOK /\ cookie \in Token \cup {None}
  BY Types DEF ClientInv
<1>2. n \in CallRows /\ n.kind = "logout" /\ n.at = "sent" /\ n.cookie = cookie
      /\ n.tab = t
  BY <1>1 DEF NoCall, CallRows
<1>3. /\ call' = [call EXCEPT ![c] = n] /\ call[c].kind # "logout"
      /\ UNCHANGED <<server, browser, refresh, spender>>
  BY Empty DEF Logout
<1> HIDE DEF n
<1> QED BY <1>1, <1>2, <1>3, Types, OneCallKeeps DEF browser

\* A refresh begins in a tab that has none: it presents the cookie.
LEMMA RefreshBegins ==
    ASSUME ClientInv, NEW t \in Tab, refreshing[t] = None, NEW r \in Refresh,
           refresh[r] = NoRefresh, refreshing' = [refreshing EXCEPT ![t] = r],
           refresh' = [refresh EXCEPT ![r] =
                         [NoRefresh EXCEPT !.at = "sent", !.tab = t, !.sent = cookie]],
           UNCHANGED <<server, cookie, access, remembered, auth, spender>>,
           call' \in [Call -> CallRows], CallersOK',
           \A c \in Call : /\ CargoOf(c)' \in {CargoOf(c), None}
                           /\ SignsOut(c)' \in {SignsOut(c), None, cookie}
                           /\ Ended(c)' = Ended(c)
    PROVE  ClientInv'
<1> DEFINE n == [NoRefresh EXCEPT !.at = "sent", !.tab = t, !.sent = cookie]
<1>1. TypeOK /\ cookie \in Token \cup {None} /\ spent \in SUBSET Token
      /\ refreshing \in [Tab -> Refresh \cup {None}]
  BY Types DEF ClientInv
<1>2. n \in RefreshRows /\ n.at = "sent" /\ n.tab = t /\ n.sent = cookie
  BY <1>1 DEF NoRefresh, RefreshRows
<1> HIDE DEF n
<1>3. /\ refresh' \in [Refresh -> RefreshRows] /\ refresh'[r] = n
      /\ Cargo(r)' = None /\ Sent(r)' = cookie
      /\ \A q \in Refresh \ {r} :
            refresh'[q] = refresh[q] /\ Cargo(q)' = Cargo(q) /\ Sent(q)' = Sent(q)
  BY <1>1, <1>2, RefreshChanges DEF n
<1>4. /\ refreshing' \in [Tab -> Refresh \cup {None}] /\ refreshing'[t] = r
      /\ \A v \in Tab \ {t} : refreshing'[v] = refreshing[v]
  BY <1>1
<1>5. TypeOK'
  BY <1>1, <1>3, <1>4, Types DEF TypeOK, RefreshRows, CallRows, Server!FamiliesTypeOK, server
<1>6. \A q \in Refresh : refresh[q].at # "none" => refresh[q].tab # t
  BY Names DEF ClientInv, FlightOK
<1>7. cookie \in spent => spender[cookie] # t
  <2>1. ASSUME NEW q \in Refresh, refresh[q].at = "granted", refresh[q].sent = cookie
        PROVE  spender[cookie] # t
    BY <1>6, <2>1, Names DEF ClientInv, FlightOK
  <2>2. ASSUME NEW c \in Call, Ended(c) = cookie, cookie \in spent
        PROVE  spender[cookie] # t
    BY <1>1, <2>2, Names DEF ClientInv, SpenderOK
  <2> QED BY <2>1, <2>2, Names DEF ClientInv, CookieOK
<1>8. FlightOK'
  <2> SUFFICES ASSUME NEW q \in Refresh, refresh'[q].at # "none"
               PROVE  /\ refresh'[q].tab \in Tab
                      /\ refreshing'[refresh'[q].tab] = q
                      /\ refresh'[q].at = "granted" =>
                            /\ refresh'[q].sent \in spent'
                            /\ spender'[refresh'[q].sent] \in {refresh'[q].tab, "lost"}
                      /\ refresh'[q].at \in {"sent", "refused"} /\ refresh'[q].sent \in spent' =>
                            spender'[refresh'[q].sent] # refresh'[q].tab
    BY DEF FlightOK
  <2>1. CASE q = r
    BY <1>2, <1>3, <1>4, <1>7, <2>1 DEF server
  <2>2. CASE q # r
    BY <1>3, <1>4, <1>6, <2>2 DEF server, ClientInv, FlightOK
  <2> QED BY <2>1, <2>2
<1>9. \A q \in Refresh : refresh[q].at = "granted" => refresh'[q] = refresh[q]
  BY <1>3, Empty
<1> QED BY <1>3, <1>5, <1>8, <1>9, BrowserKeeps

\* A 401: the request ends, or waits for a refresh.
LEMMA UnauthorizedKeeps ==
    ASSUME ClientInv, NEW c \in Call, Unauthorized(c)
    PROVE  ClientInv'
<1>1. TypeOK /\ {c} \in SUBSET Call /\ call[c] \in CallRows /\ call[c].kind # "logout"
  BY Types DEF ClientInv, Unauthorized, Doing, Asking
<1>2. CASE call[c].again
  <2>1. /\ Reject({c}) /\ call' = [call EXCEPT ![c] = NoCall]
        /\ UNCHANGED <<server, cookie, refreshing, refresh, spender>>
    BY <1>2 DEF Unauthorized
  <2> QED BY <1>1, <2>1, RejectTypes, Empty, OneCallKeeps
<1>3. CASE ~call[c].again
  <2> DEFINE n == [call[c] EXCEPT !.at = "waiting"]
  <2>1. /\ Wait(call[c].tab) /\ call' = [call EXCEPT ![c] = n]
        /\ UNCHANGED <<server, cookie, access, remembered, auth, spender>>
    BY <1>3, Types DEF Unauthorized
  <2>2. /\ n \in CallRows /\ n.at = "waiting" /\ n.kind = call[c].kind
        /\ n.tab = call[c].tab /\ call[c].tab \in Tab
    BY <1>1 DEF CallRows, ClientInv, CallersOK, Unauthorized, Doing, Asking
  <2> HIDE DEF n
  <2>3. CASE UNCHANGED <<refreshing, refresh>>
    BY <1>1, <2>1, <2>2, <2>3, Types, OneCallKeeps
  <2>4. CASE ~UNCHANGED <<refreshing, refresh>>
    <3>1. /\ call' \in [Call -> CallRows]
          /\ \A d \in Call : /\ CargoOf(d)' \in {CargoOf(d), None}
                             /\ SignsOut(d)' \in {SignsOut(d), None, cookie}
                             /\ Ended(d)' = Ended(d)
      BY <1>1, <2>1, <2>2, CallChanges DEF Ended, Doing
    <3>2. CallersOK'
      BY <1>1, <2>1, <2>2, CallChanges DEF ClientInv, CallersOK
    <3> QED BY <2>1, <2>2, <2>4, <3>1, <3>2, RefreshBegins DEF Wait
  <2> QED BY <2>3, <2>4
<1> QED BY <1>2, <1>3

-----------------------------------------------------------------------------
(* Refreshes. *)

\* A refresh is refused, or fails.
LEMMA RefreshEnds ==
    ASSUME ClientInv, NEW r \in Refresh, refresh[r].at \in {"sent", "granted"},
           NEW a \in {"refused", "failed"}, a = "refused" => refresh[r].at = "sent",
           refresh' = [refresh EXCEPT ![r].at = a],
           refresh[r].at = "granted" => spender' = [spender EXCEPT ![refresh[r].sent] = "lost"],
           refresh[r].at = "sent" => spender' = spender,
           UNCHANGED <<server, browser, call>>
    PROVE  ClientInv'
<1> DEFINE n == [refresh[r] EXCEPT !.at = a]
<1>1. TypeOK /\ refresh[r] \in RefreshRows /\ spender \in [Token -> Tab \cup {None, "lost"}]
      /\ spent \in SUBSET Token
  BY Types DEF ClientInv
<1>2. /\ n \in RefreshRows /\ n.at = a /\ n.tab = refresh[r].tab /\ n.sent = refresh[r].sent
      /\ refresh' = [refresh EXCEPT ![r] = n]
  BY <1>1, Types DEF RefreshRows
<1> HIDE DEF n
<1>3. /\ refresh' \in [Refresh -> RefreshRows] /\ refresh'[r] = n
      /\ Cargo(r)' = None /\ Sent(r)' = refresh[r].sent
      /\ \A q \in Refresh \ {r} :
            refresh'[q] = refresh[q] /\ Cargo(q)' = Cargo(q) /\ Sent(q)' = Sent(q)
  BY <1>1, <1>2, RefreshChanges
<1>4. Sent(r) = refresh[r].sent
  BY DEF Sent
<1>5. /\ spender' \in [Token -> Tab \cup {None, "lost"}]
      /\ \A k \in Token : \/ spender'[k] = spender[k]
                          \/ spender'[k] = "lost" /\ k \in spent
      /\ refresh[r].at = "granted" => spender'[refresh[r].sent] = "lost"
  <2>1. CASE refresh[r].at = "sent"
    BY <1>1, <2>1
  <2>2. CASE refresh[r].at = "granted"
    <3>1. refresh[r].sent \in Token \cap spent
      BY <1>1, <2>2 DEF ClientInv, FlightOK
    <3> QED BY <1>1, <2>2, <3>1
  <2> QED BY <2>1, <2>2
<1>6. TypeOK'
  BY <1>1, <1>3, <1>5, Types
     DEF TypeOK, RefreshRows, CallRows, Server!FamiliesTypeOK, server, browser
<1>7. FlightOK'
  <2>1. spent' = spent /\ refreshing' = refreshing
    BY DEF server, browser
  <2>2. \A k \in Token : spender'[k] \in {spender[k], "lost"}
    BY <1>5
  <2>3. ASSUME NEW q \in Refresh, refresh'[q].at # "none"
        PROVE  /\ refresh[q].at # "none"
               /\ refresh'[q].tab = refresh[q].tab /\ refresh'[q].sent = refresh[q].sent
               /\ refreshing'[refresh[q].tab] = refreshing[refresh[q].tab]
               /\ \/ refresh'[q].at \in {refresh[q].at, "stored", "failed"}
                  \/ refresh[q].at = "sent" /\ refresh'[q].at = "refused"
    BY <1>2, <1>3, <2>1, <2>3
  <2> QED BY <1>1, <2>1, <2>2, <2>3, FlightKept DEF ClientInv
<1>8. CallersOK' /\ cookie' = cookie /\ server' = server
  BY DEF browser, ClientInv, CallersOK
<1>9. \A c \in Call : /\ CargoOf(c)' = CargoOf(c)
                      /\ SignsOut(c)' = SignsOut(c) /\ Ended(c)' = Ended(c)
  BY DEF CargoOf, SignsOut, Ended, Doing
<1>10. ASSUME NEW q \in Refresh
       PROVE  /\ Cargo(q)' \in {Cargo(q), None} /\ Sent(q)' \in {Sent(q), None, cookie}
              /\ refresh[q].at = "granted" /\ refresh[q].sent = cookie =>
                    \/ refresh'[q].at = "granted" /\ refresh'[q].sent = cookie
                    \/ spender'[cookie] = "lost"
  BY <1>3, <1>4, <1>5
<1> QED BY <1>5, <1>6, <1>7, <1>8, <1>9, <1>10, BrowserKeeps

LEMMA RefuseKeeps ==
    ASSUME ClientInv, NEW r \in Refresh, Refuse(r)
    PROVE  ClientInv'
BY RefreshEnds DEF Refuse

LEMMA BreakKeeps ==
    ASSUME ClientInv, NEW r \in Refresh, Break(r)
    PROVE  ClientInv'
<1>1. spender \in [Token -> Tab \cup {None, "lost"}]
  BY Types DEF ClientInv
<1>2. /\ refresh[r].at = "granted" => spender' = [spender EXCEPT ![refresh[r].sent] = "lost"]
      /\ refresh[r].at = "sent" => spender' = spender
  BY <1>1 DEF Break, Lost
<1> QED BY <1>2, RefreshEnds DEF Break

\* The promise is settled: the requests that waited for it go on or end.
LEMMA SettledKeeps ==
    ASSUME ClientInv, NEW r \in Refresh, refresh[r].at \in {"stored", "refused", "failed"},
           Settled(r), UNCHANGED <<server, cookie, spender>>,
           access' \in BOOLEAN, remembered' \in BOOLEAN,
           auth' \in [Tab -> {"loading", "asking", "out", "in"}],
           call' \in [Call -> CallRows],
           \A c \in Call :
               \/ call'[c] = call[c]
               \/ /\ call[c].at = "waiting" /\ call'[c].at # "answered"
                  /\ call'[c] = NoCall \/ (call'[c].kind = call[c].kind
                        /\ call'[c].tab = call[c].tab /\ call'[c].cookie = call[c].cookie)
    PROVE  ClientInv'
<1>1. TypeOK
  BY DEF ClientInv
<1>2. /\ refresh' \in [Refresh -> RefreshRows] /\ refresh'[r] = NoRefresh
      /\ Cargo(r)' = None /\ Sent(r)' = None
      /\ \A q \in Refresh \ {r} :
            refresh'[q] = refresh[q] /\ Cargo(q)' = Cargo(q) /\ Sent(q)' = Sent(q)
  BY <1>1, RefreshChanges, Empty DEF Settled
<1>3. /\ refreshing' \in [Tab -> Refresh \cup {None}]
      /\ \A t \in Tab : refreshing[t] # r => refreshing'[t] = refreshing[t]
  BY <1>1, Types DEF Settled
<1>4. TypeOK'
  BY <1>1, <1>2, <1>3, Types DEF TypeOK, RefreshRows, CallRows, Server!FamiliesTypeOK, server
<1>5. FlightOK'
  <2>1. \A q \in Refresh : refresh'[q].at # "none" =>
            /\ refresh[q].at # "none"
            /\ refresh'[q].tab = refresh[q].tab /\ refresh'[q].sent = refresh[q].sent
            /\ refreshing'[refresh[q].tab] = refreshing[refresh[q].tab]
            /\ refresh'[q].at = refresh[q].at
    BY <1>2, <1>3, Empty DEF ClientInv, FlightOK
  <2> QED BY <1>1, <2>1, FlightKept DEF ClientInv, server
<1>6. CallersOK'
  BY Empty DEF ClientInv, CallersOK
<1>7. ASSUME NEW c \in Call
      PROVE  /\ CargoOf(c)' \in {CargoOf(c), None} /\ SignsOut(c)' \in {SignsOut(c), None}
             /\ Ended(c)' = Ended(c)
  <2>1. CASE call'[c] = call[c]
    BY <2>1 DEF CargoOf, SignsOut, Ended, Doing
  <2>2. CASE call'[c] # call[c]
    BY <2>2, Empty DEF CargoOf, SignsOut, Ended, Doing
  <2> QED BY <2>1, <2>2
<1> QED BY <1>2, <1>4, <1>5, <1>6, <1>7, BrowserKeeps

LEMMA RefreshedKeeps ==
    ASSUME ClientInv, NEW r \in Refresh, Refreshed(r)
    PROVE  ClientInv'
<1>1. TypeOK /\ call \in [Call -> CallRows]
  BY Types DEF ClientInv
<1>2. ASSUME NEW c \in Call
      PROVE  /\ call'[c] \in CallRows
             /\ \/ call'[c] = call[c]
                \/ /\ call[c].at = "waiting" /\ call'[c].at = "sent"
                   /\ call'[c].kind = call[c].kind /\ call'[c].tab = call[c].tab
                   /\ call'[c].cookie = call[c].cookie
  <2>1. call'[c] = IF c \in Waiting(r)
                   THEN [call[c] EXCEPT !.at = "sent", !.token = TRUE, !.again = TRUE]
                   ELSE call[c]
    BY DEF Refreshed
  <2>2. CASE c \in Waiting(r)
    BY <1>1, <2>1, <2>2 DEF Waiting, CallRows
  <2>3. CASE c \notin Waiting(r)
    BY <1>1, <2>1, <2>3
  <2> QED BY <2>2, <2>3
<1>3. call' \in [Call -> CallRows]
  BY <1>2 DEF Refreshed
<1>4. /\ refresh[r].at = "stored" /\ Settled(r) /\ access' \in BOOLEAN
      /\ UNCHANGED <<server, cookie, remembered, auth, spender>>
  BY DEF Refreshed
<1> QED BY <1>1, <1>2, <1>3, <1>4, Types, SettledKeeps

LEMMA NotRefreshedKeeps ==
    ASSUME ClientInv, NEW r \in Refresh, NotRefreshed(r)
    PROVE  ClientInv'
<1>1. TypeOK /\ call \in [Call -> CallRows] /\ Waiting(r) \in SUBSET Call
  BY Types DEF ClientInv, Waiting
<1>2. ASSUME NEW c \in Call
      PROVE  \/ call'[c] = call[c]
             \/ call[c].at = "waiting" /\ call'[c] = NoCall
  BY DEF NotRefreshed, Waiting
<1>3. call' \in [Call -> CallRows]
  BY <1>1, Empty DEF NotRefreshed
<1>4. /\ refresh[r].at \in {"refused", "failed"} /\ Settled(r) /\ Reject(Waiting(r))
      /\ UNCHANGED <<server, cookie, spender>>
  BY DEF NotRefreshed
<1> QED BY <1>1, <1>2, <1>3, <1>4, Empty, RejectTypes, SettledKeeps

\* The cookie is replaced by a token that was on its way, or removed.
LEMMA CookieKeeps ==
    ASSUME ClientInv, TypeOK', FlightOK', CallersOK', UNCHANGED <<server, spender>>,
           NEW k \in Token \cup {None}, cookie' = k,
           k \in Token => Travels(k) /\ ~Travels(k)',
           \A r \in Refresh : Cargo(r)' \in {Cargo(r), None} /\ Sent(r)' = Sent(r),
           \A c \in Call : /\ CargoOf(c)' \in {CargoOf(c), None}
                           /\ SignsOut(c)' \in {SignsOut(c), None}
                           /\ Ended(c)' \in {Ended(c), None}
    PROVE  ClientInv'
<1>1. TypeOK /\ spent \in SUBSET Token /\ spent' = spent
      /\ \A x \in Token : Used(x)' <=> Used(x)
  BY Types DEF ClientInv, server, Used
<1>2. ServerOK'
  BY DEF server, Used, ServerOK, ClientInv
<1>3. \A x \in Token : Presented(x)' => Presented(x) \/ x = k
  BY Names DEF Presented
<1>4. PresentedOK'
  BY <1>1, <1>3 DEF ClientInv, PresentedOK, TravelOK
<1>5. TravelOK'
  BY <1>1, <1>3, TravelKept DEF ClientInv, TravelOK
<1>6. SpenderOK'
  BY <1>1 DEF ClientInv, SpenderOK
<1>7. CookieOK'
  BY <1>1 DEF ClientInv, TravelOK, CookieOK
<1> QED BY <1>2, <1>4, <1>5, <1>6, <1>7 DEF ClientInv

\* The answer to a refresh: its cookie first.
LEMMA StoreCookieKeeps ==
    ASSUME ClientInv, NEW r \in Refresh, StoreCookie(r)
    PROVE  ClientInv'
<1> DEFINE n == [refresh[r] EXCEPT !.at = "stored"]
<1>1. TypeOK /\ refresh[r] \in RefreshRows /\ refresh[r].at = "granted"
  BY Types DEF ClientInv, StoreCookie
<1>2. /\ n \in RefreshRows /\ n.at = "stored" /\ n.tab = refresh[r].tab
      /\ n.sent = refresh[r].sent /\ refresh' = [refresh EXCEPT ![r] = n]
  BY <1>1, Types DEF RefreshRows, StoreCookie
<1> HIDE DEF n
<1>3. /\ refresh' \in [Refresh -> RefreshRows] /\ refresh'[r] = n
      /\ Cargo(r)' = None /\ Sent(r)' = refresh[r].sent
      /\ \A q \in Refresh \ {r} :
            refresh'[q] = refresh[q] /\ Cargo(q)' = Cargo(q) /\ Sent(q)' = Sent(q)
  BY <1>1, <1>2, RefreshChanges
<1>4. Sent(r) = refresh[r].sent /\ Cargo(r) = refresh[r].got
  BY <1>1 DEF Sent, Cargo
<1>5. PICK k \in Token \cup {None} : k = refresh[r].got
  BY <1>1 DEF RefreshRows
<1>6. /\ cookie' = k
      /\ UNCHANGED <<server, access, remembered, auth, refreshing, call, spender>>
  BY <1>5 DEF StoreCookie
<1>7. \A c \in Call : /\ CargoOf(c)' = CargoOf(c)
                      /\ SignsOut(c)' = SignsOut(c) /\ Ended(c)' = Ended(c)
  BY <1>6 DEF CargoOf, SignsOut, Ended, Doing
<1>8. k \in Token => Travels(k) /\ ~Travels(k)'
  BY <1>3, <1>4, <1>5, <1>7, Names DEF Travels, ClientInv, TravelOK
<1>9. TypeOK'
  BY <1>1, <1>3, <1>6, Types DEF TypeOK, RefreshRows, CallRows, Server!FamiliesTypeOK, server
<1>10. FlightOK'
  <2>1. spent' = spent /\ refreshing' = refreshing /\ spender' = spender
    BY <1>6 DEF server
  <2>2. ASSUME NEW q \in Refresh, refresh'[q].at # "none"
        PROVE  /\ refresh[q].at # "none"
               /\ refresh'[q].tab = refresh[q].tab /\ refresh'[q].sent = refresh[q].sent
               /\ refreshing'[refresh[q].tab] = refreshing[refresh[q].tab]
               /\ refresh'[q].at \in {refresh[q].at, "stored"}
    BY <1>1, <1>2, <1>3, <2>1, <2>2
  <2> QED BY <1>1, <2>1, <2>2, FlightKept DEF ClientInv
<1>11. CallersOK'
  BY <1>6 DEF ClientInv, CallersOK
<1> QED BY <1>3, <1>4, <1>6, <1>7, <1>8, <1>9, <1>10, <1>11, CookieKeeps

-----------------------------------------------------------------------------
(* Signing in and out. *)

\* Only a request and the cookie change: the refreshes stay as they are.
LEMMA RefreshesStay ==
    ASSUME ClientInv, UNCHANGED <<refresh, refreshing>>, spent' = spent,
           \A k \in Token : spender'[k] \in {spender[k], "lost"}
    PROVE  /\ FlightOK'
           /\ \A r \in Refresh : Cargo(r)' = Cargo(r) /\ Sent(r)' = Sent(r)
<1>1. \A r \in Refresh : Cargo(r)' = Cargo(r) /\ Sent(r)' = Sent(r)
  BY DEF Cargo, Sent
<1> QED BY <1>1, FlightKept DEF ClientInv

LEMMA LoggedInKeeps ==
    ASSUME ClientInv, NEW c \in Call, LoggedIn(c)
    PROVE  ClientInv'
<1> DEFINE n == [NoCall EXCEPT !.kind = "me", !.tab = call[c].tab, !.at = "sent",
                               !.token = TRUE]
<1>1. TypeOK /\ call[c] \in CallRows /\ Doing(c, {"login"}, "answered") /\ call[c].tab \in Tab
  BY Types DEF ClientInv, LoggedIn, CallersOK, Doing
<1>2. n \in CallRows /\ n.kind = "me" /\ n.tab = call[c].tab
  BY <1>1 DEF NoCall, CallRows
<1> HIDE DEF n
<1>3. /\ call' = [call EXCEPT ![c] = n] /\ access' = TRUE
      /\ UNCHANGED <<server, remembered, auth, refreshing, refresh, spender>>
  BY DEF LoggedIn, n
<1>4. PICK k \in Token \cup {None} : k = call[c].cookie /\ cookie' = k
  BY <1>1 DEF CallRows, LoggedIn
<1>5. /\ call' \in [Call -> CallRows] /\ call'[c] = n
      /\ CargoOf(c)' = None /\ SignsOut(c)' = None /\ Ended(c)' = None
      /\ \A d \in Call \ {c} : /\ call'[d] = call[d] /\ CargoOf(d)' = CargoOf(d)
                               /\ SignsOut(d)' = SignsOut(d) /\ Ended(d)' = Ended(d)
  BY <1>1, <1>2, <1>3, CallChanges
<1>6. CargoOf(c) = k /\ SignsOut(c) = None /\ Ended(c) = None
  BY <1>1, <1>4 DEF CargoOf, SignsOut, Ended, Doing
<1>7. FlightOK' /\ \A r \in Refresh : Cargo(r)' = Cargo(r) /\ Sent(r)' = Sent(r)
  BY <1>3, RefreshesStay DEF server
<1>8. k \in Token => Travels(k) /\ ~Travels(k)'
  BY <1>5, <1>6, <1>7, Names DEF Travels, ClientInv, TravelOK
<1>9. TypeOK'
  BY <1>1, <1>3, <1>4, <1>5, Types
     DEF TypeOK, RefreshRows, CallRows, Server!FamiliesTypeOK, server
<1>10. CallersOK'
  BY <1>1, <1>2, <1>5 DEF ClientInv, CallersOK
<1> QED BY <1>3, <1>4, <1>5, <1>6, <1>7, <1>8, <1>9, <1>10, CookieKeeps

\* The tab signs out: the cookie goes, or what the server gave up is lost.
LEMMA LoggedOutKeeps ==
    ASSUME ClientInv, NEW c \in Call, LoggedOut(c)
    PROVE  ClientInv'
<1>1. TypeOK /\ call[c].kind = "logout" /\ spender \in [Token -> Tab \cup {None, "lost"}]
  BY Types DEF ClientInv, LoggedOut
<1>2. /\ call' = [call EXCEPT ![c] = NoCall] /\ access' = FALSE /\ remembered' = FALSE
      /\ auth' \in [Tab -> {"loading", "asking", "out", "in"}]
      /\ UNCHANGED <<server, refreshing, refresh>>
  BY <1>1, Types DEF LoggedOut
<1>3. /\ call' \in [Call -> CallRows] /\ call'[c] = NoCall
      /\ CargoOf(c)' = None /\ SignsOut(c)' = None /\ Ended(c)' = None
      /\ \A d \in Call \ {c} : /\ call'[d] = call[d] /\ CargoOf(d)' = CargoOf(d)
                               /\ SignsOut(d)' = SignsOut(d) /\ Ended(d)' = Ended(d)
  BY <1>1, <1>2, CallChanges, Empty
<1>4. CallersOK'
  BY <1>3, Empty DEF ClientInv, CallersOK
<1>5. CASE cookie' = None /\ spender' = spender
  <2>1. FlightOK' /\ \A r \in Refresh : Cargo(r)' = Cargo(r) /\ Sent(r)' = Sent(r)
    BY <1>2, <1>5, RefreshesStay DEF server
  <2>2. TypeOK'
    BY <1>1, <1>2, <1>3, <1>5, Types
       DEF TypeOK, RefreshRows, CallRows, Server!FamiliesTypeOK, server
  <2> QED BY <1>2, <1>3, <1>4, <1>5, <2>1, <2>2, Names, CookieKeeps
<1>6. CASE cookie' = cookie /\ Lost(GivenUp({c}))
  <2>1. GivenUp({c}) = {Ended(c)} \ {None}
    BY DEF GivenUp, Ended
  <2>2. /\ spender' \in [Token -> Tab \cup {None, "lost"}]
        /\ \A k \in Token : spender'[k] = IF k = Ended(c) /\ k # None THEN "lost" ELSE spender[k]
    BY <1>1, <1>6, <2>1 DEF Lost
  <2>3. \A k \in Token : \/ spender'[k] = spender[k]
                         \/ spender'[k] = "lost" /\ k \in spent
    BY <2>2 DEF ClientInv, SpenderOK
  <2>4. FlightOK' /\ \A r \in Refresh : Cargo(r)' = Cargo(r) /\ Sent(r)' = Sent(r)
    BY <1>2, <2>3, RefreshesStay DEF server
  <2>5. TypeOK'
    BY <1>1, <1>2, <1>3, <1>6, <2>2, Types
       DEF TypeOK, RefreshRows, CallRows, Server!FamiliesTypeOK, server
  <2>6. cookie \in Token => (Ended(c) = cookie => spender'[cookie] = "lost")
    BY <2>2, Names
  <2>7. cookie \notin Token => cookie = None
    BY <1>1, Types
  <2> QED BY <1>2, <1>3, <1>4, <1>6, <2>3, <2>4, <2>5, <2>6, <2>7, BrowserKeeps
<1> QED BY <1>5, <1>6 DEF LoggedOut
-----------------------------------------------------------------------------
(* Steps of the server. *)

\* An answer brings an unused token.
LEMMA NewCargo ==
    ASSUME TravelOK, PresentedOK, NEW k \in Token, ~Used(k), k \notin spent',
           \A x \in Token : Used(x)' <=> Used(x) \/ x = k,
           \A x \in Token : Presented(x)' => Presented(x),
           \A x \in Token : Travels(x) /\ x \in spent' => spender'[x] = "lost",
           \A r \in Refresh : Cargo(r)' \in {Cargo(r), k},
           \A c \in Call : CargoOf(c)' \in {CargoOf(c), k},
           \A r, q \in Refresh : Cargo(r)' = k /\ Cargo(q)' = k => r = q,
           \A c, d \in Call : CargoOf(c)' = k /\ CargoOf(d)' = k => c = d,
           \A r \in Refresh, c \in Call : ~(Cargo(r)' = k /\ CargoOf(c)' = k)
    PROVE  TravelOK'
<1>1. ~Travels(k) /\ ~Presented(k)
  BY DEF TravelOK, PresentedOK
<1>2. /\ \A r \in Refresh : Cargo(r) # k
      /\ \A c \in Call : CargoOf(c) # k
  BY <1>1 DEF Travels
<1>3. \A r, q \in Refresh : Cargo(r)' = Cargo(q)' /\ Cargo(r)' # None => r = q
  BY DEF TravelOK
<1>4. \A c, d \in Call : CargoOf(c)' = CargoOf(d)' /\ CargoOf(c)' # None => c = d
  BY DEF TravelOK
<1>5. \A r \in Refresh, c \in Call : Cargo(r)' = CargoOf(c)' => Cargo(r)' = None
  BY <1>2 DEF TravelOK
<1>6. \A x \in Token : Travels(x)' => Travels(x) \/ x = k
  BY DEF Travels
<1>7. \A x \in Token : Travels(x)' =>
          Used(x)' /\ ~Presented(x)' /\ (x \in spent' => spender'[x] = "lost")
  BY <1>1, <1>6 DEF TravelOK
<1> QED BY <1>3, <1>4, <1>5, <1>7 DEF TravelOK

LEMMA NextTokenIsFresh ==
    ASSUME \E k \in Token : Server!Fresh(k)
    PROVE  NextToken \in Token /\ Server!Fresh(NextToken)
BY DEF NextToken

LEMMA GrantKeeps ==
    ASSUME ClientInv, NEW r \in Refresh, Grant(r)
    PROVE  ClientInv'
<1>1. PICK k \in Token : k = NextToken
  BY NextTokenIsFresh DEF Grant
<1>2. PICK e \in Token : current[e] = refresh[r].sent /\ Server!Exchange(e, k)
  BY <1>1 DEF Grant
<1>3. /\ TypeOK /\ ServerOK /\ TravelOK /\ PresentedOK /\ CookieOK /\ SpenderOK /\ FlightOK
      /\ refresh[r].at = "sent" /\ refresh[r] \in RefreshRows
  BY Types DEF ClientInv, Grant
<1> DEFINE n == [refresh[r] EXCEPT !.at = "granted", !.got = k]
<1>4. /\ n \in RefreshRows /\ n.at = "granted" /\ n.got = k /\ n.tab = refresh[r].tab
      /\ n.sent = refresh[r].sent
  BY <1>3 DEF RefreshRows
<1>5. refresh' = [refresh EXCEPT ![r] = n]
  BY <1>1, <1>3, Types DEF Grant, RefreshRows
<1> HIDE DEF n
<1>6. PICK s \in Token : s = refresh[r].sent /\ s \notin spent /\ s = current[e]
  BY <1>2, <1>3, ExchangeOK
<1>7. /\ current' \in [Token -> Token \cup {None}] /\ ServerOK'
      /\ spent' = spent \cup {s}
      /\ ~Used(k) /\ \A x \in Token : Used(x)' <=> Used(x) \/ x = k
  BY <1>2, <1>3, <1>6, ExchangeOK
<1>8. /\ refresh' \in [Refresh -> RefreshRows] /\ refresh'[r] = n
      /\ Cargo(r)' = k /\ Sent(r)' = s
      /\ \A q \in Refresh \ {r} :
            refresh'[q] = refresh[q] /\ Cargo(q)' = Cargo(q) /\ Sent(q)' = Sent(q)
  BY <1>3, <1>4, <1>5, <1>6, RefreshChanges
<1>9. /\ UNCHANGED <<browser, call>> /\ spender' = [spender EXCEPT ![s] = refresh[r].tab]
      /\ spender \in [Token -> Tab \cup {None, "lost"}] /\ refresh[r].tab \in Tab
  BY <1>3, <1>6, Types DEF Grant, FlightOK
<1>10. /\ spender' \in [Token -> Tab \cup {None, "lost"}] /\ spender'[s] = refresh[r].tab
       /\ \A x \in Token \ {s} : spender'[x] = spender[x]
  BY <1>9
<1>11. \A c \in Call : /\ CargoOf(c)' = CargoOf(c)
                       /\ SignsOut(c)' = SignsOut(c) /\ Ended(c)' = Ended(c)
  BY <1>9 DEF CargoOf, SignsOut, Ended, Doing
<1>12. Sent(r) = s /\ Presented(s) /\ s # k
  BY <1>3, <1>6, <1>7 DEF Sent, Presented, PresentedOK
<1>13. TypeOK'
  BY <1>3, <1>6, <1>7, <1>8, <1>9, <1>10, Types
     DEF TypeOK, RefreshRows, CallRows, Server!FamiliesTypeOK, browser
<1>14. \A x \in Token : Presented(x)' => Presented(x)
  BY <1>8, <1>9, <1>11, <1>12 DEF Presented, browser
<1>15. TravelOK'
  <2>1. k \notin spent' /\ \A x \in Token : Travels(x) => x # s
    BY <1>3, <1>7, <1>12 DEF Used, TravelOK
  <2>2. \A x \in Token : Travels(x) /\ x \in spent' => spender'[x] = "lost"
    BY <1>3, <1>7, <1>10, <2>1 DEF TravelOK
  <2>3. ~Travels(k)
    BY <1>3, <1>7 DEF TravelOK
  <2>4. /\ \A q \in Refresh : Cargo(q) # k
        /\ \A c \in Call : CargoOf(c)' # k
    BY <1>11, <2>3 DEF Travels
  <2>5. /\ \A q \in Refresh : Cargo(q)' \in {Cargo(q), k}
        /\ \A q, p \in Refresh : Cargo(q)' = k /\ Cargo(p)' = k => q = p
    BY <1>8, <2>4
  <2> QED BY <1>3, <1>7, <1>11, <1>14, <2>1, <2>2, <2>4, <2>5, NewCargo
<1>16. PresentedOK'
  BY <1>3, <1>7, <1>14 DEF PresentedOK
<1>17. CookieOK'
  <2> SUFFICES ASSUME cookie \in spent', spender'[cookie] # "lost"
               PROVE  \/ \E q \in Refresh : refresh'[q].at = "granted" /\ refresh'[q].sent = cookie
                      \/ \E c \in Call : Ended(c)' = cookie
    BY <1>9 DEF CookieOK, browser
  <2>1. CASE cookie = s
    BY <1>4, <1>6, <1>8, <2>1
  <2>2. CASE cookie # s
    <3>1. cookie \in spent /\ spender[cookie] # "lost"
      BY <1>7, <1>10, <2>2, <1>3, Types
    <3>2. \/ \E q \in Refresh : refresh[q].at = "granted" /\ refresh[q].sent = cookie
          \/ \E c \in Call : Ended(c) = cookie
      BY <1>3, <3>1 DEF CookieOK
    <3> QED BY <1>3, <1>8, <1>11, <3>2
  <2> QED BY <2>1, <2>2
<1>18. SpenderOK'
  BY <1>3, <1>6, <1>7, <1>10, <1>11, Types DEF SpenderOK
<1>19. FlightOK'
  <2> SUFFICES ASSUME NEW q \in Refresh, refresh'[q].at # "none"
               PROVE  /\ refresh'[q].tab \in Tab
                      /\ refreshing[refresh'[q].tab] = q
                      /\ refresh'[q].at = "granted" =>
                            /\ refresh'[q].sent \in spent'
                            /\ spender'[refresh'[q].sent] \in {refresh'[q].tab, "lost"}
                      /\ refresh'[q].at \in {"sent", "refused"} /\ refresh'[q].sent \in spent' =>
                            spender'[refresh'[q].sent] # refresh'[q].tab
    BY <1>9 DEF FlightOK, browser
  <2>1. refreshing[refresh[r].tab] = r
    BY <1>3 DEF FlightOK
  <2>2. CASE q = r
    BY <1>4, <1>6, <1>7, <1>8, <1>9, <1>10, <2>1, <2>2
  <2>3. CASE q # r
    <3>1. refresh'[q] = refresh[q] /\ refresh[q].tab \in Tab /\ refreshing[refresh[q].tab] = q
      BY <1>3, <1>8, <2>3 DEF FlightOK
    <3>2. refresh[q].tab # refresh[r].tab /\ spent \in SUBSET Token
      BY <1>3, <2>1, <2>3, <3>1, Types
    <3>3. refresh[q].at = "granted" =>
             refresh[q].sent \in spent' /\ spender'[refresh[q].sent] \in {refresh[q].tab, "lost"}
      BY <1>3, <1>6, <1>7, <1>10, <3>2 DEF FlightOK
    <3>4. refresh[q].at \in {"sent", "refused"} /\ refresh[q].sent \in spent' =>
             spender'[refresh[q].sent] # refresh[q].tab
      BY <1>3, <1>6, <1>7, <1>10, <3>2 DEF FlightOK
    <3> QED BY <3>1, <3>3, <3>4
  <2> QED BY <2>2, <2>3
<1>20. CallersOK'
  BY <1>9 DEF ClientInv, CallersOK
<1> QED BY <1>7, <1>13, <1>15, <1>16, <1>17, <1>18, <1>19, <1>20 DEF ClientInv
LEMMA LoginServedKeeps ==
    ASSUME ClientInv, NEW c \in Call, LoginServed(c)
    PROVE  ClientInv'
<1>1. PICK k \in Token : k = NextToken /\ Server!Open(k)
  BY NextTokenIsFresh DEF LoginServed
<1>2. /\ TypeOK /\ ServerOK /\ TravelOK /\ PresentedOK /\ CookieOK /\ SpenderOK
      /\ Doing(c, {"login"}, "sent") /\ call[c] \in CallRows /\ call[c].tab \in Tab
      /\ UNCHANGED <<browser, refresh, spender>>
  BY Types DEF ClientInv, LoginServed, CallersOK, Doing
<1> DEFINE n == [call[c] EXCEPT !.at = "answered", !.cookie = k]
<1>3. /\ n \in CallRows /\ n.at = "answered" /\ n.cookie = k /\ n.kind = "login"
      /\ n.tab = call[c].tab
  BY <1>2 DEF CallRows, Doing
<1>4. call' = [call EXCEPT ![c] = n]
  BY <1>1, <1>2, Types DEF LoginServed, CallRows
<1> HIDE DEF n
<1>5. /\ call' \in [Call -> CallRows] /\ call'[c] = n
      /\ CargoOf(c)' = k /\ SignsOut(c)' = None /\ Ended(c)' = None
      /\ \A d \in Call \ {c} : /\ call'[d] = call[d] /\ CargoOf(d)' = CargoOf(d)
                               /\ SignsOut(d)' = SignsOut(d) /\ Ended(d)' = Ended(d)
  BY <1>2, <1>3, <1>4, CallChanges
<1>6. CargoOf(c) = None /\ SignsOut(c) = None /\ Ended(c) = None
  BY <1>2 DEF CargoOf, SignsOut, Ended, Doing
<1>7. /\ current' \in [Token -> Token \cup {None}] /\ ServerOK' /\ spent' = spent
      /\ ~Used(k) /\ \A x \in Token : Used(x)' <=> Used(x) \/ x = k
  BY <1>1, <1>2, OpenOK
<1>8. FlightOK' /\ \A r \in Refresh : Cargo(r)' = Cargo(r) /\ Sent(r)' = Sent(r)
  BY <1>2, <1>7, RefreshesStay DEF browser
<1>9. TypeOK'
  BY <1>2, <1>5, <1>7, Types
     DEF TypeOK, RefreshRows, CallRows, Server!FamiliesTypeOK, browser
<1>10. \A x \in Token : Presented(x)' => Presented(x)
  BY <1>2, <1>5, <1>8, Names DEF Presented, browser
<1>11. TravelOK'
  <2>1. k \notin spent' /\ ~Travels(k)
    BY <1>2, <1>7 DEF Used, TravelOK
  <2>2. \A x \in Token : Travels(x) /\ x \in spent' => spender'[x] = "lost"
    BY <1>2, <1>7 DEF TravelOK
  <2>3. /\ \A r \in Refresh : Cargo(r)' # k
        /\ \A d \in Call : CargoOf(d) # k
    BY <1>8, <2>1 DEF Travels
  <2>4. /\ \A d \in Call : CargoOf(d)' \in {CargoOf(d), k}
        /\ \A d, b \in Call : CargoOf(d)' = k /\ CargoOf(b)' = k => d = b
    BY <1>5, <2>3
  <2> QED BY <1>2, <1>7, <1>8, <1>10, <2>1, <2>2, <2>3, <2>4, NewCargo
<1>12. PresentedOK'
  BY <1>2, <1>7, <1>10 DEF PresentedOK
<1>13. Ended(c)' = Ended(c) /\ \A d \in Call : Ended(d)' = Ended(d)
  BY <1>5, <1>6
<1>14. CookieOK'
  BY <1>2, <1>7, <1>13 DEF CookieOK, browser
<1>15. SpenderOK'
  BY <1>2, <1>7, <1>13 DEF SpenderOK
<1>16. CallersOK'
  BY <1>2, <1>3, <1>5 DEF ClientInv, CallersOK
<1> QED BY <1>7, <1>8, <1>9, <1>11, <1>12, <1>14, <1>15, <1>16 DEF ClientInv

\* The server ends sessions: their tokens are given up, and an answer says so
\* or they are lost.
LEMMA GiveUpKeeps ==
    ASSUME ClientInv, TypeOK', CallersOK', UNCHANGED <<browser, refresh>>,
           NEW F \in SUBSET Token, Server!GiveUp(F),
           NEW K \in SUBSET Token, K = {current[f] : f \in F},
           \A x \in Token : spender'[x] = spender[x] \/ (x \in K /\ spender'[x] = "lost"),
           \A x \in K : Travels(x) => spender'[x] = "lost",
           cookie \in K => spender'[cookie] = "lost" \/ \E c \in Call : Ended(c)' = cookie,
           \A c \in Call : /\ CargoOf(c)' = CargoOf(c) /\ SignsOut(c)' = SignsOut(c)
                           /\ Ended(c)' = Ended(c) \/ (Ended(c) = None /\ Ended(c)' \in K)
    PROVE  ClientInv'
<1>1. /\ TypeOK /\ ServerOK /\ TravelOK /\ PresentedOK /\ CookieOK /\ SpenderOK /\ FlightOK
      /\ spent \in SUBSET Token /\ cookie' = cookie /\ refreshing' = refreshing
  BY Types DEF ClientInv, browser
<1>2. /\ ServerOK' /\ spent' = spent \cup K /\ K \cap spent = {}
      /\ \A x \in Token : Used(x)' <=> Used(x)
  BY <1>1, GiveUpOK
<1>3. \A r \in Refresh : Cargo(r)' = Cargo(r) /\ Sent(r)' = Sent(r)
  BY DEF Cargo, Sent
<1>4. \A x \in Token : (Presented(x)' <=> Presented(x)) /\ (Travels(x)' <=> Travels(x))
  BY <1>1, <1>3 DEF Presented, Travels
<1>5. TravelOK'
  <2>1. \A k \in Token : Travels(k) /\ Travels(k)' =>
            ~Presented(k)' /\ (k \in spent' => spender'[k] = "lost")
    BY <1>1, <1>2, <1>4 DEF TravelOK
  <2> QED BY <1>1, <1>2, <1>3, <2>1, TravelKept
<1>6. PresentedOK'
  BY <1>1, <1>2, <1>4 DEF PresentedOK
<1>7. \A x \in K : spender'[x] \in {None, "lost"}
  BY <1>1, <1>2 DEF SpenderOK
<1>8. SpenderOK'
  <2>1. \A x \in Token \ spent' : spender'[x] = None
    BY <1>1, <1>2 DEF SpenderOK
  <2>2. ASSUME NEW c \in Call, Ended(c)' # None
        PROVE  Ended(c)' \in spent' /\ spender'[Ended(c)'] \in {None, "lost"}
    <3>1. CASE Ended(c)' = Ended(c)
      BY <1>1, <1>2, <2>2, <3>1 DEF SpenderOK
    <3>2. CASE Ended(c)' \in K
      BY <1>2, <1>7, <3>2
    <3> QED BY <3>1, <3>2
  <2> QED BY <2>1, <2>2 DEF SpenderOK
<1>9. CookieOK'
  <2> SUFFICES ASSUME cookie \in spent', spender'[cookie] # "lost"
               PROVE  \/ \E r \in Refresh : refresh'[r].at = "granted" /\ refresh'[r].sent = cookie
                      \/ \E c \in Call : Ended(c)' = cookie
    BY <1>1 DEF CookieOK
  <2>1. CASE cookie \in K
    BY <2>1
  <2>2. CASE cookie \notin K
    <3>1. cookie \in spent /\ spender[cookie] # "lost" /\ cookie # None
      BY <1>1, <1>2, <2>2, Names
    <3>2. \/ \E r \in Refresh : refresh[r].at = "granted" /\ refresh[r].sent = cookie
          \/ \E c \in Call : Ended(c) = cookie
      BY <1>1, <3>1 DEF CookieOK
    <3> QED BY <3>1, <3>2
  <2> QED BY <2>1, <2>2
<1>10. FlightOK'
  <2> SUFFICES ASSUME NEW r \in Refresh, refresh[r].at # "none"
               PROVE  /\ refresh[r].tab \in Tab
                      /\ refreshing[refresh[r].tab] = r
                      /\ refresh[r].at = "granted" =>
                            /\ refresh[r].sent \in spent'
                            /\ spender'[refresh[r].sent] \in {refresh[r].tab, "lost"}
                      /\ refresh[r].at \in {"sent", "refused"} /\ refresh[r].sent \in spent' =>
                            spender'[refresh[r].sent] # refresh[r].tab
    BY <1>1 DEF FlightOK
  <2>1. refresh[r].tab \in Tab /\ refreshing[refresh[r].tab] = r
    BY <1>1 DEF FlightOK
  <2>2. refresh[r].at = "granted" =>
            /\ refresh[r].sent \in spent'
            /\ spender'[refresh[r].sent] \in {refresh[r].tab, "lost"}
    BY <1>1, <1>2 DEF FlightOK
  <2>3. refresh[r].at \in {"sent", "refused"} /\ refresh[r].sent \in spent' =>
            spender'[refresh[r].sent] # refresh[r].tab
    BY <1>1, <1>2, <1>7, <2>1, Names DEF FlightOK
  <2> QED BY <2>1, <2>2, <2>3
<1> QED BY <1>2, <1>5, <1>6, <1>8, <1>9, <1>10 DEF ClientInv

LEMMA LogoutServedKeeps ==
    ASSUME ClientInv, NEW c \in Call, LogoutServed(c)
    PROVE  ClientInv'
<1>1. /\ TypeOK /\ Doing(c, {"logout"}, "sent") /\ call[c] \in CallRows /\ call[c].tab \in Tab
      /\ UNCHANGED <<browser, refresh, spender>>
  BY Types DEF ClientInv, LogoutServed, CallersOK, Doing
<1>2. CargoOf(c) = None /\ SignsOut(c) = call[c].cookie /\ Ended(c) = None
  BY <1>1 DEF CargoOf, SignsOut, Ended, Doing
<1>3. CASE Current(call[c].cookie)
  <2> DEFINE n == [call[c] EXCEPT !.at = "answered"]
             F == {f \in Token : current[f] = call[c].cookie}
  <2>1. /\ n \in CallRows /\ n.at = "answered" /\ n.cookie = call[c].cookie
        /\ n.kind = "logout" /\ n.tab = call[c].tab
        /\ call' = [call EXCEPT ![c] = n] /\ Server!GiveUp(F)
    BY <1>1, <1>3 DEF CallRows, Doing, LogoutServed
  <2>2. PICK k \in Token : k = call[c].cookie /\ {current[f] : f \in F} = {k}
    BY <1>1, <1>3 DEF Current, CallRows
  <2> HIDE DEF n, F
  <2>3. F \in SUBSET Token
    BY DEF F
  <2>4. /\ call' \in [Call -> CallRows] /\ call'[c] = n
        /\ CargoOf(c)' = None /\ SignsOut(c)' = k /\ Ended(c)' = k
        /\ \A d \in Call \ {c} : /\ call'[d] = call[d] /\ CargoOf(d)' = CargoOf(d)
                                 /\ SignsOut(d)' = SignsOut(d) /\ Ended(d)' = Ended(d)
    BY <1>1, <2>1, <2>2, CallChanges
  <2>5. current' \in [Token -> Token \cup {None}] /\ spent' \in SUBSET Token
    BY <1>1, <2>1, <2>3, GiveUpOK DEF ClientInv
  <2>6. TypeOK'
    BY <1>1, <2>4, <2>5, Types
       DEF TypeOK, RefreshRows, CallRows, Server!FamiliesTypeOK, browser
  <2>7. CallersOK'
    BY <1>1, <2>1, <2>4 DEF ClientInv, CallersOK
  <2>8. ~Travels(k)
    BY <1>2, <2>2 DEF ClientInv, TravelOK, Presented
  <2>9. cookie \in {k} => \E d \in Call : Ended(d)' = cookie
    BY <2>4
  <2>10. \A d \in Call : /\ CargoOf(d)' = CargoOf(d) /\ SignsOut(d)' = SignsOut(d)
                         /\ \/ Ended(d)' = Ended(d)
                            \/ Ended(d) = None /\ Ended(d)' \in {k}
    BY <1>2, <2>2, <2>4
  <2> QED BY <1>1, <2>1, <2>2, <2>3, <2>6, <2>7, <2>8, <2>9, <2>10, GiveUpKeeps
<1>4. CASE ~Current(call[c].cookie)
  <2> DEFINE n == [call[c] EXCEPT !.at = "answered", !.cookie = None]
  <2>1. /\ n \in CallRows /\ n.at = "answered" /\ n.cookie = None
        /\ n.kind = "logout" /\ n.tab = call[c].tab
        /\ call' = [call EXCEPT ![c] = n] /\ UNCHANGED server
    BY <1>1, <1>4, Types DEF CallRows, Doing, LogoutServed
  <2> HIDE DEF n
  <2>2. /\ call' \in [Call -> CallRows] /\ call'[c] = n
        /\ CargoOf(c)' = None /\ SignsOut(c)' = None /\ Ended(c)' = None
        /\ \A d \in Call \ {c} : /\ call'[d] = call[d] /\ CargoOf(d)' = CargoOf(d)
                                 /\ SignsOut(d)' = SignsOut(d) /\ Ended(d)' = Ended(d)
    BY <1>1, <2>1, CallChanges
  <2>3. TypeOK'
    BY <1>1, <2>1, <2>2, Types
       DEF TypeOK, RefreshRows, CallRows, Server!FamiliesTypeOK, browser, server
  <2>4. CallersOK'
    BY <1>1, <2>1, <2>2 DEF ClientInv, CallersOK
  <2>5. \A d \in Call : /\ CargoOf(d)' \in {CargoOf(d), None}
                        /\ SignsOut(d)' \in {SignsOut(d), None, cookie}
                        /\ Ended(d)' = Ended(d)
    BY <1>2, <2>2
  <2> QED BY <1>1, <2>1, <2>3, <2>4, <2>5, CallsKeep DEF browser
<1> QED BY <1>3, <1>4

LEMMA EndedElsewhereKeeps ==
    ASSUME ClientInv, NEW f \in Token, EndedElsewhere(f)
    PROVE  ClientInv'
<1>1. /\ TypeOK /\ ServerOK /\ Server!GiveUp({f}) /\ {current[g] : g \in {f}} = {current[f]}
      /\ UNCHANGED <<browser, refresh, call>>
      /\ spender' = [k \in Token |-> IF k \in {current[f]} THEN "lost" ELSE spender[k]]
  BY DEF ClientInv, EndedElsewhere, Lost
<1>2. /\ current' \in [Token -> Token \cup {None}] /\ spent' \in SUBSET Token
      /\ current[f] \in Token
  BY <1>1, GiveUpOK
<1>3. /\ spender' \in [Token -> Tab \cup {None, "lost"}] /\ spender'[current[f]] = "lost"
      /\ \A x \in Token : spender'[x] = spender[x] \/ (x = current[f] /\ spender'[x] = "lost")
  BY <1>1, <1>2, Types
<1>4. TypeOK' /\ CallersOK'
  BY <1>1, <1>2, <1>3, Types
     DEF TypeOK, RefreshRows, CallRows, Server!FamiliesTypeOK, browser, ClientInv, CallersOK
<1>5. \A c \in Call : /\ CargoOf(c)' = CargoOf(c)
                      /\ SignsOut(c)' = SignsOut(c) /\ Ended(c)' = Ended(c)
  BY <1>1 DEF CargoOf, SignsOut, Ended, Doing
<1>6. PICK K \in SUBSET Token : K = {current[f]} /\ K = {current[g] : g \in {f}}
  BY <1>1, <1>2
<1> QED BY <1>1, <1>3, <1>4, <1>5, <1>6, GiveUpKeeps

LEMMA LoadKeeps ==
    ASSUME ClientInv, NEW t \in Tab, Load(t)
    PROVE  ClientInv'
<1> DEFINE mine == {r \in Refresh : refresh[r].tab = t}
           K == {refresh[r].sent : r \in {r \in mine : refresh[r].at = "granted"}}
                  \cup GivenUp({c \in Call : call[c].tab = t})
<1>1. /\ TypeOK /\ TravelOK /\ SpenderOK /\ FlightOK /\ Lost(K)
      /\ UNCHANGED <<server, cookie, access, remembered>>
      /\ auth' \in [Tab -> {"loading", "asking", "out", "in"}]
      /\ refreshing' \in [Tab -> Refresh \cup {None}]
      /\ \A x \in Tab \ {t} : refreshing'[x] = refreshing[x]
  BY Types DEF ClientInv, Load
<1>2. /\ call' \in [Call -> CallRows]
      /\ \A c \in Call : call'[c] = IF call[c].tab = t THEN NoCall ELSE call[c]
  BY <1>1, Types, Empty DEF Load
<1>3. /\ refresh' \in [Refresh -> RefreshRows]
      /\ \A r \in Refresh : refresh'[r] = IF refresh[r].tab = t THEN NoRefresh ELSE refresh[r]
  BY <1>1, Types, Empty DEF Load
<1>4. ASSUME NEW r \in Refresh, refresh[r].at = "granted", refresh[r].tab = t
      PROVE  refresh[r].sent \in K
  BY <1>4
<1>5. ASSUME NEW c \in Call, call[c].tab = t, Ended(c) # None
      PROVE  Ended(c) \in K
  BY <1>5 DEF GivenUp, Ended
<1>6. K \subseteq spent
  <2>1. \A r \in Refresh : refresh[r].at = "granted" => refresh[r].sent \in spent
    BY <1>1 DEF FlightOK
  <2>2. GivenUp({c \in Call : call[c].tab = t}) \subseteq spent
    BY <1>1 DEF GivenUp, SpenderOK, Ended
  <2> QED BY <2>1, <2>2
<1>7. spender' = [k \in Token |-> IF k \in K THEN "lost" ELSE spender[k]]
  BY <1>1 DEF Lost
<1> HIDE DEF K, mine
<1>8. /\ spender' \in [Token -> Tab \cup {None, "lost"}] /\ spent \in SUBSET Token
      /\ spender \in [Token -> Tab \cup {None, "lost"}] /\ cookie \in Token \cup {None}
  BY <1>1, <1>7, Types
<1>9. /\ \A k \in Token : \/ spender'[k] = spender[k]
                          \/ spender'[k] = "lost" /\ k \in spent
      /\ \A k \in K : spender'[k] = "lost"
  BY <1>6, <1>7, <1>8
<1>10. TypeOK'
  BY <1>1, <1>2, <1>3, <1>8, Types
     DEF TypeOK, RefreshRows, CallRows, Server!FamiliesTypeOK, server
<1>11. CallersOK'
  BY <1>2, Empty DEF ClientInv, CallersOK
<1>12. FlightOK'
  <2>1. ASSUME NEW r \in Refresh, refresh'[r].at # "none"
        PROVE  /\ refresh[r].at # "none" /\ refresh'[r] = refresh[r]
               /\ refreshing'[refresh[r].tab] = refreshing[refresh[r].tab]
    BY <1>1, <1>3, <2>1, Empty DEF FlightOK
  <2>2. spent' = spent /\ \A k \in Token : spender'[k] \in {spender[k], "lost"}
    BY <1>1, <1>9 DEF server
  <2> QED BY <1>1, <2>1, <2>2, FlightKept
<1>13. ASSUME NEW r \in Refresh
       PROVE  /\ Cargo(r)' \in {Cargo(r), None} /\ Sent(r)' \in {Sent(r), None, cookie}
              /\ refresh[r].at = "granted" /\ refresh[r].sent = cookie =>
                    \/ refresh'[r].at = "granted" /\ refresh'[r].sent = cookie
                    \/ spender'[cookie] = "lost"
  <2>1. CASE refresh[r].tab = t
    BY <1>3, <1>4, <1>9, <2>1, Empty DEF Cargo, Sent
  <2>2. CASE refresh[r].tab # t
    BY <1>3, <2>2 DEF Cargo, Sent
  <2> QED BY <2>1, <2>2
<1>14. ASSUME NEW c \in Call
       PROVE  /\ CargoOf(c)' \in {CargoOf(c), None}
              /\ SignsOut(c)' \in {SignsOut(c), None, cookie}
              /\ Ended(c)' \in {Ended(c), None}
              /\ Ended(c) = cookie => Ended(c)' = cookie \/ spender'[cookie] = "lost"
  <2>1. CASE call[c].tab = t
    <3>1. CargoOf(c)' = None /\ SignsOut(c)' = None /\ Ended(c)' = None
      BY <1>2, <2>1, Empty DEF CargoOf, SignsOut, Ended, Doing
    <3>2. Ended(c) = None \/ spender'[Ended(c)] = "lost"
      BY <1>5, <1>9, <2>1
    <3> QED BY <3>1, <3>2
  <2>2. CASE call[c].tab # t
    BY <1>2, <2>2 DEF CargoOf, SignsOut, Ended, Doing
  <2> QED BY <2>1, <2>2
<1> QED BY <1>1, <1>9, <1>10, <1>11, <1>12, <1>13, <1>14, BrowserKeeps
-----------------------------------------------------------------------------
(* The invariant. *)

LEMMA InitInv == Init => ClientInv
<1> SUFFICES ASSUME Init PROVE ClientInv
  OBVIOUS
<1>1. /\ spent = {} /\ cookie = None /\ access = FALSE /\ remembered = FALSE
      /\ current \in [Token -> Token \cup {None}] /\ \A f \in Token : current[f] = None
      /\ auth \in [Tab -> {"loading", "asking", "out", "in"}]
      /\ refreshing \in [Tab -> Refresh \cup {None}]
      /\ refresh \in [Refresh -> RefreshRows] /\ \A r \in Refresh : refresh[r] = NoRefresh
      /\ call \in [Call -> CallRows] /\ \A c \in Call : call[c] = NoCall
      /\ spender \in [Token -> Tab \cup {None, "lost"}] /\ \A k \in Token : spender[k] = None
  BY Empty DEF Init, Server!Init
<1>2. TypeOK
  BY <1>1 DEF TypeOK, RefreshRows, CallRows, Server!FamiliesTypeOK
<1>3. /\ \A r \in Refresh : Cargo(r) = None /\ Sent(r) = None
      /\ \A c \in Call : CargoOf(c) = None /\ SignsOut(c) = None /\ Ended(c) = None
  BY <1>1, Empty DEF Cargo, Sent, CargoOf, SignsOut, Ended, Doing
<1>4. \A k \in Token : ~Travels(k) /\ ~Presented(k)
  BY <1>1, <1>3, Names DEF Travels, Presented
<1>5. ServerOK /\ PresentedOK /\ CookieOK
  BY <1>1, <1>4 DEF ServerOK, PresentedOK, CookieOK
<1>6. TravelOK
  BY <1>3, <1>4 DEF TravelOK
<1>7. SpenderOK /\ FlightOK /\ CallersOK
  BY <1>1, <1>3, Empty DEF SpenderOK, FlightOK, CallersOK
<1> QED BY <1>2, <1>5, <1>6, <1>7 DEF ClientInv

LEMMA NextKeeps == ClientInv /\ [Next]_vars => ClientInv'
<1> SUFFICES ASSUME ClientInv, [Next]_vars PROVE ClientInv'
  OBVIOUS
<1>1. ASSUME NEW c \in Call, NEW t \in Tab,
             Ask(c, t) \/ Boot(c, t) \/ Login(c, t) \/ Logout(c, t)
      PROVE  ClientInv'
  BY <1>1, AskKeeps, BootKeeps, LoginKeeps, LogoutKeeps
<1>2. ASSUME NEW c \in Call, Proceed(c)
      PROVE  ClientInv'
  BY <1>2, AnswerKeeps, ErrorKeeps, UnauthorizedKeeps, LoginServedKeeps, LoggedInKeeps,
     LogoutServedKeeps, LoggedOutKeeps DEF Proceed
<1>3. ASSUME NEW r \in Refresh, ProceedRefresh(r)
      PROVE  ClientInv'
  BY <1>3, GrantKeeps, RefuseKeeps, BreakKeeps, StoreCookieKeeps, RefreshedKeeps,
     NotRefreshedKeeps DEF ProceedRefresh
<1>4. ASSUME NEW f \in Token, EndedElsewhere(f)
      PROVE  ClientInv'
  BY <1>4, EndedElsewhereKeeps
<1>5. ASSUME NEW t \in Tab, Load(t)
      PROVE  ClientInv'
  BY <1>5, LoadKeeps
<1>6. CASE UNCHANGED vars
  <2>1. TypeOK' /\ FlightOK' /\ CallersOK'
    BY <1>6 DEF ClientInv, TypeOK, Server!FamiliesTypeOK, FlightOK, CallersOK,
                vars, server, browser
  <2>2. /\ \A r \in Refresh : Cargo(r)' = Cargo(r) /\ Sent(r)' = Sent(r)
        /\ \A c \in Call : /\ CargoOf(c)' = CargoOf(c)
                           /\ SignsOut(c)' = SignsOut(c) /\ Ended(c)' = Ended(c)
    BY <1>6 DEF Cargo, Sent, CargoOf, SignsOut, Ended, Doing, vars
  <2> QED BY <1>6, <2>1, <2>2, CallsKeep DEF vars, browser
<1> QED BY <1>1, <1>2, <1>3, <1>4, <1>5, <1>6 DEF Next

\* Where each token is, and which tab spent it, in every reachable state: the
\* inductive invariant of the interceptors in lib/api.ts.
THEOREM InvariantHolds == Spec => []ClientInv
<1> QED BY InitInv, NextKeeps, PTL DEF Spec

\* The variables keep their types.
THEOREM TypeCorrect == Spec => []TypeOK
<1>1. ClientInv => TypeOK
  BY DEF ClientInv
<1> QED BY <1>1, InvariantHolds, PTL

\* However the tabs' refreshes, their answers and the sign-outs interleave, the
\* browser's cookie is spent only while the answer that replaces it is under
\* way, or when no answer could say so.
THEOREM SessionSurvivesHolds == Spec => []SessionSurvives
<1>1. ASSUME ClientInv PROVE SessionSurvives
  <2> SUFFICES ASSUME cookie \in spent, spender[cookie] # "lost"
               PROVE  \/ \E r \in Refresh : refresh[r].at = "granted" /\ refresh[r].sent = cookie
                      \/ \E c \in Call : call[c].kind = "logout" /\ call[c].cookie = cookie
    BY DEF SessionSurvives
  <2>1. cookie # None
    BY <1>1, Types, Names DEF ClientInv
  <2> QED BY <1>1, <2>1 DEF ClientInv, CookieOK, Ended, Doing
<1> QED BY <1>1, InvariantHolds, PTL

\* A refusal of a spent token is another tab's doing, never that of the tab
\* that is refused: the promise shared in a tab is enough for this.
THEOREM RefusedByOthersHolds == Spec => []RefusedByOthers
<1>1. ClientInv => RefusedByOthers
  BY DEF ClientInv, FlightOK, RefusedByOthers
<1> QED BY <1>1, InvariantHolds, PTL

=============================================================================
