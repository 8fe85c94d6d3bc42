--------------------------- MODULE SessionsProofs ----------------------------
(***************************************************************************)
(* Proofs, for any number of accounts, tokens and requests, that Sessions  *)
(* keeps one working token per family, never brings a token back, and      *)
(* implements TokenFamilies; and of what lets a session outlive a password *)
(* change.                                                                 *)
(*                                                                         *)
(* Seen from the tokens there are four kinds of step (TokenStep): they     *)
(* stay, a sign-in opens a family, a token is exchanged, or live tokens    *)
(* are revoked.                                                            *)
(***************************************************************************)
EXTENDS Sessions, TLAPS

UserRows == [status : {"NONE", "ACTIVE", "SUSPENDED"}, password : Passwords]

TokenRows == [status : {"UNUSED", "LIVE", "REVOKED"}, user : User \cup {None},
              family : Token \cup {None}, parent : Token \cup {None}, due : BOOLEAN]

Steps == [op : {"idle"} \cup Operations, user : User \cup {None},
          token : Token \cup {None}, seen : {"NONE", "ACTIVE", "SUSPENDED"},
          todo : SUBSET Token]

Used(t) == token[t].status # "UNUSED"

\* Foreign keys, the name of a family being its first token.
References ==
    \A t \in Token : Used(t) =>
        /\ token[t].user \in User
        /\ token[t].family \in Token /\ Used(token[t].family)
        /\ token[t].parent # None => token[t].parent \in Token /\ Used(token[t].parent)
        /\ token[t].parent # t

LocksExclusive == \A s, o \in Request : s # o => holds[s] \cap holds[o] = {}

\* What a request has found in the rows it has locked is still true of them.
Knows(s) ==
    /\ tx[s].op \in {"login", "password", "renew", "suspend"} => tx[s].user \in User
    /\ tx[s].op \in {"refresh", "rotate", "reuse"} =>
          tx[s].token \in Token /\ Used(tx[s].token)
    /\ Doing(s, "rotate") => tx[s].token \in holds[s] /\ Live(tx[s].token)
    /\ tx[s].op \in {"renew", "suspend"} => tx[s].user \in holds[s]
    /\ Doing(s, "renew") => user[tx[s].user].password < MaxPasswords

SessionsInv ==
    /\ TypeOK
    /\ References
    /\ OneSuccessor
    /\ LocksExclusive
    /\ \A s \in Request : Knows(s)

-----------------------------------------------------------------------------
(* What a step may do to the tokens. *)

TokensStay ==
    \A t \in Token : /\ token'[t].status = token[t].status
                     /\ token'[t].user = token[t].user
                     /\ token'[t].family = token[t].family
                     /\ token'[t].parent = token[t].parent
                     /\ ~Live(t) => token'[t] = token[t]

Opens(k, u) ==
    /\ token[k].status = "UNUSED"
    /\ token' = [token EXCEPT ![k] = Session(k, u)]

Exchanges(t, k) ==
    /\ Live(t)
    /\ token[k].status = "UNUSED"
    /\ token' = [token EXCEPT ![t].status = "REVOKED",
                              ![k] = [token[t] EXCEPT !.parent = t, !.due = FALSE]]

Revokes(R) ==
    /\ \A t \in R : Live(t)
    /\ token' = [t \in Token |-> IF t \in R THEN [token[t] EXCEPT !.status = "REVOKED"]
                                 ELSE token[t]]

TokenStep ==
    \/ TokensStay
    \/ \E k \in Token, u \in User : Opens(k, u)
    \/ \E t, k \in Token : Exchanges(t, k)
    \/ \E R \in SUBSET Token : Revokes(R)

\* The types of the variables.
LEMMA Types ==
    ASSUME SessionsInv
    PROVE  /\ user \in [User -> UserRows] /\ token \in [Token -> TokenRows]
           /\ replayed \in SUBSET Token
           /\ holds \in [Request -> SUBSET (User \cup Token)] /\ tx \in [Request -> Steps]
BY DEF SessionsInv, TypeOK, UserRows, TokenRows, Steps

\* A token of a new family: no token has it as its family or its parent yet.
LEMMA OpensOK ==
    ASSUME SessionsInv, NEW k \in Token, NEW u \in User, Opens(k, u)
    PROVE  token' \in [Token -> TokenRows] /\ References' /\ OneSuccessor'
<1>1. token \in [Token -> TokenRows] /\ References /\ OneSuccessor
  BY Types DEF SessionsInv
<1>2. /\ Session(k, u) \in TokenRows /\ token' \in [Token -> TokenRows]
      /\ token'[k] = Session(k, u) /\ \A t \in Token \ {k} : token'[t] = token[t]
  BY <1>1 DEF Opens, Session, TokenRows
<1>3. /\ token'[k].status = "LIVE" /\ token'[k].user = u
      /\ token'[k].family = k /\ token'[k].parent = None
  BY <1>2 DEF Session
<1>4. References'
  <2> SUFFICES ASSUME NEW t \in Token, Used(t)'
               PROVE  /\ token'[t].user \in User
                      /\ token'[t].family \in Token /\ Used(token[t].family)'
                      /\ token'[t].parent # None =>
                            token'[t].parent \in Token /\ Used(token[t].parent)'
                      /\ token'[t].parent # t
    BY DEF References
  <2>1. \A v \in Token : Used(v) => Used(v)'
    BY <1>2, <1>3 DEF Used
  <2>2. CASE t = k
    BY <1>3, <2>2, SessionsAssumption DEF Used
  <2>3. CASE t # k
    <3>1. token'[t] = token[t] /\ Used(t)
      BY <1>2, <2>3 DEF Used
    <3> QED BY <1>1, <2>1, <3>1 DEF References, Used
  <2> QED BY <2>2, <2>3
<1>5. \A t \in Token : Used(t) => token[t].family # k /\ token[t].parent # k
  BY <1>1, SessionsAssumption DEF References, Opens, Used
<1>6. OneSuccessor'
  BY <1>1, <1>2, <1>3, <1>5, SessionsAssumption DEF OneSuccessor, Live, Used
<1> QED BY <1>2, <1>4, <1>6

\* The token that is exchanged was live, so it has no other successor and its
\* family no other live token.
LEMMA ExchangesOK ==
    ASSUME SessionsInv, NEW t \in Token, NEW k \in Token, Exchanges(t, k)
    PROVE  token' \in [Token -> TokenRows] /\ References' /\ OneSuccessor'
<1>1. token \in [Token -> TokenRows] /\ References /\ OneSuccessor /\ t # k
      /\ token[t].status = "LIVE" /\ token[k].status = "UNUSED"
  BY Types DEF SessionsInv, Exchanges, Live
<1>2. /\ token'[t] = [token[t] EXCEPT !.status = "REVOKED"]
      /\ token'[k] = [token[t] EXCEPT !.parent = t, !.due = FALSE]
      /\ \A v \in Token \ {t, k} : token'[v] = token[v]
  BY <1>1 DEF Exchanges
<1>3. /\ token'[t] \in TokenRows /\ token'[k] \in TokenRows
      /\ token'[t].status = "REVOKED" /\ token'[t].user = token[t].user
      /\ token'[t].family = token[t].family /\ token'[t].parent = token[t].parent
      /\ token'[k].status = "LIVE" /\ token'[k].user = token[t].user
      /\ token'[k].family = token[t].family /\ token'[k].parent = t
  BY <1>1, <1>2 DEF TokenRows
<1>4. token' \in [Token -> TokenRows]
  <2>1. \A v \in Token : token'[v] \in TokenRows
    BY <1>1, <1>2, <1>3
  <2>2. token' = [v \in Token |-> token'[v]]
    BY <1>1 DEF Exchanges
  <2> QED BY <2>1, <2>2
<1>5. References'
  <2> SUFFICES ASSUME NEW v \in Token, Used(v)'
               PROVE  /\ token'[v].user \in User
                      /\ token'[v].family \in Token /\ Used(token[v].family)'
                      /\ token'[v].parent # None =>
                            token'[v].parent \in Token /\ Used(token[v].parent)'
                      /\ token'[v].parent # v
    BY DEF References
  <2>1. \A w \in Token : Used(w) => Used(w)'
    BY <1>2, <1>3 DEF Used
  <2>2. /\ token[t].user \in User
        /\ token[t].family \in Token /\ Used(token[t].family)
        /\ token[t].parent # None => token[t].parent \in Token /\ Used(token[t].parent)
        /\ token[t].parent # t /\ Used(t)
    BY <1>1 DEF References, Used
  <2>3. CASE v = t
    BY <1>3, <2>1, <2>2, <2>3 DEF Used
  <2>4. CASE v = k
    BY <1>1, <1>3, <2>1, <2>2, <2>4 DEF Used
  <2>5. CASE v \notin {t, k}
    <3>1. token'[v] = token[v] /\ Used(v)
      BY <1>2, <2>5 DEF Used
    <3> QED BY <1>1, <2>1, <3>1 DEF References, Used
  <2> QED BY <2>3, <2>4, <2>5
<1>6. ASSUME NEW v \in Token, Used(v)
      PROVE  /\ token[v].parent \notin {t, k} /\ token[v].family # k
             /\ v # t /\ token[v].family = token[t].family => ~Live(v)
  <2>1. token[v].parent # k /\ token[v].family # k /\ token[v].parent # v
    BY <1>1, <1>6, SessionsAssumption DEF References, Used
  <2>2. v # t => /\ token[v].parent # t
                 /\ token[v].family = token[t].family => ~Live(v)
    BY <1>1, <1>6 DEF OneSuccessor, Live, Used
  <2> QED BY <2>1, <2>2
<1>7. OneSuccessor'
  <2> SUFFICES ASSUME NEW v \in Token, NEW w \in Token, v # w, Used(v)', Used(w)'
               PROVE  /\ token'[v].parent = token'[w].parent => token'[v].parent = None
                      /\ Live(v)' /\ Live(w)' => token'[v].family # token'[w].family
                      /\ token'[w].parent = v => token'[v].status = "REVOKED"
    BY DEF OneSuccessor, Used
  <2>1. ASSUME NEW x \in Token \ {k}, Used(x)'
        PROVE  /\ Used(x) /\ token'[x].parent = token[x].parent
               /\ token'[x].family = token[x].family
               /\ token'[x].status = IF x = t THEN "REVOKED" ELSE token[x].status
    BY <1>1, <1>2, <1>3, <2>1 DEF Used
  <2>2. CASE v = k
    BY <1>1, <1>3, <1>6, <2>1, <2>2, SessionsAssumption DEF Live
  <2>3. CASE w = k
    BY <1>1, <1>3, <1>6, <2>1, <2>3, SessionsAssumption DEF Live
  <2>4. CASE v # k /\ w # k
    BY <1>1, <2>1, <2>4 DEF OneSuccessor, Live, Used
  <2> QED BY <2>2, <2>3, <2>4
<1> QED BY <1>4, <1>5, <1>7

\* Revoking takes nothing away from the rest.
LEMMA RevokesOK ==
    ASSUME SessionsInv, NEW R \in SUBSET Token, Revokes(R)
    PROVE  token' \in [Token -> TokenRows] /\ References' /\ OneSuccessor'
<1>1. token \in [Token -> TokenRows] /\ References /\ OneSuccessor
  BY Types DEF SessionsInv
<1>2. token' \in [Token -> TokenRows]
  BY <1>1 DEF Revokes, TokenRows
<1>3. ASSUME NEW t \in Token
      PROVE  /\ token'[t].user = token[t].user /\ token'[t].family = token[t].family
             /\ token'[t].parent = token[t].parent /\ (Used(t)' <=> Used(t))
             /\ token'[t].status \in {token[t].status, "REVOKED"}
  BY <1>1 DEF Revokes, TokenRows, Live, Used
<1>4. References'
  BY <1>1, <1>3 DEF References, Used
<1>5. OneSuccessor'
  BY <1>1, <1>3 DEF OneSuccessor, Live, Used
<1> QED BY <1>2, <1>4, <1>5

\* Whatever kind of step it is.
LEMMA TokenStepOK ==
    ASSUME SessionsInv, TokenStep, token' \in [Token -> TokenRows]
    PROVE  /\ References' /\ OneSuccessor'
           /\ \A t \in Token : Used(t) => Used(t)'
<1>1. token \in [Token -> TokenRows] /\ References /\ OneSuccessor
  BY Types DEF SessionsInv
<1>2. CASE TokensStay
  <2>1. References' /\ \A t \in Token : Used(t) => Used(t)'
    BY <1>1, <1>2 DEF TokensStay, References, Used
  <2>2. OneSuccessor'
    BY <1>1, <1>2 DEF TokensStay, OneSuccessor, Live
  <2> QED BY <2>1, <2>2
<1>3. ASSUME NEW k \in Token, NEW u \in User, Opens(k, u)
      PROVE  \A t \in Token : Used(t) => Used(t)'
  BY <1>1, <1>3 DEF Opens, Session, Used
<1>4. ASSUME NEW t \in Token, NEW k \in Token, Exchanges(t, k)
      PROVE  \A v \in Token : Used(v) => Used(v)'
  BY <1>1, <1>4 DEF Exchanges, Used, Live, TokenRows
<1>5. ASSUME NEW R \in SUBSET Token, Revokes(R) PROVE \A t \in Token : Used(t) => Used(t)'
  BY <1>1, <1>5 DEF Revokes, Used, TokenRows
<1> QED BY <1>2, <1>3, <1>4, <1>5, OpensOK, ExchangesOK, RevokesOK DEF TokenStep

-----------------------------------------------------------------------------
(* Steps of the requests. *)

\* What another request knows lasts as long as the rows it has locked.
LEMMA KnowsKept ==
    ASSUME NEW o \in Request, Knows(o), tx'[o] = tx[o], holds'[o] = holds[o],
           \A t \in Token : Used(t) => Used(t)',
           \A t \in Token \cap holds[o] : Live(t) => Live(t)',
           \A u \in User \cap holds[o] : user'[u].password = user[u].password
    PROVE  Knows(o)'
BY DEF Knows, Doing, Used

\* A step of the requests in S, or of none.
LEMMA StepKeeps ==
    ASSUME SessionsInv, TokenStep, TypeOK', LocksExclusive', NEW S \in SUBSET Request,
           \A s \in S : Knows(s)',
           \A o \in Request \ S :
               /\ tx'[o] = tx[o] /\ holds'[o] = holds[o]
               /\ \A t \in Token \cap holds[o] : Live(t) => Live(t)'
               /\ \A u \in User \cap holds[o] : user'[u].password = user[u].password
    PROVE  SessionsInv'
<1>1. token' \in [Token -> TokenRows]
  BY DEF TypeOK, TokenRows
<1>2. References' /\ OneSuccessor' /\ \A t \in Token : Used(t) => Used(t)'
  BY <1>1, TokenStepOK
<1>3. ASSUME NEW o \in Request \ S PROVE Knows(o)'
  BY <1>2, <1>3, KnowsKept DEF SessionsInv
<1> QED BY <1>2, <1>3 DEF SessionsInv

\* A step of one request that takes at most free rows.
LEMMA RequestKeeps ==
    ASSUME SessionsInv, TokenStep, NEW s \in Request, NEW t \in Steps,
           NEW H \in SUBSET (User \cup Token),
           tx' = [tx EXCEPT ![s] = t], holds' = [holds EXCEPT ![s] = H],
           \A r \in H : r \in holds[s] \/ Free(s, r),
           user' \in [User -> UserRows], token' \in [Token -> TokenRows],
           replayed' \in SUBSET Token, Knows(s)',
           \A o \in Request \ {s} :
               /\ \A v \in Token \cap holds[o] : Live(v) => Live(v)'
               /\ \A u \in User \cap holds[o] : user'[u].password = user[u].password
    PROVE  SessionsInv'
<1>1. /\ tx'[s] = t /\ holds'[s] = H
      /\ \A o \in Request \ {s} : tx'[o] = tx[o] /\ holds'[o] = holds[o]
  BY Types
<1>2. TypeOK'
  BY Types DEF TypeOK, UserRows, TokenRows, Steps
<1>3. LocksExclusive'
  BY <1>1 DEF SessionsInv, LocksExclusive, Free
<1>4. \A o \in Request \ {s} :
          /\ tx'[o] = tx[o] /\ holds'[o] = holds[o]
          /\ \A v \in Token \cap holds[o] : Live(v) => Live(v)'
          /\ \A u \in User \cap holds[o] : user'[u].password = user[u].password
  BY <1>1
<1>5. {s} \in SUBSET Request /\ \A o \in {s} : Knows(o)'
  OBVIOUS
<1> QED BY <1>2, <1>3, <1>4, <1>5, StepKeeps

\* A row that s has locked, or nobody has, is not locked by others.
LEMMA NotOthers ==
    ASSUME SessionsInv, NEW s \in Request, NEW r, r \in holds[s] \/ Free(s, r)
    PROVE  \A o \in Request \ {s} : r \notin holds[o]
BY DEF SessionsInv, LocksExclusive, Free

\* Doing nothing is one of the things a request does, and takes no knowledge.
LEMMA Nothing ==
    /\ NoTx \in Steps /\ NoTx.op = "idle"
    /\ \A s \in Request : tx[s] = NoTx => Knows(s)
BY DEF NoTx, Steps, Operations, Knows, Doing

\* A request that only goes on to the next part of its handler.
LEMMA QuietKeeps ==
    ASSUME SessionsInv, NEW s \in Request, NEW t \in Steps,
           NEW H \in SUBSET (User \cup Token),
           tx' = [tx EXCEPT ![s] = t], holds' = [holds EXCEPT ![s] = H],
           \A r \in H : r \in holds[s] \/ Free(s, r),
           UNCHANGED <<user, token>>, replayed' \in SUBSET Token, Knows(s)'
    PROVE  SessionsInv' /\ TokenStep
<1>1. TokenStep
  BY DEF TokenStep, TokensStay
<1>2. \A o \in Request \ {s} :
          /\ \A v \in Token \cap holds[o] : Live(v) => Live(v)'
          /\ \A u \in User \cap holds[o] : user'[u].password = user[u].password
  BY DEF Live
<1> QED BY <1>1, <1>2, Types, RequestKeeps

\* A handler that begins.
LEMMA StartKeeps ==
    ASSUME SessionsInv, NEW s \in Request, NEW t \in Steps, Start(s, t),
           t.op \in {"login", "refresh", "password"},
           t.op = "refresh" => t.token \in Token /\ Used(t.token),
           t.op # "refresh" => t.user \in User
    PROVE  SessionsInv' /\ TokenStep
<1>1. tx' = [tx EXCEPT ![s] = t] /\ holds' = [holds EXCEPT ![s] = holds[s]]
      /\ UNCHANGED <<user, token, replayed>> /\ tx'[s] = t /\ holds[s] \in SUBSET (User \cup Token)
  BY Types DEF Start, tables
<1>2. Knows(s)'
  BY <1>1 DEF Knows, Doing, Used
<1> QED BY <1>1, <1>2, Types, QuietKeeps

\* login has verified a password.
LEMMA LoginCheckKeeps ==
    ASSUME SessionsInv, NEW s \in Request, NEW u \in User, LoginCheck(s, u)
    PROVE  SessionsInv' /\ TokenStep
<1> DEFINE t == [NoTx EXCEPT !.op = "login", !.user = u]
<1>1. t \in Steps /\ t.op = "login" /\ t.user = u
  BY DEF NoTx, Steps, Operations
<1> QED BY <1>1, StartKeeps DEF LoginCheck

\* changePassword has verified the old one.
LEMMA PasswordCheckKeeps ==
    ASSUME SessionsInv, NEW s \in Request, NEW u \in User, PasswordCheck(s, u)
    PROVE  SessionsInv' /\ TokenStep
<1> DEFINE t == [NoTx EXCEPT !.op = "password", !.user = u]
<1>1. t \in Steps /\ t.op = "password" /\ t.user = u
  BY DEF NoTx, Steps, Operations
<1> QED BY <1>1, StartKeeps DEF PasswordCheck

\* refresh has been given a token that exists.
LEMMA RefreshStartKeeps ==
    ASSUME SessionsInv, NEW s \in Request, NEW k \in Token, RefreshStart(s, k)
    PROVE  SessionsInv' /\ TokenStep
<1> DEFINE t == [NoTx EXCEPT !.op = "refresh", !.token = k, !.seen = user[token[k].user].status]
<1>1. Used(k) /\ user[token[k].user].status \in {"NONE", "ACTIVE", "SUSPENDED"}
  BY Types DEF RefreshStart, SessionsInv, References, Used, UserRows
<1>2. t \in Steps /\ t.op = "refresh" /\ t.token = k
  BY <1>1 DEF NoTx, Steps, Operations
<1> QED BY <1>1, <1>2, StartKeeps DEF RefreshStart

\* refresh has the token's lock and has found it live or not.
LEMMA RefreshLockKeeps ==
    ASSUME SessionsInv, NEW s \in Request, RefreshLock(s)
    PROVE  SessionsInv' /\ TokenStep
<1> DEFINE k == tx[s].token
           t == [tx[s] EXCEPT !.op = IF Live(k) THEN "rotate" ELSE "reuse"]
<1>1. tx[s] \in Steps /\ k \in Token /\ Used(k) /\ Free(s, k)
  BY Types DEF RefreshLock, SessionsInv, Knows, Doing
<1>2. t \in Steps /\ t.token = k /\ t.op = IF Live(k) THEN "rotate" ELSE "reuse"
  BY <1>1 DEF Steps, Operations
<1>3. /\ tx' = [tx EXCEPT ![s] = t] /\ holds' = [holds EXCEPT ![s] = {k}]
      /\ UNCHANGED <<user, token, replayed>>
  BY DEF RefreshLock, tables
<1>4. tx'[s].token = k /\ tx'[s].op = (IF Live(k) THEN "rotate" ELSE "reuse")
      /\ holds'[s] = {k}
  BY <1>2, <1>3, Types
<1>5. (Used(k)' <=> Used(k)) /\ (Live(k)' <=> Live(k))
  BY <1>3 DEF Used, Live
<1> HIDE DEF t
<1>6. Knows(s)'
  BY <1>1, <1>4, <1>5 DEF Knows, Doing
<1>7. /\ {k} \in SUBSET (User \cup Token)
      /\ \A r \in {k} : r \in holds[s] \/ Free(s, r)
      /\ replayed' \in SUBSET Token
  BY <1>1, <1>3, Types
<1> QED BY <1>2, <1>3, <1>6, <1>7, QuietKeeps

\* reuse answers, and rolls its revocation back.
LEMMA ReuseAnswerKeeps ==
    ASSUME SessionsInv, NEW s \in Request, ReuseAnswer(s)
    PROVE  SessionsInv' /\ TokenStep
<1>1. token[tx[s].token].family \in Token
  BY DEF ReuseAnswer, SessionsInv, Knows, Doing, References
<1>2. replayed' \in SUBSET Token
  BY <1>1, Types DEF ReuseAnswer
<1>3. /\ tx' = [tx EXCEPT ![s] = NoTx] /\ holds' = [holds EXCEPT ![s] = {}]
      /\ UNCHANGED <<user, token>> /\ tx'[s] = NoTx
  BY Types DEF ReuseAnswer, End
<1>4. Knows(s)'
  BY <1>3 DEF Knows, Doing, NoTx
<1>5. {} \in SUBSET (User \cup Token) /\ \A r \in {} : r \in holds[s] \/ Free(s, r)
  OBVIOUS
<1> QED BY <1>2, <1>3, <1>4, <1>5, Nothing, QuietKeeps

\* A request that fails.
LEMMA RollbackKeeps ==
    ASSUME SessionsInv, NEW s \in Request, Rollback(s)
    PROVE  SessionsInv' /\ TokenStep
<1>1. /\ tx' = [tx EXCEPT ![s] = NoTx] /\ holds' = [holds EXCEPT ![s] = {}]
      /\ UNCHANGED <<user, token, replayed>> /\ tx'[s] = NoTx
  BY Types DEF Rollback, End, tables
<1>2. Knows(s)'
  BY <1>1 DEF Knows, Doing, NoTx
<1>3. {} \in SUBSET (User \cup Token) /\ \A r \in {} : r \in holds[s] \/ Free(s, r)
  OBVIOUS
<1>4. replayed' \in SUBSET Token
  BY <1>1, Types
<1> QED BY <1>1, <1>2, <1>3, <1>4, Nothing, QuietKeeps

\* changePassword and setUserStatus lock the account.
LEMMA LockAccountKeeps ==
    ASSUME SessionsInv, NEW s \in Request, NEW u \in User, NEW o \in {"renew", "suspend"},
           LockAccount(s, u, o), o = "renew" => user[u].password < MaxPasswords
    PROVE  SessionsInv' /\ TokenStep
<1> DEFINE T == {t \in TokensOf(u) : Live(t)}
           t == [NoTx EXCEPT !.op = o, !.user = u, !.todo = T]
<1>1. t \in Steps /\ t.op = o /\ t.user = u
  BY DEF NoTx, Steps, Operations, TokensOf
<1>2. /\ tx' = [tx EXCEPT ![s] = t] /\ holds' = [holds EXCEPT ![s] = {u}]
      /\ UNCHANGED <<user, token, replayed>> /\ Free(s, u)
  BY DEF LockAccount, tables
<1>3. tx'[s] = t /\ holds'[s] = {u}
  BY <1>2, Types
<1>4. Knows(s)'
  BY <1>1, <1>2, <1>3 DEF Knows, Doing
<1>5. /\ {u} \in SUBSET (User \cup Token)
      /\ \A r \in {u} : r \in holds[s] \/ Free(s, r)
      /\ replayed' \in SUBSET Token
  BY <1>2, Types
<1> HIDE DEF t
<1> QED BY <1>1, <1>2, <1>4, <1>5, QuietKeeps

\* register, in one statement's transaction: no lock outlives it.
LEMMA RegisterKeeps ==
    ASSUME SessionsInv, NEW u \in User, NEW k \in Token, Register(u, k)
    PROVE  SessionsInv' /\ TokenStep
<1>1. Opens(k, u) /\ TokenStep
  BY DEF Register, Opens, TokenStep
<1>2. /\ user' \in [User -> UserRows] /\ UNCHANGED <<replayed, holds, tx>>
      /\ \A v \in User : user'[v].password = user[v].password
  BY Types DEF Register, UserRows
<1>3. token' \in [Token -> TokenRows] /\ \A t \in Token : Live(t) => Live(t)'
  BY <1>1, Types, OpensOK DEF Opens, Live
<1>4. TypeOK' /\ LocksExclusive'
  BY <1>2, <1>3, Types DEF TypeOK, UserRows, TokenRows, Steps, SessionsInv, LocksExclusive
<1>5. \A o \in Request \ {} :
          /\ tx'[o] = tx[o] /\ holds'[o] = holds[o]
          /\ \A t \in Token \cap holds[o] : Live(t) => Live(t)'
          /\ \A v \in User \cap holds[o] : user'[v].password = user[v].password
  BY <1>2, <1>3
<1>6. {} \in SUBSET Request /\ \A o \in {} : Knows(o)'
  OBVIOUS
<1> QED BY <1>1, <1>4, <1>5, <1>6, StepKeeps

\* A request that ends with a change to the tokens or to its user's row.
LEMMA CommitKeeps ==
    ASSUME SessionsInv, TokenStep, NEW s \in Request, End(s),
           user' \in [User -> UserRows], token' \in [Token -> TokenRows],
           replayed' \in SUBSET Token,
           \A o \in Request \ {s} :
               /\ \A v \in Token \cap holds[o] : Live(v) => Live(v)'
               /\ \A u \in User \cap holds[o] : user'[u].password = user[u].password
    PROVE  SessionsInv' /\ TokenStep
<1>1. /\ tx' = [tx EXCEPT ![s] = NoTx] /\ holds' = [holds EXCEPT ![s] = {}]
      /\ tx'[s] = NoTx
  BY Types DEF End
<1>2. Knows(s)'
  BY <1>1 DEF Knows, Doing, NoTx
<1>3. {} \in SUBSET (User \cup Token) /\ \A r \in {} : r \in holds[s] \/ Free(s, r)
  OBVIOUS
<1> QED BY <1>1, <1>2, <1>3, Nothing, RequestKeeps

\* login issues its session.
LEMMA LoginIssueKeeps ==
    ASSUME SessionsInv, NEW s \in Request, LoginIssue(s)
    PROVE  SessionsInv' /\ TokenStep
<1>1. tx[s].user \in User
  BY DEF LoginIssue, SessionsInv, Knows, Doing
<1>2. PICK k \in Token : Opens(k, tx[s].user)
  BY DEF LoginIssue, Opens
<1>3. TokenStep
  BY <1>1, <1>2 DEF TokenStep
<1>4. token' \in [Token -> TokenRows] /\ \A t \in Token : Live(t) => Live(t)'
  BY <1>1, <1>2, Types, OpensOK DEF Opens, Live
<1>5. End(s) /\ user' = user /\ replayed' = replayed
  BY DEF LoginIssue
<1> QED BY <1>3, <1>4, <1>5, Types, CommitKeeps

\* refresh replaces the token it has locked.
LEMMA RotateKeeps ==
    ASSUME SessionsInv, NEW s \in Request, Rotate(s)
    PROVE  SessionsInv' /\ TokenStep
<1>1. tx[s].token \in Token /\ Live(tx[s].token) /\ tx[s].token \in holds[s]
  BY DEF Rotate, SessionsInv, Knows, Doing
<1>2. PICK k \in Token : Exchanges(tx[s].token, k)
  BY <1>1 DEF Rotate, Exchanges
<1>3. TokenStep
  BY <1>1, <1>2 DEF TokenStep
<1>4. token' \in [Token -> TokenRows]
  BY <1>1, <1>2, ExchangesOK
<1>5. \A t \in Token \ {tx[s].token} : Live(t) => Live(t)'
  BY <1>2, Types DEF Exchanges, Live
<1>6. \A o \in Request \ {s} : \A v \in Token \cap holds[o] : Live(v) => Live(v)'
  BY <1>1, <1>5, NotOthers
<1>7. End(s) /\ user' = user /\ replayed' = replayed
  BY DEF Rotate
<1> QED BY <1>3, <1>4, <1>6, <1>7, Types, CommitKeeps

\* logout revokes a token nobody else has locked.
LEMMA LogoutKeeps ==
    ASSUME SessionsInv, NEW s \in Request, NEW t \in Token, Logout(s, t)
    PROVE  SessionsInv' /\ TokenStep
<1>1. Revokes({t})
  <2>1. token' = [v \in Token |-> IF v \in {t} THEN [token[v] EXCEPT !.status = "REVOKED"]
                                  ELSE token[v]]
    BY Types DEF Logout
  <2> QED BY <2>1 DEF Logout, Revokes
<1>2. {t} \in SUBSET Token
  OBVIOUS
<1>3. TokenStep
  BY <1>1, <1>2 DEF TokenStep
<1>4. token' \in [Token -> TokenRows]
  BY <1>1, <1>2, RevokesOK
<1>5. UNCHANGED <<user, replayed, holds, tx>> /\ Free(s, t) /\ Idle(s)
  BY DEF Logout
<1>6. \A v \in Token \ {t} : Live(v) => Live(v)'
  BY <1>1 DEF Revokes, Live
<1>7. \A o \in Request \ {s} :
          /\ \A v \in Token \cap holds[o] : Live(v) => Live(v)'
          /\ \A u \in User \cap holds[o] : user'[u].password = user[u].password
  BY <1>5, <1>6 DEF Free
<1>8. Knows(s)'
  BY <1>5 DEF Idle, Knows, Doing
<1>9. TypeOK' /\ LocksExclusive'
  BY <1>4, <1>5, Types DEF TypeOK, UserRows, TokenRows, Steps, SessionsInv, LocksExclusive
<1>10. {s} \in SUBSET Request /\ \A o \in {s} : Knows(o)'
  BY <1>8
<1>11. \A o \in Request \ {s} :
          /\ tx'[o] = tx[o] /\ holds'[o] = holds[o]
          /\ \A v \in Token \cap holds[o] : Live(v) => Live(v)'
          /\ \A u \in User \cap holds[o] : user'[u].password = user[u].password
  BY <1>5, <1>7
<1> QED BY <1>3, <1>9, <1>10, <1>11, StepKeeps

\* A step that leaves the requests and what they know alone.
LEMMA ElsewhereKeeps ==
    ASSUME SessionsInv, TokensStay, user' \in [User -> UserRows],
           token' \in [Token -> TokenRows], UNCHANGED <<replayed, holds, tx>>,
           \A u \in User : user'[u].password = user[u].password
    PROVE  SessionsInv' /\ TokenStep
<1>1. TokenStep
  BY DEF TokenStep
<1>2. TypeOK' /\ LocksExclusive'
  BY Types DEF TypeOK, UserRows, TokenRows, Steps, SessionsInv, LocksExclusive
<1>3. \A o \in Request \ {} :
          /\ tx'[o] = tx[o] /\ holds'[o] = holds[o]
          /\ \A t \in Token \cap holds[o] : Live(t) => Live(t)'
          /\ \A v \in User \cap holds[o] : user'[v].password = user[v].password
  BY DEF TokensStay, Live
<1>4. {} \in SUBSET Request /\ \A o \in {} : Knows(o)'
  OBVIOUS
<1> QED BY <1>1, <1>2, <1>3, <1>4, StepKeeps

\* An expires_at passes.
LEMMA TokenLapsesKeeps ==
    ASSUME SessionsInv, NEW t \in Token, TokenLapses(t)
    PROVE  SessionsInv' /\ TokenStep
<1>1. token' \in [Token -> TokenRows] /\ TokensStay
  BY Types DEF TokenLapses, TokensStay, TokenRows, Live
<1> QED BY <1>1, Types, ElsewhereKeeps DEF TokenLapses

\* setUserStatus makes an account active again.
LEMMA ReactivateKeeps ==
    ASSUME SessionsInv, NEW s \in Request, NEW u \in User, Reactivate(s, u)
    PROVE  SessionsInv' /\ TokenStep
<1>1. /\ user' \in [User -> UserRows]
      /\ \A v \in User : user'[v].password = user[v].password
  BY Types DEF Reactivate, UserRows
<1>2. UNCHANGED <<token, replayed, holds, tx>>
  BY DEF Reactivate
<1>3. TokensStay
  BY <1>2 DEF TokensStay
<1> QED BY <1>1, <1>2, <1>3, Types, ElsewhereKeeps

\* changePassword and setUserStatus lock the account's row.
LEMMA PasswordLockKeeps ==
    ASSUME SessionsInv, NEW s \in Request, PasswordLock(s)
    PROVE  SessionsInv' /\ TokenStep
<1>1. tx[s].user \in User
  BY DEF PasswordLock, SessionsInv, Knows, Doing
<1> QED BY <1>1, LockAccountKeeps DEF PasswordLock

LEMMA SuspendLockKeeps ==
    ASSUME SessionsInv, NEW s \in Request, NEW u \in User, SuspendLock(s, u)
    PROVE  SessionsInv' /\ TokenStep
BY LockAccountKeeps DEF SuspendLock

\* The UPDATE of the tokens revokes those of its snapshot that are still live.
LEMMA RevokeAllKeeps ==
    ASSUME SessionsInv, NEW s \in Request, RevokeAll(s), End(s),
           user' \in [User -> UserRows], UNCHANGED replayed,
           tx[s].user \in holds[s],
           \A u \in User \ {tx[s].user} : user'[u].password = user[u].password
    PROVE  SessionsInv' /\ TokenStep
<1> DEFINE R == {t \in tx[s].todo : Live(t)}
<1>1. R \in SUBSET Token /\ \A t \in R : Free(s, t)
  BY Types DEF RevokeAll, Steps
<1>2. Revokes(R)
  BY DEF RevokeAll, Revokes
<1> HIDE DEF R
<1>3. TokenStep /\ token' \in [Token -> TokenRows]
  BY <1>1, <1>2, RevokesOK DEF TokenStep
<1>4. \A v \in Token \ R : Live(v) => Live(v)'
  BY <1>2 DEF Revokes, Live
<1>5. \A o \in Request \ {s} : tx[s].user \notin holds[o]
  BY NotOthers
<1>6. \A o \in Request \ {s} :
          /\ \A v \in Token \cap holds[o] : Live(v) => Live(v)'
          /\ \A u \in User \cap holds[o] : user'[u].password = user[u].password
  BY <1>1, <1>4, <1>5 DEF Free
<1> QED BY <1>3, <1>6, Types, CommitKeeps

LEMMA PasswordCommitKeeps ==
    ASSUME SessionsInv, NEW s \in Request, PasswordCommit(s)
    PROVE  SessionsInv' /\ TokenStep
<1>1. /\ tx[s].user \in User /\ tx[s].user \in holds[s]
      /\ user[tx[s].user].password < MaxPasswords
  BY DEF PasswordCommit, SessionsInv, Knows, Doing
<1>2. user[tx[s].user].password + 1 \in Passwords
  BY <1>1, Types, SessionsAssumption DEF UserRows, Passwords
<1>3. /\ user' \in [User -> UserRows]
      /\ \A u \in User \ {tx[s].user} : user'[u].password = user[u].password
  BY <1>1, <1>2, Types DEF PasswordCommit, UserRows
<1> QED BY <1>1, <1>3, RevokeAllKeeps DEF PasswordCommit

LEMMA SuspendCommitKeeps ==
    ASSUME SessionsInv, NEW s \in Request, SuspendCommit(s)
    PROVE  SessionsInv' /\ TokenStep
<1>1. tx[s].user \in User /\ tx[s].user \in holds[s]
  BY DEF SuspendCommit, SessionsInv, Knows, Doing
<1>2. /\ user' \in [User -> UserRows]
      /\ \A u \in User \ {tx[s].user} : user'[u].password = user[u].password
  BY <1>1, Types DEF SuspendCommit, UserRows
<1> QED BY <1>1, <1>2, RevokeAllKeeps DEF SuspendCommit

-----------------------------------------------------------------------------

LEMMA InitInv == Init => SessionsInv
<1> SUFFICES ASSUME Init PROVE SessionsInv
  OBVIOUS
<1>1. TypeOK
  BY SessionsAssumption DEF Init, TypeOK, NoTx, Passwords
<1>2. References /\ OneSuccessor
  BY DEF Init, References, OneSuccessor, Used, Live
<1>3. LocksExclusive /\ \A s \in Request : Knows(s)
  BY DEF Init, LocksExclusive, Knows, Doing, NoTx
<1> QED BY <1>1, <1>2, <1>3 DEF SessionsInv

LEMMA NextKeeps ==
    ASSUME SessionsInv, [Next]_vars
    PROVE  SessionsInv' /\ TokenStep
<1>1. ASSUME NEW u \in User, NEW k \in Token, Register(u, k)
      PROVE  SessionsInv' /\ TokenStep
  BY <1>1, RegisterKeeps
<1>2. ASSUME NEW s \in Request, SignIn(s)
      PROVE  SessionsInv' /\ TokenStep
  BY <1>2, LoginCheckKeeps, LoginIssueKeeps DEF SignIn
<1>3. ASSUME NEW s \in Request, Refresh(s)
      PROVE  SessionsInv' /\ TokenStep
  BY <1>3, RefreshStartKeeps, RefreshLockKeeps, RotateKeeps, ReuseAnswerKeeps DEF Refresh
<1>4. ASSUME NEW s \in Request, Revoke(s)
      PROVE  SessionsInv' /\ TokenStep
  BY <1>4, LogoutKeeps, PasswordCheckKeeps, PasswordLockKeeps, PasswordCommitKeeps,
     SuspendLockKeeps, SuspendCommitKeeps, ReactivateKeeps DEF Revoke
<1>5. ASSUME NEW s \in Request, Rollback(s)
      PROVE  SessionsInv' /\ TokenStep
  BY <1>5, RollbackKeeps
<1>6. ASSUME NEW t \in Token, TokenLapses(t)
      PROVE  SessionsInv' /\ TokenStep
  BY <1>6, TokenLapsesKeeps
<1>7. CASE UNCHANGED vars
  <2>1. user' = user /\ token' = token /\ UNCHANGED <<replayed, holds, tx>> /\ TokensStay
    BY <1>7 DEF vars, TokensStay
  <2> QED BY <2>1, Types, ElsewhereKeeps
<1> QED BY <1>1, <1>2, <1>3, <1>4, <1>5, <1>6, <1>7 DEF Next

-----------------------------------------------------------------------------

\* The invariant of Sessions, its type invariant with it.
THEOREM InvariantHolds == Spec => []SessionsInv
<1>1. SessionsInv /\ [Next]_vars => SessionsInv'
  BY NextKeeps
<1> QED BY <1>1, InitInv, PTL DEF Spec

\* Every variable keeps its type.
THEOREM TypeCorrect == Spec => []TypeOK
<1>1. SessionsInv => TypeOK
  BY DEF SessionsInv
<1> QED BY <1>1, InvariantHolds, PTL

\* However often a token is presented, twice at once included, it has one
\* successor, and a sign-in never has two working tokens.
THEOREM OneSuccessorHolds == Spec => []OneSuccessor
<1>1. SessionsInv => OneSuccessor
  BY DEF SessionsInv
<1> QED BY <1>1, InvariantHolds, PTL

LEMMA FinalStep ==
    ASSUME SessionsInv, TokenStep
    PROVE  \A t \in Token :
               /\ token[t].status = "REVOKED" => token'[t] = token[t]
               /\ Live(t) => /\ token'[t].user = token[t].user
                             /\ token'[t].family = token[t].family
                             /\ token'[t].status # "UNUSED"
<1>1. token \in [Token -> TokenRows]
  BY Types
<1> SUFFICES ASSUME NEW t \in Token
             PROVE  /\ token[t].status = "REVOKED" => token'[t] = token[t]
                    /\ Live(t) => /\ token'[t].user = token[t].user
                                  /\ token'[t].family = token[t].family
                                  /\ token'[t].status # "UNUSED"
  OBVIOUS
<1>2. CASE TokensStay
  BY <1>2 DEF TokensStay, Live
<1>3. ASSUME NEW k \in Token, NEW u \in User, Opens(k, u), Used(t)
      PROVE  token'[t] = token[t]
  BY <1>1, <1>3 DEF Opens, Used
<1>4. ASSUME NEW v \in Token, NEW k \in Token, Exchanges(v, k), Used(t)
      PROVE  /\ t # v => token'[t] = token[t]
             /\ t = v => Live(t) /\ token'[t] = [token[t] EXCEPT !.status = "REVOKED"]
  BY <1>1, <1>4 DEF Exchanges, Used, Live
<1>5. ASSUME NEW R \in SUBSET Token, Revokes(R)
      PROVE  /\ t \notin R => token'[t] = token[t]
             /\ t \in R => Live(t) /\ token'[t] = [token[t] EXCEPT !.status = "REVOKED"]
  BY <1>5 DEF Revokes
<1>6. Live(t) => Used(t)
  BY DEF Live, Used
<1>7. LET r == [token[t] EXCEPT !.status = "REVOKED"]
      IN  r.user = token[t].user /\ r.family = token[t].family /\ r.status # "UNUSED"
  BY <1>1 DEF TokenRows
<1>8. token[t].status = "REVOKED" => Used(t) /\ ~Live(t)
  BY DEF Used, Live
<1> QED BY <1>2, <1>3, <1>4, <1>5, <1>6, <1>7, <1>8 DEF TokenStep, Live, Used

\* A token that was rotated, logged out or revoked never works again.
THEOREM RevokedStaysRevoked == Spec => RevokedIsFinal
<1>1. SessionsInv /\ [Next]_vars =>
        [\A t \in Token :
            /\ token[t].status = "REVOKED" => token'[t] = token[t]
            /\ Live(t) => /\ token'[t].user = token[t].user
                          /\ token'[t].family = token[t].family
                          /\ token'[t].status # "UNUSED"]_vars
  BY NextKeeps, FinalStep
<1> QED BY <1>1, InvariantHolds, PTL DEF Spec, RevokedIsFinal

-----------------------------------------------------------------------------
(* The refinement: what TokenFamilies speaks of, and its actions told by   *)
(* their effect on each family.                                            *)

LiveOf(f) == {t \in Token : Live(t) /\ token[t].family = f}
CurrentOf(f) == TheOne(LiveOf(f))
Spent == {t \in Token : token[t].status = "REVOKED"}

LEMMA TheOnly ==
    ASSUME NEW v
    PROVE  TheOne({v}) = v
BY DEF TheOne

LEMMA TheNone == TheOne({}) = None
BY DEF TheOne

\* A family has at most one live token: that is its current one.
LEMMA CurrentIs ==
    ASSUME SessionsInv, NEW f \in Token
    PROVE  /\ \A t \in LiveOf(f) : LiveOf(f) = {t} /\ CurrentOf(f) = t
           /\ CurrentOf(f) # None => CurrentOf(f) \in LiveOf(f)
           /\ LiveOf(f) # {} => CurrentOf(f) # None
<1>1. ASSUME NEW t \in LiveOf(f) PROVE LiveOf(f) = {t} /\ CurrentOf(f) = t /\ t # None
  <2>1. t \in Token /\ t # None
    BY SessionsAssumption DEF LiveOf
  <2>2. LiveOf(f) = {t}
    BY DEF SessionsInv, OneSuccessor, LiveOf, Live
  <2> QED BY <2>1, <2>2, TheOnly DEF CurrentOf
<1>2. LiveOf(f) = {} => CurrentOf(f) = None
  BY TheNone DEF CurrentOf
<1> QED BY <1>1, <1>2

\* A token that was never given out is the token of no family.
LEMMA UnusedIsFresh ==
    ASSUME SessionsInv, NEW k \in Token, token[k].status = "UNUSED"
    PROVE  Families!Fresh(k)
<1>1. k \notin Spent
  BY DEF Spent
<1>2. \A f \in Token : CurrentOf(f) # k
  BY CurrentIs, SessionsAssumption DEF LiveOf, Live
<1> QED BY <1>1, <1>2 DEF Families!Fresh, Spent, CurrentOf, LiveOf

LEMMA AbstractStutter ==
    ASSUME \A f \in Token : CurrentOf(f)' = CurrentOf(f), Spent' = Spent
    PROVE  UNCHANGED Families!vars
BY DEF Families!vars, CurrentOf, LiveOf, Spent

LEMMA AbstractOpen ==
    ASSUME NEW k \in Token, Families!Fresh(k), Spent' = Spent,
           \A f \in Token : CurrentOf(f)' = IF f = k THEN k ELSE CurrentOf(f)
    PROVE  Families!Next
<1>1. Families!Open(k)
  BY DEF Families!Open, CurrentOf, LiveOf, Spent
<1> QED BY <1>1 DEF Families!Next

LEMMA AbstractExchange ==
    ASSUME NEW e \in Token, NEW k \in Token, Families!Fresh(k), CurrentOf(e) # None,
           Spent' = Spent \cup {CurrentOf(e)},
           \A f \in Token : CurrentOf(f)' = IF f = e THEN k ELSE CurrentOf(f)
    PROVE  Families!Next
<1>1. Families!Exchange(e, k)
  BY DEF Families!Exchange, CurrentOf, LiveOf, Spent
<1> QED BY <1>1 DEF Families!Next

LEMMA AbstractGiveUp ==
    ASSUME NEW F \in SUBSET Token, \A f \in F : CurrentOf(f) # None,
           Spent' = Spent \cup {CurrentOf(f) : f \in F},
           \A f \in Token : CurrentOf(f)' = IF f \in F THEN None ELSE CurrentOf(f)
    PROVE  Families!Next
<1> DEFINE C == [f \in Token |-> CurrentOf(f)]
<1>1. /\ C' = [f \in Token |-> IF f \in F THEN None ELSE C[f]]
      /\ \A f \in F : C[f] = CurrentOf(f) /\ C[f] # None
  OBVIOUS
<1>2. {C[f] : f \in F} = {CurrentOf(f) : f \in F}
  BY <1>1
<1>3. Spent' = Spent \cup {C[f] : f \in F}
  BY <1>2
<1>4. Families!GiveUp(F)
  BY <1>1, <1>3, Zenon DEF Families!GiveUp, CurrentOf, LiveOf, Spent
<1> QED BY <1>4 DEF Families!Next

LEMMA StayImplements ==
    ASSUME SessionsInv, TokensStay
    PROVE  UNCHANGED Families!vars
<1>1. \A f \in Token : LiveOf(f)' = LiveOf(f)
  BY DEF TokensStay, LiveOf, Live
<1>2. Spent' = Spent
  BY DEF TokensStay, Spent
<1> QED BY <1>1, <1>2, AbstractStutter DEF CurrentOf

\* A sign-in opens the family of its token.
LEMMA OpensImplements ==
    ASSUME SessionsInv, NEW k \in Token, NEW u \in User, Opens(k, u)
    PROVE  Families!Next
<1>1. token \in [Token -> TokenRows] /\ token[k].status = "UNUSED"
  BY Types DEF Opens
<1>2. /\ token'[k].status = "LIVE" /\ token'[k].family = k
      /\ \A t \in Token \ {k} : token'[t] = token[t]
  BY <1>1 DEF Opens, Session
<1>3. \A t \in Token : Live(t) => token[t].family # k
  BY <1>1 DEF SessionsInv, References, Used, Live
<1>4. LiveOf(k)' = {k}
  BY <1>2, <1>3 DEF LiveOf, Live
<1>5. CurrentOf(k)' = k
  <2>1. TheOne({k}) = k
    BY TheOnly
  <2> QED BY <1>4, <2>1 DEF CurrentOf
<1>6. ASSUME NEW f \in Token \ {k} PROVE CurrentOf(f)' = CurrentOf(f)
  <2>1. LiveOf(f)' = LiveOf(f)
    BY <1>1, <1>2 DEF LiveOf, Live
  <2> QED BY <2>1 DEF CurrentOf
<1>7. Spent' = Spent
  BY <1>1, <1>2 DEF Spent
<1> QED BY <1>1, <1>5, <1>6, <1>7, UnusedIsFresh, AbstractOpen

\* A refresh exchanges the token of its family.
LEMMA ExchangesImplements ==
    ASSUME SessionsInv, NEW t \in Token, NEW k \in Token, Exchanges(t, k)
    PROVE  Families!Next
<1>1. /\ token \in [Token -> TokenRows] /\ token[k].status = "UNUSED"
      /\ token[t].status = "LIVE" /\ t # k /\ token[t].family \in Token
  BY Types DEF Exchanges, Live, SessionsInv, References, Used
<1> PICK e \in Token : e = token[t].family
  BY <1>1
<1>2. /\ token'[t].status = "REVOKED" /\ token'[k].status = "LIVE" /\ token'[k].family = e
      /\ \A v \in Token \ {t, k} : token'[v] = token[v]
  BY <1>1 DEF Exchanges, TokenRows
<1>3. LiveOf(e) = {t} /\ CurrentOf(e) = t
  <2>1. t \in LiveOf(e)
    BY <1>1 DEF LiveOf, Live
  <2> QED BY <1>1, <2>1, CurrentIs
<1>4. \A v \in Token \ {t, k} : Live(v) => token[v].family # e
  BY <1>3 DEF LiveOf
<1>5. LiveOf(e)' = {k}
  BY <1>2, <1>4 DEF LiveOf, Live
<1>6. CurrentOf(e)' = k
  <2>1. TheOne({k}) = k
    BY TheOnly
  <2> QED BY <1>5, <2>1 DEF CurrentOf
<1>7. ASSUME NEW f \in Token \ {e} PROVE CurrentOf(f)' = CurrentOf(f)
  <2>1. LiveOf(f)' = LiveOf(f)
    BY <1>1, <1>2 DEF LiveOf, Live
  <2> QED BY <2>1 DEF CurrentOf
<1>8. Spent' = Spent \cup {t}
  BY <1>1, <1>2 DEF Spent
<1>9. CurrentOf(e) # None
  BY <1>3, SessionsAssumption
<1> QED BY <1>1, <1>3, <1>6, <1>7, <1>8, <1>9, UnusedIsFresh, AbstractExchange

\* Revoking gives up the families of what is revoked.
LEMMA RevokesImplements ==
    ASSUME SessionsInv, NEW R \in SUBSET Token, Revokes(R)
    PROVE  Families!Next
<1> DEFINE F == {token[t].family : t \in R}
<1>1. /\ token \in [Token -> TokenRows]
      /\ \A t \in R : Live(t) /\ token[t].family \in Token
  BY Types DEF Revokes, Live, SessionsInv, References, Used
<1>2. ASSUME NEW t \in Token
      PROVE  /\ token'[t].family = token[t].family
             /\ token'[t].status = IF t \in R THEN "REVOKED" ELSE token[t].status
  BY <1>1 DEF Revokes, TokenRows
<1>3. \A t \in R : LiveOf(token[t].family) = {t} /\ CurrentOf(token[t].family) = t
  <2>1. \A t \in R : t \in LiveOf(token[t].family)
    BY <1>1 DEF LiveOf
  <2> QED BY <1>1, <2>1, CurrentIs
<1>4. F \in SUBSET Token /\ \A f \in F : CurrentOf(f) # None
  BY <1>1, <1>3, SessionsAssumption
<1>5. {CurrentOf(f) : f \in F} = R
  BY <1>3
<1>6. Spent' = Spent \cup R
  BY <1>2 DEF Spent
<1>7. ASSUME NEW f \in Token, f \in F PROVE CurrentOf(f)' = None
  <2>1. LiveOf(f)' = {}
    BY <1>2, <1>3, <1>7 DEF LiveOf, Live
  <2> QED BY <2>1, TheNone DEF CurrentOf, TheOne
<1>8. ASSUME NEW f \in Token, f \notin F PROVE CurrentOf(f)' = CurrentOf(f)
  <2>1. LiveOf(f)' = LiveOf(f)
    BY <1>2, <1>8 DEF LiveOf, Live
  <2> QED BY <2>1 DEF CurrentOf
<1> HIDE DEF F
<1> QED BY <1>4, <1>5, <1>6, <1>7, <1>8, AbstractGiveUp

LEMMA InitImplements == Init => Families!Init
<1> SUFFICES ASSUME Init PROVE Families!Init
  OBVIOUS
<1>1. \A f \in Token : LiveOf(f) = {}
  BY DEF Init, LiveOf, Live
<1>2. \A f \in Token : CurrentOf(f) = None
  BY <1>1, TheNone DEF CurrentOf
<1>3. Spent = {}
  BY DEF Init, Spent
<1> QED BY <1>2, <1>3 DEF Families!Init, CurrentOf, LiveOf, Spent

LEMMA NextImplements ==
    ASSUME SessionsInv, [Next]_vars
    PROVE  [Families!Next]_(Families!vars)
<1>1. TokenStep
  BY NextKeeps
<1> QED BY <1>1, StayImplements, OpensImplements, ExchangesImplements, RevokesImplements
        DEF TokenStep

\* Rows, locks, snapshots and rollbacks keep the promise of TokenFamilies.
THEOREM FamiliesAreImplemented == Spec => ImplementsFamilies
<1>1. SessionsInv /\ [Next]_vars => [Families!Next]_(Families!vars)
  BY NextImplements
<1> QED BY <1>1, InitImplements, InvariantHolds, PTL DEF Spec, ImplementsFamilies, Families!Spec

-----------------------------------------------------------------------------
(***************************************************************************)
(* What the refuted PasswordChangeEndsSessions rests on: a successor born  *)
(* while the revocation waits.  The code does not rule that out; where it  *)
(* does not happen, the property holds.                                    *)
(***************************************************************************)

\* No refresh is about to rotate a token that a password change has set out to
\* revoke.
NoRotation ==
    \A s, r \in Request :
        Doing(s, "renew") /\ Doing(r, "rotate") => tx[r].token \notin tx[s].todo

\* The snapshot of a password change has every working token of the families
\* in it.
RenewInv ==
    \A s \in Request : Doing(s, "renew") =>
        \A t \in tx[s].todo :
            /\ Used(t)
            /\ \A v \in Token : Live(v) /\ token[v].family = token[t].family => v \in tx[s].todo

\* Nothing works after the step that did not before, but what opens a family.
Settles ==
    \A v \in Token : Live(v)' =>
        \/ Live(v) /\ token'[v].family = token[v].family
        \/ ~Used(v) /\ token'[v].family = v

\* Only a rotation adds to a family.
LEMMA RotatesOrSettles ==
    ASSUME SessionsInv, [Next]_vars
    PROVE  Settles \/ \E s \in Request : Rotate(s)
<1>1. token \in [Token -> TokenRows]
  BY Types
<1>2. ASSUME token' = token
      PROVE  Settles
  BY <1>2 DEF Settles, Live
<1>3. ASSUME NEW k \in Token, NEW u, Opens(k, u)
      PROVE  Settles
  BY <1>1, <1>3 DEF Opens, Session, Settles, Live, Used
<1>4. ASSUME NEW s \in Request, RevokeAll(s)
      PROVE  Settles
  BY <1>1, <1>4 DEF RevokeAll, Settles, Live, TokenRows
<1>5. ASSUME NEW s \in Request, NEW t \in Token, Logout(s, t)
      PROVE  Settles
  BY <1>1, <1>5 DEF Logout, Settles, Live, TokenRows
<1>6. ASSUME NEW u \in User, NEW k \in Token, Register(u, k)
      PROVE  Settles
  BY <1>3, <1>6 DEF Register, Opens
<1>7. ASSUME NEW s \in Request, SignIn(s)
      PROVE  Settles
  BY <1>2, <1>3, <1>7 DEF SignIn, LoginCheck, LoginIssue, Start, tables, Opens
<1>8. ASSUME NEW s \in Request, Refresh(s)
      PROVE  Settles \/ Rotate(s)
  BY <1>2, <1>8 DEF Refresh, RefreshStart, RefreshLock, ReuseAnswer, Start, tables
<1>9. ASSUME NEW s \in Request, Revoke(s)
       PROVE  Settles
  BY <1>2, <1>4, <1>5, <1>9
     DEF Revoke, PasswordCheck, PasswordLock, PasswordCommit, SuspendLock, SuspendCommit,
         Reactivate, Start, LockAccount, tables
<1>10. ASSUME NEW s \in Request, Rollback(s)
       PROVE  Settles
  BY <1>2, <1>10 DEF Rollback, tables
<1>11. ASSUME NEW t \in Token, TokenLapses(t)
       PROVE  Settles
  BY <1>1, <1>11 DEF TokenLapses, Settles, Live, TokenRows
<1>12. CASE UNCHANGED vars
  BY <1>2, <1>12 DEF vars
<1> QED BY <1>6, <1>7, <1>8, <1>9, <1>10, <1>11, <1>12 DEF Next

\* Only PasswordLock takes such a snapshot.
LEMMA RenewTx ==
    ASSUME SessionsInv, [Next]_vars
    PROVE  \A s \in Request : \/ tx'[s] = tx[s]
                              \/ tx'[s].op # "renew"
                              \/ PasswordLock(s)
<1> DEFINE Goal == \A s \in Request : tx'[s] = tx[s] \/ tx'[s].op # "renew" \/ PasswordLock(s)
<1> SUFFICES Goal
  OBVIOUS
<1>1. tx \in [Request -> Steps]
  BY Types
<1>2. ASSUME NEW s \in Request, NEW x, tx' = [tx EXCEPT ![s] = x],
             x.op # "renew" \/ PasswordLock(s)
      PROVE  Goal
  BY <1>1, <1>2
<1>3. ASSUME tx' = tx
      PROVE  Goal
  BY <1>3
<1>4. ASSUME NEW s \in Request, End(s)
      PROVE  Goal
  BY <1>2, <1>4 DEF End, NoTx
<1> HIDE DEF Goal
<1>5. ASSUME NEW s \in Request, SignIn(s)
      PROVE  Goal
  <2>1. CASE LoginIssue(s)
    BY <1>4, <2>1 DEF LoginIssue
  <2>2. CASE \E u \in User : LoginCheck(s, u)
    <3>1. PICK u \in User : tx' = [tx EXCEPT ![s] = [NoTx EXCEPT !.op = "login", !.user = u]]
      BY <2>2 DEF LoginCheck, Start
    <3>2. [NoTx EXCEPT !.op = "login", !.user = u].op = "login"
      BY DEF NoTx
    <3> QED BY <1>2, <3>1, <3>2
  <2> QED BY <1>5, <2>1, <2>2 DEF SignIn
<1>6. ASSUME NEW s \in Request, Refresh(s)
      PROVE  Goal
  <2>1. CASE Rotate(s) \/ ReuseAnswer(s)
    BY <1>4, <2>1 DEF Rotate, ReuseAnswer
  <2>2. CASE \E t \in Token : RefreshStart(s, t)
    <3>1. PICK t \in Token :
             tx' = [tx EXCEPT ![s] = [NoTx EXCEPT !.op = "refresh", !.token = t,
                                                  !.seen = user[token[t].user].status]]
      BY <2>2 DEF RefreshStart, Start
    <3> DEFINE x == [NoTx EXCEPT !.op = "refresh", !.token = t,
                                 !.seen = user[token[t].user].status]
    <3>2. x.op = "refresh"
      BY DEF NoTx
    <3> QED BY <1>2, <3>1, <3>2
  <2>3. CASE RefreshLock(s)
    <3> DEFINE x == [tx[s] EXCEPT !.op = IF Live(tx[s].token) THEN "rotate" ELSE "reuse"]
    <3>1. tx' = [tx EXCEPT ![s] = x] /\ x.op # "renew"
      BY <1>1, <2>3 DEF RefreshLock, Steps
    <3> QED BY <1>2, <3>1
  <2> QED BY <1>6, <2>1, <2>2, <2>3 DEF Refresh
<1>7. ASSUME NEW s \in Request, Revoke(s)
      PROVE  Goal
  <2>1. CASE PasswordCommit(s) \/ SuspendCommit(s)
    BY <1>4, <2>1 DEF PasswordCommit, SuspendCommit
  <2>2. CASE \E u \in User : PasswordCheck(s, u)
    <3>1. PICK u \in User : tx' = [tx EXCEPT ![s] = [NoTx EXCEPT !.op = "password", !.user = u]]
      BY <2>2 DEF PasswordCheck, Start
    <3>2. [NoTx EXCEPT !.op = "password", !.user = u].op = "password"
      BY DEF NoTx
    <3> QED BY <1>2, <3>1, <3>2
  <2>3. CASE PasswordLock(s)
    BY <1>2, <2>3 DEF PasswordLock, LockAccount
  <2>4. CASE \E u \in User : SuspendLock(s, u)
    <3>1. PICK u \in User :
             tx' = [tx EXCEPT ![s] = [NoTx EXCEPT !.op = "suspend", !.user = u,
                                                  !.todo = {t \in TokensOf(u) : Live(t)}]]
      BY <2>4 DEF SuspendLock, LockAccount
    <3> DEFINE x == [NoTx EXCEPT !.op = "suspend", !.user = u,
                                 !.todo = {t \in TokensOf(u) : Live(t)}]
    <3>2. x.op = "suspend"
      BY DEF NoTx
    <3> QED BY <1>2, <3>1, <3>2
  <2>5. CASE (\E t \in Token : Logout(s, t)) \/ (\E u \in User : Reactivate(s, u))
    BY <1>3, <2>5 DEF Logout, Reactivate
  <2> QED BY <1>7, <2>1, <2>2, <2>3, <2>4, <2>5 DEF Revoke
<1>8. ASSUME NEW s \in Request, Rollback(s)
      PROVE  Goal
  BY <1>4, <1>8 DEF Rollback
<1>9. ASSUME \/ \E u \in User, k \in Token : Register(u, k)
             \/ \E t \in Token : TokenLapses(t)
             \/ UNCHANGED vars
      PROVE  Goal
  BY <1>3, <1>9 DEF Register, TokenLapses, vars
<1> QED BY <1>5, <1>6, <1>7, <1>8, <1>9 DEF Next

\* Used tokens stay in their families.
LEMMA FamiliesStay ==
    ASSUME SessionsInv, [Next]_vars
    PROVE  \A t \in Token : Used(t) => Used(t)' /\ token'[t].family = token[t].family
<1>1. \A t \in Token : Used(t) => Live(t) \/ token[t].status = "REVOKED"
  BY Types DEF Used, Live, TokenRows
<1> QED BY <1>1, NextKeeps, FinalStep DEF Used

\* Without such a rotation the snapshot stays complete.
LEMMA RenewKept ==
    ASSUME SessionsInv, RenewInv, NoRotation, [Next]_vars
    PROVE  RenewInv'
<1> SUFFICES ASSUME NEW s \in Request, tx'[s].op = "renew", NEW t \in tx'[s].todo
             PROVE  /\ Used(t)'
                    /\ \A v \in Token : Live(v)' /\ token'[v].family = token'[t].family
                                        => v \in tx'[s].todo
  BY DEF RenewInv, Doing
<1>1. token \in [Token -> TokenRows] /\ tx \in [Request -> Steps] /\ tx' \in [Request -> Steps]
  BY Types, NextKeeps DEF SessionsInv, TypeOK, Steps
<1>2. t \in Token
  BY <1>1 DEF Steps
<1>3. CASE tx'[s] = tx[s]
  <2>1. /\ tx[s].op = "renew" /\ t \in tx[s].todo /\ Used(t)
        /\ \A v \in Token : Live(v) /\ token[v].family = token[t].family => v \in tx[s].todo
    BY <1>3 DEF RenewInv, Doing
  <2>2. Used(t)' /\ token'[t].family = token[t].family
    BY <1>2, <2>1, FamiliesStay
  <2>3. token[t].family \in Token /\ Used(token[t].family)
    BY <1>2, <2>1 DEF SessionsInv, References
  <2>4. CASE Settles
    BY <1>3, <2>1, <2>2, <2>3, <2>4 DEF Settles
  <2>5. ASSUME NEW r \in Request, Rotate(r), NEW v \in Token, Live(v)',
               token'[v].family = token[t].family
        PROVE  v \in tx[s].todo
    <3> DEFINE x == tx[r].token
    <3>1. x \in Token /\ Live(x) /\ tx[r].op = "rotate"
      BY <2>5 DEF Rotate, Doing, SessionsInv, Knows
    <3>2. PICK k \in Token :
             /\ token[k].status = "UNUSED"
             /\ token' = [token EXCEPT ![x].status = "REVOKED",
                             ![k] = [token[x] EXCEPT !.parent = x, !.due = FALSE]]
      BY <2>5 DEF Rotate
    <3>3. k # x
      BY <3>1, <3>2 DEF Live
    <3>4. /\ token'[x].status = "REVOKED"
          /\ token'[k].family = token[x].family
          /\ \A z \in Token \ {x, k} : token'[z] = token[z]
      BY <1>1, <3>1, <3>2, <3>3 DEF TokenRows
    <3>5. v # x
      BY <2>5, <3>4 DEF Live
    <3>6. v # k
      <4> SUFFICES ASSUME v = k PROVE FALSE
        OBVIOUS
      <4>1. token[x].family = token[t].family
        BY <2>5, <3>4
      <4>2. x \in tx[s].todo
        BY <2>1, <3>1, <4>1
      <4> QED BY <2>1, <3>1, <4>2 DEF NoRotation, Doing
    <3> QED BY <2>1, <2>5, <3>4, <3>5, <3>6 DEF Live
  <2> QED BY <1>3, <2>2, <2>4, <2>5, RotatesOrSettles
<1>4. CASE PasswordLock(s)
  <2>1. tx'[s].todo = {v \in TokensOf(tx[s].user) : Live(v)} /\ token' = token
    BY <1>1, <1>4 DEF PasswordLock, LockAccount, NoTx, tables
  <2>2. Live(t)
    BY <2>1
  <2>3. Used(t)'
    BY <2>1, <2>2 DEF Used, Live
  <2>4. ASSUME NEW v \in Token, Live(v), token[v].family = token[t].family
        PROVE  v = t
    BY <1>2, <2>2, <2>4 DEF SessionsInv, OneSuccessor, Live
  <2> QED BY <2>1, <2>3, <2>4 DEF Live
<1> QED BY <1>3, <1>4, RenewTx

\* Only the commit of a password change changes the password.
LEMMA PasswordChanges ==
    ASSUME SessionsInv, [Next]_vars, NEW u \in User, user'[u].password # user[u].password
    PROVE  \E s \in Request : PasswordCommit(s) /\ tx[s].user = u
<1>1. user \in [User -> UserRows]
  BY Types
<1>2. user' # user
  OBVIOUS
<1>3. ASSUME NEW v \in User, NEW status, user' = [user EXCEPT ![v].status = status]
      PROVE  FALSE
  BY <1>1, <1>3 DEF UserRows
<1>4. ASSUME NEW s \in Request, PasswordCommit(s), tx[s].user # u
      PROVE  FALSE
  BY <1>1, <1>4 DEF PasswordCommit
<1>5. ASSUME NEW s \in Request, SuspendCommit(s)
      PROVE  FALSE
  <2>1. tx[s].user \in User
    BY <1>5 DEF SuspendCommit, SessionsInv, Knows, Doing
  <2> QED BY <1>3, <1>5, <2>1 DEF SuspendCommit
<1>6. ASSUME NEW s \in Request, Revoke(s)
      PROVE  PasswordCommit(s)
  BY <1>2, <1>3, <1>5, <1>6
     DEF Revoke, Logout, PasswordCheck, PasswordLock, SuspendLock, Reactivate, Start,
         LockAccount, tables
<1>7. ASSUME NEW s \in Request, SignIn(s) \/ Refresh(s) \/ Rollback(s)
      PROVE  FALSE
  BY <1>2, <1>7
     DEF SignIn, Refresh, LoginCheck, LoginIssue, RefreshStart, RefreshLock, Rotate,
         ReuseAnswer, Rollback, Start, tables
<1>8. ASSUME NEW v \in User, NEW k \in Token, Register(v, k)
      PROVE  FALSE
  BY <1>3, <1>8 DEF Register
<1>9. ASSUME (\E t \in Token : TokenLapses(t)) \/ UNCHANGED vars
      PROVE  FALSE
  BY <1>2, <1>9 DEF TokenLapses, vars
<1> QED BY <1>4, <1>6, <1>7, <1>8, <1>9 DEF Next

\* What the change set out to end has ended.
LEMMA ChangeEnds ==
    ASSUME SessionsInv, RenewInv, [Next]_vars, NEW s \in Request, NEW t \in Token, NEW v \in Token,
           Doing(s, "renew"), user'[tx[s].user].password # user[tx[s].user].password,
           t \in tx[s].todo, token'[v].family = token[t].family
    PROVE  token'[v].status # "LIVE"
<1>1. tx[s].user \in User /\ tx[s].user \in holds[s]
  BY DEF Doing, SessionsInv, Knows
<1>2. PICK r \in Request : PasswordCommit(r) /\ tx[r].user = tx[s].user
  BY <1>1, PasswordChanges
<1>3. tx[r].user \in holds[r]
  BY <1>2 DEF PasswordCommit, Doing, SessionsInv, Knows
<1>4. r = s
  BY <1>1, <1>2, <1>3 DEF SessionsInv, LocksExclusive
<1>5. token' = [z \in Token |-> IF z \in tx[s].todo /\ Live(z)
                                THEN [token[z] EXCEPT !.status = "REVOKED"] ELSE token[z]]
  BY <1>2, <1>4 DEF PasswordCommit, RevokeAll
<1>6. token \in [Token -> TokenRows]
  BY Types
<1>7. CASE v \in tx[s].todo /\ Live(v)
  BY <1>5, <1>6, <1>7 DEF TokenRows
<1>8. CASE ~(v \in tx[s].todo /\ Live(v))
  <2>1. token'[v] = token[v]
    BY <1>5, <1>8
  <2> QED BY <1>8, <2>1 DEF RenewInv, Live
<1> QED BY <1>7, <1>8

\* A rotation that overlaps the revocation is the only way for a session to
\* outlive a password change: a sign-in, a replay or a second change is not one.
THEOREM OnlyRotationOutlives == Spec /\ []NoRotation => PasswordChangeEndsSessions
<1>1. Init => RenewInv
  BY DEF Init, RenewInv, Doing, NoTx
<1>2. SessionsInv /\ RenewInv /\ NoRotation /\ [Next]_vars => RenewInv'
  BY RenewKept
<1>3. SessionsInv /\ RenewInv /\ [Next]_vars =>
        [\A s \in Request, t, v \in Token :
            /\ Doing(s, "renew")
            /\ user'[tx[s].user].password # user[tx[s].user].password
            /\ t \in tx[s].todo
            /\ token'[v].family = token[t].family
            => token'[v].status # "LIVE"]_vars
  BY ChangeEnds
<1> QED BY <1>1, <1>2, <1>3, InvariantHolds, PTL DEF Spec, PasswordChangeEndsSessions

=============================================================================
