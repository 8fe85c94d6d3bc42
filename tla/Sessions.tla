------------------------------ MODULE Sessions ------------------------------
(***************************************************************************)
(* Accounts and their refresh tokens: auth/auth.service.ts and setUserStatus *)
(* of admin/admin.service.ts.  A sign-in opens a family with one token, a  *)
(* refresh revokes the token it is given and adds the next to its family;  *)
(* logout, a password change and a suspension revoke.                      *)
(*                                                                         *)
(* READ COMMITTED, as in Ticketing.  An UPDATE of many rows finds them in  *)
(* the snapshot of its start ("todo"), waits for each, and skips those     *)
(* that no longer match; rows that others commit meanwhile it never sees.  *)
(***************************************************************************)
EXTENDS Naturals, FiniteSets

CONSTANTS
    User,           \* rows of users, including e-mails not yet registered
    Token,          \* rows of refresh_tokens, including the unused ids
    Request,        \* API requests that can be open at the same time
    MaxPasswords,   \* bound on the password changes of an account
    None

ASSUME SessionsAssumption ==
    /\ MaxPasswords \in Nat
    /\ User \cap Token = {}
    /\ None \notin User \cup Token

VARIABLES
    user,       \* status of each account and how often its password changed
    token,      \* status, owner and family of each token; parent: the token
                \* it replaced; due: its expires_at has passed
    replayed,   \* families whose revoked token was presented and answered
                \* AUTH_REFRESH_TOKEN_REUSE
    holds,      \* row locks of each request
    tx          \* what each request is doing

tables == <<user, token, replayed>>
vars == <<user, token, replayed, holds, tx>>

Passwords == 0..MaxPasswords

NoTx == [op |-> "idle", user |-> None, token |-> None, seen |-> "NONE", todo |-> {}]

Operations == {"login", "refresh", "rotate", "reuse", "password", "renew", "suspend"}

TypeOK ==
    /\ user \in [User -> [status : {"NONE", "ACTIVE", "SUSPENDED"},
                          password : Passwords]]
    /\ token \in [Token -> [status : {"UNUSED", "LIVE", "REVOKED"},
                            user : User \cup {None}, family : Token \cup {None},
                            parent : Token \cup {None}, due : BOOLEAN]]
    /\ replayed \in SUBSET Token
    /\ holds \in [Request -> SUBSET (User \cup Token)]
    /\ tx \in [Request -> [op : {"idle"} \cup Operations, user : User \cup {None},
                           token : Token \cup {None},
                           seen : {"NONE", "ACTIVE", "SUSPENDED"},
                           todo : SUBSET Token]]

-----------------------------------------------------------------------------

Idle(s) == tx[s].op = "idle"
Doing(s, o) == tx[s].op = o

\* Mutant: a plain SELECT where the code says FOR UPDATE.
FreeAlways(s, r) == TRUE

Free(s, r) == \A o \in Request \ {s} : r \notin holds[o]

Live(t) == token[t].status = "LIVE"
TokensOf(u) == {t \in Token : token[t].user = u}
FamilyOf(t) == {v \in Token : token[v].family = token[t].family}

End(s) ==
    /\ tx' = [tx EXCEPT ![s] = NoTx]
    /\ holds' = [holds EXCEPT ![s] = {}]

Start(s, todo) ==
    /\ Idle(s)
    /\ tx' = [tx EXCEPT ![s] = todo]
    /\ UNCHANGED <<tables, holds>>

\* issueSession: the first token of a new family.
Session(k, u) == [status |-> "LIVE", user |-> u, family |-> k, parent |-> None,
                  due |-> FALSE]

-----------------------------------------------------------------------------
(* register and login *)

Register(u, k) ==
    /\ user[u].status = "NONE"
    /\ token[k].status = "UNUSED"
    /\ user' = [user EXCEPT ![u].status = "ACTIVE"]
    /\ token' = [token EXCEPT ![k] = Session(k, u)]
    /\ UNCHANGED <<replayed, holds, tx>>

\* The account is read and the password verified, which takes a while; the
\* session is then issued outside any transaction.
LoginCheck(s, u) ==
    /\ user[u].status = "ACTIVE"
    /\ Start(s, [NoTx EXCEPT !.op = "login", !.user = u])

LoginIssue(s) ==
    /\ Doing(s, "login")
    /\ \E k \in Token :
          /\ token[k].status = "UNUSED"
          /\ token' = [token EXCEPT ![k] = Session(k, tx[s].user)]
    /\ End(s)
    /\ UNCHANGED <<user, replayed>>

(* refresh *)

\* The statement that locks the token has read the account when it starts to
\* wait; whoever holds a token, current or not, can present it.
RefreshStart(s, t) ==
    /\ token[t].status # "UNUSED"
    /\ Start(s, [NoTx EXCEPT !.op = "refresh", !.token = t,
                             !.seen = user[token[t].user].status])

\* Mutant: a revoked token is rotated like any other.
RefreshLockAny(s) ==
    /\ Doing(s, "refresh")
    /\ Free(s, tx[s].token)
    /\ ~token[tx[s].token].due /\ tx[s].seen = "ACTIVE"
    /\ tx' = [tx EXCEPT ![s].op = "rotate"]
    /\ holds' = [holds EXCEPT ![s] = {tx[s].token}]
    /\ UNCHANGED tables

RefreshLock(s) ==
    /\ Doing(s, "refresh")
    /\ LET t == tx[s].token IN
          /\ Free(s, t)
          /\ Live(t) => ~token[t].due /\ tx[s].seen = "ACTIVE"
          /\ tx' = [tx EXCEPT ![s].op = IF Live(t) THEN "rotate" ELSE "reuse"]
          /\ holds' = [holds EXCEPT ![s] = {t}]
    /\ UNCHANGED tables

\* Mutant: the successor is created, the token it replaces left as it is.
RotateKeeping(s) ==
    /\ Doing(s, "rotate")
    /\ LET t == tx[s].token IN
       \E k \in Token :
          /\ token[k].status = "UNUSED"
          /\ token' = [token EXCEPT ![k] = [token[t] EXCEPT !.parent = t, !.due = FALSE]]
    /\ End(s)
    /\ UNCHANGED <<user, replayed>>

Rotate(s) ==
    /\ Doing(s, "rotate")
    /\ LET t == tx[s].token IN
       \E k \in Token :
          /\ token[k].status = "UNUSED"
          /\ token' = [token EXCEPT ![t].status = "REVOKED",
                ![k] = [token[t] EXCEPT !.parent = t, !.due = FALSE]]
    /\ End(s)
    /\ UNCHANGED <<user, replayed>>

\* The family is revoked, and the error thrown next rolls that back with the
\* security event; only the answer remains.
ReuseAnswer(s) ==
    /\ Doing(s, "reuse")
    /\ \A t \in FamilyOf(tx[s].token) : Live(t) => Free(s, t)
    /\ replayed' = replayed \cup {token[tx[s].token].family}
    /\ End(s)
    /\ UNCHANGED <<user, token>>

(* logout *)

Logout(s, t) ==
    /\ Idle(s)
    /\ Live(t)
    /\ Free(s, t)
    /\ token' = [token EXCEPT ![t].status = "REVOKED"]
    /\ UNCHANGED <<user, replayed, holds, tx>>

(* changePassword and setUserStatus *)

PasswordCheck(s, u) ==
    /\ user[u].status = "ACTIVE"
    /\ user[u].password < MaxPasswords
    /\ Start(s, [NoTx EXCEPT !.op = "password", !.user = u])

\* The account's row is updated, and locked; then the UPDATE of its tokens
\* starts.
LockAccount(s, u, o) ==
    /\ Free(s, u)
    /\ holds' = [holds EXCEPT ![s] = {u}]
    /\ tx' = [tx EXCEPT ![s] = [NoTx EXCEPT !.op = o, !.user = u,
                                            !.todo = {t \in TokensOf(u) : Live(t)}]]
    /\ UNCHANGED tables

PasswordLock(s) ==
    /\ Doing(s, "password")
    /\ user[tx[s].user].password < MaxPasswords
    /\ LockAccount(s, tx[s].user, "renew")

\* The status was read without the lock: since then the account may have been
\* suspended by somebody else.
SuspendLock(s, u) ==
    /\ Idle(s)
    /\ user[u].status # "NONE"
    /\ LockAccount(s, u, "suspend")

\* updateMany of the tokens that were live at its start and still are.
RevokeAll(s) ==
    /\ \A t \in tx[s].todo : Free(s, t)
    /\ token' = [t \in Token |-> IF t \in tx[s].todo /\ Live(t)
                                 THEN [token[t] EXCEPT !.status = "REVOKED"]
                                 ELSE token[t]]

PasswordCommit(s) ==
    /\ Doing(s, "renew")
    /\ user' = [user EXCEPT ![tx[s].user].password = @ + 1]
    /\ RevokeAll(s)
    /\ End(s)
    /\ UNCHANGED replayed

\* Mutant: the account is deleted.
SuspendDeleting(s) ==
    /\ Doing(s, "suspend")
    /\ user' = [user EXCEPT ![tx[s].user].status = "DELETED"]
    /\ RevokeAll(s)
    /\ End(s)
    /\ UNCHANGED replayed

SuspendCommit(s) ==
    /\ Doing(s, "suspend")
    /\ user' = [user EXCEPT ![tx[s].user].status = "SUSPENDED"]
    /\ RevokeAll(s)
    /\ End(s)
    /\ UNCHANGED replayed

\* Mutant: the sessions come back with the account.
ReactivateSessions(s, u) ==
    /\ Idle(s)
    /\ user[u].status = "SUSPENDED"
    /\ Free(s, u)
    /\ user' = [user EXCEPT ![u].status = "ACTIVE"]
    /\ token' = [t \in Token |-> IF token[t].user = u
                                 THEN [token[t] EXCEPT !.status = "LIVE"] ELSE token[t]]
    /\ UNCHANGED <<replayed, holds, tx>>

\* One step: an update that finds the account active already changes nothing.
Reactivate(s, u) ==
    /\ Idle(s)
    /\ user[u].status = "SUSPENDED"
    /\ Free(s, u)
    /\ user' = [user EXCEPT ![u].status = "ACTIVE"]
    /\ UNCHANGED <<token, replayed, holds, tx>>

-----------------------------------------------------------------------------
(* What happens around the code. *)

Rollback(s) ==
    /\ ~Idle(s)
    /\ End(s)
    /\ UNCHANGED tables

TokenLapses(t) ==
    /\ Live(t)
    /\ ~token[t].due
    /\ token' = [token EXCEPT ![t].due = TRUE]
    /\ UNCHANGED <<user, replayed, holds, tx>>

-----------------------------------------------------------------------------

Init ==
    /\ user = [u \in User |-> [status |-> "NONE", password |-> 0]]
    /\ token = [t \in Token |-> [status |-> "UNUSED", user |-> None, family |-> None,
                                 parent |-> None, due |-> FALSE]]
    /\ replayed = {}
    /\ holds = [s \in Request |-> {}]
    /\ tx = [s \in Request |-> NoTx]

SignIn(s) ==
    \/ \E u \in User : LoginCheck(s, u)
    \/ LoginIssue(s)

Refresh(s) ==
    \/ \E t \in Token : RefreshStart(s, t)
    \/ RefreshLock(s)
    \/ Rotate(s)
    \/ ReuseAnswer(s)

Revoke(s) ==
    \/ \E t \in Token : Logout(s, t)
    \/ \E u \in User : PasswordCheck(s, u)
    \/ PasswordLock(s)
    \/ PasswordCommit(s)
    \/ \E u \in User : SuspendLock(s, u)
    \/ SuspendCommit(s)
    \/ \E u \in User : Reactivate(s, u)

Next ==
    \/ \E u \in User, k \in Token : Register(u, k)
    \/ \E s \in Request : SignIn(s) \/ Refresh(s) \/ Revoke(s) \/ Rollback(s)
    \/ \E t \in Token : TokenLapses(t)

Spec == Init /\ [][Next]_vars

-----------------------------------------------------------------------------
(* Properties. *)

\* Every token of a family but the newest is revoked: however often a token is
\* presented, twice at once included, it has one successor and there is never
\* a second session to its sign-in.
OneSuccessor ==
    \A t, v \in Token :
        t # v /\ token[t].status # "UNUSED" /\ token[v].status # "UNUSED" =>
            /\ token[t].parent = token[v].parent => token[t].parent = None
            /\ Live(t) /\ Live(v) => token[t].family # token[v].family
            /\ token[v].parent = t => token[t].status = "REVOKED"

\* A token that was rotated, logged out or revoked never works again, and
\* nothing moves a token to another account or family.
RevokedIsFinal ==
    [][\A t \in Token :
          /\ token[t].status = "REVOKED" => token'[t] = token[t]
          /\ Live(t) => /\ token'[t].user = token[t].user
                        /\ token'[t].family = token[t].family
                        /\ token'[t].status # "UNUSED"]_vars

\* Refuted. README: "reuse revokes the token family".
ReplayEndsFamily ==
    \A t \in Token : Live(t) => token[t].family \notin replayed

\* Refuted. A password change revokes the sessions that are active: none of
\* those it set out to revoke has a token left when it is done.
PasswordChangeEndsSessions ==
    [][\A s \in Request, t, v \in Token :
          /\ Doing(s, "renew")
          /\ user'[tx[s].user].password # user[tx[s].user].password
          /\ t \in tx[s].todo
          /\ token'[v].family = token[t].family
          => token'[v].status # "LIVE"]_vars

TheOne(S) == IF S = {} THEN None ELSE CHOOSE v \in S : TRUE

Families == INSTANCE TokenFamilies WITH
    current <- [f \in Token |-> TheOne({t \in Token : Live(t) /\ token[t].family = f})],
    spent <- {t \in Token : token[t].status = "REVOKED"}

\* Rows, locks, snapshots and rollbacks keep the promise of TokenFamilies.
ImplementsFamilies == Families!Spec
=============================================================================
