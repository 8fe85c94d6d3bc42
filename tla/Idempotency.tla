---------------------------- MODULE Idempotency ----------------------------
(***************************************************************************)
(* The middleware that runs a request once per Idempotency-Key:            *)
(* middleware/idempotency.ts, the finalization in error-handler.ts and the *)
(* cleanup job of infrastructure/queue/index.ts.                           *)
(*                                                                         *)
(* An attempt is one HTTP request; a client that hears nothing sends       *)
(* another with the same key.  Every statement of the middleware is a      *)
(* transaction of its own, one step here, and what it read may have        *)
(* changed by the next.  A row is identified by the attempt that created   *)
(* it, and its updatedAt by the attempt that last claimed it.              *)
(***************************************************************************)
EXTENDS FiniteSets

CONSTANTS
    Key,        \* unique keys: Idempotency-Key, user, method and route
    Payload,    \* request hashes
    Attempt,    \* HTTP requests, each used once
    None

ASSUME IdempotencyAssumption == None \notin Key \cup Payload \cup Attempt

VARIABLES
    row,        \* the row of idempotency_keys of each key; stale: updatedAt
                \* is over 5 minutes ago, due: expiresAt has passed
    req,        \* what each attempt is doing; told: the attempt whose answer
                \* its client was given
    done,       \* attempts whose handler committed
    lost        \* attempts whose claim was taken over or deleted

vars == <<row, req, done, lost>>

NoRow == [id |-> None, by |-> None, hash |-> None, status |-> "NONE",
          answer |-> None, stale |-> FALSE, due |-> FALSE]

Rows == [id : Attempt, by : Attempt, hash : Payload,
         status : {"PROCESSING", "COMPLETED", "FAILED"},
         answer : Attempt \cup {None}, stale : BOOLEAN, due : BOOLEAN]

Unsent == [pc |-> "unsent", key |-> None, hash |-> None, id |-> None, by |-> None,
           outcome |-> "none", told |-> None]

Steps == {"unsent", "delete", "create", "reread", "reclaim", "handle",
          "answer", "save", "settle", "end"}

TypeOK ==
    /\ row \in [Key -> Rows \cup {NoRow}]
    /\ req \in [Attempt -> [pc : Steps, key : Key \cup {None},
                            hash : Payload \cup {None}, id : Attempt \cup {None},
                            by : Attempt \cup {None},
                            outcome : {"none", "ok", "refused", "error"},
                            told : Attempt \cup {None}]]
    /\ done \in SUBSET Attempt
    /\ lost \in SUBSET Attempt

-----------------------------------------------------------------------------

At(a, p) == req[a].pc = p
RowOf(a) == row[req[a].key]
Goto(a, p) == req' = [req EXCEPT ![a].pc = p]

\* Mutant: the hashes are not compared.
JudgeAnyHash(r, q) ==
    IF r.answer # None THEN [q EXCEPT !.pc = "end", !.told = r.answer]
    ELSE IF r.stale THEN [q EXCEPT !.pc = "reclaim", !.id = r.id, !.by = r.by]
    ELSE [q EXCEPT !.pc = "end"]

\* What a request q makes of a row r it found: a conflict, a replay, a claim
\* to take over, or a request in progress.  All routes answer with a body, so
\* a row that is not PROCESSING has an answer to replay.
Judge(r, q) ==
    IF r.hash # q.hash THEN [q EXCEPT !.pc = "end"]
    ELSE IF r.answer # None THEN [q EXCEPT !.pc = "end", !.told = r.answer]
    ELSE IF r.stale THEN [q EXCEPT !.pc = "reclaim", !.id = r.id, !.by = r.by]
    ELSE [q EXCEPT !.pc = "end"]

-----------------------------------------------------------------------------
(* idempotent() *)

Find(a, k, h) ==
    /\ At(a, "unsent")
    /\ LET q == [req[a] EXCEPT !.key = k, !.hash = h] IN
       req' = [req EXCEPT ![a] =
                 CASE row[k] = NoRow -> [q EXCEPT !.pc = "create"]
                   [] row[k].due -> [q EXCEPT !.pc = "delete", !.id = row[k].id]
                   [] OTHER -> Judge(row[k], q)]
    /\ UNCHANGED <<row, done, lost>>

\* Mutant: the row is deleted by its key.
DeleteByKey(a) ==
    /\ At(a, "delete")
    /\ row' = [row EXCEPT ![req[a].key] = NoRow]
    /\ lost' = IF RowOf(a) = NoRow THEN lost ELSE lost \cup {RowOf(a).by}
    /\ req' = [req EXCEPT ![a].pc = "create", ![a].id = None]
    /\ UNCHANGED done

\* By id: if somebody else deleted the row first the error is ignored.
DeleteExpired(a) ==
    /\ At(a, "delete")
    /\ IF RowOf(a).id = req[a].id
       THEN /\ row' = [row EXCEPT ![req[a].key] = NoRow]
            /\ lost' = lost \cup {RowOf(a).by}
       ELSE UNCHANGED <<row, lost>>
    /\ req' = [req EXCEPT ![a].pc = "create", ![a].id = None]
    /\ UNCHANGED done

\* The unique index refuses a second row (P2002); what is there is read again.
Create(a) ==
    /\ At(a, "create")
    /\ IF RowOf(a) = NoRow
       THEN /\ row' = [row EXCEPT ![req[a].key] =
                         [NoRow EXCEPT !.id = a, !.by = a, !.hash = req[a].hash,
                                       !.status = "PROCESSING"]]
            /\ req' = [req EXCEPT ![a].pc = "handle", ![a].id = a]
       ELSE UNCHANGED row /\ Goto(a, "reread")
    /\ UNCHANGED <<done, lost>>

\* Whether the row has expired is not asked again.
Reread(a) ==
    /\ At(a, "reread")
    /\ IF RowOf(a) = NoRow
       THEN Goto(a, "end")
       ELSE req' = [req EXCEPT ![a] = Judge(RowOf(a), req[a])]
    /\ UNCHANGED <<row, done, lost>>

\* Mutant: whoever claimed the row meanwhile is not noticed.
ReclaimBlind(a) ==
    /\ At(a, "reclaim")
    /\ IF RowOf(a).id = req[a].id /\ RowOf(a).status = "PROCESSING"
       THEN /\ row' = [row EXCEPT ![req[a].key].by = a, ![req[a].key].stale = FALSE]
            /\ lost' = lost \cup {req[a].by}
            /\ Goto(a, "handle")
       ELSE UNCHANGED <<row, lost>> /\ Goto(a, "end")
    /\ UNCHANGED done

\* A conditional update of updatedAt: of several attempts one succeeds.
Reclaim(a) ==
    /\ At(a, "reclaim")
    /\ IF /\ RowOf(a).id = req[a].id
          /\ RowOf(a).status = "PROCESSING"
          /\ RowOf(a).by = req[a].by
       THEN /\ row' = [row EXCEPT ![req[a].key].by = a, ![req[a].key].stale = FALSE]
            /\ lost' = lost \cup {req[a].by}
            /\ Goto(a, "handle")
       ELSE UNCHANGED <<row, lost>> /\ Goto(a, "end")
    /\ UNCHANGED done

-----------------------------------------------------------------------------
(* The handler and the answer *)

\* The handler's transaction commits, is refused (4xx), or fails (5xx), which
\* a lost connection makes of a commit too.
Handle(a) ==
    /\ At(a, "handle")
    /\ \/ /\ req' = [req EXCEPT ![a].pc = "answer", ![a].outcome = "ok"]
          /\ done' = done \cup {a}
       \/ /\ \E o \in {"refused", "error"} :
                req' = [req EXCEPT ![a].pc = "settle", ![a].outcome = o]
          /\ UNCHANGED done
       \/ /\ req' = [req EXCEPT ![a].pc = "settle", ![a].outcome = "error"]
          /\ done' = done \cup {a}
    /\ UNCHANGED <<row, lost>>

\* res.json of a success sends the answer and does not wait for the finalizer.
Answer(a) ==
    /\ At(a, "answer")
    /\ req' = [req EXCEPT ![a].pc = "save", ![a].told = a]
    /\ UNCHANGED <<row, done, lost>>

StatusFor(a) == IF req[a].outcome = "error" THEN "FAILED" ELSE "COMPLETED"

\* finalize: updates the row by id, whoever claimed it since; no row, no update.
Store(a) ==
    row' = IF RowOf(a).id = req[a].id
           THEN [row EXCEPT ![req[a].key].status = StatusFor(a),
                            ![req[a].key].answer = a, ![req[a].key].stale = FALSE]
           ELSE row

Save(a) ==
    /\ At(a, "save")
    /\ Store(a) \/ UNCHANGED row        \* an error of the update is ignored
    /\ Goto(a, "end")
    /\ UNCHANGED <<done, lost>>

\* The error handler waits for the finalizer before it answers.
Settle(a) ==
    /\ At(a, "settle")
    /\ Store(a) \/ UNCHANGED row
    /\ req' = [req EXCEPT ![a].pc = "end", ![a].told = a]
    /\ UNCHANGED <<done, lost>>

-----------------------------------------------------------------------------
(* Around the code *)

\* The process dies or loses its database.
Crash(a) ==
    /\ ~At(a, "unsent") /\ ~At(a, "end")
    /\ Goto(a, "end")
    /\ UNCHANGED <<row, done, lost>>

FiveMinutesPass(k) ==
    /\ row[k].status = "PROCESSING"
    /\ ~row[k].stale
    /\ row' = [row EXCEPT ![k].stale = TRUE]
    /\ UNCHANGED <<req, done, lost>>

DayPasses(k) ==
    /\ row[k] # NoRow
    /\ ~row[k].due
    /\ row' = [row EXCEPT ![k].due = TRUE]
    /\ UNCHANGED <<req, done, lost>>

\* The job cleanup-idempotency deletes what has expired, finished or not.
Cleanup ==
    LET expired == {k \in Key : row[k].due} IN
    /\ expired # {}
    /\ row' = [k \in Key |-> IF k \in expired THEN NoRow ELSE row[k]]
    /\ lost' = lost \cup {row[k].by : k \in expired}
    /\ UNCHANGED <<req, done>>

-----------------------------------------------------------------------------

Init ==
    /\ row = [k \in Key |-> NoRow]
    /\ req = [a \in Attempt |-> Unsent]
    /\ done = {}
    /\ lost = {}

Middleware(a) ==
    \/ \E k \in Key, h \in Payload : Find(a, k, h)
    \/ DeleteExpired(a)
    \/ Create(a)
    \/ Reread(a)
    \/ Reclaim(a)

Next ==
    \/ \E a \in Attempt :
          \/ Middleware(a)
          \/ Handle(a) \/ Answer(a) \/ Save(a) \/ Settle(a)
          \/ Crash(a)
    \/ \E k \in Key : FiveMinutesPass(k) \/ DayPasses(k)
    \/ Cleanup

Spec == Init /\ [][Next]_vars

-----------------------------------------------------------------------------
(* Properties. *)

\* Attempts that were let through to the handler.
Ran == {a \in Attempt : req[a].outcome # "none" \/ At(a, "handle")}

\* Attempts that have created a row: only these are ever the id of one.
Created == {a \in Attempt : req[a].pc \in {"handle", "answer", "save", "settle", "end"}}

\* What an attempt knows, and what is known of it, between two statements.
AttemptOK(a) ==
    LET q == req[a] IN
    /\ q.pc = "unsent" => q = Unsent
    /\ q.pc # "unsent" => q.key \in Key /\ q.hash \in Payload
    /\ q.pc \in {"unsent", "delete", "create", "reread", "reclaim", "handle"} =>
           q.outcome = "none" /\ q.told = None
    /\ q.pc # "end" => q.told \in {None, a}
    /\ q.pc \in {"create", "reread"} => q.id = None
    /\ q.pc \in {"delete", "reclaim", "handle", "answer", "save", "settle"} => q.id # None
    /\ q.pc = "delete" /\ row[q.key].id = q.id => row[q.key].due
    /\ q.pc \in {"reclaim", "handle", "answer", "save", "settle"} =>
           req[q.id].key = q.key /\ req[q.id].hash = q.hash
    /\ q.pc = "reclaim" => q.by # None
    /\ q.pc \in {"answer", "save", "settle"} => q.outcome # "none"
    /\ q.id # None => q.id \in Created
    /\ q.outcome = "ok" => a \in done
    /\ a \in Ran \ lost => row[q.key].by = a

\* A row is the request of the attempt that created it, and its answer one to
\* the same request.
RowOK(k) ==
    LET r == row[k] IN
    r # NoRow =>
        /\ r.id \in Created
        /\ req[r.id].key = k /\ req[r.id].hash = r.hash
        /\ r.answer # None =>
              /\ req[r.answer].key = k /\ req[r.answer].hash = r.hash
              /\ req[r.answer].outcome # "none"

\* However many attempts with a key arrive at once, a second one reaches the
\* handler only after the claim of the first has been given up as stale or
\* its row has expired.
OneClaim ==
    \A a, b \in Ran : a # b /\ req[a].key = req[b].key => a \in lost \/ b \in lost

\* A replay gives the client the answer to its own request: to an attempt
\* with the same key and the same payload, one that has been through the
\* handler, and that committed if the answer says so.
ReplaysAreTrue ==
    \A a \in Attempt :
        LET o == req[a].told IN
        o # None =>
            /\ req[o].key = req[a].key /\ req[o].hash = req[a].hash
            /\ req[o].outcome # "none"
            /\ req[o].outcome = "ok" => o \in done

\* The inductive invariant: an attempt that has not lost its claim is the one
\* the row names, rows and attempts refer only to attempts of the same request,
\* and an attempt that is going to delete a row still means an expired one.
IdempotencyInv ==
    /\ TypeOK
    /\ \A a \in Attempt : AttemptOK(a)
    /\ \A k \in Key : RowOK(k)
    /\ ReplaysAreTrue

\* A key is free again only when its row has expired: an attempt that found
\* an expired row never removes the one that has taken its place, and a row
\* that has its answer does not go back to work.
FreshRowsStay ==
    [][\A k \in Key :
          row[k] # NoRow /\ ~row[k].due =>
              /\ row'[k].id = row[k].id
              /\ row[k].answer # None => row'[k].answer # None]_vars

\* Refuted.  tests/concurrency/README: "duplicate idempotency keys create one
\* logical operation".
OneOperation ==
    \A a, b \in done : req[a].key = req[b].key /\ req[a].hash = req[b].hash => a = b
=============================================================================
