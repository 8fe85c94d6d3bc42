------------------------- MODULE IdempotencyProofs --------------------------
(***************************************************************************)
(* Proofs, for any number of keys, payloads and attempts, that Idempotency *)
(* keeps its inductive invariant, and what follows from it.                *)
(*                                                                         *)
(* No step takes back what an attempt is known by: its key, its payload,   *)
(* its outcome, that it created a row, that it committed or that it lost   *)
(* its claim (History).  So a step has to be looked at only for the        *)
(* attempt that takes it and for the rows it writes.                       *)
(***************************************************************************)
EXTENDS Idempotency, TLAPS

History ==
    /\ \A a \in Attempt :
          /\ req[a].pc # "unsent" => req'[a].key = req[a].key /\ req'[a].hash = req[a].hash
          /\ req[a].outcome # "none" => req'[a].outcome = req[a].outcome
    /\ Created \subseteq Created'
    /\ done \subseteq done'
    /\ lost \subseteq lost'

\* Only the attempt a changes.
OnlyAttempt(a) == \A b \in Attempt \ {a} : req'[b] = req[b]

\* What the other attempts need of a step that writes rows: a claim that
\* changes hands is lost, and a row that is there was there before, as due.
ClaimsKept ==
    \A k \in Key :
        /\ row[k].by \in Attempt \ lost' => row'[k].by = row[k].by
        /\ row'[k] # NoRow =>
              \/ row'[k].id = row[k].id /\ (row[k].due => row'[k].due)
              \/ row'[k].id \in Attempt \ Created

AnswersTrue(a) ==
    LET o == req[a].told IN
    o # None =>
        /\ req[o].key = req[a].key /\ req[o].hash = req[a].hash
        /\ req[o].outcome # "none"
        /\ req[o].outcome = "ok" => o \in done

LEMMA InvParts ==
    IdempotencyInv <=> /\ TypeOK
                       /\ \A a \in Attempt : AttemptOK(a) /\ AnswersTrue(a)
                       /\ \A k \in Key : RowOK(k)
BY DEF IdempotencyInv, ReplaysAreTrue, AnswersTrue

LEMMA InvPartsNext ==
    IdempotencyInv' <=> /\ TypeOK'
                        /\ \A a \in Attempt : AttemptOK(a)' /\ AnswersTrue(a)'
                        /\ \A k \in Key : RowOK(k)'
BY DEF IdempotencyInv, ReplaysAreTrue, AnswersTrue

\* Attempts that do not move keep what is said about them.
LEMMA AttemptKept ==
    ASSUME TypeOK, TypeOK', History, ClaimsKept,
           NEW b \in Attempt, req'[b] = req[b], AttemptOK(b)
    PROVE  AttemptOK(b)'
<1> DEFINE q == req[b]
<1>1. req[b] \in [pc : Steps, key : Key \cup {None}, hash : Payload \cup {None},
                  id : Attempt \cup {None}, by : Attempt \cup {None},
                  outcome : {"none", "ok", "refused", "error"},
                  told : Attempt \cup {None}]
  BY DEF TypeOK
<1>2. q.id # None => q.id \in Created' /\ q.id \in Created
  BY <1>1 DEF AttemptOK, History
<1>3. q.pc \in {"reclaim", "handle", "answer", "save", "settle"} =>
          req'[q.id].key = q.key /\ req'[q.id].hash = q.hash
  BY <1>1, <1>2 DEF AttemptOK, History, Created
<1>4. q.pc = "delete" /\ row'[q.key].id = q.id => row'[q.key].due
  <2> SUFFICES ASSUME q.pc = "delete", row'[q.key].id = q.id PROVE row'[q.key].due
    OBVIOUS
  <2>1. q.key \in Key /\ q.id \in Attempt /\ q.id \in Created
    BY <1>1, <1>2 DEF AttemptOK
  <2>2. row'[q.key] # NoRow
    BY <2>1, IdempotencyAssumption DEF NoRow
  <2>3. row'[q.key].id = row[q.key].id /\ (row[q.key].due => row'[q.key].due)
    BY <2>1, <2>2 DEF ClaimsKept
  <2>4. QED
    BY <2>1, <2>3 DEF AttemptOK
<1>5. b \in (Ran \ lost)' => row'[q.key].by = b
  <2> SUFFICES ASSUME b \in (Ran \ lost)' PROVE row'[q.key].by = b
    OBVIOUS
  <2>1. b \in Ran \ lost /\ b \notin lost'
    BY DEF Ran, At, History
  <2>2. q.key \in Key /\ row[q.key].by = b
    BY <2>1, <1>1 DEF AttemptOK, Ran, At
  <2>3. QED
    BY <2>1, <2>2 DEF ClaimsKept
<1>6. q.outcome = "ok" => b \in done'
  BY DEF AttemptOK, History
<1>7. QED
  BY <1>2, <1>3, <1>4, <1>5, <1>6 DEF AttemptOK

\* So does what their clients were told.
LEMMA AnswersKept ==
    ASSUME TypeOK, History, NEW b \in Attempt, req'[b] = req[b],
           \A a \in Attempt : AttemptOK(a), AnswersTrue(b)
    PROVE  AnswersTrue(b)'
<1>1. req[b].told \in Attempt \cup {None}
  BY DEF TypeOK
<1>2. CASE req[b].told = None
  BY <1>2 DEF AnswersTrue
<1>3. CASE req[b].told \in Attempt
  <2>1. PICK o \in Attempt : o = req[b].told /\ o # None
    BY <1>3, IdempotencyAssumption
  <2>2. /\ req[o].key = req[b].key /\ req[o].hash = req[b].hash
        /\ req[o].outcome # "none" /\ (req[o].outcome = "ok" => o \in done)
    BY <2>1 DEF AnswersTrue
  <2>3. req[o].pc # "unsent"
    BY <2>2 DEF AttemptOK
  <2>4. QED
    BY <2>1, <2>2, <2>3 DEF AnswersTrue, History
<1>4. QED
  BY <1>1, <1>2, <1>3

\* And rows that are not written.
LEMMA RowKept ==
    ASSUME TypeOK, TypeOK', History, \A a \in Attempt : AttemptOK(a),
           NEW k \in Key, RowOK(k),
           row'[k] = NoRow \/
           /\ row[k] # NoRow
           /\ row'[k].id = row[k].id /\ row'[k].hash = row[k].hash
           /\ row'[k].answer = row[k].answer
    PROVE  RowOK(k)'
<1>1. CASE row'[k] = NoRow
  BY <1>1 DEF RowOK
<1>2. CASE row'[k] # NoRow
  <2>1. /\ row[k] # NoRow
        /\ row'[k].id = row[k].id /\ row'[k].hash = row[k].hash
        /\ row'[k].answer = row[k].answer
    BY <1>2
  <2>2. row[k] \in Rows
    BY <2>1 DEF TypeOK
  <2>3. PICK i \in Attempt : i = row[k].id
    BY <2>2 DEF Rows
  <2>4. i \in Created /\ req[i].key = k /\ req[i].hash = row[k].hash
    BY <2>1, <2>3 DEF RowOK
  <2>5. i \in Created' /\ req'[i].key = k /\ req'[i].hash = row[k].hash
    BY <2>4 DEF History, Created
  <2>6. row[k].answer # None =>
            /\ req'[row[k].answer].key = k /\ req'[row[k].answer].hash = row[k].hash
            /\ req'[row[k].answer].outcome # "none"
    <3> SUFFICES ASSUME row[k].answer # None
                 PROVE  /\ req'[row[k].answer].key = k
                        /\ req'[row[k].answer].hash = row[k].hash
                        /\ req'[row[k].answer].outcome # "none"
      OBVIOUS
    <3>1. PICK o \in Attempt : o = row[k].answer
      BY <2>2 DEF Rows
    <3>2. req[o].key = k /\ req[o].hash = row[k].hash /\ req[o].outcome # "none"
      BY <2>1, <3>1 DEF RowOK
    <3>3. req[o].pc # "unsent"
      BY <3>2 DEF AttemptOK
    <3>4. QED
      BY <3>1, <3>2, <3>3 DEF History
  <2>7. QED
    BY <2>1, <2>3, <2>5, <2>6 DEF RowOK
<1>3. QED
  BY <1>1, <1>2

\* One step: what remains to be shown of it.
LEMMA AttemptStep ==
    ASSUME IdempotencyInv, NEW a \in Attempt, OnlyAttempt(a), TypeOK', History,
           ClaimsKept, AttemptOK(a)', AnswersTrue(a)', \A k \in Key : RowOK(k)'
    PROVE  IdempotencyInv'
<1>1. ASSUME NEW b \in Attempt \ {a} PROVE AttemptOK(b)' /\ AnswersTrue(b)'
  <2>1. req'[b] = req[b] /\ AttemptOK(b) /\ AnswersTrue(b) /\ TypeOK
    BY InvParts DEF OnlyAttempt
  <2>2. QED
    BY <2>1, AttemptKept, AnswersKept, InvParts
<1>2. QED
  BY <1>1, InvPartsNext

\* A step that writes no row and touches neither done nor lost.
LEMMA QuietStep ==
    ASSUME IdempotencyInv, NEW a \in Attempt, OnlyAttempt(a), TypeOK', History,
           UNCHANGED row, AttemptOK(a)', AnswersTrue(a)'
    PROVE  IdempotencyInv'
<1>1. ClaimsKept
  BY InvParts DEF ClaimsKept, TypeOK
<1>2. \A k \in Key : RowOK(k)'
  BY RowKept, InvParts DEF RowOK
<1>3. QED
  BY <1>1, <1>2, AttemptStep

-----------------------------------------------------------------------------
(* The steps that write no row. *)

Requests == [pc : Steps, key : Key \cup {None}, hash : Payload \cup {None},
             id : Attempt \cup {None}, by : Attempt \cup {None},
             outcome : {"none", "ok", "refused", "error"},
             told : Attempt \cup {None}]

LEMMA TypeParts ==
    TypeOK <=> /\ row \in [Key -> Rows \cup {NoRow}]
               /\ req \in [Attempt -> Requests]
               /\ done \in SUBSET Attempt
               /\ lost \in SUBSET Attempt
BY DEF TypeOK, Requests

LEMMA TypePartsNext ==
    TypeOK' <=> /\ row' \in [Key -> Rows \cup {NoRow}]
                /\ req' \in [Attempt -> Requests]
                /\ done' \in SUBSET Attempt
                /\ lost' \in SUBSET Attempt
BY DEF TypeOK, Requests

\* The attempt a goes on as r: what TypeOK and History ask of r.
LEMMA MoveTo ==
    ASSUME TypeOK, NEW a \in Attempt, NEW r \in Requests,
           req' = [req EXCEPT ![a] = r],
           row' \in [Key -> Rows \cup {NoRow}],
           done \subseteq done', done' \in SUBSET Attempt,
           lost \subseteq lost', lost' \in SUBSET Attempt,
           req[a].pc # "unsent" => r.key = req[a].key /\ r.hash = req[a].hash,
           req[a].outcome # "none" => r.outcome = req[a].outcome,
           a \in Created => r.pc \in {"handle", "answer", "save", "settle", "end"}
    PROVE  TypeOK' /\ History /\ OnlyAttempt(a) /\ req'[a] = r
<1>1. req' \in [Attempt -> Requests] /\ req'[a] = r
  BY TypeParts
<1>2. \A b \in Attempt \ {a} : req'[b] = req[b]
  BY TypeParts
<1>3. TypeOK'
  BY <1>1, TypePartsNext
<1>4. Created \subseteq Created'
  BY <1>1, <1>2 DEF Created
<1>5. QED
  BY <1>1, <1>2, <1>3, <1>4 DEF History, OnlyAttempt

\* What becomes of a request that has found a row.
LEMMA JudgeCases ==
    ASSUME NEW r \in Rows, NEW q \in Requests
    PROVE  \/ Judge(r, q) = [q EXCEPT !.pc = "end"]
           \/ /\ r.hash = q.hash /\ r.answer # None
              /\ Judge(r, q) = [q EXCEPT !.pc = "end", !.told = r.answer]
           \/ /\ r.hash = q.hash
              /\ Judge(r, q) = [q EXCEPT !.pc = "reclaim", !.id = r.id, !.by = r.by]
BY DEF Judge

\* The step of an attempt that has found the row r under its key k.
LEMMA JudgeStep ==
    ASSUME IdempotencyInv, NEW a \in Attempt, NEW q \in Requests, NEW k \in Key,
           row[k] # NoRow, q.key = k, q.hash \in Payload,
           q.outcome = "none", q.told = None, q.id = None,
           req[a].pc \in {"unsent", "reread"},
           req[a].pc # "unsent" => q.key = req[a].key /\ q.hash = req[a].hash,
           req' = [req EXCEPT ![a] = Judge(row[k], q)],
           UNCHANGED <<row, done, lost>>
    PROVE  IdempotencyInv'
<1>1. row[k] \in Rows /\ row[k].id \in Attempt /\ row[k].by \in Attempt
  BY InvParts, TypeParts DEF Rows
<1>2. RowOK(k) /\ AttemptOK(a) /\ TypeOK
  BY InvParts
<1>3. a \notin Created /\ req[a].outcome = "none"
  BY <1>2 DEF Created, AttemptOK
<1>4. row[k].id \in Created /\ req[row[k].id].key = k /\ req[row[k].id].hash = row[k].hash
  BY <1>2 DEF RowOK
<1>5. CASE Judge(row[k], q) = [q EXCEPT !.pc = "end"]
  <2> DEFINE r == [q EXCEPT !.pc = "end"]
  <2>1. r \in Requests /\ r.pc = "end" /\ r.key = k /\ r.hash = q.hash
        /\ r.outcome = "none" /\ r.told = None /\ r.id = None
    BY DEF Requests, Steps
  <2>2. TypeOK' /\ History /\ OnlyAttempt(a) /\ req'[a] = r
    BY <1>2, <1>3, <1>5, <2>1, MoveTo, TypeParts
  <2>3. AttemptOK(a)' /\ AnswersTrue(a)'
    BY <2>1, <2>2 DEF AttemptOK, AnswersTrue, Ran, At, Unsent
  <2>4. QED
    BY <2>2, <2>3, QuietStep
<1>6. CASE /\ row[k].hash = q.hash /\ row[k].answer # None
           /\ Judge(row[k], q) = [q EXCEPT !.pc = "end", !.told = row[k].answer]
  <2> DEFINE o == row[k].answer
             r == [q EXCEPT !.pc = "end", !.told = o]
  <2>1. o \in Attempt
    BY <1>1, <1>6 DEF Rows
  <2>2. r \in Requests /\ r.pc = "end" /\ r.key = k /\ r.hash = q.hash
        /\ r.outcome = "none" /\ r.told = o /\ r.id = None
    BY <2>1 DEF Requests, Steps
  <2>3. TypeOK' /\ History /\ OnlyAttempt(a) /\ req'[a] = r
    BY <1>2, <1>3, <1>6, <2>2, MoveTo, TypeParts
  <2>4. AttemptOK(a)'
    BY <2>2, <2>3 DEF AttemptOK, Ran, At, Unsent
  <2>5. req[o].key = k /\ req[o].hash = q.hash /\ req[o].outcome # "none"
    BY <1>2, <1>6 DEF RowOK
  <2>6. req[o].pc # "unsent" /\ (req[o].outcome = "ok" => o \in done)
    BY <2>1, <2>5, InvParts DEF AttemptOK
  <2>7. req'[o].key = k /\ req'[o].hash = q.hash /\ req'[o].outcome = req[o].outcome
    BY <2>1, <2>3, <2>5, <2>6 DEF History
  <2>8. req'[a].told = o /\ req'[a].key = k /\ req'[a].hash = q.hash
    BY <2>2, <2>3
  <2>9. AnswersTrue(a)'
    BY <2>5, <2>6, <2>7, <2>8 DEF AnswersTrue
  <2>10. QED
    BY <2>3, <2>4, <2>9, QuietStep
<1>7. CASE /\ row[k].hash = q.hash
           /\ Judge(row[k], q) = [q EXCEPT !.pc = "reclaim", !.id = row[k].id,
                                           !.by = row[k].by]
  <2> DEFINE r == [q EXCEPT !.pc = "reclaim", !.id = row[k].id, !.by = row[k].by]
  <2>1. r \in Requests /\ r.pc = "reclaim" /\ r.key = k /\ r.hash = q.hash
        /\ r.outcome = "none" /\ r.told = None /\ r.id = row[k].id /\ r.by = row[k].by
    BY <1>1 DEF Requests, Steps
  <2>2. TypeOK' /\ History /\ OnlyAttempt(a) /\ req'[a] = r
    BY <1>2, <1>3, <1>7, <2>1, MoveTo, TypeParts
  <2>3. row[k].id \in Created'
        /\ req'[row[k].id].key = k /\ req'[row[k].id].hash = q.hash
    BY <1>1, <1>4, <1>7, <2>2 DEF History, Created
  <2>4. /\ req'[a].pc = "reclaim" /\ req'[a].key = k /\ req'[a].hash = q.hash
        /\ req'[a].outcome = "none" /\ req'[a].told = None
        /\ req'[a].id = row[k].id /\ req'[a].by = row[k].by
    BY <2>1, <2>2
  <2>5. row[k].id # None /\ row[k].by # None
    BY <1>1, IdempotencyAssumption
  <2>6. AttemptOK(a)' /\ AnswersTrue(a)'
    BY <2>3, <2>4, <2>5 DEF AttemptOK, AnswersTrue, Ran, At
  <2>7. QED
    BY <2>2, <2>6, QuietStep
<1>8. QED
  BY <1>1, <1>5, <1>6, <1>7, JudgeCases

LEMMA FindStep ==
    ASSUME IdempotencyInv, NEW a \in Attempt, NEW k \in Key, NEW h \in Payload,
           Find(a, k, h)
    PROVE  IdempotencyInv'
<1> DEFINE q == [req[a] EXCEPT !.key = k, !.hash = h]
<1>1. /\ TypeOK /\ AttemptOK(a) /\ RowOK(k) /\ req[a].pc = "unsent"
      /\ UNCHANGED <<row, done, lost>>
  BY InvParts DEF Find, At
<1>2. /\ req[a] \in Requests /\ req[a].outcome = "none" /\ req[a].told = None
      /\ req[a].id = None /\ a \notin Created
  BY <1>1, TypeParts DEF AttemptOK, Unsent, Created
<1>3. /\ q \in Requests /\ q.key = k /\ q.hash = h /\ q.pc = "unsent"
      /\ q.outcome = "none" /\ q.told = None /\ q.id = None
  BY <1>1, <1>2 DEF Requests
<1>4. CASE row[k] = NoRow
  <2> DEFINE r == [q EXCEPT !.pc = "create"]
  <2> ~row[k].due
    BY <1>4 DEF NoRow
  <2>1. req' = [req EXCEPT ![a] = r]
    BY <1>4 DEF Find
  <2>2. /\ r \in Requests /\ r.pc = "create" /\ r.key = k /\ r.hash = h
        /\ r.outcome = "none" /\ r.told = None /\ r.id = None
    BY <1>3 DEF Requests, Steps
  <2>3. TypeOK' /\ History /\ OnlyAttempt(a) /\ req'[a] = r
    BY <1>1, <1>2, <2>1, <2>2, MoveTo, TypeParts
  <2>4. AttemptOK(a)' /\ AnswersTrue(a)'
    BY <2>2, <2>3 DEF AttemptOK, AnswersTrue, Ran, At
  <2>5. QED
    BY <1>1, <2>3, <2>4, QuietStep
<1>5. CASE row[k] # NoRow /\ row[k].due
  <2> DEFINE r == [q EXCEPT !.pc = "delete", !.id = row[k].id]
  <2>1. req' = [req EXCEPT ![a] = r]
    BY <1>5 DEF Find
  <2>2. row[k].id \in Attempt /\ row[k].id \in Created
    BY <1>1, <1>5, TypeParts DEF Rows, RowOK
  <2>3. /\ r \in Requests /\ r.pc = "delete" /\ r.key = k /\ r.hash = h
        /\ r.outcome = "none" /\ r.told = None /\ r.id = row[k].id
    BY <1>3, <2>2 DEF Requests, Steps
  <2>4. TypeOK' /\ History /\ OnlyAttempt(a) /\ req'[a] = r
    BY <1>1, <1>2, <2>1, <2>3, MoveTo, TypeParts
  <2>5. /\ req'[a].pc = "delete" /\ req'[a].key = k /\ req'[a].hash = h
        /\ req'[a].outcome = "none" /\ req'[a].told = None
        /\ req'[a].id = row[k].id /\ row'[k].due
    BY <1>1, <1>5, <2>3, <2>4
  <2>6. row[k].id # None /\ row[k].id \in Created'
    BY <2>2, <2>4, IdempotencyAssumption DEF History
  <2>7. AttemptOK(a)' /\ AnswersTrue(a)'
    BY <2>5, <2>6 DEF AttemptOK, AnswersTrue, Ran, At
  <2>8. QED
    BY <1>1, <2>4, <2>7, QuietStep
<1>6. CASE row[k] # NoRow /\ ~row[k].due
  <2>1. req' = [req EXCEPT ![a] = Judge(row[k], q)]
    BY <1>6 DEF Find
  <2>2. QED
    BY <1>1, <1>3, <1>6, <2>1, JudgeStep
<1>7. QED
  BY <1>4, <1>5, <1>6

LEMMA RereadStep ==
    ASSUME IdempotencyInv, NEW a \in Attempt, Reread(a)
    PROVE  IdempotencyInv'
<1>1. /\ TypeOK /\ AttemptOK(a) /\ req[a].pc = "reread" /\ req[a] \in Requests
      /\ UNCHANGED <<row, done, lost>>
  BY InvParts, TypeParts DEF Reread, At
<1>2. /\ req[a].key \in Key /\ req[a].hash \in Payload /\ req[a].outcome = "none"
      /\ req[a].told = None /\ req[a].id = None /\ a \notin Created
  BY <1>1 DEF AttemptOK, Created
<1>3. CASE RowOf(a) = NoRow
  <2> DEFINE r == [req[a] EXCEPT !.pc = "end"]
  <2>1. req' = [req EXCEPT ![a] = r]
    BY <1>1, <1>3, TypeParts DEF Reread, Goto
  <2>2. /\ r \in Requests /\ r.pc = "end" /\ r.key = req[a].key
        /\ r.hash = req[a].hash /\ r.outcome = "none" /\ r.told = None /\ r.id = None
    BY <1>1, <1>2 DEF Requests, Steps
  <2>3. TypeOK' /\ History /\ OnlyAttempt(a) /\ req'[a] = r
    BY <1>1, <1>2, <2>1, <2>2, MoveTo, TypeParts
  <2>4. AttemptOK(a)' /\ AnswersTrue(a)'
    BY <1>2, <2>2, <2>3 DEF AttemptOK, AnswersTrue, Ran, At
  <2>5. QED
    BY <1>1, <2>3, <2>4, QuietStep
<1>4. CASE RowOf(a) # NoRow
  BY <1>1, <1>2, <1>4, JudgeStep DEF Reread, RowOf
<1>5. QED
  BY <1>3, <1>4

\* A step of an attempt that has created or claimed its row: it may commit, be
\* answered with its own answer, and end.
LEMMA WorkStep ==
    ASSUME IdempotencyInv, NEW a \in Attempt, NEW r \in Requests,
           req[a].pc \in {"handle", "answer", "save", "settle"},
           req' = [req EXCEPT ![a] = r],
           r.pc \in {"answer", "save", "settle", "end"},
           r.key = req[a].key, r.hash = req[a].hash, r.id = req[a].id,
           \/ r.outcome = req[a].outcome
           \/ req[a].outcome = "none" /\ req[a].pc = "handle",
           r.outcome = "ok" => a \in done',
           r.outcome = "none" => r.pc = "end" /\ r.told = None,
           r.told \in {None, a},
           done \subseteq done', done' \in SUBSET Attempt, UNCHANGED lost,
           row' \in [Key -> Rows \cup {NoRow}], ClaimsKept,
           TypeOK' /\ History /\ OnlyAttempt(a) => \A k \in Key : RowOK(k)'
    PROVE  IdempotencyInv'
<1>1. TypeOK /\ AttemptOK(a) /\ req[a] \in Requests
  BY InvParts, TypeParts
<1>2. TypeOK' /\ History /\ OnlyAttempt(a) /\ req'[a] = r
  BY <1>1, MoveTo, TypeParts
<1>3. PICK i \in Attempt : i = req[a].id /\ i # None
  BY <1>1, IdempotencyAssumption DEF AttemptOK, Requests
<1>4. /\ i \in Created /\ req[i].key = req[a].key /\ req[i].hash = req[a].hash
      /\ req[a].key \in Key /\ req[a].hash \in Payload
  BY <1>1, <1>3 DEF AttemptOK
<1>5. i \in Created' /\ req'[i].key = r.key /\ req'[i].hash = r.hash
  BY <1>2, <1>4 DEF History, Created
<1>6. a \in (Ran \ lost)' => row'[r.key].by = a
  <2> SUFFICES ASSUME a \in (Ran \ lost)' PROVE row'[r.key].by = a
    OBVIOUS
  <2>1. a \in Ran \ lost
    BY <1>1, <1>2 DEF Ran, At, AttemptOK
  <2>2. row[r.key].by = a
    BY <1>1, <2>1 DEF AttemptOK
  <2>3. QED
    BY <1>4, <2>1, <2>2 DEF ClaimsKept
<1>7. AttemptOK(a)'
  BY <1>2, <1>3, <1>4, <1>5, <1>6 DEF AttemptOK
<1>8. AnswersTrue(a)'
  BY <1>2 DEF AnswersTrue
<1>9. QED
  BY <1>2, <1>7, <1>8, AttemptStep

LEMMA HandleStep ==
    ASSUME IdempotencyInv, NEW a \in Attempt, Handle(a)
    PROVE  IdempotencyInv'
<1>1. /\ TypeOK /\ AttemptOK(a) /\ req[a] \in Requests /\ done \in SUBSET Attempt
      /\ req[a].pc = "handle" /\ UNCHANGED <<row, lost>>
  BY InvParts, TypeParts DEF Handle, At
<1>2. req[a].outcome = "none" /\ req[a].told = None
  BY <1>1 DEF AttemptOK
<1>3. PICK p \in {"answer", "settle"}, o \in {"ok", "refused", "error"} :
          /\ req' = [req EXCEPT ![a].pc = p, ![a].outcome = o]
          /\ done' \in {done, done \cup {a}}
          /\ o = "ok" => done' = done \cup {a}
  BY DEF Handle
<1> DEFINE r == [req[a] EXCEPT !.pc = p, !.outcome = o]
<1>4. req' = [req EXCEPT ![a] = r]
  BY <1>1, <1>3, TypeParts
<1>5. /\ r \in Requests /\ r.pc \in {"answer", "settle"} /\ r.outcome = o
      /\ r.key = req[a].key /\ r.hash = req[a].hash /\ r.id = req[a].id /\ r.told = None
  BY <1>1, <1>2 DEF Requests, Steps
<1>6. ClaimsKept
  BY <1>1, TypeParts DEF ClaimsKept
<1>7. TypeOK' /\ History => \A k \in Key : RowOK(k)'
  BY <1>1, RowKept, InvParts DEF RowOK
<1>8. /\ done \subseteq done' /\ done' \in SUBSET Attempt
      /\ row' \in [Key -> Rows \cup {NoRow}] /\ (r.outcome = "ok" => a \in done')
  BY <1>1, <1>3, <1>5, TypeParts
<1> HIDE DEF r
<1>9. QED
  BY <1>1, <1>2, <1>4, <1>5, <1>6, <1>7, <1>8, WorkStep

LEMMA AnswerStep ==
    ASSUME IdempotencyInv, NEW a \in Attempt, Answer(a)
    PROVE  IdempotencyInv'
<1>1. /\ TypeOK /\ AttemptOK(a) /\ req[a] \in Requests /\ done \in SUBSET Attempt
      /\ req[a].pc = "answer" /\ UNCHANGED <<row, done, lost>>
  BY InvParts, TypeParts DEF Answer, At
<1>2. req[a].outcome # "none" /\ (req[a].outcome = "ok" => a \in done)
  BY <1>1 DEF AttemptOK
<1> DEFINE r == [req[a] EXCEPT !.pc = "save", !.told = a]
<1>3. req' = [req EXCEPT ![a] = r]
  BY <1>1, TypeParts DEF Answer
<1>4. /\ r \in Requests /\ r.pc = "save" /\ r.outcome = req[a].outcome
      /\ r.key = req[a].key /\ r.hash = req[a].hash /\ r.id = req[a].id /\ r.told = a
  BY <1>1 DEF Requests, Steps
<1>5. ClaimsKept
  BY <1>1, TypeParts DEF ClaimsKept
<1>6. TypeOK' /\ History => \A k \in Key : RowOK(k)'
  BY <1>1, RowKept, InvParts DEF RowOK
<1>7. row' \in [Key -> Rows \cup {NoRow}]
  BY <1>1, TypeParts
<1> HIDE DEF r
<1>8. QED
  BY <1>1, <1>2, <1>3, <1>4, <1>5, <1>6, <1>7, WorkStep

LEMMA CrashStep ==
    ASSUME IdempotencyInv, NEW a \in Attempt, Crash(a)
    PROVE  IdempotencyInv'
<1>1. /\ TypeOK /\ AttemptOK(a) /\ AnswersTrue(a) /\ req[a] \in Requests
      /\ req[a].pc \notin {"unsent", "end"} /\ UNCHANGED <<row, done, lost>>
  BY InvParts, TypeParts DEF Crash, At
<1> DEFINE r == [req[a] EXCEPT !.pc = "end"]
<1>2. req' = [req EXCEPT ![a] = r]
  BY <1>1, TypeParts DEF Crash, Goto
<1>3. /\ r \in Requests /\ r.pc = "end" /\ r.outcome = req[a].outcome
      /\ r.key = req[a].key /\ r.hash = req[a].hash /\ r.id = req[a].id
      /\ r.told = req[a].told
  BY <1>1 DEF Requests, Steps
<1>4. TypeOK' /\ History /\ OnlyAttempt(a) /\ req'[a] = r
  BY <1>1, <1>2, <1>3, MoveTo, TypeParts
<1>5. req[a].id # None => req[a].id \in Created'
  BY <1>1, <1>4 DEF AttemptOK, History
<1>6. a \in (Ran \ lost)' => row[req[a].key].by = a
  BY <1>1, <1>3, <1>4 DEF AttemptOK, Ran, At
<1>7. req[a].key \in Key /\ req[a].hash \in Payload
      /\ (req[a].outcome = "ok" => a \in done)
  BY <1>1 DEF AttemptOK
<1>8. AttemptOK(a)'
  BY <1>1, <1>3, <1>4, <1>5, <1>6, <1>7 DEF AttemptOK
<1>9. \A o \in Attempt : /\ req'[o].outcome = req[o].outcome
                         /\ req'[o].key = req[o].key /\ req'[o].hash = req[o].hash
  BY <1>3, <1>4 DEF OnlyAttempt
<1>10. req[a].told \in Attempt \cup {None}
  BY <1>1 DEF Requests
<1>11. AnswersTrue(a)'
  BY <1>1, <1>3, <1>4, <1>9, <1>10 DEF AnswersTrue
<1>12. QED
  BY <1>1, <1>4, <1>8, <1>11, QuietStep

-----------------------------------------------------------------------------
(* The steps that write the row of their key. *)

LEMMA DeleteStep ==
    ASSUME IdempotencyInv, NEW a \in Attempt, DeleteExpired(a)
    PROVE  IdempotencyInv'
<1>1. /\ TypeOK /\ AttemptOK(a) /\ req[a] \in Requests /\ req[a].pc = "delete"
      /\ row \in [Key -> Rows \cup {NoRow}] /\ lost \in SUBSET Attempt
      /\ done \in SUBSET Attempt /\ done' = done
  BY InvParts, TypeParts DEF DeleteExpired, At
<1>2. /\ req[a].key \in Key /\ req[a].hash \in Payload /\ req[a].outcome = "none"
      /\ req[a].told = None /\ req[a].id # None /\ a \notin Created
  BY <1>1 DEF AttemptOK, Created
<1> DEFINE k == req[a].key
           r == [req[a] EXCEPT !.pc = "create", !.id = None]
<1>3. \/ /\ row[k].id = req[a].id
         /\ row' = [row EXCEPT ![k] = NoRow] /\ lost' = lost \cup {row[k].by}
      \/ UNCHANGED <<row, lost>>
  BY DEF DeleteExpired, RowOf
<1>4. row[k].id = req[a].id => row[k] \in Rows
  BY <1>1, <1>2 DEF NoRow
<1>5. /\ row' \in [Key -> Rows \cup {NoRow}]
      /\ lost \subseteq lost' /\ lost' \in SUBSET Attempt
      /\ \A x \in Key : \/ row'[x] = row[x]
                        \/ row'[x] = NoRow /\ row[x].by \in lost'
  BY <1>1, <1>2, <1>3, <1>4 DEF Rows
<1>6. req' = [req EXCEPT ![a] = r]
  BY <1>1, TypeParts DEF DeleteExpired
<1>7. /\ r \in Requests /\ r.pc = "create" /\ r.key = k /\ r.hash = req[a].hash
      /\ r.outcome = "none" /\ r.told = None /\ r.id = None
  BY <1>1, <1>2 DEF Requests, Steps
<1>8. TypeOK' /\ History /\ OnlyAttempt(a) /\ req'[a] = r
  BY <1>1, <1>2, <1>5, <1>6, <1>7, MoveTo
<1>9. ClaimsKept
  BY <1>5 DEF ClaimsKept
<1>10. AttemptOK(a)' /\ AnswersTrue(a)'
  BY <1>2, <1>7, <1>8 DEF AttemptOK, AnswersTrue, Ran, At
<1>11. ASSUME NEW x \in Key PROVE RowOK(x)'
  BY <1>1, <1>5, <1>8, RowKept, InvParts DEF RowOK
<1>12. QED
  BY <1>8, <1>9, <1>10, <1>11, AttemptStep

LEMMA CreateStep ==
    ASSUME IdempotencyInv, NEW a \in Attempt, Create(a)
    PROVE  IdempotencyInv'
<1>1. /\ TypeOK /\ AttemptOK(a) /\ req[a] \in Requests /\ req[a].pc = "create"
      /\ row \in [Key -> Rows \cup {NoRow}] /\ lost \in SUBSET Attempt
      /\ done \in SUBSET Attempt /\ UNCHANGED <<done, lost>>
  BY InvParts, TypeParts DEF Create, At
<1>2. /\ req[a].key \in Key /\ req[a].hash \in Payload /\ req[a].outcome = "none"
      /\ req[a].told = None /\ req[a].id = None /\ a \notin Created
  BY <1>1 DEF AttemptOK, Created
<1> PICK k \in Key : k = req[a].key
  BY <1>2
<1>3. CASE row[k] = NoRow
  <2> DEFINE r == [req[a] EXCEPT !.pc = "handle", !.id = a]
             n == [NoRow EXCEPT !.id = a, !.by = a, !.hash = req[a].hash,
                                !.status = "PROCESSING"]
  <2>1. row' = [row EXCEPT ![k] = n] /\ req' = [req EXCEPT ![a] = r]
    BY <1>1, <1>3, TypeParts DEF Create, RowOf
  <2>2. /\ n \in Rows /\ n.id = a /\ n.by = a /\ n.hash = req[a].hash /\ n.answer = None
    BY <1>2 DEF NoRow, Rows
  <2>3. row' \in [Key -> Rows \cup {NoRow}]
    BY <1>1, <2>1, <2>2
  <2>4. /\ r \in Requests /\ r.pc = "handle" /\ r.key = req[a].key /\ r.hash = req[a].hash
        /\ r.outcome = "none" /\ r.told = None /\ r.id = a
    BY <1>1, <1>2 DEF Requests, Steps
  <2>5. TypeOK' /\ History /\ OnlyAttempt(a) /\ req'[a] = r
    BY <1>1, <1>2, <2>1, <2>3, <2>4, MoveTo
  <2>6. row'[k] = n /\ \A x \in Key \ {k} : row'[x] = row[x]
    BY <1>1, <1>2, <2>1
  <2>7. row[k].by = None
    BY <1>3 DEF NoRow
  <2> HIDE DEF n, r
  <2>8. ClaimsKept
    BY <1>2, <2>2, <2>6, <2>7, IdempotencyAssumption DEF ClaimsKept
  <2>9. a \in Created' /\ a # None
    BY <2>4, <2>5, IdempotencyAssumption DEF Created
  <2>10. AttemptOK(a)' /\ AnswersTrue(a)'
    BY <1>2, <2>2, <2>4, <2>5, <2>6, <2>9 DEF AttemptOK, AnswersTrue, Ran, At
  <2>11. ASSUME NEW x \in Key \ {k} PROVE RowOK(x)'
    BY <1>1, <2>5, <2>6, RowKept, InvParts DEF RowOK
  <2>12. RowOK(k)'
    BY <2>2, <2>4, <2>5, <2>6, <2>9 DEF RowOK
  <2>13. \A x \in Key : RowOK(x)'
    BY <2>11, <2>12
  <2>14. QED
    BY <2>5, <2>8, <2>10, <2>13, AttemptStep
<1>4. CASE row[k] # NoRow
  <2> DEFINE r == [req[a] EXCEPT !.pc = "reread"]
  <2>1. UNCHANGED row /\ req' = [req EXCEPT ![a] = r]
    BY <1>1, <1>4, TypeParts DEF Create, RowOf, Goto
  <2>2. /\ r \in Requests /\ r.pc = "reread" /\ r.key = req[a].key /\ r.hash = req[a].hash
        /\ r.outcome = "none" /\ r.told = None /\ r.id = None
    BY <1>1, <1>2 DEF Requests, Steps
  <2>3. TypeOK' /\ History /\ OnlyAttempt(a) /\ req'[a] = r
    BY <1>1, <1>2, <2>1, <2>2, MoveTo
  <2>4. AttemptOK(a)' /\ AnswersTrue(a)'
    BY <1>2, <2>2, <2>3 DEF AttemptOK, AnswersTrue, Ran, At
  <2>5. QED
    BY <2>1, <2>3, <2>4, QuietStep
<1>5. QED
  BY <1>3, <1>4

LEMMA ReclaimStep ==
    ASSUME IdempotencyInv, NEW a \in Attempt, Reclaim(a)
    PROVE  IdempotencyInv'
<1>1. /\ TypeOK /\ AttemptOK(a) /\ req[a] \in Requests /\ req[a].pc = "reclaim"
      /\ row \in [Key -> Rows \cup {NoRow}] /\ lost \in SUBSET Attempt
      /\ done \in SUBSET Attempt /\ done' = done
  BY InvParts, TypeParts DEF Reclaim, At
<1>2. /\ req[a].hash \in Payload /\ req[a].outcome = "none" /\ req[a].told = None
      /\ req[a].by # None /\ req[a].by \in Attempt /\ a \notin Created
  BY <1>1 DEF AttemptOK, Created, Requests
<1> PICK k \in Key : k = req[a].key
  BY <1>1 DEF AttemptOK
<1>3. PICK i \in Attempt : i = req[a].id /\ i # None
  BY <1>1, IdempotencyAssumption DEF AttemptOK, Requests
<1>4. i \in Created /\ req[i].key = k /\ req[i].hash = req[a].hash
  BY <1>1, <1>3 DEF AttemptOK
<1>5. CASE row[k].id = i /\ row[k].status = "PROCESSING" /\ row[k].by = req[a].by
  <2> DEFINE r == [req[a] EXCEPT !.pc = "handle"]
             n == [row[k] EXCEPT !.by = a, !.stale = FALSE]
  <2>1. /\ row' = [row EXCEPT ![k] = n] /\ req' = [req EXCEPT ![a] = r]
        /\ lost' = lost \cup {req[a].by}
    BY <1>1, <1>3, <1>5, TypeParts DEF Reclaim, RowOf, Goto
  <2>2. row[k] \in Rows /\ row[k] # NoRow
    BY <1>1, <1>3, <1>5 DEF NoRow
  <2>3. /\ n \in Rows /\ n.id = row[k].id /\ n.by = a /\ n.hash = row[k].hash
        /\ n.answer = row[k].answer /\ n.due = row[k].due
    BY <2>2 DEF Rows
  <2>4. /\ row' \in [Key -> Rows \cup {NoRow}] /\ row'[k] = n
        /\ \A x \in Key \ {k} : row'[x] = row[x]
    BY <1>1, <2>1, <2>3
  <2>5. /\ r \in Requests /\ r.pc = "handle" /\ r.key = req[a].key /\ r.hash = req[a].hash
        /\ r.outcome = "none" /\ r.told = None /\ r.id = i
    BY <1>1, <1>2, <1>3 DEF Requests, Steps
  <2> HIDE DEF n, r
  <2>6. TypeOK' /\ History /\ OnlyAttempt(a) /\ req'[a] = r
    <3>1. lost \subseteq lost' /\ lost' \in SUBSET Attempt
      BY <1>1, <1>2, <2>1
    <3>2. QED
      BY <1>1, <1>2, <2>1, <2>4, <2>5, <3>1, MoveTo
  <2>7. ClaimsKept
    BY <1>5, <2>1, <2>3, <2>4 DEF ClaimsKept
  <2>8. i \in Created' /\ req'[i].key = k /\ req'[i].hash = req[a].hash
    BY <1>4, <2>6 DEF History, Created
  <2>9. AttemptOK(a)' /\ AnswersTrue(a)'
    BY <1>2, <1>3, <2>3, <2>4, <2>5, <2>6, <2>8 DEF AttemptOK, AnswersTrue, Ran, At
  <2>10. ASSUME NEW x \in Key PROVE RowOK(x)'
    <3>1. \/ row'[x] = row[x]
          \/ /\ row[x] # NoRow
             /\ row'[x].id = row[x].id /\ row'[x].hash = row[x].hash
             /\ row'[x].answer = row[x].answer
      BY <2>2, <2>3, <2>4
    <3>2. QED
      BY <1>1, <2>6, <3>1, RowKept, InvParts DEF RowOK
  <2>11. QED
    BY <2>6, <2>7, <2>9, <2>10, AttemptStep
<1>6. CASE ~(row[k].id = i /\ row[k].status = "PROCESSING" /\ row[k].by = req[a].by)
  <2> DEFINE r == [req[a] EXCEPT !.pc = "end"]
  <2>1. UNCHANGED <<row, lost>> /\ req' = [req EXCEPT ![a] = r]
    BY <1>1, <1>3, <1>6, TypeParts DEF Reclaim, RowOf, Goto
  <2>2. /\ r \in Requests /\ r.pc = "end" /\ r.key = req[a].key /\ r.hash = req[a].hash
        /\ r.outcome = "none" /\ r.told = None /\ r.id = i
    BY <1>1, <1>2, <1>3 DEF Requests, Steps
  <2> HIDE DEF r
  <2>3. TypeOK' /\ History /\ OnlyAttempt(a) /\ req'[a] = r
    BY <1>1, <1>2, <2>1, <2>2, MoveTo
  <2>4. i \in Created'
    BY <1>4, <2>3 DEF History
  <2>5. AttemptOK(a)' /\ AnswersTrue(a)'
    BY <1>2, <2>2, <2>3, <2>4 DEF AttemptOK, AnswersTrue, Ran, At
  <2>6. QED
    BY <2>1, <2>3, <2>5, QuietStep
<1>7. QED
  BY <1>5, <1>6

\* Storing the answer: what it does to the rows, and that they stay true.
LEMMA StoreRows ==
    ASSUME IdempotencyInv, NEW a \in Attempt, req[a].pc \in {"save", "settle"},
           Store(a) \/ UNCHANGED row, lost' = lost
    PROVE  /\ row' \in [Key -> Rows \cup {NoRow}]
           /\ ClaimsKept
           /\ TypeOK' /\ History => \A k \in Key : RowOK(k)'
<1>1. /\ TypeOK /\ AttemptOK(a) /\ req[a] \in Requests
      /\ row \in [Key -> Rows \cup {NoRow}]
  BY InvParts, TypeParts
<1>2. req[a].hash \in Payload /\ req[a].outcome # "none"
  BY <1>1 DEF AttemptOK
<1> PICK k \in Key : k = req[a].key
  BY <1>1 DEF AttemptOK
<1>3. PICK i \in Attempt : i = req[a].id /\ i # None
  BY <1>1, IdempotencyAssumption DEF AttemptOK, Requests
<1>4. i \in Created /\ req[i].key = k /\ req[i].hash = req[a].hash
  BY <1>1, <1>3 DEF AttemptOK
<1>5. CASE UNCHANGED row
  <2>1. ClaimsKept
    BY <1>5, <1>1 DEF ClaimsKept
  <2>2. QED
    BY <1>1, <1>5, <2>1, RowKept, InvParts DEF RowOK
<1>6. CASE Store(a) /\ row' # row
  <2> PICK st \in {"COMPLETED", "FAILED"} : st = StatusFor(a)
    BY DEF StatusFor
  <2> DEFINE n == [row[k] EXCEPT !.status = st, !.answer = a, !.stale = FALSE]
  <2>1. row[k].id = i /\ row' = [row EXCEPT ![k] = n]
    BY <1>1, <1>3, <1>6 DEF Store, RowOf
  <2>2. row[k] \in Rows /\ row[k] # NoRow
    BY <1>1, <1>3, <2>1 DEF NoRow
  <2>3. /\ n \in Rows /\ n.id = i /\ n.by = row[k].by /\ n.hash = row[k].hash
        /\ n.answer = a /\ n.due = row[k].due
    BY <2>1, <2>2 DEF Rows
  <2>4. /\ row' \in [Key -> Rows \cup {NoRow}] /\ row'[k] = n
        /\ \A x \in Key \ {k} : row'[x] = row[x]
    BY <1>1, <2>1, <2>3
  <2> HIDE DEF n
  <2>5. ClaimsKept
    BY <2>1, <2>3, <2>4 DEF ClaimsKept
  <2>6. RowOK(k) /\ row[k].hash = req[a].hash
    BY <1>4, <2>1, <2>2, InvParts DEF RowOK
  <2>7. ASSUME TypeOK', History PROVE RowOK(k)'
    <3>1. /\ i \in Created' /\ req'[i].key = k /\ req'[i].hash = row[k].hash
          /\ req'[a].key = k /\ req'[a].hash = row[k].hash
          /\ req'[a].outcome # "none"
      BY <1>1, <1>2, <1>4, <2>6, <2>7 DEF History, Created
    <3>2. QED
      BY <2>3, <2>4, <3>1 DEF RowOK
  <2>8. ASSUME TypeOK', History, NEW x \in Key \ {k} PROVE RowOK(x)'
    BY <1>1, <2>4, <2>8, RowKept, InvParts DEF RowOK
  <2>9. QED
    BY <2>4, <2>5, <2>7, <2>8
<1>7. QED
  BY <1>5, <1>6

LEMMA SaveStep ==
    ASSUME IdempotencyInv, NEW a \in Attempt, Save(a)
    PROVE  IdempotencyInv'
<1>1. /\ TypeOK /\ AttemptOK(a) /\ AnswersTrue(a) /\ req[a] \in Requests
      /\ req[a].pc = "save" /\ UNCHANGED <<done, lost>> /\ done \in SUBSET Attempt
  BY InvParts, TypeParts DEF Save, At
<1>2. req[a].outcome # "none" /\ (req[a].outcome = "ok" => a \in done)
  BY <1>1 DEF AttemptOK
<1> DEFINE r == [req[a] EXCEPT !.pc = "end"]
<1>3. req' = [req EXCEPT ![a] = r]
  BY <1>1, TypeParts DEF Save, Goto
<1>4. /\ r \in Requests /\ r.pc = "end" /\ r.outcome = req[a].outcome
      /\ r.key = req[a].key /\ r.hash = req[a].hash /\ r.id = req[a].id
      /\ r.told = req[a].told
  BY <1>1 DEF Requests, Steps
<1>5. /\ row' \in [Key -> Rows \cup {NoRow}] /\ ClaimsKept
      /\ TypeOK' /\ History => \A k \in Key : RowOK(k)'
  BY <1>1, StoreRows DEF Save
<1>6. req[a].told \in {None, a}
  BY <1>1 DEF AttemptOK
<1> HIDE DEF r
<1>7. QED
  BY <1>1, <1>2, <1>3, <1>4, <1>5, <1>6, WorkStep

LEMMA SettleStep ==
    ASSUME IdempotencyInv, NEW a \in Attempt, Settle(a)
    PROVE  IdempotencyInv'
<1>1. /\ TypeOK /\ AttemptOK(a) /\ req[a] \in Requests
      /\ req[a].pc = "settle" /\ UNCHANGED <<done, lost>> /\ done \in SUBSET Attempt
  BY InvParts, TypeParts DEF Settle, At
<1>2. req[a].outcome # "none" /\ (req[a].outcome = "ok" => a \in done)
  BY <1>1 DEF AttemptOK
<1> DEFINE r == [req[a] EXCEPT !.pc = "end", !.told = a]
<1>3. req' = [req EXCEPT ![a] = r]
  BY <1>1, TypeParts DEF Settle
<1>4. /\ r \in Requests /\ r.pc = "end" /\ r.outcome = req[a].outcome
      /\ r.key = req[a].key /\ r.hash = req[a].hash /\ r.id = req[a].id /\ r.told = a
  BY <1>1 DEF Requests, Steps
<1>5. /\ row' \in [Key -> Rows \cup {NoRow}] /\ ClaimsKept
      /\ TypeOK' /\ History => \A k \in Key : RowOK(k)'
  BY <1>1, StoreRows DEF Settle
<1> HIDE DEF r
<1>6. QED
  BY <1>1, <1>2, <1>3, <1>4, <1>5, WorkStep

-----------------------------------------------------------------------------
(* Time, the cleanup job, and nothing at all. *)

\* A step of no attempt.
LEMMA RowsStep ==
    ASSUME IdempotencyInv, UNCHANGED <<req, done>>,
           row' \in [Key -> Rows \cup {NoRow}],
           lost \subseteq lost', lost' \in SUBSET Attempt,
           \A k \in Key :
               \/ row'[k] = NoRow /\ row[k].by \in lost' \cup {None}
               \/ /\ row[k] # NoRow
                  /\ row'[k].id = row[k].id /\ row'[k].by = row[k].by
                  /\ row'[k].hash = row[k].hash /\ row'[k].answer = row[k].answer
                  /\ row[k].due => row'[k].due
    PROVE  IdempotencyInv'
<1>1. TypeOK /\ TypeOK'
  BY InvParts, TypeParts, TypePartsNext
<1>2. History
  BY DEF History, Created
<1>3. ClaimsKept
  BY IdempotencyAssumption DEF ClaimsKept
<1>4. ASSUME NEW b \in Attempt PROVE AttemptOK(b)' /\ AnswersTrue(b)'
  BY <1>1, <1>2, <1>3, AttemptKept, AnswersKept, InvParts
<1>5. ASSUME NEW k \in Key PROVE RowOK(k)'
  <2>1. row'[k] = NoRow \/ /\ row[k] # NoRow
                           /\ row'[k].id = row[k].id /\ row'[k].hash = row[k].hash
                           /\ row'[k].answer = row[k].answer
    OBVIOUS
  <2>2. QED
    BY <1>1, <1>2, <2>1, RowKept, InvParts
<1>6. QED
  BY <1>1, <1>4, <1>5, InvPartsNext

LEMMA TimeStep ==
    ASSUME IdempotencyInv, NEW k \in Key, FiveMinutesPass(k) \/ DayPasses(k)
    PROVE  IdempotencyInv'
<1>1. /\ row \in [Key -> Rows \cup {NoRow}] /\ lost \in SUBSET Attempt
      /\ UNCHANGED <<req, done, lost>>
  BY InvParts, TypeParts DEF FiveMinutesPass, DayPasses
<1>2. row[k] \in Rows /\ row[k] # NoRow
  BY <1>1 DEF FiveMinutesPass, DayPasses, NoRow
<1>3. \A x \in Key : row[x] = NoRow => row[x].by = None
  BY DEF NoRow
<1>4. PICK n \in Rows : /\ row' = [row EXCEPT ![k] = n]
                        /\ n.id = row[k].id /\ n.by = row[k].by /\ n.hash = row[k].hash
                        /\ n.answer = row[k].answer /\ (row[k].due => n.due)
  <2>1. CASE FiveMinutesPass(k)
    <3>1. /\ [row[k] EXCEPT !.stale = TRUE] \in Rows
          /\ row' = [row EXCEPT ![k] = [row[k] EXCEPT !.stale = TRUE]]
      BY <1>1, <1>2, <2>1 DEF FiveMinutesPass, Rows
    <3>2. QED
      BY <1>2, <3>1 DEF Rows
  <2>2. CASE DayPasses(k)
    <3>1. /\ [row[k] EXCEPT !.due = TRUE] \in Rows
          /\ row' = [row EXCEPT ![k] = [row[k] EXCEPT !.due = TRUE]]
      BY <1>1, <1>2, <2>2 DEF DayPasses, Rows
    <3>2. QED
      BY <1>2, <3>1 DEF Rows
  <2>3. QED
    BY <2>1, <2>2
<1>5. row' \in [Key -> Rows \cup {NoRow}] /\ row'[k] = n
      /\ \A x \in Key \ {k} : row'[x] = row[x]
  BY <1>1, <1>4
<1>6. QED
  BY <1>1, <1>2, <1>3, <1>4, <1>5, RowsStep

LEMMA CleanupStep ==
    ASSUME IdempotencyInv, Cleanup
    PROVE  IdempotencyInv'
<1>1. /\ row \in [Key -> Rows \cup {NoRow}] /\ lost \in SUBSET Attempt
      /\ UNCHANGED <<req, done>>
  BY InvParts, TypeParts DEF Cleanup
<1>2. \A x \in Key : row[x] = NoRow => row[x].by = None /\ ~row[x].due
  BY DEF NoRow
<1>3. \A x \in Key : row[x].due => row[x].by \in Attempt
  BY <1>1, <1>2 DEF Rows
<1>4. /\ row' \in [Key -> Rows \cup {NoRow}]
      /\ \A x \in Key : row'[x] = IF row[x].due THEN NoRow ELSE row[x]
      /\ \A x \in Key : row[x].due => row[x].by \in lost'
      /\ lost \subseteq lost' /\ lost' \in SUBSET Attempt
  BY <1>1, <1>3 DEF Cleanup
<1>5. QED
  BY <1>1, <1>2, <1>4, RowsStep

-----------------------------------------------------------------------------
(* The theorems. *)

LEMMA InitInv == Init => IdempotencyInv
<1> SUFFICES ASSUME Init PROVE IdempotencyInv
  OBVIOUS
<1>1. Unsent \in Requests
  BY DEF Unsent, Requests, Steps
<1>2. TypeOK
  BY <1>1, TypeParts DEF Init
<1>3. ASSUME NEW a \in Attempt PROVE AttemptOK(a) /\ AnswersTrue(a)
  BY DEF Init, AttemptOK, AnswersTrue, Unsent, Ran, At
<1>4. ASSUME NEW k \in Key PROVE RowOK(k)
  BY DEF Init, RowOK
<1>5. QED
  BY <1>2, <1>3, <1>4, InvParts

LEMMA StepInv == IdempotencyInv /\ [Next]_vars => IdempotencyInv'
<1> SUFFICES ASSUME IdempotencyInv, [Next]_vars PROVE IdempotencyInv'
  OBVIOUS
<1>1. ASSUME NEW a \in Attempt, Middleware(a) PROVE IdempotencyInv'
  BY <1>1, FindStep, DeleteStep, CreateStep, RereadStep, ReclaimStep DEF Middleware
<1>2. ASSUME NEW a \in Attempt,
             Handle(a) \/ Answer(a) \/ Save(a) \/ Settle(a) \/ Crash(a)
      PROVE  IdempotencyInv'
  BY <1>2, HandleStep, AnswerStep, SaveStep, SettleStep, CrashStep
<1>3. ASSUME NEW k \in Key, FiveMinutesPass(k) \/ DayPasses(k) PROVE IdempotencyInv'
  BY <1>3, TimeStep
<1>4. CASE Cleanup
  BY <1>4, CleanupStep
<1>5. CASE UNCHANGED vars
  BY <1>5 DEF vars, IdempotencyInv, TypeOK, AttemptOK, RowOK, ReplaysAreTrue,
              Created, Ran, At
<1>6. QED
  BY <1>1, <1>2, <1>3, <1>4, <1>5 DEF Next

\* Whatever requests arrive, fail and die, the inductive invariant holds: an
\* attempt that has not lost its claim is the one its row names.
THEOREM InvariantHolds == Spec => []IdempotencyInv
BY InitInv, StepInv, PTL DEF Spec

\* Rows and attempts keep their types, whoever claims, saves or sweeps.
THEOREM TypeCorrect == Spec => []TypeOK
<1>1. IdempotencyInv => TypeOK
  BY DEF IdempotencyInv
<1>2. QED
  BY <1>1, InvariantHolds, PTL

\* Of any number of attempts with one key, idempotent() lets a second one
\* through to the handler only when the first has lost its claim.
THEOREM OneClaimHolds == Spec => []OneClaim
<1>1. IdempotencyInv => OneClaim
  <2> SUFFICES ASSUME IdempotencyInv, NEW a \in Ran, NEW b \in Ran, a # b,
                      req[a].key = req[b].key, a \notin lost, b \notin lost
               PROVE  FALSE
    BY DEF OneClaim
  <2>1. row[req[a].key].by = a /\ row[req[b].key].by = b
    BY InvParts DEF AttemptOK, Ran
  <2>2. QED
    BY <2>1
<1>2. QED
  BY <1>1, InvariantHolds, PTL

\* What a client is given is the answer to its own request, by an attempt that
\* has been through the handler, and that committed if the answer says so.
THEOREM ReplaysAreTrueHold == Spec => []ReplaysAreTrue
<1>1. IdempotencyInv => ReplaysAreTrue
  BY DEF IdempotencyInv
<1>2. QED
  BY <1>1, InvariantHolds, PTL

\* No step of the middleware frees a key, or takes back an answer, before the
\* row has expired.
THEOREM FreshRowsStayHolds == Spec => FreshRowsStay
<1> DEFINE Fresh(k) == row[k] # NoRow /\ ~row[k].due =>
                           /\ row'[k].id = row[k].id
                           /\ row[k].answer # None => row'[k].answer # None
<1>1. ASSUME IdempotencyInv, [Next]_vars, NEW k \in Key PROVE Fresh(k)
  <2> SUFFICES ASSUME row[k] # NoRow, ~row[k].due
               PROVE  /\ row'[k].id = row[k].id
                      /\ row[k].answer # None => row'[k].answer # None
    OBVIOUS
  <2>1. row \in [Key -> Rows \cup {NoRow}] /\ row[k] \in Rows
    BY <1>1, InvParts, TypeParts
  <2>2. ASSUME NEW a \in Attempt PROVE AttemptOK(a) /\ a # None
    BY <1>1, InvParts, IdempotencyAssumption
  <2>3. CASE UNCHANGED row
    BY <2>3
  <2>4. ASSUME NEW a \in Attempt, DeleteExpired(a) PROVE row'[k] = row[k]
    BY <2>1, <2>2, <2>4 DEF DeleteExpired, At, RowOf, AttemptOK
  <2>5. ASSUME NEW a \in Attempt, Create(a) PROVE row'[k] = row[k]
    BY <2>1, <2>2, <2>5 DEF Create, At, RowOf, AttemptOK
  <2>6. ASSUME NEW a \in Attempt, Reclaim(a)
        PROVE  row'[k].id = row[k].id /\ row'[k].answer = row[k].answer
    BY <2>1, <2>6 DEF Reclaim, RowOf, Rows
  <2>7. ASSUME NEW a \in Attempt, Store(a)
        PROVE  row'[k].id = row[k].id /\ row'[k].answer \in {row[k].answer, a}
    BY <2>1, <2>7 DEF Store, RowOf, Rows
  <2>8. ASSUME NEW x \in Key, FiveMinutesPass(x) \/ DayPasses(x)
        PROVE  row'[k].id = row[k].id /\ row'[k].answer = row[k].answer
    BY <2>1, <2>8 DEF FiveMinutesPass, DayPasses, Rows
  <2>9. ASSUME Cleanup PROVE row'[k] = row[k]
    BY <2>9 DEF Cleanup
  <2>10. \/ UNCHANGED row
         \/ \E a \in Attempt : DeleteExpired(a) \/ Create(a) \/ Reclaim(a) \/ Store(a)
         \/ \E x \in Key : FiveMinutesPass(x) \/ DayPasses(x)
         \/ Cleanup
    BY <1>1 DEF Next, Middleware, Find, Reread, Handle, Answer, Save, Settle, Crash, vars
  <2>11. QED
    BY <2>2, <2>3, <2>4, <2>5, <2>6, <2>7, <2>8, <2>9, <2>10
<1>2. IdempotencyInv /\ [Next]_vars => [\A k \in Key : Fresh(k)]_vars
  BY <1>1
<1>3. QED
  BY <1>2, InvariantHolds, PTL DEF Spec, FreshRowsStay

-----------------------------------------------------------------------------
(* What the refuted OneOperation rests on. *)

\* Who committed has an outcome.
DoneRan == \A a \in done : req[a].outcome # "none"

\* Of two attempts with one key that committed, one has lost its claim.
RepeatsAreLost ==
    \A a, b \in done : a # b /\ req[a].key = req[b].key => a \in lost \/ b \in lost

\* The outcome of an attempt stays.
LEMMA DoneRanKept ==
    ASSUME IdempotencyInv, DoneRan, [Next]_vars
    PROVE  DoneRan'
<1>1. req \in [Attempt -> Requests] /\ done \in SUBSET Attempt
  BY InvParts, TypeParts
<1>2. CASE UNCHANGED <<req, done>>
  BY <1>2 DEF DoneRan
<1>3. ASSUME NEW a \in Attempt, Middleware(a)
      PROVE  DoneRan'
  <2>1. done' = done /\ \A b \in Attempt \ {a} : req'[b] = req[b]
    BY <1>1, <1>3 DEF Middleware, Find, DeleteExpired, Create, Reread, Reclaim, Goto
  <2>2. req[a].pc \in {"unsent", "delete", "create", "reread", "reclaim"}
    BY <1>3 DEF Middleware, Find, DeleteExpired, Create, Reread, Reclaim, At
  <2>3. a \notin done
    BY <2>2, InvParts DEF AttemptOK, DoneRan
  <2> QED BY <1>1, <2>1, <2>3 DEF DoneRan
<1>4. ASSUME NEW a \in Attempt, Handle(a)
      PROVE  DoneRan'
  <2>1. req'[a].outcome # "none" /\ \A b \in Attempt \ {a} : req'[b] = req[b]
    BY <1>1, <1>4 DEF Handle, Requests
  <2>2. done' \subseteq done \cup {a}
    BY <1>4 DEF Handle
  <2> QED BY <1>1, <2>1, <2>2 DEF DoneRan
<1>5. ASSUME NEW a \in Attempt, Answer(a) \/ Save(a) \/ Settle(a) \/ Crash(a)
      PROVE  DoneRan'
  <2>1. req'[a].outcome = req[a].outcome /\ \A b \in Attempt \ {a} : req'[b] = req[b]
    BY <1>1, <1>5 DEF Answer, Save, Settle, Crash, Goto, Requests
  <2>2. done' = done
    BY <1>5 DEF Answer, Save, Settle, Crash
  <2> QED BY <1>1, <2>1, <2>2 DEF DoneRan
<1>6. ASSUME NEW k \in Key, FiveMinutesPass(k) \/ DayPasses(k)
      PROVE  DoneRan'
  BY <1>2, <1>6 DEF FiveMinutesPass, DayPasses
<1> QED BY <1>2, <1>3, <1>4, <1>5, <1>6 DEF Next, Cleanup, vars

\* A request is carried out twice only when the claim of one of its attempts was
\* taken over after five minutes, or its row had expired: no crash, failed
\* finalizer or race for the key repeats it otherwise.
THEOREM RepeatedOnlyWhenLost == Spec => []RepeatsAreLost
<1>1. Init => DoneRan
  BY DEF Init, DoneRan
<1>2. IdempotencyInv /\ DoneRan /\ [Next]_vars => DoneRan'
  BY DoneRanKept
<1>3. IdempotencyInv /\ DoneRan /\ OneClaim => RepeatsAreLost
  <2>1. IdempotencyInv => done \subseteq Attempt
    BY InvParts, TypeParts
  <2> QED BY <2>1 DEF DoneRan, OneClaim, Ran, RepeatsAreLost
<1> QED BY <1>1, <1>2, <1>3, InvariantHolds, OneClaimHolds, PTL DEF Spec

=============================================================================
