------------------------- MODULE ScannerPageProofs --------------------------
(***************************************************************************)
(* Proofs, for any number of starts of the camera and of verifications,    *)
(* that the scanner page verifies one ticket at a time, shows the answer   *)
(* to the last one, and can stop every camera it has not let go of early.  *)
(***************************************************************************)
EXTENDS ScannerPage, TLAPS

Pages == [result : Verdicts \cup {"none", "camera error"},
          active : BOOLEAN, starting : BOOLEAN, busy : BOOLEAN]

Callers == Camera \cup Check \cup {"button", "leave"}

UnderWay(c) == check[c] \in {"sent", "stopping"}

\* verifyingRef is set while a verification is under way, and there is one.
VerifyingOK ==
    \A c \in Check : UnderWay(c) =>
        verifying /\ \A d \in Check : UnderWay(d) => d = c

\* A camera that runs, or will, is the one the page holds unless it was let go
\* of early; a start that is still to take its camera finds none held but one
\* whose list has not come.
CamerasOK ==
    \A k \in Camera :
        /\ camera[k] # "off" => start[k] = "end"
        /\ camera[k] = "on" \/ start[k] \in {"list", "open"} => held = k \/ k \in early
        /\ start[k] = "frame" /\ held # None => start[held] = "list"

\* Whoever waits for a camera waits for that one only, and does nothing else.
ClosersOK ==
    \A k \in Camera :
        /\ closer[k] # None => camera[k] = "closing"
        /\ closer[k] \in Check => check[closer[k]] = "stopping"
        /\ closer[k] \in Camera => start[closer[k]] = "fail"
        /\ \A j \in Camera : closer[j] = closer[k] /\ closer[k] \in Camera \cup Check => j = k

ScannerInv ==
    /\ TypeOK
    /\ VerifyingOK
    /\ CamerasOK
    /\ ClosersOK
    /\ ResultIsCurrent

-----------------------------------------------------------------------------
(* Lemmas. *)

\* The types of the variables.
LEMMA Types ==
    ASSUME TypeOK
    PROVE  /\ mounted \in BOOLEAN /\ held \in Camera \cup {None} /\ verifying \in BOOLEAN
           /\ page \in Pages /\ drawn \in Pages
           /\ start \in [Camera -> {"unused", "frame", "list", "open", "fail", "end"}]
           /\ camera \in [Camera -> {"off", "on", "closing"}]
           /\ closer \in [Camera -> Callers \cup {None}]
           /\ check \in [Check -> {"unused", "sent", "stopping", "end"}]
           /\ last \in Verdicts \cup {"none", "sent"} /\ early \in SUBSET Camera
BY DEF TypeOK, Pages, Callers

\* The page is set to something true, or not at all.
LEMMA SetKeeps ==
    ASSUME ScannerInv, NEW p \in Pages, Set(p), mounted' = mounted,
           p.result \in Verdicts => p.result = last'
    PROVE  page' \in Pages /\ ResultIsCurrent'
<1>1. page \in Pages /\ mounted \in BOOLEAN
  BY Types DEF ScannerInv
<1>2. CASE mounted
  BY <1>1, <1>2 DEF Set, ResultIsCurrent
<1>3. CASE ~mounted
  BY <1>1, <1>3 DEF Set, ResultIsCurrent
<1> QED BY <1>2, <1>3

\* Pages made from pages.
LEMMA PageParts ==
    ASSUME NEW p \in Pages
    PROVE  /\ Dark(p) \in Pages /\ Dark(p).result = p.result
           /\ [p EXCEPT !.busy = FALSE] \in Pages /\ [p EXCEPT !.busy = FALSE].result = p.result
           /\ \A r \in Verdicts \cup {"none", "camera error"} :
                 [p EXCEPT !.result = r] \in Pages /\ [p EXCEPT !.result = r].result = r
BY DEF Dark, Pages

\* The result the page shows is current whether or not the page is there to
\* be set: the rest of the step must not touch it.
LEMMA ResultKept ==
    ASSUME ScannerInv, UNCHANGED <<page, last>>, mounted' => mounted
    PROVE  ResultIsCurrent'
BY DEF ScannerInv, ResultIsCurrent

\* stopCamera up to its await, for a caller that waits for no camera yet.
LEMMA LetGoKeeps ==
    ASSUME ScannerInv, NEW who \in Callers, LetGo(who),
           who \in Camera \cup Check => \A j \in Camera : closer[j] # who
    PROVE  /\ held' = None
           /\ camera' \in [Camera -> {"off", "on", "closing"}]
           /\ closer' \in [Camera -> Callers \cup {None}]
           /\ early' \in SUBSET Camera
           /\ \A k \in Camera :
                 /\ camera'[k] # "off" => camera[k] # "off"
                 /\ camera'[k] = "on" => k \in early'
                 /\ start[k] \in {"list", "open"} /\ k # who => k \in early'
                 /\ closer'[k] # None => camera'[k] = "closing"
                 /\ closer'[k] = closer[k] \/ (closer'[k] = who /\ MustWait)
                 /\ \A j \in Camera :
                       closer'[j] = closer'[k] /\ closer'[k] \in Camera \cup Check => j = k
<1>1. /\ held \in Camera \cup {None} /\ camera \in [Camera -> {"off", "on", "closing"}]
      /\ closer \in [Camera -> Callers \cup {None}] /\ early \in SUBSET Camera
  BY Types DEF ScannerInv
<1>2. held' = None /\ early' \in SUBSET Camera
  BY <1>1 DEF LetGo, Opening
<1>3. ASSUME NEW k \in Camera
      PROVE  /\ start[k] \in {"list", "open"} /\ k # who => k \in early'
             /\ k # held /\ camera[k] = "on" => k \in early'
  BY <1>1, <1>3 DEF ScannerInv, CamerasOK, LetGo, Opening
<1>4. CASE MustWait
  <2>1. /\ held \in Camera /\ camera[held] = "on"
        /\ camera' = [camera EXCEPT ![held] = "closing"]
        /\ closer' = [closer EXCEPT ![held] = who]
    BY <1>1, <1>4 DEF MustWait, LetGo
  <2>2. /\ camera' \in [Camera -> {"off", "on", "closing"}]
        /\ closer' \in [Camera -> Callers \cup {None}]
        /\ camera'[held] = "closing" /\ closer'[held] = who
        /\ \A k \in Camera \ {held} : camera'[k] = camera[k] /\ closer'[k] = closer[k]
    BY <1>1, <2>1
  <2>3. \A k \in Camera :
            /\ camera'[k] # "off" => camera[k] # "off"
            /\ camera'[k] = "on" => k \in early'
    BY <1>3, <2>1, <2>2
  <2>4. \A k \in Camera :
            /\ closer'[k] # None => camera'[k] = "closing"
            /\ closer'[k] = closer[k] \/ closer'[k] = who
            /\ \A j \in Camera :
                  closer'[j] = closer'[k] /\ closer'[k] \in Camera \cup Check => j = k
    BY <2>1, <2>2 DEF ScannerInv, ClosersOK
  <2> QED BY <1>2, <1>3, <1>4, <2>2, <2>3, <2>4
<1>5. CASE ~MustWait
  <2>1. camera' = camera /\ closer' = closer
    BY <1>5 DEF LetGo
  <2>2. \A k \in Camera : camera'[k] = "on" => k \in early'
    BY <1>1, <1>3, <1>5, <2>1, ScannerAssumption DEF MustWait
  <2>3. \A k \in Camera :
            /\ closer'[k] # None => camera'[k] = "closing"
            /\ \A j \in Camera :
                  closer'[j] = closer'[k] /\ closer'[k] \in Camera \cup Check => j = k
    BY <2>1 DEF ScannerInv, ClosersOK
  <2> QED BY <1>1, <1>2, <1>3, <2>1, <2>2, <2>3
<1> QED BY <1>4, <1>5

-----------------------------------------------------------------------------
(* Verifications. *)

\* verify begins: nothing is under way.
LEMMA SubmitKeeps ==
    ASSUME ScannerInv, NEW c \in Check, Submit(c), drawn' \in {drawn, page'}
    PROVE  ScannerInv'
<1> DEFINE p == [page EXCEPT !.busy = TRUE, !.result = "none"]
<1>1. TypeOK
  BY DEF ScannerInv
<1>2. p \in Pages /\ p.result = "none"
  BY <1>1, Types DEF Pages
<1>3. Set(p) /\ UNCHANGED <<mounted, held, start, camera, closer, early>>
  BY DEF Submit
<1> HIDE DEF p
<1>4. page' \in Pages /\ ResultIsCurrent'
  BY <1>2, <1>3, SetKeeps DEF Verdicts
<1>5. /\ ~verifying /\ verifying' = TRUE /\ last' = "sent"
      /\ check' = [check EXCEPT ![c] = "sent"] /\ check[c] = "unused"
  BY DEF Submit
<1>6. TypeOK'
  BY <1>1, <1>3, <1>4, <1>5, Types DEF TypeOK, Pages, Callers
<1>7. \A d \in Check : ~UnderWay(d)
  BY <1>5 DEF ScannerInv, VerifyingOK
<1>8. /\ check'[c] = "sent"
      /\ \A d \in Check \ {c} : check'[d] = check[d]
  BY <1>1, <1>5, Types
<1>9. VerifyingOK'
  BY <1>5, <1>7, <1>8 DEF VerifyingOK, UnderWay
<1>10. CamerasOK'
  BY <1>3 DEF ScannerInv, CamerasOK
<1>11. ClosersOK'
  BY <1>3, <1>5, <1>8 DEF ScannerInv, ClosersOK
<1> QED BY <1>4, <1>6, <1>9, <1>10, <1>11 DEF ScannerInv

\* The verification under way ends: nothing else is.
LEMMA FinishKeeps ==
    ASSUME ScannerInv, NEW c \in Check, UnderWay(c), NEW p \in Pages, Finish(c, p),
           mounted' = mounted, p.result \in Verdicts => p.result = last'
    PROVE  /\ page' \in Pages /\ ResultIsCurrent' /\ VerifyingOK' /\ verifying' \in BOOLEAN
           /\ check' \in [Check -> {"unused", "sent", "stopping", "end"}]
           /\ \A d \in Check \ {c} : check'[d] = check[d]
<1>1. check \in [Check -> {"unused", "sent", "stopping", "end"}]
  BY Types DEF ScannerInv
<1>2. page' \in Pages /\ ResultIsCurrent'
  <2>1. /\ [p EXCEPT !.busy = FALSE] \in Pages /\ Set([p EXCEPT !.busy = FALSE])
        /\ [p EXCEPT !.busy = FALSE].result = p.result
    BY PageParts DEF Finish
  <2> QED BY <2>1, SetKeeps
<1>3. /\ check' \in [Check -> {"unused", "sent", "stopping", "end"}]
      /\ check'[c] = "end" /\ \A d \in Check \ {c} : check'[d] = check[d]
  BY <1>1 DEF Finish
<1>4. VerifyingOK'
  BY <1>3 DEF ScannerInv, VerifyingOK, UnderWay
<1> QED BY <1>2, <1>3, <1>4 DEF Finish

LEMMA DeniedKeeps ==
    ASSUME ScannerInv, NEW c \in Check, Denied(c)
    PROVE  ScannerInv'
<1> DEFINE p == [page EXCEPT !.result = "DENIED"]
<1>1. TypeOK
  BY DEF ScannerInv
<1>2. p \in Pages /\ p.result = "DENIED"
  BY <1>1, Types, PageParts DEF Verdicts
<1>3. /\ Finish(c, p) /\ UnderWay(c) /\ check[c] = "sent" /\ last' = "DENIED"
      /\ UNCHANGED <<mounted, held, drawn, start, camera, closer, early>>
  BY DEF Denied, UnderWay
<1> HIDE DEF p
<1>4. /\ page' \in Pages /\ ResultIsCurrent' /\ VerifyingOK' /\ verifying' \in BOOLEAN
      /\ check' \in [Check -> {"unused", "sent", "stopping", "end"}]
      /\ \A d \in Check \ {c} : check'[d] = check[d]
  BY <1>2, <1>3, FinishKeeps
<1>5. TypeOK'
  BY <1>1, <1>3, <1>4, Types DEF TypeOK, Pages, Callers, Verdicts
<1>6. CamerasOK'
  BY <1>3 DEF ScannerInv, CamerasOK
<1>7. ClosersOK'
  BY <1>3, <1>4 DEF ScannerInv, ClosersOK
<1> QED BY <1>4, <1>5, <1>6, <1>7 DEF ScannerInv

\* An approved verification lets the camera go, and waits for it or ends.
LEMMA ApprovedKeeps ==
    ASSUME ScannerInv, NEW c \in Check, Approved(c)
    PROVE  ScannerInv'
<1> DEFINE shown == [page EXCEPT !.result = "VALID"]
<1>1. TypeOK
  BY DEF ScannerInv
<1>2. shown \in Pages /\ shown.result = "VALID"
  BY <1>1, Types, PageParts DEF Verdicts
<1>3. Dark(shown) \in Pages /\ Dark(shown).result = "VALID"
  BY <1>2, PageParts
<1>4. /\ check[c] = "sent" /\ UnderWay(c) /\ last' = "VALID" /\ LetGo(c)
      /\ UNCHANGED <<mounted, drawn, start>>
      /\ MustWait => /\ check' = [check EXCEPT ![c] = "stopping"]
                     /\ Set(shown) /\ verifying' = verifying
      /\ ~MustWait => Finish(c, Dark(shown))
  BY DEF Approved, UnderWay
<1>5. c \in Callers /\ c \notin Camera /\ \A j \in Camera : closer[j] # c
  BY <1>4, ScannerAssumption DEF Callers, ScannerInv, ClosersOK
<1> HIDE DEF shown
<1>6. /\ held' = None
      /\ camera' \in [Camera -> {"off", "on", "closing"}]
      /\ closer' \in [Camera -> Callers \cup {None}]
      /\ early' \in SUBSET Camera
      /\ \A k \in Camera :
            /\ camera'[k] # "off" => camera[k] # "off"
            /\ camera'[k] = "on" => k \in early'
            /\ start[k] \in {"list", "open"} /\ k # c => k \in early'
            /\ closer'[k] # None => camera'[k] = "closing"
            /\ closer'[k] = closer[k] \/ (closer'[k] = c /\ MustWait)
            /\ \A j \in Camera :
                  closer'[j] = closer'[k] /\ closer'[k] \in Camera \cup Check => j = k
  BY <1>4, <1>5, LetGoKeeps
<1>7. /\ page' \in Pages /\ ResultIsCurrent' /\ VerifyingOK' /\ verifying' \in BOOLEAN
      /\ check' \in [Check -> {"unused", "sent", "stopping", "end"}]
      /\ \A d \in Check \ {c} : check'[d] = check[d]
      /\ MustWait => check'[c] = "stopping"
  <2>1. CASE MustWait
    <3>1. page' \in Pages /\ ResultIsCurrent'
      BY <1>2, <1>4, <2>1, SetKeeps
    <3>2. /\ check' \in [Check -> {"unused", "sent", "stopping", "end"}]
          /\ check'[c] = "stopping" /\ \A d \in Check \ {c} : check'[d] = check[d]
          /\ verifying' \in BOOLEAN
      BY <1>1, <1>4, <2>1, Types
    <3>3. VerifyingOK'
      BY <1>4, <2>1, <3>2 DEF ScannerInv, VerifyingOK, UnderWay
    <3> QED BY <3>1, <3>2, <3>3
  <2>2. CASE ~MustWait
    BY <1>3, <1>4, <2>2, FinishKeeps
  <2> QED BY <2>1, <2>2
<1>8. TypeOK'
  BY <1>1, <1>4, <1>6, <1>7, Types DEF TypeOK, Pages, Callers, Verdicts
<1>9. CamerasOK'
  BY <1>4, <1>5, <1>6 DEF ScannerInv, CamerasOK
<1>10. ClosersOK'
  BY <1>4, <1>5, <1>6, <1>7 DEF ScannerInv, ClosersOK
<1> QED BY <1>7, <1>8, <1>9, <1>10 DEF ScannerInv

-----------------------------------------------------------------------------
(* The camera. *)

\* startCamera begins, with no camera held.
LEMMA ClickStartKeeps ==
    ASSUME ScannerInv, NEW k \in Camera, ClickStart(k)
    PROVE  ScannerInv'
<1>1. TypeOK
  BY DEF ScannerInv
<1>2. /\ held = None /\ start[k] = "unused" /\ start' = [start EXCEPT ![k] = "frame"]
      /\ page' = [page EXCEPT !.result = "none", !.starting = TRUE] /\ drawn' = page'
      /\ UNCHANGED <<mounted, held, verifying, camera, closer, check, last, early>>
  BY DEF ClickStart
<1>3. page' \in Pages /\ page'.result = "none"
  BY <1>1, <1>2, Types DEF Pages
<1>4. /\ start' \in [Camera -> {"unused", "frame", "list", "open", "fail", "end"}]
      /\ start'[k] = "frame" /\ \A j \in Camera \ {k} : start'[j] = start[j]
  BY <1>1, <1>2, Types
<1>5. TypeOK'
  BY <1>1, <1>2, <1>3, <1>4, Types DEF TypeOK, Pages, Callers
<1>6. ResultIsCurrent'
  BY <1>3 DEF ResultIsCurrent, Verdicts
<1>7. VerifyingOK'
  BY <1>2 DEF ScannerInv, VerifyingOK, UnderWay
<1>8. CamerasOK'
  BY <1>2, <1>4 DEF ScannerInv, CamerasOK
<1>9. ClosersOK'
  BY <1>2, <1>4 DEF ScannerInv, ClosersOK
<1> QED BY <1>5, <1>6, <1>7, <1>8, <1>9 DEF ScannerInv

\* A start fails before its camera is open.
LEMMA FailKeeps ==
    ASSUME ScannerInv, NEW k \in Camera, Fail(k), start[k] \in {"frame", "list", "open"}
    PROVE  ScannerInv'
<1> DEFINE p == [Dark(page) EXCEPT !.result = "camera error"]
<1>1. TypeOK
  BY DEF ScannerInv
<1>2. p \in Pages /\ p.result = "camera error"
  BY <1>1, Types, PageParts
<1>3. /\ LetGo(k) /\ UNCHANGED <<mounted, verifying, drawn, check, last>>
      /\ start' = [start EXCEPT ![k] = IF MustWait THEN "fail" ELSE "end"]
      /\ page' = page \/ Set(p)
  BY DEF Fail
<1> HIDE DEF p
<1>4. page' \in Pages /\ ResultIsCurrent'
  <2>1. CASE Set(p)
    BY <1>2, <1>3, <2>1, SetKeeps DEF Verdicts
  <2>2. CASE page' = page
    BY <1>1, <1>3, <2>2, Types, ResultKept
  <2> QED BY <1>3, <2>1, <2>2
<1>5. /\ start' \in [Camera -> {"unused", "frame", "list", "open", "fail", "end"}]
      /\ start'[k] = (IF MustWait THEN "fail" ELSE "end")
      /\ \A j \in Camera \ {k} : start'[j] = start[j]
  BY <1>1, <1>3, Types
<1>6. k \in Callers /\ k \notin Check /\ \A j \in Camera : closer[j] # k
  BY ScannerAssumption DEF Callers, ScannerInv, ClosersOK
<1>7. /\ held' = None
      /\ camera' \in [Camera -> {"off", "on", "closing"}]
      /\ closer' \in [Camera -> Callers \cup {None}]
      /\ early' \in SUBSET Camera
      /\ \A i \in Camera :
            /\ camera'[i] # "off" => camera[i] # "off"
            /\ camera'[i] = "on" => i \in early'
            /\ start[i] \in {"list", "open"} /\ i # k => i \in early'
            /\ closer'[i] # None => camera'[i] = "closing"
            /\ closer'[i] = closer[i] \/ (closer'[i] = k /\ MustWait)
            /\ \A j \in Camera :
                  closer'[j] = closer'[i] /\ closer'[i] \in Camera \cup Check => j = i
  BY <1>3, <1>6, LetGoKeeps
<1>8. TypeOK'
  <2>1. /\ mounted' \in BOOLEAN /\ verifying' \in BOOLEAN /\ drawn' \in Pages
        /\ check' \in [Check -> {"unused", "sent", "stopping", "end"}]
        /\ last' \in Verdicts \cup {"none", "sent"}
    BY <1>1, <1>3, Types
  <2> QED BY <1>4, <1>5, <1>7, <2>1 DEF TypeOK, Pages, Callers
<1>9. VerifyingOK'
  BY <1>3 DEF ScannerInv, VerifyingOK, UnderWay
<1>10. CamerasOK'
  BY <1>5, <1>7 DEF ScannerInv, CamerasOK
<1>11. ClosersOK'
  BY <1>3, <1>5, <1>6, <1>7 DEF ScannerInv, ClosersOK
<1> QED BY <1>4, <1>8, <1>9, <1>10, <1>11 DEF ScannerInv

\* A start moves on, and takes its camera with it or not.
LEMMA StartKeeps ==
    ASSUME ScannerInv, NEW k \in Camera,
           UNCHANGED <<mounted, verifying, page, drawn, camera, closer, check, last>>,
           start[k] \in {"frame", "list"},
           start'= [start EXCEPT ![k] = IF start[k] = "list" THEN "open"
                                        ELSE IF held' = k THEN "list" ELSE "end"],
           \/ /\ start[k] = "frame" /\ held' = k /\ early' = early \cup Opening(held)
           \/ /\ UNCHANGED <<held, early>> /\ held # k
           \/ /\ UNCHANGED <<held, early>> /\ start[k] = "list"
              /\ \A j \in Camera : start[j] # "frame"
    PROVE  ScannerInv'
<1>1. TypeOK
  BY DEF ScannerInv
<1>2. /\ start' \in [Camera -> {"unused", "frame", "list", "open", "fail", "end"}]
      /\ start'[k] = (IF start[k] = "list" THEN "open"
                      ELSE IF held' = k THEN "list" ELSE "end")
      /\ \A j \in Camera \ {k} : start'[j] = start[j]
  BY <1>1, Types
<1>3. held' \in Camera \cup {None} /\ early' \in SUBSET Camera /\ early \subseteq early'
  BY <1>1, Types DEF Opening
<1>4. TypeOK'
  BY <1>1, <1>2, <1>3, Types DEF TypeOK, Pages, Callers
<1>5. ResultIsCurrent' /\ VerifyingOK'
  BY ResultKept DEF ScannerInv, VerifyingOK, UnderWay
<1>6. ClosersOK'
  BY <1>2 DEF ScannerInv, ClosersOK
<1>7. CamerasOK'
  <2> SUFFICES ASSUME NEW i \in Camera
               PROVE  /\ camera[i] # "off" => start'[i] = "end"
                      /\ camera[i] = "on" \/ start'[i] \in {"list", "open"} =>
                            held' = i \/ i \in early'
                      /\ start'[i] = "frame" /\ held' # None => start'[held'] = "list"
    BY DEF CamerasOK
  <2>1. camera[i] # "off" => start'[i] = "end"
    BY <1>2 DEF ScannerInv, CamerasOK
  <2>2. camera[i] = "on" \/ start'[i] \in {"list", "open"} => held' = i \/ i \in early'
    <3>1. CASE start[k] = "frame" /\ held' = k
      <4>1. held # None => start[held] = "list"
        BY <3>1 DEF ScannerInv, CamerasOK
      <4>2. i = held => i \in early' \/ i = k
        BY <3>1, <4>1, ScannerAssumption DEF Opening
      <4> QED BY <1>2, <1>3, <3>1, <4>2 DEF ScannerInv, CamerasOK
    <3>2. CASE UNCHANGED <<held, early>>
      BY <1>2, <3>2 DEF ScannerInv, CamerasOK
    <3> QED BY <3>1, <3>2
  <2>3. start'[i] = "frame" /\ held' # None => start'[held'] = "list"
    BY <1>1, <1>2, <1>3, Types DEF ScannerInv, CamerasOK
  <2> QED BY <2>1, <2>2, <2>3
<1> QED BY <1>4, <1>5, <1>6, <1>7 DEF ScannerInv

LEMMA PrepareKeeps ==
    ASSUME ScannerInv, NEW k \in Camera, Prepare(k)
    PROVE  ScannerInv'
<1>1. start[k] = "frame" /\ k # None
  BY ScannerAssumption DEF Prepare
<1>2. CASE Fail(k)
  BY <1>1, <1>2, FailKeeps
<1>3. CASE ~mounted /\ ~Fail(k)
  <2>1. held # k
    BY <1>1 DEF ScannerInv, CamerasOK
  <2>2. /\ start' = [start EXCEPT ![k] = "end"]
        /\ UNCHANGED <<mounted, held, verifying, page, drawn, camera, closer, check, last,
                       early>>
    BY <1>3 DEF Prepare
  <2> QED BY <1>1, <2>1, <2>2, StartKeeps
<1>4. CASE mounted /\ ~Fail(k)
  <2>1. /\ held' = k /\ early' = early \cup Opening(held)
        /\ start' = [start EXCEPT ![k] = "list"]
        /\ UNCHANGED <<mounted, verifying, page, drawn, camera, closer, check, last>>
    BY <1>4 DEF Prepare
  <2> QED BY <1>1, <2>1, StartKeeps
<1> QED BY <1>2, <1>3, <1>4

LEMMA ListedKeeps ==
    ASSUME ScannerInv, NEW k \in Camera, Listed(k)
    PROVE  ScannerInv'
<1>1. start[k] = "list"
  BY DEF Listed
<1>2. CASE Fail(k)
  BY <1>1, <1>2, FailKeeps
<1>3. CASE ~Fail(k)
  <2>1. /\ start' = [start EXCEPT ![k] = "open"]
        /\ UNCHANGED <<mounted, held, verifying, page, drawn, camera, closer, check, last,
                       early>>
        /\ held # k \/ \A j \in Camera : start[j] # "frame"
    BY <1>3 DEF Listed
  <2> QED BY <1>1, <2>1, StartKeeps
<1> QED BY <1>2, <1>3

\* The camera runs: it is held, or was let go of early.
LEMMA OpenedKeeps ==
    ASSUME ScannerInv, NEW k \in Camera, Opened(k)
    PROVE  ScannerInv'
<1>1. start[k] = "open" /\ TypeOK
  BY DEF Opened, ScannerInv
<1>2. CASE Fail(k)
  BY <1>1, <1>2, FailKeeps
<1>3. CASE ~Fail(k)
  <2> DEFINE p == [page EXCEPT !.active = TRUE, !.starting = FALSE]
  <2>1. p \in Pages /\ p.result = page.result
    BY <1>1, Types DEF Pages
  <2>2. /\ camera' = [camera EXCEPT ![k] = "on"] /\ start' = [start EXCEPT ![k] = "end"]
        /\ Set(p)
        /\ UNCHANGED <<mounted, held, verifying, drawn, closer, check, last, early>>
    BY <1>3 DEF Opened
  <2> HIDE DEF p
  <2>3. page' \in Pages /\ ResultIsCurrent'
    BY <1>1, <2>1, <2>2, Types DEF Set, ScannerInv, ResultIsCurrent
  <2>4. /\ start' \in [Camera -> {"unused", "frame", "list", "open", "fail", "end"}]
        /\ camera' \in [Camera -> {"off", "on", "closing"}]
        /\ start'[k] = "end" /\ camera'[k] = "on"
        /\ \A j \in Camera \ {k} : start'[j] = start[j] /\ camera'[j] = camera[j]
    BY <1>1, <2>2, Types
  <2>5. TypeOK'
    BY <1>1, <2>2, <2>3, <2>4, Types DEF TypeOK, Pages, Callers
  <2>6. VerifyingOK'
    BY <2>2 DEF ScannerInv, VerifyingOK, UnderWay
  <2>7. CamerasOK'
    BY <1>1, <2>2, <2>4 DEF ScannerInv, CamerasOK
  <2>8. ClosersOK'
    BY <1>1, <2>2, <2>4 DEF ScannerInv, ClosersOK, CamerasOK
  <2> QED BY <2>3, <2>5, <2>6, <2>7, <2>8 DEF ScannerInv
<1> QED BY <1>2, <1>3

\* The stop button, or leaving the page: nobody waits for the camera.
LEMMA StopKeeps ==
    ASSUME ScannerInv, NEW who \in {"button", "leave"}, LetGo(who),
           page' \in Pages, drawn' \in Pages, mounted' \in BOOLEAN, ResultIsCurrent',
           UNCHANGED <<verifying, start, check, last>>
    PROVE  ScannerInv'
<1>1. TypeOK
  BY DEF ScannerInv
<1>2. who \in Callers /\ who \notin Camera \cup Check
  BY ScannerAssumption DEF Callers
<1>3. /\ held' = None
      /\ camera' \in [Camera -> {"off", "on", "closing"}]
      /\ closer' \in [Camera -> Callers \cup {None}]
      /\ early' \in SUBSET Camera
      /\ \A k \in Camera :
            /\ camera'[k] # "off" => camera[k] # "off"
            /\ camera'[k] = "on" => k \in early'
            /\ start[k] \in {"list", "open"} /\ k # who => k \in early'
            /\ closer'[k] # None => camera'[k] = "closing"
            /\ closer'[k] = closer[k] \/ (closer'[k] = who /\ MustWait)
            /\ \A j \in Camera :
                  closer'[j] = closer'[k] /\ closer'[k] \in Camera \cup Check => j = k
  BY <1>2, LetGoKeeps
<1>4. TypeOK'
  BY <1>1, <1>3, Types DEF TypeOK, Pages, Callers
<1>5. VerifyingOK'
  BY DEF ScannerInv, VerifyingOK, UnderWay
<1>6. CamerasOK'
  BY <1>2, <1>3 DEF ScannerInv, CamerasOK
<1>7. ClosersOK'
  BY <1>2, <1>3 DEF ScannerInv, ClosersOK
<1> QED BY <1>4, <1>5, <1>6, <1>7 DEF ScannerInv

LEMMA ClickStopKeeps ==
    ASSUME ScannerInv, ClickStop
    PROVE  ScannerInv'
<1>1. page \in Pages /\ mounted \in BOOLEAN
  BY Types DEF ScannerInv
<1>2. page' \in Pages /\ page'.result = page.result
  BY <1>1, PageParts DEF ClickStop
<1>3. ResultIsCurrent'
  BY <1>2 DEF ClickStop, ScannerInv, ResultIsCurrent
<1> QED BY <1>1, <1>2, <1>3, StopKeeps DEF ClickStop

LEMMA LeaveKeeps ==
    ASSUME ScannerInv, Leave
    PROVE  ScannerInv'
<1>1. page \in Pages /\ drawn \in Pages
  BY Types DEF ScannerInv
<1>2. ResultIsCurrent'
  BY DEF Leave, ResultIsCurrent
<1> QED BY <1>1, <1>2, StopKeeps DEF Leave

\* A camera has closed, and whoever waited goes on.
LEMMA ClosedKeeps ==
    ASSUME ScannerInv, NEW k \in Camera, Closed(k)
    PROVE  ScannerInv'
<1> DEFINE who == closer[k]
<1>1. TypeOK /\ page \in Pages /\ (mounted /\ page.result \in Verdicts => page.result = last)
  BY Types DEF ScannerInv, ResultIsCurrent
<1>2. Dark(page) \in Pages /\ Dark(page).result = page.result
  BY <1>1, PageParts
<1>3. /\ camera[k] = "closing" /\ camera' = [camera EXCEPT ![k] = "off"]
      /\ closer' = [closer EXCEPT ![k] = None]
      /\ UNCHANGED <<mounted, held, drawn, last, early>>
  BY DEF Closed
<1>4. /\ camera' \in [Camera -> {"off", "on", "closing"}]
      /\ closer' \in [Camera -> Callers \cup {None}]
      /\ camera'[k] = "off" /\ closer'[k] = None
      /\ \A j \in Camera \ {k} : camera'[j] = camera[j] /\ closer'[j] = closer[j]
  BY <1>1, <1>3, Types
<1>5. \A j \in Camera \ {k} : who \in Camera \cup Check => closer[j] # who
  BY DEF ScannerInv, ClosersOK
<1>6. ASSUME start' \in [Camera -> {"unused", "frame", "list", "open", "fail", "end"}],
             \A j \in Camera : start'[j] = start[j] \/ (j = who /\ start'[j] = "end"),
             \A d \in Check : check'[d] = check[d] \/ d = who,
             check' \in [Check -> {"unused", "sent", "stopping", "end"}],
             verifying' \in BOOLEAN, page' \in Pages, ResultIsCurrent', VerifyingOK'
      PROVE  ScannerInv'
  <2>1. TypeOK'
    BY <1>1, <1>3, <1>4, <1>6, Types DEF TypeOK, Pages, Callers
  <2>2. \A j \in Camera : j = who => start[j] = "fail"
    BY DEF ScannerInv, ClosersOK
  <2>3. CamerasOK'
    BY <1>1, <1>3, <1>4, <1>6, <2>2, Types DEF ScannerInv, CamerasOK
  <2>4. ClosersOK'
    BY <1>4, <1>5, <1>6, ScannerAssumption DEF ScannerInv, ClosersOK
  <2> QED BY <1>6, <2>1, <2>3, <2>4 DEF ScannerInv
<1>7. CASE who \in Check
  <2>1. Finish(who, Dark(page)) /\ start' = start /\ UnderWay(who)
    BY <1>7 DEF Closed, ScannerInv, ClosersOK, UnderWay
  <2>2. CASE mounted
    <3>1. /\ page' \in Pages /\ ResultIsCurrent' /\ VerifyingOK' /\ verifying' \in BOOLEAN
          /\ check' \in [Check -> {"unused", "sent", "stopping", "end"}]
          /\ \A d \in Check \ {who} : check'[d] = check[d]
      BY <1>1, <1>2, <1>3, <1>7, <2>1, <2>2, FinishKeeps
    <3> QED BY <1>1, <1>6, <2>1, <3>1, Types
  <2>3. CASE ~mounted
    <3>1. /\ check' \in [Check -> {"unused", "sent", "stopping", "end"}]
          /\ check'[who] = "end" /\ \A d \in Check \ {who} : check'[d] = check[d]
          /\ verifying' = FALSE /\ page' = page
      BY <1>1, <1>7, <2>1, <2>3, Types DEF Finish, Set
    <3>2. VerifyingOK'
      BY <1>7, <2>1, <3>1 DEF ScannerInv, VerifyingOK, UnderWay
    <3>3. ResultIsCurrent'
      BY <1>3, <2>3 DEF ResultIsCurrent
    <3> QED BY <1>1, <1>6, <2>1, <3>1, <3>2, <3>3, Types
  <2> QED BY <1>1, <2>2, <2>3, Types
<1>8. CASE who \notin Check
  <2>1. UNCHANGED <<verifying, check>>
    BY <1>8 DEF Closed
  <2>2. /\ start' \in [Camera -> {"unused", "frame", "list", "open", "fail", "end"}]
        /\ \A j \in Camera : start'[j] = start[j] \/ (j = who /\ start'[j] = "end")
    BY <1>1, <1>8, Types DEF Closed
  <2>3. page' \in Pages /\ ResultIsCurrent'
    <3>1. PICK p \in {Dark(page), [Dark(page) EXCEPT !.result = "camera error"]} : Set(p)
      BY <1>8 DEF Closed
    <3>2. p \in Pages /\ p.result \in {page.result, "camera error"}
      BY <1>2, PageParts
    <3>3. CASE mounted
      BY <1>1, <1>3, <3>1, <3>2, <3>3, SetKeeps DEF Verdicts
    <3>4. CASE ~mounted
      BY <1>1, <1>3, <3>1, <3>4 DEF Set, ResultIsCurrent
    <3> QED BY <1>1, <3>3, <3>4, Types
  <2>4. VerifyingOK'
    BY <2>1 DEF ScannerInv, VerifyingOK, UnderWay
  <2> QED BY <1>1, <1>6, <2>1, <2>2, <2>3, <2>4, Types
<1> QED BY <1>7, <1>8

LEMMA DrawKeeps ==
    ASSUME ScannerInv, drawn' \in {drawn, page},
           UNCHANGED <<mounted, held, verifying, page, start, camera, closer, check, last,
                       early>>
    PROVE  ScannerInv'
<1>1. TypeOK'
  BY Types DEF ScannerInv, TypeOK, Pages, Callers
<1>2. VerifyingOK' /\ CamerasOK' /\ ClosersOK' /\ ResultIsCurrent'
  BY DEF ScannerInv, VerifyingOK, UnderWay, CamerasOK, ClosersOK, ResultIsCurrent
<1> QED BY <1>1, <1>2 DEF ScannerInv

-----------------------------------------------------------------------------

LEMMA InitInv == Init => ScannerInv
<1> SUFFICES ASSUME Init PROVE ScannerInv
  OBVIOUS
<1>1. page \in Pages /\ drawn \in Pages
  BY DEF Init, Pages
<1>2. TypeOK
  BY <1>1 DEF Init, TypeOK, Pages
<1>3. VerifyingOK /\ CamerasOK /\ ClosersOK /\ ResultIsCurrent
  BY ScannerAssumption
     DEF Init, VerifyingOK, UnderWay, CamerasOK, ClosersOK, ResultIsCurrent, Verdicts
<1> QED BY <1>2, <1>3 DEF ScannerInv

LEMMA NextKeeps ==
    ASSUME ScannerInv, [Next]_vars
    PROVE  ScannerInv'
<1>1. ASSUME NEW c \in Check, ClickVerify(c) PROVE ScannerInv'
  BY <1>1, SubmitKeeps DEF ClickVerify
<1>2. ASSUME NEW k \in Camera, NEW c \in Check, Decode(k, c) PROVE ScannerInv'
  BY <1>2, SubmitKeeps DEF Decode
<1>3. CASE Draw
  BY <1>3, DrawKeeps DEF Draw
<1>4. CASE UNCHANGED vars
  BY <1>4, DrawKeeps DEF vars
<1> QED BY <1>1, <1>2, <1>3, <1>4, ApprovedKeeps, DeniedKeeps, ClickStartKeeps, PrepareKeeps,
        ListedKeeps, OpenedKeeps, ClosedKeeps, ClickStopKeeps, LeaveKeeps DEF Next

\* The invariant of ScannerPage, its type invariant with it.
THEOREM InvariantHolds == Spec => []ScannerInv
<1>1. ScannerInv /\ [Next]_vars => ScannerInv'
  BY NextKeeps
<1> QED BY <1>1, InitInv, PTL DEF Spec

\* Every variable keeps its type.
THEOREM TypeCorrect == Spec => []TypeOK
<1>1. ScannerInv => TypeOK
  BY DEF ScannerInv
<1> QED BY <1>1, InvariantHolds, PTL

\* However frames, buttons and answers come, one verification is under way.
THEOREM OneVerificationHolds == Spec => []OneVerification
<1>1. ScannerInv => OneVerification
  BY DEF ScannerInv, VerifyingOK, UnderWay, OneVerification
<1> QED BY <1>1, InvariantHolds, PTL

\* What the page shows is the answer to the verification that was sent last.
THEOREM ResultIsCurrentHolds == Spec => []ResultIsCurrent
<1>1. ScannerInv => ResultIsCurrent
  BY DEF ScannerInv
<1> QED BY <1>1, InvariantHolds, PTL

\* A running camera is held, or was let go of before it had opened.
THEOREM RunningCamerasAreHeldHolds == Spec => []RunningCamerasAreHeld
<1>1. ScannerInv => RunningCamerasAreHeld
  BY DEF ScannerInv, CamerasOK, RunningCamerasAreHeld
<1> QED BY <1>1, InvariantHolds, PTL

=============================================================================
