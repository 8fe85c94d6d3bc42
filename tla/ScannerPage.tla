---------------------------- MODULE ScannerPage -----------------------------
(***************************************************************************)
(* One visit to the page that verifies tickets at the entrance             *)
(* (pages/Scanner.tsx): the camera, the verification of a credential that  *)
(* was scanned or typed in, and what the page shows of both.               *)
(*                                                                         *)
(* The page is one thread, but its functions wait for the browser, the     *)
(* camera library and the server, and anything may happen meanwhile: other *)
(* clicks, a decoded frame, an answer, leaving the page.  A step runs from *)
(* one await to the next.  React state set outside a click is on the       *)
(* screen, where the buttons are, only after a Draw.                       *)
(***************************************************************************)
CONSTANTS
    Camera,     \* Html5Qrcode objects, one for each start of the camera
    Check,      \* calls of verify that pass its guard, each used once
    None

ASSUME ScannerAssumption ==
    /\ Camera \cap Check = {}
    /\ {None, "button", "leave"} \cap (Camera \cup Check) = {}

VARIABLES
    mounted,    \* mountedRef
    held,       \* scannerRef
    verifying,  \* verifyingRef
    page,       \* React state: result, cameraActive, startingCamera, busy
    drawn,      \* the page as it was last rendered
    start,      \* how far each call of startCamera is
    camera,     \* what each camera does
    closer,     \* who waits for a camera to close
    check,      \* how far each verification is
    last,       \* what came of the verification sent last
    early       \* cameras that were let go of before they had opened

vars == <<mounted, held, verifying, page, drawn, start, camera, closer, check,
          last, early>>

Verdicts == {"VALID", "DENIED"}

TypeOK ==
    /\ mounted \in BOOLEAN
    /\ held \in Camera \cup {None}
    /\ verifying \in BOOLEAN
    /\ {page, drawn} \subseteq [result : Verdicts \cup {"none", "camera error"},
                                active : BOOLEAN, starting : BOOLEAN, busy : BOOLEAN]
    /\ start \in [Camera -> {"unused", "frame", "list", "open", "fail", "end"}]
    /\ camera \in [Camera -> {"off", "on", "closing"}]
    /\ closer \in [Camera -> Camera \cup Check \cup {"button", "leave", None}]
    /\ check \in [Check -> {"unused", "sent", "stopping", "end"}]
    /\ last \in Verdicts \cup {"none", "sent"}
    /\ early \in SUBSET Camera

-----------------------------------------------------------------------------

\* State is set only while the page is there.
Set(p) == page' = IF mounted THEN p ELSE page

Dark(p) == [p EXCEPT !.active = FALSE, !.starting = FALSE]

\* stop() of a camera that is not running throws, which is ignored: the page
\* has let go of the camera, and whoever starts it goes on.
MustWait == held # None /\ camera[held] = "on"

Opening(h) == {k \in Camera : k = h /\ start[k] \in {"list", "open"}}

\* What stopCamera does up to its await, for a caller that goes on after it.
LetGo(who) ==
    /\ held' = None
    /\ camera' = IF MustWait THEN [camera EXCEPT ![held] = "closing"] ELSE camera
    /\ closer' = IF MustWait THEN [closer EXCEPT ![held] = who] ELSE closer
    /\ early' = early \cup (Opening(held) \ {who})

-----------------------------------------------------------------------------
(* verify *)

\* Mutant: the result of the check before stays on the page.
SubmitKeepsResult(c) ==
    /\ ~verifying
    /\ check[c] = "unused"
    /\ verifying' = TRUE
    /\ check' = [check EXCEPT ![c] = "sent"]
    /\ last' = "sent"
    /\ Set([page EXCEPT !.busy = TRUE])
    /\ UNCHANGED <<mounted, held, start, camera, closer, early>>

\* Mutant: only the buttons keep a second verification away.
SubmitUnguarded(c) ==
    /\ check[c] = "unused"
    /\ verifying' = TRUE
    /\ check' = [check EXCEPT ![c] = "sent"]
    /\ last' = "sent"
    /\ Set([page EXCEPT !.busy = TRUE, !.result = "none"])
    /\ UNCHANGED <<mounted, held, start, camera, closer, early>>

\* With an Idempotency-Key of its own, whether or not the page is still there.
Submit(c) ==
    /\ ~verifying
    /\ check[c] = "unused"
    /\ verifying' = TRUE
    /\ check' = [check EXCEPT ![c] = "sent"]
    /\ last' = "sent"
    /\ Set([page EXCEPT !.busy = TRUE, !.result = "none"])
    /\ UNCHANGED <<mounted, held, start, camera, closer, early>>

\* A frame is decoded: the callback of any camera that runs.
Decode(k, c) ==
    /\ camera[k] = "on"
    /\ Submit(c)
    /\ UNCHANGED drawn

\* The button under the text field.
ClickVerify(c) ==
    /\ mounted /\ ~drawn.busy
    /\ Submit(c)
    /\ drawn' = page'

\* Mutant: the page stays busy.
FinishBusy(c, p) ==
    /\ verifying' = FALSE
    /\ check' = [check EXCEPT ![c] = "end"]
    /\ Set(p)

Finish(c, p) ==
    /\ verifying' = FALSE
    /\ check' = [check EXCEPT ![c] = "end"]
    /\ Set([p EXCEPT !.busy = FALSE])

\* Every answer that is not an error is VALID.  The verification ends when
\* the camera has closed.
Approved(c) ==
    LET shown == [page EXCEPT !.result = "VALID"] IN
    /\ check[c] = "sent"
    /\ last' = "VALID"
    /\ LetGo(c)
    /\ IF MustWait
       THEN /\ check' = [check EXCEPT ![c] = "stopping"]
            /\ Set(shown)
            /\ UNCHANGED verifying
       ELSE Finish(c, Dark(shown))
    /\ UNCHANGED <<mounted, drawn, start>>

\* Mutant: an error without a message has no fallback.
DeniedSilently(c) ==
    /\ check[c] = "sent"
    /\ last' = "DENIED"
    /\ \E shown \in {"DENIED", "undefined"} : Finish(c, [page EXCEPT !.result = shown])
    /\ UNCHANGED <<mounted, held, drawn, start, camera, closer, early>>

\* The server refuses, or no answer comes.
Denied(c) ==
    /\ check[c] = "sent"
    /\ last' = "DENIED"
    /\ Finish(c, [page EXCEPT !.result = "DENIED"])
    /\ UNCHANGED <<mounted, held, drawn, start, camera, closer, early>>

-----------------------------------------------------------------------------
(* startCamera *)

\* Mutant: a camera that is held does not keep another from being started.
ClickStartAgain(k) ==
    /\ mounted
    /\ ~drawn.active /\ ~drawn.starting /\ ~drawn.busy
    /\ start[k] = "unused"
    /\ start' = [start EXCEPT ![k] = "frame"]
    /\ page' = [page EXCEPT !.result = "none", !.starting = TRUE]
    /\ drawn' = page'
    /\ UNCHANGED <<mounted, held, verifying, camera, closer, check, last, early>>

\* The other two conditions of the guard are read from the rendered page.
ClickStart(k) ==
    /\ mounted
    /\ ~drawn.active /\ ~drawn.starting /\ ~drawn.busy
    /\ held = None
    /\ start[k] = "unused"
    /\ start' = [start EXCEPT ![k] = "frame"]
    /\ page' = [page EXCEPT !.result = "none", !.starting = TRUE]
    /\ drawn' = page'
    /\ UNCHANGED <<mounted, held, verifying, camera, closer, check, last, early>>

\* catch: what the page holds is stopped, which need not be the camera that
\* failed, and the error takes the place of the result.
Fail(k) ==
    /\ LetGo(k)
    /\ start' = [start EXCEPT ![k] = IF MustWait THEN "fail" ELSE "end"]
    /\ IF MustWait THEN UNCHANGED page
       ELSE Set([Dark(page) EXCEPT !.result = "camera error"])
    /\ UNCHANGED <<mounted, verifying, drawn, check, last>>

\* After the animation frame; cameras may not be supported at all.
Prepare(k) ==
    /\ start[k] = "frame"
    /\ \/ /\ mounted
          /\ held' = k
          /\ early' = early \cup Opening(held)
          /\ start' = [start EXCEPT ![k] = "list"]
          /\ UNCHANGED <<mounted, verifying, page, drawn, camera, closer, check, last>>
       \/ /\ ~mounted
          /\ start' = [start EXCEPT ![k] = "end"]
          /\ UNCHANGED <<mounted, held, verifying, page, drawn, camera, closer,
                         check, last, early>>
       \/ mounted /\ Fail(k)

\* getCameras answers, after the animation frame: if another start has been
\* clicked before this one took the camera, it has taken it over by now.
Listed(k) ==
    /\ start[k] = "list"
    /\ held = k => \A j \in Camera : start[j] # "frame"
    /\ \/ /\ start' = [start EXCEPT ![k] = "open"]
          /\ UNCHANGED <<mounted, held, verifying, page, drawn, camera, closer,
                         check, last, early>>
       \/ Fail(k)

\* The camera opens, or the user refuses it.
Opened(k) ==
    /\ start[k] = "open"
    /\ \/ /\ camera' = [camera EXCEPT ![k] = "on"]
          /\ start' = [start EXCEPT ![k] = "end"]
          /\ Set([page EXCEPT !.active = TRUE, !.starting = FALSE])
          /\ UNCHANGED <<mounted, held, verifying, drawn, closer, check, last, early>>
       \/ Fail(k)

-----------------------------------------------------------------------------
(* stopCamera *)

ClickStop ==
    /\ mounted
    /\ drawn.active /\ ~drawn.busy
    /\ LetGo("button")
    /\ page' = IF MustWait THEN page ELSE Dark(page)
    /\ drawn' = page'
    /\ UNCHANGED <<mounted, verifying, start, check, last>>

\* stop() resolves; its caller goes on.
Closed(k) ==
    LET who == closer[k] IN
    /\ camera[k] = "closing"
    /\ camera' = [camera EXCEPT ![k] = "off"]
    /\ closer' = [closer EXCEPT ![k] = None]
    /\ IF who \in Check THEN Finish(who, Dark(page)) /\ UNCHANGED start
       ELSE /\ UNCHANGED <<verifying, check>>
            /\ IF who \in Camera
               THEN /\ start' = [start EXCEPT ![who] = "end"]
                    /\ Set([Dark(page) EXCEPT !.result = "camera error"])
               ELSE Set(Dark(page)) /\ UNCHANGED start
    /\ UNCHANGED <<mounted, held, drawn, last, early>>

\* The cleanup of the effect.
Leave ==
    /\ mounted
    /\ mounted' = FALSE
    /\ LetGo("leave")
    /\ UNCHANGED <<verifying, page, drawn, start, check, last>>

Draw ==
    /\ mounted /\ drawn # page
    /\ drawn' = page
    /\ UNCHANGED <<mounted, held, verifying, page, start, camera, closer, check,
                   last, early>>

-----------------------------------------------------------------------------

Init ==
    /\ mounted = TRUE
    /\ held = None
    /\ verifying = FALSE
    /\ page = [result |-> "none", active |-> FALSE, starting |-> FALSE, busy |-> FALSE]
    /\ drawn = page
    /\ start = [k \in Camera |-> "unused"]
    /\ camera = [k \in Camera |-> "off"]
    /\ closer = [k \in Camera |-> None]
    /\ check = [c \in Check |-> "unused"]
    /\ last = "none"
    /\ early = {}

Next ==
    \/ \E c \in Check : ClickVerify(c) \/ Approved(c) \/ Denied(c)
    \/ \E k \in Camera, c \in Check : Decode(k, c)
    \/ \E k \in Camera : ClickStart(k) \/ Prepare(k) \/ Listed(k) \/ Opened(k) \/ Closed(k)
    \/ ClickStop \/ Leave \/ Draw

Spec == Init /\ [][Next]_vars

\* The server answers or the connection fails, a camera that is told to close
\* does, and the browser draws.  Nobody need click.
FairSpec ==
    /\ Spec
    /\ \A c \in Check : WF_vars(Approved(c) \/ Denied(c))
    /\ \A k \in Camera : WF_vars(Closed(k))
    /\ WF_vars(Draw)

-----------------------------------------------------------------------------
(* Properties. *)

\* However the camera's frames and the button under the text field come, and
\* however late the page is drawn, one verification is under way at a time:
\* none is sent between another's request and the closing of its camera.
OneVerification ==
    \A c, d \in Check : {check[c], check[d]} \subseteq {"sent", "stopping"} => c = d

\* ENTRY APPROVED, or a refusal, on the page is what came of the credential
\* that was sent last: never of one before it while the next is being
\* verified, and never an answer that was overtaken.  An answer that was lost
\* is shown as a refusal, whatever the server decided.
ResultIsCurrent == mounted /\ page.result \in Verdicts => page.result = last

\* A camera that runs is one the page holds and can stop, unless the page had
\* let go of it before it opened: by an approved verification, by leaving the
\* page, by another start or by the failure of another start.  Nothing else
\* leaves a camera running that nobody can stop.
RunningCamerasAreHeld == \A k \in Camera : camera[k] = "on" => held = k \/ k \in early

\* A page that is busy becomes usable again: a verification always ends, when
\* it is refused, when it is approved and its camera has to close, and when
\* that camera is closed by somebody else.
PageIsFreed == page.busy ~> (~page.busy \/ ~mounted)
=============================================================================
