-------------------------- MODULE VoiceNoteRecorder --------------------------
(***************************************************************************)
(* A message-recorder page, its VoiceNoteRecorderController and the native *)
(* recorder below.  The controller runs its operations one after another   *)
(* (operationChain) and awaits the audio capturer within them; everything  *)
(* else on the JS thread may happen meanwhile: buffers of the microphone,  *)
(* taps, an answer to the permission dialog, the page going away.  What    *)
(* promises have ready runs first: the next operation up to its first      *)
(* await, then those who wait for the one that ended.                      *)
(***************************************************************************)
EXTENDS OpusRecorder

CONSTANTS
  Buffers,     \* sizes, in samples, of the buffers the microphone delivers
  MaxStarts,   \* bound: recordings started by the page
  MaxQueued    \* bound: operations waiting behind the one that runs

ASSUME VoiceNoteAssumption ==
  Buffers \subseteq Nat \ {0} /\ MaxStarts \in Nat /\ MaxQueued \in Nat

VARIABLES
  ctl,      \* members of the controller
  op,       \* the operation that runs, where it awaits, and its locals
  chain,    \* operations behind it
  answers,  \* operations that have ended and whose callers have not run yet
  mic,      \* the audio capturer is there and not released
  page,     \* phase of the page, "gone" once it has disappeared
  asking,   \* the permission dialog is up
  draft,    \* path of the pending voice note, or 0
  sent,     \* paths given to sendChatVoiceNoteMessage
  forgotten,  \* history: drafts TDLib had not taken when another message's answer cleared them
  used      \* output paths used so far

ctlVars == <<ctl, op, chain, answers, mic>>
pageVars == <<page, asking, draft, sent, forgotten, used>>
vars == <<rec, disk, ctlVars, pageVars>>

\* What the caller of an operation does when it has ended.
Afters == {"none", "started", "stopped", "clear", "clearAndReturn"}
Ops == [kind : {"start", "stop", "cancel", "failure"}, path : Nat, after : Afters]
Op(kind, path, after) == [kind |-> kind, path |-> path, after |-> after]
NoOp == [kind |-> "none", at |-> "idle", path |-> 0, after |-> "none", failed |-> FALSE]

\* Type invariant.
RecorderTypeOK ==
  /\ rec \in [active : BOOLEAN, path : 0..MaxStarts, input : Nat, recorded : 0..MaxSamples,
              total : Nat, granule : Nat, pending : Nat]
  /\ DOMAIN disk \subseteq 1..MaxStarts
  /\ ctl \in [phase : {"idle", "recording", "stopping", "error"}, cap : BOOLEAN,
              path : 0..MaxStarts, native : BOOLEAN, scheduled : BOOLEAN, failed : BOOLEAN,
              heard : Nat]
  /\ op \in [kind : {"none", "start", "stop", "cancel", "failure"},
             at : {"idle", "create", "start", "undo", "stop", "release"},
             path : 0..MaxStarts, after : Afters, failed : BOOLEAN]
  /\ chain \in Seq(Ops) /\ answers \in Seq([after : Afters, path : 0..MaxStarts, ok : BOOLEAN])
  /\ mic \in BOOLEAN /\ asking \in BOOLEAN
  /\ page \in {"idle", "requesting", "recording", "stopping", "sending", "sendFailed", "error",
               "gone"}
  /\ draft \in 0..MaxStarts /\ used \in 0..MaxStarts
  /\ sent \subseteq 1..MaxStarts /\ forgotten \subseteq 1..MaxStarts

Init ==
  /\ rec = Idle /\ disk = [p \in {} |-> <<>>]
  /\ ctl = [phase |-> "idle", cap |-> FALSE, path |-> 0, native |-> FALSE, scheduled |-> FALSE,
            failed |-> FALSE, heard |-> 0]
  /\ op = NoOp /\ chain = <<>> /\ answers = <<>>
  /\ mic = FALSE /\ page = "idle" /\ asking = FALSE /\ draft = 0 /\ used = 0
  /\ sent = {} /\ forgotten = {}

------------------------------------------------------------------------------
(* Helpers *)

\* Mutant: an error is not shown.
PageSeesNoError(phase) ==
  page' = IF page = "gone" \/ phase \in {"idle", "error"} THEN page ELSE phase

\* handleRecorderSnapshot: the page follows every snapshot but the idle one.
PageSees(phase) == page' = IF page = "gone" \/ phase = "idle" THEN page ELSE phase

\* The operation ends; its caller is told later.
Ends(ok, path) ==
  /\ op' = NoOp
  /\ answers' = Append(answers, [after |-> op.after, path |-> path, ok |-> ok])

Awaits(at) == op' = [op EXCEPT !.at = at] /\ UNCHANGED answers

\* A task of the event loop: all that promises had ready has run.
Calm == answers = <<>> /\ (op.at # "idle" \/ chain = <<>>)

\* A platform promise that the running operation awaits is settled.
Settles(kinds, at) == Calm /\ op.kind \in kinds /\ op.at = at

\* safeStopNativeRecorder and deleteFileIfPresent(activeFilePath): whatever the encoder says,
\* the file goes.
DropRecording(path) ==
  /\ rec' = IF ctl.native THEN Idle ELSE rec
  /\ disk' = WithoutFile(IF ctl.native THEN WithoutFile(disk, rec.path) ELSE disk, path)

------------------------------------------------------------------------------
(* The operations of the controller, up to their first await *)

Next1 == Head(chain)
Takes(kind) ==
  /\ op.at = "idle" /\ chain # <<>> /\ Next1.kind = kind
  /\ chain' = Tail(chain)

Taken(at, path) == [kind |-> Next1.kind, at |-> at, path |-> path, after |-> Next1.after,
                    failed |-> FALSE]
Answered(ok) == answers' = Append(answers, [after |-> Next1.after, path |-> 0, ok |-> ok])

\* start: skipped while a session is active; startInternal asks for a capturer.
BeginStart ==
  /\ Takes("start")
  /\ IF ctl.phase \in {"recording", "stopping"}
     THEN Answered(FALSE) /\ UNCHANGED <<op, ctl>>
     ELSE /\ op' = Taken("create", Next1.path)
          /\ ctl' = [ctl EXCEPT !.scheduled = FALSE, !.failed = FALSE, !.heard = 0]
          /\ UNCHANGED answers
  /\ UNCHANGED <<rec, disk, mic, pageVars>>

\* stop: skipped without a session; the capturer leaves the controller before it is stopped.
BeginStop ==
  /\ Takes("stop")
  /\ IF ~ctl.cap \/ ctl.path = 0
     THEN Answered(FALSE) /\ UNCHANGED <<op, ctl, page>>
     ELSE /\ op' = Taken("stop", ctl.path)
          /\ ctl' = [ctl EXCEPT !.phase = "stopping", !.cap = FALSE]
          /\ PageSees("stopping") /\ UNCHANGED answers
  /\ UNCHANGED <<rec, disk, mic, asking, draft, sent, forgotten, used>>

\* cancelInternal, last part: cancel() and release() leave an idle snapshot, the cleanup of a
\* failure leaves the error on the screen.
Cancelled(c, kind) ==
  [c EXCEPT !.native = FALSE, !.phase = IF kind = "failure" THEN @ ELSE "idle",
            !.scheduled = IF kind = "failure" THEN FALSE ELSE @]

\* cancelInternal: with a capturer it is stopped and released first.
BeginCancel(kind) ==
  /\ Takes(kind)
  /\ LET c == [ctl EXCEPT !.heard = 0, !.failed = FALSE, !.cap = FALSE, !.path = 0]
     IN IF ctl.cap
        THEN op' = Taken("stop", ctl.path) /\ ctl' = c /\ UNCHANGED <<answers, rec, disk>>
        ELSE /\ Answered(TRUE) /\ UNCHANGED op
             /\ DropRecording(ctl.path)
             /\ ctl' = Cancelled(c, kind)
  /\ UNCHANGED <<mic, pageVars>>

------------------------------------------------------------------------------
(* The operations behind their awaits *)

\* startInternal, nothing to release: the error is shown.
StartFails ==
  /\ Ends(FALSE, 0)
  /\ ctl' = [ctl EXCEPT !.native = FALSE, !.path = 0, !.phase = "error", !.failed = FALSE,
                        !.heard = 0]
  /\ PageSees("error")

\* createCapturer is settled.  With a capturer the native recorder is started and buffers are
\* listened for; if the native side refuses, the capturer has to go.
CapturerCreated(made, ok) ==
  /\ Settles({"start"}, "create")
  /\ IF ~made
     THEN StartFails /\ UNCHANGED <<rec, disk, mic>>
     ELSE /\ StartVoiceRecord(op.path, ok)
          /\ mic' = TRUE
          /\ ctl' = IF ok THEN [ctl EXCEPT !.native = TRUE, !.path = op.path, !.cap = TRUE] ELSE ctl
          /\ Awaits(IF ok THEN "start" ELSE "undo") /\ UNCHANGED page
  /\ UNCHANGED <<chain, asking, draft, sent, forgotten, used>>

CapturerStarted(ok) ==
  /\ Settles({"start"}, "start")
  /\ IF ok
     THEN ctl' = [ctl EXCEPT !.phase = "recording"] /\ Ends(TRUE, 0) /\ PageSees("recording")
     ELSE Awaits("undo") /\ UNCHANGED <<ctl, page>>
  /\ UNCHANGED <<rec, disk, chain, mic, asking, draft, sent, forgotten, used>>

\* The catch of startInternal, behind safeReleaseCapturer.
StartUndone ==
  /\ Settles({"start"}, "undo")
  /\ mic' = FALSE
  /\ DropRecording(op.path)
  /\ StartFails
  /\ UNCHANGED <<chain, asking, draft, sent, forgotten, used>>

\* capturer.stop() is settled, in stop or in a cancel; only stop minds that it failed.
CapturerStopped(ok) ==
  /\ Settles({"stop", "cancel", "failure"}, "stop")
  /\ op' = [op EXCEPT !.at = "release", !.failed = ~ok]
  /\ UNCHANGED <<rec, disk, ctl, chain, answers, mic, pageVars>>

\* Mutant: the native recorder is left running.
CancelReleasedKeepsNative ==
  /\ Settles({"cancel", "failure"}, "release")
  /\ mic' = FALSE
  /\ disk' = WithoutFile(disk, op.path) /\ UNCHANGED rec
  /\ ctl' = Cancelled(ctl, op.kind)
  /\ Ends(TRUE, 0)
  /\ UNCHANGED <<chain, pageVars>>

\* capturer.release() in a cancel.
CancelReleased ==
  /\ Settles({"cancel", "failure"}, "release")
  /\ mic' = FALSE
  /\ DropRecording(op.path)
  /\ ctl' = Cancelled(ctl, op.kind)
  /\ Ends(TRUE, 0)
  /\ UNCHANGED <<chain, pageVars>>

\* Mutant: a failed release of the capturer does not cost the file.
StopReleasedKeeps(ok, native) ==
  /\ Settles({"stop"}, "release")
  /\ mic' = FALSE
  /\ StopVoiceRecord(native)
  /\ LET good == ok /\ ~op.failed /\ ~ctl.failed /\ native /\ DurationSec > 0
     IN /\ ctl' = [ctl EXCEPT !.native = FALSE, !.path = 0, !.failed = FALSE, !.heard = 0,
                              !.phase = IF good THEN "idle" ELSE "error"]
        /\ PageSees(ctl'.phase)
        /\ Ends(good, IF good THEN op.path ELSE 0)
  /\ UNCHANGED <<chain, asking, draft, sent, forgotten, used>>

\* capturer.release() in stop, and the rest of it: the native recorder is stopped whatever
\* failed before, and the file is kept only if nothing has and it lasts a second.
StopReleased(ok, native) ==
  /\ Settles({"stop"}, "release")
  /\ mic' = FALSE
  /\ LET good == ok /\ ~op.failed /\ ~ctl.failed /\ native /\ DurationSec > 0
     IN /\ IF good THEN StopVoiceRecord(TRUE)
           ELSE rec' = Idle /\ disk' = WithoutFile(disk, op.path)
        /\ native => rec.active /\ rec.recorded > 0
        /\ ctl' = [ctl EXCEPT !.native = FALSE, !.path = 0, !.failed = FALSE, !.heard = 0,
                              !.phase = IF good THEN "idle" ELSE "error"]
        /\ PageSees(ctl'.phase)
        /\ Ends(good, IF good THEN op.path ELSE 0)
  /\ UNCHANGED <<chain, asking, draft, sent, forgotten, used>>

\* handleReadData, enqueuePcmFrame and the drain of the promise behind it: a buffer is written
\* at once; one that is refused fails the session, and its cleanup is scheduled once.
ReadData(samples, ok) ==
  /\ Calm /\ mic /\ ctl.cap /\ ctl.path # 0 /\ ctl.phase = "recording"
  /\ WriteVoiceFrame(samples, ok)
  /\ IF ok
     THEN ctl' = [ctl EXCEPT !.heard = @ + samples] /\ UNCHANGED <<chain, page>>
     ELSE /\ ctl' = [ctl EXCEPT !.heard = @ + samples, !.failed = TRUE, !.phase = "error",
                                !.scheduled = TRUE]
          /\ PageSees("error")
          /\ chain' = IF ctl.scheduled THEN chain ELSE Append(chain, Op("failure", 0, "none"))
  /\ UNCHANGED <<op, answers, mic, asking, draft, sent, forgotten, used>>

------------------------------------------------------------------------------
(* The page and its view model *)

\* clearPending(true) of the draft store.
ClearDraft == draft' = 0 /\ disk' = WithoutFile(disk, draft)

Enqueue(o) == chain' = Append(chain, o)

\* sendPendingVoiceNote: the draft goes to TDLib, if there is one and TDLib takes it.
SendDraft(d, taken) ==
  LET given == d # 0 /\ taken
  IN /\ sent' = IF given THEN sent \cup {d} ELSE sent
     /\ page' = IF page = "gone" THEN page ELSE IF given THEN "sending" ELSE "sendFailed"

\* releaseRecorderSession: what is being sent is not cleared.
Release == Op("cancel", 0, IF page = "sending" THEN "none" ELSE "clear")

\* The caller of an operation that has ended goes on: startRecorderSession,
\* stopAndSendRecording, cancelRecorderSession and releaseRecorderSession.
CallerContinues ==
  /\ answers # <<>> /\ (op.at # "idle" \/ chain = <<>>)
  /\ answers' = Tail(answers)
  /\ LET a == Head(answers)
     IN CASE a.after = "started" ->
               /\ page' = IF a.ok /\ page # "gone" THEN "recording"
                          ELSE IF page = "requesting" THEN "error" ELSE page
               /\ UNCHANGED <<draft, sent, disk, chain>>
          [] a.after = "stopped" /\ a.ok ->
               /\ draft' = a.path
               /\ \E taken \in BOOLEAN : SendDraft(a.path, taken)
               /\ UNCHANGED <<disk, chain>>
          [] a.after = "clear" -> ClearDraft /\ UNCHANGED <<page, sent, chain>>
          [] a.after = "clearAndReturn" ->
               /\ ClearDraft /\ UNCHANGED sent
               /\ page' = "gone"
               /\ chain' = IF page = "gone" THEN chain ELSE Append(chain, Release)
          [] OTHER -> UNCHANGED <<page, draft, sent, disk, chain>>
  /\ UNCHANGED <<rec, ctl, op, mic, asking, forgotten, used>>

TapStart ==
  /\ Calm /\ page = "idle" /\ ~asking /\ used < MaxStarts
  /\ page' = "requesting" /\ asking' = TRUE
  /\ UNCHANGED <<rec, disk, ctlVars, draft, sent, forgotten, used>>

\* requestMicrophonePermission goes on with the dialog's answer, page or no page.
PermissionAnswered(granted) ==
  /\ Calm /\ asking
  /\ asking' = FALSE
  /\ IF granted
     THEN /\ ClearDraft
          /\ used' = used + 1
          /\ Enqueue(Op("start", used + 1, "started")) /\ UNCHANGED page
     ELSE PageSees("error") /\ UNCHANGED <<disk, draft, used, chain>>
  /\ UNCHANGED <<rec, ctl, op, answers, mic, sent, forgotten>>

TapSend ==
  /\ Calm /\ page = "recording" /\ Len(chain) < MaxQueued
  /\ page' = "stopping"
  /\ Enqueue(Op("stop", 0, "stopped"))
  /\ UNCHANGED <<rec, disk, ctl, op, answers, mic, asking, draft, sent, forgotten, used>>

TapCancel ==
  /\ Calm /\ page = "recording" /\ Len(chain) < MaxQueued
  /\ Enqueue(Op("cancel", 0, "clearAndReturn"))
  /\ UNCHANGED <<rec, disk, ctl, op, answers, mic, pageVars>>

\* The primary action of an error, and of a send that failed.
TapReset ==
  /\ Calm /\ page = "error"
  /\ ClearDraft /\ page' = "idle"
  /\ UNCHANGED <<rec, ctlVars, asking, sent, forgotten, used>>

TapRetry ==
  /\ Calm /\ page = "sendFailed"
  /\ \E taken \in BOOLEAN : SendDraft(draft, taken)
  /\ UNCHANGED <<rec, disk, ctlVars, asking, draft, forgotten, used>>

\* aboutToDisappear, at any moment: back, swipe, or the redirect of a session that was revoked.
Leave ==
  /\ Calm /\ page # "gone"
  /\ page' = "gone"
  /\ Enqueue(Release)
  /\ UNCHANGED <<rec, disk, ctl, op, answers, mic, asking, draft, sent, forgotten, used>>

\* The page's listener hears of every message of its chat, whichever message it is and whatever
\* the page shows.  One that was sent: clearPending(false), and the page returns.
MessageSent ==
  /\ Calm /\ page # "gone"
  /\ draft' = 0 /\ forgotten' = forgotten \cup ({draft} \ (sent \cup {0}))
  /\ page' = "gone"
  /\ Enqueue(Release)
  /\ UNCHANGED <<rec, disk, ctl, op, answers, mic, asking, sent, used>>

\* One that TDLib refused: the recorder is left as it is.
MessageRefused ==
  /\ Calm /\ page # "gone"
  /\ page' = "sendFailed"
  /\ UNCHANGED <<rec, disk, ctlVars, asking, draft, sent, forgotten, used>>

\* The timer of a recording repeats its snapshot.
ElapsedTick ==
  /\ Calm /\ ctl.phase = "recording" /\ ctl.cap
  /\ PageSees("recording")
  /\ UNCHANGED <<rec, disk, ctlVars, asking, draft, sent, forgotten, used>>

Microtasks ==
  \/ BeginStart \/ BeginStop \/ BeginCancel("cancel") \/ BeginCancel("failure")
  \/ CallerContinues

Platform ==
  \/ \E a, b \in BOOLEAN : CapturerCreated(a, b) \/ StopReleased(a, b)
  \/ \E ok \in BOOLEAN : CapturerStarted(ok) \/ CapturerStopped(ok)
  \/ StartUndone \/ CancelReleased

Next ==
  \/ Microtasks \/ Platform
  \/ \E n \in Buffers, ok \in BOOLEAN : ReadData(n, ok)
  \/ TapStart \/ TapSend \/ TapCancel \/ TapReset \/ TapRetry
  \/ \E granted \in BOOLEAN : PermissionAnswered(granted)
  \/ Leave \/ MessageSent \/ MessageRefused \/ ElapsedTick

Spec == Init /\ [][Next]_vars

\* Promises have their turn, and the audio service settles those it gave out.
FairSpec == Spec /\ WF_vars(Microtasks) /\ WF_vars(Platform)

------------------------------------------------------------------------------
(* Properties *)

AtRest == op.at = "idle" /\ chain = <<>> /\ answers = <<>>

\* Between operations the controller's phase, its capturer and path, the microphone and the
\* native recorder agree, whatever was refused on the way: all of them record the same file,
\* or none of them does.
PhaseIsTruth ==
  AtRest => /\ mic <=> ctl.phase = "recording"
            /\ ctl.native <=> ctl.phase = "recording"
            /\ rec.active <=> ctl.phase = "recording"
            /\ ctl.phase = "recording" => ctl.cap /\ ctl.path # 0 /\ rec.path = ctl.path

\* Between operations no file is left behind: one that exists is being recorded, is the draft,
\* or was given to TDLib.  The exception is the code's: a draft TDLib has not taken is forgotten,
\* and its file stays, when another message of the chat is confirmed.
NoFileLeftBehind == AtRest => DOMAIN disk \subseteq {rec.path, draft} \cup sent \cup forgotten

\* A voice note that is handed over is whole: header and comment, then the pages of all its
\* packets with growing positions, the last and only the last marked as the end.
Whole(pages) ==
  /\ Len(pages) > 2 /\ SubSeq(pages, 1, 2) = HeaderPages
  /\ \A i \in 2..(Len(pages) - 1) : pages[i].granule < pages[i + 1].granule
  /\ \A i \in 1..Len(pages) : pages[i].last <=> i = Len(pages)
  /\ Len(pages) - 2 = (Last(pages).granule - Preskip + FrameSize - 1) \div FrameSize

HandedOverWhole ==
  \A p \in DOMAIN disk : p \in sent \cup {draft} => Whole(disk[p])

\* The end of the stream is where the microphone's samples end: none that the controller
\* heard is missing from a file it answers stop() with.
NothingLost ==
  [][\A p \in DOMAIN disk' : op.kind = "stop" /\ op'.kind = "none" /\ p = op.path =>
       Last(disk'[p]).granule = ctl.heard + Preskip]_vars

\* Both: a voice note the user sends is the recording, all of it, in a file a decoder accepts.
NoteIsWhole == []HandedOverWhole /\ NothingLost

\* A page that waits for its recording to stop is answered.
StoppingEnds == page = "stopping" ~> page # "stopping"

\* One recording session belongs to one page: once the page is gone and its operations are
\* done, nothing records.
RecordingHasPage == AtRest /\ page = "gone" => ctl.phase # "recording"
==============================================================================
