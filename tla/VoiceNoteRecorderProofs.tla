------------------------ MODULE VoiceNoteRecorderProofs ------------------------
(***************************************************************************)
(* Proofs about VoiceNoteRecorder, for every length of a frame, limit and  *)
(* preskip, set of buffer sizes and number of starts.                      *)
(*                                                                         *)
(* What the properties say of the moments between operations, or of a note *)
(* that is handed over, rests on what each await of the controller leaves  *)
(* behind it (the parts BetweenOps to InCancel), on there being one        *)
(* session and one note of the page at a time, whichever of its tokens     *)
(* stands for it (OneSession, PageFollows), and on the file being, frame   *)
(* by frame, what the recorder counts (FileFollows, Files).                *)
(***************************************************************************)
EXTENDS VoiceNoteRecorder, SequenceTheorems, TLAPS

-----------------------------------------------------------------------------
(* The inductive invariant *)

\* A page has one voice note at most.  There is one as soon as a stop has ended well and its
\* caller has the path to come.
HeldBy(a) == a.after = "stopped" /\ a.ok
Held == {answers[i].path : i \in {j \in 1..Len(answers) : HeldBy(answers[j])}}
Noted == Held # {} \/ draft # 0 \/ sent # {} \/ forgotten # {}

StartQueued == \E i \in 1..Len(chain) : chain[i].kind = "start"
StopQueued == \E i \in 1..Len(chain) : chain[i].kind = "stop"
CleanupQueued == \E i \in 1..Len(chain) : chain[i].kind = "failure"
Started == \E i \in 1..Len(answers) : answers[i].after = "started"
Starting == op.kind = "start" \/ StartQueued
Stopping == op.kind = "stop" \/ StopQueued

\* What an operation is followed by; the path of a start is one that was given out.
Shaped(o, last) ==
  /\ o.kind = "start" <=> o.after = "started"
  /\ o.kind = "stop" <=> o.after = "stopped"
  /\ o.kind = "start" => o.path \in 1..last

QueueInv ==
  /\ \A i \in 1..Len(chain) : Shaped(chain[i], used)
  /\ \A i, j \in 1..Len(chain) :
       chain[i].kind \in {"start", "stop"} /\ chain[j].kind \in {"start", "stop"} => i = j

AnswerInv ==
  /\ \A i, j \in 1..Len(answers) : HeldBy(answers[i]) /\ HeldBy(answers[j]) => i = j
  /\ \A i \in 1..Len(answers) : HeldBy(answers[i]) => answers[i].path # 0
  /\ \A i \in 1..Len(answers) : answers[i].after = "started" =>
       page \in IF answers[i].ok THEN {"recording", "gone"}
                ELSE {"requesting", "error", "gone"}

OpInv ==
  /\ Shaped(op, used)
  /\ op.kind = "none" => op = NoOp
  /\ op.kind = "start" => op.at \in {"create", "start", "undo"}
  /\ op.kind \in {"stop", "cancel", "failure"} => op.at \in {"stop", "release"}

\* One session at a time: a question, a start, its answer, a recording, a stop and a note
\* exclude each other where one would disturb the other.
OneSession ==
  /\ op.kind \in {"start", "stop"} => ~StartQueued /\ ~StopQueued
  /\ asking => ~Starting /\ ~Stopping /\ ~Started /\ ~Noted
  /\ Starting => ~Started /\ ~Noted
  /\ Started => ~Stopping /\ ~Noted
  /\ Stopping => ~Noted
  /\ ctl.phase = "recording" => ~asking /\ ~Starting /\ ~Noted
  /\ Held # {} => draft = 0 /\ sent = {} /\ forgotten = {}
  /\ asking => used < MaxStarts

\* What the page shows follows the session.
PageFollows ==
  /\ asking => page \in {"requesting", "sendFailed", "gone"}
  /\ Starting => page \in {"requesting", "sendFailed", "gone"}
  /\ ctl.phase = "recording" => page \in {"recording", "stopping", "sendFailed", "gone"}
  /\ Stopping => page \in {"stopping", "sendFailed", "gone"}
  /\ Noted => page \in {"stopping", "sending", "sendFailed", "gone"}
  /\ page = "sending" => draft \in sent \cup {0}

\* Where controller, capturer and native recorder stand, between operations and in each.
NativeRuns(path) == ctl.native /\ mic /\ path # 0 /\ rec.active /\ rec.path = path
NativeRests == ~ctl.native /\ ~mic /\ rec = Idle

Recording ==
  /\ ctl.phase = "recording" /\ ctl.cap /\ NativeRuns(ctl.path)
  /\ ~ctl.scheduled /\ ctl.heard = rec.recorded
Resting == ctl.phase \in {"idle", "error"} /\ ctl.path = 0 /\ NativeRests

\* A recording that failed: its cleanup is all there is to do.
Broken(path) ==
  ctl.phase = "error" /\ ctl.native /\ mic /\ path # 0 /\ (rec.active => rec.path = path)
CleanupNext == chain = <<Op("failure", 0, "none")>> /\ answers = <<>>
Failing == Broken(ctl.path) /\ ctl.cap /\ CleanupNext

BetweenOps == op.kind = "none" => Recording \/ Resting \/ Failing

InStart == op.kind = "start" =>
  /\ ctl.phase \in {"idle", "error"} /\ ~ctl.scheduled
  /\ op.at = "create" => Resting /\ ctl.heard = 0
  /\ op.at = "start" => ctl.cap /\ ctl.path = op.path
  /\ op.at # "create" =>
       \/ ctl.path = op.path /\ NativeRuns(op.path) /\ ctl.heard = 0 /\ rec.recorded = 0
       \/ ctl.path = 0 /\ ~ctl.native /\ rec = Idle

InStop ==
  /\ ctl.phase = "stopping" => op.kind = "stop"
  /\ op.kind = "stop" =>
       /\ ctl.phase = "stopping" /\ ~ctl.cap /\ ctl.path = op.path
       /\ NativeRuns(op.path) /\ ctl.heard = rec.recorded

InCancel ==
  /\ op.kind \in {"cancel", "failure"} =>
       /\ ~ctl.cap /\ ctl.path = 0
       /\ \/ NativeRests /\ op.path = 0 /\ ctl.phase \in {"idle", "error"}
          \/ ctl.phase = "recording" /\ NativeRuns(op.path)
          \/ Broken(op.path)
  /\ op.kind = "failure" => Broken(op.path)
  /\ CleanupQueued => op.kind = "none" /\ Failing

\* The pages of a recording of k full frames: the last packet waits for the next.
AtFrame(k) == k * FrameSize
MidPage(granule) == Page(granule, FALSE)
EndPage(granule) == Page(granule, TRUE)
FramePages(pages, k) ==
  /\ Len(pages) = IF k = 0 THEN 2 ELSE k + 1
  /\ pages[1] = MidPage(0) /\ pages[2] = MidPage(0)
  /\ \A i \in 3..Len(pages) : pages[i] = MidPage(AtFrame(i - 2))

Frames(r, pages) == \E k \in Nat :
  /\ r.granule = AtFrame(k) /\ r.total = r.granule /\ r.pending = r.granule
  /\ r.recorded = r.total + r.input /\ r.input < FrameSize
  /\ FramePages(pages, k)

\* The file that is being recorded, and there is no note beside it.
FileFollows ==
  /\ ~rec.active => rec = Idle
  /\ rec.active => rec.path \in DOMAIN disk /\ ~Noted /\ Frames(rec, disk[rec.path])

\* A file is the one being recorded or a note, and a note is whole.
Pages == Seq([granule : Nat, last : BOOLEAN])
Notes == sent \cup {draft} \cup Held \cup forgotten
Files ==
  /\ DOMAIN disk \subseteq 1..used
  /\ \A p \in DOMAIN disk : disk[p] \in Pages
  /\ DOMAIN disk \subseteq {rec.path} \cup Notes
  /\ \A p \in DOMAIN disk : p \in Notes => Whole(disk[p])

RecorderInv ==
  /\ RecorderTypeOK
  /\ QueueInv /\ AnswerInv /\ OpInv
  /\ OneSession /\ PageFollows
  /\ BetweenOps /\ InStart /\ InStop /\ InCancel
  /\ FileFollows /\ Files

-----------------------------------------------------------------------------
(* Facts about the queue of operations and the queue of answers *)

AnswerSet == [after : Afters, path : 0..MaxStarts, ok : BOOLEAN]
CtlSet == [phase : {"idle", "recording", "stopping", "error"}, cap : BOOLEAN,
           path : 0..MaxStarts, native : BOOLEAN, scheduled : BOOLEAN, failed : BOOLEAN,
           heard : Nat]
OpSet == [kind : {"none", "start", "stop", "cancel", "failure"},
          at : {"idle", "create", "start", "undo", "stop", "release"},
          path : 0..MaxStarts, after : Afters, failed : BOOLEAN]
RecSet == [active : BOOLEAN, path : 0..MaxStarts, input : Nat, recorded : 0..MaxSamples,
           total : Nat, granule : Nat, pending : Nat]
PageSet == {"idle", "requesting", "recording", "stopping", "sending", "sendFailed", "error",
            "gone"}

LEMMA TypeParts ==
  RecorderTypeOK <=>
    /\ rec \in RecSet /\ DOMAIN disk \subseteq 1..MaxStarts
    /\ ctl \in CtlSet /\ op \in OpSet
    /\ chain \in Seq(Ops) /\ answers \in Seq(AnswerSet)
    /\ mic \in BOOLEAN /\ asking \in BOOLEAN /\ page \in PageSet
    /\ draft \in 0..MaxStarts /\ used \in 0..MaxStarts
    /\ sent \subseteq 1..MaxStarts /\ forgotten \subseteq 1..MaxStarts
BY DEF RecorderTypeOK, RecSet, CtlSet, OpSet, AnswerSet, PageSet

LEMMA TypePartsNext ==
  RecorderTypeOK' <=>
    /\ rec' \in RecSet /\ DOMAIN disk' \subseteq 1..MaxStarts
    /\ ctl' \in CtlSet /\ op' \in OpSet
    /\ chain' \in Seq(Ops) /\ answers' \in Seq(AnswerSet)
    /\ mic' \in BOOLEAN /\ asking' \in BOOLEAN /\ page' \in PageSet
    /\ draft' \in 0..MaxStarts /\ used' \in 0..MaxStarts
    /\ sent' \subseteq 1..MaxStarts /\ forgotten' \subseteq 1..MaxStarts
BY DEF RecorderTypeOK, RecSet, CtlSet, OpSet, AnswerSet, PageSet

\* Afters and Ops are sets of the model; their members, one by one.
LEMMA OpTyped ==
  ASSUME NEW k \in {"start", "stop", "cancel", "failure"},
         NEW at \in {"idle", "create", "start", "undo", "stop", "release"},
         NEW p \in 0..MaxStarts, NEW after \in Afters, NEW failed \in BOOLEAN
  PROVE  [kind |-> k, at |-> at, path |-> p, after |-> after, failed |-> failed] \in OpSet
BY DEF OpSet

LEMMA Bounds ==
  /\ FrameSize \in Nat \ {0} /\ Second \in Nat \ {0} /\ MaxSamples \in Nat /\ Preskip \in Nat
  /\ Buffers \subseteq Nat \ {0} /\ MaxStarts \in Nat /\ MaxQueued \in Nat
BY RecorderAssumption, VoiceNoteAssumption

LEMMA Pushed ==
  ASSUME NEW S, NEW s \in Seq(S), NEW e \in S
  PROVE  /\ Append(s, e) \in Seq(S) /\ Len(s) \in Nat
         /\ Len(Append(s, e)) = Len(s) + 1
         /\ \A i \in 1..Len(s) : Append(s, e)[i] = s[i]
         /\ Append(s, e)[Len(s) + 1] = e
         /\ Append(s, e) # <<>>
OBVIOUS

LEMMA Popped ==
  ASSUME NEW S, NEW s \in Seq(S), s # <<>>
  PROVE  /\ Tail(s) \in Seq(S) /\ Head(s) \in S /\ Head(s) = s[1]
         /\ Len(s) \in Nat \ {0} /\ Len(Tail(s)) = Len(s) - 1
         /\ \A i \in 1..Len(Tail(s)) : Tail(s)[i] = s[i + 1]
<1>1. /\ Tail(s) \in Seq(S) /\ Head(s) \in S
      /\ Len(Tail(s)) = Len(s) - 1
      /\ \A i \in 1..Len(Tail(s)) : Tail(s)[i] = s[i + 1]
  BY HeadTailProperties
<1>2. Len(s) \in Nat \ {0}
  BY EmptySeq
<1>3. QED
  BY <1>1, <1>2

\* An operation is put behind the others.
LEMMA QueuePushed ==
  ASSUME chain \in Seq(Ops), QueueInv, NEW o \in Ops, chain' = Append(chain, o),
         used \in Nat, used' = used \/ used' = used + 1,
         Shaped(o, used'),
         o.kind \in {"start", "stop"} => ~StartQueued /\ ~StopQueued
  PROVE  /\ chain' \in Seq(Ops) /\ QueueInv'
         /\ StartQueued' <=> StartQueued \/ o.kind = "start"
         /\ StopQueued' <=> StopQueued \/ o.kind = "stop"
         /\ CleanupQueued' <=> CleanupQueued \/ o.kind = "failure"
<1>1. /\ chain' \in Seq(Ops) /\ Len(chain) \in Nat /\ Len(chain') = Len(chain) + 1
      /\ \A i \in 1..Len(chain) : chain'[i] = chain[i]
      /\ chain'[Len(chain) + 1] = o
  BY Pushed
<1>2. StartQueued' <=> StartQueued \/ o.kind = "start"
  BY <1>1 DEF StartQueued
<1>3. StopQueued' <=> StopQueued \/ o.kind = "stop"
  BY <1>1 DEF StopQueued
<1>4. CleanupQueued' <=> CleanupQueued \/ o.kind = "failure"
  BY <1>1 DEF CleanupQueued
<1>5. \A i \in 1..Len(chain') : Shaped(chain'[i], used')
  BY <1>1 DEF Shaped, QueueInv
<1>6. \A i, j \in 1..Len(chain') :
        chain'[i].kind \in {"start", "stop"} /\ chain'[j].kind \in {"start", "stop"} => i = j
  <2>1. o.kind \in {"start", "stop"} =>
          \A i \in 1..Len(chain) : chain[i].kind \notin {"start", "stop"}
    BY DEF StartQueued, StopQueued
  <2>2. \A i \in 1..Len(chain') : i \in 1..Len(chain) \/ i = Len(chain) + 1
    BY <1>1
  <2>3. QED
    BY <1>1, <2>1, <2>2 DEF QueueInv
<1>7. QED
  BY <1>1, <1>2, <1>3, <1>4, <1>5, <1>6 DEF QueueInv

\* The next operation is taken.
LEMMA QueuePopped ==
  ASSUME chain \in Seq(Ops), QueueInv, chain # <<>>, chain' = Tail(chain), used' = used
  PROVE  /\ chain' \in Seq(Ops) /\ QueueInv'
         /\ Next1 \in Ops /\ Shaped(Next1, used)
         /\ StartQueued' => StartQueued
         /\ StopQueued' => StopQueued
         /\ CleanupQueued' => CleanupQueued
         /\ Next1.kind \in {"start", "stop"} => ~StartQueued' /\ ~StopQueued'
         /\ Next1.kind = "start" => StartQueued
         /\ Next1.kind = "stop" => StopQueued /\ ~StartQueued
         /\ Next1.kind = "failure" => CleanupQueued
<1>1. /\ chain' \in Seq(Ops) /\ Next1 \in Ops /\ Next1 = chain[1]
      /\ Len(chain) \in Nat \ {0} /\ Len(chain') = Len(chain) - 1
      /\ \A i \in 1..Len(chain') : chain'[i] = chain[i + 1]
  BY Popped DEF Next1
<1>2. \A i \in 1..Len(chain') : i + 1 \in 1..Len(chain) /\ i + 1 # 1
  BY <1>1
<1>3. 1 \in 1..Len(chain)
  BY <1>1
<1>4. /\ StartQueued' => StartQueued
      /\ StopQueued' => StopQueued
      /\ CleanupQueued' => CleanupQueued
  BY <1>1, <1>2 DEF StartQueued, StopQueued, CleanupQueued
<1>5. /\ Next1.kind = "start" => StartQueued
      /\ Next1.kind = "stop" => StopQueued
      /\ Next1.kind = "failure" => CleanupQueued
  BY <1>1, <1>3 DEF StartQueued, StopQueued, CleanupQueued
<1>6. ASSUME Next1.kind \in {"start", "stop"}
      PROVE  \A i \in 1..Len(chain') : chain'[i].kind \notin {"start", "stop"}
  <2>1. SUFFICES ASSUME NEW i \in 1..Len(chain'), chain'[i].kind \in {"start", "stop"}
                 PROVE  FALSE
    OBVIOUS
  <2>2. i + 1 = 1
    BY <1>1, <1>2, <1>3, <1>6, <2>1 DEF QueueInv
  <2>3. QED
    BY <1>2, <2>2
<1>7. Next1.kind \in {"start", "stop"} => ~StartQueued' /\ ~StopQueued'
  BY <1>6 DEF StartQueued, StopQueued
<1>8. Shaped(Next1, used) /\ \A i \in 1..Len(chain') : Shaped(chain'[i], used')
  BY <1>1, <1>2, <1>3 DEF QueueInv
<1>9. \A i, j \in 1..Len(chain') :
        chain'[i].kind \in {"start", "stop"} /\ chain'[j].kind \in {"start", "stop"} => i = j
  <2>1. SUFFICES ASSUME NEW i \in 1..Len(chain'), NEW j \in 1..Len(chain'),
                        chain'[i].kind \in {"start", "stop"},
                        chain'[j].kind \in {"start", "stop"}
                 PROVE  i = j
    OBVIOUS
  <2>2. i + 1 = j + 1
    BY <1>1, <1>2, <2>1 DEF QueueInv
  <2>3. QED
    BY <2>2
<1>10. ASSUME Next1.kind = "stop" PROVE ~StartQueued
  <2>1. \A i \in 1..Len(chain) : chain[i].kind = "start" => i = 1
    BY <1>1, <1>3, <1>10 DEF QueueInv
  <2>2. QED
    BY <1>1, <1>10, <2>1 DEF StartQueued
<1>11. QED
  BY <1>1, <1>4, <1>5, <1>7, <1>8, <1>9, <1>10 DEF QueueInv

LEMMA QueueKept ==
  ASSUME chain' = chain, used' = used
  PROVE  /\ QueueInv => QueueInv'
         /\ StartQueued' <=> StartQueued
         /\ StopQueued' <=> StopQueued
         /\ CleanupQueued' <=> CleanupQueued
BY DEF QueueInv, StartQueued, StopQueued, CleanupQueued

\* An operation ends, and its caller will be told.
LEMMA AnswerPushed ==
  ASSUME answers \in Seq(AnswerSet), AnswerInv, NEW a \in AnswerSet,
         answers' = Append(answers, a),
         HeldBy(a) => Held = {} /\ a.path # 0,
         page' = page \/ answers = <<>> \/ page' = "gone" \/ ~Started,
         a.after = "started" =>
           page' \in IF a.ok THEN {"recording", "gone"} ELSE {"requesting", "error", "gone"}
  PROVE  /\ answers' \in Seq(AnswerSet) /\ AnswerInv'
         /\ Started' <=> Started \/ a.after = "started"
         /\ HeldBy(a) => Held' = {a.path}
         /\ ~HeldBy(a) => Held' = Held
<1>1. /\ answers' \in Seq(AnswerSet) /\ Len(answers) \in Nat
      /\ Len(answers') = Len(answers) + 1
      /\ \A i \in 1..Len(answers) : answers'[i] = answers[i]
      /\ answers'[Len(answers) + 1] = a
  BY Pushed
<1>2. Started' <=> Started \/ a.after = "started"
  BY <1>1 DEF Started
<1>3. \A i \in 1..Len(answers') : i \in 1..Len(answers) \/ i = Len(answers) + 1
  BY <1>1
<1>4. \A i \in 1..Len(answers) : i \in 1..Len(answers') /\ answers'[i] = answers[i]
  BY <1>1
<1>5. Len(answers) + 1 \in 1..Len(answers')
  BY <1>1
<1>6. ~HeldBy(a) => Held' = Held
  BY <1>1, <1>3, <1>4 DEF Held
<1>7. HeldBy(a) => \A i \in 1..Len(answers) : ~HeldBy(answers[i])
  BY DEF Held
<1>8. HeldBy(a) => Held' = {a.path}
  BY <1>1, <1>3, <1>4, <1>5, <1>7 DEF Held
<1>9. \A i, j \in 1..Len(answers') : HeldBy(answers'[i]) /\ HeldBy(answers'[j]) => i = j
  BY <1>1, <1>3, <1>7 DEF AnswerInv
<1>10. \A i \in 1..Len(answers') : HeldBy(answers'[i]) => answers'[i].path # 0
  BY <1>1, <1>3 DEF AnswerInv
<1>11. \A i \in 1..Len(answers') : answers'[i].after = "started" =>
         page' \in IF answers'[i].ok THEN {"recording", "gone"}
                   ELSE {"requesting", "error", "gone"}
  <2>1. answers = <<>> => 1..Len(answers) = {}
    OBVIOUS
  <2>2. \A i \in 1..Len(answers) : answers[i].after = "started" =>
          page' \in IF answers[i].ok THEN {"recording", "gone"}
                    ELSE {"requesting", "error", "gone"}
    BY <2>1 DEF AnswerInv, Started
  <2>3. QED
    BY <1>1, <1>3, <2>2
<1>12. QED
  BY <1>1, <1>2, <1>6, <1>8, <1>9, <1>10, <1>11 DEF AnswerInv, HeldBy

\* A caller goes on.
LEMMA AnswerPopped ==
  ASSUME answers \in Seq(AnswerSet), AnswerInv, answers # <<>>, answers' = Tail(answers),
         page' = page \/ page' = "gone" \/ (page = "requesting" /\ page' = "error") \/ ~Started'
  PROVE  /\ answers' \in Seq(AnswerSet) /\ AnswerInv'
         /\ Head(answers) \in AnswerSet
         /\ Head(answers).after = "started" => Started
         /\ Head(answers).after = "started" =>
              page \in IF Head(answers).ok THEN {"recording", "gone"}
                       ELSE {"requesting", "error", "gone"}
         /\ Started' => Started
         /\ HeldBy(Head(answers)) =>
              Head(answers).path # 0 /\ Held = {Head(answers).path} /\ Held' = {}
         /\ ~HeldBy(Head(answers)) => Held' = Held
<1> DEFINE a == Head(answers)
<1>1. /\ answers' \in Seq(AnswerSet) /\ a \in AnswerSet /\ a = answers[1]
      /\ Len(answers) \in Nat \ {0} /\ Len(answers') = Len(answers) - 1
      /\ \A i \in 1..Len(answers') : answers'[i] = answers[i + 1]
  BY Popped
<1>2. \A i \in 1..Len(answers') : i + 1 \in 1..Len(answers) /\ i + 1 # 1
  BY <1>1
<1>3. 1 \in 1..Len(answers)
  BY <1>1
<1>4. \A i \in 1..Len(answers) :
        i = 1 \/ (i - 1 \in 1..Len(answers') /\ answers'[i - 1] = answers[i])
  BY <1>1
<1> HIDE DEF a
<1>5. a.after = "started" => Started
  BY <1>1, <1>3 DEF Started
<1>6. a.after = "started" =>
        page \in IF a.ok THEN {"recording", "gone"} ELSE {"requesting", "error", "gone"}
  BY <1>1, <1>3 DEF AnswerInv
<1>7. Started' => Started
  BY <1>1, <1>2 DEF Started
<1>8. HeldBy(a) => \A i \in 1..Len(answers') : ~HeldBy(answers'[i])
  <2>1. SUFFICES ASSUME HeldBy(a), NEW i \in 1..Len(answers'), HeldBy(answers'[i])
                 PROVE  FALSE
    OBVIOUS
  <2>2. i + 1 = 1
    BY <1>1, <1>2, <1>3, <2>1 DEF AnswerInv
  <2>3. QED
    BY <1>2, <2>2
<1>9. HeldBy(a) => a.path # 0
  BY <1>1, <1>3 DEF AnswerInv
<1>10. HeldBy(a) => Held' = {}
  BY <1>8 DEF Held
<1>11. HeldBy(a) => Held = {a.path}
  <2>1. HeldBy(a) => \A i \in 1..Len(answers) : HeldBy(answers[i]) => i = 1
    BY <1>1, <1>3 DEF AnswerInv
  <2>2. QED
    BY <1>1, <1>3, <2>1 DEF Held
<1>12. ~HeldBy(a) => Held' = Held
  <2>1. \A i \in 1..Len(answers') : HeldBy(answers'[i]) =>
          \E j \in 1..Len(answers) : HeldBy(answers[j]) /\ answers[j].path = answers'[i].path
    BY <1>1, <1>2
  <2>2. ~HeldBy(a) => \A i \in 1..Len(answers) : HeldBy(answers[i]) =>
          \E j \in 1..Len(answers') : HeldBy(answers'[j]) /\ answers'[j].path = answers[i].path
    BY <1>1, <1>4
  <2>3. \A p : p \in Held <=> \E i \in 1..Len(answers) : HeldBy(answers[i]) /\ p = answers[i].path
    BY DEF Held
  <2>4. \A p : p \in Held' <=>
          \E i \in 1..Len(answers') : HeldBy(answers'[i]) /\ p = answers'[i].path
    BY DEF Held, HeldBy
  <2>5. ~HeldBy(a) => \A p : p \in Held' <=> p \in Held
    <3>1. SUFFICES ASSUME ~HeldBy(a), NEW p PROVE p \in Held' <=> p \in Held
      OBVIOUS
    <3>2. ASSUME p \in Held' PROVE p \in Held
      <4>1. PICK i \in 1..Len(answers') : HeldBy(answers'[i]) /\ p = answers'[i].path
        BY <2>4, <3>2
      <4>2. PICK j \in 1..Len(answers) : HeldBy(answers[j]) /\ answers[j].path = answers'[i].path
        BY <2>1, <4>1
      <4>3. QED
        BY <2>3, <4>1, <4>2
    <3>3. ASSUME p \in Held PROVE p \in Held'
      <4>1. PICK i \in 1..Len(answers) : HeldBy(answers[i]) /\ p = answers[i].path
        BY <2>3, <3>3
      <4>2. PICK j \in 1..Len(answers') : HeldBy(answers'[j]) /\ answers'[j].path = answers[i].path
        BY <2>2, <3>1, <4>1
      <4>3. QED
        BY <2>4, <4>1, <4>2
    <3>4. QED
      BY <3>2, <3>3
  <2>6. QED
    BY <2>5 DEF Held
<1>13. \A i, j \in 1..Len(answers') : HeldBy(answers'[i]) /\ HeldBy(answers'[j]) => i = j
  <2>1. SUFFICES ASSUME NEW i \in 1..Len(answers'), NEW j \in 1..Len(answers'),
                        HeldBy(answers'[i]), HeldBy(answers'[j])
                 PROVE  i = j
    OBVIOUS
  <2>2. i + 1 = j + 1
    BY <1>1, <1>2, <2>1 DEF AnswerInv
  <2>3. QED
    BY <2>2
<1>14. \A i \in 1..Len(answers') : HeldBy(answers'[i]) => answers'[i].path # 0
  BY <1>1, <1>2 DEF AnswerInv
<1>15. \A i \in 1..Len(answers') : answers'[i].after = "started" =>
         page' \in IF answers'[i].ok THEN {"recording", "gone"}
                   ELSE {"requesting", "error", "gone"}
  BY <1>1, <1>2 DEF AnswerInv, Started
<1>16. QED
  BY <1>1, <1>5, <1>6, <1>7, <1>9, <1>10, <1>11, <1>12, <1>13, <1>14, <1>15
  DEF AnswerInv, HeldBy, a

LEMMA AnswersKept ==
  ASSUME AnswerInv, answers' = answers,
         page' = page \/ answers = <<>> \/ page' = "gone" \/ ~Started
  PROVE  AnswerInv' /\ (Started' <=> Started) /\ Held' = Held
<1>1. answers = <<>> => 1..Len(answers) = {}
  OBVIOUS
<1>2. QED
  BY <1>1 DEF AnswerInv, Started, Held, HeldBy

\* A task of the event loop finds no answer waiting.
LEMMA CalmFacts ==
  ASSUME answers = <<>>
  PROVE  ~Started /\ Held = {}
BY DEF Started, Held

-----------------------------------------------------------------------------
(* Facts the actions share *)

LEMMA IdleFacts ==
  ASSUME RecorderInv
  PROVE  /\ op.at = "idle" => op = NoOp /\ op.kind = "none"
         /\ op.at # "idle" => op.kind # "none" /\ ~CleanupQueued
BY DEF RecorderInv, RecorderTypeOK, OpInv, InCancel, NoOp

\* When calm, only a failure just met keeps an operation from beginning.
LEMMA CalmIdle ==
  ASSUME RecorderInv, Calm
  PROVE  ~CleanupQueued /\ (op.kind = "none" => chain = <<>> /\ (Recording \/ Resting))
<1>1. op.kind = "none" => op.at = "idle"
  BY DEF RecorderInv, OpInv, NoOp
<1>2. op.kind = "none" => chain = <<>>
  BY <1>1 DEF Calm
<1>3. chain = <<>> => ~CleanupQueued
  BY DEF CleanupQueued
<1>4. chain = <<>> => ~CleanupNext
  BY DEF CleanupNext
<1>5. QED
  BY <1>1, <1>2, <1>3, <1>4, IdleFacts DEF Calm, RecorderInv, BetweenOps, Failing

LEMMA Without ==
  ASSUME NEW d, NEW p
  PROVE  /\ DOMAIN WithoutFile(d, p) = DOMAIN d \ {p}
         /\ \A q \in DOMAIN WithoutFile(d, p) : WithoutFile(d, p)[q] = d[q]
BY DEF WithoutFile

\* Files go, notes go, and none comes.
LEMMA FilesGo ==
  ASSUME Files, used \in Nat, used' = used \/ used' = used + 1,
         DOMAIN disk' \subseteq DOMAIN disk,
         \A p \in DOMAIN disk' : disk'[p] = disk[p],
         \A p \in DOMAIN disk' : p \in Notes' => p \in Notes,
         DOMAIN disk' \subseteq {rec'.path} \cup Notes'
  PROVE  Files'
<1>1. DOMAIN disk' \subseteq 1..used'
  BY DEF Files
<1>2. \A p \in DOMAIN disk' : disk'[p] \in Pages
  BY DEF Files
<1>3. \A p \in DOMAIN disk' : p \in Notes' => Whole(disk'[p])
  BY DEF Files
<1>4. QED
  BY <1>1, <1>2, <1>3 DEF Files, Pages, Whole

LEMMA FilesKept ==
  ASSUME RecorderInv, disk' = disk, rec' = rec, used' = used \/ used' = used + 1, Notes' = Notes
  PROVE  Files'
<1>1. used \in Nat
  BY Bounds DEF RecorderInv, RecorderTypeOK
<1>2. QED
  BY <1>1, FilesGo DEF RecorderInv, Files

LEMMA FileFollowsKept ==
  ASSUME FileFollows, disk' = disk, rec' = rec, rec.active => ~Noted'
  PROVE  FileFollows'
BY DEF FileFollows, Frames, FramePages

-----------------------------------------------------------------------------
(* The operations of the controller, up to their first await *)

LEMMA BeginStartKeeps ==
  ASSUME RecorderInv, BeginStart
  PROVE  RecorderInv'
<1>1. op = NoOp /\ op.kind = "none" /\ chain # <<>> /\ Next1.kind = "start"
  BY IdleFacts DEF BeginStart, Takes
<1>2. chain' = Tail(chain) /\ used' = used
  BY DEF BeginStart, Takes, pageVars
<1>3. /\ chain' \in Seq(Ops) /\ QueueInv' /\ Next1 \in Ops /\ Shaped(Next1, used)
      /\ CleanupQueued' => CleanupQueued
      /\ ~StartQueued' /\ ~StopQueued' /\ StartQueued
  BY <1>1, <1>2, QueuePopped DEF RecorderInv, RecorderTypeOK
<1>4. ~CleanupNext
  BY <1>1 DEF CleanupNext, Next1, Op
<1>5. ~CleanupQueued
  BY <1>4 DEF RecorderInv, InCancel, Failing
<1>6. ctl.phase \notin {"recording", "stopping"} /\ Resting
  BY <1>1, <1>3, <1>4
  DEF RecorderInv, OneSession, Starting, InStop, BetweenOps, Recording, Resting, Failing
<1>7. /\ op' = [kind |-> "start", at |-> "create", path |-> Next1.path,
                after |-> "started", failed |-> FALSE]
      /\ ctl' = [ctl EXCEPT !.scheduled = FALSE, !.failed = FALSE, !.heard = 0]
      /\ answers' = answers
      /\ UNCHANGED <<rec, disk, mic, page, asking, draft, sent, forgotten, used>>
      /\ Next1.path \in 1..used
  BY <1>1, <1>3, <1>6 DEF BeginStart, Taken, pageVars, Shaped
<1>8. AnswerInv' /\ (Started' <=> Started) /\ Held' = Held
  BY <1>7, AnswersKept DEF RecorderInv
<1>9. RecorderTypeOK'
  <2>1. Next1.path \in 0..MaxStarts
    BY <1>7, TypeParts, Bounds DEF RecorderInv
  <2>2. op' \in OpSet
    BY <1>7, <2>1, OpTyped DEF Afters
  <2>3. ctl' \in CtlSet
    BY <1>7, TypeParts DEF RecorderInv, CtlSet
  <2>4. QED
    BY <1>3, <1>7, <2>2, <2>3, TypeParts, TypePartsNext DEF RecorderInv
<1>10. OpInv'
  BY <1>7 DEF OpInv, Shaped
<1>11. OneSession' /\ PageFollows'
  BY <1>1, <1>3, <1>6, <1>7, <1>8
  DEF RecorderInv, RecorderTypeOK, OneSession, PageFollows, Starting, Stopping, Noted
<1>12. BetweenOps' /\ InStart' /\ InStop' /\ InCancel'
  BY <1>3, <1>5, <1>6, <1>7
  DEF RecorderInv, RecorderTypeOK, BetweenOps, InStart, InStop, InCancel, Resting, NativeRests
<1>13. Noted' = Noted /\ Notes' = Notes
  BY <1>7, <1>8 DEF Noted, Notes
<1>14. FileFollows' /\ Files'
  BY <1>7, <1>13, FilesKept, FileFollowsKept DEF RecorderInv, FileFollows
<1>15. QED
  BY <1>3, <1>8, <1>9, <1>10, <1>11, <1>12, <1>14 DEF RecorderInv

LEMMA BeginStopKeeps ==
  ASSUME RecorderInv, BeginStop
  PROVE  RecorderInv'
<1>1. op = NoOp /\ op.kind = "none" /\ chain # <<>> /\ Next1.kind = "stop"
  BY IdleFacts DEF BeginStop, Takes
<1>2. chain' = Tail(chain) /\ UNCHANGED <<rec, disk, mic, asking, draft, sent, forgotten, used>>
  BY DEF BeginStop, Takes
<1>3. /\ chain' \in Seq(Ops) /\ QueueInv' /\ Next1 \in Ops /\ Shaped(Next1, used)
      /\ CleanupQueued' => CleanupQueued
      /\ ~StartQueued' /\ ~StopQueued' /\ StopQueued /\ ~StartQueued
  BY <1>1, <1>2, QueuePopped DEF RecorderInv, RecorderTypeOK
<1>4. ~CleanupNext
  BY <1>1 DEF CleanupNext, Next1, Op
<1>5. ~CleanupQueued
  BY <1>4 DEF RecorderInv, InCancel, Failing
<1>6. Recording \/ Resting
  BY <1>1, <1>4 DEF RecorderInv, BetweenOps, Failing
<1>7. ~Started /\ Held = {} /\ ~asking /\ ~Starting /\ ~StartQueued /\ ~Noted
  <2>1. ~Starting /\ ~StartQueued /\ Stopping
    BY <1>1, <1>3 DEF Starting, Stopping
  <2>2. ~Started /\ ~asking /\ ~Noted
    BY <2>1 DEF RecorderInv, OneSession
  <2>3. QED
    BY <2>1, <2>2 DEF Noted
<1>a. page \in {"stopping", "sendFailed", "gone"} /\ page' \in {"stopping", "sendFailed", "gone"}
  BY <1>1, <1>3 DEF BeginStop, RecorderInv, PageFollows, PageSees, Stopping
<1>b. Next1.after = "stopped"
  BY <1>1, <1>3 DEF Shaped
<1>8. CASE ~ctl.cap \/ ctl.path = 0
  <2>1. UNCHANGED <<op, ctl>> /\ Answered(FALSE)
    BY <1>8 DEF BeginStop
  <2> DEFINE a == [after |-> Next1.after, path |-> 0, ok |-> FALSE]
  <2>2. a \in AnswerSet /\ answers' = Append(answers, a) /\ ~HeldBy(a) /\ a.after # "started"
    BY <1>b, <2>1, Bounds DEF AnswerSet, Answered, HeldBy, Afters
  <2> HIDE DEF a
  <2>3. answers' \in Seq(AnswerSet) /\ AnswerInv' /\ (Started' <=> Started) /\ Held' = Held
    BY <2>2, <1>7, AnswerPushed DEF RecorderInv, RecorderTypeOK, AnswerSet
  <2>4. RecorderTypeOK'
    BY SMTT(30), <1>2, <1>3, <1>a, <2>1, <2>3 DEF RecorderInv, RecorderTypeOK, AnswerSet
  <2>5. OpInv'
    BY <1>2, <2>1 DEF RecorderInv, OpInv, Shaped
  <2>6. Resting
    BY <1>6, <1>8 DEF Recording, NativeRuns
  <2>7. OneSession' /\ PageFollows'
    BY <1>1, <1>2, <1>3, <1>7, <1>a, <2>1, <2>3, <2>6
    DEF CtlSet, RecorderInv, OneSession, PageFollows, Starting, Stopping, Noted, Resting
  <2>8. BetweenOps' /\ InStart' /\ InStop' /\ InCancel'
    BY <1>1, <1>2, <1>3, <1>5, <2>1, <2>6
    DEF RecorderInv, BetweenOps, InStart, InStop, InCancel, Resting, NativeRests
  <2>9. Noted' = Noted /\ Notes' = Notes
    BY <1>2, <2>3 DEF Noted, Notes
  <2>10. FileFollows' /\ Files'
    BY <1>2, <2>9, FilesKept, FileFollowsKept DEF RecorderInv, FileFollows
  <2>11. QED
    BY <1>3, <2>3, <2>4, <2>5, <2>7, <2>8, <2>10 DEF RecorderInv
<1>9. CASE ctl.cap /\ ctl.path # 0
  <2>1. /\ op' = [kind |-> "stop", at |-> "stop", path |-> ctl.path,
                  after |-> "stopped", failed |-> FALSE]
        /\ ctl' = [ctl EXCEPT !.phase = "stopping", !.cap = FALSE]
        /\ answers' = answers
    BY <1>1, <1>9, <1>b DEF BeginStop, Taken
  <2>2. Recording
    BY <1>6, <1>9 DEF Resting
  <2>3. AnswerInv' /\ (Started' <=> Started) /\ Held' = Held
    BY <1>7, <2>1, AnswersKept DEF RecorderInv
  <2>4. RecorderTypeOK'
    BY <1>2, <1>3, <1>a, <2>1 DEF RecorderInv, RecorderTypeOK, Afters
  <2>5. OpInv'
    BY <2>1 DEF OpInv, Shaped
  <2>6. ctl \in CtlSet
    BY TypeParts DEF RecorderInv
  <2>7. OneSession' /\ PageFollows'
    BY <1>1, <1>2, <1>3, <1>7, <1>a, <2>1, <2>3, <2>6
    DEF CtlSet, RecorderInv, OneSession, PageFollows, Starting, Stopping, Noted
  <2>8. BetweenOps' /\ InStart' /\ InStop' /\ InCancel'
    BY <1>2, <1>3, <1>5, <1>9, <2>1, <2>2, <2>6
    DEF CtlSet, BetweenOps, InStart, InStop, InCancel, Recording, NativeRuns
  <2>9. Noted' = Noted /\ Notes' = Notes
    BY <1>2, <2>3 DEF Noted, Notes
  <2>10. FileFollows' /\ Files'
    BY <1>2, <2>9, FilesKept, FileFollowsKept DEF RecorderInv, FileFollows
  <2>11. QED
    BY <1>3, <2>3, <2>4, <2>5, <2>7, <2>8, <2>10 DEF RecorderInv
<1>10. QED
  BY <1>8, <1>9 DEF RecorderInv, RecorderTypeOK

LEMMA BeginCancelKeeps ==
  ASSUME RecorderInv, NEW kind \in {"cancel", "failure"}, BeginCancel(kind)
  PROVE  RecorderInv'
<1>1. op = NoOp /\ op.kind = "none" /\ chain # <<>> /\ Next1.kind = kind
  BY IdleFacts DEF BeginCancel, Takes
<1>2. /\ chain' = Tail(chain)
      /\ UNCHANGED <<mic, page, asking, draft, sent, forgotten, used>>
  BY DEF BeginCancel, Takes, pageVars
<1>3. /\ chain' \in Seq(Ops) /\ QueueInv' /\ Next1 \in Ops /\ Shaped(Next1, used)
      /\ CleanupQueued' => CleanupQueued
      /\ StartQueued' => StartQueued
      /\ StopQueued' => StopQueued
      /\ kind = "failure" => CleanupQueued
  BY <1>1, <1>2, QueuePopped DEF RecorderInv, RecorderTypeOK
<1>4. Next1.after \notin {"started", "stopped"}
  BY <1>1, <1>3 DEF Shaped
<1>5. ~CleanupQueued'
  <2>1. CleanupQueued => CleanupNext
    BY DEF RecorderInv, InCancel, Failing
  <2>2. CleanupNext => chain' = <<>>
    BY <1>2 DEF CleanupNext
  <2>3. chain' = <<>> => ~CleanupQueued'
    BY DEF CleanupQueued
  <2>4. QED
    BY <1>3, <2>1, <2>2, <2>3
<1>6. /\ Recording \/ Resting \/ Failing
      /\ kind = "failure" => Failing
      /\ kind = "cancel" => ~Failing
  <2>1. CleanupNext => Next1.kind = "failure"
    BY DEF CleanupNext, Next1, Op
  <2>2. QED
    BY <1>1, <1>3, <2>1 DEF RecorderInv, BetweenOps, InCancel, Failing
<1>7. ctl \in CtlSet
  BY TypeParts DEF RecorderInv
<1>11. 0 \in 0..MaxStarts /\ 0 \in Nat
  BY Bounds
<1> DEFINE c == [ctl EXCEPT !.heard = 0, !.failed = FALSE, !.cap = FALSE, !.path = 0]
<1>8. CASE ctl.cap
  <2>1. /\ op' = [kind |-> kind, at |-> "stop", path |-> ctl.path,
                  after |-> Next1.after, failed |-> FALSE]
        /\ ctl' = c
        /\ UNCHANGED <<answers, rec, disk>>
    BY <1>1, <1>8 DEF BeginCancel, Taken
  <2>2. AnswerInv' /\ (Started' <=> Started) /\ Held' = Held
    BY <1>2, <2>1, AnswersKept DEF RecorderInv
  <2>3. RecorderTypeOK'
    <3>1. ctl.path \in 0..MaxStarts /\ Next1.after \in Afters
      BY <1>3, <1>7 DEF CtlSet, Ops
    <3>2. op' \in OpSet
      BY <2>1, <3>1, OpTyped
    <3>3. ctl' \in CtlSet
      BY <1>7, <1>11, <2>1 DEF CtlSet
    <3>4. QED
      BY <1>2, <1>3, <2>1, <3>2, <3>3, TypeParts, TypePartsNext DEF RecorderInv
  <2>4. OpInv'
    BY <1>4, <2>1 DEF OpInv, Shaped
  <2>5. OneSession' /\ PageFollows'
    BY <1>1, <1>2, <1>3, <1>7, <2>1, <2>2
    DEF CtlSet, RecorderInv, OneSession, PageFollows, Starting, Stopping, Noted
  <2>6. BetweenOps' /\ InStart' /\ InStop' /\ InCancel'
    BY <1>1, <1>2, <1>5, <1>6, <1>7, <2>1
    DEF CtlSet, RecorderInv, BetweenOps, InStart, InStop, InCancel, Recording, Resting, Failing,
        NativeRuns, NativeRests, Broken
  <2>7. Noted' = Noted /\ Notes' = Notes
    BY <1>2, <2>2 DEF Noted, Notes
  <2>8. FileFollows' /\ Files'
    BY <1>2, <2>1, <2>7, FilesKept, FileFollowsKept DEF RecorderInv, FileFollows
  <2>9. QED
    BY <1>3, <2>2, <2>3, <2>4, <2>5, <2>6, <2>8 DEF RecorderInv
<1>9. CASE ~ctl.cap
  <2>1. Resting /\ kind = "cancel"
    BY <1>6, <1>9 DEF Recording, Failing
  <2>2. Answered(TRUE) /\ op' = op /\ DropRecording(ctl.path) /\ ctl' = Cancelled(c, kind)
    BY <1>9 DEF BeginCancel
  <2>3. /\ ctl' = [c EXCEPT !.native = FALSE, !.phase = "idle"]
        /\ rec' = rec
        /\ disk' = WithoutFile(disk, 0)
    BY <1>7, <2>1, <2>2 DEF CtlSet, Cancelled, DropRecording, Resting, NativeRests
  <2> DEFINE a == [after |-> Next1.after, path |-> 0, ok |-> TRUE]
  <2>4. a \in AnswerSet /\ answers' = Append(answers, a) /\ ~HeldBy(a) /\ a.after # "started"
    BY <1>3, <1>4, <2>2, Bounds DEF AnswerSet, Answered, HeldBy, Ops
  <2> HIDE DEF a
  <2>5. answers' \in Seq(AnswerSet) /\ AnswerInv' /\ (Started' <=> Started) /\ Held' = Held
    BY <1>2, <2>4, AnswerPushed DEF RecorderInv, RecorderTypeOK, AnswerSet
  <2>6. 0 \notin DOMAIN disk
    BY DEF RecorderInv, RecorderTypeOK
  <2>7. DOMAIN disk' = DOMAIN disk /\ \A p \in DOMAIN disk' : disk'[p] = disk[p]
    BY ZenonT(30), <2>3, <2>6, Without
  <2>8. RecorderTypeOK'
    <3>1. ctl' \in CtlSet
      BY <1>7, <1>11, <2>3 DEF CtlSet
    <3>2. QED
      BY <1>2, <1>3, <2>2, <2>3, <2>5, <2>7, <3>1, TypeParts, TypePartsNext DEF RecorderInv
  <2>9. OpInv'
    BY <1>2, <2>2 DEF RecorderInv, OpInv, Shaped
  <2>10. OneSession' /\ PageFollows'
    BY <1>1, <1>2, <1>3, <1>7, <2>2, <2>3, <2>5
    DEF RecorderInv, OneSession, PageFollows, Starting, Stopping, Noted, CtlSet
  <2>11. BetweenOps' /\ InStart' /\ InStop' /\ InCancel'
    BY <1>1, <1>2, <1>5, <1>7, <2>1, <2>2, <2>3
    DEF CtlSet, BetweenOps, InStart, InStop, InCancel, Resting, NativeRests
  <2>12. Noted' = Noted /\ Notes' = Notes
    BY <1>2, <2>5 DEF Noted, Notes
  <2>13. FileFollows'
    BY <2>1, <2>3 DEF FileFollows, Resting, NativeRests, Idle
  <2>14. Files'
    <3>1. used \in Nat
      BY Bounds DEF RecorderInv, RecorderTypeOK
    <3>2. QED
      BY <1>2, <2>3, <2>7, <2>12, <3>1, FilesGo DEF RecorderInv, Files
  <2>15. QED
    BY <1>3, <2>5, <2>8, <2>9, <2>10, <2>11, <2>13, <2>14 DEF RecorderInv
<1>10. QED
  BY <1>7, <1>8, <1>9 DEF CtlSet

-----------------------------------------------------------------------------
(* The file, frame by frame *)

LEMMA Divided ==
  ASSUME NEW F \in Nat \ {0}, NEW x \in Nat
  PROVE  x \div F \in Nat /\ (x \div F) * F <= x /\ x < (x \div F) * F + F
<1>1. x \div F \in Nat /\ (x \div F) * F <= x /\ x < ((x \div F) + 1) * F
  OBVIOUS
<1>2. \A q \in Nat : (q + 1) * F = q * F + F
  OBVIOUS
<1>3. QED
  BY <1>1, <1>2

\* A number that lies in the k-th frame divides to k.
LEMMA FrameNumber ==
  ASSUME NEW F \in Nat \ {0}, NEW k \in Nat \ {0}, NEW t \in Nat,
         (k - 1) * F < t, t <= k * F
  PROVE  (t + F - 1) \div F = k
<1>1. k * F = (k - 1) * F + F /\ (k + 1) * F = k * F + F
  OBVIOUS
<1>2. k * F \in Nat /\ (k - 1) * F \in Nat
  OBVIOUS
<1> DEFINE x == t + F - 1
           q == x \div F
<1>3. k * F <= x /\ x < (k + 1) * F /\ x \in Nat
  BY <1>1, <1>2
<1>4. q \in Nat /\ q * F <= x /\ x < (q + 1) * F
  BY <1>3
<1> HIDE DEF x, q
<1>5. q < k + 1
  <2>1. SUFFICES ASSUME q >= k + 1 PROVE FALSE
    BY <1>4
  <2>2. q * F >= (k + 1) * F
    BY <1>4, <2>1
  <2>3. q * F \in Nat /\ (k + 1) * F \in Nat
    BY <1>4
  <2>4. QED
    BY <1>3, <1>4, <2>2, <2>3
<1>6. k < q + 1
  <2>1. SUFFICES ASSUME k >= q + 1 PROVE FALSE
    BY <1>4
  <2>2. k * F >= (q + 1) * F
    BY <1>4, <2>1
  <2>3. k * F \in Nat /\ (q + 1) * F \in Nat
    BY <1>4
  <2>4. QED
    BY <1>3, <1>4, <2>2, <2>3
<1>7. q = k
  BY <1>4, <1>5, <1>6
<1>8. QED
  BY <1>7 DEF q, x

LEMMA FrameNat == \A k \in Nat : AtFrame(k) \in Nat
BY Bounds DEF AtFrame

LEMMA FrameZero == AtFrame(0) = 0 /\ \A k \in Nat : AtFrame(k) = 0 => k = 0
BY Bounds DEF AtFrame

LEMMA FrameNext == \A k \in Nat : AtFrame(k + 1) = AtFrame(k) + FrameSize
BY Bounds DEF AtFrame

LEMMA FrameSum == ASSUME NEW k \in Nat, NEW n \in Nat
                  PROVE  AtFrame(k + n) = AtFrame(k) + AtFrame(n)
BY Bounds DEF AtFrame

LEMMA NoPages == ASSUME NEW m \in Int, m <= 0, NEW f, DOMAIN f = 1..m, f = [i \in DOMAIN f |-> f[i]]
                 PROVE  f = <<>>
<1>1. 1..m = {}
  OBVIOUS
<1>2. f \in Seq({})
  <2>1. 1..0 = {}
    OBVIOUS
  <2>2. f \in [1..0 -> {}]
    BY <1>1, <2>1
  <2>3. QED
    BY <2>2, SeqDef
<1>3. Len(f) = 0
   BY <1>1, <1>2
<1>4. QED
  BY <1>2, <1>3, EmptySeq

PageType == [granule : Nat, last : BOOLEAN]

LEMMA PageTyped == ASSUME NEW g \in Nat
                   PROVE  /\ MidPage(g) \in PageType /\ EndPage(g) \in PageType
                          /\ MidPage(g).granule = g /\ ~MidPage(g).last
                          /\ EndPage(g).granule = g /\ EndPage(g).last
BY DEF Page, MidPage, EndPage, PageType

LEMMA HeaderIs == HeaderPages = <<MidPage(0), MidPage(0)>>
BY DEF HeaderPages, MidPage

LEMMA PagesDef == Pages = Seq(PageType)
BY DEF Pages, PageType

LEMMA HeaderFile == HeaderPages \in Pages /\ FramePages(HeaderPages, 0)
<1>1. MidPage(0) \in PageType
  BY PageTyped
<1>2. /\ HeaderPages \in Seq(PageType) /\ Len(HeaderPages) = 2
      /\ HeaderPages[1] = MidPage(0) /\ HeaderPages[2] = MidPage(0)
  BY <1>1, HeaderIs
<1>3. QED
  BY <1>2, PagesDef DEF FramePages

LEMMA PairOf == ASSUME NEW S, NEW s \in Seq(S), Len(s) = 2 PROVE s = <<s[1], s[2]>>
<1>1. 1 \in 1..Len(s) /\ 2 \in 1..Len(s)
  OBVIOUS
<1>2. s[1] \in S /\ s[2] \in S
  BY <1>1, ElementOfSeq
<1>3. <<s[1], s[2]>> \in Seq(S) /\ Len(<<s[1], s[2]>>) = 2
  BY <1>2
<1>4. QED
  BY <1>3, SeqEqual

\* The recorder's half of a state of the encoder, and the file's.
LEMMA NewPending ==
  \A a, b, v : [[rec |-> a, pages |-> b] EXCEPT !.rec.pending = v]
               = [rec |-> [a EXCEPT !.pending = v], pages |-> b]
OBVIOUS

LEMMA NewRec == \A a, b, v : [[rec |-> a, pages |-> b] EXCEPT !.rec = v] = [rec |-> v, pages |-> b]
OBVIOUS

LEMMA NewPages ==
  \A a, b, v : [[rec |-> a, pages |-> b] EXCEPT !.pages = v] = [rec |-> a, pages |-> v]
OBVIOUS

\* n frames more: the packet that waited and all of the new ones but the last are written.
LEMMA MoreFrames ==
  ASSUME NEW pages \in Pages, NEW k \in Nat, NEW n \in Nat \ {0}, FramePages(pages, k),
         NEW first, first = IF k = 0 THEN 1 ELSE 0,
         NEW more, more = [i \in 1..(n - first) |-> MidPage(AtFrame(k) + AtFrame(i - 1 + first))]
  PROVE  pages \o more \in Pages /\ FramePages(pages \o more, k + n)
<1>1. n - first \in Nat
  OBVIOUS
<1>2. ASSUME NEW i \in 1..(n - first)
      PROVE  /\ more[i] = MidPage(AtFrame(k + i - 1 + first))
             /\ more[i] \in PageType
  <2>1. i - 1 + first \in Nat
    BY <1>1
  <2>2. AtFrame(k) + AtFrame(i - 1 + first) = AtFrame(k + (i - 1 + first))
    BY <2>1, FrameSum
  <2>3. k + (i - 1 + first) = k + i - 1 + first /\ k + i - 1 + first \in Nat
    BY <2>1
  <2>4. AtFrame(k + i - 1 + first) \in Nat
    BY <2>3, FrameNat
  <2>5. QED
    BY <2>2, <2>3, <2>4, PageTyped
<1>3. more \in Seq(PageType) /\ Len(more) = n - first
  <2>1. more \in [1..(n - first) -> PageType]
    BY <1>2
  <2>2. QED
    BY <1>1, <2>1
<1>4. pages \in Seq(PageType)
  BY PagesDef
<1> DEFINE new == pages \o more
<1>5. /\ new \in Seq(PageType) /\ Len(new) = Len(pages) + Len(more)
      /\ \A i \in 1..Len(pages) : new[i] = pages[i]
      /\ \A i \in (Len(pages) + 1)..Len(new) : new[i] = more[i - Len(pages)]
  <2>1. /\ new \in Seq(PageType) /\ Len(new) = Len(pages) + Len(more)
        /\ \A i \in 1..(Len(pages) + Len(more)) :
             new[i] = IF i <= Len(pages) THEN pages[i] ELSE more[i - Len(pages)]
    BY <1>3, <1>4, ConcatProperties
  <2>2. Len(pages) \in Nat /\ Len(more) \in Nat
    BY <1>3, <1>4
  <2>3. QED
    BY <2>1, <2>2
<1> HIDE DEF new
<1>6. /\ Len(pages) = (IF k = 0 THEN 2 ELSE k + 1) /\ Len(new) = k + n + 1
      /\ k + n # 0 /\ k + n \in Nat
  BY <1>3, <1>5 DEF FramePages
<1>7. new[1] = MidPage(0) /\ new[2] = MidPage(0)
  BY <1>5, <1>6 DEF FramePages
<1>8. ASSUME NEW i \in 3..Len(new) PROVE new[i] = MidPage(AtFrame(i - 2))
  <2>1. CASE i <= Len(pages)
    <3>1. i \in 1..Len(pages) /\ i \in 3..Len(pages)
      BY <1>6, <2>1
    <3>2. QED
      BY <1>5, <3>1 DEF FramePages
  <2>2. CASE i > Len(pages)
    <3>1. i \in (Len(pages) + 1)..Len(new) /\ i - Len(pages) \in 1..(n - first)
      BY <1>3, <1>5, <1>6, <2>2
    <3>2. new[i] = MidPage(AtFrame(k + (i - Len(pages)) - 1 + first))
      BY <1>2, <1>5, <3>1
    <3>3. k + (i - Len(pages)) - 1 + first = i - 2
      BY <1>6, <3>1
    <3>4. QED
      BY <3>2, <3>3
  <2>3. QED
    BY <1>6, <2>1, <2>2
<1>9. QED
  BY <1>5, <1>6, <1>7, <1>8, PagesDef DEF FramePages, new

\* RecSet but for the limit, which a buffer is held against before.
CountedRec == [active : BOOLEAN, path : 0..MaxStarts, input : Nat, recorded : Nat,
               total : Nat, granule : Nat, pending : Nat]

\* A buffer is written: the file still follows the recorder.
LEMMA EncodedFollows ==
  ASSUME rec \in RecSet, disk[rec.path] \in Pages, Frames(rec, disk[rec.path]),
         NEW samples \in Nat
  PROVE  /\ Encoded(samples).pages \in Pages
         /\ Frames(Encoded(samples).rec, Encoded(samples).pages)
         /\ Encoded(samples).rec.active = rec.active
         /\ Encoded(samples).rec.path = rec.path
         /\ Encoded(samples).rec.recorded = rec.recorded + samples
         /\ Encoded(samples).rec \in CountedRec
         /\ rec.recorded + samples <= MaxSamples => Encoded(samples).rec \in RecSet
<1>1. PICK k \in Nat :
        /\ rec.granule = AtFrame(k) /\ rec.total = rec.granule /\ rec.pending = rec.granule
        /\ rec.recorded = rec.total + rec.input /\ rec.input < FrameSize
        /\ FramePages(disk[rec.path], k)
  BY DEF Frames
<1>2. PICK x : x = rec.input + samples
  OBVIOUS
<1>3. PICK n : n = x \div FrameSize
  OBVIOUS
<1>4. PICK first : first = IF rec.pending = 0 THEN 1 ELSE 0
  OBVIOUS
<1>5. PICK more : more = [i \in 1..(n - first) |->
                            MidPage(rec.pending + AtFrame(i - 1 + first))]
  OBVIOUS
<1>6. PICK r : r = [rec EXCEPT !.input = x - AtFrame(n), !.recorded = @ + samples,
                          !.total = @ + AtFrame(n), !.granule = rec.granule + AtFrame(n),
                          !.pending = IF n = 0 THEN @ ELSE rec.granule + AtFrame(n)]
  OBVIOUS
<1>7. Encoded(samples).rec = r /\ Encoded(samples).pages = disk[rec.path] \o more
  BY <1>2, <1>3, <1>4, <1>5, <1>6 DEF Encoded, AtFrame, MidPage
<1>8. x \in Nat /\ rec.input \in Nat /\ rec.recorded \in Nat
  BY <1>2, Bounds DEF RecSet
<1>9. n \in Nat /\ AtFrame(n) <= x /\ x < AtFrame(n) + FrameSize /\ AtFrame(n) \in Nat
  BY <1>3, <1>8, Divided, Bounds, FrameNat DEF AtFrame
<1>10. AtFrame(k) \in Nat /\ AtFrame(k + n) = AtFrame(k) + AtFrame(n)
  BY <1>9, FrameNat, FrameSum
<1>11. rec.pending = 0 <=> k = 0
  BY <1>1, FrameZero
<1>12. /\ r.active = rec.active /\ r.path = rec.path /\ r.recorded = rec.recorded + samples
       /\ r.input = x - AtFrame(n) /\ r.total = rec.total + AtFrame(n)
       /\ r.granule = rec.granule + AtFrame(n)
       /\ r.pending = IF n = 0 THEN rec.pending ELSE rec.granule + AtFrame(n)
  BY <1>6 DEF RecSet
<1>13. n = 0 => AtFrame(n) = 0
  BY FrameZero
<1>14. disk[rec.path] \o more \in Pages /\ FramePages(disk[rec.path] \o more, k + n)
  <2>1. CASE n = 0
    <3>1. n - first \in Int /\ n - first <= 0
      BY <1>4, <2>1
    <3>2. more = <<>>
      BY <1>5, <3>1, NoPages
    <3>3. disk[rec.path] \o more = disk[rec.path]
      BY <3>2, PagesDef
    <3>4. k + n = k
      BY <2>1
    <3>5. QED
      BY <1>1, <3>3, <3>4
  <2>2. CASE n # 0
    <3>1. first = IF k = 0 THEN 1 ELSE 0
      BY <1>4, <1>11
    <3>2. more = [i \in 1..(n - first) |->
                    MidPage(AtFrame(k) + AtFrame(i - 1 + first))]
      BY <1>1, <1>5
    <3>3. n \in Nat \ {0}
      BY <1>9, <2>2
    <3>4. QED
      BY ZenonT(30), <1>1, <3>1, <3>2, <3>3, MoreFrames
  <2>3. QED
    BY <2>1, <2>2
<1>15. /\ r.granule = AtFrame(k + n) /\ r.total = r.granule /\ r.pending = r.granule
       /\ r.recorded = r.total + r.input /\ r.input < FrameSize /\ k + n \in Nat
  <2>1. r.granule = AtFrame(k + n) /\ r.total = r.granule
    BY <1>1, <1>10, <1>12
  <2>2. r.pending = r.granule
    BY <1>1, <1>10, <1>12, <1>13
  <2>3. r.recorded = r.total + r.input
    BY <1>1, <1>2, <1>8, <1>9, <1>10, <1>12
  <2>4. r.input < FrameSize
    BY <1>8, <1>9, <1>12, Bounds
  <2>5. QED
    BY <1>9, <2>1, <2>2, <2>3, <2>4
<1>16. Frames(r, disk[rec.path] \o more)
  BY <1>14, <1>15 DEF Frames
<1>17. r \in CountedRec /\ (rec.recorded + samples <= MaxSamples => r \in RecSet)
  <2>1. /\ x - AtFrame(n) \in Nat /\ rec.recorded + samples \in Nat
        /\ rec.recorded + samples <= MaxSamples => rec.recorded + samples \in 0..MaxSamples
        /\ rec.total + AtFrame(n) \in Nat /\ rec.granule + AtFrame(n) \in Nat
    BY <1>1, <1>8, <1>9, <1>10, Bounds
  <2>2. QED
    BY <1>6, <2>1 DEF RecSet, CountedRec
<1>18. QED
  BY <1>7, <1>12, <1>14, <1>16, <1>17

\* EncodeFrame in one: the packet that waits is written, and this one waits.
LEMMA FrameEncoded ==
  ASSUME NEW r0, NEW pages, NEW n
  PROVE  EncodeFrame([rec |-> r0, pages |-> pages], n) =
           [rec |-> [r0 EXCEPT !.input = @ - n, !.total = @ + n,
                               !.granule = r0.granule + FrameSize,
                               !.pending = r0.granule + FrameSize],
            pages |-> IF r0.pending = 0 THEN pages ELSE Append(pages, MidPage(r0.pending))]
<1>1. PICK s : s = [rec |-> r0, pages |-> pages]
  OBVIOUS
<1>2. PICK flushed : flushed = IF r0.pending = 0 THEN pages ELSE Append(pages, MidPage(r0.pending))
  OBVIOUS
<1>3. PICK r : r = [r0 EXCEPT !.input = @ - n, !.total = @ + n,
                              !.granule = r0.granule + FrameSize,
                              !.pending = r0.granule + FrameSize]
  OBVIOUS
<1>4. CommitPendingPacket(s, FALSE) = [rec |-> r0, pages |-> flushed]
  <2>1. CommitPendingPacket(s, FALSE)
        = [s EXCEPT !.pages = IF s.rec.pending = 0 THEN s.pages
                              ELSE Append(s.pages, MidPage(s.rec.pending))]
    BY Zenon DEF CommitPendingPacket, MidPage
  <2>2. (IF s.rec.pending = 0 THEN s.pages ELSE Append(s.pages, MidPage(s.rec.pending))) = flushed
    BY <1>1, <1>2
  <2>3. CommitPendingPacket(s, FALSE) = [s EXCEPT !.pages = flushed]
    BY <2>1, <2>2, Zenon
  <2>4. QED
    BY <1>1, <2>3, NewPages
<1>5. PICK c : c = CommitPendingPacket(s, FALSE) /\ EncodeFrame(s, n)
             = [c EXCEPT !.rec = [s.rec EXCEPT !.input = @ - n, !.total = @ + n,
                                               !.granule = s.rec.granule + FrameSize,
                                               !.pending = s.rec.granule + FrameSize]]
  BY DEF EncodeFrame
<1>6. c = [rec |-> r0, pages |-> flushed]
  BY <1>4, <1>5, Zenon
<1>7. s.rec = r0
  BY <1>1
<1>8. EncodeFrame(s, n) = [c EXCEPT !.rec = r]
  BY <1>3, <1>5, <1>7
<1>9. EncodeFrame(s, n) = [rec |-> r, pages |-> flushed]
  BY <1>6, <1>8, NewRec
<1>10. QED
  BY <1>1, <1>2, <1>3, <1>9

\* The page of one frame more.
LEMMA OneMorePage ==
  ASSUME NEW pages \in Pages, NEW k \in Nat, FramePages(pages, k),
         NEW flushed, flushed = IF k = 0 THEN pages ELSE Append(pages, MidPage(AtFrame(k)))
  PROVE  flushed \in Pages /\ FramePages(flushed, k + 1)
<1>1. CASE k = 0
  <2>1. flushed = pages
    BY <1>1
  <2>2. Len(flushed) = 2 /\ flushed[1] = MidPage(0) /\ flushed[2] = MidPage(0)
    BY <1>1, <2>1 DEF FramePages
  <2>3. k + 1 # 0 /\ (k + 1) + 1 = 2 /\ 3..2 = {}
    BY <1>1
  <2>4. QED
    BY <2>1, <2>2, <2>3 DEF FramePages
<1>2. CASE k # 0
  <2>1. flushed = Append(pages, MidPage(AtFrame(k)))
    BY <1>2
  <2>2. MidPage(AtFrame(k)) \in PageType
    BY FrameNat, PageTyped
  <2>3. /\ flushed \in Seq(PageType) /\ Len(pages) \in Nat /\ Len(flushed) = Len(pages) + 1
        /\ \A i \in 1..Len(pages) : flushed[i] = pages[i]
        /\ flushed[Len(pages) + 1] = MidPage(AtFrame(k))
    BY <2>1, <2>2, Pushed, PagesDef
  <2>4. /\ Len(pages) = k + 1 /\ pages[1] = MidPage(0) /\ pages[2] = MidPage(0)
        /\ \A i \in 3..Len(pages) : pages[i] = MidPage(AtFrame(i - 2))
    BY <1>2 DEF FramePages
  <2>5. ASSUME NEW i \in 3..Len(flushed) PROVE flushed[i] = MidPage(AtFrame(i - 2))
    <3>1. CASE i = k + 2
      <4>1. i - 2 = k /\ i = Len(pages) + 1
        BY <2>4, <3>1
      <4>2. QED
        BY <2>3, <4>1
    <3>2. CASE i # k + 2
      <4>1. i \in 1..Len(pages) /\ i \in 3..Len(pages)
        BY <2>3, <2>4, <3>2
      <4>2. QED
        BY <2>3, <2>4, <4>1
    <3>3. QED
      BY <3>1, <3>2
  <2>6. /\ flushed[1] = MidPage(0) /\ flushed[2] = MidPage(0)
        /\ Len(flushed) = (k + 1) + 1 /\ k + 1 # 0
    BY <1>2, <2>3, <2>4
  <2>7. QED
    BY <2>3, <2>5, <2>6, PagesDef DEF FramePages
<1>3. QED
  BY <1>1, <1>2

\* The number of frames says what the pages are, and the number of samples the frames.
LEMMA PagesUnique ==
  ASSUME NEW p \in Pages, NEW q \in Pages, NEW k \in Nat, FramePages(p, k), FramePages(q, k)
  PROVE  p = q
<1>1. p \in Seq(PageType) /\ q \in Seq(PageType) /\ Len(p) = Len(q) /\ Len(p) \in Nat
  BY PagesDef DEF FramePages
<1>2. \A i \in 1..Len(p) : i = 1 \/ i = 2 \/ i \in 3..Len(p)
  BY <1>1
<1>3. \A i \in 1..Len(p) : p[i] = q[i]
  BY <1>1, <1>2 DEF FramePages
<1>4. QED
  BY <1>1, <1>3, SeqEqual

LEMMA FramesUnique ==
  ASSUME NEW m \in Nat, NEW k \in Nat, NEW i \in Nat, NEW j \in Nat,
         i < FrameSize, j < FrameSize, AtFrame(m) + i = AtFrame(k) + j
  PROVE  m = k
<1>1. ASSUME NEW a \in Nat, NEW b \in Nat, a < b PROVE AtFrame(a) + FrameSize <= AtFrame(b)
  <2>1. b - a - 1 \in Nat /\ b = a + ((b - a - 1) + 1)
    BY <1>1
  <2>2. AtFrame(b) = AtFrame(a) + AtFrame((b - a - 1) + 1)
    BY <2>1, FrameSum
  <2>3. AtFrame((b - a - 1) + 1) = AtFrame(b - a - 1) + FrameSize
    BY <2>1, FrameNext
  <2>4. AtFrame(b - a - 1) \in Nat /\ AtFrame(a) \in Nat /\ FrameSize \in Nat
    BY <2>1, FrameNat, Bounds
  <2>5. QED
    BY <2>2, <2>3, <2>4
<1>2. AtFrame(m) \in Nat /\ AtFrame(k) \in Nat /\ FrameSize \in Nat
  BY FrameNat, Bounds
<1>3. ~(m < k)
  BY <1>1, <1>2
<1>4. ~(k < m)
  BY <1>1, <1>2
<1>5. QED
  BY <1>3, <1>4

\* The closed form is the loop: a frame more is an EncodeFrame more, and less than a frame only
\* waits in the buffer.
THEOREM EncodedIsLoop ==
  ASSUME rec \in RecSet, disk[rec.path] \in Pages, Frames(rec, disk[rec.path]),
         NEW samples \in Nat
  PROVE  /\ rec.input + samples < FrameSize =>
              Encoded(samples) = [rec |-> [rec EXCEPT !.input = @ + samples,
                                                      !.recorded = @ + samples],
                                  pages |-> disk[rec.path]]
         /\ Encoded(samples + FrameSize) =
              EncodeFrame([rec |-> [Encoded(samples).rec EXCEPT !.input = @ + FrameSize,
                                                                !.recorded = @ + FrameSize],
                           pages |-> Encoded(samples).pages], FrameSize)
<1>1. samples + FrameSize \in Nat /\ FrameSize \in Nat \ {0}
  BY Bounds
<1>2. PICK e : e = Encoded(samples)
  OBVIOUS
<1>3. PICK f : f = Encoded(samples + FrameSize)
  OBVIOUS
<1>4. e = [rec |-> e.rec, pages |-> e.pages] /\ f = [rec |-> f.rec, pages |-> f.pages]
  BY <1>2, <1>3 DEF Encoded
<1>5. /\ e.pages \in Pages /\ Frames(e.rec, e.pages) /\ e.rec \in CountedRec
      /\ e.rec.active = rec.active /\ e.rec.path = rec.path
      /\ e.rec.recorded = rec.recorded + samples
  BY <1>2, EncodedFollows
<1>6. /\ f.pages \in Pages /\ Frames(f.rec, f.pages) /\ f.rec \in CountedRec
      /\ f.rec.active = rec.active /\ f.rec.path = rec.path
      /\ f.rec.recorded = rec.recorded + (samples + FrameSize)
  BY <1>1, <1>3, EncodedFollows
<1>7. PICK k \in Nat :
        /\ e.rec.granule = AtFrame(k) /\ e.rec.total = e.rec.granule
        /\ e.rec.pending = e.rec.granule /\ e.rec.input < FrameSize
        /\ e.rec.recorded = e.rec.total + e.rec.input
        /\ FramePages(e.pages, k)
  BY <1>5 DEF Frames
<1>8. PICK m \in Nat :
        /\ f.rec.granule = AtFrame(m) /\ f.rec.total = f.rec.granule
        /\ f.rec.pending = f.rec.granule /\ f.rec.input < FrameSize
        /\ f.rec.recorded = f.rec.total + f.rec.input
        /\ FramePages(f.pages, m)
  BY <1>6 DEF Frames
<1>9. PICK n \in Nat :
        /\ rec.granule = AtFrame(n) /\ rec.total = rec.granule
        /\ rec.pending = rec.granule /\ rec.input < FrameSize
        /\ rec.recorded = rec.total + rec.input
        /\ FramePages(disk[rec.path], n)
  BY DEF Frames
<1>10. /\ AtFrame(k) \in Nat /\ AtFrame(k + 1) = AtFrame(k) + FrameSize /\ AtFrame(n) \in Nat
       /\ AtFrame(m) \in Nat /\ rec.input \in Nat /\ rec.recorded \in Nat
       /\ e.rec.input \in Nat /\ f.rec.input \in Nat /\ k + 1 \in Nat
  BY <1>5, <1>6, FrameNat, FrameNext, Bounds DEF RecSet, CountedRec
<1>11. ASSUME rec.input + samples < FrameSize
       PROVE  e = [rec |-> [rec EXCEPT !.input = @ + samples, !.recorded = @ + samples],
                   pages |-> disk[rec.path]]
  <2>1. AtFrame(k) + e.rec.input = AtFrame(n) + (rec.input + samples)
    BY <1>5, <1>7, <1>9, <1>10
  <2>2. rec.input + samples \in Nat
    BY <1>10
  <2>3. k = n
    BY <1>7, <1>10, <1>11, <2>1, <2>2, FramesUnique
  <2>4. e.pages = disk[rec.path]
    BY <1>5, <1>7, <1>9, <2>3, PagesUnique
  <2>5. e.rec = [rec EXCEPT !.input = @ + samples, !.recorded = @ + samples]
    <3>1. e.rec.input = rec.input + samples
      BY <1>10, <2>1, <2>2, <2>3
    <3>2. QED
      BY ZenonT(30), <1>5, <1>7, <1>9, <2>3, <3>1 DEF RecSet, CountedRec
  <2>6. QED
    BY <1>4, <2>4, <2>5
<1>12. PICK r0 : r0 = [e.rec EXCEPT !.input = @ + FrameSize, !.recorded = @ + FrameSize]
  OBVIOUS
<1>13. PICK g : g = EncodeFrame([rec |-> r0, pages |-> e.pages], FrameSize)
  OBVIOUS
<1>14. g = [rec |-> [r0 EXCEPT !.input = @ - FrameSize, !.total = @ + FrameSize,
                               !.granule = r0.granule + FrameSize,
                               !.pending = r0.granule + FrameSize],
            pages |-> IF r0.pending = 0 THEN e.pages ELSE Append(e.pages, MidPage(r0.pending))]
  BY <1>13, FrameEncoded
<1>15. r0.pending = AtFrame(k) /\ (AtFrame(k) = 0 <=> k = 0)
  BY <1>5, <1>7, <1>12, FrameZero DEF CountedRec
<1>16. g.pages = IF k = 0 THEN e.pages ELSE Append(e.pages, MidPage(AtFrame(k)))
  BY <1>14, <1>15
<1>17. g.pages \in Pages /\ FramePages(g.pages, k + 1)
  BY <1>5, <1>7, <1>16, OneMorePage
<1>18. AtFrame(m) + f.rec.input = AtFrame(k + 1) + e.rec.input
  BY <1>1, <1>5, <1>6, <1>7, <1>8, <1>10
<1>19. m = k + 1
  BY <1>7, <1>8, <1>10, <1>18, FramesUnique
<1>20. f.rec.input = e.rec.input
  BY <1>10, <1>18, <1>19
<1>21. f.pages = g.pages
  BY <1>6, <1>8, <1>10, <1>17, <1>19, PagesUnique
<1>22. f.rec = g.rec
  <2>1. g.rec = [r0 EXCEPT !.input = @ - FrameSize, !.total = @ + FrameSize,
                           !.granule = r0.granule + FrameSize,
                           !.pending = r0.granule + FrameSize]
    BY <1>14
  <2>2. r0.input - FrameSize = e.rec.input
    BY <1>1, <1>5, <1>10, <1>12 DEF CountedRec
  <2>3. f.rec.recorded = e.rec.recorded + FrameSize
    BY <1>1, <1>5, <1>6, <1>10
  <2>4. /\ f.rec.total = e.rec.total + FrameSize /\ f.rec.granule = e.rec.granule + FrameSize
        /\ f.rec.pending = e.rec.granule + FrameSize
        /\ f.rec.active = e.rec.active /\ f.rec.path = e.rec.path
    BY <1>5, <1>6, <1>7, <1>8, <1>10, <1>19
  <2>5. r0 = [e.rec EXCEPT !.input = e.rec.input + FrameSize,
                           !.recorded = e.rec.recorded + FrameSize]
    BY <1>12
  <2>6. g.rec = [e.rec EXCEPT !.input = e.rec.input, !.recorded = e.rec.recorded + FrameSize,
                              !.total = e.rec.total + FrameSize,
                              !.granule = e.rec.granule + FrameSize,
                              !.pending = e.rec.granule + FrameSize]
    BY <1>5, <2>1, <2>2, <2>5 DEF CountedRec
  <2> DEFINE FieldsOf(r) == [active |-> r.active, path |-> r.path, input |-> r.input,
                          recorded |-> r.recorded, total |-> r.total,
                          granule |-> r.granule, pending |-> r.pending]
  <2>7. e.rec = FieldsOf(e.rec) /\ f.rec = FieldsOf(f.rec)
    BY <1>5, <1>6 DEF CountedRec
  <2>8. g.rec = [active |-> e.rec.active, path |-> e.rec.path, input |-> e.rec.input,
                 recorded |-> e.rec.recorded + FrameSize, total |-> e.rec.total + FrameSize,
                 granule |-> e.rec.granule + FrameSize, pending |-> e.rec.granule + FrameSize]
    BY <2>6, <2>7
  <2>9. QED
    BY <1>20, <2>3, <2>4, <2>7, <2>8
<1>23. f = g
  BY <1>4, <1>14, <1>21, <1>22
<1>24. QED
  BY <1>2, <1>3, <1>11, <1>12, <1>13, <1>23

\* A file of k + 1 frames that is closed with the packet that waited is whole.
LEMMA ClosedIsWhole ==
  ASSUME NEW pages \in Pages, NEW k \in Nat, FramePages(pages, k + 1), NEW t \in Nat,
         AtFrame(k) < t, t <= AtFrame(k + 1),
         NEW closed, closed = Append(pages, EndPage(t + Preskip))
  PROVE  closed \in Pages /\ Whole(closed) /\ Last(closed).granule = t + Preskip
<1>1. t + Preskip \in Nat /\ Preskip \in Nat /\ FrameSize \in Nat \ {0}
  BY Bounds
<1>2. /\ closed \in Seq(PageType) /\ Len(pages) \in Nat /\ Len(closed) = Len(pages) + 1
      /\ \A i \in 1..Len(pages) : closed[i] = pages[i]
      /\ closed[Len(pages) + 1] = EndPage(t + Preskip)
  <2>1. EndPage(t + Preskip) \in PageType
    BY <1>1, PageTyped
  <2>2. QED
    BY <2>1, Pushed, PagesDef
<1>3. /\ pages[1] = MidPage(0) /\ pages[2] = MidPage(0) /\ Len(pages) = k + 2
      /\ \A i \in 3..Len(pages) : pages[i] = MidPage(AtFrame(i - 2))
  <2>1. k + 1 # 0 /\ (k + 1) + 1 = k + 2
    OBVIOUS
  <2>2. QED
    BY <2>1 DEF FramePages
<1>4. Len(closed) = k + 3
  BY <1>2, <1>3
<1>5. closed[1] = MidPage(0) /\ closed[2] = MidPage(0)
  BY <1>2, <1>3
<1>6. \A i \in 3..(k + 2) : closed[i] = MidPage(AtFrame(i - 2))
  BY <1>2, <1>3
<1>7. Last(closed) = EndPage(t + Preskip) /\ closed[k + 3] = EndPage(t + Preskip)
  <2>1. Len(pages) + 1 = k + 3 /\ Len(closed) = k + 3
    BY <1>3, <1>4
  <2>2. QED
    BY <1>2, <2>1 DEF Last
<1>8. /\ EndPage(t + Preskip).granule = t + Preskip /\ EndPage(t + Preskip).last
      /\ MidPage(0).granule = 0 /\ ~MidPage(0).last
  BY <1>1, PageTyped
<1>9. SubSeq(closed, 1, 2) = HeaderPages
  <2>1. /\ SubSeq(closed, 1, 2) \in Seq(PageType) /\ Len(SubSeq(closed, 1, 2)) = 2
        /\ SubSeq(closed, 1, 2)[1] = closed[1] /\ SubSeq(closed, 1, 2)[2] = closed[2]
    BY <1>2, <1>4
  <2>2. SubSeq(closed, 1, 2) = <<closed[1], closed[2]>>
    BY <2>1, PairOf
  <2>3. QED
    BY <1>5, <2>2, HeaderIs
<1>10. \A i \in 2..(k + 2) : closed[i].granule = AtFrame(i - 2) /\ ~closed[i].last
  <2>1. ASSUME NEW i \in 3..(k + 2)
        PROVE  closed[i].granule = AtFrame(i - 2) /\ ~closed[i].last
    <3>1. i - 2 \in Nat
      OBVIOUS
    <3>2. AtFrame(i - 2) \in Nat
      BY <3>1, FrameNat
    <3>3. QED
      BY <1>6, <3>2, PageTyped
  <2>2. closed[2].granule = AtFrame(2 - 2) /\ ~closed[2].last
    <3>1. AtFrame(2 - 2) = 0
      BY FrameZero
    <3>2. QED
      BY <1>5, <1>8, <3>1
  <2>3. \A i \in 2..(k + 2) : i = 2 \/ i \in 3..(k + 2)
    OBVIOUS
  <2>4. QED
    BY <2>1, <2>2, <2>3
<1>11. ASSUME NEW i \in 2..(Len(closed) - 1) PROVE closed[i].granule < closed[i + 1].granule
  <2>0. i \in 2..(k + 2) /\ i - 2 \in Nat
    BY <1>4
  <2>1. CASE i = k + 2
    <3>1. i - 2 = k /\ i + 1 = k + 3
      BY <2>1
    <3>2. closed[i].granule = AtFrame(k) /\ closed[i + 1].granule = t + Preskip
      BY <1>7, <1>8, <1>10, <2>0, <3>1
    <3>3. AtFrame(k) \in Nat
      BY FrameNat
    <3>4. QED
      BY <1>1, <3>2, <3>3
  <2>2. CASE i # k + 2
    <3>1. i + 1 \in 2..(k + 2) /\ (i + 1) - 2 = (i - 2) + 1
      BY <2>0, <2>2
    <3>2. AtFrame((i - 2) + 1) = AtFrame(i - 2) + FrameSize /\ AtFrame(i - 2) \in Nat
      BY <2>0, FrameNext, FrameNat
    <3>3. /\ closed[i].granule = AtFrame(i - 2)
          /\ closed[i + 1].granule = AtFrame(i - 2) + FrameSize
      BY <1>10, <2>0, <3>1, <3>2
    <3>4. QED
      BY SMTT(30), <1>1, <3>2, <3>3
  <2>3. QED
    BY <2>1, <2>2
<1>12. \A i \in 1..Len(closed) : closed[i].last <=> i = Len(closed)
  <2>1. \A i \in 1..Len(closed) : i = 1 \/ i \in 2..(k + 2) \/ i = k + 3
    BY <1>4
  <2>2. \A i \in 2..(k + 2) : i # k + 3
    OBVIOUS
  <2>3. ~closed[1].last /\ closed[k + 3].last /\ 1 # k + 3
    BY <1>5, <1>7, <1>8
  <2>4. QED
    BY <1>4, <1>10, <2>1, <2>2, <2>3
<1>13. Len(closed) - 2 = (Last(closed).granule - Preskip + FrameSize - 1) \div FrameSize
  <2>1. Last(closed).granule - Preskip + FrameSize - 1 = t + FrameSize - 1
    BY <1>1, <1>7, <1>8
  <2>2. k * FrameSize < t /\ t <= (k + 1) * FrameSize /\ (k + 1) - 1 = k /\ k + 1 \in Nat \ {0}
    BY DEF AtFrame
  <2>3. (t + FrameSize - 1) \div FrameSize = k + 1
    BY <1>1, <2>2, FrameNumber
  <2>4. Len(closed) - 2 = k + 1
    BY <1>4
  <2>5. QED
    BY <2>1, <2>3, <2>4
<1>14. Len(closed) > 2
  BY <1>4
<1>15. QED
  BY <1>2, <1>7, <1>8, <1>9, <1>11, <1>12, <1>13, <1>14, PagesDef DEF Whole

\* What is stopped with audio in it leaves a whole file, up to the last sample.
LEMMA FinishedIsWhole ==
  ASSUME rec \in RecSet, disk[rec.path] \in Pages, Frames(rec, disk[rec.path]), rec.recorded > 0
  PROVE  /\ Finished.pages \in Pages /\ Whole(Finished.pages)
         /\ Last(Finished.pages).granule = rec.recorded + Preskip
<1>1. PICK k \in Nat :
        /\ rec.granule = AtFrame(k) /\ rec.total = rec.granule /\ rec.pending = rec.granule
        /\ rec.recorded = rec.total + rec.input /\ rec.input < FrameSize
        /\ FramePages(disk[rec.path], k)
  BY DEF Frames
<1>2. /\ AtFrame(k) \in Nat /\ AtFrame(k + 1) = AtFrame(k) + FrameSize /\ FrameSize \in Nat
      /\ rec.input \in Nat /\ rec.recorded \in Nat /\ Preskip \in Nat
  BY FrameNat, FrameNext, Bounds DEF RecSet
<1>3. rec.pending = 0 <=> k = 0
  BY <1>1, FrameZero
<1>4. rec.recorded + Preskip \in Nat /\ rec.recorded + Preskip # 0
  BY <1>2
<1>5. CASE rec.input = 0
  <2>1. Drained = [rec |-> rec, pages |-> disk[rec.path]]
    BY <1>5 DEF Drained
  <2>2. rec.total + Preskip = rec.recorded + Preskip
    BY <1>1, <1>2, <1>5
  <2>3. PICK r : r = [rec EXCEPT !.pending = rec.recorded + Preskip]
    OBVIOUS
  <2>4. Finished = CommitPendingPacket([rec |-> r, pages |-> disk[rec.path]], TRUE)
    <3>1. Drained.rec.total + Preskip = rec.recorded + Preskip
      BY <2>1, <2>2
    <3>2. [Drained EXCEPT !.rec.pending = rec.recorded + Preskip]
          = [rec |-> r, pages |-> disk[rec.path]]
      BY <2>1, <2>3, NewPending
    <3>3. QED
      BY <3>1, <3>2 DEF Finished
  <2>5. r.pending = rec.recorded + Preskip
    BY <2>3 DEF RecSet
  <2>6. Finished.pages = Append(disk[rec.path], EndPage(rec.recorded + Preskip))
    BY <1>4, <2>4, <2>5 DEF CommitPendingPacket, EndPage
  <2>7. k # 0 /\ k - 1 \in Nat /\ k = (k - 1) + 1
    BY <1>1, <1>2, <1>5, FrameZero
  <2>8. AtFrame(k) = AtFrame(k - 1) + FrameSize /\ AtFrame(k - 1) \in Nat
    BY <2>7, FrameNext, FrameNat
  <2>9. AtFrame(k - 1) < rec.recorded /\ rec.recorded <= AtFrame((k - 1) + 1)
    BY <1>1, <1>2, <1>5, <2>7, <2>8, Bounds
  <2>10. FramePages(disk[rec.path], (k - 1) + 1)
    BY <1>1, <2>7
  <2>11. QED
    BY <1>2, <2>6, <2>7, <2>9, <2>10, ClosedIsWhole
<1>6. CASE rec.input # 0
  <2>1. PICK flushed : flushed = IF rec.pending = 0 THEN disk[rec.path]
                                 ELSE Append(disk[rec.path], MidPage(rec.pending))
    OBVIOUS
  <2>2. PICK r : r = [rec EXCEPT !.input = @ - rec.input, !.total = @ + rec.input,
                                 !.granule = rec.granule + FrameSize,
                                 !.pending = rec.granule + FrameSize]
    OBVIOUS
  <2>3. Drained = [rec |-> r, pages |-> flushed]
    <3>1. PICK s : s = [rec |-> rec, pages |-> disk[rec.path]]
      OBVIOUS
    <3>2. EncodeFrame(s, rec.input) = [rec |-> r, pages |-> flushed]
      BY <2>1, <2>2, <3>1, FrameEncoded
    <3>3. QED
      BY <1>6, <3>1, <3>2 DEF Drained
  <2>4. r.total + Preskip = rec.recorded + Preskip
    BY <1>1, <1>2, <2>2 DEF RecSet
  <2>5. PICK u : u = [r EXCEPT !.pending = rec.recorded + Preskip]
    OBVIOUS
  <2>6. Finished = CommitPendingPacket([rec |-> u, pages |-> flushed], TRUE)
    <3>1. Drained.rec.total + Preskip = rec.recorded + Preskip
      BY <2>3, <2>4
    <3>2. [Drained EXCEPT !.rec.pending = rec.recorded + Preskip]
          = [rec |-> u, pages |-> flushed]
      BY <2>3, <2>5, NewPending
    <3>3. QED
      BY <3>1, <3>2 DEF Finished
  <2>7. u.pending = rec.recorded + Preskip
    BY <2>2, <2>5 DEF RecSet
  <2>8. Finished.pages = Append(flushed, EndPage(rec.recorded + Preskip))
    BY <1>4, <2>6, <2>7 DEF CommitPendingPacket, EndPage
  <2>9. flushed \in Pages /\ FramePages(flushed, k + 1)
    BY <1>1, <1>3, <2>1, OneMorePage
  <2>10. AtFrame(k) < rec.recorded /\ rec.recorded <= AtFrame(k + 1)
    BY <1>1, <1>2, <1>6
  <2>11. QED
    BY <1>2, <2>8, <2>9, <2>10, ClosedIsWhole
<1>7. QED
  BY <1>5, <1>6

-----------------------------------------------------------------------------
(* The operations behind their awaits *)

LEMMA SettleFacts ==
  ASSUME RecorderInv, NEW kinds, NEW at, Settles(kinds, at)
  PROVE  /\ op.kind \in kinds /\ op.at = at /\ answers = <<>>
         /\ ~Started /\ Held = {}
         /\ op.kind # "none" => ~CleanupQueued
<1>1. op.kind \in kinds /\ op.at = at /\ answers = <<>>
  BY DEF Settles, Calm
<1>2. op.kind # "none" => op.at # "idle"
  BY DEF RecorderInv, RecorderTypeOK, OpInv
<1>3. QED
  BY <1>1, <1>2, CalmFacts, IdleFacts

\* An operation ends with an answer for its caller.
LEMMA EndFacts ==
  ASSUME RecorderInv, answers = <<>>, NEW ok \in BOOLEAN, NEW path \in 0..MaxStarts,
         Ends(ok, path),
         op.after = "stopped" /\ ok => path # 0,
         op.after = "started" =>
           page' \in IF ok THEN {"recording", "gone"} ELSE {"requesting", "error", "gone"}
  PROVE  /\ op' = NoOp /\ op'.kind = "none" /\ OpInv' /\ op' \in OpSet
         /\ answers' \in Seq(AnswerSet) /\ AnswerInv'
         /\ Started' <=> op.after = "started"
         /\ Held' = IF op.after = "stopped" /\ ok THEN {path} ELSE {}
<1> DEFINE a == [after |-> op.after, path |-> path, ok |-> ok]
<1>1. op \in OpSet /\ answers \in Seq(AnswerSet) /\ AnswerInv
  BY TypeParts DEF RecorderInv
<1>2. a \in AnswerSet /\ answers' = Append(answers, a) /\ op' = NoOp
  BY <1>1 DEF Ends, AnswerSet, OpSet
<1>3. /\ HeldBy(a) <=> op.after = "stopped" /\ ok
      /\ a.after = op.after /\ a.path = path /\ a.ok = ok
  BY DEF HeldBy
<1> HIDE DEF a
<1>4. ~Started /\ Held = {}
  BY CalmFacts
<1>5. HeldBy(a) => Held = {} /\ a.path # 0
  BY <1>3, <1>4
<1>6. a.after = "started" =>
        page' \in IF a.ok THEN {"recording", "gone"} ELSE {"requesting", "error", "gone"}
  BY <1>3
<1>7. /\ answers' \in Seq(AnswerSet) /\ AnswerInv'
      /\ Started' <=> Started \/ a.after = "started"
      /\ HeldBy(a) => Held' = {a.path}
      /\ ~HeldBy(a) => Held' = Held
  BY <1>1, <1>2, <1>5, <1>6, AnswerPushed
<1>8. op'.kind = "none" /\ OpInv'
  BY <1>2 DEF NoOp, OpInv, Shaped
<1>9. op' \in OpSet
  BY <1>2, Bounds DEF NoOp, OpSet, Afters
<1>10. QED
  BY <1>2, <1>3, <1>4, <1>7, <1>8, <1>9

\* What a start that runs knows of the rest.
LEMMA StartFacts ==
  ASSUME RecorderInv, op.kind = "start"
  PROVE  /\ op.after = "started" /\ op.path \in 1..used /\ op.path \in 1..MaxStarts
         /\ ~StartQueued /\ ~StopQueued /\ ~asking /\ ~Started /\ ~Noted
         /\ page \in {"requesting", "sendFailed", "gone"}
         /\ ctl.phase \in {"idle", "error"} /\ ~ctl.scheduled
         /\ Held = {} /\ Notes = {0} /\ draft = 0 /\ sent = {} /\ forgotten = {}
<1>1. Starting
  BY DEF Starting
<1>2. op.after = "started" /\ op.path \in 1..used /\ op.path \in 1..MaxStarts
  BY Bounds DEF RecorderInv, RecorderTypeOK, OpInv, Shaped
<1>3. ~StartQueued /\ ~StopQueued /\ ~asking /\ ~Started /\ ~Noted
  BY <1>1 DEF RecorderInv, OneSession
<1>4. page \in {"requesting", "sendFailed", "gone"}
  BY <1>1 DEF RecorderInv, PageFollows
<1>5. ctl.phase \in {"idle", "error"} /\ ~ctl.scheduled
  BY DEF RecorderInv, InStart
<1>6. Held = {} /\ draft = 0 /\ sent = {} /\ forgotten = {}
  BY <1>3 DEF Noted
<1>7. Notes = {0}
  BY <1>6 DEF Notes
<1>8. QED
  BY <1>2, <1>3, <1>4, <1>5, <1>6, <1>7

LEMMA StartFailsKeeps ==
  ASSUME RecorderInv, op.kind = "start", answers = <<>>, StartFails,
         UNCHANGED <<chain, asking, draft, sent, forgotten, used>>,
         rec' = Idle, mic' = FALSE,
         DOMAIN disk' \subseteq DOMAIN disk \ {rec.path}, \A p \in DOMAIN disk' : disk'[p] = disk[p]
  PROVE  RecorderInv'
<1>1. /\ op.after = "started"
      /\ ~StartQueued /\ ~StopQueued /\ ~asking /\ ~Noted
      /\ page \in {"requesting", "sendFailed", "gone"} /\ ~CleanupQueued
      /\ Held = {} /\ Notes = {0} /\ draft = 0 /\ sent = {} /\ forgotten = {}
  BY StartFacts, IdleFacts DEF RecorderInv, OpInv
<1>2. page' \in {"error", "gone"}
  BY DEF StartFails, PageSees
<1>3. 0 \in 0..MaxStarts /\ 0 \in Nat /\ used \in Nat
  BY Bounds DEF RecorderInv, RecorderTypeOK
<1>4. /\ op' = NoOp /\ op'.kind = "none" /\ OpInv' /\ op' \in OpSet
      /\ answers' \in Seq(AnswerSet) /\ AnswerInv' /\ Started' /\ Held' = {}
  BY <1>1, <1>2, <1>3, EndFacts DEF StartFails
<1>5. ctl \in CtlSet
  BY TypeParts DEF RecorderInv
<1>6. ctl' \in CtlSet /\ ctl'.phase = "error" /\ ctl'.path = 0 /\ ~ctl'.native
  BY <1>3, <1>5 DEF StartFails, CtlSet
<1>7. rec' \in RecSet
  BY Bounds DEF RecSet, Idle
<1>8. QueueInv' /\ ~StartQueued' /\ ~StopQueued' /\ ~CleanupQueued'
  BY <1>1, QueueKept DEF RecorderInv
<1>9. RecorderTypeOK'
  BY <1>2, <1>4, <1>6, <1>7, TypeParts, TypePartsNext DEF RecorderInv, PageSet
<1>10. ~Noted' /\ Notes' = {0}
  BY <1>1, <1>4 DEF Noted, Notes
<1>11. OneSession' /\ PageFollows'
  BY <1>1, <1>2, <1>4, <1>6, <1>8, <1>10 DEF OneSession, PageFollows, Starting, Stopping
<1>12. BetweenOps' /\ InStart' /\ InStop' /\ InCancel'
  BY <1>4, <1>6, <1>8 DEF BetweenOps, InStart, InStop, InCancel, Resting, NativeRests
<1>13. FileFollows'
  BY DEF FileFollows, Idle
<1>14. Files'
  <2>1. DOMAIN disk' \subseteq {rec'.path} \cup Notes'
    BY <1>1, <1>10 DEF RecorderInv, Files
  <2>2. QED
    BY <1>1, <1>3, <1>10, <2>1, FilesGo DEF RecorderInv
<1>15. QED
  BY <1>4, <1>8, <1>9, <1>11, <1>12, <1>13, <1>14 DEF RecorderInv

LEMMA CapturerCreatedKeeps ==
  ASSUME RecorderInv, NEW made \in BOOLEAN, NEW ok \in BOOLEAN, CapturerCreated(made, ok)
  PROVE  RecorderInv'
<1>1. op.kind = "start" /\ op.at = "create" /\ answers = <<>> /\ ~CleanupQueued
  BY SettleFacts DEF CapturerCreated
<1>2. /\ op.after = "started" /\ op.path \in 1..used /\ op.path \in 1..MaxStarts
      /\ ~StartQueued /\ ~StopQueued /\ ~asking /\ ~Started /\ ~Noted
      /\ page \in {"requesting", "sendFailed", "gone"}
      /\ ctl.phase \in {"idle", "error"} /\ ~ctl.scheduled
      /\ Held = {} /\ Notes = {0} /\ draft = 0 /\ sent = {} /\ forgotten = {}
  BY <1>1, StartFacts
<1>3. Resting /\ ctl.heard = 0 /\ rec = Idle
  BY <1>1 DEF RecorderInv, InStart, Resting, NativeRests
<1>4. UNCHANGED <<chain, asking, draft, sent, forgotten, used>>
  BY DEF CapturerCreated
<1>5. 0 \notin DOMAIN disk /\ DOMAIN disk = {}
  <2>1. rec.path = 0
    BY <1>3 DEF Idle
  <2>2. 0 \notin DOMAIN disk
    BY DEF RecorderInv, RecorderTypeOK
  <2>3. DOMAIN disk \subseteq {rec.path} \cup Notes
    BY DEF RecorderInv, Files
  <2>4. QED
    BY <1>2, <2>1, <2>2, <2>3
<1>6. CASE ~made
  <2>1. StartFails /\ UNCHANGED <<rec, disk, mic>>
    BY <1>6 DEF CapturerCreated
  <2>2. rec' = Idle /\ mic' = FALSE
    BY <1>3, <2>1 DEF Resting, NativeRests, RecorderInv, RecorderTypeOK
  <2>3. /\ DOMAIN disk' \subseteq DOMAIN disk \ {rec.path}
        /\ \A p \in DOMAIN disk' : disk'[p] = disk[p]
    BY <1>5, <2>1
  <2>4. QED
    BY <1>1, <1>4, <2>1, <2>2, <2>3, StartFailsKeeps
<1>7. CASE made
  <2>1. /\ StartVoiceRecord(op.path, ok) /\ mic' = TRUE /\ UNCHANGED page
        /\ ctl' = IF ok THEN [ctl EXCEPT !.native = TRUE, !.path = op.path, !.cap = TRUE] ELSE ctl
        /\ op' = [op EXCEPT !.at = IF ok THEN "start" ELSE "undo"] /\ UNCHANGED answers
    BY <1>7 DEF CapturerCreated, Awaits
  <2>2. ctl \in CtlSet /\ op \in OpSet
    BY TypeParts DEF RecorderInv
  <2>3. ctl' \in CtlSet /\ op' \in OpSet
    BY <1>2, <2>1, <2>2 DEF CtlSet, OpSet
  <2>4. /\ op'.kind = "start" /\ op'.after = "started" /\ op'.path = op.path
        /\ op'.at = IF ok THEN "start" ELSE "undo"
    BY <1>1, <1>2, <2>1, <2>2 DEF OpSet
  <2>5. /\ ctl'.phase = ctl.phase /\ ctl'.scheduled = ctl.scheduled /\ ctl'.heard = 0
        /\ ok => ctl'.native /\ ctl'.path = op.path /\ ctl'.cap
        /\ ~ok => ~ctl'.native /\ ctl'.path = 0
    BY <1>3, <2>1, <2>2 DEF CtlSet, Resting, NativeRests
  <2>6. OpInv'
    BY <1>2, <1>4, <2>4 DEF OpInv, Shaped
  <2>7. AnswerInv' /\ ~Started' /\ Held' = {}
    BY <1>2, <2>1, AnswersKept DEF RecorderInv
  <2>8. QueueInv' /\ ~StartQueued' /\ ~StopQueued' /\ ~CleanupQueued'
    BY <1>1, <1>2, <1>4, QueueKept DEF RecorderInv
  <2>9. ~Noted' /\ Notes' = {0}
    BY <1>2, <1>4, <2>7 DEF Noted, Notes
  <2>10. OneSession' /\ PageFollows'
    BY <1>2, <1>4, <2>1, <2>4, <2>5, <2>7, <2>8, <2>9
    DEF OneSession, PageFollows, Starting, Stopping
  <2>11. rec' = IF ok THEN [Idle EXCEPT !.active = TRUE, !.path = op.path] ELSE Idle
    BY <2>1 DEF StartVoiceRecord
  <2>12. rec' \in RecSet /\ (ok => rec'.active /\ rec'.path = op.path /\ rec'.recorded = 0)
    <3>1. 0 \in 0..MaxStarts /\ 0 \in 0..MaxSamples /\ op.path \in 0..MaxStarts
      BY <1>2, Bounds
    <3>2. QED
      BY <2>11, <3>1 DEF RecSet, Idle
  <2>13. BetweenOps' /\ InStart' /\ InStop' /\ InCancel'
    BY <1>2, <2>1, <2>4, <2>5, <2>8, <2>11, <2>12
    DEF BetweenOps, InStart, InStop, InCancel, NativeRuns
  <2>14. CASE ok
    <3>1. DOMAIN disk' = {op.path} /\ disk'[op.path] = HeaderPages
      <4>1. PICK d : d = WithoutFile(disk, rec.path)
        OBVIOUS
      <4>2. DOMAIN d = {}
        BY ZenonT(30), <1>5, <4>1, Without
      <4>3. disk' = WithFile(d, op.path, HeaderPages)
        BY <2>1, <2>14, <4>1 DEF StartVoiceRecord
      <4>4. QED
        BY <4>2, <4>3 DEF WithFile
    <3>2. Frames(rec', disk'[op.path])
      <4>1. /\ rec'.granule = 0 /\ rec'.total = 0 /\ rec'.pending = 0
            /\ rec'.recorded = 0 /\ rec'.input = 0
        BY <2>11, <2>14 DEF Idle
      <4>2. FramePages(disk'[op.path], 0) /\ AtFrame(0) = 0 /\ 0 < FrameSize
        BY <3>1, HeaderFile, FrameZero, Bounds
      <4>3. QED
        BY <4>1, <4>2 DEF Frames
    <3>3. FileFollows'
      BY <2>9, <2>12, <2>14, <3>1, <3>2 DEF FileFollows, Frames, FramePages
    <3>4. Files'
      BY <1>2, <1>4, <2>9, <2>12, <2>14, <3>1, HeaderFile DEF Files, Pages
    <3>5. RecorderTypeOK'
      BY <1>2, <1>4, <2>1, <2>3, <2>12, <3>1, TypeParts, TypePartsNext DEF RecorderInv
    <3>6. QED
      BY <2>6, <2>7, <2>8, <2>10, <2>13, <3>3, <3>4, <3>5 DEF RecorderInv
  <2>15. CASE ~ok
    <3>1. DOMAIN disk' = {}
      BY ZenonT(30), <1>5, <2>1, <2>15, Without DEF StartVoiceRecord
    <3>2. FileFollows'
      BY <2>11, <2>15 DEF FileFollows, Idle
    <3>3. Files'
      BY <3>1 DEF Files
    <3>4. RecorderTypeOK'
      BY <1>4, <2>1, <2>3, <2>12, <3>1, TypeParts, TypePartsNext DEF RecorderInv
    <3>5. QED
      BY <2>6, <2>7, <2>8, <2>10, <2>13, <3>2, <3>3, <3>4 DEF RecorderInv
  <2>16. QED
    BY <2>14, <2>15
<1>8. QED
  BY <1>6, <1>7

LEMMA CapturerStartedKeeps ==
  ASSUME RecorderInv, NEW ok \in BOOLEAN, CapturerStarted(ok)
  PROVE  RecorderInv'
<1>1. op.kind = "start" /\ op.at = "start" /\ answers = <<>> /\ ~CleanupQueued
  BY SettleFacts DEF CapturerStarted
<1>2. /\ op.after = "started" /\ op.path \in 1..used /\ op.path # 0
      /\ ~StartQueued /\ ~StopQueued /\ ~asking /\ ~Started /\ ~Noted
      /\ page \in {"requesting", "sendFailed", "gone"}
      /\ ctl.phase \in {"idle", "error"} /\ ~ctl.scheduled
      /\ Held = {} /\ Notes = {0} /\ draft = 0 /\ sent = {} /\ forgotten = {}
  BY <1>1, StartFacts
<1>3. /\ ctl.cap /\ ctl.path = op.path /\ NativeRuns(op.path)
      /\ ctl.heard = 0 /\ rec.recorded = 0
  BY <1>1, <1>2 DEF RecorderInv, InStart
<1>4. UNCHANGED <<rec, disk, chain, mic, asking, draft, sent, forgotten, used>>
  BY DEF CapturerStarted
<1>5. ctl \in CtlSet /\ op \in OpSet
  BY TypeParts DEF RecorderInv
<1>6. QueueInv' /\ ~StartQueued' /\ ~StopQueued' /\ ~CleanupQueued'
  BY <1>1, <1>2, <1>4, QueueKept DEF RecorderInv
<1>7. CASE ok
  <2>1. ctl' = [ctl EXCEPT !.phase = "recording"] /\ Ends(TRUE, 0) /\ PageSees("recording")
    BY <1>7 DEF CapturerStarted
  <2>2. page' \in {"recording", "gone"}
    BY <2>1 DEF PageSees
  <2>3. 0 \in 0..MaxStarts
    BY Bounds
  <2>4. /\ op' = NoOp /\ op'.kind = "none" /\ OpInv' /\ op' \in OpSet
        /\ answers' \in Seq(AnswerSet) /\ AnswerInv' /\ Started' /\ Held' = {}
    BY <1>1, <1>2, <2>1, <2>2, <2>3, EndFacts
  <2>5. /\ ctl' \in CtlSet /\ ctl'.phase = "recording" /\ ctl'.cap /\ ctl'.path = op.path
        /\ ~ctl'.scheduled /\ ctl'.heard = 0 /\ ctl'.native = ctl.native
    BY <1>2, <1>3, <1>5, <2>1 DEF CtlSet
  <2>6. ~Noted' /\ Notes' = Notes
    BY <1>2, <1>4, <2>4 DEF Noted, Notes
  <2>7. OneSession' /\ PageFollows'
    BY <1>2, <1>4, <2>2, <2>4, <1>6, <2>6 DEF OneSession, PageFollows, Starting, Stopping
  <2>8. BetweenOps' /\ InStart' /\ InStop' /\ InCancel'
    BY <1>3, <1>4, <1>6, <2>4, <2>5
    DEF BetweenOps, InStart, InStop, InCancel, Recording, NativeRuns
  <2>9. FileFollows' /\ Files'
    BY <1>4, <2>6, FilesKept, FileFollowsKept DEF RecorderInv
  <2>10. RecorderTypeOK'
    BY <1>4, <2>2, <2>4, <2>5, TypeParts, TypePartsNext DEF RecorderInv, PageSet
  <2>11. QED
    BY <1>6, <2>4, <2>7, <2>8, <2>9, <2>10 DEF RecorderInv
<1>8. CASE ~ok
  <2>1. op' = [op EXCEPT !.at = "undo"] /\ UNCHANGED <<ctl, page, answers>>
    BY <1>8 DEF CapturerStarted, Awaits
  <2>2. op' \in OpSet /\ op'.kind = "start" /\ op'.at = "undo" /\ op'.path = op.path
        /\ op'.after = "started"
    BY <1>1, <1>2, <1>5, <2>1 DEF OpSet
  <2>3. OpInv'
    BY <1>2, <1>4, <2>2 DEF OpInv, Shaped
  <2>4. AnswerInv' /\ ~Started' /\ Held' = {}
    BY <1>2, <2>1, AnswersKept DEF RecorderInv
  <2>5. ~Noted' /\ Notes' = Notes
    BY <1>2, <1>4, <2>4 DEF Noted, Notes
  <2>6. OneSession' /\ PageFollows'
    BY <1>2, <1>4, <1>6, <2>1, <2>2, <2>4, <2>5
    DEF OneSession, PageFollows, Starting, Stopping
  <2>7. BetweenOps' /\ InStart' /\ InStop' /\ InCancel'
    BY <1>2, <1>3, <1>4, <1>6, <2>1, <2>2
    DEF BetweenOps, InStart, InStop, InCancel, NativeRuns
  <2>8. FileFollows' /\ Files'
    BY <1>4, <2>5, FilesKept, FileFollowsKept DEF RecorderInv
  <2>9. RecorderTypeOK'
    BY <1>4, <2>1, <2>2, TypeParts, TypePartsNext DEF RecorderInv
  <2>10. QED
    BY <1>6, <2>3, <2>4, <2>6, <2>7, <2>8, <2>9 DEF RecorderInv
<1>9. QED
  BY <1>7, <1>8

LEMMA DropFacts ==
  ASSUME NEW path, DropRecording(path)
  PROVE  /\ rec' = IF ctl.native THEN Idle ELSE rec
         /\ DOMAIN disk' = DOMAIN disk \ ({path} \cup IF ctl.native THEN {rec.path} ELSE {})
         /\ \A p \in DOMAIN disk' : disk'[p] = disk[p]
<1>1. CASE ctl.native
  <2>1. rec' = Idle /\ disk' = WithoutFile(WithoutFile(disk, rec.path), path)
    BY <1>1 DEF DropRecording
  <2>2. PICK d : d = WithoutFile(disk, rec.path)
    OBVIOUS
  <2>3. DOMAIN d = DOMAIN disk \ {rec.path} /\ \A p \in DOMAIN d : d[p] = disk[p]
    BY <2>2, Without
  <2>4. DOMAIN disk' = DOMAIN d \ {path} /\ \A p \in DOMAIN disk' : disk'[p] = d[p]
    BY <2>1, <2>2, Without
  <2>5. QED
    BY <1>1, <2>1, <2>3, <2>4
<1>2. CASE ~ctl.native
  <2>1. rec' = rec /\ disk' = WithoutFile(disk, path)
    BY <1>2 DEF DropRecording
  <2>2. QED
    BY <1>2, <2>1, Without
<1>3. QED
  BY <1>1, <1>2

LEMMA StartUndoneKeeps ==
  ASSUME RecorderInv, StartUndone
  PROVE  RecorderInv'
<1>1. op.kind = "start" /\ op.at = "undo" /\ answers = <<>>
  BY SettleFacts DEF StartUndone
<1>2. /\ StartFails /\ UNCHANGED <<chain, asking, draft, sent, forgotten, used>>
      /\ mic' = FALSE /\ DropRecording(op.path)
  BY DEF StartUndone
<1>3. \/ ctl.native /\ rec.path = op.path
      \/ ~ctl.native /\ rec = Idle
  BY <1>1 DEF RecorderInv, InStart, NativeRuns
<1>4. 0 \notin DOMAIN disk
  BY DEF RecorderInv, RecorderTypeOK
<1>5. /\ rec' = Idle /\ DOMAIN disk' \subseteq DOMAIN disk \ {rec.path}
      /\ \A p \in DOMAIN disk' : disk'[p] = disk[p]
  <2>1. CASE ctl.native /\ rec.path = op.path
    BY <1>2, <2>1, DropFacts
  <2>2. CASE ~ctl.native /\ rec = Idle
    <3>1. rec.path = 0
      BY <2>2 DEF Idle
    <3>2. QED
      BY <1>2, <1>4, <2>2, <3>1, DropFacts
  <2>3. QED
    BY <1>3, <2>1, <2>2
<1>6. QED
  BY <1>1, <1>2, <1>5, StartFailsKeeps

LEMMA CapturerStoppedKeeps ==
  ASSUME RecorderInv, NEW ok \in BOOLEAN, CapturerStopped(ok)
  PROVE  RecorderInv'
<1>1. op.kind \in {"stop", "cancel", "failure"} /\ answers = <<>>
  BY SettleFacts DEF CapturerStopped
<1>2. ~CleanupQueued
  BY <1>1, SettleFacts DEF CapturerStopped
<1>3. /\ op' = [op EXCEPT !.at = "release", !.failed = ~ok]
      /\ UNCHANGED <<rec, disk, ctl, chain, answers, mic, page, asking, draft, sent, forgotten,
                     used>>
  BY DEF CapturerStopped, pageVars
<1>4. op \in OpSet
  BY TypeParts DEF RecorderInv
<1>5. /\ op' \in OpSet /\ op'.kind = op.kind /\ op'.at = "release" /\ op'.path = op.path
      /\ op'.after = op.after
  BY <1>3, <1>4 DEF OpSet
<1>6. RecorderTypeOK'
  BY <1>3, <1>5, TypeParts, TypePartsNext DEF RecorderInv
<1>7. OpInv'
  BY <1>1, <1>3, <1>5 DEF RecorderInv, OpInv, Shaped
<1>8. AnswerInv' /\ (Started' <=> Started) /\ Held' = Held
  BY <1>3, AnswersKept DEF RecorderInv
<1>9. /\ QueueInv' /\ (StartQueued' <=> StartQueued) /\ (StopQueued' <=> StopQueued)
      /\ ~CleanupQueued'
  BY <1>2, <1>3, QueueKept DEF RecorderInv
<1>10. Noted' = Noted /\ Notes' = Notes
  BY <1>3, <1>8 DEF Noted, Notes
<1>11. (Starting' <=> Starting) /\ (Stopping' <=> Stopping)
  BY <1>5, <1>9 DEF Starting, Stopping
<1>12. OneSession' /\ PageFollows'
  BY <1>3, <1>5, <1>8, <1>9, <1>10, <1>11 DEF RecorderInv, OneSession, PageFollows
<1>13. BetweenOps' /\ InStart' /\ InStop' /\ InCancel'
  BY <1>1, <1>3, <1>5, <1>9
  DEF RecorderInv, BetweenOps, InStart, InStop, InCancel, NativeRuns, NativeRests, Broken
<1>14. FileFollows' /\ Files'
  BY <1>3, <1>10, FilesKept, FileFollowsKept DEF RecorderInv, FileFollows
<1>15. QED
  BY <1>6, <1>7, <1>8, <1>9, <1>12, <1>13, <1>14 DEF RecorderInv

LEMMA CancelReleasedKeeps ==
  ASSUME RecorderInv, CancelReleased
  PROVE  RecorderInv'
<1>1. op.kind \in {"cancel", "failure"} /\ answers = <<>> /\ ~Started /\ Held = {}
  BY SettleFacts DEF CancelReleased
<1>2. ~CleanupQueued
  BY <1>1, SettleFacts DEF CancelReleased
<1>3. /\ mic' = FALSE /\ DropRecording(op.path) /\ ctl' = Cancelled(ctl, op.kind) /\ Ends(TRUE, 0)
      /\ UNCHANGED <<chain, page, asking, draft, sent, forgotten, used>>
  BY DEF CancelReleased, pageVars
<1>4. ctl \in CtlSet /\ op \in OpSet
  BY TypeParts DEF RecorderInv
<1>5. op.after \notin {"started", "stopped"}
  BY <1>1 DEF RecorderInv, OpInv, Shaped
<1>6. 0 \in 0..MaxStarts /\ 0 \in Nat /\ used \in Nat
  BY Bounds DEF RecorderInv, RecorderTypeOK
<1>7. /\ op' = NoOp /\ op'.kind = "none" /\ OpInv' /\ op' \in OpSet
      /\ answers' \in Seq(AnswerSet) /\ AnswerInv' /\ ~Started' /\ Held' = {}
  BY <1>1, <1>3, <1>5, <1>6, EndFacts
<1>8. /\ ~ctl.cap /\ ctl.path = 0
      /\ \/ NativeRests /\ op.path = 0 /\ ctl.phase \in {"idle", "error"}
         \/ ctl.phase = "recording" /\ NativeRuns(op.path)
         \/ Broken(op.path)
      /\ op.kind = "failure" => Broken(op.path)
  BY <1>1 DEF RecorderInv, InCancel
<1>9. /\ ctl' \in CtlSet /\ ctl'.phase \in {"idle", "error"} /\ ctl'.path = 0 /\ ~ctl'.native
  BY <1>1, <1>3, <1>4, <1>8 DEF CtlSet, Cancelled, Broken
<1>10. /\ rec' = Idle
       /\ DOMAIN disk' \subseteq DOMAIN disk \ {rec.path}
       /\ \A p \in DOMAIN disk' : disk'[p] = disk[p]
  <2>1. 0 \notin DOMAIN disk
    BY DEF RecorderInv, RecorderTypeOK
  <2>2. CASE ctl.native
    BY <1>3, <2>2, DropFacts
  <2>3. CASE ~ctl.native
    <3>1. rec = Idle
      BY <1>8, <2>3 DEF NativeRests, NativeRuns, Broken
    <3>2. rec.path = 0
      BY <3>1 DEF Idle
    <3>3. QED
      BY <1>3, <2>1, <2>3, <3>1, <3>2, DropFacts
  <2>4. QED
    BY <2>2, <2>3
<1>11. rec' \in RecSet
  BY <1>10, Bounds DEF RecSet, Idle
<1>12. /\ QueueInv' /\ (StartQueued' <=> StartQueued) /\ (StopQueued' <=> StopQueued)
       /\ ~CleanupQueued'
  BY <1>2, <1>3, QueueKept DEF RecorderInv
<1>13. RecorderTypeOK'
  BY <1>3, <1>7, <1>9, <1>10, <1>11, TypeParts, TypePartsNext DEF RecorderInv
<1>14. Noted' = Noted /\ Notes' = Notes
  BY <1>1, <1>3, <1>7 DEF Noted, Notes
<1>15. (Starting' <=> Starting) /\ (Stopping' <=> Stopping)
  BY <1>1, <1>7, <1>12 DEF Starting, Stopping
<1>16. OneSession' /\ PageFollows'
  BY <1>1, <1>3, <1>7, <1>9, <1>12, <1>14, <1>15 DEF RecorderInv, OneSession, PageFollows
<1>17. BetweenOps' /\ InStart' /\ InStop' /\ InCancel'
  BY <1>3, <1>7, <1>9, <1>10, <1>12 DEF BetweenOps, InStart, InStop, InCancel, Resting, NativeRests
<1>18. FileFollows'
  BY <1>10 DEF FileFollows, Idle
<1>19. Files'
  <2>1. DOMAIN disk' \subseteq {rec'.path} \cup Notes'
    BY <1>10, <1>14 DEF RecorderInv, Files
  <2>2. QED
    BY <1>3, <1>6, <1>10, <1>14, <2>1, FilesGo DEF RecorderInv
<1>20. QED
  BY <1>7, <1>12, <1>13, <1>16, <1>17, <1>18, <1>19 DEF RecorderInv

\* What a stop that runs knows of the rest.
LEMMA StopFacts ==
  ASSUME RecorderInv, op.kind = "stop"
  PROVE  /\ op.after = "stopped" /\ op.path # 0
         /\ ~StartQueued /\ ~StopQueued /\ ~asking /\ ~Starting /\ ~Started /\ ~Noted
         /\ page \in {"stopping", "sendFailed", "gone"}
         /\ rec \in RecSet /\ rec.active /\ rec.path = op.path /\ ctl.heard = rec.recorded
         /\ Held = {} /\ Notes = {0} /\ draft = 0 /\ sent = {} /\ forgotten = {}
         /\ DOMAIN disk = {op.path} /\ disk[op.path] \in Pages
         /\ Frames(rec, disk[op.path]) /\ op.path \in 1..used /\ op.path \in 0..MaxStarts
<1>1. Stopping
  BY DEF Stopping
<1>2. op.after = "stopped"
  BY DEF RecorderInv, OpInv, Shaped
<1>3. ~StartQueued /\ ~StopQueued /\ ~asking /\ ~Started /\ ~Noted
  BY <1>1 DEF RecorderInv, OneSession
<1>4. ~Starting
  BY <1>3 DEF Starting
<1>5. page \in {"stopping", "sendFailed", "gone"}
  BY <1>1 DEF RecorderInv, PageFollows
<1>6. Held = {} /\ draft = 0 /\ sent = {} /\ forgotten = {}
  BY <1>3 DEF Noted
<1>7. Notes = {0}
  BY <1>6 DEF Notes
<1>8. rec.active /\ rec.path = op.path /\ op.path # 0 /\ ctl.heard = rec.recorded
  BY DEF RecorderInv, InStop, NativeRuns
<1>9. rec \in RecSet /\ 0 \notin DOMAIN disk /\ op.path \in 0..MaxStarts
  BY TypeParts DEF RecorderInv, OpSet
<1>10. rec.path \in DOMAIN disk /\ Frames(rec, disk[rec.path])
  BY <1>8 DEF RecorderInv, FileFollows
<1>11. DOMAIN disk \subseteq {op.path} \cup {0} /\ disk[op.path] \in Pages /\ op.path \in 1..used
  BY <1>7, <1>8, <1>10 DEF RecorderInv, Files
<1>12. QED
  BY <1>2, <1>3, <1>4, <1>5, <1>6, <1>7, <1>8, <1>9, <1>10, <1>11

\* What is left when a stop has ended: a whole file that is answered, or none.
LEMMA StopLeaves ==
  ASSUME RecorderInv, NEW ok \in BOOLEAN, NEW native \in BOOLEAN, StopReleased(ok, native)
  PROVE  /\ op.kind = "stop" /\ answers = <<>> /\ rec' = Idle
         /\ \E good \in BOOLEAN :
              /\ ctl' = [ctl EXCEPT !.native = FALSE, !.path = 0, !.failed = FALSE, !.heard = 0,
                                    !.phase = IF good THEN "idle" ELSE "error"]
              /\ PageSees(IF good THEN "idle" ELSE "error")
              /\ Ends(good, IF good THEN op.path ELSE 0)
              /\ good => /\ DOMAIN disk' = {op.path} /\ disk'[op.path] \in Pages
                         /\ Whole(disk'[op.path])
                         /\ Last(disk'[op.path]).granule = ctl.heard + Preskip
              /\ ~good => DOMAIN disk' = {}
<1>1. op.kind = "stop" /\ answers = <<>>
  BY SettleFacts DEF StopReleased
<1>2. /\ rec \in RecSet /\ rec.active /\ rec.path = op.path /\ ctl.heard = rec.recorded
      /\ DOMAIN disk = {op.path} /\ disk[op.path] \in Pages /\ Frames(rec, disk[op.path])
  BY <1>1, StopFacts
<1>3. PICK good \in BOOLEAN :
        good = (ok /\ ~op.failed /\ ~ctl.failed /\ native /\ DurationSec > 0)
  OBVIOUS
<1>4. /\ IF good THEN StopVoiceRecord(TRUE)
         ELSE rec' = Idle /\ disk' = WithoutFile(disk, op.path)
      /\ ctl' = [ctl EXCEPT !.native = FALSE, !.path = 0, !.failed = FALSE, !.heard = 0,
                            !.phase = IF good THEN "idle" ELSE "error"]
      /\ PageSees(ctl'.phase)
      /\ Ends(good, IF good THEN op.path ELSE 0)
  BY <1>3 DEF StopReleased
<1>5. PageSees(IF good THEN "idle" ELSE "error")
  <2>1. ctl \in CtlSet
    BY TypeParts DEF RecorderInv
  <2>2. ctl'.phase = IF good THEN "idle" ELSE "error"
    BY <1>4, <2>1 DEF CtlSet
  <2>3. QED
    BY <1>4, <2>2 DEF PageSees
<1>6. CASE good
  <2>1. rec.recorded > 0 /\ rec' = Idle /\ disk' = [disk EXCEPT ![rec.path] = Finished.pages]
    BY <1>2, <1>4, <1>6 DEF StopVoiceRecord
  <2>2. /\ Finished.pages \in Pages /\ Whole(Finished.pages)
        /\ Last(Finished.pages).granule = rec.recorded + Preskip
    BY <1>2, <2>1, FinishedIsWhole
  <2>3. DOMAIN disk' = {op.path} /\ disk'[op.path] = Finished.pages
    BY <1>2, <2>1
  <2>4. QED
    BY <1>1, <1>2, <1>4, <1>5, <1>6, <2>1, <2>2, <2>3
<1>7. CASE ~good
  <2>1. rec' = Idle /\ DOMAIN disk' = {}
    <3>1. rec' = Idle /\ disk' = WithoutFile(disk, op.path)
      BY <1>4, <1>7
    <3>2. DOMAIN disk' = DOMAIN disk \ {op.path}
      BY <3>1, Without
    <3>3. QED
      BY <1>2, <3>1, <3>2
  <2>2. QED
    BY <1>1, <1>4, <1>5, <1>7, <2>1
<1>8. QED
  BY <1>6, <1>7

LEMMA StopEndsKeeps ==
  ASSUME RecorderInv, NEW ok \in BOOLEAN, NEW native \in BOOLEAN, StopReleased(ok, native)
  PROVE  RecorderInv'
<1>1. op.kind = "stop" /\ answers = <<>> /\ rec' = Idle
  BY StopLeaves
<1>2. PICK good \in BOOLEAN :
        /\ ctl' = [ctl EXCEPT !.native = FALSE, !.path = 0, !.failed = FALSE, !.heard = 0,
                              !.phase = IF good THEN "idle" ELSE "error"]
        /\ PageSees(IF good THEN "idle" ELSE "error")
        /\ Ends(good, IF good THEN op.path ELSE 0)
        /\ good => /\ DOMAIN disk' = {op.path} /\ disk'[op.path] \in Pages
                   /\ Whole(disk'[op.path])
        /\ ~good => DOMAIN disk' = {}
  BY StopLeaves
<1>3. mic' = FALSE /\ UNCHANGED <<chain, asking, draft, sent, forgotten, used>>
  BY DEF StopReleased
<1>4. /\ op.after = "stopped" /\ op.path # 0
      /\ ~StartQueued /\ ~StopQueued /\ ~asking /\ ~Started /\ ~Noted
      /\ page \in {"stopping", "sendFailed", "gone"}
      /\ Held = {} /\ draft = 0 /\ sent = {} /\ forgotten = {}
      /\ op.path \in 1..used /\ op.path \in 0..MaxStarts
  BY <1>1, StopFacts
<1>5. ctl \in CtlSet /\ op \in OpSet /\ ~CleanupQueued
  BY <1>1, TypeParts DEF RecorderInv, InCancel
<1>6. 0 \in 0..MaxStarts /\ 0 \in Nat
  BY Bounds
<1>7. page' \in {"stopping", "sendFailed", "gone"} \/ (page' = "error" /\ ~good)
  BY <1>2, <1>4 DEF PageSees
<1>8. /\ op' = NoOp /\ op'.kind = "none" /\ OpInv' /\ op' \in OpSet
      /\ answers' \in Seq(AnswerSet) /\ AnswerInv' /\ ~Started'
      /\ Held' = IF good THEN {op.path} ELSE {}
  <2>1. PICK path \in 0..MaxStarts : path = IF good THEN op.path ELSE 0
    BY <1>4, <1>6
  <2>2. Ends(good, path) /\ (op.after = "stopped" /\ good => path # 0)
    BY <1>2, <1>4, <2>1
  <2>3. op.after # "started"
    BY <1>4
  <2>4. QED
    BY <1>1, <1>4, <2>1, <2>2, <2>3, EndFacts
<1>9. /\ ctl' \in CtlSet /\ ctl'.phase \in {"idle", "error"} /\ ctl'.path = 0 /\ ~ctl'.native
  BY <1>2, <1>5, <1>6 DEF CtlSet
<1>10. rec' \in RecSet
  BY <1>1, Bounds DEF RecSet, Idle
<1>11. QueueInv' /\ ~StartQueued' /\ ~StopQueued' /\ ~CleanupQueued'
  BY <1>3, <1>4, <1>5, QueueKept DEF RecorderInv
<1>12. RecorderTypeOK'
  <2>1. DOMAIN disk' \subseteq 1..MaxStarts
    BY <1>2, <1>4
  <2>2. page' \in PageSet
    BY <1>7 DEF PageSet
  <2>3. QED
    BY <1>3, <1>8, <1>9, <1>10, <2>1, <2>2, TypeParts, TypePartsNext DEF RecorderInv
<1>13. /\ Noted' <=> good
       /\ Notes' = IF good THEN {0, op.path} ELSE {0}
  BY <1>3, <1>4, <1>8 DEF Noted, Notes
<1>14. OneSession' /\ PageFollows'
  BY <1>3, <1>4, <1>7, <1>8, <1>9, <1>11, <1>13 DEF OneSession, PageFollows, Starting, Stopping
<1>15. BetweenOps' /\ InStart' /\ InStop' /\ InCancel'
  BY <1>1, <1>3, <1>8, <1>9, <1>11 DEF BetweenOps, InStart, InStop, InCancel, Resting, NativeRests
<1>16. FileFollows'
  BY <1>1 DEF FileFollows, Idle
<1>17. Files'
  BY <1>2, <1>3, <1>4, <1>13 DEF Files, Pages, Whole
<1>18. OpInv' /\ AnswerInv' /\ QueueInv'
  BY <1>8, <1>11
<1>19. QED
  BY <1>12, <1>14, <1>15, <1>16, <1>17, <1>18 DEF RecorderInv

LEMMA ReadDataKeeps ==
  ASSUME RecorderInv, NEW samples \in Buffers, NEW ok \in BOOLEAN, ReadData(samples, ok)
  PROVE  RecorderInv'
<1>1. Calm /\ mic /\ ctl.cap /\ ctl.path # 0 /\ ctl.phase = "recording" /\ answers = <<>>
  BY DEF ReadData, Calm
<1>2. op.kind = "none" /\ op \in OpSet
  BY <1>1, TypeParts DEF RecorderInv, InStart, InStop, InCancel, OpSet
<1>3. chain = <<>> /\ Recording /\ ~CleanupQueued
  BY <1>1, <1>2, CalmIdle DEF Resting
<1>4. /\ UNCHANGED <<op, answers, mic, asking, draft, sent, forgotten, used>>
      /\ WriteVoiceFrame(samples, ok)
  BY DEF ReadData
<1>5. /\ ~asking /\ ~Starting /\ ~Noted /\ ~Started
      /\ Held = {} /\ draft = 0 /\ sent = {} /\ forgotten = {}
      /\ Notes = {0} /\ page \in {"recording", "stopping", "sendFailed", "gone"}
  <2>1. ~asking /\ ~Starting /\ ~Noted /\ page \in {"recording", "stopping", "sendFailed", "gone"}
    BY <1>1 DEF RecorderInv, OneSession, PageFollows
  <2>2. ~Started /\ Held = {}
    BY <1>1, CalmFacts
  <2>3. QED
    BY <2>1, <2>2 DEF Noted, Notes
<1>6. ~StartQueued /\ ~StopQueued
  BY <1>3 DEF StartQueued, StopQueued
<1>7. /\ rec \in RecSet /\ ctl \in CtlSet /\ samples \in Nat /\ ctl.heard + samples \in Nat
      /\ 0 \notin DOMAIN disk /\ used \in Nat
  BY TypeParts, Bounds DEF RecorderInv, CtlSet
<1>8. /\ rec.active /\ rec.path \in DOMAIN disk /\ disk[rec.path] \in Pages
      /\ Frames(rec, disk[rec.path]) /\ rec.path = ctl.path /\ DOMAIN disk = {rec.path}
  <2>1. rec.active /\ rec.path = ctl.path
    BY <1>3 DEF Recording, NativeRuns
  <2>2. rec.path \in DOMAIN disk /\ Frames(rec, disk[rec.path])
    BY <2>1 DEF RecorderInv, FileFollows
  <2>3. DOMAIN disk \subseteq {rec.path} \cup Notes /\ disk[rec.path] \in Pages
    BY <2>2 DEF RecorderInv, Files
  <2>4. QED
    BY <1>5, <1>7, <2>1, <2>2, <2>3
<1>9. OpInv' /\ (op'.kind = "none")
  BY <1>2, <1>4 DEF RecorderInv, OpInv, Shaped
<1>10. AnswerInv' /\ ~Started' /\ Held' = {}
  BY <1>1, <1>4, <1>5, AnswersKept DEF RecorderInv
<1>11. ~Noted' /\ Notes' = {0}
  BY <1>4, <1>5, <1>10 DEF Noted, Notes
<1>12. CASE ok
  <2>1. /\ ~WriteRefused(samples)
        /\ rec' = Encoded(samples).rec
        /\ disk' = [disk EXCEPT ![rec.path] = Encoded(samples).pages]
    BY <1>4, <1>12 DEF WriteVoiceFrame
  <2>2. ctl' = [ctl EXCEPT !.heard = @ + samples] /\ UNCHANGED <<chain, page>>
    BY <1>12 DEF ReadData
  <2>3. rec.recorded + samples <= MaxSamples
    BY <1>7, <2>1, Bounds DEF WriteRefused, RecSet
  <2>4. /\ Encoded(samples).pages \in Pages
        /\ Frames(rec', Encoded(samples).pages)
        /\ rec'.active /\ rec'.path = rec.path
        /\ rec'.recorded = rec.recorded + samples /\ rec' \in RecSet
    BY <1>7, <1>8, <2>1, <2>3, EncodedFollows
  <2>5. DOMAIN disk' = {rec.path} /\ disk'[rec.path] = Encoded(samples).pages
    BY <1>8, <2>1
  <2>6. /\ ctl' \in CtlSet /\ ctl'.phase = "recording" /\ ctl'.cap /\ ctl'.path = ctl.path
        /\ ctl'.native = ctl.native /\ ctl'.scheduled = ctl.scheduled
        /\ ctl'.heard = ctl.heard + samples
    BY <1>1, <1>7, <2>2 DEF CtlSet
  <2>7. QueueInv' /\ ~StartQueued' /\ ~StopQueued' /\ ~CleanupQueued'
    BY <1>3, <1>4, <1>6, <2>2, QueueKept DEF RecorderInv
  <2>8. RecorderTypeOK'
    BY <1>4, <1>8, <2>2, <2>4, <2>5, <2>6, TypeParts, TypePartsNext DEF RecorderInv
  <2>9. OneSession' /\ PageFollows'
    BY <1>4, <1>5, <1>9, <1>10, <1>11, <2>2, <2>7
    DEF OneSession, PageFollows, Starting, Stopping
  <2>10. BetweenOps' /\ InStart' /\ InStop' /\ InCancel'
    BY <1>3, <1>4, <1>9, <2>4, <2>6, <2>7
    DEF BetweenOps, InStart, InStop, InCancel, Recording, NativeRuns
  <2>11. FileFollows'
    BY <1>11, <2>4, <2>5 DEF FileFollows, Frames, FramePages
  <2>12. Files'
    BY <1>4, <1>7, <1>8, <1>11, <2>4, <2>5 DEF RecorderInv, Files, Pages
  <2>13. QED
    BY <1>9, <1>10, <2>7, <2>8, <2>9, <2>10, <2>11, <2>12 DEF RecorderInv
<1>13. CASE ~ok
  <2>1. /\ ctl' = [ctl EXCEPT !.heard = @ + samples, !.failed = TRUE, !.phase = "error",
                              !.scheduled = TRUE]
        /\ PageSees("error")
        /\ chain' = Append(chain, Op("failure", 0, "none"))
    BY <1>3, <1>13 DEF ReadData, Recording
  <2>2. chain' = <<Op("failure", 0, "none")>> /\ Op("failure", 0, "none") \in Ops
    BY <1>3, <2>1 DEF Ops, Op, Afters
  <2>3. /\ rec' = rec \/ rec' = Idle
        /\ rec' \in RecSet
        /\ DOMAIN disk' \subseteq DOMAIN disk /\ \A p \in DOMAIN disk' : disk'[p] = disk[p]
        /\ rec' # rec => DOMAIN disk' = {}
        /\ rec' = rec => disk' = disk \/ DOMAIN disk' = {}
    <3>1. CASE rec' = rec /\ disk' = disk
      BY <1>7, <3>1
    <3>2. CASE rec' = Idle /\ disk' = WithoutFile(disk, rec.path)
      <4>1. DOMAIN disk' = {}
        <5>1. DOMAIN disk' = DOMAIN disk \ {rec.path}
          BY <3>2, Without
        <5>2. QED
          BY <1>8, <5>1
      <4>2. Idle \in RecSet
        BY Bounds DEF RecSet, Idle
      <4>3. QED
        BY <3>2, <4>1, <4>2
    <3>3. QED
      BY <1>4, <1>13, <3>1, <3>2 DEF WriteVoiceFrame, Cleanup
  <2>4. /\ ctl' \in CtlSet /\ ctl'.phase = "error" /\ ctl'.cap /\ ctl'.path = ctl.path
        /\ ctl'.native = ctl.native
    BY <1>1, <1>7, <2>1 DEF CtlSet
  <2>5. page' \in {"error", "gone"}
    BY <2>1 DEF PageSees
  <2>6. QueueInv' /\ chain' \in Seq(Ops) /\ ~StartQueued' /\ ~StopQueued'
    <3>1. chain \in Seq(Ops) /\ QueueInv /\ used' = used
      BY <1>4, TypeParts DEF RecorderInv
    <3>2. PICK o \in Ops : o = Op("failure", 0, "none")
      BY <2>2
    <3>3. Shaped(o, used') /\ o.kind = "failure"
      BY <3>2 DEF Op, Shaped
    <3>4. QED
      BY <1>6, <1>7, <2>1, <3>1, <3>2, <3>3, QueuePushed
  <2>7. RecorderTypeOK'
    BY <1>4, <2>3, <2>4, <2>5, <2>6, TypeParts, TypePartsNext DEF RecorderInv, PageSet
  <2>8. OneSession' /\ PageFollows'
    BY <1>4, <1>5, <1>9, <1>10, <1>11, <2>4, <2>5, <2>6
    DEF OneSession, PageFollows, Starting, Stopping
  <2>9. Failing'
    BY <1>1, <1>3, <1>4, <1>8, <2>2, <2>3, <2>4
    DEF Failing, Broken, CleanupNext, Recording, NativeRuns, Idle
  <2>10. BetweenOps' /\ InStart' /\ InStop' /\ InCancel'
    BY <1>9, <2>4, <2>9 DEF BetweenOps, InStart, InStop, InCancel
  <2>11. FileFollows' /\ Files'
    <3>1. CASE rec' = rec /\ disk' = disk
      BY <1>4, <1>5, <1>11, <3>1, FilesKept, FileFollowsKept DEF RecorderInv
    <3>2. CASE rec' = Idle /\ DOMAIN disk' = {}
      BY <3>2 DEF FileFollows, Files, Idle
    <3>3. rec # Idle
      BY <1>8 DEF Idle
    <3>4. rec' = rec => disk' = disk
      <4>1. SUFFICES ASSUME rec' = rec PROVE disk' = disk
        OBVIOUS
      <4>2. QED
        BY <1>4, <1>13, <3>3, <4>1 DEF WriteVoiceFrame, Cleanup
    <3>5. QED
      BY <2>3, <3>1, <3>2, <3>4
  <2>12. QED
    BY <1>9, <1>10, <2>6, <2>7, <2>8, <2>10, <2>11 DEF RecorderInv
<1>14. QED
  BY <1>12, <1>13


-----------------------------------------------------------------------------
(* The page *)

\* A step of the page moves neither controller nor recorder.  It keeps the invariant if it keeps
\* what the queues, the page and the files say.
LEMMA PageStepKeeps ==
  ASSUME RecorderInv, UNCHANGED <<rec, ctl, op, mic>>,
         op.kind = "none" => Recording \/ Resting, ~CleanupQueued',
         chain' \in Seq(Ops), QueueInv', answers' \in Seq(AnswerSet), AnswerInv',
         page' \in PageSet, asking' \in BOOLEAN, draft' \in 0..MaxStarts,
         sent' \subseteq 1..MaxStarts, forgotten' \subseteq 1..MaxStarts,
         used' \in 0..MaxStarts, used' = used \/ used' = used + 1,
         OneSession', PageFollows',
         DOMAIN disk' \subseteq DOMAIN disk, \A p \in DOMAIN disk' : disk'[p] = disk[p],
         \A p \in DOMAIN disk' : p \in Notes' => p \in Notes,
         DOMAIN disk' \subseteq {rec.path} \cup Notes',
         rec.active => rec.path \in DOMAIN disk' /\ ~Noted'
  PROVE  RecorderInv'
<1>1. used \in Nat
  BY Bounds, TypeParts DEF RecorderInv
<1>2. OpInv'
  BY <1>1 DEF RecorderInv, OpInv, Shaped
<1>3. BetweenOps' /\ InStart' /\ InStop' /\ InCancel'
  BY DEF RecorderInv, BetweenOps, InStart, InStop, InCancel, Recording, Resting, NativeRuns,
         NativeRests, Broken
<1>4. FileFollows'
  BY DEF RecorderInv, FileFollows, Frames, FramePages
<1>5. Files'
  BY <1>1, FilesGo DEF RecorderInv
<1>6. RecorderTypeOK'
  BY TypeParts, TypePartsNext DEF RecorderInv
<1>7. QED
  BY <1>2, <1>3, <1>4, <1>5, <1>6 DEF RecorderInv

\* What every such step may rely on.
LEMMA PageFacts ==
  ASSUME RecorderInv
  PROVE  /\ chain \in Seq(Ops) /\ QueueInv /\ answers \in Seq(AnswerSet) /\ AnswerInv
         /\ page \in PageSet /\ asking \in BOOLEAN /\ draft \in 0..MaxStarts
         /\ sent \subseteq 1..MaxStarts /\ forgotten \subseteq 1..MaxStarts
         /\ used \in 0..MaxStarts /\ used \in Nat
         /\ OneSession /\ PageFollows
         /\ 0 \in 0..MaxStarts /\ 0 \notin DOMAIN disk
         /\ DOMAIN disk \subseteq {rec.path} \cup Notes
         /\ rec.active => rec.path \in DOMAIN disk /\ ~Noted
BY Bounds, TypeParts DEF RecorderInv, FileFollows, Files

\* clearPending(true): the file of the draft goes, and it is never the one being recorded.
LEMMA DraftCleared ==
  ASSUME RecorderInv, ClearDraft
  PROVE  /\ draft' = 0
         /\ DOMAIN disk' = DOMAIN disk \ {draft}
         /\ \A p \in DOMAIN disk' : disk'[p] = disk[p]
         /\ rec.active => rec.path \in DOMAIN disk'
<1>1. /\ draft' = 0
      /\ DOMAIN disk' = DOMAIN disk \ {draft}
      /\ \A p \in DOMAIN disk' : disk'[p] = disk[p]
  BY Without DEF ClearDraft
<1>2. rec.active => draft = 0
  BY PageFacts DEF Noted
<1>3. QED
  BY <1>1, <1>2, PageFacts

LEMMA TapStartKeeps ==
  ASSUME RecorderInv, TapStart
  PROVE  RecorderInv'
<1>1. /\ Calm /\ page = "idle" /\ used < MaxStarts /\ page' = "requesting" /\ asking' = TRUE
      /\ UNCHANGED <<rec, disk, ctl, op, chain, answers, mic, draft, sent, forgotten, used>>
  BY DEF TapStart, ctlVars
<1>2. answers = <<>> /\ ~CleanupQueued /\ (op.kind = "none" => Recording \/ Resting)
  BY <1>1, CalmIdle DEF Calm
<1>3. ~Starting /\ ~Stopping /\ ~Noted /\ ctl.phase # "recording"
  BY <1>1, PageFacts DEF PageFollows
<1>4. AnswerInv' /\ ~Started' /\ Held' = Held
  BY <1>1, <1>2, AnswersKept, CalmFacts, PageFacts
<1>5. QueueInv' /\ ~StartQueued' /\ ~StopQueued' /\ ~CleanupQueued'
  BY <1>1, <1>2, <1>3, QueueKept, PageFacts DEF Starting, Stopping
<1>6. (Noted' <=> Noted) /\ Notes' = Notes
  BY <1>1, <1>4 DEF Noted, Notes
<1>7. OneSession'
  BY <1>1, <1>3, <1>4, <1>5, <1>6, PageFacts DEF OneSession, Starting, Stopping, Noted
<1>8. PageFollows'
  BY <1>1, <1>3, <1>5, <1>6 DEF PageFollows, Starting, Stopping
<1>9. page' \in PageSet /\ asking' \in BOOLEAN
  BY <1>1 DEF PageSet
<1>10. QED
  BY <1>1, <1>2, <1>4, <1>5, <1>6, <1>7, <1>8, <1>9, PageFacts, PageStepKeeps

LEMMA PermissionAnsweredKeeps ==
  ASSUME RecorderInv, NEW granted \in BOOLEAN, PermissionAnswered(granted)
  PROVE  RecorderInv'
<1>1. /\ Calm /\ asking /\ asking' = FALSE
      /\ UNCHANGED <<rec, ctl, op, answers, mic, sent, forgotten>>
  BY DEF PermissionAnswered
<1>2. answers = <<>> /\ ~CleanupQueued /\ (op.kind = "none" => Recording \/ Resting)
  BY <1>1, CalmIdle DEF Calm
<1>3. /\ ~Starting /\ ~Stopping /\ ~Noted /\ ctl.phase # "recording" /\ used < MaxStarts
      /\ page \in {"requesting", "sendFailed", "gone"}
      /\ Held = {} /\ draft = 0 /\ sent = {} /\ forgotten = {}
  BY <1>1, PageFacts DEF OneSession, PageFollows, Noted
<1>4. ~StartQueued /\ ~StopQueued /\ op.kind \notin {"start", "stop"}
  BY <1>3 DEF Starting, Stopping
<1>5. AnswerInv' /\ ~Started' /\ Held' = {}
  BY <1>1, <1>2, <1>3, AnswersKept, CalmFacts, PageFacts
<1>6. CASE granted
  <2>1. /\ ClearDraft /\ used' = used + 1 /\ page' = page
        /\ chain' = Append(chain, Op("start", used + 1, "started"))
    BY <1>6 DEF PermissionAnswered, Enqueue
  <2>2. /\ draft' = 0 /\ DOMAIN disk' = DOMAIN disk
        /\ \A p \in DOMAIN disk' : disk'[p] = disk[p]
    BY <1>3, <2>1, DraftCleared, PageFacts
  <2>3. /\ used' \in 0..MaxStarts /\ used + 1 \in Nat /\ used + 1 \in 1..used'
    BY <1>3, <2>1, Bounds, PageFacts
  <2>4. Op("start", used + 1, "started") \in Ops
    BY <2>3 DEF Op, Ops, Afters
  <2>5. PICK o \in Ops : o = Op("start", used + 1, "started")
    BY <2>4
  <2>6. Shaped(o, used') /\ o.kind = "start"
    BY <2>3, <2>5 DEF Op, Shaped
  <2>7. /\ chain' \in Seq(Ops) /\ QueueInv'
        /\ StartQueued' /\ ~StopQueued' /\ ~CleanupQueued'
    BY <1>2, <1>4, <2>1, <2>5, <2>6, QueuePushed, PageFacts
  <2>8. ~Noted' /\ Notes' = Notes
    BY <1>1, <1>3, <1>5, <2>2 DEF Noted, Notes
  <2>9. OneSession' /\ PageFollows'
    BY <1>1, <1>3, <1>4, <1>5, <2>1, <2>7, <2>8
    DEF OneSession, PageFollows, Starting, Stopping
  <2>10. QED
    BY <1>1, <1>2, <1>5, <2>1, <2>2, <2>3, <2>7, <2>8, <2>9, PageFacts, PageStepKeeps
<1>7. CASE ~granted
  <2>1. PageSees("error") /\ UNCHANGED <<disk, draft, used, chain>>
    BY <1>7 DEF PermissionAnswered
  <2>2. page' \in {"error", "gone"} /\ page' \in PageSet
    BY <2>1 DEF PageSees, PageSet
  <2>3. QueueInv' /\ ~StartQueued' /\ ~StopQueued' /\ ~CleanupQueued'
    BY <1>2, <1>4, <2>1, QueueKept, PageFacts
  <2>4. ~Noted' /\ Notes' = Notes
    BY <1>1, <1>3, <1>5, <2>1 DEF Noted, Notes
  <2>5. OneSession' /\ PageFollows'
    BY <1>1, <1>3, <1>4, <1>5, <2>2, <2>3, <2>4
    DEF OneSession, PageFollows, Starting, Stopping
  <2>6. QED
    BY <1>1, <1>2, <1>5, <2>1, <2>2, <2>3, <2>4, <2>5, PageFacts, PageStepKeeps
<1>8. QED
  BY <1>6, <1>7

LEMMA TapSendKeeps ==
  ASSUME RecorderInv, TapSend
  PROVE  RecorderInv'
<1>1. /\ Calm /\ page = "recording" /\ page' = "stopping"
      /\ chain' = Append(chain, Op("stop", 0, "stopped"))
      /\ UNCHANGED <<rec, disk, ctl, op, answers, mic, asking, draft, sent, forgotten, used>>
  BY DEF TapSend, Enqueue
<1>2. answers = <<>> /\ ~CleanupQueued /\ (op.kind = "none" => Recording \/ Resting)
  BY <1>1, CalmIdle DEF Calm
<1>3. ~asking /\ ~Starting /\ ~Stopping /\ ~Noted
  BY <1>1, PageFacts DEF PageFollows
<1>4. ~StartQueued /\ ~StopQueued /\ op.kind \notin {"start", "stop"}
  BY <1>3 DEF Starting, Stopping
<1>5. AnswerInv' /\ ~Started' /\ Held' = Held
  BY <1>1, <1>2, AnswersKept, CalmFacts, PageFacts
<1>6. PICK o \in Ops : o = Op("stop", 0, "stopped")
  BY DEF Op, Ops, Afters
<1>7. Shaped(o, used') /\ o.kind = "stop"
  BY <1>6 DEF Op, Shaped
<1>8. chain' \in Seq(Ops) /\ QueueInv' /\ ~StartQueued' /\ StopQueued' /\ ~CleanupQueued'
  BY <1>1, <1>2, <1>4, <1>6, <1>7, QueuePushed, PageFacts
<1>9. ~Noted' /\ Notes' = Notes
  BY <1>1, <1>3, <1>5 DEF Noted, Notes
<1>10. OneSession' /\ PageFollows'
  BY <1>1, <1>3, <1>4, <1>5, <1>8, <1>9
  DEF OneSession, PageFollows, Starting, Stopping, Noted
<1>11. page' \in PageSet
  BY <1>1 DEF PageSet
<1>12. QED
  BY <1>1, <1>2, <1>5, <1>8, <1>9, <1>10, <1>11, PageFacts, PageStepKeeps

\* An operation that is neither a start nor a stop is put behind the others.
LEMMA CancelPushed ==
  ASSUME RecorderInv, ~CleanupQueued, NEW after \in {"none", "clear", "clearAndReturn"},
         chain' = Append(chain, Op("cancel", 0, after)), used' = used
  PROVE  /\ chain' \in Seq(Ops) /\ QueueInv' /\ ~CleanupQueued'
         /\ (StartQueued' <=> StartQueued) /\ (StopQueued' <=> StopQueued)
<1>1. PICK o \in Ops : o = Op("cancel", 0, after)
  BY DEF Op, Ops, Afters
<1>2. Shaped(o, used') /\ o.kind = "cancel"
  BY <1>1 DEF Op, Shaped
<1>3. QED
  BY <1>1, <1>2, QueuePushed, PageFacts

LEMMA TapCancelKeeps ==
  ASSUME RecorderInv, TapCancel
  PROVE  RecorderInv'
<1>1. /\ Calm /\ chain' = Append(chain, Op("cancel", 0, "clearAndReturn"))
      /\ UNCHANGED <<rec, disk, ctl, op, answers, mic, page, asking, draft, sent, forgotten, used>>
  BY DEF TapCancel, Enqueue, pageVars
<1>2. ~CleanupQueued /\ (op.kind = "none" => Recording \/ Resting)
  BY <1>1, CalmIdle
<1>3. AnswerInv' /\ (Started' <=> Started) /\ Held' = Held
  BY <1>1, AnswersKept, PageFacts
<1>4. /\ chain' \in Seq(Ops) /\ QueueInv' /\ ~CleanupQueued'
      /\ (StartQueued' <=> StartQueued) /\ (StopQueued' <=> StopQueued)
  BY <1>1, <1>2, CancelPushed
<1>5. (Noted' <=> Noted) /\ Notes' = Notes
  BY <1>1, <1>3 DEF Noted, Notes
<1>6. OneSession' /\ PageFollows'
  BY <1>1, <1>3, <1>4, <1>5, PageFacts DEF OneSession, PageFollows, Starting, Stopping
<1>7. QED
  BY <1>1, <1>2, <1>3, <1>4, <1>5, <1>6, PageFacts, PageStepKeeps

LEMMA TapResetKeeps ==
  ASSUME RecorderInv, TapReset
  PROVE  RecorderInv'
<1>1. /\ Calm /\ page = "error" /\ page' = "idle" /\ ClearDraft
      /\ UNCHANGED <<rec, ctl, op, chain, answers, mic, asking, sent, forgotten, used>>
  BY DEF TapReset, ctlVars
<1>2. answers = <<>> /\ ~CleanupQueued /\ (op.kind = "none" => Recording \/ Resting)
  BY <1>1, CalmIdle DEF Calm
<1>3. /\ ~asking /\ ~Starting /\ ~Stopping /\ ~Noted /\ ctl.phase # "recording"
      /\ draft = 0 /\ sent = {} /\ forgotten = {} /\ Held = {}
  BY <1>1, PageFacts DEF PageFollows, Noted
<1>4. AnswerInv' /\ ~Started' /\ Held' = {}
  BY <1>1, <1>2, <1>3, AnswersKept, CalmFacts, PageFacts
<1>5. QueueInv' /\ ~StartQueued' /\ ~StopQueued' /\ ~CleanupQueued'
  BY <1>1, <1>2, <1>3, QueueKept, PageFacts DEF Starting, Stopping
<1>6. /\ draft' = 0 /\ DOMAIN disk' = DOMAIN disk
      /\ \A p \in DOMAIN disk' : disk'[p] = disk[p]
  BY <1>1, <1>3, DraftCleared, PageFacts
<1>7. ~Noted' /\ Notes' = Notes
  BY <1>1, <1>3, <1>4, <1>6 DEF Noted, Notes
<1>8. OneSession' /\ PageFollows'
  BY <1>1, <1>3, <1>4, <1>5, <1>7 DEF OneSession, PageFollows, Starting, Stopping
<1>9. page' \in PageSet
  BY <1>1 DEF PageSet
<1>10. QED
  BY <1>1, <1>2, <1>4, <1>5, <1>6, <1>7, <1>8, <1>9, PageFacts, PageStepKeeps

LEMMA TapRetryKeeps ==
  ASSUME RecorderInv, TapRetry
  PROVE  RecorderInv'
<1>1. /\ Calm /\ page = "sendFailed"
      /\ UNCHANGED <<rec, disk, ctl, op, chain, answers, mic, asking, draft, forgotten, used>>
  BY DEF TapRetry, ctlVars
<1>2. answers = <<>> /\ ~CleanupQueued /\ (op.kind = "none" => Recording \/ Resting)
  BY <1>1, CalmIdle DEF Calm
<1>3. \/ sent' = sent /\ page' = "sendFailed"
      \/ sent' = sent \cup {draft} /\ page' = "sending" /\ draft # 0
  BY <1>1 DEF TapRetry, SendDraft
<1>4. draft # 0 => ~asking /\ ~Starting /\ ~Stopping /\ ctl.phase # "recording"
  BY PageFacts DEF OneSession, Noted
<1>5. AnswerInv' /\ ~Started' /\ Held' = Held
  BY <1>1, <1>2, AnswersKept, CalmFacts, PageFacts
<1>6. /\ QueueInv' /\ ~CleanupQueued'
      /\ (StartQueued' <=> StartQueued) /\ (StopQueued' <=> StopQueued)
  BY <1>1, <1>2, QueueKept, PageFacts
<1>7. (Noted' <=> Noted) /\ Notes' = Notes /\ sent' \subseteq 1..MaxStarts
  BY <1>1, <1>3, <1>5, PageFacts DEF Noted, Notes
<1>8. Held' # {} => draft' = 0 /\ sent' = {} /\ forgotten' = {}
  BY <1>1, <1>3, <1>5, PageFacts DEF OneSession
<1>9. OneSession' /\ PageFollows' /\ page' \in PageSet
  <2>1. CASE sent' = sent /\ page' = "sendFailed"
    BY <1>1, <1>5, <1>6, <1>7, <1>8, <2>1, PageFacts
    DEF OneSession, PageFollows, Starting, Stopping, PageSet
  <2>2. CASE sent' = sent \cup {draft} /\ page' = "sending" /\ draft # 0
    BY <1>1, <1>4, <1>5, <1>6, <1>8, <2>2, PageFacts
    DEF OneSession, PageFollows, Starting, Stopping, PageSet
  <2>3. QED
    BY <1>3, <2>1, <2>2
<1>10. QED
  BY <1>1, <1>2, <1>5, <1>6, <1>7, <1>9, PageFacts, PageStepKeeps

LEMMA LeaveKeeps ==
  ASSUME RecorderInv, Leave
  PROVE  RecorderInv'
<1>1. /\ Calm /\ page' = "gone" /\ chain' = Append(chain, Release)
      /\ UNCHANGED <<rec, disk, ctl, op, answers, mic, asking, draft, sent, forgotten, used>>
  BY DEF Leave, Enqueue
<1>2. ~CleanupQueued /\ (op.kind = "none" => Recording \/ Resting)
  BY <1>1, CalmIdle
<1>3. AnswerInv' /\ (Started' <=> Started) /\ Held' = Held
  BY <1>1, AnswersKept, PageFacts
<1>4. PICK after \in {"none", "clear", "clearAndReturn"} : Release = Op("cancel", 0, after)
  BY DEF Release
<1>5. /\ chain' \in Seq(Ops) /\ QueueInv' /\ ~CleanupQueued'
      /\ (StartQueued' <=> StartQueued) /\ (StopQueued' <=> StopQueued)
  BY <1>1, <1>2, <1>4, CancelPushed
<1>6. (Noted' <=> Noted) /\ Notes' = Notes
  BY <1>1, <1>3 DEF Noted, Notes
<1>7. OneSession' /\ PageFollows' /\ page' \in PageSet
  BY <1>1, <1>3, <1>5, <1>6, PageFacts DEF OneSession, PageFollows, Starting, Stopping, PageSet
<1>8. QED
  BY <1>1, <1>2, <1>3, <1>5, <1>6, <1>7, PageFacts, PageStepKeeps

\* Another message's answer may come at any moment of the page: a draft TDLib has not taken
\* goes from one set of notes into another.
LEMMA MessageSentKeeps ==
  ASSUME RecorderInv, MessageSent
  PROVE  RecorderInv'
<1>1. /\ Calm /\ draft' = 0 /\ page' = "gone"
      /\ forgotten' = forgotten \cup ({draft} \ (sent \cup {0}))
      /\ chain' = Append(chain, Release)
      /\ UNCHANGED <<rec, disk, ctl, op, answers, mic, asking, sent, used>>
  BY DEF MessageSent, Enqueue
<1>2. answers = <<>> /\ ~CleanupQueued /\ (op.kind = "none" => Recording \/ Resting)
  BY <1>1, CalmIdle DEF Calm
<1>3. AnswerInv' /\ (Started' <=> Started) /\ Held' = Held /\ Held = {}
  BY <1>1, <1>2, AnswersKept, CalmFacts, PageFacts
<1>4. PICK after \in {"none", "clear", "clearAndReturn"} : Release = Op("cancel", 0, after)
  BY DEF Release
<1>5. /\ chain' \in Seq(Ops) /\ QueueInv' /\ ~CleanupQueued'
      /\ (StartQueued' <=> StartQueued) /\ (StopQueued' <=> StopQueued)
  BY <1>1, <1>2, <1>4, CancelPushed
<1>6. (Noted' => Noted) /\ Notes' = Notes \cup {0}
  BY <1>1, <1>3 DEF Noted, Notes
<1>7. forgotten' \subseteq 1..MaxStarts
  BY <1>1, Bounds, PageFacts
<1>8. OneSession' /\ PageFollows' /\ page' \in PageSet
  BY <1>1, <1>3, <1>5, <1>6, PageFacts DEF OneSession, PageFollows, Starting, Stopping, PageSet
<1>9. QED
  BY <1>1, <1>2, <1>3, <1>5, <1>6, <1>7, <1>8, PageFacts, PageStepKeeps

LEMMA MessageRefusedKeeps ==
  ASSUME RecorderInv, MessageRefused
  PROVE  RecorderInv'
<1>1. /\ Calm /\ page # "gone" /\ page' = "sendFailed"
      /\ UNCHANGED <<rec, disk, ctl, op, chain, answers, mic, asking, draft, sent, forgotten, used>>
  BY DEF MessageRefused, ctlVars
<1>2. answers = <<>> /\ ~CleanupQueued /\ (op.kind = "none" => Recording \/ Resting)
  BY <1>1, CalmIdle DEF Calm
<1>3. AnswerInv' /\ ~Started' /\ Held' = Held
  BY <1>1, <1>2, AnswersKept, CalmFacts, PageFacts
<1>4. /\ QueueInv' /\ ~CleanupQueued'
      /\ (StartQueued' <=> StartQueued) /\ (StopQueued' <=> StopQueued)
  BY <1>1, <1>2, QueueKept, PageFacts
<1>5. (Noted' <=> Noted) /\ Notes' = Notes
  BY <1>1, <1>3 DEF Noted, Notes
<1>6. OneSession' /\ PageFollows' /\ page' \in PageSet
  BY <1>1, <1>3, <1>4, <1>5, PageFacts DEF OneSession, PageFollows, Starting, Stopping, PageSet
<1>7. QED
  BY <1>1, <1>2, <1>3, <1>4, <1>5, <1>6, PageFacts, PageStepKeeps

\* Only a recording that nothing is about to end has a timer, so the page it is shown on has
\* neither a question nor a note.
LEMMA ElapsedTickKeeps ==
  ASSUME RecorderInv, ElapsedTick
  PROVE  RecorderInv'
<1>1. /\ Calm /\ ctl.phase = "recording" /\ ctl.cap /\ page' \in {"recording", "gone"}
      /\ UNCHANGED <<rec, disk, ctl, op, chain, answers, mic, asking, draft, sent, forgotten, used>>
  BY DEF ElapsedTick, PageSees, ctlVars
<1>2. answers = <<>> /\ ~CleanupQueued /\ (op.kind = "none" => Recording \/ Resting)
  BY <1>1, CalmIdle DEF Calm
<1>3. op.kind = "none"
  BY <1>1, TypeParts DEF RecorderInv, InStart, InStop, InCancel, OpSet
<1>4. chain = <<>>
  BY <1>1, <1>3, CalmIdle
<1>5. ~StartQueued /\ ~StopQueued
  BY <1>4 DEF StartQueued, StopQueued
<1>6. ~asking /\ ~Starting /\ ~Stopping /\ ~Noted
  BY <1>1, <1>3, <1>5, PageFacts DEF OneSession, Starting, Stopping
<1>7. AnswerInv' /\ ~Started' /\ Held' = Held
  BY <1>1, <1>2, AnswersKept, CalmFacts, PageFacts
<1>8. QueueInv' /\ ~StartQueued' /\ ~StopQueued' /\ ~CleanupQueued'
  BY <1>1, <1>2, <1>5, QueueKept, PageFacts
<1>9. ~Noted' /\ Notes' = Notes
  BY <1>1, <1>6, <1>7 DEF Noted, Notes
<1>10. OneSession' /\ PageFollows' /\ page' \in PageSet
  BY <1>1, <1>3, <1>6, <1>7, <1>8, <1>9, PageFacts
  DEF OneSession, PageFollows, Starting, Stopping, PageSet, Noted
<1>11. QED
  BY <1>1, <1>2, <1>7, <1>8, <1>9, <1>10, PageFacts, PageStepKeeps

LEMMA CallerContinuesKeeps ==
  ASSUME RecorderInv, CallerContinues
  PROVE  RecorderInv'
<1>1. /\ answers # <<>> /\ (op.at # "idle" \/ chain = <<>>) /\ answers' = Tail(answers)
      /\ UNCHANGED <<rec, ctl, op, mic, asking, forgotten, used>>
  BY DEF CallerContinues
<1>2. ~CleanupQueued /\ (op.kind = "none" => Recording \/ Resting)
  BY <1>1 DEF RecorderInv, InCancel, BetweenOps, Failing, CleanupNext
<1>3. PICK a \in AnswerSet : a = Head(answers)
  BY <1>1, Popped, PageFacts
<1>4. CASE a.after = "started"
  <2>1. /\ page' = IF a.ok /\ page # "gone" THEN "recording"
                   ELSE IF page = "requesting" THEN "error" ELSE page
        /\ UNCHANGED <<draft, sent, disk, chain>>
    BY <1>3, <1>4 DEF CallerContinues
  <2>2. Started /\ page \in IF a.ok THEN {"recording", "gone"} ELSE {"requesting", "error", "gone"}
    BY <1>1, <1>3, <1>4, Popped, PageFacts DEF Started, AnswerInv
  <2>3. page' = page \/ (page = "requesting" /\ page' = "error")
    BY <2>1, <2>2
  <2>4. ~HeldBy(a)
    BY <1>4 DEF HeldBy
  <2>5. answers' \in Seq(AnswerSet) /\ AnswerInv' /\ (Started' => Started) /\ Held' = Held
    BY <1>1, <1>3, <2>3, <2>4, AnswerPopped, PageFacts
  <2>6. ~asking /\ ~Starting /\ ~Stopping /\ ~Noted
    BY <2>2, PageFacts DEF OneSession
  <2>7. /\ chain' \in Seq(Ops) /\ QueueInv' /\ ~CleanupQueued'
        /\ (StartQueued' <=> StartQueued) /\ (StopQueued' <=> StopQueued)
    BY <1>1, <1>2, <2>1, QueueKept, PageFacts
  <2>8. (Noted' <=> Noted) /\ Notes' = Notes
    BY <1>1, <2>1, <2>5 DEF Noted, Notes
  <2>9. OneSession' /\ PageFollows' /\ page' \in PageSet
    BY <1>1, <2>1, <2>3, <2>5, <2>6, <2>7, <2>8, PageFacts
    DEF OneSession, PageFollows, Starting, Stopping, PageSet
  <2>10. QED
    BY <1>1, <1>2, <2>1, <2>5, <2>7, <2>8, <2>9, PageFacts, PageStepKeeps
<1>5. CASE a.after = "stopped" /\ a.ok
  <2>1. /\ draft' = a.path /\ UNCHANGED <<disk, chain>>
        /\ \E taken \in BOOLEAN : SendDraft(a.path, taken)
    BY <1>3, <1>5 DEF CallerContinues
  <2>2. HeldBy(a)
    BY <1>5 DEF HeldBy
  <2>3. Noted /\ ~asking /\ ~Starting /\ ~Stopping /\ ~Started /\ ctl.phase # "recording"
    <3>1. a.path \in Held
      BY <1>1, <1>3, <2>2, Popped, PageFacts DEF Held
    <3>2. QED
      BY <3>1, PageFacts DEF Noted, OneSession
  <2>4. /\ sent' \in {sent, sent \cup {a.path}}
        /\ page' \in {"gone", "sending", "sendFailed"}
        /\ page' = "sending" => sent' = sent \cup {a.path}
    BY <2>1, <2>3 DEF SendDraft, PageFollows
  <2>5. \A i \in 1..Len(answers) : answers[i].after # "started"
    BY <2>3 DEF Started
  <2>6. ~Started'
    BY <1>1, <2>5, Popped, PageFacts DEF Started
  <2>7. /\ answers' \in Seq(AnswerSet) /\ AnswerInv'
        /\ a.path # 0 /\ Held = {a.path} /\ Held' = {}
    BY <1>1, <1>3, <2>2, <2>6, AnswerPopped, PageFacts
  <2>8. draft = 0 /\ sent = {} /\ forgotten = {}
    BY <2>7, PageFacts DEF OneSession
  <2>9. Noted' /\ Notes = {0, a.path} /\ Notes' = {a.path}
    BY <1>1, <2>1, <2>4, <2>7, <2>8 DEF Noted, Notes
  <2>10. /\ chain' \in Seq(Ops) /\ QueueInv' /\ ~CleanupQueued'
         /\ (StartQueued' <=> StartQueued) /\ (StopQueued' <=> StopQueued)
    BY <1>1, <1>2, <2>1, QueueKept, PageFacts
  <2>11. OneSession'
    BY <1>1, <2>3, <2>6, <2>7, <2>10, PageFacts DEF OneSession, Starting, Stopping
  <2>12. PageFollows' /\ page' \in PageSet
    BY <1>1, <2>1, <2>3, <2>4, <2>10 DEF PageFollows, Starting, Stopping, PageSet
  <2>13. a.path \in 0..MaxStarts /\ sent' \subseteq 1..MaxStarts /\ draft' \in 0..MaxStarts
    BY <2>1, <2>4, <2>7, <2>8, Bounds DEF AnswerSet
  <2>14. DOMAIN disk' \subseteq {rec.path} \cup Notes' /\ ~rec.active
    BY <2>1, <2>3, <2>9, PageFacts
  <2>15. QED
    BY <1>1, <1>2, <2>1, <2>7, <2>9, <2>10, <2>11, <2>12, <2>13, <2>14, PageFacts, PageStepKeeps
<1>6. CASE a.after \in {"clear", "clearAndReturn"}
  <2>1. /\ ClearDraft /\ sent' = sent /\ page' \in {page, "gone"}
        /\ \/ chain' = chain
           \/ \E after \in {"none", "clear"} : chain' = Append(chain, Op("cancel", 0, after))
    BY <1>3, <1>6 DEF CallerContinues, Release
  <2>2. ~HeldBy(a)
    BY <1>6 DEF HeldBy
  <2>3. answers' \in Seq(AnswerSet) /\ AnswerInv' /\ (Started' => Started) /\ Held' = Held
    BY <1>1, <1>3, <2>1, <2>2, AnswerPopped, PageFacts
  <2>4. /\ chain' \in Seq(Ops) /\ QueueInv' /\ ~CleanupQueued'
        /\ (StartQueued' <=> StartQueued) /\ (StopQueued' <=> StopQueued)
    <3>1. CASE chain' = chain
      BY <1>1, <1>2, <3>1, QueueKept, PageFacts
    <3>2. CASE \E after \in {"none", "clear"} : chain' = Append(chain, Op("cancel", 0, after))
      BY <1>1, <1>2, <3>2, CancelPushed
    <3>3. QED
      BY <2>1, <3>1, <3>2
  <2>5. /\ draft' = 0 /\ DOMAIN disk' = DOMAIN disk \ {draft}
        /\ \A p \in DOMAIN disk' : disk'[p] = disk[p]
        /\ rec.active => rec.path \in DOMAIN disk'
    BY <2>1, DraftCleared
  <2>6. (Noted' => Noted) /\ Notes' \ {0} \subseteq Notes /\ Notes \subseteq Notes' \cup {draft}
    BY <1>1, <2>1, <2>3, <2>5 DEF Noted, Notes
  <2>7. OneSession' /\ PageFollows' /\ page' \in PageSet
    BY <1>1, <2>1, <2>3, <2>4, <2>5, <2>6, PageFacts
    DEF OneSession, PageFollows, Starting, Stopping, PageSet
  <2>8. QED
    BY <1>1, <1>2, <2>1, <2>3, <2>4, <2>5, <2>6, <2>7, PageFacts, PageStepKeeps
<1>7. CASE a.after = "none" \/ (a.after = "stopped" /\ ~a.ok)
  <2>1. UNCHANGED <<page, draft, sent, disk, chain>>
    BY <1>3, <1>7 DEF CallerContinues
  <2>2. ~HeldBy(a)
    BY <1>7 DEF HeldBy
  <2>3. answers' \in Seq(AnswerSet) /\ AnswerInv' /\ (Started' => Started) /\ Held' = Held
    BY <1>1, <1>3, <2>1, <2>2, AnswerPopped, PageFacts
  <2>4. /\ chain' \in Seq(Ops) /\ QueueInv' /\ ~CleanupQueued'
        /\ (StartQueued' <=> StartQueued) /\ (StopQueued' <=> StopQueued)
    BY <1>1, <1>2, <2>1, QueueKept, PageFacts
  <2>5. (Noted' <=> Noted) /\ Notes' = Notes
    BY <1>1, <2>1, <2>3 DEF Noted, Notes
  <2>6. OneSession' /\ PageFollows'
    BY <1>1, <2>1, <2>3, <2>4, <2>5, PageFacts DEF OneSession, PageFollows, Starting, Stopping
  <2>7. QED
    BY <1>1, <1>2, <2>1, <2>3, <2>4, <2>5, <2>6, PageFacts, PageStepKeeps
<1>8. a.after \in Afters
  BY DEF AnswerSet
<1>9. QED
  BY <1>4, <1>5, <1>6, <1>7, <1>8 DEF Afters

-----------------------------------------------------------------------------
(* The theorems *)

LEMMA RecorderInvHolds == Init => RecorderInv
<1>1. SUFFICES ASSUME Init PROVE RecorderInv
  OBVIOUS
<1>2. /\ rec = Idle /\ DOMAIN disk = {} /\ op = NoOp /\ chain = <<>> /\ answers = <<>>
      /\ ctl = [phase |-> "idle", cap |-> FALSE, path |-> 0, native |-> FALSE,
                scheduled |-> FALSE, failed |-> FALSE, heard |-> 0]
      /\ mic = FALSE /\ page = "idle" /\ asking = FALSE /\ draft = 0 /\ used = 0
      /\ sent = {} /\ forgotten = {}
  BY <1>1 DEF Init
<1>3. RecorderTypeOK
  <2>1. chain \in Seq(Ops) /\ answers \in Seq(AnswerSet)
    BY <1>2, EmptySeq
  <2>2. rec \in RecSet /\ ctl \in CtlSet /\ op \in OpSet /\ page \in PageSet
    BY <1>2, Bounds DEF RecSet, CtlSet, OpSet, PageSet, Idle, NoOp, Afters
  <2>3. draft \in 0..MaxStarts /\ used \in 0..MaxStarts
    BY <1>2, Bounds
  <2>4. /\ mic \in BOOLEAN /\ asking \in BOOLEAN
        /\ DOMAIN disk \subseteq 1..MaxStarts
        /\ sent \subseteq 1..MaxStarts /\ forgotten \subseteq 1..MaxStarts
    BY <1>2
  <2>5. QED
    BY <2>1, <2>2, <2>3, <2>4, TypeParts
<1>4. QueueInv /\ AnswerInv /\ OpInv
  BY <1>2 DEF QueueInv, AnswerInv, OpInv, Shaped, NoOp
<1>5. Held = {} /\ ~Started /\ ~StartQueued /\ ~StopQueued /\ ~CleanupQueued
  BY <1>2 DEF Held, Started, StartQueued, StopQueued, CleanupQueued
<1>6. ~Noted /\ Notes = {0} /\ ~Starting /\ ~Stopping
  BY <1>2, <1>5 DEF Noted, Notes, Starting, Stopping, NoOp
<1>7. OneSession /\ PageFollows
  BY <1>2, <1>5, <1>6 DEF OneSession, PageFollows
<1>8. BetweenOps /\ InStart /\ InStop /\ InCancel
  BY <1>2, <1>5 DEF BetweenOps, InStart, InStop, InCancel, Resting, NativeRests, NoOp
<1>9. FileFollows /\ Files
  BY <1>2 DEF FileFollows, Files, Idle
<1>10. QED
  BY <1>3, <1>4, <1>7, <1>8, <1>9 DEF RecorderInv

LEMMA StutterKeeps ==
  ASSUME RecorderInv, UNCHANGED vars
  PROVE  RecorderInv'
<1>1. /\ UNCHANGED <<rec, disk, ctl, op, chain, answers, mic>>
      /\ UNCHANGED <<page, asking, draft, sent, forgotten, used>>
  BY DEF vars, ctlVars, pageVars
<1>2. AnswerInv' /\ (Started' <=> Started) /\ Held' = Held
  BY <1>1, AnswersKept, PageFacts
<1>3. /\ QueueInv' /\ (CleanupQueued' <=> CleanupQueued)
      /\ (StartQueued' <=> StartQueued) /\ (StopQueued' <=> StopQueued)
  BY <1>1, QueueKept, PageFacts
<1>4. (Noted' <=> Noted) /\ Notes' = Notes
  BY <1>1, <1>2 DEF Noted, Notes
<1>5. OneSession' /\ PageFollows' /\ OpInv'
  BY <1>1, <1>2, <1>3, <1>4
  DEF RecorderInv, OneSession, PageFollows, Starting, Stopping, OpInv, Shaped
<1>6. BetweenOps' /\ InStart' /\ InStop' /\ InCancel'
  BY <1>1, <1>3
  DEF RecorderInv, BetweenOps, InStart, InStop, InCancel, Recording, Resting, Failing,
      NativeRuns, NativeRests, Broken, CleanupNext
<1>7. FileFollows' /\ Files'
  BY <1>1, <1>4, FilesKept, FileFollowsKept DEF RecorderInv, FileFollows
<1>8. RecorderTypeOK'
  BY <1>1, TypeParts, TypePartsNext DEF RecorderInv
<1>9. QED
  BY <1>2, <1>3, <1>5, <1>6, <1>7, <1>8 DEF RecorderInv

LEMMA StepKeeps ==
  ASSUME RecorderInv, [Next]_vars
  PROVE  RecorderInv'
<1>1. CASE Microtasks
  BY <1>1, BeginStartKeeps, BeginStopKeeps, BeginCancelKeeps, CallerContinuesKeeps DEF Microtasks
<1>2. CASE Platform
  BY <1>2, CapturerCreatedKeeps, CapturerStartedKeeps, StartUndoneKeeps, CapturerStoppedKeeps,
     CancelReleasedKeeps, StopEndsKeeps DEF Platform
<1>3. CASE \E n \in Buffers, ok \in BOOLEAN : ReadData(n, ok)
  BY <1>3, ReadDataKeeps
<1>4. CASE TapStart \/ TapSend \/ TapCancel \/ TapReset \/ TapRetry
  BY <1>4, TapStartKeeps, TapSendKeeps, TapCancelKeeps, TapResetKeeps, TapRetryKeeps
<1>5. CASE \E granted \in BOOLEAN : PermissionAnswered(granted)
  BY <1>5, PermissionAnsweredKeeps
<1>6. CASE Leave \/ MessageSent \/ MessageRefused \/ ElapsedTick
  BY <1>6, LeaveKeeps, MessageSentKeeps, MessageRefusedKeeps, ElapsedTickKeeps
<1>7. CASE UNCHANGED vars
  BY <1>7, StutterKeeps
<1>8. QED
  BY <1>1, <1>2, <1>3, <1>4, <1>5, <1>6, <1>7 DEF Next

THEOREM RecorderInvariant == Spec => []RecorderInv
<1>1. Init => RecorderInv
  BY RecorderInvHolds
<1>2. RecorderInv /\ [Next]_vars => RecorderInv'
  BY StepKeeps
<1>3. QED
  BY <1>1, <1>2, PTL DEF Spec

\* RecorderTypeOK: the variables keep their types; no path is used twice or beyond those given
\* out, and the recorder never counts more than its limit (WriteVoiceFrame refuses before).
THEOREM RecorderTypeCorrect == Spec => []RecorderTypeOK
<1>1. RecorderInv => RecorderTypeOK
  BY DEF RecorderInv
<1>2. QED
  BY <1>1, RecorderInvariant, PTL

\* PhaseIsTruth: between operations the controller, its capturer, the microphone and the native
\* recorder agree, whichever of the platform's promises, native calls and buffers were refused
\* (BetweenOps; a cleanup that waits is an operation).
THEOREM PhaseAlwaysTruth == Spec => []PhaseIsTruth
<1>1. ASSUME RecorderInv PROVE PhaseIsTruth
  <2>1. SUFFICES ASSUME AtRest
                 PROVE  /\ mic <=> ctl.phase = "recording"
                        /\ ctl.native <=> ctl.phase = "recording"
                        /\ rec.active <=> ctl.phase = "recording"
                        /\ ctl.phase = "recording" => ctl.cap /\ ctl.path # 0 /\ rec.path = ctl.path
    BY DEF PhaseIsTruth
  <2>2. op.kind = "none" /\ chain # <<Op("failure", 0, "none")>>
    BY <1>1, <2>1, IdleFacts DEF AtRest
  <2>3. Recording \/ Resting
    BY <1>1, <2>2 DEF RecorderInv, BetweenOps, Failing, CleanupNext
  <2>4. mic \in BOOLEAN /\ ctl.native \in BOOLEAN /\ rec.active \in BOOLEAN
    BY <1>1, TypeParts DEF RecorderInv, CtlSet, RecSet
  <2>5. QED
    BY <2>3, <2>4 DEF Recording, Resting, NativeRuns, NativeRests, Idle
<1>2. QED
  BY <1>1, RecorderInvariant, PTL

\* NoFileLeftBehind: with nothing under way a file is being recorded, is the draft, was given to
\* TDLib, or is a draft that another message's confirmation took from a page whose note TDLib had
\* not taken (Files, with no caller to come).
THEOREM NoFileEverLeft == Spec => []NoFileLeftBehind
<1>1. ASSUME RecorderInv PROVE NoFileLeftBehind
  <2>1. SUFFICES ASSUME AtRest
                 PROVE  DOMAIN disk \subseteq {rec.path, draft} \cup sent \cup forgotten
    BY DEF NoFileLeftBehind
  <2>2. Held = {}
    BY <2>1, CalmFacts DEF AtRest
  <2>3. QED
    BY <1>1, <2>2 DEF RecorderInv, Files, Notes
<1>2. QED
  BY <1>1, RecorderInvariant, PTL

\* A stop() that ends with a file has written all the controller heard into it.
LEMMA StepLosesNothing ==
  ASSUME RecorderInv, [Next]_vars, NEW p \in DOMAIN disk',
         op.kind = "stop", op'.kind = "none", p = op.path
  PROVE  Last(disk'[p]).granule = ctl.heard + Preskip
<1>1. CASE \E ok, native \in BOOLEAN : StopReleased(ok, native)
  <2>1. PICK ok \in BOOLEAN, native \in BOOLEAN : StopReleased(ok, native)
    BY <1>1
  <2>2. QED
    BY <2>1, StopLeaves
<1>2. op.at \in {"stop", "release"} /\ answers \in Seq(AnswerSet) /\ op \in OpSet
  BY TypeParts DEF RecorderInv, OpInv
<1>3. CASE Microtasks
  BY <1>2, <1>3
  DEF Microtasks, BeginStart, BeginStop, BeginCancel, Takes, CallerContinues
<1>4. CASE Platform /\ ~(\E ok, native \in BOOLEAN : StopReleased(ok, native))
  BY <1>2, <1>4
  DEF Platform, CapturerCreated, CapturerStarted, StartUndone, CapturerStopped, CancelReleased,
      Settles, OpSet
<1>5. CASE \E n \in Buffers, ok \in BOOLEAN : ReadData(n, ok)
  BY <1>5 DEF ReadData
<1>6. CASE TapStart \/ TapSend \/ TapCancel \/ TapReset \/ TapRetry
  BY <1>6 DEF TapStart, TapSend, TapCancel, TapReset, TapRetry, ctlVars
<1>7. CASE \E granted \in BOOLEAN : PermissionAnswered(granted)
  BY <1>7 DEF PermissionAnswered
<1>8. CASE Leave \/ MessageSent \/ MessageRefused \/ ElapsedTick
  BY <1>8 DEF Leave, MessageSent, MessageRefused, ElapsedTick, ctlVars
<1>9. CASE UNCHANGED vars
  BY <1>9 DEF vars, ctlVars
<1>10. QED
  BY <1>1, <1>3, <1>4, <1>5, <1>6, <1>7, <1>8, <1>9 DEF Next

\* NoteIsWhole: a voice note that is handed over is a complete Ogg stream with the recording's
\* samples to the last one the controller heard (Files for the draft and what was sent,
\* StopLeaves for the moment the file is closed).
THEOREM NoteAlwaysWhole == Spec => NoteIsWhole
<1>1. RecorderInv => HandedOverWhole
  BY DEF RecorderInv, Files, Notes, HandedOverWhole
<1>2. ASSUME RecorderInv, [Next]_vars
      PROVE  \A p \in DOMAIN disk' : op.kind = "stop" /\ op'.kind = "none" /\ p = op.path =>
               Last(disk'[p]).granule = ctl.heard + Preskip
  BY <1>2, StepLosesNothing
<1>3. QED
  BY <1>1, <1>2, RecorderInvariant, PTL DEF Spec, NoteIsWhole, NothingLost
=============================================================================
