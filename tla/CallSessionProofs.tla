-------------------------- MODULE CallSessionProofs ---------------------------
(***************************************************************************)
(* Proofs about VoipBackgroundTask and CallSession, for every set of       *)
(* calls, width of the id, number of packets and length of the promise     *)
(* chain.                                                                  *)
(*                                                                         *)
(* The promise chain comes first, as the session relies on it.             *)
(* LastCallWins is not inductive: what the last call asked for is, while   *)
(* operations are pending, known to the chain only, and the flag and the   *)
(* system differ while an answer of the host waits for its continuation.   *)
(* VoipInv says both.  The step lemmas cover a chained call, a step of the *)
(* chain and a stutter, so that the session can use them for its own       *)
(* steps: each is a step of the chain or leaves it alone.                  *)
(*                                                                         *)
(* None of the safety properties of CallSession is inductive either.       *)
(* Between its critical sections a handler leaves ids, table and task at   *)
(* different stages, and what the next section relies on is what the       *)
(* earlier ones did: StageInv and TaskInv say, for each stage, what holds  *)
(* there.  At the end, each step of the session is one of SignalingRelay   *)
(* or a stutter.                                                           *)
(***************************************************************************)
EXTENDS CallSession, TgCallNativeProofs, FiniteSetTheorems

-----------------------------------------------------------------------------
(* The promise chain of the continuous task *)

Needed == step # "queued" =>
  /\ inflight # <<>>
  /\ running <=> Head(inflight) = "stop"

HostDone == step = "done" => (systemTask <=> Head(inflight) = "start")

WantedIsLast == inflight # <<>> => (wanted <=> inflight[Len(inflight)] = "start")

VoipInv ==
  /\ VoipTypeOK
  /\ FlagIsTruth
  /\ Needed
  /\ HostDone
  /\ WantedIsLast
  /\ LastCallWins

\* What a chain of operations looks like after one is added or taken away.
LEMMA ChainAppend ==
  ASSUME NEW S, NEW s \in Seq(S), NEW e \in S
  PROVE  /\ s \o <<e>> \in Seq(S)
         /\ s \o <<e>> # <<>>
         /\ (s \o <<e>>)[Len(s \o <<e>>)] = e
         /\ s # <<>> => Head(s \o <<e>>) = Head(s)
  OBVIOUS

LEMMA ChainTail ==
  ASSUME NEW S, NEW s \in Seq(S), s # <<>>
  PROVE  /\ Tail(s) \in Seq(S)
         /\ Head(s) \in S
         /\ Tail(s) # <<>> => Tail(s)[Len(Tail(s))] = s[Len(s)]
         /\ Tail(s) = <<>> => s[Len(s)] = Head(s)
<1>1. /\ Tail(s) \in Seq(S) /\ Head(s) \in S
      /\ Len(Tail(s)) = Len(s) - 1
      /\ \A i \in 1..Len(Tail(s)) : Tail(s)[i] = s[i + 1]
  BY HeadTailProperties
<1>2. Len(s) \in Nat /\ Len(s) # 0
  BY EmptySeq
<1>3. Tail(s) # <<>> => Len(Tail(s)) \in Nat \ {0}
  BY <1>1, EmptySeq
<1>4. Tail(s) = <<>> => Len(s) = 1
  <2>1. Tail(s) = <<>> => Len(Tail(s)) = 0
    BY <1>1, EmptySeq, Zenon
  <2>2. QED
    BY ONLY <1>1, <1>2, <2>1
<1>5. Head(s) = s[1]
  OBVIOUS
<1>6. QED
  BY <1>1, <1>2, <1>3, <1>4, <1>5

\* The initial state satisfies the invariant.
LEMMA VoipInitInv == VoipInit => VoipInv
<1> SUFFICES ASSUME VoipInit PROVE VoipInv
  OBVIOUS
<1> USE DEF VoipInit
<1>1. VoipTypeOK
  BY EmptySeq DEF VoipTypeOK, Operations, Steps
<1>2. FlagIsTruth /\ Needed /\ HostDone
  BY DEF FlagIsTruth, Needed, HostDone
<1>3. WantedIsLast /\ LastCallWins
  BY DEF WantedIsLast, LastCallWins
<1>4. QED
  BY <1>1, <1>2, <1>3 DEF VoipInv

\* A call of start() or stop() preserves it.
LEMMA ChainInv ==
  ASSUME VoipInv, NEW op \in Operations, Chain(<<op>>)
  PROVE  VoipInv'
<1>1. /\ inflight' = inflight \o <<op>>
      /\ wanted' = (op = "start")
      /\ UNCHANGED <<running, step, systemTask, refused>>
  BY DEF Chain
<1>2. inflight \in Seq(Operations)
  BY DEF VoipInv, VoipTypeOK
<1>3. /\ inflight' \in Seq(Operations)
      /\ inflight' # <<>>
      /\ inflight'[Len(inflight')] = op
      /\ inflight # <<>> => Head(inflight') = Head(inflight)
  BY <1>1, <1>2, ChainAppend
<1>4. QED
  BY <1>1, <1>3 DEF VoipInv, VoipTypeOK, FlagIsTruth, Needed, HostDone,
                    WantedIsLast, LastCallWins

\* So does every step of the chain.
LEMMA StepInv ==
  ASSUME VoipInv, VoipStep
  PROVE  VoipInv'
<1> USE DEF Working, Operations, Steps
<1>1. inflight \in Seq(Operations)
  BY DEF VoipInv, VoipTypeOK
<1>2. CASE AlreadyThere \/ Resume
  <2>1. /\ inflight # <<>>
        /\ inflight' = Tail(inflight)
        /\ step' = "queued"
        /\ UNCHANGED <<systemTask, wanted>>
        /\ refused' \in BOOLEAN
    BY <1>2 DEF AlreadyThere, Resume, Finish, VoipInv, Needed
  <2>2. /\ inflight' \in Seq(Operations)
        /\ Head(inflight) \in Operations
        /\ inflight' # <<>> => inflight'[Len(inflight')] = inflight[Len(inflight)]
        /\ inflight' = <<>> => inflight[Len(inflight)] = Head(inflight)
    BY <1>1, <2>1, ChainTail
  <2>3. running' \in BOOLEAN /\ running' = systemTask
    BY <1>2, <2>2 DEF AlreadyThere, Resume, VoipInv, VoipTypeOK, FlagIsTruth,
                      Needed, HostDone
  <2>4. ~refused' => (running' <=> Head(inflight) = "start")
    BY <1>2, <2>2 DEF AlreadyThere, Resume, Finish, VoipInv, VoipTypeOK, Needed
  <2>5. VoipTypeOK' /\ FlagIsTruth' /\ Needed' /\ HostDone'
    BY <2>1, <2>2, <2>3 DEF VoipInv, VoipTypeOK, FlagIsTruth, Needed, HostDone
  <2>6. WantedIsLast'
    BY <2>1, <2>2 DEF VoipInv, WantedIsLast
  <2>7. LastCallWins'
    BY <2>1, <2>2, <2>3, <2>4 DEF VoipInv, VoipTypeOK, WantedIsLast, LastCallWins
  <2>8. QED
    BY <2>5, <2>6, <2>7 DEF VoipInv
<1>3. CASE AskHost
  <2>1. Head(inflight) \in Operations
    BY <1>1, <1>3, ChainTail DEF AskHost
  <2>2. QED
    BY <1>3, <2>1 DEF AskHost, VoipInv, VoipTypeOK, FlagIsTruth, Needed, HostDone,
                      WantedIsLast, LastCallWins
<1>4. CASE HostPerforms
  BY <1>4 DEF HostPerforms, VoipInv, VoipTypeOK, FlagIsTruth, Needed, HostDone,
              WantedIsLast, LastCallWins
<1>5. CASE HostRefuses
  BY <1>5 DEF HostRefuses, VoipInv, VoipTypeOK, FlagIsTruth, Needed, HostDone,
              WantedIsLast, LastCallWins
<1>6. QED
  BY <1>2, <1>3, <1>4, <1>5 DEF VoipStep

\* And a stutter.
LEMMA StutterInv ==
  ASSUME VoipInv, UNCHANGED voipVars
  PROVE  VoipInv'
  BY DEF voipVars, VoipInv, VoipTypeOK, FlagIsTruth, Needed, HostDone,
         WantedIsLast, LastCallWins

\* The invariant holds in every behaviour of the promise chain.
THEOREM VoipInvariant == VoipSpec => []VoipInv
<1>1. VoipInv /\ [VoipNext]_voipVars => VoipInv'
  <2> SUFFICES ASSUME VoipInv, [VoipNext]_voipVars PROVE VoipInv'
    OBVIOUS
  <2>1. CASE start \/ stop
    BY <2>1, ChainInv DEF start, stop, Operations
  <2>2. CASE VoipStep
    BY <2>2, StepInv
  <2>3. CASE UNCHANGED voipVars
    BY <2>3, StutterInv
  <2>4. QED
    BY <2>1, <2>2, <2>3 DEF VoipNext
<1>2. QED
  BY VoipInitInv, <1>1, PTL DEF VoipSpec

\* The variables keep their types (VoipBackgroundTask.ets:83-89).
THEOREM VoipTypeCorrect == VoipSpec => []VoipTypeOK
<1>1. VoipInv => VoipTypeOK
  BY DEF VoipInv
<1>2. QED
  BY VoipInvariant, <1>1, PTL

\* Outside an operation's await the flag says what the system does
\* (VoipBackgroundTask.ets:138-141, 154-157).
THEOREM VoipFlagIsTruth == VoipSpec => []FlagIsTruth
<1>1. VoipInv => FlagIsTruth
  BY DEF VoipInv
<1>2. QED
  BY VoipInvariant, <1>1, PTL

\* When the chain has drained the system does what the last call asked for,
\* unless the host refused that operation (VoipBackgroundTask.ets:78-81).
THEOREM VoipLastCallWins == VoipSpec => []LastCallWins
<1>1. VoipInv => LastCallWins
  BY DEF VoipInv
<1>2. QED
  BY VoipInvariant, <1>1, PTL

\* What the host runs is known and is what was asked for
\* (VoipBackgroundTask.ets:96-165).
THEOREM VoipHostFollowsCalls == VoipSpec => []HostFollowsCalls
<1>1. FlagIsTruth /\ LastCallWins => HostFollowsCalls
  BY DEF HostFollowsCalls
<1>2. QED
  BY VoipFlagIsTruth, VoipLastCallWins, <1>1, PTL

-----------------------------------------------------------------------------
(* The session *)

\* What each stage of a handler knows of the ids and the table.
StageInv ==
  /\ pc \in {"idle", "stopDrain", "stopErase", "startDrain", "feedDrain"}
       => /\ starting = NoId
          /\ sessions = (IF HasSession THEN {activeInstanceId} ELSE {})
  /\ pc \in {"stopDrain", "stopErase", "startDrain", "feedDrain"} => HasSession
  /\ pc \in {"startEmplace", "startCreate", "startStore"}
       => ~HasSession /\ readyCall \in Calls
  /\ pc = "startEmplace" => starting = NoId /\ sessions = {}
  /\ pc \in {"startCreate", "startStore"}
       => /\ starting # NoId
          /\ sessions = {starting}
          /\ startedFor[starting] = readyCall

\* What each stage has already asked of the continuous task.
TaskInv ==
  /\ pc = "idle" => (wanted <=> HasSession)
  /\ pc = "feedDrain" => wanted
  /\ pc \in {"stopDrain", "stopErase", "startEmplace", "startCreate", "startStore"}
       => ~wanted

\* The inductive invariant.
SessionInv ==
  /\ TypeOK
  /\ VoipInv
  /\ StageInv
  /\ IdsAgree
  /\ TaskInv
  /\ NoStrandedPacket

-----------------------------------------------------------------------------
(* What a step of the session is for the two modules it is built on.       *)

VoipChange ==
  \/ \E op \in Operations : Chain(<<op>>)
  \/ VoipStep
  \/ UNCHANGED voipVars

NativeChange == NativeStep \/ UNCHANGED nativeVars

HandlerStartFor(call) ==
  HandleReady(call) \/ HandleEnd(call) \/ HandleSignalingData(call)

\* Next, one disjunct per action.
LEMMA NextCases ==
  ASSUME Next
  PROVE  \/ StopDrain \/ StopErase
         \/ StartEmplace \/ StartRefused \/ StartFails
         \/ StartCreate \/ StartStore \/ StartDrain
         \/ FeedDrain
         \/ reset
         \/ \E call \in Calls : HandlerStartFor(call)
         \/ \E id \in InstanceIds : HandleNativeSignalingAvailable(id)
         \/ \E id \in InstanceIds : InstanceThread(id)
         \/ LoseAuthorization
         \/ VoipProgress
  BY DEF Next, HandlerStep, HandlerStart, HandlerStartFor

\* The continuous task is asked for one thing at a time.
LEMMA NextVoip == Next => VoipChange
<1> SUFFICES ASSUME Next PROVE VoipChange
  OBVIOUS
<1> USE DEF VoipChange
<1>1. "start" \in Operations /\ "stop" \in Operations
  BY DEF Operations
<1>2. CASE StopDrain \/ StopErase \/ FeedDrain
  BY <1>2 DEF StopDrain, StopErase, FeedDrain, voipVars
<1>3. CASE StartEmplace \/ StartRefused \/ StartFails \/ StartCreate \/ StartStore
  BY <1>3 DEF StartEmplace, StartRefused, StartFails, GiveUpStart, StartCreate,
              StartStore, voipVars
<1>4. CASE StartDrain
  BY <1>1, <1>4 DEF StartDrain
<1>5. CASE reset
  BY <1>1, <1>5 DEF reset, BeginStop
<1>6. ASSUME NEW call \in Calls, HandlerStartFor(call)
      PROVE  VoipChange
  BY <1>1, <1>6 DEF HandlerStartFor, HandleReady, HandleEnd, HandleSignalingData,
                    BeginStop, voipVars
<1>7. ASSUME NEW id \in InstanceIds, HandleNativeSignalingAvailable(id) \/ InstanceThread(id)
      PROVE  VoipChange
  BY <1>7 DEF HandleNativeSignalingAvailable, InstanceThread, voipVars
<1>8. CASE LoseAuthorization \/ VoipProgress
  BY <1>8 DEF LoseAuthorization, VoipProgress, voipVars
<1>9. QED
  BY <1>2, <1>3, <1>4, <1>5, <1>6, <1>7, <1>8, NextCases

\* The native table is used as TgCallNative allows: in particular stopCall
\* is never called while startCall runs.
LEMMA NextNative ==
  ASSUME TypeOK, StageInv, Next
  PROVE  NativeChange
<1> USE DEF NativeChange, NativeStep
<1>1. sessions \subseteq InstanceIds
  BY DEF TypeOK, NativeTypeOK
<1>2. CASE StopDrain \/ StartDrain \/ FeedDrain
  <2>1. PICK id \in InstanceIds : DrainSession(id)
    BY <1>1, <1>2 DEF StopDrain, StartDrain, FeedDrain, Flush, DrainSession
  <2>2. QED
    BY <2>1
<1>3. CASE StopErase
  <2>1. StopSession(activeInstanceId) /\ activeInstanceId \in InstanceIds
    BY <1>1, <1>3 DEF StopErase, StopSession
  <2>2. starting = NoId
    BY <1>3 DEF StopErase, StageInv
  <2>3. QED
    BY <2>1, <2>2
<1>4. CASE StartEmplace \/ StartRefused
  BY <1>4 DEF StartEmplace, StartRefused
<1>5. CASE StartFails \/ StartCreate \/ StartStore
  BY <1>5 DEF StartFails, StartCreate, StartStore
<1>6. CASE reset
  BY <1>6 DEF reset, BeginStop
<1>7. ASSUME NEW call \in Calls, HandlerStartFor(call)
      PROVE  NativeChange
  BY <1>7 DEF HandlerStartFor, HandleReady, HandleEnd, HandleSignalingData, BeginStop
<1>8. ASSUME NEW id \in InstanceIds, HandleNativeSignalingAvailable(id)
      PROVE  NativeChange
  BY <1>8 DEF HandleNativeSignalingAvailable
<1>9. ASSUME NEW id \in InstanceIds, InstanceThread(id)
      PROVE  NativeChange
  BY <1>9 DEF InstanceThread, NativeThreads
<1>10. CASE LoseAuthorization \/ VoipProgress
  BY <1>10 DEF LoseAuthorization, VoipProgress
<1>11. QED
  BY <1>2, <1>3, <1>4, <1>5, <1>6, <1>7, <1>8, <1>9, <1>10, NextCases

LEMMA SessionVoipStep ==
  ASSUME VoipInv, Next
  PROVE  VoipInv'
  BY NextVoip, ChainInv, StepInv, StutterInv DEF VoipChange

LEMMA SessionNativeStep ==
  ASSUME TypeOK, StageInv, Next
  PROVE  NativeTypeOK'
<1>1. NativeTypeOK
  BY DEF TypeOK
<1>2. CASE NativeStep
  BY <1>1, <1>2, NativeTypeStep
<1>3. CASE UNCHANGED nativeVars
  BY <1>1, <1>3 DEF nativeVars, NativeTypeOK
<1>4. QED
  BY <1>2, <1>3, NextNative DEF NativeChange

-----------------------------------------------------------------------------
(* Types.                                                                  *)

LEMMA NoCallIsNoCall == NoCall \notin Calls
  BY CallsAssumption

\* What a flush hands to TDLib is well formed.
LEMMA FlushSends ==
  \A call \in Calls, id \in InstanceIds, q \in Seq(Packets) :
    [n \in 1..Len(q) |-> [call |-> call, instance |-> id, packet |-> q[n]]]
      \in Seq(SentPackets)
<1> TAKE call \in Calls, id \in InstanceIds, q \in Seq(Packets)
<1>1. Len(q) \in Nat
  BY LenProperties
<1>2. \A n \in 1..Len(q) : q[n] \in Packets
  BY ElementOfSeq
<1>3. \A n \in 1..Len(q) :
        [call |-> call, instance |-> id, packet |-> q[n]] \in SentPackets
  BY <1>2 DEF SentPackets
<1>4. QED
  BY <1>1, <1>3, IsASeq

LEMMA FlushType ==
  ASSUME TypeOK, NEW call \in Calls, NEW id \in InstanceIds, Flush(call, id)
  PROVE  authorized' \in BOOLEAN /\ sent' \in Seq(SentPackets)
<1> DEFINE out == [n \in 1..Len(queue[id]) |->
                     [call |-> call, instance |-> id, packet |-> queue[id][n]]]
<1>1. queue[id] \in Seq(Packets)
  BY DEF TypeOK, NativeTypeOK
<1>2. out \in Seq(SentPackets)
  BY <1>1, FlushSends
<1> HIDE DEF out
<1>3. sent \in Seq(SentPackets)
  BY DEF TypeOK
<1>4. sent \o out \in Seq(SentPackets)
  BY <1>2, <1>3, ConcatProperties
<1>5. sent' = sent \o out \/ sent' = sent
  BY DEF Flush, out
<1>6. authorized' = authorized
  BY DEF Flush
<1>7. QED
  BY <1>3, <1>4, <1>5, <1>6 DEF TypeOK

\* A drained session is the active one, and its call is one.
LEMMA ActiveSession ==
  ASSUME TypeOK, IdsAgree, HasSession
  PROVE  /\ activeInstanceId \in InstanceIds
         /\ activeCallId \in Calls
         /\ startedFor[activeInstanceId] = activeCallId
  BY DEF TypeOK, IdsAgree, HasSession

\* The controller's own variables.
ControllerTypeOK ==
  /\ activeCallId \in Calls \cup {NoCall}
  /\ activeInstanceId \in InstanceIds \cup {NoId}
  /\ pc \in Stages
  /\ readyCall \in Calls \cup {NoCall}
  /\ startedFor \in [InstanceIds -> Calls \cup {NoCall}]
  /\ authorized \in BOOLEAN
  /\ sent \in Seq(SentPackets)

LEMMA ControllerTypeStep ==
  ASSUME TypeOK, StageInv, IdsAgree, Next
  PROVE  ControllerTypeOK'
<1>1. ControllerTypeOK
  BY DEF TypeOK, ControllerTypeOK
<1> USE DEF ControllerTypeOK, Stages
<1>2. CASE StopDrain \/ StartDrain \/ FeedDrain
  <2>1. HasSession
    BY <1>2 DEF StopDrain, StartDrain, FeedDrain, StageInv
  <2>2. Flush(activeCallId, activeInstanceId)
    BY <1>2 DEF StopDrain, StartDrain, FeedDrain
  <2>3. authorized' \in BOOLEAN /\ sent' \in Seq(SentPackets)
    BY <2>1, <2>2, ActiveSession, FlushType
  <2>4. QED
    BY <1>1, <1>2, <2>3 DEF StopDrain, StartDrain, FeedDrain
<1>3. CASE StopErase
  BY <1>1, <1>3 DEF StopErase, environmentVars
<1>4. CASE StartEmplace
  BY <1>1, <1>4 DEF StartEmplace, environmentVars
<1>5. CASE StartRefused \/ StartFails \/ StartCreate
  BY <1>1, <1>5 DEF StartRefused, StartFails, GiveUpStart, StartCreate, environmentVars
<1>6. CASE StartStore
  <2>1. starting \in InstanceIds \cup {NoId}
    BY DEF TypeOK, NativeTypeOK
  <2>2. QED
    BY <1>1, <1>6, <2>1 DEF StartStore, environmentVars
<1>7. CASE reset
  BY <1>1, <1>7 DEF reset, BeginStop, controllerVars, environmentVars
<1>8. ASSUME NEW call \in Calls, HandlerStartFor(call)
      PROVE  ControllerTypeOK'
  BY <1>1, <1>8 DEF HandlerStartFor, HandleReady, HandleEnd, HandleSignalingData,
                    BeginStop, environmentVars
<1>9. ASSUME NEW id \in InstanceIds, HandleNativeSignalingAvailable(id)
      PROVE  ControllerTypeOK'
  BY <1>1, <1>9 DEF HandleNativeSignalingAvailable, environmentVars
<1>10. ASSUME NEW id \in InstanceIds, InstanceThread(id)
       PROVE  ControllerTypeOK'
  BY <1>1, <1>10 DEF InstanceThread, controllerVars, environmentVars
<1>11. CASE LoseAuthorization \/ VoipProgress
  BY <1>1, <1>11 DEF LoseAuthorization, VoipProgress, controllerVars, environmentVars
<1>12. QED
  BY <1>2, <1>3, <1>4, <1>5, <1>6, <1>7, <1>8, <1>9, <1>10, <1>11, NextCases

LEMMA SessionTypeStep ==
  ASSUME TypeOK, VoipInv, StageInv, IdsAgree, Next
  PROVE  TypeOK'
  BY SessionNativeStep, SessionVoipStep, ControllerTypeStep
     DEF TypeOK, ControllerTypeOK, VoipInv

-----------------------------------------------------------------------------
(* The stages of a handler.                                                *)

LEMMA StageStep ==
  ASSUME TypeOK, StageInv, IdsAgree, Next
  PROVE  StageInv'
<1> USE DEF StageInv, HasSession
<1>1. CASE StopDrain \/ StartDrain \/ FeedDrain
  <2>1. UNCHANGED <<starting, sessions, activeInstanceId, startedFor>>
    BY <1>1 DEF StopDrain, StartDrain, FeedDrain, Flush, DrainSession
  <2>2. pc \in {"stopDrain", "startDrain", "feedDrain"} /\ pc' \in {"stopErase", "idle"}
    BY <1>1 DEF StopDrain, StartDrain, FeedDrain
  <2>3. QED
    BY <2>1, <2>2
<1>2. CASE StopErase
  <2>1. /\ pc = "stopErase" /\ starting' = starting
        /\ sessions' = sessions \ {activeInstanceId}
        /\ activeInstanceId' = NoId
        /\ pc' = IF readyCall = NoCall THEN "idle" ELSE "startEmplace"
        /\ UNCHANGED <<readyCall, startedFor>>
    BY <1>2 DEF StopErase, StopSession
  <2>2. starting = NoId /\ sessions = {activeInstanceId}
    BY <2>1
  <2>3. readyCall # NoCall => readyCall \in Calls
    BY DEF TypeOK
  <2>4. QED
    BY <2>1, <2>2, <2>3
<1>3. CASE StartEmplace
  <2>1. PICK id \in InstanceIds :
          /\ EmplaceSession(id)
          /\ startedFor' = [startedFor EXCEPT ![id] = readyCall]
    BY <1>3 DEF StartEmplace
  <2>2. starting' = id /\ sessions' = sessions \cup {id} /\ id # NoId
    BY <2>1, NoIdIsNoInstance DEF EmplaceSession
  <2>3. startedFor'[id] = readyCall
    BY <2>1 DEF TypeOK
  <2>4. /\ pc = "startEmplace" /\ pc' = "startCreate"
        /\ UNCHANGED <<activeInstanceId, readyCall>>
    BY <1>3 DEF StartEmplace
  <2>5. QED
    BY <2>2, <2>3, <2>4
<1>4. CASE StartRefused
  <2>1. UNCHANGED <<starting, sessions>>
    BY <1>4 DEF StartRefused, nativeVars, NotifierFails
  <2>2. QED
    BY <1>4, <2>1 DEF StartRefused, GiveUpStart
<1>5. CASE StartFails
  <2>1. /\ pc = "startCreate" /\ pc' = "idle"
        /\ sessions' = sessions \ {starting} /\ starting' = NoId
        /\ UNCHANGED activeInstanceId
    BY <1>5 DEF StartFails, CreateFails, GiveUpStart
  <2>2. QED
    BY <2>1
<1>6. CASE StartCreate
  BY <1>6 DEF StartCreate, CreateInstance
<1>7. CASE StartStore
  <2>1. /\ pc = "startStore" /\ pc' = "startDrain"
        /\ sessions' = sessions /\ starting' = NoId
        /\ activeInstanceId' = starting
    BY <1>7 DEF StartStore, StoreInstance
  <2>2. QED
    BY <2>1
<1>8. CASE reset
  BY <1>8 DEF reset, BeginStop, Idle, nativeVars, controllerVars
<1>9. ASSUME NEW call \in Calls, HandlerStartFor(call)
      PROVE  StageInv'
  BY <1>9 DEF HandlerStartFor, HandleReady, HandleEnd, HandleSignalingData,
              BeginStop, Idle, nativeVars
<1>10. ASSUME NEW id \in InstanceIds, HandleNativeSignalingAvailable(id)
       PROVE  StageInv'
  <2>1. /\ pc = "idle"
        /\ pc' = IF startedFor[id] = activeCallId /\ id = activeInstanceId
                 THEN "feedDrain" ELSE "idle"
        /\ UNCHANGED <<starting, sessions, activeInstanceId, startedFor>>
    BY <1>10 DEF HandleNativeSignalingAvailable, TakeNotification, Idle
  <2>2. id # NoId
    BY NoIdIsNoInstance
  <2>3. QED
    BY <2>1, <2>2
<1>11. ASSUME NEW id \in InstanceIds, InstanceThread(id)
       PROVE  StageInv'
  BY <1>11 DEF InstanceThread, NativeThreads, EmitPacket, PostNotification,
               DestroyInstance, controllerVars
<1>12. CASE LoseAuthorization \/ VoipProgress
  BY <1>12 DEF LoseAuthorization, VoipProgress, nativeVars, controllerVars
<1>13. QED
  BY <1>1, <1>2, <1>3, <1>4, <1>5, <1>6, <1>7, <1>8, <1>9, <1>10, <1>11, <1>12,
     NextCases

\* The two ids.
LEMMA IdsStep ==
  ASSUME TypeOK, StageInv, IdsAgree, Next
  PROVE  IdsAgree'
<1> USE DEF IdsAgree, HasSession
<1>1. CASE StopDrain \/ StartDrain \/ FeedDrain \/ StartFails \/ StartCreate \/ StartRefused
  BY <1>1 DEF StopDrain, StartDrain, FeedDrain, StartFails, StartCreate,
              StartRefused, GiveUpStart
<1>2. CASE StopErase
  BY <1>2 DEF StopErase
<1>3. CASE StartEmplace
  BY <1>3 DEF StartEmplace, StageInv
<1>4. CASE StartStore
  BY <1>4, NoCallIsNoCall DEF StartStore, StageInv
<1>5. CASE reset
  BY <1>5 DEF reset, BeginStop, controllerVars
<1>6. ASSUME NEW call \in Calls, HandlerStartFor(call)
      PROVE  IdsAgree'
  BY <1>6 DEF HandlerStartFor, HandleReady, HandleEnd, HandleSignalingData, BeginStop
<1>7. ASSUME NEW id \in InstanceIds, HandleNativeSignalingAvailable(id) \/ InstanceThread(id)
      PROVE  IdsAgree'
  BY <1>7 DEF HandleNativeSignalingAvailable, InstanceThread, controllerVars
<1>8. CASE LoseAuthorization \/ VoipProgress
  BY <1>8 DEF LoseAuthorization, VoipProgress, controllerVars
<1>9. QED
  BY <1>1, <1>2, <1>3, <1>4, <1>5, <1>6, <1>7, <1>8, NextCases

-----------------------------------------------------------------------------
(* The continuous task.                                                    *)

LEMMA WantedAfterChain ==
  /\ Chain(<<"start">>) => wanted' = TRUE
  /\ Chain(<<"stop">>) => wanted' = FALSE
  BY DEF Chain

LEMMA WantedAfterStep == VoipStep => wanted' = wanted
  BY DEF VoipStep, AlreadyThere, AskHost, HostPerforms, HostRefuses, Resume, Finish

LEMMA TaskStep ==
  ASSUME TypeOK, StageInv, TaskInv, Next
  PROVE  TaskInv'
<1> USE DEF TaskInv, HasSession
<1>1. CASE StopDrain \/ StopErase
  BY <1>1 DEF StopDrain, StopErase, voipVars
<1>2. CASE StartEmplace \/ StartRefused \/ StartFails \/ StartCreate
  BY <1>2 DEF StartEmplace, StartRefused, StartFails, GiveUpStart, StartCreate,
              voipVars, StageInv
<1>3. CASE StartStore
  BY <1>3 DEF StartStore
<1>4. CASE StartDrain
  BY <1>4, WantedAfterChain DEF StartDrain, StageInv
<1>5. CASE FeedDrain
  BY <1>5 DEF FeedDrain, voipVars, StageInv
<1>6. CASE reset
  BY <1>6, WantedAfterChain DEF reset, BeginStop, Idle, controllerVars
<1>7. ASSUME NEW call \in Calls, HandlerStartFor(call)
      PROVE  TaskInv'
  BY <1>7, WantedAfterChain DEF HandlerStartFor, HandleReady, HandleEnd,
     HandleSignalingData, BeginStop, Idle, voipVars
<1>8. ASSUME NEW id \in InstanceIds, HandleNativeSignalingAvailable(id)
      PROVE  TaskInv'
  BY <1>8, NoIdIsNoInstance DEF HandleNativeSignalingAvailable, Idle, voipVars
<1>9. ASSUME NEW id \in InstanceIds, InstanceThread(id)
      PROVE  TaskInv'
  BY <1>9 DEF InstanceThread, voipVars, controllerVars
<1>10. CASE LoseAuthorization \/ VoipProgress
  BY <1>10, WantedAfterStep DEF LoseAuthorization, VoipProgress, voipVars, controllerVars
<1>11. QED
  BY <1>1, <1>2, <1>3, <1>4, <1>5, <1>6, <1>7, <1>8, <1>9, <1>10, NextCases

-----------------------------------------------------------------------------
(* Packets.                                                                *)

\* A step of the table by another thread leaves no packet without a wake-up.
LEMMA ThreadStrandsNothing ==
  ASSUME TypeOK, NoStrandedPacket, NEW id \in InstanceIds, NativeThreads(id),
         UNCHANGED pc
  PROVE  NoStrandedPacket'
<1> USE DEF TypeOK, NativeTypeOK, NoStrandedPacket
<1>1. CASE EmitPacket(id)
  <2>1. CASE id \in sessions
    <3>1. /\ queue' = [queue EXCEPT ![id] = Append(queue[id], emitted[id] + 1)]
          /\ emitting' = [emitting EXCEPT ![id] = emitting[id] + 1]
          /\ UNCHANGED <<sessions, notified, pc>>
      BY <1>1, <2>1 DEF EmitPacket
    <3>2. emitting \in [InstanceIds -> Nat] /\ queue \in [InstanceIds -> Seq(Packets)]
      OBVIOUS
    <3>3. emitting'[id] > 0 /\ \A other \in InstanceIds \ {id} :
            emitting'[other] = emitting[other] /\ queue'[other] = queue[other]
      BY <3>1, <3>2
    <3>4. QED
      BY <3>1, <3>3
  <2>2. CASE id \notin sessions
    BY <1>1, <2>2 DEF EmitPacket
  <2>3. QED
    BY <2>1, <2>2
<1>2. CASE PostNotification(id)
  BY <1>2 DEF PostNotification
<1>3. CASE DestroyInstance(id)
  BY <1>3 DEF DestroyInstance
<1>4. QED
  BY <1>1, <1>2, <1>3 DEF NativeThreads

LEMMA PacketStep ==
  ASSUME TypeOK, StageInv, IdsAgree, NoStrandedPacket, Next
  PROVE  NoStrandedPacket'
<1> USE DEF NoStrandedPacket, HasSession
<1>0. queue \in [InstanceIds -> Seq(Packets)] /\ sessions \subseteq InstanceIds
  BY DEF TypeOK, NativeTypeOK
<1>1. CASE StopDrain \/ StartDrain \/ FeedDrain
  <2>1. /\ queue' = [queue EXCEPT ![activeInstanceId] = <<>>]
        /\ sessions' = sessions
    BY <1>1 DEF StopDrain, StartDrain, FeedDrain, Flush, DrainSession
  <2>2. sessions = {activeInstanceId}
    BY <1>1 DEF StopDrain, StartDrain, FeedDrain, StageInv
  <2>3. QED
    BY <1>0, <2>1, <2>2
<1>2. CASE StopErase
  <2>1. sessions' = sessions \ {activeInstanceId}
    BY <1>2 DEF StopErase, StopSession
  <2>2. sessions = {activeInstanceId}
    BY <1>2 DEF StopErase, StageInv
  <2>3. QED
    BY <2>1, <2>2
<1>3. CASE StartEmplace
  <2>1. PICK id \in InstanceIds : EmplaceSession(id)
    BY <1>3 DEF StartEmplace
  <2>2. sessions' = {id} /\ queue'[id] = <<>>
    BY <1>0, <1>3, <2>1 DEF StartEmplace, EmplaceSession, StageInv
  <2>3. QED
    BY <2>2
<1>4. CASE StartRefused
  BY <1>4 DEF StartRefused, StageInv, nativeVars, NotifierFails
<1>5. CASE StartFails
  <2>1. sessions' = {}
    BY <1>5 DEF StartFails, CreateFails, StageInv
  <2>2. QED
    BY <2>1
<1>6. CASE StartCreate
  BY <1>6 DEF StartCreate
<1>7. CASE StartStore
  BY <1>7 DEF StartStore
<1>8. CASE reset
  BY <1>8 DEF reset, BeginStop, Idle, nativeVars, controllerVars
<1>9. ASSUME NEW call \in Calls, HandlerStartFor(call)
      PROVE  NoStrandedPacket'
  BY <1>9 DEF HandlerStartFor, HandleReady, HandleEnd, HandleSignalingData,
              BeginStop, Idle, nativeVars, StageInv
<1>10. ASSUME NEW id \in InstanceIds, HandleNativeSignalingAvailable(id)
       PROVE  NoStrandedPacket'
  <2>1. /\ pc = "idle"
        /\ pc' = IF startedFor[id] = activeCallId /\ id = activeInstanceId
                 THEN "feedDrain" ELSE "idle"
        /\ notified' = [notified EXCEPT ![id] = @ - 1]
        /\ UNCHANGED <<sessions, queue, emitting, activeInstanceId>>
    BY <1>10 DEF HandleNativeSignalingAvailable, TakeNotification, Idle
  <2>2. CASE id = activeInstanceId
    <3>1. startedFor[id] = activeCallId
      BY <2>2, NoIdIsNoInstance DEF IdsAgree
    <3>2. QED
      BY <2>1, <2>2, <3>1
  <2>3. CASE id # activeInstanceId
    <3>1. \A other \in sessions : notified'[other] = notified[other]
      BY <1>0, <2>1, <2>3 DEF StageInv, TypeOK, NativeTypeOK
    <3>2. QED
      BY <2>1, <3>1
  <2>4. QED
    BY <2>2, <2>3
<1>11. ASSUME NEW id \in InstanceIds, InstanceThread(id)
       PROVE  NoStrandedPacket'
  BY <1>11, ThreadStrandsNothing DEF InstanceThread, controllerVars
<1>12. CASE LoseAuthorization \/ VoipProgress
  BY <1>12 DEF LoseAuthorization, VoipProgress, nativeVars, controllerVars
<1>13. QED
  BY <1>1, <1>2, <1>3, <1>4, <1>5, <1>6, <1>7, <1>8, <1>9, <1>10, <1>11, <1>12,
     NextCases

-----------------------------------------------------------------------------
(* The invariant and what follows from it.                                 *)

LEMMA SessionInit == Init => SessionInv
<1> SUFFICES ASSUME Init PROVE SessionInv
  OBVIOUS
<1> USE DEF Init
<1>1. NativeTypeOK /\ VoipInv
  BY NativeTypeInit, VoipInitInv
<1>2. <<>> \in Seq(SentPackets)
  BY EmptySeq
<1>3. TypeOK
  BY <1>1, <1>2 DEF TypeOK, VoipInv, Stages
<1>4. StageInv /\ IdsAgree /\ TaskInv /\ NoStrandedPacket
  BY DEF NativeInit, VoipInit, StageInv, IdsAgree, TaskInv, NoStrandedPacket, HasSession
<1>5. QED
  BY <1>1, <1>3, <1>4 DEF SessionInv

LEMMA SessionNext == SessionInv /\ [Next]_vars => SessionInv'
<1> SUFFICES ASSUME SessionInv, [Next]_vars PROVE SessionInv'
  OBVIOUS
<1>1. CASE Next
  BY <1>1, SessionTypeStep, SessionVoipStep, StageStep, IdsStep, TaskStep, PacketStep
     DEF SessionInv
<1>2. CASE UNCHANGED vars
  <2>1. UNCHANGED voipVars /\ UNCHANGED nativeVars
        /\ UNCHANGED controllerVars /\ UNCHANGED environmentVars
    BY <1>2 DEF vars
  <2>2. VoipInv'
    BY <2>1, StutterInv DEF SessionInv
  <2>3. TypeOK'
    BY <2>1, <2>2 DEF SessionInv, TypeOK, NativeTypeOK, VoipInv, nativeVars,
       controllerVars, environmentVars
  <2>4. StageInv' /\ IdsAgree' /\ TaskInv' /\ NoStrandedPacket'
    BY <2>1 DEF SessionInv, StageInv, IdsAgree, TaskInv, NoStrandedPacket, HasSession,
       nativeVars, voipVars, controllerVars
  <2>5. QED
    BY <2>2, <2>3, <2>4 DEF SessionInv
<1>3. QED
  BY <1>1, <1>2

THEOREM SessionInvariant == Spec => []SessionInv
  BY SessionInit, SessionNext, PTL DEF Spec

\* Every variable of the composed session keeps its type
\* (CallSessionController.ets:43-44 and the modules below it).
THEOREM SessionTypeCorrect == Spec => []TypeOK
<1>1. SessionInv => TypeOK
  BY DEF SessionInv
<1>2. QED
  BY SessionInvariant, <1>1, PTL

\* Between handlers the native table holds the controller's session and no
\* other: none is left running without an owner (CallSessionController.ets
\* startReadyCall, stopActiveSession).
THEOREM SessionTableMatches == Spec => []TableMatchesController
<1>1. SessionInv => TableMatchesController
  <2> SUFFICES ASSUME SessionInv PROVE TableMatchesController
    OBVIOUS
  <2>1. sessions = {} \/ \E id \in InstanceIds : sessions = {id}
    BY DEF SessionInv, StageInv, TypeOK, NativeTypeOK, Stages, HasSession
  <2>2. Cardinality(sessions) = 0 \/ Cardinality(sessions) = 1
    <3>1. ASSUME sessions = {} PROVE Cardinality(sessions) = 0
      BY <3>1, FS_EmptySet, Zenon
    <3>2. ASSUME NEW id \in InstanceIds, sessions = {id}
          PROVE  Cardinality(sessions) = 1
      BY <3>2, FS_Singleton, Zenon
    <3>3. QED
      BY <2>1, <3>1, <3>2
  <2>3. Cardinality(sessions) <= 1
    BY <2>2
  <2>4. QED
    BY <2>3 DEF SessionInv, StageInv, TableMatchesController, Idle
<1>2. QED
  BY SessionInvariant, <1>1, PTL

\* The call id and the instance id are set and cleared together and belong
\* together (CallSessionController.ets:43-44).
THEOREM SessionIdsAgree == Spec => []IdsAgree
<1>1. SessionInv => IdsAgree
  BY DEF SessionInv
<1>2. QED
  BY SessionInvariant, <1>1, PTL

\* No packet waits in the active session without a wake-up under way
\* (flushEmittedSignalingData and the native notifier).
THEOREM SessionNoStrandedPacket == Spec => []NoStrandedPacket
<1>1. SessionInv => NoStrandedPacket
  BY DEF SessionInv
<1>2. QED
  BY SessionInvariant, <1>1, PTL

\* The continuous task is wanted exactly while a session exists
\* (startReadyCall and stopActiveSession call start and stop).
THEOREM SessionKeepAlive ==
  Spec => [](KeepAliveFollowsSession /\ KeepAliveExactlyDuringCall)
<1>1. SessionInv => KeepAliveFollowsSession
  <2> SUFFICES ASSUME SessionInv, Idle PROVE wanted = HasSession
    BY DEF KeepAliveFollowsSession
  <2>1. wanted <=> HasSession
    BY DEF SessionInv, TaskInv, Idle
  <2>2. wanted \in BOOLEAN /\ HasSession \in BOOLEAN
    BY DEF SessionInv, TypeOK, VoipTypeOK, HasSession
  <2>3. QED
    BY <2>1, <2>2
<1>2. SessionInv /\ KeepAliveFollowsSession => KeepAliveExactlyDuringCall
  BY DEF SessionInv, VoipInv, LastCallWins, KeepAliveFollowsSession,
         KeepAliveExactlyDuringCall
<1>3. QED
  BY SessionInvariant, <1>1, <1>2, PTL

\* Each native session has an owner that would stop it, under the call it was
\* started for (CallSessionController.ets:139-256, 462-495).
THEOREM SessionHasOwner == Spec => []SessionIsOwned
<1>1. TableMatchesController /\ IdsAgree => SessionIsOwned
  BY DEF SessionIsOwned
<1>2. QED
  BY SessionTableMatches, SessionIdsAgree, <1>1, PTL

-----------------------------------------------------------------------------
(* The refinement.  open is the table, owner what the closures hold, and   *)
(* waiting the queues of the sessions.                                     *)

\* A session that still has no instance has no packet: what CreateFails drops is empty.
HollowInv ==
  pc = "startCreate" => life[starting] = "none" /\ queue[starting] = <<>>

RelayInv == SessionInv /\ HollowInv

LEMMA HollowStep ==
  ASSUME TypeOK, StageInv, HollowInv, Next
  PROVE  HollowInv'
<1>0. /\ queue \in [InstanceIds -> Seq(Packets)] /\ life \in [InstanceIds -> Lives]
      /\ starting \in InstanceIds \cup {NoId}
  BY DEF TypeOK, NativeTypeOK
<1>1. CASE StopDrain \/ StopErase \/ StartRefused \/ StartFails \/ StartCreate \/ StartStore
           \/ StartDrain \/ FeedDrain
  BY <1>1 DEF HollowInv, StopDrain, StopErase, StartRefused, StartFails, GiveUpStart,
              StartCreate, StartStore, StartDrain, FeedDrain
<1>2. CASE StartEmplace
  <2>1. PICK id \in InstanceIds : EmplaceSession(id)
    BY <1>2 DEF StartEmplace
  <2>2. starting' = id /\ queue'[id] = <<>> /\ life'[id] = "none"
    BY <1>0, <2>1 DEF EmplaceSession
  <2>3. QED
    BY <2>2 DEF HollowInv
<1>3. CASE reset \/ \E call \in Calls : HandlerStartFor(call)
  <2>1. pc' \in {"idle", "stopDrain", "startEmplace", "feedDrain"}
    BY <1>3 DEF reset, HandlerStartFor, HandleReady, HandleEnd, HandleSignalingData,
                BeginStop, Idle, controllerVars
  <2>2. QED
    BY <2>1 DEF HollowInv
<1>4. ASSUME NEW id \in InstanceIds, HandleNativeSignalingAvailable(id)
      PROVE  HollowInv'
  BY <1>4 DEF HollowInv, HandleNativeSignalingAvailable
<1>5. ASSUME NEW id \in InstanceIds, InstanceThread(id)
      PROVE  HollowInv'
  <2>1. SUFFICES ASSUME pc = "startCreate"
                 PROVE  life'[starting] = "none" /\ queue'[starting] = <<>>
    BY <1>5 DEF HollowInv, InstanceThread, NativeThreads, EmitPacket, PostNotification,
                DestroyInstance, controllerVars
  <2>2. starting \in InstanceIds /\ life[starting] = "none" /\ queue[starting] = <<>>
    BY <1>0, <2>1 DEF HollowInv, StageInv
  <2>3. CASE id = starting
    BY <1>5, <2>2, <2>3 DEF InstanceThread, NativeThreads, EmitPacket, PostNotification,
                            DestroyInstance
  <2>4. CASE id # starting
    BY <1>0, <1>5, <2>2, <2>4 DEF InstanceThread, NativeThreads, EmitPacket,
                                  PostNotification, DestroyInstance
  <2>5. QED
    BY <2>3, <2>4
<1>6. CASE LoseAuthorization \/ VoipProgress
  BY <1>6 DEF HollowInv, LoseAuthorization, VoipProgress, nativeVars, controllerVars
<1>7. QED
  BY <1>1, <1>2, <1>3, <1>4, <1>5, <1>6, NextCases

LEMMA RelayInvariant == Spec => []RelayInv
<1>1. Init => HollowInv
  BY DEF Init, HollowInv
<1>2. RelayInv /\ [Next]_vars => RelayInv'
  <2>1. SUFFICES ASSUME RelayInv, [Next]_vars PROVE HollowInv'
    BY SessionNext DEF RelayInv
  <2>2. CASE Next
    BY <2>1, <2>2, HollowStep DEF RelayInv, SessionInv
  <2>3. CASE UNCHANGED vars
    BY <2>1, <2>3 DEF RelayInv, HollowInv, vars, nativeVars, controllerVars
  <2>4. QED
    BY <2>1, <2>2, <2>3
<1>3. QED
  BY <1>1, <1>2, SessionInit, PTL DEF Spec, RelayInv

\* A flush relays all that waits, or, when nothing does, nothing changes.
LEMMA FlushRelays ==
  ASSUME TypeOK, IdsAgree, HasSession, Flush(activeCallId, activeInstanceId),
         UNCHANGED startedFor
  PROVE  [Relay!Next]_(Relay!relayVars)
<1> DEFINE i == activeInstanceId
           relayed == [n \in 1..Len(queue[i]) |->
                         [call |-> activeCallId, instance |-> i, packet |-> queue[i][n]]]
<1>1. i \in InstanceIds /\ startedFor[i] = activeCallId
  BY ActiveSession
<1>2. queue[i] \in Seq(Packets) /\ queue \in [InstanceIds -> Seq(Packets)]
      /\ sent \in Seq(SentPackets)
  BY <1>1 DEF TypeOK, NativeTypeOK
<1>3. /\ i \in sessions /\ queue' = [queue EXCEPT ![i] = <<>>]
      /\ UNCHANGED <<sessions, startedFor, authorized>>
      /\ sent' = IF authorized THEN sent \o relayed ELSE sent
  BY DEF Flush, DrainSession
<1>4. CASE queue[i] = <<>>
  <2>1. queue' = queue
    BY <1>1, <1>2, <1>3, <1>4
  <2>2. relayed = <<>>
    BY <1>4
  <2>3. sent' = sent
    BY <1>2, <1>3, <2>2, ConcatEmptySeq
  <2>4. QED
    BY <1>3, <2>1, <2>3 DEF Relay!relayVars
<1>5. CASE queue[i] # <<>>
  <2>1. DOMAIN queue[i] = 1..Len(queue[i])
    BY <1>2, LenProperties
  <2>2. relayed = [n \in DOMAIN queue[i] |->
                     [call |-> startedFor[i], instance |-> i, packet |-> queue[i][n]]]
    BY <1>1, <2>1
  <2>3. Relay!Relay(i)
    BY <1>3, <1>5, <2>2 DEF Relay!Relay
  <2>4. QED
    BY <1>1, <2>3 DEF Relay!Next
<1>6. QED
  BY <1>4, <1>5

\* A step of the session is one of the relay, or changes nothing the relay can see.
LEMMA SessionStepRelays ==
  ASSUME RelayInv, Next
  PROVE  [Relay!Next]_(Relay!relayVars)
<1>0. /\ TypeOK /\ StageInv /\ IdsAgree /\ HollowInv
      /\ queue \in [InstanceIds -> Seq(Packets)] /\ sessions \subseteq InstanceIds
      /\ starting \in InstanceIds \cup {NoId}
  BY DEF RelayInv, SessionInv, TypeOK, NativeTypeOK
<1>1. CASE StopDrain \/ StartDrain \/ FeedDrain
  <2>1. Flush(activeCallId, activeInstanceId) /\ UNCHANGED startedFor
    BY <1>1 DEF StopDrain, StartDrain, FeedDrain
  <2>2. HasSession
    BY <1>0, <1>1 DEF StageInv, StopDrain, StartDrain, FeedDrain
  <2>3. QED
    BY <1>0, <2>1, <2>2, FlushRelays
<1>2. CASE StopErase
  <2>1. Relay!Close(activeInstanceId) /\ activeInstanceId \in InstanceIds
    BY <1>0, <1>2 DEF StopErase, StopSession, Relay!Close, environmentVars
  <2>2. QED
    BY <2>1 DEF Relay!Next
<1>3. CASE StartEmplace
  <2>1. PICK id \in InstanceIds :
          EmplaceSession(id) /\ startedFor' = [startedFor EXCEPT ![id] = readyCall]
    BY <1>3 DEF StartEmplace
  <2>2. sessions = {} /\ readyCall \in Calls
    BY <1>0, <1>3 DEF StartEmplace, StageInv
  <2>3. Relay!Open(id, readyCall)
    BY <1>3, <2>1, <2>2 DEF StartEmplace, EmplaceSession, Relay!Open, environmentVars
  <2>4. QED
    BY <2>2, <2>3 DEF Relay!Next
<1>4. CASE StartFails
  <2>1. pc = "startCreate" /\ starting # NoId /\ sessions = {starting}
    BY <1>0, <1>4 DEF StartFails, StageInv
  <2>2. starting \in InstanceIds /\ queue[starting] = <<>>
    BY <1>0, <2>1 DEF HollowInv
  <2>3. queue' = queue /\ [queue EXCEPT ![starting] = <<>>] = queue
    BY <1>0, <1>4, <2>2 DEF StartFails, CreateFails
  <2>4. Relay!Close(starting)
    BY <1>4, <2>1, <2>3 DEF StartFails, CreateFails, GiveUpStart, Relay!Close, environmentVars
  <2>5. QED
    BY <2>2, <2>4 DEF Relay!Next
<1>5. CASE StartRefused \/ StartCreate \/ StartStore \/ VoipProgress
           \/ \E id \in InstanceIds : HandleNativeSignalingAvailable(id)
  BY <1>5 DEF StartRefused, NotifierFails, GiveUpStart, StartCreate, CreateInstance,
              StartStore, StoreInstance, VoipProgress, HandleNativeSignalingAvailable,
              TakeNotification, nativeVars, controllerVars, environmentVars, Relay!relayVars
<1>6. CASE reset \/ \E call \in Calls : HandlerStartFor(call)
  BY <1>6 DEF reset, HandlerStartFor, HandleReady, HandleEnd, HandleSignalingData, BeginStop,
              nativeVars, controllerVars, environmentVars, Relay!relayVars
<1>7. ASSUME NEW id \in InstanceIds, InstanceThread(id)
      PROVE  [Relay!Next]_(Relay!relayVars)
  <2>1. UNCHANGED <<startedFor, authorized, sent>> /\ NativeThreads(id)
    BY <1>7 DEF InstanceThread, controllerVars, environmentVars
  <2>2. CASE EmitPacket(id) /\ id \in sessions
    <3>1. emitted[id] + 1 \in Packets
      <4>1. emitted[id] \in 0..MaxPackets /\ emitted[id] < MaxPackets /\ MaxPackets \in Nat
        BY <1>0, <2>2, MaxPacketsAssumption DEF TypeOK, NativeTypeOK, EmitPacket
      <4>2. QED
        BY <4>1 DEF Packets
    <3>2. Relay!Emit(id, emitted[id] + 1)
      BY <2>1, <2>2 DEF EmitPacket, Relay!Emit
    <3>3. QED
      BY <3>1, <3>2 DEF Relay!Next, Packets
  <2>3. CASE ~(EmitPacket(id) /\ id \in sessions)
    BY <2>1, <2>3 DEF NativeThreads, EmitPacket, PostNotification, DestroyInstance,
                      Relay!relayVars
  <2>4. QED
    BY <2>2, <2>3
<1>8. CASE LoseAuthorization
  <2>1. Relay!LoseAuthorization
    BY <1>8 DEF LoseAuthorization, nativeVars, controllerVars, Relay!LoseAuthorization
  <2>2. QED
    BY <2>1 DEF Relay!Next
<1>9. QED
  BY <1>1, <1>2, <1>3, <1>4, <1>5, <1>6, <1>7, <1>8, NextCases

\* The safety part of ImplementsSignalingRelay: from an instance thread to TDLib the packets
\* of the one open session are relayed in order, exactly once and under the call the session
\* was opened for (tgcall_native.cpp and CallSessionController.ets flushEmittedSignalingData).
THEOREM SessionRelaysSafely == Spec => Relay!Init /\ [][Relay!Next]_(Relay!relayVars)
<1>1. Init => Relay!Init
  BY DEF Init, NativeInit, Relay!Init, NoCall
<1>2. RelayInv /\ [Next]_vars => [Relay!Next]_(Relay!relayVars)
  <2>1. CASE Next
    BY <2>1, SessionStepRelays
  <2>2. CASE UNCHANGED vars
    BY <2>2 DEF vars, nativeVars, controllerVars, environmentVars, Relay!relayVars
  <2>3. QED
    BY <2>1, <2>2
<1>3. QED
  BY <1>1, <1>2, RelayInvariant, PTL DEF Spec

=============================================================================
