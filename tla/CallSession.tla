---------------------------- MODULE CallSession -----------------------------
(***************************************************************************)
(* services/voip/CallSessionController.ets on top of the native session    *)
(* table (TgCallNative) and the continuous task (VoipBackgroundTask).      *)
(*                                                                         *)
(* The controller runs on the JS thread and keeps two ids: the call and    *)
(* the native instance of the one active session.  A handler runs to       *)
(* completion before the next JS event, but each of its native calls is    *)
(* one critical section among those of the instance threads: pc says how   *)
(* far the running handler is.  Handlers that return without changing      *)
(* anything (a duplicate ready update, an unmappable one, an ended call    *)
(* that is not the active one, signaling for another call) are stutters    *)
(* and have no action.                                                     *)
(***************************************************************************)
EXTENDS TgCallNative, VoipBackgroundTask

CONSTANT Calls        \* TDLib call ids

NoCall == "none"
ASSUME CallsAssumption == NoCall \notin Calls

VARIABLES
  activeCallId,      \* a call, or NoCall (0)
  activeInstanceId,  \* a native instance id, or NoId (0)
  pc,                \* what the running handler does next; "idle": none runs
  readyCall,         \* the call a running startReadyCall is for
  startedFor,        \* the call each instance was started for (the closures)
  authorized,        \* external: TdClient accepts requests
  sent               \* history: packets handed to TDLib, oldest first

controllerVars == <<activeCallId, activeInstanceId, pc, readyCall, startedFor>>
environmentVars == <<authorized, sent>>
vars == <<nativeVars, voipVars, controllerVars, environmentVars>>

Stages == {"idle", "stopDrain", "stopErase", "startEmplace", "startCreate",
           "startStore", "startDrain", "feedDrain"}

SentPackets == [call : Calls, instance : InstanceIds, packet : Packets]

TypeOK ==
  /\ NativeTypeOK
  /\ VoipTypeOK
  /\ activeCallId \in Calls \cup {NoCall}
  /\ activeInstanceId \in InstanceIds \cup {NoId}
  /\ pc \in Stages
  /\ readyCall \in Calls \cup {NoCall}
  /\ startedFor \in [InstanceIds -> Calls \cup {NoCall}]
  /\ authorized \in BOOLEAN
  /\ sent \in Seq(SentPackets)

Init ==
  /\ NativeInit
  /\ VoipInit
  /\ activeCallId = NoCall
  /\ activeInstanceId = NoId
  /\ pc = "idle"
  /\ readyCall = NoCall
  /\ startedFor = [i \in InstanceIds |-> NoCall]
  /\ authorized = TRUE
  /\ sent = <<>>

Idle == pc = "idle"
HasSession == activeInstanceId # NoId

\* Bounds: the promise chain has room for what a handler may add; fewer
\* starts than the id space holds, so that ids do not wrap here.
Room == Len(inflight) + 2 <= MaxInflight
IdsLeft == nextInstanceId < MaxInt32

-----------------------------------------------------------------------------
(* flushEmittedSignalingData: drain, then send one by one.  A packet that  *)
(* TdClient refuses is only logged.                                        *)

Flush(call, id) ==
  /\ DrainSession(id)
  /\ sent' = IF authorized
             THEN sent \o [n \in 1..Len(queue[id]) |->
                    [call |-> call, instance |-> id, packet |-> queue[id][n]]]
             ELSE sent
  /\ UNCHANGED authorized

-----------------------------------------------------------------------------
(* stopActiveSession.                                                      *)

\* Mutant: the task is not stopped at all.
BeginStopForgetsTask(restartFor) ==
  /\ pc' = "stopDrain"
  /\ readyCall' = restartFor
  /\ UNCHANGED <<nativeVars, voipVars, activeCallId, activeInstanceId,
                 startedFor, environmentVars>>

BeginStop(restartFor) ==
  /\ Chain(<<"stop">>)
  /\ pc' = "stopDrain"
  /\ readyCall' = restartFor
  /\ UNCHANGED <<nativeVars, activeCallId, activeInstanceId, startedFor,
                 environmentVars>>

StopDrain ==
  /\ pc = "stopDrain"
  /\ Flush(activeCallId, activeInstanceId)
  /\ pc' = "stopErase"
  /\ UNCHANGED <<voipVars, activeCallId, activeInstanceId, readyCall, startedFor>>

StopErase ==
  /\ pc = "stopErase"
  /\ StopSession(activeInstanceId)
  /\ activeCallId' = NoCall
  /\ activeInstanceId' = NoId
  /\ pc' = IF readyCall = NoCall THEN "idle" ELSE "startEmplace"
  /\ UNCHANGED <<voipVars, readyCall, startedFor, environmentVars>>

-----------------------------------------------------------------------------
(* startReadyCall.                                                         *)

\* Mutant: the session of another call is not stopped first.
HandleReadyNoStop(call) ==
  /\ Idle /\ Room /\ IdsLeft
  /\ activeCallId # call
  /\ pc' = "startEmplace"
  /\ readyCall' = call
  /\ UNCHANGED <<nativeVars, voipVars, activeCallId, activeInstanceId,
                 startedFor, environmentVars>>

\* A ready update of a call that is not the active one and whose parameters
\* map to a start request.  A session of another call is replaced.
HandleReady(call) ==
  /\ Idle /\ Room /\ IdsLeft
  /\ activeCallId # call
  /\ IF HasSession THEN BeginStop(call)
     ELSE /\ pc' = "startEmplace"
          /\ readyCall' = call
          /\ UNCHANGED <<nativeVars, voipVars, activeCallId, activeInstanceId,
                         startedFor, environmentVars>>

StartEmplace ==
  /\ pc = "startEmplace"
  /\ \E id \in InstanceIds :
       /\ EmplaceSession(id)
       /\ startedFor' = [startedFor EXCEPT ![id] = readyCall]
  /\ pc' = "startCreate"
  /\ UNCHANGED <<voipVars, activeCallId, activeInstanceId, readyCall,
                 environmentVars>>

\* startCall throws (an invalid key, no notifier): caught and logged.
GiveUpStart ==
  /\ pc' = "idle"
  /\ readyCall' = NoCall
  /\ UNCHANGED <<voipVars, activeCallId, activeInstanceId, startedFor,
                 environmentVars>>

StartRefused ==
  /\ pc = "startEmplace"
  /\ UNCHANGED nativeVars \/ \E id \in InstanceIds : NotifierFails(id)
  /\ GiveUpStart

StartFails ==
  /\ pc = "startCreate"
  /\ CreateFails
  /\ GiveUpStart

StartCreate ==
  /\ pc = "startCreate"
  /\ CreateInstance
  /\ pc' = "startStore"
  /\ UNCHANGED <<voipVars, activeCallId, activeInstanceId, readyCall,
                 startedFor, environmentVars>>

StartStore ==
  /\ pc = "startStore"
  /\ StoreInstance
  /\ activeCallId' = readyCall
  /\ activeInstanceId' = starting
  /\ pc' = "startDrain"
  /\ UNCHANGED <<voipVars, readyCall, startedFor, environmentVars>>

\* Mutant: the continuous task is not asked for.
StartDrainNoTask ==
  /\ pc = "startDrain"
  /\ Flush(activeCallId, activeInstanceId)
  /\ pc' = "idle"
  /\ readyCall' = NoCall
  /\ UNCHANGED <<voipVars, activeCallId, activeInstanceId, startedFor>>

StartDrain ==
  /\ pc = "startDrain"
  /\ Flush(activeCallId, activeInstanceId)
  /\ Chain(<<"start">>)
  /\ pc' = "idle"
  /\ readyCall' = NoCall
  /\ UNCHANGED <<activeCallId, activeInstanceId, startedFor>>

-----------------------------------------------------------------------------
(* The other handlers.                                                     *)

\* A discarded or error update of the active call.
HandleEnd(call) ==
  /\ Idle /\ Room /\ HasSession
  /\ activeCallId = call
  /\ BeginStop(NoCall)

reset ==
  /\ Idle /\ Room
  /\ IF HasSession THEN BeginStop(NoCall)
     ELSE /\ Chain(<<"stop">>)
          /\ UNCHANGED <<nativeVars, controllerVars, environmentVars>>

\* Signaling data of the active call is fed and the answer flushed; when
\* the native side throws (undecodable data) the session is stopped.
HandleSignalingData(call) ==
  /\ Idle /\ HasSession
  /\ activeCallId = call
  /\ \/ /\ pc' = "feedDrain"
        /\ UNCHANGED <<nativeVars, voipVars, activeCallId, activeInstanceId,
                       readyCall, startedFor, environmentVars>>
     \/ Room /\ BeginStop(NoCall)

\* Mutant: the packets are taken out and not sent.
FeedDrainDrops ==
  /\ pc = "feedDrain"
  /\ DrainSession(activeInstanceId)
  /\ pc' = "idle"
  /\ UNCHANGED <<voipVars, activeCallId, activeInstanceId, readyCall,
                 startedFor, environmentVars>>

FeedDrain ==
  /\ pc = "feedDrain"
  /\ Flush(activeCallId, activeInstanceId)
  /\ pc' = "idle"
  /\ UNCHANGED <<voipVars, activeCallId, activeInstanceId, readyCall, startedFor>>

\* Mutant: the stale-session guard is inverted.
HandleNativeSignalingInverted(id) ==
  /\ Idle
  /\ TakeNotification(id)
  /\ pc' = IF activeInstanceId # NoId /\ id # activeInstanceId
           THEN "feedDrain" ELSE "idle"
  /\ UNCHANGED <<voipVars, activeCallId, activeInstanceId, readyCall,
                 startedFor, environmentVars>>

\* The notification an instance thread posted; the closure holds the call
\* the instance was started for.  Those of another session are ignored.
HandleNativeSignalingAvailable(id) ==
  /\ Idle
  /\ TakeNotification(id)
  /\ pc' = IF startedFor[id] = activeCallId /\ id = activeInstanceId
           THEN "feedDrain" ELSE "idle"
  /\ UNCHANGED <<voipVars, activeCallId, activeInstanceId, readyCall,
                 startedFor, environmentVars>>

-----------------------------------------------------------------------------
(* The rest of the system.                                                 *)

InstanceThread(id) ==
  /\ NativeThreads(id)
  /\ UNCHANGED <<voipVars, controllerVars, environmentVars>>

\* Bound: the authorization is lost at most once and not regained.
LoseAuthorization ==
  /\ Idle /\ authorized
  /\ authorized' = FALSE
  /\ UNCHANGED <<nativeVars, voipVars, controllerVars, sent>>

\* Promise jobs run between JS turns; the host answers at any time.
VoipProgress ==
  /\ step = "asked" \/ Idle
  /\ VoipStep
  /\ UNCHANGED <<nativeVars, controllerVars, environmentVars>>

HandlerStep ==
  \/ StopDrain \/ StopErase
  \/ StartEmplace \/ StartRefused \/ StartFails
  \/ StartCreate \/ StartStore \/ StartDrain
  \/ FeedDrain

HandlerStart ==
  \/ reset
  \/ \E call \in Calls :
       HandleReady(call) \/ HandleEnd(call) \/ HandleSignalingData(call)
  \/ \E id \in InstanceIds : HandleNativeSignalingAvailable(id)

Next ==
  \/ HandlerStep
  \/ HandlerStart
  \/ \E id \in InstanceIds : InstanceThread(id)
  \/ LoseAuthorization
  \/ VoipProgress

(* A handler that runs is never abandoned; a thread between push and       *)
(* notify goes on; the event loop serves every posted notification (it is  *)
(* a queue, hence strong fairness: other events may come first each time   *)
(* it is idle, yet not for ever); promise jobs run and the host answers.   *)
Fairness ==
  /\ WF_vars(HandlerStep)
  /\ \A id \in InstanceIds :
       /\ WF_vars(PostNotification(id) /\ InstanceThread(id))
       /\ SF_vars(HandleNativeSignalingAvailable(id))
  /\ SF_vars(VoipProgress)

Spec == Init /\ [][Next]_vars /\ Fairness

-----------------------------------------------------------------------------
(* Properties.                                                             *)

\* Between handlers the table holds exactly the session the controller
\* knows: a replaced, failed or ended call leaves no native session running
\* without an owner, and the controller never holds an id already erased.
\* Within a handler there is at most one more step to take.
TableMatchesController ==
  /\ Idle => sessions = (IF HasSession THEN {activeInstanceId} ELSE {})
  /\ Cardinality(sessions) <= 1

\* The two ids are set and cleared together and belong together.
IdsAgree ==
  /\ activeCallId = NoCall <=> activeInstanceId = NoId
  /\ HasSession => startedFor[activeInstanceId] = activeCallId

\* Both: each native session has an owner that would stop it, under the call it was started for.
SessionIsOwned == TableMatchesController /\ IdsAgree

\* A packet waiting in the active session's queue has a wake-up under way:
\* a drain in the running handler, a posted notification, or an instance
\* thread about to post one.  Otherwise it would stay until the next feed
\* or stop, which ADR-0008 (lines 217-220) is there to prevent.
NoStrandedPacket ==
  \A id \in sessions :
    queue[id] # <<>> =>
      \/ notified[id] > 0
      \/ emitting[id] > 0
      \/ pc \in {"stopDrain", "startStore", "startDrain", "feedDrain"}
      \/ pc = "stopErase"   \* dropped with the session

\* Between handlers the last thing asked of the continuous task is what the
\* session needs: start while there is one, stop when there is none.
KeepAliveFollowsSession == Idle => wanted = HasSession

\* Hence, when nothing is pending and the host refused nothing, the system
\* task runs exactly while a native session exists.
KeepAliveExactlyDuringCall ==
  Idle /\ inflight = <<>> /\ ~refused => systemTask = HasSession

\* The whole path from an instance thread to TDLib -- table, lock, drain,
\* notification, handlers -- implements the relay SignalingRelay promises,
\* its liveness included: no packet waits for ever in an open session.
Relay == INSTANCE SignalingRelay WITH
  Instances <- InstanceIds, open <- sessions, owner <- startedFor,
  waiting <- queue, out <- sent

ImplementsSignalingRelay == Relay!Spec

\* A session that ended takes the continuous task with it: the task stops,
\* or a new session or a refusal of the host intervenes.
KeepAliveEnds == ~HasSession ~> (~systemTask \/ HasSession \/ refused)

=============================================================================
