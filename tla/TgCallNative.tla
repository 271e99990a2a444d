---------------------------- MODULE TgCallNative ----------------------------
(***************************************************************************)
(* tgcall/src/main/cpp/tgcall_native.cpp: the table of native call         *)
(* sessions behind the N-API module.  The JS thread starts, feeds, drains  *)
(* and stops sessions; the threads of a running tgcalls instance emit      *)
(* signaling packets into their session's queue and post a thread-safe     *)
(* function notification for each.  Every access to the table is under     *)
(* g_sessionsMutex, so an action here is one critical section or one step  *)
(* outside it; startCall is four of them and other threads run in between. *)
(*                                                                         *)
(* The tgcalls instances are external: what matters of one is that its     *)
(* threads may emit from the moment it is constructed until it is          *)
(* destroyed, which is some time after stop() was called.                  *)
(***************************************************************************)
EXTENDS Integers, Sequences, FiniteSets

CONSTANTS MaxInt32,    \* the largest int32_t, scaled down
          MaxPackets   \* bound: packets one instance emits

ASSUME MaxInt32Assumption == MaxInt32 \in Nat \ {0}
ASSUME MaxPacketsAssumption == MaxPackets \in Nat

MinInt32 == -(MaxInt32 + 1)
InstanceIds == {MinInt32} \cup 1..MaxInt32
NoId == 0

VARIABLES
  nextInstanceId, \* g_nextInstanceId
  sessions,       \* the ids g_sessions holds
  queue,          \* emittedSignalingDataBase64 of each session
  starting,       \* the id startCall is working on, or NoId
  life,           \* external: the instance behind an id
  emitting,       \* how many instance threads stand between push and notify
  notified,       \* TSFN notifications posted and not yet run, per id
  emitted,        \* history: packets an instance has produced
  drained         \* history: packets the JS thread has taken out

nativeVars == <<nextInstanceId, sessions, queue, starting, life, emitting,
                notified, emitted, drained>>

Lives == {"none", "running", "stopping", "gone"}
Packets == 1..MaxPackets

NativeTypeOK ==
  /\ nextInstanceId \in InstanceIds
  /\ sessions \subseteq InstanceIds
  /\ queue \in [InstanceIds -> Seq(Packets)]
  /\ starting \in InstanceIds \cup {NoId}
  /\ life \in [InstanceIds -> Lives]
  /\ emitting \in [InstanceIds -> Nat]
  /\ notified \in [InstanceIds -> Nat]
  /\ emitted \in [InstanceIds -> 0..MaxPackets]
  /\ drained \in [InstanceIds -> Seq(Packets)]

NativeInit ==
  /\ nextInstanceId = 1
  /\ sessions = {}
  /\ queue = [i \in InstanceIds |-> <<>>]
  /\ starting = NoId
  /\ life = [i \in InstanceIds |-> "none"]
  /\ emitting = [i \in InstanceIds |-> 0]
  /\ notified = [i \in InstanceIds |-> 0]
  /\ emitted = [i \in InstanceIds |-> 0]
  /\ drained = [i \in InstanceIds |-> <<>>]

-----------------------------------------------------------------------------
(* Id allocation.  Incrementing INT32_MAX is undefined behaviour: a build  *)
(* wraps and the check that follows makes it 1, or the compiler, entitled  *)
(* to assume no overflow, folds the check and keeps the negative number.   *)

\* Mutant: no check for the last id.
IncrementedUnchecked(n) == {n + 1}

Incremented(n) ==
  IF n = MaxInt32 THEN {1, MinInt32} ELSE IF n < 0 THEN {1} ELSE {n + 1}

Free == InstanceIds \ sessions

\* The ids the while loop may stop at, looking from n on.
FreeFrom(n) ==
  IF n \in Free THEN {n}
  ELSE LET above == {i \in Free : i > n}
           first == CHOOSE i \in above : \A j \in above : i <= j
           least(S) == {i \in S : \A j \in S : i <= j}
       IN IF above # {} THEN {first}
          ELSE (Free \cap {MinInt32}) \cup least(Free \cap 1..MaxInt32)

\* Bound: an id is not reused while an instance started under it is still
\* around; the program would have to start 2^31 calls meanwhile.
Reusable(id) == life[id] \in {"none", "gone"} /\ notified[id] = 0

\* startCall up to its second critical section: the id is allocated, the
\* two thread-safe functions are created and the session is stored.
EmplaceSession(id) ==
  /\ starting = NoId
  /\ id \in FreeFrom(nextInstanceId)
  /\ Reusable(id)
  /\ nextInstanceId' \in Incremented(id)
  /\ starting' = id
  /\ sessions' = sessions \cup {id}
  /\ queue' = [queue EXCEPT ![id] = <<>>]
  /\ life' = [life EXCEPT ![id] = "none"]
  /\ emitted' = [emitted EXCEPT ![id] = 0]
  /\ drained' = [drained EXCEPT ![id] = <<>>]
  /\ UNCHANGED <<emitting, notified>>

\* A thread-safe function cannot be created: the id is spent, nothing stored.
NotifierFails(id) ==
  /\ starting = NoId
  /\ id \in FreeFrom(nextInstanceId)
  /\ nextInstanceId' \in Incremented(id)
  /\ UNCHANGED <<sessions, queue, starting, life, emitting, notified,
                 emitted, drained>>

\* Meta::Create returns a running instance; its threads may emit at once.
CreateInstance ==
  /\ starting # NoId /\ life[starting] = "none"
  /\ life' = [life EXCEPT ![starting] = "running"]
  /\ UNCHANGED <<nextInstanceId, sessions, queue, starting, emitting,
                 notified, emitted, drained>>

\* The factory is unavailable or the version unsupported: DestroySession.
CreateFails ==
  /\ starting # NoId /\ life[starting] = "none"
  /\ sessions' = sessions \ {starting}
  /\ starting' = NoId
  /\ UNCHANGED <<nextInstanceId, queue, life, emitting, notified, emitted,
                 drained>>

\* The instance is stored in its session and startCall returns the id.
StoreInstance ==
  /\ starting # NoId /\ life[starting] = "running"
  /\ starting' = NoId
  /\ UNCHANGED <<nextInstanceId, sessions, queue, life, emitting, notified,
                 emitted, drained>>

\* Mutant: the packets are copied out and stay queued.
DrainSessionCopies(id) ==
  /\ id \in sessions
  /\ drained' = [drained EXCEPT ![id] = @ \o queue[id]]
  /\ UNCHANGED <<nextInstanceId, sessions, queue, starting, life, emitting,
                 notified, emitted>>

\* drainSignalingData; the caller owns the packets from here on.
DrainSession(id) ==
  /\ id \in sessions
  /\ drained' = [drained EXCEPT ![id] = @ \o queue[id]]
  /\ queue' = [queue EXCEPT ![id] = <<>>]
  /\ UNCHANGED <<nextInstanceId, sessions, starting, life, emitting,
                 notified, emitted>>

\* Mutant: the session is erased and its instance not stopped.
StopSessionErasesOnly(id) ==
  /\ id \in sessions
  /\ sessions' = sessions \ {id}
  /\ queue' = [queue EXCEPT ![id] = <<>>]
  /\ UNCHANGED <<nextInstanceId, starting, life, emitting, notified, emitted,
                 drained>>

\* stopCall: the session leaves the table, its instance begins to stop.
\* Packets still in the queue are gone with the session.
StopSession(id) ==
  /\ id \in sessions
  /\ sessions' = sessions \ {id}
  /\ life' = [life EXCEPT ![id] = "stopping"]
  /\ queue' = [queue EXCEPT ![id] = <<>>]
  /\ UNCHANGED <<nextInstanceId, starting, emitting, notified, emitted,
                 drained>>

-----------------------------------------------------------------------------
(* Instance threads.                                                       *)

\* QueueEmittedSignalingData, the critical section: push, or drop the
\* packet when the session is no longer there.
EmitPacket(id) ==
  /\ life[id] \in {"running", "stopping"}
  /\ emitted[id] < MaxPackets
  /\ emitted' = [emitted EXCEPT ![id] = @ + 1]
  /\ IF id \in sessions
     THEN /\ queue' = [queue EXCEPT ![id] = Append(@, emitted[id] + 1)]
          /\ emitting' = [emitting EXCEPT ![id] = @ + 1]
     ELSE UNCHANGED <<queue, emitting>>
  /\ UNCHANGED <<nextInstanceId, sessions, starting, life, notified, drained>>

\* ... and, outside the lock, the notification.
PostNotification(id) ==
  /\ emitting[id] > 0
  /\ emitting' = [emitting EXCEPT ![id] = @ - 1]
  /\ notified' = [notified EXCEPT ![id] = @ + 1]
  /\ UNCHANGED <<nextInstanceId, sessions, queue, starting, life, emitted,
                 drained>>

\* External: stop() completes, the threads are joined, the instance is freed.
DestroyInstance(id) ==
  /\ life[id] = "stopping"
  /\ emitting[id] = 0
  /\ life' = [life EXCEPT ![id] = "gone"]
  /\ UNCHANGED <<nextInstanceId, sessions, queue, starting, emitting,
                 notified, emitted, drained>>

\* Mutant: a call without a notification.
TakeNotificationUnposted(id) ==
  /\ notified' = [notified EXCEPT ![id] = @ - 1]
  /\ UNCHANGED <<nextInstanceId, sessions, queue, starting, life, emitting,
                 emitted, drained>>

\* EmittedSignalingNotifierCallJs: the JS thread takes a notification.
TakeNotification(id) ==
  /\ notified[id] > 0
  /\ notified' = [notified EXCEPT ![id] = @ - 1]
  /\ UNCHANGED <<nextInstanceId, sessions, queue, starting, life, emitting,
                 emitted, drained>>

NativeThreads(id) ==
  EmitPacket(id) \/ PostNotification(id) \/ DestroyInstance(id)

-----------------------------------------------------------------------------
(* The module on its own: the JS thread may call anything between calls.   *)

CONSTANT MaxSessions   \* bound: sessions in the table at a time

JsThread ==
  \/ Cardinality(sessions) < MaxSessions /\ \E id \in InstanceIds : EmplaceSession(id)
  \/ \E id \in InstanceIds : NotifierFails(id)
  \/ CreateInstance
  \/ CreateFails
  \/ StoreInstance
  \/ /\ starting = NoId
     /\ \E id \in InstanceIds :
          DrainSession(id) \/ StopSession(id) \/ TakeNotification(id)

NativeNext == JsThread \/ \E id \in InstanceIds : NativeThreads(id)

NativeSpec == NativeInit /\ [][NativeNext]_nativeVars

-----------------------------------------------------------------------------
(* Properties.                                                             *)

\* What the JS thread drained and what is still queued are, in order, the
\* packets the instance pushed since its session was opened: none lost, none
\* twice, none from another session, whatever threads interleave with drain
\* and stop and however ids wrap around (lines 335-368, 642-666).
InOrderNoLoss ==
  \A id \in sessions :
    drained[id] \o queue[id] = [n \in 1..emitted[id] |-> n]

\* A running instance that nobody is starting is reachable through the
\* table: otherwise no stopCall could ever end it (lines 542-585).
NoOrphanInstance ==
  \A id \in InstanceIds : life[id] = "running" => id \in sessions

\* Nothing is left behind by a start that failed: a session in the table
\* that is not being started has an instance (DestroySession on each error).
NoHollowSession ==
  \A id \in sessions : id # starting => life[id] = "running"

\* Both: between starts the table is the truth about the running instances, whatever step of
\* a start failed and however late a stopping instance still emits.
TableMatchesInstances == NoOrphanInstance /\ NoHollowSession

=============================================================================
