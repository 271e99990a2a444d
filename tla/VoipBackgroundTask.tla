------------------------- MODULE VoipBackgroundTask -------------------------
(***************************************************************************)
(* services/voip/VoipBackgroundTask.ets: the continuous task that keeps    *)
(* the app alive while a call is active.  start() and stop() may be called *)
(* at any time; every call chains doStart() or doStop() onto one promise,  *)
(* so the operations run one after the other, in invocation order, each    *)
(* suspended at an await while the system (the "host") answers.            *)
(*                                                                         *)
(* The host is external: backgroundTaskManager either performs the request *)
(* or refuses it (returns false without a UIAbility context, or rejects).  *)
(***************************************************************************)
EXTENDS Naturals, Sequences

CONSTANT MaxInflight   \* bound: operations that may be chained at a time

ASSUME MaxInflightAssumption == MaxInflight \in Nat \ {0}

VARIABLES
  running,      \* the flag VoipBackgroundTask keeps
  inflight,     \* the promise chain: pending operations, the head first
  step,         \* where the head stands: before its await, in it, after it
  systemTask,   \* the system's own truth: the continuous task exists
  wanted,       \* history: the last call was start()
  refused       \* history: the last operation to finish was refused

voipVars == <<running, inflight, step, systemTask, wanted, refused>>

Operations == {"start", "stop"}
Steps == {"queued", "asked", "done", "refused"}

VoipTypeOK ==
  /\ running \in BOOLEAN
  /\ inflight \in Seq(Operations)
  /\ step \in Steps
  /\ systemTask \in BOOLEAN
  /\ wanted \in BOOLEAN
  /\ refused \in BOOLEAN

VoipInit ==
  /\ running = FALSE
  /\ inflight = <<>>
  /\ step = "queued"
  /\ systemTask = FALSE
  /\ wanted = FALSE
  /\ refused = FALSE

-----------------------------------------------------------------------------
(* Calls.  A caller may chain several operations in one JS turn.           *)

Chain(ops) ==
  /\ inflight' = inflight \o ops
  /\ wanted' = (ops[Len(ops)] = "start")
  /\ UNCHANGED <<running, step, systemTask, refused>>

start == Chain(<<"start">>)
stop  == Chain(<<"stop">>)

-----------------------------------------------------------------------------
(* The chained operations.                                                 *)

Working(op) == inflight # <<>> /\ Head(inflight) = op

\* Mutant: whoever finishes forgets what was chained meanwhile.
FinishForgetsChain(wasRefused) ==
  /\ inflight' = <<>>
  /\ step' = "queued"
  /\ refused' = wasRefused
  /\ UNCHANGED <<systemTask, wanted>>

Finish(wasRefused) ==
  /\ inflight' = Tail(inflight)
  /\ step' = "queued"
  /\ refused' = wasRefused
  /\ UNCHANGED <<systemTask, wanted>>

\* The early return of doStart and doStop: there is nothing to ask for.
AlreadyThere ==
  /\ step = "queued"
  /\ \/ Working("start") /\ running
     \/ Working("stop") /\ ~running
  /\ UNCHANGED running
  /\ Finish(FALSE)

AskHost ==
  /\ step = "queued"
  /\ \/ Working("start") /\ ~running
     \/ Working("stop") /\ running
  /\ step' = "asked"
  /\ UNCHANGED <<running, inflight, systemTask, wanted, refused>>

\* External: the system performs the request, then its promise resolves.
HostPerforms ==
  /\ step = "asked"
  /\ systemTask' = Working("start")
  /\ step' = "done"
  /\ UNCHANGED <<running, inflight, wanted, refused>>

\* External: no UIAbility context, or the request is rejected.
HostRefuses ==
  /\ step = "asked"
  /\ step' = "refused"
  /\ UNCHANGED <<running, inflight, systemTask, wanted, refused>>

\* The continuation after the await flips the flag only on success.
Resume ==
  \/ /\ step = "done"
     /\ running' = Working("start")
     /\ Finish(FALSE)
  \/ /\ step = "refused"
     /\ UNCHANGED running
     /\ Finish(TRUE)

VoipStep == AlreadyThere \/ AskHost \/ HostPerforms \/ HostRefuses \/ Resume

VoipNext ==
  \/ Len(inflight) < MaxInflight /\ (start \/ stop)
  \/ VoipStep

(* Microtasks always run and the host always answers.                      *)
VoipFairness == WF_voipVars(VoipStep)

VoipSpec == VoipInit /\ [][VoipNext]_voipVars /\ VoipFairness

-----------------------------------------------------------------------------
(* Properties.                                                             *)

\* Outside an operation's await the flag is the truth about the system: a
\* task the flag does not know of could never be stopped (lines 138-141 and
\* 154-157 order the flag after the acknowledgement for this reason).
FlagIsTruth == step \in {"queued", "asked", "refused"} => running = systemTask

\* When the chain has drained, the system does what the last call asked for,
\* however start() and stop() interleaved with the host's answers, unless
\* the host refused that very last operation.
LastCallWins == inflight = <<>> /\ ~refused => systemTask = wanted

\* Both: what the host runs is known and is what was asked for, at each await and after all.
HostFollowsCalls == FlagIsTruth /\ LastCallWins

=============================================================================
