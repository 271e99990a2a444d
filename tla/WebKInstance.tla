---------------------------- MODULE WebKInstance ----------------------------
(***************************************************************************)
(* InstanceV4_0_0Impl: the call instance that speaks the Web-K signaling   *)
(* (protocol 4.0.0).  Three threads of libwebrtc run it:                   *)
(*                                                                         *)
(*   media    the home of InstanceV4_0_0ImplInternal: every method of the  *)
(*            public class is posted there, in order                       *)
(*   network  the home of NativeNetworkingImpl: gathers candidates and     *)
(*            emits the local InitialSetup                                 *)
(*   worker   the home of webrtc::Call, the channels and the level timer   *)
(*                                                                         *)
(* Signaling leaves from the media and from the network thread: a sequence *)
(* number is allotted under _signalingMutex, the packet is handed over     *)
(* outside it.  The peer is any sequence of messages; the JS thread feeds  *)
(* them, mutes, and at the end stops the instance and drops it.            *)
(***************************************************************************)
EXTENDS Integers, Sequences

CONSTANTS
  Ssrcs,      \* audio SSRCs a remote InitialSetup may carry
  MaxFed,     \* bound: posts of the JS thread before the stop
  MaxSeq,     \* bound: sequence numbers allotted, for candidates
  MaxTasks,   \* bound: RTCP tasks waiting on the worker
  MaxLevels   \* bound: microphone levels reported

ASSUME WebKAssumption ==
  /\ Ssrcs \subseteq Nat \ {0}
  /\ MaxFed \in Nat /\ MaxSeq \in Nat /\ MaxTasks \in Nat /\ MaxLevels \in Nat

VARIABLES
  caller,       \* _encryptionKeyIsOutgoing
  fingerprint,  \* whether networking->getLocalFingerprint() gives one
  mediaQ, netQ, workQ,   \* tasks waiting on each thread
  mediaPc, netPc,        \* where the media and the network thread are inside a task
  held,         \* per thread: the packet that has its number and is not handed over
  net,          \* _networking and the state of the object behind it
  sig,          \* the signaling latches and _outgoingSequence
  pipe,         \* the media pipeline
  mute,         \* _muteMicrophone
  wire,         \* history: packets given to _signalingDataEmitted, in order
  levels,       \* number of calls of _audioLevelUpdated
  posted,       \* posts of the JS thread so far
  released,     \* StopCallNapi has stopped and dropped the instance
  stopped,      \* stop() has called its completion
  freed         \* ~InstanceV4_0_0ImplInternal has returned

vars == <<caller, fingerprint, mediaQ, netQ, workQ, mediaPc, netPc, held, net, sig,
          pipe, mute, wire, levels, posted, released, stopped, freed>>

Nothing == [kind |-> "none", seq |-> 0]
Packets == {"InitialSetup", "Candidates", "MediaState"}
Held == [kind : Packets \cup {"none"}, seq : Nat]

MediaTasks == [op : {"start", "setup", "candidates", "other", "mute", "stop", "delete"},
               audio : Ssrcs \cup {0}, mute : BOOLEAN]
NetTasks == [op : {"callerSetup", "localSetup", "setRemote", "addCandidates", "stop", "fence"},
             audio : Ssrcs \cup {0}]
MediaTask(op) == [op |-> op, audio |-> 0, mute |-> FALSE]
NetTask(op) == [op |-> op, audio |-> 0]

Networking == [state : {"none", "made", "started", "stopped", "gone"}, remote : BOOLEAN]
Latches == [scheduled : BOOLEAN, emitted : BOOLEAN, mediaSent : BOOLEAN, next : Nat \ {0}]
Pipelines == [ready : BOOLEAN, offer : BOOLEAN, call : BOOLEAN, alive : BOOLEAN,
              in : Ssrcs \cup {0}, out : {"none", "open", "muted"}, level : BOOLEAN]

\* Type invariant.
TypeOK ==
  /\ caller \in BOOLEAN /\ fingerprint \in BOOLEAN
  /\ mediaQ \in Seq(MediaTasks) /\ netQ \in Seq(NetTasks) /\ workQ \in Seq({"rtcp", "teardown"})
  /\ mediaPc \in {"idle", "fence", "teardown", "await", "reset"}
  /\ netPc \in {"idle", "mark", "state"}
  /\ held \in [{"media", "net"} -> Held]
  /\ net \in Networking /\ sig \in Latches /\ pipe \in Pipelines
  /\ mute \in BOOLEAN
  /\ wire \in Seq([kind : Packets, seq : Nat])
  /\ levels \in Nat /\ posted \in Nat
  /\ released \in BOOLEAN /\ stopped \in BOOLEAN /\ freed \in BOOLEAN

\* The constructors: nothing is set up, start() waits on the media thread.
Init ==
  /\ caller \in BOOLEAN /\ fingerprint \in BOOLEAN
  /\ mediaQ = <<MediaTask("start")>> /\ netQ = <<>> /\ workQ = <<>>
  /\ mediaPc = "idle" /\ netPc = "idle"
  /\ held = [t \in {"media", "net"} |-> Nothing]
  /\ net = [state |-> "none", remote |-> FALSE]
  /\ sig = [scheduled |-> FALSE, emitted |-> FALSE, mediaSent |-> FALSE, next |-> 1]
  /\ pipe = [ready |-> FALSE, offer |-> FALSE, call |-> FALSE, alive |-> TRUE, in |-> 0,
             out |-> "none", level |-> FALSE]
  /\ mute = FALSE /\ wire = <<>> /\ levels = 0 /\ posted = 0
  /\ released = FALSE /\ stopped = FALSE /\ freed = FALSE

------------------------------------------------------------------------------
(* The JS thread: each public method posts a task to the media thread. *)

\* receiveSignalingData, for a packet that holds an InitialSetup, candidates or anything
\* else (a media state, or bytes that cannot be decrypted or parsed); setMuteMicrophone.
Post(task) ==
  /\ ~released /\ posted < MaxFed
  /\ posted' = posted + 1
  /\ mediaQ' = Append(mediaQ, task)
  /\ UNCHANGED <<caller, fingerprint, netQ, workQ, mediaPc, netPc, held, net, sig, pipe, mute,
                 wire, levels, released, stopped, freed>>

Feed ==
  \E op \in {"setup", "candidates", "other"}, a \in Ssrcs \cup {0} :
    /\ op # "setup" => a = 0
    /\ Post([op |-> op, audio |-> a, mute |-> FALSE])

SetMute == \E m \in BOOLEAN : Post([op |-> "mute", audio |-> 0, mute |-> m])

\* stop() and then the destructor: the session is out of the table, the last reference goes.
Release ==
  /\ ~released
  /\ released' = TRUE
  /\ mediaQ' = mediaQ \o <<MediaTask("stop"), MediaTask("delete")>>
  /\ UNCHANGED <<caller, fingerprint, netQ, workQ, mediaPc, netPc, held, net, sig, pipe, mute,
                 wire, levels, posted, stopped, freed>>

------------------------------------------------------------------------------
(* Signaling, from either thread. *)

\* Mutant: the number is read and not taken.
AllotPeeked(t, kind) == held' = [held EXCEPT ![t] = [kind |-> kind, seq |-> Len(wire) + 1]]

\* EncryptRawSignalingPacket: the number travels in front of the message.
Packet(kind, sequence) == [kind |-> kind, seq |-> sequence]

\* encryptWebKMessage: a number and a packet under the mutex, not yet handed over.
Allot(t, kind) == held' = [held EXCEPT ![t] = Packet(kind, sig.next)]

\* emitMediaState on thread t, after latch has been taken: once in the instance's life.
EmitMediaState(t, latches) ==
  IF latches.mediaSent
  THEN sig' = latches /\ UNCHANGED held
  ELSE /\ sig' = [latches EXCEPT !.mediaSent = TRUE, !.next = @ + 1]
       /\ Allot(t, "MediaState")

\* _signalingDataEmitted(encryptedPayload), outside the mutex.
HandOver(t) ==
  /\ held[t] # Nothing
  /\ wire' = Append(wire, held[t])
  /\ held' = [held EXCEPT ![t] = Nothing]
  /\ netPc' = IF held[t].kind = "InitialSetup" THEN "mark" ELSE netPc
  /\ UNCHANGED <<caller, fingerprint, mediaQ, netQ, workQ, mediaPc, net, sig, pipe, mute,
                 levels, posted, released, stopped, freed>>

------------------------------------------------------------------------------
(* The media thread. *)

MediaTakes(op) ==
  /\ mediaPc = "idle" /\ held["media"] = Nothing
  /\ mediaQ # <<>> /\ Head(mediaQ).op = op
  /\ mediaQ' = Tail(mediaQ)

HasNetworking == net.state \notin {"none", "gone"}

\* setUpMediaPipeline: device module, engine, transport, Call, pending offer; any of the
\* first four may be refused, which ends it with nothing ready, while an offer that is missing
\* is only logged.  The caller answers its own offer at once, so that a remote InitialSetup is
\* an offer to both roles.
SetUpMediaPipeline ==
  \/ \E offer \in BOOLEAN :
       pipe' = [pipe EXCEPT !.ready = TRUE, !.call = TRUE, !.offer = offer]
  \/ UNCHANGED pipe

\* start: the networking object and the pipeline; the caller schedules its InitialSetup,
\* which carries the offer and is skipped without one.
Start ==
  /\ MediaTakes("start")
  /\ net' = [net EXCEPT !.state = "made"]
  /\ SetUpMediaPipeline
  /\ sig' = [sig EXCEPT !.scheduled = caller]
  /\ netQ' = IF caller /\ pipe'.offer THEN Append(netQ, NetTask("callerSetup")) ELSE netQ
  /\ UNCHANGED <<caller, fingerprint, workQ, mediaPc, netPc, held, mute, wire, levels,
                 posted, released, stopped, freed>>

\* IncomingAudioChannel_4_0_0: bound to one SSRC, useless without its inner VoiceChannel.
IncomingAudioChannel(ssrc, made) == IF made THEN ssrc ELSE 0

\* OutgoingAudioChannel_4_0_0: useless without its inner VoiceChannel, and sends unless
\* setIsMuted has silenced it.
OutgoingAudioChannel(muted, made) == IF ~made THEN "none" ELSE IF muted THEN "muted" ELSE "open"

\* Mutant: the SSRC after the one announced.
IncomingChannelNext(audio, made) ==
  IF audio \in {0, pipe.in} THEN pipe.in ELSE IF made THEN audio + 1 ELSE 0

\* createNegotiatedChannels, incoming half: another SSRC replaces the channel; one whose
\* inner VoiceChannel could not be made is dropped.
IncomingChannel(audio, made) ==
  IF audio \in {0, pipe.in} THEN pipe.in ELSE IncomingAudioChannel(audio, made)

\* createNegotiatedChannels, outgoing half: made once, of the offer, muted as the microphone
\* is; the level timer is posted with it.
MakesOutgoing == pipe.out = "none" /\ pipe.offer
OutgoingChannel(made) ==
  IF MakesOutgoing THEN OutgoingAudioChannel(mute, made) ELSE pipe.out

\* A setup without audio announces nothing, or video, which makes our channel and no other.
Negotiate(audio) ==
  \/ (~pipe.ready \/ audio = 0) /\ UNCHANGED pipe
  \/ /\ pipe.ready
     /\ \E madeIn, madeOut \in BOOLEAN :
          pipe' = [pipe EXCEPT !.in = IncomingChannel(audio, madeIn),
                               !.out = OutgoingChannel(madeOut),
                               !.level = @ \/ (MakesOutgoing /\ madeOut)]

\* Mutant: the media state does not wait for the InitialSetup to be out.
ReceiveSetupEager ==
  /\ MediaTakes("setup")
  /\ LET audio == Head(mediaQ).audio
         remote == IF HasNetworking THEN <<NetTask("setRemote")>> ELSE <<>>
         answer == IF HasNetworking /\ ~sig.scheduled
                   THEN <<[op |-> "localSetup", audio |-> audio]>> ELSE <<>>
     IN /\ netQ' = netQ \o remote \o answer
        /\ Negotiate(audio)
        /\ EmitMediaState("media", [sig EXCEPT !.scheduled = TRUE])
  /\ UNCHANGED <<caller, fingerprint, workQ, mediaPc, netPc, net, mute, wire, levels,
                 posted, released, stopped, freed>>

\* Mutant: the answer waits for networking that only the answer starts.
ReceiveSetupDeaf ==
  /\ MediaTakes("setup")
  /\ LET audio == Head(mediaQ).audio
         remote == IF HasNetworking THEN <<NetTask("setRemote")>> ELSE <<>>
         answer == IF net.state = "started" /\ ~sig.scheduled
                   THEN <<[op |-> "localSetup", audio |-> audio]>> ELSE <<>>
     IN /\ netQ' = netQ \o remote \o answer
        /\ Negotiate(audio)
        /\ IF sig.scheduled /\ sig.emitted
           THEN EmitMediaState("media", sig)
           ELSE sig' = [sig EXCEPT !.scheduled = TRUE] /\ UNCHANGED held
  /\ UNCHANGED <<caller, fingerprint, workQ, mediaPc, netPc, net, mute, wire, levels,
                 posted, released, stopped, freed>>

\* receiveSignalingData, InitialSetup: the remote parameters go to the network thread, then
\* our answer once; a repeated setup may make the media thread emit the media state.
ReceiveSetup ==
  /\ MediaTakes("setup")
  /\ LET audio == Head(mediaQ).audio
         remote == IF HasNetworking THEN <<NetTask("setRemote")>> ELSE <<>>
         answer == IF HasNetworking /\ ~sig.scheduled
                   THEN <<[op |-> "localSetup", audio |-> audio]>> ELSE <<>>
     IN /\ netQ' = netQ \o remote \o answer
        /\ Negotiate(audio)
        /\ IF sig.scheduled /\ sig.emitted
           THEN EmitMediaState("media", sig)
           ELSE sig' = [sig EXCEPT !.scheduled = TRUE] /\ UNCHANGED held
  /\ UNCHANGED <<caller, fingerprint, workQ, mediaPc, netPc, net, mute, wire, levels,
                 posted, released, stopped, freed>>

\* addRemoteCandidates: posted at once, whether the remote parameters are known or not.
ReceiveCandidates ==
  /\ MediaTakes("candidates")
  /\ netQ' = IF HasNetworking THEN Append(netQ, NetTask("addCandidates")) ELSE netQ
  /\ UNCHANGED <<caller, fingerprint, workQ, mediaPc, netPc, held, net, sig, pipe, mute, wire,
                 levels, posted, released, stopped, freed>>

\* A packet that is neither, or that cannot be read, changes nothing.
ReceiveOther ==
  /\ MediaTakes("other")
  /\ UNCHANGED <<caller, fingerprint, netQ, workQ, mediaPc, netPc, held, net, sig, pipe, mute,
                 wire, levels, posted, released, stopped, freed>>

MuteMicrophone ==
  /\ MediaTakes("mute")
  /\ mute' = Head(mediaQ).mute
  /\ pipe' = [pipe EXCEPT !.out = OutgoingAudioChannel(mute', @ # "none")]
  /\ UNCHANGED <<caller, fingerprint, netQ, workQ, mediaPc, netPc, held, net, sig, wire,
                 levels, posted, released, stopped, freed>>

\* Mutant: the networking is stopped and not waited for.
ShutdownUnfenced ==
  /\ netQ' = IF HasNetworking THEN Append(netQ, NetTask("stop")) ELSE netQ
  /\ mediaPc' = "teardown"
  /\ UNCHANGED <<caller, fingerprint, workQ, netPc, held, net, sig, pipe, mute, wire, levels,
                 posted, released, stopped, freed>>

\* Mutant: the wait has nothing posted behind it.
ShutdownForever ==
  /\ IF HasNetworking
     THEN netQ' = Append(netQ, NetTask("stop")) /\ mediaPc' = "fence"
     ELSE mediaPc' = "teardown" /\ UNCHANGED netQ
  /\ UNCHANGED <<caller, fingerprint, workQ, netPc, held, net, sig, pipe, mute, wire, levels,
                 posted, released, stopped, freed>>

\* shutdownInstance: stop the networking and wait for the network thread to come to the fence
\* behind it.
Shutdown ==
  /\ IF HasNetworking
     THEN netQ' = netQ \o <<NetTask("stop"), NetTask("fence")>> /\ mediaPc' = "fence"
     ELSE mediaPc' = "teardown" /\ UNCHANGED netQ
  /\ UNCHANGED <<caller, fingerprint, workQ, netPc, held, net, sig, pipe, mute, wire, levels,
                 posted, released, stopped, freed>>

\* stop() logs its counters first; the destructor shuts down what stop() has, again.
Stop == MediaTakes("stop") /\ Shutdown
Delete == MediaTakes("delete") /\ Shutdown

\* teardownMediaPipelineOnWorkerThread: a blocking call, behind what the worker has to do.
Teardown ==
  /\ mediaPc = "teardown"
  /\ mediaPc' = "await"
  /\ workQ' = Append(workQ, "teardown")
  /\ UNCHANGED <<caller, fingerprint, mediaQ, netQ, netPc, held, net, sig, pipe, mute, wire,
                 levels, posted, released, stopped, freed>>

\* _networking.reset(), and the completion of stop() or the end of the destructor.
Reset ==
  /\ mediaPc = "reset"
  /\ mediaPc' = "idle"
  /\ net' = [net EXCEPT !.state = "gone"]
  /\ pipe' = [pipe EXCEPT !.ready = FALSE]
  /\ stopped' = TRUE /\ freed' = stopped
  /\ UNCHANGED <<caller, fingerprint, mediaQ, netQ, workQ, netPc, held, sig, mute, wire, levels,
                 posted, released>>

MediaThread ==
  \/ Start \/ ReceiveSetup \/ ReceiveCandidates \/ ReceiveOther \/ MuteMicrophone
  \/ Stop \/ Delete \/ Teardown \/ Reset \/ HandOver("media")

------------------------------------------------------------------------------
(* The network thread. *)

NetIdle == netPc = "idle" /\ held["net"] = Nothing
NetTakes(op) == NetIdle /\ netQ # <<>> /\ Head(netQ).op = op /\ netQ' = Tail(netQ)

\* The local InitialSetup gets its number, unless it cannot be built.
SetupBuilt(can) ==
  /\ IF can
     THEN Allot("net", "InitialSetup") /\ sig' = [sig EXCEPT !.next = @ + 1]
     ELSE UNCHANGED <<held, sig>>
  /\ UNCHANGED <<caller, fingerprint, mediaQ, workQ, mediaPc, netPc, net, pipe, mute, wire,
                 levels, posted, released, stopped, freed>>

\* emitCallerInitialSetup, the task: nothing without a local fingerprint.
EmitCallerInitialSetup == NetTakes("callerSetup") /\ SetupBuilt(fingerprint)

\* emitLocalInitialSetup, the task: nothing without a fingerprint or without remote audio.
EmitLocalInitialSetup ==
  NetTakes("localSetup") /\ SetupBuilt(fingerprint /\ Head(netQ).audio # 0)

\* After the InitialSetup went out: _initialSetupEmitted, then networking->start() once.
StartNetworking ==
  /\ netPc = "mark"
  /\ netPc' = "state"
  /\ sig' = [sig EXCEPT !.emitted = TRUE]
  /\ net' = [net EXCEPT !.state = "started"]
  /\ UNCHANGED <<caller, fingerprint, mediaQ, netQ, workQ, mediaPc, held, pipe, mute, wire,
                 levels, posted, released, stopped, freed>>

NetMediaState ==
  /\ netPc = "state"
  /\ netPc' = "idle"
  /\ EmitMediaState("net", sig)
  /\ UNCHANGED <<caller, fingerprint, mediaQ, netQ, workQ, mediaPc, net, pipe, mute, wire,
                 levels, posted, released, stopped, freed>>

\* configureRemoteInitialSetup and addRemoteCandidates, the tasks.
ConfigureRemote ==
  /\ NetTakes("setRemote") \/ NetTakes("addCandidates")
  /\ net' = [net EXCEPT !.remote = @ \/ Head(netQ).op = "setRemote"]
  /\ UNCHANGED <<caller, fingerprint, mediaQ, workQ, mediaPc, netPc, held, sig, pipe, mute,
                 wire, levels, posted, released, stopped, freed>>

\* emitLocalCandidate: networking that runs gathers (candidates that are not UDP are skipped).
EmitLocalCandidate ==
  /\ NetIdle /\ net.state = "started" /\ sig.next <= MaxSeq
  /\ Allot("net", "Candidates")
  /\ sig' = [sig EXCEPT !.next = @ + 1]
  /\ UNCHANGED <<caller, fingerprint, mediaQ, netQ, workQ, mediaPc, netPc, net, pipe, mute,
                 wire, levels, posted, released, stopped, freed>>

\* onRtcpPacketReceived: with a Call, the packet is posted to the worker.
OnRtcpPacketReceived ==
  /\ NetIdle /\ net.state = "started" /\ pipe.call /\ Len(workQ) < MaxTasks
  /\ workQ' = Append(workQ, "rtcp")
  /\ UNCHANGED <<caller, fingerprint, mediaQ, netQ, mediaPc, netPc, held, net, sig, pipe, mute,
                 wire, levels, posted, released, stopped, freed>>

\* networking->stop(): no callback comes after it.
NetworkingStop ==
  /\ NetTakes("stop")
  /\ net' = [net EXCEPT !.state = "stopped"]
  /\ UNCHANGED <<caller, fingerprint, mediaQ, workQ, mediaPc, netPc, held, sig, pipe, mute,
                 wire, levels, posted, released, stopped, freed>>

\* The empty blocking call of shutdownInstance lets the media thread go on.
Fence ==
  /\ NetTakes("fence")
  /\ mediaPc' = "teardown"
  /\ UNCHANGED <<caller, fingerprint, mediaQ, workQ, netPc, held, net, sig, pipe, mute, wire,
                 levels, posted, released, stopped, freed>>

NetThread ==
  \/ EmitCallerInitialSetup \/ EmitLocalInitialSetup \/ StartNetworking \/ NetMediaState
  \/ ConfigureRemote \/ NetworkingStop \/ Fence \/ HandOver("net")

------------------------------------------------------------------------------
(* The worker thread. *)

\* The task of onRtcpPacketReceived delivers to _call, if there is one.
DeliverRtcp ==
  /\ workQ # <<>> /\ Head(workQ) = "rtcp"
  /\ workQ' = Tail(workQ)
  /\ UNCHANGED <<caller, fingerprint, mediaQ, netQ, mediaPc, netPc, held, net, sig, pipe, mute,
                 wire, levels, posted, released, stopped, freed>>

\* The body of the teardown: the delayed tasks are told first, then everything goes.
WorkerTeardown ==
  /\ workQ # <<>> /\ Head(workQ) = "teardown"
  /\ workQ' = Tail(workQ)
  /\ pipe' = [pipe EXCEPT !.alive = FALSE, !.in = 0, !.out = "none", !.call = FALSE]
  /\ mediaPc' = "reset"
  /\ UNCHANGED <<caller, fingerprint, mediaQ, netQ, netPc, held, net, sig, mute, wire, levels,
                 posted, released, stopped, freed>>

\* The level timer: while alive it reports the outgoing channel's level and posts itself
\* again; after the teardown its last copy does nothing.
LevelTick ==
  /\ pipe.level
  /\ IF pipe.alive
     THEN /\ levels < MaxLevels /\ pipe.out # "none"
          /\ levels' = levels + 1 /\ UNCHANGED pipe
     ELSE pipe' = [pipe EXCEPT !.level = FALSE] /\ UNCHANGED levels
  /\ UNCHANGED <<caller, fingerprint, mediaQ, netQ, workQ, mediaPc, netPc, held, net, sig, mute,
                 wire, posted, released, stopped, freed>>

Next ==
  \/ Feed \/ SetMute \/ Release
  \/ MediaThread
  \/ NetThread \/ EmitLocalCandidate \/ OnRtcpPacketReceived
  \/ DeliverRtcp \/ WorkerTeardown \/ LevelTick

Spec == Init /\ [][Next]_vars

\* Every thread runs what is posted to it; nothing else is owed.
FairSpec == Spec /\ WF_vars(MediaThread) /\ WF_vars(NetThread)
                 /\ WF_vars(DeliverRtcp \/ WorkerTeardown)

------------------------------------------------------------------------------
(* Properties *)

\* The peer learns of us in the order it can use: the InitialSetup is the first packet that
\* leaves, there is one, and networking (which starts the candidates) runs only after it and,
\* for the callee, only after the remote parameters are set.  Two threads emit.
SetupComesFirst ==
  /\ \A i \in 1..Len(wire) : (wire[i].kind = "InitialSetup") <=> (i = 1)
  /\ net.state = "started" => wire # <<>> /\ (caller \/ net.remote)

\* No sequence number is given to two packets, whichever thread takes it, and when the
\* instance has stopped every number that was allotted has left.
EveryNumberOnce ==
  /\ \A i, j \in 1..Len(wire) : wire[i].seq = wire[j].seq => i = j
  /\ stopped => \A n \in 1..(sig.next - 1) : \E i \in 1..Len(wire) : wire[i].seq = n

\* When the instance is freed, no thread holds a task or a packet of it: the fence and the
\* blocking teardown have drained them.  Until then the channels live within the transport.
NothingOutlivesInstance ==
  /\ freed => /\ netQ = <<>> /\ workQ = <<>> /\ NetIdle
              /\ held["media"] = Nothing /\ mediaPc = "idle"
  /\ pipe.in # 0 \/ pipe.out # "none" => HasNetworking /\ pipe.call

\* After stop() has completed nothing is emitted and no level is reported.
SilentAfterStop == [][stopped => UNCHANGED <<wire, levels>>]_vars

\* Both: a call that was stopped is over for the peer, for the user and for the threads.
StopIsFinal == []NothingOutlivesInstance /\ SilentAfterStop

\* With a local fingerprint the caller that has an offer sends its InitialSetup, and the
\* callee answers the first one it reads if that has audio, unless the call is stopped first.
SetupIsAnswered ==
  /\ (caller /\ fingerprint /\ pipe.offer) ~> (wire # <<>> \/ stopped)
  /\ (~caller /\ fingerprint /\ mediaQ # <<>> /\ Head(mediaQ).op = "setup"
       /\ Head(mediaQ).audio # 0 /\ ~sig.scheduled /\ net.state = "made")
     ~> (wire # <<>> \/ stopped)

\* The media thread waits for the network thread and for the worker, never in a circle: an
\* instance that is dropped is freed.
ReleaseCompletes == released ~> freed
==============================================================================
