------------------------------- MODULE V3Call -------------------------------
(***************************************************************************)
(* Two InstanceV13_0_0Impl in a call: the tgcalls v2 signaling, version 3. *)
(* Each has a media thread (its home) and a network thread, each with a    *)
(* queue of tasks.  Signaling messages travel through TDLib: over SCTP, or *)
(* raw when the server sets network_signaling_nosctp, and then nothing     *)
(* keeps their order.  The data channel of the media transport carries the *)
(* media state; it may close and open again, losing what is under way.     *)
(***************************************************************************)
EXTENDS Integers, Sequences, FiniteSets, SequencesExt

CONSTANTS
  MaxEvents,    \* bound: candidates gathered, mutes, closings of the data channel, stops and
                \* refusals of the media engine
  MayGather,    \* peers whose networking may gather candidates
  MayMute,      \* peers whose microphone may be muted
  MayStop       \* peers whose call may be stopped

Peers == {"caller", "callee"}

ASSUME V3Assumption ==
  /\ MaxEvents \in Nat
  /\ \A may \in {MayGather, MayMute, MayStop} : may \subseteq Peers

VARIABLES
  sctp,       \* whether the signaling connection is an SCTP one
  mediaQ, netQ,   \* tasks waiting on the threads of each peer
  pc,         \* where the media thread of each peer is
  st,         \* the members of InstanceV13_0_0ImplInternal, per peer
  net,        \* the networking object of each peer
  chan,       \* signaling messages on their way to each peer
  dcUp,       \* the data channel between the two networking objects
  told,       \* history: the last media state each peer was sent (its mute flag)
  events,     \* number of events so far
  refused,    \* history: the media engine refused a pipeline or a channel
  released, stopped, freed    \* per peer, as in WebKInstance

vars == <<sctp, mediaQ, netQ, pc, st, net, chan, dcUp, told, events, refused,
          released, stopped, freed>>

Other(p) == CHOOSE q \in Peers : q # p

Message(kind, exchange) == [kind |-> kind, exchange |-> exchange]
Messages == {Message("Setup", "none"), Message("Candidates", "none")}
            \cup {Message("Negotiate", p) : p \in Peers}

\* A task of the media thread: op, and the message or flag it carries.
Task(op) == [op |-> op, msg |-> Message("none", "none"), flag |-> FALSE]
FlagTask(op, f) == [Task(op) EXCEPT !.flag = f]
DataTask(m) == [Task("data") EXCEPT !.msg = m]
\* Tasks that post work on `this` from another thread and so carry the alive gate.
Gated == {"data", "params", "dcState", "dcMessage"}

\* Type invariant.
TypeOK ==
  /\ sctp \in BOOLEAN /\ dcUp \in BOOLEAN /\ refused \in BOOLEAN /\ events \in 0..MaxEvents
  /\ \A p \in Peers :
       /\ \A i \in 1..Len(mediaQ[p]) :
            mediaQ[p][i].op \in {"start", "mute", "stop", "delete"} \cup Gated
       /\ \A i \in 1..Len(netQ[p]) :
            netQ[p][i].op \in {"start", "params", "setRemote", "add", "dcSend", "stop", "fence"}
       /\ pc[p] \in {"idle", "signaling", "fence", "teardown"}
       /\ \A i \in 1..Len(chan[p]) : chan[p][i] \in Messages
       /\ st[p] \in [ready : BOOLEAN, conn : BOOLEAN, alive : BOOLEAN, handshake : BOOLEAN,
                     setupSent : BOOLEAN, dcOpen : BOOLEAN, pending : 0..MaxEvents,
                     need : BOOLEAN, offered : BOOLEAN, in : BOOLEAN,
                     out : {"none", "open", "muted"}, mute : BOOLEAN]
       /\ net[p] \in [state : {"none", "made", "started", "stopped", "gone"}, remote : BOOLEAN,
                      added : 0..MaxEvents]
       /\ told[p] \in {"nothing", "open", "muted"}
       /\ released[p] \in BOOLEAN /\ stopped[p] \in BOOLEAN /\ freed[p] \in BOOLEAN

Init ==
  /\ sctp \in BOOLEAN
  /\ mediaQ = [p \in Peers |-> <<Task("start")>>]
  /\ netQ = [p \in Peers |-> <<>>] /\ chan = [p \in Peers |-> <<>>]
  /\ pc = [p \in Peers |-> "idle"]
  /\ st = [p \in Peers |->
            [ready |-> FALSE, conn |-> FALSE, alive |-> TRUE, handshake |-> FALSE,
             setupSent |-> FALSE, dcOpen |-> FALSE, pending |-> 0, need |-> FALSE,
             offered |-> FALSE, in |-> FALSE, out |-> "none", mute |-> FALSE]]
  /\ net = [p \in Peers |-> [state |-> "none", remote |-> FALSE, added |-> 0]]
  /\ dcUp = FALSE /\ told = [p \in Peers |-> "nothing"]
  /\ events = 0
  /\ refused = FALSE
  /\ released = [p \in Peers |-> FALSE] /\ stopped = [p \in Peers |-> FALSE]
  /\ freed = [p \in Peers |-> FALSE]

------------------------------------------------------------------------------
(* Helpers: what a peer posts and sends in one step. *)

PostNet(p, tasks) == netQ' = [netQ EXCEPT ![p] = @ \o tasks]

\* sendSignalingMessage: nothing leaves without a connection and its encryption.
Send(p, msgs) ==
  chan' = IF st'[p].conn THEN [chan EXCEPT ![Other(p)] = @ \o msgs] ELSE chan

\* sendInitialSetup: once; the network thread is asked for the local parameters.
SetupTasks(s) == IF s.setupSent THEN <<>> ELSE <<Task("params")>>

\* getPendingOffer of the negotiation context: our outgoing audio, while it is unsettled
\* and no offer of it is out.
MustOffer(s) == s.ready /\ s.need /\ ~s.offered

\* IncomingAudioChannel_13_0_0 and OutgoingAudioChannel_13_0_0: useless without the inner
\* VoiceChannel; the outgoing one sends unless setIsMuted has silenced it.
IncomingAudioChannel(made) == made
OutgoingAudioChannel(muted, made) == IF ~made THEN "none" ELSE IF muted THEN "muted" ELSE "open"

\* The media thread is free and its next task is op.
Takes(p, op) ==
  /\ pc[p] = "idle" /\ mediaQ[p] # <<>> /\ Head(mediaQ[p]).op = op
  /\ mediaQ' = [mediaQ EXCEPT ![p] = Tail(@)]

------------------------------------------------------------------------------
(* The media thread of a peer. *)

\* The media engine refuses what it is asked for.
Refusal == refused' = TRUE /\ events < MaxEvents /\ events' = events + 1

\* setUpMediaPipeline, when the engine refuses nothing: the context is there, with our
\* outgoing channel in it to be negotiated.
SetUpMediaPipeline(s) == [s EXCEPT !.ready = TRUE, !.need = TRUE]

\* start, first half: the networking object and the pipeline, which has the network thread
\* start gathering.
Start(p) ==
  /\ Takes(p, "start")
  /\ pc' = [pc EXCEPT ![p] = "signaling"]
  /\ net' = [net EXCEPT ![p].state = "made"]
  /\ \/ /\ st' = [st EXCEPT ![p] = SetUpMediaPipeline(@)]
        /\ PostNet(p, <<Task("start")>>) /\ UNCHANGED <<refused, events>>
     \/ Refusal /\ UNCHANGED <<st, netQ>>
  /\ UNCHANGED <<sctp, chan, dcUp, told, released, stopped, freed>>

\* createSignalingConnection and beginSignaling: the caller asks for its parameters and
\* sends its offer, which leaves before the InitialSetup that needs two more hops.
BeginSignaling(p) ==
  /\ pc[p] = "signaling"
  /\ pc' = [pc EXCEPT ![p] = "idle"]
  /\ IF p = "caller"
     THEN /\ st' = [st EXCEPT ![p].conn = TRUE, ![p].setupSent = TRUE,
                              ![p].offered = MustOffer(st[p])]
          /\ PostNet(p, SetupTasks(st[p]))
          /\ Send(p, IF MustOffer(st[p]) THEN <<Message("Negotiate", p)>> ELSE <<>>)
     ELSE st' = [st EXCEPT ![p].conn = TRUE] /\ UNCHANGED <<netQ, chan>>
  /\ UNCHANGED <<sctp, mediaQ, net, dcUp, told, events, refused, released, stopped, freed>>

\* The gate of a posted continuation: nothing is done once signaling is torn down.
GateClosed(p) ==
  /\ \E op \in Gated : Takes(p, op)
  /\ ~st[p].alive
  /\ UNCHANGED <<sctp, netQ, pc, st, net, chan, dcUp, told, events, refused, released,
                 stopped, freed>>

\* sendInitialSetup, last hop.
SendSetup(p) ==
  /\ Takes(p, "params") /\ st[p].alive
  /\ UNCHANGED st
  /\ Send(p, <<Message("Setup", "none")>>)
  /\ UNCHANGED <<sctp, netQ, pc, net, dcUp, told, events, refused, released, stopped, freed>>

\* Mutant: the list is not cleared by the swap, and committed again.
CommitTasksTwice(n) == [i \in 1..(2 * n) |-> Task("add")]

\* commitPendingIceCandidates.
CommitTasks(n) == [i \in 1..n |-> Task("add")]

\* Mutant: the candidates that came early are posted ahead of the parameters.
ProcessSetupAfter(p) ==
  /\ Takes(p, "data") /\ st[p].alive /\ Head(mediaQ[p]).msg.kind = "Setup"
  /\ LET answers == p = "callee"
     IN /\ PostNet(p, CommitTasks(st[p].pending) \o <<Task("setRemote")>>
                      \o (IF answers THEN SetupTasks(st[p]) ELSE <<>>))
        /\ st' = [st EXCEPT ![p].handshake = TRUE, ![p].pending = 0,
                            ![p].setupSent = @ \/ answers]
  /\ UNCHANGED <<sctp, pc, net, chan, dcUp, told, events, refused, released, stopped, freed>>

\* processSignalingData, InitialSetup: the parameters first, then our own setup if we are
\* the callee, then the candidates that came early.
ProcessSetup(p) ==
  /\ Takes(p, "data") /\ st[p].alive /\ Head(mediaQ[p]).msg.kind = "Setup"
  /\ LET answers == p = "callee"
     IN /\ PostNet(p, <<Task("setRemote")>> \o (IF answers THEN SetupTasks(st[p]) ELSE <<>>)
                      \o CommitTasks(st[p].pending))
        /\ st' = [st EXCEPT ![p].handshake = TRUE, ![p].pending = 0,
                            ![p].setupSent = @ \/ answers]
  /\ UNCHANGED <<sctp, pc, net, chan, dcUp, told, events, refused, released, stopped, freed>>

\* processSignalingData, Candidates: kept until the remote parameters are posted.
ProcessCandidates(p) ==
  /\ Takes(p, "data") /\ st[p].alive /\ Head(mediaQ[p]).msg.kind = "Candidates"
  /\ IF st[p].handshake
     THEN PostNet(p, CommitTasks(st[p].pending + 1)) /\ st' = [st EXCEPT ![p].pending = 0]
     ELSE st' = [st EXCEPT ![p].pending = @ + 1] /\ UNCHANGED netQ
  /\ UNCHANGED <<sctp, pc, net, chan, dcUp, told, events, refused, released, stopped, freed>>

\* Mutant: whose offer it was is not asked, so that an answer is answered.
NegotiatedAnyone(p, exchange) ==
  IF st[p].offered /\ p = "caller"
  THEN [s |-> st[p], answer |-> FALSE, heard |-> FALSE]
  ELSE [s |-> [st[p] EXCEPT !.offered = FALSE], answer |-> TRUE, heard |-> TRUE]

\* setRemoteNegotiationContent: the answer to our own offer settles it; another offer than
\* ours while ours is out is ignored by the caller and taken by the callee, who then has
\* to offer again.  Whoever takes an offer learns what will come in and answers.
Negotiated(p, exchange) ==
  LET s == st[p]
  IN CASE s.offered /\ exchange = p ->
            [s |-> [s EXCEPT !.offered = FALSE, !.need = FALSE], answer |-> FALSE, heard |-> FALSE]
       [] s.offered /\ exchange # p /\ p = "caller" ->
            [s |-> s, answer |-> FALSE, heard |-> FALSE]
       [] OTHER ->
            [s |-> [s EXCEPT !.offered = FALSE], answer |-> TRUE, heard |-> TRUE]

\* createNegotiatedChannels: an incoming channel for what the peer sends, an outgoing one
\* once ours is settled, muted as the microphone is; madeIn and madeOut: the engine makes
\* the inner channel.
NegotiatedChannels(s, heard, madeIn, madeOut) ==
  [s EXCEPT !.in = @ \/ (heard /\ IncomingAudioChannel(madeIn)),
            !.out = IF ~s.need /\ @ = "none" THEN OutgoingAudioChannel(s.mute, madeOut) ELSE @]

\* processSignalingData, NegotiateChannels: dropped without a context; else the answer,
\* then our own offer if one is due, then the channels.
ProcessNegotiate(p) ==
  /\ Takes(p, "data") /\ st[p].alive /\ Head(mediaQ[p]).msg.kind = "Negotiate"
  /\ LET exchange == Head(mediaQ[p]).msg.exchange
         n == Negotiated(p, exchange)
         offers == MustOffer(n.s)
     IN IF ~st[p].ready
        THEN UNCHANGED <<st, chan, refused, events>>
        ELSE \E madeIn, madeOut \in BOOLEAN :
               LET s == NegotiatedChannels([n.s EXCEPT !.offered = @ \/ offers], n.heard,
                                           madeIn, madeOut)
               IN /\ st' = [st EXCEPT ![p] = s]
                  /\ Send(p, (IF n.answer THEN <<Message("Negotiate", exchange)>> ELSE <<>>)
                             \o (IF offers THEN <<Message("Negotiate", p)>> ELSE <<>>))
                  /\ IF (n.heard /\ ~s.in) \/ (~s.need /\ s.out = "none")
                     THEN Refusal ELSE UNCHANGED <<refused, events>>
  /\ UNCHANGED <<sctp, netQ, pc, net, dcUp, told, released, stopped, freed>>

\* sendMediaState, when the channel is known to be open.
MediaStateTasks(s) == IF s.dcOpen THEN <<FlagTask("dcSend", s.mute)>> ELSE <<>>

\* Mutant: the opening is noted and not answered.
DataChannelStateSilent(p) ==
  /\ Takes(p, "dcState") /\ st[p].alive
  /\ st' = [st EXCEPT ![p].dcOpen = Head(mediaQ[p]).flag]
  /\ UNCHANGED netQ
  /\ UNCHANGED <<sctp, pc, net, chan, dcUp, told, events, refused, released, stopped, freed>>

\* Mutant: the gate is not asked.
DataChannelStateUngated(p) ==
  /\ Takes(p, "dcState")
  /\ LET open == Head(mediaQ[p]).flag
         s == [st[p] EXCEPT !.dcOpen = open]
     IN /\ st' = [st EXCEPT ![p] = s]
        /\ PostNet(p, IF open /\ ~st[p].dcOpen THEN MediaStateTasks(s) ELSE <<>>)
  /\ UNCHANGED <<sctp, pc, net, chan, dcUp, told, events, refused, released, stopped, freed>>

\* onDataChannelStateUpdated: only changes count, and the opening is answered with our state.
DataChannelState(p) ==
  /\ Takes(p, "dcState") /\ st[p].alive
  /\ LET open == Head(mediaQ[p]).flag
         s == [st[p] EXCEPT !.dcOpen = open]
     IN /\ st' = [st EXCEPT ![p] = s]
        /\ PostNet(p, IF open /\ ~st[p].dcOpen THEN MediaStateTasks(s) ELSE <<>>)
  /\ UNCHANGED <<sctp, pc, net, chan, dcUp, told, events, refused, released, stopped, freed>>

\* onDataChannelMessage with a MediaState: what the peer is told; it only logs it.
DataChannelMessage(p) ==
  /\ Takes(p, "dcMessage") /\ st[p].alive
  /\ told' = [told EXCEPT ![p] = IF Head(mediaQ[p]).flag THEN "muted" ELSE "open"]
  /\ UNCHANGED <<sctp, netQ, pc, st, net, chan, dcUp, events, refused, released, stopped,
                 freed>>

\* setMuteMicrophone: a real change reaches the outgoing channel and the peer.
MuteMicrophone(p) ==
  /\ Takes(p, "mute")
  /\ LET m == Head(mediaQ[p]).flag
         s == [st[p] EXCEPT !.mute = m, !.out = OutgoingAudioChannel(m, @ # "none")]
     IN IF m = st[p].mute
        THEN UNCHANGED <<st, netQ>>
        ELSE st' = [st EXCEPT ![p] = s] /\ PostNet(p, MediaStateTasks(s))
  /\ UNCHANGED <<sctp, pc, net, chan, dcUp, told, events, refused, released, stopped, freed>>

\* shutdownInstance: close the gate, drop connection and
\* encryption, stop the networking and wait for the fence.
Shutdown(p) ==
  /\ st' = [st EXCEPT ![p].alive = FALSE, ![p].conn = FALSE]
  /\ IF net[p].state \notin {"none", "gone"}
     THEN PostNet(p, <<Task("stop"), Task("fence")>>) /\ pc' = [pc EXCEPT ![p] = "fence"]
     ELSE pc' = [pc EXCEPT ![p] = "teardown"] /\ UNCHANGED netQ
  /\ UNCHANGED <<sctp, net, chan, dcUp, told, events, refused, released, stopped, freed>>

\* stop() reads and logs its counters first; the destructor shuts down again.
Stop(p) == Takes(p, "stop") /\ Shutdown(p)
Delete(p) == Takes(p, "delete") /\ Shutdown(p)

\* teardownMediaPipelineOnWorkerThread, _networking.reset(), the completion or the end of ~.
Teardown(p) ==
  /\ pc[p] = "teardown"
  /\ pc' = [pc EXCEPT ![p] = "idle"]
  /\ st' = [st EXCEPT ![p].ready = FALSE, ![p].in = FALSE, ![p].out = "none"]
  /\ net' = [net EXCEPT ![p].state = "gone"]
  /\ stopped' = [stopped EXCEPT ![p] = TRUE]
  /\ freed' = [freed EXCEPT ![p] = stopped[p]]
  /\ UNCHANGED <<sctp, mediaQ, netQ, chan, dcUp, told, events, refused, released>>

MediaThread(p) ==
  \/ Start(p) \/ BeginSignaling(p) \/ GateClosed(p) \/ SendSetup(p) \/ ProcessSetup(p)
  \/ ProcessCandidates(p) \/ ProcessNegotiate(p) \/ DataChannelState(p)
  \/ DataChannelMessage(p) \/ MuteMicrophone(p) \/ Stop(p) \/ Delete(p) \/ Teardown(p)

------------------------------------------------------------------------------
(* The network thread of a peer. *)

NetTakes(p, op) ==
  /\ netQ[p] # <<>> /\ Head(netQ[p]).op = op
  /\ netQ' = [netQ EXCEPT ![p] = Tail(@)]

NetworkingTask(p) ==
  /\ \/ NetTakes(p, "start") /\ net' = [net EXCEPT ![p].state = "started"]
     \/ NetTakes(p, "setRemote") /\ net' = [net EXCEPT ![p].remote = TRUE]
     \/ NetTakes(p, "add") /\ net' = [net EXCEPT ![p].added = @ + 1]
     \/ NetTakes(p, "stop") /\ net' = [net EXCEPT ![p].state = "stopped"]
  /\ UNCHANGED <<sctp, mediaQ, pc, st, chan, dcUp, told, events, refused, released, stopped,
                 freed>>

\* sendInitialSetup, middle hop: read the parameters, go back to the media thread.
LocalParams(p) ==
  /\ NetTakes(p, "params")
  /\ mediaQ' = [mediaQ EXCEPT ![p] = Append(@, Task("params"))]
  /\ UNCHANGED <<sctp, pc, st, net, chan, dcUp, told, events, refused, released, stopped,
                 freed>>

\* sendDataChannelMessage: a channel that has closed meanwhile swallows it; else the peer's
\* network thread posts it, with the gate.
DataChannelSend(p) ==
  /\ NetTakes(p, "dcSend")
  /\ mediaQ' = IF dcUp
               THEN [mediaQ EXCEPT ![Other(p)] = Append(@, FlagTask("dcMessage", Head(netQ[p]).flag))]
               ELSE mediaQ
  /\ UNCHANGED <<sctp, pc, st, net, chan, dcUp, told, events, refused, released, stopped,
                 freed>>

Fence(p) ==
  /\ NetTakes(p, "fence")
  /\ pc' = [pc EXCEPT ![p] = "teardown"]
  /\ UNCHANGED <<sctp, mediaQ, st, net, chan, dcUp, told, events, refused, released, stopped,
                 freed>>

\* emitLocalCandidate: called on the network thread, sent from there; dropped when the media
\* thread has no connection yet, or no more.
EmitLocalCandidate(p) ==
  /\ p \in MayGather /\ net[p].state = "started" /\ events < MaxEvents
  /\ events' = events + 1
  /\ chan' = IF st[p].conn
             THEN [chan EXCEPT ![Other(p)] = Append(@, Message("Candidates", "none"))] ELSE chan
  /\ UNCHANGED <<sctp, mediaQ, netQ, pc, st, net, dcUp, told, refused, released, stopped, freed>>

NetThread(p) == NetworkingTask(p) \/ LocalParams(p) \/ DataChannelSend(p) \/ Fence(p)

------------------------------------------------------------------------------
(* Around the peers. *)

\* TDLib brings a signaling packet: receiveSignalingData, the connection, and the post of
\* onIncoming; in order over SCTP, in any order raw.
Deliver(p) ==
  /\ chan[p] # <<>> /\ ~released[p]
  /\ \E i \in 1..(IF sctp THEN 1 ELSE Len(chan[p])) :
       /\ mediaQ' = [mediaQ EXCEPT ![p] = Append(@, DataTask(chan[p][i]))]
       /\ chan' = [chan EXCEPT ![p] = RemoveAt(@, i)]
  /\ UNCHANGED <<sctp, netQ, pc, st, net, dcUp, told, events, refused, released, stopped,
                 freed>>

\* The data channel opens, once both transports have each other's parameters, or closes:
\* both networking objects that run post the news with the gate; messages not yet posted
\* are lost with it (see DataChannelSend).
Connected == \A p \in Peers : net[p].state = "started" /\ net[p].remote
Flap ==
  /\ dcUp' = ~dcUp
  /\ IF dcUp THEN events < MaxEvents /\ events' = events + 1 ELSE Connected /\ UNCHANGED events
  /\ mediaQ' = [p \in Peers |-> IF net[p].state = "started"
                                THEN Append(mediaQ[p], FlagTask("dcState", dcUp')) ELSE mediaQ[p]]
  /\ UNCHANGED <<sctp, netQ, pc, st, net, chan, told, refused, released, stopped, freed>>

\* The JS thread.
SetMute(p) ==
  /\ p \in MayMute /\ ~released[p] /\ events < MaxEvents
  /\ events' = events + 1
  /\ \E m \in BOOLEAN : mediaQ' = [mediaQ EXCEPT ![p] = Append(@, FlagTask("mute", m))]
  /\ UNCHANGED <<sctp, netQ, pc, st, net, chan, dcUp, told, refused, released, stopped,
                 freed>>

Release(p) ==
  /\ p \in MayStop /\ ~released[p] /\ events < MaxEvents
  /\ events' = events + 1
  /\ released' = [released EXCEPT ![p] = TRUE]
  /\ mediaQ' = [mediaQ EXCEPT ![p] = @ \o <<Task("stop"), Task("delete")>>]
  /\ UNCHANGED <<sctp, netQ, pc, st, net, chan, dcUp, told, refused, stopped, freed>>

Next ==
  \/ \E p \in Peers : MediaThread(p) \/ NetThread(p) \/ EmitLocalCandidate(p) \/ Deliver(p)
                      \/ SetMute(p) \/ Release(p)
  \/ Flap

Spec == Init /\ [][Next]_vars

------------------------------------------------------------------------------
(* Properties *)

\* The networking object is given remote candidates only after the remote parameters, in
\* whatever order TDLib brings them and whichever thread is ahead; and once the parameters
\* are posted no candidate waits behind them.
CandidatesFollowParams ==
  \A p \in Peers :
    /\ net[p].added > 0 => net[p].remote
    /\ \A i \in 1..Len(netQ[p]) : netQ[p][i].op = "add" =>
         net[p].remote \/ \E j \in 1..(i - 1) : netQ[p][j].op = "setRemote"
    /\ st[p].handshake => st[p].pending = 0

Quiet == \A p \in Peers : mediaQ[p] = <<>> /\ netQ[p] = <<>> /\ pc[p] = "idle"

\* When the threads have nothing to do and the data channel is up, each peer has last been
\* told the mute flag the other has, however the flag and the channel changed; and what the
\* microphone sends follows the flag.
PeerKnowsMute ==
  /\ Quiet /\ dcUp /\ (\A p \in Peers : ~released[p]) =>
       \A p \in Peers : told[Other(p)] = OutgoingAudioChannel(st[p].mute, TRUE)
  /\ \A p \in Peers : st[p].out = OutgoingAudioChannel(st[p].mute, st[p].out # "none")

\* The state of a freed instance is not touched, although tasks posted by the network thread
\* may still wait on its media thread behind the destructor.
FreedIsUntouched ==
  [][\A p \in Peers : freed[p] => st'[p] = st[p] /\ net'[p] = net[p] /\ pc'[p] = pc[p]]_vars

\* Over SCTP, with an engine that refuses nothing and nobody hanging up, both peers have both
\* audio channels when nothing is left to do: the two exchanges settle, however their offers
\* and answers cross.
AudioBothWays ==
  Quiet /\ (\A p \in Peers : chan[p] = <<>> /\ ~released[p]) /\ sctp /\ ~refused =>
    \A p \in Peers : st[p].in /\ st[p].out # "none"

==============================================================================
