-------------------------- MODULE WebKInstanceProofs --------------------------
(***************************************************************************)
(* Proofs about WebKInstance: all of its safety, for every length of the   *)
(* queues, every number of messages, mutes, candidates and levels, and     *)
(* every interleaving of the three threads.                                *)
(***************************************************************************)
EXTENDS WebKInstance, SequenceTheorems, TLAPS

SetupTasks == {"callerSetup", "localSetup"}
StopTasks == {"stop", "delete"}

\* start is the first task of the media thread, and nothing has happened before it.
StartInv ==
  /\ \A i \in 1..Len(mediaQ) : mediaQ[i].op = "start" => i = 1 /\ net.state = "none"
  /\ net.state = "none" => /\ mediaQ # <<>> /\ mediaQ[1].op = "start"
                           /\ netQ = <<>> /\ wire = <<>> /\ mediaPc = "idle" /\ netPc = "idle"
                           /\ held["media"] = Nothing /\ held["net"] = Nothing
                           /\ ~sig.scheduled
                           /\ ~pipe.ready /\ pipe.in = 0 /\ pipe.out = "none"

\* What is left on the media thread, before the stop, during it, and after it.
ShutInv ==
  /\ ~released =>
       /\ mediaPc = "idle" /\ ~stopped /\ ~freed
       /\ \A i \in 1..Len(mediaQ) : mediaQ[i].op \notin StopTasks
  /\ released /\ mediaPc = "idle" =>
       \/ /\ Len(mediaQ) > 1 /\ ~stopped /\ ~freed
          /\ mediaQ[Len(mediaQ) - 1].op = "stop" /\ mediaQ[Len(mediaQ)].op = "delete"
          /\ \A i \in 1..(Len(mediaQ) - 2) : mediaQ[i].op \notin StopTasks
       \/ Len(mediaQ) = 1 /\ mediaQ[1].op = "delete" /\ stopped /\ ~freed
       \/ mediaQ = <<>> /\ stopped /\ freed
  /\ mediaPc # "idle" =>
       /\ released /\ ~freed /\ held["media"] = Nothing
       /\ \/ Len(mediaQ) = 1 /\ mediaQ[1].op = "delete" /\ ~stopped
          \/ mediaQ = <<>> /\ stopped
  /\ stopped => held["media"] = Nothing

\* The network thread between networking->stop() and the fence, and what it leaves.
FenceInv ==
  /\ stopped <=> net.state = "gone"
  /\ net.state \in {"stopped", "gone"} => NetIdle
  /\ net.state = "stopped" => mediaPc # "idle"
  /\ net.state = "gone" => netQ = <<>>
  /\ mediaPc \in {"teardown", "await", "reset"} =>
       net.state \in {"stopped", "gone"} /\ netQ = <<>>
  /\ mediaPc = "fence" =>
       /\ netQ # <<>> /\ netQ[Len(netQ)].op = "fence" /\ ~stopped
       /\ IF net.state = "stopped" THEN Len(netQ) = 1
          ELSE Len(netQ) > 1 /\ netQ[Len(netQ) - 1].op = "stop"
  /\ \A i \in 1..Len(netQ) :
       /\ netQ[i].op = "fence" => mediaPc = "fence" /\ i = Len(netQ)
       /\ netQ[i].op = "stop" => mediaPc = "fence" /\ i = Len(netQ) - 1

\* The worker around the teardown, and what the pipeline has.
WorkerInv ==
  /\ \A i \in 1..Len(workQ) : workQ[i] = "teardown" => mediaPc = "await" /\ i = Len(workQ)
  /\ mediaPc = "await" => workQ # <<>> /\ workQ[Len(workQ)] = "teardown"
  /\ mediaPc = "reset" \/ (net.state = "gone" /\ mediaPc = "idle") => workQ = <<>>
  /\ mediaPc = "reset" \/ stopped => ~pipe.alive /\ pipe.in = 0 /\ pipe.out = "none"
  /\ pipe.ready => net.state # "gone" /\ (mediaPc # "reset" => pipe.call)
  /\ pipe.in # 0 \/ pipe.out # "none" => HasNetworking /\ pipe.call

\* There is one InitialSetup: waiting on the network thread, held by it, or first on the wire;
\* and nothing else is emitted before.
SetupInv ==
  /\ \A i, j \in 1..Len(netQ) :
       netQ[i].op \in SetupTasks /\ netQ[j].op \in SetupTasks => i = j
  /\ \A i \in 1..Len(netQ) : netQ[i].op \in SetupTasks =>
       sig.scheduled /\ wire = <<>> /\ held["net"].kind # "InitialSetup"
  /\ held["net"].kind = "InitialSetup" => sig.scheduled /\ wire = <<>>
  /\ wire # <<>> => sig.scheduled
  /\ \A i \in 1..Len(wire) : (wire[i].kind = "InitialSetup") <=> (i = 1)
  /\ held["media"].kind # "InitialSetup"
  /\ held["media"] # Nothing => wire # <<>>
  /\ held["net"] # Nothing /\ held["net"].kind # "InitialSetup" => wire # <<>>
  /\ netPc # "idle" => wire # <<>> /\ held["net"] = Nothing
  /\ sig.emitted \/ net.state = "started" => wire # <<>>

\* The callee's InitialSetup follows the remote parameters.
RemoteInv ==
  /\ \A i \in 1..Len(netQ) :
       /\ netQ[i].op = "callerSetup" => caller
       /\ netQ[i].op = "localSetup" =>
            net.remote \/ \E j \in 1..(i - 1) : netQ[j].op = "setRemote"
  /\ held["net"].kind = "InitialSetup" \/ wire # <<>> => caller \/ net.remote

\* Every number below the next is on the wire once, or with one thread.
NumberInv ==
  /\ \A i \in 1..Len(wire) : wire[i].seq \in 1..(sig.next - 1)
  /\ \A i, j \in 1..Len(wire) : wire[i].seq = wire[j].seq => i = j
  /\ \A t \in {"media", "net"} : held[t] # Nothing =>
       /\ held[t].kind \in Packets
       /\ held[t].seq \in 1..(sig.next - 1)
       /\ \A i \in 1..Len(wire) : wire[i].seq # held[t].seq
  /\ held["media"] # Nothing /\ held["net"] # Nothing => held["media"].seq # held["net"].seq
  /\ \A n \in 1..(sig.next - 1) :
       \/ \E i \in 1..Len(wire) : wire[i].seq = n
       \/ held["media"] # Nothing /\ held["media"].seq = n
       \/ held["net"] # Nothing /\ held["net"].seq = n

WebKInv == TypeOK /\ StartInv /\ ShutInv /\ FenceInv /\ WorkerInv /\ SetupInv /\ RemoteInv
           /\ NumberInv

------------------------------------------------------------------------------
(* Queues: what is appended and what is taken.                              *)

LEMMA NetTaskType ==
  ASSUME NEW o \in {"callerSetup", "localSetup", "setRemote", "addCandidates", "stop", "fence"}
  PROVE  NetTask(o) \in NetTasks /\ NetTask(o).op = o
  BY WebKAssumption DEF NetTask, NetTasks

LEMMA MediaTaskType ==
  ASSUME NEW o \in {"start", "setup", "candidates", "other", "mute", "stop", "delete"}
  PROVE  MediaTask(o) \in MediaTasks /\ MediaTask(o).op = o
  BY WebKAssumption DEF MediaTask, MediaTasks

\* Two tasks at the end of a queue.
LEMMA AppendTwo ==
  ASSUME NEW S, NEW s \in Seq(S), NEW a \in S, NEW b \in S
  PROVE  /\ s \o <<a, b>> \in Seq(S)
         /\ Len(s \o <<a, b>>) = Len(s) + 2
         /\ \A i \in 1..Len(s) : (s \o <<a, b>>)[i] = s[i]
         /\ (s \o <<a, b>>)[Len(s) + 1] = a /\ (s \o <<a, b>>)[Len(s) + 2] = b
<1>1. <<a, b>> \in Seq(S) /\ Len(<<a, b>>) = 2
  OBVIOUS
<1>2. Len(s) \in Nat
  BY LenProperties
<1>3. QED
  BY <1>1, <1>2, ConcatProperties

LEMMA SinglesJoined ==
  ASSUME NEW S, NEW a \in S, NEW b \in S
  PROVE  <<a>> \o <<b>> = <<a, b>>
<1>1. /\ <<a>> \in Seq(S) /\ <<b>> \in Seq(S) /\ <<a, b>> \in Seq(S)
      /\ Len(<<a>>) = 1 /\ Len(<<b>>) = 1 /\ Len(<<a, b>>) = 2
  OBVIOUS
<1>2. /\ <<a>> \o <<b>> \in Seq(S) /\ Len(<<a>> \o <<b>>) = 2
      /\ \A i \in 1..2 : (<<a>> \o <<b>>)[i] = IF i <= 1 THEN <<a>>[i] ELSE <<b>>[i - 1]
  BY <1>1, ConcatProperties
<1>3. \A i \in 1..2 : (<<a>> \o <<b>>)[i] = <<a, b>>[i]
  BY <1>2
<1>4. QED
  BY <1>1, <1>2, <1>3, SeqEqual

------------------------------------------------------------------------------
(* Types.                                                                   *)

LEMMA TypeInit == Init => TypeOK
<1> SUFFICES ASSUME Init PROVE TypeOK
  OBVIOUS
<1>1. MediaTask("start") \in MediaTasks
  BY MediaTaskType
<1>2. <<MediaTask("start")>> \in Seq(MediaTasks)
  BY <1>1
<1>3. <<>> \in Seq(NetTasks) /\ <<>> \in Seq({"rtcp", "teardown"})
      /\ <<>> \in Seq([kind : Packets, seq : Nat])
  BY EmptySeq
<1>4. Nothing \in Held
  BY DEF Nothing, Held
<1>5. held \in [{"media", "net"} -> Held]
  BY <1>4 DEF Init
<1>6. net \in Networking /\ sig \in Latches /\ pipe \in Pipelines
  BY DEF Init, Networking, Latches, Pipelines
<1>7. QED
  BY <1>2, <1>3, <1>5, <1>6 DEF Init, TypeOK

\* The steps of the JS thread.
LEMMA TypeClient ==
  ASSUME TypeOK, Feed \/ SetMute \/ Release
  PROVE  TypeOK'
<1> USE DEF TypeOK
<1>1. ASSUME NEW task \in MediaTasks, Post(task)
      PROVE  TypeOK'
  BY <1>1, AppendProperties DEF Post
<1>2. CASE Feed
  BY <1>1, <1>2 DEF Feed, MediaTasks
<1>3. CASE SetMute
  BY <1>1, <1>3 DEF SetMute, MediaTasks
<1>4. CASE Release
  BY <1>4, MediaTaskType, AppendTwo DEF Release
<1>5. QED
  BY <1>2, <1>3, <1>4

\* The latches, with a number taken.
LEMMA NextNumber ==
  ASSUME NEW l \in Latches
  PROVE  /\ [l EXCEPT !.next = @ + 1] \in Latches
         /\ [l EXCEPT !.mediaSent = TRUE] \in Latches
         /\ [l EXCEPT !.mediaSent = TRUE, !.next = @ + 1] \in Latches
         /\ [l EXCEPT !.scheduled = TRUE] \in Latches
<1>1. l.next + 1 \in Nat \ {0}
  BY DEF Latches
<1>2. QED
  BY <1>1 DEF Latches

\* A packet and its number.
LEMMA TypeAllot ==
  ASSUME TypeOK, NEW t \in {"media", "net"}, NEW kind \in Packets, Allot(t, kind)
  PROVE  held' \in [{"media", "net"} -> Held]
<1>1. Packet(kind, sig.next) \in Held
  BY DEF TypeOK, Packet, Held, Latches
<1>2. QED
  BY <1>1 DEF TypeOK, Allot

LEMMA TypeHandOver ==
  ASSUME TypeOK, NEW t \in {"media", "net"}, HandOver(t), held[t].kind \in Packets
  PROVE  TypeOK'
<1>1. held[t] \in [kind : Packets, seq : Nat] /\ Nothing \in Held
  BY DEF TypeOK, Held, Nothing
<1>2. QED
  BY <1>1, AppendProperties DEF TypeOK, HandOver

\* The steps of the media thread.
LEMMA TypeMedia ==
  ASSUME TypeOK,
         \/ Start \/ ReceiveSetup \/ ReceiveCandidates \/ ReceiveOther \/ MuteMicrophone
         \/ Stop \/ Delete \/ Teardown \/ Reset
  PROVE  TypeOK'
<1> USE DEF TypeOK
<1>1. ASSUME NEW o, MediaTakes(o)
      PROVE  mediaQ' \in Seq(MediaTasks) /\ Head(mediaQ) \in MediaTasks
  BY <1>1, HeadTailProperties DEF MediaTakes
<1>2. CASE Start
  <2>1. mediaQ' \in Seq(MediaTasks)
    BY <1>1, <1>2 DEF Start
  <2>2. netQ' \in Seq(NetTasks)
    BY <1>2, NetTaskType, AppendProperties DEF Start
  <2>3. pipe' \in Pipelines
    BY <1>2 DEF Start, SetUpMediaPipeline, Pipelines
  <2>4. net' \in Networking
    BY <1>2 DEF Start, Networking
  <2>5. sig' \in Latches
    BY <1>2 DEF Start, Latches
  <2>6. QED
    BY <1>2, <2>1, <2>2, <2>3, <2>4, <2>5 DEF Start
<1>3. CASE ReceiveSetup
  <2> DEFINE audio == Head(mediaQ).audio
             remote == IF HasNetworking THEN <<NetTask("setRemote")>> ELSE <<>>
             answer == IF HasNetworking /\ ~sig.scheduled
                       THEN <<[op |-> "localSetup", audio |-> audio]>> ELSE <<>>
  <2>1. mediaQ' \in Seq(MediaTasks) /\ audio \in Ssrcs \cup {0}
    BY <1>1, <1>3 DEF ReceiveSetup, MediaTasks
  <2>2. NetTask("setRemote") \in NetTasks /\ [op |-> "localSetup", audio |-> audio] \in NetTasks
    BY <2>1, NetTaskType DEF NetTasks
  <2>3. remote \in Seq(NetTasks) /\ answer \in Seq(NetTasks)
    BY <2>2
  <2>4. netQ' \in Seq(NetTasks)
    BY <1>3, <2>3, ConcatProperties DEF ReceiveSetup
  <2>5. pipe' \in Pipelines
    <3>1. \/ UNCHANGED pipe
          \/ \E madeIn, madeOut \in BOOLEAN :
               pipe' = [pipe EXCEPT !.in = IncomingChannel(audio, madeIn),
                                    !.out = OutgoingChannel(madeOut),
                                    !.level = @ \/ (MakesOutgoing /\ madeOut)]
      BY Zenon, <1>3 DEF ReceiveSetup, Negotiate
    <3>2. ASSUME NEW made \in BOOLEAN
          PROVE  /\ IncomingChannel(audio, made) \in Ssrcs \cup {0}
                 /\ OutgoingChannel(made) \in {"none", "open", "muted"}
      BY <2>1 DEF IncomingChannel, OutgoingChannel, IncomingAudioChannel, OutgoingAudioChannel,
                  Pipelines
    <3>3. CASE \E madeIn, madeOut \in BOOLEAN :
               pipe' = [pipe EXCEPT !.in = IncomingChannel(audio, madeIn),
                                    !.out = OutgoingChannel(madeOut),
                                    !.level = @ \/ (MakesOutgoing /\ madeOut)]
      <4>1. PICK madeIn \in BOOLEAN, madeOut \in BOOLEAN :
               pipe' = [pipe EXCEPT !.in = IncomingChannel(audio, madeIn),
                                    !.out = OutgoingChannel(madeOut),
                                    !.level = @ \/ (MakesOutgoing /\ madeOut)]
        BY Zenon, <3>3
      <4>2. (pipe.level \/ (MakesOutgoing /\ madeOut)) \in BOOLEAN
        BY Zenon
      <4>3. ASSUME NEW i \in Ssrcs \cup {0}, NEW o \in {"none", "open", "muted"}, NEW l \in BOOLEAN
            PROVE  [pipe EXCEPT !.in = i, !.out = o, !.level = l] \in Pipelines
        BY DEF Pipelines
      <4>4. QED
        BY Zenon, <4>1, <4>2, <4>3, <3>2
    <3>4. QED
      BY Zenon, <3>1, <3>3
  <2>6. held' \in [{"media", "net"} -> Held]
    BY <1>3, TypeAllot DEF ReceiveSetup, EmitMediaState, Packets
  <2>7. sig' \in Latches
    BY <1>3, NextNumber DEF ReceiveSetup, EmitMediaState
  <2>8. QED
    BY <1>3, <2>1, <2>4, <2>5, <2>6, <2>7 DEF ReceiveSetup
<1>4. CASE ReceiveCandidates
  <2>1. netQ' \in Seq(NetTasks)
    BY <1>4, NetTaskType, AppendProperties DEF ReceiveCandidates
  <2>2. QED
    BY <1>1, <1>4, <2>1 DEF ReceiveCandidates
<1>5. CASE ReceiveOther
  BY <1>1, <1>5 DEF ReceiveOther
<1>6. CASE MuteMicrophone
  <2>1. mediaQ' \in Seq(MediaTasks) /\ mute' \in BOOLEAN
    BY <1>1, <1>6 DEF MuteMicrophone, MediaTasks
  <2>2. pipe' \in Pipelines
    BY <1>6, <2>1 DEF MuteMicrophone, OutgoingAudioChannel, Pipelines
  <2>3. QED
    BY <1>6, <2>1, <2>2 DEF MuteMicrophone
<1>7. CASE Stop \/ Delete
  <2>1. mediaQ' \in Seq(MediaTasks)
    BY <1>1, <1>7 DEF Stop, Delete
  <2>2. NetTask("stop") \in NetTasks /\ NetTask("fence") \in NetTasks
    BY NetTaskType
  <2>3. netQ \o <<NetTask("stop"), NetTask("fence")>> \in Seq(NetTasks)
    BY <2>2, AppendTwo
  <2>4. netQ' \in Seq(NetTasks)
    BY <1>7, <2>3 DEF Stop, Delete, Shutdown
  <2>5. QED
    BY <1>7, <2>1, <2>4 DEF Stop, Delete, Shutdown
<1>8. CASE Teardown
  BY <1>8, AppendProperties DEF Teardown
<1>9. CASE Reset
  <2>1. net' \in Networking /\ pipe' \in Pipelines
    BY <1>9 DEF Reset, Networking, Pipelines
  <2>2. QED
    BY <1>9, <2>1 DEF Reset
<1>10. QED
  BY <1>2, <1>3, <1>4, <1>5, <1>6, <1>7, <1>8, <1>9

\* The steps of the network thread and of the worker.
LEMMA TypeNet ==
  ASSUME TypeOK,
         \/ EmitCallerInitialSetup \/ EmitLocalInitialSetup \/ StartNetworking \/ NetMediaState
         \/ ConfigureRemote \/ NetworkingStop \/ Fence
         \/ EmitLocalCandidate \/ OnRtcpPacketReceived
         \/ DeliverRtcp \/ WorkerTeardown \/ LevelTick
  PROVE  TypeOK'
<1> USE DEF TypeOK
<1>1. ASSUME NEW o, NetTakes(o)
      PROVE  netQ' \in Seq(NetTasks)
  BY <1>1, HeadTailProperties DEF NetTakes
<1>2. ASSUME NEW can \in BOOLEAN, SetupBuilt(can), netQ' \in Seq(NetTasks)
      PROVE  TypeOK'
  <2>1. held' \in [{"media", "net"} -> Held]
    BY <1>2, TypeAllot DEF SetupBuilt, Packets
  <2>2. sig' \in Latches
    BY <1>2, NextNumber DEF SetupBuilt
  <2>3. QED
    BY <1>2, <2>1, <2>2 DEF SetupBuilt
<1>3. CASE EmitCallerInitialSetup
  BY <1>1, <1>2, <1>3 DEF EmitCallerInitialSetup
<1>4. CASE EmitLocalInitialSetup
  <2>1. (fingerprint /\ Head(netQ).audio # 0) \in BOOLEAN
    OBVIOUS
  <2>2. QED
    BY <1>1, <1>2, <1>4, <2>1 DEF EmitLocalInitialSetup
<1>5. CASE StartNetworking
  <2>1. net' \in Networking /\ sig' \in Latches
    BY <1>5 DEF StartNetworking, Networking, Latches
  <2>2. QED
    BY <1>5, <2>1 DEF StartNetworking
<1>6. CASE NetMediaState
  <2>1. held' \in [{"media", "net"} -> Held]
    BY <1>6, TypeAllot DEF NetMediaState, EmitMediaState, Packets
  <2>2. sig' \in Latches
    BY <1>6, NextNumber DEF NetMediaState, EmitMediaState
  <2>3. QED
    BY <1>6, <2>1, <2>2 DEF NetMediaState
<1>7. CASE ConfigureRemote
  <2>1. net' \in Networking
    BY <1>7 DEF ConfigureRemote, Networking
  <2>2. QED
    BY <1>1, <1>7, <2>1 DEF ConfigureRemote
<1>8. CASE NetworkingStop
  <2>1. net' \in Networking
    BY <1>8 DEF NetworkingStop, Networking
  <2>2. QED
    BY <1>1, <1>8, <2>1 DEF NetworkingStop
<1>9. CASE Fence
  BY <1>1, <1>9 DEF Fence
<1>10. CASE EmitLocalCandidate
  <2>1. held' \in [{"media", "net"} -> Held]
    BY <1>10, TypeAllot DEF EmitLocalCandidate, Packets
  <2>2. sig' \in Latches
    BY <1>10, NextNumber DEF EmitLocalCandidate
  <2>3. QED
    BY <1>10, <2>1, <2>2 DEF EmitLocalCandidate
<1>11. CASE OnRtcpPacketReceived
  BY <1>11, AppendProperties DEF OnRtcpPacketReceived
<1>12. CASE DeliverRtcp
  BY <1>12, HeadTailProperties DEF DeliverRtcp
<1>13. CASE WorkerTeardown
  <2>1. pipe' \in Pipelines
    BY <1>13 DEF WorkerTeardown, Pipelines
  <2>2. QED
    BY <1>13, <2>1, HeadTailProperties DEF WorkerTeardown
<1>14. CASE LevelTick
  <2>1. pipe' \in Pipelines
    BY <1>14 DEF LevelTick, Pipelines
  <2>2. levels' \in Nat
    BY <1>14 DEF LevelTick
  <2>3. QED
    BY <1>14, <2>1, <2>2 DEF LevelTick
<1>15. QED
  BY <1>3, <1>4, <1>5, <1>6, <1>7, <1>8, <1>9, <1>10, <1>11, <1>12, <1>13, <1>14
------------------------------------------------------------------------------
(* What taking a task does to a queue.                                      *)

LEMMA MediaTail ==
  ASSUME TypeOK, NEW o, MediaTakes(o)
  PROVE  /\ mediaPc = "idle" /\ held["media"] = Nothing
         /\ Len(mediaQ) \in Nat \ {0} /\ Len(mediaQ') = Len(mediaQ) - 1
         /\ mediaQ[1].op = o /\ mediaQ # <<>>
         /\ \A i \in 1..Len(mediaQ') : mediaQ'[i] = mediaQ[i + 1]
         /\ mediaQ' = Tail(mediaQ)
  BY HeadTailProperties, EmptySeq DEF TypeOK, MediaTakes

LEMMA NetTail ==
  ASSUME TypeOK, NEW o, NetTakes(o)
  PROVE  /\ netPc = "idle" /\ held["net"] = Nothing
         /\ Len(netQ) \in Nat \ {0} /\ Len(netQ') = Len(netQ) - 1
         /\ netQ[1].op = o /\ netQ # <<>>
         /\ \A i \in 1..Len(netQ') : netQ'[i] = netQ[i + 1]
  BY HeadTailProperties, EmptySeq DEF TypeOK, NetTakes, NetIdle

\* Which task each step of the two threads takes.
LEMMA MediaOps ==
  /\ Start => MediaTakes("start")
  /\ ReceiveSetup => MediaTakes("setup")
  /\ ReceiveCandidates => MediaTakes("candidates")
  /\ ReceiveOther => MediaTakes("other")
  /\ MuteMicrophone => MediaTakes("mute")
  /\ Stop => MediaTakes("stop")
  /\ Delete => MediaTakes("delete")
  BY DEF Start, ReceiveSetup, ReceiveCandidates, ReceiveOther, MuteMicrophone, Stop, Delete

LEMMA NetOps ==
  /\ EmitCallerInitialSetup => NetTakes("callerSetup")
  /\ EmitLocalInitialSetup => NetTakes("localSetup")
  /\ ConfigureRemote => NetTakes("setRemote") \/ NetTakes("addCandidates")
  /\ NetworkingStop => NetTakes("stop")
  /\ Fence => NetTakes("fence")
  BY DEF EmitCallerInitialSetup, EmitLocalInitialSetup, ConfigureRemote, NetworkingStop, Fence

------------------------------------------------------------------------------
(* StartInv.                                                                *)

LEMMA StartKept ==
  ASSUME TypeOK, StartInv, net.state # "none", net'.state # "none",
         mediaQ' = mediaQ \/ (mediaQ # <<>> /\ mediaQ' = Tail(mediaQ))
  PROVE  StartInv'
<1>1. CASE mediaQ' = mediaQ
  BY <1>1 DEF StartInv
<1>2. CASE mediaQ # <<>> /\ mediaQ' = Tail(mediaQ)
  <2>1. /\ Len(mediaQ) \in Nat /\ Len(mediaQ') = Len(mediaQ) - 1
        /\ \A i \in 1..Len(mediaQ') : mediaQ'[i] = mediaQ[i + 1]
    BY <1>2, HeadTailProperties, LenProperties DEF TypeOK
  <2>2. \A i \in 1..Len(mediaQ') : mediaQ'[i].op # "start"
    BY <2>1 DEF StartInv
  <2>3. QED
    BY <2>2 DEF StartInv
<1>3. QED
  BY <1>1, <1>2

\* The worker tears down what the media thread waits for, and has nothing behind it.
LEMMA TeardownAwaited ==
  ASSUME TypeOK, WorkerInv, workQ # <<>>, Head(workQ) = "teardown"
  PROVE  mediaPc = "await" /\ Len(workQ) = 1
<1>1. workQ[1] = "teardown" /\ 1 \in 1..Len(workQ)
  BY EmptySeq DEF TypeOK
<1>2. QED
  BY <1>1 DEF WorkerInv

\* Whoever is past the start knows it.
LEMMA Started ==
  ASSUME TypeOK, StartInv, WorkerInv
  PROVE  /\ \A o \in {"setup", "candidates", "other", "mute", "stop", "delete"} :
              MediaTakes(o) => net.state # "none"
         /\ \A o : NetTakes(o) => net.state # "none"
         /\ mediaPc # "idle" \/ netPc # "idle" => net.state # "none"
         /\ \A t \in {"media", "net"} : held[t] # Nothing => net.state # "none"
         /\ workQ # <<>> /\ Head(workQ) = "teardown" => net.state # "none"
<1>1. \A o \in {"setup", "candidates", "other", "mute", "stop", "delete"} :
        MediaTakes(o) => net.state # "none"
  BY MediaTail DEF StartInv
<1>2. \A o : NetTakes(o) => net.state # "none"
  BY DEF NetTakes, StartInv
<1>3. QED
  BY <1>1, <1>2, TeardownAwaited DEF StartInv

LEMMA StartStep ==
  ASSUME TypeOK, StartInv, WorkerInv, Next
  PROVE  StartInv'
<1>1. ASSUME NEW task \in MediaTasks, Post(task), task.op # "start"
      PROVE  StartInv'
  <2>1. /\ mediaQ' = Append(mediaQ, task)
        /\ UNCHANGED <<netQ, wire, mediaPc, netPc, held, net, sig, pipe>>
    BY <1>1 DEF Post
  <2>2. /\ Len(mediaQ) \in Nat /\ Len(mediaQ') = Len(mediaQ) + 1 /\ mediaQ' # <<>>
        /\ \A i \in 1..Len(mediaQ) : mediaQ'[i] = mediaQ[i]
        /\ mediaQ'[Len(mediaQ) + 1] = task
    BY SMTT(30), <2>1, AppendProperties, LenProperties DEF TypeOK
  <2>3. mediaQ # <<>> => 1 \in 1..Len(mediaQ)
    BY EmptySeq DEF TypeOK
  <2>4. QED
    BY <1>1, <2>1, <2>2, <2>3 DEF StartInv
<1>2. CASE Feed
  BY <1>1, <1>2 DEF Feed, MediaTasks
<1>3. CASE SetMute
  BY <1>1, <1>3 DEF SetMute, MediaTasks
<1>4. CASE Release
  <2>1. /\ mediaQ' = mediaQ \o <<MediaTask("stop"), MediaTask("delete")>>
        /\ UNCHANGED <<netQ, wire, mediaPc, netPc, held, net, sig, pipe>>
    BY <1>4 DEF Release
  <2>2. /\ MediaTask("stop") \in MediaTasks /\ MediaTask("stop").op # "start"
        /\ MediaTask("delete") \in MediaTasks /\ MediaTask("delete").op # "start"
    BY MediaTaskType
  <2>3. /\ Len(mediaQ) \in Nat /\ Len(mediaQ') = Len(mediaQ) + 2
        /\ \A i \in 1..Len(mediaQ) : mediaQ'[i] = mediaQ[i]
        /\ mediaQ'[Len(mediaQ) + 1].op # "start" /\ mediaQ'[Len(mediaQ) + 2].op # "start"
    BY <2>1, <2>2, AppendTwo, LenProperties DEF TypeOK
  <2>4. /\ mediaQ # <<>> => 1 \in 1..Len(mediaQ)
        /\ mediaQ' # <<>>
    BY <2>3, EmptySeq DEF TypeOK
  <2>5. QED
    BY <2>1, <2>3, <2>4 DEF StartInv
<1>5. CASE Start
  <2>1. net'.state = "made"
    BY <1>5 DEF Start, TypeOK, Networking
  <2>2. \A i \in 1..Len(mediaQ') : mediaQ'[i].op # "start"
    BY <1>5, MediaOps, MediaTail DEF StartInv
  <2>3. QED
    BY <2>1, <2>2 DEF StartInv
<1>6. CASE \/ ReceiveSetup \/ ReceiveCandidates \/ ReceiveOther \/ MuteMicrophone
           \/ Stop \/ Delete
  <2>1. net.state # "none"
    BY <1>6, MediaOps, Started
  <2>2. mediaQ # <<>> /\ mediaQ' = Tail(mediaQ)
    BY <1>6, MediaOps, MediaTail
  <2>3. net' = net
    BY <1>6 DEF ReceiveSetup, ReceiveCandidates, ReceiveOther, MuteMicrophone, Stop, Delete,
                Shutdown
  <2>4. QED
    BY <2>1, <2>2, <2>3, StartKept
<1>7. CASE Teardown \/ Reset \/ StartNetworking \/ NetMediaState
  <2>1. net.state # "none"
    BY <1>7, Started DEF Teardown, Reset, StartNetworking, NetMediaState
  <2>2. mediaQ' = mediaQ /\ net'.state # "none"
    BY <1>7, <2>1 DEF Teardown, Reset, StartNetworking, NetMediaState, TypeOK, Networking
  <2>3. QED
    BY <2>1, <2>2, StartKept
<1>8. CASE \/ EmitCallerInitialSetup \/ EmitLocalInitialSetup \/ ConfigureRemote
           \/ NetworkingStop \/ Fence
  <2>1. net.state # "none"
    BY <1>8, NetOps, Started
  <2>2. mediaQ' = mediaQ /\ net'.state # "none"
    BY <1>8, <2>1 DEF EmitCallerInitialSetup, EmitLocalInitialSetup, SetupBuilt, ConfigureRemote,
                      NetworkingStop, Fence, TypeOK, Networking
  <2>3. QED
    BY <2>1, <2>2, StartKept
<1>9. ASSUME NEW t \in {"media", "net"}, HandOver(t)
      PROVE  StartInv'
  <2>1. net.state # "none" /\ mediaQ' = mediaQ /\ net' = net
    BY <1>9, Started DEF HandOver
  <2>2. QED
    BY <2>1, StartKept
<1>10. CASE EmitLocalCandidate \/ OnRtcpPacketReceived
  <2>1. net.state # "none" /\ mediaQ' = mediaQ /\ net' = net
    BY <1>10 DEF EmitLocalCandidate, OnRtcpPacketReceived
  <2>2. QED
    BY <2>1, StartKept
<1>11. CASE DeliverRtcp
  BY <1>11 DEF DeliverRtcp, StartInv
<1>12. CASE WorkerTeardown
  <2>1. net.state # "none" /\ mediaQ' = mediaQ /\ net' = net
    BY <1>12, Started DEF WorkerTeardown
  <2>2. QED
    BY <2>1, StartKept
<1>13. CASE LevelTick
  <2>1. pipe'.ready = pipe.ready /\ pipe'.in = pipe.in /\ pipe'.out = pipe.out
    BY <1>13 DEF LevelTick, TypeOK, Pipelines
  <2>2. QED
    BY <1>13, <2>1 DEF LevelTick, StartInv
<1>14. QED
  BY <1>2, <1>3, <1>4, <1>5, <1>6, <1>7, <1>8, <1>9, <1>10, <1>11, <1>12, <1>13
     DEF Next, MediaThread, NetThread
------------------------------------------------------------------------------
(* ShutInv.                                                                 *)

\* A step that leaves the media thread's queue and the lifetime alone.
LEMMA ShutKept ==
  ASSUME ShutInv, UNCHANGED <<mediaQ, released, stopped, freed>>,
         mediaPc' = mediaPc \/ (mediaPc # "idle" /\ mediaPc' # "idle"),
         held'["media"] = held["media"] \/ held'["media"] = Nothing
  PROVE  ShutInv'
  BY DEF ShutInv

LEMMA ShutStep ==
  ASSUME TypeOK, ShutInv, FenceInv, WorkerInv, Next
  PROVE  ShutInv'
<1>1. ASSUME NEW task \in MediaTasks, Post(task), task.op \notin StopTasks
      PROVE  ShutInv'
  <2>1. /\ Len(mediaQ) \in Nat /\ Len(mediaQ') = Len(mediaQ) + 1
        /\ \A i \in 1..Len(mediaQ) : mediaQ'[i] = mediaQ[i]
        /\ mediaQ'[Len(mediaQ) + 1] = task
    BY <1>1, AppendProperties, LenProperties DEF TypeOK, Post
  <2>2. ~released /\ UNCHANGED <<mediaPc, held, released, stopped, freed>>
    BY <1>1 DEF Post
  <2>3. QED
    BY <1>1, <2>1, <2>2 DEF ShutInv
<1>2. CASE Feed
  BY <1>1, <1>2 DEF Feed, MediaTasks, StopTasks
<1>3. CASE SetMute
  BY <1>1, <1>3 DEF SetMute, MediaTasks, StopTasks
<1>4. CASE Release
  <2>1. /\ MediaTask("stop") \in MediaTasks /\ MediaTask("stop").op = "stop"
        /\ MediaTask("delete") \in MediaTasks /\ MediaTask("delete").op = "delete"
    BY MediaTaskType
  <2>2. /\ Len(mediaQ) \in Nat /\ Len(mediaQ') = Len(mediaQ) + 2
        /\ \A i \in 1..Len(mediaQ) : mediaQ'[i] = mediaQ[i]
        /\ mediaQ'[Len(mediaQ) + 1].op = "stop" /\ mediaQ'[Len(mediaQ) + 2].op = "delete"
    BY <1>4, <2>1, AppendTwo, LenProperties DEF TypeOK, Release
  <2>3. ~released /\ released' /\ UNCHANGED <<mediaPc, held, stopped, freed>>
    BY <1>4 DEF Release
  <2>4. QED
    BY <2>2, <2>3 DEF ShutInv
<1>5. CASE Start \/ ReceiveSetup \/ ReceiveCandidates \/ ReceiveOther \/ MuteMicrophone
  <2>1. UNCHANGED <<mediaPc, released, stopped, freed>>
    BY <1>5 DEF Start, ReceiveSetup, ReceiveCandidates, ReceiveOther, MuteMicrophone
  <2>2. PICK o \in {"start", "setup", "candidates", "other", "mute"} : MediaTakes(o)
    BY <1>5, MediaOps
  <2>3. /\ mediaPc = "idle" /\ mediaQ # <<>> /\ mediaQ[1].op \notin StopTasks
        /\ Len(mediaQ) \in Nat \ {0} /\ Len(mediaQ') = Len(mediaQ) - 1
        /\ \A i \in 1..Len(mediaQ') : mediaQ'[i] = mediaQ[i + 1]
    BY <2>2, MediaTail DEF StopTasks
  <2>4. ~stopped /\ ~freed
    BY <2>3 DEF ShutInv, StopTasks
  <2>5. CASE ~released
    <3>1. \A i \in 1..Len(mediaQ') : mediaQ'[i].op \notin StopTasks
      BY <2>3, <2>5 DEF ShutInv
    <3>2. QED
      BY <2>1, <2>3, <2>4, <2>5, <3>1 DEF ShutInv
  <2>6. CASE released
    <3>1. /\ Len(mediaQ) > 1
          /\ mediaQ[Len(mediaQ) - 1].op = "stop" /\ mediaQ[Len(mediaQ)].op = "delete"
          /\ \A i \in 1..(Len(mediaQ) - 2) : mediaQ[i].op \notin StopTasks
      BY <2>3, <2>4, <2>6 DEF ShutInv
    <3>2. Len(mediaQ) > 2
      BY <2>3, <3>1 DEF StopTasks
    <3>3. /\ mediaQ'[Len(mediaQ') - 1].op = "stop" /\ mediaQ'[Len(mediaQ')].op = "delete"
          /\ \A i \in 1..(Len(mediaQ') - 2) : mediaQ'[i].op \notin StopTasks
      <4>1. /\ Len(mediaQ') - 1 \in 1..Len(mediaQ') /\ Len(mediaQ') \in 1..Len(mediaQ')
            /\ Len(mediaQ') - 1 + 1 = Len(mediaQ) - 1 /\ Len(mediaQ') + 1 = Len(mediaQ)
        BY <2>3, <3>2
      <4>2. \A i \in 1..(Len(mediaQ') - 2) :
              i \in 1..Len(mediaQ') /\ i + 1 \in 1..(Len(mediaQ) - 2)
        BY <2>3, <3>2
      <4>3. QED
        BY <2>3, <3>1, <4>1, <4>2
    <3>4. QED
      BY <2>1, <2>3, <2>4, <2>6, <3>2, <3>3 DEF ShutInv
  <2>7. QED
    BY <2>5, <2>6 DEF TypeOK
<1>6. CASE Stop
  <2>1. /\ mediaPc = "idle" /\ held["media"] = Nothing /\ mediaQ[1].op = "stop"
        /\ Len(mediaQ) \in Nat \ {0} /\ Len(mediaQ') = Len(mediaQ) - 1
        /\ \A i \in 1..Len(mediaQ') : mediaQ'[i] = mediaQ[i + 1]
    BY <1>6, MediaOps, MediaTail
  <2>2. UNCHANGED <<held, released, stopped, freed>> /\ mediaPc' \in {"fence", "teardown"}
    BY <1>6 DEF Stop, Shutdown
  <2>3. released /\ ~stopped /\ ~freed /\ Len(mediaQ) = 2 /\ mediaQ[2].op = "delete"
    BY <2>1 DEF ShutInv, StopTasks
  <2>4. QED
    BY <2>1, <2>2, <2>3 DEF ShutInv
<1>7. CASE Delete
  <2>1. /\ mediaPc = "idle" /\ held["media"] = Nothing /\ mediaQ[1].op = "delete"
        /\ Len(mediaQ) \in Nat \ {0} /\ Len(mediaQ') = Len(mediaQ) - 1
    BY <1>7, MediaOps, MediaTail
  <2>2. UNCHANGED <<held, released, stopped, freed>> /\ mediaPc' \in {"fence", "teardown"}
    BY <1>7 DEF Delete, Shutdown
  <2>3. released /\ stopped /\ ~freed /\ Len(mediaQ) = 1
    BY <2>1 DEF ShutInv, StopTasks
  <2>4. mediaQ' = <<>>
    BY <1>7, <2>1, <2>3, MediaOps, MediaTail, TypeMedia, EmptySeq DEF TypeOK
  <2>5. QED
    BY <2>1, <2>2, <2>3, <2>4 DEF ShutInv
<1>8. CASE Teardown
  BY <1>8, ShutKept DEF Teardown
<1>9. CASE Reset
  <2>1. /\ mediaPc = "reset" /\ mediaPc' = "idle" /\ stopped' = TRUE /\ freed' = stopped
        /\ UNCHANGED <<mediaQ, held, released>>
    BY <1>9 DEF Reset
  <2>2. QED
    BY <2>1 DEF ShutInv
<1>10. CASE StartNetworking \/ NetMediaState \/ EmitCallerInitialSetup \/ EmitLocalInitialSetup
            \/ ConfigureRemote \/ NetworkingStop \/ EmitLocalCandidate \/ OnRtcpPacketReceived
            \/ DeliverRtcp \/ LevelTick
  <2>1. UNCHANGED <<mediaQ, mediaPc, released, stopped, freed>>
    BY <1>10 DEF StartNetworking, NetMediaState, EmitCallerInitialSetup, EmitLocalInitialSetup,
                 SetupBuilt, ConfigureRemote, NetworkingStop, EmitLocalCandidate,
                 OnRtcpPacketReceived, DeliverRtcp, LevelTick
  <2>2. held'["media"] = held["media"]
    BY <1>10 DEF StartNetworking, NetMediaState, EmitCallerInitialSetup, EmitLocalInitialSetup,
                 SetupBuilt, ConfigureRemote, NetworkingStop, EmitLocalCandidate,
                 OnRtcpPacketReceived, DeliverRtcp, LevelTick, EmitMediaState, Allot, TypeOK
  <2>3. QED
    BY <2>1, <2>2, ShutKept
<1>11. CASE Fence
  <2>1. mediaPc = "fence"
    BY <1>11, NetOps, NetTail DEF FenceInv
  <2>2. QED
    BY <1>11, <2>1, ShutKept DEF Fence
<1>12. CASE WorkerTeardown
  <2>1. mediaPc = "await"
    BY <1>12, TeardownAwaited DEF WorkerTeardown
  <2>2. QED
    BY <1>12, <2>1, ShutKept DEF WorkerTeardown
<1>13. ASSUME NEW t \in {"media", "net"}, HandOver(t)
       PROVE  ShutInv'
  <2>1. held'["media"] = held["media"] \/ held'["media"] = Nothing
    BY <1>13 DEF HandOver, TypeOK
  <2>2. QED
    BY <1>13, <2>1, ShutKept DEF HandOver
<1>14. QED
  BY <1>2, <1>3, <1>4, <1>5, <1>6, <1>7, <1>8, <1>9, <1>10, <1>11, <1>12, <1>13
     DEF Next, MediaThread, NetThread
------------------------------------------------------------------------------
(* FenceInv.                                                                *)

\* What the media thread posts for an InitialSetup it has read.
LEMMA SetupPosts ==
  ASSUME TypeOK, ReceiveSetup
  PROVE  \/ netQ' = netQ
         \/ \E last \in NetTasks :
              /\ HasNetworking
              /\ \/ last.op = "setRemote" /\ netQ' = Append(netQ, last)
                 \/ /\ last.op = "localSetup" /\ ~sig.scheduled
                    /\ netQ' = netQ \o <<NetTask("setRemote"), last>>
<1> DEFINE audio == Head(mediaQ).audio
           last == [op |-> "localSetup", audio |-> audio]
<1>1. audio \in Ssrcs \cup {0}
  <2>1. Head(mediaQ) \in MediaTasks
    BY HeadTailProperties DEF TypeOK, ReceiveSetup, MediaTakes
  <2>2. QED
    BY <2>1 DEF MediaTasks
<1>2. last \in NetTasks /\ NetTask("setRemote") \in NetTasks /\ NetTask("setRemote").op = "setRemote"
  BY <1>1, NetTaskType DEF NetTasks
<1>3. netQ \in Seq(NetTasks) /\ <<NetTask("setRemote")>> \in Seq(NetTasks) /\ <<last>> \in Seq(NetTasks)
  BY <1>2 DEF TypeOK
<1>4. CASE ~HasNetworking
  BY <1>3, <1>4, ConcatEmptySeq DEF ReceiveSetup
<1>5. CASE HasNetworking /\ sig.scheduled
  <2>1. netQ' = (netQ \o <<NetTask("setRemote")>>) \o <<>>
    BY <1>5 DEF ReceiveSetup
  <2>2. netQ' = Append(netQ, NetTask("setRemote"))
    BY <2>1, <1>2, <1>3, ConcatProperties, ConcatEmptySeq, AppendIsConcat
  <2>3. QED
    BY <1>2, <1>5, <2>2
<1>6. CASE HasNetworking /\ ~sig.scheduled
  <2>1. netQ' = (netQ \o <<NetTask("setRemote")>>) \o <<last>>
    BY <1>6 DEF ReceiveSetup
  <2>2. (netQ \o <<NetTask("setRemote")>>) \o <<last>>
          = netQ \o (<<NetTask("setRemote")>> \o <<last>>)
    BY <1>3, ConcatAssociative
  <2>3. <<NetTask("setRemote")>> \o <<last>> = <<NetTask("setRemote"), last>>
    BY <1>2, SinglesJoined
  <2>4. QED
    BY <1>2, <1>6, <2>1, <2>2, <2>3
<1>7. QED
  BY <1>4, <1>5, <1>6

\* The network thread's queue behind whatever the media thread posts, in positions.
LEMMA NetPosted ==
  ASSUME TypeOK, ReceiveSetup \/ ReceiveCandidates
  PROVE  \/ netQ' = netQ
         \/ /\ HasNetworking /\ Len(netQ') \in Nat /\ Len(netQ) \in Nat
            /\ \A i \in 1..Len(netQ) : netQ'[i] = netQ[i]
            /\ \/ /\ Len(netQ') = Len(netQ) + 1
                  /\ netQ'[Len(netQ) + 1].op \in {"setRemote", "addCandidates"}
               \/ /\ Len(netQ') = Len(netQ) + 2 /\ ReceiveSetup /\ ~sig.scheduled
                  /\ netQ'[Len(netQ) + 1].op = "setRemote"
                  /\ netQ'[Len(netQ) + 2].op = "localSetup"
<1>1. /\ NetTask("setRemote") \in NetTasks /\ NetTask("addCandidates") \in NetTasks
      /\ NetTask("setRemote").op = "setRemote" /\ NetTask("addCandidates").op = "addCandidates"
  BY NetTaskType
<1>2. netQ \in Seq(NetTasks) /\ Len(netQ) \in Nat
  BY LenProperties DEF TypeOK
<1>3. ASSUME NEW last \in NetTasks, netQ' = Append(netQ, last)
      PROVE  /\ Len(netQ') = Len(netQ) + 1 /\ netQ'[Len(netQ) + 1] = last
             /\ \A i \in 1..Len(netQ) : netQ'[i] = netQ[i]
  BY <1>2, <1>3, AppendProperties
<1>4. CASE ReceiveCandidates
  BY <1>1, <1>2, <1>3, <1>4 DEF ReceiveCandidates
<1>5. CASE ReceiveSetup
  <2>1. CASE netQ' = netQ
    BY <2>1
  <2>2. ASSUME NEW last \in NetTasks, HasNetworking, last.op = "setRemote",
               netQ' = Append(netQ, last)
        PROVE  /\ Len(netQ') = Len(netQ) + 1 /\ netQ'[Len(netQ) + 1].op = "setRemote"
               /\ \A i \in 1..Len(netQ) : netQ'[i] = netQ[i]
    BY <1>3, <2>2
  <2>3. ASSUME NEW last \in NetTasks, HasNetworking, last.op = "localSetup",
               netQ' = netQ \o <<NetTask("setRemote"), last>>
        PROVE  /\ Len(netQ') = Len(netQ) + 2
               /\ netQ'[Len(netQ) + 1].op = "setRemote" /\ netQ'[Len(netQ) + 2].op = "localSetup"
               /\ \A i \in 1..Len(netQ) : netQ'[i] = netQ[i]
    BY <1>1, <1>2, <2>3, AppendTwo
  <2>4. CASE \E last \in NetTasks :
               /\ HasNetworking
               /\ \/ last.op = "setRemote" /\ netQ' = Append(netQ, last)
                  \/ /\ last.op = "localSetup" /\ ~sig.scheduled
                     /\ netQ' = netQ \o <<NetTask("setRemote"), last>>
    <3>1. PICK last \in NetTasks :
               /\ HasNetworking
               /\ \/ last.op = "setRemote" /\ netQ' = Append(netQ, last)
                  \/ /\ last.op = "localSetup" /\ ~sig.scheduled
                     /\ netQ' = netQ \o <<NetTask("setRemote"), last>>
      BY <2>4
    <3>2. CASE last.op = "setRemote" /\ netQ' = Append(netQ, last)
      <4>1. /\ Len(netQ') = Len(netQ) + 1 /\ netQ'[Len(netQ) + 1].op = "setRemote"
            /\ \A i \in 1..Len(netQ) : netQ'[i] = netQ[i]
        BY <2>2, <3>1, <3>2
      <4>2. QED
        BY <1>2, <3>1, <4>1
    <3>3. CASE last.op = "localSetup" /\ netQ' = netQ \o <<NetTask("setRemote"), last>>
      <4>1. /\ Len(netQ') = Len(netQ) + 2
            /\ netQ'[Len(netQ) + 1].op = "setRemote" /\ netQ'[Len(netQ) + 2].op = "localSetup"
            /\ \A i \in 1..Len(netQ) : netQ'[i] = netQ[i]
        BY <2>3, <3>1, <3>3
      <4>2. ~sig.scheduled
        BY <3>1, <3>3
      <4>3. QED
        BY <1>2, <1>5, <3>1, <4>1, <4>2
    <3>4. QED
      BY <3>1, <3>2, <3>3
  <2>5. QED
    BY <1>5, <2>1, <2>4, SetupPosts
<1>6. QED
  BY <1>4, <1>5

\* The queue once networking is asked to stop.
LEMMA StopPosted ==
  ASSUME TypeOK, Shutdown, HasNetworking
  PROVE  /\ Len(netQ') = Len(netQ) + 2 /\ Len(netQ) \in Nat
         /\ \A i \in 1..Len(netQ) : netQ'[i] = netQ[i]
         /\ netQ'[Len(netQ) + 1].op = "stop" /\ netQ'[Len(netQ) + 2].op = "fence"
         /\ netQ' # <<>> /\ mediaPc' = "fence"
<1>1. /\ NetTask("stop") \in NetTasks /\ NetTask("stop").op = "stop"
      /\ NetTask("fence") \in NetTasks /\ NetTask("fence").op = "fence"
  BY NetTaskType
<1>2. netQ' = netQ \o <<NetTask("stop"), NetTask("fence")>> /\ mediaPc' = "fence"
  BY DEF Shutdown
<1>3. netQ \in Seq(NetTasks) /\ Len(netQ) \in Nat
  BY LenProperties DEF TypeOK
<1>4. /\ Len(netQ') = Len(netQ) + 2
      /\ \A i \in 1..Len(netQ) : netQ'[i] = netQ[i]
      /\ netQ'[Len(netQ) + 1].op = "stop" /\ netQ'[Len(netQ) + 2].op = "fence"
  BY <1>1, <1>2, <1>3, AppendTwo
<1>5. netQ' # <<>>
  BY <1>3, <1>4, EmptySeq
<1>6. QED
  BY <1>2, <1>3, <1>4, <1>5

LEMMA FenceStep ==
  ASSUME TypeOK, TypeOK', StartInv, ShutInv, FenceInv, WorkerInv, SetupInv, Next
  PROVE  FenceInv'
<1> USE DEF NetIdle
<1>1. CASE Feed \/ SetMute \/ Release \/ ReceiveOther \/ MuteMicrophone \/ DeliverRtcp
           \/ LevelTick \/ OnRtcpPacketReceived
  <2>1. UNCHANGED <<netQ, mediaPc, netPc, held, net, stopped>>
    BY <1>1 DEF Feed, SetMute, Post, Release, ReceiveOther, MuteMicrophone, DeliverRtcp, LevelTick,
                OnRtcpPacketReceived
  <2>2. QED
    BY <2>1 DEF FenceInv
<1>2. CASE Start
  <2>1. /\ net.state = "none" /\ netQ = <<>> /\ mediaPc = "idle"
        /\ UNCHANGED <<mediaPc, netPc, held, stopped>>
    BY <1>2, MediaOps, MediaTail DEF Start, StartInv
  <2>2. net'.state = "made" /\ ~stopped
    BY <1>2, <2>1 DEF Start, TypeOK, Networking, FenceInv
  <2>3. \A i \in 1..Len(netQ') : netQ'[i].op = "callerSetup"
    BY <1>2, <2>1, NetTaskType DEF Start
  <2>4. QED
    BY <2>1, <2>2, <2>3 DEF FenceInv
<1>3. CASE ReceiveSetup \/ ReceiveCandidates
  <2>1. mediaPc = "idle"
    BY <1>3, MediaOps, MediaTail
  <2>2. UNCHANGED <<mediaPc, netPc, net, stopped>> /\ held'["net"] = held["net"]
    BY <1>3 DEF ReceiveSetup, ReceiveCandidates, EmitMediaState, Allot, TypeOK
  <2>3. \A i \in 1..Len(netQ) : netQ[i].op \notin {"stop", "fence"}
    BY <2>1 DEF FenceInv
  <2>4. CASE netQ' = netQ
    BY <2>1, <2>2, <2>4 DEF FenceInv
  <2>5. CASE netQ' # netQ
    <3>1. HasNetworking /\ \A i \in 1..Len(netQ') : netQ'[i].op \notin {"stop", "fence"}
      BY <1>3, <2>3, <2>5, NetPosted
    <3>2. QED
      BY <2>1, <2>2, <3>1 DEF FenceInv, HasNetworking
  <2>6. QED
    BY <2>4, <2>5
<1>4. CASE Stop
  <2>1. mediaPc = "idle" /\ net.state # "none" /\ ~stopped
    BY <1>4, MediaOps, MediaTail, Started DEF ShutInv, StopTasks
  <2>2. HasNetworking /\ net.state # "stopped"
    BY <2>1 DEF FenceInv, HasNetworking
  <2>3. Shutdown /\ UNCHANGED <<netPc, held, net, stopped>>
    BY <1>4 DEF Stop, Shutdown
  <2>4. \A i \in 1..Len(netQ) : netQ[i].op \notin {"stop", "fence"}
    BY <2>1 DEF FenceInv
  <2>5. QED
    BY <2>1, <2>2, <2>3, <2>4, StopPosted DEF FenceInv, HasNetworking
<1>5. CASE Delete
  <2>1. stopped
    BY <1>5, MediaOps, MediaTail DEF ShutInv, StopTasks
  <2>2. net.state = "gone" /\ ~HasNetworking
    BY <2>1 DEF FenceInv, HasNetworking
  <2>3. mediaPc' = "teardown" /\ UNCHANGED <<netPc, held, net, stopped, netQ>>
    BY <1>5, <2>2 DEF Delete, Shutdown
  <2>4. QED
    BY <2>1, <2>2, <2>3, EmptySeq DEF FenceInv
<1>6. CASE Teardown
  BY <1>6 DEF Teardown, FenceInv
<1>7. CASE Reset
  <2>1. /\ netQ = <<>> /\ NetIdle /\ net'.state = "gone" /\ stopped' = TRUE /\ mediaPc' = "idle"
        /\ UNCHANGED <<netPc, held, netQ>>
    BY <1>7 DEF Reset, FenceInv, TypeOK, Networking
  <2>2. QED
    BY <2>1, EmptySeq DEF FenceInv
<1>8. CASE EmitCallerInitialSetup \/ EmitLocalInitialSetup \/ ConfigureRemote
  <2>1. PICK o \in {"callerSetup", "localSetup", "setRemote", "addCandidates"} : NetTakes(o)
    BY <1>8, NetOps
  <2>2. /\ netQ # <<>> /\ netQ[1].op \notin {"stop", "fence"}
        /\ Len(netQ) \in Nat \ {0} /\ Len(netQ') = Len(netQ) - 1
        /\ \A i \in 1..Len(netQ') : netQ'[i] = netQ[i + 1]
    BY <2>1, NetTail
  <2>3. net.state \notin {"stopped", "gone"}
    BY <2>2 DEF FenceInv, TypeOK
  <2>4. UNCHANGED <<mediaPc, stopped>> /\ net'.state = net.state
    BY <1>8 DEF EmitCallerInitialSetup, EmitLocalInitialSetup, SetupBuilt, ConfigureRemote, TypeOK,
                Networking
  <2>5. mediaPc = "fence" => /\ netQ' # <<>> /\ Len(netQ') > 1
                             /\ netQ'[Len(netQ')].op = "fence" /\ netQ'[Len(netQ') - 1].op = "stop"
    <3> SUFFICES ASSUME mediaPc = "fence"
                 PROVE  /\ netQ' # <<>> /\ Len(netQ') > 1
                        /\ netQ'[Len(netQ')].op = "fence" /\ netQ'[Len(netQ') - 1].op = "stop"
      OBVIOUS
    <3>1. netQ[Len(netQ)].op = "fence" /\ Len(netQ) > 1 /\ netQ[Len(netQ) - 1].op = "stop"
      BY <2>3 DEF FenceInv
    <3>2. Len(netQ) > 2
      BY <2>2, <3>1
    <3>3. /\ Len(netQ') \in 1..Len(netQ') /\ Len(netQ') - 1 \in 1..Len(netQ')
          /\ Len(netQ') + 1 = Len(netQ) /\ Len(netQ') - 1 + 1 = Len(netQ) - 1
      BY <2>2, <3>2
    <3>4. netQ' # <<>>
      BY <3>3, EmptySeq
    <3>5. netQ'[Len(netQ')] = netQ[Len(netQ)] /\ netQ'[Len(netQ') - 1] = netQ[Len(netQ) - 1]
      BY <2>2, <3>3
    <3>6. QED
      BY <2>2, <3>1, <3>2, <3>4, <3>5
  <2>6. \A i \in 1..Len(netQ') :
          /\ netQ'[i].op = "fence" => mediaPc = "fence" /\ i = Len(netQ')
          /\ netQ'[i].op = "stop" => mediaPc = "fence" /\ i = Len(netQ') - 1
    BY <2>2 DEF FenceInv
  <2>7. mediaPc \notin {"teardown", "await", "reset"} /\ ~stopped
    BY <2>3 DEF FenceInv
  <2>8. QED
    BY <2>3, <2>4, <2>5, <2>6, <2>7 DEF FenceInv
<1>9. CASE NetworkingStop
  <2>1. /\ netPc = "idle" /\ held["net"] = Nothing /\ netQ # <<>> /\ netQ[1].op = "stop"
        /\ Len(netQ) \in Nat \ {0} /\ Len(netQ') = Len(netQ) - 1
        /\ \A i \in 1..Len(netQ') : netQ'[i] = netQ[i + 1]
    BY <1>9, NetOps, NetTail
  <2>2. mediaPc = "fence" /\ Len(netQ) = 2 /\ netQ[2].op = "fence" /\ ~stopped
    BY <2>1 DEF FenceInv
  <2>3. net'.state = "stopped" /\ UNCHANGED <<mediaPc, netPc, held, stopped>>
    BY <1>9 DEF NetworkingStop, TypeOK, Networking
  <2>4. Len(netQ') = 1 /\ netQ' # <<>> /\ netQ'[1].op = "fence"
    BY <2>1, <2>2, EmptySeq
  <2>5. QED
    BY <2>1, <2>2, <2>3, <2>4 DEF FenceInv
<1>10. CASE Fence
  <2>1. /\ netPc = "idle" /\ held["net"] = Nothing /\ netQ # <<>> /\ netQ[1].op = "fence"
        /\ Len(netQ) \in Nat \ {0} /\ Len(netQ') = Len(netQ) - 1
    BY <1>10, NetOps, NetTail
  <2>2. mediaPc = "fence" /\ Len(netQ) = 1 /\ net.state = "stopped" /\ ~stopped
    BY <2>1 DEF FenceInv
  <2>3. netQ' = <<>>
    BY <2>1, <2>2, EmptySeq DEF TypeOK
  <2>4. mediaPc' = "teardown" /\ UNCHANGED <<netPc, held, stopped, net>>
    BY <1>10 DEF Fence
  <2>5. QED
    BY <2>1, <2>2, <2>3, <2>4, EmptySeq DEF FenceInv
<1>11. CASE StartNetworking \/ NetMediaState \/ EmitLocalCandidate
  <2>1. net.state \notin {"stopped", "gone"}
    BY <1>11 DEF StartNetworking, NetMediaState, EmitLocalCandidate, FenceInv
  <2>2. UNCHANGED <<netQ, mediaPc, stopped>> /\ net'.state \notin {"stopped", "gone"}
    BY <1>11, <2>1 DEF StartNetworking, NetMediaState, EmitLocalCandidate, TypeOK, Networking
  <2>3. QED
    BY <2>1, <2>2 DEF FenceInv
<1>12. ASSUME NEW t \in {"media", "net"}, HandOver(t)
       PROVE  FenceInv'
  <2>1. UNCHANGED <<netQ, mediaPc, stopped, net>>
    BY <1>12 DEF HandOver
  <2>2. CASE t = "net"
    <3>1. net.state \notin {"stopped", "gone"}
      BY <1>12, <2>2 DEF HandOver, FenceInv
    <3>2. QED
      BY <2>1, <3>1 DEF FenceInv
  <2>3. CASE t = "media"
    <3>1. netPc' = netPc /\ held'["net"] = held["net"]
      BY <1>12, <2>3 DEF HandOver, SetupInv, TypeOK
    <3>2. QED
      BY <2>1, <3>1 DEF FenceInv
  <2>4. QED
    BY <2>2, <2>3
<1>13. CASE WorkerTeardown
  BY <1>13, TeardownAwaited DEF WorkerTeardown, FenceInv
<1>14. QED
  BY <1>1, <1>2, <1>3, <1>4, <1>5, <1>6, <1>7, <1>8, <1>9, <1>10, <1>11, <1>12, <1>13
     DEF Next, MediaThread, NetThread
------------------------------------------------------------------------------
(* WorkerInv.                                                               *)

\* A step that leaves the worker, the pipeline and what they are seen through alone.
LEMMA WorkerKept ==
  ASSUME WorkerInv, UNCHANGED <<workQ, pipe, stopped>>, net'.state = net.state,
         mediaPc' = mediaPc \/ {mediaPc, mediaPc'} \subseteq {"idle", "fence", "teardown"},
         net.state = "gone" /\ mediaPc' = "idle" => mediaPc = "idle"
  PROVE  WorkerInv'
<1>1. UNCHANGED HasNetworking
  BY DEF HasNetworking
<1>2. QED
  BY <1>1 DEF WorkerInv

LEMMA WorkerStep ==
  ASSUME TypeOK, TypeOK', StartInv, ShutInv, FenceInv, WorkerInv, Next
  PROVE  WorkerInv'
<1>1. CASE Feed \/ SetMute \/ Release \/ ReceiveCandidates \/ ReceiveOther
           \/ EmitCallerInitialSetup \/ EmitLocalInitialSetup \/ NetMediaState
           \/ EmitLocalCandidate \/ ConfigureRemote
  <2>1. UNCHANGED <<workQ, pipe, stopped, mediaPc>>
    BY <1>1 DEF Feed, SetMute, Post, Release, ReceiveCandidates, ReceiveOther,
                EmitCallerInitialSetup, EmitLocalInitialSetup, SetupBuilt, NetMediaState,
                EmitLocalCandidate, ConfigureRemote
  <2>2. net'.state = net.state
    BY <1>1 DEF Feed, SetMute, Post, Release, ReceiveCandidates, ReceiveOther,
                EmitCallerInitialSetup, EmitLocalInitialSetup, SetupBuilt, NetMediaState,
                EmitLocalCandidate, ConfigureRemote, TypeOK, Networking
  <2>3. QED
    BY <2>1, <2>2, WorkerKept
<1>2. CASE Start
  <2>1. net.state = "none" /\ mediaPc = "idle" /\ ~pipe.ready /\ pipe.in = 0 /\ pipe.out = "none"
    BY <1>2, MediaOps, MediaTail DEF StartInv
  <2>2. net'.state = "made" /\ UNCHANGED <<workQ, mediaPc, stopped>>
    BY <1>2 DEF Start, TypeOK, Networking
  <2>3. ~stopped
    BY <2>1 DEF FenceInv
  <2>4. pipe'.in = 0 /\ pipe'.out = "none" /\ (pipe'.ready => pipe'.call)
    BY <1>2, <2>1 DEF Start, SetUpMediaPipeline, TypeOK, Pipelines
  <2>5. QED
    BY <2>1, <2>2, <2>3, <2>4 DEF WorkerInv, HasNetworking
<1>3. CASE ReceiveSetup
  <2>1. mediaPc = "idle" /\ UNCHANGED <<workQ, mediaPc, net, stopped>>
    BY <1>3, MediaOps, MediaTail DEF ReceiveSetup
  <2>2. ~stopped /\ HasNetworking
    BY <1>3, <2>1, MediaOps, MediaTail, Started DEF ShutInv, StopTasks, FenceInv, HasNetworking
  <2>3. /\ pipe'.ready = pipe.ready /\ pipe'.call = pipe.call
        /\ ~pipe.ready => pipe'.in = pipe.in /\ pipe'.out = pipe.out
    BY ZenonT(30), <1>3 DEF ReceiveSetup, Negotiate, TypeOK, Pipelines
  <2>4. QED
    BY <2>1, <2>2, <2>3 DEF WorkerInv, HasNetworking
<1>4. CASE MuteMicrophone
  <2>1. /\ pipe' = [pipe EXCEPT !.out = OutgoingAudioChannel(mute', @ # "none")]
        /\ UNCHANGED <<workQ, mediaPc, net, stopped>>
    BY <1>4 DEF MuteMicrophone
  <2>2. /\ UNCHANGED <<pipe.ready, pipe.call, pipe.alive, pipe.in>>
        /\ pipe.out = "none" => pipe'.out = "none"
    BY <2>1 DEF TypeOK, Pipelines, OutgoingAudioChannel
  <2>3. QED
    BY <2>1, <2>2 DEF WorkerInv, HasNetworking
<1>5. CASE Stop \/ Delete
  <2>1. mediaPc = "idle" /\ mediaPc' \in {"fence", "teardown"} /\ UNCHANGED <<workQ, pipe, net, stopped>>
    BY <1>5, MediaOps, MediaTail DEF Stop, Delete, Shutdown
  <2>2. QED
    BY <2>1, WorkerKept
<1>6. CASE Fence
  <2>1. mediaPc = "fence" /\ mediaPc' = "teardown" /\ UNCHANGED <<workQ, pipe, net, stopped>>
    BY <1>6, NetOps, NetTail DEF Fence, FenceInv
  <2>2. QED
    BY <2>1, WorkerKept
<1>7. CASE Teardown
  <2>1. /\ mediaPc = "teardown" /\ mediaPc' = "await" /\ workQ' = Append(workQ, "teardown")
        /\ UNCHANGED <<net, pipe, stopped>>
    BY <1>7 DEF Teardown
  <2>2. \A i \in 1..Len(workQ) : workQ[i] # "teardown"
    BY <2>1 DEF WorkerInv
  <2>3. /\ Len(workQ) \in Nat /\ Len(workQ') = Len(workQ) + 1
        /\ \A i \in 1..Len(workQ) : workQ'[i] = workQ[i]
        /\ workQ'[Len(workQ) + 1] = "teardown"
    <3>1. workQ \in Seq({"rtcp", "teardown"}) /\ "teardown" \in {"rtcp", "teardown"}
      BY DEF TypeOK
    <3>2. QED
      BY <2>1, <3>1, AppendProperties, LenProperties
  <2>4. workQ' # <<>>
    BY <2>3, EmptySeq
  <2>5. QED
    BY <2>1, <2>2, <2>3, <2>4 DEF WorkerInv, HasNetworking
<1>8. CASE Reset
  <2>1. /\ mediaPc = "reset" /\ mediaPc' = "idle" /\ net'.state = "gone"
        /\ ~pipe'.ready /\ UNCHANGED <<workQ, pipe.in, pipe.out, pipe.alive>>
    BY <1>8 DEF Reset, TypeOK, Networking, Pipelines
  <2>2. workQ = <<>> /\ ~pipe.alive /\ pipe.in = 0 /\ pipe.out = "none"
    BY <2>1 DEF WorkerInv
  <2>3. QED
    BY <2>1, <2>2, EmptySeq DEF WorkerInv
<1>9. CASE StartNetworking
  <2>1. net.state \notin {"none", "stopped", "gone"}
    BY <1>9 DEF StartNetworking, StartInv, FenceInv, NetIdle
  <2>2. net'.state = "started" /\ UNCHANGED <<workQ, mediaPc, pipe, stopped>>
    BY <1>9 DEF StartNetworking, TypeOK, Networking
  <2>3. mediaPc # "reset" /\ ~stopped
    BY <2>1 DEF FenceInv
  <2>4. QED
    BY <2>1, <2>2, <2>3 DEF WorkerInv, HasNetworking
<1>10. CASE NetworkingStop
  <2>1. mediaPc = "fence" /\ ~stopped
    BY <1>10, NetOps, NetTail DEF FenceInv
  <2>2. net'.state = "stopped" /\ UNCHANGED <<workQ, mediaPc, pipe, stopped>>
    BY <1>10 DEF NetworkingStop, TypeOK, Networking
  <2>3. QED
    BY <2>1, <2>2 DEF WorkerInv, HasNetworking
<1>11. CASE OnRtcpPacketReceived
  <2>1. mediaPc \in {"idle", "fence"} /\ net.state = "started"
    BY <1>11 DEF OnRtcpPacketReceived, FenceInv, TypeOK
  <2>2. workQ' = Append(workQ, "rtcp") /\ UNCHANGED <<mediaPc, net, pipe, stopped>>
    BY <1>11 DEF OnRtcpPacketReceived
  <2>3. /\ Len(workQ) \in Nat /\ Len(workQ') = Len(workQ) + 1
        /\ \A i \in 1..Len(workQ) : workQ'[i] = workQ[i]
        /\ workQ'[Len(workQ) + 1] = "rtcp"
    BY <2>2, AppendProperties, LenProperties DEF TypeOK
  <2>4. QED
    BY <2>1, <2>2, <2>3 DEF WorkerInv, HasNetworking
<1>12. CASE DeliverRtcp
  <2>1. /\ workQ # <<>> /\ Head(workQ) = "rtcp" /\ workQ' = Tail(workQ)
        /\ UNCHANGED <<mediaPc, net, pipe, stopped>>
    BY <1>12 DEF DeliverRtcp
  <2>2. /\ Len(workQ) \in Nat \ {0} /\ Len(workQ') = Len(workQ) - 1 /\ workQ[1] = "rtcp"
        /\ \A i \in 1..Len(workQ') : workQ'[i] = workQ[i + 1]
    BY <2>1, HeadTailProperties, EmptySeq DEF TypeOK
  <2>3. \A i \in 1..Len(workQ') : workQ'[i] = "teardown" => mediaPc = "await" /\ i = Len(workQ')
    BY <2>2 DEF WorkerInv
  <2>4. mediaPc = "await" => workQ' # <<>> /\ workQ'[Len(workQ')] = "teardown"
    <3> SUFFICES ASSUME mediaPc = "await"
                 PROVE  workQ' # <<>> /\ workQ'[Len(workQ')] = "teardown"
      OBVIOUS
    <3>1. workQ[Len(workQ)] = "teardown"
      BY DEF WorkerInv
    <3>2. Len(workQ) > 1 /\ Len(workQ') \in 1..Len(workQ') /\ Len(workQ') + 1 = Len(workQ)
      BY <2>2, <3>1
    <3>3. QED
      BY <2>2, <3>1, <3>2, EmptySeq
  <2>5. ~(mediaPc = "reset" \/ (net.state = "gone" /\ mediaPc = "idle"))
    BY <2>1 DEF WorkerInv
  <2>6. QED
    BY <2>1, <2>3, <2>4, <2>5 DEF WorkerInv, HasNetworking
<1>13. CASE WorkerTeardown
  <2>1. mediaPc = "await" /\ Len(workQ) = 1
    BY <1>13, TeardownAwaited DEF WorkerTeardown
  <2>2. workQ # <<>> /\ workQ' = Tail(workQ) /\ workQ' \in Seq({"rtcp", "teardown"})
    BY <1>13 DEF WorkerTeardown, TypeOK
  <2>3. workQ' = <<>>
    <3>1. workQ \in Seq({"rtcp", "teardown"})
      BY DEF TypeOK
    <3>2. Len(workQ') = 0
      BY <2>1, <2>2, <3>1, HeadTailProperties
    <3>3. QED
      BY <2>2, <3>2, EmptySeq
  <2>4. /\ mediaPc' = "reset" /\ UNCHANGED <<net, stopped>> /\ pipe'.ready = pipe.ready
        /\ ~pipe'.alive /\ pipe'.in = 0 /\ pipe'.out = "none"
    BY <1>13 DEF WorkerTeardown, TypeOK, Pipelines
  <2>5. QED
    BY <2>1, <2>3, <2>4, EmptySeq DEF WorkerInv
<1>14. CASE LevelTick
  <2>1. /\ UNCHANGED <<workQ, mediaPc, net, stopped>>
        /\ UNCHANGED <<pipe.ready, pipe.call, pipe.alive, pipe.in, pipe.out>>
    BY <1>14 DEF LevelTick, TypeOK, Pipelines
  <2>2. QED
    BY <2>1 DEF WorkerInv, HasNetworking
<1>15. ASSUME NEW t \in {"media", "net"}, HandOver(t)
       PROVE  WorkerInv'
  BY <1>15, WorkerKept DEF HandOver
<1>16. QED
  BY <1>1, <1>2, <1>3, <1>4, <1>5, <1>6, <1>7, <1>8, <1>9, <1>10, <1>11, <1>12, <1>13, <1>14, <1>15
     DEF Next, MediaThread, NetThread
------------------------------------------------------------------------------
(* NumberInv.                                                               *)

\* A step that takes no number and hands nothing over.
LEMMA NumberKept ==
  ASSUME NumberInv, UNCHANGED <<wire, held, sig.next>>
  PROVE  NumberInv'
  BY DEF NumberInv

\* A thread that holds nothing takes the next number.
LEMMA NumberAllot ==
  ASSUME TypeOK, NumberInv, NEW t \in {"media", "net"}, NEW kind \in Packets,
         held[t] = Nothing, Allot(t, kind), sig'.next = sig.next + 1, wire' = wire
  PROVE  NumberInv'
<1> DEFINE n == sig.next
<1>1. n \in Nat \ {0} /\ sig'.next = n + 1
  BY DEF TypeOK, Latches
<1>2. /\ held'[t] = Packet(kind, n) /\ held'[t] # Nothing
      /\ held'[t].kind = kind /\ held'[t].seq = n
      /\ \A u \in {"media", "net"} : u # t => held'[u] = held[u]
  BY DEF Allot, TypeOK, Packet, Nothing, Packets
<1>3. /\ \A i \in 1..Len(wire) : wire[i].seq \in 1..(n - 1)
      /\ \A u \in {"media", "net"} : held[u] # Nothing =>
           /\ held[u].kind \in Packets /\ held[u].seq \in 1..(n - 1)
           /\ \A i \in 1..Len(wire) : wire[i].seq # held[u].seq
      /\ \A i, j \in 1..Len(wire) : wire[i].seq = wire[j].seq => i = j
  BY DEF NumberInv
<1>4. /\ \A i \in 1..Len(wire) : wire[i].seq \in 1..n /\ wire[i].seq # n
      /\ \A u \in {"media", "net"} : held[u] # Nothing => held[u].seq \in 1..n /\ held[u].seq # n
  BY <1>1, <1>3
<1>5. \A u \in {"media", "net"} : held'[u] # Nothing =>
        /\ held'[u].kind \in Packets
        /\ held'[u].seq \in 1..n
        /\ \A i \in 1..Len(wire) : wire[i].seq # held'[u].seq
  BY <1>1, <1>2, <1>3, <1>4
<1>6. held'["media"] # Nothing /\ held'["net"] # Nothing => held'["media"].seq # held'["net"].seq
  BY <1>2, <1>4
<1>7. ASSUME NEW m \in 1..n
      PROVE  \/ \E i \in 1..Len(wire) : wire[i].seq = m
             \/ held'["media"] # Nothing /\ held'["media"].seq = m
             \/ held'["net"] # Nothing /\ held'["net"].seq = m
  <2>1. CASE m = n
    BY <1>2, <2>1
  <2>2. CASE m # n
    <3>1. m \in 1..(n - 1)
      BY <1>1, <2>2
    <3>2. \/ \E i \in 1..Len(wire) : wire[i].seq = m
          \/ held["media"] # Nothing /\ held["media"].seq = m
          \/ held["net"] # Nothing /\ held["net"].seq = m
      BY <3>1 DEF NumberInv
    <3>3. QED
      BY <1>2, <3>2
  <2>3. QED
    BY <2>1, <2>2
<1>8. sig'.next - 1 = n
  BY <1>1
<1>9. QED
  BY <1>3, <1>4, <1>5, <1>6, <1>7, <1>8 DEF NumberInv

\* A packet moves from a thread to the wire with its number.
LEMMA NumberHandedOver ==
  ASSUME TypeOK, NumberInv, NEW t \in {"media", "net"}, HandOver(t)
  PROVE  NumberInv'
<1> DEFINE p == held[t]
           k == Len(wire)
<1>1. /\ p # Nothing /\ wire' = Append(wire, p) /\ sig' = sig
      /\ held'[t] = Nothing /\ \A u \in {"media", "net"} : u # t => held'[u] = held[u]
  BY DEF HandOver, TypeOK
<1>2. p.kind \in Packets /\ p.seq \in 1..(sig.next - 1) /\ \A i \in 1..k : wire[i].seq # p.seq
  BY <1>1 DEF NumberInv
<1>3. p \in [kind : Packets, seq : Nat]
  BY <1>2 DEF TypeOK, Held
<1>4. /\ k \in Nat /\ Len(wire') = k + 1 /\ wire'[k + 1] = p
      /\ \A i \in 1..k : wire'[i] = wire[i]
  BY <1>1, <1>3, AppendProperties, LenProperties DEF TypeOK
<1>5. /\ \A i \in 1..Len(wire') : wire'[i].seq \in 1..(sig'.next - 1)
      /\ \A i, j \in 1..Len(wire') : wire'[i].seq = wire'[j].seq => i = j
  BY <1>1, <1>2, <1>4 DEF NumberInv
<1>6. \A u \in {"media", "net"} : held'[u] # Nothing =>
        u # t /\ held[u] # Nothing /\ held'[u] = held[u] /\ held[u].seq # p.seq
  BY <1>1 DEF NumberInv
<1>7. \A u \in {"media", "net"} : held'[u] # Nothing =>
        /\ held'[u].kind \in Packets
        /\ held'[u].seq \in 1..(sig'.next - 1)
        /\ \A i \in 1..Len(wire') : wire'[i].seq # held'[u].seq
  BY <1>1, <1>4, <1>6 DEF NumberInv
<1>8. ~(held'["media"] # Nothing /\ held'["net"] # Nothing)
  BY <1>1
<1>9. \A m \in 1..(sig'.next - 1) :
        \/ \E i \in 1..Len(wire') : wire'[i].seq = m
        \/ held'["media"] # Nothing /\ held'["media"].seq = m
        \/ held'["net"] # Nothing /\ held'["net"].seq = m
  <2> SUFFICES ASSUME NEW m \in 1..(sig'.next - 1)
               PROVE  \/ \E i \in 1..Len(wire') : wire'[i].seq = m
                      \/ held'["media"] # Nothing /\ held'["media"].seq = m
                      \/ held'["net"] # Nothing /\ held'["net"].seq = m
    OBVIOUS
  <2>1. \/ \E i \in 1..k : wire[i].seq = m
        \/ held["media"] # Nothing /\ held["media"].seq = m
        \/ held["net"] # Nothing /\ held["net"].seq = m
    BY <1>1 DEF NumberInv
  <2>2. CASE \E i \in 1..k : wire[i].seq = m
    BY <1>4, <2>2
  <2>3. CASE p.seq = m
    BY <1>4, <2>3
  <2>4. QED
    BY <1>1, <2>1, <2>2, <2>3
<1>10. QED
  BY <1>5, <1>7, <1>8, <1>9 DEF NumberInv

\* The media state, once.
LEMMA NumberMediaState ==
  ASSUME TypeOK, NumberInv, NEW t \in {"media", "net"}, held[t] = Nothing, wire' = wire,
         EmitMediaState(t, sig)
  PROVE  NumberInv'
<1>1. CASE sig.mediaSent
  BY <1>1, NumberKept DEF EmitMediaState
<1>2. CASE ~sig.mediaSent
  <2>1. Allot(t, "MediaState") /\ sig'.next = sig.next + 1
    BY <1>2 DEF EmitMediaState, TypeOK, Latches
  <2>2. QED
    BY <2>1, NumberAllot DEF Packets
<1>3. QED
  BY <1>1, <1>2

LEMMA NumberStep ==
  ASSUME TypeOK, SetupInv, NumberInv, Next
  PROVE  NumberInv'
<1>1. CASE \/ Feed \/ SetMute \/ Release \/ ReceiveCandidates \/ ReceiveOther \/ MuteMicrophone
           \/ Stop \/ Delete \/ Teardown \/ Reset \/ ConfigureRemote \/ NetworkingStop \/ Fence
           \/ OnRtcpPacketReceived \/ DeliverRtcp \/ WorkerTeardown \/ LevelTick
  <2>1. UNCHANGED <<wire, held, sig>>
    BY <1>1 DEF Feed, SetMute, Post, Release, ReceiveCandidates, ReceiveOther, MuteMicrophone,
                Stop, Delete, Shutdown, Teardown, Reset, ConfigureRemote, NetworkingStop, Fence,
                OnRtcpPacketReceived, DeliverRtcp, WorkerTeardown, LevelTick
  <2>2. QED
    BY <2>1, NumberKept
<1>2. CASE Start \/ StartNetworking
  <2>1. UNCHANGED <<wire, held>> /\ sig'.next = sig.next
    BY <1>2 DEF Start, StartNetworking, TypeOK, Latches
  <2>2. QED
    BY <2>1, NumberKept
<1>3. CASE ReceiveSetup
  <2>1. held["media"] = Nothing /\ wire' = wire
    BY <1>3, MediaOps, MediaTail DEF ReceiveSetup
  <2>2. CASE sig.scheduled /\ sig.emitted
    BY <1>3, <2>1, <2>2, NumberMediaState DEF ReceiveSetup
  <2>3. CASE ~(sig.scheduled /\ sig.emitted)
    <3>1. held' = held /\ sig'.next = sig.next
      BY <1>3, <2>3 DEF ReceiveSetup, TypeOK, Latches
    <3>2. QED
      BY <2>1, <3>1, NumberKept
  <2>4. QED
    BY <2>2, <2>3
<1>4. ASSUME NEW can \in BOOLEAN, SetupBuilt(can), held["net"] = Nothing
      PROVE  NumberInv'
  <2>1. CASE can
    <3>1. Allot("net", "InitialSetup") /\ sig'.next = sig.next + 1 /\ wire' = wire
      BY <1>4, <2>1 DEF SetupBuilt, TypeOK, Latches
    <3>2. QED
      BY <1>4, <3>1, NumberAllot DEF Packets
  <2>2. CASE ~can
    BY <1>4, <2>2, NumberKept DEF SetupBuilt
  <2>3. QED
    BY <2>1, <2>2
<1>5. CASE EmitCallerInitialSetup \/ EmitLocalInitialSetup
  <2>1. held["net"] = Nothing
    BY <1>5, NetOps, NetTail
  <2>2. SetupBuilt(fingerprint) \/ SetupBuilt(fingerprint /\ Head(netQ).audio # 0)
    BY <1>5 DEF EmitCallerInitialSetup, EmitLocalInitialSetup
  <2>3. fingerprint \in BOOLEAN /\ (fingerprint /\ Head(netQ).audio # 0) \in BOOLEAN
    BY DEF TypeOK
  <2>4. QED
    BY <1>4, <2>1, <2>2, <2>3
<1>6. CASE NetMediaState
  BY <1>6, NumberMediaState DEF NetMediaState, SetupInv
<1>7. CASE EmitLocalCandidate
  <2>1. /\ held["net"] = Nothing /\ Allot("net", "Candidates") /\ sig'.next = sig.next + 1
        /\ wire' = wire
    BY <1>7 DEF EmitLocalCandidate, NetIdle, TypeOK, Latches
  <2>2. QED
    BY <2>1, NumberAllot DEF Packets
<1>8. ASSUME NEW t \in {"media", "net"}, HandOver(t)
      PROVE  NumberInv'
  BY <1>8, NumberHandedOver
<1>9. QED
  BY <1>1, <1>2, <1>3, <1>5, <1>6, <1>7, <1>8 DEF Next, MediaThread, NetThread
------------------------------------------------------------------------------
(* SetupInv.                                                                *)

\* A step that emits nothing and brings no setup task: every one it leaves was there, d places
\* further back.
LEMMA SetupKept ==
  ASSUME SetupInv, UNCHANGED <<wire, netPc, held, sig.scheduled, sig.emitted>>,
         net'.state = "started" => net.state = "started",
         NEW d \in {0, 1}, Len(netQ) \in Nat, Len(netQ') \in Nat,
         \A i \in 1..Len(netQ') : netQ'[i].op \in SetupTasks =>
           i + d \in 1..Len(netQ) /\ netQ[i + d].op \in SetupTasks
  PROVE  SetupInv'
<1>1. \A i, j \in 1..Len(netQ') :
        netQ'[i].op \in SetupTasks /\ netQ'[j].op \in SetupTasks => i = j
  <2> SUFFICES ASSUME NEW i \in 1..Len(netQ'), NEW j \in 1..Len(netQ'),
                      netQ'[i].op \in SetupTasks, netQ'[j].op \in SetupTasks
               PROVE  i = j
    OBVIOUS
  <2>1. i + d = j + d
    BY DEF SetupInv
  <2>2. QED
    BY <2>1
<1>2. QED
  BY <1>1 DEF SetupInv

\* What the media thread posts, and whether it emits, when it reads a setup.
LEMMA SetupAnswered ==
  ASSUME TypeOK, TypeOK', SetupInv, ReceiveSetup
  PROVE  SetupInv'
<1>1. /\ UNCHANGED <<wire, netPc, net>> /\ held["media"] = Nothing
      /\ held'["net"] = held["net"] /\ sig'.scheduled /\ sig'.emitted = sig.emitted
  BY MediaOps, MediaTail DEF ReceiveSetup, EmitMediaState, Allot, TypeOK, Latches
<1>2. \/ held'["media"] = Nothing
      \/ held'["media"].kind = "MediaState" /\ wire # <<>>
  BY <1>1 DEF ReceiveSetup, EmitMediaState, Allot, Packet, TypeOK, SetupInv
<1>3. Len(netQ) \in Nat /\ Len(netQ') \in Nat
  BY LenProperties DEF TypeOK
<1>4. CASE \A i \in 1..Len(netQ') : netQ'[i].op \in SetupTasks =>
              i \in 1..Len(netQ) /\ netQ[i].op \in SetupTasks
  <2>1. /\ \A i, j \in 1..Len(netQ') :
             netQ'[i].op \in SetupTasks /\ netQ'[j].op \in SetupTasks => i = j
        /\ \A i \in 1..Len(netQ') : netQ'[i].op \in SetupTasks =>
             wire = <<>> /\ held["net"].kind # "InitialSetup"
    BY <1>4 DEF SetupInv
  <2>2. QED
    BY <1>1, <1>2, <2>1 DEF SetupInv, Nothing
<1>5. CASE ~sig.scheduled /\ \A i \in 1..Len(netQ') : netQ'[i].op \in SetupTasks => i = Len(netQ')
  <2>1. wire = <<>> /\ held["net"].kind # "InitialSetup"
    BY <1>5 DEF SetupInv
  <2>2. QED
    BY <1>1, <1>2, <1>5, <2>1 DEF SetupInv, Nothing
<1>6. CASE netQ' = netQ
  BY <1>4, <1>6
<1>7. CASE netQ' # netQ
  <2>1. /\ \A i \in 1..Len(netQ) : netQ'[i] = netQ[i]
        /\ \/ /\ Len(netQ') = Len(netQ) + 1
              /\ netQ'[Len(netQ) + 1].op \in {"setRemote", "addCandidates"}
           \/ /\ Len(netQ') = Len(netQ) + 2 /\ ~sig.scheduled
              /\ netQ'[Len(netQ) + 1].op = "setRemote"
    BY <1>7, NetPosted
  <2>2. CASE Len(netQ') = Len(netQ) + 1 /\ netQ'[Len(netQ) + 1].op \in {"setRemote", "addCandidates"}
    BY <1>3, <1>4, <2>1, <2>2 DEF SetupTasks
  <2>3. CASE /\ Len(netQ') = Len(netQ) + 2 /\ ~sig.scheduled
             /\ netQ'[Len(netQ) + 1].op = "setRemote"
    <3>1. \A i \in 1..Len(netQ) : netQ[i].op \notin SetupTasks
      BY <2>3 DEF SetupInv
    <3>2. QED
      BY <1>3, <1>5, <2>1, <2>3, <3>1 DEF SetupTasks
  <2>4. QED
    BY <2>1, <2>2, <2>3
<1>8. QED
  BY <1>6, <1>7

\* The network thread comes to the setup task.
LEMMA SetupTaken ==
  ASSUME TypeOK, TypeOK', SetupInv, NEW o \in SetupTasks, NetTakes(o), NEW can \in BOOLEAN,
         SetupBuilt(can)
  PROVE  SetupInv'
<1>1. /\ netPc = "idle" /\ held["net"] = Nothing /\ netQ[1].op \in SetupTasks
      /\ Len(netQ) \in Nat \ {0} /\ Len(netQ') = Len(netQ) - 1
      /\ \A i \in 1..Len(netQ') : netQ'[i] = netQ[i + 1]
  BY NetTail
<1>2. \A i \in 1..Len(netQ') : netQ'[i].op \notin SetupTasks
  BY <1>1 DEF SetupInv
<1>3. sig.scheduled /\ wire = <<>>
  BY <1>1 DEF SetupInv
<1>4. /\ UNCHANGED <<wire, netPc, net, sig.scheduled, sig.emitted>>
      /\ held'["media"] = held["media"]
      /\ held'["net"].kind = "InitialSetup" \/ held'["net"] = Nothing
  BY <1>1 DEF SetupBuilt, Allot, Packet, TypeOK, Latches
<1>5. QED
  BY <1>1, <1>2, <1>3, <1>4 DEF SetupInv

\* A packet goes out.
LEMMA SetupHandedOver ==
  ASSUME TypeOK, SetupInv, NumberInv, NEW t \in {"media", "net"}, HandOver(t)
  PROVE  SetupInv'
<1> DEFINE p == held[t]
<1>1. /\ p # Nothing /\ wire' = Append(wire, p) /\ UNCHANGED <<sig, net, netQ>>
      /\ held'[t] = Nothing /\ \A u \in {"media", "net"} : u # t => held'[u] = held[u]
      /\ netPc' = IF p.kind = "InitialSetup" THEN "mark" ELSE netPc
  BY DEF HandOver, TypeOK
<1>2. p \in [kind : Packets, seq : Nat]
  BY <1>1 DEF TypeOK, Held, NumberInv
<1>3. /\ Len(wire) \in Nat /\ Len(wire') = Len(wire) + 1 /\ wire'[Len(wire) + 1] = p
      /\ \A i \in 1..Len(wire) : wire'[i] = wire[i]
  BY <1>1, <1>2, AppendProperties, LenProperties DEF TypeOK
<1>4. wire' # <<>>
  BY <1>3, EmptySeq
<1>5. wire = <<>> <=> Len(wire) = 0
  BY EmptySeq DEF TypeOK
<1>6. CASE p.kind = "InitialSetup"
  <2>1. t = "net" /\ wire = <<>> /\ sig.scheduled
    BY <1>6 DEF SetupInv
  <2>2. \A i \in 1..Len(netQ) : netQ[i].op \notin SetupTasks
    BY <1>6, <2>1 DEF SetupInv
  <2>3. \A i \in 1..Len(wire') : (wire'[i].kind = "InitialSetup") <=> (i = 1)
    BY <1>3, <1>5, <1>6, <2>1
  <2>4. held'["net"] = Nothing /\ held'["media"] = held["media"]
    BY <1>1, <2>1
  <2>5. QED
    BY <1>1, <1>4, <2>1, <2>2, <2>3, <2>4 DEF SetupInv, Nothing
<1>7. CASE p.kind # "InitialSetup"
  <2>1. wire # <<>> /\ sig.scheduled /\ netPc' = netPc
    BY <1>1, <1>7 DEF SetupInv
  <2>2. \A i \in 1..Len(wire') : (wire'[i].kind = "InitialSetup") <=> (i = 1)
    BY <1>3, <1>5, <1>7, <2>1 DEF SetupInv
  <2>3. /\ \A i \in 1..Len(netQ) : netQ[i].op \notin SetupTasks
        /\ held["net"].kind # "InitialSetup"
    BY <2>1 DEF SetupInv
  <2>4. /\ held'["media"].kind # "InitialSetup" /\ held'["net"].kind # "InitialSetup"
        /\ held["net"] = Nothing => held'["net"] = Nothing
    BY <1>1, <2>3 DEF SetupInv, Nothing
  <2>5. QED
    BY <1>1, <1>4, <2>1, <2>2, <2>3, <2>4 DEF SetupInv
<1>8. QED
  BY <1>6, <1>7

LEMMA SetupStep ==
  ASSUME TypeOK, TypeOK', StartInv, ShutInv, FenceInv, SetupInv, NumberInv, Next
  PROVE  SetupInv'
<1>0. Len(netQ) \in Nat /\ Len(netQ') \in Nat
  BY LenProperties DEF TypeOK
<1>1. CASE \/ Feed \/ SetMute \/ Release \/ ReceiveOther \/ MuteMicrophone \/ Teardown \/ Reset
           \/ OnRtcpPacketReceived \/ DeliverRtcp \/ WorkerTeardown \/ LevelTick
  <2>1. UNCHANGED <<wire, netPc, held, sig, netQ>>
    BY <1>1 DEF Feed, SetMute, Post, Release, ReceiveOther, MuteMicrophone, Teardown, Reset,
                OnRtcpPacketReceived, DeliverRtcp, WorkerTeardown, LevelTick
  <2>2. net'.state = "started" => net.state = "started"
    BY <1>1 DEF Feed, SetMute, Post, Release, ReceiveOther, MuteMicrophone, Teardown, Reset,
                OnRtcpPacketReceived, DeliverRtcp, WorkerTeardown, LevelTick, TypeOK, Networking
  <2>3. QED
    BY <2>1, <2>2 DEF SetupInv
<1>2. CASE Start
  <2>1. /\ netQ = <<>> /\ wire = <<>> /\ netPc = "idle"
        /\ held["media"] = Nothing /\ held["net"] = Nothing
        /\ UNCHANGED <<wire, netPc, held>>
    BY <1>2, MediaOps, MediaTail DEF Start, StartInv
  <2>2. net'.state = "made" /\ sig'.scheduled = caller /\ sig'.emitted = sig.emitted
    BY <1>2 DEF Start, TypeOK, Networking, Latches
  <2>3. netQ' = <<>> \/ (caller /\ netQ' = <<NetTask("callerSetup")>>)
    BY <1>2, <2>1 DEF Start
  <2>4. QED
    BY <2>1, <2>2, <2>3 DEF SetupInv, Nothing
<1>3. CASE ReceiveSetup
  BY <1>3, SetupAnswered
<1>4. CASE ReceiveCandidates
  <2>1. UNCHANGED <<wire, netPc, held, sig, net>>
    BY <1>4 DEF ReceiveCandidates
  <2>2. ~ReceiveSetup
    BY <1>4, MediaOps, MediaTail
  <2>3. \A i \in 1..Len(netQ') : netQ'[i].op \in SetupTasks =>
          i + 0 \in 1..Len(netQ) /\ netQ[i + 0].op \in SetupTasks
    BY <1>0, <1>4, <2>2, NetPosted DEF SetupTasks
  <2>4. QED
    BY <1>0, <2>1, <2>3, SetupKept
<1>5. CASE Stop \/ Delete
  <2>1. UNCHANGED <<wire, netPc, held, sig, net>> /\ Shutdown
    BY <1>5 DEF Stop, Delete, Shutdown
  <2>2. \A i \in 1..Len(netQ') : netQ'[i].op \in SetupTasks =>
          i + 0 \in 1..Len(netQ) /\ netQ[i + 0].op \in SetupTasks
    <3>1. CASE HasNetworking
      BY <1>0, <2>1, <3>1, StopPosted DEF SetupTasks
    <3>2. CASE ~HasNetworking
      BY <1>0, <2>1, <3>2 DEF Shutdown
    <3>3. QED
      BY <3>1, <3>2
  <2>3. QED
    BY <1>0, <2>1, <2>2, SetupKept
<1>6. CASE ConfigureRemote \/ NetworkingStop \/ Fence
  <2>1. UNCHANGED <<wire, netPc, held, sig>> /\ (net'.state = "started" => net.state = "started")
    BY <1>6 DEF ConfigureRemote, NetworkingStop, Fence, TypeOK, Networking
  <2>2. \A i \in 1..Len(netQ') : netQ'[i].op \in SetupTasks =>
          i + 1 \in 1..Len(netQ) /\ netQ[i + 1].op \in SetupTasks
    BY <1>6, NetOps, NetTail
  <2>3. QED
    BY <1>0, <2>1, <2>2, SetupKept
<1>7. CASE EmitCallerInitialSetup
  BY <1>7, SetupTaken, NetOps DEF EmitCallerInitialSetup, SetupTasks, TypeOK
<1>8. CASE EmitLocalInitialSetup
  <2>1. (fingerprint /\ Head(netQ).audio # 0) \in BOOLEAN /\ "localSetup" \in SetupTasks
    BY DEF TypeOK, SetupTasks
  <2>2. QED
    BY <1>8, <2>1, SetupTaken DEF EmitLocalInitialSetup
<1>9. CASE StartNetworking
  <2>1. /\ wire # <<>> /\ held["net"] = Nothing
        /\ UNCHANGED <<wire, held, netQ, sig.scheduled>>
    BY <1>9 DEF StartNetworking, SetupInv, TypeOK, Latches
  <2>2. QED
    BY <2>1 DEF SetupInv
<1>10. CASE NetMediaState
  <2>1. /\ wire # <<>> /\ netPc' = "idle" /\ UNCHANGED <<wire, net, netQ>>
        /\ sig'.scheduled = sig.scheduled /\ held'["media"] = held["media"]
    BY ZenonT(30), <1>10 DEF NetMediaState, EmitMediaState, Allot, SetupInv, TypeOK, Latches
  <2>2. held'["net"].kind # "InitialSetup"
    BY <1>10 DEF NetMediaState, EmitMediaState, Allot, Packet, SetupInv, TypeOK, Nothing
  <2>3. QED
    BY <2>1, <2>2 DEF SetupInv
<1>11. CASE EmitLocalCandidate
  <2>1. /\ wire # <<>> /\ netPc = "idle" /\ UNCHANGED <<wire, net, netQ, netPc>>
        /\ sig'.scheduled = sig.scheduled /\ held'["media"] = held["media"]
        /\ held'["net"].kind # "InitialSetup"
    BY <1>11 DEF EmitLocalCandidate, NetIdle, Allot, Packet, SetupInv, TypeOK, Latches
  <2>2. QED
    BY <2>1 DEF SetupInv
<1>12. ASSUME NEW t \in {"media", "net"}, HandOver(t)
       PROVE  SetupInv'
  BY <1>12, SetupHandedOver
<1>13. QED
  BY <1>1, <1>2, <1>3, <1>4, <1>5, <1>6, <1>7, <1>8, <1>9, <1>10, <1>11, <1>12
     DEF Next, MediaThread, NetThread
------------------------------------------------------------------------------
(* RemoteInv.                                                               *)

\* A step of neither queue nor signaling.
LEMMA RemoteKept ==
  ASSUME RemoteInv, UNCHANGED <<netQ, wire, caller, held["net"]>>, net.remote => net'.remote
  PROVE  RemoteInv'
  BY DEF RemoteInv

\* The network thread takes a task that is not the remote parameters, or sets them.
LEMMA RemoteTail ==
  ASSUME TypeOK, RemoteInv, NEW o, NetTakes(o), UNCHANGED <<wire, caller>>,
         net.remote => net'.remote, o = "setRemote" => net'.remote,
         held'["net"].kind = "InitialSetup" => caller \/ net.remote
  PROVE  RemoteInv'
<1>1. /\ netQ[1].op = o /\ Len(netQ) \in Nat \ {0} /\ Len(netQ') = Len(netQ) - 1
      /\ \A i \in 1..Len(netQ') : netQ'[i] = netQ[i + 1]
  BY NetTail
<1>2. ASSUME NEW i \in 1..Len(netQ'), netQ'[i].op = "localSetup", ~net'.remote
      PROVE  \E j \in 1..(i - 1) : netQ'[j].op = "setRemote"
  <2>1. PICK j \in 1..i : netQ[j].op = "setRemote"
    <3>1. i + 1 \in 1..Len(netQ) /\ netQ[i + 1].op = "localSetup" /\ i + 1 - 1 = i
      BY <1>1, <1>2
    <3>2. QED
      BY <1>2, <3>1 DEF RemoteInv
  <2>2. j # 1
    BY <1>1, <1>2, <2>1
  <2>3. j - 1 \in 1..(i - 1) /\ j - 1 \in 1..Len(netQ') /\ (j - 1) + 1 = j
    BY <1>1, <2>2
  <2>4. netQ'[j - 1].op = "setRemote"
    BY <1>1, <2>1, <2>3
  <2>5. QED
    BY <2>3, <2>4
<1>3. \A i \in 1..Len(netQ') : netQ'[i].op = "callerSetup" => caller
  BY SMTT(30), <1>1 DEF RemoteInv
<1>4. QED
  BY <1>2, <1>3 DEF RemoteInv

LEMMA RemoteStep ==
  ASSUME TypeOK, TypeOK', StartInv, SetupInv, RemoteInv, Next
  PROVE  RemoteInv'
<1>0. Len(netQ) \in Nat /\ Len(netQ') \in Nat
  BY LenProperties DEF TypeOK
<1>1. CASE \/ Feed \/ SetMute \/ Release \/ ReceiveOther \/ MuteMicrophone \/ Teardown \/ Reset
           \/ OnRtcpPacketReceived \/ DeliverRtcp \/ WorkerTeardown \/ LevelTick
           \/ StartNetworking
  <2>1. UNCHANGED <<netQ, wire, caller, held>> /\ net'.remote = net.remote
    BY <1>1 DEF Feed, SetMute, Post, Release, ReceiveOther, MuteMicrophone, Teardown, Reset,
                OnRtcpPacketReceived, DeliverRtcp, WorkerTeardown, LevelTick, StartNetworking,
                TypeOK, Networking
  <2>2. QED
    BY <2>1, RemoteKept
<1>2. CASE Start
  <2>1. /\ netQ = <<>> /\ wire = <<>> /\ held["net"] = Nothing
        /\ UNCHANGED <<wire, held, caller>>
    BY <1>2, MediaOps, MediaTail DEF Start, StartInv
  <2>2. \A i \in 1..Len(netQ') : netQ'[i].op = "callerSetup" /\ caller
    BY <1>2, <2>1, NetTaskType DEF Start
  <2>3. QED
    BY <2>1, <2>2 DEF RemoteInv, Nothing
<1>3. CASE ReceiveSetup \/ ReceiveCandidates
  <2>1. UNCHANGED <<wire, caller, net>> /\ held'["net"] = held["net"]
    BY <1>3 DEF ReceiveSetup, ReceiveCandidates, EmitMediaState, Allot, TypeOK
  <2>2. CASE netQ' = netQ
    BY <2>1, <2>2, RemoteKept
  <2>3. CASE netQ' # netQ
    <3>1. /\ \A i \in 1..Len(netQ) : netQ'[i] = netQ[i]
          /\ \/ /\ Len(netQ') = Len(netQ) + 1
                /\ netQ'[Len(netQ) + 1].op \in {"setRemote", "addCandidates"}
             \/ /\ Len(netQ') = Len(netQ) + 2
                /\ netQ'[Len(netQ) + 1].op = "setRemote"
                /\ netQ'[Len(netQ) + 2].op = "localSetup"
      BY <1>3, <2>3, NetPosted
    <3>2. \A i \in 1..Len(netQ) :
            /\ netQ'[i].op = "callerSetup" => caller
            /\ netQ'[i].op = "localSetup" =>
                 net.remote \/ \E j \in 1..(i - 1) : netQ'[j].op = "setRemote"
      BY <1>0, <3>1 DEF RemoteInv
    <3>3. \A i \in 1..Len(netQ') : i \notin 1..Len(netQ) =>
            /\ netQ'[i].op # "callerSetup"
            /\ netQ'[i].op = "localSetup" => \E j \in 1..(i - 1) : netQ'[j].op = "setRemote"
      BY <1>0, <3>1
    <3>4. QED
      BY <2>1, <3>2, <3>3 DEF RemoteInv
  <2>4. QED
    BY <2>2, <2>3
<1>4. CASE Stop \/ Delete
  <2>1. UNCHANGED <<wire, held, caller, net>> /\ Shutdown
    BY <1>4 DEF Stop, Delete, Shutdown
  <2>2. CASE HasNetworking
    <3>1. /\ Len(netQ') = Len(netQ) + 2
          /\ \A i \in 1..Len(netQ) : netQ'[i] = netQ[i]
          /\ netQ'[Len(netQ) + 1].op = "stop" /\ netQ'[Len(netQ) + 2].op = "fence"
      BY <2>1, <2>2, StopPosted
    <3>2. \A i \in 1..Len(netQ) :
            /\ netQ'[i].op = "callerSetup" => caller
            /\ netQ'[i].op = "localSetup" =>
                 net.remote \/ \E j \in 1..(i - 1) : netQ'[j].op = "setRemote"
      BY <1>0, <3>1 DEF RemoteInv
    <3>3. \A i \in 1..Len(netQ') : i \notin 1..Len(netQ) =>
            netQ'[i].op \notin {"callerSetup", "localSetup"}
      BY <1>0, <3>1
    <3>4. QED
      BY <2>1, <3>2, <3>3 DEF RemoteInv
  <2>3. CASE ~HasNetworking
    BY <2>1, <2>3, RemoteKept DEF Shutdown
  <2>4. QED
    BY <2>2, <2>3
<1>5. CASE EmitCallerInitialSetup
  <2>1. netQ[1].op = "callerSetup" /\ 1 \in 1..Len(netQ)
    BY <1>5, NetOps, NetTail
  <2>2. caller
    BY <2>1 DEF RemoteInv
  <2>3. NetTakes("callerSetup") /\ UNCHANGED <<wire, caller, net>>
    BY <1>5 DEF EmitCallerInitialSetup, SetupBuilt
  <2>4. QED
    BY <2>2, <2>3, RemoteTail
<1>6. CASE EmitLocalInitialSetup
  <2>1. netQ[1].op = "localSetup" /\ 1 \in 1..Len(netQ)
    BY <1>6, NetOps, NetTail
  <2>2. net.remote
    BY <2>1 DEF RemoteInv
  <2>3. NetTakes("localSetup") /\ UNCHANGED <<wire, caller, net>>
    BY <1>6 DEF EmitLocalInitialSetup, SetupBuilt
  <2>4. QED
    BY <2>2, <2>3, RemoteTail
<1>7. CASE ConfigureRemote
  <2>1. UNCHANGED <<wire, caller, held>> /\ (net.remote => net'.remote)
    BY <1>7 DEF ConfigureRemote, TypeOK, Networking
  <2>2. held["net"] = Nothing
    BY <1>7, NetOps, NetTail
  <2>3. CASE NetTakes("addCandidates")
    BY <2>1, <2>2, <2>3, RemoteTail DEF Nothing
  <2>4. CASE NetTakes("setRemote")
    <3>1. net'.remote
      BY <1>7, <2>4 DEF ConfigureRemote, NetTakes, TypeOK, Networking
    <3>2. QED
      BY <2>1, <2>2, <2>4, <3>1, RemoteTail DEF Nothing
  <2>5. QED
    BY <1>7, <2>3, <2>4, NetOps
<1>8. CASE NetworkingStop \/ Fence
  <2>1. UNCHANGED <<wire, caller, held>> /\ net'.remote = net.remote
    BY <1>8 DEF NetworkingStop, Fence, TypeOK, Networking
  <2>2. PICK o \in {"stop", "fence"} : NetTakes(o)
    BY <1>8, NetOps
  <2>3. held["net"] = Nothing
    BY <2>2, NetTail
  <2>4. QED
    BY <2>1, <2>2, <2>3, RemoteTail DEF Nothing
<1>9. CASE NetMediaState \/ EmitLocalCandidate
  <2>1. wire # <<>> /\ UNCHANGED <<wire, caller, net, netQ>>
    BY <1>9 DEF NetMediaState, EmitLocalCandidate, SetupInv
  <2>2. QED
    BY <2>1 DEF RemoteInv
<1>10. ASSUME NEW t \in {"media", "net"}, HandOver(t)
       PROVE  RemoteInv'
  <2>1. UNCHANGED <<netQ, caller, net>>
    BY <1>10 DEF HandOver
  <2>2. caller \/ net.remote
    BY <1>10 DEF HandOver, SetupInv, RemoteInv
  <2>3. QED
    BY <2>1, <2>2 DEF RemoteInv
<1>11. QED
  BY <1>1, <1>2, <1>3, <1>4, <1>5, <1>6, <1>7, <1>8, <1>9, <1>10 DEF Next, MediaThread, NetThread

------------------------------------------------------------------------------
(* The invariant, and what it says of the instance.                         *)

LEMMA TypeStep ==
  ASSUME TypeOK, NumberInv, Next
  PROVE  TypeOK'
<1>1. ASSUME NEW t \in {"media", "net"}, HandOver(t)
      PROVE  TypeOK'
  BY <1>1, TypeHandOver DEF HandOver, NumberInv
<1>2. QED
  BY <1>1, TypeClient, TypeMedia, TypeNet DEF Next, MediaThread, NetThread

LEMMA WebKInit == Init => WebKInv
<1> SUFFICES ASSUME Init PROVE WebKInv
  OBVIOUS
<1>1. TypeOK
  BY TypeInit
<1>2. /\ Len(mediaQ) = 1 /\ mediaQ[1].op = "start" /\ mediaQ # <<>>
      /\ Len(netQ) = 0 /\ Len(workQ) = 0 /\ Len(wire) = 0 /\ wire = <<>>
      /\ held["media"] = Nothing /\ held["net"] = Nothing /\ sig.next - 1 = 0
  BY MediaTaskType, EmptySeq DEF Init
<1>3. StartInv
  BY <1>2 DEF Init, StartInv
<1>4. ShutInv
  BY <1>2 DEF Init, ShutInv, StopTasks
<1>5. FenceInv
  BY <1>2 DEF Init, FenceInv, NetIdle
<1>6. WorkerInv
  BY <1>2 DEF Init, WorkerInv
<1>7. SetupInv
  BY <1>2 DEF Init, SetupInv, Nothing
<1>8. RemoteInv
  BY <1>2 DEF Init, RemoteInv, Nothing
<1>9. NumberInv
  BY <1>2 DEF Init, NumberInv
<1>10. QED
  BY <1>1, <1>3, <1>4, <1>5, <1>6, <1>7, <1>8, <1>9 DEF WebKInv

LEMMA WebKStep == WebKInv /\ [Next]_vars => WebKInv'
<1> SUFFICES ASSUME WebKInv, [Next]_vars PROVE WebKInv'
  OBVIOUS
<1>1. CASE Next
  <2>1. TypeOK'
    BY <1>1, TypeStep DEF WebKInv
  <2>2. QED
    BY <1>1, <2>1, StartStep, ShutStep, FenceStep, WorkerStep, SetupStep, RemoteStep, NumberStep
       DEF WebKInv
<1>2. CASE UNCHANGED vars
  <2> USE <1>2 DEF vars
  <2>1. TypeOK'
    BY DEF WebKInv, TypeOK
  <2>2. StartInv' /\ ShutInv'
    BY DEF WebKInv, StartInv, ShutInv
  <2>3. FenceInv' /\ WorkerInv'
    BY DEF WebKInv, FenceInv, NetIdle, WorkerInv, HasNetworking
  <2>4. SetupInv' /\ RemoteInv' /\ NumberInv'
    BY DEF WebKInv, SetupInv, RemoteInv, NumberInv
  <2>5. QED
    BY <2>1, <2>2, <2>3, <2>4 DEF WebKInv
<1>3. QED
  BY <1>1, <1>2

\* The invariant of the three threads (emission, shutdown and teardown of the instance): the
\* strengthening that every result below rests on.
THEOREM WebKInvariant == Spec => []WebKInv
  BY WebKInit, WebKStep, PTL DEF Spec

\* Type correctness of the instance.
THEOREM WebKTypeCorrect == Spec => []TypeOK
<1>1. WebKInv => TypeOK
  BY DEF WebKInv
<1>2. QED
  BY <1>1, WebKInvariant, PTL

\* emitInitialSetup, emitMediaState and emitLocalCandidate run on two threads: the first packet
\* out is the InitialSetup, the only one, and networking starts after it and after the remote
\* parameters the callee answers.
THEOREM WebKSetupComesFirst == Spec => []SetupComesFirst
<1>1. WebKInv => SetupComesFirst
  BY DEF WebKInv, SetupInv, RemoteInv, SetupComesFirst
<1>2. QED
  BY <1>1, WebKInvariant, PTL

\* What is over once stop() has completed.
LEMMA WhenStopped ==
  ASSUME WebKInv, stopped
  PROVE  /\ held["media"] = Nothing /\ held["net"] = Nothing /\ netPc = "idle"
         /\ netQ = <<>> /\ ~pipe.alive
  BY DEF WebKInv, ShutInv, FenceInv, WorkerInv, NetIdle

\* encryptWebKMessage allots _outgoingSequence under the mutex: no number travels twice, and a
\* stopped instance has handed over every number it took.
THEOREM WebKEveryNumberOnce == Spec => []EveryNumberOnce
<1>1. WebKInv => EveryNumberOnce
  BY WhenStopped DEF WebKInv, NumberInv, EveryNumberOnce
<1>2. QED
  BY <1>1, WebKInvariant, PTL

\* shutdownInstance: behind the fence and the blocking teardown nothing of the instance is left
\* on any thread when it is freed, and after stop() it neither emits nor reports a level.
THEOREM WebKStopIsFinal == Spec => StopIsFinal
<1>1. WebKInv => NothingOutlivesInstance
  <2> SUFFICES ASSUME WebKInv PROVE NothingOutlivesInstance
    OBVIOUS
  <2>1. pipe.in # 0 \/ pipe.out # "none" => HasNetworking /\ pipe.call
    BY DEF WebKInv, WorkerInv
  <2>2. freed => stopped /\ mediaPc = "idle" /\ net.state = "gone"
    BY DEF WebKInv, ShutInv, FenceInv, TypeOK
  <2>3. freed => workQ = <<>>
    BY <2>2 DEF WebKInv, WorkerInv
  <2>4. QED
    BY <2>1, <2>2, <2>3, WhenStopped DEF NothingOutlivesInstance, NetIdle
<1>2. WebKInv /\ [Next]_vars => [stopped => UNCHANGED <<wire, levels>>]_vars
  <2> SUFFICES ASSUME WebKInv, Next, stopped
               PROVE  UNCHANGED <<wire, levels>>
    OBVIOUS
  <2>1. held["media"] = Nothing /\ held["net"] = Nothing /\ ~pipe.alive
    BY WhenStopped
  <2>2. ~HandOver("media") /\ ~HandOver("net")
    BY <2>1 DEF HandOver
  <2>3. QED
    BY <2>1, <2>2
       DEF Next, MediaThread, NetThread, Feed, SetMute, Post, Release, Start, ReceiveSetup,
           ReceiveCandidates, ReceiveOther, MuteMicrophone, Stop, Delete, Shutdown, Teardown,
           Reset, EmitCallerInitialSetup, EmitLocalInitialSetup, SetupBuilt, StartNetworking,
           NetMediaState, ConfigureRemote, NetworkingStop, Fence, EmitLocalCandidate,
           OnRtcpPacketReceived, DeliverRtcp, WorkerTeardown, LevelTick
<1>3. QED
  BY <1>1, <1>2, WebKInvariant, PTL DEF Spec, StopIsFinal, SilentAfterStop
==============================================================================
