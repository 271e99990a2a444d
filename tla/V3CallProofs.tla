----------------------------- MODULE V3CallProofs -----------------------------
(***************************************************************************)
(* Proofs about V3Call: the types and their bounds, remote candidates      *)
(* follow the remote parameters, a freed instance is not touched, each     *)
(* peer knows whether the other is muted, and audio goes both ways, for    *)
(* any number of candidates, mutes, closings of the data channel and       *)
(* refusals, and every interleaving of the four threads.                   *)
(***************************************************************************)
EXTENDS V3Call, SequenceTheorems, FiniteSetTheorems, FunctionTheorems, TLAPS

MediaOps == {"start", "mute", "stop", "delete"} \cup Gated
NetOps == {"start", "params", "setRemote", "add", "dcSend", "stop", "fence"}
Carried == Messages \cup {Message("none", "none")}
MediaTasks == [op : MediaOps, msg : Carried, flag : BOOLEAN]
NetTasks == [op : NetOps, msg : Carried, flag : BOOLEAN]
Members == [ready : BOOLEAN, conn : BOOLEAN, alive : BOOLEAN, handshake : BOOLEAN,
            setupSent : BOOLEAN, dcOpen : BOOLEAN, pending : Nat, need : BOOLEAN,
            offered : BOOLEAN, in : BOOLEAN, out : {"none", "open", "muted"},
            mute : BOOLEAN]
Networking == [state : {"none", "made", "started", "stopped", "gone"}, remote : BOOLEAN,
               added : Nat]

\* The types, without the bounds that TypeOK takes from the number of events.
V3Types ==
  /\ mediaQ \in [Peers -> Seq(MediaTasks)] /\ netQ \in [Peers -> Seq(NetTasks)]
  /\ chan \in [Peers -> Seq(Messages)]
  /\ pc \in [Peers -> {"idle", "signaling", "fence", "teardown"}]
  /\ st \in [Peers -> Members] /\ net \in [Peers -> Networking]
  /\ released \in [Peers -> BOOLEAN] /\ stopped \in [Peers -> BOOLEAN]
  /\ freed \in [Peers -> BOOLEAN]

------------------------------------------------------------------------------
(* The invariant of one peer, stated of the values it relates: q and n are   *)
(* the queues of its media and network thread, c where the media thread is,  *)
(* s the members, w the networking object, and r, d, f: released, stopped,   *)
(* freed.                                                                    *)

\* The four shapes of the media queue: nothing released; stop and delete waiting, side by
\* side, and behind them only gated tasks; delete first; only gated tasks.
NoStop(q) == \A i \in 1..Len(q) : q[i].op \notin {"stop", "delete"}
StopAhead(q) ==
  \E k \in 1..Len(q) :
    /\ k < Len(q) /\ q[k].op = "stop" /\ q[k + 1].op = "delete"
    /\ \A i \in 1..Len(q) : i < k => q[i].op \notin {"stop", "delete"}
    /\ \A i \in 1..Len(q) : i > k + 1 => q[i].op \in Gated
DeleteFirst(q) ==
  q # <<>> /\ q[1].op = "delete" /\ \A i \in 1..Len(q) : i > 1 => q[i].op \in Gated
OnlyGated(q) == \A i \in 1..Len(q) : q[i].op \in Gated

\* The life of an instance: working, released, shutting down or stopped, being deleted or freed.
Working(c, s, d, f) == s.alive /\ ~d /\ ~f /\ c \in {"idle", "signaling"}
LifeOf(q, c, s, r, d, f) ==
  \/ ~r /\ NoStop(q) /\ Working(c, s, d, f)
  \/ r /\ StopAhead(q) /\ Working(c, s, d, f)
  \/ /\ r /\ DeleteFirst(q) /\ ~s.alive /\ ~f
     /\ c \in IF d THEN {"idle"} ELSE {"fence", "teardown"}
  \/ /\ r /\ OnlyGated(q) /\ ~s.alive /\ d
     /\ c = IF f THEN "idle" ELSE "teardown"

\* The network thread: nothing before start has made the networking object; nothing once it
\* is gone; and while the media thread waits for the fence, the fence is what is last.
NetworkOf(q, n, c, w, d) ==
  /\ w.state = "none" => n = <<>> /\ q # <<>> /\ q[1].op = "start" /\ c = "idle"
  /\ (w.state = "gone") <=> d
  /\ c \in {"idle", "signaling"} => \A i \in 1..Len(n) : n[i].op # "fence"
  /\ c = "fence" => /\ n # <<>> /\ n[Len(n)].op = "fence"
                    /\ \A i \in 1..Len(n) : i < Len(n) => n[i].op # "fence"
  /\ c = "teardown" \/ d => n = <<>>

\* Candidates wait behind the parameters, and the handshake flag means that the parameters
\* are on their way or there.
CandidatesOf(n, s, w) ==
  /\ w.added > 0 => w.remote
  /\ \A i \in 1..Len(n) : n[i].op = "add" =>
       w.remote \/ \E j \in 1..(i - 1) : n[j].op = "setRemote"
  /\ s.handshake =>
       s.pending = 0 /\ (w.remote \/ \E j \in 1..Len(n) : n[j].op = "setRemote")

Life(p) == LifeOf(mediaQ[p], pc[p], st[p], released[p], stopped[p], freed[p])
Network(p) == NetworkOf(mediaQ[p], netQ[p], pc[p], net[p], stopped[p])
Candidates(p) == CandidatesOf(netQ[p], st[p], net[p])
PeerInv(p) == Life(p) /\ Network(p) /\ Candidates(p)

V3Inv == V3Types /\ \A p \in Peers : PeerInv(p)

------------------------------------------------------------------------------
(* Queues. *)

LEMMA OtherPeer == ASSUME NEW p \in Peers PROVE Other(p) \in Peers /\ Other(p) # p
  BY DEF Other, Peers

\* The tasks that are posted.
LEMMA TaskTypes ==
  /\ \A o \in MediaOps : Task(o) \in MediaTasks
  /\ \A o \in NetOps : Task(o) \in NetTasks
  /\ \A o : Task(o).op = o
<1>1. Message("none", "none") \in Carried
  BY DEF Carried
<1> QED BY <1>1 DEF Task, MediaTasks, NetTasks

LEMMA FlagTaskTypes ==
  ASSUME NEW f \in BOOLEAN
  PROVE  /\ \A o \in MediaOps : FlagTask(o, f) \in MediaTasks /\ FlagTask(o, f).op = o
         /\ \A o \in NetOps : FlagTask(o, f) \in NetTasks /\ FlagTask(o, f).op = o
<1>1. ASSUME NEW o \in MediaOps
      PROVE  FlagTask(o, f) \in MediaTasks /\ FlagTask(o, f).op = o
  <2>1. Task(o) \in MediaTasks /\ Task(o).op = o
    BY TaskTypes
  <2> QED BY <2>1 DEF FlagTask, MediaTasks
<1>2. ASSUME NEW o \in NetOps
      PROVE  FlagTask(o, f) \in NetTasks /\ FlagTask(o, f).op = o
  <2>1. Task(o) \in NetTasks /\ Task(o).op = o
    BY TaskTypes
  <2> QED BY <2>1 DEF FlagTask, NetTasks
<1> QED BY <1>1, <1>2

LEMMA DataTaskTypes ==
  ASSUME NEW m \in Messages
  PROVE  DataTask(m) \in MediaTasks /\ DataTask(m).op = "data"
<1>1. Task("data") \in MediaTasks /\ Task("data").op = "data"
  BY TaskTypes DEF MediaOps, Gated
<1>2. m \in Carried
  BY DEF Carried
<1> QED BY <1>1, <1>2 DEF DataTask, MediaTasks

\* What is taken from a queue.
LEMMA Taken ==
  ASSUME NEW S, NEW q \in Seq(S), q # <<>>
  PROVE  /\ Head(q) = q[1] /\ Head(q) \in S /\ Tail(q) \in Seq(S)
         /\ Len(q) \in Nat /\ Len(q) > 0 /\ Len(Tail(q)) = Len(q) - 1
         /\ \A i \in 1..(Len(q) - 1) : Tail(q)[i] = q[i + 1]
         /\ Len(q) = 1 <=> Tail(q) = <<>>
<1>1. Len(q) \in Nat /\ Len(q) # 0
  BY EmptySeq, LenProperties
<1>2. /\ Head(q) \in S /\ Tail(q) \in Seq(S) /\ Len(Tail(q)) = Len(q) - 1
      /\ \A i \in 1..Len(Tail(q)) : Tail(q)[i] = q[i + 1]
  BY HeadTailProperties
<1>3. Tail(q) # <<>> => Len(Tail(q)) # 0
  BY <1>2, EmptySeq
<1>4. Tail(q) = <<>> => Len(Tail(q)) = 0
  BY EmptySeq
<1> QED BY <1>1, <1>2, <1>3, <1>4

\* A gated task, or a mute while nothing is released, behind a media queue.
LEMMA ShapeAppend ==
  ASSUME NEW q \in Seq(MediaTasks), NEW t \in MediaTasks
  PROVE  LET a == Append(q, t)
         IN /\ a \in Seq(MediaTasks) /\ a # <<>>
            /\ q # <<>> => a[1] = q[1]
            /\ t.op \notin {"stop", "delete"} /\ NoStop(q) => NoStop(a)
            /\ t.op \in Gated /\ StopAhead(q) => StopAhead(a)
            /\ t.op \in Gated /\ DeleteFirst(q) => DeleteFirst(a)
            /\ t.op \in Gated /\ OnlyGated(q) => OnlyGated(a)
<1> DEFINE a == Append(q, t)
<1>1. /\ a \in Seq(MediaTasks) /\ a # <<>> /\ Len(a) = Len(q) + 1 /\ Len(q) \in Nat
      /\ \A i \in 1..Len(q) : a[i] = q[i]
      /\ a[Len(q) + 1] = t
      /\ q # <<>> => Len(q) > 0
  BY AppendProperties, LenProperties, EmptySeq
<1> HIDE DEF a
<1>2. \A i \in 1..Len(a) : i \in 1..Len(q) \/ a[i] = t
  BY <1>1
<1>3. q # <<>> => a[1] = q[1]
  BY <1>1
<1>4. t.op \notin {"stop", "delete"} /\ NoStop(q) => NoStop(a)
  BY <1>1, <1>2 DEF NoStop
<1>5. t.op \in Gated /\ OnlyGated(q) => OnlyGated(a)
  BY <1>1, <1>2 DEF OnlyGated
<1>6. t.op \in Gated /\ DeleteFirst(q) => DeleteFirst(a)
  BY <1>1, <1>2, <1>3 DEF DeleteFirst
<1>7. ASSUME t.op \in Gated, StopAhead(q) PROVE StopAhead(a)
  <2>1. PICK k \in 1..Len(q) :
          /\ k < Len(q) /\ q[k].op = "stop" /\ q[k + 1].op = "delete"
          /\ \A i \in 1..Len(q) : i < k => q[i].op \notin {"stop", "delete"}
          /\ \A i \in 1..Len(q) : i > k + 1 => q[i].op \in Gated
    BY <1>7 DEF StopAhead
  <2>2. /\ k \in 1..Len(a) /\ k < Len(a) /\ a[k].op = "stop" /\ a[k + 1].op = "delete"
        /\ \A i \in 1..Len(a) : i < k => a[i].op \notin {"stop", "delete"}
        /\ \A i \in 1..Len(a) : i > k + 1 => a[i].op \in Gated
    BY <1>1, <1>2, <1>7, <2>1
  <2> QED BY <2>2 DEF StopAhead
<1> QED BY <1>1, <1>3, <1>4, <1>5, <1>6, <1>7 DEF a

\* What remains when the first task is taken.
LEMMA ShapeTail ==
  ASSUME NEW q \in Seq(MediaTasks), q # <<>>
  PROVE  LET t == Tail(q)
         IN /\ NoStop(q) => NoStop(t) /\ q[1].op \notin {"stop", "delete"}
            /\ StopAhead(q) /\ q[1].op = "stop" => DeleteFirst(t)
            /\ StopAhead(q) /\ q[1].op # "stop" => StopAhead(t) /\ q[1].op # "delete"
            /\ DeleteFirst(q) => OnlyGated(t) /\ q[1].op = "delete"
            /\ OnlyGated(q) => OnlyGated(t) /\ q[1].op \in Gated
<1> DEFINE t == Tail(q)
<1>1. /\ t \in Seq(MediaTasks) /\ Len(q) \in Nat /\ Len(q) > 0 /\ Len(t) = Len(q) - 1
      /\ \A i \in 1..(Len(q) - 1) : t[i] = q[i + 1]
      /\ Len(q) = 1 <=> t = <<>>
  BY Taken
<1> HIDE DEF t
<1>2. NoStop(q) => NoStop(t) /\ q[1].op \notin {"stop", "delete"}
  BY <1>1 DEF NoStop
<1>3. DeleteFirst(q) => OnlyGated(t) /\ q[1].op = "delete"
  BY <1>1 DEF DeleteFirst, OnlyGated
<1>4. OnlyGated(q) => OnlyGated(t) /\ q[1].op \in Gated
  BY <1>1 DEF OnlyGated
<1>5. ASSUME StopAhead(q)
      PROVE  IF q[1].op = "stop" THEN DeleteFirst(t) ELSE StopAhead(t) /\ q[1].op # "delete"
  <2>1. PICK k \in 1..Len(q) :
          /\ k < Len(q) /\ q[k].op = "stop" /\ q[k + 1].op = "delete"
          /\ \A i \in 1..Len(q) : i < k => q[i].op \notin {"stop", "delete"}
          /\ \A i \in 1..Len(q) : i > k + 1 => q[i].op \in Gated
    BY <1>5 DEF StopAhead
  <2>2. CASE k = 1
    <3>1. q[1].op = "stop" /\ t # <<>> /\ t[1].op = "delete"
      BY <1>1, <2>1, <2>2
    <3>2. \A i \in 1..Len(t) : i > 1 => t[i].op \in Gated
      BY <1>1, <2>1, <2>2
    <3> QED BY <3>1, <3>2 DEF DeleteFirst
  <2>3. CASE k > 1
    <3>1. q[1].op \notin {"stop", "delete"}
      BY <1>1, <2>1, <2>3
    <3>2. /\ k - 1 \in 1..Len(t) /\ k - 1 < Len(t)
          /\ t[k - 1].op = "stop" /\ t[(k - 1) + 1].op = "delete"
      BY SMTT(30), <1>1, <2>1, <2>3
    <3>3. \A i \in 1..Len(t) : i < k - 1 => t[i].op \notin {"stop", "delete"}
      BY <1>1, <2>1, <2>3
    <3>4. \A i \in 1..Len(t) : i > (k - 1) + 1 => t[i].op \in Gated
      BY <1>1, <2>1, <2>3
    <3> QED BY <3>1, <3>2, <3>3, <3>4 DEF StopAhead
  <2> QED BY <2>1, <2>2, <2>3
<1> QED BY <1>2, <1>3, <1>4, <1>5 DEF t

\* Two tasks behind a queue.
LEMMA AppendTwo ==
  ASSUME NEW S, NEW s \in Seq(S), NEW a \in S, NEW b \in S
  PROVE  /\ s \o <<a, b>> \in Seq(S)
         /\ Len(s) \in Nat /\ Len(s \o <<a, b>>) = Len(s) + 2
         /\ \A i \in 1..Len(s) : (s \o <<a, b>>)[i] = s[i]
         /\ (s \o <<a, b>>)[Len(s) + 1] = a /\ (s \o <<a, b>>)[Len(s) + 2] = b
<1>1. <<a, b>> \in Seq(S) /\ Len(<<a, b>>) = 2
  OBVIOUS
<1>2. Len(s) \in Nat
  BY LenProperties
<1> QED BY <1>1, <1>2, ConcatProperties

\* The release of a call.
LEMMA ShapeRelease ==
  ASSUME NEW q \in Seq(MediaTasks), NoStop(q)
  PROVE  LET r == q \o <<Task("stop"), Task("delete")>>
         IN /\ r \in Seq(MediaTasks) /\ r # <<>> /\ StopAhead(r)
            /\ q # <<>> => r[1] = q[1]
<1> DEFINE r == q \o <<Task("stop"), Task("delete")>>
<1>1. /\ Task("stop") \in MediaTasks /\ Task("delete") \in MediaTasks
      /\ Task("stop").op = "stop" /\ Task("delete").op = "delete"
  BY TaskTypes DEF MediaOps
<1>2. /\ r \in Seq(MediaTasks) /\ Len(q) \in Nat /\ Len(r) = Len(q) + 2
      /\ \A i \in 1..Len(q) : r[i] = q[i]
      /\ r[Len(q) + 1].op = "stop" /\ r[Len(q) + 2].op = "delete"
  BY <1>1, AppendTwo
<1>3. q # <<>> => Len(q) > 0
  BY EmptySeq
<1> HIDE DEF r
<1>4. /\ Len(q) + 1 \in 1..Len(r) /\ Len(q) + 1 < Len(r)
      /\ \A i \in 1..Len(r) : i < Len(q) + 1 => r[i].op \notin {"stop", "delete"}
      /\ \A i \in 1..Len(r) : i > (Len(q) + 1) + 1 => r[i].op \in Gated
  BY <1>2 DEF NoStop
<1>5. StopAhead(r)
  <2>1. r[(Len(q) + 1) + 1].op = "delete"
    BY <1>2
  <2> QED BY <1>2, <1>4, <2>1 DEF StopAhead
<1>6. r # <<>>
  BY <1>2, EmptySeq
<1>7. q # <<>> => r[1] = q[1]
  BY <1>2, <1>3
<1> QED BY <1>2, <1>5, <1>6, <1>7 DEF r

------------------------------------------------------------------------------
(* Types. *)

LEMMA CommitTypes ==
  ASSUME NEW k \in Nat
  PROVE  /\ CommitTasks(k) \in Seq(NetTasks)
         /\ Len(CommitTasks(k)) = k
         /\ \A i \in 1..k : CommitTasks(k)[i].op = "add"
<1>1. Task("add") \in NetTasks /\ Task("add").op = "add"
  BY TaskTypes DEF NetOps
<1>2. CommitTasks(k) \in [1..k -> NetTasks]
  BY <1>1 DEF CommitTasks
<1>3. CommitTasks(k) \in Seq(NetTasks) /\ Len(CommitTasks(k)) = k
  BY <1>2
<1> QED BY <1>1, <1>3 DEF CommitTasks

LEMMA SetupTypes ==
  ASSUME NEW s
  PROVE  /\ SetupTasks(s) \in Seq(NetTasks) /\ Len(SetupTasks(s)) \in {0, 1}
         /\ \A i \in 1..Len(SetupTasks(s)) : SetupTasks(s)[i].op = "params"
<1>1. Task("params") \in NetTasks /\ Task("params").op = "params"
  BY TaskTypes DEF NetOps
<1> QED BY <1>1 DEF SetupTasks

LEMMA MediaStateTypes ==
  ASSUME NEW s \in Members
  PROVE  /\ MediaStateTasks(s) \in Seq(NetTasks)
         /\ \A i \in 1..Len(MediaStateTasks(s)) : MediaStateTasks(s)[i].op = "dcSend"
<1>1. FlagTask("dcSend", s.mute) \in NetTasks /\ FlagTask("dcSend", s.mute).op = "dcSend"
  BY FlagTaskTypes DEF NetOps, Members
<1> QED BY <1>1 DEF MediaStateTasks

\* The messages.
LEMMA MessageTypes ==
  /\ Message("Setup", "none") \in Messages /\ Message("Candidates", "none") \in Messages
  /\ \A p \in Peers : Message("Negotiate", p) \in Messages
  BY DEF Messages

LEMMA TypesInit == Init => V3Types
<1> SUFFICES ASSUME Init PROVE V3Types
  OBVIOUS
<1>1. Task("start") \in MediaTasks
  BY TaskTypes DEF MediaOps
<1>2. mediaQ \in [Peers -> Seq(MediaTasks)]
  BY <1>1 DEF Init
<1>3. netQ \in [Peers -> Seq(NetTasks)] /\ chan \in [Peers -> Seq(Messages)]
  BY EmptySeq DEF Init
<1>4. st \in [Peers -> Members] /\ net \in [Peers -> Networking]
  BY DEF Init, Members, Networking
<1> QED BY <1>2, <1>3, <1>4 DEF Init, V3Types

\* What the steps have in common.
LEMMA TypesPost ==
  ASSUME V3Types, NEW p \in Peers, NEW m \in Seq(NetTasks), PostNet(p, m)
  PROVE  netQ' \in [Peers -> Seq(NetTasks)] /\ netQ'[p] = netQ[p] \o m
         /\ \A x \in Peers : x # p => netQ'[x] = netQ[x]
<1>1. netQ[p] \o m \in Seq(NetTasks)
  BY ConcatProperties DEF V3Types
<1> QED BY <1>1 DEF V3Types, PostNet

LEMMA TypesSend ==
  ASSUME V3Types, NEW p \in Peers, NEW m \in Seq(Messages), Send(p, m)
  PROVE  chan' \in [Peers -> Seq(Messages)]
<1>1. chan[Other(p)] \o m \in Seq(Messages)
  BY OtherPeer, ConcatProperties DEF V3Types
<1> QED BY <1>1 DEF V3Types, Send

LEMMA TypesTakes ==
  ASSUME V3Types, NEW p \in Peers, NEW o, Takes(p, o)
  PROVE  /\ mediaQ' \in [Peers -> Seq(MediaTasks)]
         /\ mediaQ[p] # <<>> /\ mediaQ'[p] = Tail(mediaQ[p])
         /\ Head(mediaQ[p]) \in MediaTasks /\ mediaQ[p][1].op = o /\ pc[p] = "idle"
         /\ \A x \in Peers : x # p => mediaQ'[x] = mediaQ[x]
<1>1. mediaQ[p] \in Seq(MediaTasks) /\ mediaQ[p] # <<>>
  BY DEF V3Types, Takes
<1>2. Tail(mediaQ[p]) \in Seq(MediaTasks) /\ Head(mediaQ[p]) \in MediaTasks
      /\ Head(mediaQ[p]) = mediaQ[p][1]
  BY <1>1, Taken
<1> QED BY <1>1, <1>2 DEF V3Types, Takes

LEMMA TypesNetTakes ==
  ASSUME V3Types, NEW p \in Peers, NEW o, NetTakes(p, o)
  PROVE  /\ netQ' \in [Peers -> Seq(NetTasks)]
         /\ netQ[p] # <<>> /\ netQ'[p] = Tail(netQ[p])
         /\ Head(netQ[p]) \in NetTasks /\ netQ[p][1].op = o
         /\ \A x \in Peers : x # p => netQ'[x] = netQ[x]
<1>1. netQ[p] \in Seq(NetTasks) /\ netQ[p] # <<>>
  BY DEF V3Types, NetTakes
<1>2. Tail(netQ[p]) \in Seq(NetTasks) /\ Head(netQ[p]) \in NetTasks
      /\ Head(netQ[p]) = netQ[p][1]
  BY <1>1, Taken
<1> QED BY <1>1, <1>2 DEF V3Types, NetTakes

LEMMA TypesAppend ==
  ASSUME V3Types, NEW p \in Peers, NEW t \in MediaTasks,
         mediaQ' = [mediaQ EXCEPT ![p] = Append(@, t)]
  PROVE  /\ mediaQ' \in [Peers -> Seq(MediaTasks)]
         /\ mediaQ'[p] = Append(mediaQ[p], t)
         /\ \A x \in Peers : x # p => mediaQ'[x] = mediaQ[x]
<1>1. Append(mediaQ[p], t) \in Seq(MediaTasks)
  BY AppendProperties DEF V3Types
<1> QED BY <1>1 DEF V3Types

\* The members and the networking object, with some of their fields set.
LEMMA MembersSet ==
  ASSUME NEW s \in Members, NEW b \in BOOLEAN, NEW k \in Nat,
         NEW o \in {"none", "open", "muted"}
  PROVE  /\ [s EXCEPT !.ready = TRUE, !.need = TRUE] \in Members
         /\ [s EXCEPT !.conn = TRUE] \in Members
         /\ [s EXCEPT !.conn = TRUE, !.setupSent = TRUE, !.offered = b] \in Members
         /\ [s EXCEPT !.handshake = TRUE, !.pending = 0, !.setupSent = b] \in Members
         /\ [s EXCEPT !.pending = k] \in Members
         /\ [s EXCEPT !.dcOpen = b] \in Members
         /\ [s EXCEPT !.offered = b] \in Members
         /\ [s EXCEPT !.offered = b, !.need = b] \in Members
         /\ [s EXCEPT !.in = b, !.out = o] \in Members
         /\ [s EXCEPT !.mute = b, !.out = o] \in Members
         /\ [s EXCEPT !.alive = FALSE, !.conn = FALSE] \in Members
         /\ [s EXCEPT !.ready = FALSE, !.in = FALSE, !.out = "none"] \in Members
<1> USE DEF Members
<1>1. /\ [s EXCEPT !.ready = TRUE, !.need = TRUE] \in Members
      /\ [s EXCEPT !.conn = TRUE] \in Members
  OBVIOUS
<1>2. [s EXCEPT !.conn = TRUE, !.setupSent = TRUE, !.offered = b] \in Members
  OBVIOUS
<1>3. [s EXCEPT !.handshake = TRUE, !.pending = 0, !.setupSent = b] \in Members
  OBVIOUS
<1>4. [s EXCEPT !.pending = k] \in Members
  OBVIOUS
<1>5. [s EXCEPT !.dcOpen = b] \in Members /\ [s EXCEPT !.offered = b] \in Members
  OBVIOUS
<1>6. [s EXCEPT !.offered = b, !.need = b] \in Members
  OBVIOUS
<1>7. [s EXCEPT !.in = b, !.out = o] \in Members
  OBVIOUS
<1>8. [s EXCEPT !.mute = b, !.out = o] \in Members
  OBVIOUS
<1>9. [s EXCEPT !.alive = FALSE, !.conn = FALSE] \in Members
  OBVIOUS
<1>10. [s EXCEPT !.ready = FALSE, !.in = FALSE, !.out = "none"] \in Members
  OBVIOUS
<1> QED BY <1>1, <1>2, <1>3, <1>4, <1>5, <1>6, <1>7, <1>8, <1>9, <1>10

LEMMA NetworkingSet ==
  ASSUME NEW w \in Networking, NEW x \in {"none", "made", "started", "stopped", "gone"}
  PROVE  /\ [w EXCEPT !.state = x] \in Networking /\ [w EXCEPT !.state = x].state = x
         /\ [w EXCEPT !.state = x].remote = w.remote /\ [w EXCEPT !.state = x].added = w.added
         /\ [w EXCEPT !.remote = TRUE] \in Networking /\ [w EXCEPT !.remote = TRUE].remote
         /\ [w EXCEPT !.remote = TRUE].state = w.state
         /\ [w EXCEPT !.added = @ + 1] \in Networking
         /\ [w EXCEPT !.added = @ + 1].state = w.state
         /\ [w EXCEPT !.added = @ + 1].remote = w.remote
<1>1. ASSUME NEW k \in Nat
      PROVE  /\ [w EXCEPT !.added = k] \in Networking
             /\ [w EXCEPT !.added = k].state = w.state
             /\ [w EXCEPT !.added = k].remote = w.remote
  BY DEF Networking
<1>2. w.added + 1 \in Nat
  BY DEF Networking
<1>3. /\ [w EXCEPT !.state = x] \in Networking /\ [w EXCEPT !.state = x].state = x
      /\ [w EXCEPT !.state = x].remote = w.remote /\ [w EXCEPT !.state = x].added = w.added
  BY DEF Networking
<1>4. /\ [w EXCEPT !.remote = TRUE] \in Networking /\ [w EXCEPT !.remote = TRUE].remote
      /\ [w EXCEPT !.remote = TRUE].state = w.state
  BY DEF Networking
<1> QED BY <1>1, <1>2, <1>3, <1>4

LEMMA TypesSt ==
  ASSUME V3Types, NEW p \in Peers, NEW s \in Members, st' = [st EXCEPT ![p] = s]
  PROVE  st' \in [Peers -> Members] /\ st'[p] = s /\ \A x \in Peers : x # p => st'[x] = st[x]
  BY DEF V3Types

LEMMA TypesNet ==
  ASSUME V3Types, NEW p \in Peers, NEW w \in Networking, net' = [net EXCEPT ![p] = w]
  PROVE  net' \in [Peers -> Networking] /\ net'[p] = w
         /\ \A x \in Peers : x # p => net'[x] = net[x]
  BY DEF V3Types

\* What a peer is after an offer or an answer; o: it offers in turn.
NegotiationOf(p, exchange, o, madeIn, madeOut) ==
  NegotiatedChannels([Negotiated(p, exchange).s EXCEPT !.offered = @ \/ o],
                     Negotiated(p, exchange).heard, madeIn, madeOut)

\* An offer or an answer changes none of the members the invariant relates.
LEMMA NegotiateTypes ==
  ASSUME NEW p \in Peers, NEW exchange, NEW o \in BOOLEAN, st[p] \in Members,
         NEW madeIn \in BOOLEAN, NEW madeOut \in BOOLEAN
  PROVE  LET s == NegotiationOf(p, exchange, o, madeIn, madeOut)
         IN /\ s \in Members
            /\ s.alive = st[p].alive /\ s.handshake = st[p].handshake
            /\ s.pending = st[p].pending
<1> DEFINE Same(a, b) == a.alive = b.alive /\ a.handshake = b.handshake /\ a.pending = b.pending
           m == Negotiated(p, exchange).s
           heard == Negotiated(p, exchange).heard
           x == [m EXCEPT !.offered = @ \/ o]
           s == NegotiatedChannels(x, heard, madeIn, madeOut)
<1>1. m \in Members /\ Same(m, st[p])
  <2>1. /\ [st[p] EXCEPT !.offered = FALSE, !.need = FALSE] \in Members
        /\ [st[p] EXCEPT !.offered = FALSE] \in Members
    BY MembersSet
  <2>2. /\ Same([st[p] EXCEPT !.offered = FALSE, !.need = FALSE], st[p])
        /\ Same([st[p] EXCEPT !.offered = FALSE], st[p])
    BY DEF Members
  <2>3. \/ m = [st[p] EXCEPT !.offered = FALSE, !.need = FALSE]
        \/ m = st[p]
        \/ m = [st[p] EXCEPT !.offered = FALSE]
    BY DEF Negotiated
  <2> HIDE DEF m
  <2> QED BY <2>1, <2>2, <2>3
<1> HIDE DEF m, heard
<1>2. x \in Members /\ Same(x, m)
  <2>1. (m.offered \/ o) \in BOOLEAN
    OBVIOUS
  <2>2. \A b \in BOOLEAN : [m EXCEPT !.offered = b] \in Members /\ Same([m EXCEPT !.offered = b], m)
    <3>1. SUFFICES ASSUME NEW b \in BOOLEAN
                   PROVE  [m EXCEPT !.offered = b] \in Members
                          /\ Same([m EXCEPT !.offered = b], m)
      OBVIOUS
    <3>2. [m EXCEPT !.offered = b] \in Members
      BY <1>1, MembersSet
    <3> QED BY <1>1, <3>2 DEF Members
  <2> QED BY <2>1, <2>2
<1> HIDE DEF x
<1>3. s \in Members /\ Same(s, x)
  <2> DEFINE b == x.in \/ (heard /\ IncomingAudioChannel(madeIn))
             u == IF ~x.need /\ x.out = "none"
                  THEN OutgoingAudioChannel(x.mute, madeOut) ELSE x.out
  <2>1. b \in BOOLEAN
    OBVIOUS
  <2>2. u \in {"none", "open", "muted"}
    BY <1>2 DEF OutgoingAudioChannel, Members
  <2>3. s = [x EXCEPT !.in = b, !.out = u]
    BY DEF NegotiatedChannels
  <2> HIDE DEF b, u, s
  <2>4. s \in Members
    BY <1>2, <2>1, <2>2, <2>3, MembersSet
  <2> QED BY <1>2, <2>3, <2>4 DEF Members
<1> HIDE DEF s
<1>4. s \in Members /\ Same(s, st[p])
  BY <1>1, <1>2, <1>3
<1> QED BY <1>4 DEF s, x, m, heard, NegotiationOf

------------------------------------------------------------------------------
(* How the invariant of a peer moves. *)

\* The shapes of the media queue when its next task is taken by an idle thread.
LEMMA LifeShapes ==
  ASSUME NEW q \in Seq(MediaTasks), q # <<>>, NEW s, NEW r \in BOOLEAN,
         NEW d \in BOOLEAN, NEW f \in BOOLEAN, LifeOf(q, "idle", s, r, d, f)
  PROVE  \/ /\ ~r /\ NoStop(Tail(q)) /\ s.alive /\ ~d /\ ~f
            /\ q[1].op \notin {"stop", "delete"}
         \/ /\ r /\ s.alive /\ ~d /\ ~f /\ q[1].op # "delete"
            /\ IF q[1].op = "stop" THEN DeleteFirst(Tail(q)) ELSE StopAhead(Tail(q))
         \/ r /\ OnlyGated(Tail(q)) /\ ~s.alive /\ d /\ ~f /\ q[1].op = "delete"
         \/ r /\ OnlyGated(Tail(q)) /\ ~s.alive /\ d /\ f /\ q[1].op \in Gated
<1> DEFINE t == Tail(q)
<1>1. /\ NoStop(q) => NoStop(t) /\ q[1].op \notin {"stop", "delete"}
      /\ StopAhead(q) /\ q[1].op = "stop" => DeleteFirst(t)
      /\ StopAhead(q) /\ q[1].op # "stop" => StopAhead(t) /\ q[1].op # "delete"
      /\ DeleteFirst(q) => OnlyGated(t) /\ q[1].op = "delete"
      /\ OnlyGated(q) => OnlyGated(t) /\ q[1].op \in Gated
  BY ShapeTail
<1> HIDE DEF t
<1> QED BY <1>1 DEF LifeOf, Working, t

\* A task of a working instance; a gated one that is let through its gate, or not; the stop;
\* and the delete.
LEMMA LifeProceeds ==
  ASSUME NEW q \in Seq(MediaTasks), q # <<>>, NEW s, NEW s2, NEW r \in BOOLEAN,
         NEW d \in BOOLEAN, NEW f \in BOOLEAN, NEW c2 \in {"idle", "signaling"},
         LifeOf(q, "idle", s, r, d, f), q[1].op \notin {"stop", "delete"},
         s.alive, s2.alive
  PROVE  LifeOf(Tail(q), c2, s2, r, d, f) /\ ~d /\ ~f
  BY LifeShapes DEF LifeOf, Working

LEMMA LifeIsWorking ==
  ASSUME NEW q \in Seq(MediaTasks), q # <<>>, NEW s, NEW r \in BOOLEAN,
         NEW d \in BOOLEAN, NEW f \in BOOLEAN,
         LifeOf(q, "idle", s, r, d, f), q[1].op \notin Gated \cup {"delete"}
  PROVE  s.alive /\ ~d /\ ~f
  BY LifeShapes

LEMMA LifeIsGated ==
  ASSUME NEW q \in Seq(MediaTasks), q # <<>>, NEW s, NEW r \in BOOLEAN,
         NEW d \in BOOLEAN, NEW f \in BOOLEAN,
         LifeOf(q, "idle", s, r, d, f), q[1].op \in Gated, ~s.alive
  PROVE  LifeOf(Tail(q), "idle", s, r, d, f)
<1>1. q[1].op # "delete"
  BY DEF Gated
<1> QED BY <1>1, LifeShapes DEF LifeOf, Working

LEMMA LifeStops ==
  ASSUME NEW q \in Seq(MediaTasks), q # <<>>, NEW s, NEW s2, NEW r \in BOOLEAN,
         NEW d \in BOOLEAN, NEW f \in BOOLEAN,
         LifeOf(q, "idle", s, r, d, f), q[1].op = "stop", ~s2.alive
  PROVE  LifeOf(Tail(q), "fence", s2, r, d, f) /\ ~d
<1>1. q[1].op \notin Gated
  BY DEF Gated
<1> QED BY <1>1, LifeShapes DEF LifeOf

LEMMA LifeDeletes ==
  ASSUME NEW q \in Seq(MediaTasks), q # <<>>, NEW s, NEW s2, NEW r \in BOOLEAN,
         NEW d \in BOOLEAN, NEW f \in BOOLEAN,
         LifeOf(q, "idle", s, r, d, f), q[1].op = "delete", ~s2.alive
  PROVE  LifeOf(Tail(q), "teardown", s2, r, d, f) /\ d
<1>1. q[1].op \notin Gated
  BY DEF Gated
<1>2. r /\ OnlyGated(Tail(q)) /\ d /\ ~f
  BY <1>1, LifeShapes
<1> QED BY <1>2 DEF LifeOf

\* Somebody posts a gated task, or a mute while nothing is released.
LEMMA LifeAppend ==
  ASSUME NEW q \in Seq(MediaTasks), NEW t \in MediaTasks, NEW c, NEW s, NEW r \in BOOLEAN,
         NEW d, NEW f, LifeOf(q, c, s, r, d, f), t.op \in Gated \/ (~r /\ t.op = "mute")
  PROVE  LifeOf(Append(q, t), c, s, r, d, f)
<1> DEFINE a == Append(q, t)
<1>1. /\ t.op \notin {"stop", "delete"} /\ NoStop(q) => NoStop(a)
      /\ t.op \in Gated /\ StopAhead(q) => StopAhead(a)
      /\ t.op \in Gated /\ DeleteFirst(q) => DeleteFirst(a)
      /\ t.op \in Gated /\ OnlyGated(q) => OnlyGated(a)
  BY ShapeAppend
<1>2. t.op \notin {"stop", "delete"}
  BY DEF Gated
<1> HIDE DEF a
<1> QED BY <1>1, <1>2 DEF LifeOf, a

\* The network thread takes a task that is not the fence.
LEMMA NetworkTakes ==
  ASSUME NEW q, NEW q2, NEW n \in Seq(NetTasks), n # <<>>, n[1].op # "fence",
         NEW c \in {"idle", "signaling", "fence", "teardown"}, NEW w, NEW w2,
         NEW d \in BOOLEAN, NetworkOf(q, n, c, w, d), w2.state \notin {"none", "gone"}
  PROVE  NetworkOf(q2, Tail(n), c, w2, d)
<1> DEFINE t == Tail(n)
<1>1. /\ t \in Seq(NetTasks) /\ Len(n) \in Nat /\ Len(n) > 0 /\ Len(t) = Len(n) - 1
      /\ \A i \in 1..(Len(n) - 1) : t[i] = n[i + 1]
      /\ Len(n) = 1 <=> t = <<>>
  BY Taken
<1> HIDE DEF t
<1>2. ~d /\ c # "teardown" /\ w.state \notin {"none", "gone"}
  BY DEF NetworkOf
<1>3. CASE c \in {"idle", "signaling"}
  <2>1. \A i \in 1..Len(n) : n[i].op # "fence"
    BY <1>3 DEF NetworkOf
  <2>2. \A i \in 1..Len(t) : t[i].op # "fence"
    BY <1>1, <2>1
  <2> QED BY <1>2, <1>3, <2>2 DEF NetworkOf, t
<1>4. CASE c = "fence"
  <2>1. /\ n[Len(n)].op = "fence" /\ \A i \in 1..Len(n) : i < Len(n) => n[i].op # "fence"
    BY <1>4 DEF NetworkOf
  <2>2. Len(n) > 1
    BY <1>1, <2>1
  <2>3. /\ t # <<>> /\ t[Len(t)].op = "fence"
        /\ \A i \in 1..Len(t) : i < Len(t) => t[i].op # "fence"
    BY <1>1, <2>1, <2>2
  <2> QED BY <1>2, <1>4, <2>3 DEF NetworkOf, t
<1> QED BY <1>2, <1>3, <1>4

\* The working media thread posts tasks without a fence to the network thread.
LEMMA NetworkPosts ==
  ASSUME NEW q, NEW q2, NEW n \in Seq(NetTasks), NEW m \in Seq(NetTasks),
         NEW c \in {"idle", "signaling"}, NEW c2 \in {"idle", "signaling"}, NEW w, NEW w2,
         NetworkOf(q, n, c, w, FALSE), w2.state \notin {"none", "gone"},
         \A i \in 1..Len(m) : m[i].op # "fence"
  PROVE  NetworkOf(q2, n \o m, c2, w2, FALSE)
<1> DEFINE a == n \o m
<1>1. /\ Len(n) \in Nat /\ Len(m) \in Nat /\ Len(a) = Len(n) + Len(m)
      /\ \A i \in 1..(Len(n) + Len(m)) : a[i] = IF i <= Len(n) THEN n[i] ELSE m[i - Len(n)]
  BY ConcatProperties, LenProperties
<1> HIDE DEF a
<1>2. \A i \in 1..Len(n) : n[i].op # "fence"
  BY DEF NetworkOf
<1>3. \A i \in 1..Len(a) : a[i].op # "fence"
  <2>1. SUFFICES ASSUME NEW i \in 1..Len(a) PROVE a[i].op # "fence"
    OBVIOUS
  <2>2. CASE i <= Len(n)
    BY <1>1, <1>2, <2>2
  <2>3. CASE i > Len(n)
    <3>1. i - Len(n) \in 1..Len(m) /\ a[i] = m[i - Len(n)]
      BY <1>1, <2>3
    <3> QED BY <3>1
  <2> QED BY <1>1, <2>2, <2>3
<1> QED BY <1>3 DEF NetworkOf, a

\* The network thread applies a task.
LEMMA CandidatesTakes ==
  ASSUME NEW n \in Seq(NetTasks), n # <<>>, NEW s, NEW w \in Networking, NEW w2 \in Networking,
         CandidatesOf(n, s, w),
         w2.remote = (w.remote \/ n[1].op = "setRemote"),
         w2.added > 0 => w.added > 0 \/ n[1].op = "add"
  PROVE  CandidatesOf(Tail(n), s, w2)
<1> DEFINE t == Tail(n)
<1>1. /\ t \in Seq(NetTasks) /\ Len(n) \in Nat /\ Len(n) > 0 /\ Len(t) = Len(n) - 1
      /\ \A i \in 1..(Len(n) - 1) : t[i] = n[i + 1]
  BY Taken
<1> HIDE DEF t
<1>2. n[1].op = "add" => w.remote
  BY <1>1 DEF CandidatesOf
<1>3. w2.added > 0 => w2.remote
  BY <1>2 DEF CandidatesOf
<1>4. \A k \in 1..Len(n) : (\E j \in 1..(k - 1) : n[j].op = "setRemote") =>
        w2.remote \/ \E j \in 1..(k - 2) : t[j].op = "setRemote"
  <2>1. SUFFICES ASSUME NEW k \in 1..Len(n), NEW j \in 1..(k - 1), n[j].op = "setRemote"
                 PROVE  w2.remote \/ \E x \in 1..(k - 2) : t[x].op = "setRemote"
    OBVIOUS
  <2>2. CASE j = 1
    BY <2>1, <2>2
  <2>3. CASE j > 1
    <3>1. j - 1 \in 1..(k - 2) /\ t[j - 1] = n[j]
      BY <1>1, <2>3
    <3> QED BY <2>1, <3>1
  <2> QED BY <2>2, <2>3
<1>5. \A i \in 1..Len(t) : t[i].op = "add" =>
        w2.remote \/ \E j \in 1..(i - 1) : t[j].op = "setRemote"
  <2>1. SUFFICES ASSUME NEW i \in 1..Len(t), t[i].op = "add"
                 PROVE  w2.remote \/ \E j \in 1..(i - 1) : t[j].op = "setRemote"
    OBVIOUS
  <2>2. i + 1 \in 1..Len(n) /\ n[i + 1].op = "add" /\ (i + 1) - 2 = i - 1
    BY <1>1, <2>1
  <2>3. w.remote \/ \E j \in 1..((i + 1) - 1) : n[j].op = "setRemote"
    BY <2>2 DEF CandidatesOf
  <2> QED BY <1>4, <2>2, <2>3
<1>6. s.handshake => s.pending = 0 /\ (w2.remote \/ \E j \in 1..Len(t) : t[j].op = "setRemote")
  <2>1. SUFFICES ASSUME s.handshake
                 PROVE  s.pending = 0 /\ (w2.remote \/ \E j \in 1..Len(t) : t[j].op = "setRemote")
    OBVIOUS
  <2>2. s.pending = 0 /\ (w.remote \/ \E j \in 1..Len(n) : n[j].op = "setRemote")
    BY <2>1 DEF CandidatesOf
  <2>3. ASSUME NEW j \in 1..Len(n), n[j].op = "setRemote"
        PROVE  w2.remote \/ \E x \in 1..Len(t) : t[x].op = "setRemote"
    <3>1. CASE j = 1
      BY <2>3, <3>1
    <3>2. CASE j > 1
      <4>1. j - 1 \in 1..Len(t) /\ t[j - 1] = n[j]
        BY <1>1, <3>2
      <4> QED BY <2>3, <4>1
    <3> QED BY <3>1, <3>2
  <2> QED BY <2>2, <2>3
<1> QED BY <1>3, <1>5, <1>6 DEF CandidatesOf, t

\* The media thread posts tasks to the network thread: candidates only behind the parameters.
LEMMA CandidatesPosts ==
  ASSUME NEW n \in Seq(NetTasks), NEW m \in Seq(NetTasks), NEW s, NEW s2,
         NEW w \in Networking, CandidatesOf(n, s, w),
         \A i \in 1..Len(m) : m[i].op = "add" =>
           s.handshake \/ \E j \in 1..(i - 1) : m[j].op = "setRemote",
         s2.handshake => /\ s2.pending = 0
                         /\ s.handshake \/ \E j \in 1..Len(m) : m[j].op = "setRemote"
  PROVE  CandidatesOf(n \o m, s2, w)
<1> DEFINE a == n \o m
           There == w.remote \/ \E j \in 1..Len(n) : n[j].op = "setRemote"
<1>1. /\ Len(n) \in Nat /\ Len(m) \in Nat /\ Len(a) = Len(n) + Len(m)
      /\ \A i \in 1..Len(n) : a[i] = n[i]
      /\ \A i \in 1..Len(m) : a[Len(n) + i] = m[i]
  <2>1. /\ Len(n) \in Nat /\ Len(m) \in Nat /\ Len(a) = Len(n) + Len(m)
        /\ \A i \in 1..(Len(n) + Len(m)) : a[i] = IF i <= Len(n) THEN n[i] ELSE m[i - Len(n)]
    BY ConcatProperties, LenProperties
  <2> HIDE DEF a
  <2> QED BY SMTT(30), <2>1
<1> HIDE DEF a
<1>2. s.handshake => There
  BY DEF CandidatesOf
<1>3. There => w.remote \/ \E j \in 1..Len(n) : a[j].op = "setRemote"
  BY <1>1
<1> HIDE DEF There
<1>4. \A i \in 1..Len(a) : a[i].op = "add" =>
        w.remote \/ \E j \in 1..(i - 1) : a[j].op = "setRemote"
  <2>1. SUFFICES ASSUME NEW i \in 1..Len(a), a[i].op = "add"
                 PROVE  w.remote \/ \E j \in 1..(i - 1) : a[j].op = "setRemote"
    OBVIOUS
  <2>2. CASE i <= Len(n)
    <3>1. i \in 1..Len(n) /\ n[i].op = "add"
      BY <1>1, <2>1, <2>2
    <3>2. w.remote \/ \E j \in 1..(i - 1) : n[j].op = "setRemote"
      BY <3>1 DEF CandidatesOf
    <3> QED BY <1>1, <3>1, <3>2
  <2>3. CASE i > Len(n)
    <3> DEFINE k == i - Len(n)
    <3>1. k \in 1..Len(m) /\ i = Len(n) + k
      BY <1>1, <2>3
    <3> HIDE DEF k
    <3>2. m[k].op = "add"
      BY <1>1, <2>1, <3>1
    <3>3. CASE s.handshake
      <4>1. w.remote \/ \E j \in 1..Len(n) : a[j].op = "setRemote"
        BY <1>2, <1>3, <3>3
      <4>2. \A j \in 1..Len(n) : j \in 1..(i - 1)
        BY <1>1, <3>1
      <4> QED BY <4>1, <4>2
    <3>4. ASSUME NEW j \in 1..(k - 1), m[j].op = "setRemote"
          PROVE  \E x \in 1..(i - 1) : a[x].op = "setRemote"
      <4>1. Len(n) + j \in 1..(i - 1) /\ j \in 1..Len(m)
        BY <1>1, <3>1
      <4> QED BY <1>1, <3>4, <4>1
    <3> QED BY <3>1, <3>2, <3>3, <3>4
  <2> QED BY <1>1, <2>2, <2>3
<1>5. s2.handshake => w.remote \/ \E j \in 1..Len(a) : a[j].op = "setRemote"
  <2>1. SUFFICES ASSUME s2.handshake
                 PROVE  w.remote \/ \E j \in 1..Len(a) : a[j].op = "setRemote"
    OBVIOUS
  <2>2. CASE s.handshake
    <3>1. \A j \in 1..Len(n) : j \in 1..Len(a)
      BY <1>1
    <3> QED BY <1>2, <1>3, <2>2, <3>1
  <2>3. ASSUME NEW j \in 1..Len(m), m[j].op = "setRemote"
        PROVE  \E x \in 1..Len(a) : a[x].op = "setRemote"
    <3>1. Len(n) + j \in 1..Len(a)
      BY <1>1
    <3> QED BY <1>1, <2>3, <3>1
  <2> QED BY <2>1, <2>2, <2>3
<1> QED BY <1>4, <1>5 DEF CandidatesOf, a

------------------------------------------------------------------------------
(* Steps. *)

\* What a peer may see of the steps of others: a task behind its media queue.
Elsewhere(x) ==
  /\ netQ'[x] = netQ[x] /\ pc'[x] = pc[x] /\ st'[x] = st[x] /\ net'[x] = net[x]
  /\ released'[x] = released[x] /\ stopped'[x] = stopped[x] /\ freed'[x] = freed[x]
  /\ \/ mediaQ'[x] = mediaQ[x]
     \/ \E t \in MediaTasks : /\ t.op \in Gated \/ (~released[x] /\ t.op = "mute")
                              /\ mediaQ'[x] = Append(mediaQ[x], t)

LEMMA ElsewhereInv ==
  ASSUME V3Inv, NEW x \in Peers, Elsewhere(x)
  PROVE  PeerInv(x)'
<1>1. PeerInv(x) /\ mediaQ[x] \in Seq(MediaTasks) /\ released[x] \in BOOLEAN
  BY DEF V3Inv, V3Types
<1>2. CASE mediaQ'[x] = mediaQ[x]
  BY <1>1, <1>2 DEF Elsewhere, PeerInv, Life, Network, Candidates
<1>3. CASE mediaQ'[x] # mediaQ[x]
  <2>1. PICK t \in MediaTasks : /\ t.op \in Gated \/ (~released[x] /\ t.op = "mute")
                                /\ mediaQ'[x] = Append(mediaQ[x], t)
    BY <1>3 DEF Elsewhere
  <2>2. LifeOf(Append(mediaQ[x], t), pc[x], st[x], released[x], stopped[x], freed[x])
    BY <1>1, <2>1, LifeAppend DEF PeerInv, Life
  <2>3. /\ Append(mediaQ[x], t) # <<>>
        /\ mediaQ[x] # <<>> => Append(mediaQ[x], t)[1] = mediaQ[x][1]
    BY <1>1, ShapeAppend
  <2>4. NetworkOf(Append(mediaQ[x], t), netQ[x], pc[x], net[x], stopped[x])
    BY <1>1, <2>3 DEF PeerInv, Network, NetworkOf
  <2> QED BY <1>1, <2>1, <2>2, <2>4 DEF Elsewhere, PeerInv, Life, Network, Candidates
<1> QED BY <1>2, <1>3

\* A step of peer p, as the other peer and the invariant see it.
StepOf(p) == V3Types' /\ PeerInv(p)' /\ \A x \in Peers : x # p => Elsewhere(x)

LEMMA StepOfInv ==
  ASSUME V3Inv, NEW p \in Peers, StepOf(p)
  PROVE  V3Inv'
<1>1. ASSUME NEW x \in Peers PROVE PeerInv(x)'
  BY ElsewhereInv DEF StepOf
<1> QED BY <1>1 DEF StepOf, V3Inv

LEMMA PostNothing ==
  ASSUME V3Types, NEW p \in Peers, UNCHANGED netQ
  PROVE  PostNet(p, <<>>)
<1>1. netQ[p] \o <<>> = netQ[p]
  BY ConcatEmptySeq DEF V3Types
<1> QED BY <1>1 DEF PostNet, V3Types

\* The working media thread processes a task, with tasks for the network thread.
LEMMA Processed ==
  ASSUME V3Inv, NEW p \in Peers, NEW o \in Gated \cup {"mute"}, Takes(p, o), st[p].alive,
         NEW s \in Members, st' = [st EXCEPT ![p] = s], s.alive,
         NEW m \in Seq(NetTasks), PostNet(p, m), \A i \in 1..Len(m) : m[i].op # "fence",
         \A i \in 1..Len(m) : m[i].op = "add" =>
           st[p].handshake \/ \E j \in 1..(i - 1) : m[j].op = "setRemote",
         s.handshake =>
           s.pending = 0 /\ (st[p].handshake \/ \E j \in 1..Len(m) : m[j].op = "setRemote"),
         chan' \in [Peers -> Seq(Messages)],
         UNCHANGED <<pc, net, released, stopped, freed>>
  PROVE  StepOf(p)
<1>1. V3Types /\ PeerInv(p)
  BY DEF V3Inv
<1>2. /\ mediaQ' \in [Peers -> Seq(MediaTasks)]
      /\ mediaQ[p] # <<>> /\ mediaQ'[p] = Tail(mediaQ[p])
      /\ mediaQ[p][1].op = o /\ pc[p] = "idle"
      /\ \A x \in Peers : x # p => mediaQ'[x] = mediaQ[x]
  BY <1>1, TypesTakes
<1>3. /\ netQ' \in [Peers -> Seq(NetTasks)] /\ netQ'[p] = netQ[p] \o m
      /\ \A x \in Peers : x # p => netQ'[x] = netQ[x]
  BY <1>1, TypesPost
<1>4. /\ st' \in [Peers -> Members] /\ st'[p] = s /\ \A x \in Peers : x # p => st'[x] = st[x]
  BY <1>1, TypesSt
<1>5. V3Types'
  BY <1>1, <1>2, <1>3, <1>4 DEF V3Types
<1>6. /\ mediaQ[p] \in Seq(MediaTasks) /\ netQ[p] \in Seq(NetTasks) /\ net[p] \in Networking
      /\ released[p] \in BOOLEAN /\ stopped[p] \in BOOLEAN /\ freed[p] \in BOOLEAN
  BY <1>1 DEF V3Types
<1>7. o \notin {"stop", "delete", "start"}
  BY DEF Gated
<1>8. Life(p)' /\ ~stopped[p]
  <2>1. LifeOf(mediaQ[p], "idle", st[p], released[p], stopped[p], freed[p])
    BY <1>1, <1>2 DEF PeerInv, Life
  <2>2. LifeOf(Tail(mediaQ[p]), "idle", s, released[p], stopped[p], freed[p]) /\ ~stopped[p]
    <3>1. /\ mediaQ[p] # <<>> /\ mediaQ[p][1].op \notin {"stop", "delete"}
          /\ mediaQ[p] \in Seq(MediaTasks)
          /\ released[p] \in BOOLEAN /\ stopped[p] \in BOOLEAN /\ freed[p] \in BOOLEAN
      BY <1>2, <1>6, <1>7
    <3>2. "idle" \in {"idle", "signaling"}
      OBVIOUS
    <3> QED BY SMTT(30), <2>1, <3>1, <3>2, LifeProceeds
  <2> QED BY <1>2, <1>4, <2>2 DEF Life
<1>9. net[p].state \notin {"none", "gone"}
  BY <1>1, <1>2, <1>7, <1>8 DEF PeerInv, Network, NetworkOf
<1>10. Network(p)'
  <2>1. NetworkOf(mediaQ[p], netQ[p], "idle", net[p], FALSE)
    BY <1>1, <1>2, <1>6, <1>8 DEF PeerInv, Network
  <2>2. NetworkOf(mediaQ'[p], netQ[p] \o m, "idle", net[p], FALSE)
    BY <1>6, <1>9, <2>1, NetworkPosts
  <2> QED BY <1>2, <1>3, <1>6, <1>8, <2>2 DEF Network
<1>11. Candidates(p)'
  <2>1. CandidatesOf(netQ[p], st[p], net[p])
    BY <1>1 DEF PeerInv, Candidates
  <2>2. CandidatesOf(netQ[p] \o m, s, net[p])
    BY <1>6, <2>1, CandidatesPosts
  <2> QED BY <1>3, <1>4, <2>2 DEF Candidates
<1>12. ASSUME NEW x \in Peers, x # p PROVE Elsewhere(x)
  BY <1>2, <1>3, <1>4, <1>12 DEF Elsewhere
<1> QED BY <1>5, <1>8, <1>10, <1>11, <1>12 DEF StepOf, PeerInv

\* The same, with nothing for the network thread.
LEMMA ProcessedAlone ==
  ASSUME V3Inv, NEW p \in Peers, NEW o \in Gated \cup {"mute"}, Takes(p, o), st[p].alive,
         NEW s \in Members, st' = [st EXCEPT ![p] = s], s.alive, UNCHANGED netQ,
         s.handshake = st[p].handshake, s.handshake => s.pending = st[p].pending,
         chan' \in [Peers -> Seq(Messages)],
         UNCHANGED <<pc, net, released, stopped, freed>>
  PROVE  StepOf(p)
<1>1. V3Types /\ CandidatesOf(netQ[p], st[p], net[p])
  BY DEF V3Inv, PeerInv, Candidates
<1>2. PostNet(p, <<>>)
  BY <1>1, PostNothing
<1>3. s.handshake => st[p].handshake /\ s.pending = 0
  BY <1>1 DEF CandidatesOf
<1> DEFINE m == <<>>
<1>4. /\ m \in Seq(NetTasks) /\ \A i \in 1..Len(m) : m[i].op # "fence"
      /\ \A i \in 1..Len(m) : m[i].op # "add"
  BY EmptySeq
<1>5. PostNet(p, m)
  BY <1>2
<1> HIDE DEF m
<1> QED BY <1>3, <1>4, <1>5, Processed

\* The gate: a gated task of an instance that is shut down does nothing.
LEMMA GateClosedStep ==
  ASSUME V3Inv, NEW p \in Peers, GateClosed(p)
  PROVE  StepOf(p)
<1>1. V3Types /\ PeerInv(p)
  BY DEF V3Inv
<1>2. PICK o \in Gated : Takes(p, o)
  BY DEF GateClosed
<1>3. /\ mediaQ' \in [Peers -> Seq(MediaTasks)]
      /\ mediaQ[p] # <<>> /\ mediaQ'[p] = Tail(mediaQ[p])
      /\ mediaQ[p][1].op = o /\ pc[p] = "idle"
      /\ \A x \in Peers : x # p => mediaQ'[x] = mediaQ[x]
  BY <1>1, <1>2, TypesTakes
<1>4. /\ mediaQ[p] \in Seq(MediaTasks)
      /\ released[p] \in BOOLEAN /\ stopped[p] \in BOOLEAN /\ freed[p] \in BOOLEAN
  BY <1>1 DEF V3Types
<1>5. Life(p)'
  <2>1. LifeOf(mediaQ[p], "idle", st[p], released[p], stopped[p], freed[p]) /\ ~st[p].alive
    BY <1>1, <1>3 DEF PeerInv, Life, GateClosed
  <2>2. LifeOf(Tail(mediaQ[p]), "idle", st[p], released[p], stopped[p], freed[p])
    BY <1>2, <1>3, <1>4, <2>1, LifeIsGated
  <2> QED BY <1>3, <2>2 DEF Life, GateClosed
<1>6. net[p].state # "none"
  BY <1>1, <1>2, <1>3 DEF PeerInv, Network, NetworkOf, Gated
<1>7. Network(p)' /\ Candidates(p)'
  BY <1>1, <1>6 DEF GateClosed, PeerInv, Network, NetworkOf, Candidates
<1>8. V3Types'
  BY <1>1, <1>3 DEF V3Types, GateClosed
<1>9. ASSUME NEW x \in Peers, x # p PROVE Elsewhere(x)
  BY <1>3, <1>9 DEF Elsewhere, GateClosed
<1> QED BY <1>5, <1>7, <1>8, <1>9 DEF StepOf, PeerInv

\* The tasks of the working media thread.
LEMMA SendSetupStep ==
  ASSUME V3Inv, NEW p \in Peers, SendSetup(p)
  PROVE  StepOf(p)
<1>1. V3Types /\ st[p] \in Members
  BY DEF V3Inv, V3Types
<1>2. st' = [st EXCEPT ![p] = st[p]]
  BY <1>1 DEF SendSetup, V3Types
<1>3. chan' \in [Peers -> Seq(Messages)]
  <2>1. <<Message("Setup", "none")>> \in Seq(Messages)
    BY MessageTypes
  <2> QED BY <1>1, <2>1, TypesSend DEF SendSetup
<1>4. "params" \in Gated \cup {"mute"}
  BY DEF Gated
<1> QED BY <1>1, <1>2, <1>3, <1>4, ProcessedAlone DEF SendSetup

LEMMA DataChannelMessageStep ==
  ASSUME V3Inv, NEW p \in Peers, DataChannelMessage(p)
  PROVE  StepOf(p)
<1>1. V3Types /\ st[p] \in Members
  BY DEF V3Inv, V3Types
<1>2. st' = [st EXCEPT ![p] = st[p]]
  BY <1>1 DEF DataChannelMessage, V3Types
<1>3. chan' \in [Peers -> Seq(Messages)]
  BY <1>1 DEF DataChannelMessage, V3Types
<1>4. "dcMessage" \in Gated \cup {"mute"}
  BY DEF Gated
<1> QED BY <1>1, <1>2, <1>3, <1>4, ProcessedAlone DEF DataChannelMessage

\* The remote parameters: the candidates kept until now are posted behind them.
LEMMA ProcessSetupStep ==
  ASSUME V3Inv, NEW p \in Peers, ProcessSetup(p)
  PROVE  StepOf(p)
<1> DEFINE first == <<Task("setRemote")>>
           answer == IF p = "callee" THEN SetupTasks(st[p]) ELSE <<>>
           kept == CommitTasks(st[p].pending)
           m == first \o answer \o kept
           b == st[p].setupSent \/ p = "callee"
           s == [st[p] EXCEPT !.handshake = TRUE, !.pending = 0, !.setupSent = b]
<1>1. V3Types /\ st[p] \in Members
  BY DEF V3Inv, V3Types
<1>2. s \in Members /\ s.alive = st[p].alive /\ s.pending = 0
  <2>1. b \in BOOLEAN
    OBVIOUS
  <2> HIDE DEF b
  <2>2. s \in Members
    BY <1>1, <2>1, MembersSet
  <2> QED BY <1>1, <2>2 DEF Members
<1>3. st' = [st EXCEPT ![p] = s] /\ PostNet(p, m)
  BY DEF ProcessSetup
<1>4. /\ first \in Seq(NetTasks) /\ Len(first) = 1 /\ first[1].op = "setRemote"
      /\ answer \in Seq(NetTasks) /\ Len(answer) \in {0, 1}
      /\ \A i \in 1..Len(answer) : answer[i].op = "params"
      /\ kept \in Seq(NetTasks) /\ Len(kept) \in Nat
      /\ \A i \in 1..Len(kept) : kept[i].op = "add"
  <2>1. Task("setRemote") \in NetTasks /\ Task("setRemote").op = "setRemote"
    BY TaskTypes DEF NetOps
  <2>2. st[p].pending \in Nat
    BY <1>1 DEF Members
  <2>3. /\ kept \in Seq(NetTasks) /\ Len(kept) \in Nat
        /\ \A i \in 1..Len(kept) : kept[i].op = "add"
    BY <2>2, CommitTypes
  <2>4. /\ answer \in Seq(NetTasks) /\ Len(answer) \in {0, 1}
        /\ \A i \in 1..Len(answer) : answer[i].op = "params"
    BY SetupTypes, EmptySeq
  <2> QED BY <2>1, <2>3, <2>4
<1> HIDE DEF first, answer, kept, b
<1>5. /\ m \in Seq(NetTasks) /\ Len(m) \in Nat /\ Len(m) > 0 /\ m[1].op = "setRemote"
      /\ \A i \in 1..Len(m) : m[i].op # "fence"
  <2> DEFINE l == first \o answer
  <2>1. /\ l \in Seq(NetTasks) /\ Len(l) = 1 + Len(answer)
        /\ \A i \in 1..Len(l) : l[i] = IF i <= 1 THEN first[i] ELSE answer[i - 1]
    <3> HIDE DEF m, s
    <3>1. /\ first \in Seq(NetTasks) /\ answer \in Seq(NetTasks)
          /\ Len(first) = 1 /\ Len(answer) \in Nat
      BY <1>4
    <3>2. /\ l \in Seq(NetTasks) /\ Len(l) = Len(first) + Len(answer)
          /\ \A i \in 1..Len(first) + Len(answer) :
               l[i] = IF i <= Len(first) THEN first[i] ELSE answer[i - Len(first)]
      BY <3>1, ConcatProperties
    <3> HIDE DEF l
    <3> QED BY <3>1, <3>2
  <2> HIDE DEF l
  <2>2. l[1].op = "setRemote" /\ \A i \in 1..Len(l) : l[i].op # "fence"
    <3>1. Len(l) \in Nat /\ 1 \in 1..Len(l) /\ l[1] = first[1]
      BY <1>4, <2>1
    <3>2. ASSUME NEW i \in 1..Len(l), i # 1 PROVE l[i].op = "params"
      <4>1. ~(i <= 1) /\ i - 1 \in 1..Len(answer)
        BY <1>4, <2>1, <3>2
      <4>2. l[i] = answer[i - 1]
        BY <2>1, <3>2, <4>1
      <4> QED BY <1>4, <4>1, <4>2
    <3> QED BY <1>4, <3>1, <3>2
  <2>3. /\ m \in Seq(NetTasks) /\ Len(m) = Len(l) + Len(kept)
        /\ \A i \in 1..Len(m) : m[i] = IF i <= Len(l) THEN l[i] ELSE kept[i - Len(l)]
    BY <1>4, <2>1, ConcatProperties DEF l
  <2> HIDE DEF m
  <2>4. Len(m) \in Nat /\ Len(m) > 0 /\ Len(l) \in Nat /\ Len(l) > 0 /\ m[1] = l[1]
    BY <1>4, <2>1, <2>3
  <2>5. ASSUME NEW i \in 1..Len(m) PROVE m[i].op # "fence"
    <3>1. CASE i <= Len(l)
      <4>1. i \in 1..Len(l) /\ m[i] = l[i]
        BY <2>3, <2>4, <3>1
      <4> QED BY <2>2, <4>1
    <3>2. CASE i > Len(l)
      <4>1. i - Len(l) \in 1..Len(kept) /\ m[i] = kept[i - Len(l)]
        BY <1>4, <2>3, <2>4, <3>2
      <4> QED BY <1>4, <4>1
    <3> QED BY <2>4, <3>1, <3>2
  <2> QED BY <2>2, <2>3, <2>4, <2>5
<1> HIDE DEF m, s
<1>6. \A i \in 1..Len(m) : m[i].op = "add" => \E j \in 1..(i - 1) : m[j].op = "setRemote"
  BY <1>5
<1>7. \E j \in 1..Len(m) : m[j].op = "setRemote"
  BY <1>5
<1>8. "data" \in Gated \cup {"mute"} /\ Takes(p, "data") /\ st[p].alive
      /\ chan' \in [Peers -> Seq(Messages)] /\ UNCHANGED <<pc, net, released, stopped, freed>>
  BY <1>1 DEF Gated, ProcessSetup, V3Types
<1> QED BY <1>2, <1>3, <1>5, <1>6, <1>7, <1>8, Processed

LEMMA ProcessCandidatesStep ==
  ASSUME V3Inv, NEW p \in Peers, ProcessCandidates(p)
  PROVE  StepOf(p)
<1>1. V3Types /\ st[p] \in Members /\ CandidatesOf(netQ[p], st[p], net[p])
      /\ st[p].pending \in Nat
  BY DEF V3Inv, V3Types, PeerInv, Candidates, Members
<1>2. "data" \in Gated \cup {"mute"} /\ Takes(p, "data") /\ st[p].alive
      /\ chan' \in [Peers -> Seq(Messages)] /\ UNCHANGED <<pc, net, released, stopped, freed>>
  BY <1>1 DEF Gated, ProcessCandidates, V3Types
<1>3. ASSUME NEW k \in Nat
      PROVE  LET s == [st[p] EXCEPT !.pending = k]
             IN s \in Members /\ s.alive = st[p].alive /\ s.handshake = st[p].handshake
                /\ s.pending = k
  <2>1. [st[p] EXCEPT !.pending = k] \in Members
    BY <1>1, MembersSet
  <2> QED BY <1>1, <2>1 DEF Members
<1>4. CASE st[p].handshake
  <2> DEFINE s == [st[p] EXCEPT !.pending = 0]
             m == CommitTasks(st[p].pending + 1)
  <2>1. s \in Members /\ s.alive = st[p].alive /\ s.handshake = st[p].handshake /\ s.pending = 0
    BY <1>3
  <2>2. m \in Seq(NetTasks) /\ \A i \in 1..Len(m) : m[i].op = "add"
    <3>1. st[p].pending + 1 \in Nat
      BY <1>1
    <3> QED BY <3>1, CommitTypes
  <2>3. st' = [st EXCEPT ![p] = s] /\ PostNet(p, m)
    BY <1>4 DEF ProcessCandidates
  <2> HIDE DEF s, m
  <2> QED BY <1>2, <1>4, <2>1, <2>2, <2>3, Processed
<1>5. CASE ~st[p].handshake
  <2> DEFINE k == st[p].pending + 1
             s == [st[p] EXCEPT !.pending = k]
  <2>1. k \in Nat
    BY <1>1
  <2>2. s \in Members /\ s.alive = st[p].alive /\ s.handshake = st[p].handshake
    BY <1>3, <2>1
  <2>3. st' = [st EXCEPT ![p] = s] /\ UNCHANGED netQ
    BY <1>5 DEF ProcessCandidates
  <2> HIDE DEF s
  <2> QED BY <1>2, <1>5, <2>2, <2>3, ProcessedAlone
<1> QED BY <1>4, <1>5

LEMMA ProcessNegotiateStep ==
  ASSUME V3Inv, NEW p \in Peers, ProcessNegotiate(p)
  PROVE  StepOf(p)
<1> DEFINE exchange == Head(mediaQ[p]).msg.exchange
           n == Negotiated(p, exchange)
           offers == MustOffer(n.s)
           answers == IF n.answer THEN <<Message("Negotiate", exchange)>> ELSE <<>>
           own == IF offers THEN <<Message("Negotiate", p)>> ELSE <<>>
<1>1. V3Types /\ st[p] \in Members
  BY DEF V3Inv, V3Types
<1>2. Takes(p, "data") /\ "data" \in Gated \cup {"mute"} /\ st[p].alive /\ UNCHANGED netQ
      /\ UNCHANGED <<pc, net, released, stopped, freed>>
  BY DEF ProcessNegotiate, Gated
<1>3. Message("Negotiate", exchange) \in Messages
  <2>1. Head(mediaQ[p]) \in MediaTasks
    BY <1>1, <1>2, TypesTakes
  <2>2. Head(mediaQ[p]).msg \in Carried /\ Head(mediaQ[p]).msg.kind = "Negotiate"
    BY <2>1 DEF ProcessNegotiate, MediaTasks
  <2> DEFINE x == Head(mediaQ[p]).msg
  <2> HIDE DEF x
  <2>3. x \in Carried /\ x.kind = "Negotiate"
    BY <2>2 DEF x
  <2>4. \E y \in Peers : x = Message("Negotiate", y)
    BY <2>3 DEF Carried, Messages, Message
  <2>5. \A y : Message("Negotiate", y).exchange = y
    BY DEF Message
  <2>6. x.exchange \in Peers
    BY <2>4, <2>5
  <2> QED BY <2>6, MessageTypes DEF x
<1>4. CASE ~st[p].ready
  <2>1. st' = [st EXCEPT ![p] = st[p]] /\ chan' \in [Peers -> Seq(Messages)]
    BY <1>1, <1>4 DEF ProcessNegotiate, V3Types
  <2> QED BY <1>1, <1>2, <2>1, ProcessedAlone
<1>5. CASE st[p].ready
  <2>1. PICK madeIn \in BOOLEAN, madeOut \in BOOLEAN :
          /\ st' = [st EXCEPT ![p] = NegotiationOf(p, exchange, offers, madeIn, madeOut)]
          /\ Send(p, answers \o own)
    BY <1>5 DEF ProcessNegotiate, NegotiationOf
  <2> DEFINE s == NegotiationOf(p, exchange, offers, madeIn, madeOut)
  <2>2. /\ s \in Members /\ s.alive = st[p].alive /\ s.handshake = st[p].handshake
        /\ s.pending = st[p].pending
    <3>1. offers \in BOOLEAN
      BY DEF MustOffer
    <3> QED BY <1>1, <3>1, NegotiateTypes
  <2>3. chan' \in [Peers -> Seq(Messages)]
    <3>1. answers \in Seq(Messages)
      BY <1>3
    <3>2. own \in Seq(Messages)
      BY MessageTypes
    <3>3. answers \o own \in Seq(Messages)
      BY <3>1, <3>2, ConcatProperties
    <3> QED BY <1>1, <2>1, <3>3, TypesSend
  <2>4. st' = [st EXCEPT ![p] = s]
    BY <2>1
  <2> HIDE DEF s
  <2> QED BY <1>2, <2>2, <2>3, <2>4, ProcessedAlone
<1> QED BY <1>4, <1>5

\* The media state goes to the network thread, when there is one to send.
LEMMA ProcessedState ==
  ASSUME V3Inv, NEW p \in Peers, NEW o \in Gated \cup {"mute"}, Takes(p, o), st[p].alive,
         NEW s \in Members, st' = [st EXCEPT ![p] = s], s.alive,
         NEW send \in BOOLEAN, PostNet(p, IF send THEN MediaStateTasks(s) ELSE <<>>),
         s.handshake = st[p].handshake, s.pending = st[p].pending,
         UNCHANGED <<pc, net, released, stopped, freed, chan>>
  PROVE  StepOf(p)
<1> DEFINE m == IF send THEN MediaStateTasks(s) ELSE <<>>
<1>1. CandidatesOf(netQ[p], st[p], net[p]) /\ chan' \in [Peers -> Seq(Messages)]
  BY DEF V3Inv, V3Types, PeerInv, Candidates
<1>2. s.handshake => st[p].handshake /\ s.pending = 0
  BY <1>1 DEF CandidatesOf
<1>3. m \in Seq(NetTasks) /\ \A i \in 1..Len(m) : m[i].op = "dcSend"
  BY MediaStateTypes, EmptySeq
<1>4. PostNet(p, m)
  OBVIOUS
<1> HIDE DEF m
<1>5. /\ \A i \in 1..Len(m) : m[i].op # "fence"
      /\ \A i \in 1..Len(m) : m[i].op # "add"
  BY <1>3
<1> QED BY <1>1, <1>2, <1>3, <1>4, <1>5, Processed

LEMMA DataChannelStateStep ==
  ASSUME V3Inv, NEW p \in Peers, DataChannelState(p)
  PROVE  StepOf(p)
<1> DEFINE open == Head(mediaQ[p]).flag
           s == [st[p] EXCEPT !.dcOpen = open]
           send == open /\ ~st[p].dcOpen
<1>1. V3Types /\ st[p] \in Members
  BY DEF V3Inv, V3Types
<1>2. Takes(p, "dcState") /\ "dcState" \in Gated \cup {"mute"} /\ st[p].alive
      /\ UNCHANGED <<pc, net, released, stopped, freed, chan>>
  BY DEF DataChannelState, Gated
<1>3. /\ s \in Members /\ s.alive = st[p].alive /\ s.handshake = st[p].handshake
      /\ s.pending = st[p].pending
  <2>1. open \in BOOLEAN
    BY <1>1, <1>2, TypesTakes DEF MediaTasks
  <2> HIDE DEF open
  <2>2. s \in Members
    BY <1>1, <2>1, MembersSet
  <2> QED BY <1>1, <2>2 DEF Members
<1>4. st' = [st EXCEPT ![p] = s]
      /\ PostNet(p, IF send THEN MediaStateTasks(s) ELSE <<>>)
  BY DEF DataChannelState
<1>5. send \in BOOLEAN
  OBVIOUS
<1> HIDE DEF s, send
<1> QED BY <1>2, <1>3, <1>4, <1>5, ProcessedState

\* A mute can only be waiting while the instance works.
LEMMA MuteMicrophoneStep ==
  ASSUME V3Inv, NEW p \in Peers, MuteMicrophone(p)
  PROVE  StepOf(p)
<1> DEFINE f == Head(mediaQ[p]).flag
           o == OutgoingAudioChannel(f, st[p].out # "none")
           s == [st[p] EXCEPT !.mute = f, !.out = o]
<1>1. V3Types /\ st[p] \in Members /\ PeerInv(p)
  BY DEF V3Inv, V3Types
<1>2. Takes(p, "mute") /\ "mute" \in Gated \cup {"mute"}
      /\ UNCHANGED <<pc, net, released, stopped, freed, chan>>
  BY DEF MuteMicrophone
<1>3. mediaQ[p] # <<>> /\ mediaQ[p][1].op = "mute" /\ pc[p] = "idle" /\ f \in BOOLEAN
  BY <1>1, <1>2, TypesTakes DEF MediaTasks
<1>4. st[p].alive
  <2>1. LifeOf(mediaQ[p], "idle", st[p], released[p], stopped[p], freed[p])
    BY <1>1, <1>3 DEF PeerInv, Life
  <2>2. mediaQ[p] \in Seq(MediaTasks) /\ released[p] \in BOOLEAN /\ stopped[p] \in BOOLEAN
        /\ freed[p] \in BOOLEAN
    BY <1>1 DEF V3Types
  <2>3. mediaQ[p][1].op \notin Gated \cup {"delete"}
    BY <1>3 DEF Gated
  <2> QED BY <1>3, <2>1, <2>2, <2>3, LifeIsWorking
<1>5. /\ s \in Members /\ s.alive = st[p].alive /\ s.handshake = st[p].handshake
      /\ s.pending = st[p].pending
  <2>1. o \in {"none", "open", "muted"}
    BY DEF OutgoingAudioChannel
  <2> HIDE DEF f, o
  <2>2. s \in Members
    BY <1>1, <1>3, <2>1, MembersSet
  <2> QED BY <1>1, <2>2 DEF Members
<1>6. CASE f = st[p].mute
  <2>1. UNCHANGED <<st, netQ>>
    BY <1>6 DEF MuteMicrophone
  <2>2. st' = [st EXCEPT ![p] = st[p]] /\ chan' \in [Peers -> Seq(Messages)]
    BY <1>1, <1>2, <2>1 DEF V3Types
  <2> QED BY <1>1, <1>2, <1>4, <2>1, <2>2, ProcessedAlone
<1>7. CASE f # st[p].mute
  <2>1. st' = [st EXCEPT ![p] = s] /\ PostNet(p, MediaStateTasks(s))
    BY <1>7 DEF MuteMicrophone
  <2> HIDE DEF s
  <2>2. PostNet(p, IF TRUE THEN MediaStateTasks(s) ELSE <<>>)
    BY <2>1
  <2> QED BY <1>2, <1>4, <1>5, <2>1, <2>2, ProcessedState
<1> QED BY <1>6, <1>7

\* start: the networking object is made; nothing has come before it.
LEMMA StartStep ==
  ASSUME V3Inv, NEW p \in Peers, Start(p)
  PROVE  StepOf(p)
<1>1. V3Types /\ PeerInv(p) /\ st[p] \in Members /\ net[p] \in Networking
      /\ mediaQ[p] \in Seq(MediaTasks) /\ netQ[p] \in Seq(NetTasks)
      /\ released[p] \in BOOLEAN /\ stopped[p] \in BOOLEAN /\ freed[p] \in BOOLEAN
  BY DEF V3Inv, V3Types
<1>2. Takes(p, "start") /\ pc' = [pc EXCEPT ![p] = "signaling"]
      /\ UNCHANGED <<chan, released, stopped, freed>>
  BY DEF Start
<1>3. /\ mediaQ' \in [Peers -> Seq(MediaTasks)]
      /\ mediaQ[p] # <<>> /\ mediaQ'[p] = Tail(mediaQ[p])
      /\ mediaQ[p][1].op = "start" /\ pc[p] = "idle"
      /\ \A x \in Peers : x # p => mediaQ'[x] = mediaQ[x]
  BY <1>1, <1>2, TypesTakes
<1>4. LifeOf(mediaQ[p], "idle", st[p], released[p], stopped[p], freed[p])
  BY <1>1, <1>3 DEF PeerInv, Life
<1>5. st[p].alive /\ ~stopped[p] /\ ~freed[p]
  <2>1. mediaQ[p][1].op \notin Gated \cup {"delete"}
    BY <1>3 DEF Gated
  <2> QED BY <1>1, <1>3, <1>4, <2>1, LifeIsWorking
<1> DEFINE w == [net[p] EXCEPT !.state = "made"]
           ready == [st[p] EXCEPT !.ready = TRUE, !.need = TRUE]
<1>6. /\ net' \in [Peers -> Networking] /\ net'[p] = w
      /\ \A x \in Peers : x # p => net'[x] = net[x]
      /\ w \in Networking /\ w.state = "made" /\ w.remote = net[p].remote
      /\ w.added = net[p].added
  <2>1. w \in Networking /\ w.state = "made" /\ w.remote = net[p].remote
        /\ w.added = net[p].added
    BY <1>1, NetworkingSet
  <2>2. net' = [net EXCEPT ![p] = w]
    BY DEF Start
  <2> HIDE DEF w
  <2> QED BY <1>1, <2>1, <2>2, TypesNet
<1> HIDE DEF w
<1>7. PICK s \in Members, m \in Seq(NetTasks) :
        /\ st' = [st EXCEPT ![p] = s] /\ PostNet(p, m)
        /\ s.alive = st[p].alive /\ s.handshake = st[p].handshake /\ s.pending = st[p].pending
        /\ \A i \in 1..Len(m) : m[i].op = "start"
  <2>1. ready \in Members /\ ready.alive = st[p].alive /\ ready.handshake = st[p].handshake
        /\ ready.pending = st[p].pending
    <3>1. ready \in Members
      BY <1>1, MembersSet
    <3> QED BY <1>1, <3>1 DEF Members
  <2> DEFINE one == <<Task("start")>>
             none == <<>>
  <2>2. one \in Seq(NetTasks) /\ \A i \in 1..Len(one) : one[i].op = "start"
    BY TaskTypes DEF NetOps
  <2>3. none \in Seq(NetTasks) /\ \A i \in 1..Len(none) : none[i].op = "start"
    BY EmptySeq
  <2>4. CASE st' = [st EXCEPT ![p] = SetUpMediaPipeline(@)] /\ PostNet(p, one)
    <3>1. st' = [st EXCEPT ![p] = ready]
      BY <2>4 DEF SetUpMediaPipeline
    <3> HIDE DEF ready, one
    <3> QED BY <2>1, <2>2, <2>4, <3>1
  <2>5. CASE UNCHANGED <<st, netQ>>
    <3>1. st' = [st EXCEPT ![p] = st[p]] /\ PostNet(p, none)
      BY <1>1, <2>5, PostNothing DEF V3Types
    <3> HIDE DEF none
    <3> QED BY <1>1, <2>3, <3>1
  <2> QED BY <2>4, <2>5 DEF Start
<1>8. /\ st' \in [Peers -> Members] /\ st'[p] = s /\ \A x \in Peers : x # p => st'[x] = st[x]
      /\ netQ' \in [Peers -> Seq(NetTasks)] /\ netQ'[p] = netQ[p] \o m
      /\ \A x \in Peers : x # p => netQ'[x] = netQ[x]
  BY <1>1, <1>7, TypesSt, TypesPost
<1>9. pc'[p] = "signaling" /\ (\A x \in Peers : x # p => pc'[x] = pc[x])
      /\ pc' \in [Peers -> {"idle", "signaling", "fence", "teardown"}]
  BY <1>1, <1>2 DEF V3Types
<1>10. V3Types'
  BY <1>1, <1>2, <1>3, <1>6, <1>8, <1>9 DEF V3Types
<1>11. Life(p)'
  <2>1. mediaQ[p][1].op \notin {"stop", "delete"} /\ s.alive
    BY <1>3, <1>5, <1>7
  <2>2. LifeOf(Tail(mediaQ[p]), "signaling", s, released[p], stopped[p], freed[p])
    BY ZenonT(30), <1>1, <1>3, <1>4, <1>5, <2>1, LifeProceeds
  <2> QED BY <1>2, <1>3, <1>8, <1>9, <2>2 DEF Life
<1>12. Network(p)'
  <2>1. NetworkOf(mediaQ[p], netQ[p], "idle", net[p], FALSE)
    BY <1>1, <1>3, <1>5 DEF PeerInv, Network
  <2>2. NetworkOf(mediaQ'[p], netQ[p] \o m, "signaling", w, FALSE)
    <3>1. \A i \in 1..Len(m) : m[i].op # "fence"
      BY <1>7
    <3>2. w.state \notin {"none", "gone"}
      BY <1>6
    <3> QED BY <1>1, <1>7, <2>1, <3>1, <3>2, NetworkPosts
  <2> QED BY <1>1, <1>2, <1>5, <1>6, <1>8, <1>9, <2>2 DEF Network
<1>13. Candidates(p)'
  <2>1. CandidatesOf(netQ[p], st[p], w)
    BY <1>1, <1>6 DEF PeerInv, Candidates, CandidatesOf
  <2>2. \A i \in 1..Len(m) : m[i].op # "add"
    BY <1>7
  <2>3. s.handshake => s.pending = 0 /\ st[p].handshake
    BY <1>7, <2>1 DEF CandidatesOf
  <2>4. CandidatesOf(netQ[p] \o m, s, w)
    BY <1>1, <1>6, <1>7, <2>1, <2>2, <2>3, CandidatesPosts
  <2> QED BY <1>6, <1>8, <2>4 DEF Candidates
<1>14. ASSUME NEW x \in Peers, x # p PROVE Elsewhere(x)
  BY <1>2, <1>3, <1>6, <1>8, <1>9, <1>14 DEF Elsewhere
<1> QED BY <1>10, <1>11, <1>12, <1>13, <1>14 DEF StepOf, PeerInv

\* The connection is there, and signaling begins.
LEMMA BeginSignalingStep ==
  ASSUME V3Inv, NEW p \in Peers, BeginSignaling(p)
  PROVE  StepOf(p)
<1>1. V3Types /\ PeerInv(p) /\ st[p] \in Members /\ net[p] \in Networking
      /\ mediaQ[p] \in Seq(MediaTasks) /\ netQ[p] \in Seq(NetTasks)
      /\ released[p] \in BOOLEAN /\ stopped[p] \in BOOLEAN /\ freed[p] \in BOOLEAN
  BY DEF V3Inv, V3Types
<1>2. /\ pc[p] = "signaling" /\ pc'[p] = "idle" /\ \A x \in Peers : x # p => pc'[x] = pc[x]
      /\ pc' \in [Peers -> {"idle", "signaling", "fence", "teardown"}]
      /\ UNCHANGED <<mediaQ, net, released, stopped, freed>>
  BY <1>1 DEF BeginSignaling, V3Types
<1>3. PICK s \in Members, m \in Seq(NetTasks) :
        /\ st' = [st EXCEPT ![p] = s] /\ PostNet(p, m)
        /\ s.alive = st[p].alive /\ s.handshake = st[p].handshake /\ s.pending = st[p].pending
        /\ \A i \in 1..Len(m) : m[i].op = "params"
  <2> DEFINE b == MustOffer(st[p])
             caller == [st[p] EXCEPT !.conn = TRUE, !.setupSent = TRUE, !.offered = b]
             callee == [st[p] EXCEPT !.conn = TRUE]
             setup == SetupTasks(st[p])
             none == <<>>
  <2>1. b \in BOOLEAN
    BY DEF MustOffer
  <2>2. caller \in Members /\ caller.alive = st[p].alive /\ caller.handshake = st[p].handshake
        /\ caller.pending = st[p].pending
    <3> HIDE DEF b
    <3>1. caller \in Members
      BY <1>1, <2>1, MembersSet
    <3> QED BY <1>1, <3>1 DEF Members
  <2>3. callee \in Members /\ callee.alive = st[p].alive /\ callee.handshake = st[p].handshake
        /\ callee.pending = st[p].pending
    <3>1. callee \in Members
      BY <1>1, MembersSet
    <3> QED BY <1>1, <3>1 DEF Members
  <2>4. /\ setup \in Seq(NetTasks) /\ \A i \in 1..Len(setup) : setup[i].op = "params"
        /\ none \in Seq(NetTasks) /\ \A i \in 1..Len(none) : none[i].op = "params"
    BY SetupTypes, EmptySeq
  <2>5. CASE p = "caller"
    <3>1. st' = [st EXCEPT ![p] = caller] /\ PostNet(p, setup)
      BY <2>5 DEF BeginSignaling
    <3> HIDE DEF caller, setup
    <3> QED BY <2>2, <2>4, <3>1
  <2>6. CASE p # "caller"
    <3>1. st' = [st EXCEPT ![p] = callee] /\ UNCHANGED netQ
      BY <2>6 DEF BeginSignaling
    <3>2. PostNet(p, none)
      BY <1>1, <3>1, PostNothing
    <3> HIDE DEF callee, none
    <3> QED BY <2>3, <2>4, <3>1, <3>2
  <2> QED BY <2>5, <2>6
<1>4. chan' \in [Peers -> Seq(Messages)]
  <2>1. CASE p = "caller"
    <3>1. (IF MustOffer(st[p]) THEN <<Message("Negotiate", p)>> ELSE <<>>) \in Seq(Messages)
      BY MessageTypes
    <3> QED BY <1>1, <2>1, <3>1, TypesSend DEF BeginSignaling
  <2>2. CASE p # "caller"
    BY <1>1, <2>2 DEF BeginSignaling, V3Types
  <2> QED BY <2>1, <2>2
<1>5. /\ st' \in [Peers -> Members] /\ st'[p] = s /\ \A x \in Peers : x # p => st'[x] = st[x]
      /\ netQ' \in [Peers -> Seq(NetTasks)] /\ netQ'[p] = netQ[p] \o m
      /\ \A x \in Peers : x # p => netQ'[x] = netQ[x]
  BY <1>1, <1>3, TypesSt, TypesPost
<1>6. V3Types'
  BY <1>1, <1>2, <1>4, <1>5 DEF V3Types
<1>7. Life(p)' /\ ~stopped[p]
  <2>1. LifeOf(mediaQ[p], "signaling", st[p], released[p], stopped[p], freed[p])
    BY <1>1, <1>2 DEF PeerInv, Life
  <2>2. ~stopped[p] /\ LifeOf(mediaQ[p], "idle", s, released[p], stopped[p], freed[p])
    BY <1>1, <1>3, <2>1 DEF LifeOf, Working
  <2> QED BY <1>2, <1>5, <2>2 DEF Life
<1>8. Network(p)'
  <2>1. NetworkOf(mediaQ[p], netQ[p], "signaling", net[p], FALSE)
    BY <1>1, <1>2, <1>7 DEF PeerInv, Network
  <2>2. net[p].state \notin {"none", "gone"} /\ \A i \in 1..Len(m) : m[i].op # "fence"
    BY <1>3, <2>1 DEF NetworkOf
  <2>3. NetworkOf(mediaQ[p], netQ[p] \o m, "idle", net[p], FALSE)
    BY <1>1, <1>3, <2>1, <2>2, NetworkPosts
  <2> QED BY <1>1, <1>2, <1>5, <1>7, <2>3 DEF Network
<1>9. Candidates(p)'
  <2>1. CandidatesOf(netQ[p], st[p], net[p])
    BY <1>1 DEF PeerInv, Candidates
  <2>2. \A i \in 1..Len(m) : m[i].op # "add"
    BY <1>3
  <2>3. s.handshake => s.pending = 0 /\ st[p].handshake
    BY <1>3, <2>1 DEF CandidatesOf
  <2>4. CandidatesOf(netQ[p] \o m, s, net[p])
    BY <1>1, <1>3, <2>1, <2>2, <2>3, CandidatesPosts
  <2> QED BY <1>2, <1>5, <2>4 DEF Candidates
<1>10. ASSUME NEW x \in Peers, x # p PROVE Elsewhere(x)
  BY <1>2, <1>5, <1>10 DEF Elsewhere
<1> QED BY <1>6, <1>7, <1>8, <1>9, <1>10 DEF StepOf, PeerInv

\* The gate closes, and the media thread waits for the network thread, or tears down.
LEMMA ShutdownStep ==
  ASSUME V3Inv, NEW p \in Peers, Stop(p) \/ Delete(p)
  PROVE  StepOf(p)
<1> DEFINE s == [st[p] EXCEPT !.alive = FALSE, !.conn = FALSE]
<1>1. V3Types /\ PeerInv(p) /\ st[p] \in Members /\ net[p] \in Networking
      /\ mediaQ[p] \in Seq(MediaTasks) /\ netQ[p] \in Seq(NetTasks)
      /\ released[p] \in BOOLEAN /\ stopped[p] \in BOOLEAN /\ freed[p] \in BOOLEAN
  BY DEF V3Inv, V3Types
<1>2. PICK o \in {"stop", "delete"} : Takes(p, o) /\ Shutdown(p)
  BY DEF Stop, Delete
<1>3. /\ mediaQ' \in [Peers -> Seq(MediaTasks)]
      /\ mediaQ[p] # <<>> /\ mediaQ'[p] = Tail(mediaQ[p])
      /\ mediaQ[p][1].op = o /\ pc[p] = "idle"
      /\ \A x \in Peers : x # p => mediaQ'[x] = mediaQ[x]
  BY <1>1, <1>2, TypesTakes
<1>4. LifeOf(mediaQ[p], "idle", st[p], released[p], stopped[p], freed[p])
  BY <1>1, <1>3 DEF PeerInv, Life
<1>5. NetworkOf(mediaQ[p], netQ[p], "idle", net[p], stopped[p])
  BY <1>1, <1>3 DEF PeerInv, Network
<1>6. /\ s \in Members /\ ~s.alive /\ s.handshake = st[p].handshake
      /\ s.pending = st[p].pending
  <2>1. s \in Members
    BY <1>1, MembersSet
  <2> QED BY <1>1, <2>1 DEF Members
<1>7. st' = [st EXCEPT ![p] = s] /\ UNCHANGED <<net, chan, released, stopped, freed>>
  BY <1>2 DEF Shutdown
<1> HIDE DEF s
<1>8. st' \in [Peers -> Members] /\ st'[p] = s /\ \A x \in Peers : x # p => st'[x] = st[x]
  BY <1>1, <1>6, <1>7, TypesSt
<1>9. CandidatesOf(netQ[p], s, net[p])
  BY <1>1, <1>6 DEF PeerInv, Candidates, CandidatesOf
<1>10. net[p].state # "none"
  BY <1>2, <1>3, <1>5 DEF NetworkOf
<1> DEFINE q == mediaQ[p]
<1>0. /\ q \in Seq(MediaTasks) /\ q # <<>> /\ q[1].op = o /\ ~s.alive
      /\ LifeOf(q, "idle", st[p], released[p], stopped[p], freed[p])
      /\ released[p] \in BOOLEAN /\ stopped[p] \in BOOLEAN /\ freed[p] \in BOOLEAN
  BY <1>1, <1>3, <1>4, <1>6
<1> HIDE DEF q
<1>11. CASE o = "stop"
  <2> DEFINE m == <<Task("stop"), Task("fence")>>
  <2>1. LifeOf(Tail(mediaQ[p]), "fence", s, released[p], stopped[p], freed[p]) /\ ~stopped[p]
    <3>1. q[1].op = "stop"
      BY <1>0, <1>11
    <3>2. LifeOf(Tail(q), "fence", s, released[p], stopped[p], freed[p]) /\ ~stopped[p]
      BY <1>0, <3>1, LifeStops
    <3> QED BY <3>2 DEF q
  <2>2. net[p].state # "gone"
    BY <1>5, <2>1 DEF NetworkOf
  <2>3. PostNet(p, m) /\ pc' = [pc EXCEPT ![p] = "fence"]
    BY <1>2, <1>10, <2>2 DEF Shutdown
  <2>4. /\ Task("stop") \in NetTasks /\ Task("fence") \in NetTasks
        /\ Task("stop").op = "stop" /\ Task("fence").op = "fence"
    BY TaskTypes DEF NetOps
  <2>5. m \in Seq(NetTasks) /\ Len(m) = 2 /\ m[1].op = "stop" /\ m[2].op = "fence"
    BY <2>4
  <2>6. /\ Len(netQ[p]) \in Nat /\ Len(netQ[p] \o m) = Len(netQ[p]) + 2
        /\ \A i \in 1..Len(netQ[p]) : (netQ[p] \o m)[i] = netQ[p][i]
        /\ (netQ[p] \o m)[Len(netQ[p]) + 1].op = "stop"
        /\ (netQ[p] \o m)[Len(netQ[p]) + 2].op = "fence"
    BY <1>1, <2>4, AppendTwo
  <2> HIDE DEF m
  <2>7. /\ netQ' \in [Peers -> Seq(NetTasks)] /\ netQ'[p] = netQ[p] \o m
        /\ \A x \in Peers : x # p => netQ'[x] = netQ[x]
    BY <1>1, <2>3, <2>5, TypesPost
  <2>8. /\ pc'[p] = "fence" /\ (\A x \in Peers : x # p => pc'[x] = pc[x])
        /\ pc' \in [Peers -> {"idle", "signaling", "fence", "teardown"}]
    BY <1>1, <2>3 DEF V3Types
  <2>9. V3Types'
    BY <1>1, <1>3, <1>7, <1>8, <2>7, <2>8 DEF V3Types
  <2>10. Life(p)'
    BY <1>3, <1>7, <1>8, <2>1, <2>8 DEF Life
  <2>11. Network(p)'
    <3> DEFINE a == netQ[p] \o m
    <3>1. \A i \in 1..Len(netQ[p]) : netQ[p][i].op # "fence"
      BY <1>5 DEF NetworkOf
    <3>2. a # <<>>
      BY <2>6, EmptySeq
    <3> HIDE DEF a
    <3>3. a[Len(a)].op = "fence" /\ \A i \in 1..Len(a) : i < Len(a) => a[i].op # "fence"
      BY SMTT(30), <2>6, <3>1 DEF a
    <3>4. NetworkOf(mediaQ'[p], a, "fence", net[p], stopped[p])
      BY <1>10, <2>1, <2>2, <3>2, <3>3 DEF NetworkOf
    <3> QED BY <1>7, <2>7, <2>8, <3>4 DEF Network, a
  <2>12. Candidates(p)'
    <3>1. \A i \in 1..Len(m) : m[i].op # "add"
      BY <2>5
    <3>2. s.handshake => s.pending = 0
      BY <1>9 DEF CandidatesOf
    <3>3. CandidatesOf(netQ[p] \o m, s, net[p])
      BY <1>1, <1>9, <2>5, <3>1, <3>2, CandidatesPosts
    <3> QED BY <1>7, <1>8, <2>7, <3>3 DEF Candidates
  <2>13. ASSUME NEW x \in Peers, x # p PROVE Elsewhere(x)
    BY <1>3, <1>7, <1>8, <2>7, <2>8, <2>13 DEF Elsewhere
  <2> QED BY <2>9, <2>10, <2>11, <2>12, <2>13 DEF StepOf, PeerInv
<1>12. CASE o = "delete"
  <2>1. LifeOf(Tail(mediaQ[p]), "teardown", s, released[p], stopped[p], freed[p]) /\ stopped[p]
    <3>1. q[1].op = "delete"
      BY <1>0, <1>12
    <3>2. LifeOf(Tail(q), "teardown", s, released[p], stopped[p], freed[p]) /\ stopped[p]
      BY <1>0, <3>1, LifeDeletes
    <3> QED BY <3>2 DEF q
  <2>2. net[p].state = "gone" /\ netQ[p] = <<>>
    BY <1>5, <2>1 DEF NetworkOf
  <2>3. UNCHANGED netQ /\ pc' = [pc EXCEPT ![p] = "teardown"]
    BY <1>2, <2>2 DEF Shutdown
  <2>4. /\ pc'[p] = "teardown" /\ (\A x \in Peers : x # p => pc'[x] = pc[x])
        /\ pc' \in [Peers -> {"idle", "signaling", "fence", "teardown"}]
    BY <1>1, <2>3 DEF V3Types
  <2>5. V3Types'
    BY <1>1, <1>3, <1>7, <1>8, <2>3, <2>4 DEF V3Types
  <2>6. Life(p)' /\ Candidates(p)'
    BY <1>3, <1>7, <1>8, <1>9, <2>1, <2>3, <2>4 DEF Life, Candidates
  <2>7. Network(p)'
    BY <1>7, <2>1, <2>2, <2>3, <2>4 DEF Network, NetworkOf
  <2>8. ASSUME NEW x \in Peers, x # p PROVE Elsewhere(x)
    BY <1>3, <1>7, <1>8, <2>3, <2>4, <2>8 DEF Elsewhere
  <2> QED BY <2>5, <2>6, <2>7, <2>8 DEF StepOf, PeerInv
<1> QED BY <1>11, <1>12

\* The first teardown ends the stop, the second one the destructor.
LEMMA TeardownStep ==
  ASSUME V3Inv, NEW p \in Peers, Teardown(p)
  PROVE  StepOf(p)
<1> DEFINE s == [st[p] EXCEPT !.ready = FALSE, !.in = FALSE, !.out = "none"]
           w == [net[p] EXCEPT !.state = "gone"]
<1>1. V3Types /\ PeerInv(p) /\ st[p] \in Members /\ net[p] \in Networking
      /\ released[p] \in BOOLEAN /\ stopped[p] \in BOOLEAN /\ freed[p] \in BOOLEAN
  BY DEF V3Inv, V3Types
<1>2. /\ pc[p] = "teardown" /\ pc'[p] = "idle" /\ \A x \in Peers : x # p => pc'[x] = pc[x]
      /\ pc' \in [Peers -> {"idle", "signaling", "fence", "teardown"}]
      /\ stopped' \in [Peers -> BOOLEAN] /\ stopped'[p] = TRUE
      /\ \A x \in Peers : x # p => stopped'[x] = stopped[x]
      /\ freed' \in [Peers -> BOOLEAN] /\ freed'[p] = stopped[p]
      /\ \A x \in Peers : x # p => freed'[x] = freed[x]
      /\ UNCHANGED <<mediaQ, netQ, chan, released>>
  BY <1>1 DEF Teardown, V3Types
<1>3. /\ s \in Members /\ s.alive = st[p].alive /\ s.handshake = st[p].handshake
      /\ s.pending = st[p].pending
  <2>1. s \in Members
    BY <1>1, MembersSet
  <2> QED BY <1>1, <2>1 DEF Members
<1>4. /\ w \in Networking /\ w.state = "gone" /\ w.remote = net[p].remote
      /\ w.added = net[p].added
  BY <1>1, NetworkingSet
<1>5. st' = [st EXCEPT ![p] = s] /\ net' = [net EXCEPT ![p] = w]
  BY DEF Teardown
<1> HIDE DEF s, w
<1>6. /\ st' \in [Peers -> Members] /\ st'[p] = s /\ \A x \in Peers : x # p => st'[x] = st[x]
      /\ net' \in [Peers -> Networking] /\ net'[p] = w
      /\ \A x \in Peers : x # p => net'[x] = net[x]
  BY <1>1, <1>3, <1>4, <1>5, TypesSt, TypesNet
<1>7. V3Types'
  BY <1>1, <1>2, <1>6 DEF V3Types
<1>8. Life(p)'
  <2>1. LifeOf(mediaQ[p], "teardown", st[p], released[p], stopped[p], freed[p])
    BY <1>1, <1>2 DEF PeerInv, Life
  <2>2. /\ released[p] /\ ~st[p].alive
        /\ IF stopped[p] THEN OnlyGated(mediaQ[p]) ELSE DeleteFirst(mediaQ[p])
    BY <1>1, <2>1 DEF LifeOf, Working
  <2>3. LifeOf(mediaQ[p], "idle", s, released[p], TRUE, stopped[p])
    BY <1>1, <1>3, <2>2 DEF LifeOf
  <2> QED BY <1>2, <1>6, <2>3 DEF Life
<1>9. Network(p)'
  <2>1. netQ[p] = <<>>
    BY <1>1, <1>2 DEF PeerInv, Network, NetworkOf
  <2>2. NetworkOf(mediaQ[p], <<>>, "idle", w, TRUE)
    BY <1>4, EmptySeq DEF NetworkOf
  <2> QED BY <1>2, <1>6, <2>1, <2>2 DEF Network
<1>10. Candidates(p)'
  <2>1. CandidatesOf(netQ[p], s, w)
    BY <1>1, <1>3, <1>4 DEF PeerInv, Candidates, CandidatesOf
  <2> QED BY <1>2, <1>6, <2>1 DEF Candidates
<1>11. ASSUME NEW x \in Peers, x # p PROVE Elsewhere(x)
  BY <1>2, <1>6, <1>11 DEF Elsewhere
<1> QED BY <1>7, <1>8, <1>9, <1>10, <1>11 DEF StepOf, PeerInv

\* The network thread: what a task that is not the fence does to its own peer.
LEMMA NetworkTook ==
  ASSUME V3Inv, NEW p \in Peers, NEW o, NetTakes(p, o), o # "fence",
         NEW w \in Networking, net' = [net EXCEPT ![p] = w],
         w.state \notin {"none", "gone"} \/ w.state = net[p].state,
         w.remote = (net[p].remote \/ o = "setRemote"),
         w.added > 0 => net[p].added > 0 \/ o = "add",
         NEW q, UNCHANGED <<pc, st, stopped>>
  PROVE  /\ NetworkOf(q, netQ'[p], pc'[p], net'[p], stopped'[p])
         /\ CandidatesOf(netQ'[p], st'[p], net'[p])
         /\ netQ' \in [Peers -> Seq(NetTasks)] /\ net' \in [Peers -> Networking]
         /\ \A x \in Peers : x # p => netQ'[x] = netQ[x] /\ net'[x] = net[x]
<1>1. V3Types /\ PeerInv(p) /\ net[p] \in Networking /\ netQ[p] \in Seq(NetTasks)
      /\ stopped[p] \in BOOLEAN /\ pc[p] \in {"idle", "signaling", "fence", "teardown"}
  BY DEF V3Inv, V3Types
<1>2. /\ netQ' \in [Peers -> Seq(NetTasks)]
      /\ netQ[p] # <<>> /\ netQ'[p] = Tail(netQ[p]) /\ netQ[p][1].op = o
      /\ \A x \in Peers : x # p => netQ'[x] = netQ[x]
  BY <1>1, TypesNetTakes
<1>3. /\ net' \in [Peers -> Networking] /\ net'[p] = w
      /\ \A x \in Peers : x # p => net'[x] = net[x]
  BY <1>1, TypesNet
<1>4. NetworkOf(mediaQ[p], netQ[p], pc[p], net[p], stopped[p])
      /\ CandidatesOf(netQ[p], st[p], net[p])
  BY <1>1 DEF PeerInv, Network, Candidates
<1>5. net[p].state \notin {"none", "gone"}
  BY <1>1, <1>2, <1>4 DEF NetworkOf
<1>6. NetworkOf(q, Tail(netQ[p]), pc[p], w, stopped[p])
  <2> DEFINE n == netQ[p]
             c == pc[p]
  <2>1. /\ n \in Seq(NetTasks) /\ n # <<>> /\ n[1].op # "fence"
        /\ w.state \notin {"none", "gone"} /\ stopped[p] \in BOOLEAN
        /\ c \in {"idle", "signaling", "fence", "teardown"}
        /\ NetworkOf(mediaQ[p], n, c, net[p], stopped[p])
    BY <1>1, <1>2, <1>4, <1>5
  <2> HIDE DEF n, c
  <2>2. NetworkOf(q, Tail(n), c, w, stopped[p])
    BY ZenonT(30), <2>1, NetworkTakes
  <2> QED BY <2>2 DEF n, c
<1>7. CandidatesOf(Tail(netQ[p]), st[p], w)
  <2>1. /\ w.remote = (net[p].remote \/ netQ[p][1].op = "setRemote")
        /\ w.added > 0 => net[p].added > 0 \/ netQ[p][1].op = "add"
    BY <1>2
  <2> QED BY <1>1, <1>2, <1>4, <2>1, CandidatesTakes
<1> QED BY <1>2, <1>3, <1>6, <1>7

LEMMA NetworkingTaskStep ==
  ASSUME V3Inv, NEW p \in Peers, NetworkingTask(p)
  PROVE  StepOf(p)
<1>1. V3Types /\ PeerInv(p) /\ net[p] \in Networking
  BY DEF V3Inv, V3Types
<1>2. UNCHANGED <<mediaQ, pc, st, chan, released, stopped, freed>>
  BY DEF NetworkingTask
<1>3. PICK o \in {"start", "setRemote", "add", "stop"}, w \in Networking :
        /\ NetTakes(p, o) /\ net' = [net EXCEPT ![p] = w]
        /\ w.state \notin {"none", "gone"} \/ w.state = net[p].state
        /\ w.remote = (net[p].remote \/ o = "setRemote")
        /\ w.added > 0 => net[p].added > 0 \/ o = "add"
  <2> DEFINE started == [net[p] EXCEPT !.state = "started"]
             remote == [net[p] EXCEPT !.remote = TRUE]
             added == [net[p] EXCEPT !.added = @ + 1]
             ended == [net[p] EXCEPT !.state = "stopped"]
  <2>1. /\ started \in Networking /\ started.state = "started"
        /\ started.remote = net[p].remote /\ started.added = net[p].added
        /\ ended \in Networking /\ ended.state = "stopped"
        /\ ended.remote = net[p].remote /\ ended.added = net[p].added
    BY <1>1, NetworkingSet
  <2>2. /\ remote \in Networking /\ remote.state = net[p].state /\ remote.remote = TRUE
        /\ added \in Networking /\ added.state = net[p].state
        /\ added.remote = net[p].remote
    <3>1. /\ remote \in Networking /\ remote.state = net[p].state /\ remote.remote
          /\ added \in Networking /\ added.state = net[p].state
          /\ added.remote = net[p].remote
      BY <1>1, NetworkingSet
    <3> QED BY <3>1 DEF Networking
  <2>3. remote.added = net[p].added
    BY <1>1 DEF Networking
  <2>4. net[p].remote \in BOOLEAN
    BY <1>1 DEF Networking
  <2>5. \/ NetTakes(p, "start") /\ net' = [net EXCEPT ![p] = started]
        \/ NetTakes(p, "setRemote") /\ net' = [net EXCEPT ![p] = remote]
        \/ NetTakes(p, "add") /\ net' = [net EXCEPT ![p] = added]
        \/ NetTakes(p, "stop") /\ net' = [net EXCEPT ![p] = ended]
    BY DEF NetworkingTask
  <2> HIDE DEF started, remote, added, ended
  <2>6. CASE NetTakes(p, "start") /\ net' = [net EXCEPT ![p] = started]
    BY <2>1, <2>4, <2>6
  <2>7. CASE NetTakes(p, "setRemote") /\ net' = [net EXCEPT ![p] = remote]
    BY <2>2, <2>3, <2>4, <2>7
  <2>8. CASE NetTakes(p, "add") /\ net' = [net EXCEPT ![p] = added]
    BY <2>2, <2>4, <2>8
  <2>9. CASE NetTakes(p, "stop") /\ net' = [net EXCEPT ![p] = ended]
    BY <2>1, <2>4, <2>9
  <2> QED BY <2>5, <2>6, <2>7, <2>8, <2>9
<1>4. /\ NetworkOf(mediaQ[p], netQ'[p], pc'[p], net'[p], stopped'[p])
      /\ CandidatesOf(netQ'[p], st'[p], net'[p])
      /\ netQ' \in [Peers -> Seq(NetTasks)] /\ net' \in [Peers -> Networking]
      /\ \A x \in Peers : x # p => netQ'[x] = netQ[x] /\ net'[x] = net[x]
  BY <1>2, <1>3, NetworkTook
<1>5. PeerInv(p)'
  BY <1>1, <1>2, <1>4 DEF PeerInv, Life, Network, Candidates
<1>6. V3Types'
  BY <1>1, <1>2, <1>4 DEF V3Types
<1>7. ASSUME NEW x \in Peers, x # p PROVE Elsewhere(x)
  BY <1>2, <1>4, <1>7 DEF Elsewhere
<1> QED BY <1>5, <1>6, <1>7 DEF StepOf

\* A task of the network thread that posts one to a media thread.
LEMMA NetworkPostsBack ==
  ASSUME V3Inv, NEW p \in Peers, NEW o \in {"params", "dcSend"}, NetTakes(p, o),
         mediaQ' \in [Peers -> Seq(MediaTasks)],
         \A x \in Peers : \/ mediaQ'[x] = mediaQ[x]
                          \/ \E t \in MediaTasks : /\ t.op \in Gated
                                                   /\ mediaQ'[x] = Append(mediaQ[x], t),
         UNCHANGED <<pc, st, net, chan, released, stopped, freed>>
  PROVE  StepOf(p)
<1>1. V3Types /\ PeerInv(p) /\ net[p] \in Networking /\ mediaQ[p] \in Seq(MediaTasks)
      /\ released[p] \in BOOLEAN
  BY DEF V3Inv, V3Types
<1>2. net' = [net EXCEPT ![p] = net[p]]
  BY <1>1 DEF V3Types
<1>3. /\ NetworkOf(mediaQ'[p], netQ'[p], pc'[p], net'[p], stopped'[p])
      /\ CandidatesOf(netQ'[p], st'[p], net'[p])
      /\ netQ' \in [Peers -> Seq(NetTasks)] /\ net' \in [Peers -> Networking]
      /\ \A x \in Peers : x # p => netQ'[x] = netQ[x] /\ net'[x] = net[x]
  <2>1. net[p].remote = (net[p].remote \/ o = "setRemote")
    BY <1>1 DEF Networking
  <2> QED BY <1>1, <1>2, <2>1, NetworkTook
<1>4. Life(p)'
  <2>1. LifeOf(mediaQ[p], pc[p], st[p], released[p], stopped[p], freed[p])
    BY <1>1 DEF PeerInv, Life
  <2>2. CASE mediaQ'[p] = mediaQ[p]
    BY <2>1, <2>2 DEF Life
  <2>3. ASSUME NEW t \in MediaTasks, t.op \in Gated, mediaQ'[p] = Append(mediaQ[p], t)
        PROVE  Life(p)'
    <3>1. LifeOf(Append(mediaQ[p], t), pc[p], st[p], released[p], stopped[p], freed[p])
      BY <1>1, <2>1, <2>3, LifeAppend
    <3> QED BY <2>3, <3>1 DEF Life
  <2> QED BY <2>2, <2>3
<1>5. V3Types'
  BY <1>1, <1>3 DEF V3Types
<1>6. ASSUME NEW x \in Peers, x # p PROVE Elsewhere(x)
  BY <1>3, <1>6 DEF Elsewhere
<1> QED BY <1>3, <1>4, <1>5, <1>6 DEF StepOf, PeerInv, Network, Candidates

LEMMA LocalParamsStep ==
  ASSUME V3Inv, NEW p \in Peers, LocalParams(p)
  PROVE  StepOf(p)
<1>1. V3Types
  BY DEF V3Inv
<1>2. Task("params") \in MediaTasks /\ Task("params").op = "params" /\ "params" \in Gated
  BY TaskTypes DEF MediaOps, Gated
<1>3. /\ mediaQ' \in [Peers -> Seq(MediaTasks)]
      /\ mediaQ'[p] = Append(mediaQ[p], Task("params"))
      /\ \A x \in Peers : x # p => mediaQ'[x] = mediaQ[x]
  BY <1>1, <1>2, TypesAppend DEF LocalParams
<1> QED BY <1>2, <1>3, NetworkPostsBack DEF LocalParams

LEMMA DataChannelSendStep ==
  ASSUME V3Inv, NEW p \in Peers, DataChannelSend(p)
  PROVE  StepOf(p)
<1>1. V3Types
  BY DEF V3Inv
<1>2. CASE ~dcUp
  <2>1. mediaQ' = mediaQ
    BY <1>2 DEF DataChannelSend
  <2> QED BY <1>1, <2>1, NetworkPostsBack DEF DataChannelSend, V3Types
<1>3. CASE dcUp
  <2> DEFINE t == FlagTask("dcMessage", Head(netQ[p]).flag)
  <2>1. Head(netQ[p]).flag \in BOOLEAN
    BY <1>1, TypesNetTakes DEF DataChannelSend, NetTasks
  <2>2. t \in MediaTasks /\ t.op \in Gated
    BY <2>1, FlagTaskTypes DEF MediaOps, Gated
  <2>3. mediaQ' = [mediaQ EXCEPT ![Other(p)] = Append(@, t)]
    BY <1>3 DEF DataChannelSend
  <2> HIDE DEF t
  <2>4. /\ mediaQ' \in [Peers -> Seq(MediaTasks)]
        /\ mediaQ'[Other(p)] = Append(mediaQ[Other(p)], t)
        /\ \A x \in Peers : x # Other(p) => mediaQ'[x] = mediaQ[x]
    BY <1>1, <2>2, <2>3, OtherPeer, TypesAppend
  <2> QED BY <2>2, <2>4, NetworkPostsBack DEF DataChannelSend
<1> QED BY <1>2, <1>3

\* The fence is last: what the media thread has waited for is an empty queue.
LEMMA FenceStep ==
  ASSUME V3Inv, NEW p \in Peers, Fence(p)
  PROVE  StepOf(p)
<1>1. V3Types /\ PeerInv(p) /\ netQ[p] \in Seq(NetTasks) /\ stopped[p] \in BOOLEAN
      /\ pc[p] \in {"idle", "signaling", "fence", "teardown"}
  BY DEF V3Inv, V3Types
<1>2. /\ netQ' \in [Peers -> Seq(NetTasks)]
      /\ netQ[p] # <<>> /\ netQ'[p] = Tail(netQ[p]) /\ netQ[p][1].op = "fence"
      /\ \A x \in Peers : x # p => netQ'[x] = netQ[x]
  BY <1>1, TypesNetTakes DEF Fence
<1>3. /\ pc'[p] = "teardown" /\ (\A x \in Peers : x # p => pc'[x] = pc[x])
      /\ pc' \in [Peers -> {"idle", "signaling", "fence", "teardown"}]
      /\ UNCHANGED <<mediaQ, st, net, chan, released, stopped, freed>>
  BY <1>1 DEF Fence, V3Types
<1>4. NetworkOf(mediaQ[p], netQ[p], pc[p], net[p], stopped[p])
      /\ CandidatesOf(netQ[p], st[p], net[p])
      /\ LifeOf(mediaQ[p], pc[p], st[p], released[p], stopped[p], freed[p])
  BY <1>1 DEF PeerInv, Network, Candidates, Life
<1>5. Len(netQ[p]) \in Nat /\ Len(netQ[p]) > 0 /\ (Len(netQ[p]) = 1 <=> Tail(netQ[p]) = <<>>)
  BY <1>1, <1>2, Taken
<1>6. pc[p] = "fence" /\ ~stopped[p]
  BY <1>1, <1>2, <1>4, <1>5 DEF NetworkOf
<1>7. Tail(netQ[p]) = <<>>
  <2>1. \A i \in 1..Len(netQ[p]) : i < Len(netQ[p]) => netQ[p][i].op # "fence"
    BY <1>4, <1>6 DEF NetworkOf
  <2> QED BY <1>2, <1>5, <2>1
<1>8. Network(p)'
  <2>1. NetworkOf(mediaQ[p], <<>>, "teardown", net[p], stopped[p])
    BY <1>4, <1>6 DEF NetworkOf
  <2> QED BY <1>2, <1>3, <1>7, <2>1 DEF Network
<1>9. Life(p)'
  <2>1. LifeOf(mediaQ[p], "teardown", st[p], released[p], stopped[p], freed[p])
    BY <1>4, <1>6 DEF LifeOf, Working
  <2> QED BY <1>3, <2>1 DEF Life
<1>10. Candidates(p)'
  <2>1. net[p] \in Networking
    BY <1>1 DEF V3Types
  <2>2. net[p].remote = (net[p].remote \/ netQ[p][1].op = "setRemote")
    BY <1>2, <2>1 DEF Networking
  <2>3. CandidatesOf(Tail(netQ[p]), st[p], net[p])
    BY <1>1, <1>2, <1>4, <2>1, <2>2, CandidatesTakes
  <2> QED BY <1>2, <1>3, <2>3 DEF Candidates
<1>11. V3Types'
  BY <1>1, <1>2, <1>3 DEF V3Types
<1>12. ASSUME NEW x \in Peers, x # p PROVE Elsewhere(x)
  BY <1>2, <1>3, <1>12 DEF Elsewhere
<1> QED BY <1>8, <1>9, <1>10, <1>11, <1>12 DEF StepOf, PeerInv

\* The steps around the peers, which post at most.
LEMMA Around ==
  ASSUME V3Inv, V3Types', \A x \in Peers : Elsewhere(x)
  PROVE  V3Inv'
  BY ElsewhereInv DEF V3Inv

LEMMA EmitLocalCandidateStep ==
  ASSUME V3Inv, NEW p \in Peers, EmitLocalCandidate(p)
  PROVE  V3Inv'
<1>1. V3Types
  BY DEF V3Inv
<1>2. chan' \in [Peers -> Seq(Messages)]
  <2> DEFINE m == Message("Candidates", "none")
  <2>1. m \in Messages
    BY MessageTypes
  <2>2. Append(chan[Other(p)], m) \in Seq(Messages)
    BY <1>1, <2>1, OtherPeer, AppendProperties DEF V3Types
  <2>3. chan' = chan \/ chan' = [chan EXCEPT ![Other(p)] = Append(chan[Other(p)], m)]
    BY DEF EmitLocalCandidate
  <2> HIDE DEF m
  <2> QED BY <1>1, <2>2, <2>3 DEF V3Types
<1>3. V3Types'
  BY <1>1, <1>2 DEF V3Types, EmitLocalCandidate
<1>4. \A x \in Peers : Elsewhere(x)
  BY DEF Elsewhere, EmitLocalCandidate
<1> QED BY <1>3, <1>4, Around

LEMMA DeliverStep ==
  ASSUME V3Inv, NEW p \in Peers, Deliver(p)
  PROVE  V3Inv'
<1>1. V3Types
  BY DEF V3Inv
<1>2. chan[p] \in Seq(Messages) /\ chan[p] # <<>> /\ Len(chan[p]) \in Nat /\ Len(chan[p]) > 0
  BY <1>1, LenProperties, EmptySeq DEF V3Types, Deliver
<1>3. PICK i \in 1..Len(chan[p]) :
        /\ mediaQ' = [mediaQ EXCEPT ![p] = Append(@, DataTask(chan[p][i]))]
        /\ chan' = [chan EXCEPT ![p] = RemoveAt(@, i)]
  <2>1. \A i \in 1..(IF sctp THEN 1 ELSE Len(chan[p])) : i \in 1..Len(chan[p])
    <3>1. CASE sctp
      BY <1>2, <3>1
    <3>2. CASE ~sctp
      BY <1>2, <3>2
    <3> QED BY <3>1, <3>2
  <2>2. PICK i \in 1..(IF sctp THEN 1 ELSE Len(chan[p])) :
          /\ mediaQ' = [mediaQ EXCEPT ![p] = Append(@, DataTask(chan[p][i]))]
          /\ chan' = [chan EXCEPT ![p] = RemoveAt(@, i)]
    BY DEF Deliver
  <2> QED BY <2>1, <2>2
<1>4. DataTask(chan[p][i]) \in MediaTasks /\ DataTask(chan[p][i]).op \in Gated
  <2>1. chan[p][i] \in Messages
    BY <1>2, ElementOfSeq
  <2> QED BY <2>1, DataTaskTypes DEF Gated
<1> DEFINE t == DataTask(chan[p][i])
<1>5. /\ mediaQ' \in [Peers -> Seq(MediaTasks)]
      /\ mediaQ'[p] = Append(mediaQ[p], t)
      /\ \A x \in Peers : x # p => mediaQ'[x] = mediaQ[x]
  BY <1>1, <1>3, <1>4, TypesAppend
<1>6. RemoveAt(chan[p], i) \in Seq(Messages)
  <2>1. SubSeq(chan[p], 1, i - 1) \in Seq(Messages)
    <3>1. \A j \in 1..(i - 1) : chan[p][j] \in Messages
      BY <1>2, ElementOfSeq
    <3> QED BY <3>1, SubSeqProperties
  <2>2. SubSeq(chan[p], i + 1, Len(chan[p])) \in Seq(Messages)
    <3>1. \A j \in (i + 1)..Len(chan[p]) : chan[p][j] \in Messages
      BY <1>2, ElementOfSeq
    <3> QED BY <1>2, <3>1, SubSeqProperties
  <2> QED BY <2>1, <2>2, ConcatProperties DEF RemoveAt
<1>7. chan' \in [Peers -> Seq(Messages)]
  BY <1>1, <1>3, <1>6 DEF V3Types
<1>8. UNCHANGED <<netQ, pc, st, net, released, stopped, freed>>
  BY DEF Deliver
<1>9. V3Types'
  BY <1>1, <1>5, <1>7, <1>8 DEF V3Types
<1> HIDE DEF t
<1>10. \A x \in Peers : Elsewhere(x)
  <2>1. t \in MediaTasks /\ t.op \in Gated
    BY <1>4 DEF t
  <2> QED BY <1>5, <1>8, <2>1 DEF Elsewhere
<1> QED BY <1>9, <1>10, Around

LEMMA SetMuteStep ==
  ASSUME V3Inv, NEW p \in Peers, SetMute(p)
  PROVE  V3Inv'
<1>1. V3Types
  BY DEF V3Inv
<1>2. PICK f \in BOOLEAN : mediaQ' = [mediaQ EXCEPT ![p] = Append(@, FlagTask("mute", f))]
  BY DEF SetMute
<1> DEFINE t == FlagTask("mute", f)
<1>3. t \in MediaTasks /\ t.op = "mute"
  BY FlagTaskTypes DEF MediaOps
<1>4. mediaQ' = [mediaQ EXCEPT ![p] = Append(@, t)]
  BY <1>2
<1> HIDE DEF t
<1>5. /\ mediaQ' \in [Peers -> Seq(MediaTasks)]
      /\ mediaQ'[p] = Append(mediaQ[p], t)
      /\ \A x \in Peers : x # p => mediaQ'[x] = mediaQ[x]
  BY <1>1, <1>3, <1>4, TypesAppend
<1>6. UNCHANGED <<netQ, pc, st, net, chan, released, stopped, freed>> /\ ~released[p]
  BY DEF SetMute
<1>7. V3Types'
  BY <1>1, <1>5, <1>6 DEF V3Types
<1>8. \A x \in Peers : Elsewhere(x)
  BY <1>3, <1>5, <1>6 DEF Elsewhere
<1> QED BY <1>7, <1>8, Around

\* The data channel opens or closes.
LEMMA FlapStep ==
  ASSUME V3Inv, dcUp \in BOOLEAN, Flap
  PROVE  V3Inv'
<1> DEFINE t == FlagTask("dcState", dcUp')
<1>1. V3Types
  BY DEF V3Inv
<1>2. t \in MediaTasks /\ t.op \in Gated
  <2>1. dcUp' \in BOOLEAN
    BY DEF Flap
  <2> HIDE DEF t
  <2>2. "dcState" \in MediaOps /\ "dcState" \in Gated
    BY DEF MediaOps, Gated
  <2> QED BY <2>1, <2>2, FlagTaskTypes DEF t
<1>3. mediaQ' = [x \in Peers |-> IF net[x].state = "started"
                                 THEN Append(mediaQ[x], t) ELSE mediaQ[x]]
  BY DEF Flap
<1> HIDE DEF t
<1>4. mediaQ' \in [Peers -> Seq(MediaTasks)]
  <2>1. \A x \in Peers : Append(mediaQ[x], t) \in Seq(MediaTasks) /\ mediaQ[x] \in Seq(MediaTasks)
    BY <1>1, <1>2, AppendProperties DEF V3Types
  <2> QED BY <1>3, <2>1
<1>5. UNCHANGED <<netQ, pc, st, net, chan, released, stopped, freed>>
  BY DEF Flap
<1>6. V3Types'
  BY <1>1, <1>4, <1>5 DEF V3Types
<1>7. \A x \in Peers : Elsewhere(x)
  BY <1>2, <1>3, <1>5 DEF Elsewhere
<1> QED BY <1>6, <1>7, Around

\* The call is released: its stop and its delete are posted together.
LEMMA ReleaseStep ==
  ASSUME V3Inv, NEW p \in Peers, Release(p)
  PROVE  StepOf(p)
<1> DEFINE a == mediaQ[p] \o <<Task("stop"), Task("delete")>>
<1>1. V3Types /\ PeerInv(p) /\ mediaQ[p] \in Seq(MediaTasks) /\ ~released[p]
  BY DEF V3Inv, V3Types, Release
<1>2. LifeOf(mediaQ[p], pc[p], st[p], released[p], stopped[p], freed[p])
      /\ NetworkOf(mediaQ[p], netQ[p], pc[p], net[p], stopped[p])
  BY <1>1 DEF PeerInv, Life, Network
<1>3. NoStop(mediaQ[p]) /\ Working(pc[p], st[p], stopped[p], freed[p])
  BY <1>1, <1>2 DEF LifeOf
<1>4. /\ a \in Seq(MediaTasks) /\ a # <<>> /\ StopAhead(a)
      /\ mediaQ[p] # <<>> => a[1] = mediaQ[p][1]
  BY <1>1, <1>3, ShapeRelease
<1>5. mediaQ' = [mediaQ EXCEPT ![p] = a] /\ released' = [released EXCEPT ![p] = TRUE]
      /\ UNCHANGED <<netQ, pc, st, net, chan, stopped, freed>>
  BY DEF Release
<1> HIDE DEF a
<1>6. V3Types'
  BY <1>1, <1>4, <1>5 DEF V3Types
<1>7. /\ mediaQ'[p] = a /\ released'[p] = TRUE
      /\ \A x \in Peers : x # p => mediaQ'[x] = mediaQ[x] /\ released'[x] = released[x]
  BY <1>1, <1>5 DEF V3Types
<1>8. Life(p)'
  <2>1. LifeOf(a, pc[p], st[p], TRUE, stopped[p], freed[p])
    BY <1>3, <1>4 DEF LifeOf
  <2> QED BY <1>5, <1>7, <2>1 DEF Life
<1>9. Network(p)'
  <2>1. NetworkOf(a, netQ[p], pc[p], net[p], stopped[p])
    BY <1>2, <1>4 DEF NetworkOf
  <2> QED BY <1>5, <1>7, <2>1 DEF Network
<1>10. Candidates(p)'
  BY <1>1, <1>5 DEF PeerInv, Candidates
<1>11. ASSUME NEW x \in Peers, x # p PROVE Elsewhere(x)
  BY <1>5, <1>7, <1>11 DEF Elsewhere
<1> QED BY <1>6, <1>8, <1>9, <1>10, <1>11 DEF StepOf, PeerInv

------------------------------------------------------------------------------
(* The theorems. *)

\* dcUp is a flag: the one fact of the whole call that Flap needs.
V3IInv == V3Inv /\ dcUp \in BOOLEAN

LEMMA V3InvInit == Init => V3IInv
<1> SUFFICES ASSUME Init PROVE V3IInv
  OBVIOUS
<1>1. V3Types
  BY TypesInit
<1>2. ASSUME NEW p \in Peers PROVE PeerInv(p)
  <2> DEFINE q == <<Task("start")>>
             n == <<>>
  <2>1. q # <<>> /\ Len(q) = 1 /\ q[1].op = "start"
    BY TaskTypes
  <2>2. n = <<>> /\ Len(n) = 0
    BY EmptySeq
  <2>3. mediaQ[p] = q /\ netQ[p] = n /\ pc[p] = "idle" /\ ~released[p] /\ ~stopped[p]
        /\ ~freed[p] /\ stopped[p] = FALSE
    BY <1>2 DEF Init
  <2>4. st[p].alive /\ ~st[p].handshake /\ net[p].state = "none" /\ net[p].added = 0
    BY <1>2 DEF Init
  <2> HIDE DEF q, n
  <2>5. Life(p)
    <3>1. NoStop(q)
      BY <2>1 DEF NoStop
    <3>2. Working("idle", st[p], stopped[p], freed[p])
      BY <2>3, <2>4 DEF Working
    <3>3. LifeOf(q, "idle", st[p], released[p], stopped[p], freed[p])
      BY <2>3, <3>1, <3>2 DEF LifeOf
    <3> QED BY <2>3, <3>3 DEF Life
  <2>6. Network(p)
    BY <2>1, <2>2, <2>3, <2>4 DEF Network, NetworkOf
  <2>7. Candidates(p)
    BY <2>2, <2>3, <2>4 DEF Candidates, CandidatesOf
  <2> QED BY <2>5, <2>6, <2>7 DEF PeerInv
<1> QED BY <1>1, <1>2 DEF V3IInv, V3Inv, Init

LEMMA V3InvNext == V3IInv /\ [Next]_vars => V3IInv'
<1> SUFFICES ASSUME V3IInv, [Next]_vars PROVE V3IInv'
  OBVIOUS
<1>1. V3Inv /\ dcUp \in BOOLEAN
  BY DEF V3IInv
<1>2. ASSUME NEW p \in Peers, MediaThread(p) PROVE V3IInv'
  <2>1. StepOf(p)
    BY <1>1, <1>2, StartStep, BeginSignalingStep, GateClosedStep, SendSetupStep,
       ProcessSetupStep, ProcessCandidatesStep, ProcessNegotiateStep, DataChannelStateStep,
       DataChannelMessageStep, MuteMicrophoneStep, ShutdownStep, TeardownStep
       DEF MediaThread
  <2>2. UNCHANGED dcUp
    BY <1>2 DEF MediaThread, Start, BeginSignaling, GateClosed, SendSetup, ProcessSetup,
                ProcessCandidates, ProcessNegotiate, DataChannelState, DataChannelMessage,
                MuteMicrophone, Stop, Delete, Shutdown, Teardown
  <2> QED BY <1>1, <2>1, <2>2, StepOfInv DEF V3IInv
<1>3. ASSUME NEW p \in Peers, NetThread(p) PROVE V3IInv'
  <2>1. StepOf(p)
    BY <1>1, <1>3, NetworkingTaskStep, LocalParamsStep, DataChannelSendStep, FenceStep
       DEF NetThread
  <2>2. UNCHANGED dcUp
    BY <1>3 DEF NetThread, NetworkingTask, LocalParams, DataChannelSend, Fence
  <2> QED BY <1>1, <2>1, <2>2, StepOfInv DEF V3IInv
<1>4. ASSUME NEW p \in Peers, EmitLocalCandidate(p) \/ Deliver(p) \/ SetMute(p) PROVE V3IInv'
  <2>1. V3Inv'
    BY <1>1, <1>4, EmitLocalCandidateStep, DeliverStep, SetMuteStep
  <2>2. UNCHANGED dcUp
    BY <1>4 DEF EmitLocalCandidate, Deliver, SetMute
  <2> QED BY <1>1, <2>1, <2>2 DEF V3IInv
<1>5. ASSUME NEW p \in Peers, Release(p) PROVE V3IInv'
  <2>1. StepOf(p) /\ UNCHANGED dcUp
    BY <1>1, <1>5, ReleaseStep DEF Release
  <2> QED BY <1>1, <2>1, StepOfInv DEF V3IInv
<1>6. CASE Flap
  <2>1. dcUp' \in BOOLEAN
    BY <1>6 DEF Flap
  <2> QED BY <1>1, <1>6, <2>1, FlapStep DEF V3IInv
<1>7. CASE UNCHANGED vars
  <2>1. V3Types' /\ \A x \in Peers : Elsewhere(x)
    BY <1>1, <1>7 DEF vars, V3Inv, V3Types, Elsewhere
  <2> QED BY <1>1, <1>7, <2>1, Around DEF V3IInv, vars
<1> QED BY <1>2, <1>3, <1>4, <1>5, <1>6, <1>7 DEF Next

LEMMA V3Invariant == Spec => []V3IInv
  BY V3InvInit, V3InvNext, PTL DEF Spec

\* The networking object never sees a remote candidate before the remote parameters, and
\* once these are posted no candidate is left behind (processSignalingData and
\* commitPendingIceCandidates of InstanceV13_0_0Impl), in whatever order the signaling
\* messages come.
THEOREM CandidatesAlwaysFollow == Spec => []CandidatesFollowParams
<1>1. V3IInv => CandidatesFollowParams
  BY DEF V3IInv, V3Inv, PeerInv, Candidates, CandidatesOf, CandidatesFollowParams
<1> QED BY <1>1, V3Invariant, PTL

\* What is left of a freed instance: tasks that pass no gate, a network thread with nothing
\* to do, and a media thread that is in none of its handlers.
LEMMA FreedRests ==
  ASSUME V3IInv, NEW p \in Peers, freed[p]
  PROVE  /\ mediaQ[p] \in Seq(MediaTasks) /\ OnlyGated(mediaQ[p])
         /\ netQ[p] = <<>> /\ pc[p] = "idle" /\ ~st[p].alive /\ released[p]
<1>1. V3Types /\ Life(p) /\ Network(p) /\ freed[p] = TRUE
  BY DEF V3IInv, V3Inv, PeerInv, V3Types
<1>2. /\ released[p] /\ OnlyGated(mediaQ[p]) /\ ~st[p].alive /\ stopped[p] /\ pc[p] = "idle"
  BY <1>1 DEF Life, LifeOf, Working
<1>3. netQ[p] = <<>>
  BY <1>1, <1>2 DEF Network, NetworkOf
<1> QED BY <1>1, <1>2, <1>3 DEF V3Types

\* So its threads do nothing but close the gate on those tasks.
LEMMA FreedOnlyCloses ==
  ASSUME V3IInv, NEW p \in Peers, freed[p], MediaThread(p) \/ NetThread(p)
  PROVE  GateClosed(p)
<1>1. /\ mediaQ[p] \in Seq(MediaTasks) /\ OnlyGated(mediaQ[p])
      /\ netQ[p] = <<>> /\ pc[p] = "idle" /\ ~st[p].alive
  BY FreedRests
<1>2. ASSUME NEW op, Takes(p, op) PROVE op \in Gated
  <2>1. mediaQ[p] # <<>> /\ Head(mediaQ[p]).op = op
    BY <1>2 DEF Takes
  <2>2. Head(mediaQ[p]) = mediaQ[p][1] /\ 1 \in 1..Len(mediaQ[p])
    BY <1>1, <2>1, Taken
  <2> QED BY <1>1, <2>1, <2>2 DEF OnlyGated
<1>3. ~NetThread(p)
  BY <1>1 DEF NetThread, NetworkingTask, LocalParams, DataChannelSend, Fence, NetTakes
<1>4. ~(Start(p) \/ MuteMicrophone(p) \/ Stop(p) \/ Delete(p))
  <2>1. ~Takes(p, "start") /\ ~Takes(p, "mute") /\ ~Takes(p, "stop") /\ ~Takes(p, "delete")
    BY <1>2 DEF Gated
  <2> QED BY <2>1 DEF Start, MuteMicrophone, Stop, Delete
<1>5. ~(BeginSignaling(p) \/ Teardown(p))
  BY <1>1 DEF BeginSignaling, Teardown
<1>6. ~(SendSetup(p) \/ ProcessSetup(p) \/ ProcessCandidates(p) \/ ProcessNegotiate(p)
        \/ DataChannelState(p) \/ DataChannelMessage(p))
  BY <1>1 DEF SendSetup, ProcessSetup, ProcessCandidates, ProcessNegotiate,
              DataChannelState, DataChannelMessage
<1> QED BY <1>3, <1>4, <1>5, <1>6 DEF MediaThread

\* No task that waits behind the destructor on the media thread, and no task of the network
\* thread, touches an instance that is freed (the alive gate and the fence of
\* shutdownInstance).
THEOREM FreedAlwaysUntouched == Spec => FreedIsUntouched
<1>1. ASSUME V3IInv, Next, NEW p \in Peers, freed[p]
      PROVE  st'[p] = st[p] /\ net'[p] = net[p] /\ pc'[p] = pc[p]
  <2>1. V3Inv
    BY <1>1 DEF V3IInv
  <2>2. ASSUME NEW x \in Peers, MediaThread(x) \/ NetThread(x), x # p
        PROVE  st'[p] = st[p] /\ net'[p] = net[p] /\ pc'[p] = pc[p]
    <3>1. CASE MediaThread(x)
      <4>1. StepOf(x)
        BY <2>1, <3>1, StartStep, BeginSignalingStep, GateClosedStep, SendSetupStep,
           ProcessSetupStep, ProcessCandidatesStep, ProcessNegotiateStep, DataChannelStateStep,
           DataChannelMessageStep, MuteMicrophoneStep, ShutdownStep, TeardownStep
           DEF MediaThread
      <4> QED BY <2>2, <4>1 DEF StepOf, Elsewhere
    <3>2. CASE NetThread(x)
      <4>1. StepOf(x)
        BY <2>1, <3>2, NetworkingTaskStep, LocalParamsStep, DataChannelSendStep, FenceStep
           DEF NetThread
      <4> QED BY <2>2, <4>1 DEF StepOf, Elsewhere
    <3> QED BY <2>2, <3>1, <3>2
  <2>3. ASSUME MediaThread(p) \/ NetThread(p)
        PROVE  st'[p] = st[p] /\ net'[p] = net[p] /\ pc'[p] = pc[p]
    BY <1>1, <2>3, FreedOnlyCloses DEF GateClosed
  <2>4. ASSUME NEW x \in Peers,
               EmitLocalCandidate(x) \/ Deliver(x) \/ SetMute(x) \/ Release(x)
        PROVE  st'[p] = st[p] /\ net'[p] = net[p] /\ pc'[p] = pc[p]
    BY <2>4 DEF EmitLocalCandidate, Deliver, SetMute, Release
  <2>5. CASE Flap
    BY <2>5 DEF Flap
  <2> QED BY <1>1, <2>2, <2>3, <2>4, <2>5 DEF Next
<1>2. V3IInv /\ [Next]_vars =>
        [\A p \in Peers : freed[p] => st'[p] = st[p] /\ net'[p] = net[p] /\ pc'[p] = pc[p]]_vars
  BY <1>1
<1> QED BY <1>2, V3Invariant, PTL DEF Spec, FreedIsUntouched

------------------------------------------------------------------------------
(* What is said on the queues: of the data channel, by its state tasks, and  *)
(* of the microphone, by the words a peer sends and those it receives.       *)

Says(t, op, f) == t.op = op /\ t.flag = f
Has(q, op, f) == \E k \in DOMAIN q : Says(q[k], op, f)

\* Behind every task that says otherwise comes one that says f.
Corrected(q, op, f) ==
  \A i \in DOMAIN q : Says(q[i], op, ~f) => \E k \in DOMAIN q : k > i /\ Says(q[k], op, f)

\* Between two openings of the data channel waits a closing, and one before the first
\* opening when the channel is known to be open.
Alternates(q, open) ==
  \A j \in DOMAIN q : Says(q[j], "dcState", TRUE) =>
    /\ open => \E k \in DOMAIN q : k < j /\ Says(q[k], "dcState", FALSE)
    /\ \A i \in DOMAIN q : i < j /\ Says(q[i], "dcState", TRUE) =>
         \E k \in DOMAIN q : i < k /\ k < j /\ Says(q[k], "dcState", FALSE)

\* The last word on the mute flag m: among the words to be sent from the network queue n,
\* else among those the peer's media queue o has received, else what it was told.
LastWord(n, o, t, m) ==
  /\ Corrected(n, "dcSend", m)
  /\ Has(n, "dcSend", m) \/ Corrected(o, "dcMessage", m)
  /\ Has(n, "dcSend", m) \/ Has(o, "dcMessage", m) \/ t = OutgoingAudioChannel(m, TRUE)

\* What a peer knows of the data channel, or is about to; and once no opening waits to be
\* noted, the last word is true.
ChannelOf(up, q, n, o, t, s) ==
  /\ Corrected(q, "dcState", up)
  /\ s.dcOpen # up => Has(q, "dcState", up)
  /\ Alternates(q, s.dcOpen)
  /\ up /\ ~Has(q, "dcState", TRUE) => LastWord(n, o, t, s.mute)

Channel(p) == ChannelOf(dcUp, mediaQ[p], netQ[p], mediaQ[Other(p)], told[Other(p)], st[p])

\* r is q, up to tasks other than op: those that are op stand d places further.
Moved(q, r, d, op) ==
  /\ \A i \in DOMAIN q : q[i].op = op => i + d \in DOMAIN r /\ r[i + d] = q[i]
  /\ \A i \in DOMAIN r : r[i].op = op => i - d \in DOMAIN q /\ r[i] = q[i - d]
Like(q, r, op) == \E d \in Int : Moved(q, r, d, op)

LEMMA QueueIndex ==
  ASSUME NEW S, NEW q \in Seq(S)
  PROVE  DOMAIN q = 1..Len(q) /\ Len(q) \in Nat
  BY LenProperties

LEMMA LikeSame ==
  ASSUME NEW S, NEW q \in Seq(S), NEW op
  PROVE  Like(q, q, op)
<1>1. \A i \in DOMAIN q : i \in Int /\ i + 0 = i /\ i - 0 = i
  BY QueueIndex
<1>2. Moved(q, q, 0, op)
  BY <1>1 DEF Moved
<1> QED BY <1>2 DEF Like

LEMMA LikeTail ==
  ASSUME NEW S, NEW q \in Seq(S), q # <<>>, NEW op, q[1].op # op
  PROVE  Like(q, Tail(q), op)
<1> DEFINE t == Tail(q)
<1>1. /\ t \in Seq(S) /\ Len(q) \in Nat /\ Len(q) > 0 /\ Len(t) = Len(q) - 1
      /\ \A i \in 1..(Len(q) - 1) : t[i] = q[i + 1]
  BY Taken
<1> HIDE DEF t
<1>2. DOMAIN q = 1..Len(q) /\ DOMAIN t = 1..(Len(q) - 1)
  BY <1>1, QueueIndex
<1>3. ASSUME NEW i \in DOMAIN q, q[i].op = op
      PROVE  i + (-1) \in DOMAIN t /\ t[i + (-1)] = q[i]
  <2>1. i # 1 /\ i \in 1..Len(q)
    BY <1>2, <1>3
  <2>2. i - 1 \in 1..(Len(q) - 1) /\ (i - 1) + 1 = i /\ i + (-1) = i - 1
    BY <1>1, <2>1
  <2>3. t[i - 1] = q[(i - 1) + 1]
    BY <1>1, <2>2
  <2> QED BY <1>2, <2>2, <2>3
<1>4. ASSUME NEW i \in DOMAIN t
      PROVE  i - (-1) \in DOMAIN q /\ t[i] = q[i - (-1)]
  <2>1. i \in 1..(Len(q) - 1) /\ i - (-1) = i + 1
    BY <1>1, <1>2
  <2> QED BY <1>1, <1>2, <2>1
<1>5. Moved(q, t, -1, op)
  BY <1>3, <1>4 DEF Moved
<1> QED BY <1>5 DEF Like, t

LEMMA LikeConcat ==
  ASSUME NEW S, NEW q \in Seq(S), NEW m \in Seq(S), NEW op,
         \A i \in DOMAIN m : m[i].op # op
  PROVE  Like(q, q \o m, op)
<1> DEFINE r == q \o m
<1>1. /\ r \in Seq(S) /\ Len(r) = Len(q) + Len(m) /\ Len(q) \in Nat /\ Len(m) \in Nat
      /\ \A i \in 1..Len(q) : r[i] = q[i]
      /\ \A i \in 1..Len(m) : r[Len(q) + i] = m[i]
  BY ConcatProperties, LenProperties
<1> HIDE DEF r
<1>2. DOMAIN q = 1..Len(q) /\ DOMAIN m = 1..Len(m) /\ DOMAIN r = 1..(Len(q) + Len(m))
  BY <1>1, QueueIndex
<1>3. ASSUME NEW i \in DOMAIN r, r[i].op = op
      PROVE  i \in DOMAIN q
  <2>1. CASE i > Len(q)
    <3>1. i - Len(q) \in 1..Len(m) /\ i = Len(q) + (i - Len(q))
      BY <1>1, <1>2, <2>1
    <3>2. r[i] = m[i - Len(q)]
      BY <1>1, <3>1
    <3> QED BY <1>2, <1>3, <3>1, <3>2
  <2> QED BY <1>1, <1>2, <2>1
<1>4. \A i \in DOMAIN q : i + 0 = i /\ i - 0 = i /\ i \in DOMAIN r /\ r[i] = q[i]
  BY <1>1, <1>2
<1>5. Moved(q, r, 0, op)
  BY <1>3, <1>4 DEF Moved
<1> QED BY <1>5 DEF Like, r

LEMMA LikeAppend ==
  ASSUME NEW S, NEW q \in Seq(S), NEW t \in S, NEW op, t.op # op
  PROVE  Like(q, Append(q, t), op)
<1>1. <<t>> \in Seq(S) /\ DOMAIN <<t>> = {1} /\ <<t>>[1] = t
  OBVIOUS
<1>2. Append(q, t) = q \o <<t>>
  OBVIOUS
<1> QED BY <1>1, <1>2, LikeConcat

\* The tasks op keep what they say and the order they have.
LEMMA LikeSays ==
  ASSUME NEW S, NEW q \in Seq(S), NEW r \in Seq(S), NEW op, NEW f, Like(q, r, op)
  PROVE  /\ Has(r, op, f) <=> Has(q, op, f)
         /\ Corrected(q, op, f) => Corrected(r, op, f)
<1>1. PICK d \in Int : Moved(q, r, d, op)
  BY DEF Like
<1>2. DOMAIN q = 1..Len(q) /\ Len(q) \in Nat /\ DOMAIN r = 1..Len(r) /\ Len(r) \in Nat
  BY QueueIndex
<1>3. Has(r, op, f) <=> Has(q, op, f)
  BY <1>1 DEF Has, Says, Moved
<1>4. ASSUME Corrected(q, op, f), NEW i \in DOMAIN r, Says(r[i], op, ~f)
      PROVE  \E k \in DOMAIN r : k > i /\ Says(r[k], op, f)
  <2>1. i - d \in DOMAIN q /\ Says(q[i - d], op, ~f)
    BY <1>1, <1>4 DEF Moved, Says
  <2>2. PICK k \in DOMAIN q : k > i - d /\ Says(q[k], op, f)
    BY <1>4, <2>1 DEF Corrected
  <2>3. k + d \in DOMAIN r /\ r[k + d] = q[k]
    BY <1>1, <2>2 DEF Moved, Says
  <2>4. k + d > i
    BY <1>2, <2>2
  <2> QED BY <2>2, <2>3, <2>4
<1> QED BY <1>3, <1>4 DEF Corrected

LEMMA LikeAlternates ==
  ASSUME NEW S, NEW q \in Seq(S), NEW r \in Seq(S), NEW open, Like(q, r, "dcState"),
         Alternates(q, open)
  PROVE  Alternates(r, open)
<1>1. PICK d \in Int : Moved(q, r, d, "dcState")
  BY DEF Like
<1>2. DOMAIN q = 1..Len(q) /\ Len(q) \in Nat /\ DOMAIN r = 1..Len(r) /\ Len(r) \in Nat
  BY QueueIndex
<1>3. ASSUME NEW j \in DOMAIN r, Says(r[j], "dcState", TRUE)
      PROVE  j - d \in DOMAIN q /\ Says(q[j - d], "dcState", TRUE)
  BY <1>1, <1>3 DEF Moved, Says
<1>4. ASSUME NEW k \in DOMAIN q, Says(q[k], "dcState", FALSE)
      PROVE  k + d \in DOMAIN r /\ Says(r[k + d], "dcState", FALSE)
  BY <1>1, <1>4 DEF Moved, Says
<1>5. ASSUME NEW j \in DOMAIN r, Says(r[j], "dcState", TRUE), open
      PROVE  \E k \in DOMAIN r : k < j /\ Says(r[k], "dcState", FALSE)
  <2>1. j - d \in DOMAIN q /\ Says(q[j - d], "dcState", TRUE)
    BY <1>3, <1>5
  <2>2. PICK k \in DOMAIN q : k < j - d /\ Says(q[k], "dcState", FALSE)
    BY <1>5, <2>1 DEF Alternates
  <2>3. k + d < j
    BY <1>2, <2>2
  <2> QED BY <1>4, <2>2, <2>3
<1>6. ASSUME NEW j \in DOMAIN r, Says(r[j], "dcState", TRUE),
             NEW i \in DOMAIN r, i < j, Says(r[i], "dcState", TRUE)
      PROVE  \E k \in DOMAIN r : i < k /\ k < j /\ Says(r[k], "dcState", FALSE)
  <2>1. /\ j - d \in DOMAIN q /\ Says(q[j - d], "dcState", TRUE)
        /\ i - d \in DOMAIN q /\ Says(q[i - d], "dcState", TRUE)
    BY <1>3, <1>6
  <2>4. i - d < j - d
    BY <1>2, <1>6
  <2>2. PICK k \in DOMAIN q : i - d < k /\ k < j - d /\ Says(q[k], "dcState", FALSE)
    BY <2>1, <2>4 DEF Alternates
  <2>3. i < k + d /\ k + d < j
    BY <1>2, <2>2
  <2> QED BY <1>4, <2>2, <2>3
<1> QED BY <1>5, <1>6 DEF Alternates

\* A step that says nothing of the channel or of the microphone.
LEMMA LikeChannel ==
  ASSUME NEW up, NEW q \in Seq(MediaTasks), NEW q2 \in Seq(MediaTasks),
         NEW o \in Seq(MediaTasks), NEW o2 \in Seq(MediaTasks),
         NEW n \in Seq(NetTasks), NEW n2 \in Seq(NetTasks), NEW t, NEW s, NEW s2,
         Like(q, q2, "dcState"), Like(o, o2, "dcMessage"), Like(n, n2, "dcSend"),
         s2.dcOpen = s.dcOpen, s2.mute = s.mute,
         ChannelOf(up, q, n, o, t, s)
  PROVE  ChannelOf(up, q2, n2, o2, t, s2)
<1>1. /\ Corrected(q2, "dcState", up)
      /\ Has(q2, "dcState", up) <=> Has(q, "dcState", up)
      /\ Has(q2, "dcState", TRUE) <=> Has(q, "dcState", TRUE)
  BY LikeSays DEF ChannelOf
<1>2. Alternates(q2, s2.dcOpen)
  BY LikeAlternates DEF ChannelOf
<1>3. LastWord(n, o, t, s.mute) => LastWord(n2, o2, t, s2.mute)
  <2>1. /\ Has(n2, "dcSend", s.mute) <=> Has(n, "dcSend", s.mute)
        /\ Corrected(n, "dcSend", s.mute) => Corrected(n2, "dcSend", s.mute)
    BY LikeSays
  <2>2. /\ Has(o2, "dcMessage", s.mute) <=> Has(o, "dcMessage", s.mute)
        /\ Corrected(o, "dcMessage", s.mute) => Corrected(o2, "dcMessage", s.mute)
    BY LikeSays
  <2> QED BY <2>1, <2>2 DEF LastWord
<1> QED BY <1>1, <1>2, <1>3 DEF ChannelOf

\* A task that says f comes last.
LEMMA SaidLast ==
  ASSUME NEW S, NEW q \in Seq(S), NEW t \in S, NEW op, NEW f, Says(t, op, f)
  PROVE  LET r == Append(q, t)
         IN Has(r, op, f) /\ Corrected(r, op, f)
<1> DEFINE r == Append(q, t)
<1>1. /\ Len(q) \in Nat /\ DOMAIN q = 1..Len(q) /\ DOMAIN r = 1..(Len(q) + 1)
      /\ \A i \in 1..Len(q) : r[i] = q[i]
      /\ r[Len(q) + 1] = t
  BY QueueIndex, AppendProperties
<1> HIDE DEF r
<1>2. Len(q) + 1 \in DOMAIN r /\ Says(r[Len(q) + 1], op, f)
  BY <1>1
<1>3. ASSUME NEW i \in DOMAIN r, Says(r[i], op, ~f)
      PROVE  i < Len(q) + 1
  <2>1. i # Len(q) + 1
    BY <1>2, <1>3 DEF Says
  <2> QED BY <1>1, <2>1
<1> QED BY <1>2, <1>3 DEF Has, Corrected, r

\* The first task is taken.
LEMMA SaidFirst ==
  ASSUME NEW S, NEW q \in Seq(S), q # <<>>, NEW op, NEW f, Corrected(q, op, f)
  PROVE  LET r == Tail(q)
         IN /\ Corrected(r, op, f)
            /\ Says(q[1], op, ~f) => Has(r, op, f)
            /\ Has(q, op, f) => Has(r, op, f) \/ Says(q[1], op, f)
<1> DEFINE r == Tail(q)
<1>1. /\ r \in Seq(S) /\ Len(q) \in Nat /\ Len(q) > 0 /\ Len(r) = Len(q) - 1
      /\ \A i \in 1..(Len(q) - 1) : r[i] = q[i + 1]
  BY Taken
<1> HIDE DEF r
<1>2. DOMAIN q = 1..Len(q) /\ DOMAIN r = 1..(Len(q) - 1)
  BY <1>1, QueueIndex
<1>3. ASSUME NEW k \in DOMAIN q, k > 1
      PROVE  k - 1 \in DOMAIN r /\ r[k - 1] = q[k]
  <2>1. k - 1 \in 1..(Len(q) - 1) /\ (k - 1) + 1 = k
    BY <1>1, <1>2, <1>3
  <2> QED BY <1>1, <1>2, <2>1
<1>4. ASSUME NEW i \in DOMAIN r, Says(r[i], op, ~f)
      PROVE  \E k \in DOMAIN r : k > i /\ Says(r[k], op, f)
  <2>1. i + 1 \in DOMAIN q /\ Says(q[i + 1], op, ~f) /\ i \in Nat
    BY <1>1, <1>2, <1>4
  <2>2. PICK k \in DOMAIN q : k > i + 1 /\ Says(q[k], op, f)
    BY <2>1 DEF Corrected
  <2>3. k > 1 /\ k - 1 > i
    BY <1>1, <1>2, <2>1, <2>2
  <2> QED BY <1>3, <2>2, <2>3
<1>5. ASSUME Says(q[1], op, ~f) PROVE Has(r, op, f)
  <2>1. 1 \in DOMAIN q
    BY <1>1, <1>2
  <2>2. PICK k \in DOMAIN q : k > 1 /\ Says(q[k], op, f)
    BY <1>5, <2>1 DEF Corrected
  <2> QED BY <1>3, <2>2 DEF Has
<1>6. ASSUME Has(q, op, f), ~Says(q[1], op, f) PROVE Has(r, op, f)
  <2>1. PICK k \in DOMAIN q : Says(q[k], op, f)
    BY <1>6 DEF Has
  <2>2. k > 1
    BY <1>1, <1>2, <1>6, <2>1
  <2> QED BY <1>3, <2>1, <2>2 DEF Has
<1> QED BY <1>4, <1>5, <1>6 DEF Corrected, r

\* A peer takes note that the channel opened or closed.
LEMMA AlternatesTaken ==
  ASSUME NEW q \in Seq(MediaTasks), q # <<>>, q[1].op = "dcState", NEW open, Alternates(q, open)
  PROVE  /\ Alternates(Tail(q), q[1].flag)
         /\ q[1].flag = TRUE => ~open
<1> DEFINE r == Tail(q)
<1>1. /\ r \in Seq(MediaTasks) /\ Len(q) \in Nat /\ Len(q) > 0 /\ Len(r) = Len(q) - 1
      /\ \A i \in 1..(Len(q) - 1) : r[i] = q[i + 1]
  BY Taken
<1> HIDE DEF r
<1>2. DOMAIN q = 1..Len(q) /\ DOMAIN r = 1..(Len(q) - 1) /\ 1 \in DOMAIN q
  BY <1>1, QueueIndex
<1>3. q[1].flag \in BOOLEAN
  <2>1. q[1] \in MediaTasks
    BY <1>2, ElementOfSeq
  <2> QED BY <2>1 DEF MediaTasks
<1>4. \A i \in DOMAIN r : i \in Nat /\ i + 1 \in DOMAIN q /\ r[i] = q[i + 1]
  BY <1>1, <1>2
<1>5. ASSUME NEW k \in DOMAIN q, k > 1
      PROVE  k - 1 \in DOMAIN r /\ r[k - 1] = q[k]
  <2>1. k - 1 \in 1..(Len(q) - 1) /\ (k - 1) + 1 = k
    BY <1>1, <1>2, <1>5
  <2> QED BY <1>1, <1>2, <2>1
<1>6. ASSUME NEW i \in DOMAIN q, NEW j \in DOMAIN r, i < j + 1,
             Says(q[i], "dcState", TRUE), Says(r[j], "dcState", TRUE)
      PROVE  \E k \in DOMAIN r : i - 1 < k /\ k < j /\ Says(r[k], "dcState", FALSE)
  <2>1. PICK k \in DOMAIN q : i < k /\ k < j + 1 /\ Says(q[k], "dcState", FALSE)
    BY <1>4, <1>6 DEF Alternates
  <2>2. i \in Nat /\ i > 0 /\ j \in Nat /\ k \in Nat
    BY <1>1, <1>2
  <2>3. k > 1 /\ i - 1 < k - 1 /\ k - 1 < j
    BY <2>1, <2>2
  <2> QED BY <1>5, <2>1, <2>3
<1>7. ASSUME NEW j \in DOMAIN r, Says(r[j], "dcState", TRUE), q[1].flag
      PROVE  \E k \in DOMAIN r : k < j /\ Says(r[k], "dcState", FALSE)
  <2>1. Says(q[1], "dcState", TRUE) /\ 1 < j + 1
    BY <1>1, <1>2, <1>3, <1>7 DEF Says
  <2> QED BY <1>2, <1>6, <1>7, <2>1
<1>8. ASSUME NEW j \in DOMAIN r, Says(r[j], "dcState", TRUE),
             NEW i \in DOMAIN r, i < j, Says(r[i], "dcState", TRUE)
      PROVE  \E k \in DOMAIN r : i < k /\ k < j /\ Says(r[k], "dcState", FALSE)
  <2>1. i + 1 \in DOMAIN q /\ Says(q[i + 1], "dcState", TRUE)
    BY <1>4, <1>8
  <2>2. i + 1 < j + 1 /\ (i + 1) - 1 = i
    BY <1>4, <1>8
  <2>3. \E k \in DOMAIN r : (i + 1) - 1 < k /\ k < j /\ Says(r[k], "dcState", FALSE)
    BY <1>6, <1>8, <2>1, <2>2
  <2> QED BY <2>2, <2>3
<1>9. ASSUME q[1].flag = TRUE, open PROVE FALSE
  <2>1. Says(q[1], "dcState", TRUE)
    BY <1>9 DEF Says
  <2>2. PICK k \in DOMAIN q : k < 1 /\ Says(q[k], "dcState", FALSE)
    BY <1>2, <1>9, <2>1 DEF Alternates
  <2> QED BY <1>1, <1>2, <2>2
<1>10. Alternates(r, q[1].flag)
  BY <1>7, <1>8 DEF Alternates
<1> QED BY <1>9, <1>10 DEF r

\* The channel opens or closes, where it was as up says.
LEMMA AlternatesFlaps ==
  ASSUME NEW q \in Seq(MediaTasks), NEW up \in BOOLEAN, NEW open,
         NEW t \in MediaTasks, Says(t, "dcState", ~up),
         Corrected(q, "dcState", up), open # up => Has(q, "dcState", up), open \in BOOLEAN,
         Alternates(q, open)
  PROVE  Alternates(Append(q, t), open)
<1> DEFINE r == Append(q, t)
<1>1. /\ r \in Seq(MediaTasks) /\ Len(q) \in Nat /\ DOMAIN q = 1..Len(q)
      /\ DOMAIN r = 1..(Len(q) + 1)
      /\ \A i \in 1..Len(q) : r[i] = q[i]
      /\ r[Len(q) + 1] = t
  BY QueueIndex, AppendProperties
<1> HIDE DEF r
<1>2. \A i \in DOMAIN q : i \in DOMAIN r /\ r[i] = q[i] /\ i \in Nat /\ i < Len(q) + 1
  BY <1>1
<1>3. ASSUME NEW j \in DOMAIN r, j = Len(q) + 1, Says(r[j], "dcState", TRUE)
      PROVE  /\ open => \E k \in DOMAIN r : k < j /\ Says(r[k], "dcState", FALSE)
             /\ \A i \in DOMAIN r : i < j /\ Says(r[i], "dcState", TRUE) =>
                  \E k \in DOMAIN r : i < k /\ k < j /\ Says(r[k], "dcState", FALSE)
  <2>1. up = FALSE
    BY <1>1, <1>3 DEF Says
  <2>2. ASSUME open PROVE \E k \in DOMAIN r : k < j /\ Says(r[k], "dcState", FALSE)
    <3>1. PICK k \in DOMAIN q : Says(q[k], "dcState", FALSE)
      BY <2>1, <2>2 DEF Has
    <3> QED BY <1>2, <1>3, <3>1
  <2>3. ASSUME NEW i \in DOMAIN r, i < j, Says(r[i], "dcState", TRUE)
        PROVE  \E k \in DOMAIN r : i < k /\ k < j /\ Says(r[k], "dcState", FALSE)
    <3>1. i \in DOMAIN q
      BY <1>1, <1>3, <2>3
    <3>2. Says(q[i], "dcState", ~up)
      BY <1>2, <2>1, <2>3, <3>1
    <3>3. PICK k \in DOMAIN q : k > i /\ Says(q[k], "dcState", up)
      BY <3>1, <3>2 DEF Corrected
    <3> QED BY <1>1, <1>2, <1>3, <2>1, <3>1, <3>3
  <2> QED BY <2>2, <2>3
<1>4. ASSUME NEW j \in DOMAIN r, j # Len(q) + 1, Says(r[j], "dcState", TRUE)
      PROVE  /\ open => \E k \in DOMAIN r : k < j /\ Says(r[k], "dcState", FALSE)
             /\ \A i \in DOMAIN r : i < j /\ Says(r[i], "dcState", TRUE) =>
                  \E k \in DOMAIN r : i < k /\ k < j /\ Says(r[k], "dcState", FALSE)
  <2>1. j \in DOMAIN q /\ Says(q[j], "dcState", TRUE)
    <3>1. j \in DOMAIN q
      BY <1>1, <1>4
    <3> QED BY <1>2, <1>4, <3>1
  <2>2. open => \E k \in DOMAIN q : k < j /\ Says(q[k], "dcState", FALSE)
    BY <2>1 DEF Alternates
  <2>3. ASSUME NEW i \in DOMAIN r, i < j, Says(r[i], "dcState", TRUE)
        PROVE  \E k \in DOMAIN r : i < k /\ k < j /\ Says(r[k], "dcState", FALSE)
    <3>1. i \in DOMAIN q
      BY <1>1, <2>1, <2>3
    <3>2. Says(q[i], "dcState", TRUE)
      BY <1>2, <2>3, <3>1
    <3>3. PICK k \in DOMAIN q : i < k /\ k < j /\ Says(q[k], "dcState", FALSE)
      BY <2>1, <2>3, <3>1, <3>2 DEF Alternates
    <3> QED BY <1>2, <3>3
  <2> QED BY <1>2, <2>2, <2>3
<1>5. Alternates(r, open)
  BY <1>3, <1>4 DEF Alternates
<1> QED BY <1>5 DEF r

------------------------------------------------------------------------------
(* The steps that say nothing. *)

Unreleased == \A p \in Peers : ~released[p]
Channels == Unreleased => \A p \in Peers : Channel(p)

SaysNothing ==
  /\ \A x \in Peers :
       /\ Like(mediaQ[x], mediaQ'[x], "dcState") /\ Like(mediaQ[x], mediaQ'[x], "dcMessage")
       /\ Like(netQ[x], netQ'[x], "dcSend")
       /\ st'[x].dcOpen = st[x].dcOpen /\ st'[x].mute = st[x].mute
  /\ UNCHANGED <<dcUp, told>>

LEMMA StillSaid ==
  ASSUME V3Types, V3Types', Channels, SaysNothing, Unreleased' => Unreleased
  PROVE  Channels'
<1> SUFFICES ASSUME Unreleased', NEW p \in Peers PROVE Channel(p)'
  BY DEF Channels
<1> DEFINE y == Other(p)
<1>1. y \in Peers
  BY OtherPeer
<1>2. ChannelOf(dcUp, mediaQ[p], netQ[p], mediaQ[y], told[y], st[p])
  BY DEF Channels, Channel
<1>3. /\ mediaQ[p] \in Seq(MediaTasks) /\ mediaQ'[p] \in Seq(MediaTasks)
      /\ mediaQ[y] \in Seq(MediaTasks) /\ mediaQ'[y] \in Seq(MediaTasks)
      /\ netQ[p] \in Seq(NetTasks) /\ netQ'[p] \in Seq(NetTasks)
  BY <1>1 DEF V3Types
<1>4. /\ Like(mediaQ[p], mediaQ'[p], "dcState") /\ Like(mediaQ[y], mediaQ'[y], "dcMessage")
      /\ Like(netQ[p], netQ'[p], "dcSend")
      /\ st'[p].dcOpen = st[p].dcOpen /\ st'[p].mute = st[p].mute
      /\ dcUp' = dcUp /\ told'[y] = told[y]
  BY <1>1 DEF SaysNothing
<1>5. ChannelOf(dcUp, mediaQ'[p], netQ'[p], mediaQ'[y], told[y], st'[p])
  BY <1>2, <1>3, <1>4, LikeChannel
<1> QED BY <1>4, <1>5 DEF Channel

LEMMA SameQueues ==
  ASSUME V3Types
  PROVE  /\ UNCHANGED mediaQ => \A x \in Peers : /\ Like(mediaQ[x], mediaQ'[x], "dcState")
                                                 /\ Like(mediaQ[x], mediaQ'[x], "dcMessage")
         /\ UNCHANGED netQ => \A x \in Peers : Like(netQ[x], netQ'[x], "dcSend")
  BY LikeSame DEF V3Types

LEMMA TookQuietly ==
  ASSUME V3Types, NEW p \in Peers, NEW op, op \notin {"dcState", "dcMessage"}, Takes(p, op)
  PROVE  \A x \in Peers : /\ Like(mediaQ[x], mediaQ'[x], "dcState")
                          /\ Like(mediaQ[x], mediaQ'[x], "dcMessage")
<1>1. /\ mediaQ[p] # <<>> /\ mediaQ'[p] = Tail(mediaQ[p]) /\ mediaQ[p][1].op = op
      /\ \A x \in Peers : x # p => mediaQ'[x] = mediaQ[x]
  BY TypesTakes
<1>2. \A x \in Peers : mediaQ[x] \in Seq(MediaTasks)
  BY DEF V3Types
<1>3. Like(mediaQ[p], mediaQ'[p], "dcState") /\ Like(mediaQ[p], mediaQ'[p], "dcMessage")
  BY <1>1, <1>2, LikeTail
<1> QED BY <1>1, <1>2, <1>3, LikeSame

LEMMA AddedQuietly ==
  ASSUME V3Types, NEW p \in Peers, NEW t \in MediaTasks, t.op \notin {"dcState", "dcMessage"},
         mediaQ' = [mediaQ EXCEPT ![p] = Append(@, t)]
  PROVE  \A x \in Peers : /\ Like(mediaQ[x], mediaQ'[x], "dcState")
                          /\ Like(mediaQ[x], mediaQ'[x], "dcMessage")
<1>1. /\ mediaQ'[p] = Append(mediaQ[p], t)
      /\ \A x \in Peers : x # p => mediaQ'[x] = mediaQ[x]
  BY TypesAppend
<1>2. \A x \in Peers : mediaQ[x] \in Seq(MediaTasks)
  BY DEF V3Types
<1>3. Like(mediaQ[p], mediaQ'[p], "dcState") /\ Like(mediaQ[p], mediaQ'[p], "dcMessage")
  BY <1>1, <1>2, LikeAppend
<1> QED BY <1>1, <1>2, <1>3, LikeSame

LEMMA PostedQuietly ==
  ASSUME V3Types, NEW p \in Peers, NEW m \in Seq(NetTasks), PostNet(p, m),
         \A i \in 1..Len(m) : m[i].op # "dcSend"
  PROVE  \A x \in Peers : Like(netQ[x], netQ'[x], "dcSend")
<1>1. /\ netQ'[p] = netQ[p] \o m
      /\ \A x \in Peers : x # p => netQ'[x] = netQ[x]
  BY TypesPost
<1>2. \A x \in Peers : netQ[x] \in Seq(NetTasks)
  BY DEF V3Types
<1>3. \A i \in DOMAIN m : m[i].op # "dcSend"
  BY QueueIndex
<1>4. Like(netQ[p], netQ'[p], "dcSend")
  BY <1>1, <1>2, <1>3, LikeConcat
<1> QED BY <1>1, <1>2, <1>4, LikeSame

LEMMA NetTookQuietly ==
  ASSUME V3Types, NEW p \in Peers, NEW op, op # "dcSend", NetTakes(p, op)
  PROVE  \A x \in Peers : Like(netQ[x], netQ'[x], "dcSend")
<1>1. /\ netQ[p] # <<>> /\ netQ'[p] = Tail(netQ[p]) /\ netQ[p][1].op = op
      /\ \A x \in Peers : x # p => netQ'[x] = netQ[x]
  BY TypesNetTakes
<1>2. \A x \in Peers : netQ[x] \in Seq(NetTasks)
  BY DEF V3Types
<1>3. Like(netQ[p], netQ'[p], "dcSend")
  BY <1>1, <1>2, LikeTail
<1> QED BY <1>1, <1>2, <1>3, LikeSame

\* What a negotiation leaves alone, and what it makes of the outgoing channel.
LEMMA NegotiateKeeps ==
  ASSUME NEW p \in Peers, NEW exchange, NEW o \in BOOLEAN, st[p] \in Members,
         NEW madeIn \in BOOLEAN, NEW madeOut \in BOOLEAN
  PROVE  LET s == NegotiationOf(p, exchange, o, madeIn, madeOut)
         IN /\ s.dcOpen = st[p].dcOpen /\ s.mute = st[p].mute
            /\ s.out = st[p].out \/ s.out = OutgoingAudioChannel(st[p].mute, madeOut)
<1> DEFINE Same(a, b) == a.dcOpen = b.dcOpen /\ a.mute = b.mute /\ a.out = b.out
           m == Negotiated(p, exchange).s
           heard == Negotiated(p, exchange).heard
           x == [m EXCEPT !.offered = @ \/ o]
           s == NegotiatedChannels(x, heard, madeIn, madeOut)
<1>1. m \in Members /\ Same(m, st[p])
  <2>1. /\ [st[p] EXCEPT !.offered = FALSE, !.need = FALSE] \in Members
        /\ [st[p] EXCEPT !.offered = FALSE] \in Members
    BY MembersSet
  <2>2. /\ Same([st[p] EXCEPT !.offered = FALSE, !.need = FALSE], st[p])
        /\ Same([st[p] EXCEPT !.offered = FALSE], st[p])
    BY DEF Members
  <2>3. \/ m = [st[p] EXCEPT !.offered = FALSE, !.need = FALSE]
        \/ m = st[p]
        \/ m = [st[p] EXCEPT !.offered = FALSE]
    BY DEF Negotiated
  <2> HIDE DEF m
  <2> QED BY <2>1, <2>2, <2>3
<1> HIDE DEF m, heard
<1>2. x \in Members /\ Same(x, m)
  BY <1>1 DEF Members
<1> HIDE DEF x
<1>3. Same(s, x) \/ (s.dcOpen = x.dcOpen /\ s.mute = x.mute
                     /\ s.out = OutgoingAudioChannel(x.mute, madeOut))
  BY <1>2 DEF NegotiatedChannels, Members
<1> HIDE DEF s
<1>4. /\ s.dcOpen = st[p].dcOpen /\ s.mute = st[p].mute
      /\ s.out = st[p].out \/ s.out = OutgoingAudioChannel(st[p].mute, madeOut)
  BY <1>1, <1>2, <1>3
<1> QED BY <1>4 DEF s, x, m, heard, NegotiationOf

LEMMA OpsConcat ==
  ASSUME NEW a \in Seq(NetTasks), NEW b \in Seq(NetTasks), NEW ops,
         \A i \in 1..Len(a) : a[i].op \notin ops, \A i \in 1..Len(b) : b[i].op \notin ops
  PROVE  a \o b \in Seq(NetTasks) /\ \A i \in 1..Len(a \o b) : (a \o b)[i].op \notin ops
<1>1. /\ a \o b \in Seq(NetTasks) /\ Len(a \o b) = Len(a) + Len(b)
      /\ Len(a) \in Nat /\ Len(b) \in Nat
      /\ \A i \in 1..Len(a) : (a \o b)[i] = a[i]
      /\ \A i \in 1..Len(b) : (a \o b)[Len(a) + i] = b[i]
  BY ConcatProperties, LenProperties
<1>2. ASSUME NEW i \in 1..Len(a \o b) PROVE (a \o b)[i].op \notin ops
  <2>1. CASE i \in 1..Len(a)
    BY <1>1, <2>1
  <2>2. CASE i > Len(a)
    <3>1. i - Len(a) \in 1..Len(b) /\ i = Len(a) + (i - Len(a))
      BY <1>1, <2>2
    <3>2. (a \o b)[i] = b[i - Len(a)]
      BY <1>1, <3>1
    <3> QED BY <3>1, <3>2
  <2> QED BY <1>1, <2>1, <2>2
<1> QED BY <1>1, <1>2

LEMMA DeliverIndex ==
  ASSUME V3Types, NEW p \in Peers, Deliver(p)
  PROVE  \A i \in 1..(IF sctp THEN 1 ELSE Len(chan[p])) : i \in 1..Len(chan[p])
<1>1. chan[p] \in Seq(Messages) /\ chan[p] # <<>> /\ Len(chan[p]) \in Nat /\ Len(chan[p]) > 0
  BY LenProperties, EmptySeq DEF V3Types, Deliver
<1>2. CASE sctp
  BY <1>1, <1>2
<1>3. CASE ~sctp
  BY <1>1, <1>3
<1> QED BY <1>2, <1>3

LEMMA NegotiatedStep ==
  ASSUME V3Types, NEW p \in Peers, ProcessNegotiate(p)
  PROVE  \A x \in Peers :
           /\ st'[x].dcOpen = st[x].dcOpen /\ st'[x].mute = st[x].mute
           /\ \/ st'[x].out = st[x].out
              \/ \E made \in BOOLEAN : st'[x].out = OutgoingAudioChannel(st[x].mute, made)
<1> DEFINE exchange == Head(mediaQ[p]).msg.exchange
           n == Negotiated(p, exchange)
           offers == MustOffer(n.s)
<1>1. st \in [Peers -> Members] /\ st[p] \in Members
  BY DEF V3Types
<1>2. CASE ~st[p].ready
  BY <1>2 DEF ProcessNegotiate
<1>3. CASE st[p].ready
  <2>1. PICK madeIn \in BOOLEAN, madeOut \in BOOLEAN :
          st' = [st EXCEPT ![p] = NegotiationOf(p, exchange, offers, madeIn, madeOut)]
    BY <1>3 DEF ProcessNegotiate, NegotiationOf
  <2> DEFINE s == NegotiationOf(p, exchange, offers, madeIn, madeOut)
  <2>2. /\ s.dcOpen = st[p].dcOpen /\ s.mute = st[p].mute
        /\ s.out = st[p].out \/ s.out = OutgoingAudioChannel(st[p].mute, madeOut)
    <3>1. offers \in BOOLEAN
      BY DEF MustOffer
    <3> QED BY <1>1, <3>1, NegotiateKeeps
  <2>3. st' = [st EXCEPT ![p] = s]
    BY <2>1
  <2> HIDE DEF s
  <2> QED BY <1>1, <2>2, <2>3
<1> QED BY <1>2, <1>3

\* The members that no step but those of the channel and of the microphone touch.
LEMMA FlagsKept ==
  ASSUME V3Types, NEW p \in Peers,
         \/ Start(p) \/ BeginSignaling(p) \/ SendSetup(p) \/ ProcessSetup(p)
         \/ ProcessCandidates(p) \/ Shutdown(p) \/ NetThread(p) \/ EmitLocalCandidate(p)
         \/ Deliver(p) \/ SetMute(p) \/ Release(p) \/ Flap \/ GateClosed(p)
         \/ DataChannelMessage(p)
  PROVE  \A x \in Peers : /\ st'[x].dcOpen = st[x].dcOpen /\ st'[x].mute = st[x].mute
                          /\ st'[x].out = st[x].out
<1> SUFFICES ASSUME NEW x \in Peers
             PROVE  /\ st'[x].dcOpen = st[x].dcOpen /\ st'[x].mute = st[x].mute
                    /\ st'[x].out = st[x].out
  OBVIOUS
<1>1. st \in [Peers -> Members] /\ st[p] \in Members
  BY DEF V3Types
<1>2. CASE Start(p)
  <2>1. st' = st \/ st' = [st EXCEPT ![p] = [st[p] EXCEPT !.ready = TRUE, !.need = TRUE]]
    BY <1>2 DEF Start, SetUpMediaPipeline
  <2> QED BY ZenonT(30), <1>1, <2>1 DEF Members
<1>3. CASE BeginSignaling(p)
  BY <1>1, <1>3 DEF BeginSignaling, Members
<1>4. CASE ProcessSetup(p)
  BY <1>1, <1>4 DEF ProcessSetup, Members
<1>5. CASE ProcessCandidates(p)
  BY <1>1, <1>5 DEF ProcessCandidates, Members
<1>6. CASE Shutdown(p)
  BY <1>1, <1>6 DEF Shutdown, Members
<1>7. CASE UNCHANGED st
  BY <1>7
<1> QED
  BY <1>2, <1>3, <1>4, <1>5, <1>6, <1>7
     DEF SendSetup, NetThread, NetworkingTask, LocalParams, DataChannelSend, Fence,
         EmitLocalCandidate, Deliver, SetMute, Release, Flap, GateClosed, DataChannelMessage

\* What those steps post on the network thread: neither words nor a stop.
LEMMA MediaPosts ==
  ASSUME V3Types, NEW p \in Peers, netQ' # netQ,
         \/ Start(p) \/ BeginSignaling(p) \/ SendSetup(p) \/ ProcessSetup(p)
         \/ ProcessCandidates(p) \/ ProcessNegotiate(p)
  PROVE  \E m \in Seq(NetTasks) :
           PostNet(p, m) /\ \A i \in 1..Len(m) : m[i].op \notin {"dcSend", "stop"}
<1>0. st[p] \in Members
  BY DEF V3Types
<1>1. CASE Start(p)
  <2> DEFINE m == <<Task("start")>>
  <2>1. m \in Seq(NetTasks) /\ Len(m) = 1 /\ m[1].op = "start"
    BY TaskTypes DEF NetOps
  <2>2. PostNet(p, m)
    BY <1>1 DEF Start
  <2> HIDE DEF m
  <2>3. \A i \in 1..Len(m) : m[i].op \notin {"dcSend", "stop"}
    BY <2>1
  <2> QED BY <2>1, <2>2, <2>3
<1>2. CASE BeginSignaling(p)
  <2> DEFINE m == SetupTasks(st[p])
  <2>1. PostNet(p, m)
    BY <1>2 DEF BeginSignaling
  <2>2. m \in Seq(NetTasks) /\ \A i \in 1..Len(m) : m[i].op = "params"
    BY SetupTypes
  <2> HIDE DEF m
  <2> QED BY <2>1, <2>2
<1>3. CASE ProcessSetup(p)
  <2> DEFINE a == <<Task("setRemote")>>
             b == IF p = "callee" THEN SetupTasks(st[p]) ELSE <<>>
             c == CommitTasks(st[p].pending)
             m == a \o b \o c
             ops == {"dcSend", "stop"}
  <2>1. PostNet(p, m)
    BY <1>3 DEF ProcessSetup
  <2>2. a \in Seq(NetTasks) /\ Len(a) = 1 /\ a[1].op = "setRemote"
    BY TaskTypes DEF NetOps
  <2>3. b \in Seq(NetTasks) /\ \A i \in 1..Len(b) : b[i].op = "params"
    BY SetupTypes, EmptySeq
  <2>4. c \in Seq(NetTasks) /\ \A i \in 1..Len(c) : c[i].op = "add"
    BY <1>0, CommitTypes DEF Members
  <2> HIDE DEF a, b, c
  <2>5. /\ \A i \in 1..Len(a) : a[i].op \notin ops
        /\ \A i \in 1..Len(b) : b[i].op \notin ops
        /\ \A i \in 1..Len(c) : c[i].op \notin ops
    BY <2>2, <2>3, <2>4
  <2>6. a \o b \in Seq(NetTasks) /\ \A i \in 1..Len(a \o b) : (a \o b)[i].op \notin ops
    BY <2>2, <2>3, <2>5, OpsConcat
  <2>7. m \in Seq(NetTasks) /\ \A i \in 1..Len(m) : m[i].op \notin ops
    BY <2>4, <2>5, <2>6, OpsConcat
  <2> QED BY <2>1, <2>7
<1>4. CASE ProcessCandidates(p)
  <2> DEFINE k == st[p].pending + 1
             m == CommitTasks(k)
  <2>1. PostNet(p, m) /\ k \in Nat
    BY <1>0, <1>4 DEF ProcessCandidates, Members
  <2> HIDE DEF k
  <2>2. m \in Seq(NetTasks) /\ \A i \in 1..Len(m) : m[i].op = "add"
    BY <2>1, CommitTypes
  <2> HIDE DEF m
  <2> QED BY <2>1, <2>2
<1> QED BY <1>1, <1>2, <1>3, <1>4 DEF SendSetup, ProcessNegotiate

\* The steps of a peer's media thread before it shuts down, but the three that have to do
\* with the channel, and those of its network thread that send no word.
LEMMA QuietMedia ==
  ASSUME V3Types, NEW p \in Peers,
         \/ Start(p) \/ BeginSignaling(p) \/ SendSetup(p) \/ ProcessSetup(p)
         \/ ProcessCandidates(p) \/ ProcessNegotiate(p)
  PROVE  SaysNothing
<1>0. st[p] \in Members /\ UNCHANGED <<dcUp, told>>
  BY DEF V3Types, Start, BeginSignaling, SendSetup, ProcessSetup, ProcessCandidates,
         ProcessNegotiate
<1>1. \A x \in Peers : /\ Like(mediaQ[x], mediaQ'[x], "dcState")
                       /\ Like(mediaQ[x], mediaQ'[x], "dcMessage")
  <2>1. CASE BeginSignaling(p)
    BY <2>1, SameQueues DEF BeginSignaling
  <2>2. CASE ~BeginSignaling(p)
    <3>1. PICK op \in {"start", "params", "data"} : Takes(p, op)
      BY <2>2 DEF Start, SendSetup, ProcessSetup, ProcessCandidates, ProcessNegotiate
    <3> QED BY <3>1, TookQuietly
  <2> QED BY <2>1, <2>2
<1>2. \A x \in Peers : Like(netQ[x], netQ'[x], "dcSend")
  <2>1. CASE UNCHANGED netQ
    BY <2>1, SameQueues
  <2>2. CASE netQ' # netQ
    <3>1. PICK m \in Seq(NetTasks) :
            PostNet(p, m) /\ \A i \in 1..Len(m) : m[i].op \notin {"dcSend", "stop"}
      BY <2>2, MediaPosts
    <3> QED BY <3>1, PostedQuietly
  <2> QED BY <2>1, <2>2
<1>3. \A x \in Peers : st'[x].dcOpen = st[x].dcOpen /\ st'[x].mute = st[x].mute
  <2>1. CASE ProcessNegotiate(p)
    BY <1>0, <2>1, NegotiatedStep DEF V3Types
  <2>2. CASE ~ProcessNegotiate(p)
    BY <2>2, FlagsKept
  <2> QED BY <2>1, <2>2
<1> QED BY <1>0, <1>1, <1>2, <1>3 DEF SaysNothing

LEMMA QuietNet ==
  ASSUME V3Types, NEW p \in Peers,
         \/ NetworkingTask(p) \/ LocalParams(p) \/ Fence(p) \/ EmitLocalCandidate(p)
         \/ Deliver(p) \/ SetMute(p)
  PROVE  SaysNothing
<1>0. UNCHANGED <<dcUp, told>>
  BY DEF NetworkingTask, LocalParams, Fence, EmitLocalCandidate, Deliver, SetMute
<1>1. \A x \in Peers : /\ Like(mediaQ[x], mediaQ'[x], "dcState")
                       /\ Like(mediaQ[x], mediaQ'[x], "dcMessage")
  <2>1. CASE UNCHANGED mediaQ
    BY <2>1, SameQueues
  <2>2. CASE mediaQ' # mediaQ
    <3>1. PICK t \in MediaTasks : t.op \notin {"dcState", "dcMessage"}
                                  /\ mediaQ' = [mediaQ EXCEPT ![p] = Append(@, t)]
      <4>1. CASE LocalParams(p)
        <5>1. Task("params") \in MediaTasks /\ Task("params").op = "params"
          BY TaskTypes DEF MediaOps, Gated
        <5> QED BY <4>1, <5>1 DEF LocalParams
      <4>2. CASE SetMute(p)
        <5>1. PICK f \in BOOLEAN : mediaQ' = [mediaQ EXCEPT ![p] = Append(@, FlagTask("mute", f))]
          BY <4>2 DEF SetMute
        <5>2. FlagTask("mute", f) \in MediaTasks /\ FlagTask("mute", f).op = "mute"
          BY FlagTaskTypes DEF MediaOps
        <5> QED BY <5>1, <5>2
      <4>3. CASE Deliver(p)
        <5>1. PICK i \in 1..Len(chan[p]) :
                mediaQ' = [mediaQ EXCEPT ![p] = Append(@, DataTask(chan[p][i]))]
          BY <4>3, DeliverIndex DEF Deliver
        <5>2. chan[p][i] \in Messages
          BY ElementOfSeq DEF V3Types
        <5>3. DataTask(chan[p][i]) \in MediaTasks /\ DataTask(chan[p][i]).op = "data"
          BY <5>2, DataTaskTypes
        <5> QED BY <5>1, <5>3
      <4> QED BY <2>2, <4>1, <4>2, <4>3 DEF NetworkingTask, Fence, EmitLocalCandidate
    <3> QED BY <3>1, AddedQuietly
  <2> QED BY <2>1, <2>2
<1>2. \A x \in Peers : Like(netQ[x], netQ'[x], "dcSend")
  <2>1. CASE UNCHANGED netQ
    BY <2>1, SameQueues
  <2>2. CASE netQ' # netQ
    <3>1. PICK op \in {"start", "setRemote", "add", "stop", "params", "fence"} : NetTakes(p, op)
      BY <2>2 DEF NetworkingTask, LocalParams, Fence, EmitLocalCandidate, Deliver, SetMute
    <3> QED BY <3>1, NetTookQuietly
  <2> QED BY <2>1, <2>2
<1>3. \A x \in Peers : st'[x].dcOpen = st[x].dcOpen /\ st'[x].mute = st[x].mute
  BY FlagsKept DEF NetThread
<1> QED BY <1>0, <1>1, <1>2, <1>3 DEF SaysNothing

------------------------------------------------------------------------------
(* The steps that have to do with the channel or with the microphone. *)

LEMMA TwoPeers ==
  ASSUME NEW p \in Peers
  PROVE  /\ Other(p) \in Peers /\ Other(p) # p /\ Other(Other(p)) = p
         /\ \A x \in Peers : x = p \/ x = Other(p)
<1>1. Other(p) \in Peers /\ Other(p) # p
  BY OtherPeer
<1>2. Other(Other(p)) \in Peers /\ Other(Other(p)) # Other(p)
  BY <1>1, OtherPeer
<1> QED BY <1>1, <1>2 DEF Peers

\* A released peer is one that stops: while nobody is released everybody works.
LEMMA UnreleasedWorks ==
  ASSUME V3Inv, NEW p \in Peers, ~released[p]
  PROVE  NoStop(mediaQ[p]) /\ Working(pc[p], st[p], stopped[p], freed[p])
  BY DEF V3Inv, PeerInv, Life, LifeOf

LEMMA TookFromChannel ==
  ASSUME V3Types, NEW p \in Peers, NEW op, Takes(p, op)
  PROVE  /\ mediaQ[p] \in Seq(MediaTasks) /\ mediaQ[p] # <<>>
         /\ mediaQ[p][1].op = op /\ mediaQ[p][1].flag \in BOOLEAN
         /\ Head(mediaQ[p]) = mediaQ[p][1]
         /\ mediaQ'[p] = Tail(mediaQ[p]) /\ Tail(mediaQ[p]) \in Seq(MediaTasks)
         /\ \A x \in Peers : x # p => mediaQ'[x] = mediaQ[x]
<1>1. /\ mediaQ[p] # <<>> /\ mediaQ'[p] = Tail(mediaQ[p])
      /\ Head(mediaQ[p]) \in MediaTasks /\ mediaQ[p][1].op = op
      /\ \A x \in Peers : x # p => mediaQ'[x] = mediaQ[x]
  BY TypesTakes
<1>2. mediaQ[p] \in Seq(MediaTasks)
  BY DEF V3Types
<1>3. Head(mediaQ[p]) = mediaQ[p][1] /\ Tail(mediaQ[p]) \in Seq(MediaTasks)
  BY <1>1, <1>2, Taken
<1> QED BY <1>1, <1>2, <1>3 DEF MediaTasks

\* A word on the microphone, posted behind all others.
LEMMA WordPosted ==
  ASSUME NEW n \in Seq(NetTasks), NEW s \in Members, s.dcOpen, NEW o, NEW t
  PROVE  LastWord(n \o MediaStateTasks(s), o, t, s.mute)
<1> DEFINE w == FlagTask("dcSend", s.mute)
<1>1. w \in NetTasks /\ Says(w, "dcSend", s.mute)
  <2>1. s.mute \in BOOLEAN
    BY DEF Members
  <2>2. w \in NetTasks /\ w.op = "dcSend"
    BY <2>1, FlagTaskTypes DEF NetOps
  <2> QED BY <2>1, <2>2 DEF FlagTask, Task, Says
<1>2. n \o MediaStateTasks(s) = Append(n, w)
  <2>1. MediaStateTasks(s) = <<w>>
    BY DEF MediaStateTasks
  <2> HIDE DEF w
  <2> QED BY <1>1, <2>1
<1> HIDE DEF w
<1>3. Has(Append(n, w), "dcSend", s.mute) /\ Corrected(Append(n, w), "dcSend", s.mute)
  BY <1>1, SaidLast
<1> QED BY <1>2, <1>3 DEF LastWord

\* A queue that has a task taken from it that says nothing of the channel.
LEMMA ChannelQuietly ==
  ASSUME NEW up, NEW q \in Seq(MediaTasks), NEW q2 \in Seq(MediaTasks),
         NEW n \in Seq(NetTasks), NEW o \in Seq(MediaTasks), NEW o2 \in Seq(MediaTasks),
         NEW t, NEW s, ChannelOf(up, q, n, o, t, s),
         Like(q, q2, "dcState"), Like(o, o2, "dcMessage")
  PROVE  ChannelOf(up, q2, n, o2, t, s)
<1>1. Like(n, n, "dcSend")
  BY LikeSame
<1> QED BY <1>1, LikeChannel

\* The opening is answered: it is the first a peer notes, for it knew the channel closed.
LEMMA StateOf ==
  ASSUME NEW up \in BOOLEAN, NEW q \in Seq(MediaTasks), q # <<>>, q[1].op = "dcState",
         q[1].flag \in BOOLEAN, NEW n \in Seq(NetTasks), NEW o, NEW t,
         NEW s \in Members, NEW s2 \in Members, s2.dcOpen = q[1].flag, s2.mute = s.mute,
         NEW n2, n2 = n \o (IF q[1].flag /\ ~s.dcOpen THEN MediaStateTasks(s2) ELSE <<>>),
         ChannelOf(up, q, n, o, t, s)
  PROVE  ChannelOf(up, Tail(q), n2, o, t, s2)
<1> DEFINE r == Tail(q)
<1>1. Corrected(q, "dcState", up) /\ Alternates(q, s.dcOpen)
  BY DEF ChannelOf
<1>2. /\ Corrected(r, "dcState", up)
      /\ Says(q[1], "dcState", ~up) => Has(r, "dcState", up)
  BY <1>1, SaidFirst
<1>3. Alternates(r, s2.dcOpen) /\ (q[1].flag = TRUE => ~s.dcOpen)
  BY <1>1, AlternatesTaken
<1> HIDE DEF r
<1>4. s2.dcOpen # up => Has(r, "dcState", up)
  BY <1>2 DEF Says
<1>5. ASSUME up, ~Has(r, "dcState", TRUE) PROVE LastWord(n2, o, t, s2.mute)
  <2>1. up = TRUE /\ ~Has(r, "dcState", up)
    BY <1>5
  <2>2. s2.dcOpen = TRUE /\ q[1].flag = TRUE
    BY <1>4, <2>1
  <2>3. n2 = n \o MediaStateTasks(s2)
    BY <1>3, <2>2
  <2> QED BY <2>2, <2>3, WordPosted
<1> QED BY <1>2, <1>3, <1>4, <1>5 DEF ChannelOf, r

LEMMA DataChannelStateSays ==
  ASSUME V3Types, V3Types', dcUp \in BOOLEAN, NEW p \in Peers, DataChannelState(p), Channels
  PROVE  Channels'
<1> DEFINE y == Other(p)
           q == mediaQ[p]
<1> SUFFICES ASSUME Unreleased' PROVE Channel(p)' /\ Channel(y)'
  BY TwoPeers DEF Channels
<1>1. y \in Peers /\ y # p /\ Other(y) = p
  BY TwoPeers
<1>2. UNCHANGED <<dcUp, told, released>> /\ Takes(p, "dcState")
  BY DEF DataChannelState
<1>3. ChannelOf(dcUp, mediaQ[p], netQ[p], mediaQ[y], told[y], st[p])
      /\ ChannelOf(dcUp, mediaQ[y], netQ[y], mediaQ[p], told[p], st[y])
  BY <1>1, <1>2 DEF Channels, Channel, Unreleased
<1>4. /\ q \in Seq(MediaTasks) /\ q # <<>> /\ q[1].op = "dcState" /\ q[1].flag \in BOOLEAN
      /\ Head(q) = q[1] /\ mediaQ'[p] = Tail(q) /\ Tail(q) \in Seq(MediaTasks)
      /\ mediaQ'[y] = mediaQ[y] /\ Like(q, Tail(q), "dcMessage")
  <2>1. /\ q \in Seq(MediaTasks) /\ q # <<>> /\ q[1].op = "dcState" /\ q[1].flag \in BOOLEAN
        /\ Head(q) = q[1] /\ mediaQ'[p] = Tail(q) /\ Tail(q) \in Seq(MediaTasks)
        /\ \A x \in Peers : x # p => mediaQ'[x] = mediaQ[x]
    BY <1>2, TookFromChannel
  <2>2. Like(q, Tail(q), "dcMessage")
    BY <2>1, LikeTail
  <2> QED BY <1>1, <2>1, <2>2
<1>5. /\ st[p] \in Members /\ st'[p] \in Members /\ mediaQ[y] \in Seq(MediaTasks)
      /\ netQ[p] \in Seq(NetTasks) /\ netQ[y] \in Seq(NetTasks)
  BY <1>1 DEF V3Types
<1>6. /\ st'[p] = [st[p] EXCEPT !.dcOpen = Head(q).flag] /\ st'[y] = st[y]
      /\ netQ'[y] = netQ[y]
      /\ netQ'[p] = netQ[p] \o (IF q[1].flag /\ ~st[p].dcOpen
                                THEN MediaStateTasks(st'[p]) ELSE <<>>)
  <2>1. /\ st' = [st EXCEPT ![p] = [st[p] EXCEPT !.dcOpen = Head(q).flag]]
        /\ netQ' = [netQ EXCEPT ![p] = @ \o
             (IF Head(q).flag /\ ~st[p].dcOpen
              THEN MediaStateTasks([st[p] EXCEPT !.dcOpen = Head(q).flag]) ELSE <<>>)]
    BY DEF DataChannelState, PostNet
  <2>2. st'[p] = [st[p] EXCEPT !.dcOpen = Head(q).flag]
    BY <2>1 DEF V3Types
  <2> QED BY <1>1, <1>4, <2>1, <2>2 DEF V3Types
<1>7. st'[p].dcOpen = q[1].flag /\ st'[p].mute = st[p].mute
  BY <1>4, <1>5, <1>6 DEF Members
<1>8. ChannelOf(dcUp, Tail(q), netQ'[p], mediaQ[y], told[y], st'[p])
  BY <1>3, <1>4, <1>5, <1>6, <1>7, StateOf
<1>9. ChannelOf(dcUp, mediaQ[y], netQ[y], Tail(q), told[p], st[y])
  <2>1. Like(mediaQ[y], mediaQ[y], "dcState")
    BY <1>5, LikeSame
  <2> QED BY <1>3, <1>4, <1>5, <2>1, ChannelQuietly
<1> QED BY <1>1, <1>2, <1>4, <1>6, <1>8, <1>9 DEF Channel

\* A peer is told: what it now knows is the last word, unless a later one waits.
LEMMA MessageOf ==
  ASSUME NEW n, NEW o \in Seq(MediaTasks), o # <<>>, o[1].op = "dcMessage",
         o[1].flag \in BOOLEAN, NEW m \in BOOLEAN, NEW t, LastWord(n, o, t, m)
  PROVE  LastWord(n, Tail(o), IF o[1].flag THEN "muted" ELSE "open", m)
<1> DEFINE r == Tail(o)
           t2 == IF o[1].flag THEN "muted" ELSE "open"
<1>1. Corrected(n, "dcSend", m)
  BY DEF LastWord
<1>2. ASSUME ~Has(n, "dcSend", m)
      PROVE  Corrected(r, "dcMessage", m)
             /\ (Has(r, "dcMessage", m) \/ t2 = OutgoingAudioChannel(m, TRUE))
  <2>1. Corrected(o, "dcMessage", m)
    BY <1>2 DEF LastWord
  <2>2. /\ Corrected(r, "dcMessage", m)
        /\ Says(o[1], "dcMessage", ~m) => Has(r, "dcMessage", m)
    BY <2>1, SaidFirst
  <2>3. o[1].flag = m => t2 = OutgoingAudioChannel(m, TRUE)
    BY DEF OutgoingAudioChannel
  <2> QED BY <2>2, <2>3 DEF Says
<1> QED BY <1>1, <1>2 DEF LastWord

LEMMA DataChannelMessageSays ==
  ASSUME V3Types, V3Types', NEW p \in Peers, DataChannelMessage(p), Channels,
         told \in [Peers -> {"nothing", "open", "muted"}]
  PROVE  Channels'
<1> DEFINE y == Other(p)
           q == mediaQ[p]
           t == IF q[1].flag THEN "muted" ELSE "open"
<1> SUFFICES ASSUME Unreleased' PROVE Channel(p)' /\ Channel(y)'
  BY TwoPeers DEF Channels
<1>1. y \in Peers /\ y # p /\ Other(y) = p
  BY TwoPeers
<1>2. UNCHANGED <<dcUp, netQ, st, released>> /\ Takes(p, "dcMessage")
  BY DEF DataChannelMessage
<1>3. ChannelOf(dcUp, mediaQ[p], netQ[p], mediaQ[y], told[y], st[p])
      /\ ChannelOf(dcUp, mediaQ[y], netQ[y], mediaQ[p], told[p], st[y])
  BY <1>1, <1>2 DEF Channels, Channel, Unreleased
<1>4. /\ q \in Seq(MediaTasks) /\ q # <<>> /\ q[1].op = "dcMessage" /\ q[1].flag \in BOOLEAN
      /\ Head(q) = q[1] /\ mediaQ'[p] = Tail(q) /\ Tail(q) \in Seq(MediaTasks)
      /\ mediaQ'[y] = mediaQ[y] /\ Like(q, Tail(q), "dcState")
  <2>1. /\ q \in Seq(MediaTasks) /\ q # <<>> /\ q[1].op = "dcMessage" /\ q[1].flag \in BOOLEAN
        /\ Head(q) = q[1] /\ mediaQ'[p] = Tail(q) /\ Tail(q) \in Seq(MediaTasks)
        /\ \A x \in Peers : x # p => mediaQ'[x] = mediaQ[x]
    BY <1>2, TookFromChannel
  <2>2. Like(q, Tail(q), "dcState")
    BY <2>1, LikeTail
  <2> QED BY <1>1, <2>1, <2>2
<1>5. /\ mediaQ[y] \in Seq(MediaTasks) /\ netQ[p] \in Seq(NetTasks) /\ st[y] \in Members
  BY <1>1 DEF V3Types
<1>6. told'[p] = t /\ told'[y] = told[y]
  BY <1>1, <1>4 DEF DataChannelMessage
<1>7. ChannelOf(dcUp, Tail(q), netQ[p], mediaQ[y], told[y], st[p])
  <2>1. Like(mediaQ[y], mediaQ[y], "dcMessage")
    BY <1>5, LikeSame
  <2> QED BY <1>3, <1>4, <1>5, <2>1, ChannelQuietly
<1>8. ChannelOf(dcUp, mediaQ[y], netQ[y], Tail(q), t, st[y])
  <2>1. st[y].mute \in BOOLEAN
    BY <1>5 DEF Members
  <2>2. LastWord(netQ[y], q, told[p], st[y].mute) =>
          LastWord(netQ[y], Tail(q), t, st[y].mute)
    BY <1>4, <2>1, MessageOf
  <2> QED BY <1>3, <2>2 DEF ChannelOf
<1> QED BY <1>1, <1>2, <1>4, <1>6, <1>7, <1>8 DEF Channel

\* A mute that changes something: where the channel is known to be open it is said, and
\* where the channel is up with no opening to be noted, it is known to be open.
LEMMA MuteMicrophoneSays ==
  ASSUME V3Types, V3Types', dcUp \in BOOLEAN, NEW p \in Peers, MuteMicrophone(p), Channels
  PROVE  Channels'
<1> DEFINE y == Other(p)
           q == mediaQ[p]
           f == Head(mediaQ[p]).flag
           s == [st[p] EXCEPT !.mute = f, !.out = OutgoingAudioChannel(f, @ # "none")]
<1> SUFFICES ASSUME Unreleased' PROVE Channel(p)' /\ Channel(y)'
  BY TwoPeers DEF Channels
<1>1. y \in Peers /\ y # p /\ Other(y) = p
  BY TwoPeers
<1>2. UNCHANGED <<dcUp, told, released>> /\ Takes(p, "mute")
  BY DEF MuteMicrophone
<1>3. ChannelOf(dcUp, mediaQ[p], netQ[p], mediaQ[y], told[y], st[p])
      /\ ChannelOf(dcUp, mediaQ[y], netQ[y], mediaQ[p], told[p], st[y])
  BY <1>1, <1>2 DEF Channels, Channel, Unreleased
<1>4. /\ q \in Seq(MediaTasks) /\ q # <<>> /\ mediaQ'[p] = Tail(q)
      /\ Tail(q) \in Seq(MediaTasks) /\ mediaQ'[y] = mediaQ[y]
      /\ Like(q, Tail(q), "dcState") /\ Like(q, Tail(q), "dcMessage")
  <2>1. /\ q \in Seq(MediaTasks) /\ q # <<>> /\ q[1].op = "mute"
        /\ mediaQ'[p] = Tail(q) /\ Tail(q) \in Seq(MediaTasks)
        /\ \A x \in Peers : x # p => mediaQ'[x] = mediaQ[x]
    BY <1>2, TookFromChannel
  <2>2. Like(q, Tail(q), "dcState") /\ Like(q, Tail(q), "dcMessage")
    BY <2>1, LikeTail
  <2> QED BY <1>1, <2>1, <2>2
<1>5. /\ st[p] \in Members /\ st'[p] \in Members /\ mediaQ[y] \in Seq(MediaTasks)
      /\ netQ[p] \in Seq(NetTasks) /\ netQ[y] \in Seq(NetTasks)
  BY <1>1 DEF V3Types
<1>6. /\ st'[y] = st[y] /\ netQ'[y] = netQ[y] /\ st'[p].dcOpen = st[p].dcOpen
      /\ \/ st'[p] = st[p] /\ netQ'[p] = netQ[p]
         \/ netQ'[p] = netQ[p] \o MediaStateTasks(st'[p])
  <2>1. CASE f = st[p].mute
    BY <2>1 DEF MuteMicrophone
  <2>2. CASE f # st[p].mute
    <3>1. st' = [st EXCEPT ![p] = s] /\ PostNet(p, MediaStateTasks(s))
      BY <2>2 DEF MuteMicrophone
    <3>2. s.dcOpen = st[p].dcOpen
      BY <1>5 DEF Members
    <3> HIDE DEF s
    <3>3. st'[p] = s /\ st'[y] = st[y]
      BY <1>1, <3>1 DEF V3Types
    <3>4. netQ'[p] = netQ[p] \o MediaStateTasks(s) /\ netQ'[y] = netQ[y]
      BY <1>1, <3>1 DEF PostNet, V3Types
    <3> QED BY <3>2, <3>3, <3>4
  <2> QED BY <2>1, <2>2
<1>7. Like(mediaQ[y], mediaQ[y], "dcState") /\ Like(mediaQ[y], mediaQ[y], "dcMessage")
  BY <1>5, LikeSame
<1>8. ChannelOf(dcUp, Tail(q), netQ[p], mediaQ[y], told[y], st[p])
  BY <1>3, <1>4, <1>5, <1>7, ChannelQuietly
<1>9. ChannelOf(dcUp, Tail(q), netQ'[p], mediaQ[y], told[y], st'[p])
  <2>1. CASE st'[p] = st[p] /\ netQ'[p] = netQ[p]
    BY <1>8, <2>1
  <2>2. CASE netQ'[p] = netQ[p] \o MediaStateTasks(st'[p])
    <3>1. ASSUME dcUp, ~Has(Tail(q), "dcState", TRUE)
          PROVE  LastWord(netQ'[p], mediaQ[y], told[y], st'[p].mute)
      <4>1. st[p].dcOpen
        BY <1>8, <3>1 DEF ChannelOf
      <4> QED BY <1>5, <1>6, <2>2, <4>1, WordPosted
    <3> QED BY <1>6, <1>8, <3>1 DEF ChannelOf
  <2> QED BY <1>6, <2>1, <2>2
<1>10. ChannelOf(dcUp, mediaQ[y], netQ[y], Tail(q), told[p], st[y])
  BY <1>3, <1>4, <1>5, <1>7, ChannelQuietly
<1> QED BY <1>1, <1>2, <1>4, <1>6, <1>9, <1>10 DEF Channel

\* A word leaves the network queue n and is the last of the peer's media queue o.
LEMMA SendOf ==
  ASSUME NEW n \in Seq(NetTasks), n # <<>>, n[1].op = "dcSend", n[1].flag \in BOOLEAN,
         NEW o \in Seq(MediaTasks), NEW w \in MediaTasks, Says(w, "dcMessage", n[1].flag),
         NEW t, NEW m \in BOOLEAN, LastWord(n, o, t, m)
  PROVE  LastWord(Tail(n), Append(o, w), t, m)
<1> DEFINE r == Tail(n)
<1>1. Corrected(n, "dcSend", m)
  BY DEF LastWord
<1>2. /\ Corrected(r, "dcSend", m)
      /\ Says(n[1], "dcSend", ~m) => Has(r, "dcSend", m)
  BY <1>1, SaidFirst
<1> HIDE DEF r
<1>3. ASSUME ~Has(r, "dcSend", m)
      PROVE  Corrected(Append(o, w), "dcMessage", m) /\ Has(Append(o, w), "dcMessage", m)
  <2>1. n[1].flag = m
    BY <1>2, <1>3 DEF Says
  <2>2. Says(w, "dcMessage", m)
    BY <2>1
  <2> QED BY <2>2, SaidLast
<1>4. LastWord(r, Append(o, w), t, m)
  BY <1>2, <1>3 DEF LastWord
<1> QED BY <1>4 DEF r

LEMMA DataChannelSendSays ==
  ASSUME V3Types, V3Types', dcUp \in BOOLEAN, NEW p \in Peers, DataChannelSend(p), Channels
  PROVE  Channels'
<1> DEFINE y == Other(p)
           n == netQ[p]
           w == FlagTask("dcMessage", n[1].flag)
<1> SUFFICES ASSUME Unreleased' PROVE Channel(p)' /\ Channel(y)'
  BY TwoPeers DEF Channels
<1>1. y \in Peers /\ y # p /\ Other(y) = p
  BY TwoPeers
<1>2. UNCHANGED <<dcUp, told, st, released>> /\ NetTakes(p, "dcSend")
  BY DEF DataChannelSend
<1>3. ChannelOf(dcUp, mediaQ[p], netQ[p], mediaQ[y], told[y], st[p])
      /\ ChannelOf(dcUp, mediaQ[y], netQ[y], mediaQ[p], told[p], st[y])
  BY <1>1, <1>2 DEF Channels, Channel, Unreleased
<1>4. /\ mediaQ[p] \in Seq(MediaTasks) /\ mediaQ[y] \in Seq(MediaTasks) /\ st[p] \in Members
      /\ netQ[y] \in Seq(NetTasks) /\ n \in Seq(NetTasks)
  BY <1>1 DEF V3Types
<1>5. /\ n # <<>> /\ netQ'[p] = Tail(n) /\ netQ'[y] = netQ[y]
      /\ Head(n) = n[1] /\ n[1].op = "dcSend" /\ n[1].flag \in BOOLEAN
  <2>1. /\ n # <<>> /\ netQ'[p] = Tail(n) /\ netQ'[y] = netQ[y]
        /\ Head(n) \in NetTasks /\ n[1].op = "dcSend"
    BY <1>1, <1>2, TypesNetTakes
  <2>2. Head(n) = n[1]
    BY <1>4, <2>1, Taken
  <2> QED BY <2>1, <2>2 DEF NetTasks
<1>6. w \in MediaTasks /\ Says(w, "dcMessage", n[1].flag) /\ w.op = "dcMessage"
  <2>1. w \in MediaTasks /\ w.op = "dcMessage"
    BY <1>5, FlagTaskTypes DEF MediaOps, Gated
  <2> QED BY <2>1 DEF FlagTask, Task, Says
<1>7. CASE dcUp
  <2>1. mediaQ'[y] = Append(mediaQ[y], w) /\ mediaQ'[p] = mediaQ[p]
    BY <1>1, <1>5, <1>7 DEF DataChannelSend, V3Types
  <2> HIDE DEF w
  <2>2. ChannelOf(dcUp, mediaQ[p], Tail(n), Append(mediaQ[y], w), told[y], st[p])
    <3>1. LastWord(n, mediaQ[y], told[y], st[p].mute) =>
            LastWord(Tail(n), Append(mediaQ[y], w), told[y], st[p].mute)
      BY <1>4, <1>5, <1>6, SendOf DEF Members
    <3> QED BY <1>3, <3>1 DEF ChannelOf
  <2>3. ChannelOf(dcUp, Append(mediaQ[y], w), netQ[y], mediaQ[p], told[p], st[y])
    <3>1. /\ Like(mediaQ[y], Append(mediaQ[y], w), "dcState")
          /\ Like(mediaQ[p], mediaQ[p], "dcMessage")
          /\ Append(mediaQ[y], w) \in Seq(MediaTasks)
      BY <1>4, <1>6, LikeAppend, LikeSame, AppendProperties
    <3> QED BY <1>3, <1>4, <3>1, ChannelQuietly
  <2> QED BY <1>1, <1>2, <1>5, <2>1, <2>2, <2>3 DEF Channel
<1>8. CASE ~dcUp
  <2>1. mediaQ' = mediaQ
    BY <1>8 DEF DataChannelSend
  <2>2. ChannelOf(dcUp, mediaQ[p], Tail(n), mediaQ[y], told[y], st[p])
    BY <1>3, <1>8 DEF ChannelOf
  <2> QED BY <1>1, <1>2, <1>3, <1>5, <2>1, <2>2 DEF Channel
<1> QED BY <1>7, <1>8

\* The channel opens or closes: the news are the last that both peers have to note.
LEMMA FlapSays ==
  ASSUME V3Types, dcUp \in BOOLEAN, Flap, Channels,
         Unreleased => \A p \in Peers : dcUp => net[p].state = "started"
  PROVE  Channels'
<1> SUFFICES ASSUME Unreleased', NEW p \in Peers PROVE Channel(p)'
  BY DEF Channels
<1> DEFINE y == Other(p)
           q == mediaQ[p]
           t == FlagTask("dcState", dcUp')
<1>1. /\ Unreleased /\ dcUp' = ~dcUp /\ UNCHANGED <<st, netQ, told>>
  BY DEF Flap, Unreleased
<1>2. net[p].state = "started"
  BY <1>1 DEF Flap, Connected
<1>3. /\ Corrected(q, "dcState", dcUp) /\ Alternates(q, st[p].dcOpen)
      /\ st[p].dcOpen # dcUp => Has(q, "dcState", dcUp)
  BY <1>1 DEF Channels, Channel, ChannelOf
<1>4. mediaQ'[p] = Append(q, t)
  BY <1>2 DEF Flap
<1>5. t \in MediaTasks /\ Says(t, "dcState", dcUp')
  <2>1. dcUp' \in BOOLEAN
    BY <1>1
  <2> HIDE DEF t
  <2>2. FlagTask("dcState", dcUp') \in MediaTasks /\ FlagTask("dcState", dcUp').op = "dcState"
    BY <2>1, FlagTaskTypes DEF MediaOps, Gated
  <2>3. FlagTask("dcState", dcUp').flag = dcUp'
    BY DEF FlagTask, Task
  <2> QED BY <2>2, <2>3 DEF Says, t
<1>6. q \in Seq(MediaTasks) /\ st[p] \in Members
  BY DEF V3Types
<1> HIDE DEF t
<1>7. Has(Append(q, t), "dcState", dcUp') /\ Corrected(Append(q, t), "dcState", dcUp')
  BY <1>5, <1>6, SaidLast
<1>8. Alternates(Append(q, t), st[p].dcOpen)
  <2>1. Says(t, "dcState", ~dcUp) /\ st[p].dcOpen \in BOOLEAN
    BY <1>1, <1>5, <1>6 DEF Members
  <2> QED BY <1>3, <1>5, <1>6, <2>1, AlternatesFlaps
<1>9. ~(dcUp' /\ ~Has(Append(q, t), "dcState", TRUE))
  BY <1>1, <1>7
<1>10. st'[p] = st[p]
  BY <1>1
<1> QED BY <1>4, <1>7, <1>8, <1>9, <1>10 DEF Channel, ChannelOf

------------------------------------------------------------------------------
(* While a peer is not released its networking runs once it has started: up  *)
(* is whether the channel is, w the networking object, q and n the queues.   *)

RunningOf(q, n, w, up) ==
  /\ up => w.state = "started"
  /\ \A i \in DOMAIN q : q[i].op = "start" => i = 1 /\ w.state = "none"
  /\ \A i \in DOMAIN n : n[i].op # "stop"
Running(p) == ~released[p] => RunningOf(mediaQ[p], netQ[p], net[p], dcUp)

LEMMA RunningAppend ==
  ASSUME NEW q \in Seq(MediaTasks), NEW t \in MediaTasks, t.op # "start", NEW n, NEW w,
         NEW up, NEW up2, RunningOf(q, n, w, up), up2 => w.state = "started"
  PROVE  RunningOf(Append(q, t), n, w, up2)
<1> DEFINE r == Append(q, t)
<1>1. /\ Len(q) \in Nat /\ DOMAIN q = 1..Len(q) /\ DOMAIN r = 1..(Len(q) + 1)
      /\ \A i \in 1..Len(q) : r[i] = q[i]
      /\ r[Len(q) + 1] = t
  BY QueueIndex, AppendProperties
<1> HIDE DEF r
<1>2. \A i \in DOMAIN r : i \in DOMAIN q \/ i = Len(q) + 1
  BY <1>1
<1>3. \A i \in DOMAIN r : r[i].op = "start" => i = 1 /\ w.state = "none"
  BY <1>1, <1>2 DEF RunningOf
<1> QED BY <1>3 DEF RunningOf, r

\* Behind the first task there is no start.
LEMMA RunningTail ==
  ASSUME NEW q \in Seq(MediaTasks), q # <<>>, NEW n, NEW w, NEW w2, NEW up,
         RunningOf(q, n, w, up), up => w2.state = "started"
  PROVE  RunningOf(Tail(q), n, w2, up)
<1> DEFINE r == Tail(q)
<1>1. /\ r \in Seq(MediaTasks) /\ Len(q) \in Nat /\ Len(q) > 0 /\ Len(r) = Len(q) - 1
      /\ \A i \in 1..(Len(q) - 1) : r[i] = q[i + 1]
  BY Taken
<1>2. DOMAIN q = 1..Len(q) /\ DOMAIN r = 1..(Len(q) - 1)
  BY <1>1, QueueIndex
<1> HIDE DEF r
<1>3. \A i \in DOMAIN r : i + 1 \in DOMAIN q /\ r[i] = q[i + 1] /\ i + 1 # 1
  BY <1>1, <1>2
<1>4. \A i \in DOMAIN r : r[i].op # "start"
  BY <1>3 DEF RunningOf
<1> QED BY <1>4 DEF RunningOf, r

LEMMA RunningNetTail ==
  ASSUME NEW q, NEW n \in Seq(NetTasks), n # <<>>, NEW w, NEW up, RunningOf(q, n, w, up)
  PROVE  RunningOf(q, Tail(n), w, up) /\ n[1].op # "stop"
<1> DEFINE r == Tail(n)
<1>1. /\ r \in Seq(NetTasks) /\ Len(n) \in Nat /\ Len(n) > 0 /\ Len(r) = Len(n) - 1
      /\ \A i \in 1..(Len(n) - 1) : r[i] = n[i + 1]
  BY Taken
<1>2. DOMAIN n = 1..Len(n) /\ DOMAIN r = 1..(Len(n) - 1)
  BY <1>1, QueueIndex
<1> HIDE DEF r
<1>3. \A i \in DOMAIN r : i + 1 \in DOMAIN n /\ r[i] = n[i + 1]
  BY <1>1, <1>2
<1>4. 1 \in DOMAIN n
  BY <1>1, <1>2
<1> QED BY <1>3, <1>4 DEF RunningOf, r

LEMMA RunningPosts ==
  ASSUME NEW q, NEW n \in Seq(NetTasks), NEW m \in Seq(NetTasks), NEW w, NEW up,
         RunningOf(q, n, w, up), \A i \in 1..Len(m) : m[i].op # "stop"
  PROVE  RunningOf(q, n \o m, w, up)
<1> DEFINE r == n \o m
<1>1. /\ r \in Seq(NetTasks) /\ Len(r) = Len(n) + Len(m) /\ Len(n) \in Nat /\ Len(m) \in Nat
      /\ \A i \in 1..Len(n) : r[i] = n[i]
      /\ \A i \in 1..Len(m) : r[Len(n) + i] = m[i]
  BY ConcatProperties, LenProperties
<1>2. DOMAIN n = 1..Len(n) /\ DOMAIN r = 1..(Len(n) + Len(m))
  BY <1>1, QueueIndex
<1> HIDE DEF r
<1>3. ASSUME NEW i \in DOMAIN r PROVE r[i].op # "stop"
  <2>1. CASE i \in DOMAIN n
    BY <1>1, <1>2, <2>1 DEF RunningOf
  <2>2. CASE i \notin DOMAIN n
    <3>1. i - Len(n) \in 1..Len(m) /\ i = Len(n) + (i - Len(n))
      BY <1>1, <1>2, <2>2
    <3>2. r[i] = m[i - Len(n)]
      BY <1>1, <3>1
    <3> QED BY <3>1, <3>2
  <2> QED BY <2>1, <2>2
<1> QED BY <1>3 DEF RunningOf, r

LEMMA RunningElsewhere ==
  ASSUME V3Types, NEW x \in Peers, Elsewhere(x), Running(x),
         ~released[x] /\ dcUp' => net[x].state = "started"
  PROVE  Running(x)'
<1> SUFFICES ASSUME ~released'[x] PROVE RunningOf(mediaQ'[x], netQ'[x], net'[x], dcUp')
  BY DEF Running
<1>1. /\ RunningOf(mediaQ[x], netQ[x], net[x], dcUp) /\ mediaQ[x] \in Seq(MediaTasks)
      /\ ~released[x]
  BY DEF Running, Elsewhere, V3Types
<1>2. dcUp' => net[x].state = "started"
  BY <1>1
<1>3. RunningOf(mediaQ[x], netQ[x], net[x], dcUp')
  BY <1>1, <1>2 DEF RunningOf
<1>4. CASE mediaQ'[x] = mediaQ[x]
  BY <1>3, <1>4 DEF Elsewhere
<1>5. CASE mediaQ'[x] # mediaQ[x]
  <2>1. PICK t \in MediaTasks : t.op # "start" /\ mediaQ'[x] = Append(mediaQ[x], t)
    BY <1>5 DEF Elsewhere, Gated
  <2>2. RunningOf(Append(mediaQ[x], t), netQ[x], net[x], dcUp')
    BY <1>1, <1>2, <2>1, RunningAppend
  <2> QED BY <2>1, <2>2 DEF Elsewhere
<1> QED BY <1>4, <1>5

\* The tasks of a media thread that is not released: none closes the gate or shuts down.
LEMMA UnreleasedTasks ==
  ASSUME V3Inv, NEW p \in Peers, MediaThread(p), ~released[p]
  PROVE  ~(GateClosed(p) \/ Stop(p) \/ Delete(p) \/ Teardown(p))
<1>1. V3Types /\ NoStop(mediaQ[p]) /\ Working(pc[p], st[p], stopped[p], freed[p])
  BY UnreleasedWorks DEF V3Inv
<1>2. ASSUME NEW op, Takes(p, op) PROVE op \notin {"stop", "delete"}
  <2>1. mediaQ[p] \in Seq(MediaTasks) /\ mediaQ[p] # <<>> /\ mediaQ[p][1].op = op
    BY <1>1, <1>2, TookFromChannel
  <2>2. Len(mediaQ[p]) \in Nat /\ Len(mediaQ[p]) > 0
    BY <2>1, Taken
  <2> QED BY <1>1, <2>1, <2>2 DEF NoStop
<1>3. ~Stop(p) /\ ~Delete(p)
  BY <1>2 DEF Stop, Delete
<1> QED BY <1>1, <1>3 DEF GateClosed, Teardown, Working

LEMMA MediaRuns ==
  ASSUME V3Inv, NEW p \in Peers, MediaThread(p), Running(p)
  PROVE  Running(p)'
<1> DEFINE q == mediaQ[p]
<1>1. V3Types /\ UNCHANGED <<dcUp, released>>
  BY DEF V3Inv, MediaThread, Start, BeginSignaling, GateClosed, SendSetup, ProcessSetup,
         ProcessCandidates, ProcessNegotiate, DataChannelState, DataChannelMessage,
         MuteMicrophone, Stop, Delete, Shutdown, Teardown
<1> SUFFICES ASSUME ~released[p] PROVE RunningOf(mediaQ'[p], netQ'[p], net'[p], dcUp)
  BY <1>1 DEF Running
<1>2. /\ RunningOf(q, netQ[p], net[p], dcUp)
      /\ q \in Seq(MediaTasks) /\ netQ[p] \in Seq(NetTasks)
  BY <1>1 DEF Running, V3Types
<1>3. ~(GateClosed(p) \/ Stop(p) \/ Delete(p) \/ Teardown(p))
  BY UnreleasedTasks
<1>4. RunningOf(mediaQ'[p], netQ[p], net'[p], dcUp)
  <2>1. CASE BeginSignaling(p)
    BY <1>2, <2>1 DEF BeginSignaling
  <2>2. CASE Start(p)
    <3>1. q # <<>> /\ q[1].op = "start" /\ mediaQ'[p] = Tail(q)
      BY <1>1, <2>2, TookFromChannel DEF Start
    <3>2. ~dcUp
      <4>1. 1 \in DOMAIN q
        BY <1>2, <3>1, Taken, QueueIndex
      <4> QED BY <1>2, <3>1, <4>1 DEF RunningOf
    <3> QED BY <1>2, <3>1, <3>2, RunningTail
  <2>3. CASE ~BeginSignaling(p) /\ ~Start(p)
    <3>1. PICK op : Takes(p, op)
      BY <1>3, <2>3 DEF MediaThread, SendSetup, ProcessSetup, ProcessCandidates,
                        ProcessNegotiate, DataChannelState, DataChannelMessage, MuteMicrophone
    <3>2. q # <<>> /\ mediaQ'[p] = Tail(q)
      BY <1>1, <3>1, TookFromChannel
    <3>3. net' = net
      BY <1>3, <2>3 DEF MediaThread, SendSetup, ProcessSetup, ProcessCandidates,
                        ProcessNegotiate, DataChannelState, DataChannelMessage, MuteMicrophone
    <3>4. dcUp => net[p].state = "started"
      BY <1>2 DEF RunningOf
    <3> QED BY <1>2, <3>2, <3>3, <3>4, RunningTail
  <2> QED BY <2>1, <2>2, <2>3
<1>5. CASE netQ' = netQ
  BY <1>4, <1>5
<1>6. CASE netQ' # netQ
  <2>1. PICK m \in Seq(NetTasks) : PostNet(p, m) /\ \A i \in 1..Len(m) : m[i].op # "stop"
    <3>1. CASE DataChannelState(p) \/ MuteMicrophone(p)
      <4>1. PICK s \in Members : PostNet(p, MediaStateTasks(s)) \/ PostNet(p, <<>>)
        <5>1. \A b \in BOOLEAN, o \in {"none", "open", "muted"} :
                /\ [st[p] EXCEPT !.dcOpen = b] \in Members
                /\ [st[p] EXCEPT !.mute = b, !.out = o] \in Members
          BY <1>1, MembersSet DEF V3Types
        <5>2. Head(q).flag \in BOOLEAN
          BY <1>1, <3>1, TookFromChannel DEF DataChannelState, MuteMicrophone
        <5>3. OutgoingAudioChannel(Head(q).flag, st[p].out # "none") \in {"none", "open", "muted"}
          BY DEF OutgoingAudioChannel
        <5> QED BY <1>6, <3>1, <5>1, <5>2, <5>3 DEF DataChannelState, MuteMicrophone
      <4> DEFINE e == <<>>
                 m == MediaStateTasks(s)
      <4>2. m \in Seq(NetTasks) /\ \A i \in 1..Len(m) : m[i].op = "dcSend"
        BY <4>1, MediaStateTypes
      <4>3. e \in Seq(NetTasks) /\ Len(e) = 0
        BY EmptySeq
      <4>4. PostNet(p, m) \/ PostNet(p, e)
        BY <4>1
      <4> HIDE DEF e, m
      <4>5. \A i \in 1..Len(e) : e[i].op # "stop"
        BY <4>3
      <4> QED BY <4>2, <4>3, <4>4, <4>5
    <3>2. CASE ~DataChannelState(p) /\ ~MuteMicrophone(p)
      <4>1. \/ Start(p) \/ BeginSignaling(p) \/ SendSetup(p) \/ ProcessSetup(p)
            \/ ProcessCandidates(p) \/ ProcessNegotiate(p)
        BY <1>3, <1>6, <3>2 DEF MediaThread, DataChannelMessage
      <4> QED BY <1>1, <1>6, <4>1, MediaPosts
    <3> QED BY <3>1, <3>2
  <2>2. netQ'[p] = netQ[p] \o m
    BY <1>1, <2>1, TypesPost
  <2> QED BY <1>2, <1>4, <2>1, <2>2, RunningPosts
<1> QED BY <1>5, <1>6

LEMMA NetRuns ==
  ASSUME V3Inv, NEW p \in Peers, NetThread(p), Running(p)
  PROVE  Running(p)'
<1> DEFINE q == mediaQ[p]
<1>1. V3Types /\ UNCHANGED <<dcUp, released>>
  BY DEF V3Inv, NetThread, NetworkingTask, LocalParams, DataChannelSend, Fence
<1> SUFFICES ASSUME ~released[p] PROVE RunningOf(mediaQ'[p], netQ'[p], net'[p], dcUp)
  BY <1>1 DEF Running
<1>2. /\ RunningOf(q, netQ[p], net[p], dcUp)
      /\ q \in Seq(MediaTasks) /\ netQ[p] \in Seq(NetTasks) /\ net[p] \in Networking
      /\ NetworkOf(q, netQ[p], pc[p], net[p], stopped[p])
  BY <1>1 DEF Running, V3Types, V3Inv, PeerInv, Network
<1>3. PICK op : NetTakes(p, op)
  BY DEF NetThread, NetworkingTask, LocalParams, DataChannelSend, Fence
<1>4. /\ netQ[p] # <<>> /\ netQ'[p] = Tail(netQ[p]) /\ netQ[p][1].op = op
      /\ Head(netQ[p]) \in NetTasks /\ Head(netQ[p]) = netQ[p][1]
  <2>1. /\ netQ[p] # <<>> /\ netQ'[p] = Tail(netQ[p]) /\ netQ[p][1].op = op
        /\ Head(netQ[p]) \in NetTasks
    BY <1>1, <1>3, TypesNetTakes
  <2> QED BY <1>2, <2>1, Taken
<1>5. RunningOf(q, netQ'[p], net[p], dcUp) /\ op # "stop"
  BY <1>2, <1>4, RunningNetTail
<1>6. net[p].state # "none"
  BY <1>2, <1>4 DEF NetworkOf
<1>7. CASE NetworkingTask(p)
  <2>1. mediaQ' = mediaQ
    BY <1>7 DEF NetworkingTask
  <2>2. net'[p].state \in {net[p].state, "started"}
    <3>1. \/ net' = [net EXCEPT ![p].state = "started"]
          \/ net' = [net EXCEPT ![p].remote = TRUE]
          \/ net' = [net EXCEPT ![p].added = @ + 1]
      BY <1>4, <1>5, <1>7 DEF NetworkingTask, NetTakes
    <3>2. net \in [Peers -> Networking]
      BY <1>1 DEF V3Types
    <3> QED BY <1>2, <3>1, <3>2 DEF Networking
  <2>3. \A i \in DOMAIN q : q[i].op # "start"
    BY <1>5, <1>6 DEF RunningOf
  <2> QED BY <1>5, <2>1, <2>2, <2>3 DEF RunningOf
<1>8. CASE ~NetworkingTask(p)
  <2>1. net' = net
    BY <1>8 DEF NetThread, LocalParams, DataChannelSend, Fence
  <2>2. CASE mediaQ'[p] = mediaQ[p]
    BY <1>5, <2>1, <2>2
  <2>3. CASE mediaQ'[p] # mediaQ[p]
    <3>1. PICK t \in MediaTasks : t.op # "start" /\ mediaQ'[p] = Append(q, t)
      <4>1. CASE LocalParams(p)
        <5>1. Task("params") \in MediaTasks /\ Task("params").op = "params"
          BY TaskTypes DEF MediaOps, Gated
        <5> QED BY <1>1, <4>1, <5>1 DEF LocalParams, V3Types
      <4>2. CASE DataChannelSend(p)
        BY <1>1, <2>3, <4>2, OtherPeer DEF DataChannelSend, V3Types
      <4> QED BY <1>8, <2>3, <4>1, <4>2 DEF NetThread, Fence
    <3>2. dcUp => net[p].state = "started"
      BY <1>5 DEF RunningOf
    <3> QED BY <1>2, <1>5, <2>1, <3>1, <3>2, RunningAppend
  <2> QED BY <2>2, <2>3
<1> QED BY <1>7, <1>8

------------------------------------------------------------------------------
(* The outgoing channel follows the mute flag.                               *)

FollowsOf(s) == s.out = OutgoingAudioChannel(s.mute, s.out # "none")
OutFollows(p) == FollowsOf(st[p])

LEMMA OutKept ==
  ASSUME V3Types, [Next]_vars, \A p \in Peers : OutFollows(p)
  PROVE  \A p \in Peers : OutFollows(p)'
<1> SUFFICES ASSUME NEW x \in Peers PROVE FollowsOf(st'[x])
  BY DEF OutFollows
<1>1. FollowsOf(st[x]) /\ st \in [Peers -> Members] /\ st[x] \in Members
  BY DEF OutFollows, V3Types
<1>2. CASE UNCHANGED vars
  BY <1>1, <1>2 DEF vars
<1>3. CASE Next
  <2>1. CASE st'[x].mute = st[x].mute /\ st'[x].out = st[x].out
    BY <1>1, <2>1 DEF FollowsOf
  <2>2. ASSUME NEW p \in Peers, ProcessNegotiate(p) PROVE FollowsOf(st'[x])
    <3>1. /\ st'[x].mute = st[x].mute
          /\ \/ st'[x].out = st[x].out
             \/ \E made \in BOOLEAN : st'[x].out = OutgoingAudioChannel(st[x].mute, made)
      BY <2>2, NegotiatedStep
    <3> QED BY <1>1, <3>1 DEF FollowsOf, OutgoingAudioChannel
  <2>3. ASSUME NEW p \in Peers, DataChannelState(p) PROVE FollowsOf(st'[x])
    <3>1. st' = [st EXCEPT ![p] = [st[p] EXCEPT !.dcOpen = Head(mediaQ[p]).flag]]
      BY <2>3 DEF DataChannelState
    <3>2. st'[x].mute = st[x].mute /\ st'[x].out = st[x].out
      BY <1>1, <2>3, <3>1 DEF Members
    <3> QED BY <2>1, <3>2
  <2>4. ASSUME NEW p \in Peers, MuteMicrophone(p) PROVE FollowsOf(st'[x])
    <3> DEFINE f == Head(mediaQ[p]).flag
               o == OutgoingAudioChannel(f, st[p].out # "none")
    <3>1. CASE st' = st
      BY <1>1, <3>1
    <3>2. CASE st' # st
      <4>1. st' = [st EXCEPT ![p] = [st[p] EXCEPT !.mute = f, !.out = o]]
        BY <2>4, <3>2 DEF MuteMicrophone
      <4>2. o = OutgoingAudioChannel(f, o # "none")
        BY DEF OutgoingAudioChannel
      <4> HIDE DEF f, o
      <4>3. CASE x = p
        <5>1. st'[x].mute = f /\ st'[x].out = o
          BY <1>1, <4>1, <4>3 DEF Members
        <5> QED BY <4>2, <5>1 DEF FollowsOf
      <4>4. CASE x # p
        BY <1>1, <4>1, <4>4
      <4> QED BY <4>3, <4>4
    <3> QED BY <3>1, <3>2
  <2>5. ASSUME NEW p \in Peers, Teardown(p) PROVE FollowsOf(st'[x])
    <3>1. CASE x = p
      <4>1. st'[x].out = "none"
        BY <1>1, <2>5, <3>1 DEF Teardown, Members
      <4> QED BY <4>1 DEF FollowsOf, OutgoingAudioChannel
    <3>2. CASE x # p
      BY <1>1, <2>5, <3>2 DEF Teardown
    <3> QED BY <3>1, <3>2
  <2>6. ASSUME NEW p \in Peers,
               \/ Start(p) \/ BeginSignaling(p) \/ SendSetup(p) \/ ProcessSetup(p)
               \/ ProcessCandidates(p) \/ Shutdown(p) \/ NetThread(p) \/ EmitLocalCandidate(p)
               \/ Deliver(p) \/ SetMute(p) \/ Release(p) \/ Flap \/ GateClosed(p)
               \/ DataChannelMessage(p)
        PROVE  FollowsOf(st'[x])
    <3>1. st'[x].mute = st[x].mute /\ st'[x].out = st[x].out
      BY <2>6, FlagsKept
    <3> QED BY <2>1, <3>1
  <2> QED BY <1>3, <2>2, <2>3, <2>4, <2>5, <2>6 DEF Next, MediaThread, Stop, Delete
<1> QED BY <1>2, <1>3

------------------------------------------------------------------------------
(* The invariant of the channel. *)

ToldTypes == told \in [Peers -> {"nothing", "open", "muted"}]
KnowsInv ==
  V3IInv /\ ToldTypes /\ Channels /\ \A p \in Peers : Running(p) /\ OutFollows(p)

LEMMA KnowsInit == Init => KnowsInv
<1> SUFFICES ASSUME Init PROVE KnowsInv
  OBVIOUS
<1>1. V3IInv /\ ToldTypes
  BY V3InvInit DEF Init, ToldTypes
<1>2. ASSUME NEW p \in Peers PROVE Running(p) /\ OutFollows(p) /\ Channel(p)
  <2> DEFINE q == <<Task("start")>>
             n == <<>>
  <2>1. /\ \A i \in DOMAIN q : i = 1 /\ q[i].op = "start"
        /\ \A i \in DOMAIN n : FALSE
    BY TaskTypes
  <2>2. mediaQ[p] = q /\ netQ[p] = n /\ net[p].state = "none" /\ dcUp = FALSE
    BY <1>2 DEF Init
  <2>3. st[p].dcOpen = FALSE /\ st[p].out = "none"
    BY <1>2 DEF Init
  <2> HIDE DEF q, n
  <2>4. Running(p)
    BY <2>1, <2>2 DEF Running, RunningOf
  <2>5. OutFollows(p)
    BY <2>3 DEF OutFollows, FollowsOf, OutgoingAudioChannel
  <2>6. Channel(p)
    BY <2>1, <2>2, <2>3 DEF Channel, ChannelOf, Corrected, Alternates, Says
  <2> QED BY <2>4, <2>5, <2>6
<1> QED BY <1>1, <1>2 DEF KnowsInv, Channels

LEMMA ToldKept ==
  ASSUME V3Types, ToldTypes, [Next]_vars
  PROVE  ToldTypes'
<1>1. ASSUME NEW p \in Peers, DataChannelMessage(p) PROVE ToldTypes'
  BY <1>1 DEF ToldTypes, DataChannelMessage
<1>2. CASE UNCHANGED told
  BY <1>2 DEF ToldTypes
<1>3. ASSUME NEW p \in Peers, MediaThread(p), ~DataChannelMessage(p) PROVE UNCHANGED told
  BY <1>3 DEF MediaThread, Start, BeginSignaling, GateClosed, SendSetup, ProcessSetup,
              ProcessCandidates, ProcessNegotiate, DataChannelState, MuteMicrophone, Stop,
              Delete, Shutdown, Teardown
<1>4. ASSUME NEW p \in Peers,
             NetThread(p) \/ EmitLocalCandidate(p) \/ Deliver(p) \/ SetMute(p) \/ Release(p)
      PROVE  UNCHANGED told
  BY <1>4 DEF NetThread, NetworkingTask, LocalParams, DataChannelSend, Fence,
              EmitLocalCandidate, Deliver, SetMute, Release
<1>5. Flap \/ UNCHANGED vars => UNCHANGED told
  BY DEF Flap, vars
<1> QED BY <1>1, <1>2, <1>3, <1>4, <1>5 DEF Next

LEMMA MediaSays ==
  ASSUME V3Inv, V3Types', dcUp \in BOOLEAN, ToldTypes, Channels, NEW p \in Peers,
         MediaThread(p)
  PROVE  Channels'
<1>1. V3Types /\ UNCHANGED released
  BY DEF V3Inv, MediaThread, Start, BeginSignaling, GateClosed, SendSetup, ProcessSetup,
         ProcessCandidates, ProcessNegotiate, DataChannelState, DataChannelMessage,
         MuteMicrophone, Stop, Delete, Shutdown, Teardown
<1>2. CASE DataChannelState(p)
  BY <1>1, <1>2, DataChannelStateSays
<1>3. CASE DataChannelMessage(p)
  BY <1>1, <1>3, DataChannelMessageSays DEF ToldTypes
<1>4. CASE MuteMicrophone(p)
  BY <1>1, <1>4, MuteMicrophoneSays
<1>5. CASE GateClosed(p) \/ Stop(p) \/ Delete(p) \/ Teardown(p)
  <2>1. released[p]
    BY <1>5, UnreleasedTasks
  <2> QED BY <1>1, <2>1 DEF Channels, Unreleased
<1>6. CASE \/ Start(p) \/ BeginSignaling(p) \/ SendSetup(p) \/ ProcessSetup(p)
           \/ ProcessCandidates(p) \/ ProcessNegotiate(p)
  <2>1. SaysNothing /\ (Unreleased' => Unreleased)
    BY <1>1, <1>6, QuietMedia DEF Unreleased
  <2> QED BY <1>1, <2>1, StillSaid
<1> QED BY <1>2, <1>3, <1>4, <1>5, <1>6 DEF MediaThread

LEMMA KnowsNext == KnowsInv /\ [Next]_vars => KnowsInv'
<1> SUFFICES ASSUME KnowsInv, [Next]_vars PROVE KnowsInv'
  OBVIOUS
<1>1. /\ V3IInv /\ V3Inv /\ V3Types /\ dcUp \in BOOLEAN /\ ToldTypes /\ Channels
      /\ \A x \in Peers : Running(x)
  BY DEF KnowsInv, V3IInv, V3Inv
<1>2. V3IInv' /\ V3Types'
  BY <1>1, V3InvNext DEF V3IInv, V3Inv
<1>3. ToldTypes' /\ \A x \in Peers : OutFollows(x)'
  BY <1>1, ToldKept, OutKept DEF KnowsInv
<1>4. ASSUME NEW p \in Peers, MediaThread(p) PROVE Channels' /\ \A x \in Peers : Running(x)'
  <2>1. Channels'
    BY <1>1, <1>2, <1>4, MediaSays
  <2>2. StepOf(p)
    BY <1>1, <1>4, StartStep, BeginSignalingStep, GateClosedStep, SendSetupStep,
       ProcessSetupStep, ProcessCandidatesStep, ProcessNegotiateStep, DataChannelStateStep,
       DataChannelMessageStep, MuteMicrophoneStep, ShutdownStep, TeardownStep
       DEF MediaThread
  <2>3. UNCHANGED dcUp
    BY <1>4 DEF MediaThread, Start, BeginSignaling, GateClosed, SendSetup, ProcessSetup,
                ProcessCandidates, ProcessNegotiate, DataChannelState, DataChannelMessage,
                MuteMicrophone, Stop, Delete, Shutdown, Teardown
  <2>4. ASSUME NEW x \in Peers, x # p PROVE Running(x)'
    <3>1. Elsewhere(x) /\ Running(x) /\ (~released[x] /\ dcUp' => net[x].state = "started")
      BY <1>1, <2>2, <2>3, <2>4 DEF StepOf, Running, RunningOf
    <3> QED BY <1>1, <3>1, RunningElsewhere
  <2>5. Running(p)'
    BY <1>1, <1>4, MediaRuns
  <2> QED BY <2>1, <2>4, <2>5
<1>5. ASSUME NEW p \in Peers, NetThread(p) PROVE Channels' /\ \A x \in Peers : Running(x)'
  <2>1. Channels'
    <3>1. CASE DataChannelSend(p)
      BY <1>1, <1>2, <3>1, DataChannelSendSays
    <3>2. CASE NetworkingTask(p) \/ LocalParams(p) \/ Fence(p)
      <4>1. SaysNothing /\ (Unreleased' => Unreleased)
        BY <1>1, <3>2, QuietNet DEF Unreleased, NetworkingTask, LocalParams, Fence
      <4> QED BY <1>1, <1>2, <4>1, StillSaid
    <3> QED BY <1>5, <3>1, <3>2 DEF NetThread
  <2>2. StepOf(p) /\ UNCHANGED dcUp
    <3>1. StepOf(p)
      BY <1>1, <1>5, NetworkingTaskStep, LocalParamsStep, DataChannelSendStep, FenceStep
         DEF NetThread
    <3> QED BY <1>5, <3>1 DEF NetThread, NetworkingTask, LocalParams, DataChannelSend, Fence
  <2>3. ASSUME NEW x \in Peers, x # p PROVE Running(x)'
    <3>1. Elsewhere(x) /\ Running(x) /\ (~released[x] /\ dcUp' => net[x].state = "started")
      BY <1>1, <2>2, <2>3 DEF StepOf, Running, RunningOf
    <3> QED BY <1>1, <3>1, RunningElsewhere
  <2>4. Running(p)'
    BY <1>1, <1>5, NetRuns
  <2> QED BY <2>1, <2>3, <2>4
<1>6. ASSUME NEW p \in Peers, EmitLocalCandidate(p) \/ Deliver(p) \/ SetMute(p)
      PROVE  Channels' /\ \A x \in Peers : Running(x)'
  <2>1. Channels'
    <3>1. SaysNothing /\ (Unreleased' => Unreleased)
      BY <1>1, <1>6, QuietNet DEF Unreleased, EmitLocalCandidate, Deliver, SetMute
    <3> QED BY <1>1, <1>2, <3>1, StillSaid
  <2>2. ASSUME NEW x \in Peers PROVE Running(x)'
    <3>1. UNCHANGED <<netQ, net, dcUp, released>>
      BY <1>6 DEF EmitLocalCandidate, Deliver, SetMute
    <3>2. \/ mediaQ'[x] = mediaQ[x]
          \/ \E t \in MediaTasks : t.op # "start" /\ mediaQ'[x] = Append(mediaQ[x], t)
      <4>1. CASE EmitLocalCandidate(p)
        BY <4>1 DEF EmitLocalCandidate
      <4>2. CASE SetMute(p)
        <5>1. PICK f \in BOOLEAN : mediaQ' = [mediaQ EXCEPT ![p] = Append(@, FlagTask("mute", f))]
          BY <4>2 DEF SetMute
        <5>2. FlagTask("mute", f) \in MediaTasks /\ FlagTask("mute", f).op = "mute"
          BY FlagTaskTypes DEF MediaOps
        <5> QED BY <1>1, <5>1, <5>2 DEF V3Types
      <4>3. CASE Deliver(p)
        <5>1. PICK i \in 1..Len(chan[p]) :
                mediaQ' = [mediaQ EXCEPT ![p] = Append(@, DataTask(chan[p][i]))]
          BY <1>1, <4>3, DeliverIndex DEF Deliver
        <5>2. chan[p][i] \in Messages
          BY <1>1, ElementOfSeq DEF V3Types
        <5>3. DataTask(chan[p][i]) \in MediaTasks /\ DataTask(chan[p][i]).op = "data"
          BY <5>2, DataTaskTypes
        <5> QED BY <1>1, <5>1, <5>3 DEF V3Types
      <4> QED BY <1>6, <4>1, <4>2, <4>3
    <3>3. SUFFICES ASSUME ~released[x] PROVE RunningOf(mediaQ'[x], netQ[x], net[x], dcUp)
      BY <3>1 DEF Running
    <3>4. RunningOf(mediaQ[x], netQ[x], net[x], dcUp) /\ mediaQ[x] \in Seq(MediaTasks)
      BY <1>1, <3>3 DEF Running, V3Types
    <3>5. dcUp => net[x].state = "started"
      BY <3>4 DEF RunningOf
    <3> QED BY <3>2, <3>4, <3>5, RunningAppend
  <2> QED BY <2>1, <2>2
<1>7. ASSUME NEW p \in Peers, Release(p) PROVE Channels' /\ \A x \in Peers : Running(x)'
  <2>1. StepOf(p) /\ UNCHANGED dcUp /\ released' = [released EXCEPT ![p] = TRUE]
        /\ released \in [Peers -> BOOLEAN]
    BY <1>1, <1>7, ReleaseStep DEF Release, V3Types
  <2>2. released'[p]
    BY <2>1
  <2>3. ASSUME NEW x \in Peers, x # p PROVE Running(x)'
    <3>1. Elsewhere(x) /\ Running(x) /\ (~released[x] /\ dcUp' => net[x].state = "started")
      BY <1>1, <2>1, <2>3 DEF StepOf, Running, RunningOf
    <3> QED BY <1>1, <3>1, RunningElsewhere
  <2> QED BY <2>2, <2>3 DEF Channels, Unreleased, Running
<1>8. ASSUME Flap PROVE Channels' /\ \A x \in Peers : Running(x)'
  <2>1. Unreleased => \A x \in Peers : dcUp => net[x].state = "started"
    BY <1>1 DEF Unreleased, Running, RunningOf
  <2>2. Channels'
    BY <1>1, <1>8, <2>1, FlapSays
  <2>3. ASSUME NEW x \in Peers PROVE Running(x)'
    <3> DEFINE t == FlagTask("dcState", dcUp')
    <3>1. /\ UNCHANGED <<netQ, net, released>> /\ dcUp' \in BOOLEAN
          /\ dcUp' => net[x].state = "started"
          /\ mediaQ'[x] = IF net[x].state = "started" THEN Append(mediaQ[x], t) ELSE mediaQ[x]
      BY <1>8 DEF Flap, Connected
    <3>2. SUFFICES ASSUME ~released[x] PROVE RunningOf(mediaQ'[x], netQ[x], net[x], dcUp')
      BY <3>1 DEF Running
    <3>3. RunningOf(mediaQ[x], netQ[x], net[x], dcUp) /\ mediaQ[x] \in Seq(MediaTasks)
      BY <1>1, <3>2 DEF Running, V3Types
    <3>4. t \in MediaTasks /\ t.op # "start"
      <4>1. FlagTask("dcState", dcUp') \in MediaTasks /\ FlagTask("dcState", dcUp').op = "dcState"
        BY <3>1, FlagTaskTypes DEF MediaOps, Gated
      <4> QED BY <4>1
    <3> HIDE DEF t
    <3>5. RunningOf(mediaQ[x], netQ[x], net[x], dcUp')
      BY <3>1, <3>3 DEF RunningOf
    <3>6. RunningOf(Append(mediaQ[x], t), netQ[x], net[x], dcUp')
      BY <3>1, <3>3, <3>4, RunningAppend
    <3> QED BY <3>1, <3>5, <3>6
  <2> QED BY <2>2, <2>3
<1>9. ASSUME UNCHANGED vars PROVE Channels' /\ \A x \in Peers : Running(x)'
  BY <1>1, <1>9 DEF vars, Channels, Unreleased, Channel, Running
<1>10. Channels' /\ \A x \in Peers : Running(x)'
  BY <1>4, <1>5, <1>6, <1>7, <1>8, <1>9 DEF Next
<1> QED BY <1>2, <1>3, <1>10 DEF KnowsInv

LEMMA KnowsInvariant == Spec => []KnowsInv
  BY KnowsInit, KnowsNext, PTL DEF Spec

\* However the microphone is muted and the data channel closes and opens again, a peer that
\* has nothing left to do on an open channel was last told the flag its peer has, and the
\* outgoing channel of each follows its flag (setMuteMicrophone, onDataChannelStateUpdated
\* and sendMediaState of InstanceV13_0_0Impl).
THEOREM PeerAlwaysKnowsMute == Spec => []PeerKnowsMute
<1>1. KnowsInv => PeerKnowsMute
  <2> SUFFICES ASSUME KnowsInv PROVE PeerKnowsMute
    OBVIOUS
  <2>1. ASSUME Quiet, dcUp, Unreleased, NEW p \in Peers
        PROVE  told[Other(p)] = OutgoingAudioChannel(st[p].mute, TRUE)
    <3>1. mediaQ[p] = <<>> /\ netQ[p] = <<>> /\ mediaQ[Other(p)] = <<>>
      BY <2>1, OtherPeer DEF Quiet
    <3>2. \A op, f : ~Has(<<>>, op, f)
      BY DEF Has
    <3>3. ChannelOf(dcUp, <<>>, <<>>, <<>>, told[Other(p)], st[p])
      BY <2>1, <3>1 DEF KnowsInv, Channels, Channel
    <3>4. LastWord(<<>>, <<>>, told[Other(p)], st[p].mute)
      BY <2>1, <3>2, <3>3 DEF ChannelOf
    <3> QED BY <3>2, <3>4 DEF LastWord
  <2>2. \A p \in Peers : st[p].out = OutgoingAudioChannel(st[p].mute, st[p].out # "none")
    BY DEF KnowsInv, OutFollows, FollowsOf
  <2> QED BY <2>1, <2>2 DEF PeerKnowsMute, Unreleased
<1> QED BY <1>1, KnowsInvariant, PTL

------------------------------------------------------------------------------
(* Audio both ways.  What is said of the negotiation on the way to a peer:   *)
(* the exchanges named by the messages in its media queue and, behind them,  *)
(* on the signaling channel.                                                 *)

Negotiates(t) == t.op = "data" /\ t.msg.kind = "Negotiate"
Data(c) == [i \in 1..Len(c) |-> DataTask(c[i])]
Way(p) == mediaQ[p] \o Data(chan[p])

\* The tasks of q that negotiate are those at the places at, and name the exchanges w in
\* this order.
Marks(q, w, at) ==
  /\ \A k \in 1..Len(w) : Negotiates(q[at[k]]) /\ q[at[k]].msg.exchange = w[k]
  /\ \A k, l \in 1..Len(w) : k < l => at[k] < at[l]
  /\ \A i \in 1..Len(q) : Negotiates(q[i]) => \E k \in 1..Len(w) : at[k] = i
Reads(q, w) == \E at \in [1..Len(w) -> 1..Len(q)] : Marks(q, w, at)

LEMMA ReadsNothing ==
  ASSUME NEW w \in Seq(Peers), Reads(<<>>, w)
  PROVE  w = <<>>
<1>1. PICK at \in [1..Len(w) -> 1..0] : TRUE
  BY DEF Reads
<1>2. Len(w) \in Nat
  BY LenProperties
<1>3. ~(1 \in 1..Len(w))
  BY <1>1
<1>4. Len(w) = 0
  BY <1>2, <1>3
<1> QED BY <1>4, EmptySeq

LEMMA NothingRead == Reads(<<>>, <<>>)
<1> DEFINE at == [k \in 1..0 |-> 1]
<1>1. at \in [1..0 -> 1..0] /\ Marks(<<>>, <<>>, at)
  BY DEF Marks
<1> QED BY <1>1 DEF Reads

\* A task that does not negotiate is taken.
LEMMA ReadsTail ==
  ASSUME NEW q \in Seq(MediaTasks), q # <<>>, ~Negotiates(q[1]), NEW w \in Seq(Peers), Reads(q, w)
  PROVE  Reads(Tail(q), w)
<1> DEFINE t == Tail(q)
<1>1. /\ Len(q) \in Nat /\ Len(q) > 0 /\ Len(t) = Len(q) - 1
      /\ \A i \in 1..(Len(q) - 1) : t[i] = q[i + 1]
  BY Taken
<1>2. PICK at \in [1..Len(w) -> 1..Len(q)] : Marks(q, w, at)
  BY DEF Reads
<1>3. Len(w) \in Nat
  BY LenProperties
<1> DEFINE by == [k \in 1..Len(w) |-> at[k] - 1]
<1> HIDE DEF t
<1>4. \A k \in 1..Len(w) : at[k] \in 1..Len(q) /\ at[k] # 1
  BY <1>2 DEF Marks
<1>5. \A k \in 1..Len(w) : at[k] - 1 \in 1..Len(t) /\ t[at[k] - 1] = q[at[k]]
  BY <1>1, <1>4
<1>6. by \in [1..Len(w) -> 1..Len(t)] /\ \A k \in 1..Len(w) : by[k] = at[k] - 1
  BY <1>5
<1> HIDE DEF by
<1>7. ASSUME NEW k \in 1..Len(w) PROVE Negotiates(t[by[k]]) /\ t[by[k]].msg.exchange = w[k]
  <2>1. t[by[k]] = q[at[k]]
    BY <1>5, <1>6
  <2>2. Negotiates(q[at[k]]) /\ q[at[k]].msg.exchange = w[k]
    BY <1>2 DEF Marks
  <2> QED BY <2>1, <2>2
<1>8. \A k, l \in 1..Len(w) : k < l => by[k] < by[l]
  <2>1. \A k, l \in 1..Len(w) : k < l => at[k] < at[l]
    BY <1>2 DEF Marks
  <2> QED BY <1>4, <1>1, <1>6, <2>1
<1>9. ASSUME NEW i \in 1..Len(t), Negotiates(t[i]) PROVE \E k \in 1..Len(w) : by[k] = i
  <2>1. i + 1 \in 1..Len(q) /\ t[i] = q[i + 1]
    BY <1>1
  <2>2. PICK k \in 1..Len(w) : at[k] = i + 1
    BY <1>2, <1>9, <2>1 DEF Marks
  <2>3. by[k] = i
    BY <1>6, <2>2
  <2> QED BY <2>3
<1>10. Reads(t, w)
  BY <1>6, <1>7, <1>8, <1>9 DEF Reads, Marks
<1> QED BY <1>10 DEF t

\* One that negotiates is taken: it is the first that was said.
LEMMA ReadsNext ==
  ASSUME NEW q \in Seq(MediaTasks), q # <<>>, Negotiates(q[1]), NEW w \in Seq(Peers), Reads(q, w)
  PROVE  w # <<>> /\ w[1] = q[1].msg.exchange /\ Reads(Tail(q), Tail(w))
<1> DEFINE t == Tail(q)
           v == Tail(w)
<1>1. /\ Len(q) \in Nat /\ Len(q) > 0 /\ Len(t) = Len(q) - 1
      /\ \A i \in 1..(Len(q) - 1) : t[i] = q[i + 1]
  BY Taken
<1>2. PICK at \in [1..Len(w) -> 1..Len(q)] : Marks(q, w, at)
  BY DEF Reads
<1>3. Len(w) \in Nat
  BY LenProperties
<1>4. PICK first \in 1..Len(w) : at[first] = 1
  BY <1>1, <1>2 DEF Marks
<1>5. w # <<>>
  BY <1>3, <1>4, EmptySeq
<1>6. /\ Len(w) > 0 /\ Len(v) = Len(w) - 1
      /\ \A i \in 1..(Len(w) - 1) : v[i] = w[i + 1]
  BY <1>5, Taken
<1>7. \A k, l \in 1..Len(w) : k < l => at[k] < at[l]
  BY <1>2 DEF Marks
<1>8. \A k \in 1..Len(w) : at[k] \in 1..Len(q)
  BY <1>2
<1>9. first = 1
  <2>1. 1 \in 1..Len(w) /\ at[1] >= 1
    BY <1>1, <1>3, <1>6, <1>8
  <2>2. ~(1 < first)
    BY <1>1, <1>4, <1>7, <1>8, <2>1
  <2> QED BY <1>3, <1>4, <2>2
<1>10. w[1] = q[1].msg.exchange
  BY <1>2, <1>4, <1>9 DEF Marks
<1> DEFINE by == [k \in 1..Len(v) |-> at[k + 1] - 1]
<1> HIDE DEF t, v
<1>11. \A k \in 1..Len(v) : k \in Nat /\ k > 0 /\ k + 1 \in 1..Len(w) /\ v[k] = w[k + 1]
  BY <1>3, <1>6
<1>12. \A k \in 1..Len(v) : at[k + 1] > 1
  BY <1>1, <1>3, <1>4, <1>7, <1>8, <1>9, <1>11
<1>13. \A k \in 1..Len(v) : at[k + 1] - 1 \in 1..Len(t) /\ t[at[k + 1] - 1] = q[at[k + 1]]
  <2> SUFFICES ASSUME NEW k \in 1..Len(v)
               PROVE  at[k + 1] - 1 \in 1..Len(t) /\ t[at[k + 1] - 1] = q[at[k + 1]]
    OBVIOUS
  <2>1. at[k + 1] \in 1..Len(q) /\ at[k + 1] > 1
    BY <1>8, <1>11, <1>12
  <2> QED BY <1>1, <2>1
<1>14. by \in [1..Len(v) -> 1..Len(t)] /\ \A k \in 1..Len(v) : by[k] = at[k + 1] - 1
  BY <1>13
<1> HIDE DEF by
<1>15. \A k \in 1..Len(v) : Negotiates(t[by[k]]) /\ t[by[k]].msg.exchange = v[k]
  BY <1>2, <1>11, <1>13, <1>14 DEF Marks
<1>16. ASSUME NEW k \in 1..Len(v), NEW l \in 1..Len(v), k < l PROVE by[k] < by[l]
  <2>1. k + 1 \in 1..Len(w) /\ l + 1 \in 1..Len(w) /\ k + 1 < l + 1
    BY <1>11, <1>16
  <2>2. at[k + 1] < at[l + 1] /\ at[k + 1] \in Nat /\ at[l + 1] \in Nat
    BY <1>7, <1>8, <2>1
  <2> QED BY <1>14, <2>2
<1>17. ASSUME NEW i \in 1..Len(t), Negotiates(t[i]) PROVE \E k \in 1..Len(v) : by[k] = i
  <2>1. i + 1 \in 1..Len(q) /\ t[i] = q[i + 1] /\ i \in Nat /\ i > 0
    BY <1>1
  <2>2. PICK k \in 1..Len(w) : at[k] = i + 1
    BY <1>2, <1>17, <2>1 DEF Marks
  <2>3. k # 1
    BY <1>4, <1>9, <2>1, <2>2
  <2>4. k - 1 \in 1..Len(v) /\ (k - 1) + 1 = k
    BY <1>3, <1>6, <2>3 DEF v
  <2>5. by[k - 1] = at[(k - 1) + 1] - 1
    BY <1>14, <2>4
  <2>6. by[k - 1] = (i + 1) - 1
    BY <2>2, <2>4, <2>5
  <2>7. by[k - 1] = i
    BY <2>1, <2>6
  <2> QED BY <2>4, <2>7
<1>18. Reads(t, v)
  BY <1>14, <1>15, <1>16, <1>17 DEF Reads, Marks
<1> QED BY <1>5, <1>10, <1>18 DEF t, v

LEMMA ConcatParts ==
  ASSUME NEW S, NEW a \in Seq(S), NEW b \in Seq(S)
  PROVE  /\ a \o b \in Seq(S) /\ Len(a) \in Nat /\ Len(b) \in Nat
         /\ Len(a \o b) = Len(a) + Len(b)
         /\ \A i \in 1..Len(a) : (a \o b)[i] = a[i]
         /\ \A i \in 1..Len(b) : (a \o b)[Len(a) + i] = b[i]
  BY ConcatProperties, LenProperties

\* A task that does not negotiate is added somewhere.
LEMMA ReadsInserted ==
  ASSUME NEW q \in Seq(MediaTasks), NEW c \in Seq(MediaTasks), NEW t \in MediaTasks,
         ~Negotiates(t), NEW w \in Seq(Peers), Reads(q \o c, w)
  PROVE  Reads(Append(q, t) \o c, w)
<1> DEFINE a == q \o c
           b == Append(q, t) \o c
<1>1. /\ Len(q) \in Nat /\ Len(c) \in Nat /\ Len(a) = Len(q) + Len(c)
      /\ \A i \in 1..Len(q) : a[i] = q[i]
      /\ \A i \in 1..Len(c) : a[Len(q) + i] = c[i]
  BY ConcatParts
<1>2. /\ Len(b) = Len(q) + 1 + Len(c)
      /\ \A i \in 1..Len(q) : b[i] = q[i]
      /\ b[Len(q) + 1] = t
      /\ \A i \in 1..Len(c) : b[Len(q) + 1 + i] = c[i]
  <2> DEFINE r == Append(q, t)
  <2>1. /\ r \in Seq(MediaTasks) /\ Len(r) = Len(q) + 1 /\ r[Len(q) + 1] = t
        /\ \A i \in 1..Len(q) : r[i] = q[i]
    BY AppendProperties
  <2> HIDE DEF r
  <2> HIDE DEF a, b
  <2>2. ASSUME NEW x \in Seq(MediaTasks)
        PROVE  /\ Len(x) \in Nat /\ Len(x \o c) = Len(x) + Len(c)
               /\ \A i \in 1..Len(x) : (x \o c)[i] = x[i]
               /\ \A i \in 1..Len(c) : (x \o c)[Len(x) + i] = c[i]
    BY ConcatParts
  <2>3. \A i \in 1..Len(q) : i \in 1..Len(r)
    BY <1>1, <2>1
  <2>4. Len(q) + 1 \in 1..Len(r)
    BY <1>1, <2>1
  <2>5. b = r \o c
    BY DEF r, b
  <2>6. /\ Len(b) = Len(r) + Len(c)
        /\ \A i \in 1..Len(r) : b[i] = r[i]
        /\ \A i \in 1..Len(c) : b[Len(r) + i] = c[i]
    BY <2>1, <2>2, <2>5
  <2>7. \A i \in 1..Len(q) : b[i] = q[i]
    BY <2>1, <2>3, <2>6
  <2>8. b[Len(q) + 1] = t
    BY <2>1, <2>4, <2>6
  <2> QED BY <2>1, <2>6, <2>7, <2>8
<1> HIDE DEF a, b
<1>3. PICK at \in [1..Len(w) -> 1..Len(a)] : Marks(a, w, at)
  BY DEF Reads, a
<1> DEFINE To(i) == IF i <= Len(q) THEN i ELSE i + 1
           by == [k \in 1..Len(w) |-> To(at[k])]
<1>4. \A i \in 1..Len(a) : i \in Nat /\ To(i) \in 1..Len(b) /\ b[To(i)] = a[i]
  <2> SUFFICES ASSUME NEW i \in 1..Len(a) PROVE i \in Nat /\ To(i) \in 1..Len(b) /\ b[To(i)] = a[i]
    OBVIOUS
  <2>1. CASE i <= Len(q)
    <3>1. i \in 1..Len(q)
      BY <1>1, <2>1
    <3> QED BY <1>1, <1>2, <3>1
  <2>2. CASE ~(i <= Len(q))
    <3>1. i - Len(q) \in 1..Len(c) /\ i = Len(q) + (i - Len(q))
          /\ i + 1 = Len(q) + 1 + (i - Len(q)) /\ i + 1 \in 1..Len(b)
      BY <1>1, <1>2, <2>2
    <3>2. a[i] = c[i - Len(q)] /\ b[i + 1] = c[i - Len(q)]
      BY <1>1, <1>2, <3>1
    <3> QED BY <2>2, <3>1, <3>2
  <2> QED BY <2>1, <2>2
<1>5. \A i, j \in 1..Len(a) : i < j => To(i) < To(j)
  BY <1>1
<1>6. \A k \in 1..Len(w) : at[k] \in 1..Len(a)
  BY <1>3
<1>7. by \in [1..Len(w) -> 1..Len(b)] /\ \A k \in 1..Len(w) : by[k] = To(at[k])
  BY <1>4, <1>6
<1>8. ASSUME NEW i \in 1..Len(b), Negotiates(b[i]) PROVE \E j \in 1..Len(a) : i = To(j) /\ b[i] = a[j]
  <2>1. i # Len(q) + 1
    BY <1>2, <1>8
  <2>2. CASE i <= Len(q)
    <3>1. i \in 1..Len(a) /\ To(i) = i
      BY <1>1, <2>2
    <3> QED BY <1>4, <3>1
  <2>3. CASE i > Len(q) + 1
    <3>1. i - 1 \in 1..Len(a) /\ ~(i - 1 <= Len(q)) /\ (i - 1) + 1 = i
      BY <1>1, <1>2, <2>3
    <3>2. To(i - 1) = i
      BY <3>1
    <3> QED BY <1>4, <3>1, <3>2
  <2> QED BY <1>1, <1>2, <2>1, <2>2, <2>3
<1> HIDE DEF by, To
<1>9. ASSUME NEW k \in 1..Len(w) PROVE Negotiates(b[by[k]]) /\ b[by[k]].msg.exchange = w[k]
  <2>1. b[by[k]] = a[at[k]]
    BY <1>4, <1>6, <1>7
  <2>2. Negotiates(a[at[k]]) /\ a[at[k]].msg.exchange = w[k]
    BY <1>3 DEF Marks
  <2> QED BY <2>1, <2>2
<1>10. \A k, l \in 1..Len(w) : k < l => by[k] < by[l]
  BY <1>3, <1>5, <1>6, <1>7 DEF Marks
<1>11. ASSUME NEW i \in 1..Len(b), Negotiates(b[i]) PROVE \E k \in 1..Len(w) : by[k] = i
  <2>1. PICK j \in 1..Len(a) : i = To(j) /\ b[i] = a[j]
    BY <1>8, <1>11
  <2>2. PICK k \in 1..Len(w) : at[k] = j
    BY <1>3, <1>11, <2>1 DEF Marks
  <2> QED BY <1>7, <2>1, <2>2
<1>12. Reads(b, w)
  BY <1>7, <1>9, <1>10, <1>11 DEF Reads, Marks
<1> QED BY <1>12 DEF b

LEMMA ReadsAppend ==
  ASSUME NEW q \in Seq(MediaTasks), NEW t \in MediaTasks, ~Negotiates(t),
         NEW w \in Seq(Peers), Reads(q, w)
  PROVE  Reads(Append(q, t), w)
<1>1. <<>> \in Seq(MediaTasks) /\ q \o <<>> = q /\ Append(q, t) \in Seq(MediaTasks)
  BY EmptySeq, ConcatEmptySeq, AppendProperties
<1>2. Append(q, t) \o <<>> = Append(q, t)
  BY <1>1, ConcatEmptySeq
<1>3. Reads(q \o <<>>, w)
  BY <1>1
<1>4. Reads(Append(q, t) \o <<>>, w)
  BY <1>1, <1>3, ReadsInserted
<1> QED BY <1>2, <1>4

\* One that negotiates is added at the end.
LEMMA ReadsSaid ==
  ASSUME NEW q \in Seq(MediaTasks), NEW t \in MediaTasks, Negotiates(t), t.msg.exchange \in Peers,
         NEW w \in Seq(Peers), Reads(q, w)
  PROVE  Reads(Append(q, t), Append(w, t.msg.exchange))
<1> DEFINE a == Append(q, t)
           v == Append(w, t.msg.exchange)
<1>1. /\ Len(q) \in Nat /\ Len(a) = Len(q) + 1 /\ a[Len(q) + 1] = t
      /\ \A i \in 1..Len(q) : a[i] = q[i]
  BY AppendProperties, LenProperties
<1>2. /\ Len(w) \in Nat /\ Len(v) = Len(w) + 1 /\ v[Len(w) + 1] = t.msg.exchange
      /\ \A i \in 1..Len(w) : v[i] = w[i]
  BY AppendProperties, LenProperties
<1>3. PICK at \in [1..Len(w) -> 1..Len(q)] : Marks(q, w, at)
  BY DEF Reads
<1> DEFINE by == [k \in 1..Len(v) |-> IF k <= Len(w) THEN at[k] ELSE Len(q) + 1]
<1> HIDE DEF a, v
<1>4. \A k \in 1..Len(v) : k \in 1..Len(w) \/ k = Len(w) + 1
  BY <1>2
<1>5. \A k \in 1..Len(w) : k \in 1..Len(v) /\ k <= Len(w) /\ at[k] \in 1..Len(q)
  BY <1>2, <1>3
<1>6. by \in [1..Len(v) -> 1..Len(a)]
  BY <1>1, <1>2, <1>4, <1>5
<1>7. /\ \A k \in 1..Len(w) : by[k] = at[k]
      /\ Len(w) + 1 \in 1..Len(v) /\ by[Len(w) + 1] = Len(q) + 1
  BY <1>2, <1>5
<1> HIDE DEF by
<1>8. ASSUME NEW k \in 1..Len(v) PROVE Negotiates(a[by[k]]) /\ a[by[k]].msg.exchange = v[k]
  <2>1. CASE k \in 1..Len(w)
    <3>1. by[k] = at[k] /\ at[k] \in 1..Len(q) /\ v[k] = w[k]
      BY <1>2, <1>5, <1>7, <2>1
    <3>2. a[by[k]] = q[at[k]]
      BY <1>1, <3>1
    <3> QED BY <1>3, <2>1, <3>1, <3>2 DEF Marks
  <2>2. CASE k = Len(w) + 1
    BY <1>1, <1>2, <1>7, <2>2
  <2> QED BY <1>4, <2>1, <2>2
<1>9. ASSUME NEW k \in 1..Len(v), NEW l \in 1..Len(v), k < l PROVE by[k] < by[l]
  <2>1. k \in 1..Len(w) /\ by[k] = at[k] /\ at[k] \in 1..Len(q)
    BY <1>2, <1>4, <1>5, <1>7, <1>9
  <2>2. CASE l \in 1..Len(w)
    BY <1>3, <1>7, <1>9, <2>1, <2>2 DEF Marks
  <2>3. CASE l = Len(w) + 1
    BY <1>1, <1>7, <2>1, <2>3
  <2> QED BY <1>4, <2>2, <2>3
<1>10. ASSUME NEW i \in 1..Len(a), Negotiates(a[i]) PROVE \E k \in 1..Len(v) : by[k] = i
  <2>1. CASE i \in 1..Len(q)
    <3>1. PICK k \in 1..Len(w) : at[k] = i
      BY <1>1, <1>3, <1>10, <2>1 DEF Marks
    <3> QED BY <1>5, <1>7, <3>1
  <2>2. CASE i = Len(q) + 1
    BY <1>7, <2>2
  <2> QED BY <1>1, <2>1, <2>2
<1>11. Reads(a, v)
  BY <1>6, <1>8, <1>9, <1>10 DEF Reads, Marks
<1> QED BY <1>11 DEF a, v

------------------------------------------------------------------------------
(* The way to a peer. *)

LEMMA DataOf ==
  ASSUME NEW c \in Seq(Messages)
  PROVE  /\ Data(c) \in Seq(MediaTasks) /\ Len(Data(c)) = Len(c) /\ Len(c) \in Nat
         /\ \A i \in 1..Len(c) : c[i] \in Messages /\ Data(c)[i] = DataTask(c[i])
<1>1. Len(c) \in Nat /\ \A i \in 1..Len(c) : c[i] \in Messages
  BY LenProperties, ElementOfSeq
<1>2. \A i \in 1..Len(c) : DataTask(c[i]) \in MediaTasks
  BY <1>1, DataTaskTypes
<1>3. Data(c) \in [1..Len(c) -> MediaTasks] /\ \A i \in 1..Len(c) : Data(c)[i] = DataTask(c[i])
  BY <1>2 DEF Data
<1>4. Data(c) \in Seq(MediaTasks) /\ Len(Data(c)) = Len(c)
  BY <1>1, <1>3
<1> QED BY <1>1, <1>3, <1>4

\* Behind the last message comes another.
LEMMA WaySent ==
  ASSUME NEW q \in Seq(MediaTasks), NEW c \in Seq(Messages), NEW m \in Messages
  PROVE  /\ c \o <<m>> \in Seq(Messages)
         /\ q \o Data(c \o <<m>>) = Append(q \o Data(c), DataTask(m))
<1> DEFINE d == Append(c, m)
           t == DataTask(m)
<1>1. d = c \o <<m>> /\ d \in Seq(Messages)
  BY AppendProperties, AppendIsConcat
<1>2. /\ Len(d) = Len(c) + 1 /\ d[Len(c) + 1] = m
      /\ \A i \in 1..Len(c) : d[i] = c[i]
  BY AppendProperties
<1>3. t \in MediaTasks
  BY DataTaskTypes
<1> DEFINE a == Data(c)
           b == Data(d)
<1>4. /\ a \in Seq(MediaTasks) /\ Len(a) = Len(c) /\ Len(c) \in Nat
      /\ \A i \in 1..Len(c) : a[i] = DataTask(c[i])
  BY DataOf
<1>5. /\ b \in Seq(MediaTasks) /\ Len(b) = Len(d)
      /\ \A i \in 1..Len(d) : b[i] = DataTask(d[i])
  BY <1>1, DataOf
<1>6. b = Append(a, t)
  <2> HIDE DEF a, b, d
  <2>1. /\ Append(a, t) \in Seq(MediaTasks) /\ Len(Append(a, t)) = Len(a) + 1
        /\ \A i \in 1..Len(a) : Append(a, t)[i] = a[i]
        /\ Append(a, t)[Len(a) + 1] = t
    BY <1>3, <1>4, AppendProperties
  <2>2. \A i \in 1..Len(b) : b[i] = Append(a, t)[i]
    <3> SUFFICES ASSUME NEW i \in 1..Len(b) PROVE b[i] = Append(a, t)[i]
      OBVIOUS
    <3>1. CASE i \in 1..Len(c)
      BY <1>2, <1>4, <1>5, <2>1, <3>1
    <3>2. CASE i = Len(c) + 1
      BY <1>2, <1>4, <1>5, <2>1, <3>2
    <3> QED BY <1>2, <1>4, <1>5, <3>1, <3>2
  <2>3. Len(b) = Len(Append(a, t))
    BY <1>2, <1>4, <1>5, <2>1
  <2> QED BY <1>5, <2>1, <2>2, <2>3, SeqEqual
<1>7. q \o Append(a, t) = Append(q \o a, t)
  <2> HIDE DEF a, t
  <2>1. Append(a, t) = a \o <<t>> /\ <<t>> \in Seq(MediaTasks)
    BY <1>3, <1>4, AppendIsConcat
  <2>2. q \o (a \o <<t>>) = (q \o a) \o <<t>>
    BY <1>4, <2>1, ConcatAssociative
  <2>3. q \o a \in Seq(MediaTasks)
    BY <1>4, ConcatProperties
  <2>4. Append(q \o a, t) = (q \o a) \o <<t>>
    BY <1>3, <2>3, AppendIsConcat
  <2> QED BY <2>1, <2>2, <2>4
<1> QED BY <1>1, <1>6, <1>7

LEMMA TasksConcat ==
  \A a, b \in Seq(MediaTasks) :
    /\ a \o b \in Seq(MediaTasks) /\ Len(a) \in Nat /\ Len(b) \in Nat
    /\ Len(a \o b) = Len(a) + Len(b)
    /\ \A i \in 1..Len(a) : (a \o b)[i] = a[i]
    /\ \A i \in 1..Len(b) : (a \o b)[Len(a) + i] = b[i]
  BY ConcatParts

\* Over SCTP a message is delivered in its turn.
LEMMA WayDelivered ==
  ASSUME NEW q \in Seq(MediaTasks), NEW c \in Seq(Messages), c # <<>>
  PROVE  Append(q, DataTask(c[1])) \o Data(RemoveAt(c, 1)) = q \o Data(c)
<1> DEFINE r == Tail(c)
           t == DataTask(c[1])
<1>1. /\ r \in Seq(Messages) /\ Len(c) \in Nat /\ Len(c) > 0 /\ Len(r) = Len(c) - 1
      /\ \A i \in 1..(Len(c) - 1) : r[i] = c[i + 1]
  BY Taken
<1>2. RemoveAt(c, 1) = r
  <2>1. SubSeq(c, 1, 1 - 1) = <<>>
    BY SubSeqEmpty
  <2>2. SubSeq(c, 1 + 1, Len(c)) = r
    BY TailIsSubSeq
  <2>3. <<>> \o r = r
    BY <1>1, ConcatEmptySeq
  <2> QED BY <2>1, <2>2, <2>3 DEF RemoveAt
<1>3. t \in MediaTasks
  <2>1. c[1] \in Messages
    BY <1>1, DataOf
  <2> QED BY <2>1, DataTaskTypes
<1> DEFINE a == Data(c)
           b == Data(r)
<1>4. /\ a \in Seq(MediaTasks) /\ Len(a) = Len(c)
      /\ \A i \in 1..Len(c) : a[i] = DataTask(c[i])
  BY DataOf
<1>5. /\ b \in Seq(MediaTasks) /\ Len(b) = Len(r)
      /\ \A i \in 1..Len(r) : b[i] = DataTask(r[i])
  BY <1>1, DataOf
<1>6. a = <<t>> \o b
  <2> DEFINE u == <<t>>
  <2>1. u \in Seq(MediaTasks) /\ Len(u) = 1 /\ u[1] = t
    BY <1>3
  <2> HIDE DEF u, b, a, r
  <2>2. /\ u \o b \in Seq(MediaTasks) /\ Len(u \o b) = Len(u) + Len(b) /\ Len(b) \in Nat
        /\ \A i \in 1..Len(u) : (u \o b)[i] = u[i]
        /\ \A i \in 1..Len(b) : (u \o b)[Len(u) + i] = b[i]
    BY <1>5, <2>1, TasksConcat
  <2>3. \A i \in 1..Len(a) : a[i] = (u \o b)[i]
    <3> SUFFICES ASSUME NEW i \in 1..Len(a) PROVE a[i] = (u \o b)[i]
      OBVIOUS
    <3>1. CASE i = 1
      <4>1. i \in 1..Len(u) /\ i \in 1..Len(c)
        BY <1>1, <2>1, <3>1
      <4> QED BY <1>4, <2>1, <2>2, <3>1, <4>1
    <3>2. CASE i > 1
      <4>1. i - 1 \in 1..Len(b) /\ 1 + (i - 1) = i /\ i \in 1..Len(c) /\ (i - 1) + 1 = i
            /\ i - 1 \in 1..(Len(c) - 1)
        BY <1>1, <1>4, <1>5, <3>2
      <4>2. (u \o b)[i] = b[i - 1] /\ r[i - 1] = c[i]
        BY <1>1, <2>1, <2>2, <4>1
      <4> QED BY <1>4, <1>5, <4>1, <4>2
    <3>3. i = 1 \/ i > 1
      BY <1>1, <1>4
    <3> QED BY <3>1, <3>2, <3>3
  <2>4. Len(a) = Len(u \o b)
    BY <1>1, <1>4, <1>5, <2>1, <2>2
  <2> QED BY <1>4, <2>2, <2>3, <2>4, SeqEqual DEF u
<1>7. Append(q, t) \o b = q \o (<<t>> \o b)
  <2> HIDE DEF t, b
  <2>1. Append(q, t) = q \o <<t>> /\ <<t>> \in Seq(MediaTasks)
    BY <1>3, AppendIsConcat
  <2> QED BY <1>5, <2>1, ConcatAssociative
<1> QED BY <1>2, <1>6, <1>7

\* A task is taken from the media queue.
LEMMA WayTaken ==
  ASSUME NEW q \in Seq(MediaTasks), q # <<>>, NEW d \in Seq(MediaTasks)
  PROVE  q \o d # <<>> /\ (q \o d)[1] = q[1] /\ Tail(q) \o d = Tail(q \o d)
<1> DEFINE a == q \o d
           r == Tail(q)
<1>1. /\ Len(q) \in Nat /\ Len(q) > 0 /\ r \in Seq(MediaTasks) /\ Len(r) = Len(q) - 1
      /\ \A i \in 1..(Len(q) - 1) : r[i] = q[i + 1]
  BY Taken
<1>2. /\ a \in Seq(MediaTasks) /\ Len(a) = Len(q) + Len(d) /\ Len(d) \in Nat
      /\ \A i \in 1..Len(q) : a[i] = q[i]
      /\ \A i \in 1..Len(d) : a[Len(q) + i] = d[i]
  BY ConcatParts
<1> HIDE DEF a, r
<1>3. a # <<>> /\ a[1] = q[1]
  BY <1>1, <1>2, EmptySeq
<1>4. /\ Tail(a) \in Seq(MediaTasks) /\ Len(Tail(a)) = Len(a) - 1
      /\ \A i \in 1..(Len(a) - 1) : Tail(a)[i] = a[i + 1]
  BY <1>2, <1>3, Taken
<1>5. /\ r \o d \in Seq(MediaTasks) /\ Len(r \o d) = Len(r) + Len(d)
      /\ \A i \in 1..Len(r) : (r \o d)[i] = r[i]
      /\ \A i \in 1..Len(d) : (r \o d)[Len(r) + i] = d[i]
  BY <1>1, TasksConcat
<1>6. \A i \in 1..Len(Tail(a)) : Tail(a)[i] = (r \o d)[i]
  <2> SUFFICES ASSUME NEW i \in 1..Len(Tail(a)) PROVE Tail(a)[i] = (r \o d)[i]
    OBVIOUS
  <2>1. Tail(a)[i] = a[i + 1]
    BY <1>4
  <2>2. CASE i < Len(q)
    <3>1. i \in 1..Len(r) /\ i \in 1..(Len(q) - 1) /\ i + 1 \in 1..Len(q)
      BY <1>1, <1>2, <1>4, <2>2
    <3> QED BY <1>1, <1>2, <1>5, <2>1, <3>1
  <2>3. CASE i >= Len(q)
    <3>1. i - Len(r) \in 1..Len(d) /\ Len(r) + (i - Len(r)) = i /\ Len(q) + (i - Len(r)) = i + 1
      BY <1>1, <1>2, <1>4, <2>3
    <3>2. (r \o d)[i] = d[i - Len(r)] /\ a[i + 1] = d[i - Len(r)]
      BY <1>2, <1>5, <3>1
    <3> QED BY <2>1, <3>2
  <2> QED BY <1>1, <1>2, <1>4, <2>2, <2>3
<1>7. Len(Tail(a)) = Len(r \o d)
  BY <1>1, <1>2, <1>4, <1>5
<1>8. Tail(a) = r \o d
  BY <1>4, <1>5, <1>6, <1>7, SeqEqual
<1> QED BY <1>3, <1>8 DEF a, r

------------------------------------------------------------------------------
(* What a step leaves on the way to a peer, and of its part in the exchanges. *)

WayKept(x) == \A w \in Seq(Peers) : Reads(Way(x), w) => Reads(Way(x)', w)

LEMMA KeptTaken ==
  ASSUME V3Types, NEW p \in Peers, NEW op, Takes(p, op), ~Negotiates(mediaQ[p][1]),
         NEW x \in Peers, chan'[x] = chan[x]
  PROVE  WayKept(x)
<1> DEFINE d == Data(chan[x])
<1>1. d \in Seq(MediaTasks) /\ mediaQ[x] \in Seq(MediaTasks) /\ mediaQ[x] \o d \in Seq(MediaTasks)
  BY DataOf, ConcatProperties DEF V3Types
<1>2. /\ mediaQ[p] # <<>> /\ mediaQ'[p] = Tail(mediaQ[p])
      /\ \A y \in Peers : y # p => mediaQ'[y] = mediaQ[y]
  BY TookFromChannel
<1> HIDE DEF d
<1>3. CASE x # p
  BY <1>2, <1>3 DEF WayKept, Way
<1>4. CASE x = p
  <2>1. /\ mediaQ[x] \o d # <<>> /\ (mediaQ[x] \o d)[1] = mediaQ[x][1]
        /\ Tail(mediaQ[x]) \o d = Tail(mediaQ[x] \o d)
    BY <1>1, <1>2, <1>4, WayTaken
  <2>2. ASSUME NEW w \in Seq(Peers), Reads(mediaQ[x] \o d, w) PROVE Reads(Tail(mediaQ[x]) \o d, w)
    BY <1>1, <1>4, <2>1, <2>2, ReadsTail
  <2>3. Way(x) = mediaQ[x] \o d /\ Way(x)' = Tail(mediaQ[x]) \o d
    BY <1>2, <1>4 DEF Way, d
  <2> QED BY <2>2, <2>3 DEF WayKept
<1> QED BY <1>3, <1>4

LEMMA KeptSent ==
  ASSUME V3Types, NEW x \in Peers, mediaQ'[x] = mediaQ[x], NEW m \in Messages,
         m.kind # "Negotiate", chan'[x] = chan[x] \/ chan'[x] = chan[x] \o <<m>>
  PROVE  WayKept(x)
<1>1. chan[x] \in Seq(Messages) /\ mediaQ[x] \in Seq(MediaTasks)
  BY DEF V3Types
<1>2. CASE chan'[x] = chan[x]
  BY <1>2 DEF WayKept, Way
<1>3. CASE chan'[x] = chan[x] \o <<m>>
  <2>1. DataTask(m) \in MediaTasks /\ ~Negotiates(DataTask(m))
    BY DataTaskTypes DEF Negotiates, DataTask, Task
  <2>2. Way(x)' = Append(Way(x), DataTask(m))
    BY <1>1, <1>3, WaySent DEF Way
  <2>3. Way(x) \in Seq(MediaTasks)
    BY <1>1, DataOf, ConcatProperties DEF Way
  <2> QED BY <2>1, <2>2, <2>3, ReadsAppend DEF WayKept
<1> QED BY <1>2, <1>3

LEMMA KeptAdded ==
  ASSUME V3Types, NEW x \in Peers, chan'[x] = chan[x],
         \/ mediaQ'[x] = mediaQ[x]
         \/ \E t \in MediaTasks : t.op # "data" /\ mediaQ'[x] = Append(mediaQ[x], t)
  PROVE  WayKept(x)
<1>1. Data(chan[x]) \in Seq(MediaTasks) /\ mediaQ[x] \in Seq(MediaTasks)
  BY DataOf DEF V3Types
<1>2. CASE mediaQ'[x] = mediaQ[x]
  BY <1>2 DEF WayKept, Way
<1>3. CASE mediaQ'[x] # mediaQ[x]
  <2>1. PICK t \in MediaTasks : t.op # "data" /\ mediaQ'[x] = Append(mediaQ[x], t)
    BY <1>3
  <2>2. ~Negotiates(t)
    BY <2>1 DEF Negotiates
  <2>3. Way(x)' = Append(mediaQ[x], t) \o Data(chan[x])
    BY <2>1 DEF Way
  <2> QED BY <1>1, <2>2, <2>3, ReadsInserted DEF WayKept, Way
<1> QED BY <1>2, <1>3

------------------------------------------------------------------------------
(* The exchanges.  Over SCTP, when nothing is refused, they take six phases:   *)
(* the caller has not begun; its offer is out; the callee has answered it and  *)
(* offered in turn; the caller has its answer; it has answered the callee's    *)
(* offer; the callee has that answer.                                          *)

NotStarted(p) ==
  /\ ~st[p].conn
  /\ \/ net[p].state = "none"
     \/ pc[p] = "signaling" /\ st[p].ready /\ st[p].need
Started(p) == st[p].conn /\ st[p].ready /\ pc[p] = "idle" /\ net[p].state # "none"

Silent(p) == ~st[p].offered /\ ~st[p].in /\ st[p].out = "none"
Fresh(p) == Silent(p) /\ (NotStarted(p) \/ (Started(p) /\ st[p].need))
Offered(p) == Started(p) /\ st[p].offered /\ st[p].need /\ st[p].out = "none"
Settled(p) == Started(p) /\ ~st[p].offered /\ ~st[p].need /\ st[p].out # "none"

Words(a, b) == Reads(Way("caller"), a) /\ Reads(Way("callee"), b)
Exchange ==
  \/ /\ Silent("caller") /\ NotStarted("caller") /\ Fresh("callee")
     /\ Words(<<>>, <<>>)
  \/ /\ Offered("caller") /\ ~st["caller"].in /\ Fresh("callee")
     /\ Words(<<>>, <<"caller">>)
  \/ /\ Offered("caller") /\ ~st["caller"].in /\ Offered("callee") /\ st["callee"].in
     /\ Words(<<"caller", "callee">>, <<>>)
  \/ /\ Settled("caller") /\ ~st["caller"].in /\ Offered("callee") /\ st["callee"].in
     /\ Words(<<"callee">>, <<>>)
  \/ /\ Settled("caller") /\ st["caller"].in /\ Offered("callee") /\ st["callee"].in
     /\ Words(<<>>, <<"callee">>)
  \/ /\ Settled("caller") /\ st["caller"].in /\ Settled("callee") /\ st["callee"].in
     /\ Words(<<>>, <<>>)

Exchanges == sctp /\ ~refused /\ Unreleased => Exchange

\* What a step leaves of the part of a peer.
PartKept(x) ==
  /\ st'[x].conn <=> st[x].conn
  /\ st'[x].ready <=> st[x].ready
  /\ st'[x].need <=> st[x].need
  /\ st'[x].offered <=> st[x].offered
  /\ st'[x].in <=> st[x].in
  /\ st'[x].out = "none" <=> st[x].out = "none"
  /\ pc'[x] = pc[x]
  /\ net'[x].state = "none" <=> net[x].state = "none"

LEMMA PartsKept ==
  ASSUME NEW x \in Peers, PartKept(x)
  PROVE  /\ (NotStarted(x) => NotStarted(x)') /\ (Started(x) => Started(x)')
         /\ (Silent(x) => Silent(x)') /\ (Fresh(x) => Fresh(x)')
         /\ (Offered(x) => Offered(x)') /\ (Settled(x) => Settled(x)')
         /\ (st[x].in <=> st'[x].in)
<1>1. (NotStarted(x) => NotStarted(x)') /\ (Started(x) => Started(x)')
      /\ (Silent(x) => Silent(x)') /\ (st[x].in <=> st'[x].in)
      /\ (st[x].need <=> st'[x].need)
  BY DEF PartKept, NotStarted, Started, Silent
<1>2. Fresh(x) => Fresh(x)'
  BY <1>1 DEF Fresh
<1>3. (Offered(x) => Offered(x)') /\ (Settled(x) => Settled(x)')
  BY <1>1 DEF PartKept, Offered, Settled
<1> QED BY <1>1, <1>2, <1>3

LEMMA SaidWords ==
  /\ <<>> \in Seq(Peers) /\ <<"caller">> \in Seq(Peers) /\ <<"callee">> \in Seq(Peers)
  /\ <<"caller", "callee">> \in Seq(Peers)
  /\ Append(<<>>, "caller") = <<"caller">> /\ Append(<<>>, "callee") = <<"callee">>
  /\ Append(<<"caller">>, "callee") = <<"caller", "callee">>
  /\ Tail(<<"caller">>) = <<>> /\ Tail(<<"callee">>) = <<>>
  /\ Tail(<<"caller", "callee">>) = <<"callee">>
  /\ <<"caller">>[1] = "caller" /\ <<"callee">>[1] = "callee"
  /\ <<"caller", "callee">>[1] = "caller"
<1>1. /\ <<>> \in Seq(Peers) /\ <<"caller">> \in Seq(Peers) /\ <<"callee">> \in Seq(Peers)
      /\ <<"caller", "callee">> \in Seq(Peers)
  BY DEF Peers
<1>2. /\ Append(<<>>, "caller") = <<"caller">> /\ Append(<<>>, "callee") = <<"callee">>
  OBVIOUS
<1>3. Tail(<<"caller">>) = <<>> /\ Tail(<<"callee">>) = <<>>
  OBVIOUS
<1>4. Tail(<<"caller", "callee">>) = <<"callee">>
  OBVIOUS
<1>5. Append(<<"caller">>, "callee") = <<"caller", "callee">>
  <2> DEFINE a == <<"caller">>
             b == <<"caller", "callee">>
             s == Append(a, "callee")
  <2>1. /\ a \in Seq(Peers) /\ "callee" \in Peers /\ Len(a) = 1 /\ a[1] = "caller"
        /\ b \in Seq(Peers) /\ Len(b) = 2 /\ b[1] = "caller" /\ b[2] = "callee"
    BY DEF Peers
  <2> HIDE DEF a, b
  <2>2. /\ s \in Seq(Peers) /\ Len(s) = Len(a) + 1 /\ s[Len(a) + 1] = "callee"
        /\ \A i \in 1..Len(a) : s[i] = a[i]
    <3>1. \A x \in Seq(Peers), e \in Peers :
            /\ Append(x, e) \in Seq(Peers) /\ Len(Append(x, e)) = Len(x) + 1
            /\ Append(x, e)[Len(x) + 1] = e /\ \A i \in 1..Len(x) : Append(x, e)[i] = x[i]
      BY AppendProperties
    <3> QED BY <2>1, <3>1
  <2> HIDE DEF s
  <2>3. Len(s) = 2 /\ s[1] = "caller" /\ s[2] = "callee"
    BY <2>1, <2>2
  <2>4. \A i \in 1..2 : i = 1 \/ i = 2
    OBVIOUS
  <2>5. s = b
    BY <2>1, <2>2, <2>3, <2>4, SeqEqual
  <2> QED BY <2>5 DEF a, b, s
<1> QED BY <1>1, <1>2, <1>3, <1>4, <1>5

LEMMA ExchangeKept ==
  ASSUME Exchange, \A x \in Peers : WayKept(x) /\ PartKept(x)
  PROVE  Exchange'
<1>1. ASSUME NEW a \in Seq(Peers), NEW b \in Seq(Peers), Words(a, b) PROVE Words(a, b)'
  <2>1. "caller" \in Peers /\ "callee" \in Peers
    BY DEF Peers
  <2> QED BY <1>1, <2>1 DEF Words, WayKept
<1>2. /\ Words(<<>>, <<>>) => Words(<<>>, <<>>)'
      /\ Words(<<>>, <<"caller">>) => Words(<<>>, <<"caller">>)'
      /\ Words(<<"caller", "callee">>, <<>>) => Words(<<"caller", "callee">>, <<>>)'
      /\ Words(<<"callee">>, <<>>) => Words(<<"callee">>, <<>>)'
      /\ Words(<<>>, <<"callee">>) => Words(<<>>, <<"callee">>)'
  BY <1>1, SaidWords
<1>3. ASSUME NEW x \in Peers
      PROVE  /\ (NotStarted(x) => NotStarted(x)') /\ (Silent(x) => Silent(x)')
             /\ (Fresh(x) => Fresh(x)') /\ (Offered(x) => Offered(x)')
             /\ (Settled(x) => Settled(x)') /\ (st[x].in <=> st'[x].in)
  BY PartsKept
<1>4. /\ (NotStarted("caller") => NotStarted("caller")')
      /\ (Silent("caller") => Silent("caller")') /\ (Offered("caller") => Offered("caller")')
      /\ (Settled("caller") => Settled("caller")') /\ (st["caller"].in <=> st'["caller"].in)
      /\ (Fresh("callee") => Fresh("callee")') /\ (Offered("callee") => Offered("callee")')
      /\ (Settled("callee") => Settled("callee")') /\ (st["callee"].in <=> st'["callee"].in)
  BY <1>3 DEF Peers
<1> QED BY <1>2, <1>4 DEF Exchange

------------------------------------------------------------------------------
(* The steps that negotiate nothing. *)

\* While nobody is released a peer is working, and before its start task nothing runs.
LEMMA BeforeStart ==
  ASSUME V3Inv, NEW p \in Peers, ~released[p]
  PROVE  /\ pc[p] \in {"idle", "signaling"}
         /\ \A i \in 1..Len(netQ[p]) : netQ[p][i].op # "fence"
         /\ net[p].state = "none" => netQ[p] = <<>> /\ mediaQ[p] # <<>>
                                     /\ mediaQ[p][1].op = "start" /\ pc[p] = "idle"
<1>1. Working(pc[p], st[p], stopped[p], freed[p])
  BY UnreleasedWorks
<1>2. NetworkOf(mediaQ[p], netQ[p], pc[p], net[p], stopped[p])
  BY DEF V3Inv, PeerInv, Network
<1> QED BY <1>1, <1>2 DEF Working, NetworkOf

\* The media thread at work, other than on a start or on an offer or answer.
QuietMediaTask(p) ==
  \/ SendSetup(p) \/ ProcessSetup(p) \/ ProcessCandidates(p) \/ DataChannelState(p)
  \/ DataChannelMessage(p) \/ MuteMicrophone(p)

LEMMA MediaPartKept ==
  ASSUME V3Types, NEW p \in Peers, QuietMediaTask(p), NEW x \in Peers
  PROVE  PartKept(x)
<1>1. st \in [Peers -> Members] /\ st[p] \in Members /\ UNCHANGED <<pc, net>>
  BY DEF V3Types, QuietMediaTask, SendSetup, ProcessSetup, ProcessCandidates,
         DataChannelState, DataChannelMessage, MuteMicrophone
<1>2. CASE UNCHANGED st
  BY <1>1, <1>2 DEF PartKept
<1>3. CASE x # p
  <2>1. st'[x] = st[x]
    BY <1>1, <1>3 DEF QuietMediaTask, SendSetup, ProcessSetup, ProcessCandidates,
                      DataChannelState, DataChannelMessage, MuteMicrophone
  <2> QED BY <1>1, <2>1 DEF PartKept
<1>4. CASE x = p /\ st' # st
  <2> DEFINE Same(s) == /\ s.conn = st[p].conn /\ s.ready = st[p].ready /\ s.need = st[p].need
                        /\ s.offered = st[p].offered /\ s.in = st[p].in
                        /\ s.out = "none" <=> st[p].out = "none"
  <2>1. Same(st'[p])
    <3>1. CASE ProcessSetup(p)
      BY <1>1, <3>1 DEF ProcessSetup, Members
    <3>2. CASE ProcessCandidates(p)
      BY <1>1, <3>2 DEF ProcessCandidates, Members
    <3>3. CASE DataChannelState(p)
      <4>1. st' = [st EXCEPT ![p] = [st[p] EXCEPT !.dcOpen = Head(mediaQ[p]).flag]]
        BY <3>3 DEF DataChannelState
      <4> QED BY <1>1, <4>1 DEF Members
    <3>4. CASE MuteMicrophone(p)
      <4> DEFINE f == Head(mediaQ[p]).flag
                 o == OutgoingAudioChannel(f, st[p].out # "none")
      <4>1. st' = [st EXCEPT ![p] = [st[p] EXCEPT !.mute = f, !.out = o]]
        BY <1>4, <3>4 DEF MuteMicrophone
      <4>2. o = "none" <=> st[p].out = "none"
        BY DEF OutgoingAudioChannel
      <4> HIDE DEF f, o
      <4>3. [st[p] EXCEPT !.mute = f, !.out = o].out = o
        BY <1>1 DEF Members
      <4> QED BY <1>1, <4>1, <4>2, <4>3 DEF Members
    <3> QED BY <1>4, <3>1, <3>2, <3>3, <3>4
            DEF QuietMediaTask, SendSetup, DataChannelMessage
  <2> QED BY <1>1, <1>4, <2>1 DEF PartKept
<1> QED BY <1>2, <1>3, <1>4

LEMMA MediaWayKept ==
  ASSUME V3Types, NEW p \in Peers, QuietMediaTask(p), NEW x \in Peers
  PROVE  WayKept(x)
<1>1. PICK op \in {"params", "data", "dcState", "dcMessage", "mute"} :
        Takes(p, op) /\ (op = "data" => Head(mediaQ[p]).msg.kind # "Negotiate")
  BY DEF QuietMediaTask, SendSetup, ProcessSetup, ProcessCandidates, DataChannelState,
         DataChannelMessage, MuteMicrophone
<1>2. /\ mediaQ[p][1].op = op /\ Head(mediaQ[p]) = mediaQ[p][1]
      /\ \A y \in Peers : y # p => mediaQ'[y] = mediaQ[y]
  BY <1>1, TookFromChannel
<1>3. ~Negotiates(mediaQ[p][1])
  BY <1>1, <1>2 DEF Negotiates
<1>4. CASE chan'[x] = chan[x]
  BY <1>1, <1>3, <1>4, KeptTaken
<1>5. CASE chan'[x] # chan[x]
  <2> DEFINE m == Message("Setup", "none")
  <2>1. SendSetup(p)
    BY <1>5 DEF QuietMediaTask, SendSetup, ProcessSetup, ProcessCandidates, DataChannelState,
                DataChannelMessage, MuteMicrophone
  <2>2. chan' = [chan EXCEPT ![Other(p)] = @ \o <<m>>] /\ chan \in [Peers -> Seq(Messages)]
    BY <1>5, <2>1 DEF SendSetup, Send, V3Types
  <2>3. m \in Messages /\ m.kind # "Negotiate"
    BY DEF Messages, Message
  <2> HIDE DEF m
  <2>4. x = Other(p) /\ chan'[x] = chan[x] \o <<m>>
    BY <1>5, <2>2
  <2>5. x # p
    BY <2>4, OtherPeer
  <2> QED BY <1>2, <2>3, <2>4, <2>5, KeptSent
<1> QED BY <1>4, <1>5

\* The network thread.
LEMMA NetParts ==
  ASSUME V3Inv, NEW p \in Peers, ~released[p], NetThread(p), NEW x \in Peers
  PROVE  WayKept(x) /\ PartKept(x)
<1>1. V3Types /\ st \in [Peers -> Members] /\ net \in [Peers -> Networking]
  BY DEF V3Inv, V3Types
<1>2. PICK op : NetTakes(p, op)
  BY DEF NetThread, NetworkingTask, LocalParams, DataChannelSend, Fence
<1>3. netQ[p] # <<>> /\ netQ[p][1].op = op /\ Head(netQ[p]) = netQ[p][1] /\ 1 \in 1..Len(netQ[p])
      /\ Head(netQ[p]) \in NetTasks
  <2>1. netQ[p] # <<>> /\ netQ[p][1].op = op /\ netQ[p] \in Seq(NetTasks) /\ Head(netQ[p]) \in NetTasks
    BY <1>1, <1>2, TypesNetTakes DEF V3Types
  <2>2. Head(netQ[p]) = netQ[p][1] /\ Len(netQ[p]) \in Nat /\ Len(netQ[p]) > 0
    BY <2>1, Taken
  <2> QED BY <2>1, <2>2
<1>4. op # "fence" /\ net[p].state # "none"
  BY <1>3, BeforeStart
<1>5. ~Fence(p)
  <2>1. SUFFICES ASSUME Fence(p) PROVE FALSE
    OBVIOUS
  <2>2. Head(netQ[p]).op = "fence"
    BY <2>1 DEF Fence, NetTakes
  <2> QED BY <1>3, <1>4, <2>2
<1>6. UNCHANGED <<pc, st, chan>>
  BY <1>5 DEF NetThread, NetworkingTask, LocalParams, DataChannelSend
<1>7. WayKept(x)
  <2>1. \/ mediaQ'[x] = mediaQ[x]
        \/ \E t \in MediaTasks : t.op # "data" /\ mediaQ'[x] = Append(mediaQ[x], t)
    <3>1. CASE NetworkingTask(p)
      BY <3>1 DEF NetworkingTask
    <3>2. CASE LocalParams(p)
      <4>1. Task("params") \in MediaTasks /\ Task("params").op = "params"
        BY TaskTypes DEF MediaOps, Gated
      <4> QED BY <1>1, <3>2, <4>1 DEF LocalParams, V3Types
    <3>3. CASE DataChannelSend(p)
      <4> DEFINE t == FlagTask("dcMessage", Head(netQ[p]).flag)
      <4>1. t \in MediaTasks /\ t.op = "dcMessage"
        BY <1>3, FlagTaskTypes DEF NetTasks, MediaOps, Gated
      <4>2. mediaQ' = mediaQ \/ mediaQ' = [mediaQ EXCEPT ![Other(p)] = Append(@, t)]
        BY <3>3 DEF DataChannelSend
      <4> HIDE DEF t
      <4> QED BY <1>1, <4>1, <4>2 DEF V3Types
    <3> QED BY <1>5, <3>1, <3>2, <3>3 DEF NetThread
  <2> QED BY <1>1, <1>6, <2>1, KeptAdded
<1>8. net'[x].state = "none" <=> net[x].state = "none"
  <2>1. CASE NetworkingTask(p)
    <3>1. \/ net' = [net EXCEPT ![p].state = "started"]
          \/ net' = [net EXCEPT ![p].state = "stopped"]
          \/ net' = [net EXCEPT ![p].remote = TRUE]
          \/ net' = [net EXCEPT ![p].added = @ + 1]
      BY <2>1 DEF NetworkingTask
    <3> QED BY <1>1, <1>4, <3>1 DEF Networking
  <2>2. CASE ~NetworkingTask(p)
    BY <1>5, <2>2 DEF NetThread, LocalParams, DataChannelSend
  <2> QED BY <2>1, <2>2
<1> QED BY <1>6, <1>7, <1>8 DEF PartKept

\* A candidate that is sent, a message that is delivered over SCTP, a mute, and the data
\* channel.
LEMMA AroundParts ==
  ASSUME V3Types, dcUp \in BOOLEAN, sctp, NEW x \in Peers,
         Flap \/ \E p \in Peers : EmitLocalCandidate(p) \/ Deliver(p) \/ SetMute(p)
  PROVE  WayKept(x) /\ PartKept(x)
<1>1. PartKept(x)
  BY DEF PartKept, Flap, EmitLocalCandidate, Deliver, SetMute
<1>2. CASE Flap
  <2> DEFINE t == FlagTask("dcState", dcUp')
  <2>1. t \in MediaTasks /\ t.op = "dcState"
    <3>1. dcUp' \in BOOLEAN
      BY <1>2 DEF Flap
    <3> QED BY <3>1, FlagTaskTypes DEF MediaOps, Gated
  <2>2. chan' = chan /\ (mediaQ'[x] = mediaQ[x] \/ mediaQ'[x] = Append(mediaQ[x], t))
    BY <1>2 DEF Flap
  <2> HIDE DEF t
  <2>3. t.op # "data"
    BY <2>1
  <2> QED BY <1>1, <2>1, <2>2, <2>3, KeptAdded
<1>3. ASSUME NEW p \in Peers, EmitLocalCandidate(p) PROVE WayKept(x)
  <2> DEFINE m == Message("Candidates", "none")
  <2>1. m \in Messages /\ m.kind # "Negotiate"
    BY DEF Messages, Message
  <2>2. mediaQ' = mediaQ /\ (chan' = chan \/ chan' = [chan EXCEPT ![Other(p)] = Append(@, m)])
    BY <1>3 DEF EmitLocalCandidate
  <2>3. chan \in [Peers -> Seq(Messages)] /\ \A c \in Seq(Messages) : Append(c, m) = c \o <<m>>
    BY <2>1, AppendIsConcat DEF V3Types
  <2> HIDE DEF m
  <2>4. chan'[x] = chan[x] \/ chan'[x] = chan[x] \o <<m>>
    BY <2>2, <2>3
  <2> QED BY <2>1, <2>2, <2>4, KeptSent
<1>4. ASSUME NEW p \in Peers, Deliver(p) PROVE WayKept(x)
  <2>1. /\ mediaQ' = [mediaQ EXCEPT ![p] = Append(@, DataTask(chan[p][1]))]
        /\ chan' = [chan EXCEPT ![p] = RemoveAt(@, 1)] /\ chan[p] # <<>>
    <3>1. \A i \in 1..1 : i = 1
      OBVIOUS
    <3> QED BY <1>4, <3>1 DEF Deliver
  <2>2. chan \in [Peers -> Seq(Messages)] /\ mediaQ \in [Peers -> Seq(MediaTasks)]
    BY DEF V3Types
  <2>3. CASE x # p
    BY <2>1, <2>3 DEF WayKept, Way
  <2>4. CASE x = p
    <3>1. /\ mediaQ'[p] = Append(mediaQ[p], DataTask(chan[p][1]))
          /\ chan'[p] = RemoveAt(chan[p], 1)
      BY <2>1, <2>2
    <3>2. Append(mediaQ[p], DataTask(chan[p][1])) \o Data(RemoveAt(chan[p], 1))
            = mediaQ[p] \o Data(chan[p])
      BY <2>1, <2>2, WayDelivered
    <3>3. Way(p)' = Way(p)
      BY <3>1, <3>2 DEF Way
    <3> QED BY <2>4, <3>3 DEF WayKept
  <2> QED BY <2>3, <2>4
<1>5. ASSUME NEW p \in Peers, SetMute(p) PROVE WayKept(x)
  <2>1. PICK f \in BOOLEAN : mediaQ' = [mediaQ EXCEPT ![p] = Append(@, FlagTask("mute", f))]
    BY <1>5 DEF SetMute
  <2>2. FlagTask("mute", f) \in MediaTasks /\ FlagTask("mute", f).op = "mute"
    BY FlagTaskTypes DEF MediaOps
  <2>3. \/ mediaQ'[x] = mediaQ[x]
        \/ \E t \in MediaTasks : t.op # "data" /\ mediaQ'[x] = Append(mediaQ[x], t)
    BY <2>1, <2>2 DEF V3Types
  <2>4. chan' = chan
    BY <1>5 DEF SetMute
  <2> QED BY <2>3, <2>4, KeptAdded
<1> QED BY <1>1, <1>2, <1>3, <1>4, <1>5

------------------------------------------------------------------------------
(* The steps that negotiate. *)

\* What a step sends behind what is on the way to a peer.
LEMMA SaidOne ==
  ASSUME V3Types, NEW x \in Peers, mediaQ'[x] = mediaQ[x], NEW e \in Peers,
         chan'[x] = chan[x] \o <<Message("Negotiate", e)>>
  PROVE  \A w \in Seq(Peers) : Reads(Way(x), w) => Reads(Way(x)', Append(w, e))
<1> DEFINE m == Message("Negotiate", e)
<1>1. chan[x] \in Seq(Messages) /\ mediaQ[x] \in Seq(MediaTasks) /\ m \in Messages
  BY MessageTypes DEF V3Types
<1>2. DataTask(m) \in MediaTasks /\ Negotiates(DataTask(m)) /\ DataTask(m).msg.exchange = e
  <2>1. m.kind = "Negotiate" /\ m.exchange = e
    BY DEF Message
  <2>2. DataTask(m) \in MediaTasks /\ DataTask(m).op = "data"
    BY <1>1, DataTaskTypes
  <2>3. DataTask(m).msg = m
    BY DEF DataTask, Task
  <2> QED BY <2>1, <2>2, <2>3 DEF Negotiates
<1>3. Way(x)' = Append(Way(x), DataTask(m)) /\ Way(x) \in Seq(MediaTasks)
  <2>1. Data(chan[x]) \in Seq(MediaTasks)
    BY <1>1, DataOf
  <2>2. Way(x) \in Seq(MediaTasks)
    BY <1>1, <2>1, ConcatProperties DEF Way
  <2> HIDE DEF m
  <2>3. mediaQ[x] \o Data(chan[x] \o <<m>>) = Append(mediaQ[x] \o Data(chan[x]), DataTask(m))
    BY <1>1, WaySent
  <2>4. chan'[x] = chan[x] \o <<m>>
    BY DEF m
  <2> QED BY <2>2, <2>3, <2>4 DEF Way
<1> HIDE DEF m
<1> QED BY <1>2, <1>3, ReadsSaid

LEMMA SaidTwo ==
  ASSUME V3Types, NEW x \in Peers, mediaQ'[x] = mediaQ[x], NEW e \in Peers, NEW f \in Peers,
         chan'[x] = chan[x] \o (<<Message("Negotiate", e)>> \o <<Message("Negotiate", f)>>)
  PROVE  \A w \in Seq(Peers) : Reads(Way(x), w) => Reads(Way(x)', Append(Append(w, e), f))
<1> DEFINE m == Message("Negotiate", e)
           n == Message("Negotiate", f)
           c == chan[x]
           q == mediaQ[x]
           d == c \o <<m>>
<1>1. c \in Seq(Messages) /\ q \in Seq(MediaTasks) /\ m \in Messages /\ n \in Messages
  BY MessageTypes DEF V3Types
<1>2. /\ DataTask(m) \in MediaTasks /\ Negotiates(DataTask(m)) /\ DataTask(m).msg.exchange = e
      /\ DataTask(n) \in MediaTasks /\ Negotiates(DataTask(n)) /\ DataTask(n).msg.exchange = f
  <2>1. m.kind = "Negotiate" /\ m.exchange = e /\ n.kind = "Negotiate" /\ n.exchange = f
    BY DEF Message
  <2>2. /\ DataTask(m) \in MediaTasks /\ DataTask(m).op = "data"
        /\ DataTask(n) \in MediaTasks /\ DataTask(n).op = "data"
    BY <1>1, DataTaskTypes
  <2>3. DataTask(m).msg = m /\ DataTask(n).msg = n
    BY DEF DataTask, Task
  <2> QED BY <2>1, <2>2, <2>3 DEF Negotiates
<1>3. chan'[x] = c \o (<<m>> \o <<n>>)
  OBVIOUS
<1>4. Way(x) = q \o Data(c) /\ Way(x)' = q \o Data(chan'[x])
  BY DEF Way
<1> HIDE DEF m, n, c, q
<1>5. <<m>> \in Seq(Messages) /\ <<n>> \in Seq(Messages)
  BY <1>1
<1>6. chan'[x] = d \o <<n>>
  <2>1. \A s, t, u \in Seq(Messages) : (s \o t) \o u = s \o (t \o u)
    BY ConcatAssociative
  <2> QED BY <1>1, <1>3, <1>5, <2>1
<1>7. d \in Seq(Messages) /\ q \o Data(d) = Append(q \o Data(c), DataTask(m))
  BY <1>1, WaySent
<1>8. q \o Data(d \o <<n>>) = Append(q \o Data(d), DataTask(n))
  <2> HIDE DEF d
  <2> QED BY <1>1, <1>7, WaySent
<1> DEFINE a == q \o Data(c)
           b == Append(a, DataTask(m))
<1>9. a \in Seq(MediaTasks) /\ b \in Seq(MediaTasks)
  <2>1. a \in Seq(MediaTasks)
    BY <1>1, DataOf, ConcatProperties
  <2> HIDE DEF a
  <2> QED BY <1>2, <2>1, AppendProperties
<1>10. Way(x) = a /\ Way(x)' = Append(b, DataTask(n))
  BY <1>4, <1>6, <1>7, <1>8
<1> HIDE DEF a
<1>11. ASSUME NEW w \in Seq(Peers), Reads(a, w) PROVE Reads(b, Append(w, e))
  BY <1>2, <1>9, <1>11, ReadsSaid
<1> HIDE DEF b
<1>12. ASSUME NEW w \in Seq(Peers), Reads(b, w) PROVE Reads(Append(b, DataTask(n)), Append(w, f))
  BY <1>2, <1>9, <1>12, ReadsSaid
<1>13. \A w \in Seq(Peers) : Append(w, e) \in Seq(Peers)
  BY AppendProperties
<1> QED BY <1>10, <1>11, <1>12, <1>13

\* The members that an offer or an answer touches.
LEMMA NegotiationFields ==
  ASSUME NEW p \in Peers, NEW e \in Peers, NEW o \in BOOLEAN, st[p] \in Members,
         NEW madeIn \in BOOLEAN, NEW madeOut \in BOOLEAN
  PROVE  LET n == Negotiated(p, e)
             s == NegotiationOf(p, e, o, madeIn, madeOut)
         IN /\ s.conn = st[p].conn /\ s.ready = st[p].ready /\ s.need = n.s.need
            /\ s.offered <=> (n.s.offered \/ o)
            /\ s.in <=> (st[p].in \/ (n.heard /\ madeIn))
            /\ s.out = IF ~n.s.need /\ st[p].out = "none"
                       THEN OutgoingAudioChannel(st[p].mute, madeOut) ELSE st[p].out
<1> DEFINE m == Negotiated(p, e).s
           heard == Negotiated(p, e).heard
           x == [m EXCEPT !.offered = @ \/ o]
           s == NegotiatedChannels(x, heard, madeIn, madeOut)
<1>1. /\ m \in Members /\ m.conn = st[p].conn /\ m.ready = st[p].ready /\ m.in = st[p].in
      /\ m.out = st[p].out /\ m.mute = st[p].mute
  <2> DEFINE Same(a) == /\ a \in Members /\ a.conn = st[p].conn /\ a.ready = st[p].ready
                        /\ a.in = st[p].in /\ a.out = st[p].out /\ a.mute = st[p].mute
  <2>1. Same(st[p])
    OBVIOUS
  <2>2. /\ [st[p] EXCEPT !.offered = FALSE, !.need = FALSE] \in Members
        /\ [st[p] EXCEPT !.offered = FALSE] \in Members
    BY MembersSet
  <2>3. /\ Same([st[p] EXCEPT !.offered = FALSE, !.need = FALSE])
        /\ Same([st[p] EXCEPT !.offered = FALSE])
    BY <2>2 DEF Members
  <2>4. \/ m = [st[p] EXCEPT !.offered = FALSE, !.need = FALSE]
        \/ m = st[p]
        \/ m = [st[p] EXCEPT !.offered = FALSE]
    BY DEF Negotiated
  <2> HIDE DEF m, Same
  <2>5. Same(m)
    BY <2>1, <2>3, <2>4
  <2> QED BY <2>5 DEF Same
<1> HIDE DEF m, heard
<1>2. /\ x \in Members /\ x.conn = m.conn /\ x.ready = m.ready /\ x.in = m.in /\ x.out = m.out
      /\ x.mute = m.mute /\ x.need = m.need /\ (x.offered <=> (m.offered \/ o))
  BY <1>1 DEF Members
<1> HIDE DEF x
<1>3. /\ s.conn = x.conn /\ s.ready = x.ready /\ s.need = x.need /\ s.offered = x.offered
      /\ s.in <=> (x.in \/ (heard /\ madeIn))
      /\ s.out = IF ~x.need /\ x.out = "none"
                 THEN OutgoingAudioChannel(x.mute, madeOut) ELSE x.out
  <2>1. s = [x EXCEPT !.in = x.in \/ (heard /\ madeIn),
                      !.out = IF ~x.need /\ x.out = "none"
                              THEN OutgoingAudioChannel(x.mute, madeOut) ELSE x.out]
    BY DEF NegotiatedChannels, IncomingAudioChannel
  <2> DEFINE i == x.in \/ (heard /\ madeIn)
             u == IF ~x.need /\ x.out = "none"
                  THEN OutgoingAudioChannel(x.mute, madeOut) ELSE x.out
  <2>2. s = [x EXCEPT !.in = i, !.out = u]
    BY <2>1
  <2> HIDE DEF s, i, u
  <2>3. /\ s.conn = x.conn /\ s.ready = x.ready /\ s.need = x.need /\ s.offered = x.offered
        /\ s.in = i /\ s.out = u
    BY <1>2, <2>2 DEF Members
  <2> QED BY <2>3 DEF i, u
<1> HIDE DEF s
<1>4. /\ s.conn = st[p].conn /\ s.ready = st[p].ready /\ s.need = m.need
      /\ s.offered <=> (m.offered \/ o)
      /\ s.in <=> (st[p].in \/ (heard /\ madeIn))
      /\ s.out = IF ~m.need /\ st[p].out = "none"
                 THEN OutgoingAudioChannel(st[p].mute, madeOut) ELSE st[p].out
  <2>1. s.conn = st[p].conn /\ s.ready = st[p].ready /\ s.need = m.need
    BY <1>1, <1>2, <1>3
  <2>2. (s.offered <=> (m.offered \/ o)) /\ (s.in <=> (st[p].in \/ (heard /\ madeIn)))
    BY <1>1, <1>2, <1>3
  <2>3. s.out = IF ~m.need /\ st[p].out = "none"
                THEN OutgoingAudioChannel(st[p].mute, madeOut) ELSE st[p].out
    BY <1>1, <1>2, <1>3
  <2> QED BY <2>1, <2>2, <2>3
<1> QED BY <1>4 DEF s, x, m, heard, NegotiationOf

\* An offer or an answer is taken from the way to a peer that has begun: what is sent and
\* what becomes of the peer.
NegotiationBy(p, e, o, madeIn, madeOut) ==
  LET n == Negotiated(p, e)
      s == NegotiationOf(p, e, o, madeIn, madeOut)
  IN /\ e \in Peers /\ o \in BOOLEAN /\ (o <=> MustOffer(n.s))
     /\ st' = [st EXCEPT ![p] = s] /\ st[p] \in Members
     /\ (n.heard => s.in) /\ (~s.need => s.out # "none")
     /\ UNCHANGED <<pc, net>>
     /\ \A w \in Seq(Peers) : Reads(Way(p), w) => w # <<>> /\ w[1] = e /\ Reads(Way(p)', Tail(w))
     /\ \A w \in Seq(Peers) : Reads(Way(Other(p)), w) =>
          /\ ~n.answer /\ ~o => Reads(Way(Other(p))', w)
          /\ n.answer /\ ~o => Reads(Way(Other(p))', Append(w, e))
          /\ n.answer /\ o => Reads(Way(Other(p))', Append(Append(w, e), p))

LEMMA NegotiationDone ==
  ASSUME V3Types, NEW p \in Peers, ProcessNegotiate(p), st[p].ready, st[p].conn, ~refused'
  PROVE  \E e \in Peers, o, madeIn, madeOut \in BOOLEAN : NegotiationBy(p, e, o, madeIn, madeOut)
<1> DEFINE q == Other(p)
<1>1. q \in Peers /\ q # p
  BY OtherPeer
<1>2. /\ mediaQ[p] \in Seq(MediaTasks) /\ mediaQ[p] # <<>> /\ mediaQ[p][1].op = "data"
      /\ Head(mediaQ[p]) = mediaQ[p][1] /\ mediaQ'[p] = Tail(mediaQ[p])
      /\ \A x \in Peers : x # p => mediaQ'[x] = mediaQ[x]
  BY TookFromChannel DEF ProcessNegotiate
<1> DEFINE e == Head(mediaQ[p]).msg.exchange
<1>4. Negotiates(mediaQ[p][1]) /\ mediaQ[p][1].msg.exchange = e /\ e \in Peers
  <2>1. mediaQ[p][1].msg.kind = "Negotiate" /\ mediaQ[p][1].msg.exchange = e
    BY <1>2 DEF ProcessNegotiate
  <2>2. mediaQ[p][1] \in MediaTasks
    BY <1>2, Taken
  <2>3. mediaQ[p][1].msg \in Carried
    BY <2>2 DEF MediaTasks
  <2>4. \A m \in Carried : m.kind = "Negotiate" => m.exchange \in Peers
    BY DEF Carried, Messages, Message
  <2> QED BY <1>2, <2>1, <2>3, <2>4 DEF Negotiates
<1> DEFINE n == Negotiated(p, e)
<1> DEFINE o == MustOffer(n.s)
<1>5. o \in BOOLEAN
  BY DEF MustOffer
<1>7. st[p] \in Members /\ st \in [Peers -> Members]
  BY DEF V3Types
<1> DEFINE said == (IF n.answer THEN <<Message("Negotiate", e)>> ELSE <<>>)
                   \o (IF o THEN <<Message("Negotiate", p)>> ELSE <<>>)
<1>8. PICK madeIn \in BOOLEAN, madeOut \in BOOLEAN :
        LET s == NegotiationOf(p, e, o, madeIn, madeOut)
        IN /\ st' = [st EXCEPT ![p] = s]
           /\ Send(p, said)
           /\ IF (n.heard /\ ~s.in) \/ (~s.need /\ s.out = "none")
              THEN Refusal ELSE UNCHANGED <<refused, events>>
  BY DEF ProcessNegotiate, NegotiationOf
<1>6. o <=> MustOffer(n.s)
  OBVIOUS
<1> HIDE DEF o, e
<1> DEFINE s == NegotiationOf(p, e, o, madeIn, madeOut)
<1>9. st' = [st EXCEPT ![p] = s] /\ (n.heard => s.in) /\ (~s.need => s.out # "none")
  BY <1>8 DEF Refusal
<1>10. chan'[q] = chan[q] \o said /\ chan'[p] = chan[p]
  <2>1. s.conn
    <3>1. \A f \in Peers, b \in BOOLEAN :
            NegotiationOf(p, f, b, madeIn, madeOut).conn = st[p].conn
      BY <1>7, NegotiationFields
    <3> QED BY <1>4, <1>5, <3>1
  <2>2. st'[p] = s
    BY <1>7, <1>9
  <2>3. chan' = [chan EXCEPT ![q] = @ \o said]
    BY <1>8, <2>1, <2>2 DEF Send
  <2> HIDE DEF said, q
  <2> QED BY <1>1, <2>3 DEF V3Types
<1> HIDE DEF s
<1>11. ASSUME NEW w \in Seq(Peers), Reads(Way(p), w)
       PROVE  w # <<>> /\ w[1] = e /\ Reads(Way(p)', Tail(w))
  <2> DEFINE d == Data(chan[p])
             a == mediaQ[p] \o d
  <2>1. d \in Seq(MediaTasks) /\ a \in Seq(MediaTasks)
    BY <1>2, DataOf, ConcatProperties DEF V3Types
  <2>2. Way(p) = a /\ Way(p)' = Tail(mediaQ[p]) \o d
    BY <1>2, <1>10 DEF Way
  <2>3. a # <<>> /\ a[1] = mediaQ[p][1] /\ Tail(mediaQ[p]) \o d = Tail(a)
    BY <1>2, <2>1, WayTaken
  <2> HIDE DEF a, d
  <2>4. Reads(a, w) /\ Negotiates(a[1]) /\ a[1].msg.exchange = e
    BY <1>4, <1>11, <2>2, <2>3
  <2>5. w # <<>> /\ w[1] = e /\ Reads(Tail(a), Tail(w))
    BY <2>1, <2>3, <2>4, ReadsNext
  <2> QED BY <2>2, <2>3, <2>5
<1>12. ASSUME NEW w \in Seq(Peers), Reads(Way(q), w)
       PROVE  /\ ~n.answer /\ ~o => Reads(Way(q)', w)
              /\ n.answer /\ ~o => Reads(Way(q)', Append(w, e))
              /\ n.answer /\ o => Reads(Way(q)', Append(Append(w, e), p))
  <2> DEFINE a == <<Message("Negotiate", e)>>
             b == <<Message("Negotiate", p)>>
             z == <<>>
  <2>1. a \in Seq(Messages) /\ b \in Seq(Messages) /\ z \in Seq(Messages)
    BY <1>4, MessageTypes
  <2>2. /\ said = (IF n.answer THEN a ELSE z) \o (IF o THEN b ELSE z)
        /\ mediaQ'[q] = mediaQ[q]
    BY <1>1, <1>2
  <2> HIDE DEF n, said, q
  <2>3. chan[q] \in Seq(Messages)
    BY <1>1 DEF V3Types
  <2>4. ASSUME ~n.answer, ~o PROVE Reads(Way(q)', w)
    <3>1. said = z /\ chan[q] \o z = chan[q]
      BY <2>1, <2>2, <2>3, <2>4, ConcatEmptySeq
    <3>2. Way(q)' = Way(q)
      BY <1>10, <2>2, <3>1 DEF Way
    <3> QED BY <1>12, <3>2
  <2>5. ASSUME n.answer, ~o PROVE Reads(Way(q)', Append(w, e))
    <3>1. said = a
      BY <2>1, <2>2, <2>5, ConcatEmptySeq
    <3>2. chan'[q] = chan[q] \o <<Message("Negotiate", e)>>
      BY <1>10, <3>1
    <3> QED BY <1>1, <1>4, <1>12, <2>2, <3>2, SaidOne
  <2>6. ASSUME n.answer, o PROVE Reads(Way(q)', Append(Append(w, e), p))
    <3>1. chan'[q] = chan[q] \o (<<Message("Negotiate", e)>> \o <<Message("Negotiate", p)>>)
      BY <1>10, <2>2, <2>6
    <3> QED BY <1>1, <1>4, <1>12, <2>2, <3>1, SaidTwo
  <2> QED BY <2>4, <2>5, <2>6
<1>13. UNCHANGED <<pc, net>>
  BY DEF ProcessNegotiate
<1>14. NegotiationBy(p, e, o, madeIn, madeOut)
  BY <1>4, <1>5, <1>6, <1>7, <1>9, <1>11, <1>12, <1>13 DEF NegotiationBy, s
<1> QED BY <1>4, <1>5, <1>14

\* The answer to its own offer settles it for a peer.
LEMMA OfferSettled ==
  ASSUME NEW p \in Peers, NEW e, NEW o, NEW madeIn \in BOOLEAN, NEW madeOut \in BOOLEAN,
         NegotiationBy(p, e, o, madeIn, madeOut), V3Types, Offered(p), e = p
  PROVE  /\ Settled(p)' /\ (st'[p].in <=> st[p].in)
         /\ PartKept(Other(p))
         /\ \A w \in Seq(Peers) : Reads(Way(Other(p)), w) => Reads(Way(Other(p))', w)
<1> DEFINE n == Negotiated(p, e)
           s == NegotiationOf(p, e, o, madeIn, madeOut)
<1>1. /\ e \in Peers /\ o \in BOOLEAN /\ st[p] \in Members /\ st' = [st EXCEPT ![p] = s]
      /\ (o <=> MustOffer(n.s)) /\ (~s.need => s.out # "none") /\ UNCHANGED <<pc, net>>
  BY DEF NegotiationBy
<1>2. n = [s |-> [st[p] EXCEPT !.offered = FALSE, !.need = FALSE], answer |-> FALSE,
           heard |-> FALSE]
  BY DEF Negotiated, Offered
<1>3. /\ ~n.s.offered /\ ~n.s.need /\ ~n.answer /\ ~n.heard
  <2> DEFINE m == [st[p] EXCEPT !.offered = FALSE, !.need = FALSE]
  <2>1. ~m.offered /\ ~m.need
    BY <1>1 DEF Members
  <2>2. n = [s |-> m, answer |-> FALSE, heard |-> FALSE]
    BY <1>2
  <2> HIDE DEF m, n
  <2>3. n.s = m /\ ~n.answer /\ ~n.heard
    BY <2>2
  <2> QED BY <2>1, <2>3
<1>4. ~o
  BY <1>1, <1>3 DEF MustOffer
<1>5. /\ s.conn = st[p].conn /\ s.ready = st[p].ready /\ s.need = n.s.need
      /\ s.offered <=> (n.s.offered \/ o)
      /\ s.in <=> (st[p].in \/ (n.heard /\ madeIn))
  BY <1>1, NegotiationFields
<1>6. \A w \in Seq(Peers) : Reads(Way(Other(p)), w) => Reads(Way(Other(p))', w)
  BY <1>3, <1>4 DEF NegotiationBy
<1> HIDE DEF n, s
<1>7. st'[p] = s /\ st'[Other(p)] = st[Other(p)]
  BY <1>1, OtherPeer DEF V3Types
<1>8. ~s.need /\ ~s.offered /\ s.out # "none" /\ s.conn /\ s.ready /\ (s.in <=> st[p].in)
  BY <1>1, <1>3, <1>4, <1>5 DEF Offered, Started
<1>9. Settled(p)'
  BY <1>1, <1>7, <1>8 DEF Offered, Settled, Started
<1>10. PartKept(Other(p))
  BY <1>1, <1>7 DEF PartKept
<1> QED BY <1>6, <1>7, <1>8, <1>9, <1>10

\* An offer is taken by a peer that has none out: it answers, and offers if it has to.
LEMMA OfferTaken ==
  ASSUME NEW p \in Peers, NEW e, NEW o, NEW madeIn \in BOOLEAN, NEW madeOut \in BOOLEAN,
         NegotiationBy(p, e, o, madeIn, madeOut), V3Types, Started(p), ~st[p].offered
  PROVE  /\ Started(p)' /\ st'[p].in /\ (st'[p].need <=> st[p].need)
         /\ st'[p].offered <=> st[p].need
         /\ st[p].need => st'[p].out = st[p].out
         /\ ~st[p].need => st'[p].out # "none"
         /\ PartKept(Other(p))
         /\ \A w \in Seq(Peers) : Reads(Way(Other(p)), w) =>
              Reads(Way(Other(p))', IF st[p].need THEN Append(Append(w, e), p) ELSE Append(w, e))
<1> DEFINE n == Negotiated(p, e)
           s == NegotiationOf(p, e, o, madeIn, madeOut)
<1>1. /\ e \in Peers /\ o \in BOOLEAN /\ st[p] \in Members /\ st' = [st EXCEPT ![p] = s]
      /\ (o <=> MustOffer(n.s)) /\ (n.heard => s.in) /\ (~s.need => s.out # "none")
      /\ UNCHANGED <<pc, net>>
  BY DEF NegotiationBy
<1>2. n = [s |-> [st[p] EXCEPT !.offered = FALSE], answer |-> TRUE, heard |-> TRUE]
  BY DEF Negotiated
<1>3. /\ ~n.s.offered /\ (n.s.need <=> st[p].need) /\ n.s.ready /\ n.answer /\ n.heard
  BY <1>1, <1>2 DEF Members, Started
<1>4. o <=> st[p].need
  BY <1>1, <1>3 DEF MustOffer
<1>5. /\ s.conn = st[p].conn /\ s.ready = st[p].ready /\ s.need = n.s.need
      /\ s.offered <=> (n.s.offered \/ o)
      /\ s.out = IF ~n.s.need /\ st[p].out = "none"
                 THEN OutgoingAudioChannel(st[p].mute, madeOut) ELSE st[p].out
  BY <1>1, NegotiationFields
<1>6. ASSUME NEW w \in Seq(Peers), Reads(Way(Other(p)), w)
      PROVE  Reads(Way(Other(p))', IF st[p].need THEN Append(Append(w, e), p) ELSE Append(w, e))
  BY <1>3, <1>4, <1>6 DEF NegotiationBy
<1> HIDE DEF n, s
<1>7. st'[p] = s /\ st'[Other(p)] = st[Other(p)]
  BY <1>1, OtherPeer DEF V3Types
<1>8. /\ s.in /\ (s.need <=> st[p].need) /\ (s.offered <=> st[p].need) /\ s.conn /\ s.ready
      /\ (st[p].need => s.out = st[p].out) /\ (~st[p].need => s.out # "none")
  BY <1>1, <1>3, <1>4, <1>5 DEF Started
<1>9. Started(p)'
  BY <1>1, <1>7, <1>8 DEF Started
<1>10. PartKept(Other(p))
  BY <1>1, <1>7 DEF PartKept
<1> QED BY <1>6, <1>7, <1>8, <1>9, <1>10

LEMMA PeerNames ==
  /\ "caller" \in Peers /\ "callee" \in Peers
  /\ Other("caller") = "callee" /\ Other("callee") = "caller"
<1>1. "caller" \in Peers /\ "callee" \in Peers
  BY DEF Peers
<1>2. Other("caller") \in Peers /\ Other("caller") # "caller"
      /\ Other("callee") \in Peers /\ Other("callee") # "callee"
  BY <1>1, OtherPeer
<1> QED BY <1>1, <1>2 DEF Peers

\* Nothing that is said is lost on the way: what is taken was said next.
LEMMA NegotiateExchanges ==
  ASSUME V3Inv, Unreleased, NEW p \in Peers, ProcessNegotiate(p), ~refused', Exchange
  PROVE  Exchange'
<1>1. V3Types
  BY DEF V3Inv
<1>2. Started(p) => (\E e \in Peers, o, madeIn, madeOut \in BOOLEAN :
                       NegotiationBy(p, e, o, madeIn, madeOut))
  BY <1>1, NegotiationDone DEF Started
<1>3. pc[p] = "idle" /\ mediaQ[p][1].op = "data"
  BY <1>1, TookFromChannel DEF ProcessNegotiate, Takes
<1>4. ~NotStarted(p)
  BY <1>3, BeforeStart DEF NotStarted, Unreleased
<1>5. Started(p)
  BY <1>4, PeerNames DEF Exchange, Fresh, Offered, Settled, Peers
<1>6. PICK e \in Peers, o \in BOOLEAN, madeIn \in BOOLEAN, madeOut \in BOOLEAN :
        NegotiationBy(p, e, o, madeIn, madeOut)
  BY <1>2, <1>5
<1>7. \A w \in Seq(Peers) : Reads(Way(p), w) => w # <<>> /\ w[1] = e /\ Reads(Way(p)', Tail(w))
  BY <1>6 DEF NegotiationBy
<1>8. ~Reads(Way(p), <<>>)
  BY <1>7, SaidWords
<1>9. CASE p = "caller"
  <2>1. Other(p) = "callee"
    BY <1>9, PeerNames
  <2>2. CASE /\ Offered("caller") /\ ~st["caller"].in /\ Offered("callee") /\ st["callee"].in
             /\ Words(<<"caller", "callee">>, <<>>)
    <3>1. e = p /\ Reads(Way("caller")', <<"callee">>)
      BY <1>7, <1>9, <2>2, SaidWords DEF Words
    <3>2. /\ Settled(p)' /\ (st'[p].in <=> st[p].in) /\ PartKept(Other(p))
          /\ \A w \in Seq(Peers) : Reads(Way(Other(p)), w) => Reads(Way(Other(p))', w)
      BY <1>1, <1>6, <1>9, <2>2, <3>1, OfferSettled
    <3>3. Reads(Way("callee")', <<>>)
      BY <2>1, <2>2, <3>2, SaidWords DEF Words
    <3>4. Offered("callee")' /\ st'["callee"].in
      BY <2>1, <2>2, <3>2, PartsKept, PeerNames
    <3> QED BY <1>9, <2>2, <3>1, <3>2, <3>3, <3>4 DEF Exchange, Words
  <2>3. CASE /\ Settled("caller") /\ ~st["caller"].in /\ Offered("callee") /\ st["callee"].in
             /\ Words(<<"callee">>, <<>>)
    <3>1. e = "callee" /\ Reads(Way("caller")', <<>>)
      BY <1>7, <1>9, <2>3, SaidWords DEF Words
    <3>2. ~st[p].offered /\ ~st[p].need
      BY <1>9, <2>3 DEF Settled
    <3>3. /\ Started(p)' /\ st'[p].in /\ ~st'[p].need /\ ~st'[p].offered /\ st'[p].out # "none"
          /\ PartKept(Other(p))
          /\ \A w \in Seq(Peers) : Reads(Way(Other(p)), w) => Reads(Way(Other(p))', Append(w, e))
      BY <1>1, <1>5, <1>6, <3>2, OfferTaken
    <3>4. Settled("caller")'
      BY <1>9, <3>3 DEF Settled
    <3>5. Reads(Way("callee")', <<"callee">>)
      BY <2>1, <2>3, <3>1, <3>3, SaidWords DEF Words
    <3>6. Offered("callee")' /\ st'["callee"].in
      BY <2>1, <2>3, <3>3, PartsKept, PeerNames
    <3> QED BY <1>9, <3>1, <3>3, <3>4, <3>5, <3>6 DEF Exchange, Words
  <2> QED BY <1>8, <1>9, <2>2, <2>3 DEF Exchange, Words
<1>10. CASE p = "callee"
  <2>1. Other(p) = "caller"
    BY <1>10, PeerNames
  <2>2. CASE /\ Offered("caller") /\ ~st["caller"].in /\ Fresh("callee")
             /\ Words(<<>>, <<"caller">>)
    <3>1. e = "caller" /\ Reads(Way("callee")', <<>>)
      BY <1>7, <1>10, <2>2, SaidWords DEF Words
    <3>2. Silent(p) /\ ~st[p].offered /\ st[p].need /\ st[p].out = "none"
      BY <1>4, <1>10, <2>2 DEF Fresh, Silent
    <3>3. /\ Started(p)' /\ st'[p].in /\ st'[p].need /\ st'[p].offered /\ st'[p].out = "none"
          /\ PartKept(Other(p))
          /\ \A w \in Seq(Peers) : Reads(Way(Other(p)), w) =>
               Reads(Way(Other(p))', Append(Append(w, e), p))
      BY <1>1, <1>5, <1>6, <3>2, OfferTaken
    <3>4. Offered("callee")'
      BY <1>10, <3>3 DEF Offered
    <3>5. Reads(Way("caller")', <<"caller", "callee">>)
      BY <1>10, <2>1, <2>2, <3>1, <3>3, SaidWords DEF Words
    <3>6. Offered("caller")' /\ ~st'["caller"].in
      BY <2>1, <2>2, <3>3, PartsKept, PeerNames
    <3> QED BY <1>10, <3>1, <3>3, <3>4, <3>5, <3>6 DEF Exchange, Words
  <2>3. CASE /\ Settled("caller") /\ st["caller"].in /\ Offered("callee") /\ st["callee"].in
             /\ Words(<<>>, <<"callee">>)
    <3>1. e = p /\ Reads(Way("callee")', <<>>)
      BY <1>7, <1>10, <2>3, SaidWords DEF Words
    <3>2. /\ Settled(p)' /\ (st'[p].in <=> st[p].in) /\ PartKept(Other(p))
          /\ \A w \in Seq(Peers) : Reads(Way(Other(p)), w) => Reads(Way(Other(p))', w)
      BY <1>1, <1>6, <1>10, <2>3, <3>1, OfferSettled
    <3>3. Reads(Way("caller")', <<>>)
      BY <2>1, <2>3, <3>2, SaidWords DEF Words
    <3>4. Settled("caller")' /\ st'["caller"].in
      BY <2>1, <2>3, <3>2, PartsKept, PeerNames
    <3> QED BY <1>10, <2>3, <3>1, <3>2, <3>3, <3>4 DEF Exchange, Words
  <2> QED BY <1>8, <1>10, <2>2, <2>3 DEF Exchange, Words
<1> QED BY <1>9, <1>10 DEF Peers

\* The call starts for a peer: its networking object and its pipeline are made.
LEMMA StartExchanges ==
  ASSUME V3Inv, Unreleased, NEW p \in Peers, Running(p), Start(p), ~refused', Exchange
  PROVE  Exchange'
<1>1. V3Types /\ st \in [Peers -> Members] /\ st[p] \in Members
      /\ net \in [Peers -> Networking] /\ pc \in [Peers -> {"idle", "signaling", "fence", "teardown"}]
  BY DEF V3Inv, V3Types
<1>2. /\ mediaQ[p] \in Seq(MediaTasks) /\ mediaQ[p] # <<>> /\ mediaQ[p][1].op = "start"
      /\ Takes(p, "start")
  BY <1>1, TookFromChannel DEF Start
<1>3. net[p].state = "none" /\ pc[p] = "idle"
  <2>1. 1 \in DOMAIN mediaQ[p]
    BY <1>2, Taken, QueueIndex
  <2> QED BY <1>2, <2>1 DEF Running, RunningOf, Unreleased, Takes
<1>4. /\ st' = [st EXCEPT ![p] = [st[p] EXCEPT !.ready = TRUE, !.need = TRUE]]
      /\ pc' = [pc EXCEPT ![p] = "signaling"] /\ net' = [net EXCEPT ![p].state = "made"]
      /\ chan' = chan
  BY DEF Start, Refusal, SetUpMediaPipeline
<1>5. /\ st'[p].ready /\ st'[p].need /\ (st'[p].conn <=> st[p].conn)
      /\ (st'[p].offered <=> st[p].offered) /\ (st'[p].in <=> st[p].in)
      /\ st'[p].out = st[p].out /\ pc'[p] = "signaling" /\ st'[Other(p)] = st[Other(p)]
      /\ pc'[Other(p)] = pc[Other(p)] /\ net'[Other(p)] = net[Other(p)]
  BY <1>1, <1>4, OtherPeer DEF Members
<1>6. \A x \in Peers : WayKept(x)
  <2>1. ~Negotiates(mediaQ[p][1])
    BY <1>2 DEF Negotiates
  <2> QED BY <1>1, <1>2, <1>4, <2>1, KeptTaken
<1>7. PartKept(Other(p))
  BY <1>5 DEF PartKept
<1>8. ~Started(p) /\ (NotStarted(p) => NotStarted(p)') /\ (Silent(p) => Silent(p)')
  BY <1>3, <1>5 DEF Started, NotStarted, Silent
<1>9. \A w \in Seq(Peers) : /\ Reads(Way("caller"), w) => Reads(Way("caller")', w)
                            /\ Reads(Way("callee"), w) => Reads(Way("callee")', w)
  BY <1>6, PeerNames DEF WayKept
<1>10. CASE p = "caller"
  <2>1. Silent("caller") /\ NotStarted("caller") /\ Fresh("callee") /\ Words(<<>>, <<>>)
    BY <1>8, <1>10 DEF Exchange, Offered, Settled
  <2>2. Fresh("callee")' /\ Words(<<>>, <<>>)'
    BY <1>7, <1>9, <1>10, <2>1, PartsKept, PeerNames, SaidWords DEF Words
  <2> QED BY <1>8, <1>10, <2>1, <2>2 DEF Exchange
<1>11. CASE p = "callee"
  <2>1. /\ Fresh("callee") => Fresh("callee")'
        /\ Silent("caller") => Silent("caller")'
        /\ NotStarted("caller") => NotStarted("caller")'
        /\ Offered("caller") => Offered("caller")'
        /\ st["caller"].in <=> st'["caller"].in
    BY <1>7, <1>8, <1>11, PartsKept, PeerNames DEF Fresh
  <2>2. CASE Silent("caller") /\ NotStarted("caller") /\ Fresh("callee") /\ Words(<<>>, <<>>)
    BY <1>9, <2>1, <2>2, SaidWords DEF Exchange, Words
  <2>3. CASE Offered("caller") /\ ~st["caller"].in /\ Fresh("callee") /\ Words(<<>>, <<"caller">>)
    BY <1>9, <2>1, <2>3, SaidWords DEF Exchange, Words
  <2> QED BY <1>8, <1>11, <2>2, <2>3 DEF Exchange, Offered, Settled
<1> QED BY <1>10, <1>11 DEF Peers

\* Signaling begins for a peer; the caller sends its offer.
LEMMA BeginSignalingExchanges ==
  ASSUME V3Inv, Unreleased, NEW p \in Peers, BeginSignaling(p), Exchange
  PROVE  Exchange'
<1>1. V3Types /\ st \in [Peers -> Members] /\ st[p] \in Members
      /\ pc \in [Peers -> {"idle", "signaling", "fence", "teardown"}]
      /\ chan \in [Peers -> Seq(Messages)]
  BY DEF V3Inv, V3Types
<1>2. pc[p] = "signaling" /\ mediaQ' = mediaQ /\ net' = net /\ pc' = [pc EXCEPT ![p] = "idle"]
  BY DEF BeginSignaling
<1>3. net[p].state # "none" /\ ~Started(p)
  BY <1>2, BeforeStart DEF Unreleased, Started
<1>4. pc'[p] = "idle" /\ pc'[Other(p)] = pc[Other(p)]
  BY <1>1, <1>2, OtherPeer
<1>5. NotStarted(p) => st[p].ready /\ st[p].need
  BY <1>3 DEF NotStarted
<1>6. CASE p = "caller"
  <2>1. Silent("caller") /\ NotStarted("caller") /\ Fresh("callee") /\ Words(<<>>, <<>>)
    BY <1>3, <1>6 DEF Exchange, Offered, Settled
  <2>2. MustOffer(st[p])
    BY <1>5, <1>6, <2>1 DEF MustOffer, Silent
  <2>3. st' = [st EXCEPT ![p].conn = TRUE, ![p].setupSent = TRUE, ![p].offered = TRUE]
    BY <1>6, <2>2 DEF BeginSignaling
  <2>4. /\ st'[p].conn /\ st'[p].offered /\ (st'[p].ready <=> st[p].ready)
        /\ (st'[p].need <=> st[p].need) /\ (st'[p].in <=> st[p].in) /\ st'[p].out = st[p].out
        /\ st'[Other(p)] = st[Other(p)]
    BY <1>1, <2>3, OtherPeer DEF Members
  <2>5. Offered("caller")' /\ ~st'["caller"].in
    BY <1>2, <1>3, <1>4, <1>5, <1>6, <2>1, <2>4 DEF Offered, Started, Silent
  <2>6. PartKept("callee")
    BY <1>2, <1>4, <1>6, <2>4, PeerNames DEF PartKept
  <2>7. Fresh("callee")'
    BY <2>1, <2>6, PartsKept, PeerNames
  <2>8. chan' = [chan EXCEPT ![Other(p)] = @ \o <<Message("Negotiate", p)>>]
    <3>1. Send(p, <<Message("Negotiate", p)>>)
      BY <1>6, <2>2 DEF BeginSignaling
    <3> QED BY <2>4, <3>1 DEF Send
  <2>9. /\ chan'["callee"] = chan["callee"] \o <<Message("Negotiate", "caller")>>
        /\ chan'["caller"] = chan["caller"]
    BY <1>1, <1>6, <2>8, PeerNames
  <2>10. Reads(Way("caller")', <<>>)
    BY <1>2, <2>1, <2>9 DEF Way, Words
  <2>11. Reads(Way("callee")', <<"caller">>)
    BY <1>1, <1>2, <2>1, <2>9, SaidOne, SaidWords, PeerNames DEF Words
  <2> QED BY <2>5, <2>7, <2>10, <2>11 DEF Exchange, Words
<1>7. CASE p = "callee"
  <2>1. st' = [st EXCEPT ![p].conn = TRUE] /\ chan' = chan
    BY <1>7 DEF BeginSignaling
  <2>2. /\ st'[p].conn /\ (st'[p].offered <=> st[p].offered) /\ (st'[p].ready <=> st[p].ready)
        /\ (st'[p].need <=> st[p].need) /\ (st'[p].in <=> st[p].in) /\ st'[p].out = st[p].out
        /\ st'[Other(p)] = st[Other(p)]
    BY <1>1, <2>1, OtherPeer DEF Members
  <2>3. Fresh("callee") => Fresh("callee")'
    BY <1>2, <1>3, <1>4, <1>5, <1>7, <2>2 DEF Fresh, Silent, Started
  <2>4. PartKept("caller")
    BY <1>2, <1>4, <1>7, <2>2, PeerNames DEF PartKept
  <2>5. /\ Silent("caller") => Silent("caller")'
        /\ NotStarted("caller") => NotStarted("caller")'
        /\ Offered("caller") => Offered("caller")'
        /\ st["caller"].in <=> st'["caller"].in
    BY <2>4, PartsKept, PeerNames
  <2>6. \A a, b : Words(a, b) => Words(a, b)'
    BY <1>2, <2>1 DEF Words, Way
  <2> QED BY <1>3, <1>7, <2>3, <2>5, <2>6 DEF Exchange, Offered, Settled
<1> QED BY <1>6, <1>7 DEF Peers

------------------------------------------------------------------------------
(* The invariant of the exchanges. *)

AudioInv == KnowsInv /\ sctp \in BOOLEAN /\ Exchanges

LEMMA AudioInit == Init => AudioInv
<1> SUFFICES ASSUME Init PROVE AudioInv
  OBVIOUS
<1>1. KnowsInv
  BY KnowsInit
<1>2. ASSUME NEW p \in Peers
      PROVE  Reads(Way(p), <<>>) /\ Silent(p) /\ NotStarted(p)
  <2> DEFINE t == Task("start")
             z == <<>>
  <2>1. t \in MediaTasks /\ ~Negotiates(t)
    BY TaskTypes DEF MediaOps, Negotiates
  <2>2. mediaQ[p] = <<t>> /\ chan[p] = z
    BY <1>2 DEF Init
  <2>3. z \in Seq(Messages) /\ z \in Seq(MediaTasks) /\ z \in Seq(Peers) /\ Len(z) = 0
    BY EmptySeq
  <2>4. Data(z) = z
    <3>1. Data(z) \in Seq(MediaTasks) /\ Len(Data(z)) = 0
      BY <2>3, DataOf
    <3> QED BY <3>1, EmptySeq
  <2>5. Append(z, t) = <<t>>
    BY <2>1, <2>3, AppendIsConcat, ConcatEmptySeq
  <2>6. Reads(Append(z, t), z)
    BY <2>1, <2>3, NothingRead, ReadsAppend
  <2>7. Way(p) = Append(z, t)
    <3>1. <<t>> \in Seq(MediaTasks)
      BY <2>1
    <3> QED BY <2>2, <2>4, <2>5, <3>1, ConcatEmptySeq DEF Way
  <2>8. ~st[p].offered /\ ~st[p].in /\ st[p].out = "none" /\ ~st[p].conn /\ net[p].state = "none"
    BY <1>2 DEF Init
  <2> QED BY <2>6, <2>7, <2>8 DEF Silent, NotStarted
<1>3. Exchange
  BY <1>2, PeerNames DEF Exchange, Fresh, Words
<1> QED BY <1>1, <1>3 DEF Init, AudioInv, Exchanges

LEMMA CallKept ==
  ASSUME V3Types, [Next]_vars
  PROVE  sctp' = sctp /\ (refused => refused') /\ (Unreleased' => Unreleased)
<1>1. ASSUME NEW p \in Peers, MediaThread(p)
      PROVE  sctp' = sctp /\ (refused => refused') /\ released' = released
  <2>1. sctp' = sctp /\ released' = released
    BY <1>1 DEF MediaThread, Start, BeginSignaling, GateClosed, SendSetup, ProcessSetup,
                ProcessCandidates, ProcessNegotiate, DataChannelState, DataChannelMessage,
                MuteMicrophone, Stop, Delete, Shutdown, Teardown
  <2>2. refused' = refused \/ refused' = TRUE
    <3>1. CASE Start(p) \/ ProcessNegotiate(p)
      BY <3>1 DEF Start, ProcessNegotiate, Refusal
    <3>2. CASE ~Start(p) /\ ~ProcessNegotiate(p)
      BY <1>1, <3>2 DEF MediaThread, BeginSignaling, GateClosed, SendSetup, ProcessSetup,
                        ProcessCandidates, DataChannelState, DataChannelMessage,
                        MuteMicrophone, Stop, Delete, Shutdown, Teardown
    <3> QED BY <3>1, <3>2
  <2> QED BY <2>1, <2>2
<1>2. ASSUME NEW p \in Peers,
             \/ NetThread(p) \/ EmitLocalCandidate(p) \/ Deliver(p) \/ SetMute(p)
      PROVE  sctp' = sctp /\ refused' = refused /\ released' = released
  BY <1>2 DEF NetThread, NetworkingTask, LocalParams, DataChannelSend, Fence,
              EmitLocalCandidate, Deliver, SetMute
<1>3. ASSUME NEW p \in Peers, Release(p)
      PROVE  sctp' = sctp /\ refused' = refused /\ released'[p]
  BY <1>3 DEF Release, V3Types
<1>4. Flap \/ UNCHANGED vars => sctp' = sctp /\ refused' = refused /\ released' = released
  BY DEF Flap, vars
<1>5. released' = released => (Unreleased' => Unreleased)
  BY DEF Unreleased
<1>6. ASSUME NEW p \in Peers, released'[p] PROVE ~Unreleased'
  BY <1>6 DEF Unreleased
<1> QED BY <1>1, <1>2, <1>3, <1>4, <1>5, <1>6 DEF Next

LEMMA ExchangesNext ==
  ASSUME AudioInv, [Next]_vars, sctp', ~refused', Unreleased'
  PROVE  Exchange'
<1>1. V3IInv /\ V3Inv /\ V3Types /\ dcUp \in BOOLEAN /\ \A x \in Peers : Running(x)
  BY DEF AudioInv, KnowsInv, V3IInv, V3Inv
<1>2. sctp /\ ~refused /\ Unreleased
  BY <1>1, CallKept
<1>3. Exchange
  BY <1>2 DEF AudioInv, Exchanges
<1>4. CASE UNCHANGED vars
  <2>1. \A x \in Peers : WayKept(x) /\ PartKept(x)
    BY <1>4 DEF vars, WayKept, PartKept, Way
  <2> QED BY <1>3, <2>1, ExchangeKept
<1>5. ASSUME NEW p \in Peers, MediaThread(p) PROVE Exchange'
  <2>1. ~(GateClosed(p) \/ Stop(p) \/ Delete(p) \/ Teardown(p))
    BY <1>1, <1>2, <1>5, UnreleasedTasks DEF Unreleased
  <2>2. CASE Start(p)
    BY <1>1, <1>2, <1>3, <2>2, StartExchanges
  <2>3. CASE BeginSignaling(p)
    BY <1>1, <1>2, <1>3, <2>3, BeginSignalingExchanges
  <2>4. CASE ProcessNegotiate(p)
    BY <1>1, <1>2, <1>3, <2>4, NegotiateExchanges
  <2>5. CASE QuietMediaTask(p)
    BY <1>1, <1>3, <2>5, MediaWayKept, MediaPartKept, ExchangeKept
  <2> QED BY <1>5, <2>1, <2>2, <2>3, <2>4, <2>5 DEF MediaThread, QuietMediaTask
<1>6. ASSUME NEW p \in Peers, NetThread(p) PROVE Exchange'
  BY <1>1, <1>2, <1>3, <1>6, NetParts, ExchangeKept DEF Unreleased
<1>7. ASSUME Flap \/ \E p \in Peers : EmitLocalCandidate(p) \/ Deliver(p) \/ SetMute(p)
      PROVE  Exchange'
  BY <1>1, <1>2, <1>3, <1>7, AroundParts, ExchangeKept
<1>8. ASSUME NEW p \in Peers, Release(p) PROVE FALSE
  <2>1. released'[p]
    BY <1>1, <1>8 DEF Release, V3Types
  <2> QED BY <2>1 DEF Unreleased
<1> QED BY <1>4, <1>5, <1>6, <1>7, <1>8 DEF Next

LEMMA AudioNext == AudioInv /\ [Next]_vars => AudioInv'
<1> SUFFICES ASSUME AudioInv, [Next]_vars PROVE AudioInv'
  OBVIOUS
<1>1. KnowsInv'
  BY KnowsNext DEF AudioInv
<1>2. sctp' = sctp
  BY CallKept DEF AudioInv, KnowsInv, V3IInv, V3Inv
<1>3. Exchanges'
  BY ExchangesNext DEF Exchanges
<1> QED BY <1>1, <1>2, <1>3 DEF AudioInv

LEMMA AudioInvariant == Spec => []AudioInv
  BY AudioInit, AudioNext, PTL DEF Spec

\* However the two exchanges and everything around them interleave, over SCTP and with an
\* engine that refuses nothing, neither peer is left without a channel when nothing is left
\* to do (processSignalingData and createNegotiatedChannels of InstanceV13_0_0Impl).
THEOREM AudioAlwaysBothWays == Spec => []AudioBothWays
<1>1. AudioInv => AudioBothWays
  <2> SUFFICES ASSUME AudioInv, Quiet, \A p \in Peers : chan[p] = <<>> /\ ~released[p],
                      sctp, ~refused
               PROVE  \A p \in Peers : st[p].in /\ st[p].out # "none"
    BY DEF AudioBothWays
  <2>1. Unreleased /\ Exchange /\ V3Inv
    BY DEF Unreleased, AudioInv, Exchanges, KnowsInv, V3IInv
  <2>2. ASSUME NEW p \in Peers, NEW w \in Seq(Peers), Reads(Way(p), w) PROVE w = <<>>
    <3> DEFINE z == <<>>
    <3>1. mediaQ[p] = z /\ chan[p] = z
      BY <2>2 DEF Quiet
    <3>2. z \in Seq(Messages) /\ z \in Seq(MediaTasks) /\ Len(z) = 0
      BY EmptySeq
    <3>3. Data(z) \in Seq(MediaTasks) /\ Len(Data(z)) = 0
      BY <3>2, DataOf
    <3>4. Data(z) = z
      BY <3>3, EmptySeq
    <3>5. Way(p) = z
      BY <3>1, <3>2, <3>4, ConcatEmptySeq DEF Way
    <3> QED BY <2>2, <3>5, ReadsNothing
  <2>3. ~NotStarted("caller")
    <3>1. pc["caller"] = "idle" /\ mediaQ["caller"] = <<>>
      BY PeerNames DEF Quiet
    <3>2. net["caller"].state # "none"
      BY <2>1, <3>1, BeforeStart, PeerNames DEF Unreleased
    <3> QED BY <3>1, <3>2 DEF NotStarted
  <2>4. /\ <<"caller">> # <<>> /\ <<"callee">> # <<>> /\ <<"caller", "callee">> # <<>>
    OBVIOUS
  <2>5. \A a, b \in Seq(Peers) : Words(a, b) => a = <<>> /\ b = <<>>
    BY <2>2, PeerNames DEF Words
  <2>6. /\ ~Words(<<>>, <<"caller">>) /\ ~Words(<<"caller", "callee">>, <<>>)
        /\ ~Words(<<"callee">>, <<>>) /\ ~Words(<<>>, <<"callee">>)
    BY <2>4, <2>5, SaidWords
  <2>7. Settled("caller") /\ st["caller"].in /\ Settled("callee") /\ st["callee"].in
    BY <2>1, <2>3, <2>6 DEF Exchange
  <2> QED BY <2>7 DEF Settled, Peers
<1> QED BY <1>1, AudioInvariant, PTL

------------------------------------------------------------------------------
(* Counting.  How many elements of a queue are in S.                         *)

Places(q, S) == {i \in 1..Len(q) : q[i] \in S}
HowMany(q, S) == Cardinality(Places(q, S))

LEMMA HowManyType ==
  ASSUME NEW T, NEW q \in Seq(T), NEW S
  PROVE  IsFiniteSet(Places(q, S)) /\ HowMany(q, S) \in Nat
<1>1. Len(q) \in Nat
  BY LenProperties
<1>2. IsFiniteSet(1..Len(q))
  BY <1>1, FS_Interval
<1>3. Places(q, S) \in SUBSET (1..Len(q))
  BY DEF Places
<1>4. IsFiniteSet(Places(q, S))
  BY <1>2, <1>3, FS_Subset
<1> QED BY <1>4, FS_CardinalityType DEF HowMany

LEMMA HowManyNone ==
  ASSUME NEW q, NEW S, \A i \in 1..Len(q) : q[i] \notin S
  PROVE  HowMany(q, S) = 0
<1>1. Places(q, S) = {}
  BY DEF Places
<1> QED BY <1>1, FS_EmptySet DEF HowMany

LEMMA HowManyAll ==
  ASSUME NEW T, NEW q \in Seq(T), NEW S, \A i \in 1..Len(q) : q[i] \in S
  PROVE  HowMany(q, S) = Len(q)
<1>1. Len(q) \in Nat
  BY LenProperties
<1>2. Places(q, S) = 1..Len(q)
  BY DEF Places
<1>3. Cardinality(1..Len(q)) = Len(q)
  BY <1>1, FS_Interval
<1> QED BY <1>2, <1>3 DEF HowMany

LEMMA HowManyConcat ==
  ASSUME NEW T, NEW q \in Seq(T), NEW r \in Seq(T), NEW S
  PROVE  HowMany(q \o r, S) = HowMany(q, S) + HowMany(r, S)
<1> DEFINE n == Len(q)
           s == q \o r
           A == Places(q, S)
           B == Places(r, S)
           C == {i \in (n + 1)..(n + Len(r)) : s[i] \in S}
<1>1. /\ n \in Nat /\ Len(r) \in Nat /\ Len(s) = n + Len(r)
      /\ \A i \in 1..n : s[i] = q[i]
      /\ \A i \in 1..Len(r) : s[n + i] = r[i]
  BY ConcatProperties, LenProperties
<1>2. IsFiniteSet(A) /\ IsFiniteSet(B) /\ Cardinality(A) \in Nat /\ Cardinality(B) \in Nat
  BY HowManyType DEF HowMany
<1> HIDE DEF s, n
<1>3. Places(s, S) = A \cup C
  <2>1. \A i : i \in 1..Len(s) <=> i \in 1..n \/ i \in (n + 1)..(n + Len(r))
    BY <1>1
  <2> QED BY <1>1, <2>1 DEF Places, n
<1>4. A \cap C = {}
  <2>1. \A i : ~(i \in 1..n /\ i \in (n + 1)..(n + Len(r)))
    BY <1>1
  <2> QED BY <2>1 DEF Places, n
<1>5. IsFiniteSet(C) /\ Cardinality(C) = Cardinality(B)
  <2> DEFINE f == [i \in B |-> n + i]
  <2>1. B \subseteq 1..Len(r) /\ \A i \in B : i \in Nat
    BY <1>1 DEF Places
  <2>2. f \in [B -> C]
    <3>1. ASSUME NEW i \in B PROVE n + i \in C
      <4>1. i \in 1..Len(r) /\ r[i] \in S
        BY DEF Places
      <4>2. n + i \in (n + 1)..(n + Len(r)) /\ s[n + i] \in S
        BY <1>1, <4>1
      <4> QED BY <4>2
    <3> QED BY <3>1
  <2>3. \A i, j \in B : f[i] = f[j] => i = j
    BY <1>1, <2>1
  <2>4. \A k \in C : \E i \in B : f[i] = k
    <3> SUFFICES ASSUME NEW k \in C PROVE \E i \in B : f[i] = k
      OBVIOUS
    <3>1. k - n \in 1..Len(r) /\ n + (k - n) = k /\ s[k] \in S
      BY <1>1
    <3>2. r[k - n] \in S
      BY <1>1, <3>1
    <3>3. k - n \in B
      BY <3>1, <3>2 DEF Places
    <3> QED BY <3>1, <3>3
  <2> HIDE DEF f, B, C
  <2>5. f \in Bijection(B, C)
    BY <2>2, <2>3, <2>4, Fun_IsBij
  <2>6. ExistsBijection(B, C)
    BY <2>5 DEF ExistsBijection
  <2> QED BY <1>2, <2>6, FS_Bijection
<1> HIDE DEF A, B, C
<1>6. Cardinality(A \cup C) = Cardinality(A) + Cardinality(C) - Cardinality(A \cap C)
  BY <1>2, <1>5, FS_Union
<1>7. Cardinality(A \cap C) = 0
  BY <1>4, FS_EmptySet
<1>8. Cardinality(Places(s, S)) = Cardinality(A) + Cardinality(B)
  BY <1>2, <1>3, <1>5, <1>6, <1>7
<1> QED BY <1>8 DEF HowMany, s, A, B

One(t, S) == IF t \in S THEN 1 ELSE 0

LEMMA HowManyOne ==
  ASSUME NEW T, NEW t \in T, NEW S
  PROVE  <<t>> \in Seq(T) /\ HowMany(<<t>>, S) = One(t, S)
<1> DEFINE q == <<t>>
<1>1. q \in Seq(T) /\ Len(q) = 1 /\ q[1] = t /\ \A i \in 1..1 : i = 1
  OBVIOUS
<1> HIDE DEF q
<1>2. CASE t \in S
  BY <1>1, <1>2, HowManyAll DEF One, q
<1>3. CASE t \notin S
  BY <1>1, <1>3, HowManyNone DEF One, q
<1> QED BY <1>1, <1>2, <1>3 DEF q

LEMMA HowManyAppend ==
  ASSUME NEW T, NEW q \in Seq(T), NEW t \in T, NEW S
  PROVE  HowMany(Append(q, t), S) = HowMany(q, S) + One(t, S)
<1> DEFINE u == <<t>>
<1>1. Append(q, t) = q \o u
  BY AppendIsConcat
<1>2. u \in Seq(T) /\ HowMany(u, S) = One(t, S)
  BY HowManyOne
<1> HIDE DEF u
<1>3. \A x \in Seq(T) : HowMany(q \o x, S) = HowMany(q, S) + HowMany(x, S)
  BY HowManyConcat
<1> QED BY <1>1, <1>2, <1>3

LEMMA HowManyTail ==
  ASSUME NEW T, NEW q \in Seq(T), q # <<>>, NEW S
  PROVE  HowMany(q, S) = One(q[1], S) + HowMany(Tail(q), S)
<1>1. /\ q[1] \in T /\ Tail(q) \in Seq(T) /\ Len(q) \in Nat /\ Len(q) > 0
      /\ 1 \in 1..Len(q) /\ Len(q) \in 1..Len(q)
  BY Taken
<1>2. q = <<q[1]>> \o Tail(q)
  <2>1. SubSeq(q, 1, Len(q)) = <<q[1]>> \o SubSeq(q, 2, Len(q))
    BY <1>1, SubSeqRecursiveFirst
  <2> QED BY <2>1, SubSeqFull, TailIsSubSeq
<1>3. <<q[1]>> \in Seq(T) /\ HowMany(<<q[1]>>, S) = One(q[1], S)
  BY <1>1, HowManyOne
<1>4. HowMany(<<q[1]>> \o Tail(q), S) = HowMany(<<q[1]>>, S) + HowMany(Tail(q), S)
  BY <1>1, <1>3, HowManyConcat
<1> QED BY <1>2, <1>3, <1>4

LEMMA HowManyRemoved ==
  ASSUME NEW T, NEW q \in Seq(T), NEW i \in 1..Len(q), NEW S
  PROVE  /\ RemoveAt(q, i) \in Seq(T)
         /\ HowMany(q, S) = HowMany(RemoveAt(q, i), S) + One(q[i], S)
<1> DEFINE a == SubSeq(q, 1, i - 1)
           b == SubSeq(q, i + 1, Len(q))
           t == q[i]
           u == <<t>>
<1>1. /\ Len(q) \in Nat /\ i \in Nat /\ i > 0 /\ i <= Len(q) /\ t \in T
      /\ \A j \in 1..Len(q) : q[j] \in T
  BY LenProperties, ElementOfSeq
<1>2. a \in Seq(T) /\ b \in Seq(T)
  <2>1. a \in Seq(T)
    BY <1>1, SubSeqProperties
  <2>2. b \in Seq(T)
    BY <1>1, SubSeqProperties
  <2> QED BY <2>1, <2>2
<1>3. q = (a \o u) \o b
  <2>1. SubSeq(q, 1, i) = a \o u
    <3>1. 1 \in 1..Len(q) /\ i \in 1..Len(q)
      BY <1>1
    <3> QED BY <3>1, SubSeqRecursiveSecond
  <2>2. SubSeq(q, 1, i) \o b = SubSeq(q, 1, Len(q))
    <3>1. 1 \in 1..(Len(q) + 1) /\ i \in (1 - 1)..Len(q) /\ Len(q) \in i..Len(q)
      BY <1>1
    <3> QED BY <3>1, ConcatAdjacentSubSeq
  <2>3. SubSeq(q, 1, Len(q)) = q
    BY SubSeqFull
  <2> QED BY <2>1, <2>2, <2>3
<1>4. RemoveAt(q, i) = a \o b
  BY DEF RemoveAt
<1> HIDE DEF a, b
<1>5. u \in Seq(T) /\ HowMany(u, S) = One(t, S)
  BY <1>1, HowManyOne
<1> HIDE DEF t, u
<1>6. /\ a \o u \in Seq(T) /\ HowMany(a \o u, S) = HowMany(a, S) + HowMany(u, S)
      /\ a \o b \in Seq(T) /\ HowMany(a \o b, S) = HowMany(a, S) + HowMany(b, S)
  BY <1>2, <1>5, ConcatProperties, HowManyConcat
<1>7. HowMany((a \o u) \o b, S) = HowMany(a \o u, S) + HowMany(b, S)
  <2>1. \A x, y \in Seq(T) : HowMany(x \o y, S) = HowMany(x, S) + HowMany(y, S)
    BY HowManyConcat
  <2> QED BY <1>2, <1>6, <2>1
<1>8. HowMany(a, S) \in Nat /\ HowMany(b, S) \in Nat /\ HowMany(u, S) \in Nat
  BY <1>2, <1>5, HowManyType
<1>9. HowMany(q, S) = HowMany(a \o b, S) + HowMany(u, S)
  BY <1>3, <1>6, <1>7, <1>8
<1> QED BY <1>4, <1>5, <1>6, <1>9 DEF t

------------------------------------------------------------------------------
(* The candidates of a peer, wherever they are: each was gathered by an      *)
(* event, which bounds the two counters of TypeOK.                           *)

CandidateMessages == {Message("Candidates", "none")}
CandidateTasks == {t \in MediaTasks : t.op = "data" /\ t.msg.kind = "Candidates"}
AddTasks == {t \in NetTasks : t.op = "add"}

OnTheWay(x) == HowMany(chan[x], CandidateMessages)
Delivered(x) == HowMany(mediaQ[x], CandidateTasks)
Posted(x) == HowMany(netQ[x], AddTasks)
Counted(x) == OnTheWay(x) + Delivered(x) + st[x].pending + Posted(x) + net[x].added

CountInv == events \in 0..MaxEvents /\ \A x \in Peers : Counted(x) <= events

LEMMA CountTypes ==
  ASSUME V3Types, NEW x \in Peers
  PROVE  /\ OnTheWay(x) \in Nat /\ Delivered(x) \in Nat /\ Posted(x) \in Nat
         /\ st[x].pending \in Nat /\ net[x].added \in Nat
<1>1. /\ chan[x] \in Seq(Messages) /\ mediaQ[x] \in Seq(MediaTasks) /\ netQ[x] \in Seq(NetTasks)
      /\ st[x] \in Members /\ net[x] \in Networking
  BY DEF V3Types
<1>2. OnTheWay(x) \in Nat /\ Delivered(x) \in Nat /\ Posted(x) \in Nat
  BY <1>1, HowManyType DEF OnTheWay, Delivered, Posted
<1> QED BY <1>1, <1>2 DEF Members, Networking

LEMMA CountTypesNext ==
  ASSUME V3Types', NEW x \in Peers
  PROVE  /\ OnTheWay(x)' \in Nat /\ Delivered(x)' \in Nat /\ Posted(x)' \in Nat
         /\ st'[x].pending \in Nat /\ net'[x].added \in Nat
<1>1. /\ chan'[x] \in Seq(Messages) /\ mediaQ'[x] \in Seq(MediaTasks)
      /\ netQ'[x] \in Seq(NetTasks) /\ st'[x] \in Members /\ net'[x] \in Networking
  BY DEF V3Types
<1>2. OnTheWay(x)' \in Nat /\ Delivered(x)' \in Nat /\ Posted(x)' \in Nat
  BY <1>1, HowManyType DEF OnTheWay, Delivered, Posted
<1> QED BY <1>1, <1>2 DEF Members, Networking

\* What is posted on the network thread, and how much of it are candidates.
LEMMA PostedMore ==
  ASSUME V3Types, NEW p \in Peers, NEW m \in Seq(NetTasks), PostNet(p, m)
  PROVE  /\ Posted(p)' = Posted(p) + HowMany(m, AddTasks)
         /\ \A x \in Peers : x # p => Posted(x)' = Posted(x)
<1>1. netQ'[p] = netQ[p] \o m /\ \A x \in Peers : x # p => netQ'[x] = netQ[x]
  BY TypesPost
<1>2. \A q, r \in Seq(NetTasks) : HowMany(q \o r, AddTasks) = HowMany(q, AddTasks) + HowMany(r, AddTasks)
  BY HowManyConcat
<1>3. netQ[p] \in Seq(NetTasks)
  BY DEF V3Types
<1> QED BY <1>1, <1>2, <1>3 DEF Posted

LEMMA PostedOther ==
  ASSUME V3Types, NEW p \in Peers, NEW m \in Seq(NetTasks), PostNet(p, m),
         \A i \in 1..Len(m) : m[i].op # "add"
  PROVE  \A x \in Peers : Posted(x)' = Posted(x)
<1>1. \A i \in 1..Len(m) : m[i] \notin AddTasks
  BY DEF AddTasks
<1>2. HowMany(m, AddTasks) = 0
  BY <1>1, HowManyNone
<1>3. Posted(p) \in Nat
  BY CountTypes
<1> QED BY <1>2, <1>3, PostedMore

LEMMA CommitCounts ==
  \A k \in Nat : CommitTasks(k) \in Seq(NetTasks) /\ HowMany(CommitTasks(k), AddTasks) = k
<1> SUFFICES ASSUME NEW k \in Nat
             PROVE  CommitTasks(k) \in Seq(NetTasks) /\ HowMany(CommitTasks(k), AddTasks) = k
  OBVIOUS
<1> DEFINE m == CommitTasks(k)
<1>1. m \in Seq(NetTasks) /\ Len(m) = k /\ \A i \in 1..k : m[i].op = "add"
  BY CommitTypes
<1> HIDE DEF m
<1>2. \A i \in 1..Len(m) : m[i] \in AddTasks
  BY <1>1, ElementOfSeq DEF AddTasks
<1>3. HowMany(m, AddTasks) = Len(m)
  BY <1>1, <1>2, HowManyAll
<1> QED BY <1>1, <1>3 DEF m

\* A message that is sent: a candidate, or another.
LEMMA SentOther ==
  ASSUME V3Types, NEW p \in Peers, NEW m \in Seq(Messages), Send(p, m),
         \A i \in 1..Len(m) : m[i].kind # "Candidates"
  PROVE  \A x \in Peers : OnTheWay(x)' = OnTheWay(x)
<1>1. \A i \in 1..Len(m) : m[i] \notin CandidateMessages
  BY DEF CandidateMessages, Message
<1>2. HowMany(m, CandidateMessages) = 0
  BY <1>1, HowManyNone
<1> SUFFICES ASSUME NEW x \in Peers PROVE OnTheWay(x)' = OnTheWay(x)
  OBVIOUS
<1>3. chan[x] \in Seq(Messages) /\ (chan'[x] = chan[x] \/ chan'[x] = chan[x] \o m)
  BY DEF Send, V3Types
<1>4. \A q, r \in Seq(Messages) :
        HowMany(q \o r, CandidateMessages) = HowMany(q, CandidateMessages) + HowMany(r, CandidateMessages)
  BY HowManyConcat
<1>5. HowMany(chan[x], CandidateMessages) \in Nat
  BY CountTypes DEF OnTheWay
<1>6. HowMany(chan[x] \o m, CandidateMessages) = HowMany(chan[x], CandidateMessages)
  BY <1>2, <1>3, <1>4, <1>5
<1> QED BY <1>3, <1>6 DEF OnTheWay

------------------------------------------------------------------------------
(* What the media thread of a peer does to the count. *)

LEMMA MediaSends ==
  ASSUME V3Types, NEW p \in Peers, MediaThread(p)
  PROVE  \A x \in Peers : OnTheWay(x)' = OnTheWay(x)
<1>1. CASE UNCHANGED chan
  BY <1>1 DEF OnTheWay
<1>2. ASSUME chan' # chan
      PROVE  \E m \in Seq(Messages) : Send(p, m) /\ \A i \in 1..Len(m) : m[i].kind # "Candidates"
  <2> DEFINE e == <<>>
             one(k) == <<Message("Negotiate", k)>>
  <2>1. e \in Seq(Messages) /\ \A i \in 1..Len(e) : e[i].kind # "Candidates"
    <3>1. e \in Seq(Messages) /\ Len(e) = 0
      BY EmptySeq
    <3> QED BY <3>1
  <2>2. \A k \in Peers : one(k) \in Seq(Messages)
                         /\ \A i \in 1..Len(one(k)) : one(k)[i].kind # "Candidates"
    <3> SUFFICES ASSUME NEW k \in Peers
                 PROVE  one(k) \in Seq(Messages)
                        /\ \A i \in 1..Len(one(k)) : one(k)[i].kind # "Candidates"
      OBVIOUS
    <3>1. Message("Negotiate", k) \in Messages /\ Message("Negotiate", k).kind = "Negotiate"
      BY MessageTypes DEF Message
    <3> QED BY <3>1
  <2> HIDE DEF e, one
  <2>3. \A a, b \in Seq(Messages) :
          /\ \A i \in 1..Len(a) : a[i].kind # "Candidates"
          /\ \A i \in 1..Len(b) : b[i].kind # "Candidates"
          => a \o b \in Seq(Messages) /\ \A i \in 1..Len(a \o b) : (a \o b)[i].kind # "Candidates"
    <3> SUFFICES ASSUME NEW a \in Seq(Messages), NEW b \in Seq(Messages),
                        \A i \in 1..Len(a) : a[i].kind # "Candidates",
                        \A i \in 1..Len(b) : b[i].kind # "Candidates"
                 PROVE  /\ a \o b \in Seq(Messages)
                        /\ \A i \in 1..Len(a \o b) : (a \o b)[i].kind # "Candidates"
      OBVIOUS
    <3>1. /\ a \o b \in Seq(Messages) /\ Len(a) \in Nat /\ Len(b) \in Nat
          /\ Len(a \o b) = Len(a) + Len(b)
          /\ \A i \in 1..Len(a) : (a \o b)[i] = a[i]
          /\ \A i \in 1..Len(b) : (a \o b)[Len(a) + i] = b[i]
      BY ConcatProperties, LenProperties
    <3>2. ASSUME NEW i \in 1..Len(a \o b) PROVE (a \o b)[i].kind # "Candidates"
      <4>1. CASE i \in 1..Len(a)
        BY <3>1, <4>1
      <4>2. CASE i > Len(a)
        <5>1. i - Len(a) \in 1..Len(b) /\ i = Len(a) + (i - Len(a))
          BY <3>1, <4>2
        <5>2. (a \o b)[i] = b[i - Len(a)]
          BY <3>1, <5>1
        <5> QED BY <5>1, <5>2
      <4> QED BY <3>1, <4>1, <4>2
    <3> QED BY <3>1, <3>2
  <2>4. CASE BeginSignaling(p)
    <3>1. Send(p, one(p)) \/ Send(p, e)
      BY <1>2, <2>4 DEF BeginSignaling, e, one
    <3> QED BY <2>1, <2>2, <3>1
  <2>5. CASE SendSetup(p)
    <3> DEFINE m == <<Message("Setup", "none")>>
    <3>1. Message("Setup", "none") \in Messages /\ Message("Setup", "none").kind = "Setup"
      BY MessageTypes DEF Message
    <3>2. m \in Seq(Messages) /\ \A i \in 1..Len(m) : m[i].kind # "Candidates"
      BY <3>1
    <3>3. Send(p, m)
      BY <2>5 DEF SendSetup
    <3> HIDE DEF m
    <3> QED BY <3>2, <3>3
  <2>6. CASE ProcessNegotiate(p)
    <3> DEFINE exchange == Head(mediaQ[p]).msg.exchange
    <3>1. exchange \in Peers
      <4>1. Head(mediaQ[p]) \in MediaTasks /\ Head(mediaQ[p]).msg.kind = "Negotiate"
        BY <2>6, TypesTakes DEF ProcessNegotiate
      <4> QED BY <4>1 DEF MediaTasks, Carried, Messages, Message
    <3>2. \E a \in {one(exchange), e}, b \in {one(p), e} : Send(p, a \o b)
      BY <1>2, <2>6 DEF ProcessNegotiate, one, e
    <3> HIDE DEF exchange
    <3>3. PICK a \in {one(exchange), e}, b \in {one(p), e} : Send(p, a \o b)
      BY <3>2
    <3>4. /\ a \in Seq(Messages) /\ \A i \in 1..Len(a) : a[i].kind # "Candidates"
          /\ b \in Seq(Messages) /\ \A i \in 1..Len(b) : b[i].kind # "Candidates"
      BY <2>1, <2>2, <3>1
    <3> QED BY <2>3, <3>3, <3>4
  <2> QED BY <1>2, <2>4, <2>5, <2>6
          DEF MediaThread, Start, GateClosed, ProcessSetup, ProcessCandidates,
              DataChannelState, DataChannelMessage, MuteMicrophone, Stop, Delete, Shutdown,
              Teardown
<1>3. CASE chan' # chan
  BY <1>2, <1>3, SentOther
<1> QED BY <1>1, <1>3

\* A task is taken: a candidate, or another.
LEMMA MediaTakes ==
  ASSUME V3Types, NEW p \in Peers, MediaThread(p)
  PROVE  /\ ProcessCandidates(p) => Delivered(p) = Delivered(p)' + 1
         /\ Delivered(p)' <= Delivered(p) /\ Delivered(p)' \in Nat
         /\ \A x \in Peers : x # p => Delivered(x)' = Delivered(x)
<1>0. Delivered(p) \in Nat
  BY CountTypes
<1>1. CASE BeginSignaling(p) \/ Teardown(p)
  <2>1. mediaQ' = mediaQ /\ ~ProcessCandidates(p)
    <3>1. mediaQ' = mediaQ
      BY <1>1 DEF BeginSignaling, Teardown
    <3>2. ASSUME ProcessCandidates(p) PROVE FALSE
      <4>1. mediaQ[p] \in Seq(MediaTasks) /\ mediaQ[p] # <<>> /\ mediaQ'[p] = Tail(mediaQ[p])
        BY <3>2, TookFromChannel DEF ProcessCandidates
      <4>2. Len(Tail(mediaQ[p])) # Len(mediaQ[p])
        BY <4>1, Taken
      <4> QED BY <3>1, <4>1, <4>2
    <3> QED BY <3>1, <3>2
  <2> QED BY <1>0, <2>1 DEF Delivered
<1>2. CASE ~(BeginSignaling(p) \/ Teardown(p))
  <2>1. PICK op : Takes(p, op)
    BY <1>2 DEF MediaThread, Start, GateClosed, SendSetup, ProcessSetup, ProcessCandidates,
                ProcessNegotiate, DataChannelState, DataChannelMessage, MuteMicrophone, Stop,
                Delete
  <2>2. /\ mediaQ[p] \in Seq(MediaTasks) /\ mediaQ[p] # <<>> /\ mediaQ'[p] = Tail(mediaQ[p])
        /\ Head(mediaQ[p]) = mediaQ[p][1] /\ Tail(mediaQ[p]) \in Seq(MediaTasks)
        /\ \A x \in Peers : x # p => mediaQ'[x] = mediaQ[x]
    BY <2>1, TookFromChannel
  <2>3. Delivered(p) = One(mediaQ[p][1], CandidateTasks) + Delivered(p)'
    BY <2>2, HowManyTail DEF Delivered
  <2>4. Delivered(p)' \in Nat
    BY <2>2, HowManyType DEF Delivered
  <2>5. One(mediaQ[p][1], CandidateTasks) \in {0, 1}
    BY DEF One
  <2>6. ProcessCandidates(p) => One(mediaQ[p][1], CandidateTasks) = 1
    <3> SUFFICES ASSUME ProcessCandidates(p) PROVE mediaQ[p][1] \in CandidateTasks
      BY DEF One
    <3>1. Head(mediaQ[p]).op = "data" /\ Head(mediaQ[p]).msg.kind = "Candidates"
      BY DEF ProcessCandidates, Takes
    <3>2. mediaQ[p][1] \in MediaTasks
      BY <2>2, Taken
    <3> QED BY <2>2, <3>1, <3>2 DEF CandidateTasks
  <2> QED BY <1>0, <2>2, <2>3, <2>4, <2>5, <2>6 DEF Delivered
<1> QED BY <1>1, <1>2

\* The candidates that came early, and those posted.
LEMMA MediaCommits ==
  ASSUME V3Types, NEW p \in Peers, MediaThread(p)
  PROVE  /\ ProcessCandidates(p) =>
              st'[p].pending + Posted(p)' = st[p].pending + Posted(p) + 1
         /\ ~ProcessCandidates(p) =>
              st'[p].pending + Posted(p)' = st[p].pending + Posted(p)
         /\ \A x \in Peers : x # p => st'[x].pending = st[x].pending /\ Posted(x)' = Posted(x)
<1>1. /\ st \in [Peers -> Members] /\ st[p] \in Members /\ st[p].pending \in Nat
      /\ Posted(p) \in Nat
  BY CountTypes DEF V3Types
<1>2. \A x \in Peers : x # p => st'[x] = st[x]
  BY <1>1 DEF MediaThread, Start, BeginSignaling, GateClosed, SendSetup, ProcessSetup,
              ProcessCandidates, ProcessNegotiate, DataChannelState, DataChannelMessage,
              MuteMicrophone, Stop, Delete, Shutdown, Teardown
<1>3. CASE ProcessSetup(p)
  <2> DEFINE a == <<Task("setRemote")>>
             b == IF p = "callee" THEN SetupTasks(st[p]) ELSE <<>>
             c == CommitTasks(st[p].pending)
             d == a \o b
  <2>1. PostNet(p, d \o c)
    BY <1>3 DEF ProcessSetup
  <2>2. a \in Seq(NetTasks) /\ Len(a) = 1 /\ a[1].op = "setRemote"
    BY TaskTypes DEF NetOps
  <2>3. b \in Seq(NetTasks) /\ \A i \in 1..Len(b) : b[i].op = "params"
    BY SetupTypes, EmptySeq
  <2>4. c \in Seq(NetTasks) /\ HowMany(c, AddTasks) = st[p].pending
    BY <1>1, CommitCounts
  <2> HIDE DEF a, b, c
  <2>5. /\ \A i \in 1..Len(a) : a[i].op \notin {"add"}
        /\ \A i \in 1..Len(b) : b[i].op \notin {"add"}
    BY <2>2, <2>3
  <2>6. d \in Seq(NetTasks) /\ \A i \in 1..Len(d) : d[i].op \notin {"add"}
    BY <2>2, <2>3, <2>5, OpsConcat
  <2> HIDE DEF d
  <2>7. HowMany(d, AddTasks) = 0
    <3>1. \A i \in 1..Len(d) : d[i] \notin AddTasks
      BY <2>6 DEF AddTasks
    <3> QED BY <3>1, HowManyNone
  <2>8. d \o c \in Seq(NetTasks) /\ HowMany(d \o c, AddTasks) = st[p].pending
    <3>1. HowMany(d \o c, AddTasks) = HowMany(d, AddTasks) + HowMany(c, AddTasks)
      BY <2>4, <2>6, HowManyConcat
    <3>2. d \o c \in Seq(NetTasks)
      BY <2>4, <2>6, ConcatProperties
    <3> QED BY <1>1, <2>4, <2>7, <3>1, <3>2
  <2>9. /\ Posted(p)' = Posted(p) + st[p].pending
        /\ \A x \in Peers : x # p => Posted(x)' = Posted(x)
    <3> DEFINE m == d \o c
    <3>1. PostNet(p, m) /\ m \in Seq(NetTasks) /\ HowMany(m, AddTasks) = st[p].pending
      BY <2>1, <2>8
    <3> HIDE DEF m
    <3> QED BY <3>1, PostedMore
  <2>10. st'[p].pending = 0
    BY <1>1, <1>3 DEF ProcessSetup, Members
  <2>11. ~ProcessCandidates(p)
    BY <1>3 DEF ProcessSetup, ProcessCandidates
  <2> QED BY <1>1, <1>2, <2>9, <2>10, <2>11
<1>4. CASE ProcessCandidates(p)
  <2>1. CASE st[p].handshake
    <3> DEFINE k == st[p].pending + 1
               m == CommitTasks(k)
    <3>1. k \in Nat /\ PostNet(p, m) /\ st' = [st EXCEPT ![p].pending = 0]
      BY <1>1, <1>4, <2>1 DEF ProcessCandidates
    <3>2. m \in Seq(NetTasks) /\ HowMany(m, AddTasks) = k
      BY <3>1, CommitCounts
    <3> HIDE DEF m
    <3>3. /\ Posted(p)' = Posted(p) + k
          /\ \A x \in Peers : x # p => Posted(x)' = Posted(x)
      BY <3>1, <3>2, PostedMore
    <3>4. st'[p].pending = 0
      BY <1>1, <3>1 DEF Members
    <3> QED BY <1>1, <1>2, <1>4, <3>3, <3>4
  <2>2. CASE ~st[p].handshake
    <3>1. netQ' = netQ /\ st' = [st EXCEPT ![p].pending = @ + 1]
      BY <1>4, <2>2 DEF ProcessCandidates
    <3>2. st'[p].pending = st[p].pending + 1
      BY <1>1, <3>1 DEF Members
    <3> QED BY <1>1, <1>2, <1>4, <3>1, <3>2 DEF Posted
  <2> QED BY <2>1, <2>2
<1>5. CASE ~ProcessSetup(p) /\ ~ProcessCandidates(p)
  <2>1. st'[p].pending = st[p].pending
    <3>1. CASE Start(p)
      <4>1. st' = st \/ st' = [st EXCEPT ![p] = [st[p] EXCEPT !.ready = TRUE, !.need = TRUE]]
        BY <3>1 DEF Start, SetUpMediaPipeline
      <4>2. [st[p] EXCEPT !.ready = TRUE, !.need = TRUE].pending = st[p].pending
        BY <1>1 DEF Members
      <4> QED BY <1>1, <4>1, <4>2
    <3>2. CASE BeginSignaling(p)
      BY <1>1, <3>2 DEF BeginSignaling, Members
    <3>3. CASE ProcessNegotiate(p)
      <4> DEFINE exchange == Head(mediaQ[p]).msg.exchange
                 offers == MustOffer(Negotiated(p, exchange).s)
      <4>1. CASE ~st[p].ready
        BY <3>3, <4>1 DEF ProcessNegotiate
      <4>2. CASE st[p].ready
        <5>1. PICK madeIn \in BOOLEAN, madeOut \in BOOLEAN :
                st' = [st EXCEPT ![p] = NegotiationOf(p, exchange, offers, madeIn, madeOut)]
          BY <3>3, <4>2 DEF ProcessNegotiate, NegotiationOf
        <5> DEFINE s == NegotiationOf(p, exchange, offers, madeIn, madeOut)
        <5>2. s.pending = st[p].pending
          <6>1. offers \in BOOLEAN
            BY DEF MustOffer
          <6> QED BY <1>1, <6>1, NegotiateTypes
        <5>3. st' = [st EXCEPT ![p] = s]
          BY <5>1
        <5> HIDE DEF s
        <5> QED BY <1>1, <5>2, <5>3
      <4> QED BY <4>1, <4>2
    <3>4. CASE DataChannelState(p)
      <4>1. st' = [st EXCEPT ![p] = [st[p] EXCEPT !.dcOpen = Head(mediaQ[p]).flag]]
        BY <3>4 DEF DataChannelState
      <4> QED BY <1>1, <4>1 DEF Members
    <3>5. CASE MuteMicrophone(p)
      <4> DEFINE f == Head(mediaQ[p]).flag
                 o == OutgoingAudioChannel(f, st[p].out # "none")
      <4>1. st' = st \/ st' = [st EXCEPT ![p] = [st[p] EXCEPT !.mute = f, !.out = o]]
        BY <3>5 DEF MuteMicrophone
      <4> HIDE DEF f, o
      <4>2. [st[p] EXCEPT !.mute = f, !.out = o].pending = st[p].pending
        BY <1>1 DEF Members
      <4> QED BY <1>1, <4>1, <4>2
    <3>6. CASE Stop(p) \/ Delete(p)
      BY <1>1, <3>6 DEF Stop, Delete, Shutdown, Members
    <3>7. CASE Teardown(p)
      BY <1>1, <3>7 DEF Teardown, Members
    <3>8. CASE GateClosed(p) \/ SendSetup(p) \/ DataChannelMessage(p)
      BY <3>8 DEF GateClosed, SendSetup, DataChannelMessage
    <3> QED BY <1>5, <3>1, <3>2, <3>3, <3>4, <3>5, <3>6, <3>7, <3>8 DEF MediaThread
  <2>2. \A x \in Peers : Posted(x)' = Posted(x)
    <3>1. CASE netQ' = netQ
      BY <3>1 DEF Posted
    <3>2. CASE netQ' # netQ
      <4>1. \E m \in Seq(NetTasks) : PostNet(p, m) /\ \A i \in 1..Len(m) : m[i].op # "add"
        <5> DEFINE e == <<>>
        <5>1. e \in Seq(NetTasks) /\ \A i \in 1..Len(e) : e[i].op # "add"
          <6>1. e \in Seq(NetTasks) /\ Len(e) = 0
            BY EmptySeq
          <6> QED BY <6>1
        <5>2. CASE Start(p)
          <6> DEFINE m == <<Task("start")>>
          <6>1. m \in Seq(NetTasks) /\ Len(m) = 1 /\ m[1].op = "start"
            BY TaskTypes DEF NetOps
          <6>2. PostNet(p, m)
            BY <3>2, <5>2 DEF Start
          <6> HIDE DEF m
          <6> QED BY <6>1, <6>2
        <5>3. CASE BeginSignaling(p)
          <6> DEFINE m == SetupTasks(st[p])
          <6>1. m \in Seq(NetTasks) /\ \A i \in 1..Len(m) : m[i].op = "params"
            BY SetupTypes
          <6>2. PostNet(p, m)
            BY <3>2, <5>3 DEF BeginSignaling
          <6> HIDE DEF m
          <6> QED BY <6>1, <6>2
        <5>4. CASE DataChannelState(p) \/ MuteMicrophone(p)
          <6>1. PICK s \in Members : PostNet(p, MediaStateTasks(s)) \/ PostNet(p, e)
            <7>1. \A b \in BOOLEAN, o \in {"none", "open", "muted"} :
                    /\ [st[p] EXCEPT !.dcOpen = b] \in Members
                    /\ [st[p] EXCEPT !.mute = b, !.out = o] \in Members
              BY <1>1, MembersSet
            <7>2. Head(mediaQ[p]).flag \in BOOLEAN
              BY <5>4, TookFromChannel DEF DataChannelState, MuteMicrophone
            <7>3. OutgoingAudioChannel(Head(mediaQ[p]).flag, st[p].out # "none")
                    \in {"none", "open", "muted"}
              BY DEF OutgoingAudioChannel
            <7> QED BY <3>2, <5>4, <7>1, <7>2, <7>3 DEF DataChannelState, MuteMicrophone
          <6> DEFINE m == MediaStateTasks(s)
          <6>2. m \in Seq(NetTasks) /\ \A i \in 1..Len(m) : m[i].op = "dcSend"
            BY <6>1, MediaStateTypes
          <6>3. PostNet(p, m) \/ PostNet(p, e)
            BY <6>1
          <6> HIDE DEF m, e
          <6> QED BY <5>1, <6>2, <6>3
        <5>5. CASE Stop(p) \/ Delete(p)
          <6> DEFINE m == <<Task("stop"), Task("fence")>>
          <6>1. /\ Task("stop") \in NetTasks /\ Task("stop").op = "stop"
                /\ Task("fence") \in NetTasks /\ Task("fence").op = "fence"
            BY TaskTypes DEF NetOps
          <6>2. m \in Seq(NetTasks) /\ Len(m) = 2 /\ m[1].op = "stop" /\ m[2].op = "fence"
            BY <6>1
          <6>3. PostNet(p, m)
            BY <3>2, <5>5 DEF Stop, Delete, Shutdown
          <6> HIDE DEF m
          <6>4. \A i \in 1..2 : i = 1 \/ i = 2
            OBVIOUS
          <6>5. \A i \in 1..Len(m) : m[i].op # "add"
            BY <6>2, <6>4
          <6> QED BY <6>2, <6>3, <6>5
        <5> QED BY <1>5, <3>2, <5>2, <5>3, <5>4, <5>5
                DEF MediaThread, GateClosed, SendSetup, ProcessNegotiate, DataChannelMessage,
                    Teardown
      <4> QED BY <4>1, PostedOther
    <3> QED BY <3>1, <3>2
  <2> QED BY <1>1, <1>2, <1>5, <2>1, <2>2
<1> QED BY <1>3, <1>4, <1>5

LEMMA MediaCounts ==
  ASSUME V3Types, V3Types', NEW p \in Peers, MediaThread(p)
  PROVE  \A x \in Peers : Counted(x)' <= Counted(x)
<1> SUFFICES ASSUME NEW x \in Peers PROVE Counted(x)' <= Counted(x)
  OBVIOUS
<1>1. net'[x].added = net[x].added
  <2>1. CASE Start(p) \/ Teardown(p)
    <3>1. net \in [Peers -> Networking]
      BY DEF V3Types
    <3>2. net' = [net EXCEPT ![p].state = "made"] \/ net' = [net EXCEPT ![p].state = "gone"]
      BY <2>1 DEF Start, Teardown
    <3> QED BY <3>1, <3>2 DEF Networking
  <2>2. CASE ~Start(p) /\ ~Teardown(p)
    BY <2>2 DEF MediaThread, BeginSignaling, GateClosed, SendSetup, ProcessSetup,
                ProcessCandidates, ProcessNegotiate, DataChannelState, DataChannelMessage,
                MuteMicrophone, Stop, Delete, Shutdown
  <2> QED BY <2>1, <2>2
<1>2. OnTheWay(x)' = OnTheWay(x)
  BY MediaSends
<1>3. Delivered(x)' + (st'[x].pending + Posted(x)') <= Delivered(x) + (st[x].pending + Posted(x))
  <2>1. /\ Delivered(x) \in Nat /\ Posted(x) \in Nat /\ st[x].pending \in Nat
        /\ Delivered(p) \in Nat /\ Posted(p) \in Nat /\ st[p].pending \in Nat
    BY CountTypes
  <2>2. /\ Delivered(x)' \in Nat /\ Posted(x)' \in Nat /\ st'[x].pending \in Nat
    BY CountTypesNext
  <2>3. CASE x # p
    BY <2>1, <2>3, MediaTakes, MediaCommits
  <2>4. CASE x = p /\ ProcessCandidates(p)
    BY <2>1, <2>2, <2>4, MediaTakes, MediaCommits
  <2>5. CASE x = p /\ ~ProcessCandidates(p)
    BY <2>1, <2>2, <2>5, MediaTakes, MediaCommits
  <2> QED BY <2>3, <2>4, <2>5
<1>4. /\ OnTheWay(x) \in Nat /\ Delivered(x) \in Nat /\ Posted(x) \in Nat
      /\ st[x].pending \in Nat /\ net[x].added \in Nat
      /\ Delivered(x)' \in Nat /\ Posted(x)' \in Nat /\ st'[x].pending \in Nat
  BY CountTypes, CountTypesNext
<1>5. Counted(x)' = OnTheWay(x)' + Delivered(x)' + st'[x].pending + Posted(x)' + net'[x].added
  BY DEF Counted
<1>6. Counted(x) = OnTheWay(x) + Delivered(x) + st[x].pending + Posted(x) + net[x].added
  BY DEF Counted
<1> QED BY <1>1, <1>2, <1>3, <1>4, <1>5, <1>6

------------------------------------------------------------------------------
(* What the network thread and the surroundings do to the count. *)

\* A task that carries no candidate is posted, or none.
LEMMA AddedOther ==
  ASSUME V3Types, NEW x \in Peers,
         \/ mediaQ'[x] = mediaQ[x]
         \/ \E t \in MediaTasks : t.op # "data" /\ mediaQ'[x] = Append(mediaQ[x], t)
  PROVE  Delivered(x)' = Delivered(x)
<1>1. CASE mediaQ'[x] = mediaQ[x]
  BY <1>1 DEF Delivered
<1>2. ASSUME NEW t \in MediaTasks, t.op # "data", mediaQ'[x] = Append(mediaQ[x], t)
      PROVE  Delivered(x)' = Delivered(x)
  <2>1. mediaQ[x] \in Seq(MediaTasks)
    BY DEF V3Types
  <2>2. One(t, CandidateTasks) = 0
    BY <1>2 DEF One, CandidateTasks
  <2>3. HowMany(Append(mediaQ[x], t), CandidateTasks)
          = HowMany(mediaQ[x], CandidateTasks) + One(t, CandidateTasks)
    BY <1>2, <2>1, HowManyAppend
  <2>4. HowMany(mediaQ[x], CandidateTasks) \in Nat
    BY <2>1, HowManyType
  <2> QED BY <1>2, <2>2, <2>3, <2>4 DEF Delivered
<1> QED BY <1>1, <1>2

LEMMA NetCounts ==
  ASSUME V3Types, NEW p \in Peers, NetThread(p)
  PROVE  \A x \in Peers : Counted(x)' <= Counted(x)
<1> SUFFICES ASSUME NEW x \in Peers PROVE Counted(x)' <= Counted(x)
  OBVIOUS
<1>1. chan' = chan /\ st' = st
  BY DEF NetThread, NetworkingTask, LocalParams, DataChannelSend, Fence
<1>2. PICK op : NetTakes(p, op)
  BY DEF NetThread, NetworkingTask, LocalParams, DataChannelSend, Fence
<1>3. /\ netQ[p] \in Seq(NetTasks) /\ netQ[p] # <<>> /\ netQ'[p] = Tail(netQ[p])
      /\ Head(netQ[p]) \in NetTasks /\ Head(netQ[p]) = netQ[p][1]
      /\ Tail(netQ[p]) \in Seq(NetTasks)
      /\ \A y \in Peers : y # p => netQ'[y] = netQ[y]
  <2>1. /\ netQ[p] # <<>> /\ netQ'[p] = Tail(netQ[p]) /\ Head(netQ[p]) \in NetTasks
        /\ \A y \in Peers : y # p => netQ'[y] = netQ[y]
    BY <1>2, TypesNetTakes
  <2>2. netQ[p] \in Seq(NetTasks)
    BY DEF V3Types
  <2>3. Head(netQ[p]) = netQ[p][1] /\ Tail(netQ[p]) \in Seq(NetTasks)
    BY <2>1, <2>2, Taken
  <2> QED BY <2>1, <2>2, <2>3
<1>4. Delivered(x)' = Delivered(x)
  <2>1. \/ mediaQ'[x] = mediaQ[x]
        \/ \E t \in MediaTasks : t.op # "data" /\ mediaQ'[x] = Append(mediaQ[x], t)
    <3>1. CASE NetworkingTask(p) \/ Fence(p)
      BY <3>1 DEF NetworkingTask, Fence
    <3>2. CASE LocalParams(p)
      <4>1. Task("params") \in MediaTasks /\ Task("params").op = "params"
        BY TaskTypes DEF MediaOps, Gated
      <4> QED BY <3>2, <4>1 DEF LocalParams, V3Types
    <3>3. CASE DataChannelSend(p)
      <4> DEFINE t == FlagTask("dcMessage", Head(netQ[p]).flag)
      <4>1. t \in MediaTasks /\ t.op = "dcMessage"
        BY <1>3, FlagTaskTypes DEF NetTasks, MediaOps, Gated
      <4>2. mediaQ' = mediaQ \/ mediaQ' = [mediaQ EXCEPT ![Other(p)] = Append(@, t)]
        BY <3>3 DEF DataChannelSend
      <4>3. mediaQ \in [Peers -> Seq(MediaTasks)]
        BY DEF V3Types
      <4> HIDE DEF t
      <4> QED BY <4>1, <4>2, <4>3
    <3> QED BY <3>1, <3>2, <3>3 DEF NetThread
  <2> QED BY <2>1, AddedOther
<1>5. /\ Posted(p) = One(netQ[p][1], AddTasks) + Posted(p)' /\ Posted(p)' \in Nat
      /\ \A y \in Peers : y # p => Posted(y)' = Posted(y)
      /\ One(netQ[p][1], AddTasks) \in {0, 1}
  <2>1. Posted(p) = One(netQ[p][1], AddTasks) + Posted(p)'
    BY <1>3, HowManyTail DEF Posted
  <2>2. Posted(p)' \in Nat
    BY <1>3, HowManyType DEF Posted
  <2> QED BY <1>3, <2>1, <2>2 DEF Posted, One
<1>6. Posted(x)' + net'[x].added <= Posted(x) + net[x].added
  <2>1. net \in [Peers -> Networking] /\ net[x].added \in Nat /\ net[p].added \in Nat
        /\ Posted(x) \in Nat
    BY CountTypes DEF V3Types
  <2>2. CASE net'[x].added = net[x].added
    BY <1>5, <2>1, <2>2
  <2>3. CASE net'[x].added # net[x].added
    <3>1. NetworkingTask(p)
      BY <2>3 DEF NetThread, LocalParams, DataChannelSend, Fence
    <3>2. NetTakes(p, "add") /\ net' = [net EXCEPT ![p].added = @ + 1]
      <4>1. CASE net' = [net EXCEPT ![p].state = "started"]
        BY <2>1, <2>3, <4>1 DEF Networking
      <4>2. CASE net' = [net EXCEPT ![p].state = "stopped"]
        BY <2>1, <2>3, <4>2 DEF Networking
      <4>3. CASE net' = [net EXCEPT ![p].remote = TRUE]
        BY <2>1, <2>3, <4>3 DEF Networking
      <4> QED BY <3>1, <4>1, <4>2, <4>3 DEF NetworkingTask
    <3>3. x = p /\ net'[p].added = net[p].added + 1
      BY <2>1, <2>3, <3>2 DEF Networking
    <3>4. One(netQ[p][1], AddTasks) = 1
      BY <1>3, <3>2 DEF NetTakes, One, AddTasks
    <3> QED BY <1>5, <2>1, <3>3, <3>4
  <2> QED BY <2>2, <2>3
<1>7. OnTheWay(x)' = OnTheWay(x)
  BY <1>1 DEF OnTheWay
<1>8. /\ OnTheWay(x) \in Nat /\ Delivered(x) \in Nat /\ Posted(x) \in Nat
      /\ st[x].pending \in Nat /\ net[x].added \in Nat
  BY CountTypes
<1>9. Posted(x)' \in Nat /\ net'[x].added <= Posted(x) + net[x].added - Posted(x)'
      /\ net'[x].added \in Int
  <2>1. net'[x].added = net[x].added \/ net'[x].added = net[x].added + 1
    <3>1. net \in [Peers -> Networking]
      BY DEF V3Types
    <3>2. \/ net' = net
          \/ net' = [net EXCEPT ![p].state = "started"]
          \/ net' = [net EXCEPT ![p].state = "stopped"]
          \/ net' = [net EXCEPT ![p].remote = TRUE]
          \/ net' = [net EXCEPT ![p].added = @ + 1]
      BY DEF NetThread, NetworkingTask, LocalParams, DataChannelSend, Fence
    <3> QED BY <3>1, <3>2 DEF Networking
  <2>2. Posted(x)' \in Nat
    BY <1>3, <1>5, <1>8
  <2> QED BY <1>6, <1>8, <2>1, <2>2
<1>10. Counted(x)' = OnTheWay(x)' + Delivered(x)' + st'[x].pending + Posted(x)' + net'[x].added
  BY DEF Counted
<1>11. Counted(x) = OnTheWay(x) + Delivered(x) + st[x].pending + Posted(x) + net[x].added
  BY DEF Counted
<1> QED BY <1>1, <1>4, <1>7, <1>8, <1>9, <1>10, <1>11

\* A candidate is gathered: an event, and one more on its way at most.
LEMMA GatheredCounts ==
  ASSUME V3Types, NEW p \in Peers, EmitLocalCandidate(p)
  PROVE  \A x \in Peers : Counted(x)' <= Counted(x) + 1
<1> SUFFICES ASSUME NEW x \in Peers PROVE Counted(x)' <= Counted(x) + 1
  OBVIOUS
<1> DEFINE m == Message("Candidates", "none")
<1>1. UNCHANGED <<mediaQ, netQ, st, net>>
  BY DEF EmitLocalCandidate
<1>2. chan[x] \in Seq(Messages) /\ m \in Messages
  BY MessageTypes DEF V3Types
<1>3. chan'[x] = chan[x] \/ chan'[x] = Append(chan[x], m)
  BY DEF EmitLocalCandidate, V3Types
<1> HIDE DEF m
<1>4. One(m, CandidateMessages) \in {0, 1}
  BY DEF One
<1>5. HowMany(Append(chan[x], m), CandidateMessages)
        = HowMany(chan[x], CandidateMessages) + One(m, CandidateMessages)
  BY <1>2, HowManyAppend
<1>6. /\ OnTheWay(x) \in Nat /\ Delivered(x) \in Nat /\ Posted(x) \in Nat
      /\ st[x].pending \in Nat /\ net[x].added \in Nat
  BY CountTypes
<1>7. OnTheWay(x)' = OnTheWay(x) \/ OnTheWay(x)' = OnTheWay(x) + One(m, CandidateMessages)
  BY <1>3, <1>5 DEF OnTheWay
<1>8. Counted(x)' = OnTheWay(x)' + Delivered(x) + st[x].pending + Posted(x) + net[x].added
  BY <1>1 DEF Counted, Delivered, Posted
<1>9. Counted(x) = OnTheWay(x) + Delivered(x) + st[x].pending + Posted(x) + net[x].added
  BY DEF Counted
<1> QED BY <1>4, <1>6, <1>7, <1>8, <1>9

\* A message is delivered, in its turn or out of it.
LEMMA DeliveredCounts ==
  ASSUME V3Types, NEW p \in Peers, Deliver(p)
  PROVE  \A x \in Peers : Counted(x)' <= Counted(x)
<1> SUFFICES ASSUME NEW x \in Peers PROVE Counted(x)' <= Counted(x)
  OBVIOUS
<1>1. PICK i \in 1..Len(chan[p]) :
        /\ mediaQ' = [mediaQ EXCEPT ![p] = Append(@, DataTask(chan[p][i]))]
        /\ chan' = [chan EXCEPT ![p] = RemoveAt(@, i)]
  BY DeliverIndex DEF Deliver
<1>2. UNCHANGED <<netQ, st, net>>
  BY DEF Deliver
<1>3. /\ chan \in [Peers -> Seq(Messages)] /\ mediaQ \in [Peers -> Seq(MediaTasks)]
      /\ chan[p] \in Seq(Messages) /\ mediaQ[p] \in Seq(MediaTasks)
  BY DEF V3Types
<1>4. /\ OnTheWay(x) \in Nat /\ Delivered(x) \in Nat /\ Posted(x) \in Nat
      /\ st[x].pending \in Nat /\ net[x].added \in Nat
  BY CountTypes
<1>5. CASE x # p
  <2>1. chan'[x] = chan[x] /\ mediaQ'[x] = mediaQ[x]
    BY <1>1, <1>3, <1>5
  <2>2. Counted(x)' = Counted(x)
    BY <1>2, <2>1 DEF Counted, OnTheWay, Delivered, Posted
  <2> QED BY <1>4, <2>2 DEF Counted
<1>6. CASE x = p
  <2> DEFINE m == chan[p][i]
             t == DataTask(m)
  <2>1. m \in Messages
    BY <1>3, ElementOfSeq
  <2>2. t \in MediaTasks
    BY <2>1, DataTaskTypes
  <2>3. t \in CandidateTasks => m \in CandidateMessages
    <3>1. t.msg = m
      BY DEF DataTask, Task
    <3> QED BY <2>1, <3>1 DEF CandidateTasks, CandidateMessages, Messages, Message
  <2>4. chan'[p] = RemoveAt(chan[p], i) /\ mediaQ'[p] = Append(mediaQ[p], t)
    BY <1>1, <1>3
  <2>5. HowMany(chan[p], CandidateMessages)
          = HowMany(RemoveAt(chan[p], i), CandidateMessages) + One(m, CandidateMessages)
    BY <1>3, HowManyRemoved
  <2> HIDE DEF t, m
  <2>6. HowMany(Append(mediaQ[p], t), CandidateTasks)
          = HowMany(mediaQ[p], CandidateTasks) + One(t, CandidateTasks)
    BY <1>3, <2>2, HowManyAppend
  <2>7. OnTheWay(p)' \in Nat
    <3>1. RemoveAt(chan[p], i) \in Seq(Messages)
      BY <1>3, HowManyRemoved
    <3> QED BY <2>4, <3>1, HowManyType DEF OnTheWay
  <2>8. /\ One(t, CandidateTasks) \in {0, 1} /\ One(m, CandidateMessages) \in {0, 1}
        /\ One(t, CandidateTasks) <= One(m, CandidateMessages)
    BY <2>3 DEF One
  <2>9. /\ OnTheWay(p) = OnTheWay(p)' + One(m, CandidateMessages)
        /\ Delivered(p)' = Delivered(p) + One(t, CandidateTasks)
    BY <2>4, <2>5, <2>6 DEF OnTheWay, Delivered
  <2>10. Counted(x)' = OnTheWay(p)' + Delivered(p)' + st[p].pending + Posted(p) + net[p].added
    BY <1>2, <1>6 DEF Counted, Posted
  <2>11. Counted(x) = OnTheWay(p) + Delivered(p) + st[p].pending + Posted(p) + net[p].added
    BY <1>6 DEF Counted
  <2>12. /\ OnTheWay(p) \in Nat /\ Delivered(p) \in Nat /\ Posted(p) \in Nat
         /\ st[p].pending \in Nat /\ net[p].added \in Nat
    BY CountTypes
  <2>13. OnTheWay(p)' + Delivered(p)' <= OnTheWay(p) + Delivered(p)
    BY <2>7, <2>8, <2>9, <2>12
  <2>14. Delivered(p)' \in Nat
    BY <2>8, <2>9, <2>12
  <2>15. OnTheWay(p)' + Delivered(p)' \in Nat /\ OnTheWay(p) + Delivered(p) \in Nat
    BY <2>7, <2>12, <2>14
  <2> QED BY SMTT(30), <2>10, <2>11, <2>12, <2>13, <2>15
<1> QED BY <1>5, <1>6

\* The data channel, a mute and a release.
LEMMA AroundCounts ==
  ASSUME V3Types, dcUp \in BOOLEAN, Flap \/ \E p \in Peers : SetMute(p) \/ Release(p)
  PROVE  \A x \in Peers : Counted(x)' <= Counted(x)
<1> SUFFICES ASSUME NEW x \in Peers PROVE Counted(x)' <= Counted(x)
  OBVIOUS
<1>1. UNCHANGED <<netQ, st, net, chan>>
  BY DEF Flap, SetMute, Release
<1>2. Delivered(x)' = Delivered(x)
  <2>1. CASE Flap
    <3> DEFINE t == FlagTask("dcState", dcUp')
    <3>1. t \in MediaTasks /\ t.op = "dcState"
      <4>1. dcUp' \in BOOLEAN
        BY <2>1 DEF Flap
      <4> QED BY <4>1, FlagTaskTypes DEF MediaOps, Gated
    <3>2. mediaQ'[x] = mediaQ[x] \/ mediaQ'[x] = Append(mediaQ[x], t)
      BY <2>1 DEF Flap
    <3> HIDE DEF t
    <3> QED BY <3>1, <3>2, AddedOther
  <2>2. ASSUME NEW p \in Peers, SetMute(p) PROVE Delivered(x)' = Delivered(x)
    <3>1. PICK f \in BOOLEAN : mediaQ' = [mediaQ EXCEPT ![p] = Append(@, FlagTask("mute", f))]
      BY <2>2 DEF SetMute
    <3>2. FlagTask("mute", f) \in MediaTasks /\ FlagTask("mute", f).op = "mute"
      BY FlagTaskTypes DEF MediaOps
    <3>3. \/ mediaQ'[x] = mediaQ[x]
          \/ \E t \in MediaTasks : t.op # "data" /\ mediaQ'[x] = Append(mediaQ[x], t)
      BY <3>1, <3>2 DEF V3Types
    <3> QED BY <3>3, AddedOther
  <2>3. ASSUME NEW p \in Peers, Release(p) PROVE Delivered(x)' = Delivered(x)
    <3> DEFINE a == Task("stop")
               b == Task("delete")
               w == <<a, b>>
    <3>1. a \in MediaTasks /\ b \in MediaTasks /\ a.op = "stop" /\ b.op = "delete"
      BY TaskTypes DEF MediaOps
    <3>2. \/ mediaQ'[x] = mediaQ[x]
          \/ mediaQ'[x] = mediaQ[x] \o w
      BY <2>3 DEF Release, V3Types
    <3> HIDE DEF a, b
    <3>3. w \in Seq(MediaTasks) /\ Len(w) = 2 /\ w[1] = a /\ w[2] = b
      BY <3>1
    <3>4. \A i \in 1..2 : i = 1 \/ i = 2
      OBVIOUS
    <3> HIDE DEF w
    <3>5. \A i \in 1..Len(w) : w[i] \notin CandidateTasks
      BY <3>1, <3>3, <3>4 DEF CandidateTasks
    <3>6. HowMany(w, CandidateTasks) = 0
      BY <3>5, HowManyNone
    <3>7. mediaQ[x] \in Seq(MediaTasks)
      BY DEF V3Types
    <3>8. HowMany(mediaQ[x] \o w, CandidateTasks)
            = HowMany(mediaQ[x], CandidateTasks) + HowMany(w, CandidateTasks)
      BY <3>3, <3>7, HowManyConcat
    <3>9. HowMany(mediaQ[x], CandidateTasks) \in Nat
      BY <3>7, HowManyType
    <3>10. HowMany(mediaQ[x] \o w, CandidateTasks) = HowMany(mediaQ[x], CandidateTasks)
      BY <3>6, <3>8, <3>9
    <3> QED BY <3>2, <3>10 DEF Delivered
  <2> QED BY <2>1, <2>2, <2>3
<1>3. Counted(x)' = Counted(x)
  BY <1>1, <1>2 DEF Counted, OnTheWay, Posted
<1>4. Counted(x) \in Nat
  BY CountTypes DEF Counted
<1> QED BY <1>3, <1>4

\* Every event is counted, and there are no more than MaxEvents.
LEMMA EventsCounted ==
  ASSUME V3Types, events \in 0..MaxEvents, [Next]_vars
  PROVE  /\ events' \in 0..MaxEvents /\ events <= events'
         /\ \A p \in Peers : EmitLocalCandidate(p) => events' = events + 1
<1>1. MaxEvents \in Nat
  BY V3Assumption
<1>2. events' = events \/ (events < MaxEvents /\ events' = events + 1)
  <2>1. ASSUME NEW p \in Peers, MediaThread(p)
        PROVE  events' = events \/ (events < MaxEvents /\ events' = events + 1)
    <3>1. CASE Start(p)
      BY <3>1 DEF Start, Refusal
    <3>2. CASE ProcessNegotiate(p)
      BY <3>2 DEF ProcessNegotiate, Refusal
    <3>3. CASE ~Start(p) /\ ~ProcessNegotiate(p)
      BY <2>1, <3>3 DEF MediaThread, BeginSignaling, GateClosed, SendSetup, ProcessSetup,
                        ProcessCandidates, DataChannelState, DataChannelMessage,
                        MuteMicrophone, Stop, Delete, Shutdown, Teardown
    <3> QED BY <3>1, <3>2, <3>3
  <2>2. ASSUME NEW p \in Peers,
               \/ NetThread(p) \/ EmitLocalCandidate(p) \/ Deliver(p) \/ SetMute(p)
               \/ Release(p)
        PROVE  events' = events \/ (events < MaxEvents /\ events' = events + 1)
    BY <2>2 DEF NetThread, NetworkingTask, LocalParams, DataChannelSend, Fence,
                EmitLocalCandidate, Deliver, SetMute, Release
  <2>3. CASE Flap \/ UNCHANGED vars
    BY <2>3 DEF Flap, vars
  <2> QED BY <2>1, <2>2, <2>3 DEF Next
<1>3. \A p \in Peers : EmitLocalCandidate(p) => events' = events + 1
  BY DEF EmitLocalCandidate
<1> QED BY <1>1, <1>2, <1>3

LEMMA CountNext ==
  ASSUME V3Types, V3Types', dcUp \in BOOLEAN, CountInv, [Next]_vars
  PROVE  CountInv'
<1>1. /\ events \in 0..MaxEvents /\ events' \in 0..MaxEvents /\ events <= events'
      /\ \A p \in Peers : EmitLocalCandidate(p) => events' = events + 1
  BY EventsCounted DEF CountInv
<1>2. ASSUME NEW x \in Peers PROVE Counted(x) \in Nat /\ Counted(x)' \in Nat
  BY CountTypes, CountTypesNext DEF Counted
<1>3. events \in Int /\ events' \in Int
  BY <1>1, V3Assumption
<1>4. CASE \A x \in Peers : Counted(x)' <= Counted(x)
  BY <1>1, <1>2, <1>3, <1>4 DEF CountInv
<1>5. ASSUME NEW p \in Peers, EmitLocalCandidate(p) PROVE CountInv'
  <2>1. \A x \in Peers : Counted(x)' <= Counted(x) + 1
    BY <1>5, GatheredCounts
  <2> QED BY <1>1, <1>2, <1>3, <1>5, <2>1 DEF CountInv
<1>6. CASE UNCHANGED vars
  BY <1>6 DEF CountInv, Counted, OnTheWay, Delivered, Posted, vars
<1>7. CASE \E p \in Peers : MediaThread(p) \/ NetThread(p) \/ Deliver(p)
  BY <1>4, <1>7, MediaCounts, NetCounts, DeliveredCounts
<1>8. CASE Flap \/ \E p \in Peers : SetMute(p) \/ Release(p)
  BY <1>4, <1>8, AroundCounts
<1> QED BY <1>5, <1>6, <1>7, <1>8 DEF Next

------------------------------------------------------------------------------
(* The types, with their bounds. *)

TypesInv == AudioInv /\ refused \in BOOLEAN /\ CountInv

LEMMA TypesInvInit == Init => TypesInv
<1> SUFFICES ASSUME Init PROVE TypesInv
  OBVIOUS
<1>1. AudioInv
  BY AudioInit
<1>2. ASSUME NEW x \in Peers PROVE Counted(x) = 0
  <2> DEFINE t == Task("start")
             e == <<>>
  <2>1. mediaQ[x] = <<t>> /\ netQ[x] = e /\ chan[x] = e /\ st[x].pending = 0 /\ net[x].added = 0
    BY DEF Init
  <2>2. Len(e) = 0
    OBVIOUS
  <2>3. HowMany(e, AddTasks) = 0 /\ HowMany(e, CandidateMessages) = 0
    <3> HIDE DEF e
    <3>1. \A i \in 1..Len(e) : e[i] \notin AddTasks /\ e[i] \notin CandidateMessages
      BY <2>2
    <3> QED BY <3>1, HowManyNone
  <2>4. HowMany(<<t>>, CandidateTasks) = 0
    <3>1. t \in MediaTasks /\ t \notin CandidateTasks
      BY TaskTypes DEF MediaOps, CandidateTasks
    <3> HIDE DEF t
    <3> QED BY <3>1, HowManyOne DEF One
  <2> QED BY <2>1, <2>3, <2>4 DEF Counted, OnTheWay, Delivered, Posted
<1>3. events \in 0..MaxEvents /\ events = 0
  BY V3Assumption DEF Init
<1>4. CountInv
  <2>1. 0 <= events
    BY <1>3
  <2> QED BY <1>2, <1>3, <2>1 DEF CountInv
<1>5. refused \in BOOLEAN
  BY DEF Init
<1> QED BY <1>1, <1>4, <1>5 DEF TypesInv

LEMMA TypesInvNext == TypesInv /\ [Next]_vars => TypesInv'
<1> SUFFICES ASSUME TypesInv, [Next]_vars PROVE TypesInv'
  OBVIOUS
<1>1. AudioInv'
  BY AudioNext DEF TypesInv
<1>2. V3Types /\ V3Types' /\ dcUp \in BOOLEAN /\ CountInv
  BY <1>1 DEF TypesInv, AudioInv, KnowsInv, V3IInv, V3Inv
<1>3. CountInv'
  BY <1>2, CountNext
<1>4. refused' \in BOOLEAN
  <2>1. refused' = refused \/ refused' = TRUE
    <3>1. ASSUME NEW p \in Peers, MediaThread(p) PROVE refused' = refused \/ refused' = TRUE
      <4>1. CASE Start(p) \/ ProcessNegotiate(p)
        BY <4>1 DEF Start, ProcessNegotiate, Refusal
      <4>2. CASE ~Start(p) /\ ~ProcessNegotiate(p)
        BY <3>1, <4>2 DEF MediaThread, BeginSignaling, GateClosed, SendSetup, ProcessSetup,
                          ProcessCandidates, DataChannelState, DataChannelMessage,
                          MuteMicrophone, Stop, Delete, Shutdown, Teardown
      <4> QED BY <4>1, <4>2
    <3>2. CASE ~\E p \in Peers : MediaThread(p)
      BY <3>2 DEF Next, Flap, NetThread, NetworkingTask, LocalParams, DataChannelSend, Fence,
                  EmitLocalCandidate, Deliver, SetMute, Release, vars
    <3> QED BY <3>1, <3>2
  <2> QED BY <2>1 DEF TypesInv
<1> QED BY <1>1, <1>3, <1>4 DEF TypesInv

LEMMA TypesInvariant == Spec => []TypesInv
  BY TypesInvInit, TypesInvNext, PTL DEF Spec

\* The types, and that a peer never holds more candidates for later, nor gives its networking
\* object more, than were gathered: committing them clears the list, so that none is given
\* twice (commitPendingIceCandidates of InstanceV13_0_0Impl).
THEOREM V3TypeCorrect == Spec => []TypeOK
<1>1. TypesInv => TypeOK
  <2> SUFFICES ASSUME TypesInv PROVE TypeOK
    OBVIOUS
  <2>1. /\ V3Types /\ sctp \in BOOLEAN /\ dcUp \in BOOLEAN /\ refused \in BOOLEAN
        /\ events \in 0..MaxEvents /\ ToldTypes
    BY DEF TypesInv, AudioInv, KnowsInv, V3IInv, V3Inv, CountInv
  <2>2. ASSUME NEW p \in Peers
        PROVE  st[p].pending \in 0..MaxEvents /\ net[p].added \in 0..MaxEvents
    <3>1. /\ OnTheWay(p) \in Nat /\ Delivered(p) \in Nat /\ Posted(p) \in Nat
          /\ st[p].pending \in Nat /\ net[p].added \in Nat
      BY <2>1, CountTypes
    <3>2. Counted(p) <= events
      BY DEF TypesInv, CountInv
    <3>3. MaxEvents \in Nat
      BY V3Assumption
    <3> QED BY <2>1, <3>1, <3>2, <3>3 DEF Counted
  <2>3. ASSUME NEW p \in Peers
        PROVE  /\ \A i \in 1..Len(mediaQ[p]) :
                    mediaQ[p][i].op \in {"start", "mute", "stop", "delete"} \cup Gated
               /\ \A i \in 1..Len(netQ[p]) :
                    netQ[p][i].op \in {"start", "params", "setRemote", "add", "dcSend",
                                       "stop", "fence"}
               /\ \A i \in 1..Len(chan[p]) : chan[p][i] \in Messages
    <3>1. /\ mediaQ[p] \in Seq(MediaTasks) /\ netQ[p] \in Seq(NetTasks)
          /\ chan[p] \in Seq(Messages)
      BY <2>1 DEF V3Types
    <3>2. /\ \A i \in 1..Len(mediaQ[p]) : mediaQ[p][i] \in MediaTasks
          /\ \A i \in 1..Len(netQ[p]) : netQ[p][i] \in NetTasks
          /\ \A i \in 1..Len(chan[p]) : chan[p][i] \in Messages
      BY <3>1, ElementOfSeq
    <3> QED BY <3>2 DEF MediaTasks, NetTasks, MediaOps, NetOps
  <2>4. ASSUME NEW p \in Peers
        PROVE  /\ pc[p] \in {"idle", "signaling", "fence", "teardown"}
               /\ told[p] \in {"nothing", "open", "muted"}
               /\ released[p] \in BOOLEAN /\ stopped[p] \in BOOLEAN /\ freed[p] \in BOOLEAN
    BY <2>1 DEF V3Types, ToldTypes
  <2>5. ASSUME NEW p \in Peers
        PROVE  /\ st[p] \in [ready : BOOLEAN, conn : BOOLEAN, alive : BOOLEAN,
                             handshake : BOOLEAN, setupSent : BOOLEAN, dcOpen : BOOLEAN,
                             pending : 0..MaxEvents, need : BOOLEAN, offered : BOOLEAN,
                             in : BOOLEAN, out : {"none", "open", "muted"}, mute : BOOLEAN]
               /\ net[p] \in [state : {"none", "made", "started", "stopped", "gone"},
                              remote : BOOLEAN, added : 0..MaxEvents]
    <3>1. st[p] \in Members /\ net[p] \in Networking
      BY <2>1 DEF V3Types
    <3> QED BY <2>2, <3>1 DEF Members, Networking
  <2> QED BY <2>1, <2>3, <2>4, <2>5 DEF TypeOK
<1> QED BY <1>1, TypesInvariant, PTL

==============================================================================
