-------------------------- MODULE TgCallNativeProofs --------------------------
(***************************************************************************)
(* Proofs about TgCallNative, for every width of the id, every number of   *)
(* packets and every number of sessions.  One lemma per invariant covers   *)
(* all steps of the table, so that modules built on it can cite it.        *)
(***************************************************************************)
EXTENDS TgCallNative, SequenceTheorems, TLAPS

\* Every step of the table, whoever takes it.
NativeStep ==
  \/ CreateInstance \/ CreateFails \/ StoreInstance
  \/ \E id \in InstanceIds :
       \/ EmplaceSession(id) \/ NotifierFails(id)
       \/ DrainSession(id) \/ TakeNotification(id)
       \/ EmitPacket(id) \/ PostNotification(id) \/ DestroyInstance(id)
  \/ starting = NoId /\ \E id \in InstanceIds : StopSession(id)

\* No id is 0, the value that stands for none.
LEMMA NoIdIsNoInstance == NoId \notin InstanceIds
  BY MaxInt32Assumption DEF NoId, InstanceIds, MinInt32

\* Whatever the compiler makes of the overflow, an id stays an id.
LEMMA IncrementedIsId == \A n \in InstanceIds : Incremented(n) \subseteq InstanceIds
  BY MaxInt32Assumption DEF Incremented, InstanceIds, MinInt32

-----------------------------------------------------------------------------
(* Types.                                                                  *)

LEMMA NativeTypeInit == NativeInit => NativeTypeOK
<1> SUFFICES ASSUME NativeInit PROVE NativeTypeOK
  OBVIOUS
<1>1. <<>> \in Seq(Packets)
  BY EmptySeq
<1>2. 0 \in 0..MaxPackets /\ 1 \in InstanceIds
  BY MaxPacketsAssumption, MaxInt32Assumption DEF InstanceIds
<1>3. QED
  BY <1>1, <1>2 DEF NativeInit, NativeTypeOK, Lives

LEMMA NativeTypeStep ==
  ASSUME NativeTypeOK, NativeStep
  PROVE  NativeTypeOK'
<1>0. \A i \in InstanceIds : emitting[i] \in Nat /\ notified[i] \in Nat
  BY DEF NativeTypeOK
<1> USE DEF NativeTypeOK, Lives
<1>1. <<>> \in Seq(Packets)
  BY EmptySeq
<1>2. 0 \in 0..MaxPackets
  BY MaxPacketsAssumption
<1>3. ASSUME NEW id \in InstanceIds, EmplaceSession(id)
      PROVE  NativeTypeOK'
  BY <1>1, <1>2, <1>3, IncrementedIsId DEF EmplaceSession
<1>4. ASSUME NEW id \in InstanceIds, NotifierFails(id)
      PROVE  NativeTypeOK'
  BY <1>4, IncrementedIsId DEF NotifierFails
<1>5. ASSUME CreateInstance \/ CreateFails \/ StoreInstance
      PROVE  NativeTypeOK'
  BY <1>5 DEF CreateInstance, CreateFails, StoreInstance
<1>6. ASSUME NEW id \in InstanceIds, DrainSession(id)
      PROVE  NativeTypeOK'
  <2>1. drained[id] \o queue[id] \in Seq(Packets)
    BY ConcatProperties
  <2>2. QED
    BY <1>1, <1>6, <2>1 DEF DrainSession
<1>7. ASSUME NEW id \in InstanceIds, StopSession(id)
      PROVE  NativeTypeOK'
  BY <1>1, <1>7 DEF StopSession
<1>8. ASSUME NEW id \in InstanceIds, EmitPacket(id)
      PROVE  NativeTypeOK'
  <2>0. emitted[id] \in 0..MaxPackets /\ emitted[id] < MaxPackets
    BY <1>8 DEF EmitPacket
  <2>1. emitted[id] + 1 \in Packets /\ emitted[id] + 1 \in 0..MaxPackets
    <3> HIDE DEF NativeTypeOK
    <3>1. QED
      BY <2>0, MaxPacketsAssumption DEF Packets
  <2>2. Append(queue[id], emitted[id] + 1) \in Seq(Packets)
    BY <2>1, AppendProperties
  <2>3. /\ queue' \in [InstanceIds -> Seq(Packets)] /\ emitting' \in [InstanceIds -> Nat]
        /\ emitted' \in [InstanceIds -> 0..MaxPackets]
    <3>1. CASE id \in sessions
      <4>1. /\ emitted' = [emitted EXCEPT ![id] = emitted[id] + 1]
            /\ queue' = [queue EXCEPT ![id] = Append(queue[id], emitted[id] + 1)]
            /\ emitting' = [emitting EXCEPT ![id] = emitting[id] + 1]
        BY <1>8, <3>1 DEF EmitPacket
      <4>2. emitting[id] + 1 \in Nat
        <5> HIDE DEF NativeTypeOK
        <5>1. QED
          BY <1>0
      <4>3. QED
        BY <2>1, <2>2, <4>1, <4>2
    <3>2. CASE id \notin sessions
      BY <1>8, <2>1, <3>2 DEF EmitPacket
    <3>3. QED
      BY <3>1, <3>2
  <2>4. QED
    BY <1>8, <2>3 DEF EmitPacket
<1>9. ASSUME NEW id \in InstanceIds, PostNotification(id)
      PROVE  NativeTypeOK'
  <2>1. emitting[id] - 1 \in Nat /\ notified[id] + 1 \in Nat
    <3> HIDE DEF NativeTypeOK
    <3>1. QED
      BY <1>0, <1>9 DEF PostNotification
  <2>2. /\ emitting' \in [InstanceIds -> Nat] /\ notified' \in [InstanceIds -> Nat]
    BY <1>9, <2>1 DEF PostNotification
  <2>3. QED
    BY <1>9, <2>2 DEF PostNotification
<1>10. ASSUME NEW id \in InstanceIds, DestroyInstance(id)
      PROVE  NativeTypeOK'
  BY <1>10 DEF DestroyInstance
<1>11. ASSUME NEW id \in InstanceIds, TakeNotification(id)
      PROVE  NativeTypeOK'
  <2>1. notified[id] - 1 \in Nat
    <3> HIDE DEF NativeTypeOK
    <3>1. QED
      BY <1>0, <1>11 DEF TakeNotification
  <2>2. QED
    BY <1>11, <2>1 DEF TakeNotification
<1>12. QED
  BY <1>3, <1>4, <1>5, <1>6, <1>7, <1>8, <1>9, <1>10, <1>11 DEF NativeStep

-----------------------------------------------------------------------------
(* Sessions and their instances.                                           *)

\* The session startCall works on is in the table, and its instance, if it
\* has one, has not begun to stop.
StartingInv == starting # NoId =>
  starting \in sessions /\ life[starting] \in {"none", "running"}

LifeInv == StartingInv /\ NoOrphanInstance /\ NoHollowSession

LEMMA LifeStep ==
  ASSUME NativeTypeOK, LifeInv, NativeStep
  PROVE  LifeInv'
<1> USE DEF NativeTypeOK, LifeInv, StartingInv, NoOrphanInstance, NoHollowSession
<1>1. ASSUME NEW id \in InstanceIds, EmplaceSession(id)
      PROVE  LifeInv'
  BY <1>1, NoIdIsNoInstance DEF EmplaceSession, Reusable
<1>2. ASSUME NEW id \in InstanceIds, NotifierFails(id)
      PROVE  LifeInv'
  BY <1>2 DEF NotifierFails
<1>3. CASE CreateInstance
  BY <1>3 DEF CreateInstance
<1>4. CASE CreateFails
  BY <1>4 DEF CreateFails
<1>5. CASE StoreInstance
  BY <1>5 DEF StoreInstance
<1>6. ASSUME NEW id \in InstanceIds, DrainSession(id)
      PROVE  LifeInv'
  BY <1>6 DEF DrainSession
<1>7. ASSUME NEW id \in InstanceIds, starting = NoId, StopSession(id)
      PROVE  LifeInv'
  BY <1>7 DEF StopSession
<1>8. ASSUME NEW id \in InstanceIds,
             EmitPacket(id) \/ PostNotification(id) \/ TakeNotification(id)
      PROVE  LifeInv'
  BY <1>8 DEF EmitPacket, PostNotification, TakeNotification
<1>9. ASSUME NEW id \in InstanceIds, DestroyInstance(id)
      PROVE  LifeInv'
  BY <1>9 DEF DestroyInstance
<1>10. QED
  BY <1>1, <1>2, <1>3, <1>4, <1>5, <1>6, <1>7, <1>8, <1>9 DEF NativeStep

-----------------------------------------------------------------------------
(* Packets.                                                                *)

Counting(n) == [k \in 1..n |-> k]

\* One more packet at the end of the queue continues the count.
LEMMA AppendAfter ==
  ASSUME NEW S, NEW d \in Seq(S), NEW q \in Seq(S), NEW x \in S
  PROVE  d \o Append(q, x) = Append(d \o q, x)
  OBVIOUS

LEMMA CountOn ==
  \A n \in Nat, x \in Packets, d \in Seq(Packets), q \in Seq(Packets) :
    x = n + 1 /\ d \o q = Counting(n) => d \o Append(q, x) = Counting(x)
<1> TAKE n \in Nat, x \in Packets, d \in Seq(Packets), q \in Seq(Packets)
<1> HAVE x = n + 1 /\ d \o q = Counting(n)
<1>1. d \o Append(q, x) = Append(Counting(n), x)
  BY AppendAfter
<1>2. Len(Counting(n)) = n
  BY DEF Counting
<1>3. Append(Counting(n), x) = Counting(x)
  BY <1>2 DEF Counting
<1>4. QED
  BY <1>1, <1>3

\* A drain moves the queue to the end of what was drained.
LEMMA DrainKeepsCount ==
  ASSUME NEW S, NEW d \in Seq(S), NEW q \in Seq(S)
  PROVE  (d \o q) \o <<>> = d \o q
  BY ConcatProperties, ConcatEmptySeq

LEMMA OrderStep ==
  ASSUME NativeTypeOK, InOrderNoLoss, NativeStep
  PROVE  InOrderNoLoss'
<1> USE DEF NativeTypeOK, InOrderNoLoss
<1>1. ASSUME NEW id \in InstanceIds, EmplaceSession(id)
      PROVE  InOrderNoLoss'
  <2>1. <<>> \o <<>> = [n \in 1..0 |-> n]
    OBVIOUS
  <2>2. QED
    BY ZenonT(30), <1>1, <2>1 DEF EmplaceSession
<1>2. ASSUME NEW id \in InstanceIds, NotifierFails(id)
      PROVE  InOrderNoLoss'
  BY <1>2 DEF NotifierFails
<1>3. CASE CreateInstance \/ CreateFails \/ StoreInstance
  BY <1>3 DEF CreateInstance, CreateFails, StoreInstance
<1>4. ASSUME NEW id \in InstanceIds, DrainSession(id)
      PROVE  InOrderNoLoss'
  <2>1. drained[id] \in Seq(Packets) /\ queue[id] \in Seq(Packets)
    OBVIOUS
  <2>2. (drained[id] \o queue[id]) \o <<>> = drained[id] \o queue[id]
    BY <2>1, DrainKeepsCount
  <2>3. QED
    BY <1>4, <2>2 DEF DrainSession
<1>5. ASSUME NEW id \in InstanceIds, StopSession(id)
      PROVE  InOrderNoLoss'
  BY <1>5 DEF StopSession
<1>6. ASSUME NEW id \in InstanceIds, EmitPacket(id)
      PROVE  InOrderNoLoss'
  <2>1. CASE id \notin sessions
    BY <1>6, <2>1 DEF EmitPacket
  <2>2. CASE id \in sessions
    <3>0. emitted[id] \in 0..MaxPackets /\ emitted[id] < MaxPackets
      BY <1>6 DEF EmitPacket
    <3>1. emitted[id] \in Nat /\ emitted[id] + 1 \in Packets
      BY SMTT(30), <3>0, MaxPacketsAssumption DEF Packets
    <3>2. drained[id] \in Seq(Packets) /\ queue[id] \in Seq(Packets)
      OBVIOUS
    <3>3. drained[id] \o queue[id] = Counting(emitted[id])
      BY <2>2 DEF Counting
    <3>4. drained[id] \o Append(queue[id], emitted[id] + 1) = Counting(emitted[id] + 1)
      <4> DEFINE n == emitted[id]
                 x == emitted[id] + 1
                 d == drained[id]
                 q == queue[id]
      <4>1. /\ n \in Nat /\ x \in Packets /\ x = n + 1
            /\ d \in Seq(Packets) /\ q \in Seq(Packets)
        BY <3>1, <3>2
      <4>2. d \o q = Counting(n)
        BY <3>3
      <4> HIDE DEF n, x, d, q
      <4>3. d \o Append(q, x) = Counting(x)
        BY <4>1, <4>2, CountOn, Zenon
      <4>4. QED
        BY <4>3 DEF x, d, q
    <3>5. QED
      BY <1>6, <2>2, <3>4 DEF EmitPacket, Counting
  <2>3. QED
    BY <2>1, <2>2
<1>7. ASSUME NEW id \in InstanceIds,
             PostNotification(id) \/ TakeNotification(id) \/ DestroyInstance(id)
      PROVE  InOrderNoLoss'
  BY <1>7 DEF PostNotification, TakeNotification, DestroyInstance
<1>8. QED
  BY <1>1, <1>2, <1>3, <1>4, <1>5, <1>6, <1>7 DEF NativeStep

-----------------------------------------------------------------------------
(* The module on its own.                                                  *)

NativeInv == NativeTypeOK /\ LifeInv /\ InOrderNoLoss

LEMMA NativeNextIsStep == NativeNext => NativeStep
  BY DEF NativeNext, JsThread, NativeThreads, NativeStep

THEOREM NativeInvariant == NativeSpec => []NativeInv
<1>1. NativeInit => NativeInv
  BY NativeTypeInit DEF NativeInit, NativeInv, LifeInv, StartingInv,
     NoOrphanInstance, NoHollowSession, InOrderNoLoss
<1>2. NativeInv /\ [NativeNext]_nativeVars => NativeInv'
  <2> SUFFICES ASSUME NativeInv, [NativeNext]_nativeVars PROVE NativeInv'
    OBVIOUS
  <2>1. CASE NativeNext
    BY <2>1, NativeNextIsStep, NativeTypeStep, LifeStep, OrderStep DEF NativeInv
  <2>2. CASE UNCHANGED nativeVars
    BY <2>2 DEF nativeVars, NativeInv, NativeTypeOK, LifeInv, StartingInv,
       NoOrphanInstance, NoHollowSession, InOrderNoLoss
  <2>3. QED
    BY <2>1, <2>2
<1>3. QED
  BY <1>1, <1>2, PTL DEF NativeSpec

\* The variables keep their types; in particular an id that overflowed is
\* still one an int32_t can hold (tgcall_native.cpp:167-180).
THEOREM NativeTypeCorrect == NativeSpec => []NativeTypeOK
<1>1. NativeInv => NativeTypeOK
  BY DEF NativeInv
<1>2. QED
  BY NativeInvariant, <1>1, PTL

\* Drained and queued packets of an open session are those its instance
\* emitted, in order (tgcall_native.cpp:335-368, 642-666).
THEOREM NativeInOrderNoLoss == NativeSpec => []InOrderNoLoss
<1>1. NativeInv => InOrderNoLoss
  BY DEF NativeInv
<1>2. QED
  BY NativeInvariant, <1>1, PTL

\* Every running instance is in the table (tgcall_native.cpp:542-585).
THEOREM NativeNoOrphan == NativeSpec => []NoOrphanInstance
<1>1. NativeInv => NoOrphanInstance
  BY DEF NativeInv, LifeInv
<1>2. QED
  BY NativeInvariant, <1>1, PTL

\* Every session that is not being started has a running instance
\* (DestroySession on each error path, tgcall_native.cpp:550-578).
THEOREM NativeNoHollow == NativeSpec => []NoHollowSession
<1>1. NativeInv => NoHollowSession
  BY DEF NativeInv, LifeInv
<1>2. QED
  BY NativeInvariant, <1>1, PTL

\* Between starts the table is the truth about the running instances
\* (tgcall_native.cpp:445-593, 704-750).
THEOREM NativeTableMatches == NativeSpec => []TableMatchesInstances
<1>1. NoOrphanInstance /\ NoHollowSession => TableMatchesInstances
  BY DEF TableMatchesInstances
<1>2. QED
  BY NativeNoOrphan, NativeNoHollow, <1>1, PTL

=============================================================================
