------------------------- MODULE CallEventBusProofs -------------------------
(***************************************************************************)
(* That a notification bootstrap left over from before a logout starts     *)
(* nothing, and that who listens receives the call events once and in the  *)
(* order they were produced: for any number of call events, subscriptions  *)
(* and logouts, and any size of the buffer.                                *)
(***************************************************************************)
EXTENDS CallEventBus, FiniteSetTheorems, SequenceTheorems, TLAPS

\* The generations are counted up, and an outstanding bootstrap belongs to
\* one there has been.
GenerationsCounted ==
  /\ bootstrapGeneration \in Nat
  /\ bootstraps \subseteq 0..bootstrapGeneration
  /\ DOMAIN subscriptionId = Subscribers

\* While the bootstrap of the present generation is outstanding the runtime
\* waits for it, and the publisher has not been started.
PresentBootstrapAwaited ==
  bootstrapGeneration \in bootstraps =>
    bootstrapStarted /\ ~notificationServiceStarted /\ subscriptionId["notifications"] = 0

\* Inductive strengthening of NoStalePublisher.
BusInv == GenerationsCounted /\ PresentBootstrapAwaited /\ NoStalePublisher

LEMMA BusInvInit == BusInit => BusInv
  BY DEF BusInit, BusInv, GenerationsCounted, PresentBootstrapAwaited, NoStalePublisher,
         Subscribers

\* A subscription concerns the subscriber alone.
LEMMA SubscribeOne ==
  ASSUME DOMAIN subscriptionId = Subscribers, NEW s \in Subscribers, Subscribe(s)
  PROVE  /\ DOMAIN subscriptionId' = Subscribers
         /\ s # "notifications" => subscriptionId'["notifications"] = subscriptionId["notifications"]
  BY DEF Subscribe, Subscribers

\* ensureStarted opens a bootstrap only when none was started, so the
\* publisher is not running.
LEMMA EnsureStartedStep ==
  ASSUME BusInv, ensureStarted
  PROVE  BusInv'
<1> USE DEF BusInv, GenerationsCounted
<1>1. DOMAIN subscriptionId' = Subscribers
      /\ subscriptionId'["notifications"] = subscriptionId["notifications"]
  <2>1. CASE subscriptionId["runtime"] = 0
    BY <2>1, SubscribeOne DEF ensureStarted, Subscribers
  <2>2. CASE subscriptionId["runtime"] # 0
    BY <2>2 DEF ensureStarted
  <2> QED BY <2>1, <2>2
<1>2. GenerationsCounted'
  <2>1. bootstraps' \subseteq bootstraps \cup {bootstrapGeneration}
        /\ bootstrapGeneration' = bootstrapGeneration
    BY DEF ensureStarted
  <2> QED BY <1>1, <2>1
<1>3. PresentBootstrapAwaited' /\ NoStalePublisher'
  BY <1>1 DEF ensureStarted, PresentBootstrapAwaited, NoStalePublisher
<1> QED BY <1>2, <1>3

\* Only the bootstrap of the present generation has an effect, and once.
LEMMA BootstrapResolvesStep ==
  ASSUME BusInv, NEW g, BootstrapResolves(g)
  PROVE  BusInv'
<1> USE DEF BusInv, GenerationsCounted
<1>1. CASE /\ g # bootstrapGeneration
           /\ UNCHANGED <<bootstrapStarted, notificationServiceStarted, subscriptionId>>
  BY <1>1 DEF BootstrapResolves, PresentBootstrapAwaited, NoStalePublisher
<1>2. CASE /\ g = bootstrapGeneration
           /\ Subscribe("notifications") /\ UNCHANGED bootstrapStarted
  <2>1. DOMAIN subscriptionId' = Subscribers
    BY <1>2, SubscribeOne DEF Subscribers
  <2>2. bootstrapStarted' /\ bootstrapGeneration' \notin bootstraps'
    BY <1>2 DEF BootstrapResolves, PresentBootstrapAwaited
  <2> QED
    BY <2>1, <2>2 DEF BootstrapResolves, PresentBootstrapAwaited, NoStalePublisher
<1>3. CASE /\ g = bootstrapGeneration
           /\ UNCHANGED <<notificationServiceStarted, subscriptionId>>
  BY <1>3 DEF BootstrapResolves, PresentBootstrapAwaited, NoStalePublisher
<1> QED BY <1>1, <1>2, <1>3 DEF BootstrapResolves

\* A logout opens a generation no bootstrap belongs to yet.
LEMMA ReleaseForLogoutStep ==
  ASSUME BusInv, releaseForLogout
  PROVE  BusInv'
<1> USE DEF BusInv, GenerationsCounted
<1>1. bootstrapGeneration' = bootstrapGeneration + 1 /\ bootstraps' = bootstraps
      /\ DOMAIN subscriptionId' = Subscribers /\ subscriptionId'["notifications"] = 0
      /\ notificationServiceStarted' = FALSE
  BY DEF releaseForLogout, Subscribers
<1>2. GenerationsCounted' /\ bootstrapGeneration' \notin bootstraps'
  BY <1>1
<1> QED BY <1>1, <1>2 DEF PresentBootstrapAwaited, NoStalePublisher

\* The ability and the screens subscribe for themselves.
LEMMA AttachDetachStep ==
  ASSUME BusInv, NEW s \in Subscribers, Attach(s) \/ Detach(s)
  PROVE  BusInv'
<1> USE DEF BusInv, GenerationsCounted
<1>1. DOMAIN subscriptionId' = Subscribers
      /\ subscriptionId'["notifications"] = subscriptionId["notifications"]
  BY SubscribeOne DEF Attach, Detach, Unsubscribe, Subscribers
<1>2. UNCHANGED runtimeVars
  BY DEF Attach, Detach
<1> QED BY <1>1, <1>2 DEF runtimeVars, PresentBootstrapAwaited, NoStalePublisher

LEMMA BusInvNext == BusInv /\ [BusNext]_busVars => BusInv'
<1> SUFFICES ASSUME BusInv, [BusNext]_busVars PROVE BusInv'
  OBVIOUS
<1>1. CASE EmitCallEvent \/ AuthorizationChanges \/ UNCHANGED busVars
  <2>1. UNCHANGED <<subscriptionId, runtimeVars>>
    BY <1>1 DEF EmitCallEvent, AuthorizationChanges, busVars
  <2> QED BY <2>1 DEF runtimeVars, BusInv, GenerationsCounted, PresentBootstrapAwaited,
                      NoStalePublisher
<1>2. CASE ensureStarted
  BY <1>2, EnsureStartedStep
<1>3. CASE \E g \in 0..MaxGenerations : BootstrapResolves(g)
  BY <1>3, BootstrapResolvesStep
<1>4. CASE releaseForLogout
  BY <1>4, ReleaseForLogoutStep
<1>5. CASE \E s \in Subscribers : Attach(s) \/ Detach(s)
  BY <1>5, AttachDetachStep
<1> QED BY <1>1, <1>2, <1>3, <1>4, <1>5 DEF BusNext

\* The notification publisher, and its subscription to call events, are there
\* only under a bootstrap of the present session: a bootstrap that resolves
\* after a logout, or after a logout and a new login, starts nothing
\* (NotificationRuntimeService's generation guard).
THEOREM NoStalePublisherAlways == BusSpec => []NoStalePublisher
<1>1. BusInv => NoStalePublisher
  BY DEF BusInv
<1> QED BY <1>1, BusInvInit, BusInvNext, PTL DEF BusSpec

-----------------------------------------------------------------------------
(* Deliveries.  An event reaches a subscriber once because the dispatcher  *)
(* has one entry of it at most, and in order because the buffer is flushed *)
(* before there is any entry.                                              *)

Flags == {ready, callListener, callBuffering, started, bootstrapStarted,
          notificationServiceStarted} \subseteq BOOLEAN
SourceTypes ==
  /\ pendingCallEvents \in Seq(1..MaxEvents)
  /\ Len(pendingCallEvents) <= MaxPendingCallEvents
  /\ nextSubscriptionId \in 1..MaxSubscriptions + 1
  /\ listeners \in Seq(Entries)
  /\ subscriptionId \in [Subscribers -> 0..MaxSubscriptions]
  /\ produced \in 0..MaxEvents
  /\ received \in [Subscribers -> Seq(1..MaxEvents)]
RuntimeTypes ==
  /\ bootstrapGeneration \in 0..MaxGenerations
  /\ bootstraps \subseteq 0..MaxGenerations

\* The dispatcher is TdClient's listener while it is started; nothing is
\* buffered for it then, and it has no entry otherwise.
ListenerIsDispatcher ==
  /\ callListener = started
  /\ started => pendingCallEvents = <<>>
  /\ ~started => listeners = <<>>

\* An entry is known to its owner, who has no other.
OneEach(entries) ==
  \A m, n \in DOMAIN entries : entries[m].owner = entries[n].owner => m = n
EntriesKnown ==
  /\ OneEach(listeners)
  /\ \A n \in DOMAIN listeners : listeners[n].id = subscriptionId[listeners[n].owner]

\* Ids are handed out once.
IdsDistinct ==
  /\ \A s \in Subscribers : subscriptionId[s] < nextSubscriptionId
  /\ \A s, t \in Subscribers :
       subscriptionId[s] = subscriptionId[t] /\ subscriptionId[s] # 0 => s = t

ReceivedProduced ==
  \A s \in Subscribers : \A m \in DOMAIN received[s] : received[s][m] <= produced

Delivery ==
  /\ SourceTypes /\ ListenerIsDispatcher /\ EntriesKnown /\ IdsDistinct
  /\ ReceivedProduced /\ ReceivedInOrder

\* The invariant of the whole bus.
BusIInv == BusInv /\ Flags /\ RuntimeTypes /\ Delivery

\* The bounds are numbers.
LEMMA BusBounds ==
  /\ MaxPendingCallEvents \in Nat \ {0} /\ MaxEvents \in Nat
  /\ MaxSubscriptions \in Nat /\ MaxGenerations \in Nat
  BY BusAssumption

\* Ids are numbers.
LEMMA IdTypes ==
  ASSUME SourceTypes
  PROVE  /\ nextSubscriptionId \in Nat \ {0}
         /\ \A t \in Subscribers : subscriptionId[t] \in Nat
  BY BusBounds DEF SourceTypes

LEMMA Elements ==
  ASSUME NEW S, NEW q \in Seq(S), NEW m \in DOMAIN q
  PROVE  q[m] \in S
  OBVIOUS

LEMMA TypesTogether == BusTypeOK <=> Flags /\ SourceTypes /\ RuntimeTypes
  BY DEF BusTypeOK, Flags, SourceTypes, RuntimeTypes

LEMMA FlagsInit == BusInit => Flags
  BY DEF BusInit, Flags

LEMMA FlagsNext == Flags /\ [BusNext]_busVars => Flags'
<1> SUFFICES ASSUME Flags, [BusNext]_busVars PROVE Flags'
  OBVIOUS
<1>1. ASSUME NEW s, Subscribe(s)
      PROVE  {callListener', callBuffering', started'} \subseteq BOOLEAN
  BY <1>1 DEF Flags, Subscribe, tdVars
<1>2. CASE EmitCallEvent
  BY <1>2 DEF Flags, EmitCallEvent, dispatcherVars, runtimeVars
<1>3. CASE ensureStarted
  BY <1>1, <1>3 DEF Flags, ensureStarted, tdVars, dispatcherVars
<1>4. ASSUME NEW g, BootstrapResolves(g) PROVE Flags'
  BY <1>1, <1>4 DEF Flags, BootstrapResolves, tdVars, dispatcherVars
<1>5. CASE releaseForLogout
  BY <1>5 DEF Flags, releaseForLogout, tdVars
<1>6. ASSUME NEW s, Attach(s) \/ Detach(s) PROVE Flags'
  BY <1>1, <1>6 DEF Flags, Attach, Detach, tdVars, runtimeVars
<1>7. CASE AuthorizationChanges
  BY <1>7 DEF Flags, AuthorizationChanges, tdVars, dispatcherVars, runtimeVars
<1>8. CASE UNCHANGED busVars
  BY <1>8 DEF Flags, busVars, tdVars, dispatcherVars, runtimeVars
<1> QED BY <1>2, <1>3, <1>4, <1>5, <1>6, <1>7, <1>8 DEF BusNext

LEMMA DeliveryInit == BusInit => RuntimeTypes /\ Delivery
<1> SUFFICES ASSUME BusInit PROVE RuntimeTypes /\ Delivery
  OBVIOUS
<1>1. <<>> \in Seq(1..MaxEvents) /\ <<>> \in Seq(Entries) /\ Len(<<>>) = 0 /\ DOMAIN <<>> = {}
  BY EmptySeq
<1>2. SourceTypes
  <2>1. subscriptionId \in [Subscribers -> 0..MaxSubscriptions]
    BY BusBounds DEF BusInit
  <2>2. received \in [Subscribers -> Seq(1..MaxEvents)]
    BY <1>1 DEF BusInit
  <2> QED BY <1>1, <2>1, <2>2, BusBounds DEF BusInit, SourceTypes
<1>3. RuntimeTypes
  BY BusBounds DEF BusInit, RuntimeTypes
<1>4. ListenerIsDispatcher
  BY DEF BusInit, ListenerIsDispatcher
<1>5. EntriesKnown
  BY <1>1 DEF BusInit, EntriesKnown, OneEach
<1>6. IdsDistinct
  BY DEF BusInit, IdsDistinct
<1>7. ReceivedProduced /\ ReceivedInOrder
  BY <1>1 DEF BusInit, ReceivedProduced, ReceivedInOrder
<1> QED BY <1>2, <1>3, <1>4, <1>5, <1>6, <1>7 DEF Delivery

\* Each subscriber with an entry is called once.
LEMMA DispatchedOnce ==
  ASSUME received \in [Subscribers -> Seq(1..MaxEvents)], NEW entries \in Seq(Entries),
         OneEach(entries), NEW e \in 1..MaxEvents, NEW s \in Subscribers
  PROVE  Dispatched(<<e>>, entries)[s] =
           IF \E n \in DOMAIN entries : entries[n].owner = s THEN Append(received[s], e)
           ELSE received[s]
<1> DEFINE at == {n \in DOMAIN entries : entries[n].owner = s}
           calls(n) == [k \in 1..Len(<<e>>) * n |-> <<e>>[(k - 1) \div n + 1]]
<1>1. Dispatched(<<e>>, entries)[s] = received[s] \o calls(Cardinality(at))
  BY DEF Dispatched, EntriesOf
<1>2. received[s] \in Seq(1..MaxEvents)
  OBVIOUS
<1>3. CASE at = {}
  <2>1. Cardinality(at) = 0
    BY <1>3, FS_EmptySet
  <2>2. calls(0) = <<>>
    BY Len(<<e>>) = 1
  <2>3. received[s] \o <<>> = received[s]
    BY <1>2, ConcatEmptySeq
  <2> QED BY <1>1, <1>3, <2>1, <2>2, <2>3
<1>4. CASE at # {}
  <2>1. PICK n \in DOMAIN entries : entries[n].owner = s
    BY <1>4
  <2>2. at = {n}
    BY <2>1 DEF OneEach
  <2>3. Cardinality(at) = 1
    BY <2>2, FS_Singleton
  <2>4. calls(1) = <<e>>
    <3>1. Len(<<e>>) * 1 = 1 /\ <<e>>[1] = e
      OBVIOUS
    <3>2. \A k \in 1..1 : (k - 1) \div 1 + 1 = 1
      OBVIOUS
    <3>3. calls(1) = [k \in 1..1 |-> e]
      BY <3>1, <3>2
    <3> QED BY <3>3
  <2>5. Append(received[s], e) = received[s] \o <<e>>
    BY <1>2, AppendIsConcat
  <2> QED BY <1>1, <2>1, <2>3, <2>4, <2>5
<1> QED BY <1>3, <1>4

\* Nobody is called when there is no entry.
LEMMA DispatchedToNone ==
  ASSUME received \in [Subscribers -> Seq(1..MaxEvents)], NEW events \in Seq(1..MaxEvents)
  PROVE  Dispatched(events, <<>>) = received
<1>1. ASSUME NEW s \in Subscribers PROVE Dispatched(events, <<>>)[s] = received[s]
  <2>1. EntriesOf(s, <<>>) = 0
    BY FS_EmptySet DEF EntriesOf
  <2>2. Len(events) \in Nat /\ Len(events) * 0 = 0
    BY LenProperties
  <2>3. [k \in 1..Len(events) * 0 |-> events[(k - 1) \div 0 + 1]] = <<>>
    BY <2>2
  <2>4. received[s] \o <<>> = received[s]
    BY ConcatEmptySeq
  <2> QED BY <2>1, <2>3, <2>4 DEF Dispatched
<1> QED BY <1>1 DEF Dispatched

\* An entry more, or one less, or none: of those that stay nothing changes.
LEMMA SubscribeDelivers ==
  ASSUME Delivery, NEW s \in Subscribers, Subscribe(s), subscriptionId[s] = 0,
         UNCHANGED produced
  PROVE  Delivery'
<1> DEFINE e == [id |-> nextSubscriptionId, owner |-> s]
<1> USE DEF Delivery
<1>1. e \in Entries /\ nextSubscriptionId \in 1..MaxSubscriptions
  BY BusBounds DEF SourceTypes, Subscribe, Entries
<1>2. received' = received /\ pendingCallEvents' = <<>> 
      /\ callListener' = TRUE /\ started' = TRUE
  <2>1. CASE started
    BY <2>1 DEF Subscribe, tdVars, ListenerIsDispatcher, SourceTypes
  <2>2. CASE ~started
    BY <2>2, DispatchedToNone DEF Subscribe, ListenerIsDispatcher, SourceTypes
  <2> QED BY <2>1, <2>2
<1>3. /\ listeners' = Append(listeners, e) /\ nextSubscriptionId' = nextSubscriptionId + 1
      /\ subscriptionId' = [subscriptionId EXCEPT ![s] = nextSubscriptionId]
  BY DEF Subscribe
<1>4. /\ listeners' \in Seq(Entries) /\ DOMAIN listeners = 1..Len(listeners)
      /\ Len(listeners) \in Nat /\ DOMAIN listeners' = 1..Len(listeners) + 1
      /\ \A n \in DOMAIN listeners : listeners'[n] = listeners[n]
      /\ listeners'[Len(listeners) + 1] = e
  <2>1. listeners \in Seq(Entries)
    BY DEF SourceTypes
  <2> QED BY <1>1, <1>3, <2>1, AppendProperties, LenProperties
<1>5. SourceTypes'
  <2>1. <<>> \in Seq(1..MaxEvents) /\ Len(<<>>) = 0
    BY EmptySeq
  <2> QED BY <1>1, <1>2, <1>3, <1>4, <2>1, BusBounds DEF SourceTypes
<1>6. \A n \in DOMAIN listeners : listeners[n].owner # s /\ listeners[n].owner \in Subscribers
  <2>1. \A n \in DOMAIN listeners : listeners[n] \in Entries
    BY DEF SourceTypes
  <2> QED BY <2>1 DEF EntriesKnown, Entries
<1>7. EntriesKnown'
  <2>1. subscriptionId'[s] = nextSubscriptionId
        /\ \A t \in Subscribers : t # s => subscriptionId'[t] = subscriptionId[t]
    BY <1>3 DEF SourceTypes
  <2> HIDE DEF e
  <2>2. e.owner = s /\ e.id = nextSubscriptionId
    BY DEF e
  <2> QED BY <1>4, <1>6, <2>1, <2>2 DEF EntriesKnown, OneEach
<1>8. IdsDistinct'
  BY <1>1, <1>3 DEF IdsDistinct, SourceTypes
<1>9. ListenerIsDispatcher'
  BY <1>2 DEF ListenerIsDispatcher
<1>10. ReceivedProduced' /\ ReceivedInOrder'
  BY <1>2 DEF ReceivedProduced, ReceivedInOrder
<1> QED BY <1>5, <1>7, <1>8, <1>9, <1>10

LEMMA UnsubscribeDelivers ==
  ASSUME Delivery, NEW s \in Subscribers, Unsubscribe(s), subscriptionId[s] # 0,
         UNCHANGED <<tdVars, started, nextSubscriptionId, historyVars>>
  PROVE  Delivery'
<1> USE DEF Delivery
<1>1. /\ listeners \in Seq(Entries) /\ DOMAIN listeners = 1..Len(listeners)
      /\ Len(listeners) \in Nat
      /\ subscriptionId' = [subscriptionId EXCEPT ![s] = 0]
      /\ \A n \in DOMAIN listeners : listeners[n].owner \in Subscribers
  <2>1. listeners \in Seq(Entries)
    BY DEF SourceTypes
  <2>2. \A n \in DOMAIN listeners : listeners[n] \in Entries
    BY <2>1
  <2>3. DOMAIN listeners = 1..Len(listeners) /\ Len(listeners) \in Nat
    BY <2>1, LenProperties
  <2> QED BY <2>1, <2>2, <2>3 DEF Unsubscribe, Entries
<1>2. subscriptionId'[s] = 0 /\ subscriptionId' \in [Subscribers -> 0..MaxSubscriptions]
      /\ \A t \in Subscribers : t # s => subscriptionId'[t] = subscriptionId[t]
  BY <1>1, BusBounds DEF SourceTypes
<1> DEFINE at == {n \in DOMAIN listeners : listeners[n].id = subscriptionId[s]}
<1>3. \A n \in DOMAIN listeners : n \in at <=> listeners[n].owner = s
  BY <1>1 DEF EntriesKnown, IdsDistinct
<1>4. /\ listeners' \in Seq(Entries) /\ EntriesKnown'
      /\ ~started => listeners' = <<>>
  <2>1. CASE at = {}
    <3>1. listeners' = listeners
      BY <2>1 DEF Unsubscribe, Without
    <3> QED BY <1>1, <1>2, <1>3, <2>1, <3>1 DEF EntriesKnown, OneEach, ListenerIsDispatcher
  <2>2. CASE at # {}
    <3> DEFINE k == CHOOSE n \in at : TRUE
    <3>1. k \in DOMAIN listeners /\ k \in at
      BY <2>2
    <3>2. listeners' = SubSeq(listeners, 1, k - 1) \o SubSeq(listeners, k + 1, Len(listeners))
      BY <2>2 DEF Unsubscribe, Without, RemoveAt
    <3> HIDE DEF k
    <3> DEFINE a == SubSeq(listeners, 1, k - 1)
               b == SubSeq(listeners, k + 1, Len(listeners))
    <3>3. /\ a \in Seq(Entries) /\ Len(a) = k - 1
          /\ \A i \in 1..(k - 1) : a[i] = listeners[i]
      <4>1. \A i \in 1..(k - 1) : listeners[i] \in Entries
        BY <1>1, <3>1, ElementOfSeq
      <4> QED BY <1>1, <3>1, <4>1, SubSeqProperties
    <3>4. /\ b \in Seq(Entries) /\ Len(b) = Len(listeners) - k
          /\ \A i \in 1..(Len(listeners) - k) : b[i] = listeners[k + i]
      <4>1. \A i \in (k + 1)..Len(listeners) : listeners[i] \in Entries
        BY <1>1, <3>1, ElementOfSeq
      <4> QED BY SMTT(30), <1>1, <3>1, <4>1, SubSeqProperties
    <3> HIDE DEF a, b
    <3>5. /\ listeners' \in Seq(Entries) /\ DOMAIN listeners' = 1..Len(listeners) - 1
          /\ \A i \in DOMAIN listeners' :
               listeners'[i] = listeners[IF i < k THEN i ELSE i + 1]
      <4>1. listeners' = a \o b
        BY <3>2 DEF a, b
      <4>2. /\ a \o b \in Seq(Entries) /\ Len(a \o b) = Len(a) + Len(b)
            /\ \A i \in 1..Len(a) + Len(b) :
                 (a \o b)[i] = IF i <= Len(a) THEN a[i] ELSE b[i - Len(a)]
        BY <3>3, <3>4, ConcatProperties
      <4>3. DOMAIN listeners' = 1..Len(listeners) - 1
        <5>1. listeners' \in Seq(Entries) /\ Len(listeners') = Len(a) + Len(b)
          BY <4>1, <4>2
        <5>2. Len(a) + Len(b) = Len(listeners) - 1
          BY <1>1, <3>1, <3>3, <3>4
        <5> QED BY <5>1, <5>2, LenProperties
      <4>4. ASSUME NEW i \in 1..Len(listeners) - 1
            PROVE  (a \o b)[i] = listeners[IF i < k THEN i ELSE i + 1]
        <5>1. k \in 1..Len(listeners) /\ Len(a) + Len(b) = Len(listeners) - 1
          BY <1>1, <3>1, <3>3, <3>4
        <5>2. CASE i < k
          BY <1>1, <3>3, <4>2, <5>1, <5>2
        <5>3. CASE ~(i < k)
          <6>1. i - Len(a) \in 1..Len(listeners) - k /\ k + (i - Len(a)) = i + 1
                /\ ~(i <= Len(a)) /\ i \in 1..Len(a) + Len(b)
            BY <1>1, <3>3, <5>1, <5>3
          <6>2. (a \o b)[i] = b[i - Len(a)]
            BY <4>2, <6>1
          <6> QED BY <3>4, <5>3, <6>1, <6>2
        <5> QED BY <5>2, <5>3
      <4> QED BY <4>1, <4>2, <4>3, <4>4
    <3>6. \A i \in DOMAIN listeners' : LET j == IF i < k THEN i ELSE i + 1
                                       IN j \in DOMAIN listeners /\ j # k
      BY <1>1, <3>1, <3>5
    <3>7. \A i \in DOMAIN listeners : i # k => listeners[i].owner # s
      BY <1>3, <3>1 DEF EntriesKnown, OneEach
    <3>8. \A i \in DOMAIN listeners' :
            listeners'[i].id = subscriptionId'[listeners'[i].owner]
      BY <1>1, <1>2, <3>5, <3>6, <3>7 DEF EntriesKnown
    <3>9. OneEach(listeners')
      BY <1>1, <3>1, <3>5, <3>6 DEF EntriesKnown, OneEach
    <3>10. started
      BY <1>1, <3>1 DEF ListenerIsDispatcher
    <3> QED BY <3>5, <3>8, <3>9, <3>10 DEF EntriesKnown
  <2> QED BY <2>1, <2>2
<1>5. SourceTypes' /\ ListenerIsDispatcher'
  BY <1>2, <1>4 DEF SourceTypes, ListenerIsDispatcher, tdVars, historyVars
<1>6. IdsDistinct'
  BY <1>2, IdTypes DEF IdsDistinct
<1>7. ReceivedProduced' /\ ReceivedInOrder'
  BY DEF ReceivedProduced, ReceivedInOrder, historyVars
<1> QED BY <1>4, <1>5, <1>6, <1>7

\* An update either is buffered or reaches each entry at once.
LEMMA EmitDelivers ==
  ASSUME Delivery, EmitCallEvent
  PROVE  /\ Delivery'
         /\ Listening("runtime") =>
              received'["runtime"] = Append(received["runtime"], produced')
<1> USE DEF Delivery
<1> DEFINE e == produced + 1
<1>1. /\ e \in 1..MaxEvents /\ produced' = e /\ produced \in Nat /\ e > produced
      /\ UNCHANGED <<callListener, callBuffering, dispatcherVars, subscriptionId>>
  BY BusBounds DEF EmitCallEvent, SourceTypes
<1>2. /\ received \in [Subscribers -> Seq(1..MaxEvents)] /\ listeners \in Seq(Entries)
      /\ pendingCallEvents \in Seq(1..MaxEvents) /\ OneEach(listeners)
  BY DEF SourceTypes, EntriesKnown
<1> HIDE DEF e
<1>3. CASE callListener
  <2>1. received' = Dispatched(<<e>>, listeners) /\ UNCHANGED pendingCallEvents
    BY <1>3 DEF EmitCallEvent, e
  <2>2. \A s \in Subscribers :
          received'[s] = IF \E n \in DOMAIN listeners : listeners[n].owner = s
                         THEN Append(received[s], e) ELSE received[s]
    BY <1>1, <1>2, <2>1, DispatchedOnce
  <2>3. ASSUME NEW s \in Subscribers
        PROVE  /\ Append(received[s], e) \in Seq(1..MaxEvents)
               /\ DOMAIN received[s] = 1..Len(received[s]) /\ Len(received[s]) \in Nat
               /\ DOMAIN Append(received[s], e) = 1..Len(received[s]) + 1
               /\ \A m \in DOMAIN received[s] : Append(received[s], e)[m] = received[s][m]
               /\ Append(received[s], e)[Len(received[s]) + 1] = e
    <3>1. received[s] \in Seq(1..MaxEvents)
      BY <1>2
    <3> QED BY <1>1, <3>1, AppendProperties, LenProperties
  <2>4. received' \in [Subscribers -> Seq(1..MaxEvents)]
    <3>1. received' = [s \in Subscribers |-> received'[s]]
      BY <2>1 DEF Dispatched
    <3>2. \A s \in Subscribers : received'[s] \in Seq(1..MaxEvents)
      <4> TAKE s \in Subscribers
      <4>1. received[s] \in Seq(1..MaxEvents) /\ Append(received[s], e) \in Seq(1..MaxEvents)
        BY <1>2, <2>3
      <4>2. received'[s] = Append(received[s], e) \/ received'[s] = received[s]
        BY <2>2
      <4> QED BY <4>1, <4>2
    <3> QED BY <3>1, <3>2
  <2>5. SourceTypes'
    <3>1. produced' \in 0..MaxEvents
      BY <1>1, BusBounds
    <3> QED BY <1>1, <2>1, <2>4, <3>1 DEF SourceTypes, dispatcherVars
  <2>6. \A s \in Subscribers : \A m \in DOMAIN received[s] : received[s][m] <= produced
                                                             /\ received[s][m] \in Nat
    <3>1. \A s \in Subscribers : received[s] \in Seq(1..MaxEvents)
      BY <1>2
    <3>2. ASSUME NEW s \in Subscribers, NEW m \in DOMAIN received[s]
          PROVE  received[s][m] \in 1..MaxEvents
      <4>1. received[s] \in Seq(1..MaxEvents)
        BY <3>1
      <4> QED BY <4>1, Elements
    <3> QED BY <3>2, BusBounds DEF ReceivedProduced
  <2>7. ASSUME NEW s \in Subscribers
        PROVE  /\ \A m \in DOMAIN received'[s] : received'[s][m] <= produced'
               /\ \A m, n \in DOMAIN received'[s] : m < n => received'[s][m] < received'[s][n]
    <3>1. CASE received'[s] = received[s]
      BY <1>1, <2>6, <3>1 DEF ReceivedInOrder
    <3>2. CASE received'[s] = Append(received[s], e)
      BY <1>1, <2>3, <2>6, <3>2 DEF ReceivedInOrder
    <3> QED BY <2>2, <3>1, <3>2
  <2>8. ReceivedProduced' /\ ReceivedInOrder'
    BY <2>7 DEF ReceivedProduced, ReceivedInOrder
  <2>9. ListenerIsDispatcher' /\ EntriesKnown' /\ IdsDistinct'
    BY <1>1, <2>1 DEF ListenerIsDispatcher, EntriesKnown, OneEach, IdsDistinct, dispatcherVars
  <2>10. ASSUME Listening("runtime")
         PROVE  received'["runtime"] = Append(received["runtime"], produced')
    <3>1. \E n \in DOMAIN listeners : listeners[n].owner = "runtime"
      BY <2>10 DEF Listening, EntrySet
    <3> QED BY <1>1, <2>2, <3>1 DEF Subscribers
  <2> QED BY <2>5, <2>8, <2>9, <2>10
<1>4. CASE ~callListener
  <2> DEFINE queued == Append(pendingCallEvents, e)
  <2>1. received' = received
        /\ pendingCallEvents' = IF ~callBuffering THEN pendingCallEvents
                                ELSE IF Len(queued) > MaxPendingCallEvents THEN Tail(queued)
                                ELSE queued
    BY <1>4 DEF EmitCallEvent, e
  <2>2. /\ queued \in Seq(1..MaxEvents) /\ queued # <<>>
        /\ Len(queued) = Len(pendingCallEvents) + 1 /\ Len(pendingCallEvents) \in Nat
    BY <1>1, <1>2, AppendProperties, LenProperties
  <2>3. Tail(queued) \in Seq(1..MaxEvents) /\ Len(Tail(queued)) = Len(queued) - 1
    BY <2>2, HeadTailProperties
  <2> HIDE DEF queued
  <2>4. pendingCallEvents' \in Seq(1..MaxEvents)
        /\ Len(pendingCallEvents') <= MaxPendingCallEvents
    <3>1. Len(pendingCallEvents) <= MaxPendingCallEvents /\ MaxPendingCallEvents \in Nat
      BY BusBounds DEF SourceTypes
    <3>2. CASE ~callBuffering
      BY <1>2, <2>1, <3>1, <3>2
    <3>3. CASE callBuffering /\ Len(queued) > MaxPendingCallEvents
      BY <2>1, <2>2, <2>3, <3>1, <3>3
    <3>4. CASE callBuffering /\ ~(Len(queued) > MaxPendingCallEvents)
      BY <2>1, <2>2, <3>1, <3>4
    <3> QED BY <3>2, <3>3, <3>4
  <2>5. SourceTypes'
    <3>1. produced' \in 0..MaxEvents
      BY <1>1, BusBounds
    <3> QED BY <1>1, <2>1, <2>4, <3>1 DEF SourceTypes, dispatcherVars
  <2>6. ListenerIsDispatcher' /\ EntriesKnown' /\ IdsDistinct' /\ listeners = <<>>
    BY <1>1, <1>4 DEF ListenerIsDispatcher, EntriesKnown, OneEach, IdsDistinct, dispatcherVars
  <2>7. \A s \in Subscribers : \A m \in DOMAIN received[s] : received[s][m] \in Nat
    <3>1. \A s \in Subscribers : received[s] \in Seq(1..MaxEvents)
      BY <1>2
    <3>2. ASSUME NEW s \in Subscribers, NEW m \in DOMAIN received[s]
          PROVE  received[s][m] \in 1..MaxEvents
      <4>1. received[s] \in Seq(1..MaxEvents)
        BY <3>1
      <4> QED BY <4>1, Elements
    <3> QED BY <3>2, BusBounds
  <2>8. ReceivedProduced' /\ ReceivedInOrder'
    BY <1>1, <2>1, <2>7 DEF ReceivedProduced, ReceivedInOrder
  <2>9. ~Listening("runtime")
    BY <2>6 DEF Listening, EntrySet
  <2> QED BY <2>5, <2>6, <2>8, <2>9
<1> QED BY <1>3, <1>4

LEMMA DeliveryNext ==
  ASSUME BusIInv, [BusNext]_busVars
  PROVE  /\ RuntimeTypes' /\ Delivery'
         /\ produced' # produced /\ Listening("runtime") =>
              received'["runtime"] = Append(received["runtime"], produced')
<1> USE DEF BusIInv
<1>1. ASSUME UNCHANGED <<tdVars, dispatcherVars, subscriptionId, historyVars>>
      PROVE  Delivery' /\ produced' = produced
  BY <1>1 DEF Delivery, SourceTypes, ListenerIsDispatcher, EntriesKnown, OneEach, IdsDistinct,
              ReceivedProduced, ReceivedInOrder, tdVars, dispatcherVars, historyVars
<1>2. CASE EmitCallEvent
  <2>1. RuntimeTypes'
    BY <1>2 DEF EmitCallEvent, RuntimeTypes, runtimeVars
  <2> QED BY <1>2, <2>1, EmitDelivers
<1>3. CASE ensureStarted
  <2>1. RuntimeTypes' /\ produced' = produced
    BY <1>3 DEF ensureStarted, RuntimeTypes
  <2>2. CASE subscriptionId["runtime"] = 0
    BY <1>3, <2>1, <2>2, SubscribeDelivers DEF ensureStarted, Subscribers
  <2>3. CASE subscriptionId["runtime"] # 0
    BY <1>1, <1>3, <2>1, <2>3 DEF ensureStarted, historyVars
  <2> QED BY <2>1, <2>2, <2>3
<1>4. ASSUME NEW g, BootstrapResolves(g)
      PROVE  RuntimeTypes' /\ Delivery' /\ produced' = produced
  <2>1. RuntimeTypes' /\ produced' = produced
    BY <1>4 DEF BootstrapResolves, RuntimeTypes
  <2>2. CASE g = bootstrapGeneration /\ Subscribe("notifications")
    <3>1. subscriptionId["notifications"] = 0
      BY <1>4, <2>2 DEF BootstrapResolves, BusInv, PresentBootstrapAwaited
    <3> QED BY <2>1, <2>2, <3>1, SubscribeDelivers DEF Subscribers
  <2>3. CASE UNCHANGED <<tdVars, dispatcherVars, subscriptionId, received>>
    BY <1>1, <2>1, <2>3 DEF historyVars
  <2> QED BY <1>4, <2>1, <2>2, <2>3 DEF BootstrapResolves
<1>5. CASE releaseForLogout
  <2>1. RuntimeTypes'
    BY <1>5, BusBounds DEF releaseForLogout, RuntimeTypes
  <2>2. /\ listeners' = <<>> /\ started' = FALSE /\ callListener' = FALSE
        /\ UNCHANGED <<nextSubscriptionId, produced, received>>
        /\ subscriptionId' = [subscriptionId EXCEPT !["runtime"] = 0, !["notifications"] = 0]
        /\ pendingCallEvents' \in Seq(1..MaxEvents)
        /\ Len(pendingCallEvents') <= MaxPendingCallEvents
    <3>1. <<>> \in Seq(1..MaxEvents) /\ Len(<<>>) = 0
      BY EmptySeq
    <3> QED BY <1>5, <3>1, BusBounds
            DEF releaseForLogout, Delivery, SourceTypes, ListenerIsDispatcher, tdVars, historyVars
  <2>3. /\ <<>> \in Seq(Entries) /\ DOMAIN <<>> = {}
    BY EmptySeq
  <2>4. SourceTypes'
    <3>1. subscriptionId' \in [Subscribers -> 0..MaxSubscriptions]
      <4>1. 0 \in 0..MaxSubscriptions /\ subscriptionId \in [Subscribers -> 0..MaxSubscriptions]
        BY BusBounds DEF Delivery, SourceTypes
      <4> QED BY <2>2, <4>1
    <3> QED BY <2>2, <2>3, <3>1 DEF Delivery, SourceTypes
  <2>5. ListenerIsDispatcher' /\ EntriesKnown'
    BY <2>2, <2>3 DEF ListenerIsDispatcher, EntriesKnown, OneEach
  <2>6. IdsDistinct'
    <3>1. \A t \in Subscribers :
            subscriptionId'[t] = IF t \in {"runtime", "notifications"} THEN 0 ELSE subscriptionId[t]
      BY <2>2 DEF Delivery, SourceTypes
    <3>2. nextSubscriptionId \in Nat \ {0} /\ \A t \in Subscribers : subscriptionId[t] \in Nat
      BY IdTypes DEF Delivery
    <3>3. \A t \in Subscribers : subscriptionId'[t] < nextSubscriptionId'
      <4> TAKE t \in Subscribers
      <4>1. subscriptionId[t] < nextSubscriptionId /\ nextSubscriptionId' = nextSubscriptionId
        BY <2>2 DEF Delivery, IdsDistinct
      <4>2. subscriptionId'[t] = 0 \/ subscriptionId'[t] = subscriptionId[t]
        BY <3>1
      <4> QED BY <3>2, <4>1, <4>2
    <3>4. \A t, u \in Subscribers :
            subscriptionId'[t] = subscriptionId'[u] /\ subscriptionId'[t] # 0 => t = u
      BY <3>1 DEF Delivery, IdsDistinct
    <3> QED BY <3>3, <3>4 DEF IdsDistinct
  <2>7. ReceivedProduced' /\ ReceivedInOrder'
    BY <2>2 DEF Delivery, ReceivedProduced, ReceivedInOrder
  <2> QED BY <2>1, <2>2, <2>4, <2>5, <2>6, <2>7 DEF Delivery
<1>6. ASSUME NEW s \in Subscribers, Attach(s) \/ Detach(s)
      PROVE  RuntimeTypes' /\ Delivery' /\ produced' = produced
  <2>1. RuntimeTypes' /\ produced' = produced
    BY <1>6 DEF Attach, Detach, RuntimeTypes, runtimeVars, historyVars
  <2> QED BY <1>6, <2>1, SubscribeDelivers, UnsubscribeDelivers DEF Attach, Detach
<1>7. CASE AuthorizationChanges \/ UNCHANGED busVars
  <2>1. RuntimeTypes'
    BY <1>7 DEF AuthorizationChanges, busVars, RuntimeTypes, runtimeVars
  <2> QED BY <1>1, <1>7, <2>1 DEF AuthorizationChanges, busVars
<1> QED BY <1>2, <1>3, <1>4, <1>5, <1>6, <1>7 DEF BusNext

LEMMA BusInvariant == BusSpec => []BusIInv
<1>1. BusInit => BusIInv
  BY BusInvInit, FlagsInit, DeliveryInit DEF BusIInv
<1>2. BusIInv /\ [BusNext]_busVars => BusIInv'
  BY BusInvNext, FlagsNext, DeliveryNext DEF BusIInv
<1> QED BY <1>1, <1>2, PTL DEF BusSpec

\* Type correctness, for every size of the buffer and every bound: in
\* particular TdClient never buffers more than MAX_PENDING_CALL_EVENTS.
THEOREM BusTypeCorrect == BusSpec => []BusTypeOK
<1>1. BusIInv => BusTypeOK
  BY TypesTogether DEF BusIInv, Delivery
<1> QED BY <1>1, BusInvariant, PTL

\* Who listens gets the events, each once and in TDLib's order, across
\* logouts and logins (TdCallEventDispatcher, and TdClient's emitCallEvent
\* and setCallListener): an event produced while the call runtime is
\* subscribed is the next it receives.
THEOREM EventsAlwaysInOrder == BusSpec => DeliveredInOrder
<1>1. BusIInv => ReceivedInOrder
  BY DEF BusIInv, Delivery
<1>2. BusIInv /\ [BusNext]_busVars =>
        [produced' # produced /\ Listening("runtime") =>
           received'["runtime"] = Append(received["runtime"], produced')]_busVars
  BY DeliveryNext
<1> QED BY <1>1, <1>2, BusInvariant, PTL DEF BusSpec, DeliveredInOrder, RuntimeMissesNothing

=============================================================================
