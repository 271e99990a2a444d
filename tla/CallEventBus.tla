---------------------------- MODULE CallEventBus ----------------------------
(***************************************************************************)
(* How TDLib call events reach their consumers, across login, logout and   *)
(* login again:                                                            *)
(*   TdClient.emitCallEvent / setCallListener    one listener, or a bounded*)
(*                                               buffer while there is none*)
(*   TdCallEventDispatcher                       the listener: a list of   *)
(*                                               subscriptions             *)
(*   CallRuntimeService, TdNotificationsService, EntryAbility (auto-open)  *)
(*   and CallScreenViewModel                     the subscribers           *)
(*   NotificationRuntimeService                  starts and releases them  *)
(* Everything runs on the JS thread; what interleaves is the order of      *)
(* TDLib updates, page and ability callbacks, and the asynchronous         *)
(* notification bootstrap.                                                 *)
(***************************************************************************)
EXTENDS Naturals, Sequences, FiniteSets, SequencesExt

CONSTANTS
  MaxPendingCallEvents,  \* MAX_PENDING_CALL_EVENTS, scaled down
  MaxEvents,             \* bound: call events TDLib produces
  MaxSubscriptions,      \* bound: subscription ids handed out
  MaxGenerations         \* bound: logouts

ASSUME BusAssumption ==
  /\ MaxPendingCallEvents \in Nat \ {0}
  /\ {MaxEvents, MaxSubscriptions, MaxGenerations} \subseteq Nat

Subscribers == {"runtime", "notifications", "autoOpen", "screen"}

VARIABLES
  ready,             \* authorizationStateReady
  callListener,      \* TdClient: the dispatcher's closure is installed
  callBuffering,     \* TdClient.callBufferingEnabled
  pendingCallEvents, \* TdClient's buffer
  started,           \* TdCallEventDispatcher
  nextSubscriptionId,
  listeners,         \* its entries, in order of subscription
  subscriptionId,    \* the id each subscriber believes it holds, or 0
  bootstrapStarted,  \* NotificationRuntimeService
  notificationServiceStarted,
  bootstrapGeneration,
  bootstraps,        \* generations whose ensureReady has not resolved
  produced,          \* history: call events TDLib has produced
  received           \* history: what each subscriber was called with

tdVars == <<callListener, callBuffering, pendingCallEvents>>
dispatcherVars == <<started, nextSubscriptionId, listeners>>
runtimeVars == <<bootstrapStarted, notificationServiceStarted,
                 bootstrapGeneration, bootstraps>>
historyVars == <<produced, received>>
busVars == <<ready, tdVars, dispatcherVars, subscriptionId, runtimeVars,
             historyVars>>

Entries == [id : 1..MaxSubscriptions, owner : Subscribers]

BusTypeOK ==
  /\ {ready, callListener, callBuffering, started, bootstrapStarted,
      notificationServiceStarted} \subseteq BOOLEAN
  /\ pendingCallEvents \in Seq(1..MaxEvents)
  /\ Len(pendingCallEvents) <= MaxPendingCallEvents
  /\ nextSubscriptionId \in 1..MaxSubscriptions + 1
  /\ listeners \in Seq(Entries)
  /\ subscriptionId \in [Subscribers -> 0..MaxSubscriptions]
  /\ bootstrapGeneration \in 0..MaxGenerations
  /\ bootstraps \subseteq 0..MaxGenerations
  /\ produced \in 0..MaxEvents
  /\ received \in [Subscribers -> Seq(1..MaxEvents)]

BusInit ==
  /\ ready = FALSE
  /\ callListener = FALSE /\ callBuffering = TRUE /\ pendingCallEvents = <<>>
  /\ started = FALSE /\ nextSubscriptionId = 1 /\ listeners = <<>>
  /\ subscriptionId = [s \in Subscribers |-> 0]
  /\ bootstrapStarted = FALSE /\ notificationServiceStarted = FALSE
  /\ bootstrapGeneration = 0 /\ bootstraps = {}
  /\ produced = 0 /\ received = [s \in Subscribers |-> <<>>]

EntrySet == {listeners[n] : n \in DOMAIN listeners}

-----------------------------------------------------------------------------
(* The dispatcher and TdClient's buffer.                                   *)

EntriesOf(s, entries) ==
  Cardinality({n \in DOMAIN entries : entries[n].owner = s})

\* Mutant: only the first entry is called.
DispatchedFirstOnly(events, entries) ==
  [s \in Subscribers |->
     IF entries # <<>> /\ Head(entries).owner = s THEN received[s] \o events
     ELSE received[s]]

\* dispatch, for a run of events: each is given to every current entry.
Dispatched(events, entries) ==
  [s \in Subscribers |->
     LET n == EntriesOf(s, entries)
     IN received[s] \o [k \in 1..Len(events) * n |-> events[(k - 1) \div n + 1]]]

\* subscribe: start() first, which installs the listener, which flushes the
\* buffer through dispatch to the entries there are; the new entry comes
\* after that.
Subscribe(s) ==
  /\ nextSubscriptionId <= MaxSubscriptions
  /\ started' = TRUE
  /\ IF started THEN UNCHANGED <<tdVars, received>>
     ELSE /\ callListener' = TRUE
          /\ callBuffering' = TRUE
          /\ pendingCallEvents' = <<>>
          /\ received' = Dispatched(pendingCallEvents, listeners)
  /\ listeners' = Append(listeners, [id |-> nextSubscriptionId, owner |-> s])
  /\ subscriptionId' = [subscriptionId EXCEPT ![s] = nextSubscriptionId]
  /\ nextSubscriptionId' = nextSubscriptionId + 1

\* An id is handed out once, so at most one entry has it.
Without(entries, id) ==
  LET at == {n \in DOMAIN entries : entries[n].id = id}
  IN IF at = {} THEN entries ELSE RemoveAt(entries, CHOOSE n \in at : TRUE)

\* unsubscribe: by id, silently nothing when no entry has it.
Unsubscribe(s) ==
  /\ listeners' = Without(listeners, subscriptionId[s])
  /\ subscriptionId' = [subscriptionId EXCEPT ![s] = 0]

\* Mutant: the buffer is not trimmed.
EmitCallEventUntrimmed ==
  /\ ready /\ produced < MaxEvents
  /\ produced' = produced + 1
  /\ IF callListener
     THEN received' = Dispatched(<<produced + 1>>, listeners)
          /\ UNCHANGED pendingCallEvents
     ELSE /\ UNCHANGED received
          /\ pendingCallEvents' =
               IF ~callBuffering THEN pendingCallEvents
               ELSE Append(pendingCallEvents, produced + 1)
  /\ UNCHANGED <<ready, callListener, callBuffering, dispatcherVars,
                 subscriptionId, runtimeVars>>

\* An updateCall: emitCallEvent.
EmitCallEvent ==
  /\ ready /\ produced < MaxEvents
  /\ produced' = produced + 1
  /\ IF callListener
     THEN received' = Dispatched(<<produced + 1>>, listeners)
          /\ UNCHANGED pendingCallEvents
     ELSE /\ UNCHANGED received
          /\ LET queued == Append(pendingCallEvents, produced + 1)
             IN pendingCallEvents' =
                  IF ~callBuffering THEN pendingCallEvents
                  ELSE IF Len(queued) > MaxPendingCallEvents THEN Tail(queued)
                  ELSE queued
  /\ UNCHANGED <<ready, callListener, callBuffering, dispatcherVars,
                 subscriptionId, runtimeVars>>

-----------------------------------------------------------------------------
(* NotificationRuntimeService.                                             *)

\* ensureStarted: the call runtime at once, the notification publisher when
\* the bootstrap resolves.  Without an ability context only the first.
ensureStarted ==
  /\ ready /\ ~bootstrapStarted
  /\ IF subscriptionId["runtime"] = 0 THEN Subscribe("runtime")
     ELSE UNCHANGED <<tdVars, dispatcherVars, subscriptionId, received>>
  /\ \/ /\ bootstrapStarted' = TRUE
        /\ bootstraps' = bootstraps \cup {bootstrapGeneration}
     \/ subscriptionId["runtime"] = 0 /\ UNCHANGED <<bootstrapStarted, bootstraps>>
  /\ UNCHANGED <<ready, notificationServiceStarted, bootstrapGeneration, produced>>

\* Mutant: no generation guard.
BootstrapResolvesUnguarded(g) ==
  /\ g \in bootstraps
  /\ bootstraps' = bootstraps \ {g}
  /\ \/ /\ ~notificationServiceStarted
        /\ notificationServiceStarted' = TRUE
        /\ Subscribe("notifications")
        /\ UNCHANGED bootstrapStarted
     \/ /\ bootstrapStarted' = FALSE
        /\ UNCHANGED <<notificationServiceStarted, tdVars, dispatcherVars,
                       subscriptionId, received>>
  /\ UNCHANGED <<ready, bootstrapGeneration, produced>>

\* Mutant: a denied bootstrap is not marked for a retry.
BootstrapResolvesNoRetry(g) ==
  /\ g \in bootstraps
  /\ bootstraps' = bootstraps \ {g}
  /\ \/ /\ UNCHANGED <<notificationServiceStarted, tdVars, dispatcherVars,
                       subscriptionId, received>>
     \/ /\ g = bootstrapGeneration /\ ~notificationServiceStarted
        /\ notificationServiceStarted' = TRUE
        /\ Subscribe("notifications")
  /\ UNCHANGED <<ready, bootstrapStarted, bootstrapGeneration, produced>>

\* The bootstrap of generation g resolves: ready, or denied or failed.
BootstrapResolves(g) ==
  /\ g \in bootstraps
  /\ bootstraps' = bootstraps \ {g}
  /\ \/ /\ g # bootstrapGeneration
        /\ UNCHANGED <<bootstrapStarted, notificationServiceStarted, tdVars,
                       dispatcherVars, subscriptionId, received>>
     \/ /\ g = bootstrapGeneration /\ ~notificationServiceStarted
        /\ notificationServiceStarted' = TRUE
        /\ Subscribe("notifications")
        /\ UNCHANGED bootstrapStarted
     \/ /\ g = bootstrapGeneration
        /\ bootstrapStarted' = FALSE
        /\ UNCHANGED <<notificationServiceStarted, tdVars, dispatcherVars,
                       subscriptionId, received>>
  /\ UNCHANGED <<ready, bootstrapGeneration, produced>>

\* releaseForLogout: both services unsubscribe, then the dispatcher stops,
\* dropping every entry, and TdClient stops buffering.
releaseForLogout ==
  /\ ready /\ bootstrapGeneration < MaxGenerations
  /\ bootstrapGeneration' = bootstrapGeneration + 1
  /\ bootstrapStarted' = FALSE
  /\ notificationServiceStarted' = FALSE
  /\ subscriptionId' = [subscriptionId EXCEPT !["runtime"] = 0,
                                              !["notifications"] = 0]
  /\ listeners' = <<>>
  /\ started' = FALSE
  /\ IF started
     THEN callListener' = FALSE /\ callBuffering' = FALSE /\ pendingCallEvents' = <<>>
     ELSE UNCHANGED tdVars
  /\ UNCHANGED <<ready, nextSubscriptionId, bootstraps, historyVars>>

-----------------------------------------------------------------------------
(* The other subscribers: the ability once its content is loaded, a call   *)
(* screen while it is shown.  Neither is told when the dispatcher stops.   *)

Attach(s) ==
  /\ s \in {"autoOpen", "screen"}
  /\ subscriptionId[s] = 0
  /\ Subscribe(s)
  /\ UNCHANGED <<ready, runtimeVars, produced>>

Detach(s) ==
  /\ s \in {"autoOpen", "screen"}
  /\ subscriptionId[s] # 0
  /\ Unsubscribe(s)
  /\ UNCHANGED <<ready, tdVars, started, nextSubscriptionId, runtimeVars,
                 historyVars>>

\* External: TDLib's authorization becomes ready, or stops being so.
AuthorizationChanges ==
  /\ ready' = ~ready
  /\ UNCHANGED <<tdVars, dispatcherVars, subscriptionId, runtimeVars, historyVars>>

BusNext ==
  \/ EmitCallEvent
  \/ ensureStarted
  \/ \E g \in 0..MaxGenerations : BootstrapResolves(g)
  \/ releaseForLogout
  \/ \E s \in Subscribers : Attach(s) \/ Detach(s)
  \/ AuthorizationChanges

\* ensureReady always settles: permission dialogs are answered.
BusSpec ==
  /\ BusInit /\ [][BusNext]_busVars
  /\ \A g \in 0..MaxGenerations : WF_busVars(BootstrapResolves(g))

-----------------------------------------------------------------------------
(* Properties.                                                             *)

Listening(s) == [id |-> subscriptionId[s], owner |-> s] \in EntrySet

\* A bootstrap left over from before a logout starts nothing: the publisher
\* runs only under a bootstrap of the present session (generation guard).
NoStalePublisher ==
  notificationServiceStarted \/ subscriptionId["notifications"] # 0
    => bootstrapStarted

\* Each subscriber sees call events in the order TDLib produced them, none
\* twice, whether they came through the buffer or directly.
ReceivedInOrder ==
  \A s \in Subscribers : \A m, n \in DOMAIN received[s] :
    m < n => received[s][m] < received[s][n]

\* An event produced while the runtime listens is the last one it received.
RuntimeMissesNothing ==
  [][produced' # produced /\ Listening("runtime") =>
       received'["runtime"] = Append(received["runtime"], produced')]_busVars

\* Both: who listens gets the events, each once and in TDLib's order, across logouts and logins.
DeliveredInOrder == []ReceivedInOrder /\ RuntimeMissesNothing

\* A started bootstrap ends with the publisher running or may be retried,
\* even with the bootstrap of an earlier session still outstanding.
BootstrapSettles ==
  bootstrapStarted ~> (notificationServiceStarted \/ ~bootstrapStarted)

\* "... so an incoming call auto-opens CallScreen, regardless ..."
\* (EntryAbility.ets:319-322): once the ability has subscribed it listens.
\* Violated: releaseForLogout stops the dispatcher, the ability keeps its
\* id, and subscribeIncomingCallAutoOpen returns early ever after.
AutoOpenStaysSubscribed == subscriptionId["autoOpen"] # 0 => Listening("autoOpen")

=============================================================================
