----------------------------- MODULE CallScreen -----------------------------
(***************************************************************************)
(* The call screens: CallScreenViewModel with the page that owns it, the   *)
(* EntryAbility that opens screens (auto-open of a ringing call, actions   *)
(* of call notifications) and the CallAcceptObserverHub between them.      *)
(*                                                                         *)
(* TDLib is external.  Requests go to it and updates come back through two *)
(* queues, so every tap may race the update that makes it pointless.  The  *)
(* call notification is external too: it follows the call events and its   *)
(* actions may be tapped while it shows.                                   *)
(***************************************************************************)
EXTENDS Naturals, Sequences, FiniteSets

CONSTANTS
  Incoming, Outgoing,   \* TDLib call ids, by direction
  Screens,              \* bound: the pages the run may open, each once
  MaxUpdates,           \* bound: updates TDLib has in flight
  MaxRequests           \* bound: requests in flight

NoCall == "noCall"
NoScreen == "noScreen"
Calls == Incoming \cup Outgoing

ASSUME ScreenAssumption ==
  /\ Incoming \cap Outgoing = {}
  /\ NoCall \notin Calls /\ NoScreen \notin Screens
  /\ MaxUpdates \in Nat \ {0, 1} /\ MaxRequests \in Nat \ {0}

TdStates == {"none", "pending", "exchangingKeys", "ready", "hangingUp",
             "discarded", "error"}
Over == {"discarded", "error"}
Alive == TdStates \ (Over \cup {"none"})

ErrorPhases == {"failed", "answerFailed", "createFailed"}
TerminalPhases == ErrorPhases \cup {"ended"}
Phases == TerminalPhases \cup {"calling", "ringing", "incomingRinging",
            "answering", "connecting", "connected", "ending"}
Routes == {"outgoing", "incoming", "pendingAccept", "resume"}

VARIABLES
  td,          \* external: state of each call in TDLib
  requests,    \* app -> TDLib, oldest first
  updates,     \* TDLib -> app, oldest first
  notification,\* external: the call notification each call shows
  authorized,  \* TdClient.canRunAuthorizedRequest
  creating,    \* screens with an entry in TdClient.callCreationListeners
  stack,       \* the router's page stack, call screens only, top last
  vm,          \* a view model and page per screen
  lastOpenedIncomingCallId,  \* EntryAbility
  audioOwner,  \* whose closure is CallSessionController's level listener
  answered     \* history: calls an acceptCall was sent for

tdVars == <<td, requests, updates>>

screenVars == <<tdVars, notification, authorized, creating, stack, vm,
                lastOpenedIncomingCallId, audioOwner, answered>>

ViewModels == [
  stage : {"unused", "opening", "shown", "gone"},
  route : Routes,
  call : Calls \cup {NoCall},
  phase : Phases,
  subscribed : BOOLEAN,       \* call events and accept-observer hub
  acceptDispatched : BOOLEAN,
  rejectDispatched : BOOLEAN,
  endDispatched : BOOLEAN,
  ticking : BOOLEAN,          \* the duration interval is running
  finish : {"none", "armed", "fired"}]   \* the page's return timer

Requests == [kind : {"accept", "discard"}, call : Calls]
            \cup [kind : {"create"}, screen : Screens]
Updates == [kind : {"call"}, call : Calls, state : TdStates]
           \cup [kind : {"created"}, screen : Screens, call : Calls]
           \cup [kind : {"createFailed"}, screen : Screens]

ScreenTypeOK ==
  /\ td \in [Calls -> TdStates]
  /\ requests \in Seq(Requests)
  /\ updates \in Seq(Updates)
  /\ notification \in [Calls -> {"none", "incoming", "ongoing"}]
  /\ authorized \in BOOLEAN
  /\ creating \subseteq Screens
  /\ stack \in Seq(Screens)
  /\ vm \in [Screens -> ViewModels]
  /\ lastOpenedIncomingCallId \in Incoming \cup {NoCall}
  /\ audioOwner \in Screens \cup {NoScreen}
  /\ answered \subseteq Calls

FreshViewModel == [
  stage |-> "unused", route |-> "outgoing", call |-> NoCall,
  phase |-> "calling", subscribed |-> FALSE, acceptDispatched |-> FALSE,
  rejectDispatched |-> FALSE, endDispatched |-> FALSE, ticking |-> FALSE,
  finish |-> "none"]

ScreenInit ==
  /\ td = [c \in Calls |-> "none"]
  /\ requests = <<>> /\ updates = <<>>
  /\ notification = [c \in Calls |-> "none"]
  /\ authorized = TRUE /\ creating = {}
  /\ stack = <<>>
  /\ vm = [s \in Screens |-> FreshViewModel]
  /\ lastOpenedIncomingCallId = NoCall
  /\ audioOwner = NoScreen
  /\ answered = {}

-----------------------------------------------------------------------------
(* View model helpers.                                                     *)

\* emitPhase: a change starts or stops the interval and reaches the page,
\* whose listener arms the return timer in a terminal phase.  A view model
\* that was disposed has no listener any more.
Emitted(v, phase) ==
  IF v.phase = phase THEN v
  ELSE [v EXCEPT !.phase = phase,
                 !.ticking = (phase = "connected"),
                 !.finish = IF @ = "none" /\ v.stage = "shown"
                               /\ phase \in TerminalPhases
                            THEN "armed" ELSE @]

\* Mutant: the error state is not handled.
PhaseForNoError(v, state) ==
  CASE state = "pending" -> IF v.route = "outgoing" \/ v.route = "resume"
                            THEN "ringing" ELSE v.phase
    [] state = "exchangingKeys" -> "connecting"
    [] state = "ready" -> "connected"
    [] state = "hangingUp" -> "ending"
    [] state = "error" -> v.phase
    [] state = "discarded" -> "ended"

\* applyCallState.
PhaseFor(v, state) ==
  CASE state = "pending" -> IF v.route = "outgoing" \/ v.route = "resume"
                            THEN "ringing" ELSE v.phase
    [] state = "exchangingKeys" -> "connecting"
    [] state = "ready" -> "connected"
    [] state = "hangingUp" -> "ending"
    [] state = "error" -> "failed"
    [] state = "discarded" -> "ended"

\* handleCallEvent of every subscribed view model.
Observed(v, call, state) ==
  IF v.subscribed /\ v.call = call THEN Emitted(v, PhaseFor(v, state)) ELSE v

\* Mutant: only a screen that already answers is told.
ToldAcceptedLate(v, call) ==
  IF v.subscribed /\ v.call = call /\ v.phase = "answering"
  THEN [v EXCEPT !.acceptDispatched = TRUE] ELSE v

\* handleExternalAccept, called through the hub.
ToldAccepted(v, call) ==
  IF v.subscribed /\ v.call = call /\ ~v.acceptDispatched
  THEN LET told == [v EXCEPT !.acceptDispatched = TRUE]
       IN IF v.phase = "incomingRinging" THEN Emitted(told, "answering") ELSE told
  ELSE v

Unused == {s \in Screens : vm[s].stage = "unused"}
Opened(route, call) ==
  [FreshViewModel EXCEPT !.stage = "opening", !.route = route, !.call = call]

Top == IF stack = <<>> THEN NoScreen ELSE stack[Len(stack)]
OnTop(s) == Top = s /\ vm[s].stage = "shown"

\* TdClient.acceptCall, discardCall, createCall.
Send(request) ==
  /\ Len(requests) < MaxRequests
  /\ requests' = Append(requests, request)

-----------------------------------------------------------------------------
(* TDLib, external.                                                        *)

Push(us) ==
  /\ Len(updates) + Len(us) <= MaxUpdates
  /\ updates' = updates \o us

CallUpdate(c, state) == [kind |-> "call", call |-> c, state |-> state]

Changes(c, state) ==
  /\ td' = [td EXCEPT ![c] = state]
  /\ Push(<<CallUpdate(c, state)>>)

NextStates(c) ==
  CASE td[c] = "none" -> IF c \in Incoming THEN {"pending"} ELSE {}
    [] td[c] = "pending" -> Over \cup (IF c \in Outgoing THEN {"exchangingKeys"} ELSE {})
    [] td[c] = "exchangingKeys" -> {"ready"} \cup Over
    [] td[c] = "ready" -> Over
    [] td[c] = "hangingUp" -> {"discarded"}
    [] OTHER -> {}

TdlibProgress(c) ==
  /\ \E state \in NextStates(c) : Changes(c, state)
  /\ UNCHANGED <<requests, notification, authorized, creating, stack, vm,
                 lastOpenedIncomingCallId, audioOwner, answered>>

\* A request for a call in the wrong state is answered with an error that
\* TdClient only logs.  The answer to createCall and the first update of the
\* new call come in either order.
TdlibServes ==
  /\ requests # <<>>
  /\ requests' = Tail(requests)
  /\ LET r == Head(requests) IN
     CASE r.kind = "accept" ->
            IF td[r.call] = "pending" THEN Changes(r.call, "exchangingKeys")
            ELSE UNCHANGED <<td, updates>>
       [] r.kind = "discard" ->
            IF td[r.call] \in Alive THEN Changes(r.call, "hangingUp")
            ELSE UNCHANGED <<td, updates>>
       [] r.kind = "create" ->
            \/ /\ Push(<<[kind |-> "createFailed", screen |-> r.screen]>>)
               /\ UNCHANGED td
            \/ \E c \in Outgoing :
                 LET answer == [kind |-> "created", screen |-> r.screen, call |-> c]
                 IN /\ td[c] = "none"
                    /\ td' = [td EXCEPT ![c] = "pending"]
                    /\ \/ Push(<<answer, CallUpdate(c, "pending")>>)
                       \/ Push(<<CallUpdate(c, "pending"), answer>>)
  /\ UNCHANGED <<notification, authorized, creating, stack, vm,
                 lastOpenedIncomingCallId, audioOwner, answered>>

-----------------------------------------------------------------------------
(* Updates reach the app: TdClient, the dispatcher, its subscribers.       *)

\* TdNotificationsService.handleCallEvent, as far as the actions it offers.
NotificationFor(c, state) ==
  CASE state = "ready" -> "ongoing"
    [] state = "pending" /\ c \in Incoming -> "incoming"
    [] OTHER -> "none"

\* Mutant: outgoing calls open a screen too.
AutoOpenAnyCall(c, state, vms) ==
  IF state = "pending" /\ lastOpenedIncomingCallId # c
  THEN \E s \in Unused :
         /\ vm' = [vms EXCEPT ![s] = Opened("pendingAccept", c)]
         /\ stack' = Append(stack, s)
         /\ lastOpenedIncomingCallId' = c
  ELSE /\ vm' = vms
       /\ lastOpenedIncomingCallId' =
            IF state \in Over /\ lastOpenedIncomingCallId = c THEN NoCall
            ELSE lastOpenedIncomingCallId
       /\ UNCHANGED stack

\* Mutant: a call that failed is not forgotten.
AutoOpenKeepsFailed(c, state, vms) ==
  IF c \in Incoming /\ state = "pending" /\ lastOpenedIncomingCallId # c
  THEN \E s \in Unused :
         /\ vm' = [vms EXCEPT ![s] = Opened("pendingAccept", c)]
         /\ stack' = Append(stack, s)
         /\ lastOpenedIncomingCallId' = c
  ELSE /\ vm' = vms
       /\ lastOpenedIncomingCallId' =
            IF state = "discarded" /\ lastOpenedIncomingCallId = c THEN NoCall
            ELSE lastOpenedIncomingCallId
       /\ UNCHANGED stack

\* handleAutoOpenCallEvent.  pushUrl opens a page or throws.
AutoOpen(c, state, vms) ==
  IF c \in Incoming /\ state = "pending" /\ lastOpenedIncomingCallId # c
  THEN \/ /\ vm' = vms
          /\ lastOpenedIncomingCallId' = NoCall
          /\ UNCHANGED stack
       \/ \E s \in Unused :
            /\ vm' = [vms EXCEPT ![s] = Opened("pendingAccept", c)]
            /\ stack' = Append(stack, s)
            /\ lastOpenedIncomingCallId' = c
  ELSE /\ vm' = vms
       /\ lastOpenedIncomingCallId' =
            IF state \in Over /\ lastOpenedIncomingCallId = c THEN NoCall
            ELSE lastOpenedIncomingCallId
       /\ UNCHANGED stack

HandleCallUpdate ==
  /\ updates # <<>> /\ Head(updates).kind = "call"
  /\ updates' = Tail(updates)
  /\ LET u == Head(updates) IN
       /\ AutoOpen(u.call, u.state,
                   [s \in Screens |-> Observed(vm[s], u.call, u.state)])
       /\ notification' = [notification EXCEPT
                             ![u.call] = NotificationFor(u.call, u.state)]
  /\ UNCHANGED <<td, requests, authorized, creating, audioOwner, answered>>

\* handleCallId and notifyCallCreationError: the listener of the screen that
\* asked, if TdClient still has it.
HandleCreateAnswer ==
  /\ updates # <<>> /\ Head(updates).kind # "call"
  /\ updates' = Tail(updates)
  /\ LET u == Head(updates) IN
       /\ creating' = creating \ {u.screen}
       /\ vm' = IF u.screen \notin creating THEN vm
                ELSE IF u.kind = "created"
                THEN [vm EXCEPT ![u.screen].call = u.call]
                ELSE [vm EXCEPT ![u.screen] = Emitted(@, "createFailed")]
  /\ UNCHANGED <<td, requests, notification, authorized, stack,
                 lastOpenedIncomingCallId, audioOwner, answered>>

-----------------------------------------------------------------------------
(* Pages.                                                                  *)

Push1(s, route, call) ==
  /\ vm' = [vm EXCEPT ![s] = Opened(route, call)]
  /\ stack' = Append(stack, s)

\* The user places a call from a chat or profile page.
OpenOutgoing(s) ==
  /\ stack = <<>> /\ s \in Unused
  /\ Push1(s, "outgoing", NoCall)
  /\ UNCHANGED <<tdVars, notification, authorized, creating,
                 lastOpenedIncomingCallId, audioOwner, answered>>

\* aboutToAppear, and the start method of the route.
Appear(s) ==
  /\ vm[s].stage = "opening"
  /\ audioOwner' = s
  /\ LET v == [vm[s] EXCEPT !.stage = "shown", !.subscribed = TRUE]
         answering == Emitted(v, "answering")
         Becomes(w) == vm' = [vm EXCEPT ![s] = w]
     IN \/ /\ v.route = "pendingAccept"
           /\ Becomes(Emitted(v, "incomingRinging"))
           /\ UNCHANGED <<requests, answered, creating>>
        \/ /\ v.route = "resume"
           /\ Becomes(Emitted(v, "connected"))
           /\ UNCHANGED <<requests, answered, creating>>
        \/ /\ v.route = "incoming" /\ authorized
           /\ Send([kind |-> "accept", call |-> v.call])
           /\ Becomes([answering EXCEPT !.acceptDispatched = TRUE])
           /\ answered' = answered \cup {v.call}
           /\ UNCHANGED creating
        \/ /\ v.route = "incoming" /\ ~authorized
           /\ Becomes(Emitted(answering, "answerFailed"))
           /\ UNCHANGED <<requests, answered, creating>>
        \/ /\ v.route = "outgoing" /\ authorized
           /\ Send([kind |-> "create", screen |-> s])
           /\ creating' = creating \cup {s}
           /\ Becomes(v)
           /\ UNCHANGED answered
        \/ /\ v.route = "outgoing" /\ ~authorized
           /\ Becomes(Emitted(v, "createFailed"))
           /\ UNCHANGED <<requests, answered, creating>>
  /\ UNCHANGED <<td, updates, notification, authorized, stack,
                 lastOpenedIncomingCallId>>

\* router.back(): the page on top goes, whichever it is; aboutToDisappear
\* disposes its view model and clears the one audio-level listener.
PopTop(vms) ==
  /\ vm' = [vms EXCEPT ![Top].stage = "gone", ![Top].subscribed = FALSE,
                        ![Top].ticking = FALSE, ![Top].finish = "none"]
  /\ stack' = SubSeq(stack, 1, Len(stack) - 1)
  /\ audioOwner' = NoScreen

ReturnTimer(s) ==
  /\ vm[s].finish = "armed"
  /\ OnTop(Top)
  /\ PopTop([vm EXCEPT ![s].finish = "fired"])
  /\ UNCHANGED <<tdVars, notification, authorized, creating,
                 lastOpenedIncomingCallId, answered>>

-----------------------------------------------------------------------------
(* Taps on the screen on top.                                              *)

AcceptTap(s) ==
  /\ OnTop(s)
  /\ vm[s].phase = "incomingRinging" /\ ~vm[s].acceptDispatched
  /\ LET answering == Emitted(vm[s], "answering") IN
       IF authorized
       THEN /\ Send([kind |-> "accept", call |-> vm[s].call])
            /\ vm' = [vm EXCEPT ![s] = [answering EXCEPT !.acceptDispatched = TRUE]]
            /\ answered' = answered \cup {vm[s].call}
       ELSE /\ vm' = [vm EXCEPT ![s] = Emitted(answering, "answerFailed")]
            /\ UNCHANGED <<requests, answered>>
  /\ UNCHANGED <<td, updates, notification, authorized, creating, stack,
                 lastOpenedIncomingCallId, audioOwner>>

MayDecline(v) ==
  /\ ~v.rejectDispatched /\ ~v.endDispatched /\ ~v.acceptDispatched
  /\ v.phase = "incomingRinging"

DeclineTap(s) ==
  /\ OnTop(s)
  /\ MayDecline(vm[s])
  /\ IF authorized
     THEN /\ Send([kind |-> "discard", call |-> vm[s].call])
          /\ vm' = [vm EXCEPT ![s] = [Emitted(@, "ending") EXCEPT !.rejectDispatched = TRUE]]
     ELSE /\ vm' = [vm EXCEPT ![s] = Emitted(@, "ending")]
          /\ UNCHANGED requests
  /\ UNCHANGED <<td, updates, notification, authorized, creating, stack,
                 lastOpenedIncomingCallId, audioOwner, answered>>

\* endCall; nothing happens while the call id is not known, nor twice.
EndCall(s) ==
  IF vm[s].endDispatched \/ vm[s].rejectDispatched \/ vm[s].call = NoCall
  THEN UNCHANGED <<vm, requests>>
  ELSE IF authorized
  THEN /\ Send([kind |-> "discard", call |-> vm[s].call])
       /\ vm' = [vm EXCEPT ![s] = [Emitted(@, "ending") EXCEPT !.endDispatched = TRUE]]
  ELSE /\ vm' = [vm EXCEPT ![s] = Emitted(@, "ending")]
       /\ UNCHANGED requests

\* onBackPress in a call that is not over; the End button does the same.
BackPress(s) ==
  /\ OnTop(s)
  /\ vm[s].phase \notin TerminalPhases
  /\ EndCall(s)
  /\ UNCHANGED <<td, updates, notification, authorized, creating, stack,
                 lastOpenedIncomingCallId, audioOwner, answered>>

\* onBackPress when the call is over: the router pops the page.
BackOut(s) ==
  /\ OnTop(s)
  /\ vm[s].phase \in TerminalPhases
  /\ PopTop(vm)
  /\ UNCHANGED <<tdVars, notification, authorized, creating,
                 lastOpenedIncomingCallId, answered>>

-----------------------------------------------------------------------------
(* Actions of the call notification: EntryAbility.openCallAction.          *)

\* Answer: straight to TDLib when the auto-open already opened a screen for
\* this call, telling the view models through the hub; a screen otherwise.
NotificationAnswer(c) ==
  /\ notification[c] = "incoming"
  /\ notification' = [notification EXCEPT ![c] = "none"]
  /\ IF lastOpenedIncomingCallId = c
     THEN /\ IF authorized
             THEN /\ Send([kind |-> "accept", call |-> c])
                  /\ answered' = answered \cup {c}
                  /\ vm' = [s \in Screens |-> ToldAccepted(vm[s], c)]
             ELSE UNCHANGED <<requests, answered, vm>>
          /\ UNCHANGED stack
     ELSE /\ \E s \in Unused : Push1(s, "incoming", c)
          /\ UNCHANGED <<requests, answered>>
  /\ UNCHANGED <<td, updates, authorized, creating, lastOpenedIncomingCallId,
                 audioOwner>>

\* Answer on phone: the notification goes, nothing is sent.
NotificationOnPhone(c) ==
  /\ notification[c] = "incoming"
  /\ notification' = [notification EXCEPT ![c] = "none"]
  /\ UNCHANGED <<tdVars, authorized, creating, stack, vm,
                 lastOpenedIncomingCallId, audioOwner, answered>>

NotificationReject(c) ==
  /\ notification[c] = "incoming" /\ authorized
  /\ Send([kind |-> "discard", call |-> c])
  /\ UNCHANGED <<td, updates, notification, authorized, creating, stack, vm,
                 lastOpenedIncomingCallId, audioOwner, answered>>

NotificationResume(c) ==
  /\ notification[c] = "ongoing"
  /\ \E s \in Unused : Push1(s, "resume", c)
  /\ UNCHANGED <<tdVars, notification, authorized, creating,
                 lastOpenedIncomingCallId, audioOwner, answered>>

\* The session is lost; resetSessionCaches forgets the creation listeners.
\* Bound: at most once.
LoseAuthorization ==
  /\ authorized
  /\ authorized' = FALSE
  /\ creating' = {}
  /\ UNCHANGED <<tdVars, notification, stack, vm, lastOpenedIncomingCallId,
                 audioOwner, answered>>

AppStep ==
  \/ HandleCallUpdate
  \/ HandleCreateAnswer
  \/ \E s \in Screens : Appear(s) \/ ReturnTimer(s)

UserStep ==
  \/ \E s \in Screens :
       OpenOutgoing(s) \/ AcceptTap(s) \/ DeclineTap(s) \/ BackPress(s) \/ BackOut(s)
  \/ \E c \in Calls :
       \/ NotificationAnswer(c) \/ NotificationOnPhone(c)
       \/ NotificationReject(c) \/ NotificationResume(c)

ScreenNext ==
  \/ AppStep
  \/ UserStep
  \/ TdlibServes
  \/ \E c \in Calls : TdlibProgress(c)
  \/ LoseAuthorization

\* The JS event loop delivers updates, shows pushed pages and fires timers;
\* TDLib serves requests.  Users and peers owe nothing.
ScreenSpec ==
  /\ ScreenInit /\ [][ScreenNext]_screenVars
  /\ WF_screenVars(HandleCallUpdate \/ HandleCreateAnswer)
  /\ \A s \in Screens : WF_screenVars(Appear(s)) /\ WF_screenVars(ReturnTimer(s))
  /\ WF_screenVars(TdlibServes)

-----------------------------------------------------------------------------
(* Properties.                                                             *)

EndQueued(c) == \E n \in DOMAIN updates :
  updates[n].kind = "call" /\ updates[n].call = c /\ updates[n].state \in Over

ScreensOf(c) == {s \in Screens : vm[s].subscribed /\ vm[s].call = c}

\* No other call has rung.
Alone(c) == \A d \in Incoming \ {c} : td[d] = "none"

\* The ability remembers one call.  After another rang, an answer from the
\* notification may open a second screen beside the one that rings.
AnsweredApart(c) ==
  ~Alone(c) /\ \E s \in Screens : vm[s].route = "incoming" /\ vm[s].call = c

\* The moment an acceptCall is sent for a call, from the screen or from the
\* notification, no screen that shows the call can decline it any more
\* (CallAcceptObserverHub.ets:24-31): the hub gets to the view models before
\* TDLib's own update does.  Not claimed of a call that was answered on a
\* second screen because another call rang.
AnswerDisablesDecline ==
  [][\A c \in answered' \ answered :
       ~AnsweredApart(c) => \A s \in ScreensOf(c)' : ~MayDecline(vm'[s])]_screenVars

\* The ability's memory of the call it opened a screen for never outlives
\* the call by more than the updates still to come: otherwise the next
\* notification answer would be routed to a screen that is gone.
LastOpenedIsCurrent ==
  LET c == lastOpenedIncomingCallId IN
  c # NoCall /\ td[c] \in Over => EndQueued(c)

\* The end of a call reaches its screen: one that placed the call, however
\* the answer to createCall and the call's updates were ordered, and one
\* that is subscribed while the end is on its way.
EndReachesScreen ==
  \A s \in Screens, c \in Calls :
    (/\ vm[s].stage = "shown" /\ vm[s].call = c /\ td[c] \in Over
     /\ vm[s].route = "outgoing" \/ EndQueued(c))
      ~> (vm[s].phase \in TerminalPhases \/ vm[s].stage = "gone")

\* "... accept the call directly so the VM observes the state transition
\* through its existing call-event subscription" (EntryAbility.ets:240-243):
\* a call answered when no page is still opening has a screen that observes
\* it.  Violated: the return timer of a call that ended pops the page on
\* top, which may be that of the next call; the ability does not notice.
AnsweredCallHasScreen ==
  [][\A c \in answered' \ answered :
       (\A s \in Screens : vm[s].stage # "opening") /\ authorized
         => ScreensOf(c)' # {}]_screenVars

=============================================================================
