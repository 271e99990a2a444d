-------------------------- MODULE CallScreenProofs --------------------------
(***************************************************************************)
(* The call screens for any number of calls and pages and any bound on     *)
(* what is in flight: the ability never remembers a call that is over for  *)
(* longer than its last update is on its way, and a call that is answered  *)
(* can no longer be declined from any screen that shows it.                *)
(***************************************************************************)
EXTENDS CallScreen, SequenceTheorems, TLAPS

LEMMA Bounds ==
  /\ NoCall \notin Calls /\ NoScreen \notin Screens
  /\ Incoming \cap Outgoing = {} /\ Incoming \subseteq Calls /\ Outgoing \subseteq Calls
  /\ MaxUpdates \in Nat /\ MaxRequests \in Nat
  BY ScreenAssumption DEF Calls

-----------------------------------------------------------------------------
(* What a view model keeps.                                                *)

\* The screen v has become w in a step that opens no page for a call: the
\* route stays, so does the call of a screen that did not place it, and no
\* other route than the one that waits for the user begins to ring.
Keeps(v, w) ==
  /\ w \in ViewModels
  /\ w.route = v.route
  /\ w.route = "outgoing" \/ w.call = v.call
  /\ v.stage # "unused" => w.stage # "unused"
  /\ w.phase = "incomingRinging" =>
       v.phase = "incomingRinging" \/ w.route = "pendingAccept"

LEMMA KeepsSame ==
  ASSUME NEW v \in ViewModels
  PROVE  Keeps(v, v)
  BY DEF Keeps

LEMMA KeepsTwice ==
  ASSUME NEW u, NEW v, NEW w, Keeps(u, v), Keeps(v, w)
  PROVE  Keeps(u, w)
  BY DEF Keeps

\* emitPhase touches the phase, the interval and the return timer.
LEMMA EmittedFields ==
  ASSUME NEW v \in ViewModels, NEW p \in Phases
  PROVE  LET w == Emitted(v, p) IN
         /\ w \in ViewModels
         /\ w.phase = p /\ w.route = v.route /\ w.call = v.call /\ w.stage = v.stage
         /\ w.subscribed = v.subscribed
         /\ w.acceptDispatched = v.acceptDispatched
         /\ w.rejectDispatched = v.rejectDispatched
         /\ w.endDispatched = v.endDispatched
<1>1. CASE v.phase = p
  BY <1>1 DEF Emitted
<1>2. CASE v.phase # p
  <2> DEFINE w == [v EXCEPT !.phase = p, !.ticking = (p = "connected"),
                            !.finish = IF @ = "none" /\ v.stage = "shown"
                                          /\ p \in TerminalPhases
                                       THEN "armed" ELSE @]
  <2>1. Emitted(v, p) = w
    BY <1>2 DEF Emitted
  <2>2. w \in ViewModels
    BY DEF ViewModels
  <2> QED BY <2>1, <2>2 DEF ViewModels
<1> QED BY <1>1, <1>2

LEMMA EmittedKeeps ==
  ASSUME NEW v \in ViewModels, NEW p \in Phases, p # "incomingRinging"
  PROVE  Keeps(v, Emitted(v, p))
  BY EmittedFields DEF Keeps

\* A call event never makes a screen ring.
LEMMA ObservedKeeps ==
  ASSUME NEW v \in ViewModels, NEW c \in Calls, NEW state \in TdStates, state # "none"
  PROVE  Keeps(v, Observed(v, c, state))
<1>1. PhaseFor(v, state) \in Phases
      /\ (PhaseFor(v, state) = "incomingRinging" => v.phase = "incomingRinging")
  BY DEF PhaseFor, TdStates, Phases, TerminalPhases, ErrorPhases, ViewModels
<1>2. Keeps(v, Emitted(v, PhaseFor(v, state)))
  BY <1>1, EmittedFields DEF Keeps
<1> QED BY <1>2, KeepsSame DEF Observed

LEMMA ToldKeeps ==
  ASSUME NEW v \in ViewModels, NEW c
  PROVE  Keeps(v, ToldAccepted(v, c))
<1> DEFINE told == [v EXCEPT !.acceptDispatched = TRUE]
<1>1. told \in ViewModels /\ Keeps(v, told)
  BY DEF Keeps, ViewModels
<1>2. Keeps(told, Emitted(told, "answering"))
  BY <1>1, EmittedKeeps DEF Phases
<1>3. Keeps(v, Emitted(told, "answering"))
  BY <1>1, <1>2, KeepsTwice
<1> QED BY <1>1, <1>3, KeepsSame DEF ToldAccepted

\* A page as it is pushed.
LEMMA OpenedFields ==
  ASSUME NEW route \in Routes, NEW c \in Calls \cup {NoCall}
  PROVE  LET w == Opened(route, c) IN
         w \in ViewModels /\ w.stage = "opening" /\ w.route = route /\ w.call = c
         /\ w.phase = "calling"
<1>1. FreshViewModel \in ViewModels
  BY DEF FreshViewModel, ViewModels, Routes, Phases
<1> QED BY <1>1 DEF Opened, FreshViewModel, ViewModels

-----------------------------------------------------------------------------
(* Types, and what the views know.                                         *)

\* A screen that rings waits for the user to accept; a screen that did not
\* place its call has its id; an unused one has the route it is made with;
\* only a screen that places a call waits for
\* the answer to createCall; TDLib announces no state before the first.
ScreensKnown ==
  /\ \A s \in Screens :
       /\ vm[s].route # "outgoing" => vm[s].call # NoCall
       /\ vm[s].phase = "incomingRinging" => vm[s].route = "pendingAccept"
       /\ vm[s].stage = "unused" => vm[s].route = "outgoing"
       /\ s \in creating => vm[s].route = "outgoing" /\ vm[s].stage # "unused"
  /\ \A n \in DOMAIN updates : updates[n].kind = "call" => updates[n].state # "none"

ScreenTypes == ScreenTypeOK /\ ScreensKnown

LEMMA ScreenTypesInit == ScreenInit => ScreenTypes
<1> SUFFICES ASSUME ScreenInit PROVE ScreenTypes
  OBVIOUS
<1>1. FreshViewModel \in ViewModels
  BY DEF FreshViewModel, ViewModels, Routes, Phases
<1> QED
  BY <1>1 DEF ScreenInit, ScreenTypes, ScreenTypeOK, ScreensKnown, TdStates, FreshViewModel

\* The fields of what TDLib sends.
LEMMA UpdateFields ==
  ASSUME NEW u \in Updates
  PROVE  /\ u.kind = "call" => u.call \in Calls /\ u.state \in TdStates
         /\ u.kind # "call" => u.screen \in Screens /\ u.kind \in {"created", "createFailed"}
         /\ u.kind = "created" => u.call \in Calls
  BY DEF Updates

LEMMA Elements ==
  ASSUME NEW S, NEW q \in Seq(S), NEW n \in DOMAIN q
  PROVE  q[n] \in S
  OBVIOUS

\* The oldest update leaves the queue.
LEMMA TailIndex ==
  ASSUME NEW S, NEW q \in Seq(S), q # <<>>
  PROVE  /\ Tail(q) \in Seq(S) /\ Head(q) \in S /\ Head(q) = q[1] /\ 1 \in DOMAIN q
         /\ \A n \in DOMAIN Tail(q) : n \in Nat \ {0} /\ n + 1 \in DOMAIN q /\ Tail(q)[n] = q[n + 1]
         /\ \A n \in DOMAIN q : n \in Nat /\ n > 0
                                /\ (n > 1 => n - 1 \in DOMAIN Tail(q) /\ Tail(q)[n - 1] = q[n])
  BY HeadTailProperties

LEMMA AppendIndex ==
  ASSUME NEW S, NEW q \in Seq(S), NEW us \in Seq(S)
  PROVE  /\ q \o us \in Seq(S)
         /\ \A n \in DOMAIN q : n \in Nat /\ n <= Len(q) /\ n \in DOMAIN (q \o us) /\ (q \o us)[n] = q[n]
         /\ \A n \in DOMAIN us : n \in Nat /\ n > 0 /\ Len(q) + n \in DOMAIN (q \o us)
                                 /\ (q \o us)[Len(q) + n] = us[n]
         /\ \A n \in DOMAIN (q \o us) :
              n \in Nat /\ (n \in DOMAIN q \/ (n > Len(q) /\ n - Len(q) \in DOMAIN us))
         /\ Len(q) \in Nat
  BY ConcatProperties

-----------------------------------------------------------------------------
(* What TDLib does to a call and to the queue of its updates.              *)

\* The call c goes to another state, and among the updates us that are
\* queued one, the k-th, tells it.
Moves(c, state, us, k) ==
  /\ c \in Calls /\ state \in TdStates \ {"none"}
  /\ td[c] \notin Over
  /\ (td[c] = "none") <=> (state = "pending")
  /\ td' = [td EXCEPT ![c] = state]
  /\ us \in Seq(Updates) /\ updates' = updates \o us
  /\ k \in DOMAIN us /\ us[k] = CallUpdate(c, state)
  /\ \A n \in DOMAIN us : us[n].kind = "call" => n = k

\* No call changes, and no update us that is queued tells of one.
Rests(us) ==
  /\ td' = td
  /\ us \in Seq(Updates) /\ updates' = updates \o us
  /\ \A n \in DOMAIN us : us[n].kind # "call"

TdlibMoves ==
  \/ UNCHANGED <<td, updates>>
  \/ \E us : Rests(us)
  \/ \E c, state, us, k : Moves(c, state, us, k)

LEMMA ChangesMoves ==
  ASSUME ScreenTypeOK, NEW c \in Calls, NEW state \in TdStates \ {"none"},
         td[c] \notin Over, (td[c] = "none") <=> (state = "pending"), Changes(c, state)
  PROVE  TdlibMoves
<1> DEFINE u == CallUpdate(c, state)
           us == <<u>>
<1>1. u \in Updates
  BY DEF CallUpdate, Updates
<1>2. us \in Seq(Updates) /\ DOMAIN us = {1} /\ us[1] = u
  BY <1>1
<1>3. td' = [td EXCEPT ![c] = state] /\ updates' = updates \o us
  BY DEF Changes, Push
<1> HIDE DEF u, us
<1>4. Moves(c, state, us, 1)
  BY <1>2, <1>3 DEF Moves, u
<1> QED BY <1>4 DEF TdlibMoves

LEMMA ProgressMoves ==
  ASSUME ScreenTypeOK, NEW c \in Calls, TdlibProgress(c)
  PROVE  TdlibMoves
<1>1. PICK state \in NextStates(c) : Changes(c, state)
  BY DEF TdlibProgress
<1>2. /\ state \in TdStates \ {"none"} /\ td[c] \notin Over
      /\ (td[c] = "none") <=> (state = "pending")
  BY <1>1 DEF NextStates, TdStates, Over, ScreenTypeOK
<1> QED BY <1>1, <1>2, ChangesMoves

\* The answer to createCall and the first update, in either order.
LEMMA CreatedMoves ==
  ASSUME ScreenTypeOK, NEW c \in Outgoing, NEW s \in Screens, td[c] = "none",
         td' = [td EXCEPT ![c] = "pending"],
         NEW answer, answer = [kind |-> "created", screen |-> s, call |-> c],
         \/ updates' = updates \o <<answer, CallUpdate(c, "pending")>>
         \/ updates' = updates \o <<CallUpdate(c, "pending"), answer>>
  PROVE  TdlibMoves
<1> DEFINE u == CallUpdate(c, "pending")
           first == <<answer, u>>
           last == <<u, answer>>
<1>1. c \in Calls
  BY Bounds
<1>2. u \in Updates /\ answer \in Updates /\ answer.kind # "call"
  BY <1>1 DEF CallUpdate, Updates, TdStates
<1>3. "pending" \in TdStates \ {"none"} /\ td[c] \notin Over
  BY DEF TdStates, Over
<1>4. CASE updates' = updates \o first
  <2>1. first \in Seq(Updates) /\ DOMAIN first = {1, 2} /\ first[1] = answer /\ first[2] = u
    BY <1>2
  <2> HIDE DEF first, u
  <2>2. Moves(c, "pending", first, 2)
    BY <1>1, <1>2, <1>3, <1>4, <2>1 DEF Moves, u
  <2> QED BY <2>2 DEF TdlibMoves
<1>5. CASE updates' = updates \o last
  <2>1. last \in Seq(Updates) /\ DOMAIN last = {1, 2} /\ last[1] = u /\ last[2] = answer
    BY <1>2
  <2> HIDE DEF last, u
  <2>2. Moves(c, "pending", last, 1)
    BY <1>1, <1>2, <1>3, <1>5, <2>1 DEF Moves, u
  <2> QED BY <2>2 DEF TdlibMoves
<1> QED BY <1>4, <1>5

LEMMA ServesMoves ==
  ASSUME ScreenTypeOK, TdlibServes
  PROVE  TdlibMoves
<1> DEFINE r == Head(requests)
<1>1. r \in Requests
  BY HeadTailProperties DEF TdlibServes, ScreenTypeOK
<1> HIDE DEF r
<1>2. CASE r.kind = "accept"
  <2>1. r.call \in Calls
    BY <1>1, <1>2 DEF Requests
  <2>2. \/ td[r.call] = "pending" /\ Changes(r.call, "exchangingKeys")
        \/ UNCHANGED <<td, updates>>
    BY <1>2 DEF TdlibServes, r
  <2>3. "exchangingKeys" \in TdStates \ {"none"}
    BY DEF TdStates
  <2> QED BY <2>1, <2>2, <2>3, ChangesMoves DEF Over, TdlibMoves
<1>3. CASE r.kind = "discard"
  <2>1. r.call \in Calls
    BY <1>1, <1>3 DEF Requests
  <2>2. \/ td[r.call] \in Alive /\ Changes(r.call, "hangingUp")
        \/ UNCHANGED <<td, updates>>
    BY <1>3 DEF TdlibServes, r
  <2>3. "hangingUp" \in TdStates \ {"none"}
    BY DEF TdStates
  <2> QED BY <2>1, <2>2, <2>3, ChangesMoves DEF Over, Alive, TdlibMoves
<1>4. CASE r.kind = "create"
  <2>1. r.screen \in Screens
    BY <1>1, <1>4 DEF Requests
  <2>2. CASE Push(<<[kind |-> "createFailed", screen |-> r.screen]>>) /\ UNCHANGED td
    <3> DEFINE u == [kind |-> "createFailed", screen |-> r.screen]
               us == <<u>>
    <3>1. u \in Updates /\ u.kind # "call"
      BY <2>1 DEF Updates
    <3>2. us \in Seq(Updates) /\ DOMAIN us = {1} /\ us[1] = u
      BY <3>1
    <3>3. updates' = updates \o us /\ td' = td
      BY <2>2 DEF Push
    <3> HIDE DEF u, us
    <3>4. Rests(us)
      BY <3>1, <3>2, <3>3 DEF Rests
    <3> QED BY <3>4 DEF TdlibMoves
  <2>3. CASE \E c \in Outgoing :
               LET answer == [kind |-> "created", screen |-> r.screen, call |-> c]
               IN /\ td[c] = "none"
                  /\ td' = [td EXCEPT ![c] = "pending"]
                  /\ \/ Push(<<answer, CallUpdate(c, "pending")>>)
                     \/ Push(<<CallUpdate(c, "pending"), answer>>)
    <3>1. PICK c \in Outgoing :
            LET answer == [kind |-> "created", screen |-> r.screen, call |-> c]
            IN /\ td[c] = "none"
               /\ td' = [td EXCEPT ![c] = "pending"]
               /\ \/ Push(<<answer, CallUpdate(c, "pending")>>)
                  \/ Push(<<CallUpdate(c, "pending"), answer>>)
      BY <2>3
    <3> DEFINE answer == [kind |-> "created", screen |-> r.screen, call |-> c]
    <3>2. \/ updates' = updates \o <<answer, CallUpdate(c, "pending")>>
          \/ updates' = updates \o <<CallUpdate(c, "pending"), answer>>
      BY <3>1 DEF Push
    <3>3. td[c] = "none" /\ td' = [td EXCEPT ![c] = "pending"]
      BY <3>1
    <3> QED BY <2>1, <3>2, <3>3, CreatedMoves
  <2> QED BY <1>4, <2>2, <2>3 DEF TdlibServes, r
<1> QED BY <1>1, <1>2, <1>3, <1>4 DEF Requests

\* TDLib keeps the types, and announces no state before the first.
LEMMA MovesTypes ==
  ASSUME ScreenTypes, TdlibMoves
  PROVE  /\ td' \in [Calls -> TdStates] /\ updates' \in Seq(Updates)
         /\ \A n \in DOMAIN updates' : updates'[n].kind = "call" => updates'[n].state # "none"
<1> USE DEF ScreenTypes, ScreenTypeOK, ScreensKnown
<1>1. CASE UNCHANGED <<td, updates>>
  BY <1>1
<1>2. CASE \E us : Rests(us)
  <2>1. PICK us : Rests(us)
    BY <1>2
  <2>2. us \in Seq(Updates) /\ updates' = updates \o us
    BY <2>1 DEF Rests
  <2> QED BY SMTT(30), <2>1, <2>2, AppendIndex DEF Rests
<1>3. CASE \E c, state, us, k : Moves(c, state, us, k)
  <2>1. PICK c, state, us, k : Moves(c, state, us, k)
    BY <1>3
  <2>2. us \in Seq(Updates) /\ updates' = updates \o us
    BY <2>1 DEF Moves
  <2>3. \A n \in DOMAIN us : us[n].kind = "call" => us[n].state # "none"
    BY <2>1 DEF Moves, CallUpdate
  <2>4. td' \in [Calls -> TdStates]
    BY <2>1 DEF Moves
  <2>5. updates' \in Seq(Updates)
    BY <2>2, AppendIndex
  <2>6. ASSUME NEW n \in DOMAIN updates', updates'[n].kind = "call"
        PROVE  updates'[n].state # "none"
    <3>1. CASE n \in DOMAIN updates
      BY <2>2, <2>6, <3>1, AppendIndex
    <3>2. CASE n > Len(updates) /\ n - Len(updates) \in DOMAIN us
      <4>1. n = Len(updates) + (n - Len(updates))
        BY <2>2, AppendIndex
      <4>2. updates'[n] = us[n - Len(updates)]
        BY <2>2, <3>2, <4>1, AppendIndex
      <4> QED BY <2>3, <2>6, <3>2, <4>2
    <3> QED BY <2>2, <3>1, <3>2, AppendIndex
  <2> QED BY <2>4, <2>5, <2>6
<1> QED BY <1>1, <1>2, <1>3 DEF TdlibMoves

-----------------------------------------------------------------------------
(* The types, action by action.                                            *)

\* No page is opened, and every screen keeps its call and its route.
ViewsKept ==
  /\ vm' \in [Screens -> ViewModels]
  /\ \A s \in Screens : Keeps(vm[s], vm'[s])

\* The page s is pushed, and the other screens keep their call.
PageOpened(s, route, c) ==
  /\ s \in Screens /\ route \in Routes \ {"outgoing"} /\ c \in Calls
  /\ vm[s].stage = "unused"
  /\ vm' \in [Screens -> ViewModels]
  /\ vm'[s] = Opened(route, c)
  /\ \A t \in Screens \ {s} : Keeps(vm[t], vm'[t])

LEMMA SameViews ==
  ASSUME vm \in [Screens -> ViewModels], vm' = vm
  PROVE  ViewsKept
  BY KeepsSame DEF ViewsKept

LEMMA OneKept ==
  ASSUME vm \in [Screens -> ViewModels], NEW s \in Screens, NEW w,
         Keeps(vm[s], w), vm' = [vm EXCEPT ![s] = w]
  PROVE  ViewsKept /\ vm'[s] = w
<1>1. w \in ViewModels
  BY DEF Keeps
<1>2. vm' \in [Screens -> ViewModels] /\ vm'[s] = w
      /\ \A t \in Screens \ {s} : vm'[t] = vm[t] /\ vm[t] \in ViewModels
  BY <1>1
<1> QED BY <1>2, KeepsSame DEF ViewsKept

\* The types of all but the screens, what they wait for and the queue.
RestTypes ==
  /\ td \in [Calls -> TdStates]
  /\ requests \in Seq(Requests)
  /\ notification \in [Calls -> {"none", "incoming", "ongoing"}]
  /\ stack \in Seq(Screens)
  /\ lastOpenedIncomingCallId \in Incoming \cup {NoCall}
  /\ audioOwner \in Screens \cup {NoScreen}
  /\ answered \subseteq Calls

QueueKnown ==
  /\ updates \in Seq(Updates)
  /\ \A n \in DOMAIN updates : updates[n].kind = "call" => updates[n].state # "none"

LEMMA TypesSplit ==
  ScreenTypes <=> /\ RestTypes /\ QueueKnown /\ authorized \in BOOLEAN
                  /\ creating \subseteq Screens /\ vm \in [Screens -> ViewModels]
                  /\ \A s \in Screens :
                       /\ vm[s].route # "outgoing" => vm[s].call # NoCall
                       /\ vm[s].phase = "incomingRinging" => vm[s].route = "pendingAccept"
                       /\ vm[s].stage = "unused" => vm[s].route = "outgoing"
                       /\ s \in creating => vm[s].route = "outgoing" /\ vm[s].stage # "unused"
  BY DEF ScreenTypes, ScreenTypeOK, ScreensKnown, RestTypes, QueueKnown

LEMMA KeptTypes ==
  ASSUME ScreenTypes, ViewsKept, RestTypes', QueueKnown', authorized' \in BOOLEAN,
         creating' \subseteq creating
  PROVE  ScreenTypes'
<1>1. ASSUME NEW s \in Screens
      PROVE  /\ vm'[s].route # "outgoing" => vm'[s].call # NoCall
             /\ vm'[s].phase = "incomingRinging" => vm'[s].route = "pendingAccept"
             /\ vm'[s].stage = "unused" => vm'[s].route = "outgoing"
             /\ s \in creating' => vm'[s].route = "outgoing" /\ vm'[s].stage # "unused"
  BY TypesSplit DEF ViewsKept, Keeps
<1> QED BY <1>1, TypesSplit DEF ViewsKept, ScreenTypes, ScreenTypeOK, ScreensKnown, RestTypes, QueueKnown

LEMMA OpenedTypes ==
  ASSUME ScreenTypes, NEW s, NEW route, NEW c, PageOpened(s, route, c),
         RestTypes', QueueKnown', UNCHANGED <<authorized, creating>>
  PROVE  ScreenTypes'
<1>1. /\ vm'[s].call = c /\ vm'[s].route = route /\ vm'[s].phase = "calling"
      /\ vm'[s].stage = "opening"
      /\ c # NoCall /\ s \notin creating
  BY OpenedFields, Bounds DEF PageOpened, ScreenTypes, ScreensKnown
<1>2. ASSUME NEW t \in Screens
      PROVE  /\ vm'[t].route # "outgoing" => vm'[t].call # NoCall
             /\ vm'[t].phase = "incomingRinging" => vm'[t].route = "pendingAccept"
             /\ vm'[t].stage = "unused" => vm'[t].route = "outgoing"
             /\ t \in creating' => vm'[t].route = "outgoing" /\ vm'[t].stage # "unused"
  <2>1. CASE t = s
    BY <1>1, <2>1
  <2>2. CASE t # s
    BY <2>2 DEF PageOpened, Keeps, ScreenTypes, ScreensKnown
  <2> QED BY <2>1, <2>2
<1> QED BY <1>2 DEF PageOpened, ScreenTypes, ScreenTypeOK, ScreensKnown, RestTypes, QueueKnown

\* What is queued stays known when the app takes the oldest update.
LEMMA TailKnown ==
  ASSUME QueueKnown, updates # <<>>, updates' = Tail(updates)
  PROVE  QueueKnown' /\ Head(updates) \in Updates
         /\ (Head(updates).kind = "call" => Head(updates).state # "none")
  BY TailIndex DEF QueueKnown

\* TdClient's requests are typed.
LEMMA SendTypes ==
  ASSUME requests \in Seq(Requests), NEW r \in Requests, Send(r)
  PROVE  requests' \in Seq(Requests)
  BY DEF Send

\* pushUrl while a call event is handled, or not.
LEMMA AutoOpenViews ==
  ASSUME ScreenTypes, NEW c \in Calls, NEW state \in TdStates, state # "none",
         AutoOpen(c, state, [s \in Screens |-> Observed(vm[s], c, state)])
  PROVE  \/ /\ ViewsKept /\ stack' = stack
            /\ lastOpenedIncomingCallId' \in {lastOpenedIncomingCallId, NoCall}
            /\ state = "pending" /\ c \in Incoming =>
                 \/ lastOpenedIncomingCallId' = NoCall
                 \/ lastOpenedIncomingCallId' = c
            /\ state # "pending" \/ c \notin Incoming =>
                 lastOpenedIncomingCallId' = IF state \in Over /\ lastOpenedIncomingCallId = c
                                             THEN NoCall ELSE lastOpenedIncomingCallId
         \/ \E s : /\ PageOpened(s, "pendingAccept", c)
                   /\ stack' = Append(stack, s)
                   /\ lastOpenedIncomingCallId' = c
                   /\ c \in Incoming /\ state = "pending" /\ lastOpenedIncomingCallId # c
<1> DEFINE vms == [s \in Screens |-> Observed(vm[s], c, state)]
<1>1. \A s \in Screens : Keeps(vm[s], vms[s])
  BY ObservedKeeps DEF ScreenTypes, ScreenTypeOK
<1>2. vms \in [Screens -> ViewModels]
  BY <1>1 DEF Keeps
<1>3. AutoOpen(c, state, vms)
  OBVIOUS
<1> HIDE DEF vms
<1>4. CASE c \in Incoming /\ state = "pending" /\ lastOpenedIncomingCallId # c
  <2>1. CASE vm' = vms /\ lastOpenedIncomingCallId' = NoCall /\ UNCHANGED stack
    <3>1. ViewsKept
      BY <1>1, <1>2, <2>1 DEF ViewsKept
    <3> QED BY <1>4, <2>1, <3>1
  <2>2. CASE \E s \in Unused :
               /\ vm' = [vms EXCEPT ![s] = Opened("pendingAccept", c)]
               /\ stack' = Append(stack, s)
               /\ lastOpenedIncomingCallId' = c
    <3>1. PICK s \in Unused :
               /\ vm' = [vms EXCEPT ![s] = Opened("pendingAccept", c)]
               /\ stack' = Append(stack, s)
               /\ lastOpenedIncomingCallId' = c
      BY <2>2
    <3>2. s \in Screens /\ vm[s].stage = "unused" /\ "pendingAccept" \in Routes \ {"outgoing"}
      BY DEF Unused, Routes
    <3>3. Opened("pendingAccept", c) \in ViewModels
      BY <3>2, OpenedFields
    <3>4. PageOpened(s, "pendingAccept", c)
      BY <1>1, <1>2, <3>1, <3>2, <3>3 DEF PageOpened
    <3> QED BY <1>4, <3>1, <3>4
  <2> QED BY <1>3, <1>4, <2>1, <2>2 DEF AutoOpen
<1>5. CASE ~(c \in Incoming /\ state = "pending" /\ lastOpenedIncomingCallId # c)
  <2>1. /\ vm' = vms /\ stack' = stack
        /\ lastOpenedIncomingCallId' = IF state \in Over /\ lastOpenedIncomingCallId = c
                                       THEN NoCall ELSE lastOpenedIncomingCallId
    BY <1>3, <1>5 DEF AutoOpen
  <2>2. ViewsKept
    BY <1>1, <1>2, <2>1 DEF ViewsKept
  <2> QED BY <1>5, <2>1, <2>2 DEF Over
<1> QED BY <1>4, <1>5

-----------------------------------------------------------------------------
(* Every step keeps the types; every step but those that open a page for a *)
(* call leaves each screen its route and its call.                         *)

LEMMA TdlibStep ==
  ASSUME ScreenTypes, TdlibServes \/ \E c \in Calls : TdlibProgress(c)
  PROVE  ScreenTypes' /\ ViewsKept /\ TdlibMoves
         /\ UNCHANGED <<notification, vm, lastOpenedIncomingCallId, answered>>
<1>1. TdlibMoves
  BY ProgressMoves, ServesMoves DEF ScreenTypes
<1>2. requests' \in Seq(Requests)
  <2>1. CASE TdlibServes
    BY <2>1, TailIndex DEF TdlibServes, ScreenTypes, ScreenTypeOK
  <2>2. CASE \E c \in Calls : TdlibProgress(c)
    BY <2>2 DEF TdlibProgress, ScreenTypes, ScreenTypeOK
  <2> QED BY <2>1, <2>2
<1>3. UNCHANGED <<notification, authorized, creating, stack, vm,
                  lastOpenedIncomingCallId, audioOwner, answered>>
  BY DEF TdlibServes, TdlibProgress
<1>4. ViewsKept
  BY <1>3, SameViews DEF ScreenTypes, ScreenTypeOK
<1>5. RestTypes' /\ QueueKnown'
  BY <1>1, <1>2, <1>3, MovesTypes DEF ScreenTypes, ScreenTypeOK, RestTypes, QueueKnown
<1> QED BY <1>1, <1>3, <1>4, <1>5, KeptTypes DEF ScreenTypes, ScreenTypeOK

LEMMA HandleCallUpdateTypes ==
  ASSUME ScreenTypes, HandleCallUpdate
  PROVE  ScreenTypes'
<1> DEFINE u == Head(updates)
<1>1. RestTypes /\ QueueKnown
  BY TypesSplit
<1>2. QueueKnown' /\ u \in Updates /\ u.kind = "call" /\ u.state # "none"
  BY <1>1, TailKnown DEF HandleCallUpdate
<1>3. u.call \in Calls /\ u.state \in TdStates
  BY <1>2, UpdateFields
<1>4. /\ AutoOpen(u.call, u.state, [s \in Screens |-> Observed(vm[s], u.call, u.state)])
      /\ notification' = [notification EXCEPT ![u.call] = NotificationFor(u.call, u.state)]
      /\ UNCHANGED <<td, requests, authorized, creating, audioOwner, answered>>
  BY DEF HandleCallUpdate
<1> HIDE DEF u
<1>5. NotificationFor(u.call, u.state) \in {"none", "incoming", "ongoing"}
  BY DEF NotificationFor
<1>6. notification' \in [Calls -> {"none", "incoming", "ongoing"}]
  BY <1>1, <1>4, <1>5 DEF RestTypes
<1>7. CASE ViewsKept /\ stack' = stack
           /\ lastOpenedIncomingCallId' \in {lastOpenedIncomingCallId, NoCall}
  <2>1. RestTypes'
    BY <1>1, <1>4, <1>6, <1>7 DEF RestTypes
  <2> QED BY <1>2, <1>4, <1>7, <2>1, KeptTypes DEF ScreenTypes, ScreenTypeOK
<1>8. CASE \E s : PageOpened(s, "pendingAccept", u.call) /\ stack' = Append(stack, s)
                  /\ lastOpenedIncomingCallId' = u.call /\ u.call \in Incoming
  <2>1. PICK s : PageOpened(s, "pendingAccept", u.call) /\ stack' = Append(stack, s)
                 /\ lastOpenedIncomingCallId' = u.call /\ u.call \in Incoming
    BY <1>8
  <2>2. s \in Screens
    BY <2>1 DEF PageOpened
  <2>3. RestTypes'
    BY <1>1, <1>4, <1>6, <2>1, <2>2 DEF RestTypes
  <2> QED BY <1>2, <1>4, <2>1, <2>3, OpenedTypes
<1> QED BY <1>2, <1>3, <1>4, <1>7, <1>8, AutoOpenViews

LEMMA HandleCreateAnswerStep ==
  ASSUME ScreenTypes, HandleCreateAnswer
  PROVE  ScreenTypes' /\ ViewsKept
<1> DEFINE u == Head(updates)
<1>1. RestTypes /\ QueueKnown
  BY TypesSplit
<1>2. QueueKnown' /\ u \in Updates /\ u.kind # "call"
  BY <1>1, TailKnown DEF HandleCreateAnswer
<1>3. u.screen \in Screens /\ (u.kind = "created" => u.call \in Calls)
  BY <1>2, UpdateFields
<1>4. /\ creating' = creating \ {u.screen}
      /\ vm' = IF u.screen \notin creating THEN vm
               ELSE IF u.kind = "created"
               THEN [vm EXCEPT ![u.screen].call = u.call]
               ELSE [vm EXCEPT ![u.screen] = Emitted(@, "createFailed")]
      /\ UNCHANGED <<td, requests, notification, authorized, stack,
                     lastOpenedIncomingCallId, audioOwner, answered>>
  BY DEF HandleCreateAnswer
<1> HIDE DEF u
<1>5. vm \in [Screens -> ViewModels]
  BY DEF ScreenTypes, ScreenTypeOK
<1>6. ViewsKept
  <2>1. CASE u.screen \notin creating
    BY <1>4, <1>5, <2>1, SameViews
  <2>2. CASE u.screen \in creating /\ u.kind = "created"
    <3> DEFINE w == [vm[u.screen] EXCEPT !.call = u.call]
    <3>1. vm[u.screen].route = "outgoing" /\ vm[u.screen] \in ViewModels
      BY <1>3, <1>5, <2>2 DEF ScreenTypes, ScreensKnown
    <3>2. Keeps(vm[u.screen], w)
      BY <1>3, <2>2, <3>1 DEF Keeps, ViewModels
    <3>3. vm' = [vm EXCEPT ![u.screen] = w]
      BY <1>4, <2>2
    <3> HIDE DEF w
    <3> QED BY <1>3, <1>5, <3>2, <3>3, OneKept
  <2>3. CASE u.screen \in creating /\ u.kind # "created"
    <3>1. Keeps(vm[u.screen], Emitted(vm[u.screen], "createFailed"))
      BY <1>3, <1>5, EmittedKeeps DEF Phases, TerminalPhases, ErrorPhases
    <3>2. vm' = [vm EXCEPT ![u.screen] = Emitted(vm[u.screen], "createFailed")]
      BY <1>4, <2>3
    <3> QED BY <1>3, <1>5, <3>1, <3>2, OneKept
  <2> QED BY <2>1, <2>2, <2>3
<1>7. RestTypes'
  BY <1>1, <1>4 DEF RestTypes
<1> QED BY <1>2, <1>4, <1>6, <1>7, KeptTypes DEF ScreenTypes, ScreenTypeOK

LEMMA OpenOutgoingStep ==
  ASSUME ScreenTypes, NEW s \in Screens, OpenOutgoing(s)
  PROVE  ScreenTypes' /\ ViewsKept
<1> USE DEF ScreenTypes, ScreenTypeOK
<1>1. Keeps(vm[s], Opened("outgoing", NoCall))
  <2>1. vm[s].route = "outgoing"
    BY DEF OpenOutgoing, Unused, ScreensKnown
  <2> QED BY <2>1, OpenedFields DEF Keeps, Routes
<1>2. ViewsKept
  BY <1>1, OneKept DEF OpenOutgoing, Push1
<1>3. RestTypes' /\ QueueKnown'
  BY DEF OpenOutgoing, Push1, tdVars, RestTypes, QueueKnown, ScreensKnown
<1> QED BY <1>2, <1>3, KeptTypes DEF OpenOutgoing

\* start: the screen begins to show its call.
LEMMA AppearStep ==
  ASSUME ScreenTypes, NEW s \in Screens, Appear(s)
  PROVE  /\ ScreenTypes' /\ ViewsKept
         /\ answered' = answered
            \/ /\ answered' = answered \cup {vm[s].call}
               /\ vm[s].route = "incoming" /\ vm'[s].phase = "answering"
               /\ \A t \in Screens \ {s} : vm'[t] = vm[t]
<1> USE DEF ScreenTypes, ScreenTypeOK
<1> DEFINE v == [vm[s] EXCEPT !.stage = "shown", !.subscribed = TRUE]
           answering == Emitted(v, "answering")
<1>1. v \in ViewModels
      /\ v.route = vm[s].route /\ v.call = vm[s].call /\ v.stage = "shown" /\ v.phase = vm[s].phase
  BY ZenonT(30) DEF ViewModels
<1>2. vm[s].stage = "opening" /\ audioOwner' = s
      /\ UNCHANGED <<td, updates, notification, authorized, stack, lastOpenedIncomingCallId>>
  BY DEF Appear
<1>3. Keeps(vm[s], v)
  BY <1>1, <1>2 DEF Keeps
<1>4. {"answering", "incomingRinging", "connected", "createFailed", "answerFailed"} \subseteq Phases
  BY DEF Phases, TerminalPhases, ErrorPhases
<1>5. QueueKnown'
  BY <1>2 DEF QueueKnown, ScreensKnown
<1>6. answering \in ViewModels /\ Keeps(v, answering) /\ answering.phase = "answering"
  BY <1>1, <1>4, EmittedFields, EmittedKeeps
<1>7. \/ /\ v.route = "pendingAccept"
         /\ vm' = [vm EXCEPT ![s] = Emitted(v, "incomingRinging")]
         /\ UNCHANGED <<requests, answered, creating>>
      \/ /\ v.route = "resume"
         /\ vm' = [vm EXCEPT ![s] = Emitted(v, "connected")]
         /\ UNCHANGED <<requests, answered, creating>>
      \/ /\ v.route = "incoming"
         /\ Send([kind |-> "accept", call |-> v.call])
         /\ vm' = [vm EXCEPT ![s] = [answering EXCEPT !.acceptDispatched = TRUE]]
         /\ answered' = answered \cup {v.call}
         /\ UNCHANGED creating
      \/ /\ v.route = "incoming"
         /\ vm' = [vm EXCEPT ![s] = Emitted(answering, "answerFailed")]
         /\ UNCHANGED <<requests, answered, creating>>
      \/ /\ v.route = "outgoing"
         /\ Send([kind |-> "create", screen |-> s])
         /\ creating' = creating \cup {s}
         /\ vm' = [vm EXCEPT ![s] = v]
         /\ UNCHANGED answered
      \/ /\ v.route = "outgoing"
         /\ vm' = [vm EXCEPT ![s] = Emitted(v, "createFailed")]
         /\ UNCHANGED <<requests, answered, creating>>
  BY DEF Appear
<1> HIDE DEF v, answering
<1>8. ASSUME NEW w, Keeps(vm[s], w), vm' = [vm EXCEPT ![s] = w],
             UNCHANGED <<requests, answered, creating>>
      PROVE  ScreenTypes' /\ ViewsKept
  <2>1. ViewsKept
    BY <1>8, OneKept
  <2>2. RestTypes'
    BY <1>2, <1>8 DEF RestTypes
  <2> QED BY <1>2, <1>5, <1>8, <2>1, <2>2, KeptTypes
<1>9. CASE /\ v.route = "pendingAccept"
           /\ vm' = [vm EXCEPT ![s] = Emitted(v, "incomingRinging")]
           /\ UNCHANGED <<requests, answered, creating>>
  <2>1. Keeps(vm[s], Emitted(v, "incomingRinging"))
    BY <1>1, <1>2, <1>4, <1>9, EmittedFields DEF Keeps
  <2> QED BY <1>8, <1>9, <2>1
<1>10. CASE /\ v.route = "resume"
            /\ vm' = [vm EXCEPT ![s] = Emitted(v, "connected")]
            /\ UNCHANGED <<requests, answered, creating>>
  BY <1>1, <1>3, <1>4, <1>8, <1>10, EmittedKeeps, KeepsTwice
<1>11. CASE /\ v.route = "incoming"
            /\ Send([kind |-> "accept", call |-> v.call])
            /\ vm' = [vm EXCEPT ![s] = [answering EXCEPT !.acceptDispatched = TRUE]]
            /\ answered' = answered \cup {v.call}
            /\ UNCHANGED creating
  <2> DEFINE w == [answering EXCEPT !.acceptDispatched = TRUE]
  <2>1. Keeps(answering, w) /\ w.phase = "answering"
    BY <1>6 DEF Keeps, ViewModels
  <2>2. vm' = [vm EXCEPT ![s] = w]
    BY <1>11
  <2> HIDE DEF w
  <2>3. Keeps(vm[s], w)
    BY <1>3, <1>6, <2>1, KeepsTwice
  <2>4. ViewsKept /\ vm'[s] = w
    BY <2>2, <2>3, OneKept
  <2>5. v.call \in Calls
    BY <1>1, <1>11 DEF ScreensKnown, ViewModels
  <2>6. requests' \in Seq(Requests)
    BY <1>11, <2>5, SendTypes DEF Requests
  <2>7. RestTypes'
    BY <1>2, <1>11, <2>5, <2>6 DEF RestTypes
  <2>8. \A t \in Screens \ {s} : vm'[t] = vm[t]
    BY <2>2
  <2> QED BY <1>1, <1>2, <1>5, <1>11, <2>1, <2>4, <2>7, <2>8, KeptTypes
<1>12. CASE /\ v.route = "incoming"
            /\ vm' = [vm EXCEPT ![s] = Emitted(answering, "answerFailed")]
            /\ UNCHANGED <<requests, answered, creating>>
  BY <1>3, <1>4, <1>6, <1>8, <1>12, EmittedKeeps, KeepsTwice
<1>13. CASE /\ v.route = "outgoing"
            /\ Send([kind |-> "create", screen |-> s])
            /\ creating' = creating \cup {s}
            /\ vm' = [vm EXCEPT ![s] = v]
            /\ UNCHANGED answered
  <2>1. ViewsKept /\ vm'[s] = v
    BY <1>3, <1>13, OneKept
  <2>2. requests' \in Seq(Requests)
    BY <1>13, SendTypes DEF Requests
  <2>3. RestTypes'
    BY <1>2, <1>13, <2>2 DEF RestTypes
  <2>4. ASSUME NEW t \in Screens
        PROVE  /\ vm'[t].route # "outgoing" => vm'[t].call # NoCall
               /\ vm'[t].phase = "incomingRinging" => vm'[t].route = "pendingAccept"
               /\ vm'[t].stage = "unused" => vm'[t].route = "outgoing"
               /\ t \in creating' => vm'[t].route = "outgoing" /\ vm'[t].stage # "unused"
    <3>1. CASE t = s
      BY <1>1, <1>13, <2>1, <3>1 DEF ScreensKnown
    <3>2. CASE t # s
      BY <1>13, <3>2 DEF ScreensKnown
    <3> QED BY <3>1, <3>2
  <2> QED
    BY <1>2, <1>5, <1>13, <2>1, <2>3, <2>4 DEF ScreensKnown, RestTypes, QueueKnown, ViewsKept
<1>14. CASE /\ v.route = "outgoing"
            /\ vm' = [vm EXCEPT ![s] = Emitted(v, "createFailed")]
            /\ UNCHANGED <<requests, answered, creating>>
  BY <1>1, <1>3, <1>4, <1>8, <1>14, EmittedKeeps, KeepsTwice
<1> QED BY <1>7, <1>9, <1>10, <1>11, <1>12, <1>13, <1>14, <1>8

\* router.back disposes the page on top, whichever it is.
LEMMA PopStep ==
  ASSUME ScreenTypes, NEW vms \in [Screens -> ViewModels],
         \A s \in Screens : Keeps(vm[s], vms[s]), PopTop(vms),
         UNCHANGED <<tdVars, notification, authorized, creating,
                     lastOpenedIncomingCallId, answered>>
  PROVE  ScreenTypes' /\ ViewsKept
<1> USE DEF ScreenTypes, ScreenTypeOK
<1>1. vm' = [vms EXCEPT ![Top].stage = "gone", ![Top].subscribed = FALSE,
                        ![Top].ticking = FALSE, ![Top].finish = "none"]
      /\ stack' = SubSeq(stack, 1, Len(stack) - 1) /\ audioOwner' = NoScreen
  BY DEF PopTop
<1>2. ViewsKept
  <2>1. CASE Top \in Screens
    <3> DEFINE w == [vms[Top] EXCEPT !.stage = "gone", !.subscribed = FALSE,
                                     !.ticking = FALSE, !.finish = "none"]
    <3>1. vms[Top] \in ViewModels /\ Keeps(vm[Top], vms[Top])
      BY <2>1
    <3>2. Keeps(vms[Top], w)
      BY <3>1 DEF Keeps, ViewModels
    <3>3. vm' = [vms EXCEPT ![Top] = w]
      BY <1>1, <2>1
    <3> HIDE DEF w
    <3>4. Keeps(vm[Top], w) /\ w \in ViewModels
      BY <3>1, <3>2, KeepsTwice DEF Keeps
    <3> QED BY <2>1, <3>3, <3>4 DEF ViewsKept
  <2>2. CASE Top \notin Screens
    <3>1. vm' = vms
      BY <1>1, <2>2
    <3> QED BY <3>1 DEF ViewsKept
  <2> QED BY <2>1, <2>2
<1>3. stack' \in Seq(Screens)
  BY <1>1
<1>4. RestTypes' /\ QueueKnown'
  BY <1>1, <1>3 DEF RestTypes, QueueKnown, ScreensKnown, tdVars
<1> QED BY <1>2, <1>4, KeptTypes

LEMMA ReturnTimerStep ==
  ASSUME ScreenTypes, NEW s \in Screens, ReturnTimer(s)
  PROVE  ScreenTypes' /\ ViewsKept
<1> DEFINE w == [vm[s] EXCEPT !.finish = "fired"]
           vms == [vm EXCEPT ![s] = w]
<1>1. vm \in [Screens -> ViewModels]
  BY DEF ScreenTypes, ScreenTypeOK
<1>2. w \in ViewModels /\ Keeps(vm[s], w)
  BY <1>1 DEF Keeps, ViewModels
<1>3. [vm EXCEPT ![s].finish = "fired"] = vms
  BY <1>1
<1>4. PopTop(vms)
      /\ UNCHANGED <<tdVars, notification, authorized, creating, lastOpenedIncomingCallId, answered>>
  BY <1>3 DEF ReturnTimer
<1> HIDE DEF w
<1>5. vms \in [Screens -> ViewModels] /\ \A t \in Screens : Keeps(vm[t], vms[t])
  BY <1>1, <1>2, KeepsSame
<1> QED BY <1>4, <1>5, PopStep

LEMMA BackOutStep ==
  ASSUME ScreenTypes, NEW s \in Screens, BackOut(s)
  PROVE  ScreenTypes' /\ ViewsKept
<1>1. vm \in [Screens -> ViewModels]
  BY DEF ScreenTypes, ScreenTypeOK
<1>2. \A t \in Screens : Keeps(vm[t], vm[t])
  BY <1>1, KeepsSame
<1> QED BY <1>1, <1>2, PopStep DEF BackOut

\* A tap changes the screen on top and may send a request.
LEMMA TapStep ==
  ASSUME ScreenTypes, NEW s \in Screens, NEW w, Keeps(vm[s], w), vm' = [vm EXCEPT ![s] = w],
         requests' \in Seq(Requests), answered' \subseteq Calls,
         UNCHANGED <<td, updates, notification, authorized, creating, stack,
                     lastOpenedIncomingCallId, audioOwner>>
  PROVE  ScreenTypes' /\ ViewsKept
<1> USE DEF ScreenTypes, ScreenTypeOK
<1>1. ViewsKept
  BY OneKept
<1>2. RestTypes' /\ QueueKnown'
  BY DEF RestTypes, QueueKnown, ScreensKnown
<1> QED BY <1>1, <1>2, KeptTypes

\* A screen that rings knows its call.
LEMMA RingingCall ==
  ASSUME ScreenTypes, NEW s \in Screens, vm[s].phase = "incomingRinging"
  PROVE  vm[s] \in ViewModels /\ vm[s].call \in Calls /\ vm[s].route = "pendingAccept"
  BY DEF ScreenTypes, ScreenTypeOK, ScreensKnown, ViewModels

LEMMA AcceptTapStep ==
  ASSUME ScreenTypes, NEW s \in Screens, AcceptTap(s)
  PROVE  /\ ScreenTypes' /\ ViewsKept
         /\ answered' = answered
            \/ /\ answered' = answered \cup {vm[s].call}
               /\ vm[s].route = "pendingAccept" /\ vm'[s].phase = "answering"
               /\ \A t \in Screens \ {s} : vm'[t] = vm[t]
<1> DEFINE answering == Emitted(vm[s], "answering")
<1>1. vm[s] \in ViewModels /\ vm[s].call \in Calls /\ vm[s].route = "pendingAccept"
  BY RingingCall DEF AcceptTap
<1>2. {"answering", "answerFailed"} \subseteq Phases
  BY DEF Phases, TerminalPhases, ErrorPhases
<1>3. answering \in ViewModels /\ Keeps(vm[s], answering) /\ answering.phase = "answering"
  BY <1>1, <1>2, EmittedFields, EmittedKeeps
<1>4. UNCHANGED <<td, updates, notification, authorized, creating, stack,
                  lastOpenedIncomingCallId, audioOwner>>
  BY DEF AcceptTap
<1>5. CASE authorized
  <2> DEFINE w == [answering EXCEPT !.acceptDispatched = TRUE]
  <2>1. /\ Send([kind |-> "accept", call |-> vm[s].call])
        /\ vm' = [vm EXCEPT ![s] = w]
        /\ answered' = answered \cup {vm[s].call}
    BY <1>5 DEF AcceptTap
  <2> HIDE DEF answering
  <2>2. Keeps(answering, w) /\ w.phase = "answering"
    BY <1>3 DEF Keeps, ViewModels
  <2> HIDE DEF w
  <2>3. Keeps(vm[s], w)
    BY <1>3, <2>2, KeepsTwice
  <2>4. requests' \in Seq(Requests) /\ answered' \subseteq Calls
    BY <1>1, <2>1, SendTypes DEF Requests, ScreenTypes, ScreenTypeOK
  <2>5. ScreenTypes' /\ ViewsKept
    BY <1>4, <2>1, <2>3, <2>4, TapStep
  <2>6. vm'[s] = w /\ \A t \in Screens \ {s} : vm'[t] = vm[t]
    BY <2>1 DEF ScreenTypes, ScreenTypeOK
  <2> QED BY <1>1, <2>1, <2>2, <2>5, <2>6
<1>6. CASE ~authorized
  <2>1. vm' = [vm EXCEPT ![s] = Emitted(answering, "answerFailed")]
        /\ UNCHANGED <<requests, answered>>
    BY <1>6 DEF AcceptTap
  <2> HIDE DEF answering
  <2>2. Keeps(vm[s], Emitted(answering, "answerFailed"))
    BY <1>2, <1>3, EmittedKeeps, KeepsTwice
  <2>3. requests' \in Seq(Requests) /\ answered' \subseteq Calls
    BY <2>1 DEF ScreenTypes, ScreenTypeOK
  <2> QED BY <1>4, <2>1, <2>2, <2>3, TapStep
<1> QED BY <1>5, <1>6

\* Declining and ending: the screen says it ends, and a discardCall goes out.
LEMMA EndingKeeps ==
  ASSUME NEW v \in ViewModels
  PROVE  /\ Keeps(v, Emitted(v, "ending"))
         /\ Keeps(v, [Emitted(v, "ending") EXCEPT !.rejectDispatched = TRUE])
         /\ Keeps(v, [Emitted(v, "ending") EXCEPT !.endDispatched = TRUE])
<1> DEFINE e == Emitted(v, "ending")
<1>1. e \in ViewModels /\ Keeps(v, e)
  BY EmittedFields, EmittedKeeps DEF Phases
<1> HIDE DEF e
<1>2. Keeps(e, [e EXCEPT !.rejectDispatched = TRUE])
      /\ Keeps(e, [e EXCEPT !.endDispatched = TRUE])
  BY <1>1 DEF Keeps, ViewModels
<1>3. /\ Keeps(v, e)
      /\ Keeps(v, [e EXCEPT !.rejectDispatched = TRUE])
      /\ Keeps(v, [e EXCEPT !.endDispatched = TRUE])
  BY <1>1, <1>2, KeepsTwice
<1> QED BY <1>3 DEF e

LEMMA DeclineTapStep ==
  ASSUME ScreenTypes, NEW s \in Screens, DeclineTap(s)
  PROVE  ScreenTypes' /\ ViewsKept
<1>1. vm[s] \in ViewModels /\ vm[s].call \in Calls
  BY RingingCall DEF DeclineTap, MayDecline
<1>2. PICK w : Keeps(vm[s], w) /\ vm' = [vm EXCEPT ![s] = w]
  BY <1>1, EndingKeeps DEF DeclineTap
<1>3. requests' \in Seq(Requests)
  <2>1. requests \in Seq(Requests)
    BY DEF ScreenTypes, ScreenTypeOK
  <2>2. [kind |-> "discard", call |-> vm[s].call] \in Requests
    BY <1>1 DEF Requests
  <2> QED BY <2>1, <2>2, SendTypes DEF DeclineTap
<1>4. answered' \subseteq Calls
  BY DEF DeclineTap, ScreenTypes, ScreenTypeOK
<1> QED BY <1>2, <1>3, <1>4, TapStep DEF DeclineTap

LEMMA BackPressStep ==
  ASSUME ScreenTypes, NEW s \in Screens, BackPress(s)
  PROVE  ScreenTypes' /\ ViewsKept
<1>1. vm[s] \in ViewModels /\ vm \in [Screens -> ViewModels] /\ requests \in Seq(Requests)
      /\ EndCall(s)
  BY DEF ScreenTypes, ScreenTypeOK, BackPress
<1>2. PICK w : Keeps(vm[s], w) /\ vm' = [vm EXCEPT ![s] = w]
  <2>1. CASE vm' = vm
    <3>1. vm' = [vm EXCEPT ![s] = vm[s]]
      BY <1>1, <2>1
    <3> QED BY <1>1, <3>1, KeepsSame
  <2>2. CASE vm' # vm
    BY <1>1, <2>2, EndingKeeps DEF EndCall
  <2> QED BY <2>1, <2>2
<1>3. requests' \in Seq(Requests)
  <2>1. CASE vm[s].call = NoCall
    BY <1>1, <2>1 DEF EndCall
  <2>2. CASE vm[s].call # NoCall
    <3>1. [kind |-> "discard", call |-> vm[s].call] \in Requests
      BY <1>1, <2>2 DEF Requests, ViewModels
    <3> QED BY <1>1, <3>1, SendTypes DEF EndCall
  <2> QED BY <2>1, <2>2
<1>4. answered' \subseteq Calls
  BY DEF BackPress, ScreenTypes, ScreenTypeOK
<1> QED BY <1>2, <1>3, <1>4, TapStep DEF BackPress

\* The notification's actions that open a page.
LEMMA PushStep ==
  ASSUME ScreenTypes, NEW s \in Unused, NEW route \in Routes \ {"outgoing"}, NEW c \in Calls,
         Push1(s, route, c),
         UNCHANGED <<tdVars, authorized, creating, lastOpenedIncomingCallId, audioOwner, answered>>,
         notification' \in [Calls -> {"none", "incoming", "ongoing"}]
  PROVE  ScreenTypes' /\ PageOpened(s, route, c)
<1> USE DEF ScreenTypes, ScreenTypeOK
<1>1. s \in Screens /\ vm[s].stage = "unused" /\ Opened(route, c) \in ViewModels
  BY OpenedFields DEF Unused
<1>2. vm' = [vm EXCEPT ![s] = Opened(route, c)] /\ stack' = Append(stack, s)
  BY DEF Push1
<1>3. \A t \in Screens \ {s} : vm'[t] = vm[t] /\ Keeps(vm[t], vm'[t])
  BY <1>2, KeepsSame
<1>4. PageOpened(s, route, c)
  BY <1>1, <1>2, <1>3 DEF PageOpened
<1>5. RestTypes' /\ QueueKnown'
  BY <1>1, <1>2 DEF RestTypes, QueueKnown, ScreensKnown, tdVars
<1> QED BY <1>4, <1>5, OpenedTypes

LEMMA ResumeStep ==
  ASSUME ScreenTypes, NEW c \in Calls, NotificationResume(c)
  PROVE  ScreenTypes' /\ \E s : PageOpened(s, "resume", c)
<1>1. PICK s \in Unused : Push1(s, "resume", c)
  BY DEF NotificationResume
<1>2. "resume" \in Routes \ {"outgoing"}
  BY DEF Routes
<1>3. UNCHANGED <<tdVars, authorized, creating, lastOpenedIncomingCallId, audioOwner, answered>>
      /\ notification' \in [Calls -> {"none", "incoming", "ongoing"}]
  BY DEF NotificationResume, ScreenTypes, ScreenTypeOK
<1> QED BY <1>1, <1>2, <1>3, PushStep

\* The answer from the notification: a page is opened, or the screens that
\* are there are told.
LEMMA AnswerStep ==
  ASSUME ScreenTypes, NEW c \in Calls, NotificationAnswer(c)
  PROVE  /\ ScreenTypes'
         /\ \/ /\ ViewsKept
               /\ \/ answered' = answered
                  \/ /\ answered' = answered \cup {c}
                     /\ \A s \in Screens : vm'[s] = ToldAccepted(vm[s], c)
            \/ /\ lastOpenedIncomingCallId # c /\ answered' = answered
               /\ \E s : PageOpened(s, "incoming", c)
<1> USE DEF ScreenTypes, ScreenTypeOK
<1>1. notification' \in [Calls -> {"none", "incoming", "ongoing"}]
      /\ UNCHANGED <<td, updates, authorized, creating, lastOpenedIncomingCallId, audioOwner>>
  BY DEF NotificationAnswer
<1>2. CASE lastOpenedIncomingCallId = c
  <2>1. CASE authorized
    <3>1. /\ Send([kind |-> "accept", call |-> c])
          /\ answered' = answered \cup {c}
          /\ vm' = [s \in Screens |-> ToldAccepted(vm[s], c)]
          /\ UNCHANGED stack
      BY <1>2, <2>1 DEF NotificationAnswer
    <3>2. \A s \in Screens : vm'[s] = ToldAccepted(vm[s], c)
      BY <3>1
    <3>3. \A s \in Screens : Keeps(vm[s], vm'[s])
      BY <3>2, ToldKeeps
    <3>4. ViewsKept
      BY <3>1, <3>3 DEF ViewsKept, Keeps
    <3>5. requests' \in Seq(Requests)
      BY <3>1, SendTypes DEF Requests
    <3>6. RestTypes' /\ QueueKnown'
      BY <1>1, <3>1, <3>5 DEF RestTypes, QueueKnown, ScreensKnown
    <3> QED BY <1>1, <3>1, <3>2, <3>4, <3>6, KeptTypes
  <2>2. CASE ~authorized
    <3>1. UNCHANGED <<requests, answered, vm, stack>>
      BY <1>2, <2>2 DEF NotificationAnswer
    <3>2. ViewsKept
      BY <3>1, SameViews
    <3>3. RestTypes' /\ QueueKnown'
      BY <1>1, <3>1 DEF RestTypes, QueueKnown, ScreensKnown
    <3> QED BY <1>1, <3>1, <3>2, <3>3, KeptTypes
  <2> QED BY <2>1, <2>2
<1>3. CASE lastOpenedIncomingCallId # c
  <2>1. PICK s \in Unused : Push1(s, "incoming", c)
    BY <1>3 DEF NotificationAnswer
  <2>2. "incoming" \in Routes \ {"outgoing"}
    BY DEF Routes
  <2>3. UNCHANGED <<tdVars, authorized, creating, lastOpenedIncomingCallId, audioOwner, answered>>
    BY <1>1, <1>3 DEF NotificationAnswer, tdVars
  <2> QED BY <1>1, <1>3, <2>1, <2>2, <2>3, PushStep
<1> QED BY <1>2, <1>3

LEMMA QuietStep ==
  ASSUME ScreenTypes,
         \/ \E c \in Calls : NotificationOnPhone(c) \/ NotificationReject(c)
         \/ LoseAuthorization
  PROVE  /\ ScreenTypes' /\ ViewsKept
         /\ UNCHANGED <<td, updates, vm, lastOpenedIncomingCallId, answered>>
         /\ \A c \in Calls : notification'[c] \in {notification[c], "none"}
<1> USE DEF ScreenTypes, ScreenTypeOK
<1>1. UNCHANGED <<td, updates, stack, vm, lastOpenedIncomingCallId, audioOwner, answered>>
      /\ creating' \subseteq creating /\ authorized' \in BOOLEAN
  BY DEF NotificationOnPhone, NotificationReject, LoseAuthorization, tdVars
<1>2. /\ notification' \in [Calls -> {"none", "incoming", "ongoing"}]
      /\ \A c \in Calls : notification'[c] \in {notification[c], "none"}
  BY DEF NotificationOnPhone, NotificationReject, LoseAuthorization
<1>3. requests' \in Seq(Requests)
  <2>1. CASE \E c \in Calls : NotificationReject(c)
    <3>1. PICK c \in Calls : NotificationReject(c)
      BY <2>1
    <3>2. [kind |-> "discard", call |-> c] \in Requests
      BY DEF Requests
    <3> QED BY <3>1, <3>2, SendTypes DEF NotificationReject
  <2>2. CASE LoseAuthorization \/ \E c \in Calls : NotificationOnPhone(c)
    BY <2>2 DEF NotificationOnPhone, LoseAuthorization, tdVars
  <2> QED BY <2>1, <2>2
<1>4. ViewsKept
  BY <1>1, SameViews
<1>5. RestTypes' /\ QueueKnown'
  BY <1>1, <1>2, <1>3 DEF RestTypes, QueueKnown, ScreensKnown
<1> QED BY <1>1, <1>2, <1>4, <1>5, KeptTypes

LEMMA StutterTypes ==
  ASSUME ScreenTypes, UNCHANGED screenVars
  PROVE  ScreenTypes'
  BY DEF ScreenTypes, ScreenTypeOK, ScreensKnown, screenVars, tdVars

LEMMA ScreenTypesStep == ScreenTypes /\ [ScreenNext]_screenVars => ScreenTypes'
<1> SUFFICES ASSUME ScreenTypes, [ScreenNext]_screenVars PROVE ScreenTypes'
  OBVIOUS
<1>1. CASE AppStep
  <2>1. CASE HandleCallUpdate
    BY <2>1, HandleCallUpdateTypes
  <2>2. CASE HandleCreateAnswer
    BY <2>2, HandleCreateAnswerStep
  <2>3. CASE \E s \in Screens : Appear(s)
    BY <2>3, AppearStep
  <2>4. CASE \E s \in Screens : ReturnTimer(s)
    BY <2>4, ReturnTimerStep
  <2> QED BY <1>1, <2>1, <2>2, <2>3, <2>4 DEF AppStep
<1>2. CASE UserStep
  <2>1. CASE \E s \in Screens : OpenOutgoing(s)
    BY <2>1, OpenOutgoingStep
  <2>2. CASE \E s \in Screens : AcceptTap(s)
    BY <2>2, AcceptTapStep
  <2>3. CASE \E s \in Screens : DeclineTap(s)
    BY <2>3, DeclineTapStep
  <2>4. CASE \E s \in Screens : BackPress(s)
    BY <2>4, BackPressStep
  <2>5. CASE \E s \in Screens : BackOut(s)
    BY <2>5, BackOutStep
  <2>6. CASE \E c \in Calls : NotificationAnswer(c)
    BY <2>6, AnswerStep
  <2>7. CASE \E c \in Calls : NotificationResume(c)
    BY <2>7, ResumeStep
  <2>8. CASE \E c \in Calls : NotificationOnPhone(c) \/ NotificationReject(c)
    BY <2>8, QuietStep
  <2> QED BY <1>2, <2>1, <2>2, <2>3, <2>4, <2>5, <2>6, <2>7, <2>8 DEF UserStep
<1>3. CASE TdlibServes \/ \E c \in Calls : TdlibProgress(c)
  BY <1>3, TdlibStep
<1>4. CASE LoseAuthorization
  BY <1>4, QuietStep
<1>5. CASE UNCHANGED screenVars
  BY <1>5, StutterTypes
<1> QED BY <1>1, <1>2, <1>3, <1>4, <1>5 DEF ScreenNext

LEMMA ScreenTypesAlways == ScreenSpec => []ScreenTypes
  BY ScreenTypesInit, ScreenTypesStep, PTL DEF ScreenSpec

\* Type correctness of the screens, of TDLib's queues and of the ability's
\* memory, for any calls and pages.
THEOREM ScreenTypeCorrect == ScreenSpec => []ScreenTypeOK
  BY ScreenTypesAlways, PTL DEF ScreenTypes

-----------------------------------------------------------------------------
(* The order in which TDLib tells of a call.                               *)

Tells(u, c, states) == u.kind = "call" /\ u.call = c /\ u.state \in states

\* In a queue q, while the calls are as t says: nothing is told of a call
\* that has not begun, the beginning of a call is told once, and after it
\* the end of a call that is over.
InOrder(q, t) ==
  /\ \A n \in DOMAIN q, c \in Calls : Tells(q[n], c, TdStates) => t[c] # "none"
  /\ \A m, n \in DOMAIN q, c \in Calls :
       Tells(q[m], c, {"pending"}) /\ Tells(q[n], c, {"pending"}) => m = n
  /\ \A n \in DOMAIN q, c \in Calls :
       Tells(q[n], c, {"pending"}) /\ t[c] \in Over =>
         \E m \in DOMAIN q : m > n /\ Tells(q[m], c, Over)

LEMMA TailInOrder ==
  ASSUME NEW q \in Seq(Updates), NEW t, InOrder(q, t), q # <<>>
  PROVE  InOrder(Tail(q), t)
<1> DEFINE r == Tail(q)
<1>1. /\ \A n \in DOMAIN r : n \in Nat \ {0} /\ n + 1 \in DOMAIN q /\ r[n] = q[n + 1]
      /\ \A n \in DOMAIN q : n \in Nat /\ n > 0
                             /\ (n > 1 => n - 1 \in DOMAIN r /\ r[n - 1] = q[n])
  BY TailIndex
<1> HIDE DEF r
<1>2. ASSUME NEW n \in DOMAIN r, NEW c \in Calls, Tells(r[n], c, TdStates)
      PROVE  t[c] # "none"
  BY <1>1, <1>2 DEF InOrder
<1>3. ASSUME NEW m \in DOMAIN r, NEW n \in DOMAIN r, NEW c \in Calls,
             Tells(r[m], c, {"pending"}), Tells(r[n], c, {"pending"})
      PROVE  m = n
  <2>1. m + 1 = n + 1
    BY <1>1, <1>3 DEF InOrder
  <2> QED BY <1>1, <2>1
<1>4. ASSUME NEW n \in DOMAIN r, NEW c \in Calls, Tells(r[n], c, {"pending"}), t[c] \in Over
      PROVE  \E m \in DOMAIN r : m > n /\ Tells(r[m], c, Over)
  <2>1. n + 1 \in DOMAIN q /\ Tells(q[n + 1], c, {"pending"})
    BY <1>1, <1>4
  <2>2. PICK m \in DOMAIN q : m > n + 1 /\ Tells(q[m], c, Over)
    BY <1>4, <2>1 DEF InOrder
  <2>3. n \in Nat \ {0} /\ m \in Nat
    BY <1>1
  <2>4. m - 1 \in DOMAIN r /\ r[m - 1] = q[m] /\ m - 1 > n
    BY <1>1, <2>2, <2>3
  <2> QED BY <2>2, <2>4
<1>5. InOrder(r, t)
  BY <1>2, <1>3, <1>4 DEF InOrder
<1> QED BY <1>5 DEF r

\* Updates that tell of no call change nothing.
LEMMA RestsInOrder ==
  ASSUME NEW q \in Seq(Updates), NEW t, InOrder(q, t),
         NEW us \in Seq(Updates), \A n \in DOMAIN us : us[n].kind # "call"
  PROVE  InOrder(q \o us, t)
<1> DEFINE r == q \o us
<1>1. /\ \A n \in DOMAIN q : n \in Nat /\ n <= Len(q) /\ n \in DOMAIN r /\ r[n] = q[n]
      /\ \A n \in DOMAIN us : Len(q) + n \in DOMAIN r /\ r[Len(q) + n] = us[n]
      /\ \A n \in DOMAIN r : n \in Nat /\ (n \in DOMAIN q \/ (n > Len(q) /\ n - Len(q) \in DOMAIN us))
      /\ Len(q) \in Nat
  BY AppendIndex
<1> HIDE DEF r
<1>2. ASSUME NEW n \in DOMAIN r, NEW c, NEW S, Tells(r[n], c, S)
      PROVE  n \in DOMAIN q /\ Tells(q[n], c, S)
  <2>1. CASE n > Len(q) /\ n - Len(q) \in DOMAIN us
    <3>1. n = Len(q) + (n - Len(q))
      BY <1>1
    <3>2. r[n] = us[n - Len(q)]
      BY <1>1, <2>1, <3>1
    <3> QED BY <1>2, <2>1, <3>2 DEF Tells
  <2> QED BY <1>1, <1>2, <2>1
<1>3. ASSUME NEW n \in DOMAIN r, NEW c \in Calls, Tells(r[n], c, TdStates)
      PROVE  t[c] # "none"
  BY <1>2, <1>3 DEF InOrder
<1>4. ASSUME NEW m \in DOMAIN r, NEW n \in DOMAIN r, NEW c \in Calls,
             Tells(r[m], c, {"pending"}), Tells(r[n], c, {"pending"})
      PROVE  m = n
  BY <1>2, <1>4 DEF InOrder
<1>5. ASSUME NEW n \in DOMAIN r, NEW c \in Calls, Tells(r[n], c, {"pending"}), t[c] \in Over
      PROVE  \E m \in DOMAIN r : m > n /\ Tells(r[m], c, Over)
  <2>1. PICK m \in DOMAIN q : m > n /\ Tells(q[m], c, Over)
    BY <1>2, <1>5 DEF InOrder
  <2> QED BY <1>1, <2>1
<1>6. InOrder(r, t)
  BY <1>3, <1>4, <1>5 DEF InOrder
<1> QED BY <1>6 DEF r

\* A call that moves is told of after all that was told before.
LEMMA MovesInOrder ==
  ASSUME ScreenTypeOK, InOrder(updates, td), NEW c, NEW state, NEW us, NEW k, Moves(c, state, us, k)
  PROVE  InOrder(updates', td')
<1> DEFINE l == Len(updates)
<1>1. /\ us \in Seq(Updates) /\ updates \in Seq(Updates) /\ updates' = updates \o us
      /\ k \in DOMAIN us /\ Tells(us[k], c, {state}) /\ c \in Calls
      /\ td' = [td EXCEPT ![c] = state] /\ td \in [Calls -> TdStates]
      /\ td[c] \notin Over /\ ((td[c] = "none") <=> (state = "pending"))
      /\ state \in TdStates \ {"none"} /\ us[k].state = state
      /\ \A n \in DOMAIN us : us[n].kind = "call" => n = k
  BY DEF Moves, CallUpdate, Tells, ScreenTypeOK
<1>2. /\ \A n \in DOMAIN updates : n \in Nat /\ n <= l /\ n \in DOMAIN updates' /\ updates'[n] = updates[n]
      /\ \A n \in DOMAIN us : n \in Nat /\ n > 0 /\ l + n \in DOMAIN updates' /\ updates'[l + n] = us[n]
      /\ \A n \in DOMAIN updates' :
           n \in Nat /\ (n \in DOMAIN updates \/ (n > l /\ n - l \in DOMAIN us))
      /\ l \in Nat
  <2>1. us \in Seq(Updates) /\ updates \in Seq(Updates) /\ updates' = updates \o us
    BY <1>1
  <2> QED BY <2>1, AppendIndex
<1> HIDE DEF l
<1>3. ASSUME NEW n \in DOMAIN updates', NEW d, NEW S, Tells(updates'[n], d, S)
      PROVE  \/ n \in DOMAIN updates /\ Tells(updates[n], d, S)
             \/ n = l + k /\ d = c /\ state \in S
  <2>1. CASE n > l /\ n - l \in DOMAIN us
    <3>1. n = l + (n - l)
      BY <1>2
    <3>2. updates'[n] = us[n - l]
      BY <1>2, <2>1, <3>1
    <3>3. n - l = k
      BY <1>1, <1>3, <2>1, <3>2 DEF Tells
    <3>4. d = c /\ state \in S
      BY <1>1, <1>3, <3>2, <3>3 DEF Tells
    <3> QED BY <3>1, <3>3, <3>4
  <2> QED BY <1>2, <1>3, <2>1
<1>4. \A d \in Calls : d # c => td'[d] = td[d]
  BY <1>1
<1>5. td'[c] = state
  BY <1>1
<1>6. ASSUME NEW n \in DOMAIN updates', NEW d \in Calls, Tells(updates'[n], d, TdStates)
      PROVE  td'[d] # "none"
  <2>1. CASE d = c
    BY <1>1, <1>5, <2>1
  <2>2. CASE d # c
    BY <1>3, <1>4, <1>6, <2>2 DEF InOrder
  <2> QED BY <2>1, <2>2
<1>7. ASSUME NEW n \in DOMAIN updates, state = "pending", Tells(updates[n], c, {"pending"})
      PROVE  FALSE
  <2>1. Tells(updates[n], c, TdStates)
    BY <1>7 DEF Tells, TdStates
  <2> QED BY <1>1, <1>7, <2>1 DEF InOrder
<1>8. ASSUME NEW m \in DOMAIN updates', NEW n \in DOMAIN updates', NEW d \in Calls,
             Tells(updates'[m], d, {"pending"}), Tells(updates'[n], d, {"pending"})
      PROVE  m = n
  <2>1. \/ m \in DOMAIN updates /\ Tells(updates[m], d, {"pending"})
        \/ m = l + k /\ d = c /\ state = "pending"
    BY <1>3, <1>8
  <2>2. \/ n \in DOMAIN updates /\ Tells(updates[n], d, {"pending"})
        \/ n = l + k /\ d = c /\ state = "pending"
    BY <1>3, <1>8
  <2> QED BY <1>7, <2>1, <2>2 DEF InOrder
<1>9. ASSUME NEW n \in DOMAIN updates', NEW d \in Calls,
             Tells(updates'[n], d, {"pending"}), td'[d] \in Over
      PROVE  \E m \in DOMAIN updates' : m > n /\ Tells(updates'[m], d, Over)
  <2>1. state # "pending" \/ d # c
    BY <1>5, <1>9 DEF Over
  <2>2. n \in DOMAIN updates /\ Tells(updates[n], d, {"pending"})
    BY <1>3, <1>9, <2>1
  <2>3. CASE d = c
    <3>1. state \in Over
      BY <1>5, <1>9, <2>3
    <3>2. updates'[l + k] = us[k] /\ l + k \in DOMAIN updates'
      BY <1>1, <1>2
    <3>3. Tells(updates'[l + k], d, Over)
      BY <1>1, <2>3, <3>1, <3>2 DEF Tells
    <3>4. l + k > n
      BY <1>1, <1>2, <2>2
    <3> QED BY <3>2, <3>3, <3>4
  <2>4. CASE d # c
    <3>1. PICK m \in DOMAIN updates : m > n /\ Tells(updates[m], d, Over)
      BY <1>4, <1>9, <2>2, <2>4 DEF InOrder
    <3> QED BY <1>2, <3>1
  <2> QED BY <2>3, <2>4
<1> QED BY <1>6, <1>8, <1>9 DEF InOrder

QueueOrder == InOrder(updates, td)

-----------------------------------------------------------------------------
(* The ability's memory.                                                   *)

\* TDLib's queue never loses an end, and a call that goes over has one.
LEMMA EndsTold ==
  ASSUME ScreenTypeOK, TdlibMoves, NEW c \in Calls,
         td[c] \in Over => EndQueued(c), td'[c] \in Over
  PROVE  EndQueued(c)'
<1>1. CASE UNCHANGED <<td, updates>>
  BY <1>1 DEF EndQueued
<1>2. CASE \E us : Rests(us)
  <2>1. PICK us : Rests(us)
    BY <1>2
  <2>2. td' = td /\ updates \in Seq(Updates) /\ us \in Seq(Updates) /\ updates' = updates \o us
    BY <2>1 DEF Rests, ScreenTypeOK
  <2>3. PICK n \in DOMAIN updates :
          updates[n].kind = "call" /\ updates[n].call = c /\ updates[n].state \in Over
    BY <2>2 DEF EndQueued
  <2>4. n \in DOMAIN updates' /\ updates'[n] = updates[n]
    BY <2>2, AppendIndex
  <2> QED BY <2>3, <2>4 DEF EndQueued
<1>3. CASE \E d, state, us, k : Moves(d, state, us, k)
  <2>1. PICK d, state, us, k : Moves(d, state, us, k)
    BY <1>3
  <2>2. updates \in Seq(Updates) /\ us \in Seq(Updates) /\ updates' = updates \o us
    BY <2>1 DEF Moves, ScreenTypeOK
  <2>3. CASE c = d
    <3>1. k \in DOMAIN us /\ us[k].kind = "call" /\ us[k].call = c /\ us[k].state = state
      BY <2>1, <2>3 DEF Moves, CallUpdate
    <3>2. state \in Over
      BY <2>1, <2>3 DEF Moves, ScreenTypeOK
    <3>3. Len(updates) + k \in DOMAIN updates' /\ updates'[Len(updates) + k] = us[k]
      BY <2>2, <3>1, AppendIndex
    <3> QED BY <3>1, <3>2, <3>3 DEF EndQueued
  <2>4. CASE c # d
    <3>1. td[c] \in Over
      BY <2>1, <2>4 DEF Moves, ScreenTypeOK
    <3>2. PICK n \in DOMAIN updates :
            updates[n].kind = "call" /\ updates[n].call = c /\ updates[n].state \in Over
      BY <3>1 DEF EndQueued
    <3>3. n \in DOMAIN updates' /\ updates'[n] = updates[n]
      BY <2>2, AppendIndex
    <3> QED BY <3>2, <3>3 DEF EndQueued
  <2> QED BY <2>3, <2>4
<1> QED BY <1>1, <1>2, <1>3 DEF TdlibMoves

\* The end of another call that leaves the queue is not this one's.
LEMMA EndBehind ==
  ASSUME updates \in Seq(Updates), updates # <<>>, updates' = Tail(updates), NEW c,
         EndQueued(c), ~Tells(Head(updates), c, Over)
  PROVE  EndQueued(c)'
<1>1. PICK n \in DOMAIN updates :
        updates[n].kind = "call" /\ updates[n].call = c /\ updates[n].state \in Over
  BY DEF EndQueued
<1>2. n \in Nat /\ n > 0 /\ n # 1
  BY <1>1, TailIndex DEF Tells
<1>3. n - 1 \in DOMAIN updates' /\ updates'[n - 1] = updates[n]
  BY <1>2, TailIndex
<1> QED BY <1>1, <1>3 DEF EndQueued

-----------------------------------------------------------------------------
(* One screen rings for a call.                                            *)

\* The app has handled the update that begins the call.
Heard(c) ==
  /\ td[c] # "none"
  /\ \A n \in DOMAIN updates : ~Tells(updates[n], c, {"pending"})

Shows(s, route, c) == vm[s].route = route /\ vm[s].call = c

\* Nothing shows a call the app has not heard of; one screen rings for it;
\* and while it is alone, a screen that rings is one the ability remembers
\* or the notification is gone, so that no other screen answers.
RingsOnce(c) ==
  /\ ~Heard(c) =>
       /\ notification[c] # "incoming" /\ lastOpenedIncomingCallId # c
       /\ \A s \in Screens : ~Shows(s, "incoming", c) /\ ~Shows(s, "pendingAccept", c)
  /\ \A s, t \in Screens :
       Shows(s, "pendingAccept", c) /\ Shows(t, "pendingAccept", c) => s = t
  /\ Alone(c) /\ \/ notification[c] = "incoming" /\ lastOpenedIncomingCallId # c
                 \/ \E s \in Screens : Shows(s, "incoming", c)
       => \A s \in Screens : ~Shows(s, "pendingAccept", c)

Ringing == \A c \in Calls : RingsOnce(c)

ScreenInv == ScreenTypes /\ QueueOrder /\ LastOpenedIsCurrent /\ Ringing

LEMMA ScreenInvInit == ScreenInit => ScreenInv
<1> SUFFICES ASSUME ScreenInit PROVE ScreenInv
  OBVIOUS
<1>1. ScreenTypes
  BY ScreenTypesInit
<1>2. QueueOrder
  BY DEF ScreenInit, QueueOrder, InOrder
<1>3. LastOpenedIsCurrent
  BY DEF ScreenInit, LastOpenedIsCurrent
<1>4. ASSUME NEW c \in Calls
      PROVE  RingsOnce(c)
  <2>1. notification[c] = "none" /\ lastOpenedIncomingCallId # c
    BY Bounds DEF ScreenInit
  <2>2. \A s \in Screens : vm[s].route = "outgoing"
    BY DEF ScreenInit, FreshViewModel
  <2> QED BY <2>1, <2>2 DEF RingsOnce, Shows
<1> QED BY <1>1, <1>2, <1>3, <1>4 DEF ScreenInv, Ringing

\* What has been heard stays heard, and what is not alone stays so.
LEMMA HeardMoves ==
  ASSUME ScreenTypeOK, TdlibMoves, NEW c \in Calls
  PROVE  (Heard(c) => Heard(c)') /\ (Alone(c)' => Alone(c))
<1>1. CASE UNCHANGED <<td, updates>>
  BY <1>1 DEF Heard, Alone
<1>2. CASE \E us : Rests(us)
  <2>1. PICK us : Rests(us)
    BY <1>2
  <2>2. td' = td /\ updates \in Seq(Updates) /\ us \in Seq(Updates) /\ updates' = updates \o us
        /\ \A n \in DOMAIN us : us[n].kind # "call"
    BY <2>1 DEF Rests, ScreenTypeOK
  <2>3. ASSUME Heard(c), NEW n \in DOMAIN updates', Tells(updates'[n], c, {"pending"})
        PROVE  FALSE
    <3>1. CASE n \in DOMAIN updates
      <4>1. updates'[n] = updates[n]
        BY <2>2, <3>1, AppendIndex
      <4> QED BY <2>3, <3>1, <4>1 DEF Heard
    <3>2. CASE n > Len(updates) /\ n - Len(updates) \in DOMAIN us
      <4>1. n = Len(updates) + (n - Len(updates))
        BY <2>2, AppendIndex
      <4>2. updates'[n] = us[n - Len(updates)]
        BY <2>2, <3>2, <4>1, AppendIndex
      <4> QED BY <2>2, <2>3, <3>2, <4>2 DEF Tells
    <3> QED BY <2>2, <3>1, <3>2, AppendIndex
  <2>4. Heard(c) => Heard(c)'
    BY <2>2, <2>3 DEF Heard
  <2> QED BY <2>2, <2>4 DEF Alone
<1>3. CASE \E d, state, us, k : Moves(d, state, us, k)
  <2>1. PICK d, state, us, k : Moves(d, state, us, k)
    BY <1>3
  <2>2. /\ updates \in Seq(Updates) /\ us \in Seq(Updates) /\ updates' = updates \o us
        /\ td' = [td EXCEPT ![d] = state] /\ d \in Calls /\ state # "none"
        /\ td \in [Calls -> TdStates]
    BY <2>1 DEF Moves, ScreenTypeOK
  <2>3. ASSUME Heard(c), NEW n \in DOMAIN updates', Tells(updates'[n], c, {"pending"})
        PROVE  FALSE
    <3>1. CASE n \in DOMAIN updates
      <4>1. updates'[n] = updates[n]
        BY <2>2, <3>1, AppendIndex
      <4> QED BY <2>3, <3>1, <4>1 DEF Heard
    <3>2. CASE n > Len(updates) /\ n - Len(updates) \in DOMAIN us
      <4>1. n = Len(updates) + (n - Len(updates))
        BY <2>2, AppendIndex
      <4>2. updates'[n] = us[n - Len(updates)]
        BY <2>2, <3>2, <4>1, AppendIndex
      <4>3. c = d /\ state = "pending"
        BY <2>1, <2>3, <3>2, <4>2 DEF Tells, Moves, CallUpdate
      <4>4. td[c] = "none"
        BY <2>1, <4>3 DEF Moves
      <4> QED BY <2>3, <4>4 DEF Heard
    <3> QED BY <2>2, <3>1, <3>2, AppendIndex
  <2>4. \A e \in Calls : td'[e] = "none" => td[e] = "none"
    BY <2>2
  <2>5. Heard(c) => Heard(c)'
    BY <2>3, <2>4 DEF Heard
  <2> QED BY <2>4, <2>5, Bounds DEF Alone
<1> QED BY <1>1, <1>2, <1>3 DEF TdlibMoves

\* After the oldest update is taken.
LEMMA HeardTail ==
  ASSUME QueueOrder, updates \in Seq(Updates), updates # <<>>, updates' = Tail(updates),
         td' = td, NEW c \in Calls
  PROVE  /\ (Heard(c) => Heard(c)') /\ (Alone(c)' <=> Alone(c))
         /\ Tells(Head(updates), c, {"pending"}) => ~Heard(c) /\ Heard(c)'
<1>1. /\ \A n \in DOMAIN updates' : n \in Nat \ {0} /\ n + 1 \in DOMAIN updates
                                    /\ updates'[n] = updates[n + 1]
      /\ Head(updates) = updates[1] /\ 1 \in DOMAIN updates
  BY TailIndex
<1>2. Heard(c) => Heard(c)'
  BY <1>1 DEF Heard
<1>3. ASSUME Tells(updates[1], c, {"pending"}) PROVE ~Heard(c) /\ Heard(c)'
  <2>1. ~Heard(c)
    BY <1>1, <1>3 DEF Heard
  <2>2. td[c] # "none"
    <3>1. Tells(updates[1], c, TdStates)
      BY <1>3 DEF Tells, TdStates
    <3> QED BY <1>1, <3>1 DEF QueueOrder, InOrder
  <2>3. ASSUME NEW n \in DOMAIN updates', Tells(updates'[n], c, {"pending"})
        PROVE  FALSE
    <3>1. n + 1 = 1
      BY <1>1, <1>3, <2>3 DEF QueueOrder, InOrder
    <3> QED BY <1>1, <3>1
  <2> QED BY <2>1, <2>2, <2>3 DEF Heard
<1> QED BY <1>1, <1>2, <1>3 DEF Alone

LEMMA ShowsKept ==
  ASSUME NEW s \in Screens, Keeps(vm[s], vm'[s]), NEW route, route # "outgoing", NEW c
  PROVE  Shows(s, route, c)' <=> Shows(s, route, c)
  BY DEF Shows, Keeps

\* A step that opens no page for a call, and after which the ability and the
\* notification know of no other call.
LEMMA KeptRings ==
  ASSUME Ringing, ViewsKept, NEW c \in Calls,
         Heard(c) => Heard(c)', Alone(c)' => Alone(c),
         lastOpenedIncomingCallId' = lastOpenedIncomingCallId,
         notification'[c] \in {notification[c], "none"}
  PROVE  RingsOnce(c)'
<1>1. \A s \in Screens : /\ Shows(s, "incoming", c)' <=> Shows(s, "incoming", c)
                         /\ Shows(s, "pendingAccept", c)' <=> Shows(s, "pendingAccept", c)
  BY ShowsKept DEF ViewsKept
<1>2. RingsOnce(c)
  BY DEF Ringing
<1>3. ~Heard(c)' => ~Heard(c)
  OBVIOUS
<1>4. ~Heard(c)' =>
        /\ notification'[c] # "incoming" /\ lastOpenedIncomingCallId' # c
        /\ \A s \in Screens : ~Shows(s, "incoming", c)' /\ ~Shows(s, "pendingAccept", c)'
  BY <1>1, <1>2, <1>3 DEF RingsOnce
<1>5. \A s, t \in Screens :
        Shows(s, "pendingAccept", c)' /\ Shows(t, "pendingAccept", c)' => s = t
  BY <1>1, <1>2 DEF RingsOnce
<1>6. Alone(c)' /\ \/ notification'[c] = "incoming" /\ lastOpenedIncomingCallId' # c
                   \/ \E s \in Screens : Shows(s, "incoming", c)'
        => \A s \in Screens : ~Shows(s, "pendingAccept", c)'
  BY <1>1, <1>2 DEF RingsOnce
<1> QED BY <1>4, <1>5, <1>6 DEF RingsOnce

\* The end of a call that the ability remembers is not behind it yet.
LEMMA LastOpenedHead ==
  ASSUME ScreenInv, HandleCallUpdate
  PROVE  LastOpenedIsCurrent'
<1> DEFINE u == Head(updates)
<1> USE DEF ScreenInv
<1>1. updates \in Seq(Updates) /\ updates # <<>> /\ updates' = Tail(updates) /\ td' = td
      /\ u.kind = "call"
  BY DEF HandleCallUpdate, ScreenTypes, ScreenTypeOK
<1>2. u \in Updates /\ u.state # "none" /\ u = updates[1] /\ 1 \in DOMAIN updates
  BY <1>1, TailIndex DEF ScreenTypes, ScreensKnown
<1>3. u.call \in Calls /\ u.state \in TdStates
  BY <1>1, <1>2, UpdateFields
<1>4. AutoOpen(u.call, u.state, [s \in Screens |-> Observed(vm[s], u.call, u.state)])
  BY DEF HandleCallUpdate
<1> HIDE DEF u
<1> SUFFICES ASSUME NEW c, c = lastOpenedIncomingCallId', c # NoCall, td[c] \in Over
             PROVE  EndQueued(c)'
  BY <1>1 DEF LastOpenedIsCurrent
<1>5. \/ /\ u.state = "pending" /\ c = u.call
      \/ /\ c = lastOpenedIncomingCallId
         /\ ~(u.state \in Over /\ u.call = c)
  BY <1>2, <1>3, <1>4, AutoOpenViews
<1>6. CASE u.state = "pending" /\ c = u.call
  <2>1. Tells(updates[1], c, {"pending"})
    BY <1>1, <1>2, <1>6 DEF Tells
  <2>2. PICK m \in DOMAIN updates : m > 1 /\ Tells(updates[m], c, Over)
    BY <1>2, <1>3, <1>6, <2>1 DEF QueueOrder, InOrder
  <2>3. m - 1 \in DOMAIN updates' /\ updates'[m - 1] = updates[m]
    BY <1>1, <2>2, TailIndex
  <2> QED BY <2>2, <2>3 DEF EndQueued, Tells
<1>7. CASE c = lastOpenedIncomingCallId /\ ~(u.state \in Over /\ u.call = c)
  <2>1. EndQueued(c)
    BY <1>7 DEF LastOpenedIsCurrent
  <2>2. ~Tells(Head(updates), c, Over)
    BY <1>7 DEF Tells, u
  <2> QED BY <1>1, <2>1, <2>2, EndBehind
<1> QED BY <1>5, <1>6, <1>7

\* A call event: the notification and the ability take note of the call that
\* begins, which is not alone with any other.
LEMMA HandleCallUpdateRings ==
  ASSUME ScreenInv, HandleCallUpdate
  PROVE  Ringing'
<1> USE DEF ScreenInv
<1>u. PICK u : u = Head(updates)
  OBVIOUS
<1>o. PICK o : o = u.call
  OBVIOUS
<1>1. updates \in Seq(Updates) /\ updates # <<>> /\ updates' = Tail(updates) /\ td' = td
      /\ u.kind = "call" /\ notification \in [Calls -> {"none", "incoming", "ongoing"}]
  BY <1>u DEF HandleCallUpdate, ScreenTypes, ScreenTypeOK
<1>2. u \in Updates /\ u.state # "none" /\ u = updates[1] /\ 1 \in DOMAIN updates
  BY <1>1, <1>u, TailIndex DEF ScreenTypes, ScreensKnown
<1>3. o \in Calls /\ u.state \in TdStates
  BY <1>1, <1>2, <1>o, UpdateFields
<1>4. AutoOpen(o, u.state, [s \in Screens |-> Observed(vm[s], o, u.state)])
      /\ notification' = [notification EXCEPT ![o] = NotificationFor(o, u.state)]
  BY <1>u, <1>o DEF HandleCallUpdate
<1>5. td[o] # "none"
  <2>1. Tells(updates[1], o, TdStates)
    BY <1>1, <1>2, <1>3, <1>o DEF Tells
  <2> QED BY <1>2, <1>3, <2>1 DEF QueueOrder, InOrder
<1>6. u.state = "pending" => ~Heard(o) /\ Heard(o)'
  <2>1. ASSUME u.state = "pending" PROVE Tells(Head(updates), o, {"pending"})
    BY <1>1, <1>u, <1>o, <2>1 DEF Tells
  <2> QED BY <1>1, <1>3, <2>1, HeardTail
<1>7. \A c \in Calls : (Heard(c) => Heard(c)') /\ (Alone(c)' <=> Alone(c))
  BY <1>1, HeardTail
<1>8. u.state = "pending" /\ o \in Incoming => \A c \in Calls \ {o} : ~Alone(c)
  BY <1>5 DEF Alone
<1>9. \A c \in Calls \ {o} : notification'[c] = notification[c]
  BY <1>1, <1>4
<1>10. notification'[o] = "incoming" => u.state = "pending" /\ o \in Incoming
  BY <1>1, <1>3, <1>4 DEF NotificationFor
<1>11. CASE /\ ViewsKept
            /\ lastOpenedIncomingCallId' \in {lastOpenedIncomingCallId, NoCall}
            /\ u.state = "pending" /\ o \in Incoming =>
                 \/ lastOpenedIncomingCallId' = NoCall
                 \/ lastOpenedIncomingCallId' = o
            /\ u.state # "pending" \/ o \notin Incoming =>
                 lastOpenedIncomingCallId' = IF u.state \in Over /\ lastOpenedIncomingCallId = o
                                             THEN NoCall ELSE lastOpenedIncomingCallId
  <2> SUFFICES ASSUME NEW c \in Calls PROVE RingsOnce(c)'
    BY DEF Ringing
  <2>1. \A s \in Screens : /\ Shows(s, "incoming", c)' <=> Shows(s, "incoming", c)
                           /\ Shows(s, "pendingAccept", c)' <=> Shows(s, "pendingAccept", c)
    BY <1>11, ShowsKept DEF ViewsKept
  <2>2. RingsOnce(c)
    BY DEF Ringing
  <2>3. c # NoCall
    BY Bounds
  <2>4. ~Heard(c)' =>
          /\ notification'[c] # "incoming" /\ lastOpenedIncomingCallId' # c
          /\ \A s \in Screens : ~Shows(s, "incoming", c)' /\ ~Shows(s, "pendingAccept", c)'
    <3> SUFFICES ASSUME ~Heard(c)'
                 PROVE  /\ notification'[c] # "incoming" /\ lastOpenedIncomingCallId' # c
                        /\ \A s \in Screens : ~Shows(s, "incoming", c)' /\ ~Shows(s, "pendingAccept", c)'
      OBVIOUS
    <3>1. ~Heard(c)
      BY <1>7
    <3>2. notification'[c] # "incoming"
      BY <1>6, <1>9, <1>10, <2>2, <3>1 DEF RingsOnce
    <3>3. lastOpenedIncomingCallId' # c
      BY <1>11, <2>2, <2>3, <3>1 DEF RingsOnce
    <3> QED BY <2>1, <2>2, <3>1, <3>2, <3>3 DEF RingsOnce
  <2>5. \A s, t \in Screens :
          Shows(s, "pendingAccept", c)' /\ Shows(t, "pendingAccept", c)' => s = t
    BY <2>1, <2>2 DEF RingsOnce
  <2>6. ASSUME Alone(c)',
               \/ notification'[c] = "incoming" /\ lastOpenedIncomingCallId' # c
               \/ \E s \in Screens : Shows(s, "incoming", c)'
        PROVE  \A s \in Screens : ~Shows(s, "pendingAccept", c)'
    <3>1. Alone(c)
      BY <1>7, <2>6
    <3>2. CASE \E s \in Screens : Shows(s, "incoming", c)'
      BY <2>1, <2>2, <3>1, <3>2 DEF RingsOnce
    <3>3. CASE notification'[c] = "incoming" /\ lastOpenedIncomingCallId' # c
      <4>1. CASE c = o
        <5>1. ~Heard(c)
          BY <1>6, <1>10, <3>3, <4>1
        <5> QED BY <2>1, <2>2, <5>1 DEF RingsOnce
      <4>2. CASE c # o
        <5>1. lastOpenedIncomingCallId # c
          BY <1>8, <1>11, <3>1, <3>3, <4>2
        <5> QED BY <1>9, <2>1, <2>2, <3>1, <3>3, <4>2, <5>1 DEF RingsOnce
      <4> QED BY <4>1, <4>2
    <3> QED BY <2>6, <3>2, <3>3
  <2> QED BY <2>4, <2>5, <2>6 DEF RingsOnce
<1>12. CASE \E s : /\ PageOpened(s, "pendingAccept", o)
                   /\ lastOpenedIncomingCallId' = o
                   /\ o \in Incoming /\ u.state = "pending"
  <2>1. PICK s : /\ PageOpened(s, "pendingAccept", o)
                 /\ lastOpenedIncomingCallId' = o
                 /\ o \in Incoming /\ u.state = "pending"
    BY <1>12
  <2>2. s \in Screens /\ vm'[s].route = "pendingAccept" /\ vm'[s].call = o
    BY <2>1, OpenedFields DEF PageOpened
  <2>3. ASSUME NEW c \in Calls, NEW t \in Screens, t # s \/ c # o
        PROVE  /\ Shows(t, "incoming", c)' => Shows(t, "incoming", c)
               /\ Shows(t, "pendingAccept", c)' => Shows(t, "pendingAccept", c)
    <3>1. CASE t = s
      BY <2>2, <2>3, <3>1 DEF Shows
    <3>2. CASE t # s
      BY <2>1, <3>2, ShowsKept DEF PageOpened
    <3> QED BY <3>1, <3>2
  <2>4. RingsOnce(o)'
    <3>1. RingsOnce(o) /\ ~Heard(o) /\ Heard(o)'
      BY <1>3, <1>6, <2>1 DEF Ringing
    <3>2. \A t \in Screens : Shows(t, "pendingAccept", o)' => t = s
      BY <1>3, <2>3, <3>1 DEF RingsOnce
    <3>3. \A t \in Screens : ~Shows(t, "incoming", o)'
      <4>1. ~Shows(s, "incoming", o)'
        BY <2>2 DEF Shows
      <4> QED BY <1>3, <2>3, <3>1, <4>1 DEF RingsOnce
    <3> QED BY <2>1, <3>1, <3>2, <3>3 DEF RingsOnce
  <2>5. ASSUME NEW c \in Calls, c # o PROVE RingsOnce(c)'
    <3>1. RingsOnce(c) /\ ~Alone(c)' /\ (Heard(c) => Heard(c)')
      BY <1>7, <1>8, <2>1, <2>5 DEF Ringing
    <3>2. notification'[c] = notification[c] /\ lastOpenedIncomingCallId' # c
      BY <1>9, <2>1, <2>5
    <3>3. ~Heard(c)' =>
            /\ notification'[c] # "incoming" /\ lastOpenedIncomingCallId' # c
            /\ \A t \in Screens : ~Shows(t, "incoming", c)' /\ ~Shows(t, "pendingAccept", c)'
      BY <2>3, <2>5, <3>1, <3>2 DEF RingsOnce
    <3>4. \A t, v \in Screens :
            Shows(t, "pendingAccept", c)' /\ Shows(v, "pendingAccept", c)' => t = v
      BY <2>3, <2>5, <3>1 DEF RingsOnce
    <3> QED BY <3>1, <3>3, <3>4 DEF RingsOnce
  <2> QED BY <2>4, <2>5 DEF Ringing
<1> QED BY <1>2, <1>3, <1>4, <1>11, <1>12, AutoOpenViews

\* The calls, the queue and what the ability remembers stay: only a screen
\* or the notification of one call changes.
LEMMA QuietOrder ==
  ASSUME ScreenInv, UNCHANGED <<td, updates, lastOpenedIncomingCallId>>
  PROVE  /\ QueueOrder' /\ LastOpenedIsCurrent'
         /\ \A c \in Calls : (Heard(c)' <=> Heard(c)) /\ (Alone(c)' <=> Alone(c))
  BY DEF ScreenInv, QueueOrder, LastOpenedIsCurrent, EndQueued, Heard, Alone

LEMMA QuietInv ==
  ASSUME ScreenInv, ScreenTypes', ViewsKept, UNCHANGED <<td, updates, lastOpenedIncomingCallId>>,
         \A c \in Calls : notification'[c] \in {notification[c], "none"}
  PROVE  ScreenInv'
<1>1. QueueOrder' /\ LastOpenedIsCurrent'
      /\ \A c \in Calls : (Heard(c)' <=> Heard(c)) /\ (Alone(c)' <=> Alone(c))
  BY QuietOrder
<1>2. \A c \in Calls : RingsOnce(c)'
  BY <1>1, KeptRings DEF ScreenInv
<1> QED BY <1>1, <1>2 DEF ScreenInv, Ringing

LEMMA TdlibInv ==
  ASSUME ScreenInv, TdlibServes \/ \E c \in Calls : TdlibProgress(c)
  PROVE  ScreenInv'
<1>1. /\ ScreenTypes' /\ ViewsKept /\ TdlibMoves
      /\ UNCHANGED <<notification, vm, lastOpenedIncomingCallId, answered>>
      /\ ScreenTypeOK /\ InOrder(updates, td)
  BY TdlibStep DEF ScreenInv, ScreenTypes, QueueOrder
<1>2. QueueOrder'
  <2>1. CASE UNCHANGED <<td, updates>>
    BY <1>1, <2>1 DEF QueueOrder
  <2>2. CASE \E us : Rests(us)
    <3>1. PICK us : Rests(us)
      BY <2>2
    <3>2. InOrder(updates \o us, td)
      BY <1>1, <3>1, RestsInOrder DEF Rests, ScreenTypeOK
    <3>3. updates' = updates \o us /\ td' = td
      BY <3>1 DEF Rests
    <3> QED BY <3>2, <3>3 DEF QueueOrder
  <2>3. CASE \E c, state, us, k : Moves(c, state, us, k)
    BY <1>1, <2>3, MovesInOrder DEF QueueOrder
  <2> QED BY <1>1, <2>1, <2>2, <2>3 DEF TdlibMoves
<1>3. LastOpenedIsCurrent'
  <2> SUFFICES ASSUME NEW c, c = lastOpenedIncomingCallId, c # NoCall, td'[c] \in Over
               PROVE  EndQueued(c)'
    BY <1>1 DEF LastOpenedIsCurrent
  <2>1. c \in Calls
    BY <1>1, Bounds DEF ScreenTypeOK
  <2>2. td[c] \in Over => EndQueued(c)
    BY DEF ScreenInv, LastOpenedIsCurrent
  <2> QED BY <1>1, <2>1, <2>2, EndsTold
<1>4. ASSUME NEW c \in Calls PROVE RingsOnce(c)'
  <2>1. (Heard(c) => Heard(c)') /\ (Alone(c)' => Alone(c))
    BY <1>1, HeardMoves
  <2> QED BY <1>1, <2>1, KeptRings DEF ScreenInv
<1> QED BY <1>1, <1>2, <1>3, <1>4 DEF ScreenInv, Ringing

LEMMA HandleCallUpdateInv ==
  ASSUME ScreenInv, HandleCallUpdate
  PROVE  ScreenInv'
<1>1. ScreenTypes' /\ Ringing' /\ LastOpenedIsCurrent'
  BY HandleCallUpdateTypes, HandleCallUpdateRings, LastOpenedHead DEF ScreenInv
<1>2. updates \in Seq(Updates) /\ updates # <<>> /\ updates' = Tail(updates) /\ td' = td
  BY DEF ScreenInv, ScreenTypes, ScreenTypeOK, HandleCallUpdate
<1>3. QueueOrder'
  BY <1>2, TailInOrder DEF ScreenInv, QueueOrder
<1> QED BY <1>1, <1>3 DEF ScreenInv

\* The answer to createCall leaves the queue: it told of no call.
LEMMA HandleCreateAnswerInv ==
  ASSUME ScreenInv, HandleCreateAnswer
  PROVE  ScreenInv'
<1>1. ScreenTypes' /\ ViewsKept
  BY HandleCreateAnswerStep DEF ScreenInv
<1>2. /\ updates \in Seq(Updates) /\ updates # <<>> /\ updates' = Tail(updates)
      /\ Head(updates).kind # "call"
      /\ UNCHANGED <<td, notification, lastOpenedIncomingCallId>>
  BY DEF ScreenInv, ScreenTypes, ScreenTypeOK, HandleCreateAnswer
<1>3. QueueOrder'
  BY <1>2, TailInOrder DEF ScreenInv, QueueOrder
<1>4. LastOpenedIsCurrent'
  <2> SUFFICES ASSUME NEW c, c = lastOpenedIncomingCallId, c # NoCall, td[c] \in Over
               PROVE  EndQueued(c)'
    BY <1>2 DEF LastOpenedIsCurrent
  <2>1. EndQueued(c)
    BY DEF ScreenInv, LastOpenedIsCurrent
  <2> QED BY <1>2, <2>1, EndBehind DEF Tells
<1>5. ASSUME NEW c \in Calls PROVE RingsOnce(c)'
  <2>1. (Heard(c) => Heard(c)') /\ (Alone(c)' => Alone(c))
    BY <1>2, HeardTail DEF ScreenInv
  <2> QED BY <1>1, <1>2, <2>1, KeptRings DEF ScreenInv
<1> QED BY <1>1, <1>3, <1>4, <1>5 DEF ScreenInv, Ringing

\* Resume opens a page for a call that is on.
LEMMA ResumeInv ==
  ASSUME ScreenInv, NEW o \in Calls, NotificationResume(o)
  PROVE  ScreenInv'
<1>1. ScreenTypes' /\ UNCHANGED <<td, updates, notification, lastOpenedIncomingCallId>>
  BY ResumeStep DEF ScreenInv, NotificationResume, tdVars
<1>2. PICK s : PageOpened(s, "resume", o)
  BY ResumeStep DEF ScreenInv
<1>3. QueueOrder' /\ LastOpenedIsCurrent'
      /\ \A c \in Calls : (Heard(c)' <=> Heard(c)) /\ (Alone(c)' <=> Alone(c))
  BY <1>1, QuietOrder
<1>4. ASSUME NEW c \in Calls PROVE RingsOnce(c)'
  <2>1. ASSUME NEW t \in Screens
        PROVE  /\ Shows(t, "incoming", c)' => Shows(t, "incoming", c)
               /\ Shows(t, "pendingAccept", c)' => Shows(t, "pendingAccept", c)
    <3>1. CASE t = s
      <4>1. vm'[t].route = "resume"
        BY <1>2, <3>1, OpenedFields DEF PageOpened
      <4> QED BY <4>1 DEF Shows
    <3>2. CASE t # s
      BY <1>2, <3>2, ShowsKept DEF PageOpened
    <3> QED BY <3>1, <3>2
  <2>2. RingsOnce(c)
    BY DEF ScreenInv, Ringing
  <2> QED BY <1>1, <1>3, <2>1, <2>2 DEF RingsOnce
<1> QED BY <1>1, <1>3, <1>4 DEF ScreenInv, Ringing

\* The answer from the notification: a second screen for the call is opened
\* only where none rings for it, unless another call rang.
LEMMA AnswerInv ==
  ASSUME ScreenInv, NEW o \in Calls, NotificationAnswer(o)
  PROVE  ScreenInv'
<1>1. /\ ScreenTypes' /\ UNCHANGED <<td, updates, lastOpenedIncomingCallId>>
      /\ notification[o] = "incoming"
      /\ \A c \in Calls : notification'[c] = IF c = o THEN "none" ELSE notification[c]
  BY AnswerStep DEF ScreenInv, ScreenTypes, ScreenTypeOK, NotificationAnswer
<1>2. CASE ViewsKept
  BY <1>1, <1>2, QuietInv
<1>3. CASE lastOpenedIncomingCallId # o /\ \E s : PageOpened(s, "incoming", o)
  <2>1. PICK s : PageOpened(s, "incoming", o)
    BY <1>3
  <2>2. s \in Screens /\ vm'[s].route = "incoming" /\ vm'[s].call = o
    BY <2>1, OpenedFields DEF PageOpened
  <2>3. ASSUME NEW c \in Calls, NEW t \in Screens
        PROVE  /\ t # s \/ c # o => (Shows(t, "incoming", c)' => Shows(t, "incoming", c))
               /\ Shows(t, "pendingAccept", c)' => Shows(t, "pendingAccept", c)
    <3>1. CASE t = s
      BY <2>2, <3>1 DEF Shows
    <3>2. CASE t # s
      BY <2>1, <3>2, ShowsKept DEF PageOpened
    <3> QED BY <3>1, <3>2
  <2>4. QueueOrder' /\ LastOpenedIsCurrent'
        /\ \A c \in Calls : (Heard(c)' <=> Heard(c)) /\ (Alone(c)' <=> Alone(c))
    BY <1>1, QuietOrder
  <2>5. ASSUME NEW c \in Calls PROVE RingsOnce(c)'
    <3>1. RingsOnce(c)
      BY DEF ScreenInv, Ringing
    <3>2. CASE c = o
      <4>1. Heard(c)'
        BY <1>1, <2>4, <3>1, <3>2 DEF RingsOnce
      <4>2. Alone(c) => \A t \in Screens : ~Shows(t, "pendingAccept", c)
        BY <1>1, <1>3, <3>1, <3>2 DEF RingsOnce
      <4> QED BY <2>3, <2>4, <3>1, <4>1, <4>2 DEF RingsOnce
    <3>3. CASE c # o
      <4>1. notification'[c] = notification[c] /\ lastOpenedIncomingCallId' = lastOpenedIncomingCallId
        BY <1>1, <3>3
      <4>2. \A t \in Screens : /\ Shows(t, "incoming", c)' => Shows(t, "incoming", c)
                               /\ Shows(t, "pendingAccept", c)' => Shows(t, "pendingAccept", c)
        BY <2>3, <3>3
      <4> QED BY <2>4, <3>1, <4>1, <4>2 DEF RingsOnce
    <3> QED BY <3>2, <3>3
  <2> QED BY <1>1, <2>4, <2>5 DEF ScreenInv, Ringing
<1> QED BY <1>2, <1>3, AnswerStep DEF ScreenInv

\* What the steps of pages and users leave alone.
LEMMA PageSteps ==
  ASSUME ScreenInv, NEW s \in Screens,
         \/ Appear(s) \/ ReturnTimer(s) \/ OpenOutgoing(s) \/ AcceptTap(s)
         \/ DeclineTap(s) \/ BackPress(s) \/ BackOut(s)
  PROVE  ScreenInv'
<1>1. ScreenTypes' /\ ViewsKept
  BY AppearStep, ReturnTimerStep, OpenOutgoingStep, AcceptTapStep, DeclineTapStep,
     BackPressStep, BackOutStep DEF ScreenInv
<1>2. UNCHANGED <<td, updates, notification, lastOpenedIncomingCallId>>
  BY DEF Appear, ReturnTimer, OpenOutgoing, AcceptTap, DeclineTap, BackPress, BackOut, tdVars
<1> QED BY <1>1, <1>2, QuietInv

LEMMA ScreenInvStep == ScreenInv /\ [ScreenNext]_screenVars => ScreenInv'
<1> SUFFICES ASSUME ScreenInv, [ScreenNext]_screenVars PROVE ScreenInv'
  OBVIOUS
<1>1. CASE AppStep
  BY <1>1, HandleCallUpdateInv, HandleCreateAnswerInv, PageSteps DEF AppStep
<1>2. CASE UserStep
  <2>1. CASE \E s \in Screens : OpenOutgoing(s) \/ AcceptTap(s) \/ DeclineTap(s)
                                \/ BackPress(s) \/ BackOut(s)
    BY <2>1, PageSteps
  <2>2. CASE \E c \in Calls : NotificationAnswer(c)
    BY <2>2, AnswerInv
  <2>3. CASE \E c \in Calls : NotificationResume(c)
    BY <2>3, ResumeInv
  <2>4. CASE \E c \in Calls : NotificationOnPhone(c) \/ NotificationReject(c)
    BY <2>4, QuietStep, QuietInv DEF ScreenInv
  <2> QED BY <1>2, <2>1, <2>2, <2>3, <2>4 DEF UserStep
<1>3. CASE TdlibServes \/ \E c \in Calls : TdlibProgress(c)
  BY <1>3, TdlibInv
<1>4. CASE LoseAuthorization
  BY <1>4, QuietStep, QuietInv DEF ScreenInv
<1>5. CASE UNCHANGED screenVars
  <2>1. ScreenTypes' /\ vm \in [Screens -> ViewModels]
    BY <1>5, StutterTypes DEF ScreenInv, ScreenTypes, ScreenTypeOK
  <2>2. UNCHANGED <<td, updates, lastOpenedIncomingCallId, notification, vm>>
    BY <1>5 DEF screenVars, tdVars
  <2>3. ViewsKept
    BY <2>1, <2>2, SameViews
  <2> QED BY <2>1, <2>2, <2>3, QuietInv
<1> QED BY <1>1, <1>2, <1>3, <1>4, <1>5 DEF ScreenNext

LEMMA ScreenInvariant == ScreenSpec => []ScreenInv
  BY ScreenInvInit, ScreenInvStep, PTL DEF ScreenSpec

\* The ability never remembers a call that is over unless the update that
\* makes it forget is still queued, whatever calls ring together, whether
\* pushUrl succeeds or throws, and however the updates are interleaved.
THEOREM LastOpenedAlwaysCurrent == ScreenSpec => []LastOpenedIsCurrent
  BY ScreenInvariant, PTL DEF ScreenInv

-----------------------------------------------------------------------------
(* What an answer does.                                                    *)

\* An answer is sent by three actions; the others leave the history alone.
LEMMA AnswersOf ==
  ASSUME ScreenInv, [ScreenNext]_screenVars, NEW c \in answered' \ answered
  PROVE  \/ \E s \in Screens :
              /\ vm[s].call = c /\ vm'[s].phase = "answering"
              /\ vm[s].route \in {"incoming", "pendingAccept"}
              /\ \A t \in Screens \ {s} : vm'[t] = vm[t]
         \/ \A s \in Screens : vm'[s] = ToldAccepted(vm[s], c)
<1>1. CASE \E s \in Screens : Appear(s)
  BY <1>1, AppearStep DEF ScreenInv
<1>2. CASE \E s \in Screens : AcceptTap(s)
  BY <1>2, AcceptTapStep DEF ScreenInv
<1>3. CASE \E d \in Calls : NotificationAnswer(d)
  BY <1>3, AnswerStep DEF ScreenInv
<1>4. CASE answered' = answered
  BY <1>4
<1>5. \/ \E s \in Screens : Appear(s) \/ AcceptTap(s)
      \/ \E d \in Calls : NotificationAnswer(d)
      \/ answered' = answered
  BY DEF ScreenNext, AppStep, UserStep, HandleCallUpdate, HandleCreateAnswer, ReturnTimer,
         OpenOutgoing, DeclineTap, BackPress, BackOut, NotificationOnPhone, NotificationReject,
         NotificationResume, TdlibServes, TdlibProgress, LoseAuthorization, screenVars
<1> QED BY <1>1, <1>2, <1>3, <1>4, <1>5

LEMMA ToldCannotDecline ==
  ASSUME NEW v \in ViewModels, NEW c, v.subscribed, v.call = c
  PROVE  ~MayDecline(ToldAccepted(v, c))
<1> DEFINE told == [v EXCEPT !.acceptDispatched = TRUE]
<1>1. told \in ViewModels /\ told.acceptDispatched
  BY DEF ViewModels
<1> HIDE DEF told
<1>2. Emitted(told, "answering").acceptDispatched = told.acceptDispatched
  BY <1>1, EmittedFields DEF Phases
<1> QED BY <1>1, <1>2 DEF ToldAccepted, MayDecline, told

LEMMA AnswerCloses ==
  ASSUME ScreenInv, ScreenInv', [ScreenNext]_screenVars, NEW c \in answered' \ answered,
         ~AnsweredApart(c), NEW t \in Screens, vm'[t].subscribed, vm'[t].call = c
  PROVE  ~MayDecline(vm'[t])
<1> USE DEF ScreenInv, ScreenTypes, ScreenTypeOK
<1>1. CASE \A s \in Screens : vm'[s] = ToldAccepted(vm[s], c)
  <2>1. vm[t] \in ViewModels /\ vm'[t] = ToldAccepted(vm[t], c)
    BY <1>1
  <2>2. vm[t].subscribed /\ vm[t].call = c
    <3> DEFINE told == [vm[t] EXCEPT !.acceptDispatched = TRUE]
    <3>1. told \in ViewModels /\ told.subscribed = vm[t].subscribed /\ told.call = vm[t].call
      BY <2>1 DEF ViewModels
    <3> HIDE DEF told
    <3>2. /\ Emitted(told, "answering").subscribed = told.subscribed
          /\ Emitted(told, "answering").call = told.call
      BY <3>1, EmittedFields DEF Phases
    <3> QED BY <2>1, <3>1, <3>2 DEF ToldAccepted, told
  <2> QED BY <2>1, <2>2, ToldCannotDecline
<1>2. CASE \E s \in Screens :
              /\ vm[s].call = c /\ vm'[s].phase = "answering"
              /\ vm[s].route \in {"incoming", "pendingAccept"}
              /\ \A u \in Screens \ {s} : vm'[u] = vm[u]
  <2>1. PICK s \in Screens :
              /\ vm[s].call = c /\ vm'[s].phase = "answering"
              /\ vm[s].route \in {"incoming", "pendingAccept"}
              /\ \A u \in Screens \ {s} : vm'[u] = vm[u]
    BY <1>2
  <2>2. CASE t = s
    BY <2>1, <2>2 DEF MayDecline
  <2>3. CASE t # s
    <3>1. vm'[t] = vm[t]
      BY <2>1, <2>3
    <3>2. MayDecline(vm[t]) => Shows(t, "pendingAccept", c)
      BY <3>1 DEF MayDecline, ScreensKnown, Shows
    <3>3. c \in Calls /\ RingsOnce(c)
      BY DEF Ringing
    <3>4. ~Shows(t, "pendingAccept", c)
      <4>1. CASE vm[s].route = "pendingAccept"
        BY <2>1, <2>3, <3>3, <4>1 DEF RingsOnce, Shows
      <4>2. CASE vm[s].route = "incoming"
        BY <2>1, <3>3, <4>2 DEF RingsOnce, Shows, AnsweredApart
      <4> QED BY <2>1, <4>1, <4>2
    <3> QED BY <3>1, <3>2, <3>4
  <2> QED BY <2>2, <2>3
<1> QED BY <1>1, <1>2, AnswersOf

\* A call that is answered, from its screen, from a screen opened to answer
\* it or from the notification, can no longer be declined from any screen
\* that shows it, for any number of calls and pages; the exception is named.
THEOREM AnsweredNeverDeclined == ScreenSpec => AnswerDisablesDecline
<1>1. ScreenInv /\ ScreenInv' /\ [ScreenNext]_screenVars
      => [\A c \in answered' \ answered :
            ~AnsweredApart(c) => \A s \in ScreensOf(c)' : ~MayDecline(vm'[s])]_screenVars
  BY AnswerCloses DEF ScreensOf
<1> QED BY <1>1, ScreenInvariant, PTL DEF ScreenSpec, AnswerDisablesDecline
=============================================================================
