# Verification of app-Tele4Watch

TLA+ models, model-checking runs and machine-checked proofs for the Telegram
client in this repository (ArkTS application `entry`, native call engine
`tgcall`, TDLib bridge `bridge`). The models are translated from the source at
one commit; `PROJECT.json` maps every definition to the lines it stands for.

Contents: [1 Inventory](#1-inventory) · [2 Plan](#2-plan) ·
[3 Modules](#3-modules-and-the-code) · [4 Runs](#4-runs-bounds-and-what-they-show) ·
[5 Fairness](#5-fairness) · [6 Disagreements found](#6-disagreements-between-code-and-documents) ·
[7 Proofs](#7-proofs) · [8 Not modelled](#8-what-is-not-modelled-and-the-limits-of-what-is) ·
[9 How to run](#9-how-to-run)

Paths below are relative to `src/entry/src/main/ets/` unless they say otherwise.

## 1 Inventory

All ArkTS code runs on one JS thread: a handler runs to its end, and what
interleaves is handlers with each other, at every `await`, timer, page callback
and update. Real threads exist only below N-API: the TDLib receive thread and the
threads of a running call instance (media, network and worker, each with a queue
of tasks).

| Component | State it keeps | Operations | Talks to | What is hard, and what makes it correct |
|---|---|---|---|---|
| **Continuous task** `services/voip/VoipBackgroundTask.ets` | `running`, the promise chain `inflight` | `start`, `stop` | the system's backgroundTaskManager, asynchronously | calls overtake answers; the host may refuse. The flag tells the truth; the last call wins; no task outlives its call |
| **Native call sessions** `src/tgcall/src/main/cpp/tgcall_native.cpp` | `g_sessions`, `g_nextInstanceId`, a packet queue per session | startCall, feed, drain, mute, stop; callbacks of instance threads | tgcalls instances; JS through thread-safe functions | real threads, `startCall` in several critical sections, late emissions of a stopping instance, ids that wrap. No packet lost, none of another session, no orphaned instance |
| **Call session controller** `services/voip/CallSessionController.ets` | `activeCallId`, `activeInstanceId` | call updates, signaling data, native notifications, reset, mute | the two above, TdClient | replaced, failed and ended sessions; stale notifications. Ids, table and task agree; packets leave in order under their own call |
| **Call event delivery** `TdClient` (`setCallListener`, `emitCallEvent`), `services/td/TdCallEventDispatcher.ets`, `services/voip/CallRuntimeService.ets`, `services/notifications/NotificationRuntimeService.ets` | one listener, a bounded buffer, subscriptions, bootstrap flags and generation | emit, subscribe, unsubscribe, start, stop, ensureStarted, releaseForLogout | TDLib updates in; controller, notifications, ability and screens out | login, logout and login again while bootstraps are outstanding. Every subscriber sees events once, in order; a stale bootstrap starts nothing |
| **Call screens** `viewmodel/CallScreenViewModel.ets`, `pages/CallScreen.ets`, `services/voip/CallAcceptObserverHub.ets` | phase, call id, dispatched flags, duration interval, return timer | accept, decline, end, back, timers | TdClient requests; call events; the hub | every tap races the update that makes it pointless; several pages live on one router stack |
| **Call instance 4.0.0** `src/tgcall/src/main/cpp/InstanceV4_0_0Impl.cpp` | the networking object, the media pipeline, signaling latches and `_outgoingSequence`, the level timer | start, receiveSignalingData, mute, stop, destructor; callbacks of the networking | the session table above it; libwebrtc and tgcalls below | three threads share one object by raw pointer; two of them emit. The InitialSetup goes first and once, no number twice, and nothing outlives `stop()` and the destructor |
| **Call instance 13.0.0** `src/tgcall/src/main/cpp/InstanceV13_0_0Impl.cpp` | as above, plus a negotiation context, pending candidates, the state of the data channel | the same, plus the data channel | its peer: the same code on another device | signaling may be reordered, offers cross, the data channel comes and goes, tasks return through two threads to an object that may be gone |
| **Ability** `entryability/EntryAbility.ets` | `lastOpenedIncomingCallId`, its subscription id | auto-open of ringing calls, actions of call and message notifications | router, hub, TdClient | deciding between "a screen is open" and "open one" from a remembered id |
| **TdClient: authorization and session** `services/td/TdClient.ets`, `TdAuthReducer.ets` | auth state, client id, caches, pending requests | auth updates, logout, resetSessionCaches, bootstrap timeout | TDLib through the bridge | a session revoked with requests outstanding |
| **TdClient: sending** `TdClient.ets`, `services/quickreply/` | pending send confirmations with timers | send text, voice, sticker; send succeeded or failed | TDLib, the pages that wait | confirmations race a ten-second timeout and arrive under a new message id |
| **TdClient: chat history** `TdClient.ets`, `pages/ChatDetails.ets`, `viewmodel/ChatDetailsPageViewModel.ets` | per chat: cached messages, cursor, cursors asked for, two retry budgets, pull token; per page: loading flags, pull timeout | open, open around a message, pull older, answers, updates, retries | TDLib, chat pages | an answer to a pull given up meanwhile; retries that feed themselves; a verdict "no more" drawn from one page. No answer ends another pull's cycle, the toast tells the truth, the timeline has no gap |
| **TdClient: chat list** `TdClient.ets`, `TdChatPreviewMapper.ets`, `viewmodel/ChatsPageViewModel.ets` | chats by id, order | chat updates, load more | TDLib, chats page | partial data in any order |
| **Notifications** `services/notifications/TdNotificationsService.ets` | active notification ids | publish, cancel | notificationManager, asynchronously | a cancel that overtakes its publish |
| **Deeplinks** `app/DeeplinkInbox.ets`, `app/PostAuthRouter.ets` | pending intents | put, consume, expire | ability, pages after login | an intent that arrives before login |
| **Contacts** `services/td/TdContactsCoordinator.ets` | pending ids, loaded users | request, merge | TdClient | overlapping loads |
| **Voice recording** `services/media/VoiceNoteRecorderController.ets`, `VoiceNoteDraftStore.ets`, `pages/MessageRecorder.ets`, `src/opusdecoder/src/main/cpp/opus_encode.cpp` | the controller's phase, capturer and operation chain; the native recorder and its file; the page's phase; the draft | start, buffers, stop, cancel, release; send, retry, leave | the audio capturer and the permission dialog, asynchronously; the disk | each step may be refused, a page may go in the middle of any of them. No file and no microphone is left behind, a note is whole |
| **Voice playback** `services/media/VoiceNotePlayback*` | one player | play, stop | AVPlayer, asynchronously | two requests for one player |
| **Media viewer, pages, UI, animated stickers, parsers, mappers, bridge, Opus decoder, diagnostics** | mostly none | layout, conversion, pure I/O | – | – |

`PROJECT.json` lists every component with its status, and under `hazards` each
place where the code can go wrong in a way tests hardly reach, with the
properties that watch it.

The unit tests of the repository drive each class alone with a scripted mock;
the properties here are about what such tests do not order: two actors' steps,
answers that come late, two pages, two sessions.

## 2 Plan

Order of work: the path of a voice call first. It is where real threads, a
system resource that must not leak (the continuous task holds the microphone
and the battery of a watch) and user-visible races meet.

| # | Module | Composes | Status |
|---|---|---|---|
| 1 | `VoipBackgroundTask` | – | modelled, proved |
| 2 | `TgCallNative` | – | modelled, proved |
| 3 | `CallSession` | 1, 2 | modelled, proved |
| 4 | `SignalingRelay` (abstract) | refined by 3 | checked; its safety proved |
| 5 | `WebKInstance`: one 4.0.0 instance on its three threads | – | modelled, all its safety proved |
| 6 | `V3Call`: two 13.0.0 instances in a call | – | modelled, all its safety proved |
| 7 | `CallEventBus` | – | modelled, all its safety proved |
| 8 | `CallScreen` | – (the events of 7 abstracted to a queue) | modelled, all its safety proved |
| 9 | `HistoryPull`: cursor, retries, pull tokens, pages, merge of updates | – | modelled, all its safety proved |
| 10 | `OpusRecorder`: the native recorder and its Ogg pages | – | modelled, its loop proved |
| 11 | `VoiceNoteRecorder`: controller, draft and page | 10 | modelled, all its safety proved |

Not reached, in the order they would come: the session of `TdClient`
(authorization reducer, reset of caches, bootstrap timeout), its send
confirmations with quick replies on top, publish and cancel of call
notifications, the deeplink inbox, voice playback, contacts, the chat list.

Abstract specifications worth stating: the relay (done); for 7, "a subscriber
receives a contiguous run of the produced events while it is subscribed" (stated
for the runtime by `DeliveredInOrder`).

Theorems worth proving: those of section 7 (done): every safety invariant and
action property that a passing run checks is a theorem. What is left goes beyond
the runs: a theorem about `WebKInstance` and `TgCallNative` together (what the
instance hands over is what the session receives) would join the two, and
`SessionRelaysSafely` shows how. No module that is proved about uses a RECURSIVE
operator.

The project keeps at most twelve runs, so a new module got its place by merging
older ones, and a disagreement that had served its purpose gave way to a new one.

## 3 Modules and the code

**`VoipBackgroundTask`.** `inflight` is the promise chain: `start()` and
`stop()` append, the head is the operation that runs. `step` is where the head
stands relative to its `await`: `queued` before, `asked` during, `done` or
`refused` when the promise has settled and the continuation has not run yet.
`AlreadyThere` is the early return, `AskHost` the call, `HostPerforms` and
`HostRefuses` the system, `Resume` the continuation that flips the flag.
`systemTask` is the truth the code cannot see; `wanted` and `refused` are
history.

**`TgCallNative`.** One action per critical section of `g_sessionsMutex`, plus
the steps outside it. `startCall` is `EmplaceSession` (allocation, notifiers,
insertion), then `CreateInstance` or `CreateFails` outside the lock, then
`StoreInstance`; `NotifierFails` is the early throw. An emission is `EmitPacket`
(push under the lock, or drop when the session is gone) and `PostNotification`
(outside); `emitting` counts the threads of an instance that stand between the
two, since its media and its network thread may both be there. `DestroyInstance` is the end of tgcalls' asynchronous stop. Ids are
a scaled `int32_t`: incrementing the maximum is undefined behaviour in
`AllocateInstanceIdLocked`, so `Incremented` allows both outcomes a build can
produce, 1 or the negative number the folded check lets through.
The allocation and the insertion are two critical sections in the code; only
the JS thread allocates or inserts, and what an instance thread does in
between touches neither, so they are one action.

**`CallSession`** extends both. `pc` tells how far the running handler of
`CallSessionController` is, because instance threads run between any two of its
native calls: `stopDrain`, `stopErase` in `stopActiveSession`; `startEmplace`
to `startDrain` in `startReadyCall`; `feedDrain` after a feed or a
notification. `Flush` is `flushEmittedSignalingData`: drain, then send what came
out, which TdClient refuses without authorization. `startedFor` is what the
notifier closures capture. Handlers that return without an effect are stutters.

**`SignalingRelay`** is the abstract specification: one session open at a
time, its packets relayed once, in order, under its call, none waiting for
ever. `CallSession!Relay` is the refinement mapping (`open <- sessions`,
`waiting <- queue`, `owner <- startedFor`, `out <- sent`).

**`WebKInstance`.** One `InstanceV4_0_0Impl` and everything it posts. `mediaQ`,
`netQ` and `workQ` are the tasks waiting on the three threads, `mediaPc` and
`netPc` tell where a thread is inside a task that has more than one step, and
`held` the packet a thread has given a number and not handed over yet: the code
allots under `_signalingMutex` and calls `_signalingDataEmitted` outside it, so
the other thread may come between. The public methods only post (`Feed`,
`SetMute`, `Release`, which is `stop()` and the destructor that follows).
`ReceiveSetup` is the InitialSetup branch of `receiveSignalingData`: remote
parameters and local setup to the network thread, the channels on the worker
(a blocking call, so part of the step), the media state when the latches say so.
`StartNetworking` and `NetMediaState` are what the network thread does behind the
hand-over of our InitialSetup. The pending offer may be missing, which the code
logs: then no outgoing channel is made and the caller sends no InitialSetup. A
remote setup without audio may carry video, which runs the negotiation all the
same and may make our channel. `Shutdown` posts the networking's `stop` and an
empty blocking call (`Fence`), `Teardown` posts the body that `WorkerTeardown`
runs, `Reset` ends `stop()` or the destructor. `EmitLocalCandidate` and
`OnRtcpPacketReceived` are callbacks of running networking; `LevelTick` is the
timer on the worker. The peer is not modelled: any sequence of messages comes.

**`V3Call`.** Two `InstanceV13_0_0Impl` and what lies between them. Per peer
the same two queues and a record `st` of the internal object's members; the
worker's tasks are blocking calls here and part of the step that makes them.
`chan` is the signaling on its way: with SCTP it arrives in order, raw in any
order. `dcUp` is the data channel, which `Flap` opens and closes.
`MaxEvents` bounds what comes from outside. `Gated` names the tasks posted from
other threads, which test `_signalingAlive`; `GateClosed` is the test that
fails. The negotiation (`Negotiated`) is tgcalls' `ContentNegotiationContext`,
external, modelled from how `processSignalingData`, `sendOfferIfNeeded` and
`createNegotiatedChannels` use it.

**`CallEventBus`.** `TdClient`'s listener and buffer, the dispatcher's list,
the id every subscriber believes it holds, and the bootstrap of
`NotificationRuntimeService` with its generation. `Subscribe` keeps the code's
order: `start()` (which installs the listener and flushes the buffer) before
the entry is added. `releaseForLogout` is the whole method, with the
`dispatcher.stop()` it ends in.

**`CallScreen`.** A record per view model and its page; TDLib behind two queues
(`requests`, `updates`); the notification a call shows; the router's stack.
`HandleCallUpdate` is one update reaching every subscriber: the view models,
`handleAutoOpenCallEvent` and the notification. Pages appear some time after
`pushUrl` (`opening`), which is where most races sit. `Emitted` is `emitPhase`
with the interval and the return timer it moves.

**`HistoryPull`.** One chat, since `TdClient` keeps every table per chat; a
message is its id, the cache a set of ids (it is sorted by id on every merge).
`HandleMessages` is the whole handler: merge, snapshot to every page, cursor,
verdict, the pull it closes, the requests and the timer it sets off
(`FollowUps`, `RetryLatest`). A request carries its cursor, whether it is
centred, and the pull token of its `@extra`; those outstanding are a bag, since
two equal ones may be on the way. `Pull` is
`loadOlderMessagesByPull` with `requestOlderChatHistory` inside: either the
toast (`PullExhausted`) or a request, a registered token and a timeout
(`PullStarts`). `pages` is the router's stack of pages on this chat, since a
deeplink may open a second one over the first; only the top one is pulled, all
receive. TDLib is external: `PageFor` is `getChatHistory` (the page excludes its
cursor), `Nearest` the single message it may know before it has asked the
server, `Totals` what it may report as `total_count`; answers come in any order.
The outcome `rejected` cannot occur on an open page of a running session.

**`OpusRecorder`.** The global recorder of `opus_encode.cpp`, operators rather
than actions, since every call holds the mutex from start to end. Samples are
counted; a file is its sequence of Ogg pages, a page its granule position and
whether it ends the stream. `EncodeFrame` commits the packet before it, because
only `StopVoiceRecord` knows which packet is the last; `Finished` sets the
last position to where the samples end. A refusal (encoder, disk, limit) is the
parameter `ok`. `Encoded`, what a buffer adds, is written in closed form (as many
frames as are complete, each with its page); the theorem `EncodedIsLoop` says that
it is the code's loop.

**`VoiceNoteRecorder`** extends it with the controller, the draft and the page.
`chain` is `operationChain`; `op` the operation that runs, `op.at` the await it
is in; `answers` the operations that have ended and whose callers have not
continued. `Calm` says that all that promises had ready has run: only then the
event loop takes a tap, a buffer (`ReadData`), an answer of the audio service or
of the permission dialog. `BeginStart`, `BeginStop` and `BeginCancel` run an
operation to its first await; `CapturerCreated` to `StopReleased` go on behind
one. `CallerContinues` is the code behind the page's own await. A buffer is
encoded at once: the code drains its PCM queue in a promise job, which runs
before anything else may look at it. `MessageSent` and `MessageRefused` are the
listener of `MessageRecorder.aboutToAppear`, which `TdClient` calls for every
answer to a message sent in the chat: it compares the chat and nothing else, so
both fire in every phase of the page, with or without a draft, and neither is
tied to the note. `forgotten` (history) remembers the drafts TDLib had not taken
when such a confirmation cleared them. `ElapsedTick` is the timer of a recording,
which shows the "recording" snapshot again.

## 4 Runs, bounds, and what they show

| Run | Bounds | Shows |
|---|---|---|
| `native` | ids 1..2 and one negative, 2 packets per instance, 2 sessions | ids wrap within a few starts, both ways; two sessions run and stop side by side; packets are pushed before, between and after drains |
| `session` | ids 1..3 and one negative, 1 packet per instance, 2 calls, 2 sessions, chain of 3 | a start, its replacement by another call, failure at each stage and a restart; the refinement of the relay and that the task ends with the session, both with liveness. One packet per instance suffices here: it may be emitted at every stage; the order of several is the matter of `native`. `IdsLeft` stops before the ids wrap. The chain of three holds an operation in its await and one of each kind behind it |
| `bus` | buffer of 2, 3 events, 4 subscriptions, 2 generations | overflow of the buffer, a bootstrap outstanding over a logout and the next login, a subscription of every kind in one session |
| `bus_auto_open` | same | disagreement, section 6 |
| `screen` | 1 incoming, 1 outgoing call, 2 pages, 2 updates and 1 request in flight | taps, notification actions, updates, timers and loss of authorization in every order. Two pages are what one call can have open at a time: the auto-opened and one from the notification. With liveness: the end of a call reaches its screen |
| `screen_popped` | 2 incoming calls, 2 pages | disagreement, section 6 |
| `history` | pages of 3, a chat of 0 or 4 messages, 1 arrival, 1 deletion, 2 visits, 2 pages, 2 pulls, 2 requests outstanding, 1 short answer, 2 sessions, no refusal | four messages are one more than a page, so there is something older and then nothing; two pulls and two requests are what a stale answer needs; two visits a deeplink over a plain one, or the reverse |
| `history_ends` | a chat of 1 or 4, no arrival or deletion, 1 short answer, 1 refusal | liveness: retries and probes end, pages get their first messages. A chat of one message is what the retries react to |
| `webk` | 2 SSRCs, 3 posts before the stop, 3 sequence numbers before candidates stop, 1 RTCP task waiting, 1 level | an InitialSetup, its repetition with another SSRC, and a mute or candidates between them, on either side of every step of our own setup, with the stop at any moment. Three numbers are an InitialSetup, a candidate and a media state from either thread |
| `v3` | 2 events; the callee gathers, the caller mutes and may hang up | both exchanges cross over SCTP and raw; a candidate ahead of the setup it belongs to; a data channel that closes while the mute changes; tasks under way in both directions when the caller stops. The roles matter only for the negotiation, where both peers always offer |
| `recorder` | frames of 2 samples, a second of 3, a limit of 8, lookahead 1; buffers of 1, 3 and 5 samples; 3 recordings, 2 operations waiting | buffers that leave a rest, fill a frame, span several, and exceed the limit; a recording refused, cancelled or failed and then another one; the page leaves at every step; an answer to some message of the chat comes at every step |
| `recorder_page` | same | disagreement, section 6 |

`CHECK_DEADLOCK FALSE` is set for `CallScreen`, `HistoryPull`, `WebKInstance`, `V3Call`
and `VoiceNoteRecorder`: when every call is over and nobody taps, the visits
are spent and every request is answered, the instance is freed, the events are
used up, or the page is gone, nothing is left to happen. No run uses symmetry.

Bounds named in the modules: `MaxInflight`, `Room`, `IdsLeft`, `MaxPackets`,
`MaxSessions`, `Reusable` (an id is not reused while an instance started under it is
still around), `MaxEvents`, `MaxSubscriptions`, `MaxGenerations`, `Screens`
(a page opens once), `MaxUpdates`, `MaxRequests`, and the single loss of
authorization; in `HistoryPull` `MaxArrivals`, `MaxDeleted`, `MaxVisits`,
`MaxPages`, `MaxPulls`, `MaxShort`, `MaxRefusals`, `MaxLogins`, and `MaxRequests`,
which there bounds only what the user causes, never what the code sends by
itself; in `WebKInstance` `MaxFed`, `MaxSeq`, `MaxTasks`, `MaxLevels`; in
`V3Call` `MaxEvents` with `MayGather`, `MayMute`, `MayStop`; in
`VoiceNoteRecorder` `MaxStarts` and `MaxQueued` (`MaxSamples` is the code's
own limit, scaled like `FrameSize`, `Second` and `Preskip`).

Properties in words stand as comments above each definition. Those that need a
word more:

* `NoStrandedPacket` is the safety half of "no packet waits for ever": a packet
  in an open queue always has a wake-up under way. Reversing push and notify in
  the native code, or the stale-session guard in the controller, breaks it.
* `KeepAliveExactlyDuringCall` joins three components: when no handler runs and
  the chain is empty, the system's task exists exactly while the native table
  has a session, unless the host refused the last request. That exception is
  the code's: a refused `stop()` is retried only by a later `stop()`.
* `HostFollowsCalls` and `SessionIsOwned` say, for the continuous task and for the
  session, that what one component believes is what the other one has: the flag
  and the host's task, the controller's ids and the native table.
* `TableMatchesInstances`: every running instance is in the table and every entry
  has one, but for the id being started.
* `DeliveredInOrder`: every subscriber receives events in TDLib's order and each
  once, across logouts and logins; the runtime, while it listens, misses none.
* `LastOpenedIsCurrent`: the ability's memory of the call it opened a screen for
  outlives the call only while the update of its end is under way.
* `AnswerDisablesDecline` is not claimed of a call answered on a second screen
  because another call rang in between (`AnsweredApart`): that answer leaves the
  first screen as it was.
* `EndReachesScreen` speaks of screens that are subscribed, or placed the call.
  A page that appears after the end has been delivered never learns of it
  (a hazard in the list; no document promises otherwise).
* `PullsCloseOnce` joins the token of a pull, the page that waits for it and the
  timeout: no answer ends the cycle of a later pull, and a registered token has
  its page.
* `NoMoreIsTrue` excuses two cases: TDLib answered with less than it has, which
  no client can tell from the end, and a visit around a message, where the claim
  is false (section 6). `NoHole` excuses the latter too: the cache then
  holds two runs of messages, and nothing in the code fills the gap.
* `TrafficEnds` is about the code's own requests: with the user quiet, every
  answer may ask again (from the oldest message, from the top, or by timer);
  what stops it are the cursors already asked for and the budget.
* `EveryNumberOnce` says that every allotted number has left when the instance has
  stopped, not that they leave in order: the two threads hand over outside the
  mutex, and the peer must accept that.
* `SetupIsAnswered` needs a local fingerprint and, for the caller, an offer, for the
  callee, audio in the setup it reads: without them the code emits nothing, by design.
* `StopIsFinal` and `ReleaseCompletes` are the two sides of `shutdownInstance`:
  it waits long enough, and not for ever. Dropping the fence breaks the first,
  posting it and not what releases it the second.
* `PeerKnowsMute` speaks of a quiet call with an open data channel. Nothing tells
  a peer of a mute while the channel is closed; the opening makes up for it.
* `AudioBothWays` is stated over SCTP, with an engine that refuses nothing and
  nobody hanging up: over raw signaling an answer may overtake an offer, and
  then one direction stays without a channel.
* `NoteIsWhole` joins controller and encoder: what `stop()` answers with is a file
  whose pages grow to exactly the samples the controller heard.
* `NoFileLeftBehind` excuses one kind of file, those of `forgotten` drafts: the
  code forgets them without deleting their file (section 6). That it leaves no
  others holds over any number of answers to other messages, at any moment.

Every property of a passing run has a mutant in `PROJECT.json`: the mapped
definition replaced by the one a plausible mistake would give (defined just
before it, marked `Mutant`), under which the run finds the property violated.

## 5 Fairness

* `VoipFairness`: microtasks run, and a promise of the host settles.
* `CallSession!Fairness`: a running handler goes on (it never waits); an
  instance thread between push and notify goes on; a posted notification is
  served although other events may come first (strong fairness: the loop's
  queue is served, while the guard `Idle` is off and on); promise jobs likewise.
  Nothing is assumed of emissions, peers, or the updates of TDLib.
* `BusSpec`: `ensureReady` settles, whatever the answer.
* `ScreenSpec`: updates are delivered, pushed pages appear, armed timers fire,
  TDLib serves requests. Nothing is assumed of users and peers.
* `HistoryPull!FairSpec`: TDLib answers some request while one is outstanding
  (with a page; an error counts as no answer), and retry timers fire. Nothing
  is assumed of the pull timeout, the user, or updates.
* `WebKInstance!FairSpec`: each of the three threads runs what is posted to it.
  Nothing is assumed of the peer, the JS thread, candidates, RTCP or the timer.
* `VoiceNoteRecorder!FairSpec`: promise jobs run, and the audio service settles
  the promises it has given out, one way or the other. Nothing is assumed of
  the user, the dialog, the microphone or TDLib.

## 6 Disagreements between code and documents

Each is a run that TLC ends with a counterexample; `PROJECT.json` quotes the
lines.

* `bus_auto_open` – after a logout the dispatcher has dropped the ability's
  entry, the ability keeps its id and returns early from subscribing: no call
  auto-opens after the next login.
* `screen_popped` – the return timer of an ended call pops the page on top,
  which may be that of the next call; the ability still believes it open, and
  answers the call with no screen.
* `recorder_page` – the permission dialog is answered when the page has gone (a
  revoked session replaces it under the dialog, or the confirmation of an earlier
  message pops it): its recorder was released before the recording starts, and
  nothing ever stops it.

More were met while modelling and are in the models, without a run:

* `TdCallEventDispatcher.subscribe` starts the source, which flushes TdClient's
  buffer, before it adds the entry: what was "queued until listener is ready"
  (`TdClient.ets:5105`) reaches nobody.
* The hub closes the Decline race for subscribed view models, not for a page
  still opening: it then rings, and declines an answered call
  (`CallAcceptObserverHub.ets:29`).
* `handleMessages` judges "is there more" by the length of the page. A page
  centred on the message of a notification is short when that message is
  recent, whatever is older: the next pull says "no earlier messages" without
  asking TDLib (`TdClient.ets:1462`).
* The back gesture "always" ends the call (`pages/CallScreen.ets:104`), but
  `EndCall` does nothing until `createCall` is answered.
* An empty snapshot "means the chat is genuinely empty"
  (`ChatDetailsPageViewModel.ets:756-761`), but `ChatUpdate` emits one whenever
  the first page has not arrived yet.
* The recorder page takes the answer to any message of its chat for the answer to
  its note (`MessageRecorder.ets:105-119`, `TdClient.ets:3520` and `5554`). A
  confirmation that arrives while a note TDLib did not take waits for a retry
  forgets the note and leaves its file (`MessageSent`, `forgotten`); one that
  arrives during a recording pops the page, which cancels it. A refusal shows a
  failed send over a running recording until the next tick of its timer.
* In 13.0.0 a candidate gathered between the start of the networking and
  `createSignalingConnection` is dropped (`EmitLocalCandidate`).
* In 4.0.0 the media state is sent once: a later mute changes what the microphone
  sends and is never told.

## 7 Proofs

`tlapm` checks every obligation; nothing is assumed but the constants'
assumptions (`MaxInflightAssumption`, `MaxInt32Assumption`,
`MaxPacketsAssumption`, `CallsAssumption`, `HistoryAssumption`,
`WebKAssumption`, `V3Assumption`, `BusAssumption`, `ScreenAssumption`,
`RecorderAssumption`, `VoiceNoteAssumption`), which TLC also evaluates.

| Module | Theorems | Argument |
|---|---|---|
| `TgCallNativeProofs` | `NativeTypeCorrect`, `NativeInOrderNoLoss`, `NativeNoOrphan`, `NativeNoHollow`, `NativeTableMatches` | Types hold because every outcome of the overflow is still an id (`IncrementedIsId`). `StartingInv` ties the id being started to the table. Order is by counting: pushing one more packet continues the count (`CountOn`), a drain moves the queue behind what was drained (`DrainKeepsCount`) |
| `CallSessionProofs`, of the continuous task | `VoipInvariant`, `VoipTypeCorrect`, `VoipFlagIsTruth`, `VoipLastCallWins`, `VoipHostFollowsCalls` | `VoipInv`. `LastCallWins` says nothing while operations are pending, so the invariant remembers what the last call was (`WantedIsLast`), that an operation past its early return is needed (`Needed`), and that between the host's answer and the continuation the system is ahead of the flag (`HostDone`). The rest is what a chain looks like after one operation is added (`ChainAppend`) or done (`ChainTail`) |
| `CallSessionProofs`, of the session | `SessionInvariant`, `SessionTypeCorrect`, `SessionTableMatches`, `SessionIdsAgree`, `SessionNoStrandedPacket`, `SessionKeepAlive`, `SessionHasOwner`, `SessionRelaysSafely` | `SessionInv`. Between two of its native calls a handler leaves ids, table and task at different stages; `StageInv` and `TaskInv` say, per stage, what the next section may rely on. `NextVoip` and `NextNative` show each step to be a step of the two modules below or to leave them alone, so their invariants carry over; `SessionKeepAlive` then follows from `LastCallWins`. `SessionRelaysSafely` takes each critical section to the step of `SignalingRelay` it implements: inserting a session opens it (the stage says that none is open), an emission produces, a drain relays what waited, and every other step leaves the relay's view alone |
| `HistoryPullProofs` | `TokenAlwaysHasItsPage`, `NoAnswerClosesLaterPull`, `PullsAlwaysCloseOnce`, `HistoryTypeCorrect`, `NoHoleEver`, `NoMoreAlwaysTrue` | `PullInv`: an answer closes every page's cycle, also those of other pulls; that none of these is later needs: tokens are given in order, the registered one is the latest any page waits for, and it goes with the page or timeout that lets go of it. `HistoryInv` adds, until a page is opened around a message, `TailInv`: the cache is a tail of the chat, and every request on its way starts inside it (or at the top), so that whichever answer comes, early or late, what it brings adjoins what is there (`FollowUps` and the retries ask again from inside). What an answer holds is a run of messages that ends before its cursor (`PageFor`); a page shorter than was asked for holds all there is, which makes `NoMoreIsTrue` inductive |
| `CallEventBusProofs` | `NoStalePublisherAlways`, `BusTypeCorrect`, `EventsAlwaysInOrder` | `BusInv`: an outstanding bootstrap has a generation there has been (`GenerationsCounted`), and while that of the present generation is outstanding the runtime waits for it and has started nothing (`PresentBootstrapAwaited`): only then may its answer start the publisher. `Delivery`: while the dispatcher is the listener nothing is buffered, and while it is not it has no entry, so that only new events reach a subscriber; a subscriber has one entry at most, since ids are handed out once and an entry is known to its owner, so that each reaches it once |
| `CallScreenProofs` | `ScreenTypeCorrect`, `LastOpenedAlwaysCurrent`, `AnsweredNeverDeclined` | `ScreenInv`. `QueueOrder`: a call is announced once, and behind the announcement of one that is over its end is queued; so the ability, which remembers a call at its announcement, forgets it later. `Ringing` (`RingsOnce`): nothing shows a call that was not announced yet; one page at most is opened to accept it; and while no other call rang, a page that rings excludes one, since the notification answers through the hub or not at all |
| `WebKInstanceProofs` | `WebKInvariant`, `WebKTypeCorrect`, `WebKSetupComesFirst`, `WebKEveryNumberOnce`, `WebKStopIsFinal` | `WebKInv`, a conjunction of one part per concern. `StartInv`: start is the first task. `ShutInv`: what is left on the media thread before, during and after the stop. `FenceInv`: between `networking->stop()` and the fence the network thread has nothing else, and behind the fence nothing at all. `WorkerInv`: the teardown is the worker's last task. `SetupInv`: the InitialSetup is in one place (the network thread's queue, its hand, or first on the wire). `RemoteInv`: the callee's follows the remote parameters. `NumberInv`: each number is on the wire once or in one hand. `StopIsFinal` follows: once stopped no hand holds a packet and the pipeline is not alive |
| `V3CallProofs` | `V3TypeCorrect`, `CandidatesAlwaysFollow`, `FreedAlwaysUntouched`, `PeerAlwaysKnowsMute`, `AudioAlwaysBothWays` | `V3Inv`: per peer, stated of the values it relates so that each lemma is about queues and not about the call. `LifeOf`: the media queue has one of four shapes (nothing released; stop and delete side by side with only gated tasks behind; delete first; only gated tasks), each with what `alive`, `stopped`, `freed` and the thread's place are then. `NetworkOf`: while the media thread waits, the fence is the last task of the network thread, and behind it there is none. `CandidatesOf`: a candidate waits behind the parameters, and the handshake flag means these are posted or there. A step of one peer does at another at most append a gated task (`Elsewhere`), so the invariant of each peer is kept apart. A freed instance then has only gated tasks, an empty network queue and a closed gate, so `GateClosed` is all its threads can do (`FreedOnlyCloses`). `PeerAlwaysKnowsMute` follows the last word (`LastWord`): in the sender's network queue, else in the receiver's media queue, else what the receiver was told; it is true whenever no opening of the channel waits to be noted, and openings and closings alternate in the queue (`Alternates`), so that each opening is noted as a change and answered. `AudioAlwaysBothWays` follows the two exchanges through six phases (`Exchange`: the caller has not begun; its offer is out; the callee has answered it and offered in turn; the caller has the answer; it has answered the callee's offer; the callee has that answer). Each phase says what either peer holds and, word by word, which offers and answers are on the `Way` to each, in its media queue or still in the channel behind it; over SCTP a delivery leaves that way as it is (`WayDelivered`), and every step but those of a negotiation adds to it or takes from it only what negotiates nothing. `V3TypeCorrect` counts the candidates of a peer wherever they are, on the wire, delivered, kept for later, posted or added (`Counted`): each was gathered by an event, and a step only moves or drops them, so that the two counters never exceed the events |
| `VoiceNoteRecorderProofs` | `RecorderInvariant`, `RecorderTypeCorrect`, `PhaseAlwaysTruth`, `NoFileEverLeft`, `NoteAlwaysWhole`, `EncodedIsLoop` | `RecorderInv`. Between two operations the controller is in one of three situations (`BetweenOps`: recording, at rest, or failed with its clean-up next), and each await of an operation leaves one of its own (`InStart`, `InStop`, `InCancel`). `MessageSent` and `MessageRefused` may come at any moment: the page then shows a failed send, or is gone, whatever the controller does; what they forget is in `forgotten`, and `Notes` accounts for every finished file as draft, sent or forgotten. `OneSession`: a question to the user, a start, its answer, a recording, a stop and a note exclude each other where one would disturb the other. `PageFollows`: each of them leaves the page in one of a few phases. `FileFollows`: the file being written is, page by page, what the recorder counts; `Files`: a note is a finished one, and no finished file is written again |

They hold for every set of calls, every width of the id, every number of
packets and every bound of the chain; in the history for every page size, chat
and number of pages, pulls and sessions; in the 4.0.0 instance for every length
of its queues, and every number of messages, candidates and levels; in a call of
two 13.0.0 instances for every number of candidates, mutes, refusals and closings
of the data channel; in the bus for every number of events and logouts; on the
screens for every number of calls that ring together, and of pages; in the
recorder for every frame length, limit, lookahead, size of buffers and number of
recordings. The step lemmas of `VoipBackgroundTask` and `TgCallNative` are stated
for any step of the module, not for its own `Next`, so that the composition
reuses them.

Only model-checked:

* Every liveness property, and the fairness half of `ImplementsSignalingRelay`:
  liveness and ENABLED are out of the prover's reach. `SessionRelaysSafely` is
  its other half, `Init` and `[][Next]` of the relay.
* What a recursive definition computes for every input: the provers take no
  induction theorem with an operator parameter. A set of numbers has a least
  element by the well-foundedness of `<`, which needs none (`HistoryPullProofs`).
  Where a theorem is about a loop, the model has its closed form, and the theorem
  says that one round more is what the closed form says (`EncodedIsLoop`).

`VoipSpec` and `NativeSpec` have theorems of their own; `VoipSpec` has no run,
because `session` checks its invariants in the composition.

## 8 What is not modelled, and the limits of what is

* Microphone level and mute: they change no state the other properties are
  about. The guard of `handleAudioLevel` compares the call id only; a level of a
  stopped instance of the same call can pass it (listed as a hazard).
* In the 4.0.0 instance: battery level, audio devices, the counters of its data
  channel, network-state reports and media-level diagnostics. In 13.0.0 the
  level task, RTCP and network counters as well. They log, or change what no
  other part reads. Creating channels is a blocking call to the worker and one
  step with the handler that makes it; destroying them (`WorkerTeardown`) likewise,
  with the calls their destructors make to the network thread, whose wait is not seen.
* The diagnostic instance and its stubs: `startDiagnosticCall` is never called by
  the app; `_experimental/` is compiled by no build file.
* The call descriptor, the registry of versions and the signaling adapter
  (`tgcall_session.cpp`, `tgcall_webk_*`): conversions and registration, no state
  that outlives a call of theirs.
* Below the instances WebRTC and tgcalls' networking, and TDLib, the router and the
  system services, are external: modelled by what the code sees of them.
* Voice recording: the waveform, the elapsed-time display, the warning near the
  limit, and the permission dialog of the system settings behind a denial. Detaching
  the microphone's listener is assumed not to fail: if it did, buffers would still be
  taken while a recording is being stopped (`VoiceNoteRecorderController.ets:227-232`,
  `414`), which `ReadData` does not offer. Playback and the decoder are not modelled.
* A negative id after 2^31 starts is taken for a failed start by the
  controller while its session runs on (hazard, line 230 of the controller);
  `CallSession` stops before ids wrap.
* `pushUrl` may throw, which `handleAutoOpenCallEvent` catches and `AutoOpen`
  models. A rejection of the promise it returns is not caught: the ability then
  remembers a screen that was never shown (a hazard in the list, not modelled).
* In 13.0.0 a packet goes from the data channel or the signaling connection to the
  object in two hops with a test of `_signalingAlive` in the second
  (`InstanceV13_0_0Impl.cpp:693-700`, `771-779`); `Deliver` folds them and appends
  nothing once the instance is released, so that one gate stays closed to the model,
  and `FreedIsUntouched` covers the others. `NegotiatedChannels` does not retry an
  incoming channel that was refused, which the code does on the next negotiation.
* On the call screens `LoseAuthorization` is a session that TDLib ends; an explicit
  logout also drops the dispatcher's subscriptions, which `CallEventBus` has
  (`releaseForLogout`) and `CallScreen` does not.
* In the history: scrolling to a deeplink target and giving up on it, view
  marks, reactions, edits, and the replacement of a pending message's id by its
  final one, which belongs to sending.
* Mock mode of the call screen, the peer's profile, the microphone prompt that
  rides the notification bootstrap.
* Pure conversions (parsers, mappers, formatters), layout, assets, and pure
  I/O (`bridge`).
* The components marked `not_modelled`, and what section 2 lists as not reached:
  these keep state worth a model; they come after the calls, the history and
  the recorder in importance, and were left for that reason only.

## 9 How to run

From this directory:

    tlc -workers 2 -config MCCallSession.cfg CallSession.tla
    tlapm CallSessionProofs.tla

`PROJECT.json` pairs each run with its module and configuration. The longest
runs (`screen`, `session`) take a minute or two each, `CallSessionProofs` and
`WebKInstanceProofs` about two, `VoiceNoteRecorderProofs` three, `V3CallProofs`
about fifteen.
