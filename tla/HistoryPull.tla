---------------------------- MODULE HistoryPull ----------------------------
(* The message history of one chat: TdClient's cache and cursor, the requests *)
(* and retries that fill them, and the ChatDetails pages that show the chat   *)
(* and pull older messages (services/td/TdClient.ets, pages/ChatDetails.ets,  *)
(* viewmodel/ChatDetailsPageViewModel.ets).  TdClient keeps every table per   *)
(* chat, so one chat stands for all.  A message is its id; ids grow.          *)
EXTENDS Integers, Sequences, FiniteSets, Bags, SequencesExt, FiniteSetsExt

CONSTANTS
  Limit,        \* page size (CHAT_HISTORY_INITIAL_LIMIT)
  Sizes,        \* how many messages the chat may hold at the start
  Anchors,      \* messages a notification deeplink may name
  MaxArrivals,  \* bound: messages that arrive while the program runs
  MaxDeleted,   \* bound: deleted messages
  MaxVisits,    \* bound: page visits and refreshes after a send
  MaxPages,     \* bound: pages of the chat on the router stack
  MaxPulls,     \* bound: pulls that reach TDLib
  MaxRequests,  \* bound: requests outstanding when the user causes another
  MaxShort,     \* bound: answers shorter than they need to be
  MaxRefusals,  \* bound: requests refused by TDLib
  MaxLogins     \* bound: sessions

ASSUME HistoryAssumption ==
  /\ Limit \in Nat \ {0} /\ Sizes \subseteq Nat
  /\ Anchors \subseteq Nat \ {0}
  /\ {MaxArrivals, MaxDeleted, MaxVisits, MaxPages, MaxPulls, MaxRequests,
      MaxShort, MaxRefusals, MaxLogins} \subseteq Nat

VARIABLES
  server,          \* ids of the messages TDLib has
  newest,          \* the largest id ever given
  requests,        \* bag of the getChatHistory requests TDLib has not answered
  cache,           \* messagesByChatId
  asked,           \* historyRequestedFromByChatId
  nextFrom,        \* historyNextFromByChatId
  hasMore,         \* historyHasMoreByChatId
  limitKnown,      \* historyLimitByChatId has an entry
  retryBudget,     \* historyRetryBudgetByChatId
  notFoundBudget,  \* historyChatNotFoundRetryBudgetByChatId
  pullToken,       \* pullTokenByChatId, 0 when absent
  nextPullToken,
  retryTimers,     \* requests a timer will send
  pages,           \* the ChatDetails pages on the router stack, top last
  authorized,      \* the authorization state is ready
  arrivals, visits, shorts, refusals, logins,  \* what has happened, against the bounds
  deeplinked,      \* history: some visit came from a notification deeplink
  event            \* history: what the last step told the user

cursor == <<asked, nextFrom, hasMore, limitKnown, retryBudget, notFoundBudget>>
pull == <<pullToken, nextPullToken>>
tally == <<arrivals, visits, shorts, refusals, logins, deeplinked>>
vars == <<server, newest, requests, cache, cursor, pull, retryTimers, pages,
          authorized, tally, event>>

NoCursor == -1
Nothing == [toast |-> "none", answer |-> 0, closed |-> {}]

(* ChatDetails.aboutToAppear to the first snapshot; `token` is history: the   *)
(* pull whose cycle is open.                                                  *)
NewPage == [loadingMessages |-> TRUE, pullInFlight |-> FALSE, loadingOlder |-> FALSE,
            timer |-> FALSE, token |-> 0]

Init ==
  /\ newest \in Sizes /\ server = 1..newest
  /\ requests = EmptyBag /\ cache = {} /\ asked = {} /\ nextFrom = NoCursor
  /\ hasMore = TRUE /\ limitKnown = FALSE /\ retryBudget = 0 /\ notFoundBudget = 0
  /\ pullToken = 0 /\ nextPullToken = 1 /\ retryTimers = <<>> /\ pages = <<>>
  /\ authorized = TRUE /\ arrivals = 0 /\ visits = 0 /\ shorts = 0 /\ refusals = 0 /\ logins = 1
  /\ deeplinked = FALSE /\ event = Nothing

----------------------------------------------------------------------------
(* TDLib's getChatHistory: `Limit` messages older than the cursor, the newest *)
(* ones for 0; a centred request replaces half of them by the cursor itself   *)
(* and what follows it.                                                       *)

Lowest(n, S) == {m \in S : Cardinality({k \in S : k < m}) < n}
Highest(n, S) == {m \in S : Cardinality({k \in S : k > m}) < n}

Before(from) == {m \in server : from = 0 \/ m < from}
Half == Limit \div 2
PageFor(r) ==
  IF r.centered
  THEN Lowest(Half, {m \in server : m >= r.from}) \cup Highest(Limit - Half, Before(r.from))
  ELSE Highest(Limit, Before(r.from))

(* TDLib may know a single message of the page before it has asked the server.*)
Nearest(r, page) == Highest(1, {m \in page : ~r.centered \/ m <= r.from})

(* total_count: not reported, the size of the page, or the size of the chat.  *)
Totals(page) == {0, Cardinality(page), Cardinality(server)}

----------------------------------------------------------------------------
(* TdClient *)

One(r) == SetToBag({r})

(* requestChatHistoryPage on the cursors asked for and the requests sent.     *)
Ask(net, from, force, centered, token) ==
  IF ~authorized \/ (~force /\ from \in net.asked) THEN net
  ELSE [asked |-> net.asked \cup {from},
        sent |-> net.sent (+) One([from |-> from, centered |-> centered, token |-> token])]

Net == [asked |-> asked, sent |-> requests]
Sent(net) == asked' = net.asked /\ requests' = net.sent
Room == BagCardinality(requests) < MaxRequests

\* Mutant: the cursors of the previous visit are kept.
StartHistoryKeepsAsked(from, centered) ==
  /\ limitKnown' = TRUE /\ nextFrom' = from /\ hasMore' = TRUE /\ retryBudget' = 1
  /\ notFoundBudget' = (IF centered THEN 1 ELSE 0)
  /\ Sent(Ask(Net, from, FALSE, centered, 0))

\* Mutant: retries cost nothing.
SpentNothing(again) == retryBudget

(* What a retry leaves of the budget.                                         *)
Spent(again) == retryBudget - (IF again THEN 1 ELSE 0)

(* requestChatHistory and requestChatHistoryFromMessage: forget the cursors,  *)
(* ask for the newest page or for the page around a message.                  *)
StartHistory(from, centered) ==
  /\ limitKnown' = TRUE /\ nextFrom' = from /\ hasMore' = TRUE /\ retryBudget' = 1
  /\ notFoundBudget' = (IF centered THEN 1 ELSE 0)
  /\ Sent(Ask([Net EXCEPT !.asked = {}], from, FALSE, centered, 0))

(* emitChatMessages reaching every page: a snapshot of the cache, which ends  *)
(* the loading even when it is empty.                                         *)
Shown(ps) == [i \in DOMAIN ps |-> [ps[i] EXCEPT !.loadingMessages = FALSE]]

NothingOlder == \A m \in server : \E c \in cache' : c <= m
Toast(more) == IF more THEN "none" ELSE IF NothingOlder THEN "true" ELSE "false"

(* The pages' historyPageResolved subscriber.                                 *)
Resolved(ps) == [i \in DOMAIN ps |->
  [ps[i] EXCEPT !.timer = FALSE, !.loadingOlder = FALSE, !.pullInFlight = FALSE,
                !.token = 0]]

\* Mutant: any answer to a pull closes the cycle that is open.
ResolvePendingPullAny(token, more, ps) ==
  IF token = 0 \/ pullToken = 0
  THEN pages' = ps /\ event' = Nothing /\ UNCHANGED pullToken
  ELSE /\ pullToken' = 0 /\ pages' = Resolved(ps)
       /\ event' = [toast |-> IF ps = <<>> THEN "none" ELSE Toast(more), answer |-> token,
                    closed |-> {ps[i].token : i \in DOMAIN ps} \ {0}]

(* resolvePendingPullIfAny, after the snapshot has been emitted.              *)
ResolvePendingPullIfAny(token, more, ps) ==
  IF token = 0 \/ token # pullToken
  THEN pages' = ps /\ event' = Nothing /\ UNCHANGED pullToken
  ELSE /\ pullToken' = 0 /\ pages' = Resolved(ps)
       /\ event' = [toast |-> IF ps = <<>> THEN "none" ELSE Toast(more), answer |-> token,
                    closed |-> {ps[i].token : i \in DOMAIN ps} \ {0}]

\* Mutant: an older page replaces what is cached.
MergedReplaces(r, incoming) == IF r.from = 0 THEN cache \cup incoming ELSE incoming

(* mergeRefreshedMessages, for every page whatever it answers.                *)
Merged(r, incoming) == cache \cup incoming

\* Mutant: a full page is taken for the last one.
StillMoreStrict(r, incoming, total) ==
  /\ incoming # {}
  /\ \/ total > 0 /\ Cardinality(cache') < total
     \/ Cardinality(incoming) > Limit
     \/ r.from = 0 /\ Cardinality(incoming) < Limit /\ total = 0

(* What handleMessages makes of a page: is there more, and what to ask next.  *)
StillMore(r, incoming, total) ==
  /\ incoming # {}
  /\ \/ total > 0 /\ Cardinality(cache') < total
     \/ Cardinality(incoming) >= Limit
     \/ r.from = 0 /\ Cardinality(incoming) < Limit /\ total = 0

Sparse(incoming, total) == Cardinality(incoming) = 1 /\ total <= 1
ProbeOlder(r, incoming, total) ==
  r.from = 0 /\ (Sparse(incoming, total) \/ (Cardinality(incoming) \in 1..Limit - 1 /\ total = 0))
RetryFirst(r, incoming, total) == r.from = 0 /\ cache = {} /\ Sparse(incoming, total)
RetryLatest(r, incoming, total) ==
  /\ r.from = 0 /\ cache # {} /\ Sparse(incoming, total)
  /\ Cardinality(cache') < Limit /\ retryBudget > 0
RefreshLatest(r, incoming, total) ==
  r.from # 0 /\ Sparse(incoming, total) /\ Cardinality(cache') = 1

FollowUps(net, r, incoming, total) ==
  LET n1 == IF ProbeOlder(r, incoming, total)
            THEN Ask(net, Min(cache'), FALSE, FALSE, 0) ELSE net
      n2 == IF RetryFirst(r, incoming, total) THEN Ask(n1, 0, TRUE, FALSE, 0) ELSE n1
  IN  IF RefreshLatest(r, incoming, total) THEN Ask(n2, 0, FALSE, FALSE, 0) ELSE n2

(* handleMessages: merge the page, move the cursor, close the pull the page   *)
(* answers, ask again where the page looks incomplete.                        *)
HandleMessages(r) ==
  /\ BagIn(r, requests)
  /\ \E short \in {b \in BOOLEAN : b => shorts < MaxShort} :
       LET full == PageFor(r)
           incoming == IF short THEN Nearest(r, full) ELSE full
           net == [Net EXCEPT !.sent = @ (-) One(r)]
       IN /\ short => Cardinality(incoming) < Cardinality(full)
          /\ shorts' = shorts + (IF short THEN 1 ELSE 0)
          /\ cache' = Merged(r, incoming)
          /\ notFoundBudget' = 0
          /\ \E total \in Totals(incoming) :
               IF ~limitKnown
               THEN /\ Sent(net) /\ pages' = Shown(pages) /\ event' = Nothing
                    /\ UNCHANGED <<nextFrom, hasMore, retryBudget, pullToken, retryTimers>>
               ELSE IF cache' = {}
               THEN /\ hasMore' = FALSE /\ Sent(net)
                    /\ ResolvePendingPullIfAny(r.token, FALSE, Shown(pages))
                    /\ UNCHANGED <<nextFrom, retryBudget, retryTimers>>
               ELSE LET more == StillMore(r, incoming, total)
                        again == RetryLatest(r, incoming, total)
                    IN /\ nextFrom' = Min(cache') /\ hasMore' = more
                       /\ ResolvePendingPullIfAny(r.token, more, Shown(pages))
                       /\ Sent(FollowUps(net, r, incoming, total))
                       /\ retryBudget' = Spent(again)
                       /\ retryTimers' = retryTimers \o
                            (IF again THEN <<[from |-> 0, centered |-> FALSE]>> ELSE <<>>)
  /\ UNCHANGED <<server, newest, limitKnown, nextPullToken, authorized, arrivals, visits,
                 refusals, logins, deeplinked>>

(* handleError for a history request: only "Chat not found" on a deeplink page*)
(* is retried (handleChatHistoryNotFoundError); its requestChats call moves   *)
(* the chat list, not the history.                                            *)
HandleError(r) ==
  /\ BagIn(r, requests) /\ refusals < MaxRefusals
  /\ refusals' = refusals + 1
  /\ requests' = requests (-) One(r)
  /\ \E notFound \in BOOLEAN :
       IF notFound /\ r.from # 0 /\ notFoundBudget > 0
       THEN /\ notFoundBudget' = notFoundBudget - 1
            /\ retryTimers' = Append(retryTimers, [from |-> r.from, centered |-> TRUE])
       ELSE UNCHANGED <<notFoundBudget, retryTimers>>
  /\ event' = Nothing
  /\ UNCHANGED <<server, newest, cache, asked, nextFrom, hasMore, limitKnown, retryBudget,
                 pull, pages, authorized, arrivals, visits, shorts, logins, deeplinked>>

(* The timers handleMessages and handleChatHistoryNotFoundError arm: one delay*)
(* for all, so they fire in order.                                            *)
RetryTimerFires ==
  /\ retryTimers # <<>>
  /\ retryTimers' = Tail(retryTimers)
  /\ Sent(Ask(Net, Head(retryTimers).from, TRUE, Head(retryTimers).centered, 0))
  /\ event' = Nothing
  /\ UNCHANGED <<server, newest, cache, nextFrom, hasMore, limitKnown, retryBudget,
                 notFoundBudget, pull, pages, authorized, tally>>

(* handleUpdateNewMessage *)
NewMessage ==
  /\ authorized /\ arrivals < MaxArrivals
  /\ arrivals' = arrivals + 1 /\ newest' = newest + 1 /\ server' = server \cup {newest'}
  /\ cache' = cache \cup {newest'} /\ nextFrom' = Min(cache')
  /\ pages' = Shown(pages) /\ event' = Nothing
  /\ UNCHANGED <<requests, asked, hasMore, limitKnown, retryBudget, notFoundBudget, pull,
                 retryTimers, authorized, visits, shorts, refusals, logins, deeplinked>>

\* Mutant: a deleted message stays in the cache.
DeleteMessageKeepsCached(m) ==
  /\ authorized /\ m \in server /\ newest - Cardinality(server) < MaxDeleted
  /\ server' = server \ {m} /\ event' = Nothing
  /\ UNCHANGED <<newest, requests, cache, cursor, pull, retryTimers, pages, authorized, tally>>

(* handleUpdateDeleteMessages *)
DeleteMessage(m) ==
  /\ authorized /\ m \in server /\ newest - Cardinality(server) < MaxDeleted
  /\ server' = server \ {m} /\ cache' = cache \ {m}
  /\ IF m \in cache
     THEN /\ pages' = Shown(pages)
          /\ nextFrom' = IF cache' = {} THEN 0 ELSE Min(cache')
     ELSE UNCHANGED <<pages, nextFrom>>
  /\ event' = Nothing
  /\ UNCHANGED <<newest, requests, asked, hasMore, limitKnown, retryBudget, notFoundBudget,
                 pull, retryTimers, authorized, tally>>

(* handleChat, handleUpdateNewChat, handleUpdateChatReadOutbox: the history is*)
(* emitted as it is.                                                          *)
ChatUpdate ==
  /\ authorized /\ pages # <<>>
  /\ cache' = cache /\ pages' = Shown(pages) /\ event' = Nothing
  /\ UNCHANGED <<server, newest, requests, cursor, pull, retryTimers, authorized, tally>>

(* handleMessage, the answer to a sendMessage, and ComposeMessage on its way  *)
(* back: both refresh the history.                                            *)
RefreshAfterSend ==
  /\ authorized /\ visits < MaxVisits /\ Room
  /\ visits' = visits + 1
  /\ StartHistory(0, FALSE)
  /\ event' = Nothing
  /\ UNCHANGED <<server, newest, cache, pull, retryTimers, pages, authorized, arrivals,
                 shorts, refusals, logins, deeplinked>>

(* resetSessionCaches, and the top page replaced by Index, which abandons its *)
(* pull; TDLib drops what it has not answered.                                *)
SessionEnds ==
  /\ authorized /\ authorized' = FALSE
  /\ cache' = {} /\ asked' = {} /\ nextFrom' = NoCursor /\ limitKnown' = FALSE
  /\ hasMore' = TRUE /\ retryBudget' = 0 /\ notFoundBudget' = 0
  /\ requests' = EmptyBag
  /\ IF pages = <<>> THEN UNCHANGED <<pages, pullToken>>
     ELSE pages' = Front(pages) /\ pullToken' = 0
  /\ event' = Nothing
  /\ UNCHANGED <<server, newest, nextPullToken, retryTimers, tally>>

(* A login clears the router stack (PostAuthRouter); every page disappears.   *)
LogIn ==
  /\ ~authorized /\ logins < MaxLogins
  /\ authorized' = TRUE /\ logins' = logins + 1
  /\ pages' = <<>> /\ pullToken' = (IF pages = <<>> THEN pullToken ELSE 0)
  /\ event' = Nothing
  /\ UNCHANGED <<server, newest, requests, cache, cursor, nextPullToken, retryTimers,
                 arrivals, visits, shorts, refusals, deeplinked>>

----------------------------------------------------------------------------
(* ChatDetails *)

(* aboutToAppear: subscribe and refresh, around `anchor` when a notification  *)
(* deeplink (anchor # 0) opened the page.                                     *)
Open(anchor) ==
  /\ authorized /\ visits < MaxVisits /\ Room /\ Len(pages) < MaxPages
  /\ visits' = visits + 1 /\ deeplinked' = (deeplinked \/ anchor # 0)
  /\ pages' = Append(pages, NewPage)
  /\ StartHistory(anchor, anchor # 0)
  /\ event' = Nothing
  /\ UNCHANGED <<server, newest, cache, pull, retryTimers, authorized, arrivals, shorts,
                 refusals, logins>>

(* aboutToDisappear: cancel the timer, abandon the pull, unsubscribe.         *)
Leave ==
  /\ authorized /\ pages # <<>>
  /\ pages' = Front(pages) /\ pullToken' = 0
  /\ event' = Nothing
  /\ UNCHANGED <<server, newest, requests, cache, cursor, nextPullToken, retryTimers,
                 authorized, tally>>

(* requestOlderChatHistory when the cursor says there is nothing older.       *)
MayRetryFirstPage ==
  retryBudget > 0 /\ cache # {} /\ Cardinality(cache) < Limit
PullExhausted ==
  /\ event' = [Nothing EXCEPT !.toast = Toast(FALSE)]
  /\ UNCHANGED <<requests, cursor, pull, pages>>

(* requestOlderChatHistory that sends a page: the first page again, or the    *)
(* one before the cursor; a pull repeats a cursor already asked for.          *)
PullStarts ==
  LET again == ~hasMore
      from == IF again THEN 0
              ELSE IF nextFrom # NoCursor THEN nextFrom
              ELSE IF cache = {} THEN 0 ELSE Min(cache)
  IN /\ nextPullToken <= MaxPulls /\ Room
     /\ Sent(Ask(Net, from, TRUE, FALSE, nextPullToken))
     /\ retryBudget' = Spent(again)
     /\ pullToken' = nextPullToken /\ nextPullToken' = nextPullToken + 1
     /\ pages' = [pages EXCEPT ![Len(pages)] =
          [@ EXCEPT !.pullInFlight = TRUE, !.loadingOlder = TRUE, !.timer = TRUE,
                    !.token = nextPullToken]]
     /\ event' = Nothing
     /\ UNCHANGED <<nextFrom, hasMore, limitKnown, notFoundBudget>>

(* loadOlderMessagesByPull on the page the user sees.                         *)
Pull ==
  /\ authorized /\ pages # <<>> /\ ~Last(pages).pullInFlight
  /\ cache' = cache
  /\ IF ~hasMore /\ ~MayRetryFirstPage THEN PullExhausted ELSE PullStarts
  /\ UNCHANGED <<server, newest, retryTimers, authorized, tally>>

(* The defensive timeout of a pull.                                           *)
PullTimeout(i) ==
  /\ i \in DOMAIN pages /\ pages[i].timer
  /\ IF pages[i].loadingOlder
     THEN /\ pages' = [pages EXCEPT ![i] = [@ EXCEPT !.timer = FALSE,
                !.loadingOlder = FALSE, !.pullInFlight = FALSE, !.token = 0]]
          /\ pullToken' = 0
     ELSE pages' = [pages EXCEPT ![i].timer = FALSE] /\ UNCHANGED pullToken
  /\ event' = Nothing
  /\ UNCHANGED <<server, newest, requests, cache, cursor, nextPullToken, retryTimers,
                 authorized, tally>>

----------------------------------------------------------------------------
Answer == \E r \in BagToSet(requests) : HandleMessages(r)
TimeoutFires == \E i \in DOMAIN pages : PullTimeout(i)

Next ==
  \/ Answer
  \/ \E r \in BagToSet(requests) : HandleError(r)
  \/ RetryTimerFires
  \/ TimeoutFires
  \/ NewMessage
  \/ \E m \in server : DeleteMessage(m)
  \/ ChatUpdate
  \/ RefreshAfterSend
  \/ SessionEnds
  \/ LogIn
  \/ \E anchor \in {0} \cup (Anchors \cap server) : Open(anchor)
  \/ Leave
  \/ Pull

Spec == Init /\ [][Next]_vars
FairSpec == Spec /\ WF_vars(Answer) /\ WF_vars(RetryTimerFires)

----------------------------------------------------------------------------
(* Types of the variables. *)
HistoryTypeOK ==
  /\ newest \in Nat /\ server \subseteq 1..newest /\ cache \subseteq server
  /\ IsABag(requests)
  /\ BagToSet(requests) \subseteq [from : 0..newest, centered : BOOLEAN, token : 0..MaxPulls]
  /\ asked \subseteq 0..newest /\ nextFrom \in {NoCursor} \cup 0..newest
  /\ {hasMore, limitKnown, authorized, deeplinked} \subseteq BOOLEAN
  /\ retryBudget \in 0..1 /\ notFoundBudget \in 0..1
  /\ pullToken \in 0..MaxPulls /\ nextPullToken \in 1..MaxPulls + 1
  /\ retryTimers \in Seq([from : 0..newest, centered : BOOLEAN])
  /\ pages \in Seq([loadingMessages : BOOLEAN, pullInFlight : BOOLEAN,
                    loadingOlder : BOOLEAN, timer : BOOLEAN, token : 0..MaxPulls])
  /\ Len(pages) <= MaxPages
  /\ event \in [toast : {"none", "true", "false"}, answer : 0..MaxPulls,
                closed : SUBSET (0..MaxPulls)]

(* A registered token belongs to a pull that the page which began it still    *)
(* waits for, with its timeout armed: however a page lets go of a pull, by an *)
(* answer, by the timeout or by leaving, the token goes with it, so that no   *)
(* later answer can match it (abandonPendingPull).                            *)
TokenHasItsPage ==
  /\ pullToken # 0 => \E i \in DOMAIN pages : pages[i].token = pullToken
  /\ \A i \in DOMAIN pages :
       /\ pages[i].pullInFlight <=> pages[i].token # 0
       /\ pages[i].pullInFlight => pages[i].loadingOlder /\ pages[i].timer

(* The answer to an earlier pull never ends the cycle of a later one: a page  *)
(* left or timed out and pulled again keeps spinning until its own answer     *)
(* comes (the token in @extra against pullTokenByChatId).                     *)
NoStaleAnswerCloses == \A t \in event.closed : t <= event.answer

(* Both: a pull is closed by its own answer, its own timeout or its page, and *)
(* by nothing that is left over from an earlier one.                          *)
PullsCloseOnce == TokenHasItsPage /\ NoStaleAnswerCloses

(* "No earlier messages" is true when it is shown, unless TDLib answered      *)
(* short or the history was opened around a message: whatever the order of    *)
(* answers, updates, visits and retries.                                      *)
NoMoreIsTrue == event.toast = "false" => deeplinked \/ shorts > 0

(* The timeline is a tail of the chat: no message is missing between two that *)
(* are shown, whatever the order in which pages and updates came, as long as  *)
(* no page was opened around a message.                                       *)
NoHole == deeplinked \/ \A c \in cache : \A m \in server : m > c => m \in cache

(* The probes and retries that an answer sets off come to an end: once the    *)
(* user stops, no request and no timer is left.                               *)
TrafficEnds == <>[](requests = EmptyBag /\ retryTimers = <<>>)

(* A page that waits for its first messages gets them, unless TDLib refuses   *)
(* or the session ends.                                                       *)
Loading == \E i \in DOMAIN pages : pages[i].loadingMessages
LoadingEnds == Loading ~> (~Loading \/ refusals > 0 \/ ~authorized)
=============================================================================
