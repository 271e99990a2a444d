------------------------- MODULE HistoryPullProofs --------------------------
(***************************************************************************)
(* Proofs about HistoryPull, for every size of the chat and of a page, and *)
(* every number of pages, pulls, requests and sessions.                    *)
(*                                                                         *)
(* That an answer closes no later cycle rests on three facts about tokens, *)
(* which every step keeps: they are given in order, a registered token is  *)
(* the latest any page waits for, and it goes with its page (PullInv).     *)
(* That the timeline has no hole, and that "no more" is true, rests on the *)
(* cache being a tail of the chat which every request starts inside        *)
(* (HistoryInv), until a page is opened around a message.                  *)
(***************************************************************************)
EXTENDS HistoryPull, SequenceTheorems, FiniteSetTheorems, WellFoundedInduction, TLAPS

Page == [loadingMessages : BOOLEAN, pullInFlight : BOOLEAN, loadingOlder : BOOLEAN,
         timer : BOOLEAN, token : Nat]

\* The inductive invariant.
PullInv ==
  /\ pages \in Seq(Page)
  /\ nextPullToken \in Nat \ {0}
  /\ pullToken \in Nat /\ pullToken < nextPullToken
  /\ \A i \in DOMAIN pages : pages[i].token < nextPullToken
  /\ pullToken # 0 => \A i \in DOMAIN pages : pages[i].token <= pullToken
  /\ TokenHasItsPage

-----------------------------------------------------------------------------
(* What the steps do to the stack of pages.                                *)

\* A snapshot changes neither the pages there are nor their pulls.
LEMMA ShownKeeps ==
  ASSUME NEW ps \in Seq(Page)
  PROVE  /\ Shown(ps) \in Seq(Page) /\ Len(Shown(ps)) = Len(ps)
         /\ DOMAIN Shown(ps) = DOMAIN ps
         /\ \A i \in DOMAIN ps :
              /\ Shown(ps)[i].token = ps[i].token
              /\ Shown(ps)[i].pullInFlight = ps[i].pullInFlight
              /\ Shown(ps)[i].loadingOlder = ps[i].loadingOlder
              /\ Shown(ps)[i].timer = ps[i].timer
<1>1. DOMAIN ps = 1..Len(ps) /\ Len(ps) \in Nat
  OBVIOUS
<1>2. \A i \in DOMAIN ps : ps[i] \in Page
  OBVIOUS
<1>3. \A i \in DOMAIN ps : [ps[i] EXCEPT !.loadingMessages = FALSE] \in Page
  BY <1>2 DEF Page
<1>4. Shown(ps) \in [1..Len(ps) -> Page]
  BY <1>1, <1>3 DEF Shown
<1>5. Shown(ps) \in Seq(Page) /\ Len(Shown(ps)) = Len(ps)
  BY <1>1, <1>4
<1>6. \A i \in DOMAIN ps : Shown(ps)[i] = [ps[i] EXCEPT !.loadingMessages = FALSE]
  BY DEF Shown
<1> QED
  BY <1>1, <1>2, <1>4, <1>5, <1>6 DEF Page

\* The subscriber ends every page's cycle.
LEMMA ResolvedFrees ==
  ASSUME NEW ps \in Seq(Page)
  PROVE  /\ Resolved(ps) \in Seq(Page) /\ DOMAIN Resolved(ps) = DOMAIN ps
         /\ \A i \in DOMAIN ps :
              /\ Resolved(ps)[i].token = 0
              /\ ~Resolved(ps)[i].pullInFlight
<1>1. DOMAIN ps = 1..Len(ps) /\ Len(ps) \in Nat
  OBVIOUS
<1>2. \A i \in DOMAIN ps : ps[i] \in Page
  OBVIOUS
<1> DEFINE free(p) == [p EXCEPT !.timer = FALSE, !.loadingOlder = FALSE,
                                !.pullInFlight = FALSE, !.token = 0]
<1>3. \A i \in DOMAIN ps : free(ps[i]) \in Page
  BY <1>2 DEF Page
<1>4. \A i \in DOMAIN ps : Resolved(ps)[i] = free(ps[i])
  BY DEF Resolved
<1>5. Resolved(ps) \in [1..Len(ps) -> Page]
  BY <1>1, <1>3 DEF Resolved
<1>6. Resolved(ps) \in Seq(Page)
  BY <1>1, <1>5
<1>7. \A i \in DOMAIN ps : free(ps[i]).token = 0 /\ ~free(ps[i]).pullInFlight
  BY <1>2 DEF Page
<1> QED
  BY <1>1, <1>4, <1>5, <1>6, <1>7

-----------------------------------------------------------------------------
(* The kinds of step.                                                      *)

\* Neither pages nor tokens change.
LEMMA PullsUntouched ==
  ASSUME PullInv, UNCHANGED <<pages, pullToken, nextPullToken>>
  PROVE  PullInv'
BY DEF PullInv, TokenHasItsPage

\* A snapshot reaches the pages.
LEMMA PagesShown ==
  ASSUME PullInv, pages' = Shown(pages), UNCHANGED <<pullToken, nextPullToken>>
  PROVE  PullInv'
<1>1. pages \in Seq(Page)
  BY DEF PullInv
<1> QED
  BY <1>1, ShownKeeps DEF PullInv, TokenHasItsPage

\* The top page goes, and the registered pull with it.
LEMMA TopGone ==
  ASSUME PullInv, pages # <<>>, pages' = Front(pages), pullToken' = 0,
         UNCHANGED nextPullToken
  PROVE  PullInv'
<1> DEFINE n == Len(pages) - 1
<1>1. pages \in Seq(Page) /\ n \in Nat /\ DOMAIN pages = 1..n + 1
  BY DEF PullInv
<1>2. pages' = SubSeq(pages, 1, n)
  BY DEF Front
<1>3. \A i \in 1..n : pages[i] \in Page
  BY <1>1
<1> HIDE DEF n
<1>4. SubSeq(pages, 1, n) = [i \in 1..n |-> pages[i]]
  BY <1>1
<1>5. pages' \in Seq(Page) /\ Len(pages') = n
  BY <1>1, <1>2, <1>3, <1>4
<1>6. \A i \in DOMAIN pages' : i \in DOMAIN pages /\ pages'[i] = pages[i]
  BY <1>1, <1>2, <1>4, <1>5
<1> QED
  BY <1>5, <1>6 DEF PullInv, TokenHasItsPage

\* An answer closes the cycle of the registered token, or nothing.
LEMMA PullAnswered ==
  ASSUME PullInv, NEW token, NEW more,
         ResolvePendingPullIfAny(token, more, Shown(pages)), UNCHANGED nextPullToken
  PROVE  PullInv' /\ NoStaleAnswerCloses'
<1>1. pages \in Seq(Page)
  BY DEF PullInv
<1>2. CASE token = 0 \/ token # pullToken
  <2>1. pages' = Shown(pages) /\ UNCHANGED pullToken /\ event' = Nothing
    BY <1>2 DEF ResolvePendingPullIfAny
  <2> QED
    BY <2>1, PagesShown DEF NoStaleAnswerCloses, Nothing
<1>3. CASE ~(token = 0 \/ token # pullToken)
  <2> DEFINE ps == Shown(pages)
  <2>1. /\ token = pullToken /\ pullToken # 0
        /\ pullToken' = 0 /\ pages' = Resolved(ps)
        /\ event'.answer = token
        /\ event'.closed = {ps[i].token : i \in DOMAIN ps} \ {0}
    BY <1>3 DEF ResolvePendingPullIfAny
  <2>2. ps \in Seq(Page) /\ DOMAIN ps = DOMAIN pages
        /\ \A i \in DOMAIN pages : ps[i].token = pages[i].token
    BY <1>1, ShownKeeps
  <2>3. PullInv'
    BY <2>1, <2>2, ResolvedFrees DEF PullInv, TokenHasItsPage
  <2>4. \A t \in event'.closed : t <= event'.answer
    BY <2>1, <2>2 DEF PullInv
  <2> QED
    BY <2>3, <2>4 DEF NoStaleAnswerCloses
<1> QED
  BY <1>2, <1>3

\* A pull of the top page registers a fresh token and arms the timeout.
LEMMA PullRegistered ==
  ASSUME PullInv, pages # <<>>,
         pullToken' = nextPullToken, nextPullToken' = nextPullToken + 1,
         pages' = [pages EXCEPT ![Len(pages)] =
           [@ EXCEPT !.pullInFlight = TRUE, !.loadingOlder = TRUE, !.timer = TRUE,
                     !.token = nextPullToken]]
  PROVE  PullInv'
<1> DEFINE top == Len(pages)
           pulled == [pages[top] EXCEPT !.pullInFlight = TRUE, !.loadingOlder = TRUE,
                                        !.timer = TRUE, !.token = nextPullToken]
<1>1. /\ pages \in Seq(Page) /\ top \in Nat \ {0} /\ DOMAIN pages = 1..top
      /\ nextPullToken \in Nat \ {0}
  BY DEF PullInv
<1>2. top \in DOMAIN pages /\ pages[top] \in Page
  BY <1>1
<1>3. /\ pulled \in Page /\ pulled.token = nextPullToken /\ pulled.pullInFlight
      /\ pulled.loadingOlder /\ pulled.timer
  BY <1>1, <1>2 DEF Page
<1>4. pages' = [pages EXCEPT ![top] = pulled]
  OBVIOUS
<1> HIDE DEF pulled
<1>5. pages' \in Seq(Page) /\ DOMAIN pages' = DOMAIN pages
  BY <1>1, <1>2, <1>3, <1>4
<1>6. pages'[top] = pulled /\ \A i \in DOMAIN pages : i # top => pages'[i] = pages[i]
  BY <1>1, <1>2, <1>4
<1>7. \A i \in DOMAIN pages' : pages'[i].token \in Nat /\ pages'[i].token <= nextPullToken
  <2>1. \A i \in DOMAIN pages : pages[i].token \in Nat /\ pages[i].token < nextPullToken
    <3>1. \A i \in DOMAIN pages : pages[i] \in Page
      BY <1>1
    <3>2. \A i \in DOMAIN pages : pages[i].token < nextPullToken
      BY DEF PullInv
    <3> QED
      BY <3>1, <3>2 DEF Page
  <2>2. ASSUME NEW i \in DOMAIN pages, i # top
        PROVE  pages'[i].token \in Nat /\ pages'[i].token <= nextPullToken
    BY <1>1, <1>6, <2>1, <2>2
  <2>3. pages'[top].token \in Nat /\ pages'[top].token <= nextPullToken
    BY <1>1, <1>3, <1>6
  <2> QED
    BY <1>5, <2>2, <2>3
<1>8. TokenHasItsPage'
  <2>1. \E i \in DOMAIN pages' : pages'[i].token = pullToken'
    BY <1>2, <1>3, <1>5, <1>6
  <2>2. \A i \in DOMAIN pages' :
          /\ pages'[i].pullInFlight <=> pages'[i].token # 0
          /\ pages'[i].pullInFlight => pages'[i].loadingOlder /\ pages'[i].timer
    <3>1. nextPullToken # 0
      BY <1>1
    <3>2. \A i \in DOMAIN pages :
            /\ pages[i].pullInFlight <=> pages[i].token # 0
            /\ pages[i].pullInFlight => pages[i].loadingOlder /\ pages[i].timer
      BY DEF PullInv, TokenHasItsPage
    <3> QED
      BY <1>3, <1>5, <1>6, <3>1, <3>2
  <2> QED
    BY <2>1, <2>2 DEF TokenHasItsPage
<1> QED
  BY <1>1, <1>5, <1>7, <1>8 DEF PullInv

-----------------------------------------------------------------------------
(* The actions.                                                            *)

LEMMA AnswerStep ==
  ASSUME PullInv, NEW r, HandleMessages(r)
  PROVE  PullInv' /\ NoStaleAnswerCloses'
<1>1. UNCHANGED nextPullToken
  BY DEF HandleMessages
<1>2. \/ pages' = Shown(pages) /\ event' = Nothing /\ UNCHANGED pullToken
      \/ \E more : ResolvePendingPullIfAny(r.token, more, Shown(pages))
  BY DEF HandleMessages
<1>3. CASE pages' = Shown(pages) /\ event' = Nothing /\ UNCHANGED pullToken
  BY <1>1, <1>3, PagesShown DEF NoStaleAnswerCloses, Nothing
<1>4. CASE \E more : ResolvePendingPullIfAny(r.token, more, Shown(pages))
  BY <1>1, <1>4, PullAnswered
<1> QED
  BY <1>2, <1>3, <1>4

LEMMA OpenStep ==
  ASSUME PullInv, NEW anchor, Open(anchor)
  PROVE  PullInv'
<1>1. pages' = Append(pages, NewPage) /\ UNCHANGED <<pullToken, nextPullToken>>
  BY DEF Open, pull
<1>2. NewPage \in Page /\ NewPage.token = 0 /\ ~NewPage.pullInFlight
  BY DEF NewPage, Page
<1>3. pages \in Seq(Page) /\ Len(pages) \in Nat
  BY DEF PullInv
<1>4. /\ pages' \in Seq(Page) /\ Len(pages') = Len(pages) + 1
      /\ \A i \in DOMAIN pages : i \in DOMAIN pages' /\ pages'[i] = pages[i]
      /\ \A i \in DOMAIN pages' : i \in DOMAIN pages \/ pages'[i] = NewPage
  BY <1>1, <1>2, <1>3
<1> QED
  BY <1>1, <1>2, <1>4 DEF PullInv, TokenHasItsPage

LEMMA TimeoutStep ==
  ASSUME PullInv, NEW i, PullTimeout(i)
  PROVE  PullInv'
<1>1. i \in DOMAIN pages /\ pages[i].timer /\ UNCHANGED nextPullToken
  BY DEF PullTimeout
<1>2. pages \in Seq(Page) /\ pages[i] \in Page
  BY <1>1 DEF PullInv
<1>3. CASE pages[i].loadingOlder
  <2> DEFINE freed == [pages[i] EXCEPT !.timer = FALSE, !.loadingOlder = FALSE,
                                       !.pullInFlight = FALSE, !.token = 0]
  <2>1. pullToken' = 0 /\ pages' = [pages EXCEPT ![i] = freed]
    BY <1>3 DEF PullTimeout
  <2>2. freed \in Page /\ freed.token = 0 /\ ~freed.pullInFlight
    BY <1>2 DEF Page
  <2> HIDE DEF freed
  <2>3. /\ pages' \in Seq(Page) /\ DOMAIN pages' = DOMAIN pages /\ pages'[i] = freed
        /\ \A j \in DOMAIN pages : j # i => pages'[j] = pages[j]
    BY <1>1, <1>2, <2>1, <2>2
  <2> QED
    BY <1>1, <2>1, <2>2, <2>3 DEF PullInv, TokenHasItsPage
<1>4. CASE ~pages[i].loadingOlder
  <2> DEFINE spent == [pages[i] EXCEPT !.timer = FALSE]
  <2>1. UNCHANGED pullToken /\ pages' = [pages EXCEPT ![i] = spent]
    BY <1>4 DEF PullTimeout
  <2>2. /\ spent \in Page /\ spent.token = pages[i].token
        /\ spent.pullInFlight = pages[i].pullInFlight
    BY <1>2 DEF Page
  <2>3. ~pages[i].pullInFlight
    BY <1>1, <1>4 DEF PullInv, TokenHasItsPage
  <2> HIDE DEF spent
  <2>4. /\ pages' \in Seq(Page) /\ DOMAIN pages' = DOMAIN pages /\ pages'[i] = spent
        /\ \A j \in DOMAIN pages : j # i => pages'[j] = pages[j]
    BY <1>1, <1>2, <2>1, <2>2
  <2> QED
    BY <1>1, <2>1, <2>2, <2>3, <2>4 DEF PullInv, TokenHasItsPage
<1> QED
  BY <1>3, <1>4

LEMMA PullStep ==
  ASSUME PullInv, Pull
  PROVE  PullInv' /\ NoStaleAnswerCloses'
<1>1. pages # <<>>
  BY DEF Pull
<1>2. CASE PullExhausted
  BY <1>2, PullsUntouched DEF PullExhausted, pull, NoStaleAnswerCloses, Nothing
<1>3. CASE PullStarts
  <2>1. PullInv'
    BY <1>1, <1>3, PullRegistered DEF PullStarts
  <2>2. event' = Nothing
    BY <1>3 DEF PullStarts
  <2> QED
    BY <2>1, <2>2 DEF NoStaleAnswerCloses, Nothing
<1> QED
  BY <1>2, <1>3 DEF Pull

\* Login clears the stack; a token without a page does not exist.
LEMMA LogInStep ==
  ASSUME PullInv, LogIn
  PROVE  PullInv'
<1>1. pages' = <<>> /\ UNCHANGED nextPullToken
  BY DEF LogIn
<1>2. pullToken' = 0
  BY DEF LogIn, PullInv, TokenHasItsPage
<1> QED
  BY <1>1, <1>2 DEF PullInv, TokenHasItsPage

LEMMA NextKeepsPullInv ==
  ASSUME PullInv, NoStaleAnswerCloses, [Next]_vars
  PROVE  PullInv' /\ NoStaleAnswerCloses'
<1> SUFFICES ASSUME ~(\E r : HandleMessages(r)), ~Pull
             PROVE  PullInv' /\ NoStaleAnswerCloses'
  BY AnswerStep, PullStep
<1>1. CASE UNCHANGED vars
  <2>1. UNCHANGED <<pages, pullToken, nextPullToken, event>>
    BY <1>1 DEF vars, pull
  <2> QED
    BY <2>1, PullsUntouched DEF NoStaleAnswerCloses
<1>2. CASE Next
  <2>1. event' = Nothing => NoStaleAnswerCloses'
    BY DEF NoStaleAnswerCloses, Nothing
  <2>2. ASSUME NEW r, HandleError(r) PROVE PullInv' /\ event' = Nothing
    BY <2>2, PullsUntouched DEF HandleError, pull
  <2>3. CASE RetryTimerFires
    BY <2>1, <2>3, PullsUntouched DEF RetryTimerFires, pull
  <2>4. CASE NewMessage
    BY <2>1, <2>4, PagesShown DEF NewMessage, pull
  <2>5. ASSUME NEW m, DeleteMessage(m) PROVE PullInv' /\ event' = Nothing
    BY <2>5, PagesShown, PullsUntouched DEF DeleteMessage, pull
  <2>6. CASE ChatUpdate
    BY <2>1, <2>6, PagesShown DEF ChatUpdate, pull
  <2>7. CASE RefreshAfterSend
    BY <2>1, <2>7, PullsUntouched DEF RefreshAfterSend, pull
  <2>8. CASE SessionEnds
    BY <2>1, <2>8, PullsUntouched, TopGone DEF SessionEnds, pull
  <2>9. CASE LogIn
    BY <2>1, <2>9, LogInStep DEF LogIn
  <2>10. CASE Leave
    BY <2>1, <2>10, TopGone DEF Leave
  <2>11. ASSUME NEW anchor, Open(anchor) PROVE PullInv' /\ event' = Nothing
    BY <2>11, OpenStep DEF Open
  <2>12. ASSUME NEW i, PullTimeout(i) PROVE PullInv' /\ event' = Nothing
    BY <2>12, TimeoutStep DEF PullTimeout
  <2> QED
    BY <1>2, <2>1, <2>2, <2>3, <2>4, <2>5, <2>6, <2>7, <2>8, <2>9, <2>10, <2>11, <2>12
       DEF Next, Answer, TimeoutFires
<1> QED
  BY <1>1, <1>2

LEMMA InitPullInv == Init => PullInv /\ NoStaleAnswerCloses
BY DEF Init, PullInv, TokenHasItsPage, NoStaleAnswerCloses, Nothing

-----------------------------------------------------------------------------

\* The inductive invariant of the pull cycles: tokens are given in order,
\* none is registered that a page does not wait for.
THEOREM PullInvariant == Spec => [](PullInv /\ NoStaleAnswerCloses)
BY InitPullInv, NextKeepsPullInv, PTL DEF Spec

\* abandonPendingPull and the pages: a token goes with the page or timeout
\* that lets go of its pull, so none is left for a late answer to match.
THEOREM TokenAlwaysHasItsPage == Spec => []TokenHasItsPage
<1>1. PullInv => TokenHasItsPage
  BY DEF PullInv
<1> QED
  BY <1>1, PullInvariant, PTL

\* resolvePendingPullIfAny: whatever answers are late, none ends the cycle of
\* a pull begun after the one it answers.
THEOREM NoAnswerClosesLaterPull == Spec => []NoStaleAnswerCloses
BY PullInvariant, PTL

\* A pull is closed by its own answer, its own timeout or its page
\* (TdClient.ets:926-943, ChatDetails.ets:669-714).
THEOREM PullsAlwaysCloseOnce == Spec => []PullsCloseOnce
<1>1. TokenHasItsPage /\ NoStaleAnswerCloses => PullsCloseOnce
  BY DEF PullsCloseOnce
<1>2. QED
  BY TokenAlwaysHasItsPage, NoAnswerClosesLaterPull, <1>1, PTL

-----------------------------------------------------------------------------
(* The timeline.  That it is a tail of the chat rests on where requests     *)
(* come from: each asks for what precedes a message from which on           *)
(* everything is cached already, and what TDLib answers is the end of that. *)

\* From this message on everything is cached.
Cached(from) == \A m \in server : m >= from => m \in cache

\* A request is of the right type and, unless some page was opened around a
\* message, asks for what adjoins the cache.
Fits(r) ==
  /\ r \in [from : 0..newest, centered : BOOLEAN, token : 0..MaxPulls]
  /\ deeplinked \/ (~r.centered /\ (r.from = 0 \/ Cached(r.from)))
RequestsFit == IsABag(requests) /\ \A r \in BagToSet(requests) : Fits(r)

FirstPage == [from |-> 0, centered |-> FALSE]

\* The cache is a tail of the chat, the cursor adjoins it, retries ask for
\* the first page, and nothing is said to be missing unless all is cached.
TailInv ==
  /\ \A c \in cache : \A m \in server : m > c => m \in cache
  /\ nextFrom \in {NoCursor, 0} \/ Cached(nextFrom)
  /\ notFoundBudget = 0
  /\ retryTimers \in Seq({FirstPage})
  /\ hasMore \/ shorts > 0 \/ server \subseteq cache

ChatTypes ==
  /\ newest \in Nat /\ server \subseteq 1..newest /\ cache \subseteq server
  /\ asked \subseteq 0..newest /\ nextFrom \in {NoCursor} \cup 0..newest
  /\ retryBudget \in 0..1 /\ notFoundBudget \in 0..1 /\ shorts \in Nat
  /\ retryTimers \in Seq([from : 0..newest, centered : BOOLEAN])
PullTypes ==
  /\ nextPullToken \in 1..MaxPulls + 1 /\ Len(pages) <= MaxPages
  /\ event \in [toast : {"none", "true", "false"}, answer : 0..MaxPulls,
                closed : SUBSET (0..MaxPulls)]
Flags == {hasMore, limitKnown, authorized, deeplinked} \subseteq BOOLEAN

\* The inductive invariant of the timeline, over that of the pulls.
HistoryInv == PullTypes /\ ChatTypes /\ RequestsFit /\ (deeplinked \/ TailInv) /\ NoMoreIsTrue

LEMMA HistoryBounds ==
  /\ Limit \in Nat \ {0} /\ MaxPulls \in Nat /\ MaxPages \in Nat
  /\ Sizes \subseteq Nat /\ Anchors \subseteq Nat \ {0}
BY HistoryAssumption

-----------------------------------------------------------------------------
(* Least and greatest elements; the ends of a set.                         *)

\* The induction all this needs, as the well-foundedness of the numbers.
LEMMA Least ==
  ASSUME NEW S \in SUBSET Nat, S # {}
  PROVE  \E x \in S : \A y \in S : x <= y
<1>1. \E x \in S : \A y \in S : ~ (<<y, x>> \in OpToRel(<, Nat))
  BY NatLessThanWellFounded, WFMin
<1>2. PICK x \in S : \A y \in S : ~ (<<y, x>> \in OpToRel(<, Nat))
  BY <1>1
<1>3. ASSUME NEW y \in S PROVE x <= y
  <2>1. ~(y < x)
    BY <1>2 DEF OpToRel
  <2> QED BY <2>1
<1> QED
  BY <1>3

LEMMA Greatest ==
  ASSUME NEW N \in Nat, NEW S \in SUBSET (1..N), S # {}
  PROVE  \E x \in S : \A y \in S : y <= x
<1> DEFINE T == {N - x : x \in S}
<1>1. T \in SUBSET Nat /\ T # {}
  <2>1. \A x \in S : N - x \in Nat
    OBVIOUS
  <2> QED BY <2>1
<1>2. PICK t \in T : \A u \in T : t <= u
  BY <1>1, Least
<1>3. PICK x \in S : t = N - x
  BY <1>2
<1>4. ASSUME NEW y \in S PROVE y <= x
  <2>1. N - x <= N - y
    BY <1>2, <1>3
  <2> QED
    BY <2>1
<1> QED
  BY <1>4

LEMMA MinIs ==
  ASSUME NEW S \in SUBSET Nat, S # {}
  PROVE  Min(S) \in S /\ \A y \in S : Min(S) <= y
BY Least DEF Min

\* TDLib's page is the end of what it is taken from; a page that is not full
\* is all of it.
LEMMA HighestIsTail ==
  ASSUME NEW N \in Nat, NEW S \in SUBSET (1..N), NEW n \in Nat
  PROVE  /\ Highest(n, S) \subseteq S /\ IsFiniteSet(Highest(n, S))
         /\ \A a \in Highest(n, S) : \A b \in S : b > a => b \in Highest(n, S)
         /\ Cardinality(Highest(n, S)) < n => S \subseteq Highest(n, S)
<1>0. \A k \in S : k \in Nat
  OBVIOUS
<1> DEFINE above(x) == {k \in S : k > x}
<1>1. IsFiniteSet(S)
  <2>1. IsFiniteSet(1..N)
    BY FS_Interval
  <2> QED BY <2>1, FS_Subset
<1>2. \A T \in SUBSET S : IsFiniteSet(T) /\ Cardinality(T) \in Nat
  BY <1>1, FS_Subset, FS_CardinalityType
<1>3. \A T \in SUBSET S : \A U \in SUBSET T : Cardinality(U) <= Cardinality(T)
  BY <1>2, FS_Subset
<1>4. \A x : above(x) \in SUBSET S
  OBVIOUS
<1>5. \A m : m \in Highest(n, S) <=> m \in S /\ Cardinality(above(m)) < n
  BY DEF Highest
<1>6. Highest(n, S) \in SUBSET S
  BY <1>5
<1>7. ASSUME NEW a \in S, NEW b \in S, b > a PROVE above(b) \in SUBSET above(a)
  <2>1. \A k \in S : k > b => k > a
    BY <1>0, <1>7
  <2> QED BY <2>1
<1>8. ASSUME NEW x \in S \ Highest(n, S), \A y \in S \ Highest(n, S) : y <= x
      PROVE  above(x) \in SUBSET Highest(n, S)
  <2>1. \A k \in S : k > x => k \in Highest(n, S)
    BY <1>0, <1>8
  <2> QED BY <2>1
<1> HIDE DEF above
<1>9. ASSUME NEW a \in Highest(n, S), NEW b \in S, b > a
      PROVE  b \in Highest(n, S)
  <2>1. Cardinality(above(a)) < n /\ above(b) \in SUBSET above(a)
    BY <1>5, <1>7, <1>9
  <2>2. Cardinality(above(b)) <= Cardinality(above(a))
    BY <1>3, <1>4, <2>1
  <2>3. Cardinality(above(a)) \in Nat /\ Cardinality(above(b)) \in Nat
    BY <1>2, <1>4
  <2> QED
    BY <1>5, <2>1, <2>2, <2>3
<1>10. ASSUME Cardinality(Highest(n, S)) < n, S \ Highest(n, S) # {}
      PROVE  FALSE
  <2>1. PICK x \in S \ Highest(n, S) : \A y \in S \ Highest(n, S) : y <= x
    BY <1>10, Greatest
  <2>2. above(x) \in SUBSET Highest(n, S)
    BY <1>8, <2>1
  <2>3. Cardinality(above(x)) <= Cardinality(Highest(n, S))
    BY <1>3, <1>6, <2>2
  <2>4. Cardinality(above(x)) \in Nat /\ Cardinality(Highest(n, S)) \in Nat
    BY <1>2, <1>4, <1>6
  <2>5. Cardinality(above(x)) < n
    BY <1>10, <2>3, <2>4
  <2> QED
    BY <1>5, <2>1, <2>5
<1> QED
  BY <1>2, <1>6, <1>9, <1>10

\* A sequence over a set is one over a larger set.
LEMMA SeqGrows ==
  ASSUME NEW A, NEW B, A \subseteq B, NEW q \in Seq(A)
  PROVE  q \in Seq(B)
<1>1. q \in [1..Len(q) -> A] /\ Len(q) \in Nat
  OBVIOUS
<1>2. q \in [1..Len(q) -> B]
  BY <1>1
<1> QED BY <1>1, <1>2

-----------------------------------------------------------------------------
(* Requests.                                                               *)

\* A bag with an element more, or one less.
LEMMA BagMore ==
  ASSUME NEW b, IsABag(b), NEW x
  PROVE  IsABag(b (+) One(x)) /\ BagToSet(b (+) One(x)) = BagToSet(b) \cup {x}
<1>1. \A e \in DOMAIN b : b[e] \in Nat /\ b[e] > 0
  BY DEF IsABag
<1> QED
  BY <1>1 DEF IsABag, BagToSet, One, SetToBag, (+)

LEMMA BagLess ==
  ASSUME NEW b, IsABag(b), NEW x
  PROVE  IsABag(b (-) One(x)) /\ BagToSet(b (-) One(x)) \subseteq BagToSet(b)
<1>1. \A e \in DOMAIN b : b[e] \in Nat /\ b[e] > 0
  BY DEF IsABag
<1> QED
  BY <1>1 DEF IsABag, BagToSet, One, SetToBag, (-)

\* requestChatHistoryPage sends what it is asked to send, or nothing.
LEMMA AskKeeps ==
  ASSUME NEW A, NEW R, NEW net, IsABag(net.sent), BagToSet(net.sent) \subseteq R,
         net.asked \subseteq A,
         NEW from \in A, NEW force, NEW centered, NEW token,
         [from |-> from, centered |-> centered, token |-> token] \in R
  PROVE  LET asking == Ask(net, from, force, centered, token)
         IN  IsABag(asking.sent) /\ BagToSet(asking.sent) \subseteq R /\ asking.asked \subseteq A
<1> DEFINE r == [from |-> from, centered |-> centered, token |-> token]
<1>1. IsABag(net.sent (+) One(r)) /\ BagToSet(net.sent (+) One(r)) \subseteq R
  BY BagMore
<1> QED
  BY <1>1 DEF Ask

\* As long as the messages that are not cached become fewer, a request that
\* fits goes on fitting.
LEMMA FitsStays ==
  ASSUME ChatTypes, newest' \in Nat, newest <= newest',
         server' \ cache' \subseteq server \ cache, deeplinked => deeplinked'
  PROVE  /\ \A r : Fits(r) => Fits(r)'
         /\ \A from : Cached(from) => Cached(from)'
<1>1. 0..newest \subseteq 0..newest'
  BY DEF ChatTypes
<1>2. ASSUME NEW from, Cached(from)
      PROVE  Cached(from)'
  BY <1>2 DEF Cached
<1> QED
  BY <1>1, <1>2 DEF Fits

-----------------------------------------------------------------------------
(* An answer.                                                              *)

\* What a page brings.
Incoming(r, short) == IF short THEN Nearest(r, PageFor(r)) ELSE PageFor(r)

LEMMA PageIsTail ==
  ASSUME ChatTypes, NEW r, NEW short
  PROVE  /\ Incoming(r, short) \subseteq server /\ IsFiniteSet(Incoming(r, short))
         /\ ~r.centered =>
              /\ \A a \in Incoming(r, short) : \A b \in Before(r.from) :
                   b > a => b \in Incoming(r, short)
              /\ ~short /\ Cardinality(Incoming(r, short)) < Limit =>
                   Before(r.from) \subseteq Incoming(r, short)
<1> DEFINE page == PageFor(r)
<1>1. newest \in Nat /\ server \subseteq 1..newest /\ Limit \in Nat /\ 1 \in Nat
  BY HistoryBounds DEF ChatTypes
<1>2. Before(r.from) \subseteq server
  BY DEF Before
<1>3. page \subseteq server
  <2>1. \A n : Highest(n, Before(r.from)) \subseteq server
        /\ \A S : S \subseteq server => Lowest(n, S) \subseteq server
    BY <1>2 DEF Highest, Lowest
  <2> QED BY <2>1 DEF PageFor
<1>4. Incoming(r, short) \subseteq page
  BY DEF Incoming, Nearest, Highest
<1>5. IsFiniteSet(Incoming(r, short))
  <2>1. IsFiniteSet(1..newest)
    BY <1>1, FS_Interval
  <2>2. Incoming(r, short) \in SUBSET (1..newest)
    BY <1>1, <1>3, <1>4
  <2> QED BY <2>1, <2>2, FS_Subset
<1>6. ASSUME ~r.centered
      PROVE  /\ \A a \in Incoming(r, short) : \A b \in Before(r.from) :
                  b > a => b \in Incoming(r, short)
             /\ ~short /\ Cardinality(Incoming(r, short)) < Limit =>
                  Before(r.from) \subseteq Incoming(r, short)
  <2>1. page = Highest(Limit, Before(r.from))
    BY <1>6 DEF PageFor
  <2>2. Before(r.from) \in SUBSET (1..newest)
    BY <1>1, <1>2
  <2>3. /\ page \subseteq Before(r.from)
        /\ \A a \in page : \A b \in Before(r.from) : b > a => b \in page
        /\ Cardinality(page) < Limit => Before(r.from) \subseteq page
    <3> DEFINE B == Before(r.from)
    <3> HIDE DEF page, B
    <3>1. B \in SUBSET (1..newest) /\ page = Highest(Limit, B)
      BY <2>1, <2>2 DEF B
    <3>2. /\ page \subseteq B
          /\ \A a \in page : \A b \in B : b > a => b \in page
          /\ Cardinality(page) < Limit => B \subseteq page
      BY <1>1, <3>1, HighestIsTail
    <3> QED BY <3>2 DEF B
  <2>4. CASE short
    <3>1. Incoming(r, short) = Highest(1, page)
      BY <1>6, <2>4 DEF Incoming, Nearest
    <3>2. page \in SUBSET (1..newest)
      BY <1>1, <1>3
    <3>3. \A a \in Highest(1, page) : \A b \in page : b > a => b \in Highest(1, page)
      BY <1>1, <3>2, HighestIsTail
    <3> QED BY <1>4, <2>3, <2>4, <3>1, <3>3
  <2>5. CASE ~short
    <3>1. Incoming(r, short) = page
      BY <2>5 DEF Incoming
    <3> QED BY <2>3, <2>5, <3>1
  <2> QED BY <2>4, <2>5
<1> QED BY <1>3, <1>4, <1>5, <1>6

\* What an answer to a request that fits makes of the timeline.
LEMMA MergeIsTail ==
  ASSUME ChatTypes, NEW r, Fits(r), NEW short, ~deeplinked, TailInv,
         cache' = cache \cup Incoming(r, short), UNCHANGED server
  PROVE  /\ \A c \in cache' : \A m \in server : m > c => m \in cache'
         /\ ~short /\ Cardinality(Incoming(r, short)) < Limit => server \subseteq cache'
<1>1. ~r.centered /\ (r.from = 0 \/ \A m \in server : m >= r.from => m \in cache)
  BY DEF Fits, Cached
<1>2. \A m \in server : m \in Before(r.from) \/ m \in cache
  <2>1. \A m \in server : m \in Nat
    BY DEF ChatTypes
  <2>2. r.from \in Nat
    <3>1. r.from \in 0..newest
      BY DEF Fits
    <3> QED BY <3>1
  <2> QED BY <1>1, <2>1, <2>2 DEF Before
<1>3. \A c \in cache : \A m \in server : m > c => m \in cache
  BY DEF TailInv
<1> QED BY <1>1, <1>2, <1>3, PageIsTail

\* When an answer leaves nothing more to ask for, all is cached.
LEMMA NoMoreMeansAll ==
  ASSUME ChatTypes, NEW r, Fits(r), NEW short, ~short, ~deeplinked, TailInv,
         cache' = cache \cup Incoming(r, short), UNCHANGED server, NEW total,
         cache' = {} \/ ~StillMore(r, Incoming(r, short), total)
  PROVE  server \subseteq cache'
<1> DEFINE incoming == Incoming(r, short)
<1>1. IsFiniteSet(incoming) /\ Cardinality(incoming) \in Nat /\ Limit \in Nat \ {0}
  BY PageIsTail, FS_CardinalityType, HistoryBounds
<1>2. CASE incoming = {}
  <2>1. Cardinality(incoming) = 0
    BY <1>2, FS_EmptySet
  <2> QED BY <1>1, <2>1, MergeIsTail
<1>3. CASE incoming # {}
  <2>1. ~(Cardinality(incoming) >= Limit)
    BY <1>3 DEF StillMore
  <2>2. Cardinality(incoming) < Limit
    BY <1>1, <2>1
  <2> QED BY <2>2, MergeIsTail
<1> QED BY <1>2, <1>3

\* What the user is told by an answer, and what closes.
LEMMA Told ==
  ASSUME PullInv, PullTypes, NEW token \in 0..MaxPulls, NEW more \in BOOLEAN,
         ResolvePendingPullIfAny(token, more, Shown(pages)), UNCHANGED nextPullToken,
         more \/ deeplinked' \/ shorts' > 0 \/ NothingOlder
  PROVE  PullTypes' /\ NoMoreIsTrue'
<1>1. pages \in Seq(Page)
  BY DEF PullInv
<1>2. /\ Shown(pages) \in Seq(Page) /\ Len(Shown(pages)) = Len(pages)
      /\ DOMAIN Shown(pages) = DOMAIN pages
      /\ \A i \in DOMAIN pages : Shown(pages)[i].token = pages[i].token
  BY <1>1, ShownKeeps
<1>3. \A i \in DOMAIN pages : pages[i].token \in 0..MaxPulls
  <2>1. ASSUME NEW i \in DOMAIN pages PROVE pages[i].token \in 0..MaxPulls
    <3>1. pages[i] \in Page /\ pages[i].token < nextPullToken
      BY <1>1 DEF PullInv
    <3>2. pages[i].token \in Nat
      BY <3>1 DEF Page
    <3> QED BY <3>1, <3>2, HistoryBounds DEF PullTypes
  <2> QED BY <2>1
<1>4. CASE token = 0 \/ token # pullToken
  <2>1. pages' = Shown(pages) /\ event' = Nothing
    BY <1>4 DEF ResolvePendingPullIfAny
  <2>2. event' \in [toast : {"none", "true", "false"}, answer : 0..MaxPulls,
                    closed : SUBSET (0..MaxPulls)] /\ event'.toast = "none"
    BY <2>1, HistoryBounds DEF Nothing
  <2> QED BY <1>2, <2>1, <2>2 DEF PullTypes, NoMoreIsTrue
<1>5. CASE ~(token = 0 \/ token # pullToken)
  <2> DEFINE ps == Shown(pages)
             said == IF ps = <<>> THEN "none" ELSE Toast(more)
             freed == {ps[i].token : i \in DOMAIN ps} \ {0}
  <2>1. pages' = Resolved(ps) /\ event' = [toast |-> said, answer |-> token, closed |-> freed]
    BY <1>5 DEF ResolvePendingPullIfAny
  <2>2. said \in {"none", "true", "false"}
        /\ (said = "false" => deeplinked' \/ shorts' > 0)
    BY DEF Toast
  <2>3. freed \in SUBSET (0..MaxPulls)
    BY <1>2, <1>3
  <2> HIDE DEF said, freed
  <2>4. event' \in [toast : {"none", "true", "false"}, answer : 0..MaxPulls,
                    closed : SUBSET (0..MaxPulls)] /\ event'.toast = said
    BY <2>1, <2>2, <2>3
  <2>5. Len(pages') = Len(pages)
    <3>1. pages' \in Seq(Page) /\ DOMAIN pages' = DOMAIN pages
      BY <1>2, <2>1, ResolvedFrees
    <3> QED BY <1>1, <3>1, LenProperties
  <2> QED BY <2>2, <2>4, <2>5 DEF PullTypes, NoMoreIsTrue
<1> QED BY <1>4, <1>5

\* The probes and retries an answer sets off fit.
LEMMA FollowUpsFit ==
  ASSUME NEW A, NEW R, NEW net, IsABag(net.sent), BagToSet(net.sent) \subseteq R,
         net.asked \subseteq A, 0 \in A, Min(cache') \in A,
         [from |-> 0, centered |-> FALSE, token |-> 0] \in R,
         [from |-> Min(cache'), centered |-> FALSE, token |-> 0] \in R,
         NEW r, NEW incoming, NEW total
  PROVE  LET after == FollowUps(net, r, incoming, total)
         IN  IsABag(after.sent) /\ BagToSet(after.sent) \subseteq R /\ after.asked \subseteq A
<1> DEFINE Fit(n) == IsABag(n.sent) /\ BagToSet(n.sent) \subseteq R /\ n.asked \subseteq A
           n1 == IF ProbeOlder(r, incoming, total)
                 THEN Ask(net, Min(cache'), FALSE, FALSE, 0) ELSE net
           n2 == IF RetryFirst(r, incoming, total) THEN Ask(n1, 0, TRUE, FALSE, 0) ELSE n1
           n3 == IF RefreshLatest(r, incoming, total) THEN Ask(n2, 0, FALSE, FALSE, 0) ELSE n2
<1>1. Fit(n1)
  <2>1. Fit(Ask(net, Min(cache'), FALSE, FALSE, 0))
    BY AskKeeps
  <2> QED BY <2>1
<1> HIDE DEF n1
<1>2. Fit(n2)
  <2>1. Fit(Ask(n1, 0, TRUE, FALSE, 0))
    BY <1>1, AskKeeps
  <2> QED BY <1>1, <2>1
<1> HIDE DEF n2
<1>3. Fit(n3)
  <2>1. Fit(Ask(n2, 0, FALSE, FALSE, 0))
    BY <1>2, AskKeeps
  <2> QED BY <1>2, <2>1
<1>4. FollowUps(net, r, incoming, total) = n3
  BY DEF FollowUps, n1, n2
<1> QED BY <1>3, <1>4

\* Nothing is told.
LEMMA Untold ==
  ASSUME PullTypes, event' = Nothing, UNCHANGED nextPullToken, Len(pages') <= MaxPages
  PROVE  PullTypes' /\ NoMoreIsTrue'
<1>1. event' \in [toast : {"none", "true", "false"}, answer : 0..MaxPulls,
                  closed : SUBSET (0..MaxPulls)] /\ event'.toast = "none"
  BY HistoryBounds DEF Nothing
<1> QED BY <1>1 DEF PullTypes, NoMoreIsTrue

LEMMA SamePages ==
  ASSUME PullInv, PullTypes, pages' = pages \/ pages' = Shown(pages)
  PROVE  Len(pages') <= MaxPages
<1>1. pages \in Seq(Page)
  BY DEF PullInv
<1> QED BY <1>1, ShownKeeps DEF PullTypes

\* One more retry of the first page.
LEMMA RetriesGrow ==
  ASSUME NEW A, FirstPage \in A, NEW q \in Seq(A)
  PROVE  Append(q, FirstPage) \in Seq(A) /\ q \o <<FirstPage>> = Append(q, FirstPage)
         /\ q \o <<>> = q
BY AppendProperties, AppendIsConcat, ConcatEmptySeq

\* The timeline after an answer, whatever it makes of the cursor and the
\* requests.
LEMMA AnswerKeepsTail ==
  ASSUME ChatTypes, deeplinked \/ TailInv, NEW r, Fits(r), NEW short \in BOOLEAN,
         cache' = cache \cup Incoming(r, short),
         shorts' = shorts + (IF short THEN 1 ELSE 0),
         notFoundBudget' = 0, retryBudget' \in 0..1,
         retryTimers' \in {retryTimers, Append(retryTimers, FirstPage)},
         nextFrom' = nextFrom \/ (nextFrom' = Min(cache') /\ cache' # {}),
         asked' \subseteq 0..newest,
         UNCHANGED <<server, newest, deeplinked>>,
         deeplinked \/ hasMore' \/ shorts' > 0 \/ server \subseteq cache'
  PROVE  ChatTypes' /\ (deeplinked' \/ TailInv')
<1>1. newest \in Nat /\ server \subseteq 1..newest /\ cache \subseteq server
      /\ retryTimers \in Seq([from : 0..newest, centered : BOOLEAN]) /\ shorts \in Nat
      /\ nextFrom \in {NoCursor} \cup 0..newest
  BY DEF ChatTypes
<1>2. cache' \subseteq server
  BY <1>1, PageIsTail
<1>3. cache' # {} => Min(cache') \in cache' /\ \A m \in cache' : Min(cache') <= m
  <2>1. cache' \in SUBSET Nat
    <3>1. \A m \in server : m \in Nat
      BY <1>1
    <3> QED BY <1>2, <3>1
  <2> QED BY <2>1, MinIs
<1>4. ChatTypes'
  <2>1. nextFrom' \in {NoCursor} \cup 0..newest
    <3>1. CASE nextFrom' = nextFrom
      BY <1>1, <3>1
    <3>2. CASE nextFrom' = Min(cache') /\ cache' # {}
      <4>1. nextFrom' \in 1..newest
        BY <1>1, <1>2, <1>3, <3>2
      <4> QED BY <4>1, <1>1
    <3> QED BY <3>1, <3>2
  <2>2. retryTimers' \in Seq([from : 0..newest, centered : BOOLEAN])
    <3>1. FirstPage \in [from : 0..newest, centered : BOOLEAN]
      BY <1>1 DEF FirstPage
    <3>2. Append(retryTimers, FirstPage) \in Seq([from : 0..newest, centered : BOOLEAN])
      BY <1>1, <3>1, AppendProperties
    <3> QED BY <1>1, <3>2
  <2>3. shorts' \in Nat
    BY <1>1
  <2> QED BY <1>1, <1>2, <2>1, <2>2, <2>3 DEF ChatTypes
<1>5. ASSUME ~deeplinked PROVE TailInv'
  <2>1. \A c \in cache' : \A m \in server : m > c => m \in cache'
    BY <1>5, MergeIsTail
  <2>2. nextFrom' \in {NoCursor, 0} \/ Cached(nextFrom)'
    <3>1. CASE nextFrom' = nextFrom
      BY <1>5, <3>1 DEF TailInv, Cached
    <3>2. CASE nextFrom' = Min(cache') /\ cache' # {}
      <4>1. nextFrom' \in cache'
        BY <1>3, <3>2
      <4>2. \A m \in server : m \in Nat
        BY <1>1
      <4>3. \A m \in server : m >= nextFrom' => m = nextFrom' \/ m > nextFrom'
        BY <1>2, <4>1, <4>2
      <4> QED BY <2>1, <4>1, <4>3 DEF Cached
    <3> QED BY <3>1, <3>2
  <2>3. retryTimers' \in Seq({FirstPage})
    BY <1>5, RetriesGrow DEF TailInv
  <2> QED BY <1>5, <2>1, <2>2, <2>3 DEF TailInv
<1> QED BY <1>4, <1>5

LEMMA AnswerKeepsHistory ==
  ASSUME PullInv, HistoryInv, NEW r, HandleMessages(r)
  PROVE  HistoryInv'
<1> USE DEF HistoryInv
<1>1. Fits(r) /\ IsABag(requests)
  BY DEF HandleMessages, RequestsFit, BagIn
<1> DEFINE R == {q \in [from : 0..newest, centered : BOOLEAN, token : 0..MaxPulls] : Fits(q)'}
           net == [Net EXCEPT !.sent = @ (-) One(r)]
<1>2. PICK short \in BOOLEAN :
        /\ cache' = cache \cup Incoming(r, short)
        /\ shorts' = shorts + (IF short THEN 1 ELSE 0)
        /\ notFoundBudget' = 0
        /\ \E total \in Totals(Incoming(r, short)) :
             IF ~limitKnown
             THEN /\ Sent(net) /\ pages' = Shown(pages) /\ event' = Nothing
                  /\ UNCHANGED <<nextFrom, hasMore, retryBudget, pullToken, retryTimers>>
             ELSE IF cache' = {}
             THEN /\ hasMore' = FALSE /\ Sent(net)
                  /\ ResolvePendingPullIfAny(r.token, FALSE, Shown(pages))
                  /\ UNCHANGED <<nextFrom, retryBudget, retryTimers>>
             ELSE LET more == StillMore(r, Incoming(r, short), total)
                      again == RetryLatest(r, Incoming(r, short), total)
                  IN /\ nextFrom' = Min(cache') /\ hasMore' = more
                     /\ ResolvePendingPullIfAny(r.token, more, Shown(pages))
                     /\ Sent(FollowUps(net, r, Incoming(r, short), total))
                     /\ retryBudget' = Spent(again)
                     /\ retryTimers' = retryTimers \o
                          (IF again THEN <<[from |-> 0, centered |-> FALSE]>> ELSE <<>>)
  BY DEF HandleMessages, Merged, Incoming
<1>3. UNCHANGED <<server, newest, nextPullToken, deeplinked>>
  BY DEF HandleMessages
<1>4. PICK total \in Totals(Incoming(r, short)) :
             IF ~limitKnown
             THEN /\ Sent(net) /\ pages' = Shown(pages) /\ event' = Nothing
                  /\ UNCHANGED <<nextFrom, hasMore, retryBudget, pullToken, retryTimers>>
             ELSE IF cache' = {}
             THEN /\ hasMore' = FALSE /\ Sent(net)
                  /\ ResolvePendingPullIfAny(r.token, FALSE, Shown(pages))
                  /\ UNCHANGED <<nextFrom, retryBudget, retryTimers>>
             ELSE LET more == StillMore(r, Incoming(r, short), total)
                      again == RetryLatest(r, Incoming(r, short), total)
                  IN /\ nextFrom' = Min(cache') /\ hasMore' = more
                     /\ ResolvePendingPullIfAny(r.token, more, Shown(pages))
                     /\ Sent(FollowUps(net, r, Incoming(r, short), total))
                     /\ retryBudget' = Spent(again)
                     /\ retryTimers' = retryTimers \o
                          (IF again THEN <<[from |-> 0, centered |-> FALSE]>> ELSE <<>>)
  BY <1>2
<1>5. r.token \in 0..MaxPulls
  BY <1>1 DEF Fits
<1>6. /\ newest \in Nat /\ server \subseteq 1..newest /\ cache' \subseteq server
      /\ shorts \in Nat /\ (short => shorts' > 0) /\ shorts' >= shorts
      /\ retryTimers \in Seq([from : 0..newest, centered : BOOLEAN])
  BY <1>2, PageIsTail DEF ChatTypes
<1>7. /\ IsABag(net.sent) /\ BagToSet(net.sent) \subseteq R /\ net.asked \subseteq 0..newest
  <2>1. net.sent = requests (-) One(r) /\ net.asked = asked
    BY DEF Net
  <2>2. \A q \in BagToSet(requests) : Fits(q) /\ Fits(q)'
    <3>1. server' \ cache' \subseteq server \ cache
      BY <1>2, <1>3
    <3>2. \A q : Fits(q) => Fits(q)'
      BY <1>3, <1>6, <3>1, FitsStays
    <3> QED BY <3>2 DEF RequestsFit
  <2>3. BagToSet(requests) \subseteq R
    BY <2>2 DEF Fits
  <2>4. IsABag(requests (-) One(r)) /\ BagToSet(requests (-) One(r)) \subseteq BagToSet(requests)
    BY <1>1, BagLess
  <2> QED BY <2>1, <2>3, <2>4 DEF ChatTypes
<1> HIDE DEF net
<1>8. ASSUME Sent(net)
      PROVE  RequestsFit' /\ asked' \subseteq 0..newest
  BY <1>7, <1>8 DEF Sent, RequestsFit
<1>9. CASE ~limitKnown
  <2>1. /\ Sent(net) /\ pages' = Shown(pages) /\ event' = Nothing
        /\ UNCHANGED <<nextFrom, hasMore, retryBudget, retryTimers>>
    BY <1>4, <1>9
  <2>2. deeplinked \/ hasMore' \/ shorts' > 0 \/ server \subseteq cache'
    BY <1>2, <1>6, <2>1 DEF TailInv
  <2>3. retryBudget' \in 0..1
    BY <2>1 DEF ChatTypes
  <2>4. ChatTypes' /\ (deeplinked' \/ TailInv')
    BY <1>1, <1>2, <1>3, <1>8, <2>1, <2>2, <2>3, AnswerKeepsTail
  <2>5. PullTypes' /\ NoMoreIsTrue'
    BY <1>3, <2>1, SamePages, Untold
  <2> QED BY <1>8, <2>1, <2>4, <2>5
<1>10. CASE limitKnown /\ cache' = {}
  <2>1. /\ hasMore' = FALSE /\ Sent(net)
        /\ ResolvePendingPullIfAny(r.token, FALSE, Shown(pages))
        /\ UNCHANGED <<nextFrom, retryBudget, retryTimers>>
    BY <1>4, <1>10
  <2>2. deeplinked \/ shorts' > 0 \/ server \subseteq cache'
    BY <1>1, <1>2, <1>3, <1>6, <1>10, NoMoreMeansAll
  <2>3. retryBudget' \in 0..1
    BY <2>1 DEF ChatTypes
  <2>4. ChatTypes' /\ (deeplinked' \/ TailInv')
    BY <1>1, <1>2, <1>3, <1>8, <2>1, <2>2, <2>3, AnswerKeepsTail
  <2>5. deeplinked' \/ shorts' > 0 \/ NothingOlder
    BY <1>3, <1>6, <2>2 DEF NothingOlder
  <2>6. PullTypes' /\ NoMoreIsTrue'
    BY <1>3, <1>5, <2>1, <2>5, Told
  <2> QED BY <1>8, <2>1, <2>4, <2>6
<1>11. CASE limitKnown /\ cache' # {}
  <2> DEFINE more == StillMore(r, Incoming(r, short), total)
             again == RetryLatest(r, Incoming(r, short), total)
  <2>1. /\ nextFrom' = Min(cache') /\ hasMore' = more
        /\ ResolvePendingPullIfAny(r.token, more, Shown(pages))
        /\ Sent(FollowUps(net, r, Incoming(r, short), total))
        /\ retryBudget' = Spent(again)
        /\ retryTimers' = retryTimers \o
             (IF again THEN <<[from |-> 0, centered |-> FALSE]>> ELSE <<>>)
    BY <1>4, <1>11
  <2>2. deeplinked \/ more \/ shorts' > 0 \/ server \subseteq cache'
    BY <1>1, <1>2, <1>3, <1>6, NoMoreMeansAll
  <2>3. more \in BOOLEAN
    BY DEF StillMore
  <2>4. again => retryBudget > 0
    BY DEF RetryLatest
  <2> HIDE DEF more, again
  <2>5. retryBudget' \in 0..1
    <3>1. retryBudget \in 0..1
      BY DEF ChatTypes
    <3> QED BY <2>1, <2>4, <3>1 DEF Spent
  <2>6. retryTimers' \in {retryTimers, Append(retryTimers, FirstPage)}
    <3>1. FirstPage \in [from : 0..newest, centered : BOOLEAN]
      BY <1>6 DEF FirstPage
    <3> QED BY <1>6, <2>1, <3>1, RetriesGrow DEF FirstPage
  <2>7. PICK least : least = Min(cache')
    OBVIOUS
  <2>8. least \in cache' /\ least \in 0..newest /\ 0 \in 0..newest /\ 0 \in 0..MaxPulls
    <3>1. cache' \in SUBSET Nat
      BY <1>6
    <3>2. least \in cache'
      BY <1>11, <2>7, <3>1, MinIs
    <3>3. least \in 1..newest
      BY <1>6, <3>2
    <3> QED BY <1>6, <3>2, <3>3, HistoryBounds
  <2>9. deeplinked' \/ Cached(least)'
    <3>1. ASSUME ~deeplinked PROVE \A m \in server : m >= least => m \in cache'
      <4>1. \A c \in cache' : \A m \in server : m > c => m \in cache'
        BY <1>1, <1>2, <1>3, <3>1, MergeIsTail
      <4>2. \A m \in server : m \in Nat /\ least \in Nat
        BY <1>6, <2>8
      <4>3. \A m \in server : m >= least => m = least \/ m > least
        BY <4>2
      <4> QED BY <2>8, <4>1, <4>3
    <3>2. ~deeplinked => \A m \in server' : m >= least => m \in cache'
      BY <1>3, <3>1
    <3> QED BY <1>3, <3>2 DEF Cached
  <2>10. /\ [from |-> 0, centered |-> FALSE, token |-> 0] \in R
         /\ [from |-> least, centered |-> FALSE, token |-> 0] \in R
    BY <1>3, <2>8, <2>9 DEF Fits
  <2>11. RequestsFit' /\ asked' \subseteq 0..newest
    <3> DEFINE after == FollowUps(net, r, Incoming(r, short), total)
    <3> HIDE DEF R
    <3>1. IsABag(after.sent) /\ BagToSet(after.sent) \subseteq R
          /\ after.asked \subseteq 0..newest
      BY <1>7, <2>7, <2>8, <2>10, FollowUpsFit
    <3> QED BY <2>1, <3>1 DEF Sent, RequestsFit, R
  <2>12. ChatTypes' /\ (deeplinked' \/ TailInv')
    BY <1>1, <1>2, <1>3, <1>11, <2>1, <2>2, <2>5, <2>6, <2>11, AnswerKeepsTail
  <2>13. more \/ deeplinked' \/ shorts' > 0 \/ NothingOlder
    <3>1. \A m \in server : m <= m
      BY <1>6
    <3> QED BY <1>3, <2>2, <3>1 DEF NothingOlder
  <2>14. PullTypes' /\ NoMoreIsTrue'
    BY <1>3, <1>5, <2>1, <2>3, <2>13, Told
  <2> QED BY <2>11, <2>12, <2>14
<1> QED BY <1>9, <1>10, <1>11

-----------------------------------------------------------------------------
(* The other actions.                                                      *)

LEMMA ChatUntouched ==
  ASSUME ChatTypes, RequestsFit, deeplinked \/ TailInv,
         UNCHANGED <<server, newest, requests, cache, asked, nextFrom, hasMore, retryBudget,
                     notFoundBudget, retryTimers, shorts, deeplinked>>
  PROVE  ChatTypes' /\ RequestsFit' /\ (deeplinked' \/ TailInv')
BY DEF ChatTypes, RequestsFit, Fits, Cached, TailInv

\* A request of the right kind is sent.
LEMMA AskFits ==
  ASSUME ChatTypes, RequestsFit, NEW net, net.sent = requests, net.asked \subseteq 0..newest,
         NEW from \in 0..newest, NEW force, NEW centered \in BOOLEAN, NEW token \in 0..MaxPulls,
         deeplinked' \/ (~centered /\ (from = 0 \/ Cached(from))),
         Sent(Ask(net, from, force, centered, token)),
         UNCHANGED <<server, newest, cache>>, deeplinked => deeplinked'
  PROVE  RequestsFit' /\ asked' \subseteq 0..newest
<1> DEFINE R == {q \in [from : 0..newest, centered : BOOLEAN, token : 0..MaxPulls] : Fits(q)'}
           after == Ask(net, from, force, centered, token)
<1>1. newest \in Nat
  BY DEF ChatTypes
<1>2. /\ \A q : Fits(q) => Fits(q)'
      /\ Cached(from) => Cached(from)'
  BY <1>1, FitsStays
<1>3. IsABag(net.sent) /\ BagToSet(net.sent) \subseteq R
  <2>1. \A q \in BagToSet(requests) : Fits(q) /\ Fits(q)'
    BY <1>2 DEF RequestsFit
  <2> QED BY <2>1 DEF RequestsFit, Fits
<1>4. [from |-> from, centered |-> centered, token |-> token] \in R
  BY <1>2 DEF Fits
<1> HIDE DEF R
<1>5. IsABag(after.sent) /\ BagToSet(after.sent) \subseteq R /\ after.asked \subseteq 0..newest
  BY <1>3, <1>4, AskKeeps
<1> QED BY <1>5 DEF Sent, RequestsFit, R

\* A visit or a refresh starts the history over.
LEMMA StartKeeps ==
  ASSUME ChatTypes, RequestsFit, deeplinked \/ TailInv,
         NEW from \in 0..newest, NEW centered \in BOOLEAN,
         deeplinked' \/ (from = 0 /\ ~centered), deeplinked => deeplinked',
         StartHistory(from, centered),
         UNCHANGED <<server, newest, cache, retryTimers, shorts>>
  PROVE  ChatTypes' /\ RequestsFit' /\ (deeplinked' \/ TailInv')
<1> DEFINE net == [Net EXCEPT !.asked = {}]
<1>1. net.sent = requests /\ net.asked = {}
  BY DEF Net
<1>2. Sent(Ask(net, from, FALSE, centered, 0))
  BY DEF StartHistory
<1> HIDE DEF net
<1>3. RequestsFit' /\ asked' \subseteq 0..newest
  <2>1. 0 \in 0..MaxPulls
    BY HistoryBounds
  <2> QED BY <1>1, <1>2, <2>1, AskFits
<1>4. /\ nextFrom' = from /\ hasMore' = TRUE /\ retryBudget' = 1
      /\ notFoundBudget' = (IF centered THEN 1 ELSE 0)
  BY DEF StartHistory
<1>5. ChatTypes'
  BY <1>3, <1>4 DEF ChatTypes
<1>6. ~deeplinked' => TailInv'
  BY <1>4 DEF TailInv
<1> QED BY <1>3, <1>5, <1>6

LEMMA ErrorKeepsHistory ==
  ASSUME PullInv, HistoryInv, NEW r, HandleError(r)
  PROVE  HistoryInv'
<1> USE DEF HistoryInv
<1>1. /\ requests' = requests (-) One(r) /\ event' = Nothing
      /\ UNCHANGED <<server, newest, cache, asked, nextFrom, hasMore, retryBudget, pages,
                     nextPullToken, shorts, deeplinked>>
  BY DEF HandleError, pull
<1>2. Fits(r)
  BY DEF HandleError, BagIn, RequestsFit
<1>3. RequestsFit'
  <2>1. IsABag(requests') /\ BagToSet(requests') \subseteq BagToSet(requests)
    BY <1>1, BagLess DEF RequestsFit
  <2>2. \A q : Fits(q)' <=> Fits(q)
    BY <1>1 DEF Fits, Cached
  <2> QED BY <2>1, <2>2 DEF RequestsFit
<1>4. CASE UNCHANGED <<notFoundBudget, retryTimers>>
  <2>1. ChatTypes' /\ (deeplinked' \/ TailInv')
    BY <1>1, <1>4 DEF ChatTypes, TailInv, Cached
  <2> QED BY <1>1, <1>3, <2>1, SamePages, Untold
<1>5. CASE /\ notFoundBudget > 0 /\ notFoundBudget' = notFoundBudget - 1
           /\ retryTimers' = Append(retryTimers, [from |-> r.from, centered |-> TRUE])
  <2>1. deeplinked
    BY <1>5 DEF TailInv
  <2>2. [from |-> r.from, centered |-> TRUE] \in [from : 0..newest, centered : BOOLEAN]
    BY <1>2 DEF Fits
  <2>3. retryTimers' \in Seq([from : 0..newest, centered : BOOLEAN])
    BY <1>5, <2>2, AppendProperties DEF ChatTypes
  <2>4. notFoundBudget' \in 0..1
    BY <1>5 DEF ChatTypes
  <2>5. ChatTypes'
    BY <1>1, <2>3, <2>4 DEF ChatTypes
  <2> QED BY <1>1, <1>3, <2>1, <2>5, SamePages, Untold
<1> QED BY <1>4, <1>5 DEF HandleError

LEMMA RetryKeepsHistory ==
  ASSUME PullInv, HistoryInv, RetryTimerFires
  PROVE  HistoryInv'
<1> USE DEF HistoryInv
<1> DEFINE h == Head(retryTimers)
<1>1. /\ retryTimers # <<>> /\ retryTimers' = Tail(retryTimers)
      /\ Sent(Ask(Net, h.from, TRUE, h.centered, 0)) /\ event' = Nothing
      /\ UNCHANGED <<server, newest, cache, nextFrom, hasMore, retryBudget, notFoundBudget,
                     nextPullToken, pages, shorts, deeplinked>>
  BY DEF RetryTimerFires, pull, tally
<1>2. /\ h \in [from : 0..newest, centered : BOOLEAN]
      /\ retryTimers' \in Seq([from : 0..newest, centered : BOOLEAN])
  BY <1>1, HeadTailProperties DEF ChatTypes
<1>3. ~deeplinked => h = FirstPage /\ retryTimers' \in Seq({FirstPage})
  BY <1>1, HeadTailProperties DEF TailInv
<1>4. h.from \in 0..newest /\ h.centered \in BOOLEAN
      /\ (deeplinked' \/ (~h.centered /\ h.from = 0))
  BY <1>1, <1>2, <1>3 DEF FirstPage
<1> HIDE DEF h
<1>5. Net.sent = requests /\ Net.asked = asked /\ asked \subseteq 0..newest /\ 0 \in 0..MaxPulls
  BY HistoryBounds DEF Net, ChatTypes
<1>6. RequestsFit' /\ asked' \subseteq 0..newest
  BY <1>1, <1>4, <1>5, AskFits
<1>7. ChatTypes' /\ (deeplinked' \/ TailInv')
  BY <1>1, <1>2, <1>3, <1>6 DEF ChatTypes, TailInv, Cached
<1> QED BY <1>1, <1>6, <1>7, SamePages, Untold

LEMMA NewMessageKeepsHistory ==
  ASSUME PullInv, HistoryInv, NewMessage
  PROVE  HistoryInv'
<1> USE DEF HistoryInv
<1>1. /\ newest' = newest + 1 /\ server' = server \cup {newest'}
      /\ cache' = cache \cup {newest'} /\ nextFrom' = Min(cache')
      /\ pages' = Shown(pages) /\ event' = Nothing
      /\ UNCHANGED <<requests, asked, hasMore, retryBudget, notFoundBudget, nextPullToken,
                     retryTimers, shorts, deeplinked>>
  BY DEF NewMessage, pull
<1>2. newest \in Nat /\ server \subseteq 1..newest /\ cache \subseteq server
  BY DEF ChatTypes
<1>3. newest' \in Nat /\ server' \subseteq 1..newest' /\ cache' \subseteq server'
  BY <1>1, <1>2
<1>4. RequestsFit'
  <2>1. \A q : Fits(q) => Fits(q)'
    BY <1>1, <1>2, <1>3, FitsStays
  <2> QED BY <1>1, <2>1 DEF RequestsFit
<1>5. nextFrom' \in cache'
  <2>1. \A m \in server' : m \in Nat
    BY <1>3
  <2>2. cache' \in SUBSET Nat /\ cache' # {}
    BY <1>1, <1>3, <2>1
  <2> QED BY <1>1, <2>2, MinIs
<1>6. ChatTypes'
  <2>1. 0..newest \subseteq 0..newest' /\ nextFrom' \in 0..newest'
    BY <1>1, <1>2, <1>3, <1>5
  <2>2. [from : 0..newest, centered : BOOLEAN] \subseteq [from : 0..newest', centered : BOOLEAN]
    BY <2>1
  <2>3. retryTimers' \in Seq([from : 0..newest', centered : BOOLEAN])
    <3>1. retryTimers \in Seq([from : 0..newest, centered : BOOLEAN])
      BY DEF ChatTypes
    <3>2. retryTimers \in Seq([from : 0..newest', centered : BOOLEAN])
      BY <2>2, <3>1, SeqGrows
    <3> QED BY <1>1, <3>2
  <2> QED BY <1>1, <1>3, <2>1, <2>3 DEF ChatTypes
<1>7. ASSUME ~deeplinked PROVE TailInv'
  <2>1. \A c \in cache' : \A m \in server' : m > c => m \in cache'
    BY <1>1, <1>2, <1>7 DEF TailInv
  <2>2. Cached(nextFrom)'
    <3>1. \A m \in server' : m \in Nat
      BY <1>3
    <3>2. \A m \in server' : m >= nextFrom' => m = nextFrom' \/ m > nextFrom'
      BY <1>3, <1>5, <3>1
    <3> QED BY <1>5, <2>1, <3>2 DEF Cached
  <2>3. hasMore' \/ shorts' > 0 \/ server' \subseteq cache'
    BY <1>1, <1>7 DEF TailInv
  <2> QED BY <1>1, <1>7, <2>1, <2>2, <2>3 DEF TailInv
<1> QED BY <1>1, <1>4, <1>6, <1>7, SamePages, Untold

LEMMA DeleteKeepsHistory ==
  ASSUME PullInv, HistoryInv, NEW m, DeleteMessage(m)
  PROVE  HistoryInv'
<1> USE DEF HistoryInv
<1>1. /\ server' = server \ {m} /\ cache' = cache \ {m} /\ event' = Nothing
      /\ UNCHANGED <<newest, requests, asked, hasMore, retryBudget, notFoundBudget,
                     nextPullToken, retryTimers, shorts, deeplinked>>
      /\ pages' = pages \/ pages' = Shown(pages)
      /\ nextFrom' = nextFrom \/ (cache' = {} /\ nextFrom' = 0)
           \/ (cache' # {} /\ nextFrom' = Min(cache'))
  BY DEF DeleteMessage, pull, tally
<1>2. newest \in Nat /\ server \subseteq 1..newest /\ cache \subseteq server
      /\ nextFrom \in {NoCursor} \cup 0..newest
  BY DEF ChatTypes
<1>3. server' \subseteq 1..newest /\ cache' \subseteq server' /\ \A k \in server' : k \in Nat
  <2>1. \A k \in 1..newest : k \in Nat
    BY <1>2
  <2>2. server' \subseteq server /\ cache' \subseteq server'
    BY <1>1, <1>2
  <2> QED BY <1>2, <2>1, <2>2
<1>4. RequestsFit' /\ \A f : Cached(f) => Cached(f)'
  <2>1. /\ \A q : Fits(q) => Fits(q)'
        /\ \A f : Cached(f) => Cached(f)'
    BY <1>1, <1>2, FitsStays
  <2> QED BY <1>1, <2>1 DEF RequestsFit
<1>5. cache' # {} => Min(cache') \in cache'
  <2>1. cache' \in SUBSET Nat
    BY <1>3
  <2> QED BY <2>1, MinIs
<1>6. ChatTypes'
  <2>1. nextFrom' \in {NoCursor} \cup 0..newest
    <3>1. cache' # {} => Min(cache') \in 0..newest
      <4>1. \A k \in cache' : k \in 1..newest
        BY <1>3
      <4>2. 1..newest \subseteq 0..newest /\ 0 \in 0..newest
        BY <1>2
      <4> QED BY <1>5, <4>1, <4>2
    <3>2. 0 \in 0..newest
      BY <1>2
    <3> QED BY <1>1, <1>2, <3>1, <3>2
  <2> QED BY <1>1, <1>3, <2>1 DEF ChatTypes
<1>7. ASSUME ~deeplinked PROVE TailInv'
  <2>1. \A c \in cache' : \A k \in server' : k > c => k \in cache'
    BY <1>1, <1>7 DEF TailInv
  <2>2. nextFrom' \in {NoCursor, 0} \/ Cached(nextFrom)'
    <3>1. CASE nextFrom' = nextFrom
      BY <1>4, <1>7, <3>1 DEF TailInv, Cached
    <3>2. CASE cache' # {} /\ nextFrom' = Min(cache')
      <4>1. nextFrom' \in cache'
        BY <1>5, <3>2
      <4>2. \A k \in server' : k >= nextFrom' => k = nextFrom' \/ k > nextFrom'
        BY <1>3, <4>1
      <4> QED BY <2>1, <4>1, <4>2 DEF Cached
    <3> QED BY <1>1, <3>1, <3>2
  <2>3. hasMore' \/ shorts' > 0 \/ server' \subseteq cache'
    BY <1>1, <1>7 DEF TailInv
  <2> QED BY <1>1, <1>7, <2>1, <2>2, <2>3 DEF TailInv
<1> QED BY <1>1, <1>4, <1>6, <1>7, SamePages, Untold

LEMMA TopShorter ==
  ASSUME NEW q \in Seq(Page), q # <<>>
  PROVE  Len(Front(q)) = Len(q) - 1
<1>1. Len(q) \in Nat /\ Len(q) >= 1
  OBVIOUS
<1> DEFINE n == Len(q) - 1
<1>2. n \in Nat /\ n <= Len(q) /\ \A i \in 1..n : q[i] \in Page
  BY <1>1
<1> HIDE DEF n
<1>3. Len(SubSeq(q, 1, n)) = n
  BY <1>2
<1> QED BY <1>2, <1>3 DEF Front, n

LEMMA SessionEndKeepsHistory ==
  ASSUME PullInv, HistoryInv, SessionEnds
  PROVE  HistoryInv'
<1> USE DEF HistoryInv
<1>1. /\ cache' = {} /\ asked' = {} /\ nextFrom' = NoCursor /\ hasMore' = TRUE
      /\ retryBudget' = 0 /\ notFoundBudget' = 0 /\ requests' = EmptyBag /\ event' = Nothing
      /\ UNCHANGED <<server, newest, nextPullToken, retryTimers, shorts, deeplinked>>
      /\ pages' = pages \/ (pages # <<>> /\ pages' = Front(pages))
  BY DEF SessionEnds, tally
<1>2. IsABag(EmptyBag) /\ BagToSet(EmptyBag) = {}
  BY DEF IsABag, EmptyBag, SetToBag, BagToSet
<1>3. RequestsFit'
  BY <1>1, <1>2 DEF RequestsFit
<1>4. ChatTypes'
  BY <1>1 DEF ChatTypes
<1>5. ~deeplinked => TailInv'
  BY <1>1 DEF TailInv
<1>6. Len(pages') <= MaxPages
  <2>1. pages \in Seq(Page)
    BY DEF PullInv
  <2>2. (pages' = pages \/ Len(pages') = Len(pages) - 1) /\ Len(pages) \in Nat
    BY <1>1, <2>1, TopShorter
  <2> QED BY <2>2, HistoryBounds DEF PullTypes
<1> QED BY <1>1, <1>3, <1>4, <1>5, <1>6, Untold

LEMMA OpenKeepsHistory ==
  ASSUME PullInv, HistoryInv, NEW anchor \in {0} \cup (Anchors \cap server), Open(anchor)
  PROVE  HistoryInv'
<1> USE DEF HistoryInv
<1> DEFINE centered == anchor # 0
<1>1. /\ StartHistory(anchor, centered) /\ deeplinked' = (deeplinked \/ anchor # 0)
      /\ pages' = Append(pages, NewPage) /\ Len(pages) < MaxPages /\ event' = Nothing
      /\ UNCHANGED <<server, newest, cache, retryTimers, shorts, nextPullToken>>
  BY DEF Open, pull
<1>2. anchor \in 0..newest /\ centered \in BOOLEAN
  BY DEF ChatTypes
<1>3. deeplinked' \/ (anchor = 0 /\ ~centered)
  BY <1>1
<1>4. deeplinked => deeplinked'
  BY <1>1
<1> HIDE DEF centered
<1>5. ChatTypes' /\ RequestsFit' /\ (deeplinked' \/ TailInv')
  BY <1>1, <1>2, <1>3, <1>4, StartKeeps
<1>6. Len(pages') <= MaxPages
  <2>1. Len(pages') = Len(pages) + 1 /\ Len(pages) \in Nat
    <3>1. pages \in Seq(Page) /\ NewPage \in Page
      BY DEF PullInv, NewPage, Page
    <3> QED BY <1>1, <3>1, AppendProperties, LenProperties
  <2> QED BY <1>1, <2>1, HistoryBounds
<1> QED BY <1>1, <1>5, <1>6, Untold

LEMMA LeaveKeepsHistory ==
  ASSUME PullInv, HistoryInv, Leave
  PROVE  HistoryInv'
<1> USE DEF HistoryInv
<1>1. /\ pages # <<>> /\ pages' = Front(pages) /\ event' = Nothing
      /\ UNCHANGED <<server, newest, requests, cache, asked, nextFrom, hasMore, retryBudget,
                     notFoundBudget, retryTimers, shorts, deeplinked, nextPullToken>>
  BY DEF Leave, cursor, tally
<1>2. Len(pages') <= MaxPages
  <2>1. pages \in Seq(Page)
    BY DEF PullInv
  <2>2. Len(pages') = Len(pages) - 1 /\ Len(pages) \in Nat
    BY <1>1, <2>1, TopShorter
  <2> QED BY <2>2, HistoryBounds DEF PullTypes
<1> QED BY <1>1, <1>2, ChatUntouched, Untold

LEMMA LogInKeepsHistory ==
  ASSUME PullInv, HistoryInv, LogIn
  PROVE  HistoryInv'
<1> USE DEF HistoryInv
<1>1. /\ pages' = <<>> /\ event' = Nothing
      /\ UNCHANGED <<server, newest, requests, cache, asked, nextFrom, hasMore, retryBudget,
                     notFoundBudget, retryTimers, shorts, deeplinked, nextPullToken>>
  BY DEF LogIn, cursor
<1>2. Len(pages') <= MaxPages
  BY <1>1, HistoryBounds
<1> QED BY <1>1, <1>2, ChatUntouched, Untold

LEMMA TimeoutKeepsHistory ==
  ASSUME PullInv, HistoryInv, NEW i, PullTimeout(i)
  PROVE  HistoryInv'
<1> USE DEF HistoryInv
<1>1. /\ i \in DOMAIN pages /\ event' = Nothing
      /\ UNCHANGED <<server, newest, requests, cache, asked, nextFrom, hasMore, retryBudget,
                     notFoundBudget, retryTimers, shorts, deeplinked, nextPullToken>>
  BY DEF PullTimeout, cursor, tally
<1>2. Len(pages') <= MaxPages
  <2>1. \E p : pages' = [pages EXCEPT ![i] = p]
    BY DEF PullTimeout
  <2>2. Len(pages') = Len(pages)
    BY <1>1, <2>1 DEF PullInv
  <2> QED BY <2>2 DEF PullTypes
<1> QED BY <1>1, <1>2, ChatUntouched, Untold

LEMMA PullKeepsHistory ==
  ASSUME PullInv, HistoryInv, Pull
  PROVE  HistoryInv'
<1> USE DEF HistoryInv
<1>1. UNCHANGED <<server, newest, cache, retryTimers, shorts, deeplinked>> /\ pages # <<>>
  BY DEF Pull, tally
<1>2. CASE PullExhausted /\ ~hasMore
  <2>1. /\ event' = [Nothing EXCEPT !.toast = Toast(FALSE)]
        /\ UNCHANGED <<requests, asked, nextFrom, hasMore, retryBudget, notFoundBudget, pages,
                       nextPullToken>>
    BY <1>2 DEF PullExhausted, cursor, pull
  <2>2. deeplinked' \/ shorts' > 0 \/ NothingOlder
    <3>1. deeplinked \/ shorts > 0 \/ server \subseteq cache'
      BY <1>1, <1>2 DEF TailInv
    <3>2. \A m \in server : m <= m
      BY DEF ChatTypes
    <3> QED BY <1>1, <3>1, <3>2 DEF NothingOlder
  <2>3. Toast(FALSE) \in {"true", "false"}
        /\ (Toast(FALSE) = "false" => deeplinked' \/ shorts' > 0)
    BY <2>2 DEF Toast
  <2>4. event'.toast = Toast(FALSE)
        /\ event' \in [toast : {"none", "true", "false"}, answer : 0..MaxPulls,
                       closed : SUBSET (0..MaxPulls)]
    <3> DEFINE said == Toast(FALSE)
    <3>1. said \in {"none", "true", "false"}
      BY <2>3
    <3> HIDE DEF said
    <3>2. event' = [toast |-> said, answer |-> 0, closed |-> {}]
      BY <2>1 DEF Nothing, said
    <3>3. 0 \in 0..MaxPulls
      BY HistoryBounds
    <3>4. event'.toast = said
          /\ event' \in [toast : {"none", "true", "false"}, answer : 0..MaxPulls,
                         closed : SUBSET (0..MaxPulls)]
      BY <3>1, <3>2, <3>3
    <3> QED BY <3>4 DEF said
  <2>5. PullTypes' /\ NoMoreIsTrue'
    BY <2>1, <2>3, <2>4 DEF PullTypes, NoMoreIsTrue
  <2> QED BY <1>1, <2>1, <2>5, ChatUntouched
<1>3. CASE PullStarts /\ (hasMore \/ retryBudget > 0)
  <2>1. PICK from : from = IF ~hasMore THEN 0 ELSE IF nextFrom # NoCursor THEN nextFrom
                           ELSE IF cache = {} THEN 0 ELSE Min(cache)
    OBVIOUS
  <2>2. /\ nextPullToken <= MaxPulls /\ Sent(Ask(Net, from, TRUE, FALSE, nextPullToken))
        /\ retryBudget' = Spent(~hasMore) /\ nextPullToken' = nextPullToken + 1
        /\ event' = Nothing /\ UNCHANGED <<nextFrom, hasMore, notFoundBudget>>
        /\ \E p : pages' = [pages EXCEPT ![Len(pages)] = p]
    BY <1>3, <2>1 DEF PullStarts
  <2>3. newest \in Nat /\ server \subseteq 1..newest /\ cache \subseteq server
        /\ nextFrom \in {NoCursor} \cup 0..newest /\ asked \subseteq 0..newest
    BY DEF ChatTypes
  <2>4. cache # {} => Min(cache) \in cache /\ Min(cache) \in 0..newest
    <3>1. \A m \in cache : m \in Nat
      BY <2>3
    <3>2. cache \in SUBSET Nat
      BY <3>1
    <3>3. cache # {} => Min(cache) \in cache
      BY <3>2, MinIs
    <3>4. \A m \in 1..newest : m \in 0..newest
      BY <2>3
    <3> QED BY <2>3, <3>3, <3>4
  <2>5. from \in 0..newest
    BY <2>1, <2>3, <2>4
  <2>6. deeplinked \/ from = 0 \/ Cached(from)
    <3>1. ASSUME ~deeplinked, cache # {} PROVE Cached(Min(cache))
      <4>1. \A m \in server : m \in Nat
        BY <2>3
      <4>2. \A m \in server : m >= Min(cache) => m = Min(cache) \/ m > Min(cache)
        BY <2>3, <2>4, <3>1, <4>1
      <4> QED BY <2>4, <3>1, <4>2 DEF TailInv, Cached
    <3> QED BY <2>1, <3>1 DEF TailInv
  <2>7. Net.sent = requests /\ Net.asked = asked
    BY DEF Net
  <2>8. nextPullToken \in 0..MaxPulls /\ nextPullToken' \in 1..MaxPulls + 1
    BY <2>2, HistoryBounds DEF PullTypes
  <2>9. RequestsFit' /\ asked' \subseteq 0..newest
    BY <1>1, <2>2, <2>3, <2>5, <2>6, <2>7, <2>8, AskFits
  <2>10. retryBudget' \in 0..1
    BY <1>3, <2>2 DEF Spent, ChatTypes
  <2>11. ChatTypes' /\ (deeplinked' \/ TailInv')
    BY <1>1, <2>2, <2>9, <2>10 DEF ChatTypes, TailInv, Cached
  <2>12. Len(pages') <= MaxPages
    BY <2>2 DEF PullInv, PullTypes
  <2>13. PullTypes' /\ NoMoreIsTrue'
    <3>1. event' \in [toast : {"none", "true", "false"}, answer : 0..MaxPulls,
                      closed : SUBSET (0..MaxPulls)] /\ event'.toast = "none"
      BY <2>2, HistoryBounds DEF Nothing
    <3> QED BY <2>8, <2>12, <3>1 DEF PullTypes, NoMoreIsTrue
  <2> QED BY <2>9, <2>11, <2>13
<1> QED BY <1>2, <1>3 DEF Pull, MayRetryFirstPage

LEMMA HistoryInit == Init => HistoryInv
<1> SUFFICES ASSUME Init PROVE HistoryInv
  OBVIOUS
<1>1. newest \in Nat /\ server = 1..newest
  BY HistoryBounds DEF Init
<1>2. RequestsFit
  BY DEF Init, RequestsFit, IsABag, EmptyBag, SetToBag, BagToSet
<1>3. ChatTypes
  <2>1. <<>> \in Seq([from : 0..newest, centered : BOOLEAN])
    BY EmptySeq
  <2> QED BY <1>1, <2>1 DEF Init, ChatTypes, NoCursor
<1>4. TailInv
  <2>1. <<>> \in Seq({FirstPage})
    BY EmptySeq
  <2> QED BY <2>1 DEF Init, TailInv
<1>5. PullTypes /\ NoMoreIsTrue
  BY HistoryBounds, EmptySeq DEF Init, PullTypes, NoMoreIsTrue, Nothing
<1> QED BY <1>2, <1>3, <1>4, <1>5 DEF HistoryInv

LEMMA NextKeepsHistory == PullInv /\ HistoryInv /\ [Next]_vars => HistoryInv'
<1> SUFFICES ASSUME PullInv, HistoryInv, [Next]_vars PROVE HistoryInv'
  OBVIOUS
<1>1. ASSUME NEW r, HandleMessages(r) \/ HandleError(r) PROVE HistoryInv'
  BY <1>1, AnswerKeepsHistory, ErrorKeepsHistory
<1>2. CASE RetryTimerFires
  BY <1>2, RetryKeepsHistory
<1>3. CASE TimeoutFires
  BY <1>3, TimeoutKeepsHistory DEF TimeoutFires
<1>4. CASE NewMessage
  BY <1>4, NewMessageKeepsHistory
<1>5. ASSUME NEW m, DeleteMessage(m) PROVE HistoryInv'
  BY <1>5, DeleteKeepsHistory
<1>6. CASE ChatUpdate
  <2>1. /\ pages' = Shown(pages) /\ event' = Nothing
        /\ UNCHANGED <<server, newest, requests, cache, asked, nextFrom, hasMore, retryBudget,
                       notFoundBudget, retryTimers, shorts, deeplinked, nextPullToken>>
    BY <1>6 DEF ChatUpdate, cursor, pull, tally
  <2> QED BY <2>1, ChatUntouched, SamePages, Untold DEF HistoryInv
<1>7. CASE RefreshAfterSend
  <2>1. /\ StartHistory(0, FALSE) /\ event' = Nothing
        /\ UNCHANGED <<server, newest, cache, retryTimers, shorts, deeplinked, nextPullToken,
                       pages>>
    BY <1>7 DEF RefreshAfterSend, pull
  <2>2. 0 \in 0..newest
    BY DEF HistoryInv, ChatTypes
  <2>3. ChatTypes' /\ RequestsFit' /\ (deeplinked' \/ TailInv')
    BY <2>1, <2>2, StartKeeps DEF HistoryInv
  <2> QED BY <2>1, <2>3, SamePages, Untold DEF HistoryInv
<1>8. CASE SessionEnds
  BY <1>8, SessionEndKeepsHistory
<1>9. CASE LogIn
  BY <1>9, LogInKeepsHistory
<1>10. ASSUME NEW anchor \in {0} \cup (Anchors \cap server), Open(anchor) PROVE HistoryInv'
  BY <1>10, OpenKeepsHistory
<1>11. CASE Leave
  BY <1>11, LeaveKeepsHistory
<1>12. CASE Pull
  BY <1>12, PullKeepsHistory
<1>13. CASE UNCHANGED vars
  <2>1. UNCHANGED <<server, newest, requests, cache, asked, nextFrom, hasMore, retryBudget,
                    notFoundBudget, retryTimers, shorts, deeplinked, nextPullToken, pages, event>>
    BY <1>13 DEF vars, cursor, pull, tally
  <2> QED BY <2>1, ChatUntouched DEF HistoryInv, PullTypes, NoMoreIsTrue
<1> QED
  BY <1>1, <1>2, <1>3, <1>4, <1>5, <1>6, <1>7, <1>8, <1>9, <1>10, <1>11, <1>12, <1>13
     DEF Next, Answer

\* The flags are flags.
LEMMA FlagsInit == Init => Flags
BY DEF Init, Flags

LEMMA FlagsNext == Flags /\ [Next]_vars => Flags'
<1> SUFFICES ASSUME Flags, [Next]_vars PROVE Flags'
  OBVIOUS
<1>1. ASSUME NEW r, HandleMessages(r) PROVE Flags'
  <2>1. UNCHANGED <<limitKnown, authorized, deeplinked>>
    BY <1>1 DEF HandleMessages
  <2>2. hasMore' = hasMore \/ hasMore' = FALSE
        \/ \E incoming, total : hasMore' = StillMore(r, incoming, total)
    BY <1>1 DEF HandleMessages
  <2>3. hasMore' \in BOOLEAN
    BY <2>2 DEF Flags, StillMore
  <2> QED BY <2>1, <2>3 DEF Flags
<1>2. ASSUME NEW r, HandleError(r) PROVE Flags'
  BY <1>2 DEF Flags, HandleError
<1>3. CASE RetryTimerFires
  BY <1>3 DEF Flags, RetryTimerFires, tally
<1>4. ASSUME NEW i, PullTimeout(i) PROVE Flags'
  BY <1>4 DEF Flags, PullTimeout, cursor, tally
<1>5. CASE NewMessage
  BY <1>5 DEF Flags, NewMessage
<1>6. ASSUME NEW m, DeleteMessage(m) PROVE Flags'
  BY <1>6 DEF Flags, DeleteMessage, tally
<1>7. CASE ChatUpdate
  BY <1>7 DEF Flags, ChatUpdate, cursor, tally
<1>8. CASE RefreshAfterSend
  BY <1>8 DEF Flags, RefreshAfterSend, StartHistory
<1>9. CASE SessionEnds
  BY <1>9 DEF Flags, SessionEnds, tally
<1>10. CASE LogIn
  BY <1>10 DEF Flags, LogIn, cursor
<1>11. ASSUME NEW anchor, Open(anchor) PROVE Flags'
  BY <1>11 DEF Flags, Open, StartHistory
<1>12. CASE Leave
  BY <1>12 DEF Flags, Leave, cursor, tally
<1>13. CASE Pull
  BY <1>13 DEF Flags, Pull, PullExhausted, PullStarts, cursor, tally
<1>14. CASE UNCHANGED vars
  BY <1>14 DEF Flags, vars, cursor, tally
<1> QED
  BY <1>1, <1>2, <1>3, <1>4, <1>5, <1>6, <1>7, <1>8, <1>9, <1>10, <1>11, <1>12, <1>13, <1>14
     DEF Next, Answer, TimeoutFires

\* All the invariants together.
THEOREM HistoryInvariant ==
  Spec => [](PullInv /\ NoStaleAnswerCloses /\ HistoryInv /\ Flags)
BY InitPullInv, NextKeepsPullInv, HistoryInit, NextKeepsHistory, FlagsInit, FlagsNext,
   PTL DEF Spec

\* Type correctness, with the bounds on pages and tokens.
THEOREM HistoryTypeCorrect == Spec => []HistoryTypeOK
<1>1. PullInv /\ HistoryInv /\ Flags => HistoryTypeOK
  <2> SUFFICES ASSUME PullInv, HistoryInv, Flags PROVE HistoryTypeOK
    OBVIOUS
  <2> DEFINE Shape == [loadingMessages : BOOLEAN, pullInFlight : BOOLEAN,
                       loadingOlder : BOOLEAN, timer : BOOLEAN, token : 0..MaxPulls]
  <2>1. nextPullToken \in 1..MaxPulls + 1 /\ MaxPulls \in Nat
    BY HistoryBounds DEF HistoryInv, PullTypes
  <2>2. pullToken \in 0..MaxPulls
    BY <2>1 DEF PullInv
  <2>3. pages \in Seq(Shape)
    <3>1. pages \in Seq(Page) /\ \A i \in DOMAIN pages : pages[i].token < nextPullToken
      BY DEF PullInv
    <3>2. ASSUME NEW i \in DOMAIN pages PROVE pages[i] \in Shape
      <4>1. pages[i] \in Page /\ pages[i].token < nextPullToken
        BY <3>1
      <4>2. pages[i].token \in 0..MaxPulls
        BY <2>1, <4>1 DEF Page
      <4> QED BY <4>1, <4>2 DEF Page
    <3> HIDE DEF Shape
    <3>3. pages \in [1..Len(pages) -> Shape] /\ Len(pages) \in Nat
      BY <3>1, <3>2
    <3> QED BY <3>3
  <2>4. BagToSet(requests) \subseteq [from : 0..newest, centered : BOOLEAN, token : 0..MaxPulls]
        /\ IsABag(requests)
    BY DEF HistoryInv, RequestsFit, Fits
  <2>5. Flags
    OBVIOUS
  <2> QED
    BY <2>2, <2>3, <2>4, <2>5 DEF HistoryTypeOK, HistoryInv, ChatTypes, PullTypes, Flags
<1> QED BY <1>1, HistoryInvariant, PTL

\* The timeline has no hole, however pages, new and deleted messages, visits,
\* retries and logins are ordered (TdClient's history cache), until a page is
\* opened around a message.
THEOREM NoHoleEver == Spec => []NoHole
<1>1. HistoryInv => NoHole
  BY DEF HistoryInv, TailInv, NoHole
<1> QED BY <1>1, HistoryInvariant, PTL

\* "No earlier messages" is only said when it is so (resolvePendingPullIfAny
\* and requestOlderChatHistory), unless TDLib answered short.
THEOREM NoMoreAlwaysTrue == Spec => []NoMoreIsTrue
<1>1. HistoryInv => NoMoreIsTrue
  BY DEF HistoryInv
<1> QED BY <1>1, HistoryInvariant, PTL

=============================================================================
