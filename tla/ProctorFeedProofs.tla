--------------------------- MODULE ProctorFeedProofs ---------------------------
(***************************************************************************)
(* Proofs about ProctorFeed: who is sent an event, and what a watching page *)
(* shows, for any number of proctors, events and messages on their way.    *)
(*                                                                         *)
(* Completeness is told event by event: an event is either shown, or older *)
(* than a full list of shown ones, or still on its way to the page by one  *)
(* of the roads it may take (Coming).  What a merge of two lists keeps is  *)
(* a fact about the largest elements of a set (NewestKeeps).  What was      *)
(* recorded unheard comes by no road until the page asks again (Told).     *)
(***************************************************************************)
EXTENDS ProctorFeed, SequenceTheorems, FiniteSetTheorems, WellFoundedInduction, TLAPS

TaskRow == [event : Events, to : Proctors, checked : BOOLEAN]

FeedTypes ==
  /\ scores \in Seq(Nat)
  /\ since \in Seq(SUBSET Proctors)
  /\ Len(since) = Len(scores)
  /\ entitled \in SUBSET Proctors
  /\ fetching \in SUBSET Events
  /\ tasks \in SUBSET TaskRow
  /\ room \in SUBSET Proctors
  /\ start \in [Proctors -> {"off", "asked", "admitted", "on"}]
  /\ wire \in [Proctors -> Seq(Nat)]
  /\ page \in [Proctors -> PageRow \cup {None}]

\* What is sent, or has been checked and will be, is of those entitled.
HearInv ==
  /\ \A e \in Events : entitled \subseteq since[e]
  /\ \A t \in tasks : t.checked => t.to \in since[t.event]
  /\ \A p \in Proctors : \A i \in 1..Len(wire[p]) :
       /\ wire[p][i] \in 0..Len(scores)
       /\ wire[p][i] # Started => p \in since[wire[p][i]]

\* Only a socket whose start was answered is in the room, is served, is live.
SocketInv ==
  \A p \in Proctors :
    /\ p \in room => start[p] = "on"
    /\ start[p] # "on" => wire[p] = <<>> /\ \A t \in tasks : t.to # p
    /\ start[p] # "off" => page[p] \in PageRow
    /\ page[p] # None /\ page[p].live => start[p] = "on"

\* The trust score only ever falls.
ScoresInv ==
  \A i, j \in 0..Len(scores) : i <= j => TrustAfter(j) <= TrustAfter(i)

Newer(S, e) == {f \in S : f > e}
FullAbove(S, e) == Cardinality(Newer(S, e)) >= ShownEvents

\* What a page shows, and what it has been answered, is true of the past.
ShownRow(r) ==
  /\ r.shown \subseteq Events
  /\ \A e \in r.shown : ~ FullAbove(r.shown, e)
  /\ Trust <= r.trust /\ r.trust <= FullTrust
  /\ r.fetch.step \in {"attempt", "events"} => Trust <= r.fetch.score
  /\ r.fetch.step = "events" => r.fetch.events \subseteq Events

IsOpen(p) == page[p] # None \/ start[p] # "off"

ShownInv == \A p \in Proctors : IsOpen(p) => ShownRow(page[p])

\* Event e is still on its way to page p.
Coming(p, e) ==
  \/ e \in fetching
  \/ \E t \in tasks : t.to = p /\ t.event = e
  \/ \E i \in 1..Len(wire[p]) : wire[p][i] = e
  \/ page[p].fetch.step = "asked"

ListHas(p, e) ==
  \/ Coming(p, e)
  \/ page[p].fetch.step = "attempt"
  \/ page[p].fetch.step = "events" /\ e \in page[p].fetch.events
  \/ e \in page[p].shown
  \/ FullAbove(page[p].shown, e)

ScoreHas(p, e) ==
  \/ Coming(p, e)
  \/ page[p].fetch.step \in {"attempt", "events"} /\ page[p].fetch.score <= scores[e]
  \/ page[p].trust <= scores[e]

Watching(p) == p \in room /\ page[p] # None /\ page[p].live /\ ~ page[p].failed

CoverInv ==
  \A p \in Proctors : Watching(p) =>
    \A e \in Events \ untold[p] : ListHas(p, e) /\ ScoreHas(p, e)

FeedInv == FeedTypes /\ HearInv /\ SocketInv /\ ScoresInv /\ ShownInv /\ CoverInv

-----------------------------------------------------------------------------
(* Facts about what a merge keeps.                                         *)

(* A set of naturals below a bound has a largest element.                  *)
LEMMA Largest ==
  ASSUME NEW n \in Nat, NEW T \in SUBSET (0..n), T # {}
  PROVE  \E e \in T : \A f \in T : f <= e
  <1> DEFINE D == {n - e : e \in T}
  <1>1. D \subseteq Nat /\ D # {}
    <2>1. ASSUME NEW e \in T PROVE n - e \in Nat
      BY SMT
    <2> QED BY <2>1
  <1>2. PICK d \in D : \A x \in D : ~ (<<x, d>> \in OpToRel(<, Nat))
    <2> HIDE DEF D
    <2> QED BY <1>1, NatLessThanWellFounded, WFMin, Zenon
  <1>3. PICK e \in T : d = n - e
    OBVIOUS
  <1>4. ASSUME NEW f \in T PROVE f <= e
    <2>1. ~ (n - f < n - e)
      BY <1>1, <1>2, <1>3 DEF OpToRel
    <2> QED BY <2>1
  <1> QED BY <1>4

(* Counting the newer ones makes sense.                                    *)
LEMMA CountAbove ==
  ASSUME NEW n \in Nat, NEW S \in SUBSET (1..n), NEW e
  PROVE  IsFiniteSet(Newer(S, e)) /\ Cardinality(Newer(S, e)) \in Nat
  <1>1. IsFiniteSet(1..n)
    <2>1. 1 \in Int /\ n \in Int
      OBVIOUS
    <2> QED BY <2>1, FS_Interval
  <1>2. Newer(S, e) \in SUBSET (1..n)
    BY DEF Newer
  <1> QED BY <1>1, <1>2, FS_Subset, FS_CardinalityType

(* A smaller list is not fuller.                                           *)
LEMMA FewerAbove ==
  ASSUME NEW n \in Nat, NEW T \in SUBSET (1..n), NEW S \in SUBSET T,
         NEW e \in Nat, NEW f \in Nat, e <= f, FullAbove(S, f)
  PROVE  FullAbove(T, e)
  <1>1. IsFiniteSet(Newer(T, e))
    BY CountAbove
  <1>2. Newer(S, f) \in SUBSET Newer(T, e)
    <2>1. ASSUME NEW x \in S, x > f PROVE x > e
      <3>1. x \in Nat
        OBVIOUS
      <3> QED BY <3>1, <2>1
    <2> QED BY <2>1 DEF Newer
  <1>3. /\ Cardinality(Newer(S, f)) <= Cardinality(Newer(T, e))
        /\ Cardinality(Newer(S, f)) \in Nat /\ Cardinality(Newer(T, e)) \in Nat
    BY <1>1, <1>2, FS_Subset, FS_CardinalityType
  <1> QED BY <1>3, FeedAssumption DEF FullAbove

(* The newest of a set are as many above any element as it takes to be     *)
(* full: what a merge drops had enough newer ones, and those are kept.     *)
LEMMA NewestKeeps ==
  ASSUME NEW n \in Nat, NEW S \in SUBSET (1..n), NEW e \in 1..n, FullAbove(S, e)
  PROVE  FullAbove(Newest(S), e)
  <1> DEFINE T == {x \in 1..n : FullAbove(S, x) /\ ~ FullAbove(Newest(S), x)}
  <1> SUFFICES ASSUME T # {} PROVE FALSE
    OBVIOUS
  <1>1. PICK x \in T : \A f \in T : f <= x
    <2>1. T \in SUBSET (0..n)
      OBVIOUS
    <2> HIDE DEF T
    <2> QED BY <2>1, Largest
  <1>2. /\ x \in 1..n /\ FullAbove(S, x) /\ ~ FullAbove(Newest(S), x)
        /\ Newest(S) \in SUBSET S
    BY DEF Newest
  <1>3. Newer(S, x) # Newer(Newest(S), x)
    BY <1>2 DEF FullAbove
  <1>4. PICK f \in S : f > x /\ f \notin Newest(S)
    BY <1>2, <1>3 DEF Newer
  <1>5. f \in 1..n /\ f \in Nat /\ x \in Nat /\ f > x
    BY <1>4, <1>2
  <1>6. FullAbove(S, f)
    <2>1. Cardinality(Newer(S, f)) \in Nat
      BY CountAbove
    <2> QED BY <1>4, <2>1, FeedAssumption DEF Newest, FullAbove, Newer
  <1>7. FullAbove(Newest(S), f)
    BY <1>1, <1>5, <1>6
  <1>8. FullAbove(Newest(S), x)
    <2>1. \A N \in SUBSET (1..n) : FullAbove(N, f) => FullAbove(N, x)
      <3>1. x <= f
        BY <1>5
      <3> QED BY <1>5, <3>1, FewerAbove
    <2> QED BY <1>2, <1>7, <2>1
  <1> QED BY <1>2, <1>8

(* Merging events into a list: everything that was in one of them, or had  *)
(* enough newer ones, is in the result or has enough newer ones there.     *)
LEMMA MergeKeeps ==
  ASSUME NEW n \in Nat, NEW S \in SUBSET (1..n), NEW X \in SUBSET (1..n), NEW e \in 1..n,
         e \in S \/ FullAbove(S, e) \/ e \in X
  PROVE  e \in Newest(S \cup X) \/ FullAbove(Newest(S \cup X), e)
  <1> DEFINE U == S \cup X
  <1>1. U \in SUBSET (1..n) /\ S \in SUBSET U
    OBVIOUS
  <1> HIDE DEF U
  <1>2. CASE FullAbove(U, e)
    BY <1>1, <1>2, NewestKeeps DEF U
  <1>3. CASE ~ FullAbove(U, e)
    <2>1. ~ FullAbove(S, e)
      BY <1>1, <1>3, FewerAbove
    <2>2. e \in U
      BY <2>1 DEF U
    <2>3. Cardinality(Newer(U, e)) \in Nat
      BY <1>1, CountAbove
    <2>4. e \in Newest(U)
      BY <1>3, <2>2, <2>3, FeedAssumption DEF FullAbove, Newer, Newest
    <2> QED BY <2>4 DEF U
  <1> QED BY <1>2, <1>3

(* The newest of a set are never full above one of themselves.             *)
LEMMA NewestFits ==
  ASSUME NEW n \in Nat, NEW S \in SUBSET (1..n), NEW e \in Newest(S)
  PROVE  ~ FullAbove(Newest(S), e)
  <1>1. e \in Nat /\ e \in S /\ Newest(S) \in SUBSET S
    BY DEF Newest
  <1>2. ~ FullAbove(S, e)
    <2>1. Cardinality(Newer(S, e)) \in Nat
      BY CountAbove
    <2> QED BY <2>1, FeedAssumption DEF Newest, FullAbove, Newer
  <1> QED BY <1>1, <1>2, FewerAbove

(* Into a list without gaps there is nothing to merge.                     *)
LEMMA CompleteIsNewest ==
  ASSUME NEW n \in Nat, NEW S \in SUBSET (1..n), NEW K \in SUBSET (1..n),
         \A e \in S : ~ FullAbove(S, e),
         \A e \in K : e \in S \/ FullAbove(S, e)
  PROVE  S = Newest(S \cup K)
  <1> DEFINE U == S \cup K
  <1>a. /\ U \in SUBSET (1..n) /\ S \in SUBSET U
        /\ \A e \in U : e \in Nat /\ (e \in S \/ FullAbove(S, e))
    OBVIOUS
  <1> HIDE DEF U
  <1>0. \A e \in U : Cardinality(Newer(U, e)) \in Nat
    BY <1>a, CountAbove
  <1>1. \A e \in U : e \in Newest(U) <=> ~ FullAbove(U, e)
    BY <1>0, FeedAssumption DEF Newest, FullAbove, Newer
  <1>2. ASSUME NEW e \in U, e \notin S PROVE e \notin Newest(U)
    <2>1. FullAbove(S, e) /\ e \in Nat /\ e <= e
      BY <1>2, <1>a
    <2> QED BY <2>1, <1>1, <1>a, FewerAbove
  <1>3. ASSUME NEW e \in S, FullAbove(U, e) PROVE FALSE
    <2>1. Newer(U, e) # Newer(S, e)
      BY <1>3 DEF FullAbove
    <2>2. PICK f \in U : f > e /\ f \notin S
      BY <1>a, <2>1 DEF Newer
    <2>3. FullAbove(S, f) /\ e <= f /\ e \in Nat /\ f \in Nat
      BY <1>a, <2>2
    <2>4. FullAbove(S, e)
      BY <2>3, FewerAbove
    <2> QED BY <2>4
  <1>4. S = Newest(U)
    BY <1>a, <1>1, <1>2, <1>3 DEF Newest
  <1> QED BY <1>4 DEF U

-----------------------------------------------------------------------------
(* Facts about single steps.                                               *)

(* A message to a page is the last one on its wire, and changes no other.  *)
LEMMA SendFacts ==
  ASSUME FeedTypes, NEW p \in Proctors, NEW m \in Nat, Send(p, m)
  PROVE  /\ wire' \in [Proctors -> Seq(Nat)]
         /\ \A q \in Proctors \ {p} : wire'[q] = wire[q]
         /\ Len(wire'[p]) = Len(wire[p]) + 1
         /\ \A i \in 1..Len(wire[p]) : wire'[p][i] = wire[p][i]
         /\ wire'[p][Len(wire[p]) + 1] = m
  BY AppendProperties DEF FeedTypes, Send

(* A message that is heard leaves the others in their order.               *)
LEMMA ReceiveFacts ==
  ASSUME FeedTypes, NEW p \in Proctors, Receive(p)
  PROVE  /\ wire' \in [Proctors -> Seq(Nat)]
         /\ \A q \in Proctors \ {p} : wire'[q] = wire[q]
         /\ Len(wire[p]) \in Nat \ {0} /\ Head(wire[p]) = wire[p][1]
         /\ Len(wire'[p]) = Len(wire[p]) - 1
         /\ \A i \in 1..Len(wire'[p]) : wire'[p][i] = wire[p][i + 1]
  <1>1. wire[p] \in Seq(Nat) /\ wire[p] # <<>>
    BY DEF FeedTypes, Receive
  <1>2. /\ Tail(wire[p]) \in Seq(Nat) /\ Len(Tail(wire[p])) = Len(wire[p]) - 1
        /\ Head(wire[p]) = wire[p][1]
        /\ \A i \in 1..Len(Tail(wire[p])) : Tail(wire[p])[i] = wire[p][i + 1]
        /\ Len(wire[p]) \in Nat \ {0}
    BY <1>1, HeadTailProperties, EmptySeq, LenProperties
  <1>3. wire'[p] = Tail(wire[p])
    BY DEF Receive, FeedTypes
  <1> QED BY <1>2, <1>3 DEF Receive, FeedTypes

(* A recorded event is the last one, its score is not higher than the      *)
(* score before it, and it belongs to those who are entitled.              *)
LEMMA RecordFacts ==
  ASSUME FeedTypes, NEW d \in Deductions, Record(d)
  PROVE  /\ scores' \in Seq(Nat) /\ Len(scores') = Len(scores) + 1
         /\ since' \in Seq(SUBSET Proctors) /\ Len(since') = Len(since) + 1
         /\ \A e \in Events : scores'[e] = scores[e] /\ since'[e] = since[e]
         /\ scores'[Len(scores) + 1] <= Trust
         /\ since'[Len(scores) + 1] = entitled
         /\ Trust' = scores'[Len(scores) + 1] /\ Trust' \in Nat
         /\ Len(scores) \in Nat /\ Trust \in Nat
  <1> DEFINE x == IF Trust < d THEN 0 ELSE Trust - d
  <1>1. Len(scores) \in Nat /\ scores \in Seq(Nat)
    BY LenProperties DEF FeedTypes
  <1>2. Trust \in Nat
    <2>1. CASE Len(scores) = 0
      BY <2>1, FeedAssumption DEF Trust, TrustAfter
    <2>2. CASE Len(scores) # 0
      <3>1. Len(scores) \in 1..Len(scores)
        BY <1>1, <2>2
      <3> QED BY <1>1, <2>2, <3>1, ElementOfSeq DEF Trust, TrustAfter
    <2> QED BY <2>1, <2>2
  <1>3. x \in Nat /\ x <= Trust
    BY <1>2, FeedAssumption
  <1>4. scores' = Append(scores, x) /\ since' = Append(since, entitled)
    BY DEF Record
  <1> HIDE DEF x
  <1>5. /\ scores' \in Seq(Nat) /\ Len(scores') = Len(scores) + 1
        /\ \A e \in Events : scores'[e] = scores[e]
        /\ scores'[Len(scores) + 1] = x
    BY <1>1, <1>3, <1>4, AppendProperties DEF Events
  <1>6. /\ since' \in Seq(SUBSET Proctors) /\ Len(since') = Len(since) + 1
        /\ \A e \in Events : since'[e] = since[e]
        /\ since'[Len(scores) + 1] = entitled
    BY <1>4, AppendProperties DEF Events, FeedTypes
  <1>7. Trust' = x
    BY <1>1, <1>5 DEF Trust, TrustAfter
  <1> QED BY <1>1, <1>2, <1>3, <1>5, <1>6, <1>7

(* A merge leaves a page row a page row.                                   *)
LEMMA MergedRow ==
  ASSUME NEW r \in PageRow, NEW X \in SUBSET Nat, NEW x \in Nat
  PROVE  /\ Merged(r, X, x) \in PageRow
         /\ Merged(r, X, x).shown = Newest(r.shown \cup X)
         /\ Merged(r, X, x).trust = Lowest(r.trust, x)
         /\ Merged(r, X, x).fetch = r.fetch /\ Merged(r, X, x).live = r.live
         /\ Merged(r, X, x).failed = r.failed
  <1>1. Newest(r.shown \cup X) \in SUBSET Nat
    BY DEF Newest, PageRow
  <1>2. Lowest(r.trust, x) \in Nat
    BY DEF Lowest, PageRow
  <1> QED BY <1>1, <1>2 DEF Merged, MergeSignals, PageRow

-----------------------------------------------------------------------------
(* The initial states satisfy the invariant.                               *)
LEMMA InitFeed == Init => FeedInv
  <1> SUFFICES ASSUME Init PROVE FeedInv
    OBVIOUS
  <1>1. FeedTypes
    BY DEF Init, FeedTypes, Events
  <1>2. HearInv
    BY DEF Init, HearInv, Events
  <1>3. SocketInv /\ ShownInv
    BY DEF Init, SocketInv, ShownInv, IsOpen
  <1>4. ScoresInv
    BY FeedAssumption DEF Init, ScoresInv, TrustAfter
  <1>5. CoverInv
    BY DEF Init, CoverInv, Watching
  <1> QED BY <1>1, <1>2, <1>3, <1>4, <1>5 DEF FeedInv

-----------------------------------------------------------------------------
(* What is heard is an event that was recorded, by a page that is open.    *)
LEMMA HeardFacts ==
  ASSUME FeedTypes, HearInv, SocketInv, NEW p \in Proctors, Receive(p)
  PROVE  /\ page[p] \in PageRow
         /\ Head(wire[p]) # Started => Head(wire[p]) \in Events /\ scores[Head(wire[p])] \in Nat
  <1>1. wire[p] # <<>> /\ wire[p][1] \in 0..Len(scores) /\ Head(wire[p]) = wire[p][1]
    BY ReceiveFacts DEF HearInv, Receive
  <1>2. start[p] # "off"
    BY <1>1 DEF SocketInv
  <1>3. page[p] \in PageRow
    BY <1>2 DEF SocketInv
  <1>4. ASSUME Head(wire[p]) # Started
        PROVE  Head(wire[p]) \in Events /\ scores[Head(wire[p])] \in Nat
    BY <1>1, <1>4, ElementOfSeq DEF Events, Started, FeedTypes
  <1> QED BY <1>3, <1>4

(* Trust scores are numbers.                                               *)
LEMMA TrustTypes ==
  ASSUME FeedTypes
  PROVE  Len(scores) \in Nat /\ \A n \in 0..Len(scores) : TrustAfter(n) \in Nat
  <1>1. Len(scores) \in Nat
    BY LenProperties DEF FeedTypes
  <1>2. ASSUME NEW n \in 1..Len(scores) PROVE scores[n] \in Nat
    BY ElementOfSeq DEF FeedTypes
  <1> QED BY <1>1, <1>2, FeedAssumption DEF TrustAfter

(* What the page does with its request is a change of its own row.         *)
LEMMA AnswerFacts ==
  ASSUME FeedTypes, NEW p \in Proctors,
         \/ ReadAttempt(p) \/ ReadEvents(p) \/ ShowSummary(p) \/ FailSummary(p) \/ Retry(p)
  PROVE  /\ page[p] \in PageRow /\ page[p] # None
         /\ \E r \in PageRow : Advance(p, r) /\ r.live = page[p].live
  <1>1. page[p] \in PageRow /\ page[p] # None
    BY DEF ReadAttempt, ReadEvents, ShowSummary, FailSummary, Retry, Fetching, FeedTypes
  <1>2. CASE ReadAttempt(p)
    <2>1. Trust \in Nat
      BY TrustTypes DEF Trust
    <2>2. [page[p] EXCEPT !.fetch = [step |-> "attempt", score |-> Trust]] \in PageRow
      BY <1>1, <2>1 DEF PageRow, Fetch
    <2> QED BY <1>1, <1>2, <2>2 DEF ReadAttempt, PageRow
  <1>3. CASE ReadEvents(p)
    <2>1. page[p].fetch.score \in Nat
      BY <1>1, <1>3 DEF ReadEvents, Fetching, PageRow, Fetch, NoRequest, Asked
    <2>2. Events \in SUBSET Nat
      BY DEF Events
    <2>3. [page[p] EXCEPT !.fetch =
             [step |-> "events", score |-> page[p].fetch.score, events |-> Events]] \in PageRow
      BY <1>1, <2>1, <2>2 DEF PageRow, Fetch
    <2> QED BY <1>1, <1>3, <2>3 DEF ReadEvents, PageRow
  <1>4. CASE ShowSummary(p)
    <2>1. page[p].fetch.score \in Nat /\ page[p].fetch.events \in SUBSET Nat
      BY <1>1, <1>4 DEF ShowSummary, Fetching, PageRow, Fetch, NoRequest, Asked
    <2>2. [page[p] EXCEPT !.fetch = NoRequest] \in PageRow
      BY <1>1 DEF PageRow, Fetch
    <2>3. [page[p] EXCEPT !.fetch = NoRequest].live = page[p].live
      BY <1>1 DEF PageRow
    <2> DEFINE r == Merged([page[p] EXCEPT !.fetch = NoRequest], page[p].fetch.events,
                           page[p].fetch.score)
    <2>4. r \in PageRow /\ r.live = page[p].live
      BY <2>1, <2>2, <2>3, MergedRow
    <2>5. Advance(p, r)
      BY <1>4 DEF ShowSummary
    <2> HIDE DEF r
    <2> QED BY <1>1, <2>4, <2>5
  <1>5. CASE FailSummary(p)
    <2> DEFINE r == [page[p] EXCEPT !.fetch = NoRequest, !.failed = TRUE]
    <2>1. r \in PageRow /\ r.live = page[p].live
      BY <1>1 DEF PageRow, Fetch
    <2>2. Advance(p, r)
      BY <1>5 DEF FailSummary
    <2> HIDE DEF r
    <2> QED BY <1>1, <2>1, <2>2
  <1>6. CASE Retry(p)
    <2> DEFINE r == Refetch(page[p])
    <2>1. r \in PageRow /\ r.live = page[p].live
      BY <1>1 DEF PageRow, Fetch, Refetch
    <2>2. Advance(p, r)
      BY <1>6 DEF Retry
    <2> HIDE DEF r
    <2> QED BY <1>1, <2>1, <2>2
  <1> QED BY <1>1, <1>2, <1>3, <1>4, <1>5, <1>6

(* Every step keeps the state well typed.                                  *)
LEMMA FeedTypesKept ==
  ASSUME FeedTypes, HearInv, SocketInv, FeedNext
  PROVE  FeedTypes'
  <1>1. Len(scores) \in Nat /\ \A n \in 0..Len(scores) : TrustAfter(n) \in Nat
    BY TrustTypes
  <1>2. ASSUME NEW d \in Deductions, RecordEvent(d) \/ RecordUnheard(d) PROVE FeedTypes'
    <2>1. Events' = 1..(Len(scores) + 1)
      BY <1>2, RecordFacts DEF RecordEvent, RecordUnheard, Events
    <2>2. fetching' \in SUBSET Events' /\ Events \subseteq Events'
      <3>1. Events \subseteq Events' /\ Len(scores) + 1 \in Events'
        BY <1>1, <2>1 DEF Events
      <3> QED BY <1>2, <3>1 DEF Record, RecordEvent, RecordUnheard, FeedTypes
    <2>3. tasks' \in SUBSET TaskRow'
      BY <1>2, <2>2 DEF Record, RecordEvent, RecordUnheard, FeedTypes, TaskRow
    <2> QED BY <1>2, <2>2, <2>3, RecordFacts DEF Record, RecordEvent, RecordUnheard, FeedTypes
  <1>3. ASSUME NEW e \in fetching, FetchSockets(e) PROVE FeedTypes'
    <2>1. tasks' \in SUBSET TaskRow
      <3>1. e \in Events
        BY DEF FeedTypes
      <3>2. {[event |-> e, to |-> p, checked |-> FALSE] : p \in room} \subseteq TaskRow
        <4>1. ASSUME NEW p \in Proctors
              PROVE  [event |-> e, to |-> p, checked |-> FALSE] \in TaskRow
          BY <3>1 DEF TaskRow
        <4>2. room \subseteq Proctors
          BY DEF FeedTypes
        <4> QED BY <4>1, <4>2
      <3>3. tasks' = tasks \cup {[event |-> e, to |-> p, checked |-> FALSE] : p \in room}
        BY <1>3 DEF FetchSockets
      <3>4. tasks \subseteq TaskRow
        BY DEF FeedTypes
      <3> QED BY <3>2, <3>3, <3>4
    <2> QED BY <1>3, <2>1 DEF FetchSockets, FeedTypes, TaskRow, Events
  <1>4. ASSUME NEW t \in tasks, CheckRecipient(t) \/ ExpelRecipient(t) \/ Emit(t)
        PROVE  FeedTypes'
    <2>1. t \in TaskRow /\ [t EXCEPT !.checked = TRUE] \in TaskRow
      BY DEF FeedTypes, TaskRow
    <2>2. CASE CheckRecipient(t) \/ ExpelRecipient(t)
      BY <2>1, <2>2 DEF CheckRecipient, ExpelRecipient, FeedTypes, TaskRow, Events, serverVars
    <2>3. CASE Emit(t)
      <3>1. t.event \in Nat /\ t.to \in Proctors
        BY <2>1 DEF Events, TaskRow
      <3>2. wire' \in [Proctors -> Seq(Nat)]
        BY <2>3, <3>1, SendFacts DEF Emit
      <3> QED BY <2>3, <3>2 DEF Emit, FeedTypes, TaskRow, Events, serverVars
    <2> QED BY <1>4, <2>2, <2>3
  <1>5. ASSUME NEW p \in Proctors,
               AdmitStart(p) \/ Join(p) \/ ExpelSubscription(p) \/ Grant(p) \/ Revoke(p)
        PROVE  FeedTypes'
    <2>1. CASE Join(p)
      <3>1. wire' \in [Proctors -> Seq(Nat)]
        BY <2>1, SendFacts DEF Join, Started
      <3> QED BY <2>1, <3>1 DEF Join, FeedTypes, TaskRow, Events, serverVars
    <2>2. CASE Grant(p)
      <3>1. \A e \in Events : since[e] \in SUBSET Proctors
        BY ElementOfSeq DEF FeedTypes, TaskRow, Events
      <3>2. since' \in [1..Len(scores) -> SUBSET Proctors]
        BY <2>2, <3>1 DEF Grant, Events
      <3>3. since' \in Seq(SUBSET Proctors) /\ Len(since') = Len(scores)
        BY <1>1, <3>2, SeqDef, LenProperties
      <3> QED BY <2>2, <3>3 DEF Grant, FeedTypes, TaskRow, Events
    <2>3. CASE AdmitStart(p) \/ ExpelSubscription(p) \/ Revoke(p)
      BY <2>3 DEF AdmitStart, ExpelSubscription, Revoke, FeedTypes, TaskRow, Events, serverVars
    <2> QED BY <1>5, <2>1, <2>2, <2>3
  <1>6. ASSUME NEW gone \in SUBSET Proctors, Cut(gone),
               NEW fs \in SUBSET fetching, fetching' = fs, UNCHANGED <<scores, entitled, since>>,
               page' \in [Proctors -> PageRow \cup {None}]
        PROVE  FeedTypes'
    BY <1>6 DEF Cut, FeedTypes, TaskRow, Events
  <1>7. \A gone \in SUBSET Proctors : NotLive(gone) \in [Proctors -> PageRow \cup {None}]
    BY DEF NotLive, FeedTypes, PageRow
  <1>8. ASSUME NEW p \in Proctors, PageStep(p) PROVE FeedTypes'
    <2>1. ASSUME NEW r \in PageRow, SetPage(p, r), UNCHANGED <<serverVars, tasks, room, start>>,
                 wire' \in [Proctors -> Seq(Nat)]
          PROVE  FeedTypes'
      BY <2>1 DEF SetPage, FeedTypes, TaskRow, Events, serverVars
    <2>2. CASE SelectAttempt(p)
      <3>1. \A n \in 0..Len(scores) :
              [live |-> FALSE, failed |-> FALSE, shown |-> {}, trust |-> TrustAfter(n),
               fetch |-> Asked] \in PageRow
        BY <1>1 DEF PageRow, Fetch
      <3> QED BY <2>1, <2>2, <3>1 DEF SelectAttempt, FeedTypes
    <2>3. CASE LeavePage(p)
      <3>1. page' \in [Proctors -> PageRow \cup {None}]
        BY <2>3 DEF LeavePage, SetPage, FeedTypes
      <3> QED BY <1>6, <2>3, <3>1 DEF LeavePage, serverVars
    <2>4. CASE Connect(p)
      BY <2>4 DEF Connect, FeedTypes, TaskRow, Events, serverVars
    <2>5. CASE Disconnect(p)
      BY <1>6, <1>7, <2>5 DEF Disconnect, serverVars
    <2>6. CASE HearStarted(p)
      <3>1. Refetch([page[p] EXCEPT !.live = TRUE]) \in PageRow
        BY <2>6, HeardFacts DEF HearStarted, PageRow, Refetch, Fetch
      <3> QED BY <2>1, <2>6, <3>1, ReceiveFacts DEF HearStarted, Receive
    <2>7. CASE HearEvent(p)
      <3>1. Head(wire[p]) \in Nat
        BY <2>7, HeardFacts DEF HearEvent, Events
      <3>2. Merged(page[p], {Head(wire[p])}, scores[Head(wire[p])]) \in PageRow
        BY <2>7, <3>1, HeardFacts, MergedRow DEF HearEvent
      <3> QED BY <2>1, <2>7, <3>2, ReceiveFacts DEF HearEvent, Receive
    <2>8. CASE ReadAttempt(p) \/ ReadEvents(p) \/ ShowSummary(p) \/ FailSummary(p) \/ Retry(p)
      <3>1. PICK r \in PageRow : Advance(p, r)
        BY <2>8, AnswerFacts
      <3> QED BY <2>1, <3>1 DEF Advance, FeedTypes
    <2> QED BY <1>8, <2>2, <2>3, <2>4, <2>5, <2>6, <2>7, <2>8 DEF PageStep
  <1>9. CASE Crash
    BY <1>6, <1>7, <1>9 DEF Crash
  <1> QED BY <1>2, <1>3, <1>4, <1>5, <1>8, <1>9 DEF FeedNext

-----------------------------------------------------------------------------
(* The steps that only touch what pages and sockets do, seen from what was *)
(* recorded: nothing new is recorded, and no task is added or checked.     *)
LEMMA CutFacts ==
  ASSUME FeedTypes, NEW gone \in SUBSET Proctors, Cut(gone)
  PROVE  /\ tasks' \subseteq tasks
         /\ \A t \in tasks' : t.to \notin gone
         /\ \A p \in Proctors : wire'[p] \in {wire[p], <<>>}
         /\ \A p \in gone : wire'[p] = <<>> /\ start'[p] = "off" /\ p \notin room'
         /\ \A p \in Proctors \ gone :
              /\ wire'[p] = wire[p] /\ start'[p] = start[p]
              /\ p \in room' <=> p \in room
              /\ \A t \in tasks : t.to = p => t \in tasks'
  BY DEF Cut, FeedTypes

(* What is sent is of those who were entitled since it was recorded.       *)
LEMMA HearKept ==
  ASSUME FeedTypes, FeedTypes', HearInv, SocketInv, FeedNext
  PROVE  HearInv'
  <1>0. Len(scores) \in Nat
    BY LenProperties DEF FeedTypes
  <1>1. ASSUME NEW d \in Deductions, RecordEvent(d) \/ RecordUnheard(d) PROVE HearInv'
    <2>1. /\ Events' = Events \cup {Len(scores) + 1}
          /\ \A e \in Events : since'[e] = since[e]
          /\ since'[Len(scores) + 1] = entitled
          /\ Len(scores') = Len(scores) + 1
      BY <1>0, <1>1, RecordFacts DEF RecordEvent, RecordUnheard, Events
    <2>2. \A e \in Events' : entitled' \subseteq since'[e]
      BY <1>1, <2>1 DEF HearInv, Record, RecordEvent, RecordUnheard
    <2>3. \A t \in tasks' : t.checked => t.to \in since'[t.event]
      <3>1. UNCHANGED tasks /\ \A t \in tasks : t.event \in Events
        BY <1>1 DEF Record, RecordEvent, RecordUnheard, FeedTypes, TaskRow
      <3> QED BY <2>1, <3>1 DEF HearInv
    <2>4. ASSUME NEW p \in Proctors, NEW i \in 1..Len(wire'[p])
          PROVE  /\ wire'[p][i] \in 0..Len(scores')
                 /\ wire'[p][i] # Started => p \in since'[wire'[p][i]]
      <3>1. wire' = wire
        BY <1>1 DEF Record, RecordEvent, RecordUnheard
      <3>2. wire[p][i] \in 0..Len(scores) /\ (wire[p][i] # Started => p \in since[wire[p][i]])
        BY <2>4, <3>1 DEF HearInv
      <3>3. wire[p][i] # Started => wire[p][i] \in Events
        BY <1>0, <3>2 DEF Events, Started
      <3> QED BY <1>0, <2>1, <3>1, <3>2, <3>3
    <2> QED BY <2>2, <2>3, <2>4 DEF HearInv
  <1>2. ASSUME UNCHANGED <<scores, since>>, entitled' \subseteq entitled,
               \A t \in tasks' : t.checked => t \in tasks \/ t.to \in entitled,
               \A p \in Proctors : \A i \in 1..Len(wire'[p]) :
                  wire'[p][i] = Started \/ \E j \in 1..Len(wire[p]) : wire'[p][i] = wire[p][j]
        PROVE  HearInv'
    <2>1. ASSUME NEW t \in tasks', t.checked PROVE t.to \in since'[t.event]
      BY <1>2, <2>1 DEF HearInv, FeedTypes, TaskRow, Events
    <2>2. ASSUME NEW p \in Proctors, NEW i \in 1..Len(wire'[p])
          PROVE  /\ wire'[p][i] \in 0..Len(scores')
                 /\ wire'[p][i] # Started => p \in since'[wire'[p][i]]
      <3>1. CASE wire'[p][i] = Started
        BY <1>0, <1>2, <3>1 DEF Started
      <3>2. CASE \E j \in 1..Len(wire[p]) : wire'[p][i] = wire[p][j]
        BY <1>2, <3>2 DEF HearInv
      <3> QED BY <1>2, <3>1, <3>2
    <2>3. \A e \in Events' : entitled' \subseteq since'[e]
      BY <1>2 DEF HearInv, Events
    <2> QED BY <2>1, <2>2, <2>3 DEF HearInv
  <1>3. ASSUME NEW e \in fetching, FetchSockets(e) PROVE HearInv'
    BY <1>2, <1>3 DEF FetchSockets
  <1>4. ASSUME NEW t \in tasks, CheckRecipient(t) \/ ExpelRecipient(t) PROVE HearInv'
    <2>1. [t EXCEPT !.checked = TRUE].to = t.to
      BY DEF FeedTypes, TaskRow
    <2>2. \A x \in tasks' : x.checked => x \in tasks \/ x.to \in entitled
      BY <1>4, <2>1 DEF CheckRecipient, ExpelRecipient, MayHear
    <2> QED BY <1>2, <1>4, <2>2 DEF CheckRecipient, ExpelRecipient, serverVars
  <1>5. ASSUME NEW t \in tasks, Emit(t) PROVE HearInv'
    <2>1. t.event \in Events /\ t.event \in Nat /\ t.to \in Proctors /\ t.to \in since[t.event]
      BY <1>5 DEF HearInv, FeedTypes, TaskRow, Emit, Events
    <2>2. ASSUME NEW p \in Proctors, NEW i \in 1..Len(wire'[p])
          PROVE  /\ wire'[p][i] \in 0..Len(scores')
                 /\ wire'[p][i] # Started => p \in since'[wire'[p][i]]
      <3> USE <1>5 DEF Emit, serverVars, HearInv
      <3>1. CASE p # t.to
        BY <2>1, <2>2, <3>1, SendFacts
      <3>2. CASE p = t.to /\ i \in 1..Len(wire[p])
        <4>1. wire'[p][i] = wire[p][i]
          BY <2>1, <3>2, SendFacts
        <4> QED BY <3>2, <4>1
      <3>3. CASE p = t.to /\ i = Len(wire[p]) + 1
        <4>1. wire'[p][i] = t.event
          BY <2>1, <3>3, SendFacts
        <4> QED BY <1>0, <2>1, <3>3, <4>1 DEF Events
      <3>4. Len(wire[p]) \in Nat
        BY LenProperties DEF FeedTypes
      <3>5. p = t.to => Len(wire'[p]) = Len(wire[p]) + 1
        BY <2>1, SendFacts
      <3> QED BY <2>2, <3>1, <3>2, <3>3, <3>4, <3>5
    <2> QED BY <1>5, <2>2 DEF Emit, serverVars, HearInv, Events
  <1>6. ASSUME NEW p \in Proctors, Join(p) PROVE HearInv'
    <2>1. ASSUME NEW q \in Proctors, NEW i \in 1..Len(wire'[q])
          PROVE  wire'[q][i] = Started \/ \E j \in 1..Len(wire[q]) : wire'[q][i] = wire[q][j]
      <3>1. Started \in Nat /\ Send(p, Started)
        BY <1>6 DEF Started, Join
      <3>2. Len(wire[q]) \in Nat
        BY LenProperties DEF FeedTypes
      <3>3. CASE q # p
        BY <2>1, <3>1, <3>3, SendFacts
      <3>4. CASE q = p /\ i \in 1..Len(wire[p])
        BY <3>1, <3>4, SendFacts
      <3>5. CASE q = p /\ i = Len(wire[p]) + 1
        BY <3>1, <3>5, SendFacts
      <3>6. q = p => Len(wire'[q]) = Len(wire[p]) + 1
        BY <3>1, SendFacts
      <3> QED BY <2>1, <3>2, <3>3, <3>4, <3>5, <3>6
    <2> QED BY <1>2, <1>6, <2>1 DEF Join, serverVars
  <1>7. ASSUME NEW p \in Proctors, Grant(p) PROVE HearInv'
    <2>1. \A e \in Events : since'[e] = since[e] \cup {p}
      BY <1>7 DEF Grant
    <2>2. \A q \in Proctors : \A i \in 1..Len(wire[q]) :
            wire[q][i] # Started => wire[q][i] \in Events
      BY <1>0 DEF HearInv, Started, Events
    <2> QED BY <1>7, <2>1, <2>2 DEF Grant, HearInv, FeedTypes, TaskRow, Events
  <1>8. ASSUME NEW p \in Proctors, AdmitStart(p) \/ ExpelSubscription(p) \/ Revoke(p)
        PROVE  HearInv'
    BY <1>2, <1>8 DEF AdmitStart, ExpelSubscription, Revoke, serverVars
  <1>9. ASSUME NEW gone \in SUBSET Proctors, Cut(gone), UNCHANGED <<scores, entitled, since>>
        PROVE  HearInv'
    <2>1. ASSUME NEW q \in Proctors, NEW i \in 1..Len(wire'[q])
          PROVE  \E j \in 1..Len(wire[q]) : wire'[q][i] = wire[q][j]
      BY <1>9, <2>1, CutFacts
    <2> QED BY <1>2, <1>9, <2>1, CutFacts
  <1>10. ASSUME NEW p \in Proctors, PageStep(p) PROVE HearInv'
    <2>1. CASE HearStarted(p) \/ HearEvent(p)
      <3>1. Receive(p)
        BY <2>1 DEF HearStarted, HearEvent
      <3>2. ASSUME NEW q \in Proctors, NEW i \in 1..Len(wire'[q])
            PROVE  \E j \in 1..Len(wire[q]) : wire'[q][i] = wire[q][j]
        <4>1. CASE q = p
          <5>1. i + 1 \in 1..Len(wire[p]) /\ wire'[p][i] = wire[p][i + 1]
            BY <3>1, <3>2, <4>1, ReceiveFacts
          <5> QED BY <4>1, <5>1
        <4>2. CASE q # p
          BY <3>1, <3>2, <4>2, ReceiveFacts
        <4> QED BY <4>1, <4>2
      <3> QED BY <1>2, <3>1, <3>2 DEF Receive, serverVars
    <2>2. CASE LeavePage(p) \/ Disconnect(p)
      BY <1>9, <2>2 DEF LeavePage, Disconnect, serverVars
    <2>3. CASE \/ SelectAttempt(p) \/ Connect(p) \/ ReadAttempt(p) \/ ReadEvents(p)
               \/ ShowSummary(p) \/ FailSummary(p) \/ Retry(p)
      BY <1>2, <2>3 DEF SelectAttempt, Connect, ReadAttempt, ReadEvents, ShowSummary,
           FailSummary, Retry, Advance, serverVars
    <2> QED BY <1>10, <2>1, <2>2, <2>3 DEF PageStep
  <1>11. CASE Crash
    BY <1>9, <1>11 DEF Crash
  <1> QED BY <1>1, <1>3, <1>4, <1>5, <1>6, <1>7, <1>8, <1>10, <1>11 DEF FeedNext

(* Sockets that are not answered are not served.                           *)
LEMMA SocketKept ==
  ASSUME FeedTypes, HearInv, SocketInv, FeedNext
  PROVE  SocketInv'
  <1>1. ASSUME UNCHANGED <<start, page>>, room' \subseteq room,
               \A t \in tasks' : t.to \in room \/ \E x \in tasks : x.to = t.to,
               \A p \in Proctors : wire[p] = <<>> /\ (\A t \in tasks : t.to # p) => wire'[p] = <<>>
        PROVE  SocketInv'
    BY <1>1 DEF SocketInv
  <1>2. ASSUME NEW d \in Deductions, RecordEvent(d) \/ RecordUnheard(d) PROVE SocketInv'
    BY <1>1, <1>2 DEF Record, RecordEvent, RecordUnheard
  <1>3. ASSUME NEW e \in fetching, FetchSockets(e) PROVE SocketInv'
    BY <1>1, <1>3 DEF FetchSockets
  <1>4. ASSUME NEW t \in tasks, CheckRecipient(t) \/ ExpelRecipient(t) PROVE SocketInv'
    <2>1. [t EXCEPT !.checked = TRUE].to = t.to
      BY DEF FeedTypes, TaskRow
    <2> QED BY <1>1, <1>4, <2>1 DEF CheckRecipient, ExpelRecipient, serverVars
  <1>5. ASSUME NEW t \in tasks, Emit(t) PROVE SocketInv'
    <2>1. t.event \in Nat /\ t.to \in Proctors
      BY DEF FeedTypes, TaskRow, Events
    <2>2. \A p \in Proctors \ {t.to} : wire'[p] = wire[p]
      BY <1>5, <2>1, SendFacts DEF Emit
    <2> QED BY <1>1, <1>5, <2>1, <2>2 DEF Emit, serverVars
  <1>6. ASSUME NEW p \in Proctors, Join(p) PROVE SocketInv'
    <2>1. \A q \in Proctors \ {p} : wire'[q] = wire[q]
      BY <1>6, SendFacts DEF Join, Started
    <2> QED BY <1>6, <2>1 DEF Join, SocketInv, FeedTypes
  <1>7. ASSUME NEW p \in Proctors, AdmitStart(p) PROVE SocketInv'
    BY <1>7 DEF AdmitStart, SocketInv, FeedTypes
  <1>8. ASSUME NEW p \in Proctors, ExpelSubscription(p) \/ Grant(p) \/ Revoke(p)
        PROVE  SocketInv'
    BY <1>1, <1>8 DEF ExpelSubscription, Grant, Revoke, serverVars
  <1>9. ASSUME NEW gone \in SUBSET Proctors, Cut(gone),
               \A p \in Proctors \ gone : page'[p] = page[p],
               \A p \in gone : page'[p] = None \/ ~ page'[p].live
        PROVE  SocketInv'
    <2>1. ASSUME NEW p \in gone
          PROVE  /\ wire'[p] = <<>> /\ start'[p] = "off" /\ p \notin room'
                 /\ \A t \in tasks' : t.to # p
      BY <1>9, <2>1, CutFacts
    <2>2. ASSUME NEW p \in Proctors \ gone
          PROVE  /\ wire'[p] = wire[p] /\ start'[p] = start[p] /\ page'[p] = page[p]
                 /\ p \in room' <=> p \in room
                 /\ tasks' \subseteq tasks
      BY <1>9, <2>2, CutFacts
    <2> QED BY <1>9, <2>1, <2>2 DEF SocketInv
  <1>10. \A gone \in SUBSET Proctors : page' = NotLive(gone) =>
           /\ \A p \in Proctors \ gone : page'[p] = page[p]
           /\ \A p \in gone : page'[p] = None \/ ~ page'[p].live
    BY DEF NotLive, FeedTypes, PageRow
  <1>11. ASSUME NEW p \in Proctors, PageStep(p) PROVE SocketInv'
    <2>1. ASSUME NEW r \in PageRow, SetPage(p, r),
                 r.live => start[p] = "on",
                 UNCHANGED <<tasks, room, start>>,
                 wire[p] = <<>> => wire'[p] = <<>>,
                 \A q \in Proctors \ {p} : wire'[q] = wire[q]
          PROVE  SocketInv'
      BY <2>1 DEF SetPage, SocketInv, FeedTypes
    <2>2. CASE SelectAttempt(p)
      <3>1. ASSUME NEW n \in 0..Len(scores)
            PROVE  [live |-> FALSE, failed |-> FALSE, shown |-> {}, trust |-> TrustAfter(n),
                    fetch |-> Asked] \in PageRow
        BY TrustTypes DEF PageRow, Fetch
      <3> QED BY <2>1, <2>2, <3>1 DEF SelectAttempt, FeedTypes
    <2>3. CASE LeavePage(p)
      BY <1>9, <2>3 DEF LeavePage, SetPage, FeedTypes
    <2>4. CASE Connect(p)
      BY <2>4 DEF Connect, SocketInv, FeedTypes
    <2>5. CASE Disconnect(p)
      BY <1>9, <1>10, <2>5 DEF Disconnect
    <2>6. CASE HearStarted(p) \/ HearEvent(p)
      <3>1. Receive(p)
        BY <2>6 DEF HearStarted, HearEvent
      <3>2. wire[p] # <<>> /\ \A q \in Proctors \ {p} : wire'[q] = wire[q]
        BY <3>1, ReceiveFacts DEF Receive
      <3>3. start[p] = "on"
        BY <3>2 DEF SocketInv
      <3>4. CASE HearStarted(p)
        <4>1. Refetch([page[p] EXCEPT !.live = TRUE]) \in PageRow
          BY <3>1, HeardFacts DEF PageRow, Refetch, Fetch
        <4> QED BY <2>1, <3>1, <3>2, <3>3, <3>4, <4>1 DEF HearStarted, Receive
      <3>5. CASE HearEvent(p)
        <4>1. page[p] \in PageRow /\ Head(wire[p]) \in Nat /\ scores[Head(wire[p])] \in Nat
          BY <3>1, <3>5, HeardFacts DEF HearEvent, Events
        <4>2. Merged(page[p], {Head(wire[p])}, scores[Head(wire[p])]) \in PageRow
          BY <4>1, MergedRow
        <4> QED BY <2>1, <3>1, <3>2, <3>3, <3>5, <4>2 DEF HearEvent, Receive
      <3> QED BY <2>6, <3>4, <3>5
    <2>7. CASE ReadAttempt(p) \/ ReadEvents(p) \/ ShowSummary(p) \/ FailSummary(p) \/ Retry(p)
      <3>1. PICK r \in PageRow : Advance(p, r) /\ r.live = page[p].live
        BY <2>7, AnswerFacts
      <3>2. r.live => start[p] = "on"
        BY <2>7, <3>1 DEF SocketInv, ReadAttempt, ReadEvents, ShowSummary, FailSummary, Retry,
             Fetching
      <3> QED BY <2>1, <3>1, <3>2 DEF Advance, FeedTypes
    <2> QED BY <1>11, <2>2, <2>3, <2>4, <2>5, <2>6, <2>7 DEF PageStep
  <1>12. CASE Crash
    BY <1>9, <1>10, <1>12 DEF Crash
  <1> QED BY <1>2, <1>3, <1>4, <1>5, <1>6, <1>7, <1>8, <1>11, <1>12 DEF FeedNext

(* Trust only ever falls.                                                  *)
LEMMA ScoresKept ==
  ASSUME FeedTypes, ScoresInv, FeedNext
  PROVE  ScoresInv' /\ Trust' <= Trust /\ Trust' \in Nat
  <1>0. Len(scores) \in Nat /\ Trust \in Nat
    BY TrustTypes DEF Trust
  <1>1. ASSUME NEW d \in Deductions, RecordEvent(d) \/ RecordUnheard(d)
        PROVE  ScoresInv' /\ Trust' <= Trust /\ Trust' \in Nat
    <2>0. PICK n \in Nat : n = Len(scores)
      BY <1>0
    <2>1. /\ Len(scores') = n + 1 /\ Trust' <= Trust /\ Trust' \in Nat
          /\ scores'[n + 1] = Trust'
          /\ \A i \in 1..n : scores'[i] = scores[i]
      BY <2>0, <1>1, RecordFacts DEF RecordEvent, RecordUnheard, Events
    <2>2. \A i \in 0..n : Trust <= TrustAfter(i) /\ TrustAfter(i) \in Nat
      BY <2>0, TrustTypes DEF ScoresInv, Trust
    <2>3. \A i \in 0..n : TrustAfter(i)' = TrustAfter(i)
      BY <2>1 DEF TrustAfter
    <2>4. TrustAfter(n + 1)' = Trust'
      BY <2>0, <2>1 DEF TrustAfter
    <2>5. ASSUME NEW i \in 0..(n + 1), NEW j \in 0..(n + 1), i <= j
          PROVE  TrustAfter(j)' <= TrustAfter(i)'
      <3>1. CASE j \in 0..n
        <4>1. i \in 0..n
          BY <2>0, <2>5, <3>1
        <4> QED BY <2>0, <2>3, <2>5, <3>1, <4>1 DEF ScoresInv
      <3>2. CASE j = n + 1 /\ i \in 0..n
        <4>1. TrustAfter(j)' = Trust' /\ TrustAfter(i)' = TrustAfter(i)
          BY <2>3, <2>4, <3>2
        <4>2. Trust <= TrustAfter(i) /\ TrustAfter(i) \in Nat
          BY <2>2, <3>2
        <4> QED BY <1>0, <2>1, <4>1, <4>2
      <3>3. CASE j = n + 1 /\ i = n + 1
        BY <2>1, <2>4, <3>3
      <3> QED BY <2>5, <3>1, <3>2, <3>3
    <2> QED BY <2>1, <2>5 DEF ScoresInv
  <1>2. CASE UNCHANGED scores
    BY <1>0, <1>2 DEF ScoresInv, Trust, TrustAfter
  <1>3. UNCHANGED scores \/ \E d \in Deductions : RecordEvent(d) \/ RecordUnheard(d)
    BY DEF FeedNext, PageStep, FetchSockets, CheckRecipient, ExpelRecipient, Emit, AdmitStart, Join,
         ExpelSubscription, Grant, Revoke, Crash, SelectAttempt, LeavePage, Connect, Disconnect,
         HearStarted, HearEvent, Receive, ReadAttempt, ReadEvents, ShowSummary, FailSummary, Retry,
         Advance, serverVars
  <1> QED BY <1>1, <1>2, <1>3

-----------------------------------------------------------------------------
(* A merge with events and a score of the past leaves a list of the past.  *)
LEMMA MergedShown ==
  ASSUME FeedTypes, ScoresInv, NEW r \in PageRow, ShownRow(r),
         NEW X \in SUBSET Events, NEW x \in Nat, Trust <= x
  PROVE  ShownRow(Merged(r, X, x))
  <1> DEFINE m == Merged(r, X, x)
  <1>1. /\ m.shown = Newest(r.shown \cup X) /\ m.trust = Lowest(r.trust, x) /\ m.fetch = r.fetch
    <2>1. X \in SUBSET Nat
      BY DEF Events
    <2> QED BY <2>1, MergedRow
  <1> HIDE DEF m
  <1>2. r.shown \cup X \in SUBSET (1..Len(scores)) /\ Len(scores) \in Nat
    BY TrustTypes DEF ShownRow, Events
  <1>3. /\ m.shown \subseteq Events
        /\ \A e \in m.shown : ~ FullAbove(m.shown, e)
    BY <1>1, <1>2, NewestFits DEF Newest, Events
  <1>4. Trust <= m.trust /\ m.trust <= FullTrust
    BY <1>1, FeedAssumption, TrustTypes DEF Lowest, ShownRow, PageRow, Trust
  <1> QED BY <1>1, <1>3, <1>4 DEF ShownRow, m

(* What pages show stays true of the past.                                 *)
LEMMA ShownKept ==
  ASSUME FeedTypes, HearInv, SocketInv, ScoresInv, ShownInv, FeedNext
  PROVE  ShownInv'
  <1>0. /\ Len(scores) \in Nat /\ Trust \in Nat
        /\ \A n \in 0..Len(scores) :
             TrustAfter(n) \in Nat /\ Trust <= TrustAfter(n) /\ TrustAfter(n) <= FullTrust
    <2>1. Len(scores) \in Nat /\ \A n \in 0..Len(scores) : TrustAfter(n) \in Nat
      BY TrustTypes
    <2>2. \A n \in 0..Len(scores) : TrustAfter(Len(scores)) <= TrustAfter(n)
                                    /\ TrustAfter(n) <= TrustAfter(0)
      BY <2>1 DEF ScoresInv
    <2> QED BY <2>1, <2>2 DEF Trust, TrustAfter
  <1>1. ASSUME NEW d \in Deductions, RecordEvent(d) \/ RecordUnheard(d) PROVE ShownInv'
    <2>1. Events \subseteq Events' /\ Trust' <= Trust /\ Trust' \in Nat
      BY <1>0, <1>1, RecordFacts DEF RecordEvent, RecordUnheard, Events
    <2>2. ASSUME NEW r \in PageRow, ShownRow(r) PROVE ShownRow(r)'
      <3>1. r.trust \in Nat
        BY DEF PageRow
      <3>2. r.fetch.step \in {"attempt", "events"} => r.fetch.score \in Nat
        BY DEF PageRow, Fetch, NoRequest, Asked
      <3>3. Trust' <= r.trust /\ r.trust <= FullTrust
        BY <1>0, <2>1, <2>2, <3>1 DEF ShownRow
      <3>4. r.fetch.step \in {"attempt", "events"} => Trust' <= r.fetch.score
        BY <1>0, <2>1, <2>2, <3>2 DEF ShownRow
      <3> QED BY <2>1, <2>2, <3>3, <3>4 DEF ShownRow
    <2>3. ASSUME NEW p \in Proctors, IsOpen(p) PROVE page[p] \in PageRow
      BY <2>3 DEF IsOpen, SocketInv, FeedTypes
    <2> QED BY <1>1, <2>2, <2>3 DEF ShownInv, IsOpen, Record, RecordEvent, RecordUnheard
  <1>2. ASSUME UNCHANGED <<scores, page>>,
               \A p \in Proctors : start'[p] # "off" => start[p] # "off" \/ page[p] # None
        PROVE  ShownInv'
    BY <1>2 DEF ShownInv, IsOpen, ShownRow, Events, Trust, TrustAfter
  <1>3. ASSUME NEW e \in fetching, FetchSockets(e) PROVE ShownInv'
    BY <1>2, <1>3 DEF FetchSockets
  <1>4. ASSUME NEW t \in tasks, CheckRecipient(t) \/ ExpelRecipient(t) \/ Emit(t) PROVE ShownInv'
    BY <1>2, <1>4 DEF CheckRecipient, ExpelRecipient, Emit, serverVars
  <1>5. ASSUME NEW p \in Proctors,
               \/ AdmitStart(p) \/ Join(p) \/ ExpelSubscription(p) \/ Grant(p) \/ Revoke(p)
               \/ Connect(p)
        PROVE  ShownInv'
    BY <1>2, <1>5 DEF AdmitStart, Join, ExpelSubscription, Grant, Revoke, Connect, serverVars,
         FeedTypes
  <1>6. ASSUME UNCHANGED <<scores, start>>, NEW p \in Proctors, NEW r, ShownRow(r), SetPage(p, r)
        PROVE  ShownInv'
    <2>1. \A x : ShownRow(x) => ShownRow(x)'
      BY <1>6 DEF ShownRow, Events, Trust, TrustAfter
    <2> QED BY <1>6, <2>1 DEF ShownInv, IsOpen, SetPage, FeedTypes
  <1>7. ASSUME UNCHANGED scores, NEW gone \in SUBSET Proctors, Cut(gone), page' = NotLive(gone)
        PROVE  ShownInv'
    <2>1. ASSUME NEW x \in PageRow, ShownRow(x)
          PROVE  ShownRow(x)' /\ ShownRow([x EXCEPT !.live = FALSE])'
      BY <1>7, <2>1 DEF ShownRow, Events, Trust, TrustAfter, PageRow
    <2>2. ASSUME NEW q \in Proctors, IsOpen(q)' PROVE IsOpen(q) /\ page[q] \in PageRow
      <3>1. start'[q] # "off" => start[q] # "off"
        BY <1>7, CutFacts
      <3>2. page'[q] # None => page[q] # None \/ start[q] # "off"
        BY <1>7 DEF NotLive
      <3>3. IsOpen(q)
        BY <2>2, <3>1, <3>2 DEF IsOpen
      <3> QED BY <3>3 DEF IsOpen, SocketInv, FeedTypes
    <2>3. \A q \in Proctors : page'[q] \in {page[q], [page[q] EXCEPT !.live = FALSE]}
      BY <1>7 DEF NotLive
    <2> QED BY <2>1, <2>2, <2>3 DEF ShownInv
  <1>8. ASSUME NEW p \in Proctors, PageStep(p) PROVE ShownInv'
    <2>1. CASE SelectAttempt(p)
      <3>1. ASSUME NEW n \in 0..Len(scores)
            PROVE  ShownRow([live |-> FALSE, failed |-> FALSE, shown |-> {}, trust |-> TrustAfter(n),
                             fetch |-> Asked])
        BY <1>0 DEF ShownRow, Asked
      <3> QED BY <1>6, <2>1, <3>1 DEF SelectAttempt, serverVars
    <2>2. CASE LeavePage(p)
      <3>1. \A x : ShownRow(x) => ShownRow(x)'
        BY <2>2 DEF ShownRow, Events, Trust, TrustAfter, LeavePage, serverVars
      <3>2. Cut({p}) /\ page'[p] = None /\ \A q \in Proctors \ {p} : page'[q] = page[q]
        BY <2>2 DEF LeavePage, SetPage, FeedTypes
      <3>3. start'[p] = "off" /\ \A q \in Proctors \ {p} : start'[q] = start[q]
        BY <3>2, CutFacts
      <3> QED BY <3>1, <3>2, <3>3 DEF ShownInv, IsOpen
    <2>3. CASE Disconnect(p)
      BY <1>7, <2>3 DEF Disconnect, serverVars
    <2>4. CASE HearStarted(p) \/ HearEvent(p)
      <3>1. Receive(p) /\ UNCHANGED <<scores, start>>
        BY <2>4 DEF HearStarted, HearEvent, Receive, serverVars
      <3>2. page[p] \in PageRow
        BY <3>1, HeardFacts
      <3>3. ShownRow(page[p])
        BY <3>1 DEF ShownInv, IsOpen, SocketInv, Receive
      <3>4. CASE HearStarted(p)
        <4>1. ShownRow(Refetch([page[p] EXCEPT !.live = TRUE]))
          BY <3>2, <3>3 DEF ShownRow, Refetch, PageRow, Asked
        <4> QED BY <1>6, <3>1, <3>4, <4>1 DEF HearStarted
      <3>5. CASE HearEvent(p)
        <4>1. Head(wire[p]) \in Events /\ scores[Head(wire[p])] \in Nat
          BY <3>1, <3>5, HeardFacts DEF HearEvent
        <4>2. Trust <= scores[Head(wire[p])]
          BY <1>0, <4>1 DEF Events, TrustAfter
        <4>3. ShownRow(Merged(page[p], {Head(wire[p])}, scores[Head(wire[p])]))
          BY <3>2, <3>3, <4>1, <4>2, MergedShown
        <4> QED BY <1>6, <3>1, <3>5, <4>3 DEF HearEvent
      <3> QED BY <2>4, <3>4, <3>5
    <2>5. CASE ReadAttempt(p) \/ ReadEvents(p) \/ ShowSummary(p) \/ FailSummary(p) \/ Retry(p)
      <3>1. page[p] \in PageRow /\ page[p] # None /\ ShownRow(page[p])
        BY <2>5, AnswerFacts DEF ShownInv, IsOpen
      <3>2. ASSUME NEW r, ShownRow(r), Advance(p, r) PROVE ShownInv'
        BY <1>6, <3>2 DEF Advance, serverVars
      <3>3. CASE ReadAttempt(p)
        <4>1. ShownRow([page[p] EXCEPT !.fetch = [step |-> "attempt", score |-> Trust]])
          BY <1>0, <3>1 DEF ShownRow, PageRow
        <4> QED BY <3>2, <3>3, <4>1 DEF ReadAttempt
      <3>4. CASE ReadEvents(p)
        <4>1. ShownRow([page[p] EXCEPT !.fetch =
                 [step |-> "events", score |-> page[p].fetch.score, events |-> Events]])
          BY <3>1, <3>4 DEF ShownRow, PageRow, ReadEvents, Fetching
        <4> QED BY <3>1, <3>2, <3>4, <4>1 DEF ReadEvents, PageRow
      <3>5. CASE ShowSummary(p)
        <4>1. /\ page[p].fetch.score \in Nat /\ page[p].fetch.events \in SUBSET Events
              /\ Trust <= page[p].fetch.score
          BY <3>1, <3>5 DEF ShownRow, ShowSummary, Fetching, PageRow, Fetch, NoRequest, Asked
        <4> DEFINE r == [page[p] EXCEPT !.fetch = NoRequest]
        <4>2. r \in PageRow /\ ShownRow(r)
          BY <3>1 DEF ShownRow, PageRow, Fetch, NoRequest
        <4>3. Advance(p, Merged(r, page[p].fetch.events, page[p].fetch.score))
          BY <3>5 DEF ShowSummary
        <4> HIDE DEF r
        <4>4. ShownRow(Merged(r, page[p].fetch.events, page[p].fetch.score))
          BY <4>1, <4>2, MergedShown
        <4> QED BY <3>2, <4>3, <4>4
      <3>6. CASE FailSummary(p)
        <4>1. ShownRow([page[p] EXCEPT !.fetch = NoRequest, !.failed = TRUE])
          BY <3>1 DEF ShownRow, PageRow, NoRequest
        <4> QED BY <3>2, <3>6, <4>1 DEF FailSummary
      <3>7. CASE Retry(p)
        <4>1. ShownRow(Refetch(page[p]))
          BY <3>1 DEF ShownRow, PageRow, Asked, Refetch
        <4> QED BY <3>2, <3>7, <4>1 DEF Retry
      <3> QED BY <2>5, <3>3, <3>4, <3>5, <3>6, <3>7
    <2> QED BY <1>5, <1>8, <2>1, <2>2, <2>3, <2>4, <2>5 DEF PageStep
  <1>9. CASE Crash
    BY <1>7, <1>9 DEF Crash
  <1> QED BY <1>1, <1>3, <1>4, <1>5, <1>8, <1>9 DEF FeedNext

-----------------------------------------------------------------------------
(* What a page has been told of, after a step, it had been told of before, *)
(* or is being announced, or the page has just asked.                      *)
LEMMA Told ==
  ASSUME FeedTypes, Remember, NEW p \in Proctors, NEW e \in Events' \ untold'[p]
  PROVE  \/ e \notin untold[p] /\ e \in Events \cup fetching'
         \/ page[p].fetch.step = "asked" /\ page'[p].fetch.step = "attempt"
  <1>1. CASE ReadAttempt(p)
    <2>1. page[p].fetch.step = "asked" /\ page[p] \in PageRow
      BY <1>1 DEF ReadAttempt, Fetching, FeedTypes
    <2>2. page'[p].fetch = [step |-> "attempt", score |-> Trust]
      BY <1>1, <2>1 DEF ReadAttempt, Advance, SetPage, FeedTypes, PageRow
    <2> QED BY <2>1, <2>2
  <1>2. CASE ~ ReadAttempt(p)
    <2>1. untold'[p] = untold[p] \cup (Events' \ (Events \cup fetching'))
      BY <1>2 DEF Remember
    <2> QED BY <2>1
  <1> QED BY <1>1, <1>2

(* A step that leaves the page and the list of events as they are, and     *)
(* takes nothing from the page that is on its way, keeps it covered.       *)
LEMMA CoverUnchanged ==
  ASSUME NEW p \in Proctors, NEW e, page'[p] = page[p], scores'[e] = scores[e],
         Coming(p, e) => Coming(p, e)', ListHas(p, e), ScoreHas(p, e)
  PROVE  ListHas(p, e)' /\ ScoreHas(p, e)'
  BY DEF ListHas, ScoreHas, FullAbove, Newer

(* An answer or an event that is merged covers what it brings and loses    *)
(* nothing that was covered before.                                        *)
LEMMA CoverMerged ==
  ASSUME FeedTypes, NEW p \in Proctors, NEW e \in Events, NEW r \in PageRow, ShownRow(r),
         NEW X \in SUBSET Events, NEW x \in Nat, page'[p] = Merged(r, X, x)
  PROVE  /\ e \in r.shown \/ FullAbove(r.shown, e) \/ e \in X
              => e \in page'[p].shown \/ FullAbove(page'[p].shown, e)
         /\ r.trust <= scores[e] \/ x <= scores[e] => page'[p].trust <= scores[e]
         /\ page'[p].fetch = r.fetch
  <1>1. /\ page'[p].shown = Newest(r.shown \cup X) /\ page'[p].trust = Lowest(r.trust, x)
        /\ page'[p].fetch = r.fetch
    <2>1. X \in SUBSET Nat
      BY DEF Events
    <2> QED BY <2>1, MergedRow
  <1>2. Len(scores) \in Nat /\ r.shown \in SUBSET (1..Len(scores)) /\ X \in SUBSET (1..Len(scores))
        /\ e \in 1..Len(scores)
    BY TrustTypes DEF ShownRow, Events
  <1>3. e \in r.shown \/ FullAbove(r.shown, e) \/ e \in X
          => e \in page'[p].shown \/ FullAbove(page'[p].shown, e)
    <2>1. \A n \in Nat : \A S, T \in SUBSET (1..n) : e \in 1..n =>
            (e \in S \/ FullAbove(S, e) \/ e \in T
               => e \in Newest(S \cup T) \/ FullAbove(Newest(S \cup T), e))
      BY MergeKeeps
    <2> QED BY <1>1, <1>2, <2>1
  <1>4. scores[e] \in Nat /\ r.trust \in Nat
    BY <1>2, ElementOfSeq DEF FeedTypes, PageRow
  <1>5. r.trust <= scores[e] \/ x <= scores[e] => page'[p].trust <= scores[e]
    BY <1>1, <1>4 DEF Lowest
  <1> QED BY <1>1, <1>3, <1>5

(* What is on its way to a watching page, the server never loses.          *)
LEMMA CoverServer ==
  ASSUME FeedTypes, HearInv, SocketInv, CoverInv, Remember, UNCHANGED page,
         \/ \E d \in Deductions : RecordEvent(d) \/ RecordUnheard(d)
         \/ \E e \in fetching : FetchSockets(e)
         \/ \E t \in tasks : CheckRecipient(t) \/ ExpelRecipient(t) \/ Emit(t)
         \/ \E p \in Proctors :
               \/ AdmitStart(p) \/ Join(p) \/ ExpelSubscription(p) \/ Grant(p) \/ Revoke(p)
               \/ Connect(p)
  PROVE  CoverInv'
  <1> SUFFICES ASSUME NEW p \in Proctors, Watching(p)', NEW e \in Events' \ untold'[p]
               PROVE  ListHas(p, e)' /\ ScoreHas(p, e)'
    BY DEF CoverInv
  <1>0. Len(scores) \in Nat /\ page[p] # None /\ page[p].live /\ start[p] = "on"
    BY TrustTypes DEF Watching, SocketInv
  <1>1. p \in room' => p \in room
    BY <1>0 DEF Record, RecordEvent, RecordUnheard, FetchSockets, CheckRecipient, ExpelRecipient,
         Emit, AdmitStart, Join, ExpelSubscription, Grant, Revoke, Connect, serverVars
  <1>2. Watching(p) /\ e \notin untold[p] /\ e \in Events \cup fetching'
    BY <1>1, Told DEF Watching
  <1>3. ASSUME e \in Events, scores'[e] = scores[e], Coming(p, e) => Coming(p, e)'
        PROVE  ListHas(p, e)' /\ ScoreHas(p, e)'
    BY <1>2, <1>3, CoverUnchanged DEF CoverInv
  <1>4. CASE \E d \in Deductions : RecordEvent(d) \/ RecordUnheard(d)
    <2>1. PICK d \in Deductions : RecordEvent(d) \/ RecordUnheard(d)
      BY <1>4
    <2>2. \A x \in Events : scores'[x] = scores[x]
      BY <2>1, RecordFacts DEF RecordEvent, RecordUnheard
    <2>3. fetching \subseteq fetching' /\ UNCHANGED <<tasks, wire>>
      BY <2>1 DEF Record, RecordEvent, RecordUnheard
    <2>4. CASE e \in Events
      <3>1. Coming(p, e) => Coming(p, e)'
        BY <2>3 DEF Coming
      <3> QED BY <1>3, <2>2, <2>4, <3>1
    <2>5. CASE e \in fetching'
      BY <2>5 DEF ListHas, ScoreHas, Coming
    <2> QED BY <1>2, <2>4, <2>5
  <1>5. CASE UNCHANGED scores /\ (Coming(p, e) => Coming(p, e)')
    <2>1. e \in Events
      BY <1>5 DEF Events
    <2> QED BY <1>3, <1>5, <2>1
  <1>6. CASE \E f \in fetching : FetchSockets(f)
    <2>1. PICK f \in fetching : FetchSockets(f)
      BY <1>6
    <2>2. p \in room
      BY <1>2 DEF Watching
    <2>3. [event |-> f, to |-> p, checked |-> FALSE] \in tasks' /\ tasks \subseteq tasks'
          /\ fetching' = fetching \ {f} /\ UNCHANGED <<wire, scores>>
      BY <2>1, <2>2 DEF FetchSockets
    <2>4. Coming(p, e) => Coming(p, e)'
      BY <2>3 DEF Coming
    <2> QED BY <1>5, <2>3, <2>4
  <1>7. CASE \E t \in tasks : CheckRecipient(t) \/ ExpelRecipient(t)
    <2>1. PICK t \in tasks : CheckRecipient(t) \/ ExpelRecipient(t)
      BY <1>7
    <2>2. UNCHANGED <<wire, scores, fetching>>
      BY <2>1 DEF CheckRecipient, ExpelRecipient, serverVars
    <2>3. ASSUME NEW x \in tasks, x.to = p, x.event = e
          PROVE  \E y \in tasks' : y.to = p /\ y.event = e
      <3>1. CASE CheckRecipient(t)
        <4>1. [t EXCEPT !.checked = TRUE].to = t.to /\ [t EXCEPT !.checked = TRUE].event = t.event
          BY DEF FeedTypes, TaskRow
        <4> QED BY <2>3, <3>1, <4>1 DEF CheckRecipient
      <3>2. CASE ExpelRecipient(t)
        <4>1. p \in room'
          BY DEF Watching
        <4> QED BY <2>3, <3>2, <4>1 DEF ExpelRecipient
      <3> QED BY <2>1, <3>1, <3>2
    <2>4. Coming(p, e) => Coming(p, e)'
      BY <2>2, <2>3 DEF Coming
    <2> QED BY <1>5, <2>2, <2>4
  <1>8. CASE \E t \in tasks : Emit(t)
    <2>1. PICK t \in tasks : Emit(t)
      BY <1>8
    <2>2. t.event \in Nat /\ t.to \in Proctors
      BY DEF FeedTypes, TaskRow, Events
    <2>3. UNCHANGED <<scores, fetching>> /\ tasks' = tasks \ {t} /\ Send(t.to, t.event)
      BY <2>1 DEF Emit, serverVars
    <2>4. Len(wire[p]) \in Nat
      BY LenProperties DEF FeedTypes
    <2>5. ASSUME NEW i \in 1..Len(wire[p]), wire[p][i] = e
          PROVE  \E j \in 1..Len(wire'[p]) : wire'[p][j] = e
      <3>1. CASE p = t.to
        <4>1. i \in 1..Len(wire'[p]) /\ wire'[p][i] = e
          BY <2>2, <2>3, <2>4, <2>5, <3>1, SendFacts
        <4> QED BY <4>1
      <3>2. CASE p # t.to
        BY <2>2, <2>3, <2>5, <3>2, SendFacts
      <3> QED BY <3>1, <3>2
    <2>6. ASSUME t.to = p, t.event = e PROVE \E j \in 1..Len(wire'[p]) : wire'[p][j] = e
      <3>1. Len(wire[p]) + 1 \in 1..Len(wire'[p]) /\ wire'[p][Len(wire[p]) + 1] = e
        BY <2>2, <2>3, <2>4, <2>6, SendFacts
      <3> QED BY <3>1
    <2>7. Coming(p, e) => Coming(p, e)'
      BY <2>3, <2>5, <2>6 DEF Coming
    <2> QED BY <1>5, <2>3, <2>7
  <1>9. CASE \E q \in Proctors : Join(q)
    <2>1. PICK q \in Proctors : Join(q)
      BY <1>9
    <2>2. UNCHANGED <<scores, fetching, tasks>> /\ wire'[p] = wire[p]
      <3>1. p # q
        BY <1>0, <2>1 DEF Join
      <3> QED BY <2>1, <3>1, SendFacts DEF Join, Started, serverVars
    <2>3. Coming(p, e) => Coming(p, e)'
      BY <2>2 DEF Coming
    <2> QED BY <1>5, <2>2, <2>3
  <1>10. CASE \E q \in Proctors : AdmitStart(q) \/ ExpelSubscription(q) \/ Grant(q) \/ Revoke(q)
                                 \/ Connect(q)
    <2>1. UNCHANGED <<scores, fetching, tasks, wire>>
      BY <1>10 DEF AdmitStart, ExpelSubscription, Grant, Revoke, Connect, serverVars
    <2>2. Coming(p, e) => Coming(p, e)'
      BY <2>1 DEF Coming
    <2> QED BY <1>5, <2>1, <2>2
  <1> QED BY <1>4, <1>6, <1>7, <1>8, <1>9, <1>10

(* What is on its way to a watching page, the page loses only by asking    *)
(* again, or by saying that it failed.                                     *)
LEMMA CoverPage ==
  ASSUME FeedTypes, HearInv, SocketInv, ScoresInv, ShownInv, CoverInv, Remember, NEW q \in Proctors,
         PageStep(q), ~ Connect(q)
  PROVE  CoverInv'
  <1> SUFFICES ASSUME NEW p \in Proctors, Watching(p)', NEW e \in Events' \ untold'[p]
               PROVE  ListHas(p, e)' /\ ScoreHas(p, e)'
    BY DEF CoverInv
  <1>0. UNCHANGED serverVars /\ e \in Events
    BY DEF PageStep, SelectAttempt, LeavePage, Disconnect, HearStarted, HearEvent, Receive,
         ReadAttempt, ReadEvents, ShowSummary, FailSummary, Retry, Advance, Events, serverVars
  <1>a. e \in untold[p] => page[p].fetch.step = "asked" /\ page'[p].fetch.step = "attempt"
    BY Told
  <1>1. /\ Len(scores) \in Nat /\ scores[e] \in Nat /\ Trust \in Nat /\ Trust <= scores[e]
        /\ UNCHANGED <<scores, fetching>>
    <2>1. Len(scores) \in Nat /\ scores[e] \in Nat /\ Trust \in Nat
      BY <1>0, TrustTypes, ElementOfSeq DEF Trust, Events, FeedTypes
    <2>2. e \in 0..Len(scores) /\ Len(scores) \in 0..Len(scores) /\ e <= Len(scores) /\ e # 0
      BY <1>0, <2>1 DEF Events
    <2>3. Trust <= scores[e]
      BY <2>1, <2>2 DEF ScoresInv, Trust, TrustAfter
    <2> QED BY <1>0, <2>1, <2>3 DEF serverVars
  <1>2. ASSUME Watching(p), page'[p] = page[p], wire'[p] = wire[p],
               \A t \in tasks : t.to = p => t \in tasks'
        PROVE  ListHas(p, e)' /\ ScoreHas(p, e)'
    <2>1. Coming(p, e) => Coming(p, e)'
      BY <1>1, <1>2 DEF Coming
    <2> QED BY <1>0, <1>a, <1>1, <1>2, <2>1, CoverUnchanged DEF CoverInv
  <1>3. CASE LeavePage(q) \/ Disconnect(q)
    <2>1. Cut({q}) /\ \A x \in Proctors \ {q} : page'[x] = page[x]
      BY <1>3 DEF LeavePage, Disconnect, SetPage, NotLive, FeedTypes
    <2>2. p # q
      BY <2>1, CutFacts DEF Watching
    <2>3. /\ wire'[p] = wire[p] /\ p \in room /\ page'[p] = page[p]
          /\ \A t \in tasks : t.to = p => t \in tasks'
      BY <2>1, <2>2, CutFacts DEF Watching
    <2> QED BY <1>2, <2>3 DEF Watching
  <1>4. CASE SelectAttempt(q)
    <2>1. UNCHANGED <<tasks, room, wire>> /\ \A x \in Proctors \ {q} : page'[x] = page[x]
      BY <1>4 DEF SelectAttempt, SetPage, FeedTypes
    <2>2. ~ page'[q].live
      BY <1>4 DEF SelectAttempt, SetPage, FeedTypes
    <2>3. p # q
      BY <2>2 DEF Watching
    <2> QED BY <1>2, <2>1, <2>3 DEF Watching
  <1>5. ASSUME p # q, HearStarted(q) \/ HearEvent(q)
        PROVE  ListHas(p, e)' /\ ScoreHas(p, e)'
    <2>1. Receive(q) /\ page'[p] = page[p]
      BY <1>5 DEF HearStarted, HearEvent, SetPage, FeedTypes
    <2>2. UNCHANGED <<tasks, room>> /\ wire'[p] = wire[p]
      BY <1>5, <2>1, ReceiveFacts DEF Receive
    <2> QED BY <1>2, <2>1, <2>2 DEF Watching
  <1>6. ASSUME p # q,
               \/ ReadAttempt(q) \/ ReadEvents(q) \/ ShowSummary(q) \/ FailSummary(q) \/ Retry(q)
        PROVE  ListHas(p, e)' /\ ScoreHas(p, e)'
    <2>1. PICK r \in PageRow : Advance(q, r)
      BY <1>6, AnswerFacts
    <2>2. UNCHANGED <<tasks, room, wire>> /\ page'[p] = page[p]
      BY <1>6, <2>1 DEF Advance, SetPage, FeedTypes
    <2> QED BY <1>2, <2>2 DEF Watching
  <1>7. CASE p = q /\ HearStarted(p)
    <2>1. page'[p] = Refetch([page[p] EXCEPT !.live = TRUE]) /\ page[p] \in PageRow
      BY <1>7, HeardFacts DEF HearStarted, SetPage, FeedTypes
    <2>2. page'[p].fetch.step = "asked"
      BY <2>1 DEF Refetch, PageRow, Asked
    <2> QED BY <2>2 DEF ListHas, ScoreHas, Coming
  <1>8. CASE p = q /\ HearEvent(p)
    <2> DEFINE m == Head(wire[p])
    <2>1. /\ Receive(p) /\ page'[p] = Merged(page[p], {m}, scores[m]) /\ page[p] \in PageRow
          /\ m \in Events /\ scores[m] \in Nat /\ m = wire[p][1] /\ UNCHANGED <<tasks, room>>
      BY <1>8, HeardFacts, ReceiveFacts DEF HearEvent, Receive, SetPage, FeedTypes
    <2>2. ShownRow(page[p])
      BY <2>1 DEF ShownInv, IsOpen, SocketInv, Receive
    <2> HIDE DEF m
    <2>3. /\ e \in page[p].shown \/ FullAbove(page[p].shown, e) \/ e = m
              => e \in page'[p].shown \/ FullAbove(page'[p].shown, e)
          /\ page[p].trust <= scores[e] \/ e = m => page'[p].trust <= scores[e]
          /\ page'[p].fetch = page[p].fetch
      <3>1. {m} \in SUBSET Events /\ (e = m => scores[m] <= scores[e])
        BY <1>1, <2>1
      <3> QED BY <1>0, <2>1, <2>2, <3>1, CoverMerged
    <2>4. Watching(p)
      <3>1. page[p].live /\ ~ page[p].failed /\ page[p] # None
        <4>1. page'[p].live = page[p].live /\ page'[p].failed = page[p].failed
          <5>1. {m} \in SUBSET Nat
            BY <2>1 DEF Events
          <5>2. /\ Merged(page[p], {m}, scores[m]).live = page[p].live
                /\ Merged(page[p], {m}, scores[m]).failed = page[p].failed
            BY <2>1, <5>1, MergedRow
          <5> QED BY <2>1, <5>2
        <4>2. page[p] # None
          BY <2>1, NoneAssumption
        <4> QED BY <4>1, <4>2 DEF Watching
      <3> QED BY <2>1, <3>1 DEF Watching
    <2>5. Coming(p, e) => Coming(p, e)' \/ e = m
      <3>1. ASSUME NEW i \in 1..Len(wire[p]), wire[p][i] = e, e # m
            PROVE  \E j \in 1..Len(wire'[p]) : wire'[p][j] = e
        <4>1. i - 1 \in 1..Len(wire'[p]) /\ wire'[p][i - 1] = wire[p][i]
          <5>1. i # 1
            BY <2>1, <3>1
          <5>2. Len(wire'[p]) = Len(wire[p]) - 1 /\ Len(wire[p]) \in Nat
            BY <2>1, ReceiveFacts
          <5>3. i - 1 \in 1..Len(wire'[p]) /\ (i - 1) + 1 = i
            BY <3>1, <5>1, <5>2
          <5> QED BY <2>1, <5>3, ReceiveFacts
        <4> QED BY <3>1, <4>1
      <3> QED BY <1>1, <2>1, <2>3, <3>1 DEF Coming
    <2>6. ListHas(p, e) /\ ScoreHas(p, e)
      BY <1>0, <1>a, <2>3, <2>4 DEF CoverInv
    <2> QED BY <1>1, <2>3, <2>5, <2>6 DEF ListHas, ScoreHas, FullAbove, Newer
  <1>9. CASE p = q /\ (ReadAttempt(p) \/ ReadEvents(p) \/ ShowSummary(p) \/ FailSummary(p) \/ Retry(p))
    <2>1. /\ page[p] \in PageRow /\ page[p] # None /\ ShownRow(page[p])
          /\ UNCHANGED <<tasks, room, start, wire>>
      <3>1. UNCHANGED <<tasks, room, start, wire>>
        BY <1>9 DEF ReadAttempt, ReadEvents, ShowSummary, FailSummary, Retry, Advance
      <3> QED BY <1>9, <3>1, AnswerFacts DEF ShownInv, IsOpen
    <2>2. CASE Retry(p)
      <3>1. page'[p].fetch.step = "asked"
        BY <2>1, <2>2 DEF Retry, Advance, SetPage, Refetch, Asked, FeedTypes, PageRow
      <3> QED BY <3>1 DEF ListHas, ScoreHas, Coming
    <2>3. CASE FailSummary(p)
      <3>1. page'[p].failed
        BY <2>1, <2>3 DEF FailSummary, Advance, SetPage, FeedTypes, PageRow
      <3> QED BY <3>1 DEF Watching
    <2>4. CASE ReadAttempt(p)
      <3>1. page'[p].fetch = [step |-> "attempt", score |-> Trust]
        BY <2>1, <2>4 DEF ReadAttempt, Advance, SetPage, FeedTypes, PageRow
      <3> QED BY <1>1, <3>1 DEF ListHas, ScoreHas
    <2>5. CASE ReadEvents(p)
      <3>1. /\ page'[p].fetch = [step |-> "events", score |-> page[p].fetch.score, events |-> Events]
            /\ page'[p].trust = page[p].trust /\ page[p].fetch.step = "attempt"
            /\ page'[p].live = page[p].live /\ page'[p].failed = page[p].failed
        BY <2>1, <2>5 DEF ReadEvents, Fetching, Advance, SetPage, FeedTypes, PageRow
      <3>2. ScoreHas(p, e)
        BY <1>0, <1>a, <2>1, <3>1 DEF CoverInv, Watching
      <3>3. Coming(p, e) => Coming(p, e)'
        BY <1>1, <2>1, <3>1 DEF Coming
      <3>4. ScoreHas(p, e)'
        BY <1>1, <3>1, <3>2, <3>3 DEF ScoreHas
      <3>5. ListHas(p, e)'
        BY <1>0, <3>1 DEF ListHas
      <3> QED BY <3>4, <3>5
    <2>6. CASE ShowSummary(p)
      <3> DEFINE r == [page[p] EXCEPT !.fetch = NoRequest]
                 X == page[p].fetch.events
                 x == page[p].fetch.score
      <3>1. page'[p] = Merged(r, X, x) /\ page[p].fetch.step = "events"
        BY <2>1, <2>6 DEF ShowSummary, Fetching, Advance, SetPage, FeedTypes
      <3>2. X \in SUBSET Events /\ x \in Nat
        BY <2>1, <3>1 DEF ShownRow, PageRow, Fetch, NoRequest, Asked
      <3>3. r \in PageRow /\ ShownRow(r)
        BY <2>1 DEF ShownRow, PageRow, Fetch, NoRequest
      <3>4. /\ r.shown = page[p].shown /\ r.trust = page[p].trust /\ r.live = page[p].live
            /\ r.failed = page[p].failed
        BY <2>1 DEF PageRow
      <3> HIDE DEF r
      <3>5. Watching(p)
        <4>1. X \in SUBSET Nat
          BY <3>2 DEF Events
        <4>2. page'[p].live = page[p].live /\ page'[p].failed = page[p].failed
          <5>1. Merged(r, X, x).live = r.live /\ Merged(r, X, x).failed = r.failed
            BY <3>2, <3>3, <4>1, MergedRow
          <5> QED BY <3>1, <3>4, <5>1
        <4> QED BY <2>1, <4>2 DEF Watching
      <3>6. ListHas(p, e) /\ ScoreHas(p, e)
        BY <1>0, <1>a, <3>1, <3>5 DEF CoverInv
      <3>7. Coming(p, e) => Coming(p, e)'
        BY <1>1, <2>1, <3>1 DEF Coming
      <3>8. /\ e \in r.shown \/ FullAbove(r.shown, e) \/ e \in X
                => e \in page'[p].shown \/ FullAbove(page'[p].shown, e)
            /\ r.trust <= scores[e] \/ x <= scores[e] => page'[p].trust <= scores[e]
        BY <1>0, <3>1, <3>2, <3>3, CoverMerged
      <3>9. ListHas(p, e)'
        BY <1>1, <3>1, <3>4, <3>6, <3>7, <3>8 DEF ListHas, FullAbove, Newer
      <3>10. ScoreHas(p, e)'
        BY <1>1, <3>1, <3>4, <3>6, <3>7, <3>8 DEF ScoreHas
      <3> QED BY <3>9, <3>10
    <2> QED BY <1>9, <2>2, <2>3, <2>4, <2>5, <2>6
  <1> QED BY <1>3, <1>4, <1>5, <1>6, <1>7, <1>8, <1>9 DEF PageStep

(* Every step keeps watching pages covered.                                *)
LEMMA CoverKept ==
  ASSUME FeedTypes, HearInv, SocketInv, ScoresInv, ShownInv, CoverInv, Next
  PROVE  CoverInv'
  <1>1. CASE Crash
    BY <1>1, CutFacts DEF Crash, CoverInv, Watching
  <1>2. CASE \E p \in Proctors : PageStep(p) /\ ~ Connect(p)
    BY <1>2, CoverPage DEF Next
  <1>3. CASE \/ \E d \in Deductions : RecordEvent(d) \/ RecordUnheard(d)
             \/ \E e \in fetching : FetchSockets(e)
             \/ \E t \in tasks : CheckRecipient(t) \/ ExpelRecipient(t) \/ Emit(t)
             \/ \E p \in Proctors :
                   \/ AdmitStart(p) \/ Join(p) \/ ExpelSubscription(p) \/ Grant(p) \/ Revoke(p)
                   \/ Connect(p)
    <2>1. UNCHANGED page
      BY <1>3 DEF Record, RecordEvent, RecordUnheard, FetchSockets, CheckRecipient, ExpelRecipient,
           Emit, AdmitStart, Join, ExpelSubscription, Grant, Revoke, Connect
    <2> QED BY <1>3, <2>1, CoverServer DEF Next
  <1> QED BY <1>1, <1>2, <1>3 DEF Next, FeedNext

(* The invariant holds in every reachable state.                           *)
LEMMA FeedInvariant == Spec => []FeedInv
  <1>1. FeedInv /\ [Next]_vars => FeedInv'
    <2> SUFFICES ASSUME FeedInv, [Next]_vars PROVE FeedInv'
      OBVIOUS
    <2>1. CASE Next
      <3>1. FeedTypes /\ HearInv /\ SocketInv /\ ScoresInv /\ ShownInv /\ CoverInv /\ FeedNext
        BY <2>1 DEF FeedInv, Next
      <3>2. FeedTypes'
        BY <2>1, <3>1, FeedTypesKept
      <3> QED BY <2>1, <3>1, <3>2, HearKept, SocketKept, ScoresKept, ShownKept, CoverKept
              DEF FeedInv
    <2>2. CASE UNCHANGED vars
      <3> USE <2>2 DEF vars, FeedInv
      <3>1. FeedTypes' /\ HearInv' /\ SocketInv'
        BY DEF FeedTypes, TaskRow, Events, HearInv, SocketInv
      <3>2. ScoresInv'
        BY DEF ScoresInv, TrustAfter
      <3>3. ShownInv'
        BY DEF ShownInv, IsOpen, ShownRow, Events, Trust, TrustAfter
      <3>4. ASSUME NEW p \in Proctors, Watching(p)', NEW e \in Events' \ untold'[p]
            PROVE  ListHas(p, e)' /\ ScoreHas(p, e)'
        <4>1. Watching(p) /\ e \in Events \ untold[p]
          BY <3>4 DEF Watching, Events
        <4>2. Coming(p, e) => Coming(p, e)'
          BY DEF Coming
        <4> QED BY <4>1, <4>2, CoverUnchanged DEF CoverInv
      <3> QED BY <3>1, <3>2, <3>3, <3>4 DEF CoverInv
    <2> QED BY <2>1, <2>2
  <1> QED BY InitFeed, <1>1, PTL DEF Spec

-----------------------------------------------------------------------------
(* RevokedHearNothing: an event recorded after a proctor lost access, and  *)
(* never got it back, is not sent to the socket that is still in the room: *)
(* emitToSession checks each recipient again, and whatever happens between *)
(* the check and the message, the event was recorded before the check.     *)
THEOREM RevokedAreNotTold == Spec => []RevokedHearNothing
  <1>1. FeedInv => RevokedHearNothing
    BY DEF FeedInv, HearInv, RevokedHearNothing
  <1> QED BY <1>1, FeedInvariant, PTL

(* FeedIsComplete: a live page in the room, whose summary has been shown   *)
(* and with nothing on its way to it, lacks no event and no deduction but  *)
(* those whose commit was reported as failed since it last asked, in       *)
(* whatever order the fetch, the events, reconnections, crashes and the    *)
(* changes of access came (handleStart, mergeProctorEvents).               *)
THEOREM FeedComplete == Spec => []FeedIsComplete
  <1>1. FeedInv => FeedIsComplete
    <2> SUFFICES ASSUME FeedInv, NEW p \in room, page[p] # None, page[p].live, ~ page[p].failed,
                        page[p].fetch = NoRequest, Delivered(p), NEW K, K = Events \ untold[p]
                 PROVE  /\ page[p].shown = Newest(page[p].shown \cup K)
                        /\ page[p].shown \subseteq Events
                        /\ \A n \in {0} \cup K : page[p].trust <= TrustAfter(n)
                        /\ Trust <= page[p].trust
      BY DEF FeedIsComplete
    <2>1. p \in Proctors /\ Watching(p) /\ ShownRow(page[p])
      BY DEF FeedInv, FeedTypes, Watching, ShownInv, IsOpen
    <2>2. Len(scores) \in Nat
      BY TrustTypes DEF FeedInv
    <2>3. page[p].fetch.step = "none"
      BY DEF NoRequest
    <2>4. ASSUME NEW e \in Events PROVE ~ Coming(p, e)
      BY <2>1, <2>3 DEF Coming, Delivered, FeedInv, FeedTypes
    <2>5. \A e \in K : /\ e \in page[p].shown \/ FullAbove(page[p].shown, e)
                      /\ page[p].trust <= scores[e]
      BY <2>1, <2>3, <2>4 DEF FeedInv, CoverInv, ListHas, ScoreHas
    <2>6. page[p].shown = Newest(page[p].shown \cup K)
      <3>1. /\ page[p].shown \in SUBSET (1..Len(scores)) /\ K \in SUBSET (1..Len(scores))
            /\ \A e \in page[p].shown : ~ FullAbove(page[p].shown, e)
            /\ \A e \in K : e \in page[p].shown \/ FullAbove(page[p].shown, e)
        BY <2>1, <2>5 DEF ShownRow, Events
      <3> QED BY <2>2, <3>1, CompleteIsNewest
    <2>7. \A n \in {0} \cup K : page[p].trust <= TrustAfter(n)
      BY <2>1, <2>2, <2>5 DEF ShownRow, TrustAfter, Events
    <2> QED BY <2>1, <2>6, <2>7 DEF ShownRow
  <1> QED BY <1>1, FeedInvariant, PTL
=============================================================================
