------------------------------ MODULE ProctorFeed ------------------------------
(***************************************************************************)
(* Events of one running attempt on their way to the proctors who watch    *)
(* it: recordEvent and the socket gateway (backend/src/proctor), and the   *)
(* proctor page with its merge functions (frontend/src/app/dashboard/      *)
(* proctor/page.tsx, lib/proctor-feed.ts).  One page per proctor.  An      *)
(* event is its position in the order of the serializable transactions;    *)
(* the per-minute limit and the limiter only refuse events and are left    *)
(* out.  entitled stands for a proctor with a valid session, the role and  *)
(* the assignment; the two reads of one delivery check are one step.       *)
(***************************************************************************)
EXTENDS Naturals, Sequences, FiniteSets

CONSTANTS
  Proctors,
  Deductions,    \* TRUST_SCORE_DEDUCTIONS of the event types
  FullTrust,     \* the score an attempt starts with
  MaxEvents,     \* MAX_PROCTOR_EVENTS
  ShownEvents,   \* how many events the page keeps
  MaxWire,       \* bound: messages on their way to a page
  None

ASSUME FeedAssumption ==
  /\ Deductions \subseteq Nat /\ FullTrust \in Nat
  /\ MaxEvents \in Nat /\ ShownEvents \in Nat \ {0} /\ MaxWire \in Nat \ {0}

VARIABLES
  scores,        \* trust score after each recorded event
  entitled,      \* proctors who may see the attempt now
  since,         \* for each event, who has been entitled since it was recorded
  fetching,      \* recorded events whose recipients are not yet looked up
  tasks,         \* deliveries: event, recipient, checked or not
  room,          \* sockets in the room of the attempt
  start,         \* progress of each socket's proctor:start
  wire,          \* messages from the gateway to each page, in order
  page,          \* what each page holds, or None
  untold         \* history: what was recorded unheard since a page last asked

serverVars == <<scores, entitled, since, fetching>>
vars == <<scores, entitled, since, fetching, tasks, room, start, wire, page, untold>>

Events == 1..Len(scores)
Started == 0   \* the proctor:started message; an event travels as its number
Lowest(s, t) == IF s < t THEN s ELSE t
TrustAfter(n) == IF n = 0 THEN FullTrust ELSE scores[n]
Trust == TrustAfter(Len(scores))

NoRequest == [step |-> "none"]
Asked == [step |-> "asked"]

\* Where a request for the summary is, and what a page holds.
Fetch == {NoRequest, Asked} \cup [step : {"attempt"}, score : Nat]
           \cup [step : {"events"}, score : Nat, events : SUBSET Nat]
PageRow == [live : BOOLEAN, failed : BOOLEAN, shown : SUBSET Nat, trust : Nat, fetch : Fetch]

ASSUME NoneAssumption == None \notin PageRow

\* mergeProctorEvents: the newest of both lists.
Newest(S) == {e \in S : Cardinality({f \in S : f > e}) < ShownEvents}

\* Mutant: the answer that comes last is believed.
LastScore(current, incoming) == incoming

\* mergeProctorSignals.
MergeSignals(current, incoming) == Lowest(current, incoming)

Init ==
  /\ scores = <<>> /\ since = <<>>
  /\ entitled = {}
  /\ fetching = {} /\ tasks = {} /\ room = {}
  /\ start = [p \in Proctors |-> "off"]
  /\ wire = [p \in Proctors |-> <<>>]
  /\ page = [p \in Proctors |-> None]
  /\ untold = [p \in Proctors |-> {}]

-----------------------------------------------------------------------------
(* The service and the gateway.                                            *)

Record(deduction) ==
  /\ Len(scores) < MaxEvents
  /\ scores' = Append(scores, IF Trust < deduction THEN 0 ELSE Trust - deduction)
  /\ since' = Append(since, entitled)
  /\ UNCHANGED <<entitled, tasks, room, start, wire, page>>

RecordEvent(deduction) ==
  /\ Record(deduction)
  /\ fetching' = fetching \cup {Len(scores) + 1}

\* The commit took place and is reported as failed: serializable throws, and
\* handleEvent does not get as far as emitToSession.
RecordUnheard(deduction) ==
  /\ Record(deduction)
  /\ UNCHANGED fetching

\* emitToSession: the recipients are looked up once ...
FetchSockets(e) ==
  /\ e \in fetching
  /\ fetching' = fetching \ {e}
  /\ tasks' = tasks \cup {[event |-> e, to |-> p, checked |-> FALSE] : p \in room}
  /\ UNCHANGED <<scores, entitled, since, room, start, wire, page>>

\* Mutant: whoever is in the room may listen.
MayHearInRoom(p) == TRUE

MayHear(p) == p \in entitled

\* ... and each is checked before it is served.
CheckRecipient(t) ==
  /\ t \in tasks /\ ~ t.checked
  /\ MayHear(t.to)
  /\ tasks' = (tasks \ {t}) \cup {[t EXCEPT !.checked = TRUE]}
  /\ UNCHANGED <<serverVars, room, start, wire, page>>

\* Access is gone, or the database does not answer: the page is not told.
ExpelRecipient(t) ==
  /\ t \in tasks /\ ~ t.checked
  /\ tasks' = tasks \ {t}
  /\ room' = room \ {t.to}
  /\ UNCHANGED <<serverVars, start, wire, page>>

Send(p, message) ==
  /\ Len(wire[p]) < MaxWire
  /\ wire' = [wire EXCEPT ![p] = Append(@, message)]

Emit(t) ==
  /\ t \in tasks /\ t.checked
  /\ tasks' = tasks \ {t}
  /\ Send(t.to, t.event)
  /\ UNCHANGED <<serverVars, room, start, page>>

\* handleStart checks access, then subscribes and joins.
AdmitStart(p) ==
  /\ start[p] = "asked"
  /\ start' = [start EXCEPT ![p] = IF p \in entitled THEN "admitted" ELSE "on"]
  /\ UNCHANGED <<serverVars, tasks, room, wire, page>>

Join(p) ==
  /\ start[p] = "admitted"
  /\ start' = [start EXCEPT ![p] = "on"]
  /\ room' = room \cup {p}
  /\ Send(p, Started)
  /\ UNCHANGED <<serverVars, tasks, page>>

\* The repeated authenticate drops a subscription it cannot confirm.
ExpelSubscription(p) ==
  /\ p \in room
  /\ room' = room \ {p}
  /\ UNCHANGED <<serverVars, tasks, start, wire, page>>

Grant(p) ==
  /\ p \notin entitled
  /\ entitled' = entitled \cup {p}
  /\ since' = [e \in Events |-> since[e] \cup {p}]
  /\ UNCHANGED <<scores, fetching, tasks, room, start, wire, page>>

Revoke(p) ==
  /\ p \in entitled
  /\ entitled' = entitled \ {p}
  /\ UNCHANGED <<scores, since, fetching, tasks, room, start, wire, page>>

-----------------------------------------------------------------------------
(* The page.                                                               *)

SetPage(p, state) == page' = [page EXCEPT ![p] = state]
Refetch(state) == [state EXCEPT !.fetch = Asked, !.failed = FALSE]
Merged(state, events, score) ==
  [state EXCEPT !.shown = Newest(@ \cup events), !.trust = MergeSignals(@, score)]

\* The list was read some time ago; selecting an attempt asks for its events.
SelectAttempt(p) ==
  /\ page[p] = None
  /\ \E n \in 0..Len(scores) :
       SetPage(p, [live |-> FALSE, failed |-> FALSE, shown |-> {},
                   trust |-> TrustAfter(n), fetch |-> Asked])
  /\ UNCHANGED <<serverVars, tasks, room, start, wire>>

Connect(p) ==
  /\ page[p] # None /\ start[p] = "off"
  /\ start' = [start EXCEPT ![p] = "asked"]
  /\ UNCHANGED <<serverVars, tasks, room, wire, page>>

\* The socket is gone: its room, its deliveries and what was on the wire.
Cut(gone) ==
  /\ tasks' = {t \in tasks : t.to \notin gone}
  /\ room' = room \ gone
  /\ start' = [p \in Proctors |-> IF p \in gone THEN "off" ELSE start[p]]
  /\ wire' = [p \in Proctors |-> IF p \in gone THEN <<>> ELSE wire[p]]

NotLive(gone) ==
  [p \in Proctors |-> IF p \in gone /\ page[p] # None
                        THEN [page[p] EXCEPT !.live = FALSE] ELSE page[p]]

Disconnect(p) ==
  /\ start[p] # "off"
  /\ Cut({p})
  /\ page' = NotLive({p})
  /\ UNCHANGED serverVars

LeavePage(p) ==
  /\ page[p] # None
  /\ Cut({p})
  /\ SetPage(p, None)
  /\ UNCHANGED serverVars

\* The server process dies: deliveries are forgotten, every socket is cut.
Crash ==
  /\ fetching # {} \/ \E p \in Proctors : start[p] # "off"
  /\ fetching' = {}
  /\ Cut(Proctors)
  /\ page' = NotLive(Proctors)
  /\ UNCHANGED <<scores, entitled, since>>

Receive(p) ==
  /\ wire[p] # <<>>
  /\ wire' = [wire EXCEPT ![p] = Tail(@)]
  /\ UNCHANGED <<serverVars, tasks, room, start>>

\* Fetch after joining, to recover what was missed.
HearStarted(p) ==
  /\ Receive(p)
  /\ Head(wire[p]) = Started
  /\ SetPage(p, Refetch([page[p] EXCEPT !.live = TRUE]))

HearEvent(p) ==
  /\ Receive(p)
  /\ Head(wire[p]) # Started
  /\ SetPage(p, Merged(page[p], {Head(wire[p])}, scores[Head(wire[p])]))

Fetching(p, step) == page[p] # None /\ page[p].fetch.step = step

Advance(p, state) ==
  /\ SetPage(p, state)
  /\ UNCHANGED <<serverVars, tasks, room, start, wire>>

\* getSessionSummary reads the attempt and then its events.
ReadAttempt(p) ==
  /\ Fetching(p, "asked")
  /\ p \in entitled
  /\ Advance(p, [page[p] EXCEPT !.fetch = [step |-> "attempt", score |-> Trust]])

ReadEvents(p) ==
  /\ Fetching(p, "attempt")
  /\ Advance(p, [page[p] EXCEPT !.fetch =
                   [step |-> "events", score |-> @.score, events |-> Events]])

ShowSummary(p) ==
  /\ Fetching(p, "events")
  /\ Advance(p, LET answer == page[p].fetch
                IN Merged([page[p] EXCEPT !.fetch = NoRequest],
                          answer.events, answer.score))

FailSummary(p) ==
  /\ page[p] # None /\ page[p].fetch # NoRequest
  /\ Advance(p, [page[p] EXCEPT !.fetch = NoRequest, !.failed = TRUE])

Retry(p) ==
  /\ page[p] # None /\ page[p].failed
  /\ Advance(p, Refetch(page[p]))

-----------------------------------------------------------------------------
PageStep(p) ==
  \/ SelectAttempt(p) \/ LeavePage(p) \/ Connect(p) \/ Disconnect(p)
  \/ HearStarted(p) \/ HearEvent(p)
  \/ ReadAttempt(p) \/ ReadEvents(p) \/ ShowSummary(p) \/ FailSummary(p)
  \/ Retry(p)

FeedNext ==
  \/ \E d \in Deductions : RecordEvent(d) \/ RecordUnheard(d)
  \/ \E e \in fetching : FetchSockets(e)
  \/ \E t \in tasks : CheckRecipient(t) \/ ExpelRecipient(t) \/ Emit(t)
  \/ \E p \in Proctors :
       \/ AdmitStart(p) \/ Join(p) \/ ExpelSubscription(p)
       \/ Grant(p) \/ Revoke(p) \/ PageStep(p)
  \/ Crash

\* Only the property looks at the history.
Remember ==
  untold' = [p \in Proctors |->
               IF ReadAttempt(p) THEN {}
                                 ELSE untold[p] \cup (Events' \ (Events \cup fetching'))]

Next == FeedNext /\ Remember

Spec == Init /\ [][Next]_vars

-----------------------------------------------------------------------------
Delivered(p) ==
  fetching = {} /\ wire[p] = <<>> /\ \A t \in tasks : t.to # p

\* A live page in the room whose summary has been shown, with nothing on its
\* way to it, lacks no event and no deduction but those recorded unheard since
\* it last asked (none: it shows the newest events and the true score), whatever
\* was recorded before, while and after it joined or reconnected, in any order
\* of answers; and it never shows a lower score than the true one.
FeedIsComplete ==
  \A p \in room :
    page[p] # None /\ page[p].live /\ ~ page[p].failed
      /\ page[p].fetch = NoRequest /\ Delivered(p)
      => LET told == Events \ untold[p]
         IN  /\ page[p].shown = Newest(page[p].shown \cup told)
             /\ page[p].shown \subseteq Events
             /\ \A n \in {0} \cup told : page[p].trust <= TrustAfter(n)
             /\ Trust <= page[p].trust

\* An event recorded after a proctor lost access, and never got it back, is
\* not sent to the socket that is still in the room.
RevokedHearNothing ==
  \A p \in Proctors : \A i \in 1..Len(wire[p]) :
    wire[p][i] # Started => p \in since[wire[p][i]]
=============================================================================
