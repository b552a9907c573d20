-------------------------------- MODULE Recorder --------------------------------
(***************************************************************************)
(* The exam page's recorder (frontend/src/lib/durable-recording.ts,        *)
(* recording-store.ts, recording-upload.ts, app/dashboard/exam/[examId]/   *)
(* page.tsx): one student, one exam, one kind of recording, several tabs.  *)
(* What MediaRecorder delivers goes from memory to IndexedDB and from      *)
(* there to the server, by two queues that run side by side.               *)
(*                                                                         *)
(* A request that was given up may still be executed later.  The server is *)
(* what RecordingUpload promises: one lease, one result, closed for good.  *)
(* Chunks are their indices: the bytes of an index never change.           *)
(***************************************************************************)
EXTENDS Naturals, FiniteSets, FiniteSetsExt

CONSTANTS
  Tabs,      \* tabs of the browser
  Sessions,  \* recording sessions (clientSessionId), used in any order
  MaxBlobs,  \* bound: blobs MediaRecorder delivers in a session
  MaxRuns,   \* bound: runs of MediaRecorder
  MaxLate,   \* bound: given-up requests still on their way
  None       \* no tab, no writer, no answer

ASSUME LockAssumption == None \notin Tabs

VARIABLES
  local,     \* local[s]: the IndexedDB rows of session s
  captured,  \* captured[s]: blobs delivered, and whether capture had a gap
  server,    \* server[s]: the RecordingUpload of session s
  net,       \* requests that may still be executed
  lock,      \* the tab that holds the exam's Web Lock
  page       \* page[t]: the exam page in tab t and its writer

vars == <<local, captured, server, net, lock, page>>

NoRow == [state |-> "none"]
NoUpload == [state |-> "NONE", chunks |-> {}, expected |-> 0, interrupted |-> FALSE, lease |-> FALSE]

Exists(s) == local[s] # NoRow
Listed(s) == Exists(s) /\ local[s].state \notin {"complete", "superseded"}
Used(s) == Exists(s) \/ server[s] # NoUpload

(* rec: MediaRecorder; buf: blobs in memory; stuck, blocked: storageBlocked *)
(* and networkBlocked; cut: interruptedCapture; want: an upload is asked   *)
(* for; pc, snap, ask, ans: where uploadLoop is, what it read, its request *)
(* and the answer.                                                         *)
Writer(s, rec) ==
  [s |-> s, rec |-> rec, buf |-> 0, sealed |-> FALSE, stuck |-> FALSE, cut |-> FALSE,
   finishing |-> FALSE, want |-> FALSE, blocked |-> FALSE, code |-> "none",
   pc |-> "idle", snap |-> NoRow, ask |-> None, ans |-> None]

Closed == [mode |-> "closed"]
Opened(w) == [mode |-> "open", w |-> w]

Init ==
  /\ local = [s \in Sessions |-> NoRow]
  /\ captured = [s \in Sessions |-> [blobs |-> 0, gap |-> FALSE]]
  /\ server = [s \in Sessions |-> NoUpload]
  /\ net = {}
  /\ lock = None
  /\ page = [t \in Tabs |-> Closed]

W(t) == page[t].w
Open(t) == page[t] # Closed
Row(t) == local[W(t).s]
Becomes(t, w) == page' = [page EXCEPT ![t].w = w]
Save(s, row) == local' = [local EXCEPT ![s] = row]

-----------------------------------------------------------------------------
(* The page, from the moment it has a writer and the lock *)

MayLock(t) == lock \in {None, t}

(* begin: a new session for every run of MediaRecorder *)
Begin(t, s) ==
  /\ page[t] = Closed
  /\ MayLock(t)
  /\ ~ Used(s)
  /\ Cardinality({ x \in Sessions : Exists(x) /\ local[x].root = x }) < MaxRuns
  /\ lock' = t
  /\ Save(s, [state |-> "recording", interrupted |-> FALSE, next |-> 0, root |-> s,
              rows |-> {}, sent |-> {}])
  /\ page' = [page EXCEPT ![t] = Opened(Writer(s, "on"))]
  /\ UNCHANGED <<captured, server, net>>

(* recoverRecording, of a session the page found when it was opened *)
Recover(t, s) ==
  /\ page[t] = Closed
  /\ MayLock(t)
  /\ Listed(s)
  /\ lock' = t
  /\ page' = [page EXCEPT ![t] = Opened(
       [Writer(s, "off") EXCEPT !.sealed = TRUE, !.finishing = TRUE,
                               !.cut = local[s].state = "recording" \/ local[s].interrupted])]
  /\ UNCHANGED <<local, captured, server, net>>

(* ondataavailable, append *)
Capture(t) ==
  /\ Open(t)
  /\ W(t).rec \in {"on", "stopping"}
  /\ captured[W(t).s].blobs < MaxBlobs
  /\ captured' = [captured EXCEPT ![W(t).s].blobs = @ + 1]
  /\ IF W(t).sealed \/ page[t].mode = "disposed"
     THEN UNCHANGED page
     ELSE Becomes(t, [W(t) EXCEPT !.buf = @ + 1, !.stuck = FALSE])
  /\ UNCHANGED <<local, server, net, lock>>

(* The screen or the camera goes away, or MediaRecorder fails.  The note   *)
(* markInterrupted makes of it may itself fail.                            *)
CaptureEnds(t) ==
  /\ Open(t) /\ W(t).rec = "on"
  /\ captured' = [captured EXCEPT ![W(t).s].gap = TRUE]
  /\ Becomes(t, [W(t) EXCEPT !.rec = "stopping", !.cut = TRUE])
  /\ \/ Save(W(t).s, [Row(t) EXCEPT !.interrupted = TRUE])
     \/ UNCHANGED local
  /\ UNCHANGED <<server, net, lock>>

(* Submitting, or the end of the time, stops the recorder. *)
Stop(t) ==
  /\ Open(t) /\ W(t).rec \in {"on", "paused"}
  /\ Becomes(t, [W(t) EXCEPT !.rec = "stopping"])
  /\ UNCHANGED <<local, captured, server, net, lock>>

Stopped(t) ==
  /\ Open(t) /\ W(t).rec = "stopping"
  /\ Becomes(t, [W(t) EXCEPT !.rec = "off"])
  /\ UNCHANGED <<local, captured, server, net, lock>>

IsStopping(t) == W(t).rec \in {"stopping", "off"}  \* mutant: does not wait for the last blob

HasStopped(t) == W(t).rec = "off"

(* uploadRecordings: finish seals the writer once the recorder has stopped *)
Finish(t) ==
  /\ Open(t) /\ page[t].mode = "open"
  /\ HasStopped(t)
  /\ ~ W(t).finishing
  /\ Becomes(t, [W(t) EXCEPT !.sealed = TRUE, !.finishing = TRUE, !.stuck = FALSE])
  /\ UNCHANGED <<local, captured, server, net, lock>>

(* Leaving the page: stop, save what is in memory ... *)
Leave(t) ==
  /\ page[t].mode = "open"
  /\ page' = [page EXCEPT ![t].mode = "leaving", ![t].w.stuck = FALSE,
                          ![t].w.rec = IF @ = "off" THEN @ ELSE "stopping"]
  /\ UNCHANGED <<local, captured, server, net, lock>>

(* ... note that the recording was cut short, unless memory could not be   *)
(* saved; the recorder may be slower than this waits ...                   *)
LeaveWriter(t) ==
  /\ page[t].mode = "leaving"
  /\ page' = [page EXCEPT ![t].mode = "disposed"]
  /\ IF Row(t).state = "complete" \/ W(t).stuck
     THEN UNCHANGED local
     ELSE /\ W(t).buf = 0
          /\ Save(W(t).s, [Row(t) EXCEPT !.state = "pending", !.interrupted = TRUE])
  /\ UNCHANGED <<captured, server, net, lock>>

(* ... and let go of the lock when both queues are done. *)
ClosePage(t) ==
  /\ page[t].mode = "disposed"
  /\ W(t).pc = "idle"
  /\ page' = [page EXCEPT ![t] = Closed]
  /\ lock' = IF lock = t THEN None ELSE lock
  /\ UNCHANGED <<local, captured, server, net>>

(* The tab is killed: what is in memory is lost, the lock is free. *)
Crash(t) ==
  /\ Open(t)
  /\ Cardinality(net) <= MaxLate
  /\ page' = [page EXCEPT ![t] = Closed]
  /\ lock' = IF lock = t THEN None ELSE lock
  /\ UNCHANGED <<local, captured, server, net>>

-----------------------------------------------------------------------------
(* From memory to IndexedDB: the chunk and its number in one transaction *)

Persist(t) ==
  /\ Open(t) /\ page[t].mode # "disposed"
  /\ W(t).buf > 0 /\ ~ W(t).stuck
  /\ LET i == Row(t).next IN
     Save(W(t).s, [Row(t) EXCEPT !.next = i + 1, !.rows = @ \cup {i}])
  /\ Becomes(t, [W(t) EXCEPT !.buf = @ - 1, !.want = @ \/ ~ W(t).blocked,
                             !.rec = IF @ = "paused" THEN "on" ELSE @])
  /\ UNCHANGED <<captured, server, net, lock>>

(* The disk is full, or memory is: the recorder pauses. *)
PersistFails(t) ==
  /\ Open(t) /\ page[t].mode # "disposed"
  /\ W(t).buf > 0 /\ ~ W(t).stuck
  /\ LET pauses == W(t).rec = "on" IN
     /\ Becomes(t, [W(t) EXCEPT !.stuck = TRUE, !.finishing = FALSE, !.cut = TRUE,
                                !.rec = IF pauses THEN "paused" ELSE @])
     /\ captured' = [captured EXCEPT ![W(t).s].gap = @ \/ pauses]
  /\ \/ Save(W(t).s, [Row(t) EXCEPT !.interrupted = TRUE])
     \/ UNCHANGED local
  /\ UNCHANGED <<server, net, lock>>

(* finishSession, once memory is saved: the session is pending, upload it *)
MarkPending(t) ==
  /\ Open(t) /\ page[t].mode # "disposed"
  /\ W(t).finishing /\ W(t).buf = 0
  /\ Row(t).state # "complete"
  /\ Save(W(t).s, [Row(t) EXCEPT !.state = "pending", !.interrupted = @ \/ W(t).cut])
  /\ Becomes(t, [W(t) EXCEPT !.finishing = FALSE, !.blocked = FALSE, !.want = TRUE])
  /\ UNCHANGED <<captured, server, net, lock>>

(* retry: a timer, the browser back online, the student *)
Retry(t) ==
  /\ Open(t) /\ page[t].mode # "disposed"
  /\ W(t).blocked \/ W(t).stuck
  /\ Becomes(t, [W(t) EXCEPT !.blocked = FALSE, !.stuck = FALSE, !.want = TRUE,
                             !.code = "none"])
  /\ UNCHANGED <<local, captured, server, net, lock>>

-----------------------------------------------------------------------------
(* From IndexedDB to the server: uploadLoop *)

Loop(t) == Open(t) /\ W(t).pc # "idle"
Answered(t, pc) == Loop(t) /\ W(t).pc = pc /\ W(t).ans # None
Ask(t, w, pc, r) ==
  /\ Becomes(t, [w EXCEPT !.pc = pc, !.ask = r, !.ans = None])
  /\ net' = net \cup {r}
Request(op, s, arg, flag) == [op |-> op, s |-> s, arg |-> arg, flag |-> flag]
AskFinish(t, w) == Ask(t, w, "finish", Request("finish", w.s, w.snap.next, w.snap.interrupted))

Read(row) == [state |-> row.state, interrupted |-> row.interrupted, next |-> row.next]
Stops(w, code) == [w EXCEPT !.pc = "idle", !.blocked = TRUE, !.code = code, !.snap = NoRow,
                          !.ask = None, !.ans = None]
Onwards(w) == [w EXCEPT !.pc = "next", !.ask = None, !.ans = None]
Rests(w) == [w EXCEPT !.pc = "idle", !.snap = NoRow, !.ask = None, !.ans = None]

ReadRow(t) ==
  /\ Open(t) /\ W(t).pc = "idle"
  /\ W(t).want /\ ~ W(t).blocked /\ page[t].mode # "disposed"
  /\ IF Row(t).state = "complete"
     THEN Becomes(t, [W(t) EXCEPT !.want = FALSE]) /\ UNCHANGED net
     ELSE Ask(t, [W(t) EXCEPT !.want = FALSE, !.snap = Read(Row(t))], "init",
              Request("init", W(t).s, 0, FALSE))
  /\ UNCHANGED <<local, captured, server, lock>>

(* acceptComplete: what the server has is what was read to be saved *)
Accepts(w, done) ==
  /\ done.state = "COMPLETE"
  /\ w.snap.state = "pending"
  /\ done.expected = w.snap.next

(* Only then the chunks go, those a clone was made from as well. *)
Completed(s) ==
  [x \in Sessions |->
     CASE x = s -> [local[s] EXCEPT !.state = "complete", !.rows = {}]
       [] x # s /\ x = local[s].root -> [local[x] EXCEPT !.rows = {}]
       [] OTHER -> local[x]]

TakeComplete(t) ==
  IF Accepts(W(t), W(t).ans)
  THEN /\ local' = Completed(W(t).s)
       /\ Becomes(t, [Rests(W(t)) EXCEPT !.want = FALSE])
  ELSE Becomes(t, Stops(W(t), W(t).ans.code)) /\ UNCHANGED local

OnInit(t) ==
  LET w == W(t)  a == W(t).ans IN
  /\ Answered(t, "init")
  /\ CASE a.state = "COMPLETE" -> TakeComplete(t) /\ UNCHANGED net
       [] a.state = "ABORTED" -> Becomes(t, Stops(w, "ABORTED")) /\ UNCHANGED <<local, net>>
       [] a.state = "FINALIZING" ->
            /\ IF w.snap.state = "pending" /\ w.buf = 0
               THEN AskFinish(t, w)
               ELSE Becomes(t, Stops(w, "none")) /\ UNCHANGED net
            /\ UNCHANGED local
       [] a.state = "OPEN" -> Becomes(t, Onwards(w))
                              /\ UNCHANGED <<local, net>>
  /\ UNCHANGED <<captured, server, lock>>

(* nextUnsent, put, ...; when all are sent and the session is pending, finish *)
NextUnsent(t) ==
  LET w == W(t)  row == Row(t)  unsent == row.rows \ row.sent IN
  /\ Loop(t) /\ w.pc = "next"
  /\ IF unsent # {} /\ page[t].mode # "disposed"
     THEN Ask(t, w, "put", Request("put", w.s, Min(unsent), FALSE))
     ELSE IF row.state = "pending" /\ w.buf = 0
          THEN IF row.next = 0
               THEN Becomes(t, Stops(w, "none")) /\ UNCHANGED net
               ELSE AskFinish(t, [w EXCEPT !.snap = Read(row)])
          ELSE Becomes(t, Rests(w)) /\ UNCHANGED net
  /\ UNCHANGED <<local, captured, server, lock>>

DropSent(row, i) == [row EXCEPT !.sent = @ \cup {i}, !.rows = @ \ {i}]  \* mutant

MarkSent(row, i) == [row EXCEPT !.sent = @ \cup {i}]

OnPut(t) ==
  LET w == W(t)  a == W(t).ans IN
  /\ Answered(t, "put")
  /\ IF a.state = "OPEN"
     THEN /\ Save(w.s, MarkSent(Row(t), a.arg))
          /\ Becomes(t, Onwards(w))
     ELSE Becomes(t, Stops(w, a.code)) /\ UNCHANGED local
  /\ UNCHANGED <<captured, server, net, lock>>

OnFinish(t) ==
  /\ Answered(t, "finish")
  /\ TakeComplete(t)
  /\ UNCHANGED <<captured, server, net, lock>>

(* No answer: the request is lost, or may still be executed. *)
GiveUp(t) ==
  /\ Loop(t) /\ W(t).pc # "next" /\ W(t).ans = None
  /\ Becomes(t, Stops(W(t), "none"))
  /\ \/ Cardinality(net) <= MaxLate /\ UNCHANGED net
     \/ net' = net \ {W(t).ask}
  /\ UNCHANGED <<local, captured, server, lock>>

(* cloneForRetry: the server gave the session up; a new one takes over its *)
(* chunks, whose bytes stay where they are.                                *)
Clone(t, s) ==
  LET w == W(t) IN
  /\ Open(t) /\ page[t].mode = "open"
  /\ w.code = "ABORTED" /\ w.blocked /\ w.pc = "idle" /\ w.rec = "off" /\ w.buf = 0
  /\ Listed(w.s)
  /\ ~ Used(s)
  /\ local' = [local EXCEPT ![s] = [Row(t) EXCEPT !.state = "pending", !.interrupted = TRUE,
                                                  !.sent = {}],
                            ![w.s].state = "superseded"]
  /\ Becomes(t, [Writer(s, "off") EXCEPT !.sealed = TRUE, !.finishing = TRUE, !.cut = TRUE])
  /\ UNCHANGED <<captured, server, net, lock>>

-----------------------------------------------------------------------------
(* The server *)

Answer(state, code, r) ==
  [state |-> state, code |-> code, arg |-> r.arg, expected |-> server[r.s].expected]

(* Whoever waits for r gets the answer a. *)
Reply(r, a) ==
  page' = [t \in Tabs |->
    IF Open(t) /\ W(t).ask = r /\ W(t).ans = None
    THEN [page[t] EXCEPT !.w.ans = a] ELSE page[t]]

ServeInit(r) ==
  /\ r.op = "init"
  /\ LET found == server[r.s].state IN
     IF found = "NONE"
     THEN server' = [server EXCEPT ![r.s].state = "OPEN"] /\ Reply(r, Answer("OPEN", "none", r))
     ELSE Reply(r, Answer(found, "none", r)) /\ UNCHANGED server

ServePut(r) ==
  /\ r.op = "put"
  /\ IF server[r.s].state = "OPEN"
     THEN /\ server' = [server EXCEPT ![r.s].chunks = @ \cup {r.arg}]
          /\ Reply(r, Answer("OPEN", "none", r))
     ELSE Reply(r, Answer("refused", "none", r)) /\ UNCHANGED server

(* complete claims the lease; its answer comes when the file is assembled. *)
ServeFinish(r) ==
  LET u == server[r.s]
      same == u.expected = r.arg /\ u.interrupted = r.flag
      claim == CASE u.state = "OPEN" -> u.chunks = 0 .. r.arg - 1
                 [] u.state = "FINALIZING" -> ~ u.lease /\ same
                 [] OTHER -> FALSE
      changed == u.state = "FINALIZING" /\ ~ u.lease /\ ~ same
  IN
  /\ r.op = "finish"
  /\ IF claim
     THEN /\ server' = [server EXCEPT ![r.s] = [@ EXCEPT !.state = "FINALIZING", !.lease = TRUE,
                                      !.expected = r.arg, !.interrupted = r.flag]]
          /\ UNCHANGED page
     ELSE /\ Reply(r, Answer(IF u.state = "COMPLETE" /\ same THEN "COMPLETE" ELSE "refused",
                             IF changed THEN "CHANGED" ELSE "none", r))
          /\ UNCHANGED server

Serve(r) ==
  /\ net' = net \ {r}
  /\ ServeInit(r) \/ ServePut(r) \/ ServeFinish(r)
  /\ UNCHANGED <<local, captured, lock>>

FinishOf(s) == Request("finish", s, server[s].expected, server[s].interrupted)

Assembled(s) ==
  /\ server[s].state = "FINALIZING" /\ server[s].lease
  /\ server' = [server EXCEPT ![s].state = "COMPLETE", ![s].lease = FALSE]
  /\ Reply(FinishOf(s), Answer("COMPLETE", "none", FinishOf(s)))
  /\ UNCHANGED <<local, captured, net, lock>>

(* An error while assembling gives the lease back ... *)
AssemblyFails(s) ==
  /\ server[s].state = "FINALIZING" /\ server[s].lease
  /\ server' = [server EXCEPT ![s].state = "OPEN", ![s].lease = FALSE, ![s].expected = 0]
  /\ Reply(FinishOf(s), Answer("refused", "none", FinishOf(s)))
  /\ UNCHANGED <<local, captured, net, lock>>

(* ... a crash lets it run out. *)
LeaseEnds(s) ==
  /\ server[s].lease
  /\ server' = [server EXCEPT ![s].lease = FALSE]
  /\ UNCHANGED <<local, captured, net, lock, page>>

(* cleanupStaged, after the session's time *)
Abort(s) ==
  /\ server[s].state \in {"OPEN", "FINALIZING"} /\ ~ server[s].lease
  /\ server' = [server EXCEPT ![s].state = "ABORTED", ![s].chunks = {}]
  /\ UNCHANGED <<local, captured, net, lock, page>>

-----------------------------------------------------------------------------
Next ==
  \/ \E t \in Tabs :
       \/ Capture(t) \/ CaptureEnds(t) \/ Stop(t) \/ Stopped(t) \/ Finish(t)
       \/ Leave(t) \/ LeaveWriter(t) \/ ClosePage(t) \/ Crash(t)
       \/ Persist(t) \/ PersistFails(t) \/ MarkPending(t) \/ Retry(t)
       \/ ReadRow(t) \/ OnInit(t) \/ NextUnsent(t) \/ OnPut(t) \/ OnFinish(t) \/ GiveUp(t)
       \/ \E s \in Sessions : Begin(t, s) \/ Recover(t, s) \/ Clone(t, s)
  \/ \E r \in net : Serve(r)
  \/ \E s \in Sessions : Assembled(s) \/ AssemblyFails(s) \/ LeaseEnds(s) \/ Abort(s)

Spec == Init /\ [][Next]_vars

-----------------------------------------------------------------------------
(* Properties *)

(* The server's recording of a session, or of a clone of it, has chunk i.  *)
Delivered(s, i) ==
  \E x \in Sessions : /\ Exists(x) /\ local[x].root = local[s].root
                      /\ server[x].state = "COMPLETE" /\ i < server[x].expected

(* A chunk IndexedDB once accepted is still there, or in a finished         *)
(* recording of the server: no lost answer, crash, second tab or new       *)
(* upload makes the browser delete the only copy (docs/                     *)
(* RECORDINGS_AND_APPEALS.md: local fragments are deleted after the full    *)
(* result was confirmed).                                                   *)
PersistedChunksSurvive ==
  \A s \in Sessions : Exists(s) =>
    \A i \in 0 .. local[s].next - 1 :
      i \in local[local[s].root].rows \/ Delivered(s, i)

(* A finished recording that is not marked as interrupted has everything   *)
(* MediaRecorder delivered, and capture had no gap: the proctor may take    *)
(* the absence of the mark for what it says.                                *)
UninterruptedIsWhole ==
  \A s \in Sessions :
    server[s].state = "COMPLETE" /\ ~ server[s].interrupted =>
      server[s].expected = captured[s].blobs /\ ~ captured[s].gap

(* "Only complete can reclaim an expired server lease after its worker     *)
(* crashes" (durable-recording.ts), and the browser's own completion,      *)
(* asked for again, does: it is not refused as one with other parameters.  *)
CrashedAssemblyIsReclaimed ==
  \A t \in Tabs : Open(t) => W(t).code # "CHANGED"
=============================================================================
