----------------------------- MODULE RecorderProofs -----------------------------
(***************************************************************************)
(* Proofs about Recorder: no chunk the browser once stored is lost, and a  *)
(* recording that is not marked as interrupted is whole, for any number of *)
(* tabs, sessions, blobs and late requests.                                *)
(*                                                                         *)
(* Everything rests on when a session stops growing.  One tab at a time    *)
(* has a writer (LockInv).  A session that is no longer being recorded has *)
(* nothing left in its writer's memory (WriterInv), so its count of chunks *)
(* is final, for itself and for its clones (FamilyInv); Whole, once true  *)
(* of a session, stays true, however late the request that says so is.     *)
(***************************************************************************)
EXTENDS Recorder, FiniteSetTheorems, WellFoundedInduction, TLAPS

LocalRow == [state : {"recording", "pending", "complete", "superseded"},
             interrupted : BOOLEAN, next : Nat, root : Sessions,
             rows : SUBSET Nat, sent : SUBSET Nat]
UploadRow == [state : {"NONE", "OPEN", "FINALIZING", "COMPLETE", "ABORTED"},
              chunks : SUBSET Nat, expected : Nat, interrupted : BOOLEAN, lease : BOOLEAN]
RequestRow == [op : {"init", "put", "finish"}, s : Sessions, arg : Nat, flag : BOOLEAN]
Answers == {"NONE", "OPEN", "FINALIZING", "COMPLETE", "ABORTED", "refused"}
AnswerRow == [state : Answers, code : {"none", "CHANGED"}, arg : Nat, expected : Nat]
Snapshot == [state : {"recording", "pending", "complete", "superseded"},
             interrupted : BOOLEAN, next : Nat]
WriterRow ==
  [s : Sessions, rec : {"on", "paused", "stopping", "off"}, buf : Nat, sealed : BOOLEAN,
   stuck : BOOLEAN, cut : BOOLEAN, finishing : BOOLEAN, want : BOOLEAN, blocked : BOOLEAN,
   code : {"none", "ABORTED", "CHANGED"}, pc : {"idle", "init", "next", "put", "finish"},
   snap : Snapshot \cup {NoRow}, ask : RequestRow \cup {None}, ans : AnswerRow \cup {None}]
OpenPage == [mode : {"open", "leaving", "disposed"}, w : WriterRow]

RecorderTypes ==
  /\ local \in [Sessions -> LocalRow \cup {NoRow}]
  /\ captured \in [Sessions -> [blobs : Nat, gap : BOOLEAN]]
  /\ server \in [Sessions -> UploadRow]
  /\ net \in SUBSET RequestRow
  /\ page \in [Tabs -> OpenPage \cup {Closed}]

\* The page that has a writer has the lock.
LockInv == \A t \in Tabs : Open(t) => lock = t

\* Session s has n blobs, all that were captured, and nobody records it now.
Whole(s, n) ==
  /\ Exists(s)
  /\ n = captured[s].blobs /\ ~ captured[s].gap
  /\ \A t \in Tabs : Open(t) /\ W(t).s = s => W(t).rec = "off"

\* An open writer has a session that is not given up; once the session is no
\* longer recorded nothing is in memory; and without a cut nothing is missing.
WriterOk(t) ==
  /\ Row(t).state \in {"recording", "pending", "complete"}
  /\ W(t).finishing => W(t).sealed
  /\ W(t).sealed => W(t).rec = "off"
  /\ Row(t).state # "recording" =>
       W(t).buf = 0 /\ (W(t).sealed \/ page[t].mode = "disposed")
  /\ Row(t).state = "recording" /\ ~ W(t).cut /\ page[t].mode # "disposed" =>
       captured[W(t).s].blobs = Row(t).next + W(t).buf /\ ~ captured[W(t).s].gap

WriterInv == \A t \in Tabs : Open(t) => WriterOk(t)

\* What the writer read before it asked, and what it was told, still holds.
SnapOk(t) ==
  W(t).snap.state = "pending" =>
    /\ Row(t).state # "recording"
    /\ W(t).snap.next = Row(t).next
    /\ W(t).snap.interrupted \/ Whole(W(t).s, W(t).snap.next)

AskOk(t) ==
  W(t).pc \in {"init", "put", "finish"} =>
    /\ W(t).ask \in RequestRow /\ W(t).ask.s = W(t).s
    /\ W(t).ans # None /\ W(t).ans.state = "COMPLETE" =>
         server[W(t).s].state = "COMPLETE" /\ server[W(t).s].expected = W(t).ans.expected
    /\ W(t).pc = "init" =>
         /\ W(t).ask.op = "init"
         /\ W(t).ans = None \/ W(t).ans.state \in {"OPEN", "FINALIZING", "COMPLETE", "ABORTED"}

AnswerInv == \A t \in Tabs : Open(t) => SnapOk(t) /\ AskOk(t)

\* A clone shares the chunks of its root, which nobody adds to any more.
FamilyInv ==
  \A s \in Sessions : Exists(s) =>
    LET root == local[s].root IN
    /\ Exists(root) /\ local[root].root = root /\ local[root].next = local[s].next
    /\ root # s => local[root].state = "superseded" /\ local[s].state # "recording"

\* Chunks go when a session of their family is complete, in the browser and
\* on the server.
ChunksInv ==
  /\ \A s \in Sessions : Exists(s) /\ local[s].state = "complete" =>
       server[s].state = "COMPLETE" /\ server[s].expected = local[s].next
  /\ \A s \in Sessions : Exists(s) /\ local[s].root = s =>
       \/ local[s].rows = 0 .. local[s].next - 1
       \/ \E x \in Sessions : Exists(x) /\ local[x].root = s /\ local[x].state = "complete"

\* Whatever says that a session was not interrupted is right.
WholeInv ==
  /\ \A s \in Sessions : ~ Exists(s) => captured[s].blobs = 0 /\ ~ captured[s].gap
  /\ \A s \in Sessions : Exists(s) /\ local[s].state \in {"pending", "complete"} =>
       local[s].interrupted \/ Whole(s, local[s].next)
  /\ \A r \in net : r.op = "finish" => r.flag \/ Whole(r.s, r.arg)
  /\ \A s \in Sessions : server[s].state \in {"FINALIZING", "COMPLETE"} =>
       server[s].interrupted \/ Whole(s, server[s].expected)

RecorderInv ==
  RecorderTypes /\ LockInv /\ WriterInv /\ AnswerInv /\ FamilyInv /\ ChunksInv /\ WholeInv

-----------------------------------------------------------------------------
(* What every step leaves as it was.                                       *)

(* Whole is for good.                                                      *)
Quiet == \A s \in Sessions, n \in Nat : Whole(s, n) => Whole(s, n)'

(* So is the number of chunks of a session that is not recorded any more,  *)
Settled ==
  \A s \in Sessions : Exists(s) /\ local[s].state # "recording" =>
    local'[s] # NoRow /\ local'[s].state # "recording" /\ local'[s].next = local[s].next

(* and what the server has completed.                                      *)
ServerKept ==
  \A s \in Sessions : server[s].state = "COMPLETE" =>
    server'[s].state = "COMPLETE" /\ server'[s].expected = server[s].expected

(* At most one tab has a writer.                                           *)
LEMMA Alone ==
  ASSUME LockInv, NEW t \in Tabs, Open(t)
  PROVE  lock = t /\ \A u \in Tabs : Open(u) => u = t
  BY DEF LockInv

LEMMA OpenType ==
  ASSUME RecorderTypes, NEW t \in Tabs, Open(t)
  PROVE  /\ page[t] \in OpenPage /\ W(t) \in WriterRow /\ W(t).s \in Sessions
         /\ page[t] = [mode |-> page[t].mode, w |-> W(t)]
  <1>1. page[t] \in OpenPage
    BY DEF RecorderTypes, Open
  <1> QED BY <1>1 DEF OpenPage, WriterRow, W

LEMMA RowType ==
  ASSUME RecorderTypes, NEW s \in Sessions, Exists(s)
  PROVE  local[s] \in LocalRow
  BY DEF RecorderTypes, Exists

(* The writer's own session is in the browser.                             *)
LEMMA OwnRow ==
  ASSUME RecorderTypes, WriterInv, NEW t \in Tabs, Open(t)
  PROVE  Exists(W(t).s) /\ Row(t) \in LocalRow /\ Row(t) = local[W(t).s]
  <1>1. W(t).s \in Sessions
    BY OpenType
  <1>2. Row(t).state # "none"
    BY DEF WriterInv, WriterOk
  <1>3. Row(t) # NoRow
    BY <1>2 DEF NoRow
  <1> QED BY <1>1, <1>3 DEF Row, Exists, RecorderTypes

(* A step of one tab, which stays open.                                    *)
LEMMA TabStep ==
  ASSUME RecorderTypes, LockInv, NEW t \in Tabs, Open(t),
         NEW q \in OpenPage, page' = [page EXCEPT ![t] = q], lock' = lock
  PROVE  /\ page' \in [Tabs -> OpenPage \cup {Closed}]
         /\ page'[t] = q /\ Open(t)'
         /\ \A u \in Tabs : Open(u)' => u = t
         /\ LockInv'
  <1>1. page' \in [Tabs -> OpenPage \cup {Closed}] /\ page'[t] = q
    BY DEF RecorderTypes
  <1>2. q # Closed
    <2>1. "w" \in DOMAIN q /\ "w" \notin DOMAIN Closed
      BY DEF OpenPage, Closed
    <2> QED BY <2>1
  <1>3. \A u \in Tabs : Open(u)' => u = t
    <2>1. \A u \in Tabs : u # t => page'[u] = page[u]
      BY DEF RecorderTypes
    <2> QED BY <2>1, Alone DEF Open
  <1>4. lock' = t
    BY Alone
  <1> QED BY <1>1, <1>2, <1>3, <1>4 DEF LockInv, Open

LEMMA Becoming ==
  ASSUME RecorderTypes, LockInv, NEW t \in Tabs, Open(t),
         NEW w \in WriterRow, Becomes(t, w), lock' = lock
  PROVE  /\ page' \in [Tabs -> OpenPage \cup {Closed}]
         /\ page'[t].w = w /\ page'[t].mode = page[t].mode /\ Open(t)'
         /\ \A u \in Tabs : Open(u)' => u = t
         /\ LockInv'
  <1> DEFINE q == [mode |-> page[t].mode, w |-> w]
  <1>1. q \in OpenPage /\ q.w = w /\ q.mode = page[t].mode
    BY OpenType DEF OpenPage
  <1>2. page' = [page EXCEPT ![t] = q]
    <2>1. [page[t] EXCEPT !.w = w] = q
      <3>1. page[t] = [mode |-> page[t].mode, w |-> W(t)]
        BY OpenType
      <3>2. PICK m, v : page[t] = [mode |-> m, w |-> v] /\ m = page[t].mode
        BY <3>1
      <3>3. [[mode |-> m, w |-> v] EXCEPT !.w = w] = [mode |-> m, w |-> w]
        OBVIOUS
      <3> QED BY <3>2, <3>3
    <2>2. page' = [page EXCEPT ![t] = [page[t] EXCEPT !.w = w]]
      BY DEF Becomes
    <2> QED BY <2>1, <2>2
  <1> HIDE DEF q
  <1> QED BY <1>1, <1>2, TabStep

(* What makes a step quiet: rows stay, captures are of a session that is   *)
(* being recorded, and only such a session is recorded on.                 *)
LEMMA QuietStep ==
  ASSUME \A s \in Sessions : Exists(s) => Exists(s)',
         \A s \in Sessions : \/ captured'[s] = captured[s]
                             \/ \E t \in Tabs : Open(t) /\ W(t).s = s /\ W(t).rec # "off",
         \A t \in Tabs : Open(t)' =>
           \/ page'[t].w.rec = "off"
           \/ ~ Exists(page'[t].w.s)
           \/ Open(t) /\ page'[t].w.s = W(t).s /\ W(t).rec # "off"
  PROVE  Quiet
  <1> SUFFICES ASSUME NEW s \in Sessions, NEW n \in Nat, Whole(s, n) PROVE Whole(s, n)'
    BY DEF Quiet
  <1>1. Exists(s) /\ Exists(s)'
    BY DEF Whole
  <1>2. captured'[s] = captured[s]
    BY DEF Whole
  <1>3. ASSUME NEW t \in Tabs, Open(t)', page'[t].w.s = s PROVE page'[t].w.rec = "off"
    BY <1>1, <1>3 DEF Whole
  <1> QED BY <1>1, <1>2, <1>3 DEF Whole, W

(* What a writer read and was told still holds after a step of its tab.    *)
LEMMA SnapStep ==
  ASSUME RecorderInv, Quiet, Settled, NEW t \in Tabs, Open(t),
         page'[t].w.s = W(t).s,
         page'[t].w.snap \in {W(t).snap, NoRow, Read(Row(t))}
  PROVE  SnapOk(t)'
  <1> USE DEF RecorderInv
  <1> PICK s \in Sessions : s = W(t).s
    BY OpenType
  <1> PICK n : n = page'[t].w.snap
    OBVIOUS
  <1>0. Exists(s) /\ local[s] \in LocalRow /\ Row(t) = local[s] /\ Row(t)' = local'[s]
    BY OwnRow DEF Row, W
  <1> SUFFICES ASSUME n.state = "pending"
               PROVE  /\ local'[s].state # "recording" /\ n.next = local'[s].next
                      /\ n.interrupted \/ Whole(s, n.next)'
    BY <1>0 DEF SnapOk, W
  <1>1. /\ n.next \in Nat
        /\ local[s].state # "recording" /\ n.next = local[s].next
        /\ n.interrupted \/ Whole(s, n.next)
    <2>1. CASE n = W(t).snap
      <3>1. n \in Snapshot
        <4>1. W(t).snap \in Snapshot \cup {NoRow}
          BY OpenType DEF WriterRow
        <4>2. n # NoRow
          BY DEF NoRow
        <4> QED BY <4>1, <4>2, <2>1
      <3>2. SnapOk(t)
        BY DEF AnswerInv
      <3> QED BY <3>1, <3>2, <2>1, <1>0 DEF SnapOk, Snapshot
    <2>2. CASE n = NoRow
      BY <2>2 DEF NoRow
    <2>3. CASE n = Read(Row(t))
      <3>1. /\ n.state = local[s].state /\ n.next = local[s].next
            /\ n.interrupted = local[s].interrupted
        BY <2>3, <1>0 DEF Read
      <3> QED BY <3>1, <1>0 DEF WholeInv, LocalRow
    <2> QED BY <2>1, <2>2, <2>3
  <1> QED BY <1>0, <1>1 DEF Quiet, Settled

LEMMA AskStep ==
  ASSUME RecorderInv, ServerKept, NEW t \in Tabs, Open(t),
         page'[t].w.s = W(t).s,
         \/ page'[t].w.pc \in {"idle", "next"}
         \/ /\ page'[t].w.pc = W(t).pc
            /\ page'[t].w.ask = W(t).ask /\ page'[t].w.ans = W(t).ans
         \/ /\ page'[t].w.ask \in RequestRow /\ page'[t].w.ask.s = W(t).s
            /\ page'[t].w.ans = None
            /\ page'[t].w.pc = "init" => page'[t].w.ask.op = "init"
  PROVE  AskOk(t)'
  <1> PICK s \in Sessions : s = W(t).s
    BY OpenType DEF RecorderInv
  <1>1. AskOk(t)
    BY DEF RecorderInv, AnswerInv
  <1> QED BY <1>1 DEF AskOk, ServerKept, W

LEMMA AnswerStep ==
  ASSUME RecorderInv, Quiet, Settled, ServerKept, NEW t \in Tabs, Open(t),
         \A u \in Tabs : Open(u)' => u = t,
         page'[t].w.s = W(t).s,
         page'[t].w.snap \in {W(t).snap, NoRow, Read(Row(t))},
         \/ page'[t].w.pc \in {"idle", "next"}
         \/ /\ page'[t].w.pc = W(t).pc
            /\ page'[t].w.ask = W(t).ask /\ page'[t].w.ans = W(t).ans
         \/ /\ page'[t].w.ask \in RequestRow /\ page'[t].w.ask.s = W(t).s
            /\ page'[t].w.ans = None
            /\ page'[t].w.pc = "init" => page'[t].w.ask.op = "init"
  PROVE  AnswerInv'
  <1>1. SnapOk(t)' /\ AskOk(t)'
    BY SnapStep, AskStep
  <1> QED BY <1>1 DEF AnswerInv

(* What says that a session was not interrupted stays right.               *)
LEMMA WholeStep ==
  ASSUME RecorderInv, RecorderTypes', Quiet,
         \A s \in Sessions : ~ Exists(s)' => ~ Exists(s) /\ captured'[s] = captured[s],
         \A s \in Sessions : Exists(s)' /\ local'[s].state \in {"pending", "complete"} =>
           \/ local'[s].interrupted
           \/ /\ Exists(s) /\ local[s].state \in {"pending", "complete"}
              /\ local'[s].interrupted = local[s].interrupted /\ local'[s].next = local[s].next
           \/ Whole(s, local'[s].next),
         \A r \in net' : r \in net \/ r.op # "finish" \/ r.flag \/ Whole(r.s, r.arg),
         \A s \in Sessions : server'[s].state \in {"FINALIZING", "COMPLETE"} =>
           \/ server'[s].interrupted
           \/ /\ server[s].state \in {"FINALIZING", "COMPLETE"}
              /\ server'[s].interrupted = server[s].interrupted
              /\ server'[s].expected = server[s].expected
           \/ Whole(s, server'[s].expected)
  PROVE  WholeInv'
  <1>1. \A s \in Sessions : ~ Exists(s)' => captured'[s].blobs = 0 /\ ~ captured'[s].gap
    BY DEF RecorderInv, WholeInv
  <1>2. ASSUME NEW s \in Sessions, Exists(s)', local'[s].state \in {"pending", "complete"},
               ~ local'[s].interrupted
        PROVE  Whole(s, local[s].next)'
    <2> PICK n \in Nat : n = local'[s].next
      BY <1>2 DEF RecorderTypes, Exists, LocalRow
    <2>1. Whole(s, n)
      BY <1>2 DEF RecorderInv, WholeInv
    <2>2. Whole(s, n)'
      BY <2>1 DEF Quiet
    <2> QED BY <2>2 DEF Whole
  <1>3. ASSUME NEW r \in net', r.op = "finish", ~ r.flag PROVE Whole(r.s, r.arg)'
    <2>1. r.s \in Sessions /\ r.arg \in Nat
      BY DEF RecorderTypes, RequestRow
    <2>2. Whole(r.s, r.arg)
      BY <1>3 DEF RecorderInv, WholeInv
    <2> QED BY <2>1, <2>2 DEF Quiet
  <1>4. ASSUME NEW s \in Sessions, server'[s].state \in {"FINALIZING", "COMPLETE"},
               ~ server'[s].interrupted
        PROVE  Whole(s, server[s].expected)'
    <2> PICK n \in Nat : n = server'[s].expected
      BY DEF RecorderTypes, UploadRow
    <2>1. Whole(s, n)
      BY <1>4 DEF RecorderInv, WholeInv
    <2>2. Whole(s, n)'
      BY <2>1 DEF Quiet
    <2> QED BY <2>2 DEF Whole
  <1> QED BY <1>1, <1>2, <1>3, <1>4 DEF WholeInv

(* Rows whose chunks, count and family stay as they were.                  *)
RowsKept ==
  \A s \in Sessions :
    /\ Exists(s)' <=> Exists(s)
    /\ Exists(s) =>
         /\ local'[s].root = local[s].root /\ local'[s].next = local[s].next
         /\ local'[s].rows = local[s].rows
         /\ local'[s].state = "complete" <=> local[s].state = "complete"
         /\ local[s].state = "superseded" => local'[s].state = "superseded"
         /\ local[s].state # "recording" => local'[s].state # "recording"

LEMMA RootType ==
  ASSUME RecorderTypes, NEW s \in Sessions, Exists(s)
  PROVE  local[s].root \in Sessions /\ local[s].next \in Nat
  BY RowType DEF LocalRow

LEMMA RowsStep ==
  ASSUME RecorderInv, RowsKept, ServerKept
  PROVE  FamilyInv' /\ ChunksInv' /\ Settled
  <1> USE DEF RecorderInv
  <1>1. Settled
    BY DEF Settled, RowsKept, Exists
  <1>2. ASSUME NEW s \in Sessions, Exists(s)'
        PROVE  LET root == local'[s].root IN
               /\ local'[root] # NoRow /\ local'[root].root = root
               /\ local'[root].next = local'[s].next
               /\ root # s => local'[root].state = "superseded" /\ local'[s].state # "recording"
    <2> PICK root \in Sessions : root = local[s].root
      BY <1>2, RootType DEF RowsKept
    <2>1. Exists(s) /\ local'[s].root = root /\ local'[s].next = local[s].next
      BY <1>2 DEF RowsKept
    <2>2. /\ Exists(root) /\ local[root].root = root /\ local[root].next = local[s].next
          /\ root # s => local[root].state = "superseded" /\ local[s].state # "recording"
      BY <2>1 DEF FamilyInv
    <2>3. /\ local'[root] # NoRow /\ local'[root].root = root
          /\ local'[root].next = local[root].next
      BY <2>2 DEF RowsKept, Exists
    <2>4. root # s => local'[root].state = "superseded" /\ local'[s].state # "recording"
      BY <2>1, <2>2 DEF RowsKept
    <2> QED BY <2>1, <2>2, <2>3, <2>4
  <1>3. FamilyInv'
    BY <1>2 DEF FamilyInv, Exists
  <1>4. ASSUME NEW s \in Sessions, Exists(s)', local'[s].state = "complete"
        PROVE  server'[s].state = "COMPLETE" /\ server'[s].expected = local'[s].next
    BY <1>4 DEF RowsKept, ServerKept, ChunksInv
  <1>5. ASSUME NEW s \in Sessions, Exists(s)', local'[s].root = s
        PROVE  \/ local'[s].rows = 0 .. local'[s].next - 1
               \/ \E x \in Sessions :
                    Exists(x)' /\ local'[x].root = s /\ local'[x].state = "complete"
    <2>1. /\ Exists(s) /\ local[s].root = s
          /\ local'[s].rows = local[s].rows /\ local'[s].next = local[s].next
      BY <1>5 DEF RowsKept
    <2>2. CASE local[s].rows = 0 .. local[s].next - 1
      BY <2>1, <2>2
    <2>3. CASE \E x \in Sessions :
                 Exists(x) /\ local[x].root = s /\ local[x].state = "complete"
      BY <2>3 DEF RowsKept
    <2> QED BY <2>1, <2>2, <2>3 DEF ChunksInv
  <1>6. ChunksInv'
    BY <1>4, <1>5 DEF ChunksInv
  <1> QED BY <1>1, <1>3, <1>6

LEMMA RowsUntouched ==
  ASSUME local' = local
  PROVE  RowsKept
  BY DEF RowsKept, Exists

(* Saving one row.                                                         *)
LEMMA SaveStep ==
  ASSUME RecorderTypes, NEW s \in Sessions, Exists(s), NEW row \in LocalRow, Save(s, row)
  PROVE  /\ local' \in [Sessions -> LocalRow \cup {NoRow}]
         /\ local'[s] = row /\ Exists(s)'
         /\ \A x \in Sessions : x # s => local'[x] = local[x]
         /\ \A x \in Sessions : Exists(x)' <=> Exists(x)
  <1>1. row # NoRow
    <2>1. row.state # NoRow.state
      BY DEF LocalRow, NoRow
    <2> QED BY <2>1
  <1> QED BY <1>1 DEF RecorderTypes, Save, Exists

LEMMA SaveKeeps ==
  ASSUME RecorderTypes, NEW s \in Sessions, Exists(s), NEW row \in LocalRow, Save(s, row),
         row.root = local[s].root, row.next = local[s].next, row.rows = local[s].rows,
         row.state = "complete" <=> local[s].state = "complete",
         local[s].state = "superseded" => row.state = "superseded",
         local[s].state # "recording" => row.state # "recording"
  PROVE  RowsKept
  BY SaveStep DEF RowsKept, Exists

(* A step of an open tab that keeps its writer's session.                  *)
LEMMA WriterStep ==
  ASSUME RecorderInv, NEW t \in Tabs, Open(t),
         local' \in [Sessions -> LocalRow \cup {NoRow}],
         captured' \in [Sessions -> [blobs : Nat, gap : BOOLEAN]],
         server' = server, net' \in SUBSET RequestRow,
         page' \in [Tabs -> OpenPage \cup {Closed}],
         \A u \in Tabs : Open(u)' => u = t,
         LockInv', FamilyInv', ChunksInv', Settled,
         \A s \in Sessions : Exists(s)' <=> Exists(s),
         \A s \in Sessions : captured'[s] = captured[s] \/ (s = W(t).s /\ W(t).rec # "off"),
         page'[t].w.s = W(t).s,
         W(t).rec = "off" => page'[t].w.rec = "off",
         page'[t].w.snap \in {W(t).snap, NoRow, Read(Row(t))},
         \/ page'[t].w.pc \in {"idle", "next"}
         \/ /\ page'[t].w.pc = W(t).pc
            /\ page'[t].w.ask = W(t).ask /\ page'[t].w.ans = W(t).ans
         \/ /\ page'[t].w.ask \in RequestRow /\ page'[t].w.ask.s = W(t).s
            /\ page'[t].w.ans = None
            /\ page'[t].w.pc = "init" => page'[t].w.ask.op = "init",
         WriterOk(t)',
         \A s \in Sessions : Exists(s)' /\ local'[s].state \in {"pending", "complete"} =>
           \/ local'[s].interrupted
           \/ /\ Exists(s) /\ local[s].state \in {"pending", "complete"}
              /\ local'[s].interrupted = local[s].interrupted /\ local'[s].next = local[s].next
           \/ Whole(s, local'[s].next),
         \A r \in net' : r \in net \/ r.op # "finish" \/ r.flag \/ Whole(r.s, r.arg)
  PROVE  RecorderInv'
  <1> USE DEF RecorderInv
  <1>1. RecorderTypes'
    BY DEF RecorderTypes
  <1>2. Quiet
    <2>1. \A s \in Sessions : Exists(s) => Exists(s)'
      OBVIOUS
    <2>2. \A s \in Sessions : \/ captured'[s] = captured[s]
                              \/ \E u \in Tabs : Open(u) /\ W(u).s = s /\ W(u).rec # "off"
      OBVIOUS
    <2>3. \A u \in Tabs : Open(u)' =>
           \/ page'[u].w.rec = "off"
           \/ ~ Exists(page'[u].w.s)
           \/ Open(u) /\ page'[u].w.s = W(u).s /\ W(u).rec # "off"
      OBVIOUS
    <2> QED BY <2>1, <2>2, <2>3, QuietStep
  <1>3. ServerKept
    BY DEF ServerKept
  <1>4. AnswerInv'
    BY <1>2, <1>3, AnswerStep
  <1>5. WriterInv'
    BY DEF WriterInv
  <1>6. \A s \in Sessions : ~ Exists(s)' => ~ Exists(s) /\ captured'[s] = captured[s]
    BY OwnRow
  <1>7. WholeInv'
    BY <1>1, <1>2, <1>6, WholeStep
  <1> QED BY <1>1, <1>4, <1>5, <1>7

(* A step of the writer alone, with what it adds to the requests.          *)
LEMMA WriterOnly ==
  ASSUME RecorderInv, NEW t \in Tabs, Open(t), NEW w \in WriterRow, Becomes(t, w),
         UNCHANGED <<local, captured, server, lock>>,
         net' \in SUBSET RequestRow,
         \A r \in net' : r \in net \/ r.op # "finish" \/ r.flag \/ Whole(r.s, r.arg),
         w.s = W(t).s,
         W(t).rec = "off" => w.rec = "off",
         w.snap \in {W(t).snap, NoRow, Read(Row(t))},
         \/ w.pc \in {"idle", "next"}
         \/ w.pc = W(t).pc /\ w.ask = W(t).ask /\ w.ans = W(t).ans
         \/ /\ w.ask \in RequestRow /\ w.ask.s = W(t).s /\ w.ans = None
            /\ w.pc = "init" => w.ask.op = "init",
         w.finishing => w.sealed,
         w.sealed => w.rec = "off",
         W(t).sealed => w.sealed,
         w.buf = W(t).buf,
         w.cut = W(t).cut
  PROVE  RecorderInv'
  <1> USE DEF RecorderInv
  <1>1. /\ page' \in [Tabs -> OpenPage \cup {Closed}]
        /\ page'[t].w = w /\ page'[t].mode = page[t].mode
        /\ \A u \in Tabs : Open(u)' => u = t
        /\ LockInv'
    BY Becoming
  <1>2. FamilyInv' /\ ChunksInv' /\ Settled
    <2>1. ServerKept
      BY DEF ServerKept
    <2> QED BY <2>1, RowsUntouched, RowsStep
  <1>3. WriterOk(t)'
    <2>1. WriterOk(t)
      BY DEF WriterInv
    <2>2. Row(t)' = Row(t)
      BY <1>1 DEF Row, W
    <2> QED BY <1>1, <2>1, <2>2 DEF WriterOk, W
  <1>4. local' \in [Sessions -> LocalRow \cup {NoRow}]
        /\ captured' \in [Sessions -> [blobs : Nat, gap : BOOLEAN]]
    BY DEF RecorderTypes
  <1>5. \A s \in Sessions : Exists(s)' <=> Exists(s)
    BY DEF Exists
  <1> QED BY <1>1, <1>2, <1>3, <1>4, <1>5, WriterStep

LEMMA StopKeeps ==
  ASSUME RecorderInv, NEW t \in Tabs, Stop(t) \/ Stopped(t)
  PROVE  RecorderInv'
  <1> PICK rec \in {"stopping", "off"} : /\ Becomes(t, [W(t) EXCEPT !.rec = rec])
                                         /\ W(t).rec = "off" => rec = "off"
                                         /\ W(t).rec # "off"
    BY DEF Stop, Stopped
  <1> DEFINE w == [W(t) EXCEPT !.rec = rec]
  <1>1. Open(t) /\ UNCHANGED <<local, captured, server, net, lock>>
    BY DEF Stop, Stopped
  <1>2. W(t) \in WriterRow
    BY <1>1, OpenType DEF RecorderInv
  <1>3. ~ W(t).sealed /\ ~ W(t).finishing
    BY <1>1 DEF RecorderInv, WriterInv, WriterOk
  <1>4. /\ w \in WriterRow
        /\ w.s = W(t).s /\ w.snap = W(t).snap
        /\ w.pc = W(t).pc /\ w.ask = W(t).ask /\ w.ans = W(t).ans
        /\ w.sealed = W(t).sealed /\ w.finishing = W(t).finishing
        /\ w.buf = W(t).buf /\ w.cut = W(t).cut /\ w.rec = rec
    BY <1>2 DEF WriterRow
  <1>5. Becomes(t, w)
    OBVIOUS
  <1>6. net' \in SUBSET RequestRow
    BY <1>1 DEF RecorderInv, RecorderTypes
  <1> HIDE DEF w
  <1> QED BY <1>1, <1>3, <1>4, <1>5, <1>6, WriterOnly

LEMMA FinishKeeps ==
  ASSUME RecorderInv, NEW t \in Tabs, Finish(t)
  PROVE  RecorderInv'
  <1> DEFINE w == [W(t) EXCEPT !.sealed = TRUE, !.finishing = TRUE, !.stuck = FALSE]
  <1>1. /\ Open(t) /\ W(t).rec = "off" /\ Becomes(t, w)
        /\ UNCHANGED <<local, captured, server, net, lock>>
    BY DEF Finish, HasStopped
  <1>2. W(t) \in WriterRow
    BY <1>1, OpenType DEF RecorderInv
  <1>3. /\ w \in WriterRow
        /\ w.s = W(t).s /\ w.snap = W(t).snap
        /\ w.pc = W(t).pc /\ w.ask = W(t).ask /\ w.ans = W(t).ans
        /\ w.sealed /\ w.finishing
        /\ w.buf = W(t).buf /\ w.cut = W(t).cut /\ w.rec = W(t).rec
    BY <1>2 DEF WriterRow
  <1>4. net' \in SUBSET RequestRow
    BY <1>1 DEF RecorderInv, RecorderTypes
  <1> HIDE DEF w
  <1> QED BY <1>1, <1>3, <1>4, WriterOnly

LEMMA RetryKeeps ==
  ASSUME RecorderInv, NEW t \in Tabs, Retry(t)
  PROVE  RecorderInv'
  <1> DEFINE w == [W(t) EXCEPT !.blocked = FALSE, !.stuck = FALSE, !.want = TRUE,
                               !.code = "none"]
  <1>1. Open(t) /\ Becomes(t, w) /\ UNCHANGED <<local, captured, server, net, lock>>
    BY DEF Retry
  <1>2. W(t) \in WriterRow /\ WriterOk(t)
    BY <1>1, OpenType DEF RecorderInv, WriterInv
  <1>3. /\ w \in WriterRow
        /\ w.s = W(t).s /\ w.snap = W(t).snap
        /\ w.pc = W(t).pc /\ w.ask = W(t).ask /\ w.ans = W(t).ans
        /\ w.sealed = W(t).sealed /\ w.finishing = W(t).finishing
        /\ w.buf = W(t).buf /\ w.cut = W(t).cut /\ w.rec = W(t).rec
    BY <1>2 DEF WriterRow
  <1>4. net' \in SUBSET RequestRow
    BY <1>1 DEF RecorderInv, RecorderTypes
  <1> HIDE DEF w
  <1> QED BY <1>1, <1>2, <1>3, <1>4, WriterOnly DEF WriterOk

(* The writer at rest, stopped, or on its way to the next chunk.           *)
RestForms(w, code) ==
  {Stops(w, code), Onwards(w), Rests(w), [Rests(w) EXCEPT !.want = FALSE],
   [w EXCEPT !.want = FALSE]}

LEMMA Resting ==
  ASSUME NEW w \in WriterRow, NEW code \in {"none", "ABORTED", "CHANGED"},
         NEW v \in RestForms(w, code)
  PROVE  /\ v \in WriterRow
         /\ v.s = w.s /\ v.snap \in {w.snap, NoRow}
         /\ v.pc \in {"idle", "next"} \/ (v.pc = w.pc /\ v.ask = w.ask /\ v.ans = w.ans)
         /\ v.sealed = w.sealed /\ v.finishing = w.finishing
         /\ v.buf = w.buf /\ v.cut = w.cut /\ v.rec = w.rec
  <1>1. CASE v = Stops(w, code)
    BY <1>1 DEF WriterRow, Stops
  <1>2. CASE v = Onwards(w)
    BY <1>2 DEF WriterRow, Onwards
  <1>3. CASE v = Rests(w)
    BY <1>3 DEF WriterRow, Rests
  <1>4. CASE v = [Rests(w) EXCEPT !.want = FALSE]
    BY <1>4 DEF WriterRow, Rests
  <1>5. CASE v = [w EXCEPT !.want = FALSE]
    BY <1>5 DEF WriterRow
  <1> QED BY <1>1, <1>2, <1>3, <1>4, <1>5 DEF RestForms

LEMMA RestKeeps ==
  ASSUME RecorderInv, NEW t \in Tabs, Open(t), NEW code \in {"none", "ABORTED", "CHANGED"},
         NEW v \in RestForms(W(t), code),
         Becomes(t, v), net' \subseteq net, UNCHANGED <<local, captured, server, lock>>
  PROVE  RecorderInv'
  <1>1. W(t) \in WriterRow /\ WriterOk(t)
    BY OpenType DEF RecorderInv, WriterInv
  <1>2. /\ v \in WriterRow
        /\ v.s = W(t).s /\ v.snap \in {W(t).snap, NoRow}
        /\ v.pc \in {"idle", "next"} \/ (v.pc = W(t).pc /\ v.ask = W(t).ask /\ v.ans = W(t).ans)
        /\ v.sealed = W(t).sealed /\ v.finishing = W(t).finishing
        /\ v.buf = W(t).buf /\ v.cut = W(t).cut /\ v.rec = W(t).rec
    BY <1>1, Resting
  <1>3. net' \in SUBSET RequestRow
    BY DEF RecorderInv, RecorderTypes
  <1> QED BY <1>1, <1>2, <1>3, WriterOnly DEF WriterOk

LEMMA GiveUpKeeps ==
  ASSUME RecorderInv, NEW t \in Tabs, GiveUp(t)
  PROVE  RecorderInv'
  <1>1. /\ Open(t) /\ Becomes(t, Stops(W(t), "none")) /\ net' \subseteq net
        /\ UNCHANGED <<local, captured, server, lock>>
    BY DEF GiveUp, Loop
  <1>2. Stops(W(t), "none") \in RestForms(W(t), "none")
    BY DEF RestForms
  <1> QED BY <1>1, <1>2, RestKeeps

LEMMA LeaveKeeps ==
  ASSUME RecorderInv, NEW t \in Tabs, Leave(t)
  PROVE  RecorderInv'
  <1> USE DEF RecorderInv
  <1> DEFINE rec == IF W(t).rec = "off" THEN "off" ELSE "stopping"
             w == [W(t) EXCEPT !.stuck = FALSE, !.rec = rec]
             q == [mode |-> "leaving", w |-> w]
  <1>1. Open(t) /\ page[t].mode = "open" /\ UNCHANGED <<local, captured, server, net, lock>>
    BY DEF Leave, Open, Closed
  <1>2. W(t) \in WriterRow /\ WriterOk(t) /\ page[t] = [mode |-> page[t].mode, w |-> W(t)]
    BY <1>1, OpenType DEF WriterInv
  <1>3. /\ w \in WriterRow
        /\ w.s = W(t).s /\ w.snap = W(t).snap
        /\ w.pc = W(t).pc /\ w.ask = W(t).ask /\ w.ans = W(t).ans
        /\ w.sealed = W(t).sealed /\ w.finishing = W(t).finishing
        /\ w.buf = W(t).buf /\ w.cut = W(t).cut
        /\ w.rec = rec
    BY <1>2 DEF WriterRow
  <1>4. q \in OpenPage /\ q.w = w /\ q.mode = "leaving"
    BY <1>3 DEF OpenPage
  <1>5. page' = [page EXCEPT ![t] = q]
    <2>1. PICK m, v : page[t] = [mode |-> m, w |-> v] /\ v = W(t)
      BY <1>2
    <2>2. [[mode |-> m, w |-> v] EXCEPT !.mode = "leaving", !.w.stuck = FALSE,
                            !.w.rec = IF @ = "off" THEN @ ELSE "stopping"]
          = [mode |-> "leaving",
             w |-> [v EXCEPT !.stuck = FALSE, !.rec = IF v.rec = "off" THEN "off" ELSE "stopping"]]
      <3> DEFINE v1 == [v EXCEPT !.stuck = FALSE]
                 r == IF v.rec = "off" THEN v.rec ELSE "stopping"
      <3>1. [[mode |-> m, w |-> v] EXCEPT !.mode = "leaving", !.w.stuck = FALSE, !.w.rec = r]
            = [[[[mode |-> m, w |-> v] EXCEPT !.mode = "leaving"]
                  EXCEPT !.w.stuck = FALSE] EXCEPT !.w.rec = r]
        BY Zenon
      <3>2. [[mode |-> m, w |-> v] EXCEPT !.mode = "leaving"] = [mode |-> "leaving", w |-> v]
        OBVIOUS
      <3>3. [[mode |-> "leaving", w |-> v] EXCEPT !.w.stuck = FALSE]
            = [mode |-> "leaving", w |-> v1]
        <4>1. \A z : [[mode |-> "leaving", w |-> v] EXCEPT !.w = z]
                    = [mode |-> "leaving", w |-> z]
          OBVIOUS
        <4>2. [[mode |-> "leaving", w |-> v] EXCEPT !.w.stuck = FALSE]
              = [[mode |-> "leaving", w |-> v] EXCEPT !.w = v1]
          BY Zenon
        <4> HIDE DEF v1
        <4> QED BY <4>1, <4>2
      <3>4. [[mode |-> "leaving", w |-> v1] EXCEPT !.w.rec = r]
            = [mode |-> "leaving", w |-> [v1 EXCEPT !.rec = r]]
        <4> HIDE DEF v1, r
        <4> QED OBVIOUS
      <3>5. r = IF v.rec = "off" THEN "off" ELSE "stopping"
        OBVIOUS
      <3> QED BY <3>1, <3>2, <3>3, <3>4, <3>5
    <2>3. page' = [page EXCEPT ![t] =
            [page[t] EXCEPT !.mode = "leaving", !.w.stuck = FALSE,
                            !.w.rec = IF @ = "off" THEN @ ELSE "stopping"]]
      BY DEF Leave
    <2> QED BY <2>1, <2>2, <2>3
  <1>6. /\ page' \in [Tabs -> OpenPage \cup {Closed}]
        /\ page'[t] = q
        /\ \A u \in Tabs : Open(u)' => u = t
        /\ LockInv'
    <2> HIDE DEF q
    <2> QED BY <1>1, <1>4, <1>5, TabStep
  <1> HIDE DEF q, w
  <1>7. FamilyInv' /\ ChunksInv' /\ Settled
    <2>1. ServerKept
      BY <1>1 DEF ServerKept
    <2> QED BY <1>1, <2>1, RowsUntouched, RowsStep
  <1>8. WriterOk(t)'
    <2>1. Row(t)' = Row(t) /\ W(t)' = w /\ page'[t].mode = "leaving"
      BY <1>1, <1>3, <1>4, <1>6 DEF Row, W
    <2> QED BY <1>1, <1>2, <1>3, <2>1 DEF WriterOk
  <1>9. /\ local' \in [Sessions -> LocalRow \cup {NoRow}]
        /\ captured' \in [Sessions -> [blobs : Nat, gap : BOOLEAN]]
        /\ net' \in SUBSET RequestRow
        /\ \A s \in Sessions : Exists(s)' <=> Exists(s)
    BY <1>1 DEF RecorderTypes, Exists
  <1>10. page'[t].w = w
    BY <1>4, <1>6
  <1> QED BY <1>1, <1>3, <1>6, <1>7, <1>8, <1>9, <1>10, WriterStep

(* What WriterStep asks of a step that only notes something in the row.    *)
NoteRow(t, row) ==
  /\ row \in LocalRow
  /\ row.root = Row(t).root /\ row.next = Row(t).next /\ row.rows = Row(t).rows
  /\ row.state # "superseded"
  /\ row.state = "complete" <=> Row(t).state = "complete"
  /\ Row(t).state # "recording" => row.state # "recording"

LEMMA NoteStep ==
  ASSUME RecorderInv, NEW t \in Tabs, Open(t), NEW row, NoteRow(t, row), Save(W(t).s, row),
         server' = server
  PROVE  /\ local' \in [Sessions -> LocalRow \cup {NoRow}]
         /\ local'[W(t).s] = row
         /\ \A x \in Sessions : x # W(t).s => local'[x] = local[x]
         /\ \A x \in Sessions : Exists(x)' <=> Exists(x)
         /\ FamilyInv' /\ ChunksInv' /\ Settled
  <1> USE DEF RecorderInv
  <1> PICK s \in Sessions : s = W(t).s
    BY OpenType
  <1>1. Exists(s) /\ Row(t) = local[s] /\ Save(s, row) /\ row \in LocalRow
    BY OwnRow DEF NoteRow
  <1>2. Row(t).state # "superseded"
    BY DEF WriterInv, WriterOk
  <1>3. RowsKept
    BY <1>1, <1>2, SaveKeeps DEF NoteRow
  <1>4. ServerKept
    BY DEF ServerKept
  <1>5. FamilyInv' /\ ChunksInv' /\ Settled
    BY <1>3, <1>4, RowsStep
  <1>6. /\ local' \in [Sessions -> LocalRow \cup {NoRow}]
        /\ local'[s] = row
        /\ \A x \in Sessions : x # s => local'[x] = local[x]
        /\ \A x \in Sessions : Exists(x)' <=> Exists(x)
    BY <1>1, SaveStep
  <1> QED BY <1>5, <1>6

LEMMA LeaveWriterKeeps ==
  ASSUME RecorderInv, NEW t \in Tabs, LeaveWriter(t)
  PROVE  RecorderInv'
  <1> USE DEF RecorderInv
  <1> DEFINE q == [mode |-> "disposed", w |-> W(t)]
             row == [Row(t) EXCEPT !.state = "pending", !.interrupted = TRUE]
  <1>1. Open(t) /\ UNCHANGED <<captured, server, net, lock>>
    BY DEF LeaveWriter, Open, Closed
  <1>2. W(t) \in WriterRow /\ WriterOk(t) /\ page[t] = [mode |-> page[t].mode, w |-> W(t)]
    BY <1>1, OpenType DEF WriterInv
  <1> PICK s \in Sessions : s = W(t).s
    BY <1>1, OpenType
  <1>3. Exists(s) /\ Row(t) \in LocalRow /\ Row(t) = local[s]
    BY <1>1, OwnRow
  <1>4. q \in OpenPage /\ q.w = W(t) /\ q.mode = "disposed"
    BY <1>2 DEF OpenPage
  <1>5. page' = [page EXCEPT ![t] = q]
    <2>1. PICK m, v : page[t] = [mode |-> m, w |-> v] /\ v = W(t)
      BY <1>2
    <2>2. [[mode |-> m, w |-> v] EXCEPT !.mode = "disposed"] = [mode |-> "disposed", w |-> v]
      OBVIOUS
    <2>3. page' = [page EXCEPT ![t] = [page[t] EXCEPT !.mode = "disposed"]]
      BY DEF LeaveWriter
    <2> QED BY <2>1, <2>2, <2>3
  <1>6. /\ page' \in [Tabs -> OpenPage \cup {Closed}]
        /\ page'[t] = q
        /\ \A u \in Tabs : Open(u)' => u = t
        /\ LockInv'
    <2> HIDE DEF q
    <2> QED BY <1>1, <1>4, <1>5, TabStep
  <1>7. W(t)' = W(t) /\ page'[t].mode = "disposed" /\ page'[t].w = W(t)
    BY <1>4, <1>6 DEF W
  <1> HIDE DEF q
  <1>8. /\ captured' \in [Sessions -> [blobs : Nat, gap : BOOLEAN]]
        /\ net' \in SUBSET RequestRow
    BY <1>1 DEF RecorderTypes
  <1>9. /\ local' \in [Sessions -> LocalRow \cup {NoRow}]
        /\ \A x \in Sessions : Exists(x)' <=> Exists(x)
        /\ FamilyInv' /\ ChunksInv' /\ Settled
        /\ WriterOk(t)'
        /\ \A x \in Sessions : local'[x] = local[x] \/ local'[x].interrupted
    <2>1. CASE UNCHANGED local
      <3>1. ServerKept
        BY <1>1 DEF ServerKept
      <3>2. Row(t)' = Row(t)
        BY <2>1, <1>7 DEF Row
      <3>3. WriterOk(t)'
        BY <1>1, <1>2, <1>7, <3>2 DEF WriterOk
      <3>4. local' \in [Sessions -> LocalRow \cup {NoRow}]
            /\ \A x \in Sessions : Exists(x)' <=> Exists(x)
        BY <2>1 DEF RecorderTypes, Exists
      <3> QED BY <2>1, <3>1, <3>3, <3>4, RowsUntouched, RowsStep
    <2>2. CASE W(t).buf = 0 /\ Row(t).state # "complete" /\ Save(W(t).s, row)
      <3>1. /\ row \in LocalRow /\ row.state = "pending" /\ row.interrupted
            /\ row.root = Row(t).root /\ row.next = Row(t).next /\ row.rows = Row(t).rows
        BY <1>3 DEF LocalRow
      <3>2. NoteRow(t, row)
        BY <2>2, <3>1 DEF NoteRow
      <3> HIDE DEF row
      <3>3. /\ local' \in [Sessions -> LocalRow \cup {NoRow}]
            /\ local'[W(t).s] = row
            /\ \A x \in Sessions : x # W(t).s => local'[x] = local[x]
            /\ \A x \in Sessions : Exists(x)' <=> Exists(x)
            /\ FamilyInv' /\ ChunksInv' /\ Settled
        BY <1>1, <2>2, <3>2, NoteStep
      <3>4. Row(t)' = row
        BY <1>7, <3>3 DEF Row
      <3>5. WriterOk(t)'
        BY <1>1, <1>2, <1>7, <2>2, <3>1, <3>4 DEF WriterOk
      <3> QED BY <3>1, <3>3, <3>5
    <2> QED BY <2>1, <2>2 DEF LeaveWriter
  <1>10. \A x \in Sessions : Exists(x)' /\ local'[x].state \in {"pending", "complete"} =>
           \/ local'[x].interrupted
           \/ /\ Exists(x) /\ local[x].state \in {"pending", "complete"}
              /\ local'[x].interrupted = local[x].interrupted /\ local'[x].next = local[x].next
    BY <1>9
  <1> QED BY <1>1, <1>6, <1>7, <1>8, <1>9, <1>10, WriterStep

(* What is captured changes for the writer's session only, and only while  *)
(* its recorder runs.                                                      *)
LEMMA CapturedStep ==
  ASSUME RecorderTypes, NEW s \in Sessions, NEW c \in [blobs : Nat, gap : BOOLEAN],
         captured' = [captured EXCEPT ![s] = c]
  PROVE  /\ captured' \in [Sessions -> [blobs : Nat, gap : BOOLEAN]]
         /\ captured'[s] = c
         /\ \A x \in Sessions : x # s => captured'[x] = captured[x]
  BY DEF RecorderTypes

LEMMA CaptureKeeps ==
  ASSUME RecorderInv, NEW t \in Tabs, Capture(t)
  PROVE  RecorderInv'
  <1> USE DEF RecorderInv
  <1> DEFINE w == [W(t) EXCEPT !.buf = @ + 1, !.stuck = FALSE]
  <1> PICK s \in Sessions : s = W(t).s
    BY OpenType DEF Capture
  <1>1. /\ Open(t) /\ UNCHANGED <<local, server, net, lock>>
        /\ W(t).rec \in {"on", "stopping"}
        /\ captured' = [captured EXCEPT ![s].blobs = @ + 1]
        /\ IF W(t).sealed \/ page[t].mode = "disposed" THEN UNCHANGED page ELSE Becomes(t, w)
    BY DEF Capture
  <1>2. W(t) \in WriterRow /\ WriterOk(t)
    BY <1>1, OpenType DEF WriterInv
  <1>3. ~ W(t).sealed
    BY <1>1, <1>2 DEF WriterOk
  <1>4. /\ w \in WriterRow
        /\ w.s = s /\ w.snap = W(t).snap
        /\ w.pc = W(t).pc /\ w.ask = W(t).ask /\ w.ans = W(t).ans
        /\ w.sealed = W(t).sealed /\ w.finishing = W(t).finishing
        /\ w.buf = W(t).buf + 1 /\ w.cut = W(t).cut /\ w.rec = W(t).rec
    <2>1. PICK v \in WriterRow : v = W(t)
      BY <1>2
    <2>2. PICK b \in Nat : b = v.buf + 1
      BY DEF WriterRow
    <2>3. w = [v EXCEPT !.buf = b, !.stuck = FALSE]
      BY <2>1, <2>2
    <2> HIDE DEF w
    <2>4. /\ w \in WriterRow
          /\ w.s = v.s /\ w.snap = v.snap
          /\ w.pc = v.pc /\ w.ask = v.ask /\ w.ans = v.ans
          /\ w.sealed = v.sealed /\ w.finishing = v.finishing
          /\ w.buf = b /\ w.cut = v.cut /\ w.rec = v.rec
      BY <2>3 DEF WriterRow
    <2> QED BY <2>1, <2>2, <2>4
  <1> HIDE DEF w
  <1>5. /\ captured' \in [Sessions -> [blobs : Nat, gap : BOOLEAN]]
        /\ captured'[s].blobs = captured[s].blobs + 1 /\ captured'[s].gap = captured[s].gap
        /\ \A x \in Sessions : x # s => captured'[x] = captured[x]
        /\ captured[s].blobs \in Nat
    BY <1>1 DEF RecorderTypes
  <1>6. FamilyInv' /\ ChunksInv' /\ Settled
    <2>1. ServerKept
      BY <1>1 DEF ServerKept
    <2> QED BY <1>1, <2>1, RowsUntouched, RowsStep
  <1>7. /\ local' \in [Sessions -> LocalRow \cup {NoRow}]
        /\ net' \in SUBSET RequestRow
        /\ \A x \in Sessions : Exists(x)' <=> Exists(x)
    BY <1>1 DEF RecorderTypes, Exists
  <1>8. /\ page' \in [Tabs -> OpenPage \cup {Closed}]
        /\ \A u \in Tabs : Open(u)' => u = t
        /\ LockInv'
        /\ page'[t].w.s = s /\ page'[t].w.snap = W(t).snap
        /\ page'[t].w.pc = W(t).pc
        /\ page'[t].w.ask = W(t).ask /\ page'[t].w.ans = W(t).ans
        /\ WriterOk(t)'
    <2>0. Row(t) = local[s] /\ local[s].next \in Nat
      BY <1>1, <1>2, OwnRow DEF LocalRow
    <2>1. CASE page[t].mode = "disposed"
      <3>1. page' = page
        BY <1>1, <2>1
      <3>2. /\ \A u \in Tabs : Open(u)' => u = t
            /\ LockInv'
        BY <1>1, <3>1, Alone DEF LockInv, Open
      <3>3. W(t)' = W(t) /\ Row(t)' = Row(t) /\ page'[t].mode = "disposed"
        BY <1>1, <2>1, <3>1 DEF W, Row
      <3>4. WriterOk(t)'
        BY <1>2, <2>1, <3>3 DEF WriterOk
      <3> QED BY <3>1, <3>2, <3>3, <3>4 DEF RecorderTypes, W
    <2>2. CASE page[t].mode # "disposed"
      <3>1. /\ page' \in [Tabs -> OpenPage \cup {Closed}]
            /\ page'[t].w = w /\ page'[t].mode = page[t].mode
            /\ \A u \in Tabs : Open(u)' => u = t
            /\ LockInv'
        BY <1>1, <1>3, <1>4, <2>2, Becoming
      <3>2. W(t)' = w /\ Row(t)' = Row(t)
        BY <1>1, <1>4, <3>1 DEF W, Row
      <3>3. Row(t).state = "recording"
        BY <1>2, <1>3, <2>2 DEF WriterOk
      <3>4. W(t).buf \in Nat
        BY <1>2 DEF WriterRow
      <3>5. WriterOk(t)'
        BY <1>2, <1>4, <1>5, <2>0, <3>1, <3>2, <3>3, <3>4 DEF WriterOk
      <3> QED BY <1>4, <3>1, <3>5
    <2> QED BY <2>1, <2>2
  <1>9. \A x \in Sessions : Exists(x)' /\ local'[x].state \in {"pending", "complete"} =>
           /\ Exists(x) /\ local[x].state \in {"pending", "complete"}
           /\ local'[x].interrupted = local[x].interrupted /\ local'[x].next = local[x].next
    BY <1>1, <1>7
  <1>10. W(t).rec # "off"
    BY <1>1
  <1> QED BY <1>1, <1>5, <1>6, <1>7, <1>8, <1>9, <1>10, WriterStep

(* The recorder loses something, and notes it if it can.                   *)
LEMMA CutKeeps ==
  ASSUME RecorderInv, NEW t \in Tabs, Open(t), NEW w \in WriterRow, Becomes(t, w),
         UNCHANGED <<server, net, lock>>,
         NEW gap \in BOOLEAN, captured' = [captured EXCEPT ![W(t).s].gap = gap],
         gap # captured[W(t).s].gap => W(t).rec # "off",
         UNCHANGED local \/ Save(W(t).s, [Row(t) EXCEPT !.interrupted = TRUE]),
         w.s = W(t).s, w.snap = W(t).snap,
         w.pc = W(t).pc, w.ask = W(t).ask, w.ans = W(t).ans,
         w.sealed = W(t).sealed, w.finishing \in {W(t).finishing, FALSE},
         w.buf = W(t).buf, w.cut,
         W(t).rec = "off" => w.rec = "off"
  PROVE  RecorderInv'
  <1> USE DEF RecorderInv
  <1> DEFINE row == [Row(t) EXCEPT !.interrupted = TRUE]
  <1> PICK s \in Sessions : s = W(t).s
    BY OpenType
  <1>2. W(t) \in WriterRow /\ WriterOk(t)
    BY OpenType DEF WriterInv
  <1>3. Exists(s) /\ Row(t) \in LocalRow /\ Row(t) = local[s]
    BY OwnRow
  <1>4. /\ page' \in [Tabs -> OpenPage \cup {Closed}]
        /\ page'[t].w = w /\ page'[t].mode = page[t].mode
        /\ \A u \in Tabs : Open(u)' => u = t
        /\ LockInv'
    BY Becoming
  <1>5. W(t)' = w
    BY <1>4 DEF W
  <1>6. /\ captured' \in [Sessions -> [blobs : Nat, gap : BOOLEAN]]
        /\ \A x \in Sessions : captured'[x] = captured[x] \/ (x = s /\ W(t).rec # "off")
    <2>1. captured[s] \in [blobs : Nat, gap : BOOLEAN]
      BY DEF RecorderTypes
    <2>2. PICK b, g : captured[s] = [blobs |-> b, gap |-> g]
      BY <2>1
    <2>3. [captured[s] EXCEPT !.gap = gap] = [blobs |-> b, gap |-> gap]
      BY <2>2
    <2>4. captured' = [captured EXCEPT ![s] = [blobs |-> b, gap |-> gap]]
      BY <2>3
    <2>5. [blobs |-> b, gap |-> gap] \in [blobs : Nat, gap : BOOLEAN]
      BY <2>1, <2>2
    <2>6. CASE gap = captured[s].gap
      <3>1. captured[s] = [blobs |-> b, gap |-> gap]
        BY <2>2, <2>6
      <3>2. captured' = captured
        BY <2>4, <3>1 DEF RecorderTypes
      <3> QED BY <3>2 DEF RecorderTypes
    <2>7. CASE gap # captured[s].gap
      BY <2>4, <2>5, <2>7, CapturedStep
    <2> QED BY <2>6, <2>7
  <1>7. /\ local' \in [Sessions -> LocalRow \cup {NoRow}]
        /\ \A x \in Sessions : Exists(x)' <=> Exists(x)
        /\ FamilyInv' /\ ChunksInv' /\ Settled
        /\ WriterOk(t)'
        /\ \A x \in Sessions : local'[x] = local[x] \/ local'[x].interrupted
    <2>1. CASE UNCHANGED local
      <3>1. ServerKept
        BY DEF ServerKept
      <3>2. Row(t)' = Row(t)
        BY <2>1, <1>5 DEF Row
      <3>3. WriterOk(t)'
        BY <1>2, <1>4, <1>5, <3>2 DEF WriterOk
      <3>4. local' \in [Sessions -> LocalRow \cup {NoRow}]
            /\ \A x \in Sessions : Exists(x)' <=> Exists(x)
        BY <2>1 DEF RecorderTypes, Exists
      <3> QED BY <2>1, <3>1, <3>3, <3>4, RowsUntouched, RowsStep
    <2>2. CASE Save(W(t).s, row)
      <3>1. /\ row \in LocalRow /\ row.state = Row(t).state /\ row.interrupted
            /\ row.root = Row(t).root /\ row.next = Row(t).next /\ row.rows = Row(t).rows
        BY <1>3 DEF LocalRow
      <3>2. NoteRow(t, row)
        BY <1>2, <3>1 DEF NoteRow, WriterOk
      <3> HIDE DEF row
      <3>3. /\ local' \in [Sessions -> LocalRow \cup {NoRow}]
            /\ local'[W(t).s] = row
            /\ \A x \in Sessions : x # W(t).s => local'[x] = local[x]
            /\ \A x \in Sessions : Exists(x)' <=> Exists(x)
            /\ FamilyInv' /\ ChunksInv' /\ Settled
        BY <2>2, <3>2, NoteStep
      <3>4. Row(t)' = row
        BY <1>5, <3>3 DEF Row
      <3>5. WriterOk(t)'
        BY <1>2, <1>4, <1>5, <3>1, <3>4 DEF WriterOk
      <3> QED BY <3>1, <3>3, <3>5
    <2> QED BY <2>1, <2>2
  <1>8. \A x \in Sessions : Exists(x)' /\ local'[x].state \in {"pending", "complete"} =>
           \/ local'[x].interrupted
           \/ /\ Exists(x) /\ local[x].state \in {"pending", "complete"}
              /\ local'[x].interrupted = local[x].interrupted /\ local'[x].next = local[x].next
    BY <1>7
  <1>9. net' \in SUBSET RequestRow
    BY DEF RecorderTypes
  <1> QED BY <1>4, <1>6, <1>7, <1>8, <1>9, WriterStep

LEMMA CaptureEndsKeeps ==
  ASSUME RecorderInv, NEW t \in Tabs, CaptureEnds(t)
  PROVE  RecorderInv'
  <1> DEFINE w == [W(t) EXCEPT !.rec = "stopping", !.cut = TRUE]
  <1>1. /\ Open(t) /\ W(t).rec = "on" /\ Becomes(t, w)
        /\ UNCHANGED <<server, net, lock>>
        /\ captured' = [captured EXCEPT ![W(t).s].gap = TRUE]
        /\ UNCHANGED local \/ Save(W(t).s, [Row(t) EXCEPT !.interrupted = TRUE])
    BY DEF CaptureEnds
  <1>2. W(t) \in WriterRow
    BY <1>1, OpenType DEF RecorderInv
  <1>3. /\ w \in WriterRow
        /\ w.s = W(t).s /\ w.snap = W(t).snap
        /\ w.pc = W(t).pc /\ w.ask = W(t).ask /\ w.ans = W(t).ans
        /\ w.sealed = W(t).sealed /\ w.finishing = W(t).finishing
        /\ w.buf = W(t).buf /\ w.cut
    BY <1>2 DEF WriterRow
  <1> HIDE DEF w
  <1> QED BY <1>1, <1>3, CutKeeps

LEMMA PersistFailsKeeps ==
  ASSUME RecorderInv, NEW t \in Tabs, PersistFails(t)
  PROVE  RecorderInv'
  <1> DEFINE pauses == W(t).rec = "on"
             rec == IF pauses THEN "paused" ELSE W(t).rec
             w == [W(t) EXCEPT !.stuck = TRUE, !.finishing = FALSE, !.cut = TRUE, !.rec = rec]
             gap == captured[W(t).s].gap \/ pauses
  <1>1. /\ Open(t)
        /\ UNCHANGED <<server, net, lock>>
        /\ captured' = [captured EXCEPT ![W(t).s].gap = gap]
        /\ UNCHANGED local \/ Save(W(t).s, [Row(t) EXCEPT !.interrupted = TRUE])
    BY DEF PersistFails
  <1>2. Becomes(t, w)
    BY DEF PersistFails
  <1>3. W(t) \in WriterRow /\ W(t).s \in Sessions
    BY <1>1, OpenType DEF RecorderInv
  <1>4. rec \in {"on", "paused", "stopping", "off"} /\ (W(t).rec = "off" => rec = "off")
    BY <1>3 DEF WriterRow
  <1>5. gap \in BOOLEAN /\ (gap # captured[W(t).s].gap => W(t).rec # "off")
    BY <1>3 DEF RecorderInv, RecorderTypes
  <1> HIDE DEF rec, gap
  <1>6. /\ w \in WriterRow
        /\ w.s = W(t).s /\ w.snap = W(t).snap
        /\ w.pc = W(t).pc /\ w.ask = W(t).ask /\ w.ans = W(t).ans
        /\ w.sealed = W(t).sealed /\ w.finishing = FALSE
        /\ w.buf = W(t).buf /\ w.cut /\ w.rec = rec
    BY <1>3, <1>4 DEF WriterRow
  <1> HIDE DEF w
  <1> QED BY <1>1, <1>2, <1>4, <1>5, <1>6, CutKeeps

LEMMA MarkPendingKeeps ==
  ASSUME RecorderInv, NEW t \in Tabs, MarkPending(t)
  PROVE  RecorderInv'
  <1> USE DEF RecorderInv
  <1> DEFINE row == [Row(t) EXCEPT !.state = "pending", !.interrupted = @ \/ W(t).cut]
             w == [W(t) EXCEPT !.finishing = FALSE, !.blocked = FALSE, !.want = TRUE]
  <1>1. /\ Open(t) /\ page[t].mode # "disposed" /\ UNCHANGED <<captured, server, net, lock>>
        /\ W(t).finishing /\ W(t).buf = 0 /\ Row(t).state # "complete"
        /\ Save(W(t).s, row) /\ Becomes(t, w)
    BY DEF MarkPending
  <1>2. W(t) \in WriterRow /\ WriterOk(t)
    BY <1>1, OpenType DEF WriterInv
  <1> PICK s \in Sessions : s = W(t).s
    BY <1>1, OpenType
  <1>3. Exists(s) /\ Row(t) \in LocalRow /\ Row(t) = local[s]
    BY <1>1, OwnRow
  <1>4. /\ w \in WriterRow
        /\ w.s = W(t).s /\ w.snap = W(t).snap
        /\ w.pc = W(t).pc /\ w.ask = W(t).ask /\ w.ans = W(t).ans
        /\ w.sealed = W(t).sealed /\ w.finishing = FALSE
        /\ w.buf = W(t).buf /\ w.cut = W(t).cut /\ w.rec = W(t).rec
    BY <1>2 DEF WriterRow
  <1>5. W(t).sealed /\ W(t).rec = "off" /\ W(t).cut \in BOOLEAN
    BY <1>1, <1>2 DEF WriterOk, WriterRow
  <1>6. /\ row \in LocalRow /\ row.state = "pending"
        /\ row.interrupted = (Row(t).interrupted \/ W(t).cut)
        /\ row.root = Row(t).root /\ row.next = Row(t).next /\ row.rows = Row(t).rows
    BY <1>3, <1>5 DEF LocalRow
  <1>7. NoteRow(t, row)
    BY <1>1, <1>6 DEF NoteRow
  <1> HIDE DEF row, w
  <1>8. /\ page' \in [Tabs -> OpenPage \cup {Closed}]
        /\ page'[t].w = w /\ page'[t].mode = page[t].mode
        /\ \A u \in Tabs : Open(u)' => u = t
        /\ LockInv'
    BY <1>1, <1>4, Becoming
  <1>9. /\ local' \in [Sessions -> LocalRow \cup {NoRow}]
        /\ local'[s] = row
        /\ \A x \in Sessions : x # s => local'[x] = local[x]
        /\ \A x \in Sessions : Exists(x)' <=> Exists(x)
        /\ FamilyInv' /\ ChunksInv' /\ Settled
    BY <1>1, <1>7, NoteStep
  <1>10. WriterOk(t)'
    <2>1. W(t)' = w /\ Row(t)' = row
      BY <1>4, <1>8, <1>9 DEF W, Row
    <2> QED BY <1>1, <1>2, <1>4, <1>5, <1>6, <1>8, <2>1 DEF WriterOk
  <1>11. row.interrupted \/ Whole(s, row.next)
    <2> SUFFICES ASSUME ~ Row(t).interrupted, ~ W(t).cut PROVE Whole(s, row.next)
      BY <1>6
    <2>1. CASE Row(t).state = "recording"
      <3>1. captured[s].blobs = Row(t).next + W(t).buf /\ ~ captured[s].gap
        BY <1>1, <1>2, <2>1 DEF WriterOk
      <3>2. Row(t).next \in Nat
        BY <1>3 DEF LocalRow
      <3>3. row.next = captured[s].blobs
        BY <1>1, <1>6, <3>1, <3>2
      <3>4. \A u \in Tabs : Open(u) => u = t
        BY <1>1, Alone
      <3> QED BY <1>3, <1>5, <3>1, <3>3, <3>4 DEF Whole
    <2>2. CASE Row(t).state = "pending"
      <3>1. Whole(s, local[s].next)
        BY <1>3, <2>2 DEF WholeInv
      <3> QED BY <1>3, <1>6, <3>1
    <2> QED BY <1>1, <1>2, <2>1, <2>2 DEF WriterOk
  <1>12. \A x \in Sessions : Exists(x)' /\ local'[x].state \in {"pending", "complete"} =>
           \/ local'[x].interrupted
           \/ /\ Exists(x) /\ local[x].state \in {"pending", "complete"}
              /\ local'[x].interrupted = local[x].interrupted /\ local'[x].next = local[x].next
           \/ Whole(x, local'[x].next)
    BY <1>9, <1>11
  <1>13. /\ captured' \in [Sessions -> [blobs : Nat, gap : BOOLEAN]]
         /\ net' \in SUBSET RequestRow
    BY <1>1 DEF RecorderTypes
  <1> QED BY <1>1, <1>4, <1>8, <1>9, <1>10, <1>12, <1>13, WriterStep

(* A session that is being recorded is its own family, and nobody else's.  *)
LEMMA RecordingIsRoot ==
  ASSUME RecorderInv, NEW s \in Sessions, Exists(s), local[s].state = "recording"
  PROVE  /\ local[s].root = s
         /\ \A x \in Sessions : Exists(x) /\ local[x].root = s => x = s
         /\ local[s].rows = 0 .. local[s].next - 1
  <1> USE DEF RecorderInv
  <1>1. local[s].root = s
    BY RootType DEF FamilyInv
  <1>2. \A x \in Sessions : Exists(x) /\ local[x].root = s => x = s
    BY DEF FamilyInv
  <1>3. local[s].rows = 0 .. local[s].next - 1
    BY <1>1, <1>2 DEF ChunksInv
  <1> QED BY <1>1, <1>2, <1>3

LEMMA PersistKeeps ==
  ASSUME RecorderInv, NEW t \in Tabs, Persist(t)
  PROVE  RecorderInv'
  <1> USE DEF RecorderInv
  <1> PICK s \in Sessions : s = W(t).s
    BY OpenType DEF Persist
  <1> DEFINE i == Row(t).next
             row == [Row(t) EXCEPT !.next = i + 1, !.rows = @ \cup {i}]
             want == W(t).want \/ ~ W(t).blocked
             rec == IF W(t).rec = "paused" THEN "on" ELSE W(t).rec
             w == [W(t) EXCEPT !.buf = @ - 1, !.want = want, !.rec = rec]
  <1>1. /\ Open(t) /\ page[t].mode # "disposed" /\ UNCHANGED <<captured, server, net, lock>>
        /\ W(t).buf > 0
        /\ Save(W(t).s, row) /\ Becomes(t, w)
    BY DEF Persist
  <1>2. W(t) \in WriterRow /\ WriterOk(t)
    BY <1>1, OpenType DEF WriterInv
  <1>3. Exists(s) /\ Row(t) \in LocalRow /\ Row(t) = local[s]
    BY <1>1, OwnRow
  <1>4. W(t).buf \in Nat /\ i \in Nat /\ want \in BOOLEAN
        /\ rec \in {"on", "paused", "stopping", "off"} /\ (W(t).rec = "off" => rec = "off")
        /\ (W(t).rec # "off" => rec # "off")
    BY <1>2, <1>3 DEF WriterRow, LocalRow
  <1>5. Row(t).state = "recording"
    BY <1>1, <1>2, <1>4 DEF WriterOk
  <1>6. /\ w \in WriterRow
        /\ w.s = s /\ w.snap = W(t).snap
        /\ w.pc = W(t).pc /\ w.ask = W(t).ask /\ w.ans = W(t).ans
        /\ w.sealed = W(t).sealed /\ w.finishing = W(t).finishing
        /\ w.buf = W(t).buf - 1 /\ w.cut = W(t).cut /\ w.rec = rec
    <2>1. PICK v \in WriterRow : v = W(t)
      BY <1>2
    <2>2. PICK b \in Nat : b = W(t).buf - 1
      BY <1>1, <1>4
    <2>3. w = [v EXCEPT !.buf = b, !.want = want, !.rec = rec]
      BY <2>1, <2>2
    <2> HIDE DEF w, want, rec
    <2>4. /\ w \in WriterRow
          /\ w.s = v.s /\ w.snap = v.snap
          /\ w.pc = v.pc /\ w.ask = v.ask /\ w.ans = v.ans
          /\ w.sealed = v.sealed /\ w.finishing = v.finishing
          /\ w.buf = b /\ w.cut = v.cut /\ w.rec = rec
      BY <1>4, <2>3 DEF WriterRow
    <2> QED BY <2>1, <2>2, <2>4
  <1>7. /\ row \in LocalRow /\ row.state = "recording" /\ row.root = Row(t).root
        /\ row.next = i + 1 /\ row.rows = Row(t).rows \cup {i}
    <2>1. PICK v \in LocalRow : v = Row(t)
      BY <1>3
    <2>2. row = [v EXCEPT !.next = i + 1, !.rows = v.rows \cup {i}]
      BY <2>1
    <2>3. i + 1 \in Nat
      BY <1>4
    <2> HIDE DEF row, i
    <2>4. /\ row \in LocalRow /\ row.state = v.state /\ row.root = v.root
          /\ row.next = i + 1 /\ row.rows = v.rows \cup {i}
      BY <1>4, <2>2, <2>3 DEF LocalRow
    <2> QED BY <1>5, <2>1, <2>4
  <1> HIDE DEF w, row
  <1>8. /\ page' \in [Tabs -> OpenPage \cup {Closed}]
        /\ page'[t].w = w /\ page'[t].mode = page[t].mode
        /\ \A u \in Tabs : Open(u)' => u = t
        /\ LockInv'
    BY <1>1, <1>6, Becoming
  <1>9. /\ local' \in [Sessions -> LocalRow \cup {NoRow}]
        /\ local'[s] = row /\ Exists(s)'
        /\ \A x \in Sessions : x # s => local'[x] = local[x]
        /\ \A x \in Sessions : Exists(x)' <=> Exists(x)
    BY <1>1, <1>3, <1>7, SaveStep
  <1>10. /\ local[s].root = s
         /\ \A x \in Sessions : Exists(x) /\ local[x].root = s => x = s
         /\ local[s].rows = 0 .. i - 1
    BY <1>3, <1>5, RecordingIsRoot
  <1>11. Settled
    BY <1>3, <1>5, <1>9 DEF Settled, Exists
  <1>12. FamilyInv'
    <2>1. ASSUME NEW x \in Sessions, Exists(x)'
          PROVE  LET root == local'[x].root IN
                 /\ local'[root] # NoRow /\ local'[root].root = root
                 /\ local'[root].next = local'[x].next
                 /\ root # x => local'[root].state = "superseded" /\ local'[x].state # "recording"
      <3>1. CASE x = s
        BY <1>3, <1>7, <1>9, <1>10, <3>1 DEF Exists
      <3>2. CASE x # s
        <4> PICK root \in Sessions : root = local[x].root
          BY <1>9, <2>1, RootType
        <4>1. /\ Exists(x) /\ local'[x] = local[x] /\ root # s
              /\ local'[root] = local[root]
          BY <1>9, <1>10, <2>1, <3>2
        <4>2. /\ Exists(root) /\ local[root].root = root /\ local[root].next = local[x].next
              /\ root # x => local[root].state = "superseded" /\ local[x].state # "recording"
          BY <4>1 DEF FamilyInv
        <4> QED BY <4>1, <4>2 DEF Exists
      <3> QED BY <3>1, <3>2
    <2> QED BY <2>1 DEF FamilyInv, Exists
  <1>13. ChunksInv'
    <2>1. ASSUME NEW x \in Sessions, Exists(x)', local'[x].state = "complete"
          PROVE  server'[x].state = "COMPLETE" /\ server'[x].expected = local'[x].next
      BY <1>1, <1>7, <1>9, <2>1 DEF ChunksInv
    <2>2. ASSUME NEW x \in Sessions, Exists(x)', local'[x].root = x
          PROVE  \/ local'[x].rows = 0 .. local'[x].next - 1
                 \/ \E y \in Sessions :
                      Exists(y)' /\ local'[y].root = x /\ local'[y].state = "complete"
      <3>1. CASE x = s
        <4>1. 0 .. (i + 1) - 1 = (0 .. i - 1) \cup {i}
          BY <1>4
        <4> QED BY <1>3, <1>7, <1>9, <1>10, <3>1, <4>1
      <3>2. CASE x # s
        <4>1. Exists(x) /\ local'[x] = local[x]
          BY <1>9, <2>2, <3>2
        <4>2. ASSUME NEW y \in Sessions, Exists(y), local[y].root = x, local[y].state = "complete"
              PROVE  Exists(y)' /\ local'[y].root = x /\ local'[y].state = "complete"
          BY <1>3, <1>5, <1>9, <4>2
        <4> QED BY <2>2, <4>1, <4>2 DEF ChunksInv
      <3> QED BY <3>1, <3>2
    <2> QED BY <2>1, <2>2 DEF ChunksInv
  <1>14. WriterOk(t)'
    <2>1. W(t)' = w /\ Row(t)' = row
      BY <1>6, <1>8, <1>9 DEF W, Row
    <2>2. ~ W(t).cut => captured[s].blobs = Row(t).next + W(t).buf /\ ~ captured[s].gap
      BY <1>1, <1>2, <1>5 DEF WriterOk
    <2>3. ~ W(t).cut => captured'[s].blobs = row.next + w.buf /\ ~ captured'[s].gap
      BY <1>1, <1>4, <1>6, <1>7, <2>2
    <2>4. (w.finishing => w.sealed) /\ (w.sealed => w.rec = "off")
      BY <1>2, <1>4, <1>6 DEF WriterOk
    <2> QED BY <1>6, <1>7, <1>8, <2>1, <2>3, <2>4 DEF WriterOk
  <1>15. \A x \in Sessions : Exists(x)' /\ local'[x].state \in {"pending", "complete"} =>
           /\ Exists(x) /\ local[x].state \in {"pending", "complete"}
           /\ local'[x].interrupted = local[x].interrupted /\ local'[x].next = local[x].next
    BY <1>7, <1>9
  <1>16. /\ captured' \in [Sessions -> [blobs : Nat, gap : BOOLEAN]]
         /\ net' \in SUBSET RequestRow
    BY <1>1 DEF RecorderTypes
  <1>17. page'[t].w.s = W(t).s /\ (W(t).rec = "off" => page'[t].w.rec = "off")
    BY <1>4, <1>6, <1>8
  <1> QED BY <1>1, <1>6, <1>8, <1>9, <1>11, <1>12, <1>13, <1>14, <1>15, <1>16, <1>17, WriterStep

LEMMA CloseKeeps ==
  ASSUME RecorderInv, NEW t \in Tabs, ClosePage(t) \/ Crash(t)
  PROVE  RecorderInv'
  <1> USE DEF RecorderInv
  <1>1. /\ Open(t) /\ page' = [page EXCEPT ![t] = Closed]
        /\ UNCHANGED <<local, captured, server, net>>
    BY DEF ClosePage, Crash, Open, Closed
  <1>2. page' \in [Tabs -> OpenPage \cup {Closed}] /\ \A u \in Tabs : ~ Open(u)'
    <2>1. \A u \in Tabs : page'[u] = IF u = t THEN Closed ELSE page[u]
      BY <1>1 DEF RecorderTypes
    <2> QED BY <1>1, <2>1, Alone DEF RecorderTypes, Open
  <1>3. LockInv' /\ WriterInv' /\ AnswerInv'
    BY <1>2 DEF LockInv, WriterInv, AnswerInv
  <1>4. RecorderTypes'
    BY <1>1, <1>2 DEF RecorderTypes
  <1>5. Quiet
    <2>1. \A s \in Sessions : Exists(s) => Exists(s)'
      BY <1>1 DEF Exists
    <2> QED BY <1>1, <1>2, <2>1, QuietStep
  <1>6. FamilyInv' /\ ChunksInv'
    <2>1. ServerKept
      BY <1>1 DEF ServerKept
    <2> QED BY <1>1, <2>1, RowsUntouched, RowsStep
  <1>7. WholeInv'
    <2>1. \A s \in Sessions : Exists(s)' <=> Exists(s)
      BY <1>1 DEF Exists
    <2> QED BY <1>1, <1>4, <1>5, <2>1, WholeStep
  <1> QED BY <1>3, <1>4, <1>6, <1>7

(* A page with a fresh writer takes the lock.                              *)
LEMMA OpeningStep ==
  ASSUME RecorderTypes, LockInv, NEW t \in Tabs, page[t] = Closed, MayLock(t), lock' = t,
         NEW w \in WriterRow, w.pc = "idle", w.snap = NoRow,
         page' = [page EXCEPT ![t] = Opened(w)]
  PROVE  /\ page' \in [Tabs -> OpenPage \cup {Closed}]
         /\ \A u \in Tabs : Open(u)' => u = t
         /\ page'[t].mode = "open" /\ page'[t].w = w
         /\ LockInv' /\ AnswerInv'
  <1>1. \A u \in Tabs : ~ Open(u)
    BY LockAssumption DEF LockInv, MayLock, Open
  <1>2. Opened(w) \in OpenPage /\ Opened(w).mode = "open" /\ Opened(w).w = w
    BY DEF Opened, OpenPage
  <1>3. /\ page' \in [Tabs -> OpenPage \cup {Closed}]
        /\ page'[t] = Opened(w)
        /\ \A u \in Tabs : u # t => page'[u] = page[u]
    BY <1>2 DEF RecorderTypes
  <1>4. \A u \in Tabs : Open(u)' => u = t
    BY <1>1, <1>3 DEF Open
  <1>5. AnswerInv'
    <2>1. SnapOk(t)'
      BY <1>2, <1>3 DEF SnapOk, W, NoRow
    <2>2. AskOk(t)'
      BY <1>2, <1>3 DEF AskOk, W
    <2> QED BY <1>4, <2>1, <2>2 DEF AnswerInv
  <1> QED BY <1>2, <1>3, <1>4, <1>5 DEF LockInv

LEMMA BeginKeeps ==
  ASSUME RecorderInv, NEW t \in Tabs, NEW s \in Sessions, Begin(t, s)
  PROVE  RecorderInv'
  <1> USE DEF RecorderInv
  <1> DEFINE row == [state |-> "recording", interrupted |-> FALSE, next |-> 0, root |-> s,
                     rows |-> {}, sent |-> {}]
             w == Writer(s, "on")
  <1>1. /\ page[t] = Closed /\ MayLock(t) /\ lock' = t
        /\ ~ Exists(s)
        /\ UNCHANGED <<captured, server, net>>
        /\ local' = [local EXCEPT ![s] = row]
        /\ page' = [page EXCEPT ![t] = Opened(w)]
    BY DEF Begin, Used, Save
  <1>2. /\ w \in WriterRow /\ w.pc = "idle" /\ w.snap = NoRow /\ w.s = s /\ w.buf = 0
        /\ ~ w.finishing /\ ~ w.sealed
    BY DEF Writer, WriterRow
  <1>3. /\ row \in LocalRow /\ row # NoRow /\ row.state = "recording" /\ row.next = 0
        /\ row.root = s /\ row.rows = {}
    <2>1. row.state # NoRow.state
      BY DEF NoRow
    <2> QED BY <2>1 DEF LocalRow
  <1> HIDE DEF row, w
  <1>4. /\ local' \in [Sessions -> LocalRow \cup {NoRow}]
        /\ local'[s] = row /\ Exists(s)'
        /\ \A x \in Sessions : x # s => local'[x] = local[x]
    BY <1>1, <1>3 DEF RecorderTypes, Exists
  <1>5. /\ page' \in [Tabs -> OpenPage \cup {Closed}]
        /\ \A u \in Tabs : Open(u)' => u = t
        /\ page'[t].mode = "open" /\ page'[t].w = w
        /\ LockInv' /\ AnswerInv'
    BY <1>1, <1>2, OpeningStep
  <1>6. RecorderTypes'
    BY <1>1, <1>4, <1>5 DEF RecorderTypes
  <1>7. WriterInv'
    <2>1. Row(t)' = row /\ W(t)' = w
      BY <1>2, <1>4, <1>5 DEF Row, W
    <2>2. captured'[s].blobs = 0 /\ ~ captured'[s].gap
      BY <1>1 DEF WholeInv
    <2>3. WriterOk(t)'
      BY <1>2, <1>3, <2>1, <2>2 DEF WriterOk
    <2> QED BY <1>5, <2>3 DEF WriterInv
  <1>8. Quiet
    <2>1. \A x \in Sessions : Exists(x) => Exists(x)'
      BY <1>4 DEF Exists
    <2>2. \A u \in Tabs : Open(u)' => ~ Exists(page'[u].w.s)
      BY <1>1, <1>2, <1>5
    <2> QED BY <1>1, <2>1, <2>2, QuietStep
  <1>9. \A x \in Sessions : Exists(x) => x # s /\ local'[x] = local[x] /\ local[x].root # s
                                          /\ local'[local[x].root] = local[local[x].root]
    <2>1. ASSUME NEW x \in Sessions, Exists(x)
          PROVE  x # s /\ local[x].root # s /\ local[x].root \in Sessions
      BY <1>1, <2>1, RootType DEF FamilyInv
    <2> QED BY <1>4, <2>1
  <1>10. FamilyInv'
    <2>1. ASSUME NEW x \in Sessions, Exists(x)'
          PROVE  LET root == local'[x].root IN
                 /\ local'[root] # NoRow /\ local'[root].root = root
                 /\ local'[root].next = local'[x].next
                 /\ root # x => local'[root].state = "superseded" /\ local'[x].state # "recording"
      <3>1. CASE x = s
        BY <1>3, <1>4, <3>1
      <3>2. CASE x # s
        <4>1. Exists(x)
          BY <1>4, <2>1, <3>2 DEF Exists
        <4> QED BY <1>9, <4>1 DEF FamilyInv, Exists
      <3> QED BY <3>1, <3>2
    <2> QED BY <2>1 DEF FamilyInv, Exists
  <1>11. ChunksInv'
    <2>1. ASSUME NEW x \in Sessions, Exists(x)', local'[x].state = "complete"
          PROVE  server'[x].state = "COMPLETE" /\ server'[x].expected = local'[x].next
      <3>1. x # s
        BY <1>3, <1>4, <2>1
      <3> QED BY <1>1, <1>4, <2>1, <3>1 DEF ChunksInv, Exists
    <2>2. ASSUME NEW x \in Sessions, Exists(x)', local'[x].root = x
          PROVE  \/ local'[x].rows = 0 .. local'[x].next - 1
                 \/ \E y \in Sessions :
                      Exists(y)' /\ local'[y].root = x /\ local'[y].state = "complete"
      <3>1. CASE x = s
        <4>1. 0 .. 0 - 1 = {}
          OBVIOUS
        <4> QED BY <1>3, <1>4, <3>1, <4>1
      <3>2. CASE x # s
        <4>1. Exists(x) /\ local'[x] = local[x]
          BY <1>4, <2>2, <3>2 DEF Exists
        <4>2. ASSUME NEW y \in Sessions, Exists(y), local[y].root = x, local[y].state = "complete"
              PROVE  Exists(y)' /\ local'[y].root = x /\ local'[y].state = "complete"
          BY <1>9, <4>2 DEF Exists
        <4> QED BY <2>2, <4>1, <4>2 DEF ChunksInv
      <3> QED BY <3>1, <3>2
    <2> QED BY <2>1, <2>2 DEF ChunksInv
  <1>12. WholeInv'
    <2>1. \A x \in Sessions : ~ Exists(x)' => ~ Exists(x) /\ captured'[x] = captured[x]
      BY <1>1, <1>4 DEF Exists
    <2>2. \A x \in Sessions : Exists(x)' /\ local'[x].state \in {"pending", "complete"} =>
            /\ Exists(x) /\ local[x].state \in {"pending", "complete"}
            /\ local'[x].interrupted = local[x].interrupted /\ local'[x].next = local[x].next
      BY <1>3, <1>4 DEF Exists
    <2> QED BY <1>1, <1>6, <1>8, <2>1, <2>2, WholeStep
  <1> QED BY <1>5, <1>6, <1>7, <1>10, <1>11, <1>12

LEMMA RecoverKeeps ==
  ASSUME RecorderInv, NEW t \in Tabs, NEW s \in Sessions, Recover(t, s)
  PROVE  RecorderInv'
  <1> USE DEF RecorderInv
  <1> DEFINE cut == local[s].state = "recording" \/ local[s].interrupted
             w == [Writer(s, "off") EXCEPT !.sealed = TRUE, !.finishing = TRUE, !.cut = cut]
  <1>1. /\ page[t] = Closed /\ MayLock(t) /\ lock' = t
        /\ Exists(s) /\ local[s].state \notin {"complete", "superseded"}
        /\ UNCHANGED <<local, captured, server, net>>
        /\ page' = [page EXCEPT ![t] = Opened(w)]
    BY DEF Recover, Listed
  <1>2. /\ local[s].state \in {"recording", "pending"}
        /\ cut \in BOOLEAN /\ (local[s].state = "recording" => cut)
    BY <1>1, RowType DEF LocalRow
  <1> HIDE DEF cut
  <1>3. /\ w \in WriterRow /\ w.pc = "idle" /\ w.snap = NoRow /\ w.s = s /\ w.buf = 0
        /\ w.finishing /\ w.sealed /\ w.rec = "off" /\ w.cut = cut
    BY <1>2 DEF Writer, WriterRow
  <1> HIDE DEF w
  <1>4. /\ page' \in [Tabs -> OpenPage \cup {Closed}]
        /\ \A u \in Tabs : Open(u)' => u = t
        /\ page'[t].mode = "open" /\ page'[t].w = w
        /\ LockInv' /\ AnswerInv'
    BY <1>1, <1>3, OpeningStep
  <1>5. RecorderTypes'
    BY <1>1, <1>4 DEF RecorderTypes
  <1>6. WriterInv'
    <2>1. Row(t)' = local[s] /\ W(t)' = w
      BY <1>1, <1>3, <1>4 DEF Row, W
    <2>2. WriterOk(t)'
      BY <1>2, <1>3, <2>1 DEF WriterOk
    <2> QED BY <1>4, <2>2 DEF WriterInv
  <1>7. \A x \in Sessions : Exists(x)' <=> Exists(x)
    BY <1>1 DEF Exists
  <1>8. Quiet
    <2>1. \A u \in Tabs : Open(u)' => page'[u].w.rec = "off"
      BY <1>3, <1>4
    <2> QED BY <1>1, <1>7, <2>1, QuietStep
  <1>9. FamilyInv' /\ ChunksInv'
    <2>1. ServerKept
      BY <1>1 DEF ServerKept
    <2> QED BY <1>1, <2>1, RowsUntouched, RowsStep
  <1>10. WholeInv'
    BY <1>1, <1>5, <1>7, <1>8, WholeStep
  <1> QED BY <1>4, <1>5, <1>6, <1>9, <1>10

-----------------------------------------------------------------------------
(* uploadLoop.                                                             *)

(* Asking the server for something, with what was read to be saved.        *)
LEMMA AskKeeps ==
  ASSUME RecorderInv, NEW t \in Tabs, Open(t),
         NEW v \in WriterRow, v.s = W(t).s, v.rec = W(t).rec, v.buf = W(t).buf,
         v.cut = W(t).cut, v.sealed = W(t).sealed, v.finishing = W(t).finishing,
         v.snap \in {W(t).snap, NoRow, Read(Row(t))},
         NEW pc \in {"init", "put", "finish"},
         NEW r \in RequestRow, r.s = W(t).s, pc = "init" => r.op = "init",
         r.op # "finish" \/ r.flag \/ Whole(r.s, r.arg),
         Ask(t, v, pc, r), UNCHANGED <<local, captured, server, lock>>
  PROVE  RecorderInv'
  <1> DEFINE w == [v EXCEPT !.pc = pc, !.ask = r, !.ans = None]
  <1>1. Becomes(t, w) /\ net' = net \cup {r}
    BY DEF Ask
  <1>2. /\ w \in WriterRow
        /\ w.s = v.s /\ w.rec = v.rec /\ w.buf = v.buf /\ w.cut = v.cut
        /\ w.sealed = v.sealed /\ w.finishing = v.finishing /\ w.snap = v.snap
        /\ w.pc = pc /\ w.ask = r /\ w.ans = None
    BY DEF WriterRow
  <1> HIDE DEF w
  <1>3. net' \in SUBSET RequestRow
    BY <1>1 DEF RecorderInv, RecorderTypes
  <1>4. \A x \in net' : x \in net \/ x.op # "finish" \/ x.flag \/ Whole(x.s, x.arg)
    BY <1>1
  <1>5. WriterOk(t)
    BY DEF RecorderInv, WriterInv
  <1>6. /\ w.s = W(t).s /\ (W(t).rec = "off" => w.rec = "off")
        /\ w.snap \in {W(t).snap, NoRow, Read(Row(t))}
        /\ w.ask \in RequestRow /\ w.ask.s = W(t).s /\ w.ans = None
        /\ (w.pc = "init" => w.ask.op = "init")
        /\ (w.finishing => w.sealed) /\ (w.sealed => w.rec = "off")
        /\ (W(t).sealed => w.sealed) /\ w.buf = W(t).buf /\ w.cut = W(t).cut
    BY <1>2, <1>5 DEF WriterOk
  <1> QED BY <1>1, <1>2, <1>3, <1>4, <1>6, WriterOnly

LEMMA ReadType ==
  ASSUME NEW row \in LocalRow
  PROVE  /\ Read(row) \in Snapshot /\ Read(row).state = row.state
         /\ Read(row).next = row.next /\ Read(row).interrupted = row.interrupted
  BY DEF LocalRow, Snapshot, Read

(* Asking to finish what was read, when that was to be saved.              *)
LEMMA AskFinishKeeps ==
  ASSUME RecorderInv, NEW t \in Tabs, Open(t),
         NEW v \in WriterRow, v.s = W(t).s, v.rec = W(t).rec, v.buf = W(t).buf,
         v.cut = W(t).cut, v.sealed = W(t).sealed, v.finishing = W(t).finishing,
         v.snap \in {W(t).snap, Read(Row(t))}, v.snap.state = "pending",
         AskFinish(t, v), UNCHANGED <<local, captured, server, lock>>
  PROVE  RecorderInv'
  <1> DEFINE r == Request("finish", v.s, v.snap.next, v.snap.interrupted)
  <1>0. PICK s \in Sessions : s = W(t).s /\ Row(t) = local[s]
                              /\ local[s] \in LocalRow /\ Exists(s)
    BY OpenType, OwnRow DEF RecorderInv
  <1>1. v.snap \in Snapshot
    <2>1. v.snap \in Snapshot \cup {NoRow}
      BY DEF WriterRow
    <2>2. v.snap # NoRow
      BY DEF NoRow
    <2> QED BY <2>1, <2>2
  <1>2. v.snap.interrupted \/ Whole(s, v.snap.next)
    <2>1. CASE v.snap = W(t).snap
      BY <1>0, <2>1 DEF RecorderInv, AnswerInv, SnapOk
    <2>2. CASE v.snap = Read(Row(t))
      <3>1. /\ local[s].state = "pending" /\ v.snap.next = local[s].next
            /\ v.snap.interrupted = local[s].interrupted
        BY <1>0, <2>2, ReadType
      <3> QED BY <1>0, <3>1 DEF RecorderInv, WholeInv
    <2> QED BY <2>1, <2>2
  <1>3. /\ r \in RequestRow /\ r.s = s /\ r.op = "finish"
        /\ r.arg = v.snap.next /\ r.flag = v.snap.interrupted
    BY <1>0, <1>1 DEF Request, RequestRow, Snapshot
  <1>4. Ask(t, v, "finish", r)
    BY DEF AskFinish
  <1> HIDE DEF r
  <1> QED BY <1>0, <1>2, <1>3, <1>4, AskKeeps

LEMMA ReadRowKeeps ==
  ASSUME RecorderInv, NEW t \in Tabs, ReadRow(t)
  PROVE  RecorderInv'
  <1>1. Open(t) /\ UNCHANGED <<local, captured, server, lock>>
    BY DEF ReadRow
  <1>2. CASE Becomes(t, [W(t) EXCEPT !.want = FALSE]) /\ UNCHANGED net
    <2>1. [W(t) EXCEPT !.want = FALSE] \in RestForms(W(t), "none")
      BY DEF RestForms
    <2> QED BY <1>1, <1>2, <2>1, RestKeeps
  <1>3. CASE Ask(t, [W(t) EXCEPT !.want = FALSE, !.snap = Read(Row(t))], "init",
                 Request("init", W(t).s, 0, FALSE))
    <2> DEFINE v == [W(t) EXCEPT !.want = FALSE, !.snap = Read(Row(t))]
               r == Request("init", W(t).s, 0, FALSE)
    <2>1. W(t) \in WriterRow /\ Read(Row(t)) \in Snapshot
      BY <1>1, OpenType, OwnRow, ReadType DEF RecorderInv
    <2>2. /\ v \in WriterRow /\ v.s = W(t).s /\ v.rec = W(t).rec /\ v.buf = W(t).buf
          /\ v.cut = W(t).cut /\ v.sealed = W(t).sealed /\ v.finishing = W(t).finishing
          /\ v.snap = Read(Row(t))
      BY <2>1 DEF WriterRow
    <2>3. r \in RequestRow /\ r.s = W(t).s /\ r.op = "init"
      BY <1>1, OpenType DEF Request, RequestRow, RecorderInv
    <2>4. Ask(t, v, "init", r)
      BY <1>3
    <2> HIDE DEF v, r
    <2> QED BY <1>1, <2>2, <2>3, <2>4, AskKeeps
  <1> QED BY <1>2, <1>3 DEF ReadRow

(* Some chunk is the first that is not sent.                               *)
LEMMA FirstUnsent ==
  ASSUME NEW S \in SUBSET Nat, S # {}
  PROVE  Min(S) \in Nat
  <1>1. PICK i \in S : \A x \in S : ~ (<<x, i>> \in OpToRel(<, Nat))
    BY NatLessThanWellFounded, WFMin, Zenon
  <1>2. ASSUME NEW x \in S PROVE i <= x
    <2>1. ~ (x < i) /\ x \in Nat /\ i \in Nat
      BY <1>1 DEF OpToRel
    <2> QED BY <2>1
  <1> QED BY <1>2 DEF Min

LEMMA NextUnsentKeeps ==
  ASSUME RecorderInv, NEW t \in Tabs, NextUnsent(t)
  PROVE  RecorderInv'
  <1> DEFINE unsent == Row(t).rows \ Row(t).sent
             r == Request("put", W(t).s, Min(unsent), FALSE)
             v == [W(t) EXCEPT !.snap = Read(Row(t))]
  <1>1. Open(t) /\ UNCHANGED <<local, captured, server, lock>>
    BY DEF NextUnsent, Loop
  <1>2. /\ W(t) \in WriterRow /\ W(t).s \in Sessions /\ Row(t) \in LocalRow
        /\ Read(Row(t)) \in Snapshot /\ Read(Row(t)).state = Row(t).state
    BY <1>1, OpenType, OwnRow, ReadType DEF RecorderInv
  <1>3. CASE unsent # {} /\ Ask(t, W(t), "put", r)
    <2>1. Min(unsent) \in Nat
      <3>1. unsent \in SUBSET Nat
        BY <1>2 DEF LocalRow
      <3> QED BY <1>3, <3>1, FirstUnsent
    <2>2. r \in RequestRow /\ r.s = W(t).s /\ r.op = "put"
      <3> HIDE DEF unsent
      <3> QED BY <1>2, <2>1 DEF Request, RequestRow
    <2> HIDE DEF r
    <2> QED BY <1>1, <1>2, <1>3, <2>2, AskKeeps
  <1>4. CASE Row(t).state = "pending" /\ AskFinish(t, v)
    <2>1. /\ v \in WriterRow /\ v.s = W(t).s /\ v.rec = W(t).rec /\ v.buf = W(t).buf
          /\ v.cut = W(t).cut /\ v.sealed = W(t).sealed /\ v.finishing = W(t).finishing
          /\ v.snap = Read(Row(t))
      BY <1>2 DEF WriterRow
    <2> HIDE DEF v
    <2> QED BY <1>1, <1>2, <1>4, <2>1, AskFinishKeeps
  <1>5. CASE (Becomes(t, Stops(W(t), "none")) \/ Becomes(t, Rests(W(t)))) /\ UNCHANGED net
    <2>1. Stops(W(t), "none") \in RestForms(W(t), "none") /\ Rests(W(t)) \in RestForms(W(t), "none")
      BY DEF RestForms
    <2> QED BY <1>1, <1>5, <2>1, RestKeeps
  <1> QED BY <1>3, <1>4, <1>5 DEF NextUnsent

(* What an answer says, when it is one.                                    *)
LEMMA AnswerType ==
  ASSUME RecorderInv, NEW t \in Tabs, NEW pc \in {"init", "put", "finish"}, Answered(t, pc)
  PROVE  /\ Open(t) /\ W(t).ans \in AnswerRow /\ W(t).pc = pc
         /\ W(t).ask \in RequestRow /\ W(t).ask.s = W(t).s
         /\ W(t).ans.state = "COMPLETE" =>
              server[W(t).s].state = "COMPLETE" /\ server[W(t).s].expected = W(t).ans.expected
         /\ pc = "init" => W(t).ans.state \in {"OPEN", "FINALIZING", "COMPLETE", "ABORTED"}
  <1>1. Open(t) /\ W(t).pc = pc /\ W(t).ans # None
    BY DEF Answered, Loop
  <1>2. W(t) \in WriterRow /\ AskOk(t)
    BY <1>1, OpenType DEF RecorderInv, AnswerInv
  <1> QED BY <1>1, <1>2 DEF AskOk, WriterRow

(* What the server finished is marked, and its chunks go.                  *)
LEMMA CompletedStep ==
  ASSUME RecorderInv, NEW s \in Sessions, Exists(s), local[s].state \in {"pending", "complete"},
         server' = server, server[s].state = "COMPLETE", server[s].expected = local[s].next,
         local' = Completed(s)
  PROVE  /\ local' \in [Sessions -> LocalRow \cup {NoRow}]
         /\ \A x \in Sessions : Exists(x)' <=> Exists(x)
         /\ local'[s].state = "complete"
         /\ \A x \in Sessions : Exists(x) =>
              /\ local'[x].next = local[x].next /\ local'[x].interrupted = local[x].interrupted
              /\ x # s => local'[x].state = local[x].state
         /\ FamilyInv' /\ ChunksInv' /\ Settled
  <1> USE DEF RecorderInv
  <1> PICK root \in Sessions : root = local[s].root
    BY RootType
  <1>1. /\ Exists(root) /\ local[root].root = root
        /\ root # s => local[root].state = "superseded"
    BY DEF FamilyInv
  <1>2. ASSUME NEW x \in Sessions
        PROVE  local'[x] = CASE x = s -> [local[s] EXCEPT !.state = "complete", !.rows = {}]
                             [] x # s /\ x = root -> [local[x] EXCEPT !.rows = {}]
                             [] OTHER -> local[x]
    BY DEF Completed
  <1>3. ASSUME NEW row \in LocalRow
        PROVE  /\ [row EXCEPT !.state = "complete", !.rows = {}] \in LocalRow
               /\ [row EXCEPT !.rows = {}] \in LocalRow
               /\ \A v \in {[row EXCEPT !.state = "complete", !.rows = {}],
                            [row EXCEPT !.rows = {}]} :
                    v.root = row.root /\ v.next = row.next /\ v.interrupted = row.interrupted
               /\ [row EXCEPT !.state = "complete", !.rows = {}].state = "complete"
               /\ [row EXCEPT !.rows = {}].state = row.state
    BY DEF LocalRow
  <1>4. ASSUME NEW x \in Sessions, Exists(x)
        PROVE  /\ local'[x] \in LocalRow
               /\ local'[x].next = local[x].next /\ local'[x].interrupted = local[x].interrupted
               /\ local'[x].root = local[x].root
               /\ IF x = s THEN local'[x].state = "complete"
                           ELSE local'[x].state = local[x].state
               /\ x \notin {s, root} => local'[x].rows = local[x].rows
    <2>1. local[x] \in LocalRow
      BY <1>4, RowType
    <2>2. CASE x = s
      <3> DEFINE v == [local[x] EXCEPT !.state = "complete", !.rows = {}]
      <3>1. local'[x] = v
        BY <1>2, <2>2
      <3>2. /\ v \in LocalRow /\ v.state = "complete" /\ v.root = local[x].root
            /\ v.next = local[x].next /\ v.interrupted = local[x].interrupted
        BY <1>3, <2>1
      <3> HIDE DEF v
      <3> QED BY <2>2, <3>1, <3>2
    <2>3. CASE x # s /\ x = root
      <3> DEFINE v == [local[x] EXCEPT !.rows = {}]
      <3>1. local'[x] = v
        BY <1>2, <2>3
      <3>2. /\ v \in LocalRow /\ v.state = local[x].state /\ v.root = local[x].root
            /\ v.next = local[x].next /\ v.interrupted = local[x].interrupted
        BY <1>3, <2>1
      <3> HIDE DEF v
      <3> QED BY <2>3, <3>1, <3>2
    <2>4. CASE x # s /\ x # root
      BY <1>2, <2>1, <2>4
    <2> QED BY <2>2, <2>3, <2>4
  <1>5. ASSUME NEW x \in Sessions, ~ Exists(x) PROVE local'[x] = NoRow
    BY <1>1, <1>2, <1>5 DEF Exists
  <1>6. ASSUME NEW row \in LocalRow PROVE row # NoRow
    <2>1. row.state # NoRow.state
      BY DEF LocalRow, NoRow
    <2> QED BY <2>1
  <1>7. local' \in [Sessions -> LocalRow \cup {NoRow}]
    <2>1. \A x \in Sessions : local'[x] \in LocalRow \cup {NoRow}
      BY <1>4, <1>5
    <2>2. local' = [x \in Sessions |-> local'[x]]
      BY DEF Completed
    <2> QED BY <2>1, <2>2
  <1>8. \A x \in Sessions : Exists(x)' <=> Exists(x)
    BY <1>4, <1>5, <1>6 DEF Exists
  <1>9. Settled
    BY <1>4, <1>6 DEF Settled
  <1>10. FamilyInv'
    <2>1. ASSUME NEW x \in Sessions, Exists(x)'
          PROVE  LET rt == local'[x].root IN
                 /\ local'[rt] # NoRow /\ local'[rt].root = rt
                 /\ local'[rt].next = local'[x].next
                 /\ rt # x => local'[rt].state = "superseded" /\ local'[x].state # "recording"
      <3> PICK rt \in Sessions : rt = local[x].root
        BY <1>8, <2>1, RootType
      <3>1. Exists(x) /\ local'[x].root = rt /\ local'[x].next = local[x].next
        BY <1>4, <1>8, <2>1
      <3>2. /\ Exists(rt) /\ local[rt].root = rt /\ local[rt].next = local[x].next
            /\ rt # x => local[rt].state = "superseded" /\ local[x].state # "recording"
        BY <3>1 DEF FamilyInv
      <3>3. local'[rt] # NoRow /\ local'[rt].root = rt /\ local'[rt].next = local[rt].next
        BY <1>4, <1>6, <3>2
      <3>4. rt # x => local'[rt].state = "superseded" /\ local'[x].state # "recording"
        BY <1>4, <3>1, <3>2
      <3> QED BY <3>1, <3>2, <3>3, <3>4
    <2> QED BY <2>1 DEF FamilyInv, Exists
  <1>11. ChunksInv'
    <2>1. ASSUME NEW x \in Sessions, Exists(x)', local'[x].state = "complete"
          PROVE  server'[x].state = "COMPLETE" /\ server'[x].expected = local'[x].next
      BY <1>4, <1>8, <2>1 DEF ChunksInv
    <2>2. ASSUME NEW x \in Sessions, Exists(x)', local'[x].root = x
          PROVE  \/ local'[x].rows = 0 .. local'[x].next - 1
                 \/ \E y \in Sessions :
                      Exists(y)' /\ local'[y].root = x /\ local'[y].state = "complete"
      <3>1. CASE x \in {s, root}
        <4>1. x = root
          BY <1>4, <1>8, <2>2, <3>1
        <4>2. Exists(s)' /\ local'[s].root = root /\ local'[s].state = "complete"
          BY <1>4, <1>8
        <4> QED BY <4>1, <4>2
      <3>2. CASE x \notin {s, root}
        <4>1. /\ Exists(x) /\ local[x].root = x
              /\ local'[x].rows = local[x].rows /\ local'[x].next = local[x].next
          BY <1>4, <1>8, <2>2, <3>2
        <4>2. ASSUME NEW y \in Sessions, Exists(y), local[y].root = x, local[y].state = "complete"
              PROVE  Exists(y)' /\ local'[y].root = x /\ local'[y].state = "complete"
          BY <1>4, <1>8, <4>2
        <4> QED BY <4>1, <4>2 DEF ChunksInv
      <3> QED BY <3>1, <3>2
    <2> QED BY <2>1, <2>2 DEF ChunksInv
  <1> QED BY <1>4, <1>7, <1>8, <1>9, <1>10, <1>11

LEMMA TakeCompleteKeeps ==
  ASSUME RecorderInv, NEW t \in Tabs, NEW pc \in {"init", "finish"}, Answered(t, pc),
         TakeComplete(t), UNCHANGED <<captured, server, net, lock>>
  PROVE  RecorderInv'
  <1> USE DEF RecorderInv
  <1>1. /\ Open(t) /\ W(t).ans \in AnswerRow
        /\ W(t).ans.state = "COMPLETE" =>
             server[W(t).s].state = "COMPLETE" /\ server[W(t).s].expected = W(t).ans.expected
    BY AnswerType
  <1>2. CASE ~ Accepts(W(t), W(t).ans)
    <2> PICK code \in {"none", "ABORTED", "CHANGED"} : code = W(t).ans.code
      BY <1>1 DEF AnswerRow
    <2>1. Stops(W(t), code) \in RestForms(W(t), code)
      BY DEF RestForms
    <2>2. Becomes(t, Stops(W(t), code)) /\ UNCHANGED local
      BY <1>2 DEF TakeComplete
    <2> QED BY <1>1, <2>1, <2>2, RestKeeps
  <1>3. CASE Accepts(W(t), W(t).ans)
    <2> DEFINE w == [Rests(W(t)) EXCEPT !.want = FALSE]
    <2> PICK s \in Sessions : s = W(t).s
      BY <1>1, OpenType
    <2>1. local' = Completed(s) /\ Becomes(t, w)
      BY <1>3 DEF TakeComplete
    <2>2. W(t) \in WriterRow /\ WriterOk(t) /\ SnapOk(t)
      BY <1>1, OpenType DEF WriterInv, AnswerInv
    <2>3. Exists(s) /\ Row(t) = local[s]
      BY <1>1, OwnRow
    <2>4. /\ local[s].state \in {"pending", "complete"}
          /\ server[s].state = "COMPLETE" /\ server[s].expected = local[s].next
      BY <1>1, <1>3, <2>2, <2>3 DEF Accepts, SnapOk, WriterOk
    <2>5. /\ local' \in [Sessions -> LocalRow \cup {NoRow}]
          /\ \A x \in Sessions : Exists(x)' <=> Exists(x)
          /\ local'[s].state = "complete"
          /\ \A x \in Sessions : Exists(x) =>
               /\ local'[x].next = local[x].next /\ local'[x].interrupted = local[x].interrupted
               /\ x # s => local'[x].state = local[x].state
          /\ FamilyInv' /\ ChunksInv' /\ Settled
      BY <2>1, <2>3, <2>4, CompletedStep
    <2>6. /\ w \in WriterRow
          /\ w.s = W(t).s /\ w.snap \in {W(t).snap, NoRow}
          /\ w.pc = "idle"
          /\ w.sealed = W(t).sealed /\ w.finishing = W(t).finishing
          /\ w.buf = W(t).buf /\ w.cut = W(t).cut /\ w.rec = W(t).rec
      BY <2>2 DEF WriterRow, Rests
    <2> HIDE DEF w
    <2>7. /\ page' \in [Tabs -> OpenPage \cup {Closed}]
          /\ page'[t].w = w /\ page'[t].mode = page[t].mode
          /\ \A u \in Tabs : Open(u)' => u = t
          /\ LockInv'
      BY <1>1, <2>1, <2>6, Becoming
    <2>8. WriterOk(t)'
      <3>1. W(t)' = w /\ Row(t)' = local'[s]
        BY <2>6, <2>7 DEF W, Row
      <3> QED BY <2>2, <2>3, <2>4, <2>5, <2>6, <2>7, <3>1 DEF WriterOk
    <2>9. \A x \in Sessions : Exists(x)' /\ local'[x].state \in {"pending", "complete"} =>
            /\ Exists(x) /\ local[x].state \in {"pending", "complete"}
            /\ local'[x].interrupted = local[x].interrupted /\ local'[x].next = local[x].next
      BY <2>4, <2>5
    <2>10. /\ captured' \in [Sessions -> [blobs : Nat, gap : BOOLEAN]]
           /\ net' \in SUBSET RequestRow
      BY DEF RecorderTypes
    <2> QED BY <1>1, <2>5, <2>6, <2>7, <2>8, <2>9, <2>10, WriterStep
  <1> QED BY <1>2, <1>3

LEMMA OnFinishKeeps ==
  ASSUME RecorderInv, NEW t \in Tabs, OnFinish(t)
  PROVE  RecorderInv'
  BY TakeCompleteKeeps DEF OnFinish

LEMMA OnInitKeeps ==
  ASSUME RecorderInv, NEW t \in Tabs, OnInit(t)
  PROVE  RecorderInv'
  <1> DEFINE a == W(t).ans
  <1>1. Answered(t, "init") /\ UNCHANGED <<captured, server, lock>>
    BY DEF OnInit
  <1>2. Open(t) /\ W(t) \in WriterRow
    BY <1>1, AnswerType, OpenType DEF RecorderInv
  <1>3. \/ TakeComplete(t) /\ UNCHANGED net
        \/ Becomes(t, Stops(W(t), "ABORTED")) /\ UNCHANGED <<local, net>>
        \/ W(t).snap.state = "pending" /\ AskFinish(t, W(t)) /\ UNCHANGED local
        \/ Becomes(t, Stops(W(t), "none")) /\ UNCHANGED <<local, net>>
        \/ Becomes(t, Onwards(W(t))) /\ UNCHANGED <<local, net>>
    <2>1. W(t).ans.state \in {"OPEN", "FINALIZING", "COMPLETE", "ABORTED"}
      BY <1>1, AnswerType
    <2> QED BY <2>1 DEF OnInit
  <1>4. CASE TakeComplete(t) /\ UNCHANGED net
    BY <1>1, <1>4, TakeCompleteKeeps
  <1>5. CASE Becomes(t, Stops(W(t), "ABORTED")) /\ UNCHANGED <<local, net>>
    <2>1. Stops(W(t), "ABORTED") \in RestForms(W(t), "ABORTED")
      BY DEF RestForms
    <2> QED BY <1>1, <1>2, <1>5, <2>1, RestKeeps
  <1>6. CASE W(t).snap.state = "pending" /\ AskFinish(t, W(t)) /\ UNCHANGED local
    BY <1>1, <1>2, <1>6, AskFinishKeeps
  <1>7. CASE \/ Becomes(t, Stops(W(t), "none")) /\ UNCHANGED <<local, net>>
             \/ Becomes(t, Onwards(W(t))) /\ UNCHANGED <<local, net>>
    <2>1. /\ Stops(W(t), "none") \in RestForms(W(t), "none")
          /\ Onwards(W(t)) \in RestForms(W(t), "none")
      BY DEF RestForms
    <2> QED BY <1>1, <1>2, <1>7, <2>1, RestKeeps
  <1> QED BY <1>3, <1>4, <1>5, <1>6, <1>7

LEMMA OnPutKeeps ==
  ASSUME RecorderInv, NEW t \in Tabs, OnPut(t)
  PROVE  RecorderInv'
  <1> USE DEF RecorderInv
  <1>1. Answered(t, "put") /\ UNCHANGED <<captured, server, net, lock>>
    BY DEF OnPut
  <1>2. Open(t) /\ W(t).ans \in AnswerRow /\ W(t) \in WriterRow /\ WriterOk(t)
    BY <1>1, AnswerType, OpenType DEF WriterInv
  <1>3. CASE Becomes(t, Stops(W(t), W(t).ans.code)) /\ UNCHANGED local
    <2> PICK code \in {"none", "ABORTED", "CHANGED"} : code = W(t).ans.code
      BY <1>2 DEF AnswerRow
    <2>1. Stops(W(t), code) \in RestForms(W(t), code)
      BY DEF RestForms
    <2> QED BY <1>1, <1>2, <1>3, <2>1, RestKeeps
  <1>4. CASE Save(W(t).s, MarkSent(Row(t), W(t).ans.arg)) /\ Becomes(t, Onwards(W(t)))
    <2> DEFINE w == Onwards(W(t))
               row == MarkSent(Row(t), W(t).ans.arg)
    <2> PICK s \in Sessions : s = W(t).s
      BY <1>2, OpenType
    <2>1. Exists(s) /\ Row(t) = local[s] /\ Row(t) \in LocalRow
      BY <1>2, OwnRow
    <2>2. /\ row \in LocalRow /\ row.state = Row(t).state
          /\ row.interrupted = Row(t).interrupted
          /\ row.root = Row(t).root /\ row.next = Row(t).next /\ row.rows = Row(t).rows
      <3> PICK i \in Nat : i = W(t).ans.arg
        BY <1>2 DEF AnswerRow
      <3> QED BY <2>1 DEF LocalRow, MarkSent
    <2>3. NoteRow(t, row)
      BY <1>2, <2>2 DEF NoteRow, WriterOk
    <2> HIDE DEF row
    <2>4. /\ local' \in [Sessions -> LocalRow \cup {NoRow}]
          /\ local'[s] = row
          /\ \A x \in Sessions : x # s => local'[x] = local[x]
          /\ \A x \in Sessions : Exists(x)' <=> Exists(x)
          /\ FamilyInv' /\ ChunksInv' /\ Settled
      BY <1>1, <1>2, <1>4, <2>3, NoteStep DEF row
    <2>5. /\ w \in WriterRow
          /\ w.s = W(t).s /\ w.snap = W(t).snap
          /\ w.pc = "next"
          /\ w.sealed = W(t).sealed /\ w.finishing = W(t).finishing
          /\ w.buf = W(t).buf /\ w.cut = W(t).cut /\ w.rec = W(t).rec
      BY <1>2 DEF WriterRow, Onwards
    <2> HIDE DEF w
    <2>6. /\ page' \in [Tabs -> OpenPage \cup {Closed}]
          /\ page'[t].w = w /\ page'[t].mode = page[t].mode
          /\ \A u \in Tabs : Open(u)' => u = t
          /\ LockInv'
      BY <1>1, <1>2, <1>4, <2>5, Becoming DEF w
    <2>7. WriterOk(t)'
      <3>1. W(t)' = w /\ Row(t)' = row
        BY <2>4, <2>5, <2>6 DEF W, Row
      <3> QED BY <1>1, <1>2, <2>2, <2>5, <2>6, <3>1 DEF WriterOk
    <2>8. \A x \in Sessions : Exists(x)' /\ local'[x].state \in {"pending", "complete"} =>
            /\ Exists(x) /\ local[x].state \in {"pending", "complete"}
            /\ local'[x].interrupted = local[x].interrupted /\ local'[x].next = local[x].next
      BY <2>1, <2>2, <2>4
    <2>9. /\ captured' \in [Sessions -> [blobs : Nat, gap : BOOLEAN]]
          /\ net' \in SUBSET RequestRow
      BY <1>1 DEF RecorderTypes
    <2> QED BY <1>1, <1>2, <2>4, <2>5, <2>6, <2>7, <2>8, <2>9, WriterStep
  <1> QED BY <1>3, <1>4 DEF OnPut

(* The clone joins the family of the session it takes over from.           *)
LEMMA CloneRows ==
  ASSUME RecorderInv, NEW c \in Sessions, Exists(c),
         local[c].state \in {"recording", "pending"},
         NEW s \in Sessions, ~ Exists(s), server' = server,
         local' = [local EXCEPT ![s] = [local[c] EXCEPT !.state = "pending", !.interrupted = TRUE,
                                                        !.sent = {}],
                                ![c].state = "superseded"]
  PROVE  /\ local' \in [Sessions -> LocalRow \cup {NoRow}]
         /\ \A x \in Sessions : Exists(x) => Exists(x)'
         /\ Exists(s)' /\ local'[s].state = "pending" /\ local'[s].interrupted
         /\ local'[c].state = "superseded"
         /\ \A x \in Sessions : x \notin {s, c} => local'[x] = local[x]
         /\ FamilyInv' /\ ChunksInv' /\ Settled
  <1> USE DEF RecorderInv
  <1> DEFINE new == [local[c] EXCEPT !.state = "pending", !.interrupted = TRUE, !.sent = {}]
             old == [local[c] EXCEPT !.state = "superseded"]
  <1> PICK root \in Sessions : root = local[c].root
    BY RootType
  <1>1. /\ Exists(root) /\ local[root].root = root /\ local[root].next = local[c].next
        /\ root # c => local[root].state = "superseded" /\ local[c].state # "recording"
    BY DEF FamilyInv
  <1>2. /\ new \in LocalRow /\ old \in LocalRow
        /\ new.state = "pending" /\ new.interrupted /\ old.state = "superseded"
        /\ new.root = root /\ old.root = root
        /\ new.next = local[c].next /\ old.next = local[c].next
        /\ old.rows = local[c].rows
    <2>1. PICK v \in LocalRow : v = local[c]
      BY RowType
    <2> QED BY <2>1 DEF LocalRow
  <1>3. local' = [[local EXCEPT ![s] = new] EXCEPT ![c] = old]
    BY DEF RecorderTypes
  <1> HIDE DEF new, old
  <1>4. ASSUME NEW row \in LocalRow PROVE row # NoRow
    <2>1. row.state # NoRow.state
      BY DEF LocalRow, NoRow
    <2> QED BY <2>1
  <1>5. /\ local' \in [Sessions -> LocalRow \cup {NoRow}]
        /\ local'[s] = new /\ local'[c] = old
        /\ \A x \in Sessions : x \notin {s, c} => local'[x] = local[x]
    <2>1. s # c
      OBVIOUS
    <2>2. local \in [Sessions -> LocalRow \cup {NoRow}]
      BY DEF RecorderTypes
    <2> QED BY <1>2, <1>3, <2>1, <2>2
  <1>6. /\ \A x \in Sessions : Exists(x) => Exists(x)'
        /\ \A x \in Sessions : Exists(x)' => x = s \/ Exists(x)
        /\ Exists(s)' /\ s # c /\ s # root
    BY <1>1, <1>2, <1>4, <1>5 DEF Exists
  <1>7. Settled
    BY <1>2, <1>4, <1>5 DEF Settled, Exists
  <1>8. \A x \in Sessions : Exists(x) /\ local[x].root = c => x = c
    BY DEF FamilyInv
  <1>9. /\ local'[root] # NoRow /\ local'[root].root = root
        /\ local'[root].next = local[c].next /\ local'[root].state = "superseded"
    <2>1. CASE root = c
      BY <1>2, <1>4, <1>5, <2>1
    <2>2. CASE root # c
      BY <1>1, <1>5, <1>6, <2>2 DEF Exists
    <2> QED BY <2>1, <2>2
  <1>10. FamilyInv'
    <2>1. ASSUME NEW x \in Sessions, Exists(x)'
          PROVE  LET rt == local'[x].root IN
                 /\ local'[rt] # NoRow /\ local'[rt].root = rt
                 /\ local'[rt].next = local'[x].next
                 /\ rt # x => local'[rt].state = "superseded" /\ local'[x].state # "recording"
      <3>1. CASE x = s
        BY <1>2, <1>5, <1>9, <3>1
      <3>2. CASE x = c
        BY <1>2, <1>5, <1>9, <3>2
      <3>3. CASE x \notin {s, c}
        <4> PICK rt \in Sessions : rt = local[x].root
          BY <1>6, <2>1, <3>3, RootType
        <4>1. Exists(x) /\ local'[x] = local[x]
          BY <1>5, <1>6, <2>1, <3>3
        <4>2. /\ Exists(rt) /\ local[rt].root = rt /\ local[rt].next = local[x].next
              /\ rt # x => local[rt].state = "superseded" /\ local[x].state # "recording"
          BY <4>1 DEF FamilyInv
        <4>3. rt # c /\ rt # s
          BY <1>8, <3>3, <4>1, <4>2
        <4> QED BY <1>5, <4>1, <4>2, <4>3 DEF Exists
      <3> QED BY <3>1, <3>2, <3>3
    <2> QED BY <2>1 DEF FamilyInv, Exists
  <1>11. ChunksInv'
    <2>1. ASSUME NEW x \in Sessions, Exists(x)', local'[x].state = "complete"
          PROVE  server'[x].state = "COMPLETE" /\ server'[x].expected = local'[x].next
      <3>1. x \notin {s, c}
        BY <1>2, <1>5, <2>1
      <3> QED BY <1>5, <1>6, <2>1, <3>1 DEF ChunksInv
    <2>2. ASSUME NEW x \in Sessions, Exists(x)', local'[x].root = x
          PROVE  \/ local'[x].rows = 0 .. local'[x].next - 1
                 \/ \E y \in Sessions :
                      Exists(y)' /\ local'[y].root = x /\ local'[y].state = "complete"
      <3>1. x # s
        BY <1>2, <1>5, <1>6, <2>2
      <3>2. /\ Exists(x) /\ local[x].root = x
            /\ local'[x].rows = local[x].rows /\ local'[x].next = local[x].next
        BY <1>2, <1>5, <1>6, <2>2, <3>1
      <3>3. ASSUME NEW y \in Sessions, Exists(y), local[y].root = x, local[y].state = "complete"
            PROVE  Exists(y)' /\ local'[y].root = x /\ local'[y].state = "complete"
        <4>1. y \notin {s, c}
          BY <3>3
        <4> QED BY <1>5, <1>6, <3>3, <4>1
      <3>4. \/ local[x].rows = 0 .. local[x].next - 1
            \/ \E y \in Sessions :
                 Exists(y) /\ local[y].root = x /\ local[y].state = "complete"
        BY <3>2 DEF ChunksInv
      <3>5. CASE local[x].rows = 0 .. local[x].next - 1
        BY <3>2, <3>5
      <3>6. CASE \E y \in Sessions :
                   Exists(y) /\ local[y].root = x /\ local[y].state = "complete"
        BY <3>3, <3>6
      <3> QED BY <3>4, <3>5, <3>6
    <2> QED BY <2>1, <2>2 DEF ChunksInv
  <1> QED BY <1>2, <1>5, <1>6, <1>7, <1>10, <1>11

LEMMA CloneKeeps ==
  ASSUME RecorderInv, NEW t \in Tabs, NEW s \in Sessions, Clone(t, s)
  PROVE  RecorderInv'
  <1> USE DEF RecorderInv
  <1> DEFINE w == [Writer(s, "off") EXCEPT !.sealed = TRUE, !.finishing = TRUE, !.cut = TRUE]
  <1>1. /\ Open(t) /\ page[t].mode = "open" /\ Listed(W(t).s) /\ ~ Exists(s)
        /\ UNCHANGED <<captured, server, net, lock>>
        /\ Becomes(t, w)
    BY DEF Clone, Used
  <1> PICK c \in Sessions : c = W(t).s
    BY <1>1, OpenType
  <1>2. /\ Exists(c) /\ Row(t) = local[c] /\ local[c].state \in {"recording", "pending"}
    BY <1>1, OwnRow DEF Listed, WriterInv, WriterOk
  <1>3. local' = [local EXCEPT ![s] = [local[c] EXCEPT !.state = "pending", !.interrupted = TRUE,
                                                        !.sent = {}],
                               ![c].state = "superseded"]
    BY <1>2 DEF Clone
  <1>4. /\ local' \in [Sessions -> LocalRow \cup {NoRow}]
        /\ \A x \in Sessions : Exists(x) => Exists(x)'
        /\ Exists(s)' /\ local'[s].state = "pending" /\ local'[s].interrupted
        /\ local'[c].state = "superseded"
        /\ \A x \in Sessions : x \notin {s, c} => local'[x] = local[x]
        /\ FamilyInv' /\ ChunksInv' /\ Settled
    BY <1>1, <1>2, <1>3, CloneRows
  <1>5. /\ w \in WriterRow /\ w.pc = "idle" /\ w.snap = NoRow /\ w.s = s /\ w.buf = 0
        /\ w.finishing /\ w.sealed /\ w.rec = "off"
    BY DEF Writer, WriterRow
  <1> HIDE DEF w
  <1>6. /\ page' \in [Tabs -> OpenPage \cup {Closed}]
        /\ page'[t].w = w /\ page'[t].mode = page[t].mode
        /\ \A u \in Tabs : Open(u)' => u = t
        /\ LockInv'
    BY <1>1, <1>5, Becoming
  <1>7. RecorderTypes'
    BY <1>1, <1>4, <1>6 DEF RecorderTypes
  <1>8. WriterInv'
    <2>1. W(t)' = w /\ Row(t)' = local'[s]
      BY <1>5, <1>6 DEF W, Row
    <2>2. WriterOk(t)'
      BY <1>4, <1>5, <2>1 DEF WriterOk
    <2> QED BY <1>6, <2>2 DEF WriterInv
  <1>9. AnswerInv'
    <2>1. SnapOk(t)' /\ AskOk(t)'
      BY <1>5, <1>6 DEF SnapOk, AskOk, W, NoRow
    <2> QED BY <1>6, <2>1 DEF AnswerInv
  <1>10. Quiet
    <2>1. \A u \in Tabs : Open(u)' => page'[u].w.rec = "off"
      BY <1>5, <1>6
    <2> QED BY <1>1, <1>4, <2>1, QuietStep
  <1>11. WholeInv'
    <2>1. \A x \in Sessions : ~ Exists(x)' => ~ Exists(x) /\ captured'[x] = captured[x]
      BY <1>1, <1>4
    <2>2. \A x \in Sessions : Exists(x)' /\ local'[x].state \in {"pending", "complete"} =>
            \/ local'[x].interrupted
            \/ /\ Exists(x) /\ local[x].state \in {"pending", "complete"}
               /\ local'[x].interrupted = local[x].interrupted /\ local'[x].next = local[x].next
      BY <1>4 DEF Exists
    <2> QED BY <1>1, <1>7, <1>10, <2>1, <2>2, WholeStep
  <1> QED BY <1>4, <1>6, <1>7, <1>8, <1>9, <1>11

-----------------------------------------------------------------------------
(* The server.                                                             *)

(* An answer reaches the pages that asked, and is all that they notice.    *)
LEMMA ReplyStep ==
  ASSUME RecorderInv, UNCHANGED <<local, captured, lock>>, ServerKept,
         NEW r \in RequestRow, NEW a \in AnswerRow, Reply(r, a),
         a.state = "COMPLETE" =>
           server'[r.s].state = "COMPLETE" /\ server'[r.s].expected = a.expected,
         r.op = "init" => a.state \in {"OPEN", "FINALIZING", "COMPLETE", "ABORTED"}
  PROVE  /\ page' \in [Tabs -> OpenPage \cup {Closed}]
         /\ LockInv' /\ WriterInv' /\ Quiet
         /\ \A t \in Tabs : Open(t)' => AskOk(t)'
         /\ \A t \in Tabs : Open(t)' => Open(t) /\ W(t).snap = W(t)'.snap /\ W(t).s = W(t)'.s
  <1> USE DEF RecorderInv
  <1>1. ASSUME NEW t \in Tabs
        PROVE  page'[t] = IF Open(t) /\ W(t).ask = r /\ W(t).ans = None
                          THEN [page[t] EXCEPT !.w.ans = a] ELSE page[t]
    BY DEF Reply
  <1>2. ASSUME NEW t \in Tabs, Open(t), W(t).ask = r, W(t).ans = None
        PROVE  /\ page'[t] \in OpenPage /\ page'[t].mode = page[t].mode
               /\ page'[t].w = [W(t) EXCEPT !.ans = a]
    <2>1. page[t] \in OpenPage /\ W(t) \in WriterRow /\ page[t] = [mode |-> page[t].mode, w |-> W(t)]
      BY <1>2, OpenType
    <2>2. PICK m, v : page[t] = [mode |-> m, w |-> v] /\ v = W(t) /\ m = page[t].mode
      BY <2>1
    <2> DEFINE v1 == [v EXCEPT !.ans = a]
    <2>3. \A z : [[mode |-> m, w |-> v] EXCEPT !.w = z] = [mode |-> m, w |-> z]
      OBVIOUS
    <2>4. [page[t] EXCEPT !.w.ans = a] = [page[t] EXCEPT !.w = v1]
      BY <2>2, Zenon DEF W
    <2>5. v1 \in WriterRow
      BY <2>1, <2>2 DEF WriterRow
    <2>6. page'[t] = [mode |-> m, w |-> v1]
      <3> HIDE DEF v1
      <3> QED BY <1>1, <1>2, <2>2, <2>3, <2>4
    <2>7. m \in {"open", "leaving", "disposed"}
      BY <2>1, <2>2 DEF OpenPage
    <2>8. page'[t] \in OpenPage /\ page'[t].mode = m /\ page'[t].w = v1
      <3> HIDE DEF v1
      <3> QED BY <2>5, <2>6, <2>7 DEF OpenPage
    <2> QED BY <2>2, <2>8
  <1>3. ASSUME NEW t \in Tabs, ~ (Open(t) /\ W(t).ask = r /\ W(t).ans = None)
        PROVE  page'[t] = page[t]
    BY <1>1, <1>3
  <1>4. page' \in [Tabs -> OpenPage \cup {Closed}]
    <2>1. \A t \in Tabs : page'[t] \in OpenPage \cup {Closed}
      BY <1>2, <1>3 DEF RecorderTypes
    <2>2. page' = [t \in Tabs |-> page'[t]]
      BY DEF Reply
    <2> QED BY <2>1, <2>2
  <1>5. \A t \in Tabs : Open(t)' => Open(t)
    BY <1>3 DEF Open
  <1>6. ASSUME NEW t \in Tabs, Open(t)
        PROVE  /\ page'[t].mode = page[t].mode
               /\ W(t)'.s = W(t).s /\ W(t)'.rec = W(t).rec /\ W(t)'.buf = W(t).buf
               /\ W(t)'.sealed = W(t).sealed /\ W(t)'.finishing = W(t).finishing
               /\ W(t)'.cut = W(t).cut /\ W(t)'.snap = W(t).snap /\ W(t)'.pc = W(t).pc
               /\ W(t)'.ask = W(t).ask
               /\ \/ W(t)'.ans = W(t).ans
                  \/ W(t).ask = r /\ W(t)'.ans = a
    <2>1. CASE W(t).ask = r /\ W(t).ans = None
      <3>1. PICK v \in WriterRow : v = W(t)
        BY <1>6, OpenType
      <3>2. page'[t].mode = page[t].mode /\ W(t)' = [v EXCEPT !.ans = a]
        BY <1>2, <1>6, <2>1, <3>1 DEF W
      <3> QED BY <2>1, <3>1, <3>2 DEF WriterRow
    <2>2. CASE ~ (W(t).ask = r /\ W(t).ans = None)
      BY <1>3, <2>2 DEF W
    <2> QED BY <2>1, <2>2
  <1>7. LockInv'
    BY <1>5 DEF LockInv
  <1>8. WriterInv'
    <2>1. ASSUME NEW t \in Tabs, Open(t)' PROVE WriterOk(t)'
      <3>1. Open(t) /\ WriterOk(t)
        BY <1>5, <2>1 DEF WriterInv
      <3>2. Row(t)' = Row(t)
        BY <1>6, <3>1 DEF Row
      <3> QED BY <1>6, <3>1, <3>2 DEF WriterOk
    <2> QED BY <2>1 DEF WriterInv
  <1>9. Quiet
    <2>1. \A x \in Sessions : Exists(x) => Exists(x)'
      BY DEF Exists
    <2>2. \A t \in Tabs : Open(t)' =>
            page'[t].w.rec = "off" \/ (Open(t) /\ page'[t].w.s = W(t).s /\ W(t).rec # "off")
      BY <1>5, <1>6 DEF W
    <2> QED BY <2>1, <2>2, QuietStep
  <1>10. ASSUME NEW t \in Tabs, Open(t)' PROVE AskOk(t)'
    <2>1. Open(t) /\ AskOk(t)
      BY <1>5, <1>10 DEF AnswerInv
    <2> PICK s \in Sessions : s = W(t).s
      BY <2>1, OpenType
    <2>2. SUFFICES ASSUME W(t).pc \in {"init", "put", "finish"} PROVE AskOk(t)'
      BY <1>6, <2>1 DEF AskOk
    <2>3. W(t).ask \in RequestRow /\ W(t).ask.s = s /\ (W(t).pc = "init" => W(t).ask.op = "init")
      BY <2>1, <2>2 DEF AskOk
    <2>4. CASE W(t)'.ans = W(t).ans
      BY <1>6, <2>1, <2>2, <2>3, <2>4 DEF AskOk, ServerKept
    <2>5. CASE W(t).ask = r /\ W(t)'.ans = a
      BY <1>6, <2>1, <2>2, <2>3, <2>5 DEF AskOk
    <2> QED BY <1>6, <2>1, <2>4, <2>5
  <1> QED BY <1>4, <1>5, <1>6, <1>7, <1>8, <1>9, <1>10

LEMMA PageStays ==
  ASSUME RecorderInv, UNCHANGED <<local, captured, lock, page>>, ServerKept
  PROVE  /\ page' \in [Tabs -> OpenPage \cup {Closed}]
         /\ LockInv' /\ WriterInv' /\ Quiet
         /\ \A t \in Tabs : Open(t)' => AskOk(t)'
         /\ \A t \in Tabs : Open(t)' => Open(t) /\ W(t).snap = W(t)'.snap /\ W(t).s = W(t)'.s
  <1> USE DEF RecorderInv
  <1>1. \A t \in Tabs : Open(t)' <=> Open(t)
    BY DEF Open
  <1>2. LockInv'
    BY <1>1 DEF LockInv
  <1>3. ASSUME NEW t \in Tabs, Open(t) PROVE WriterOk(t)' /\ AskOk(t)'
    <2>1. WriterOk(t) /\ AskOk(t) /\ W(t)' = W(t) /\ Row(t)' = Row(t)
      BY <1>3 DEF WriterInv, AnswerInv, W, Row
    <2> PICK s \in Sessions : s = W(t).s
      BY <1>3, OpenType
    <2>2. WriterOk(t)'
      BY <2>1 DEF WriterOk
    <2>3. AskOk(t)'
      BY <2>1 DEF AskOk, ServerKept
    <2> QED BY <2>2, <2>3
  <1>4. WriterInv'
    BY <1>1, <1>3 DEF WriterInv
  <1>5. Quiet
    <2>1. \A x \in Sessions : Exists(x) => Exists(x)'
      BY DEF Exists
    <2>2. \A t \in Tabs : Open(t)' =>
            page'[t].w.rec = "off" \/ (Open(t) /\ page'[t].w.s = W(t).s /\ W(t).rec # "off")
      BY <1>1 DEF W
    <2> QED BY <2>1, <2>2, QuietStep
  <1>6. page' \in [Tabs -> OpenPage \cup {Closed}]
    BY DEF RecorderTypes
  <1>7. \A t \in Tabs : Open(t)' => W(t).snap = W(t)'.snap /\ W(t).s = W(t)'.s
    BY DEF W
  <1> QED BY <1>1, <1>2, <1>3, <1>4, <1>5, <1>6, <1>7

(* A step of the server.                                                   *)
LEMMA ServerStep ==
  ASSUME RecorderInv, UNCHANGED <<local, captured, lock>>, ServerKept,
         server' \in [Sessions -> UploadRow],
         net' \subseteq net,
         \/ UNCHANGED page
         \/ \E r \in RequestRow, a \in AnswerRow :
              /\ Reply(r, a)
              /\ a.state = "COMPLETE" =>
                   server'[r.s].state = "COMPLETE" /\ server'[r.s].expected = a.expected
              /\ r.op = "init" => a.state \in {"OPEN", "FINALIZING", "COMPLETE", "ABORTED"},
         \A s \in Sessions : server'[s].state \in {"FINALIZING", "COMPLETE"} =>
           \/ server'[s].interrupted
           \/ /\ server[s].state \in {"FINALIZING", "COMPLETE"}
              /\ server'[s].interrupted = server[s].interrupted
              /\ server'[s].expected = server[s].expected
           \/ Whole(s, server'[s].expected)
  PROVE  RecorderInv'
  <1> USE DEF RecorderInv
  <1>1. /\ page' \in [Tabs -> OpenPage \cup {Closed}]
        /\ LockInv' /\ WriterInv' /\ Quiet
        /\ \A t \in Tabs : Open(t)' => AskOk(t)'
        /\ \A t \in Tabs : Open(t)' => Open(t) /\ W(t).snap = W(t)'.snap /\ W(t).s = W(t)'.s
    BY PageStays, ReplyStep
  <1>2. RecorderTypes'
    BY <1>1 DEF RecorderTypes
  <1>3. FamilyInv' /\ ChunksInv' /\ Settled
    BY RowsUntouched, RowsStep
  <1>4. AnswerInv'
    <2>1. ASSUME NEW t \in Tabs, Open(t)' PROVE SnapOk(t)'
      <3>1. /\ Open(t) /\ page'[t].w.s = W(t).s
            /\ page'[t].w.snap \in {W(t).snap, NoRow, Read(Row(t))}
        BY <1>1, <2>1 DEF W
      <3> QED BY <1>1, <1>3, <3>1, SnapStep
    <2> QED BY <1>1, <2>1 DEF AnswerInv
  <1>5. WholeInv'
    <2>1. \A s \in Sessions : Exists(s)' <=> Exists(s)
      BY DEF Exists
    <2> QED BY <1>1, <1>2, <2>1, WholeStep
  <1> QED BY <1>1, <1>2, <1>3, <1>4, <1>5

LEMMA AnswerIs ==
  ASSUME RecorderTypes, NEW r \in RequestRow, NEW state \in Answers,
         NEW code \in {"none", "CHANGED"}
  PROVE  /\ Answer(state, code, r) \in AnswerRow
         /\ Answer(state, code, r).state = state
         /\ Answer(state, code, r).expected = server[r.s].expected
  <1>1. server[r.s].expected \in Nat /\ r.arg \in Nat
    BY DEF RecorderTypes, RequestRow, UploadRow
  <1> QED BY <1>1 DEF Answer, AnswerRow

(* What changes of one upload.                                             *)
LEMMA UploadStep ==
  ASSUME RecorderTypes, NEW s \in Sessions, NEW u \in UploadRow,
         server' = [server EXCEPT ![s] = u],
         server[s].state = "COMPLETE" => u.state = "COMPLETE" /\ u.expected = server[s].expected
  PROVE  /\ server' \in [Sessions -> UploadRow] /\ server'[s] = u
         /\ \A x \in Sessions : x # s => server'[x] = server[x]
         /\ ServerKept
  BY DEF RecorderTypes, ServerKept

LEMMA ServeInitKeeps ==
  ASSUME RecorderInv, NEW r \in net, net' = net \ {r}, ServeInit(r),
         UNCHANGED <<local, captured, lock>>
  PROVE  RecorderInv'
  <1> USE DEF RecorderInv
  <1>1. r \in RequestRow /\ r.op = "init" /\ net' \subseteq net
    BY DEF RecorderTypes, ServeInit
  <1> PICK s \in Sessions : s = r.s
    BY <1>1 DEF RequestRow
  <1>2. server[s] \in UploadRow
    BY DEF RecorderTypes
  <1>3. CASE server[s].state = "NONE"
    <2> DEFINE u == [server[s] EXCEPT !.state = "OPEN"]
    <2>1. u \in UploadRow /\ u.state = "OPEN"
      BY <1>2 DEF UploadRow
    <2>2. server' = [server EXCEPT ![s] = u] /\ Reply(r, Answer("OPEN", "none", r))
      BY <1>3 DEF ServeInit
    <2> HIDE DEF u
    <2>3. /\ server' \in [Sessions -> UploadRow] /\ server'[s] = u
          /\ \A x \in Sessions : x # s => server'[x] = server[x]
          /\ ServerKept
      BY <1>3, <2>1, <2>2, UploadStep
    <2>4. Answer("OPEN", "none", r) \in AnswerRow /\ Answer("OPEN", "none", r).state = "OPEN"
      BY <1>1, AnswerIs DEF Answers
    <2>5. \A x \in Sessions : server'[x].state \in {"FINALIZING", "COMPLETE"} =>
            server'[x] = server[x]
      BY <2>1, <2>3
    <2> QED BY <1>1, <2>2, <2>3, <2>4, <2>5, ServerStep
  <1>4. CASE server[s].state # "NONE"
    <2>1. server' = server /\ Reply(r, Answer(server[s].state, "none", r))
      BY <1>4 DEF ServeInit
    <2> PICK state \in {"OPEN", "FINALIZING", "COMPLETE", "ABORTED"} : state = server[s].state
      BY <1>2, <1>4 DEF UploadRow
    <2>2. /\ Answer(state, "none", r) \in AnswerRow /\ Answer(state, "none", r).state = state
          /\ Answer(state, "none", r).expected = server[s].expected
      BY <1>1, AnswerIs DEF Answers
    <2>3. ServerKept /\ server' \in [Sessions -> UploadRow]
      BY <2>1 DEF ServerKept, RecorderTypes
    <2>4. Reply(r, Answer(state, "none", r))
      BY <2>1
    <2> QED BY <1>1, <2>1, <2>2, <2>3, <2>4, ServerStep
  <1> QED BY <1>3, <1>4

LEMMA ServePutKeeps ==
  ASSUME RecorderInv, NEW r \in net, net' = net \ {r}, ServePut(r),
         UNCHANGED <<local, captured, lock>>
  PROVE  RecorderInv'
  <1> USE DEF RecorderInv
  <1>1. r \in RequestRow /\ r.op = "put" /\ net' \subseteq net
    BY DEF RecorderTypes, ServePut
  <1> PICK s \in Sessions : s = r.s
    BY <1>1 DEF RequestRow
  <1>2. server[s] \in UploadRow /\ r.arg \in Nat
    BY <1>1 DEF RecorderTypes, RequestRow
  <1>3. CASE server[s].state = "OPEN"
    <2> DEFINE u == [server[s] EXCEPT !.chunks = @ \cup {r.arg}]
    <2>1. u \in UploadRow /\ u.state = "OPEN"
      BY <1>2, <1>3 DEF UploadRow
    <2>2. server' = [server EXCEPT ![s] = u] /\ Reply(r, Answer("OPEN", "none", r))
      BY <1>3 DEF ServePut
    <2> HIDE DEF u
    <2>3. /\ server' \in [Sessions -> UploadRow] /\ server'[s] = u
          /\ \A x \in Sessions : x # s => server'[x] = server[x]
          /\ ServerKept
      BY <1>3, <2>1, <2>2, UploadStep
    <2>4. Answer("OPEN", "none", r) \in AnswerRow /\ Answer("OPEN", "none", r).state = "OPEN"
      BY <1>1, AnswerIs DEF Answers
    <2>5. \A x \in Sessions : server'[x].state \in {"FINALIZING", "COMPLETE"} =>
            server'[x] = server[x]
      BY <2>1, <2>3
    <2> QED BY <1>1, <2>2, <2>3, <2>4, <2>5, ServerStep
  <1>4. CASE server[s].state # "OPEN"
    <2>1. server' = server /\ Reply(r, Answer("refused", "none", r))
      BY <1>4 DEF ServePut
    <2>2. /\ Answer("refused", "none", r) \in AnswerRow
          /\ Answer("refused", "none", r).state = "refused"
      BY <1>1, AnswerIs DEF Answers
    <2>3. ServerKept /\ server' \in [Sessions -> UploadRow]
      BY <2>1 DEF ServerKept, RecorderTypes
    <2> QED BY <1>1, <2>1, <2>2, <2>3, ServerStep
  <1> QED BY <1>3, <1>4

LEMMA ServeFinishKeeps ==
  ASSUME RecorderInv, NEW r \in net, net' = net \ {r}, ServeFinish(r),
         UNCHANGED <<local, captured, lock>>
  PROVE  RecorderInv'
  <1> USE DEF RecorderInv
  <1>1. r \in RequestRow /\ r.op = "finish" /\ net' \subseteq net
    BY DEF RecorderTypes, ServeFinish
  <1> PICK s \in Sessions : s = r.s
    BY <1>1 DEF RequestRow
  <1>2. server[s] \in UploadRow /\ r.arg \in Nat /\ r.flag \in BOOLEAN
    BY <1>1 DEF RecorderTypes, RequestRow
  <1> DEFINE same == server[s].expected = r.arg /\ server[s].interrupted = r.flag
             u == [server[s] EXCEPT !.state = "FINALIZING", !.lease = TRUE,
                                    !.expected = r.arg, !.interrupted = r.flag]
             state == IF server[s].state = "COMPLETE" /\ same THEN "COMPLETE" ELSE "refused"
  <1>3. \/ /\ server[s].state \in {"OPEN", "FINALIZING"}
           /\ server' = [server EXCEPT ![s] = u] /\ UNCHANGED page
        \/ /\ \E code \in {"none", "CHANGED"} : Reply(r, Answer(state, code, r))
           /\ UNCHANGED server
    BY DEF ServeFinish
  <1>4. CASE /\ server[s].state \in {"OPEN", "FINALIZING"}
             /\ server' = [server EXCEPT ![s] = u] /\ UNCHANGED page
    <2>1. u \in UploadRow /\ u.expected = r.arg /\ u.interrupted = r.flag
      BY <1>2 DEF UploadRow
    <2> HIDE DEF u
    <2>2. /\ server' \in [Sessions -> UploadRow] /\ server'[s] = u
          /\ \A x \in Sessions : x # s => server'[x] = server[x]
          /\ ServerKept
      BY <1>4, <2>1, UploadStep
    <2>3. r.flag \/ Whole(s, r.arg)
      BY <1>1 DEF WholeInv
    <2>4. \A x \in Sessions : server'[x].state \in {"FINALIZING", "COMPLETE"} =>
           \/ server'[x].interrupted
           \/ server'[x] = server[x]
           \/ Whole(x, server'[x].expected)
      BY <2>1, <2>2, <2>3
    <2> QED BY <1>1, <1>4, <2>2, <2>4, ServerStep
  <1>5. CASE /\ \E code \in {"none", "CHANGED"} : Reply(r, Answer(state, code, r))
             /\ UNCHANGED server
    <2>1. PICK code \in {"none", "CHANGED"} : Reply(r, Answer(state, code, r))
      BY <1>5
    <2>2. /\ state \in Answers /\ state \in {"COMPLETE", "refused"}
          /\ state = "COMPLETE" => server[s].state = "COMPLETE"
      BY DEF Answers
    <2> HIDE DEF state
    <2>3. /\ Answer(state, code, r) \in AnswerRow /\ Answer(state, code, r).state = state
          /\ Answer(state, code, r).expected = server[s].expected
      BY <1>1, <2>2, AnswerIs
    <2>4. ServerKept /\ server' \in [Sessions -> UploadRow]
      BY <1>5 DEF ServerKept, RecorderTypes
    <2> QED BY <1>1, <1>5, <2>1, <2>2, <2>3, <2>4, ServerStep
  <1> QED BY <1>3, <1>4, <1>5

LEMMA AssemblyKeeps ==
  ASSUME RecorderInv, NEW s \in Sessions,
         Assembled(s) \/ AssemblyFails(s) \/ LeaseEnds(s) \/ Abort(s)
  PROVE  RecorderInv'
  <1> USE DEF RecorderInv
  <1>1. server[s] \in UploadRow
    BY DEF RecorderTypes
  <1>2. UNCHANGED <<local, captured, net, lock>> /\ net' \subseteq net
    BY DEF Assembled, AssemblyFails, LeaseEnds, Abort
  <1>3. /\ FinishOf(s) \in RequestRow /\ FinishOf(s).s = s /\ FinishOf(s).op = "finish"
    BY <1>1 DEF FinishOf, Request, RequestRow, UploadRow
  <1>4. CASE Assembled(s)
    <2> DEFINE u == [server[s] EXCEPT !.state = "COMPLETE", !.lease = FALSE]
    <2>1. /\ u \in UploadRow /\ u.state = "COMPLETE" /\ u.expected = server[s].expected
          /\ u.interrupted = server[s].interrupted
      BY <1>1 DEF UploadRow
    <2>2. /\ server' = [server EXCEPT ![s] = u] /\ server[s].state = "FINALIZING"
          /\ Reply(FinishOf(s), Answer("COMPLETE", "none", FinishOf(s)))
      BY <1>4 DEF Assembled, RecorderTypes
    <2> HIDE DEF u
    <2>3. /\ server' \in [Sessions -> UploadRow] /\ server'[s] = u
          /\ \A x \in Sessions : x # s => server'[x] = server[x]
          /\ ServerKept
      BY <2>1, <2>2, UploadStep
    <2>4. /\ Answer("COMPLETE", "none", FinishOf(s)) \in AnswerRow
          /\ Answer("COMPLETE", "none", FinishOf(s)).expected = server[s].expected
      BY <1>3, AnswerIs DEF Answers
    <2>5. \A x \in Sessions : server'[x].state \in {"FINALIZING", "COMPLETE"} =>
            /\ server[x].state \in {"FINALIZING", "COMPLETE"}
            /\ server'[x].interrupted = server[x].interrupted
            /\ server'[x].expected = server[x].expected
      BY <2>1, <2>2, <2>3
    <2> QED BY <1>2, <1>3, <2>1, <2>2, <2>3, <2>4, <2>5, ServerStep
  <1>5. CASE AssemblyFails(s)
    <2> DEFINE u == [server[s] EXCEPT !.state = "OPEN", !.lease = FALSE, !.expected = 0]
    <2>1. u \in UploadRow /\ u.state = "OPEN"
      BY <1>1 DEF UploadRow
    <2>2. /\ server' = [server EXCEPT ![s] = u] /\ server[s].state = "FINALIZING"
          /\ Reply(FinishOf(s), Answer("refused", "none", FinishOf(s)))
      BY <1>5 DEF AssemblyFails, RecorderTypes
    <2> HIDE DEF u
    <2>3. /\ server' \in [Sessions -> UploadRow] /\ server'[s] = u
          /\ \A x \in Sessions : x # s => server'[x] = server[x]
          /\ ServerKept
      BY <2>1, <2>2, UploadStep
    <2>4. /\ Answer("refused", "none", FinishOf(s)) \in AnswerRow
          /\ Answer("refused", "none", FinishOf(s)).state = "refused"
      BY <1>3, AnswerIs DEF Answers
    <2>5. \A x \in Sessions : server'[x].state \in {"FINALIZING", "COMPLETE"} =>
            server'[x] = server[x]
      BY <2>1, <2>3
    <2> QED BY <1>2, <1>3, <2>2, <2>3, <2>4, <2>5, ServerStep
  <1>6. CASE LeaseEnds(s)
    <2> DEFINE u == [server[s] EXCEPT !.lease = FALSE]
    <2>1. /\ u \in UploadRow /\ u.state = server[s].state /\ u.expected = server[s].expected
          /\ u.interrupted = server[s].interrupted
      BY <1>1 DEF UploadRow
    <2>2. server' = [server EXCEPT ![s] = u] /\ UNCHANGED page
      BY <1>6 DEF LeaseEnds
    <2> HIDE DEF u
    <2>3. /\ server' \in [Sessions -> UploadRow] /\ server'[s] = u
          /\ \A x \in Sessions : x # s => server'[x] = server[x]
          /\ ServerKept
      BY <2>1, <2>2, UploadStep
    <2>4. \A x \in Sessions : server'[x].state \in {"FINALIZING", "COMPLETE"} =>
            /\ server[x].state \in {"FINALIZING", "COMPLETE"}
            /\ server'[x].interrupted = server[x].interrupted
            /\ server'[x].expected = server[x].expected
      BY <2>1, <2>3
    <2> QED BY <1>2, <2>2, <2>3, <2>4, ServerStep
  <1>7. CASE Abort(s)
    <2> DEFINE u == [server[s] EXCEPT !.state = "ABORTED", !.chunks = {}]
    <2>1. u \in UploadRow /\ u.state = "ABORTED"
      BY <1>1 DEF UploadRow
    <2>2. /\ server' = [server EXCEPT ![s] = u] /\ server[s].state # "COMPLETE"
          /\ UNCHANGED page
      BY <1>7 DEF Abort, RecorderTypes
    <2> HIDE DEF u
    <2>3. /\ server' \in [Sessions -> UploadRow] /\ server'[s] = u
          /\ \A x \in Sessions : x # s => server'[x] = server[x]
          /\ ServerKept
      BY <2>1, <2>2, UploadStep
    <2>4. \A x \in Sessions : server'[x].state \in {"FINALIZING", "COMPLETE"} =>
            server'[x] = server[x]
      BY <2>1, <2>3
    <2> QED BY <1>2, <2>2, <2>3, <2>4, ServerStep
  <1> QED BY <1>4, <1>5, <1>6, <1>7

-----------------------------------------------------------------------------
LEMMA InitRecorder ==
  ASSUME Init
  PROVE  RecorderInv
  <1>1. \A t \in Tabs : ~ Open(t)
    BY DEF Init, Open
  <1>2. \A s \in Sessions : ~ Exists(s)
    BY DEF Init, Exists
  <1>3. RecorderTypes
    <2>1. NoUpload \in UploadRow
      BY DEF NoUpload, UploadRow
    <2> QED BY <2>1 DEF Init, RecorderTypes
  <1>4. LockInv /\ WriterInv /\ AnswerInv
    BY <1>1 DEF LockInv, WriterInv, AnswerInv
  <1>5. FamilyInv /\ ChunksInv
    BY <1>2 DEF FamilyInv, ChunksInv
  <1>6. WholeInv
    <2>1. \A s \in Sessions : server[s].state = "NONE"
      BY DEF Init, NoUpload
    <2>2. \A s \in Sessions : captured[s].blobs = 0 /\ ~ captured[s].gap
      BY DEF Init
    <2>3. net = {}
      BY DEF Init
    <2> QED BY <1>2, <2>1, <2>2, <2>3 DEF WholeInv
  <1> QED BY <1>3, <1>4, <1>5, <1>6 DEF RecorderInv

LEMMA NextRecorder ==
  ASSUME RecorderInv, [Next]_vars
  PROVE  RecorderInv'
  <1>1. ASSUME NEW t \in Tabs,
               Capture(t) \/ CaptureEnds(t) \/ Stop(t) \/ Stopped(t) \/ Finish(t)
        PROVE  RecorderInv'
    BY <1>1, CaptureKeeps, CaptureEndsKeeps, StopKeeps, FinishKeeps
  <1>2. ASSUME NEW t \in Tabs,
               Leave(t) \/ LeaveWriter(t) \/ ClosePage(t) \/ Crash(t)
        PROVE  RecorderInv'
    BY <1>2, LeaveKeeps, LeaveWriterKeeps, CloseKeeps
  <1>3. ASSUME NEW t \in Tabs,
               Persist(t) \/ PersistFails(t) \/ MarkPending(t) \/ Retry(t)
        PROVE  RecorderInv'
    BY <1>3, PersistKeeps, PersistFailsKeeps, MarkPendingKeeps, RetryKeeps
  <1>4. ASSUME NEW t \in Tabs,
               ReadRow(t) \/ OnInit(t) \/ NextUnsent(t) \/ OnPut(t) \/ OnFinish(t) \/ GiveUp(t)
        PROVE  RecorderInv'
    BY <1>4, ReadRowKeeps, OnInitKeeps, NextUnsentKeeps, OnPutKeeps, OnFinishKeeps, GiveUpKeeps
  <1>5. ASSUME NEW t \in Tabs, NEW s \in Sessions, Begin(t, s) \/ Recover(t, s) \/ Clone(t, s)
        PROVE  RecorderInv'
    BY <1>5, BeginKeeps, RecoverKeeps, CloneKeeps
  <1>6. ASSUME NEW r \in net, Serve(r) PROVE RecorderInv'
    BY <1>6, ServeInitKeeps, ServePutKeeps, ServeFinishKeeps DEF Serve
  <1>7. ASSUME NEW s \in Sessions,
               Assembled(s) \/ AssemblyFails(s) \/ LeaseEnds(s) \/ Abort(s)
        PROVE  RecorderInv'
    BY <1>7, AssemblyKeeps
  <1>8. CASE UNCHANGED vars
    <2>1. /\ UNCHANGED <<local, captured, server, lock, page>> /\ net' \subseteq net
          /\ server' \in [Sessions -> UploadRow]
      BY <1>8 DEF vars, RecorderInv, RecorderTypes
    <2>2. ServerKept
      BY <2>1 DEF ServerKept
    <2> QED BY <2>1, <2>2, ServerStep
  <1> QED BY <1>1, <1>2, <1>3, <1>4, <1>5, <1>6, <1>7, <1>8 DEF Next

(* The invariant everything follows from.                                  *)
THEOREM RecorderAlways == Spec => []RecorderInv
  <1>1. Init => RecorderInv
    BY InitRecorder
  <1>2. RecorderInv /\ [Next]_vars => RecorderInv'
    BY NextRecorder
  <1> QED BY <1>1, <1>2, PTL DEF Spec

(* A chunk IndexedDB once accepted is in IndexedDB until a recording of    *)
(* the server that has it is finished.                                     *)
THEOREM ChunksSurvive == Spec => []PersistedChunksSurvive
  <1>1. ASSUME RecorderInv PROVE PersistedChunksSurvive
    <2> SUFFICES ASSUME NEW s \in Sessions, Exists(s), NEW i \in 0 .. local[s].next - 1
                 PROVE  i \in local[local[s].root].rows \/ Delivered(s, i)
      BY DEF PersistedChunksSurvive
    <2> PICK root \in Sessions : root = local[s].root
      BY <1>1, RootType DEF RecorderInv
    <2>1. Exists(root) /\ local[root].root = root /\ local[root].next = local[s].next
      BY <1>1 DEF RecorderInv, FamilyInv
    <2>2. CASE local[root].rows = 0 .. local[root].next - 1
      BY <2>1, <2>2
    <2>3. CASE \E x \in Sessions :
                 Exists(x) /\ local[x].root = root /\ local[x].state = "complete"
      <3> PICK x \in Sessions : Exists(x) /\ local[x].root = root /\ local[x].state = "complete"
        BY <2>3
      <3>1. server[x].state = "COMPLETE" /\ server[x].expected = local[x].next
        BY <1>1 DEF RecorderInv, ChunksInv
      <3>2. local[x].next = local[s].next
        BY <1>1, <2>1 DEF RecorderInv, FamilyInv
      <3>3. i < server[x].expected
        BY <1>1, <3>1, <3>2, RootType DEF RecorderInv
      <3> QED BY <3>1, <3>3 DEF Delivered
    <2> QED BY <1>1, <2>1, <2>2, <2>3 DEF RecorderInv, ChunksInv
  <1> QED BY <1>1, RecorderAlways, PTL

(* A finished recording without the mark has all that was captured, and    *)
(* nothing was missed.                                                     *)
THEOREM UninterruptedWhole == Spec => []UninterruptedIsWhole
  <1>1. ASSUME RecorderInv PROVE UninterruptedIsWhole
    BY <1>1 DEF RecorderInv, WholeInv, Whole, UninterruptedIsWhole
  <1> QED BY <1>1, RecorderAlways, PTL
=============================================================================
