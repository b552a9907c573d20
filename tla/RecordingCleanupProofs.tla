------------------------- MODULE RecordingCleanupProofs -------------------------
(***************************************************************************)
(* Proofs about RecordingCleanup: the cleanup command takes nothing that   *)
(* an upload under way, or a reviewer, still needs, although it acts on    *)
(* what it read some time before.                                          *)
(*                                                                         *)
(* What the command holds in its hands stays removable (TaskOk): keys and  *)
(* tokens are drawn once, so an object that belongs to nobody, and a token *)
(* that no session is claimed with, can never be wanted again; and a       *)
(* session that is closed stays closed.  The invariants of RecordingUpload *)
(* then survive each removal (CleanerMoves).                               *)
(***************************************************************************)
EXTENDS RecordingCleanup, RecordingUploadProofs

-----------------------------------------------------------------------------
(* The invariant *)

CleanerRows ==
  {IdleCleaner}
  \cup [pc : {"close", "remove"}, upload : Uploads, now : Nat, objects : SUBSET Objects]
  \cup [pc : {"orphan"}, object : Objects]
  \cup [pc : {"final", "finalRemove"}, token : Tokens]

(* A request may still record or remove object o. *)
Held(o) == \E p \in Putters : put[p] # IdlePut /\ put[p].object = o

(* A finaliser may still register the object of token k. *)
Claimable(k) == \E u \in Uploads : upload[u].state = "FINALIZING" /\ upload[u].token = k

(* What is stored was drawn; what is old belongs to no request. *)
SpentInv ==
  /\ \A o \in Objects : store[o] # NoData => o \in spent
  /\ \A k \in Tokens : final[k] # <<>> => k \in spent
  /\ \A o \in Objects : o \in aged => o \in spent /\ ~ Held(o)

(* The objects of one session, of a closed one once they are removed. *)
SessionTask(c) ==
  /\ \A o \in c.objects : o \in spent /\ ~ Held(o)
  /\ \A u \in Uploads : u # c.upload /\ IsUpload(u) =>
       \A i \in DOMAIN upload[u].chunks : upload[u].chunks[i].object \notin c.objects
  /\ c.pc = "remove" => In(c.upload, {"COMPLETE", "ABORTED"})

(* An object that belongs to nobody. *)
OrphanTask(c) == c.object \in spent /\ ~ Held(c.object) /\ Unreferenced(c.object)

(* A final object that cannot become evidence, and is none. *)
FinalTask(c) == /\ c.token \in spent /\ ~ Claimable(c.token)
                /\ c.pc = "finalRemove" => ~ IsEvidence(c.token)

TaskOk(c) == /\ c.pc \in {"close", "remove"} => SessionTask(c)
             /\ c.pc = "orphan" => OrphanTask(c)
             /\ c.pc \in {"final", "finalRemove"} => FinalTask(c)

CleanerInv == cleaner \in CleanerRows /\ TaskOk(cleaner)

CleanupInv == FinalInv /\ ObjectInv /\ SpentInv /\ CleanerInv

LEMMA CleanerAt ==
  ASSUME NEW c \in CleanerRows
  PROVE  /\ c.pc \in {"close", "remove"} =>
              c \in [pc : {"close", "remove"}, upload : Uploads, now : Nat, objects : SUBSET Objects]
         /\ c.pc = "orphan" => c \in [pc : {"orphan"}, object : Objects]
         /\ c.pc \in {"final", "finalRemove"} =>
              c \in [pc : {"final", "finalRemove"}, token : Tokens]
         /\ c = IdleCleaner => c.pc = "idle"
BY DEF CleanerRows, IdleCleaner

LEMMA CleanupStarts == CleanupInit => CleanupInv
<1> SUFFICES ASSUME CleanupInit PROVE CleanupInv
  OBVIOUS
<1>1. FinalInv
  BY FinalStarts DEF CleanupInit
<1>2. ObjectInv
  BY DEF CleanupInit, Init, ObjectInv, PutObject, RowObjects, RowsApart, IsUpload
<1>3. SpentInv
  BY DEF CleanupInit, Init, SpentInv
<1>4. CleanerInv
  BY DEF CleanupInit, CleanerInv, CleanerRows, TaskOk, IdleCleaner
<1> QED BY <1>1, <1>2, <1>3, <1>4 DEF CleanupInv

-----------------------------------------------------------------------------
(* Requests go on while the command is at work *)

LEMMA HeldMoves ==
  ASSUME TypeInv, [UploadNext]_vars, NEW o, o \in spent, ~ Held(o)
  PROVE  ~ Held(o)'
<1> SUFFICES ASSUME NEW p \in Putters, put'[p] # IdlePut, put'[p].object = o
             PROVE  FALSE
  BY DEF Held
<1>1. CASE PutKeeps(p)
  BY <1>1, RowsDiffer DEF PutKeeps, Held
<1>2. CASE put'[p].object \in spent' \ spent
  BY <1>2
<1> QED BY <1>1, <1>2, PutRowMoves

LEMMA ClaimMoves ==
  ASSUME TypeInv, [UploadNext]_vars, NEW k, k \in spent, ~ Claimable(k)
  PROVE  /\ ~ Claimable(k)'
         /\ IsEvidence(k)' => IsEvidence(k)
<1>1. ~ Claimable(k)'
  BY LeaseMoves DEF Claimable
<1>2. ASSUME IsEvidence(k)' PROVE IsEvidence(k)
  BY <1>2, EvidenceMoves DEF IsEvidence, Registered, MayRegister, Claimable
<1> QED BY <1>1, <1>2

LEMMA TaskStays ==
  ASSUME TypeInv, ObjectInv, [UploadNext]_vars, NEW c \in CleanerRows, TaskOk(c)
  PROVE  TaskOk(c)'
<1>1. ASSUME NEW u \in Uploads, IsUpload(u)', NEW i \in DOMAIN upload'[u].chunks
      PROVE  \/ /\ IsUpload(u) /\ i \in DOMAIN upload[u].chunks
                /\ upload'[u].chunks[i].object = upload[u].chunks[i].object
             \/ Held(upload'[u].chunks[i].object)
  BY <1>1, RefMoves, RowsDiffer DEF Held
<1>2. CASE c.pc \in {"close", "remove"}
  <2>1. SessionTask(c) /\ c.upload \in Uploads
    BY <1>2, CleanerAt DEF TaskOk
  <2>2. \A o \in c.objects : o \in spent' /\ ~ Held(o)'
    BY <2>1, HeldMoves, PutRowMoves DEF SessionTask
  <2>3. ASSUME NEW u \in Uploads, u # c.upload, IsUpload(u)', NEW i \in DOMAIN upload'[u].chunks
        PROVE  upload'[u].chunks[i].object \notin c.objects
    BY <1>1, <2>1, <2>3 DEF SessionTask
  <2>4. c.pc = "remove" => In(c.upload, {"COMPLETE", "ABORTED"})'
    BY <2>1, ClosedStays DEF SessionTask, In
  <2>5. SessionTask(c)'
    BY <2>2, <2>3, <2>4 DEF SessionTask
  <2> QED BY <1>2, <2>5 DEF TaskOk
<1>3. CASE c.pc = "orphan"
  <2>1. OrphanTask(c)
    BY <1>3 DEF TaskOk
  <2>2. c.object \in spent' /\ ~ Held(c.object)'
    BY <2>1, HeldMoves, PutRowMoves DEF OrphanTask
  <2>3. Unreferenced(c.object)'
    BY <1>1, <2>1 DEF OrphanTask, Unreferenced
  <2> QED BY <1>3, <2>2, <2>3 DEF TaskOk, OrphanTask
<1>4. CASE c.pc \in {"final", "finalRemove"}
  <2>1. FinalTask(c)
    BY <1>4 DEF TaskOk
  <2>2. FinalTask(c)'
    BY <2>1, ClaimMoves, PutRowMoves DEF FinalTask
  <2> QED BY <1>4, <2>2 DEF TaskOk
<1>5. CASE c.pc \notin {"close", "remove", "orphan", "final", "finalRemove"}
  BY <1>5 DEF TaskOk
<1> QED BY <1>2, <1>3, <1>4, <1>5

LEMMA RequestsGoOn ==
  ASSUME CleanupInv, [UploadNext]_vars, UNCHANGED <<cleaner, aged>>
  PROVE  CleanupInv'
<1> USE DEF CleanupInv
<1>0. TypeInv /\ ClaimInv
  BY DEF FinalInv
<1>1. FinalInv' /\ ObjectInv'
  BY <1>0, FinalGoesOn, ObjectsGoOn
<1>2. CleanerInv'
  <2>1. PICK c \in CleanerRows : c = cleaner /\ TaskOk(c)
    BY DEF CleanerInv
  <2>2. TaskOk(c)' /\ cleaner' = c
    BY <1>0, <2>1, TaskStays
  <2> QED BY <2>2 DEF CleanerInv, TaskOk, SessionTask, OrphanTask, FinalTask
<1>3. SpentInv'
  <2>1. ASSUME NEW o \in Objects, store'[o] # NoData PROVE o \in spent'
    <3>1. store[o] # NoData => o \in spent
      BY DEF SpentInv
    <3>2. ASSUME NEW p \in Putters, put[p] \in PutRow, put[p].object = o PROVE o \in spent
      BY <3>2, RowsDiffer DEF ObjectInv, PutObject
    <3> QED BY <1>0, <2>1, <3>1, <3>2, PutRowMoves
  <2>2. ASSUME NEW k \in Tokens, final'[k] # <<>> PROVE k \in spent'
    <3>1. final[k] # <<>> => k \in spent
      BY DEF SpentInv
    <3>2. ASSUME NEW f \in Finishers, fin[f].pc = "upload", fin[f].token = k PROVE k \in spent
      BY <1>0, <3>2, RowsDiffer DEF ClaimInv, FinClaim
    <3> QED BY <1>0, <2>2, <3>1, <3>2, FinRowMoves
  <2>3. ASSUME NEW o \in Objects, o \in aged PROVE o \in spent' /\ ~ Held(o)'
    BY <1>0, <2>3, HeldMoves, PutRowMoves DEF SpentInv
  <2> QED BY <2>1, <2>2, <2>3 DEF SpentInv
<1> QED BY <1>1, <1>2, <1>3

-----------------------------------------------------------------------------
(* A step of the command *)

(* A session is closed, or the chunk rows of a closed one go. *)
RowCleaned(u) ==
  \/ upload'[u] = upload[u]
  \/ /\ In(u, {"OPEN", "FINALIZING"}) /\ upload'[u] \in UploadRow
     /\ upload'[u].state = "ABORTED" /\ upload'[u].chunks = upload[u].chunks
     /\ upload'[u].bytes = upload[u].bytes
  \/ /\ In(u, {"COMPLETE", "ABORTED"}) /\ upload'[u] \in UploadRow
     /\ upload'[u].state = upload[u].state /\ upload'[u].expected = upload[u].expected
     /\ upload'[u].interrupted = upload[u].interrupted
     /\ upload'[u].evidence = upload[u].evidence
     /\ DOMAIN upload'[u].chunks = {} /\ upload'[u].bytes = upload[u].bytes

(* Nobody needs the staged object o any more. *)
Removable(o) ==
  /\ ~ Held(o)
  /\ \A u \in Uploads : In(u, {"OPEN", "FINALIZING"}) =>
       \A i \in DOMAIN upload[u].chunks : upload[u].chunks[i].object # o

Cleaned ==
  /\ UNCHANGED <<now, attemptVars, evidence, spent, requests, saved, acked>>
  /\ upload' \in [Uploads -> UploadRow \cup {NoUpload}]
  /\ store' \in [Objects -> Data \cup {NoData}]
  /\ final' \in [Tokens -> Seq(Data)]
  /\ \A u \in Uploads : RowCleaned(u)
  /\ \A o \in Objects : store'[o] = store[o] \/ (store'[o] = NoData /\ Removable(o))
  /\ \A k \in Tokens : \/ final'[k] = final[k]
                       \/ final'[k] = <<>> /\ ~ Claimable(k) /\ ~ IsEvidence(k)

LEMMA NothingCleaned ==
  ASSUME TypeInv, UNCHANGED vars
  PROVE  Cleaned
<1>1. /\ UNCHANGED <<now, attemptVars, evidence, spent, requests, saved, acked>>
      /\ upload' = upload /\ store' = store /\ final' = final
  BY DEF vars, storage
<1> QED BY <1>1 DEF Cleaned, RowCleaned, TypeInv, TypeOK

LEMMA SessionClosed ==
  ASSUME TypeInv, NEW u \in Uploads, In(u, {"OPEN", "FINALIZING"}),
         upload' = [upload EXCEPT ![u].state = "ABORTED", ![u].token = NoToken, ![u].lease = 0],
         UNCHANGED <<now, attemptVars, evidence, storage, spent, requests, saved, acked>>
  PROVE  Cleaned
<1> DEFINE r == [upload[u] EXCEPT !.state = "ABORTED", !.token = NoToken, !.lease = 0]
<1>1. upload[u] \in UploadRow
  BY UploadAt DEF TypeInv, In
<1>2. /\ r \in UploadRow /\ r.state = "ABORTED" /\ r.chunks = upload[u].chunks
      /\ r.bytes = upload[u].bytes
  BY <1>1 DEF UploadRow
<1>3. upload' = [upload EXCEPT ![u] = r]
  OBVIOUS
<1> HIDE DEF r
<1>4. upload' \in [Uploads -> UploadRow \cup {NoUpload}] /\ \A v \in Uploads : RowCleaned(v)
  BY <1>2, <1>3 DEF TypeInv, TypeOK, RowCleaned
<1>5. UNCHANGED <<now, attemptVars, evidence, spent, requests, saved, acked>>
      /\ store' = store /\ final' = final
  BY DEF storage
<1> QED BY <1>4, <1>5 DEF Cleaned, TypeInv, TypeOK

LEMMA RowsDeleted ==
  ASSUME TypeInv, NEW u \in Uploads, In(u, {"COMPLETE", "ABORTED"}),
         upload' = [upload EXCEPT ![u].chunks = <<>>],
         UNCHANGED <<now, attemptVars, evidence, storage, spent, requests, saved, acked>>
  PROVE  Cleaned
<1> DEFINE r == [upload[u] EXCEPT !.chunks = <<>>]
<1>1. upload[u] \in UploadRow
  BY UploadAt DEF TypeInv, In
<1>2. <<>> \in ChunkRows /\ DOMAIN <<>> = {}
  <2>1. DOMAIN <<>> = {} /\ <<>> \in [{} -> ChunkRow]
    OBVIOUS
  <2> QED BY <2>1, ChunkRowsElements
<1>3. /\ r \in UploadRow /\ r.state = upload[u].state /\ r.expected = upload[u].expected
      /\ r.interrupted = upload[u].interrupted
      /\ r.evidence = upload[u].evidence /\ DOMAIN r.chunks = {} /\ r.bytes = upload[u].bytes
  BY <1>1, <1>2 DEF UploadRow
<1>4. upload' = [upload EXCEPT ![u] = r]
  OBVIOUS
<1> HIDE DEF r
<1>5. upload' \in [Uploads -> UploadRow \cup {NoUpload}] /\ \A v \in Uploads : RowCleaned(v)
  BY <1>3, <1>4 DEF TypeInv, TypeOK, RowCleaned
<1>6. UNCHANGED <<now, attemptVars, evidence, spent, requests, saved, acked>>
      /\ store' = store /\ final' = final
  BY DEF storage
<1> QED BY <1>5, <1>6 DEF Cleaned, TypeInv, TypeOK

LEMMA ObjectRemoved ==
  ASSUME TypeInv, NEW o \in Objects, Removable(o), store' = [store EXCEPT ![o] = NoData],
         UNCHANGED <<now, attemptVars, upload, evidence, final, spent, requests, saved, acked>>
  PROVE  Cleaned
<1>1. /\ store' \in [Objects -> Data \cup {NoData}]
      /\ \A q \in Objects : store'[q] = store[q] \/ (store'[q] = NoData /\ Removable(q))
  BY DEF TypeInv, TypeOK
<1> QED BY <1>1 DEF Cleaned, RowCleaned, TypeInv, TypeOK

LEMMA FinalRemoved ==
  ASSUME TypeInv, NEW k \in Tokens, ~ Claimable(k), ~ IsEvidence(k),
         final' = [final EXCEPT ![k] = <<>>],
         UNCHANGED <<now, attemptVars, upload, evidence, store, spent, requests, saved, acked>>
  PROVE  Cleaned
<1>1. /\ final' \in [Tokens -> Seq(Data)]
      /\ \A q \in Tokens : \/ final'[q] = final[q]
                           \/ final'[q] = <<>> /\ ~ Claimable(q) /\ ~ IsEvidence(q)
  BY DEF TypeInv, TypeOK
<1> QED BY <1>1 DEF Cleaned, RowCleaned, TypeInv, TypeOK

(* Whatever the command does, nobody needed. *)
LEMMA CleanerMoves ==
  ASSUME TypeInv, CleanerInv, CleanerNext
  PROVE  Cleaned
<1>0. PICK c \in CleanerRows : c = cleaner /\ TaskOk(c)
  BY DEF CleanerInv
<1>1. ASSUME UNCHANGED vars PROVE Cleaned
  BY <1>1, NothingCleaned
<1>2. ASSUME NEW u \in Uploads, CloseSession(u) PROVE Cleaned
  <2>1. CASE Overdue(u, cleaner.now)
    <3>1. In(u, {"OPEN", "FINALIZING"})
      BY <2>1 DEF Overdue
    <3> QED BY <1>2, <2>1, <3>1, SessionClosed DEF CloseSession
  <2>2. CASE ~ Overdue(u, cleaner.now)
    BY <1>1, <1>2, <2>2 DEF CloseSession, vars
  <2> QED BY <2>1, <2>2
<1>3. ASSUME NEW u \in Uploads, DeleteRows(u) PROVE Cleaned
  <2>1. CASE In(u, {"COMPLETE", "ABORTED"})
    BY <1>3, <2>1, RowsDeleted DEF DeleteRows
  <2>2. CASE ~ In(u, {"COMPLETE", "ABORTED"})
    BY <1>1, <1>3, <2>2 DEF DeleteRows, vars
  <2> QED BY <2>1, <2>2
<1>4. ASSUME NEW o \in Objects, RemoveStaged(o) PROVE Cleaned
  <2>1. SessionTask(c) /\ c.pc = "remove" /\ o \in c.objects
    BY <1>0, <1>4 DEF RemoveStaged, TaskOk
  <2>2. Removable(o)
    <3>1. ASSUME NEW u \in Uploads, In(u, {"OPEN", "FINALIZING"}),
                 NEW i \in DOMAIN upload[u].chunks
          PROVE  upload[u].chunks[i].object # o
      <4>1. u # c.upload
        BY <2>1, <3>1 DEF SessionTask, In
      <4>2. IsUpload(u)
        BY <3>1, UploadAt DEF TypeInv, In
      <4> QED BY <2>1, <3>1, <4>1, <4>2 DEF SessionTask
    <3> QED BY <2>1, <3>1 DEF Removable, SessionTask
  <2> QED BY <1>4, <2>2, ObjectRemoved DEF RemoveStaged
<1>5. ASSUME NEW o \in Objects, RemoveOrphan(o) PROVE Cleaned
  <2>1. OrphanTask(c) /\ c.object = o
    BY <1>0, <1>5 DEF RemoveOrphan, TaskOk
  <2>2. Removable(o)
    BY <2>1, UploadAt DEF Removable, OrphanTask, Unreferenced, TypeInv, In
  <2> QED BY <1>5, <2>2, ObjectRemoved DEF RemoveOrphan
<1>6. ASSUME NEW k \in Tokens, RemoveFinal(k) PROVE Cleaned
  <2>1. FinalTask(c) /\ c.token = k /\ c.pc = "finalRemove"
    BY <1>0, <1>6 DEF RemoveFinal, TaskOk
  <2> QED BY <1>6, <2>1, FinalRemoved DEF RemoveFinal, FinalTask
<1>7. ASSUME NEW o \in Objects, AgeObject(o) \/ FindOrphan(o) PROVE UNCHANGED vars
  BY <1>7 DEF AgeObject, FindOrphan
<1>8. ASSUME NEW k \in Tokens, AgeFinal(k) \/ FindFinal(k) \/ CheckFinal(k) PROVE UNCHANGED vars
  BY <1>8 DEF AgeFinal, FindFinal, CheckFinal
<1>9. ASSUME NEW u \in Uploads, ReadSession(u) PROVE UNCHANGED vars
  BY <1>9 DEF ReadSession
<1>10. ASSUME CleanerStops PROVE UNCHANGED vars
  BY <1>10 DEF CleanerStops
<1> QED BY <1>1, <1>2, <1>3, <1>4, <1>5, <1>6, <1>7, <1>8, <1>9, <1>10 DEF CleanerNext

LEMMA CleanedParts ==
  ASSUME Cleaned
  PROVE  /\ evidence' = evidence /\ spent' = spent /\ saved' = saved
         /\ put' = put /\ fin' = fin /\ late' = late
BY DEF Cleaned, requests

(* What is left of the rows was there before. *)
LEMMA CleanedRefs ==
  ASSUME TypeInv, Cleaned, NEW u \in Uploads
  PROVE  /\ upload'[u] # NoUpload <=> IsUpload(u)
         /\ In(u, {"OPEN", "FINALIZING"})' => upload'[u] = upload[u]
         /\ In(u, {"COMPLETE", "ABORTED"}) => In(u, {"COMPLETE", "ABORTED"})'
         /\ upload'[u].chunks = upload[u].chunks \/ DOMAIN upload'[u].chunks = {}
<1>1. CASE upload'[u] = upload[u]
  BY <1>1 DEF IsUpload, In
<1>2. CASE upload'[u] # upload[u]
  <2>1. upload'[u] \in UploadRow /\ IsUpload(u)
    BY <1>2, UploadAt DEF Cleaned, RowCleaned, TypeInv, In
  <2> QED BY <1>2, <2>1, RowsDiffer DEF Cleaned, RowCleaned, In
<1> QED BY <1>1, <1>2

LEMMA UnreferencedStays ==
  ASSUME TypeInv, Cleaned, NEW o, Unreferenced(o)
  PROVE  Unreferenced(o)'
<1> SUFFICES ASSUME NEW u \in Uploads, upload'[u] # NoUpload, NEW i \in DOMAIN upload'[u].chunks
             PROVE  upload'[u].chunks[i].object # o
  BY DEF Unreferenced, IsUpload
<1> QED BY CleanedRefs DEF Unreferenced

LEMMA ClaimableStays ==
  ASSUME TypeInv, Cleaned, NEW k, Claimable(k)'
  PROVE  Claimable(k)
<1>1. PICK u \in Uploads : upload'[u].state = "FINALIZING" /\ upload'[u].token = k
  BY DEF Claimable
<1>2. upload'[u] = upload[u]
  BY <1>1, CleanedRefs DEF In
<1> QED BY <1>1, <1>2 DEF Claimable

LEMMA CleanedTyped ==
  ASSUME TypeInv, Cleaned
  PROVE  TypeInv'
<1>1. TypeOK'
  BY DEF Cleaned, TypeInv, TypeOK, attemptVars, requests
<1>2. FinInv'
  BY CleanedParts DEF TypeInv, FinInv
<1> QED BY <1>1, <1>2 DEF TypeInv

LEMMA CleanedSaved ==
  ASSUME TypeInv, SavedInv, Cleaned
  PROVE  SavedInv'
<1> SUFFICES ASSUME NEW u \in Uploads PROVE SavedRow(u)'
  BY DEF SavedInv
<1>0. SavedRow(u) /\ saved'[u] = saved[u]
  BY CleanedParts DEF SavedInv
<1>1. CASE upload'[u] = upload[u]
  BY <1>0, <1>1 DEF SavedRow, IsUpload, In
<1>2. CASE upload'[u] # upload[u]
  <2>1. /\ upload'[u] \in UploadRow /\ upload'[u].state \in {"COMPLETE", "ABORTED"}
        /\ upload'[u].state = "COMPLETE" =>
             upload[u].state = "COMPLETE" /\ upload'[u].expected = upload[u].expected
    BY <1>2 DEF Cleaned, RowCleaned, In
  <2>2. IsUpload(u)'
    BY <2>1, RowsDiffer DEF IsUpload
  <2> QED BY <1>0, <2>1, <2>2 DEF SavedRow, In
<1> QED BY <1>1, <1>2

LEMMA CleanedObjects ==
  ASSUME TypeInv, ObjectInv, Cleaned
  PROVE  ObjectInv'
<1>1. ASSUME NEW p \in Putters PROVE PutObject(p)'
  <2> SUFFICES ASSUME put[p] # IdlePut
               PROVE  /\ put[p].object \in spent
                      /\ Unreferenced(put[p].object)'
                      /\ put[p].pc \in {"commit", "late"} => store'[put[p].object] = put[p].data
                      /\ \A q \in Putters \ {p} : put[q] # IdlePut => put[q].object # put[p].object
    BY CleanedParts DEF PutObject, Unreferenced, IsUpload
  <2>1. PutObject(p)
    BY DEF ObjectInv
  <2>2. Unreferenced(put[p].object)'
    <3>1. PICK o : o = put[p].object
      OBVIOUS
    <3>2. Unreferenced(o)'
      BY <2>1, <3>1, UnreferencedStays DEF PutObject
    <3>3. put' = put
      BY CleanedParts
    <3> QED BY <3>1, <3>2, <3>3
  <2>3. put[p].object \in Objects /\ Held(put[p].object)
    BY PutAt DEF TypeInv, PutRow, Held
  <2>4. store'[put[p].object] = store[put[p].object]
    BY <2>3 DEF Cleaned, Removable
  <2> QED BY <2>1, <2>2, <2>4 DEF PutObject
<1>2. ASSUME NEW u \in Uploads PROVE RowObjects(u)'
  <2> SUFFICES ASSUME upload'[u] # NoUpload, NEW i \in DOMAIN upload'[u].chunks
               PROVE  /\ upload'[u].chunks[i].object \in spent'
                      /\ In(u, {"OPEN", "FINALIZING"})' =>
                           store'[upload'[u].chunks[i].object] = upload'[u].chunks[i].data
    BY DEF RowObjects, IsUpload
  <2>1. IsUpload(u) /\ upload'[u].chunks = upload[u].chunks /\ i \in DOMAIN upload[u].chunks
    BY CleanedRefs
  <2>2. upload'[u].chunks[i].object \in spent'
    BY <2>1, CleanedParts DEF ObjectInv, RowObjects
  <2>3. ASSUME In(u, {"OPEN", "FINALIZING"})'
        PROVE  store'[upload'[u].chunks[i].object] = upload'[u].chunks[i].data
    <3>1. upload'[u] = upload[u] /\ In(u, {"OPEN", "FINALIZING"})
      BY <2>3, CleanedRefs DEF In
    <3>2. upload[u].chunks[i].object \in Objects
      BY <2>1, ChunkAt DEF TypeInv
    <3>3. ~ Removable(upload[u].chunks[i].object)
      BY <2>1, <3>1 DEF Removable
    <3>4. store[upload[u].chunks[i].object] = upload[u].chunks[i].data
      BY <2>1, <3>1 DEF ObjectInv, RowObjects
    <3> QED BY <3>1, <3>2, <3>3, <3>4 DEF Cleaned
  <2> QED BY <2>2, <2>3
<1>3. ASSUME NEW u \in Uploads, NEW v \in Uploads, u # v PROVE RowsApart(u, v)'
  <2> SUFFICES ASSUME upload'[u] # NoUpload, upload'[v] # NoUpload,
                      NEW i \in DOMAIN upload'[u].chunks, NEW j \in DOMAIN upload'[v].chunks
               PROVE  upload'[u].chunks[i].object # upload'[v].chunks[j].object
    BY DEF RowsApart, IsUpload
  <2>1. /\ IsUpload(u) /\ upload'[u].chunks = upload[u].chunks
        /\ IsUpload(v) /\ upload'[v].chunks = upload[v].chunks
    BY CleanedRefs
  <2> QED BY <1>3, <2>1 DEF ObjectInv, RowsApart
<1> QED BY <1>1, <1>2, <1>3 DEF ObjectInv

LEMMA CleanedClaims ==
  ASSUME FinalInv, Cleaned
  PROVE  ClaimInv'
<1> USE DEF FinalInv
<1>0. /\ put' = put /\ fin' = fin /\ late' = late /\ evidence' = evidence
      /\ spent' = spent /\ saved' = saved
  BY CleanedParts
<1>1. ASSUME NEW f \in Finishers PROVE FinClaim(f)'
  <2> SUFFICES ASSUME fin[f] # IdleFin
               PROVE  /\ fin[f].token \in spent
                      /\ \A g \in Finishers \ {f} : fin[g] # IdleFin => fin[g].token # fin[f].token
                      /\ HoldsLease(f)' => /\ Agrees(fin[f], upload'[fin[f].upload])
                                           /\ fin[f].pc = "commit" =>
                                                final'[fin[f].token] = fin[f].content
    BY <1>0 DEF FinClaim, Agrees
  <2>1. FinClaim(f) /\ fin[f].upload \in Uploads /\ fin[f].token \in Tokens
    BY FinAt DEF ClaimInv, FinRow, TypeInv
  <2>2. ASSUME HoldsLease(f)'
        PROVE  /\ Agrees(fin[f], upload'[fin[f].upload])
               /\ fin[f].pc = "commit" => final'[fin[f].token] = fin[f].content
    <3>1. /\ upload'[fin[f].upload].state = "FINALIZING"
          /\ upload'[fin[f].upload].token = fin[f].token
      BY <1>0, <2>2 DEF HoldsLease
    <3>2. upload'[fin[f].upload] = upload[fin[f].upload]
      BY <2>1, <3>1, CleanedRefs DEF In
    <3>3. HoldsLease(f) /\ Claimable(fin[f].token)
      BY <2>1, <3>1, <3>2 DEF HoldsLease, Claimable
    <3>4. final'[fin[f].token] = final[fin[f].token]
      BY <2>1, <3>3 DEF Cleaned
    <3> QED BY <2>1, <3>2, <3>3, <3>4 DEF FinClaim
  <2> QED BY <2>1, <2>2 DEF FinClaim
<1>2. ASSUME NEW l \in late PROVE LateClaim(l)'
  <2>1. LateClaim(l) /\ l.upload \in Uploads /\ l.token \in Tokens
    BY DEF ClaimInv, TypeInv, TypeOK
  <2>2. ASSUME upload'[l.upload].state = "FINALIZING", upload'[l.upload].token = l.token
        PROVE  Listing(l.upload, l.token)'
    <3>1. upload'[l.upload] = upload[l.upload]
      BY <2>1, <2>2, CleanedRefs DEF In
    <3>2. Claimable(l.token)
      BY <2>1, <2>2, <3>1 DEF Claimable
    <3>3. final'[l.token] = final[l.token]
      BY <2>1, <3>2 DEF Cleaned
    <3> QED BY <2>1, <2>2, <3>1, <3>3 DEF LateClaim, Listing
  <2> QED BY <1>0, <2>1, <2>2 DEF LateClaim, Busy
<1>3. ASSUME NEW u \in Uploads PROVE DoneClaim(u)'
  <2> SUFFICES ASSUME upload'[u].state = "COMPLETE" PROVE DoneClaim(u)'
    BY DEF DoneClaim
  <2>1. /\ upload[u].state = "COMPLETE" /\ upload'[u].evidence = upload[u].evidence
        /\ upload'[u].expected = upload[u].expected
    BY DEF Cleaned, RowCleaned, In
  <2>2. /\ upload[u].evidence \in spent \cap Tokens
        /\ [upload |-> u, token |-> upload[u].evidence] \in evidence
        /\ \A f \in Finishers : Busy(f) => fin[f].token # upload[u].evidence
        /\ Recording(u, upload[u].evidence)
    BY <2>1 DEF ClaimInv, DoneClaim
  <2>3. IsEvidence(upload[u].evidence)
    BY <2>2 DEF IsEvidence
  <2>4. final'[upload[u].evidence] = final[upload[u].evidence]
    BY <2>2, <2>3 DEF Cleaned
  <2>5. Recording(u, upload[u].evidence)'
    BY <1>0, <2>1, <2>2, <2>4 DEF Recording
  <2> QED BY <1>0, <2>1, <2>2, <2>5 DEF DoneClaim, Busy
<1> QED BY <1>0, <1>1, <1>2, <1>3 DEF ClaimInv

(* What the command holds stays removable through its own steps. *)
LEMMA CleanedTasks ==
  ASSUME TypeInv, Cleaned, NEW c \in CleanerRows, TaskOk(c)
  PROVE  TaskOk(c)'
<1>0. put' = put /\ evidence' = evidence /\ spent' = spent
  BY CleanedParts
<1>1. CASE c.pc \in {"close", "remove"}
  <2>1. SessionTask(c) /\ c.upload \in Uploads
    BY <1>1, CleanerAt DEF TaskOk
  <2>2. \A o \in c.objects : o \in spent' /\ ~ Held(o)'
    BY <1>0, <2>1 DEF SessionTask, Held
  <2>3. ASSUME NEW u \in Uploads, u # c.upload, IsUpload(u)', NEW i \in DOMAIN upload'[u].chunks
        PROVE  upload'[u].chunks[i].object \notin c.objects
    <3>1. IsUpload(u) /\ upload'[u].chunks = upload[u].chunks
      BY <2>3, CleanedRefs DEF IsUpload
    <3> QED BY <2>1, <2>3, <3>1 DEF SessionTask
  <2>4. c.pc = "remove" => In(c.upload, {"COMPLETE", "ABORTED"})'
    BY <2>1, CleanedRefs DEF SessionTask
  <2>5. SessionTask(c)'
    BY <2>2, <2>3, <2>4 DEF SessionTask
  <2> QED BY <1>1, <2>5 DEF TaskOk
<1>2. CASE c.pc = "orphan"
  <2>1. OrphanTask(c)
    BY <1>2 DEF TaskOk
  <2>2. Unreferenced(c.object)' /\ ~ Held(c.object)'
    BY <1>0, <2>1, UnreferencedStays DEF OrphanTask, Held
  <2> QED BY <1>0, <1>2, <2>1, <2>2 DEF TaskOk, OrphanTask
<1>3. CASE c.pc \in {"final", "finalRemove"}
  <2>1. FinalTask(c)
    BY <1>3 DEF TaskOk
  <2>2. ~ Claimable(c.token)'
    BY <2>1, ClaimableStays DEF FinalTask
  <2>3. FinalTask(c)'
    BY <1>0, <2>1, <2>2 DEF FinalTask, IsEvidence
  <2> QED BY <1>3, <2>3 DEF TaskOk
<1>4. CASE c.pc \notin {"close", "remove", "orphan", "final", "finalRemove"}
  BY <1>4 DEF TaskOk
<1> QED BY <1>1, <1>2, <1>3, <1>4

(* A task may be begun in any state in which it is in order. *)
LEMMA TaskTaken ==
  ASSUME TypeInv, Cleaned, NEW c \in CleanerRows, TaskOk(c), cleaner' = c
  PROVE  CleanerInv'
<1>1. TaskOk(c)'
  BY CleanedTasks
<1> QED BY <1>1 DEF CleanerInv, TaskOk, SessionTask, OrphanTask, FinalTask

LEMMA NextTask ==
  ASSUME CleanupInv, Cleaned, CleanerNext
  PROVE  CleanerInv'
<1>0. /\ TypeInv /\ ClaimInv /\ CleanerInv /\ ObjectInv /\ SpentInv
      /\ put' = put /\ evidence' = evidence /\ spent' = spent
  BY CleanedParts DEF CleanupInv, FinalInv
<1>1. PICK c \in CleanerRows : c = cleaner /\ TaskOk(c)
  BY <1>0 DEF CleanerInv
<1>2. CASE cleaner' = IdleCleaner
  BY <1>2 DEF CleanerInv, CleanerRows, TaskOk, IdleCleaner
<1>3. CASE cleaner' = cleaner
  BY <1>0, <1>1, <1>3, TaskTaken
<1>4. ASSUME NEW u \in Uploads, ReadSession(u) PROVE CleanerInv'
  <2> DEFINE d == [pc |-> IF Overdue(u, now) THEN "close" ELSE "remove",
                   upload |-> u, now |-> now, objects |-> ChunkObjects(u)]
  <2>1. IsUpload(u) /\ (d.pc = "remove" => In(u, {"COMPLETE", "ABORTED"}))
    BY <1>0, <1>4, UploadAt DEF ReadSession, Wants, Overdue, TypeInv, In
  <2>2. ASSUME NEW o \in ChunkObjects(u)
        PROVE  /\ o \in Objects /\ o \in spent /\ ~ Held(o)
               /\ \A v \in Uploads : v # u /\ IsUpload(v) =>
                    \A i \in DOMAIN upload[v].chunks : upload[v].chunks[i].object # o
    <3>1. PICK i \in DOMAIN upload[u].chunks : o = upload[u].chunks[i].object
      BY DEF ChunkObjects
    <3>2. o \in Objects /\ o \in spent
      BY <1>0, <2>1, <3>1, ChunkAt DEF TypeInv, ObjectInv, RowObjects
    <3>3. ~ Held(o)
      BY <1>0, <2>1, <3>1 DEF Held, ObjectInv, PutObject, Unreferenced
    <3>4. \A v \in Uploads : v # u /\ IsUpload(v) =>
            \A j \in DOMAIN upload[v].chunks : upload[v].chunks[j].object # o
      BY <1>0, <2>1, <3>1 DEF ObjectInv, RowsApart
    <3> QED BY <3>2, <3>3, <3>4
  <2>3. d \in CleanerRows
    BY <1>0, <2>2 DEF CleanerRows, TypeInv, TypeOK
  <2>4. TaskOk(d)
    <3>1. SessionTask(d)
      BY <2>1, <2>2 DEF SessionTask
    <3> QED BY <3>1 DEF TaskOk
  <2>5. cleaner' = d
    BY <1>4 DEF ReadSession
  <2> HIDE DEF d
  <2> QED BY <1>0, <2>3, <2>4, <2>5, TaskTaken
<1>5. ASSUME NEW u \in Uploads, CloseSession(u), cleaner' # IdleCleaner PROVE CleanerInv'
  <2> DEFINE d == [c EXCEPT !.pc = "remove"]
  <2>1. c.pc = "close" /\ c.upload = u /\ cleaner' = d /\ Overdue(u, c.now)
        /\ upload' = [upload EXCEPT ![u].state = "ABORTED", ![u].token = NoToken, ![u].lease = 0]
    BY <1>1, <1>5 DEF CloseSession
  <2>2. c \in [pc : {"close", "remove"}, upload : Uploads, now : Nat, objects : SUBSET Objects]
    BY <2>1, CleanerAt
  <2>3. /\ d \in CleanerRows /\ d.pc = "remove"
        /\ d.upload = c.upload /\ d.objects = c.objects
    BY <2>2 DEF CleanerRows
  <2>4. TaskOk(c)'
    BY <1>0, <1>1, CleanedTasks
  <2>5. In(u, {"COMPLETE", "ABORTED"})'
    <3>1. upload[u] \in UploadRow
      BY <1>0, <2>1, UploadAt DEF Overdue, TypeInv, In
    <3> QED BY <1>0, <2>1, <3>1 DEF In, TypeInv, TypeOK, UploadRow
  <2> HIDE DEF d
  <2>6. SessionTask(d)'
    BY <2>1, <2>3, <2>4, <2>5 DEF TaskOk, SessionTask, In
  <2> QED BY <2>1, <2>3, <2>6 DEF CleanerInv, TaskOk, SessionTask, In
<1>6. ASSUME NEW o \in Objects, RemoveStaged(o) PROVE CleanerInv'
  <2> DEFINE d == [c EXCEPT !.objects = @ \ {o}]
  <2>1. c.pc = "remove" /\ cleaner' = d
    BY <1>1, <1>6 DEF RemoveStaged
  <2>2. c \in [pc : {"close", "remove"}, upload : Uploads, now : Nat, objects : SUBSET Objects]
    BY <2>1, CleanerAt
  <2>3. /\ d \in CleanerRows /\ d.pc = "remove"
        /\ d.upload = c.upload /\ d.objects \subseteq c.objects
    BY <2>1, <2>2 DEF CleanerRows
  <2> HIDE DEF d
  <2>4. TaskOk(d)
    BY <1>1, <2>1, <2>3 DEF TaskOk, SessionTask, In
  <2> QED BY <1>0, <2>1, <2>3, <2>4, TaskTaken
<1>7. ASSUME NEW o \in Objects, FindOrphan(o) PROVE CleanerInv'
  <2> DEFINE d == [pc |-> "orphan", object |-> o]
  <2>1. cleaner' = d /\ d \in CleanerRows /\ d.pc = "orphan" /\ d.object = o
    BY <1>7 DEF FindOrphan, CleanerRows
  <2>2. o \in spent /\ ~ Held(o) /\ Unreferenced(o)
    BY <1>0, <1>7 DEF FindOrphan, SpentInv
  <2> HIDE DEF d
  <2>3. TaskOk(d)
    BY <2>1, <2>2 DEF TaskOk, OrphanTask
  <2> QED BY <1>0, <2>1, <2>3, TaskTaken
<1>8. ASSUME NEW k \in Tokens, FindFinal(k) PROVE CleanerInv'
  <2> DEFINE d == [pc |-> "final", token |-> k]
  <2>1. cleaner' = d /\ d \in CleanerRows /\ d.pc = "final" /\ d.token = k
    BY <1>8 DEF FindFinal, CleanerRows
  <2>2. k \in spent /\ ~ Claimable(k)
    BY <1>0, <1>8 DEF FindFinal, SpentInv, Claimable
  <2> HIDE DEF d
  <2>3. TaskOk(d)
    BY <2>1, <2>2 DEF TaskOk, FinalTask
  <2> QED BY <1>0, <2>1, <2>3, TaskTaken
<1>9. ASSUME NEW k \in Tokens, CheckFinal(k), cleaner' # IdleCleaner PROVE CleanerInv'
  <2> DEFINE d == [c EXCEPT !.pc = "finalRemove"]
  <2>1. c.pc = "final" /\ c.token = k /\ cleaner' = d /\ ~ IsEvidence(k)
    BY <1>1, <1>9 DEF CheckFinal
  <2>2. c \in [pc : {"final", "finalRemove"}, token : Tokens]
    BY <2>1, CleanerAt
  <2>3. d \in CleanerRows /\ d.pc = "finalRemove" /\ d.token = k
    BY <2>1, <2>2 DEF CleanerRows
  <2> HIDE DEF d
  <2>4. TaskOk(d)
    BY <1>1, <2>1, <2>3 DEF TaskOk, FinalTask
  <2> QED BY <1>0, <2>1, <2>3, <2>4, TaskTaken
<1>10. ASSUME NEW o \in Objects, AgeObject(o) \/ RemoveOrphan(o)
       PROVE  cleaner' \in {cleaner, IdleCleaner}
  BY <1>10 DEF AgeObject, RemoveOrphan
<1>11. ASSUME NEW k \in Tokens, AgeFinal(k) \/ RemoveFinal(k)
       PROVE  cleaner' \in {cleaner, IdleCleaner}
  BY <1>11 DEF AgeFinal, RemoveFinal
<1>12. ASSUME NEW u \in Uploads, DeleteRows(u) PROVE cleaner' = IdleCleaner
  BY <1>12 DEF DeleteRows
<1>13. ASSUME CleanerStops PROVE cleaner' = IdleCleaner
  BY <1>13 DEF CleanerStops
<1> QED BY <1>2, <1>3, <1>4, <1>5, <1>6, <1>7, <1>8, <1>9, <1>10, <1>11, <1>12, <1>13
        DEF CleanerNext

LEMMA AgedMoves ==
  ASSUME CleanerNext
  PROVE  \/ aged' \subseteq aged
         \/ \E o \in Objects : /\ aged' = aged \cup {o} /\ store[o] # NoData /\ ~ Held(o)
         \/ \E k \in Tokens : aged' = aged \cup {k}
<1>1. ASSUME NEW o \in Objects, AgeObject(o)
      PROVE  aged' = aged \cup {o} /\ store[o] # NoData /\ ~ Held(o)
  BY <1>1 DEF AgeObject, Held
<1>2. ASSUME NEW k \in Tokens, AgeFinal(k) PROVE aged' = aged \cup {k}
  BY <1>2 DEF AgeFinal
<1>3. ASSUME NEW o \in Objects, RemoveStaged(o) \/ FindOrphan(o) \/ RemoveOrphan(o)
      PROVE  aged' \subseteq aged
  BY <1>3 DEF RemoveStaged, FindOrphan, RemoveOrphan
<1>4. ASSUME NEW k \in Tokens, FindFinal(k) \/ CheckFinal(k) \/ RemoveFinal(k)
      PROVE  aged' \subseteq aged
  BY <1>4 DEF FindFinal, CheckFinal, RemoveFinal
<1>5. ASSUME NEW u \in Uploads, ReadSession(u) \/ CloseSession(u) \/ DeleteRows(u)
      PROVE  aged' \subseteq aged
  BY <1>5 DEF ReadSession, CloseSession, DeleteRows
<1>6. ASSUME CleanerStops PROVE aged' \subseteq aged
  BY <1>6 DEF CleanerStops
<1> QED BY <1>1, <1>2, <1>3, <1>4, <1>5, <1>6 DEF CleanerNext

LEMMA CleanerGoesOn ==
  ASSUME CleanupInv, CleanerNext
  PROVE  CleanupInv'
<1> USE DEF CleanupInv
<1>1. Cleaned
  BY CleanerMoves DEF FinalInv
<1>2. FinalInv'
  BY <1>1, CleanedTyped, CleanedSaved, CleanedClaims DEF FinalInv
<1>3. ObjectInv'
  BY <1>1, CleanedObjects DEF FinalInv
<1>4. CleanerInv'
  BY <1>1, NextTask
<1>5. SpentInv'
  <2>1. spent' = spent /\ put' = put
    BY <1>1, CleanedParts
  <2>2. /\ \A o \in Objects : store'[o] # NoData => o \in spent
        /\ \A k \in Tokens : final'[k] # <<>> => k \in spent
    BY <1>1 DEF Cleaned, SpentInv
  <2>3. ASSUME NEW o \in Objects, o \in aged' PROVE o \in spent /\ ~ Held(o)
    <3>1. CASE o \in aged
      BY <3>1 DEF SpentInv
    <3>2. CASE o \notin aged
      <4>1. store[o] # NoData /\ ~ Held(o)
        BY <2>3, <3>2, AgedMoves, KeyAssumption
      <4> QED BY <4>1 DEF SpentInv
    <3> QED BY <3>1, <3>2
  <2> QED BY <2>1, <2>2, <2>3 DEF SpentInv, Held
<1> QED BY <1>2, <1>3, <1>4, <1>5

LEMMA CleanupGoesOn == CleanupInv /\ [CleanupNext]_cvars => CleanupInv'
<1> SUFFICES ASSUME CleanupInv, [CleanupNext]_cvars PROVE CleanupInv'
  OBVIOUS
<1>1. ASSUME UploadNext \/ UNCHANGED vars, UNCHANGED <<cleaner, aged>> PROVE CleanupInv'
  BY <1>1, RequestsGoOn
<1>2. ASSUME CleanerNext PROVE CleanupInv'
  BY <1>2, CleanerGoesOn
<1> QED BY <1>1, <1>2 DEF CleanupNext, cvars

(* The cleanup command never takes a result that is evidence, or may still *)
(* become it: a completed recording stays stored, chunk for chunk, however *)
(* its checks interleave with finalisations (cleanupStaged).               *)
THEOREM EvidenceOutlivesCleanup == CleanupSpec => []EvidenceIntact
<1>1. CleanupInv => EvidenceIntact
  BY FinalIsIntact DEF CleanupInv
<1> QED BY <1>1, CleanupStarts, CleanupGoesOn, PTL DEF CleanupSpec

(* Nor does it take a chunk of a session that can still be completed, also *)
(* one that was renewed, or recorded, after the command had looked at it.  *)
THEOREM ChunksOutliveCleanup == CleanupSpec => []ReferencedChunksStored
<1>1. CleanupInv => ReferencedChunksStored
  BY UploadAt DEF CleanupInv, FinalInv, TypeInv, ObjectInv, RowObjects, ReferencedChunksStored, In
<1> QED BY <1>1, CleanupStarts, CleanupGoesOn, PTL DEF CleanupSpec

(* The command closes at most one session at a time, and the vault sees no *)
(* more of it.                                                             *)
LEMMA OnlyOneCleaned ==
  ASSUME TypeInv, CleanerNext
  PROVE  \/ upload' = upload
         \/ \E u \in Uploads : \A v \in Uploads \ {u} : upload'[v] = upload[v]
<1>0. DOMAIN upload = Uploads /\ upload \in [Uploads -> UploadRow \cup {NoUpload}]
  BY DEF TypeInv, TypeOK
<1>1. ASSUME NEW u \in Uploads, CloseSession(u) \/ DeleteRows(u)
      PROVE  \A v \in Uploads \ {u} : upload'[v] = upload[v]
  BY <1>0, <1>1 DEF CloseSession, DeleteRows
<1>2. ASSUME NEW u \in Uploads, ReadSession(u) PROVE upload' = upload
  BY <1>2 DEF ReadSession, vars
<1>3. ASSUME NEW o \in Objects, AgeObject(o) \/ RemoveStaged(o) \/ FindOrphan(o) \/ RemoveOrphan(o)
      PROVE  upload' = upload
  BY <1>3 DEF AgeObject, RemoveStaged, FindOrphan, RemoveOrphan, vars
<1>4. ASSUME NEW k \in Tokens, AgeFinal(k) \/ FindFinal(k) \/ CheckFinal(k) \/ RemoveFinal(k)
      PROVE  upload' = upload
  BY <1>4 DEF AgeFinal, FindFinal, CheckFinal, RemoveFinal, vars
<1>5. ASSUME CleanerStops PROVE upload' = upload
  BY <1>5 DEF CleanerStops, vars
<1> QED BY <1>1, <1>2, <1>3, <1>4, <1>5 DEF CleanerNext

LEMMA CleanedOne ==
  ASSUME TypeInv, Cleaned, OneEvidencePerUpload
  PROVE  OneEvidencePerUpload'
<1> SUFFICES ASSUME NEW e \in evidence
             PROVE  upload'[e.upload].state = "COMPLETE" /\ upload'[e.upload].evidence = e.token
  BY CleanedParts DEF OneEvidencePerUpload
<1>1. e.upload \in Uploads
  BY DEF TypeInv, TypeOK
<1>2. upload[e.upload].state = "COMPLETE" /\ upload[e.upload].evidence = e.token
  BY DEF OneEvidencePerUpload
<1> QED BY <1>1, <1>2 DEF Cleaned, RowCleaned, In

LEMMA CleanedSeen ==
  ASSUME VaultInv, VaultInv', Cleaned, NEW u \in Uploads
  PROVE  SeenMove(u) /\ (upload'[u] = upload[u] => Unseen(u))
<1>1. saved'[u] = saved[u] /\ RowCleaned(u)
  BY CleanedParts DEF Cleaned
<1>2. FilesOf(u) = IF upload[u].state = "COMPLETE" THEN {Recorded(u)} ELSE {}
  BY FilesAre
<1>3. FilesOf(u)' = IF upload'[u].state = "COMPLETE" THEN {Recorded(u)'} ELSE {}
  BY FilesAreNext
<1>4. upload'[u].expected = upload[u].expected => Recorded(u)' = Recorded(u)
  BY <1>1 DEF Recorded
<1>5. CASE upload'[u] = upload[u]
  BY <1>1, <1>2, <1>3, <1>4, <1>5 DEF SeenMove, Unseen
<1>6. CASE In(u, {"OPEN", "FINALIZING"}) /\ upload'[u].state = "ABORTED"
  BY <1>1, <1>2, <1>3, <1>6, VaultStates DEF SeenMove, SeenAborted, In
<1>7. CASE /\ In(u, {"COMPLETE", "ABORTED"}) /\ upload'[u].state = upload[u].state
           /\ upload'[u].expected = upload[u].expected
  BY <1>1, <1>2, <1>3, <1>4, <1>7, VaultStates DEF SeenMove, Unseen, In
<1>8. upload'[u] = upload[u] => Unseen(u)
  BY <1>1, <1>2, <1>3, <1>4 DEF Unseen
<1> QED BY <1>1, <1>5, <1>6, <1>7, <1>8 DEF RowCleaned

LEMMA CleanupStep ==
  ASSUME CleanupInv, VaultInv, VaultInv', [CleanupNext]_cvars
  PROVE  [Vault!Next]_vaultSeen
<1>1. CASE [UploadNext]_vars
  BY <1>1, VaultStep
<1>2. CASE CleanerNext
  <2>1. Cleaned /\ TypeInv /\ TypeOK /\ TypeOK'
    BY <1>2, CleanerMoves DEF CleanupInv, VaultInv, FinalInv, TypeInv
  <2>2. UNCHANGED attemptVars
    BY <2>1 DEF Cleaned
  <2>3. PICK u : (u \in Uploads \/ upload' = upload) /\
                 \A v \in Uploads \ {u} : upload'[v] = upload[v]
    BY <1>2, <2>1, OnlyOneCleaned
  <2>4. \A v \in Uploads \ {u} : Unseen(v)
    BY <2>1, <2>3, CleanedSeen
  <2>5. CASE u \in Uploads
    BY <2>1, <2>2, <2>4, <2>5, CleanedSeen, MoveImplements
  <2>6. CASE u \notin Uploads
    <3>1. \A v \in Uploads : VaultState(upload'[v]) = VaultState(upload[v]) /\ FilesOf(v)' = FilesOf(v)
      BY <2>4, <2>6 DEF Unseen
    <3>2. vstate' = vstate /\ vfiles' = vfiles /\ saved' = saved
      <4>1. vstate' = [v \in Uploads |-> VaultState(upload'[v])]
        BY DEF vstate, VaultState
      <4>2. vfiles' = [v \in Uploads |-> FilesOf(v)']
        BY DEF vfiles, FilesOf
      <4> QED BY <2>1, <3>1, <4>1, <4>2, CleanedParts DEF vstate, vfiles
    <3>3. standing' = standing /\ (appeal.state # "NONE")' = (appeal.state # "NONE")
      BY <2>2 DEF attemptVars, standing, AppealOpen
    <3> QED BY <3>2, <3>3 DEF vaultSeen
  <2> QED BY <2>5, <2>6
<1> QED BY <1>1, <1>2 DEF CleanupNext, cvars

LEMMA CleanedVault ==
  ASSUME CleanupInv, VaultInv, [CleanupNext]_cvars
  PROVE  VaultInv'
<1>1. CASE [UploadNext]_vars
  BY <1>1, VaultGoesOn
<1>2. CASE CleanerNext
  <2>1. FinalInv' /\ Cleaned /\ TypeInv
    BY <1>2, CleanerGoesOn, CleanerMoves DEF CleanupInv, FinalInv
  <2>2. OpenInv'
    BY <2>1 DEF Cleaned, attemptVars, VaultInv, OpenInv
  <2> QED BY <2>1, <2>2, CleanedOne DEF VaultInv
<1> QED BY <1>1, <1>2 DEF CleanupNext, cvars

(* The command included, the recordings of an attempt keep the promise of  *)
(* the vault: what it removes, nobody who relies on the vault can miss.    *)
THEOREM VaultOutlivesCleanup == CleanupSpec => ImplementsVault
<1>1. CleanupInit => VaultInv /\ Vault!Init
  BY VaultStarts DEF CleanupInit
<1>2. CleanupInv /\ VaultInv /\ VaultInv' /\ [CleanupNext]_cvars => [Vault!Next]_vaultSeen
  BY CleanupStep
<1> QED BY <1>1, <1>2, CleanupStarts, CleanupGoesOn, CleanedVault, PTL
        DEF CleanupSpec, ImplementsVault, Vault!Spec, Vault!vault, vaultSeen, vstate, vfiles, standing

LEMMA CleanedAcks ==
  ASSUME TypeInv, AckInv, Cleaned
  PROVE  AckInv'
<1> SUFFICES ASSUME NEW a \in acked PROVE AckTrue(a)'
  BY DEF AckInv, Cleaned
<1>1. AckTrue(a) /\ saved' = saved
  BY CleanedParts DEF AckInv
<1>2. CASE a.what = "chunk"
  BY <1>1, <1>2 DEF AckTrue
<1>3. CASE a.what # "chunk"
  <2>1. a.upload \in Uploads /\ upload[a.upload].state = "COMPLETE"
    BY <1>1, <1>3 DEF AckTrue
  <2>2. /\ upload'[a.upload].state = "COMPLETE"
        /\ upload'[a.upload].expected = upload[a.upload].expected
        /\ upload'[a.upload].interrupted = upload[a.upload].interrupted
    BY <2>1 DEF Cleaned, RowCleaned, In
  <2> QED BY <1>1, <1>3, <2>2 DEF AckTrue
<1> QED BY <1>2, <1>3

LEMMA CleanedQuota ==
  ASSUME TypeInv, QuotaInv, Cleaned
  PROVE  QuotaInv'
<1>1. \A u \in Uploads : /\ upload'[u] # NoUpload <=> IsUpload(u)
                         /\ IsUpload(u) => upload'[u].bytes = upload[u].bytes
  BY CleanedRefs DEF Cleaned, RowCleaned
<1>2. Sessions' = Sessions
  BY <1>1 DEF Sessions, IsUpload
<1>3. BytesOf' = BytesOf
  BY <1>1, <1>2 DEF BytesOf, Sessions
<1>4. saved' = saved /\ Allowance' = Allowance
  BY CleanedParts DEF Cleaned, attemptVars, Allowance
<1>5. ASSUME NEW u \in Sessions
      PROVE  upload'[u].bytes = Total(SizesOf(u), DOMAIN saved[u])'
  <2>1. upload'[u].bytes = upload[u].bytes
    BY <1>1 DEF Sessions
  <2>2. Total(SizesOf(u), DOMAIN saved[u])' = Total(SizesOf(u), DOMAIN saved[u])
    BY <1>4 DEF SizesOf, Total, SumsTo
  <2> QED BY <2>1, <2>2 DEF QuotaInv
<1>6. Total(BytesOf, Sessions)' = Total(BytesOf, Sessions)
  BY <1>2, <1>3 DEF Total, SumsTo
<1> QED BY <1>2, <1>4, <1>5, <1>6 DEF QuotaInv

(* What a client was told stays true when chunk rows and objects are gone. *)
THEOREM AnswersOutliveCleanup == CleanupSpec => []AcksHonoured
<1>1. ASSUME CleanupInv, AckInv, [CleanupNext]_cvars PROVE AckInv'
  <2>1. CASE [UploadNext]_vars
    BY <1>1, <2>1, AcksGoOn DEF CleanupInv
  <2>2. CASE CleanerNext
    BY <1>1, <2>2, CleanerMoves, CleanedAcks DEF CleanupInv, FinalInv
  <2> QED BY <1>1, <2>1, <2>2 DEF CleanupNext, cvars
<1>2. CleanupInit => AckInv
  BY AcksStart DEF CleanupInit
<1> QED BY <1>1, <1>2, AcksAreTrue, CleanupStarts, CleanupGoesOn, PTL DEF CleanupSpec

(* Cleaning up neither breaks the quota nor makes a byte count wrong: what *)
(* a closed session recorded goes on counting.                             *)
THEOREM QuotaOutlivesCleanup == CleanupSpec => []QuotaHolds
<1>1. ASSUME CleanupInv, CleanupInv', QuotaInv, [CleanupNext]_cvars PROVE QuotaInv'
  <2>1. CASE [UploadNext]_vars
    BY <1>1, <2>1, QuotaGoesOn DEF CleanupInv, FinalInv
  <2>2. CASE CleanerNext
    BY <1>1, <2>2, CleanerMoves, CleanedQuota DEF CleanupInv, FinalInv
  <2> QED BY <1>1, <2>1, <2>2 DEF CleanupNext, cvars
<1>2. CleanupInit => QuotaInv
  BY QuotaStarts DEF CleanupInit
<1>3. CleanupInv /\ QuotaInv => QuotaHolds
  BY QuotaIsKept DEF CleanupInv, FinalInv
<1> QED BY <1>1, <1>2, <1>3, CleanupStarts, CleanupGoesOn, PTL DEF CleanupSpec
=============================================================================
