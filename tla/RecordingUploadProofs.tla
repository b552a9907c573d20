-------------------------- MODULE RecordingUploadProofs --------------------------
(***************************************************************************)
(* Proofs about RecordingUpload, for any number of sessions, chunks and    *)
(* concurrent requests.                                                    *)
(*                                                                         *)
(* The argument goes over what can become of a session's row (RowMoves),   *)
(* of a request and of an object, rather than over the handlers.  Tokens   *)
(* and keys are drawn once: so a final object is written by one request,   *)
(* and a request that still holds a session knows the session's chunks.    *)
(***************************************************************************)
EXTENDS RecordingUpload, FiniteSetTheorems, SequenceTheorems, WellFoundedInduction, TLAPS

-----------------------------------------------------------------------------
(* Types *)

(* What a request has assembled so far is the beginning of its chunks. *)
FinInv ==
  \A f \in Finishers : fin[f] # IdleFin =>
    /\ DOMAIN fin[f].chunks = 0..(fin[f].expected - 1)
    /\ Len(fin[f].content) <= fin[f].expected
    /\ \A j \in 1..Len(fin[f].content) : fin[f].content[j] = fin[f].chunks[j - 1].data
    /\ fin[f].pc \in {"upload", "commit"} => Len(fin[f].content) = fin[f].expected

LEMMA ChunkRowsElements ==
  ASSUME NEW c
  PROVE  c \in ChunkRows <=> /\ DOMAIN c \in SUBSET Index
                             /\ c \in [DOMAIN c -> ChunkRow]
  BY DEF ChunkRows

LEMMA SavedElements ==
  ASSUME NEW c
  PROVE  c \in UNION {[S -> Data] : S \in SUBSET Index} <=>
           /\ DOMAIN c \in SUBSET Index
           /\ c \in [DOMAIN c -> Data]
  OBVIOUS

LEMMA NoRows ==
  /\ [i \in {} |-> NoData] \in ChunkRows
  /\ [i \in {} |-> NoData] \in UNION {[S -> Data] : S \in SUBSET Index}
<1> DEFINE e == [i \in {} |-> NoData]
<1>1. DOMAIN e = {} /\ e \in [{} -> ChunkRow] /\ e \in [{} -> Data]
  OBVIOUS
<1> HIDE DEF e
<1>2. e \in ChunkRows
  BY <1>1, ChunkRowsElements
<1>3. e \in UNION {[S -> Data] : S \in SUBSET Index}
  BY <1>1, SavedElements
<1> QED BY <1>2, <1>3 DEF e

(* A row is never the absence of one. *)
LEMMA RowsDiffer ==
  /\ NoUpload.state = "NONE" /\ IdlePut.pc = "idle" /\ IdleFin.pc = "idle"
  /\ \A r \in UploadRow : r # NoUpload /\ r.state # "NONE"
  /\ \A r \in PutRow : r # IdlePut /\ r.pc # "idle"
  /\ \A r \in FinRow : r # IdleFin /\ r.pc # "idle"
  BY DEF NoUpload, IdlePut, IdleFin, UploadRow, PutRow, FinRow

(* Rows at work. *)
LEMMA UploadAt ==
  ASSUME TypeOK, NEW u \in Uploads, upload[u].state # "NONE" \/ IsUpload(u)
  PROVE  upload[u] \in UploadRow /\ IsUpload(u)
  BY RowsDiffer DEF TypeOK, IsUpload

LEMMA PutAt ==
  ASSUME TypeOK, NEW p \in Putters, put[p].pc # "idle" \/ put[p] # IdlePut
  PROVE  put[p] \in PutRow
  BY RowsDiffer DEF TypeOK

LEMMA FinAt ==
  ASSUME TypeOK, NEW f \in Finishers, fin[f].pc # "idle" \/ fin[f] # IdleFin
  PROVE  fin[f] \in FinRow
  BY RowsDiffer DEF TypeOK

LEMMA DeadlineType ==
  ASSUME TypeOK
  PROVE  RecordingDeadline \in Nat
  BY ClockAssumption DEF TypeOK, RecordingDeadline

LEMMA InitTyped == Init => TypeOK
<1> SUFFICES ASSUME Init PROVE TypeOK
  OBVIOUS
<1>1. upload \in [Uploads -> UploadRow \cup {NoUpload}]
  BY DEF Init
<1>2. /\ store \in [Objects -> Data \cup {NoData}] /\ final \in [Tokens -> Seq(Data)]
      /\ put \in [Putters -> PutRow \cup {IdlePut}]
      /\ fin \in [Finishers -> FinRow \cup {IdleFin}]
  BY EmptySeq DEF Init
<1>3. saved \in [Uploads -> UNION {[S -> Data] : S \in SUBSET Index}]
  BY NoRows DEF Init
<1>4. appeal \in [state : {"NONE", "OPEN", "UPHELD", "OVERTURNED"}, createdAt : Nat]
  BY DEF Init
<1> QED BY <1>1, <1>2, <1>3, <1>4 DEF Init, TypeOK

(* A row stays a row whatever the handlers do to its fields. *)
LEMMA UploadEdits ==
  ASSUME NEW r \in UploadRow, NEW t \in Tokens \cup {NoToken}, NEW n \in 0..Chunks,
         NEW b \in BOOLEAN, NEW l \in Nat,
         NEW s \in {"OPEN", "FINALIZING", "COMPLETE", "ABORTED"}
  PROVE  /\ [r EXCEPT !.expiresAt = l] \in UploadRow
         /\ [r EXCEPT !.lease = l] \in UploadRow
         /\ [r EXCEPT !.state = s, !.expected = n, !.interrupted = b, !.token = t, !.lease = l]
              \in UploadRow
         /\ [r EXCEPT !.state = s, !.evidence = t, !.token = NoToken, !.lease = 0] \in UploadRow
         /\ [r EXCEPT !.state = s, !.expected = n, !.token = NoToken, !.lease = 0] \in UploadRow
         /\ [r EXCEPT !.state = s, !.token = NoToken, !.lease = 0] \in UploadRow
  BY DEF UploadRow

LEMMA RecordTyped ==
  ASSUME TypeOK, NEW r \in PutRow, MayRecord(r), Record(r)
  PROVE  /\ upload' \in [Uploads -> UploadRow \cup {NoUpload}]
         /\ saved' \in [Uploads -> UNION {[S -> Data] : S \in SUBSET Index}]
<1> DEFINE u == r.upload
           old == upload[u].chunks
           row == [object |-> r.object, data |-> r.data]
           c == [i \in DOMAIN old \cup {r.index} |-> IF i = r.index THEN row ELSE old[i]]
           d == [i \in DOMAIN saved[u] \cup {r.index} |->
                   IF i = r.index THEN r.data ELSE saved[u][i]]
<1>1. u \in Uploads /\ r.index \in Index /\ r.data \in Data /\ row \in ChunkRow
  BY DEF PutRow, ChunkRow
<1>2. upload[u] \in UploadRow
  BY <1>1, UploadAt DEF MayRecord, AcceptsChunks
<1>3. c \in ChunkRows
  <2>1. old \in ChunkRows
    BY <1>2 DEF UploadRow
  <2>2. DOMAIN old \in SUBSET Index /\ old \in [DOMAIN old -> ChunkRow]
    BY <2>1, ChunkRowsElements
  <2>3. DOMAIN c \in SUBSET Index /\ c \in [DOMAIN c -> ChunkRow]
    BY <1>1, <2>2
  <2> QED BY <2>3, ChunkRowsElements
<1>4. d \in UNION {[S -> Data] : S \in SUBSET Index}
  <2>1. saved[u] \in UNION {[S -> Data] : S \in SUBSET Index}
    BY <1>1 DEF TypeOK
  <2>2. DOMAIN saved[u] \in SUBSET Index /\ saved[u] \in [DOMAIN saved[u] -> Data]
    BY <2>1, SavedElements
  <2>3. DOMAIN d \in SUBSET Index /\ d \in [DOMAIN d -> Data]
    BY <1>1, <2>2
  <2> QED BY <2>3, SavedElements
<1>5. Size[r.data] \in Nat
  BY <1>1, ChunkAssumption
<1>6. [upload[u] EXCEPT !.chunks = c, !.bytes = @ + Size[r.data]] \in UploadRow
  <2> HIDE DEF c
  <2>1. upload[u].bytes \in Nat
    BY <1>2 DEF UploadRow
  <2>2. upload[u].bytes + Size[r.data] \in Nat
    BY <1>5, <2>1
  <2>3. \A b \in Nat : [upload[u] EXCEPT !.chunks = c, !.bytes = b] \in UploadRow
    BY <1>2, <1>3 DEF UploadRow
  <2> QED BY <2>2, <2>3
<1>7. upload' = [upload EXCEPT ![u] = [upload[u] EXCEPT !.chunks = c, !.bytes = @ + Size[r.data]]]
  BY DEF Record
<1>8. saved' = [saved EXCEPT ![u] = d]
  BY DEF Record
<1> HIDE DEF c, d
<1> QED BY <1>1, <1>4, <1>6, <1>7, <1>8 DEF TypeOK

LEMMA PutTyped ==
  ASSUME TypeOK, NEW p \in Putters, PutNext(p)
  PROVE  TypeOK'
<1> USE DEF TypeOK
<1>1. ASSUME NEW u \in Uploads, NEW i \in Index, NEW d \in Data, BeginPut(p, u, i, d)
      PROVE  TypeOK'
  <2>1. PICK o \in Objects :
          /\ spent' = spent \cup {o}
          /\ put' = [put EXCEPT ![p] = [pc |-> "send", upload |-> u, index |-> i,
                                        data |-> d, object |-> o]]
    BY <1>1 DEF BeginPut
  <2>2. [pc |-> "send", upload |-> u, index |-> i, data |-> d, object |-> o] \in PutRow
    BY DEF PutRow
  <2>3. put' \in [Putters -> PutRow \cup {IdlePut}]
    BY <2>1, <2>2
  <2> QED BY <1>1, <2>1, <2>3 DEF BeginPut, attemptVars, storage
<1>2. ASSUME put[p].pc # "idle", NEW pc \in {"commit", "remove", "late"}
      PROVE  /\ put[p] \in PutRow
             /\ [put EXCEPT ![p].pc = pc] \in [Putters -> PutRow \cup {IdlePut}]
             /\ [put EXCEPT ![p] = [@ EXCEPT !.pc = pc]] \in [Putters -> PutRow \cup {IdlePut}]
  <2>1. put[p] \in PutRow
    BY <1>2, PutAt
  <2>2. [put[p] EXCEPT !.pc = pc] \in PutRow
    BY <1>2, <2>1 DEF PutRow
  <2> QED BY <2>1, <2>2
<1>3. CASE StoreChunk(p)
  <2>1. put[p] \in PutRow /\ put' \in [Putters -> PutRow \cup {IdlePut}]
    BY <1>2, <1>3 DEF StoreChunk
  <2>2. put[p].object \in Objects /\ put[p].data \in Data
    BY <2>1 DEF PutRow
  <2>3. store' \in [Objects -> Data \cup {NoData}]
    BY <1>3, <2>2 DEF StoreChunk
  <2> QED BY <1>3, <2>1, <2>3 DEF StoreChunk, attemptVars
<1>4. CASE CommitChunk(p)
  <2>1. put[p] \in PutRow
    BY <1>4, PutAt DEF CommitChunk
  <2>2. /\ upload' \in [Uploads -> UploadRow \cup {NoUpload}]
        /\ saved' \in [Uploads -> UNION {[S -> Data] : S \in SUBSET Index}]
    BY <1>4, <2>1, RecordTyped DEF CommitChunk
  <2> QED BY <1>4, <2>2 DEF CommitChunk, attemptVars, storage
<1>5. CASE LoseChunkRace(p) \/ RejectChunk(p)
  <2>1. put' \in [Putters -> PutRow \cup {IdlePut}]
    BY <1>2, <1>5 DEF LoseChunkRace, RejectChunk
  <2> QED BY <1>5, <2>1 DEF LoseChunkRace, RejectChunk, attemptVars, storage
<1>6. CASE RemoveOwnChunk(p)
  BY <1>6 DEF RemoveOwnChunk, attemptVars, storage
<1>7. CASE LosePut(p)
  <2>1. put' \in [Putters -> PutRow \cup {IdlePut}]
    BY <1>2, <1>7 DEF LosePut
  <2> QED BY <1>7, <2>1 DEF LosePut, attemptVars, storage
<1>8. CASE LateChunk(p)
  <2>1. put[p] \in PutRow
    BY <1>8, PutAt DEF LateChunk
  <2>2. /\ upload' \in [Uploads -> UploadRow \cup {NoUpload}]
        /\ saved' \in [Uploads -> UNION {[S -> Data] : S \in SUBSET Index}]
    BY <1>8, <2>1, RecordTyped DEF LateChunk
  <2> QED BY <1>8, <2>2 DEF LateChunk, attemptVars, storage
<1> QED BY <1>1, <1>3, <1>4, <1>5, <1>6, <1>7, <1>8 DEF PutNext

LEMMA SessionTyped ==
  ASSUME TypeOK, NEW u \in Uploads, SessionNext(u)
  PROVE  TypeOK'
<1> USE DEF TypeOK
<1>1. CASE CreateUpload(u)
  <2>1. [state |-> "OPEN", expiresAt |-> RecordingDeadline, expected |-> 0,
         interrupted |-> FALSE, token |-> NoToken, lease |-> 0,
         chunks |-> [i \in {} |-> NoData], bytes |-> 0, evidence |-> NoToken] \in UploadRow
    BY DeadlineType, NoRows, ChunkAssumption DEF UploadRow
  <2>2. upload' \in [Uploads -> UploadRow \cup {NoUpload}]
    BY <1>1, <2>1 DEF CreateUpload
  <2> QED BY <1>1, <2>2 DEF CreateUpload, attemptVars, storage, requests
<1>2. CASE AbortUpload(u)
  <2>1. upload[u] \in UploadRow
    BY <1>2, UploadAt DEF AbortUpload, In
  <2>2. [upload[u] EXCEPT !.state = "ABORTED", !.token = NoToken, !.lease = 0] \in UploadRow
    BY <2>1, ChunkAssumption DEF UploadRow
  <2>3. upload' \in [Uploads -> UploadRow \cup {NoUpload}]
    BY <1>2, <2>2 DEF AbortUpload
  <2> QED BY <1>2, <2>3 DEF AbortUpload, attemptVars, storage, requests
<1>3. ASSUME NEW i \in Index, NEW d \in Data, RepeatChunk(u, i, d)
      PROVE  TypeOK'
  BY <1>3 DEF RepeatChunk, attemptVars, storage, requests
<1>4. ASSUME NEW n \in 1..Chunks, NEW flag \in Flags, RepeatComplete(u, n, flag)
      PROVE  TypeOK'
  BY <1>4 DEF RepeatComplete, attemptVars, storage, requests
<1> QED BY <1>1, <1>2, <1>3, <1>4 DEF SessionNext

LEMMA AttemptTyped ==
  ASSUME TypeOK, AttemptNext \/ Tick
  PROVE  TypeOK'
<1> USE DEF TypeOK
<1>1. CASE Tick
  BY <1>1 DEF Tick, attemptVars, storage, requests
<1>2. CASE FinishAttempt
  BY <1>2 DEF FinishAttempt, rows, storage, requests
<1>3. ASSUME NEW decision \in {"APPROVED", "REJECTED"}, ReviewAttempt(decision)
      PROVE  TypeOK'
  BY <1>3 DEF ReviewAttempt, rows, storage, requests
<1>4. CASE CreateAppeal
  <2>1. now + Window \in Nat
    BY ClockAssumption
  <2>2. \A u \in Uploads : In(u, {"OPEN", "FINALIZING"}) =>
          [upload[u] EXCEPT !.expiresAt = now + Window] \in UploadRow
    <3> SUFFICES ASSUME NEW u \in Uploads, In(u, {"OPEN", "FINALIZING"})
                 PROVE  [upload[u] EXCEPT !.expiresAt = now + Window] \in UploadRow
      OBVIOUS
    <3>1. upload[u] \in UploadRow
      BY UploadAt DEF In
    <3>2. \A l \in Nat : [upload[u] EXCEPT !.expiresAt = l] \in UploadRow
      BY <3>1 DEF UploadRow
    <3> QED BY <2>1, <3>2
  <2>3. upload' \in [Uploads -> UploadRow \cup {NoUpload}]
    BY <1>4, <2>2 DEF CreateAppeal
  <2> QED BY <1>4, <2>3 DEF CreateAppeal, rows, storage, requests
<1>5. ASSUME NEW decision \in {"UPHELD", "OVERTURNED"}, ResolveAppeal(decision)
      PROVE  TypeOK'
  BY <1>5 DEF ResolveAppeal, rows, storage, requests
<1> QED BY <1>1, <1>2, <1>3, <1>4, <1>5 DEF AttemptNext

LEMMA FinEdits ==
  ASSUME NEW r \in FinRow, NEW pc \in {"assemble", "upload", "commit", "failed"},
         NEW c \in Seq(Data)
  PROVE  [r EXCEPT !.pc = pc] \in FinRow /\ [r EXCEPT !.content = c] \in FinRow
  BY DEF FinRow

(* What FinInv says of one request, as a predicate of its row. *)
FinShape(r) ==
  /\ DOMAIN r.chunks = 0..(r.expected - 1)
  /\ Len(r.content) <= r.expected
  /\ \A j \in 1..Len(r.content) : r.content[j] = r.chunks[j - 1].data
  /\ r.pc \in {"upload", "commit"} => Len(r.content) = r.expected

(* One row of fin is replaced by a sound one, or by none. *)
LEMMA FinReplaced ==
  ASSUME TypeOK, FinInv, NEW f \in Finishers, NEW r,
         r = IdleFin \/ (r \in FinRow /\ FinShape(r)),
         fin' = [fin EXCEPT ![f] = r]
  PROVE  fin' \in [Finishers -> FinRow \cup {IdleFin}] /\ FinInv'
  BY DEF TypeOK, FinInv, FinShape

(* The request goes on to its next phase. *)
LEMMA FinGoesOn ==
  ASSUME TypeOK, FinInv, NEW f \in Finishers, fin[f] # IdleFin,
         NEW pc \in {"assemble", "upload", "commit", "failed"},
         pc \in {"upload", "commit"} => Len(fin[f].content) = fin[f].expected,
         fin' = [fin EXCEPT ![f].pc = pc]
  PROVE  fin' \in [Finishers -> FinRow \cup {IdleFin}] /\ FinInv'
<1> DEFINE r == [fin[f] EXCEPT !.pc = pc]
<1>1. fin[f] \in FinRow
  BY FinAt
<1>2. r \in FinRow
  BY <1>1 DEF FinRow
<1>3. /\ r.chunks = fin[f].chunks /\ r.expected = fin[f].expected
      /\ r.content = fin[f].content /\ r.pc = pc
  BY <1>1 DEF FinRow
<1>4. FinShape(r)
  BY <1>3 DEF FinShape, FinInv
<1>5. fin' = [fin EXCEPT ![f] = r]
  OBVIOUS
<1> HIDE DEF r
<1> QED BY <1>2, <1>4, <1>5, FinReplaced

LEMMA Claimed ==
  ASSUME TypeOK, FinInv, NEW f \in Finishers, NEW u \in Uploads, NEW n \in 1..Chunks,
         NEW flag \in Flags, Claim(f, u, n, flag)
  PROVE  TypeOK' /\ FinInv'
<1>1. PICK k \in Tokens :
        /\ spent' = spent \cup {k}
        /\ upload' = [upload EXCEPT ![u].state = "FINALIZING", ![u].expected = n,
                                    ![u].interrupted = flag, ![u].token = k,
                                    ![u].lease = now + Lease]
        /\ fin' = [fin EXCEPT ![f] =
             [pc |-> "assemble", upload |-> u, expected |-> n,
              interrupted |-> flag, token |-> k,
              chunks |-> upload[u].chunks, content |-> <<>>]]
  BY DEF Claim
<1> DEFINE r == [pc |-> "assemble", upload |-> u, expected |-> n,
                 interrupted |-> flag, token |-> k,
                 chunks |-> upload[u].chunks, content |-> <<>>]
<1>2. upload[u] \in UploadRow /\ upload[u].chunks \in ChunkRows
  BY UploadAt DEF Claim, In, UploadRow
<1>3. flag \in BOOLEAN /\ n \in 0..Chunks /\ now + Lease \in Nat
  BY ChunkAssumption, ClockAssumption DEF TypeOK
<1>4. r \in FinRow
  BY <1>2, <1>3, EmptySeq DEF FinRow
<1>5. FinShape(r)
  BY <1>2 DEF Claim, HasExactly, FinShape
<1>6. fin' = [fin EXCEPT ![f] = r]
  BY <1>1
<1>7. fin' \in [Finishers -> FinRow \cup {IdleFin}] /\ FinInv'
  <2> HIDE DEF r
  <2> QED BY <1>4, <1>5, <1>6, FinReplaced
<1>8. upload' \in [Uploads -> UploadRow \cup {NoUpload}]
  <2>1. \A l \in Nat : [upload[u] EXCEPT !.state = "FINALIZING", !.expected = n,
                                    !.interrupted = flag, !.token = k, !.lease = l] \in UploadRow
    BY <1>2, <1>3 DEF UploadRow
  <2>2. upload' = [upload EXCEPT ![u] = [upload[u] EXCEPT !.state = "FINALIZING", !.expected = n,
                                    !.interrupted = flag, !.token = k, !.lease = now + Lease]]
    BY <1>1
  <2> QED BY <1>3, <2>1, <2>2 DEF TypeOK
<1>9. spent' \in SUBSET (Objects \cup Tokens)
  BY <1>1 DEF TypeOK
<1> QED BY <1>7, <1>8, <1>9 DEF Claim, TypeOK, attemptVars, storage

LEMMA Assembled ==
  ASSUME TypeOK, FinInv, NEW f \in Finishers, AssembleChunk(f)
  PROVE  TypeOK' /\ FinInv'
<1> DEFINE i == Len(fin[f].content)
           r == [fin[f] EXCEPT !.content = Append(fin[f].content, fin[f].chunks[i].data)]
<1>1. fin[f] \in FinRow /\ fin[f] # IdleFin /\ fin[f].pc = "assemble"
  BY FinAt, RowsDiffer DEF AssembleChunk
<1>2. fin' \in [Finishers -> FinRow \cup {IdleFin}] /\ FinInv'
  <2>1. CASE fin' = [fin EXCEPT ![f].pc = "failed"]
    BY <1>1, <2>1, FinGoesOn
  <2>2. CASE fin' = [fin EXCEPT ![f] = r]
    <3>1. fin[f].content \in Seq(Data) /\ fin[f].chunks \in ChunkRows /\ fin[f].expected \in Nat
      BY <1>1 DEF FinRow
    <3>2. i \in Nat /\ i < fin[f].expected /\ i \in DOMAIN fin[f].chunks
      BY <1>1, <3>1, LenProperties DEF AssembleChunk, FinInv
    <3>3. fin[f].chunks[i].data \in Data
      BY <3>1, <3>2, ChunkRowsElements DEF ChunkRow
    <3> DEFINE c == Append(fin[f].content, fin[f].chunks[i].data)
    <3>4. c \in Seq(Data) /\ Len(c) = i + 1 /\ c[i + 1] = fin[f].chunks[i].data
      BY <3>1, <3>3, AppendProperties
    <3>5. \A j \in 1..i : c[j] = fin[f].content[j]
      BY <3>1, <3>3, AppendProperties
    <3>6. /\ r.pc = "assemble" /\ r.chunks = fin[f].chunks /\ r.expected = fin[f].expected
          /\ r.content = c
      BY <1>1 DEF FinRow
    <3>7. r \in FinRow
      BY <1>1, <3>4 DEF FinRow
    <3>8. \A j \in 1..Len(c) : c[j] = fin[f].chunks[j - 1].data
      <4> HIDE DEF c
      <4> SUFFICES ASSUME NEW j \in 1..Len(c) PROVE c[j] = fin[f].chunks[j - 1].data
        OBVIOUS
      <4>1. CASE j = i + 1
        BY <3>2, <3>4, <4>1
      <4>2. CASE j \in 1..i
        BY <1>1, <3>5, <4>2 DEF FinInv
      <4> QED BY <3>2, <3>4, <4>1, <4>2
    <3>9. FinShape(r)
      <4>1. DOMAIN fin[f].chunks = 0..(fin[f].expected - 1)
        BY <1>1 DEF FinInv
      <4>2. Len(c) <= fin[f].expected
        BY <3>1, <3>2, <3>4
      <4> HIDE DEF r, c
      <4> QED BY <3>6, <3>8, <4>1, <4>2 DEF FinShape
    <3> HIDE DEF r
    <3> QED BY <2>2, <3>7, <3>9, FinReplaced
  <2> DEFINE same == store[fin[f].chunks[i].object] = fin[f].chunks[i].data
  <2>3. fin' = [fin EXCEPT ![f] = IF same THEN r ELSE [fin[f] EXCEPT !.pc = "failed"]]
    BY DEF AssembleChunk
  <2>4. CASE same
    <3> HIDE DEF r
    <3> QED BY <2>2, <2>3, <2>4
  <2>5. CASE ~ same
    <3> HIDE DEF r
    <3> QED BY <2>1, <2>3, <2>5
  <2> QED BY <2>4, <2>5
<1> QED BY <1>2 DEF AssembleChunk, TypeOK, attemptVars, storage

(* A row of upload is edited by the request that works on it. *)
LEMMA UploadReplaced ==
  ASSUME TypeOK, NEW u \in Uploads, NEW r \in UploadRow, upload' = [upload EXCEPT ![u] = r]
  PROVE  upload' \in [Uploads -> UploadRow \cup {NoUpload}]
  BY DEF TypeOK

LEMMA LeaseRow ==
  ASSUME TypeOK, NEW f \in Finishers, fin[f] # IdleFin, HoldsLease(f)
  PROVE  /\ fin[f].upload \in Uploads
         /\ upload[fin[f].upload] \in UploadRow
         /\ [upload[fin[f].upload] EXCEPT !.lease = now + Lease] \in UploadRow
<1>1. fin[f] \in FinRow /\ fin[f].upload \in Uploads
  BY FinAt DEF FinRow
<1>2. upload[fin[f].upload] \in UploadRow
  BY <1>1, UploadAt DEF HoldsLease
<1>3. now + Lease \in Nat
  BY ClockAssumption DEF TypeOK
<1>4. \A l \in Nat : [upload[fin[f].upload] EXCEPT !.lease = l] \in UploadRow
  BY <1>2 DEF UploadRow
<1> QED BY <1>1, <1>2, <1>3, <1>4

LEMMA RegisterTyped ==
  ASSUME TypeOK, NEW u \in Uploads, NEW k \in Tokens, MayRegister(u, k), Register(u, k)
  PROVE  /\ upload' \in [Uploads -> UploadRow \cup {NoUpload}]
         /\ evidence' \in SUBSET [upload : Uploads, token : Tokens]
<1>1. upload[u] \in UploadRow
  BY UploadAt DEF MayRegister
<1> DEFINE r == [upload[u] EXCEPT !.state = "COMPLETE", !.evidence = k,
                                  !.token = NoToken, !.lease = 0]
<1>2. r \in UploadRow
  BY <1>1 DEF UploadRow
<1>3. upload' = [upload EXCEPT ![u] = r]
  BY DEF Register
<1>4. upload' \in [Uploads -> UploadRow \cup {NoUpload}]
  <2> HIDE DEF r
  <2> QED BY <1>2, <1>3, UploadReplaced
<1> QED BY <1>4 DEF Register, TypeOK

LEMMA FinTyped ==
  ASSUME TypeOK, FinInv, NEW f \in Finishers, FinishNext(f)
  PROVE  TypeOK' /\ FinInv'
<1>1. ASSUME NEW u \in Uploads, NEW n \in 1..Chunks, NEW flag \in Flags, Claim(f, u, n, flag)
      PROVE  TypeOK' /\ FinInv'
  BY <1>1, Claimed
<1>2. CASE AssembleChunk(f)
  BY <1>2, Assembled
<1>3. CASE Heartbeat(f)
  <2>1. fin[f] # IdleFin
    BY <1>3, RowsDiffer DEF Heartbeat
  <2>2. upload' = [upload EXCEPT ![fin[f].upload] =
                     [upload[fin[f].upload] EXCEPT !.lease = now + Lease]]
    BY <1>3 DEF Heartbeat
  <2>3. upload' \in [Uploads -> UploadRow \cup {NoUpload}]
    BY <1>3, <2>1, <2>2, LeaseRow, UploadReplaced DEF Heartbeat
  <2> QED BY <1>3, <2>3 DEF Heartbeat, TypeOK, FinInv, attemptVars, storage, requests
<1>4. CASE RenewBeforeUpload(f)
  <2>1. fin[f] # IdleFin
    BY <1>4, RowsDiffer DEF RenewBeforeUpload
  <2>2. fin' \in [Finishers -> FinRow \cup {IdleFin}] /\ FinInv'
    BY <1>4, <2>1, FinGoesOn DEF RenewBeforeUpload
  <2>3. upload' \in [Uploads -> UploadRow \cup {NoUpload}]
    <3>1. CASE HoldsLease(f)
      <4>1. upload' = [upload EXCEPT ![fin[f].upload] =
                         [upload[fin[f].upload] EXCEPT !.lease = now + Lease]]
        BY <1>4, <3>1 DEF RenewBeforeUpload
      <4> QED BY <2>1, <3>1, <4>1, LeaseRow, UploadReplaced
    <3>2. CASE ~ HoldsLease(f)
      BY <1>4, <3>2 DEF RenewBeforeUpload, TypeOK
    <3> QED BY <3>1, <3>2
  <2> QED BY <1>4, <2>2, <2>3 DEF RenewBeforeUpload, TypeOK, attemptVars, storage
<1>5. CASE UploadFinal(f)
  <2>1. fin[f] \in FinRow /\ fin[f] # IdleFin
    BY <1>5, FinAt, RowsDiffer DEF UploadFinal
  <2>2. fin' \in [Finishers -> FinRow \cup {IdleFin}] /\ FinInv'
    <3>1. Len(fin[f].content) = fin[f].expected
      BY <1>5, <2>1 DEF UploadFinal, FinInv
    <3> QED BY <1>5, <2>1, <3>1, FinGoesOn DEF UploadFinal
  <2>3. final' \in [Tokens -> Seq(Data)]
    BY <1>5, <2>1 DEF UploadFinal, TypeOK, FinRow
  <2> QED BY <1>5, <2>2, <2>3 DEF UploadFinal, TypeOK, attemptVars
<1>6. CASE CommitFinal(f)
  <2>1. fin[f] \in FinRow /\ fin[f] # IdleFin
    BY <1>6, FinAt, RowsDiffer DEF CommitFinal
  <2>2. fin[f].upload \in Uploads /\ fin[f].token \in Tokens
    BY <2>1 DEF FinRow
  <2>3. CASE MayRegister(fin[f].upload, fin[f].token)
    <3>1. fin' \in [Finishers -> FinRow \cup {IdleFin}] /\ FinInv'
      BY <1>6, <2>3, FinReplaced DEF CommitFinal
    <3> QED BY <1>6, <2>2, <2>3, <3>1, RegisterTyped DEF CommitFinal, TypeOK, attemptVars, storage
  <2>4. CASE ~ MayRegister(fin[f].upload, fin[f].token)
    <3>1. fin' \in [Finishers -> FinRow \cup {IdleFin}] /\ FinInv'
      BY <1>6, <2>1, <2>4, FinGoesOn DEF CommitFinal
    <3> QED BY <1>6, <2>4, <3>1 DEF CommitFinal, TypeOK, attemptVars, storage
  <2> QED BY <2>3, <2>4
<1>7. CASE FailFinish(f)
  <2>1. fin[f] \in FinRow /\ fin[f] # IdleFin
    BY <1>7, FinAt, RowsDiffer DEF FailFinish
  <2>2. fin' \in [Finishers -> FinRow \cup {IdleFin}] /\ FinInv'
    BY <1>7, <2>1, FinGoesOn DEF FailFinish
  <2>3. late' \in SUBSET [upload : Uploads, token : Tokens]
    BY <1>7, <2>1 DEF FailFinish, TypeOK, FinRow
  <2> QED BY <1>7, <2>2, <2>3 DEF FailFinish, TypeOK, attemptVars, storage
<1>8. CASE RecoverFinish(f)
  <2>1. fin[f] \in FinRow /\ fin[f] # IdleFin
    BY <1>8, FinAt, RowsDiffer DEF RecoverFinish
  <2>2. fin' \in [Finishers -> FinRow \cup {IdleFin}] /\ FinInv'
    BY <1>8, FinReplaced DEF RecoverFinish
  <2>3. upload' \in [Uploads -> UploadRow \cup {NoUpload}]
    <3>1. CASE HoldsLease(f)
      <4> DEFINE u == fin[f].upload
                 r == [upload[u] EXCEPT !.state = "OPEN", !.expected = 0,
                                        !.token = NoToken, !.lease = 0]
      <4>1. u \in Uploads /\ upload[u] \in UploadRow
        BY <2>1, <3>1, LeaseRow
      <4>2. r \in UploadRow
        <5> HIDE DEF u
        <5>1. 0 \in 0..Chunks
          BY ChunkAssumption
        <5> QED BY <4>1, <5>1 DEF UploadRow
      <4>3. upload' = [upload EXCEPT ![u] = r]
        BY <1>8, <3>1 DEF RecoverFinish
      <4> HIDE DEF r, u
      <4> QED BY <4>1, <4>2, <4>3, UploadReplaced
    <3>2. CASE ~ HoldsLease(f)
      BY <1>8, <3>2 DEF RecoverFinish, TypeOK
    <3> QED BY <3>1, <3>2
  <2> QED BY <1>8, <2>2, <2>3 DEF RecoverFinish, TypeOK, attemptVars, storage
<1>9. CASE CrashFinish(f)
  <2>1. fin' \in [Finishers -> FinRow \cup {IdleFin}] /\ FinInv'
    BY <1>9, FinReplaced DEF CrashFinish
  <2> QED BY <1>9, <2>1 DEF CrashFinish, TypeOK, attemptVars, storage
<1> QED BY <1>1, <1>2, <1>3, <1>4, <1>5, <1>6, <1>7, <1>8, <1>9 DEF FinishNext

LEMMA LateTyped ==
  ASSUME TypeOK, NEW l \in late, LateFinal(l)
  PROVE  TypeOK'
<1>1. l.upload \in Uploads /\ l.token \in Tokens
  BY DEF TypeOK
<1>2. CASE MayRegister(l.upload, l.token) /\ Register(l.upload, l.token)
  BY <1>1, <1>2, RegisterTyped DEF LateFinal, TypeOK, attemptVars, storage
<1>3. CASE UNCHANGED <<evidence, upload>>
  BY <1>3 DEF LateFinal, TypeOK, attemptVars, storage
<1> QED BY <1>2, <1>3 DEF LateFinal

(* The requests other than complete leave fin alone. *)
LEMMA FinAlone ==
  ASSUME \/ \E p \in Putters : PutNext(p)
         \/ \E u \in Uploads : SessionNext(u)
         \/ \E l \in late : LateFinal(l)
         \/ AttemptNext \/ Tick
  PROVE  fin' = fin
<1>1. ASSUME NEW p \in Putters, PutNext(p) PROVE fin' = fin
  BY <1>1 DEF PutNext, BeginPut, StoreChunk, CommitChunk, LoseChunkRace, RejectChunk,
              RemoveOwnChunk, LosePut, LateChunk
<1>2. ASSUME NEW u \in Uploads, SessionNext(u) PROVE fin' = fin
  BY <1>2 DEF SessionNext, CreateUpload, AbortUpload, RepeatChunk, RepeatComplete, requests
<1>3. ASSUME NEW l \in late, LateFinal(l) PROVE fin' = fin
  BY <1>3 DEF LateFinal
<1>4. ASSUME AttemptNext \/ Tick PROVE fin' = fin
  BY <1>4 DEF AttemptNext, Tick, FinishAttempt, ReviewAttempt, CreateAppeal, ResolveAppeal,
              rows, requests
<1> QED BY <1>1, <1>2, <1>3, <1>4

TypeInv == TypeOK /\ FinInv

LEMMA TypeStarts == Init => TypeInv
  BY InitTyped DEF TypeInv, Init, FinInv

LEMMA TypeGoesOn == TypeInv /\ [UploadNext]_vars => TypeInv'
<1> SUFFICES ASSUME TypeOK, FinInv, [UploadNext]_vars PROVE TypeInv'
  BY DEF TypeInv
<1>1. ASSUME NEW f \in Finishers, FinishNext(f) PROVE TypeInv'
  BY <1>1, FinTyped DEF TypeInv
<1>2. ASSUME \/ \E p \in Putters : PutNext(p)
             \/ \E u \in Uploads : SessionNext(u)
             \/ \E l \in late : LateFinal(l)
             \/ AttemptNext \/ Tick
      PROVE TypeInv'
  <2>1. FinInv'
    BY <1>2, FinAlone DEF FinInv
  <2>2. TypeOK'
    BY <1>2, PutTyped, SessionTyped, LateTyped, AttemptTyped
  <2> QED BY <2>1, <2>2 DEF TypeInv
<1>3. CASE UNCHANGED vars
  BY <1>3 DEF vars, attemptVars, storage, requests, TypeInv, TypeOK, FinInv
<1> QED BY <1>1, <1>2, <1>3 DEF UploadNext

(* The rows, the storage and the requests keep their types. *)
THEOREM UploadTypes == UploadSpec => []TypeOK
<1>1. TypeInv => TypeOK
  BY DEF TypeInv
<1> QED BY TypeStarts, TypeGoesOn, <1>1, PTL DEF UploadSpec

-----------------------------------------------------------------------------
(* What can become of a session's row *)

(* What a finished finaliser may not touch: the chunk rows and the window. *)
KeepsChunks(u) == /\ upload'[u].chunks = upload[u].chunks
                  /\ upload'[u].expiresAt = upload[u].expiresAt
                  /\ upload'[u].evidence = upload[u].evidence
                  /\ upload'[u].bytes = upload[u].bytes

KeepsClaim(u) == /\ upload'[u].state = upload[u].state
                 /\ upload'[u].expected = upload[u].expected
                 /\ upload'[u].interrupted = upload[u].interrupted
                 /\ upload'[u].token = upload[u].token

Created(u) ==
  /\ ~ IsUpload(u) /\ WindowOpen
  /\ upload'[u].state = "OPEN" /\ upload'[u].expiresAt = RecordingDeadline
  /\ DOMAIN upload'[u].chunks = {} /\ upload'[u].bytes = 0

ChunkAdded(u, r) ==
  /\ r.upload = u /\ MayRecord(r)
  /\ KeepsClaim(u) /\ upload'[u].expiresAt = upload[u].expiresAt
  /\ upload'[u].bytes = upload[u].bytes + Size[r.data]
  /\ DOMAIN upload'[u].chunks = DOMAIN upload[u].chunks \cup {r.index}
  /\ upload'[u].chunks[r.index].object = r.object
  /\ upload'[u].chunks[r.index].data = r.data
  /\ \A i \in DOMAIN upload[u].chunks : upload'[u].chunks[i] = upload[u].chunks[i]
  /\ DOMAIN saved'[u] = DOMAIN saved[u] \cup {r.index}
  /\ saved'[u][r.index] = r.data
  /\ \A i \in DOMAIN saved[u] : i # r.index => saved'[u][i] = saved[u][i]

Taken(u) ==
  /\ In(u, {"OPEN", "FINALIZING"}) /\ upload'[u].state = "FINALIZING"
  /\ upload'[u].expected \in 1..Chunks /\ HasExactly(u, upload'[u].expected)
  /\ upload'[u].token \in Tokens \ spent
  /\ KeepsChunks(u)

Renewed(u) == upload[u].state = "FINALIZING" /\ KeepsChunks(u) /\ KeepsClaim(u)

(* The request, or the late commit, that registers token k for session u. *)
Origin(u, k) ==
  \/ \E f \in Finishers : /\ fin[f].pc = "commit" /\ fin[f].upload = u /\ fin[f].token = k
                          /\ fin'[f] = IdleFin
  \/ [upload |-> u, token |-> k] \in late

Registered(u) ==
  /\ Origin(u, upload[u].token)
  /\ MayRegister(u, upload[u].token) /\ upload[u].token \in Tokens
  /\ upload'[u].state = "COMPLETE" /\ upload'[u].evidence = upload[u].token
  /\ upload'[u].chunks = upload[u].chunks
  /\ upload'[u].bytes = upload[u].bytes
  /\ upload'[u].expected = upload[u].expected
  /\ upload'[u].interrupted = upload[u].interrupted
  /\ evidence' = evidence \cup {[upload |-> u, token |-> upload[u].token]}

Reopened(u) == /\ upload[u].state = "FINALIZING" /\ upload'[u].state = "OPEN"
               /\ KeepsChunks(u)

Aborted(u) == /\ In(u, {"OPEN", "FINALIZING"}) /\ upload'[u].state = "ABORTED"
              /\ KeepsChunks(u)

Extended(u) ==
  /\ In(u, {"OPEN", "FINALIZING"}) /\ CreateAppeal
  /\ KeepsClaim(u) /\ upload'[u].chunks = upload[u].chunks
  /\ upload'[u].bytes = upload[u].bytes
  /\ upload'[u].expiresAt = now + Window

(* The request of p, or the commit it lost sight of, adds its chunk. *)
RecordedBy(u, p) == /\ put[p] \in PutRow /\ put[p].pc \in {"commit", "late"}
                    /\ put'[p] = IdlePut
                    /\ ChunkAdded(u, put[p])

RowMove(u) ==
  \/ upload'[u] = upload[u]
  \/ Created(u)
  \/ \E p \in Putters : RecordedBy(u, p)
  \/ Taken(u) \/ Renewed(u) \/ Registered(u) \/ Reopened(u) \/ Aborted(u)
  \/ Extended(u)

LEMMA RecordMoves ==
  ASSUME TypeOK, NEW r \in PutRow, MayRecord(r), Record(r), NEW v \in Uploads
  PROVE  \/ upload'[v] = upload[v] /\ saved'[v] = saved[v]
         \/ ChunkAdded(v, r)
<1> DEFINE u == r.upload
           old == upload[u].chunks
           row == [object |-> r.object, data |-> r.data]
           c == [i \in DOMAIN old \cup {r.index} |-> IF i = r.index THEN row ELSE old[i]]
           d == [i \in DOMAIN saved[u] \cup {r.index} |->
                   IF i = r.index THEN r.data ELSE saved[u][i]]
<1>1. u \in Uploads /\ upload[u] \in UploadRow /\ r.index \notin DOMAIN old
  BY UploadAt DEF PutRow, MayRecord, AcceptsChunks
<1>2. upload' = [upload EXCEPT ![u] = [upload[u] EXCEPT !.chunks = c, !.bytes = @ + Size[r.data]]]
  BY DEF Record
<1>3. saved' = [saved EXCEPT ![u] = d]
  BY DEF Record
<1>4. CASE v # u
  <2> HIDE DEF c, d, u
  <2> QED BY <1>2, <1>3, <1>4 DEF TypeOK
<1>5. CASE v = u
  <2>1. /\ KeepsClaim(u) /\ upload'[u].expiresAt = upload[u].expiresAt /\ upload'[u].chunks = c
        /\ upload'[u].bytes = upload[u].bytes + Size[r.data]
    <3> HIDE DEF c, u
    <3> QED BY <1>1, <1>2 DEF TypeOK, UploadRow, KeepsClaim
  <2>2. saved'[u] = d
    BY <1>1, <1>3 DEF TypeOK
  <2>3. /\ DOMAIN c = DOMAIN old \cup {r.index}
        /\ c[r.index].object = r.object /\ c[r.index].data = r.data
        /\ \A i \in DOMAIN old : c[i] = old[i]
    BY <1>1
  <2>4. /\ DOMAIN d = DOMAIN saved[u] \cup {r.index} /\ d[r.index] = r.data
        /\ \A i \in DOMAIN saved[u] : i # r.index => d[i] = saved[u][i]
    OBVIOUS
  <2> HIDE DEF c, d
  <2> QED BY <1>5, <2>1, <2>2, <2>3, <2>4 DEF ChunkAdded
<1> QED BY <1>4, <1>5

LEMMA PutMoves ==
  ASSUME TypeOK, NEW p \in Putters, PutNext(p), NEW u \in Uploads
  PROVE  \/ upload'[u] = upload[u] /\ saved'[u] = saved[u]
         \/ RecordedBy(u, p)
<1>1. ASSUME NEW v \in Uploads, NEW i \in Index, NEW d \in Data, BeginPut(p, v, i, d)
      PROVE  upload' = upload /\ saved' = saved
  BY <1>1 DEF BeginPut
<1>2. ASSUME \/ StoreChunk(p) \/ LoseChunkRace(p) \/ RejectChunk(p)
             \/ RemoveOwnChunk(p) \/ LosePut(p)
      PROVE  upload' = upload /\ saved' = saved
  BY <1>2 DEF StoreChunk, LoseChunkRace, RejectChunk, RemoveOwnChunk, LosePut
<1>3. CASE CommitChunk(p)
  <2>1. put[p] \in PutRow
    BY <1>3, PutAt DEF CommitChunk
  <2>2. put[p].pc \in {"commit", "late"} /\ put'[p] = IdlePut
    BY <1>3 DEF CommitChunk, TypeOK
  <2> QED BY <1>3, <2>1, <2>2, RecordMoves DEF CommitChunk, RecordedBy
<1>4. CASE LateChunk(p)
  <2>1. put[p] \in PutRow
    BY <1>4, PutAt DEF LateChunk
  <2>2. put[p].pc \in {"commit", "late"} /\ put'[p] = IdlePut
    BY <1>4 DEF LateChunk, TypeOK
  <2> QED BY <1>4, <2>1, <2>2, RecordMoves DEF LateChunk, RecordedBy
<1> QED BY <1>1, <1>2, <1>3, <1>4 DEF PutNext

LEMMA RegisterMoves ==
  ASSUME TypeOK, NEW v \in Uploads, NEW k \in Tokens, MayRegister(v, k), Register(v, k),
         Origin(v, k), NEW u \in Uploads
  PROVE  upload'[u] = upload[u] \/ Registered(u)
<1>1. upload[v] \in UploadRow
  BY UploadAt DEF MayRegister
<1>2. upload' = [upload EXCEPT ![v] = [upload[v] EXCEPT !.state = "COMPLETE", !.evidence = k,
                                                   !.token = NoToken, !.lease = 0]]
  BY DEF Register
<1>3. CASE u # v
  BY <1>2, <1>3 DEF TypeOK
<1>4. CASE u = v
  <2>1. /\ upload'[v].state = "COMPLETE" /\ upload'[v].evidence = k
        /\ upload'[v].chunks = upload[v].chunks /\ upload'[v].bytes = upload[v].bytes
        /\ upload'[v].expected = upload[v].expected
        /\ upload'[v].interrupted = upload[v].interrupted
    BY <1>1, <1>2 DEF TypeOK, UploadRow
  <2> QED BY <1>4, <2>1 DEF Registered, MayRegister, Register
<1> QED BY <1>3, <1>4

LEMMA RenewMoves ==
  ASSUME TypeOK, NEW f \in Finishers, fin[f] # IdleFin, HoldsLease(f),
         upload' = [upload EXCEPT ![fin[f].upload].lease = now + Lease], NEW u \in Uploads
  PROVE  upload'[u] = upload[u] \/ Renewed(u)
<1>1. fin[f].upload \in Uploads /\ upload[fin[f].upload] \in UploadRow
  BY LeaseRow
<1>2. upload' = [upload EXCEPT ![fin[f].upload] =
                   [upload[fin[f].upload] EXCEPT !.lease = now + Lease]]
  OBVIOUS
<1>3. CASE u # fin[f].upload
  BY <1>2, <1>3 DEF TypeOK
<1>4. CASE u = fin[f].upload
  BY <1>1, <1>2, <1>4 DEF TypeOK, UploadRow, Renewed, KeepsChunks, KeepsClaim, HoldsLease
<1> QED BY <1>3, <1>4

LEMMA FinMoves ==
  ASSUME TypeInv, NEW f \in Finishers, FinishNext(f), NEW u \in Uploads
  PROVE  upload'[u] = upload[u] \/ Taken(u) \/ Renewed(u) \/ Registered(u) \/ Reopened(u)
<1> USE DEF TypeInv
<1>1. ASSUME NEW v \in Uploads, NEW n \in 1..Chunks, NEW flag \in Flags, Claim(f, v, n, flag)
      PROVE  upload'[u] = upload[u] \/ Taken(u)
  <2>1. upload[v] \in UploadRow /\ In(v, {"OPEN", "FINALIZING"}) /\ HasExactly(v, n)
    BY <1>1, UploadAt DEF Claim, In
  <2>2. PICK k \in Tokens \ spent :
          upload' = [upload EXCEPT ![v].state = "FINALIZING", ![v].expected = n,
                                   ![v].interrupted = flag, ![v].token = k,
                                   ![v].lease = now + Lease]
    BY <1>1 DEF Claim
  <2>3. CASE u # v
    BY <2>2, <2>3 DEF TypeOK
  <2>4. CASE u = v
    <3>1. /\ upload'[v].state = "FINALIZING" /\ upload'[v].expected = n /\ upload'[v].token = k
          /\ KeepsChunks(v)
      BY <2>1, <2>2 DEF TypeOK, UploadRow, KeepsChunks
    <3> QED BY <2>1, <2>2, <2>4, <3>1 DEF Taken
  <2> QED BY <2>3, <2>4
<1>2. ASSUME AssembleChunk(f) \/ UploadFinal(f) \/ FailFinish(f) \/ CrashFinish(f)
      PROVE  upload' = upload
  BY <1>2 DEF AssembleChunk, UploadFinal, FailFinish, CrashFinish
<1>3. CASE Heartbeat(f)
  <2>1. fin[f] # IdleFin
    BY <1>3, RowsDiffer DEF Heartbeat
  <2> QED BY <1>3, <2>1, RenewMoves DEF Heartbeat
<1>4. CASE RenewBeforeUpload(f)
  <2>1. fin[f] # IdleFin
    BY <1>4, RowsDiffer DEF RenewBeforeUpload
  <2> QED BY <1>4, <2>1, RenewMoves DEF RenewBeforeUpload
<1>5. CASE CommitFinal(f)
  <2>1. fin[f].upload \in Uploads /\ fin[f].token \in Tokens
    BY <1>5, FinAt DEF CommitFinal, FinRow
  <2>2. CASE MayRegister(fin[f].upload, fin[f].token)
    <3>1. fin'[f] = IdleFin
      BY <1>5, <2>2 DEF CommitFinal, TypeOK
    <3>2. Origin(fin[f].upload, fin[f].token)
      BY <1>5, <3>1 DEF CommitFinal, Origin
    <3> QED BY <1>5, <2>1, <2>2, <3>2, RegisterMoves DEF CommitFinal
  <2>3. CASE ~ MayRegister(fin[f].upload, fin[f].token)
    BY <1>5, <2>3 DEF CommitFinal
  <2> QED BY <2>2, <2>3
<1>6. CASE RecoverFinish(f)
  <2>1. CASE HoldsLease(f)
    <3> DEFINE v == fin[f].upload
    <3>1. v \in Uploads /\ upload[v] \in UploadRow /\ upload[v].state = "FINALIZING"
      BY <1>6, <2>1, LeaseRow, RowsDiffer DEF RecoverFinish, HoldsLease
    <3>2. upload' = [upload EXCEPT ![v] = [upload[v] EXCEPT !.state = "OPEN", !.expected = 0,
                                                     !.token = NoToken, !.lease = 0]]
      BY <1>6, <2>1 DEF RecoverFinish
    <3> HIDE DEF v
    <3>3. upload'[v].state = "OPEN" /\ KeepsChunks(v)
      BY <3>1, <3>2 DEF TypeOK, UploadRow, KeepsChunks
    <3> QED BY <3>1, <3>2, <3>3 DEF TypeOK, Reopened
  <2>2. CASE ~ HoldsLease(f)
    BY <1>6, <2>2 DEF RecoverFinish
  <2> QED BY <2>1, <2>2
<1> QED BY <1>1, <1>2, <1>3, <1>4, <1>5, <1>6 DEF FinishNext

LEMMA SessionMoves ==
  ASSUME TypeOK, NEW v \in Uploads, SessionNext(v), NEW u \in Uploads
  PROVE  upload'[u] = upload[u] \/ Created(u) \/ Aborted(u)
<1>1. CASE CreateUpload(v)
  <2> DEFINE r == [state |-> "OPEN", expiresAt |-> RecordingDeadline, expected |-> 0,
                   interrupted |-> FALSE, token |-> NoToken, lease |-> 0,
                   chunks |-> [i \in {} |-> NoData], bytes |-> 0, evidence |-> NoToken]
  <2>1. upload' = [upload EXCEPT ![v] = r]
    BY <1>1 DEF CreateUpload
  <2>2. /\ r.state = "OPEN" /\ r.expiresAt = RecordingDeadline
        /\ DOMAIN r.chunks = {} /\ r.bytes = 0
    OBVIOUS
  <2> HIDE DEF r
  <2> QED BY <1>1, <2>1, <2>2 DEF TypeOK, CreateUpload, Created
<1>2. CASE AbortUpload(v)
  <2>1. upload[v] \in UploadRow
    BY <1>2, UploadAt DEF AbortUpload, In
  <2>2. upload' = [upload EXCEPT ![v] = [upload[v] EXCEPT !.state = "ABORTED",
                                            !.token = NoToken, !.lease = 0]]
    BY <1>2 DEF AbortUpload
  <2>3. upload'[v].state = "ABORTED" /\ KeepsChunks(v)
    BY <2>1, <2>2 DEF TypeOK, UploadRow, KeepsChunks
  <2> QED BY <1>2, <2>2, <2>3 DEF TypeOK, AbortUpload, Aborted
<1>3. ASSUME NEW i \in Index, NEW d \in Data, RepeatChunk(v, i, d)
      PROVE  upload' = upload
  BY <1>3 DEF RepeatChunk
<1>4. ASSUME NEW n \in 1..Chunks, NEW flag \in Flags, RepeatComplete(v, n, flag)
      PROVE  upload' = upload
  BY <1>4 DEF RepeatComplete
<1> QED BY <1>1, <1>2, <1>3, <1>4 DEF SessionNext

LEMMA LateMoves ==
  ASSUME TypeOK, NEW l \in late, LateFinal(l), NEW u \in Uploads
  PROVE  upload'[u] = upload[u] \/ Registered(u)
<1>1. l.upload \in Uploads /\ l.token \in Tokens /\ Origin(l.upload, l.token)
  BY DEF TypeOK, Origin
<1> QED BY <1>1, RegisterMoves DEF LateFinal

LEMMA AttemptMoves ==
  ASSUME TypeOK, AttemptNext \/ Tick, NEW u \in Uploads
  PROVE  upload'[u] = upload[u] \/ Extended(u)
<1>1. ASSUME FinishAttempt \/ Tick
      PROVE  upload' = upload
  BY <1>1 DEF FinishAttempt, Tick
<1>2. ASSUME NEW decision, ReviewAttempt(decision) \/ ResolveAppeal(decision)
      PROVE  upload' = upload
  BY <1>2 DEF ReviewAttempt, ResolveAppeal
<1>3. CASE CreateAppeal
  <2>1. CASE In(u, {"OPEN", "FINALIZING"}) /\ upload[u].expiresAt < now + Window
    <3>1. upload[u] \in UploadRow
      BY <2>1, UploadAt DEF In
    <3>2. upload'[u] = [upload[u] EXCEPT !.expiresAt = now + Window]
      BY <1>3, <2>1 DEF CreateAppeal
    <3>3. /\ KeepsClaim(u) /\ upload'[u].chunks = upload[u].chunks
          /\ upload'[u].bytes = upload[u].bytes /\ upload'[u].expiresAt = now + Window
      BY <3>1, <3>2 DEF UploadRow, KeepsClaim
    <3> QED BY <1>3, <2>1, <3>3 DEF Extended
  <2>2. CASE ~ (In(u, {"OPEN", "FINALIZING"}) /\ upload[u].expiresAt < now + Window)
    BY <1>3, <2>2 DEF CreateAppeal
  <2> QED BY <2>1, <2>2
<1> QED BY <1>1, <1>2, <1>3 DEF AttemptNext

LEMMA RowMoves ==
  ASSUME TypeInv, [UploadNext]_vars, NEW u \in Uploads
  PROVE  RowMove(u)
<1>1. ASSUME NEW p \in Putters, PutNext(p) PROVE RowMove(u)
  BY <1>1, PutMoves DEF TypeInv, RowMove
<1>2. ASSUME NEW f \in Finishers, FinishNext(f) PROVE RowMove(u)
  BY <1>2, FinMoves DEF RowMove
<1>3. ASSUME NEW v \in Uploads, SessionNext(v) PROVE RowMove(u)
  BY <1>3, SessionMoves DEF TypeInv, RowMove
<1>4. ASSUME NEW l \in late, LateFinal(l) PROVE RowMove(u)
  BY <1>4, LateMoves DEF TypeInv, RowMove
<1>5. ASSUME AttemptNext \/ Tick PROVE RowMove(u)
  BY <1>5, AttemptMoves DEF TypeInv, RowMove
<1>6. CASE UNCHANGED vars
  BY <1>6 DEF vars, RowMove
<1> QED BY <1>1, <1>2, <1>3, <1>4, <1>5, <1>6 DEF UploadNext

(* A completed or aborted session never changes again. *)
LEMMA ClosedStays ==
  ASSUME TypeInv, [UploadNext]_vars, NEW u \in Uploads, In(u, {"COMPLETE", "ABORTED"})
  PROVE  upload'[u] = upload[u]
BY RowMoves, RowsDiffer DEF RowMove, Created, RecordedBy, ChunkAdded, MayRecord, AcceptsChunks, Taken,
     Renewed, Registered, MayRegister, Reopened, Aborted, Extended, In, IsUpload

(* The outcome of an upload is final: complete and aborted sessions are left *)
(* alone by every request still at work (recording-uploads.service.ts).    *)
THEOREM ClosedForGood == UploadSpec => ClosedSessionsStay
<1>1. TypeInv /\ [UploadNext]_vars =>
        [\A u \in Uploads : In(u, {"COMPLETE", "ABORTED"}) =>
           upload'[u] \in {upload[u], [upload[u] EXCEPT !.chunks = upload'[u].chunks]}]_vars
  BY ClosedStays
<1> QED BY TypeStarts, TypeGoesOn, <1>1, PTL DEF UploadSpec, ClosedSessionsStay

LEMMA EvidenceMoves ==
  ASSUME TypeInv, [UploadNext]_vars
  PROVE  evidence' = evidence \/ \E u \in Uploads : Registered(u)
<1>1. ASSUME NEW v \in Uploads, NEW k \in Tokens, MayRegister(v, k), Register(v, k), Origin(v, k)
      PROVE  Registered(v)
  <2>1. upload'[v] = upload[v] \/ Registered(v)
    BY <1>1, RegisterMoves DEF TypeInv
  <2>2. upload[v] \in UploadRow /\ upload[v].state = "FINALIZING"
    BY <1>1, UploadAt DEF TypeInv, MayRegister
  <2>3. upload'[v].state = "COMPLETE"
    BY <1>1, <2>2 DEF Register, TypeInv, TypeOK, UploadRow
  <2> QED BY <2>1, <2>2, <2>3
<1>2. ASSUME NEW p \in Putters, PutNext(p) PROVE evidence' = evidence
  BY <1>2 DEF PutNext, BeginPut, StoreChunk, CommitChunk, LoseChunkRace, RejectChunk,
              RemoveOwnChunk, LosePut, LateChunk
<1>3. ASSUME NEW f \in Finishers, FinishNext(f)
      PROVE  evidence' = evidence \/ \E u \in Uploads : Registered(u)
  <2>1. CASE CommitFinal(f)
    <3>1. fin[f].upload \in Uploads /\ fin[f].token \in Tokens
      BY <2>1, FinAt DEF CommitFinal, FinRow, TypeInv
    <3>2. CASE MayRegister(fin[f].upload, fin[f].token)
      <4>1. fin'[f] = IdleFin
        BY <2>1, <3>2 DEF CommitFinal, TypeInv, TypeOK
      <4>2. Origin(fin[f].upload, fin[f].token)
        BY <2>1, <4>1 DEF CommitFinal, Origin
      <4> QED BY <1>1, <2>1, <3>1, <3>2, <4>2 DEF CommitFinal
    <3>3. CASE ~ MayRegister(fin[f].upload, fin[f].token)
      BY <2>1, <3>3 DEF CommitFinal
    <3> QED BY <3>2, <3>3
  <2>2. CASE ~ CommitFinal(f)
    <3>1. ASSUME NEW u \in Uploads, NEW n \in 1..Chunks, NEW flag \in Flags, Claim(f, u, n, flag)
          PROVE  evidence' = evidence
      BY <3>1 DEF Claim
    <3>2. CASE AssembleChunk(f) \/ Heartbeat(f) \/ RenewBeforeUpload(f) \/ UploadFinal(f)
      BY <3>2 DEF AssembleChunk, Heartbeat, RenewBeforeUpload, UploadFinal
    <3>3. CASE FailFinish(f) \/ RecoverFinish(f) \/ CrashFinish(f)
      BY <3>3 DEF FailFinish, RecoverFinish, CrashFinish
    <3> QED BY <1>3, <2>2, <3>1, <3>2, <3>3 DEF FinishNext
  <2> QED BY <2>1, <2>2
<1>4. ASSUME NEW v \in Uploads, SessionNext(v) PROVE evidence' = evidence
  BY <1>4 DEF SessionNext, CreateUpload, AbortUpload, RepeatChunk, RepeatComplete
<1>5. ASSUME NEW l \in late, LateFinal(l)
      PROVE  evidence' = evidence \/ \E u \in Uploads : Registered(u)
  <2>1. l.upload \in Uploads /\ l.token \in Tokens /\ Origin(l.upload, l.token)
    BY DEF TypeInv, TypeOK, Origin
  <2> QED BY <1>1, <1>5, <2>1 DEF LateFinal
<1>6. ASSUME AttemptNext \/ Tick PROVE evidence' = evidence
  BY <1>6 DEF AttemptNext, Tick, FinishAttempt, ReviewAttempt, CreateAppeal, ResolveAppeal, rows
<1>7. CASE UNCHANGED vars
  BY <1>7 DEF vars
<1> QED BY <1>2, <1>3, <1>4, <1>5, <1>6, <1>7 DEF UploadNext

(* Chunks are recorded by requests, in the window only. *)
LEMMA SavedMoves ==
  ASSUME TypeInv, [UploadNext]_vars
  PROVE  saved' = saved \/ (WindowOpen /\ \E p \in Putters : PutNext(p))
<1>1. ASSUME NEW p \in Putters, PutNext(p) PROVE saved' = saved \/ WindowOpen
  BY <1>1 DEF PutNext, BeginPut, StoreChunk, CommitChunk, LoseChunkRace, RejectChunk,
              RemoveOwnChunk, LosePut, LateChunk, MayRecord, AcceptsChunks
<1>2. ASSUME NEW f \in Finishers, FinishNext(f) PROVE saved' = saved
  <2>1. ASSUME NEW u \in Uploads, NEW n \in 1..Chunks, NEW flag \in Flags, Claim(f, u, n, flag)
        PROVE  saved' = saved
    BY <2>1 DEF Claim, attemptVars
  <2>2. CASE AssembleChunk(f) \/ Heartbeat(f) \/ RenewBeforeUpload(f) \/ UploadFinal(f)
    BY <2>2 DEF AssembleChunk, Heartbeat, RenewBeforeUpload, UploadFinal, attemptVars
  <2>3. CASE CommitFinal(f) \/ FailFinish(f) \/ RecoverFinish(f) \/ CrashFinish(f)
    BY <2>3 DEF CommitFinal, FailFinish, RecoverFinish, CrashFinish, attemptVars
  <2> QED BY <1>2, <2>1, <2>2, <2>3 DEF FinishNext
<1>3. ASSUME NEW v \in Uploads, SessionNext(v) PROVE saved' = saved
  BY <1>3 DEF SessionNext, CreateUpload, AbortUpload, RepeatChunk, RepeatComplete
<1>4. ASSUME NEW l \in late, LateFinal(l) PROVE saved' = saved
  BY <1>4 DEF LateFinal
<1>5. ASSUME AttemptNext \/ Tick PROVE saved' = saved
  BY <1>5 DEF AttemptNext, Tick, FinishAttempt, ReviewAttempt, CreateAppeal, ResolveAppeal, rows
<1>6. CASE UNCHANGED vars
  BY <1>6 DEF vars
<1> QED BY <1>1, <1>2, <1>3, <1>4, <1>5, <1>6 DEF UploadNext

(* Requests that began before a decision change nothing the reviewer saw. *)
THEOREM ReviewedEvidenceStays == UploadSpec => ClosedReviewFreezesEvidence
<1>1. TypeInv /\ [UploadNext]_vars =>
        [(review # "PENDING" /\ ~ AppealOpen) =>
           /\ evidence' = evidence
           /\ saved' = saved]_vars
  BY EvidenceMoves, SavedMoves DEF WindowOpen, Registered, MayRegister
<1> QED BY TypeStarts, TypeGoesOn, <1>1, PTL DEF UploadSpec, ClosedReviewFreezesEvidence

LEMMA OneStaysOne ==
  ASSUME TypeInv, [UploadNext]_vars, OneEvidencePerUpload
  PROVE  OneEvidencePerUpload'
<1> SUFFICES ASSUME NEW e \in evidence'
             PROVE  upload'[e.upload].state = "COMPLETE" /\ upload'[e.upload].evidence = e.token
  BY DEF OneEvidencePerUpload
<1>1. CASE e \in evidence
  <2>1. e.upload \in Uploads
    BY <1>1 DEF TypeInv, TypeOK
  <2>2. upload[e.upload].state = "COMPLETE" /\ upload[e.upload].evidence = e.token
    BY <1>1 DEF OneEvidencePerUpload
  <2> QED BY <2>1, <2>2, ClosedStays DEF In
<1>2. CASE e \notin evidence
  <2>1. PICK u \in Uploads : Registered(u)
    BY <1>2, EvidenceMoves
  <2>2. e = [upload |-> u, token |-> upload[u].token]
    BY <1>2, <2>1 DEF Registered
  <2> QED BY <2>1, <2>2 DEF Registered
<1> QED BY <1>1, <1>2

(* At most one evidence file per session: a finaliser that lost its lease, *)
(* or whose commit comes late, registers nothing of its own.               *)
THEOREM OneEvidence == UploadSpec => []OneEvidencePerUpload
<1>1. Init => OneEvidencePerUpload
  BY DEF Init, OneEvidencePerUpload
<1> QED BY <1>1, OneStaysOne, TypeStarts, TypeGoesOn, PTL DEF UploadSpec

(* The attempt changes by its own handlers, which leave the sessions alone *)
(* but for the new window an appeal gives them.                            *)
LEMMA ReviewMoves ==
  ASSUME [UploadNext]_vars
  PROVE  \/ UNCHANGED attemptVars
         \/ /\ upload' = upload
            /\ \/ FinishAttempt
               \/ \E decision \in {"APPROVED", "REJECTED"} : ReviewAttempt(decision)
               \/ \E decision \in {"UPHELD", "OVERTURNED"} : ResolveAppeal(decision)
         \/ CreateAppeal
<1>1. ASSUME NEW p \in Putters, PutNext(p) PROVE UNCHANGED attemptVars
  BY <1>1 DEF PutNext, BeginPut, StoreChunk, CommitChunk, LoseChunkRace, RejectChunk,
              RemoveOwnChunk, LosePut, LateChunk
<1>2. ASSUME NEW f \in Finishers, FinishNext(f) PROVE UNCHANGED attemptVars
  <2>1. ASSUME NEW u \in Uploads, NEW n \in 1..Chunks, NEW flag \in Flags, Claim(f, u, n, flag)
        PROVE  UNCHANGED attemptVars
    BY <2>1 DEF Claim, attemptVars
  <2>2. CASE AssembleChunk(f) \/ Heartbeat(f) \/ RenewBeforeUpload(f) \/ UploadFinal(f)
    BY <2>2 DEF AssembleChunk, Heartbeat, RenewBeforeUpload, UploadFinal, attemptVars
  <2>3. CASE CommitFinal(f) \/ FailFinish(f) \/ RecoverFinish(f) \/ CrashFinish(f)
    BY <2>3 DEF CommitFinal, FailFinish, RecoverFinish, CrashFinish, attemptVars
  <2> QED BY <1>2, <2>1, <2>2, <2>3 DEF FinishNext
<1>3. ASSUME NEW v \in Uploads, SessionNext(v) PROVE UNCHANGED attemptVars
  BY <1>3 DEF SessionNext, CreateUpload, AbortUpload, RepeatChunk, RepeatComplete
<1>4. ASSUME NEW l \in late, LateFinal(l) PROVE UNCHANGED attemptVars
  BY <1>4 DEF LateFinal
<1>5. CASE Tick \/ UNCHANGED vars
  BY <1>5 DEF Tick, vars
<1>6. CASE AttemptNext
  BY <1>6 DEF AttemptNext, FinishAttempt, ReviewAttempt, ResolveAppeal
<1> QED BY <1>1, <1>2, <1>3, <1>4, <1>5, <1>6 DEF UploadNext

(* An approval rests on finished recordings of every kind, and nothing is  *)
(* added, completed or reopened after it.                                  *)
THEOREM ApprovalSettles == UploadSpec => []ApprovedIsSettled
<1>1. Init => ApprovedIsSettled
  BY DEF Init, ApprovedIsSettled
<1>2. ASSUME TypeInv, [UploadNext]_vars, ApprovedIsSettled
      PROVE  ApprovedIsSettled'
  <2> SUFFICES ASSUME review' = "APPROVED"
               PROVE  /\ \A u \in Uploads : IsUpload(u)' => In(u, {"COMPLETE", "ABORTED"})'
                      /\ \A kind \in Kinds : \E e \in evidence' : Kind[e.upload] = kind
    BY DEF ApprovedIsSettled
  <2>1. \A e \in evidence : e \in evidence'
    BY <1>2, EvidenceMoves DEF Registered
  <2>2. CASE review = "APPROVED"
    <3>1. ~ WindowOpen
      BY <2>2 DEF WindowOpen, AppealOpen
    <3>2. ASSUME NEW u \in Uploads, IsUpload(u)'
          PROVE  In(u, {"COMPLETE", "ABORTED"})'
      <4>1. CASE IsUpload(u)
        BY <1>2, <2>2, <4>1, ClosedStays DEF ApprovedIsSettled, In
      <4>2. CASE ~ IsUpload(u)
        <5>1. upload'[u] = upload[u]
          BY <1>2, <3>1, <4>2, RowMoves, RowsDiffer
             DEF RowMove, Created, RecordedBy, ChunkAdded, MayRecord, AcceptsChunks, Taken, Renewed, Registered,
                 MayRegister, Reopened, Aborted, Extended, In, IsUpload
        <5> QED BY <3>2, <4>2, <5>1 DEF IsUpload
      <4> QED BY <4>1, <4>2
    <3> QED BY <1>2, <2>1, <2>2, <3>2 DEF ApprovedIsSettled
  <2>3. CASE review # "APPROVED"
    <3>1. EvidenceReady /\ upload' = upload
      BY <1>2, <2>3, ReviewMoves DEF attemptVars, FinishAttempt, ReviewAttempt, ResolveAppeal, CreateAppeal
    <3> QED BY <2>1, <3>1 DEF EvidenceReady, IsUpload, In
  <2> QED BY <2>2, <2>3
<1> QED BY <1>1, <1>2, TypeStarts, TypeGoesOn, PTL DEF UploadSpec

(* An appeal is open against a rejection only. *)
OpenInv == appeal.state = "OPEN" => review = "REJECTED"

LEMMA OpenGoesOn ==
  ASSUME TypeInv, [UploadNext]_vars, OpenInv
  PROVE  OpenInv'
<1>1. CASE UNCHANGED attemptVars
  BY <1>1 DEF attemptVars, OpenInv
<1>2. CASE CreateAppeal
  BY <1>2 DEF CreateAppeal, OpenInv
<1>3. CASE FinishAttempt
  BY <1>3 DEF FinishAttempt, OpenInv
<1>4. ASSUME NEW decision \in {"APPROVED", "REJECTED"}, ReviewAttempt(decision)
      PROVE  OpenInv'
  BY <1>4 DEF ReviewAttempt, OpenInv
<1>5. ASSUME NEW decision \in {"UPHELD", "OVERTURNED"}, ResolveAppeal(decision)
      PROVE  OpenInv'
  BY <1>5 DEF ResolveAppeal, OpenInv, TypeInv, TypeOK
<1> QED BY <1>1, <1>2, <1>3, <1>4, <1>5, ReviewMoves

(* An open appeal gives every session that is still unfinished its whole   *)
(* new window (proctor.service.ts, createAppeal).                          *)
THEOREM AppealsExtend == UploadSpec => []AppealExtendsSessions
<1>1. Init => AppealExtendsSessions /\ OpenInv
  BY DEF Init, AppealExtendsSessions, AppealOpen, OpenInv
<1>2. ASSUME TypeInv, [UploadNext]_vars, OpenInv, AppealExtendsSessions
      PROVE  AppealExtendsSessions'
  <2> SUFFICES ASSUME AppealOpen', NEW u \in Uploads, In(u, {"OPEN", "FINALIZING"})'
               PROVE  upload'[u].expiresAt >= RecordingDeadline'
    BY DEF AppealExtendsSessions
  <2>1. CASE UNCHANGED attemptVars
    <3>1. RecordingDeadline' = RecordingDeadline /\ AppealOpen
      BY <2>1 DEF attemptVars, RecordingDeadline, AppealOpen
    <3>2. ~ CreateAppeal
      BY <3>1 DEF CreateAppeal, AppealOpen
    <3>3. CASE upload'[u] = upload[u]
      BY <1>2, <3>1, <3>3 DEF AppealExtendsSessions, In
    <3>4. CASE Created(u)
      BY <1>2, <3>1, <3>4, DeadlineType DEF Created, TypeInv
    <3>5. CASE \E p \in Putters : RecordedBy(u, p)
      BY <1>2, <3>1, <3>5 DEF RecordedBy, ChunkAdded, KeepsClaim, AppealExtendsSessions, In
    <3>6. CASE Taken(u) \/ Renewed(u) \/ Reopened(u)
      BY <1>2, <3>1, <3>6 DEF Taken, Renewed, Reopened, KeepsChunks, AppealExtendsSessions, In
    <3>7. CASE Registered(u) \/ Aborted(u)
      BY <3>7 DEF Registered, Aborted, In
    <3> QED BY <1>2, <3>2, <3>3, <3>4, <3>5, <3>6, <3>7, RowMoves DEF RowMove, Extended
  <2>2. CASE \/ FinishAttempt
             \/ \E decision \in {"APPROVED", "REJECTED"} : ReviewAttempt(decision)
             \/ \E decision \in {"UPHELD", "OVERTURNED"} : ResolveAppeal(decision)
    <3>1. AppealOpen /\ appeal' = appeal /\ upload' = upload
      BY <1>2, <2>2 DEF FinishAttempt, ReviewAttempt, ResolveAppeal, AppealOpen, OpenInv, TypeInv, TypeOK
    <3> QED BY <1>2, <3>1 DEF AppealExtendsSessions, RecordingDeadline, In
  <2>3. CASE CreateAppeal
    <3>1. RecordingDeadline' = now + Window /\ now + Window \in Nat
      BY <1>2, <2>3, ClockAssumption DEF CreateAppeal, RecordingDeadline, AppealOpen, TypeInv, TypeOK
    <3>2. upload'[u] = IF In(u, {"OPEN", "FINALIZING"}) /\ upload[u].expiresAt < now + Window
                       THEN [upload[u] EXCEPT !.expiresAt = now + Window] ELSE upload[u]
      BY <2>3 DEF CreateAppeal
    <3>3. CASE In(u, {"OPEN", "FINALIZING"})
      <4>1. upload[u] \in UploadRow /\ upload[u].expiresAt \in Nat
        BY <1>2, <3>3, UploadAt DEF In, TypeInv, UploadRow
      <4>2. [upload[u] EXCEPT !.expiresAt = now + Window].expiresAt = now + Window
        BY <4>1 DEF UploadRow
      <4> QED BY <3>1, <3>2, <3>3, <4>1, <4>2
    <3>4. CASE ~ In(u, {"OPEN", "FINALIZING"})
      BY <3>2, <3>4 DEF In
    <3> QED BY <3>3, <3>4
  <2> QED BY <1>2, <2>1, <2>2, <2>3, ReviewMoves
<1> QED BY <1>1, <1>2, OpenGoesOn, TypeStarts, TypeGoesOn, PTL DEF UploadSpec

-----------------------------------------------------------------------------
(* Chunks that were recorded stay recorded *)

(* While a session is unfinished its chunk rows are what was first recorded *)
(* for it; they are complete once it is being finalised.  Afterwards the   *)
(* rows may be cleaned up, so what was recorded speaks for itself.         *)
SavedRow(u) ==
  /\ In(u, {"OPEN", "FINALIZING"}) =>
       /\ DOMAIN saved[u] = DOMAIN upload[u].chunks
       /\ \A i \in DOMAIN upload[u].chunks : saved[u][i] = upload[u].chunks[i].data
  /\ ~ IsUpload(u) => DOMAIN saved[u] = {}
  /\ In(u, {"FINALIZING", "COMPLETE"}) => /\ upload[u].expected \in 1..Chunks
                                         /\ DOMAIN saved[u] = 0..(upload[u].expected - 1)

SavedInv == \A u \in Uploads : SavedRow(u)

LEMMA SavedRows ==
  ASSUME TypeInv, [UploadNext]_vars, NEW u \in Uploads
  PROVE  saved'[u] = saved[u] \/ \E p \in Putters : RecordedBy(u, p)
<1>1. ASSUME NEW p \in Putters, PutNext(p)
      PROVE  saved'[u] = saved[u] \/ RecordedBy(u, p)
  BY <1>1, PutMoves DEF TypeInv
<1> QED BY <1>1, SavedMoves

LEMMA SavedStarts == Init => SavedInv
  BY DEF Init, SavedInv, SavedRow, IsUpload, In, NoUpload

LEMMA SavedGoesOn ==
  ASSUME TypeInv, SavedInv, [UploadNext]_vars
  PROVE  SavedInv'
<1> SUFFICES ASSUME NEW u \in Uploads PROVE SavedRow(u)'
  BY DEF SavedInv
<1>0. SavedRow(u)
  BY DEF SavedInv
<1>1. CASE \E p \in Putters : RecordedBy(u, p)
  <2>1. PICK p \in Putters : put[p] \in PutRow /\ ChunkAdded(u, put[p])
    BY <1>1 DEF RecordedBy
  <2>2. upload[u].state = "OPEN" /\ upload'[u].state = "OPEN"
    BY <2>1 DEF ChunkAdded, MayRecord, AcceptsChunks, KeepsClaim
  <2>3. IsUpload(u)' /\ ~ In(u, {"FINALIZING", "COMPLETE"})'
    BY <2>2, RowsDiffer DEF IsUpload, In
  <2>4. put[p].index \notin DOMAIN upload[u].chunks
    BY <2>1 DEF ChunkAdded, MayRecord
  <2>5. /\ DOMAIN saved'[u] = DOMAIN upload'[u].chunks
        /\ \A i \in DOMAIN upload'[u].chunks : saved'[u][i] = upload'[u].chunks[i].data
    BY <1>0, <2>1, <2>2, <2>4 DEF ChunkAdded, SavedRow, In
  <2> QED BY <2>3, <2>5 DEF SavedRow
<1>2. CASE ~ \E p \in Putters : RecordedBy(u, p)
  <2>1. saved'[u] = saved[u]
    BY <1>2, SavedRows
  <2>2. CASE upload'[u] = upload[u]
    BY <1>0, <2>1, <2>2 DEF SavedRow, IsUpload, In
  <2>3. CASE Created(u)
    BY <1>0, <2>1, <2>3, RowsDiffer DEF SavedRow, IsUpload, In, Created
  <2>4. CASE Taken(u) \/ Renewed(u) \/ Reopened(u) \/ Aborted(u) \/ Registered(u) \/ Extended(u)
    <3>1. /\ In(u, {"OPEN", "FINALIZING"}) /\ upload'[u].chunks = upload[u].chunks
          /\ upload'[u].state # "NONE"
      BY <2>4 DEF Taken, Renewed, Reopened, Aborted, Registered, Extended, MayRegister,
                  In, KeepsChunks, KeepsClaim
    <3>2. IsUpload(u)'
      BY <3>1, RowsDiffer DEF IsUpload
    <3>3. /\ DOMAIN saved[u] = DOMAIN upload[u].chunks
          /\ \A i \in DOMAIN upload[u].chunks : saved[u][i] = upload[u].chunks[i].data
      BY <1>0, <3>1 DEF SavedRow
    <3>4. upload'[u].state \in {"FINALIZING", "COMPLETE"} =>
            /\ upload'[u].expected \in 1..Chunks
            /\ DOMAIN saved'[u] = 0..(upload'[u].expected - 1)
      BY <1>0, <2>1, <2>4, <3>1, <3>3 DEF Taken, Renewed, Reopened, Aborted, Registered, Extended,
           MayRegister, In, HasExactly, SavedRow, KeepsChunks, KeepsClaim
    <3> QED BY <2>1, <3>1, <3>2, <3>3, <3>4 DEF SavedRow, In
  <2> QED BY <1>2, <2>2, <2>3, <2>4, RowMoves DEF RowMove
<1> QED BY <1>1, <1>2

(* Only an open session records anything. *)
LEMMA SavedStays ==
  ASSUME TypeInv, [UploadNext]_vars, NEW u \in Uploads, ~ In(u, {"OPEN"})
  PROVE  saved'[u] = saved[u]
BY SavedRows DEF RecordedBy, ChunkAdded, MayRecord, AcceptsChunks, In

(* What was first recorded at an index is never replaced. *)
LEMMA SavedGrows ==
  ASSUME TypeInv, SavedInv, [UploadNext]_vars, NEW u \in Uploads, NEW i \in DOMAIN saved[u]
  PROVE  i \in DOMAIN saved'[u] /\ saved'[u][i] = saved[u][i]
<1>1. CASE saved'[u] = saved[u]
  BY <1>1
<1>2. ASSUME NEW p \in Putters, RecordedBy(u, p)
      PROVE  i \in DOMAIN saved'[u] /\ saved'[u][i] = saved[u][i]
  <2>1. In(u, {"OPEN", "FINALIZING"}) /\ put[p].index \notin DOMAIN upload[u].chunks
    BY <1>2 DEF RecordedBy, ChunkAdded, MayRecord, AcceptsChunks, In
  <2>2. put[p].index # i
    BY <2>1 DEF SavedInv, SavedRow
  <2> QED BY <1>2, <2>2 DEF RecordedBy, ChunkAdded
<1> QED BY <1>1, <1>2, SavedRows

-----------------------------------------------------------------------------
(* Storage of the chunks *)

(* Keys are drawn once: the object of a request is its own, belongs to no  *)
(* row yet, and once it was put it is there.                               *)
PutObject(p) ==
  put[p] # IdlePut =>
    /\ put[p].object \in spent
    /\ Unreferenced(put[p].object)
    /\ put[p].pc \in {"commit", "late"} => store[put[p].object] = put[p].data
    /\ \A q \in Putters \ {p} : put[q] # IdlePut => put[q].object # put[p].object

RowObjects(u) ==
  IsUpload(u) => \A i \in DOMAIN upload[u].chunks :
    /\ upload[u].chunks[i].object \in spent
    /\ In(u, {"OPEN", "FINALIZING"}) =>
         store[upload[u].chunks[i].object] = upload[u].chunks[i].data

(* No object belongs to two sessions. *)
RowsApart(u, v) ==
  IsUpload(u) /\ IsUpload(v) =>
    \A i \in DOMAIN upload[u].chunks, j \in DOMAIN upload[v].chunks :
      upload[u].chunks[i].object # upload[v].chunks[j].object

ObjectInv == /\ \A p \in Putters : PutObject(p)
             /\ \A u \in Uploads : RowObjects(u)
             /\ \A u, v \in Uploads : u # v => RowsApart(u, v)

(* A step of the putChunk request p touches its own row and object. *)
PutKeeps(p) == /\ put[p] \in PutRow /\ put'[p] \in PutRow
               /\ put'[p].object = put[p].object /\ put'[p].data = put[p].data

PutStep(p) ==
  /\ \A q \in Putters \ {p} : put'[q] = put[q]
  /\ spent \subseteq spent'
  /\ \A o \in Objects : store'[o] = store[o] \/ (put[p] \in PutRow /\ o = put[p].object)
  /\ \/ put'[p] = IdlePut /\ (store' = store \/ put[p].pc = "remove")
     \/ /\ put[p] = IdlePut /\ store' = store
        /\ put'[p].pc = "send" /\ put'[p].object \in spent' \ spent
     \/ PutKeeps(p) /\ put'[p].pc = "commit" /\ store'[put[p].object] = put[p].data
     \/ PutKeeps(p) /\ put'[p].pc = "remove"
     \/ PutKeeps(p) /\ put[p].pc = "commit" /\ store' = store

LEMMA PutPhase ==
  ASSUME TypeOK, NEW p \in Putters, put[p].pc # "idle", NEW pc \in {"commit", "remove", "late"},
         \/ put' = [put EXCEPT ![p].pc = pc]
         \/ put' = [put EXCEPT ![p] = [put[p] EXCEPT !.pc = pc]]
  PROVE  PutKeeps(p) /\ put'[p].pc = pc /\ \A q \in Putters \ {p} : put'[q] = put[q]
<1>1. put[p] \in PutRow
  BY PutAt
<1>2. [put[p] EXCEPT !.pc = pc] \in PutRow
  BY <1>1 DEF PutRow
<1>3. put'[p] = [put[p] EXCEPT !.pc = pc] /\ \A q \in Putters \ {p} : put'[q] = put[q]
  BY DEF TypeOK
<1> QED BY <1>1, <1>2, <1>3 DEF PutKeeps, PutRow

LEMMA PutSteps ==
  ASSUME TypeOK, NEW p \in Putters, PutNext(p)
  PROVE  PutStep(p)
<1>1. ASSUME NEW u \in Uploads, NEW i \in Index, NEW d \in Data, BeginPut(p, u, i, d)
      PROVE  PutStep(p)
  <2>1. PICK o \in Objects \ spent :
          /\ spent' = spent \cup {o}
          /\ put' = [put EXCEPT ![p] = [pc |-> "send", upload |-> u, index |-> i,
                                        data |-> d, object |-> o]]
    BY <1>1 DEF BeginPut
  <2>2. put[p] = IdlePut /\ store' = store
    BY <1>1 DEF BeginPut, storage
  <2>3. put'[p] = [pc |-> "send", upload |-> u, index |-> i, data |-> d, object |-> o]
        /\ \A q \in Putters \ {p} : put'[q] = put[q]
    BY <2>1 DEF TypeOK
  <2>4. put'[p].pc = "send" /\ put'[p].object = o
    BY <2>3
  <2> QED BY <2>1, <2>2, <2>3, <2>4 DEF PutStep
<1>2. CASE StoreChunk(p)
  <2>1. put[p] \in PutRow /\ put[p].object \in Objects
    BY <1>2, PutAt DEF StoreChunk, PutRow
  <2>2. store' = [store EXCEPT ![put[p].object] = put[p].data] /\ spent' = spent
    BY <1>2 DEF StoreChunk
  <2>3. PutKeeps(p) /\ put'[p].pc = "commit" /\ \A q \in Putters \ {p} : put'[q] = put[q]
    BY <1>2, PutPhase DEF StoreChunk
  <2> QED BY <2>1, <2>2, <2>3 DEF PutStep, TypeOK
<1>3. CASE CommitChunk(p) \/ LateChunk(p)
  BY <1>3 DEF CommitChunk, LateChunk, storage, PutStep, TypeOK
<1>4. CASE LoseChunkRace(p) \/ RejectChunk(p)
  <2>1. put[p].pc # "idle" /\ put' = [put EXCEPT ![p].pc = "remove"]
    BY <1>4 DEF LoseChunkRace, RejectChunk
  <2>2. PutKeeps(p) /\ put'[p].pc = "remove" /\ \A q \in Putters \ {p} : put'[q] = put[q]
    BY <2>1, PutPhase
  <2> QED BY <1>4, <2>2 DEF LoseChunkRace, RejectChunk, PutStep, storage
<1>5. CASE RemoveOwnChunk(p)
  <2>1. put[p] \in PutRow /\ put[p].object \in Objects /\ put[p].pc = "remove"
    BY <1>5, PutAt DEF RemoveOwnChunk, PutRow
  <2>2. put'[p] = IdlePut /\ \A q \in Putters \ {p} : put'[q] = put[q]
    BY <1>5 DEF RemoveOwnChunk, TypeOK
  <2>3. \A o \in Objects : store'[o] = store[o] \/ o = put[p].object
    BY <1>5, <2>1 DEF RemoveOwnChunk, TypeOK
  <2> QED BY <1>5, <2>1, <2>2, <2>3 DEF RemoveOwnChunk, PutStep
<1>6. CASE LosePut(p)
  <2>1. store' = store /\ spent' = spent
    BY <1>6 DEF LosePut, storage
  <2>2. CASE put[p].pc = "commit"
    <3>1. PutKeeps(p) /\ \A q \in Putters \ {p} : put'[q] = put[q]
      BY <1>6, <2>2, PutPhase DEF LosePut
    <3> QED BY <2>1, <2>2, <3>1 DEF PutStep
  <2>3. CASE put[p].pc # "commit"
    BY <1>6, <2>1, <2>3 DEF LosePut, PutStep, TypeOK
  <2> QED BY <2>2, <2>3
<1> QED BY <1>1, <1>2, <1>3, <1>4, <1>5, <1>6 DEF PutNext

(* The other steps leave the staged objects and their requests alone. *)
LEMMA PutAlone ==
  ASSUME [UploadNext]_vars
  PROVE  \/ put' = put /\ store' = store /\ spent \subseteq spent'
         \/ \E p \in Putters : PutNext(p)
<1>1. ASSUME NEW f \in Finishers, FinishNext(f)
      PROVE  put' = put /\ store' = store /\ spent \subseteq spent'
  <2>1. ASSUME NEW u \in Uploads, NEW n \in 1..Chunks, NEW flag \in Flags, Claim(f, u, n, flag)
        PROVE  put' = put /\ store' = store /\ spent \subseteq spent'
    BY <2>1 DEF Claim, storage
  <2>2. CASE AssembleChunk(f) \/ Heartbeat(f) \/ RenewBeforeUpload(f) \/ UploadFinal(f)
    BY <2>2 DEF AssembleChunk, Heartbeat, RenewBeforeUpload, UploadFinal, storage, requests
  <2>3. CASE CommitFinal(f) \/ FailFinish(f) \/ RecoverFinish(f) \/ CrashFinish(f)
    BY <2>3 DEF CommitFinal, FailFinish, RecoverFinish, CrashFinish, storage
  <2> QED BY <1>1, <2>1, <2>2, <2>3 DEF FinishNext
<1>2. ASSUME NEW v \in Uploads, SessionNext(v)
      PROVE  put' = put /\ store' = store /\ spent \subseteq spent'
  BY <1>2 DEF SessionNext, CreateUpload, AbortUpload, RepeatChunk, RepeatComplete, storage, requests
<1>3. ASSUME NEW l \in late, LateFinal(l)
      PROVE  put' = put /\ store' = store /\ spent \subseteq spent'
  BY <1>3 DEF LateFinal, storage
<1>4. ASSUME AttemptNext \/ Tick
      PROVE  put' = put /\ store' = store /\ spent \subseteq spent'
  BY <1>4 DEF AttemptNext, Tick, FinishAttempt, ReviewAttempt, CreateAppeal, ResolveAppeal,
              rows, storage, requests
<1>5. CASE UNCHANGED vars
  BY <1>5 DEF vars, storage, requests
<1> QED BY <1>1, <1>2, <1>3, <1>4, <1>5 DEF UploadNext

(* A chunk row is an old one, or that of the request that just recorded it. *)
LEMMA RefMoves ==
  ASSUME TypeInv, [UploadNext]_vars, NEW u \in Uploads, IsUpload(u)',
         NEW i \in DOMAIN upload'[u].chunks
  PROVE  \/ /\ IsUpload(u) /\ i \in DOMAIN upload[u].chunks
            /\ upload'[u].chunks[i] = upload[u].chunks[i]
         \/ \E p \in Putters :
              /\ put[p] \in PutRow /\ put[p].pc \in {"commit", "late"} /\ put'[p] = IdlePut
              /\ put[p].upload = u
              /\ upload'[u].chunks[i].object = put[p].object
              /\ upload'[u].chunks[i].data = put[p].data
<1>1. ASSUME NEW p \in Putters, RecordedBy(u, p)
      PROVE  \/ /\ IsUpload(u) /\ i \in DOMAIN upload[u].chunks
                /\ upload'[u].chunks[i] = upload[u].chunks[i]
             \/ /\ put[p].upload = u
                /\ upload'[u].chunks[i].object = put[p].object
                /\ upload'[u].chunks[i].data = put[p].data
  BY <1>1, RowsDiffer DEF RecordedBy, ChunkAdded, MayRecord, AcceptsChunks, IsUpload
<1>2. CASE upload'[u] = upload[u]
  BY <1>2 DEF IsUpload
<1>3. CASE Created(u)
  BY <1>3 DEF Created
<1>4. CASE Taken(u) \/ Renewed(u) \/ Registered(u) \/ Reopened(u) \/ Aborted(u) \/ Extended(u)
  BY <1>4, RowsDiffer DEF Taken, Renewed, Registered, MayRegister, Reopened, Aborted, Extended,
                          KeepsChunks, In, IsUpload
<1> QED BY <1>1, <1>2, <1>3, <1>4, RowMoves DEF RowMove, RecordedBy

LEMMA ChunkAt ==
  ASSUME TypeOK, NEW u \in Uploads, IsUpload(u), NEW i \in DOMAIN upload[u].chunks
  PROVE  upload[u].chunks[i] \in ChunkRow /\ upload[u].chunks[i].object \in Objects
<1>1. upload[u].chunks \in ChunkRows
  BY UploadAt DEF UploadRow
<1> QED BY <1>1, ChunkRowsElements DEF ChunkRow

(* What a step can do to the requests and their objects. *)
LEMMA PutRowMoves ==
  ASSUME TypeInv, [UploadNext]_vars
  PROVE  /\ spent \subseteq spent'
         /\ \A o \in Objects : store'[o] = store[o]
              \/ \E p \in Putters : put[p] \in PutRow /\ put[p].object = o
         /\ \A p \in Putters : put'[p] # IdlePut =>
              \/ PutKeeps(p)
              \/ /\ put[p] = IdlePut /\ put'[p].pc = "send" /\ put'[p].object \in spent' \ spent
                 /\ \A q \in Putters \ {p} : put'[q] = put[q]
         /\ \A p \in Putters :
              put[p] \in PutRow /\ put[p].pc \in {"commit", "late"} /\ put'[p] = IdlePut
                => store' = store
         /\ \A p \in Putters : PutKeeps(p) /\ put'[p].pc \in {"commit", "late"} =>
              \/ store'[put[p].object] = put[p].data
              \/ /\ put[p].pc \in {"commit", "late"}
                 /\ \/ store'[put[p].object] = store[put[p].object]
                    \/ \E q \in Putters \ {p} :
                         put[q] \in PutRow /\ put[q].object = put[p].object
<1>1. CASE put' = put /\ store' = store /\ spent \subseteq spent'
  <2>1. \A p \in Putters : put[p] # IdlePut => PutKeeps(p)
    BY <1>1, PutAt DEF TypeInv, PutKeeps
  <2>2. \A p \in Putters : put[p] \in PutRow => put[p] # IdlePut
    BY RowsDiffer
  <2> QED BY <1>1, <2>1, <2>2
<1>2. ASSUME NEW p \in Putters, PutStep(p)
      PROVE  /\ spent \subseteq spent'
             /\ \A o \in Objects : store'[o] = store[o]
                  \/ \E q \in Putters : put[q] \in PutRow /\ put[q].object = o
             /\ \A q \in Putters : put'[q] # IdlePut =>
                  \/ PutKeeps(q)
                  \/ /\ put[q] = IdlePut /\ put'[q].pc = "send" /\ put'[q].object \in spent' \ spent
                     /\ \A r \in Putters \ {q} : put'[r] = put[r]
             /\ \A q \in Putters :
                  put[q] \in PutRow /\ put[q].pc \in {"commit", "late"} /\ put'[q] = IdlePut
                    => store' = store
             /\ \A q \in Putters : PutKeeps(q) /\ put'[q].pc \in {"commit", "late"} =>
                  \/ store'[put[q].object] = put[q].data
                  \/ /\ put[q].pc \in {"commit", "late"}
                     /\ \/ store'[put[q].object] = store[put[q].object]
                        \/ \E r \in Putters \ {q} :
                             put[r] \in PutRow /\ put[r].object = put[q].object
  <2>1. \A q \in Putters \ {p} : put'[q] = put[q]
    BY <1>2 DEF PutStep
  <2>2. \A q \in Putters : put[q] \in PutRow => put[q] # IdlePut /\ put[q].object \in Objects
    BY RowsDiffer DEF PutRow
  <2>3. \A q \in Putters \ {p} : put'[q] # IdlePut => PutKeeps(q)
    BY <2>1, PutAt DEF TypeInv, PutKeeps
  <2>4. \A q \in Putters : put'[q] # IdlePut =>
          \/ PutKeeps(q)
          \/ /\ put[q] = IdlePut /\ put'[q].pc = "send" /\ put'[q].object \in spent' \ spent
             /\ \A r \in Putters \ {q} : put'[r] = put[r]
    BY <1>2, <2>3 DEF PutStep
  <2>5. \A q \in Putters :
          put[q] \in PutRow /\ put[q].pc \in {"commit", "late"} /\ put'[q] = IdlePut
            => store' = store
    <3> SUFFICES ASSUME NEW q \in Putters, put[q] \in PutRow, put[q].pc \in {"commit", "late"},
                        put'[q] = IdlePut
                 PROVE  store' = store
      OBVIOUS
    <3>1. q = p
      BY <2>1, <2>2
    <3> QED BY <1>2, <2>2, <3>1, RowsDiffer DEF PutStep, PutKeeps
  <2>6. ASSUME NEW q \in Putters, PutKeeps(q), put'[q].pc \in {"commit", "late"}
        PROVE  \/ store'[put[q].object] = put[q].data
               \/ /\ put[q].pc \in {"commit", "late"}
                  /\ \/ store'[put[q].object] = store[put[q].object]
                     \/ \E r \in Putters \ {q} : put[r] \in PutRow /\ put[r].object = put[q].object
    <3>1. put[q] \in PutRow /\ put'[q] \in PutRow /\ put[q].object \in Objects
      BY <2>2, <2>6 DEF PutKeeps
    <3>2. put[q] # IdlePut /\ put'[q] # IdlePut /\ put'[q].pc \notin {"send", "remove"}
      BY <2>6, <3>1, RowsDiffer
    <3>3. CASE q = p
      BY <1>2, <3>1, <3>2, <3>3 DEF PutStep
    <3>4. CASE q # p
      BY <1>2, <2>1, <2>6, <3>1, <3>4 DEF PutStep
    <3> QED BY <3>3, <3>4
  <2>7. /\ spent \subseteq spent'
        /\ \A o \in Objects : store'[o] = store[o]
             \/ \E q \in Putters : put[q] \in PutRow /\ put[q].object = o
    BY <1>2 DEF PutStep
  <2> QED BY <2>4, <2>5, <2>6, <2>7
<1> QED BY <1>1, <1>2, PutAlone, PutSteps DEF TypeInv

LEMMA ObjectsGoOn ==
  ASSUME TypeInv, ObjectInv, [UploadNext]_vars
  PROVE  ObjectInv'
<1>1. ASSUME NEW u \in Uploads PROVE RowObjects(u)'
  <2> SUFFICES ASSUME IsUpload(u)', NEW i \in DOMAIN upload'[u].chunks
               PROVE  /\ upload'[u].chunks[i].object \in spent'
                      /\ In(u, {"OPEN", "FINALIZING"})' =>
                           store'[upload'[u].chunks[i].object] = upload'[u].chunks[i].data
    BY DEF RowObjects
  <2>1. CASE /\ IsUpload(u) /\ i \in DOMAIN upload[u].chunks
             /\ upload'[u].chunks[i] = upload[u].chunks[i]
    <3> DEFINE o == upload[u].chunks[i].object
    <3>1. /\ o \in Objects /\ o \in spent
          /\ In(u, {"OPEN", "FINALIZING"}) => store[o] = upload[u].chunks[i].data
      BY <2>1, ChunkAt DEF TypeInv, ObjectInv, RowObjects
    <3>2. \A p \in Putters : put[p] \in PutRow => put[p].object # o
      BY <2>1, RowsDiffer DEF ObjectInv, PutObject, Unreferenced
    <3>3. store'[o] = store[o] /\ o \in spent'
      BY <3>1, <3>2, PutRowMoves
    <3>4. In(u, {"OPEN", "FINALIZING"})' => In(u, {"OPEN", "FINALIZING"})
      <4>1. In(u, {"OPEN", "FINALIZING", "COMPLETE", "ABORTED"})
        BY <2>1, UploadAt DEF TypeInv, In, UploadRow
      <4> QED BY <4>1, ClosedStays DEF In
    <3> QED BY <2>1, <3>1, <3>3, <3>4
  <2>2. ASSUME NEW p \in Putters,
               put[p] \in PutRow, put[p].pc \in {"commit", "late"}, put'[p] = IdlePut,
               upload'[u].chunks[i].object = put[p].object,
               upload'[u].chunks[i].data = put[p].data
        PROVE  /\ upload'[u].chunks[i].object \in spent'
               /\ store'[upload'[u].chunks[i].object] = upload'[u].chunks[i].data
    <3>1. store' = store /\ spent \subseteq spent'
      BY <2>2, PutRowMoves
    <3>2. store[put[p].object] = put[p].data /\ put[p].object \in spent
      BY <2>2, RowsDiffer DEF ObjectInv, PutObject
    <3> QED BY <2>2, <3>1, <3>2
  <2> QED BY <2>1, <2>2, RefMoves
<1>2. ASSUME NEW p \in Putters PROVE PutObject(p)'
  <2> DEFINE o == put'[p].object
  <2> SUFFICES ASSUME put'[p] # IdlePut
               PROVE  /\ o \in spent'
                      /\ \A u \in Uploads : IsUpload(u)' =>
                           \A i \in DOMAIN upload'[u].chunks : upload'[u].chunks[i].object # o
                      /\ put'[p].pc \in {"commit", "late"} => store'[o] = put'[p].data
                      /\ \A q \in Putters \ {p} : put'[q] # IdlePut => put'[q].object # o
    BY DEF PutObject, Unreferenced
  <2>1. CASE PutKeeps(p)
    <3>1. /\ put[p] \in PutRow /\ put[p] # IdlePut /\ o = put[p].object
          /\ put'[p].data = put[p].data
      BY <2>1, RowsDiffer DEF PutKeeps
    <3>2. /\ o \in spent /\ Unreferenced(o)
          /\ put[p].pc \in {"commit", "late"} => store[o] = put[p].data
          /\ \A q \in Putters \ {p} : put[q] # IdlePut => put[q].object # o
      BY <3>1 DEF ObjectInv, PutObject
    <3> HIDE DEF o
    <3>3. ASSUME NEW u \in Uploads, IsUpload(u)', NEW i \in DOMAIN upload'[u].chunks
          PROVE  upload'[u].chunks[i].object # o
      BY <2>1, <3>2, <3>3, RefMoves, RowsDiffer DEF Unreferenced, PutKeeps
    <3>4. ASSUME NEW q \in Putters \ {p}, put'[q] # IdlePut
          PROVE  put'[q].object # o
      <4>1. CASE PutKeeps(q)
        BY <3>2, <4>1, RowsDiffer DEF PutKeeps
      <4>2. CASE put'[q].object \in spent' \ spent
        BY <3>2, <4>2
      <4> QED BY <3>4, <4>1, <4>2, PutRowMoves
    <3>5. ASSUME put'[p].pc \in {"commit", "late"}
          PROVE  store'[o] = put'[p].data
      <4>1. ~ \E q \in Putters \ {p} : put[q] \in PutRow /\ put[q].object = put[p].object
        BY <3>1, <3>2, RowsDiffer
      <4> QED BY <2>1, <3>1, <3>2, <3>5, <4>1, PutRowMoves
    <3>6. o \in spent'
      BY <3>2, PutRowMoves
    <3> QED BY <3>3, <3>4, <3>5, <3>6
  <2>2. CASE /\ put[p] = IdlePut /\ put'[p].pc = "send" /\ o \in spent' \ spent
             /\ \A q \in Putters \ {p} : put'[q] = put[q]
    <3> HIDE DEF o
    <3>1. ASSUME NEW u \in Uploads, IsUpload(u)', NEW i \in DOMAIN upload'[u].chunks
          PROVE  upload'[u].chunks[i].object # o
      BY <2>2, <3>1, RefMoves, RowsDiffer DEF ObjectInv, RowObjects, PutObject
    <3>2. ASSUME NEW q \in Putters \ {p}, put'[q] # IdlePut
          PROVE  put'[q].object # o
      BY <2>2, <3>2 DEF ObjectInv, PutObject
    <3> QED BY <2>2, <3>1, <3>2
  <2> QED BY <2>1, <2>2, PutRowMoves
<1>3. ASSUME NEW u \in Uploads, NEW v \in Uploads, u # v PROVE RowsApart(u, v)'
  <2> SUFFICES ASSUME IsUpload(u)', IsUpload(v)',
                      NEW i \in DOMAIN upload'[u].chunks, NEW j \in DOMAIN upload'[v].chunks
               PROVE  upload'[u].chunks[i].object # upload'[v].chunks[j].object
    BY DEF RowsApart
  <2> DEFINE Old(w, n) == /\ IsUpload(w) /\ n \in DOMAIN upload[w].chunks
                          /\ upload'[w].chunks[n] = upload[w].chunks[n]
             New(w, n) == \E p \in Putters :
                /\ put[p] # IdlePut /\ put[p].upload = w
                /\ upload'[w].chunks[n].object = put[p].object
  <2>1. (Old(u, i) \/ New(u, i)) /\ (Old(v, j) \/ New(v, j))
    BY RefMoves, RowsDiffer
  <2>2. CASE Old(u, i) /\ Old(v, j)
    BY <1>3, <2>2 DEF ObjectInv, RowsApart
  <2>3. CASE Old(u, i) /\ New(v, j)
    BY <2>3 DEF ObjectInv, PutObject, Unreferenced
  <2>4. CASE New(u, i) /\ Old(v, j)
    BY <2>4 DEF ObjectInv, PutObject, Unreferenced
  <2>5. CASE New(u, i) /\ New(v, j)
    BY <1>3, <2>5 DEF ObjectInv, PutObject
  <2> QED BY <2>1, <2>2, <2>3, <2>4, <2>5
<1> QED BY <1>1, <1>2, <1>3 DEF ObjectInv

(* No request removes an object some chunk row refers to, also when the    *)
(* outcome of the transaction that wrote the row was unknown to it.        *)
THEOREM ChunksStored == UploadSpec => []ReferencedChunksStored
<1>1. Init => ObjectInv
  BY DEF Init, ObjectInv, PutObject, RowObjects, RowsApart, IsUpload
<1>2. TypeInv /\ ObjectInv => ReferencedChunksStored
  BY UploadAt DEF TypeInv, ObjectInv, RowObjects, ReferencedChunksStored, In
<1> QED BY <1>1, <1>2, ObjectsGoOn, TypeStarts, TypeGoesOn, PTL DEF UploadSpec

-----------------------------------------------------------------------------
(* Finalisation *)

Busy(f) == fin[f].pc \in {"assemble", "upload"}   \* the result is not uploaded yet

FinKeeps(f) ==
  /\ fin[f] \in FinRow /\ fin'[f] \in FinRow
  /\ fin'[f].upload = fin[f].upload /\ fin'[f].expected = fin[f].expected
  /\ fin'[f].interrupted = fin[f].interrupted
  /\ fin'[f].token = fin[f].token /\ fin'[f].chunks = fin[f].chunks

(* The row of the session agrees with what the request knows of it. *)
Agrees(r, row) == /\ row.expected = r.expected /\ row.interrupted = r.interrupted
                  /\ row.chunks = r.chunks

ClaimedBy(f) ==
  /\ fin[f] = IdleFin /\ fin'[f] \in FinRow /\ fin'[f].pc = "assemble"
  /\ fin'[f].token \in spent' \ spent
  /\ upload'[fin'[f].upload].token = fin'[f].token
  /\ Agrees(fin'[f], upload'[fin'[f].upload])
  /\ final' = final /\ late' = late

FinStep(f) ==
  /\ \A g \in Finishers \ {f} : fin'[g] = fin[g]
  /\ spent \subseteq spent'
  /\ \/ fin'[f] = IdleFin /\ final' = final /\ late' = late
     \/ fin'[f] = fin[f] /\ final' = final /\ late' = late
     \/ ClaimedBy(f)
     \/ FinKeeps(f) /\ fin[f].pc = "assemble" /\ fin'[f].pc \in {"assemble", "upload"}
          /\ final' = final /\ late' = late
     \/ /\ FinKeeps(f) /\ fin[f].pc = "upload" /\ fin'[f].pc = "commit"
        /\ fin'[f].content = fin[f].content /\ late' = late
        /\ final' = [final EXCEPT ![fin[f].token] = fin[f].content]
     \/ /\ FinKeeps(f) /\ fin'[f].pc = "failed" /\ final' = final
        /\ late' = late \/ /\ fin[f].pc = "commit"
                           /\ late' = late \cup {[upload |-> fin[f].upload,
                                                  token |-> fin[f].token]}

LEMMA FinPhase ==
  ASSUME TypeOK, NEW f \in Finishers, fin[f].pc # "idle",
         NEW pc \in {"assemble", "upload", "commit", "failed"}, fin' = [fin EXCEPT ![f].pc = pc]
  PROVE  /\ FinKeeps(f) /\ fin'[f].pc = pc /\ fin'[f].content = fin[f].content
         /\ \A g \in Finishers \ {f} : fin'[g] = fin[g]
<1>1. fin[f] \in FinRow
  BY FinAt
<1>2. [fin[f] EXCEPT !.pc = pc] \in FinRow
  BY <1>1 DEF FinRow
<1>3. fin'[f] = [fin[f] EXCEPT !.pc = pc] /\ \A g \in Finishers \ {f} : fin'[g] = fin[g]
  BY DEF TypeOK
<1>4. /\ fin'[f].pc = pc /\ fin'[f].content = fin[f].content
      /\ fin'[f].upload = fin[f].upload /\ fin'[f].expected = fin[f].expected
      /\ fin'[f].interrupted = fin[f].interrupted
      /\ fin'[f].token = fin[f].token /\ fin'[f].chunks = fin[f].chunks
  BY <1>1, <1>3 DEF FinRow
<1> QED BY <1>1, <1>2, <1>3, <1>4 DEF FinKeeps

LEMMA ClaimSteps ==
  ASSUME TypeInv, NEW f \in Finishers, NEW u \in Uploads, NEW n \in 1..Chunks,
         NEW flag \in Flags, Claim(f, u, n, flag)
  PROVE  FinStep(f)
<1>1. PICK k \in Tokens \ spent :
        /\ spent' = spent \cup {k}
        /\ upload' = [upload EXCEPT ![u].state = "FINALIZING", ![u].expected = n,
                                    ![u].interrupted = flag, ![u].token = k,
                                    ![u].lease = now + Lease]
        /\ fin' = [fin EXCEPT ![f] =
             [pc |-> "assemble", upload |-> u, expected |-> n,
              interrupted |-> flag, token |-> k,
              chunks |-> upload[u].chunks, content |-> <<>>]]
  BY DEF Claim
<1>2. upload[u] \in UploadRow
  BY UploadAt DEF TypeInv, Claim, In
<1>3. /\ fin'[f].pc = "assemble" /\ fin'[f].upload = u /\ fin'[f].expected = n
      /\ fin'[f].interrupted = flag /\ fin'[f].token = k /\ fin'[f].chunks = upload[u].chunks
      /\ \A g \in Finishers \ {f} : fin'[g] = fin[g]
  BY <1>1 DEF TypeInv, TypeOK
<1>4. /\ upload'[u].expected = n /\ upload'[u].interrupted = flag
      /\ upload'[u].token = k /\ upload'[u].chunks = upload[u].chunks
  BY <1>1, <1>2 DEF TypeInv, TypeOK, UploadRow
<1>5. Agrees(fin'[f], upload'[fin'[f].upload])
  BY <1>3, <1>4 DEF Agrees
<1>6. fin' \in [Finishers -> FinRow \cup {IdleFin}]
  BY Claimed DEF TypeInv, TypeOK
<1>7. fin'[f] \in FinRow
  BY <1>3, <1>6 DEF IdleFin
<1>8. fin[f] = IdleFin /\ final' = final /\ late' = late
  BY DEF Claim, storage
<1>9. spent \subseteq spent' /\ k \in spent' \ spent
  BY <1>1
<1>10. ClaimedBy(f)
  BY <1>3, <1>4, <1>5, <1>7, <1>8, <1>9 DEF ClaimedBy
<1> QED BY <1>3, <1>9, <1>10 DEF FinStep

LEMMA FinSteps ==
  ASSUME TypeInv, NEW f \in Finishers, FinishNext(f)
  PROVE  FinStep(f)
<1> USE DEF TypeInv
<1>1. ASSUME NEW u \in Uploads, NEW n \in 1..Chunks, NEW flag \in Flags, Claim(f, u, n, flag)
      PROVE  FinStep(f)
  BY <1>1, ClaimSteps
<1>2. CASE AssembleChunk(f)
  <2> DEFINE i == Len(fin[f].content)
             r == [fin[f] EXCEPT !.content = Append(fin[f].content, fin[f].chunks[i].data)]
             same == store[fin[f].chunks[i].object] = fin[f].chunks[i].data
  <2>1. fin' = [fin EXCEPT ![f] = IF same THEN r ELSE [fin[f] EXCEPT !.pc = "failed"]]
    BY <1>2 DEF AssembleChunk
  <2>2. /\ spent' = spent /\ final' = final /\ late' = late /\ fin[f].pc = "assemble"
        /\ fin[f] \in FinRow
    BY <1>2, FinAt DEF AssembleChunk, storage
  <2>3. CASE same
    <3>1. fin'[f] = r /\ \A g \in Finishers \ {f} : fin'[g] = fin[g]
      BY <2>1, <2>3 DEF TypeOK
    <3>2. /\ r.pc = "assemble" /\ r.upload = fin[f].upload /\ r.expected = fin[f].expected
          /\ r.interrupted = fin[f].interrupted /\ r.token = fin[f].token
          /\ r.chunks = fin[f].chunks
      BY <2>2 DEF FinRow
    <3> HIDE DEF r
    <3>3. fin'[f] \in FinRow
      <4>1. fin' \in [Finishers -> FinRow \cup {IdleFin}]
        BY <1>2, Assembled DEF TypeOK
      <4> QED BY <3>1, <3>2, <4>1, RowsDiffer
    <3>4. FinKeeps(f) /\ fin'[f].pc = "assemble"
      BY <2>2, <3>1, <3>2, <3>3 DEF FinKeeps
    <3> QED BY <2>2, <3>1, <3>4 DEF FinStep
  <2>4. CASE ~ same
    <3>1. fin' = [fin EXCEPT ![f].pc = "failed"]
      BY <2>1, <2>4
    <3>2. /\ FinKeeps(f) /\ fin'[f].pc = "failed" /\ \A g \in Finishers \ {f} : fin'[g] = fin[g]
      BY <2>2, <3>1, FinPhase
    <3> QED BY <2>2, <3>2 DEF FinStep
  <2> QED BY <2>3, <2>4
<1>3. CASE Heartbeat(f)
  <2>1. fin' = fin /\ final' = final /\ late' = late /\ spent' = spent
    BY <1>3 DEF Heartbeat, requests, storage
  <2> QED BY <2>1 DEF FinStep
<1>4. CASE RenewBeforeUpload(f)
  <2>1. /\ spent' = spent /\ final' = final /\ late' = late /\ fin[f].pc = "assemble"
    BY <1>4 DEF RenewBeforeUpload, storage
  <2>2. PICK pc \in {"upload", "failed"} : fin' = [fin EXCEPT ![f].pc = pc]
    BY <1>4 DEF RenewBeforeUpload
  <2>3. FinKeeps(f) /\ fin'[f].pc = pc /\ \A g \in Finishers \ {f} : fin'[g] = fin[g]
    BY <2>1, <2>2, FinPhase
  <2> QED BY <2>1, <2>3 DEF FinStep
<1>5. CASE UploadFinal(f)
  <2>1. /\ spent' = spent /\ late' = late /\ fin[f].pc = "upload"
        /\ final' = [final EXCEPT ![fin[f].token] = fin[f].content]
    BY <1>5 DEF UploadFinal
  <2>2. /\ FinKeeps(f) /\ fin'[f].pc = "commit" /\ fin'[f].content = fin[f].content
        /\ \A g \in Finishers \ {f} : fin'[g] = fin[g]
    BY <1>5, FinPhase DEF UploadFinal
  <2> QED BY <2>1, <2>2 DEF FinStep
<1>6. CASE CommitFinal(f)
  <2>1. /\ spent' = spent /\ final' = final /\ late' = late /\ fin[f].pc = "commit"
    BY <1>6 DEF CommitFinal, storage
  <2>2. CASE fin' = [fin EXCEPT ![f] = IdleFin]
    BY <2>1, <2>2 DEF FinStep, TypeOK
  <2>3. CASE fin' = [fin EXCEPT ![f].pc = "failed"]
    <3>1. FinKeeps(f) /\ fin'[f].pc = "failed" /\ \A g \in Finishers \ {f} : fin'[g] = fin[g]
      BY <2>1, <2>3, FinPhase
    <3> QED BY <2>1, <3>1 DEF FinStep
  <2> QED BY <1>6, <2>2, <2>3 DEF CommitFinal
<1>7. CASE FailFinish(f)
  <2>1. /\ spent' = spent /\ final' = final
        /\ fin[f].pc \in {"assemble", "upload", "commit"}
        /\ fin' = [fin EXCEPT ![f].pc = "failed"]
        /\ late' = IF fin[f].pc = "commit"
                   THEN late \cup {[upload |-> fin[f].upload, token |-> fin[f].token]}
                   ELSE late
    BY <1>7 DEF FailFinish, storage
  <2>2. FinKeeps(f) /\ fin'[f].pc = "failed" /\ \A g \in Finishers \ {f} : fin'[g] = fin[g]
    BY <2>1, FinPhase
  <2> QED BY <2>1, <2>2 DEF FinStep
<1>8. CASE RecoverFinish(f)
  <2>1. /\ fin' = [fin EXCEPT ![f] = IdleFin]
        /\ final' = final /\ late' = late /\ spent' = spent
    BY <1>8 DEF RecoverFinish, storage
  <2> QED BY <2>1 DEF FinStep, TypeOK
<1>9. CASE CrashFinish(f)
  BY <1>9 DEF CrashFinish, FinStep, TypeOK, storage
<1> QED BY <1>1, <1>2, <1>3, <1>4, <1>5, <1>6, <1>7, <1>8, <1>9 DEF FinishNext

(* The other steps leave the finalisations and their results alone. *)
LEMMA FinElsewhere ==
  ASSUME [UploadNext]_vars
  PROVE  \/ fin' = fin /\ final' = final /\ late' \subseteq late /\ spent \subseteq spent'
         \/ \E f \in Finishers : FinishNext(f)
<1>1. ASSUME NEW p \in Putters, PutNext(p)
      PROVE  fin' = fin /\ final' = final /\ late' \subseteq late /\ spent \subseteq spent'
  <2>1. ASSUME NEW u \in Uploads, NEW i \in Index, NEW d \in Data, BeginPut(p, u, i, d)
        PROVE  fin' = fin /\ final' = final /\ late' \subseteq late /\ spent \subseteq spent'
    BY <2>1 DEF BeginPut, storage
  <2>2. CASE StoreChunk(p) \/ CommitChunk(p) \/ LoseChunkRace(p) \/ RejectChunk(p)
    BY <2>2 DEF StoreChunk, CommitChunk, LoseChunkRace, RejectChunk, storage
  <2>3. CASE RemoveOwnChunk(p) \/ LosePut(p) \/ LateChunk(p)
    BY <2>3 DEF RemoveOwnChunk, LosePut, LateChunk, storage
  <2> QED BY <1>1, <2>1, <2>2, <2>3 DEF PutNext
<1>2. ASSUME NEW v \in Uploads, SessionNext(v)
      PROVE  fin' = fin /\ final' = final /\ late' \subseteq late /\ spent \subseteq spent'
  BY <1>2 DEF SessionNext, CreateUpload, AbortUpload, RepeatChunk, RepeatComplete, storage, requests
<1>3. ASSUME NEW l \in late, LateFinal(l)
      PROVE  fin' = fin /\ final' = final /\ late' \subseteq late /\ spent \subseteq spent'
  BY <1>3 DEF LateFinal, storage
<1>4. ASSUME AttemptNext \/ Tick
      PROVE  fin' = fin /\ final' = final /\ late' \subseteq late /\ spent \subseteq spent'
  BY <1>4 DEF AttemptNext, Tick, FinishAttempt, ReviewAttempt, CreateAppeal, ResolveAppeal,
              rows, storage, requests
<1>5. CASE UNCHANGED vars
  BY <1>5 DEF vars, storage, requests
<1> QED BY <1>1, <1>2, <1>3, <1>4, <1>5 DEF UploadNext

(* What a step can do to the finalisations and their results. *)
LEMMA FinRowMoves ==
  ASSUME TypeInv, [UploadNext]_vars
  PROVE  /\ spent \subseteq spent'
         /\ \A f \in Finishers : fin'[f] # IdleFin =>
              \/ FinKeeps(f)
              \/ ClaimedBy(f) /\ \A g \in Finishers \ {f} : fin'[g] = fin[g]
         /\ \A f \in Finishers : FinKeeps(f) =>
              /\ fin'[f].pc \in {"assemble", "upload"} => Busy(f)
              /\ fin'[f].pc = "commit" =>
                   \/ fin'[f] = fin[f]
                   \/ /\ fin'[f].content = fin[f].content
                      /\ final'[fin[f].token] = fin[f].content
         /\ \A k \in Tokens : final'[k] = final[k]
              \/ \E f \in Finishers : /\ fin[f].pc = "upload" /\ fin[f].token = k
                                      /\ fin'[f] # fin[f]
         /\ \A l \in late' : l \in late
              \/ \E f \in Finishers : /\ fin[f].pc = "commit" /\ FinKeeps(f) /\ fin'[f].pc = "failed"
                                      /\ l.upload = fin[f].upload /\ l.token = fin[f].token
<1>1. ASSUME fin' = fin, final' = final, late' \subseteq late, spent \subseteq spent',
             NEW f \in Finishers
      PROVE  /\ fin'[f] # IdleFin => FinKeeps(f)
             /\ fin'[f].pc \in {"assemble", "upload"} => Busy(f)
  BY <1>1, FinAt DEF TypeInv, FinKeeps, Busy
<1>2. ASSUME NEW f \in Finishers, FinStep(f)
      PROVE  /\ spent \subseteq spent'
             /\ \A h \in Finishers : fin'[h] # IdleFin =>
                  \/ FinKeeps(h)
                  \/ ClaimedBy(h) /\ \A g \in Finishers \ {h} : fin'[g] = fin[g]
             /\ \A h \in Finishers : FinKeeps(h) =>
                  /\ fin'[h].pc \in {"assemble", "upload"} => Busy(h)
                  /\ fin'[h].pc = "commit" =>
                       \/ fin'[h] = fin[h]
                       \/ /\ fin'[h].content = fin[h].content
                          /\ final'[fin[h].token] = fin[h].content
             /\ \A k \in Tokens : final'[k] = final[k]
                  \/ \E h \in Finishers : /\ fin[h].pc = "upload" /\ fin[h].token = k
                                          /\ fin'[h] # fin[h]
             /\ \A l \in late' : l \in late
                  \/ \E h \in Finishers : /\ fin[h].pc = "commit" /\ FinKeeps(h)
                                          /\ fin'[h].pc = "failed"
                                          /\ l.upload = fin[h].upload /\ l.token = fin[h].token
  <2>1. \A h \in Finishers \ {f} : fin'[h] = fin[h]
    BY <1>2 DEF FinStep
  <2>2. \A h \in Finishers : fin'[h] = fin[h] /\ fin[h] # IdleFin => FinKeeps(h)
    BY FinAt DEF TypeInv, FinKeeps
  <2>3. \A h \in Finishers : fin'[h] # IdleFin =>
          FinKeeps(h) \/ (ClaimedBy(h) /\ \A g \in Finishers \ {h} : fin'[g] = fin[g])
    BY <1>2, <2>1, <2>2 DEF FinStep
  <2>4. ASSUME NEW h \in Finishers, FinKeeps(h)
        PROVE  /\ fin'[h].pc \in {"assemble", "upload"} => Busy(h)
               /\ fin'[h].pc = "commit" =>
                    \/ fin'[h] = fin[h]
                    \/ /\ fin'[h].content = fin[h].content
                       /\ final'[fin[h].token] = fin[h].content
    <3>1. CASE h # f
      BY <2>1, <3>1 DEF Busy
    <3>2. CASE h = f
      <4>1. fin[f] \in FinRow /\ fin'[f] # IdleFin /\ fin[f] # IdleFin /\ fin[f].token \in Tokens
        BY <2>4, <3>2, RowsDiffer DEF FinKeeps, FinRow
      <4> QED BY <1>2, <3>2, <4>1 DEF FinStep, Busy, ClaimedBy, TypeInv, TypeOK
    <3> QED BY <3>1, <3>2
  <2>5. ASSUME NEW k \in Tokens, final'[k] # final[k]
        PROVE  fin[f].pc = "upload" /\ fin[f].token = k /\ fin'[f] # fin[f]
    <3>1. /\ fin[f].pc = "upload" /\ fin'[f].pc = "commit"
          /\ final' = [final EXCEPT ![fin[f].token] = fin[f].content]
      BY <1>2, <2>5 DEF FinStep, ClaimedBy
    <3> QED BY <2>5, <3>1 DEF TypeInv, TypeOK
  <2>6. ASSUME NEW l \in late', l \notin late
        PROVE  /\ fin[f].pc = "commit" /\ FinKeeps(f) /\ fin'[f].pc = "failed"
               /\ l.upload = fin[f].upload /\ l.token = fin[f].token
    <3>1. /\ fin[f].pc = "commit" /\ FinKeeps(f) /\ fin'[f].pc = "failed"
          /\ late' = late \cup {[upload |-> fin[f].upload, token |-> fin[f].token]}
      BY <1>2, <2>6 DEF FinStep, ClaimedBy
    <3> QED BY <2>6, <3>1
  <2>7. spent \subseteq spent'
    BY <1>2 DEF FinStep
  <2> QED BY <2>3, <2>4, <2>5, <2>6, <2>7
<1>3. CASE fin' = fin /\ final' = final /\ late' \subseteq late /\ spent \subseteq spent'
  BY <1>1, <1>3
<1>4. ASSUME NEW f \in Finishers, FinishNext(f) PROVE FinStep(f)
  BY <1>4, FinSteps
<1> QED BY <1>2, <1>3, <1>4, FinElsewhere

(* A session claimed with a token that was drawn before was claimed before, *)
(* and nothing a finaliser knows of it has changed.                        *)
LEMMA LeaseMoves ==
  ASSUME TypeInv, [UploadNext]_vars, NEW u \in Uploads,
         upload'[u].state = "FINALIZING", upload'[u].token \in spent
  PROVE  /\ upload[u].state = "FINALIZING" /\ upload'[u].token = upload[u].token
         /\ upload'[u].expected = upload[u].expected
         /\ upload'[u].interrupted = upload[u].interrupted
         /\ upload'[u].chunks = upload[u].chunks
BY RowMoves DEF RowMove, Created, RecordedBy, ChunkAdded, MayRecord, AcceptsChunks, Taken, Renewed,
   Registered, Reopened, Aborted, Extended, KeepsChunks, KeepsClaim

(* The final object of token k lists the chunks of session u. *)
Listing(u, k) ==
  /\ Len(final[k]) = upload[u].expected
  /\ \A j \in 1..Len(final[k]) : final[k][j] = upload[u].chunks[j - 1].data

(* It is what was first recorded for it. *)
Recording(u, k) ==
  /\ Len(final[k]) = upload[u].expected
  /\ \A j \in 1..Len(final[k]) : final[k][j] = saved[u][j - 1]

FinClaim(f) ==
  fin[f] # IdleFin =>
    /\ fin[f].token \in spent
    /\ \A g \in Finishers \ {f} : fin[g] # IdleFin => fin[g].token # fin[f].token
    /\ HoldsLease(f) => Agrees(fin[f], upload[fin[f].upload])
    /\ fin[f].pc = "commit" /\ HoldsLease(f) => final[fin[f].token] = fin[f].content

LateClaim(l) ==
  /\ l.token \in spent
  /\ \A f \in Finishers : Busy(f) => fin[f].token # l.token
  /\ upload[l.upload].state = "FINALIZING" /\ upload[l.upload].token = l.token =>
       Listing(l.upload, l.token)

DoneClaim(u) ==
  upload[u].state = "COMPLETE" =>
    /\ upload[u].evidence \in spent \cap Tokens
    /\ [upload |-> u, token |-> upload[u].evidence] \in evidence
    /\ \A f \in Finishers : Busy(f) => fin[f].token # upload[u].evidence
    /\ Recording(u, upload[u].evidence)

ClaimInv == /\ \A f \in Finishers : FinClaim(f)
            /\ \A l \in late : LateClaim(l)
            /\ \A u \in Uploads : DoneClaim(u)

FinalInv == TypeInv /\ SavedInv /\ ClaimInv

LEMMA BusyRows ==
  ASSUME TypeInv, NEW f \in Finishers
  PROVE  Busy(f) => fin[f] \in FinRow /\ fin[f] # IdleFin
BY FinAt, RowsDiffer DEF TypeInv, Busy

(* A request that has just uploaded or assembled owns its token. *)
LEMMA BusyMoves ==
  ASSUME TypeInv, [UploadNext]_vars, NEW f \in Finishers, Busy(f)'
  PROVE  \/ Busy(f) /\ FinKeeps(f)
         \/ ClaimedBy(f) /\ fin'[f].token \notin spent
<1>1. fin'[f] # IdleFin
  BY RowsDiffer DEF Busy
<1> QED BY <1>1, FinRowMoves DEF Busy, ClaimedBy

LEMMA FinClaimGoesOn ==
  ASSUME FinalInv, [UploadNext]_vars, NEW f \in Finishers
  PROVE  FinClaim(f)'
<1> USE DEF FinalInv
<1>0. TypeInv'
  BY TypeGoesOn
<1> SUFFICES ASSUME fin'[f] # IdleFin
             PROVE  /\ fin'[f].token \in spent'
                    /\ \A g \in Finishers \ {f} : fin'[g] # IdleFin => fin'[g].token # fin'[f].token
                    /\ HoldsLease(f)' => Agrees(fin'[f], upload'[fin'[f].upload])
                    /\ fin'[f].pc = "commit" /\ HoldsLease(f)' =>
                         final'[fin'[f].token] = fin'[f].content
  BY DEF FinClaim, Agrees
<1>1. CASE FinKeeps(f)
  <2>1. /\ fin[f] \in FinRow /\ fin[f] # IdleFin /\ fin'[f].token = fin[f].token
        /\ fin'[f].upload = fin[f].upload
        /\ fin[f].upload \in Uploads /\ fin[f].token \in Tokens
    BY <1>1, RowsDiffer DEF FinKeeps, FinRow
  <2>2. FinClaim(f)
    BY DEF ClaimInv
  <2>3. fin[f].token \in spent
    BY <2>1, <2>2 DEF FinClaim
  <2>4. ASSUME NEW g \in Finishers \ {f}, fin'[g] # IdleFin
        PROVE  fin'[g].token # fin[f].token
    <3>1. CASE FinKeeps(g)
      <4>1. fin[g] # IdleFin /\ fin'[g].token = fin[g].token
        BY <3>1, RowsDiffer DEF FinKeeps
      <4> QED BY <2>1, <2>2, <4>1 DEF FinClaim
    <3>2. CASE ClaimedBy(g)
      BY <2>3, <3>2 DEF ClaimedBy
    <3> QED BY <2>4, <3>1, <3>2, FinRowMoves
  <2>5. ASSUME HoldsLease(f)'
        PROVE  Agrees(fin'[f], upload'[fin'[f].upload])
    <3> DEFINE u == fin[f].upload
    <3>1. upload'[u].state = "FINALIZING" /\ upload'[u].token \in spent
      BY <2>1, <2>3, <2>5 DEF HoldsLease
    <3>2. /\ upload[u].state = "FINALIZING" /\ upload'[u].token = upload[u].token
          /\ upload'[u].expected = upload[u].expected
          /\ upload'[u].interrupted = upload[u].interrupted
          /\ upload'[u].chunks = upload[u].chunks
      BY <2>1, <3>1, LeaseMoves
    <3>3. HoldsLease(f)
      BY <2>1, <2>5, <3>2 DEF HoldsLease
    <3>4. Agrees(fin[f], upload[u])
      BY <2>1, <2>2, <3>3 DEF FinClaim
    <3> QED BY <1>1, <3>2, <3>4 DEF Agrees, FinKeeps
  <2>6. ASSUME fin'[f].pc = "commit", HoldsLease(f)'
        PROVE  final'[fin'[f].token] = fin'[f].content
    <3>1. CASE fin'[f] = fin[f]
      <4>0. HoldsLease(f)
        BY <2>1, <2>3, <2>6, LeaseMoves DEF HoldsLease
      <4>1. final[fin[f].token] = fin[f].content
        BY <2>1, <2>2, <2>6, <3>1, <4>0 DEF FinClaim
      <4>2. ~ \E g \in Finishers : fin[g].pc = "upload" /\ fin[g].token = fin[f].token
        BY <2>1, <2>2, <2>6, <3>1, RowsDiffer DEF FinClaim
      <4> QED BY <2>1, <3>1, <4>1, <4>2, FinRowMoves
    <3>2. CASE fin'[f] # fin[f]
      BY <1>1, <2>1, <2>6, <3>2, FinRowMoves
    <3> QED BY <3>1, <3>2
  <2> QED BY <2>1, <2>3, <2>4, <2>5, <2>6, FinRowMoves
<1>2. CASE ClaimedBy(f) /\ \A g \in Finishers \ {f} : fin'[g] = fin[g]
  <2>1. fin'[f].token \in spent' /\ fin'[f].token \notin spent /\ fin'[f].pc = "assemble"
    BY <1>2 DEF ClaimedBy
  <2>2. ASSUME NEW g \in Finishers \ {f}, fin'[g] # IdleFin
        PROVE  fin'[g].token # fin'[f].token
    BY <1>2, <2>1, <2>2 DEF ClaimInv, FinClaim
  <2> QED BY <1>2, <2>1, <2>2 DEF ClaimedBy
<1> QED BY <1>1, <1>2, FinRowMoves

(* The result a request may register is the concatenation of the session's *)
(* chunks: it still holds the session, so the rows it read are the rows.   *)
LEMMA HeldListing ==
  ASSUME FinalInv, NEW f \in Finishers, fin[f].pc = "commit", HoldsLease(f)
  PROVE  Listing(fin[f].upload, fin[f].token)
<1>1. fin[f] # IdleFin
  BY RowsDiffer
<1>2. /\ final[fin[f].token] = fin[f].content
      /\ Agrees(fin[f], upload[fin[f].upload])
  BY <1>1 DEF FinalInv, ClaimInv, FinClaim
<1>3. /\ Len(fin[f].content) = fin[f].expected
      /\ \A j \in 1..Len(fin[f].content) : fin[f].content[j] = fin[f].chunks[j - 1].data
  BY <1>1 DEF FinalInv, TypeInv, FinInv
<1> QED BY <1>2, <1>3 DEF Agrees, Listing

LEMMA ListingStays ==
  ASSUME NEW u, NEW k, Listing(u, k), final'[k] = final[k],
         upload'[u].expected = upload[u].expected, upload'[u].chunks = upload[u].chunks
  PROVE  Listing(u, k)'
BY DEF Listing

LEMMA FinalStays ==
  ASSUME TypeInv, [UploadNext]_vars, NEW k \in Tokens,
         \A f \in Finishers : Busy(f) => fin[f].token # k
  PROVE  final'[k] = final[k]
BY FinRowMoves DEF Busy

(* A commit that may still come finds its object as it was put. *)
LEMMA LateClaimGoesOn ==
  ASSUME FinalInv, [UploadNext]_vars, NEW l \in late'
  PROVE  LateClaim(l)'
<1> USE DEF FinalInv
<1>0. TypeOK /\ TypeOK'
  BY TypeGoesOn DEF TypeInv
<1>1. CASE l \in late
  <2>1. LateClaim(l) /\ l.upload \in Uploads /\ l.token \in Tokens
    BY <1>0, <1>1 DEF ClaimInv, TypeOK
  <2>2. l.token \in spent'
    BY <2>1, FinRowMoves DEF LateClaim
  <2>3. ASSUME NEW f \in Finishers, Busy(f)' PROVE fin'[f].token # l.token
    BY <2>1, <2>3, BusyMoves DEF LateClaim, FinKeeps
  <2>4. ASSUME upload'[l.upload].state = "FINALIZING", upload'[l.upload].token = l.token
        PROVE  Listing(l.upload, l.token)'
    <3>1. final'[l.token] = final[l.token]
      BY <2>1, FinalStays DEF LateClaim
    <3>2. /\ upload[l.upload].state = "FINALIZING" /\ upload[l.upload].token = l.token
          /\ upload'[l.upload].expected = upload[l.upload].expected
          /\ upload'[l.upload].chunks = upload[l.upload].chunks
      BY <2>1, <2>4, LeaseMoves DEF LateClaim
    <3> QED BY <2>1, <3>1, <3>2, ListingStays DEF LateClaim
  <2> QED BY <2>2, <2>3, <2>4 DEF LateClaim, Busy
<1>2. ASSUME NEW f \in Finishers, fin[f].pc = "commit", FinKeeps(f), fin'[f].pc = "failed",
             l.upload = fin[f].upload, l.token = fin[f].token
      PROVE  LateClaim(l)'
  <2>1. /\ fin[f] \in FinRow /\ fin[f] # IdleFin
        /\ fin[f].upload \in Uploads /\ fin[f].token \in Tokens
    BY <1>2, RowsDiffer DEF FinKeeps, FinRow
  <2>2. FinClaim(f) /\ l.token \in spent
    BY <1>2, <2>1 DEF ClaimInv, FinClaim
  <2>3. \A g \in Finishers : Busy(g) => fin[g].token # l.token
    <3> SUFFICES ASSUME NEW g \in Finishers, Busy(g) PROVE fin[g].token # l.token
      OBVIOUS
    <3>1. g # f /\ fin[g] # IdleFin
      BY <1>2, BusyRows DEF Busy
    <3> QED BY <1>2, <2>1, <2>2, <3>1 DEF FinClaim
  <2>4. l.token \in spent'
    BY <2>2, FinRowMoves
  <2>5. ASSUME NEW g \in Finishers, Busy(g)' PROVE fin'[g].token # l.token
    BY <2>2, <2>3, <2>5, BusyMoves DEF FinKeeps
  <2>6. ASSUME upload'[l.upload].state = "FINALIZING", upload'[l.upload].token = l.token
        PROVE  Listing(l.upload, l.token)'
    <3>1. final'[l.token] = final[l.token]
      BY <1>2, <2>1, <2>3, FinalStays
    <3>2. /\ upload[l.upload].state = "FINALIZING" /\ upload[l.upload].token = l.token
          /\ upload'[l.upload].expected = upload[l.upload].expected
          /\ upload'[l.upload].chunks = upload[l.upload].chunks
      BY <1>2, <2>1, <2>2, <2>6, LeaseMoves
    <3>3. HoldsLease(f)
      BY <1>2, <3>2 DEF HoldsLease
    <3>4. Listing(l.upload, l.token)
      BY <1>2, <3>3, HeldListing
    <3> QED BY <3>1, <3>2, <3>4, ListingStays
  <2> QED BY <2>4, <2>5, <2>6 DEF LateClaim, Busy
<1> QED BY <1>1, <1>2, FinRowMoves

LEMMA DoneClaimGoesOn ==
  ASSUME FinalInv, [UploadNext]_vars, NEW u \in Uploads
  PROVE  DoneClaim(u)'
<1> USE DEF FinalInv
<1>0. TypeOK
  BY DEF TypeInv
<1> SUFFICES ASSUME upload'[u].state = "COMPLETE"
             PROVE  /\ upload'[u].evidence \in spent' \cap Tokens
                    /\ [upload |-> u, token |-> upload'[u].evidence] \in evidence'
                    /\ \A f \in Finishers : Busy(f)' => fin'[f].token # upload'[u].evidence
                    /\ Recording(u, upload[u].evidence)'
  BY DEF DoneClaim, Busy, Recording
<1>1. CASE upload[u].state = "COMPLETE"
  <2> DEFINE k == upload[u].evidence
  <2>1. upload'[u] = upload[u]
    BY <1>1, ClosedStays DEF In
  <2>2. /\ k \in spent /\ k \in Tokens /\ [upload |-> u, token |-> k] \in evidence
        /\ \A f \in Finishers : Busy(f) => fin[f].token # k
        /\ Recording(u, k)
    BY <1>1 DEF ClaimInv, DoneClaim
  <2>3. ASSUME NEW f \in Finishers, Busy(f)' PROVE fin'[f].token # k
    BY <2>2, <2>3, BusyMoves DEF FinKeeps
  <2>4. [upload |-> u, token |-> k] \in evidence'
    BY <2>2, EvidenceMoves DEF Registered
  <2>5. final'[k] = final[k]
    BY <2>2, FinalStays
  <2>6. Recording(u, upload[u].evidence)'
    <3>1. saved'[u] = saved[u]
      BY <1>1, SavedStays DEF In
    <3> QED BY <2>1, <2>2, <2>5, <3>1 DEF Recording
  <2> QED BY <2>1, <2>2, <2>3, <2>4, <2>6, FinRowMoves
<1>2. CASE upload[u].state # "COMPLETE"
  <2> DEFINE k == upload[u].token
  <2>1. Registered(u)
    BY <1>2, RowMoves DEF RowMove, Created, RecordedBy, ChunkAdded, MayRecord, AcceptsChunks, Taken,
                          Renewed, Reopened, Aborted, Extended, KeepsClaim
  <2>2. /\ upload[u].state = "FINALIZING" /\ k \in Tokens
        /\ upload'[u].evidence = k /\ upload'[u].chunks = upload[u].chunks
        /\ upload'[u].expected = upload[u].expected
        /\ [upload |-> u, token |-> k] \in evidence'
    BY <2>1 DEF Registered, MayRegister
  <2>3. /\ k \in spent /\ Listing(u, k)
        /\ \A f \in Finishers : Busy(f) => fin[f].token # k
    <3>1. ASSUME NEW f \in Finishers, fin[f].pc = "commit", fin[f].upload = u, fin[f].token = k
          PROVE  /\ k \in spent /\ Listing(u, k)
                 /\ \A g \in Finishers : Busy(g) => fin[g].token # k
      <4>1. fin[f] # IdleFin /\ HoldsLease(f)
        BY <2>2, <3>1, RowsDiffer DEF HoldsLease
      <4>2. FinClaim(f)
        BY DEF ClaimInv
      <4>3. \A g \in Finishers : Busy(g) => g # f /\ fin[g] # IdleFin
        BY <3>1, BusyRows DEF Busy
      <4> QED BY <3>1, <4>1, <4>2, <4>3, HeldListing DEF FinClaim
    <3>2. CASE [upload |-> u, token |-> k] \in late
      <4>1. LateClaim([upload |-> u, token |-> k])
        BY <3>2 DEF ClaimInv
      <4> QED BY <2>2, <4>1 DEF LateClaim
    <3> QED BY <2>1, <3>1, <3>2 DEF Registered, Origin
  <2>4. ASSUME NEW f \in Finishers, Busy(f)' PROVE fin'[f].token # k
    BY <2>3, <2>4, BusyMoves DEF FinKeeps
  <2>5. final'[k] = final[k]
    BY <2>2, <2>3, FinalStays
  <2>6. Recording(u, upload[u].evidence)'
    <3>1. /\ saved'[u] = saved[u] /\ DOMAIN upload[u].chunks = 0..(upload[u].expected - 1)
          /\ \A i \in DOMAIN upload[u].chunks : saved[u][i] = upload[u].chunks[i].data
      BY <2>2, SavedStays DEF SavedInv, SavedRow, In
    <3>2. upload[u].expected \in Int
      BY <2>2, UploadAt DEF TypeInv, UploadRow
    <3>3. \A j \in 1..upload[u].expected : final[k][j] = saved[u][j - 1]
      BY <2>3, <3>1, <3>2 DEF Listing
    <3> QED BY <2>2, <2>3, <2>5, <3>1, <3>3 DEF Listing, Recording
  <2> QED BY <2>2, <2>3, <2>4, <2>6, FinRowMoves
<1> QED BY <1>1, <1>2

LEMMA FinalStarts == Init => FinalInv
<1>1. Init => ClaimInv
  BY DEF Init, ClaimInv, FinClaim, LateClaim, DoneClaim, NoUpload
<1> QED BY <1>1, TypeStarts, SavedStarts DEF FinalInv

LEMMA FinalGoesOn == FinalInv /\ [UploadNext]_vars => FinalInv'
  BY TypeGoesOn, SavedGoesOn, FinClaimGoesOn, LateClaimGoesOn, DoneClaimGoesOn DEF FinalInv, ClaimInv

LEMMA FinalIsIntact ==
  ASSUME FinalInv
  PROVE  EvidenceIntact
<1> SUFFICES ASSUME NEW u \in Uploads, upload[u].state = "COMPLETE"
             PROVE  /\ [upload |-> u, token |-> upload[u].evidence] \in evidence
                    /\ DOMAIN saved[u] = 0..(upload[u].expected - 1)
                    /\ final[upload[u].evidence] =
                         [j \in 1..upload[u].expected |-> saved[u][j - 1]]
  BY DEF EvidenceIntact
<1> DEFINE k == upload[u].evidence
           n == upload[u].expected
<1>1. /\ k \in Tokens /\ [upload |-> u, token |-> k] \in evidence /\ Recording(u, k)
  BY DEF FinalInv, ClaimInv, DoneClaim
<1>2. upload[u] \in UploadRow /\ n \in Nat /\ final[k] \in Seq(Data)
  BY <1>1, UploadAt DEF FinalInv, TypeInv, TypeOK, UploadRow
<1>3. DOMAIN saved[u] = 0..(n - 1)
  BY DEF FinalInv, SavedInv, SavedRow, In
<1>4. Len(final[k]) = n /\ DOMAIN final[k] = 1..n /\ final[k] \in [1..n -> Data]
  BY <1>1, <1>2, LenProperties DEF Recording
<1>5. \A j \in 1..n : final[k][j] = saved[u][j - 1]
  BY <1>1, <1>4 DEF Recording
<1>6. final[k] = [j \in 1..n |-> saved[u][j - 1]]
  <2> HIDE DEF k, n
  <2> QED BY <1>4, <1>5
<1> QED BY <1>1, <1>3, <1>6

(* A completed recording is stored and is the concatenation of the chunks  *)
(* first recorded for it, whichever of several racing finalisations,       *)
(* takeovers and late commits produced it.                                 *)
THEOREM CompletedIntact == UploadSpec => []EvidenceIntact
<1>1. FinalInv => EvidenceIntact
  BY FinalIsIntact
<1> QED BY <1>1, FinalStarts, FinalGoesOn, PTL DEF UploadSpec

-----------------------------------------------------------------------------
(* Answers *)

(* What was answered concerns a session, and is true. *)
AckTrue(a) ==
  /\ a.upload \in Uploads
  /\ IF a.what = "chunk"
     THEN a.index \in DOMAIN saved[a.upload] /\ saved[a.upload][a.index] = a.data
     ELSE /\ upload[a.upload].state = "COMPLETE"
          /\ upload[a.upload].expected = a.expected
          /\ upload[a.upload].interrupted = a.interrupted

AckInv == \A a \in acked : AckTrue(a)

LEMMA MatchingSaved ==
  ASSUME SavedInv, NEW u \in Uploads, NEW i, NEW d, AcceptsChunks(u), MatchingChunk(u, i, d)
  PROVE  i \in DOMAIN saved[u] /\ saved[u][i] = d
BY DEF SavedInv, SavedRow, MatchingChunk, AcceptsChunks, In

LEMMA ChunkAckTrue ==
  ASSUME NEW u \in Uploads, NEW i, NEW d, i \in DOMAIN saved'[u], saved'[u][i] = d
  PROVE  \A a : a = ChunkAck(u, i, d) => AckTrue(a)'
<1> SUFFICES ASSUME NEW a, a = ChunkAck(u, i, d) PROVE AckTrue(a)'
  OBVIOUS
<1>1. a.what = "chunk" /\ a.upload = u /\ a.index = i /\ a.data = d
  BY DEF ChunkAck
<1> QED BY <1>1 DEF AckTrue

LEMMA CompleteAckTrue ==
  ASSUME NEW u \in Uploads, NEW n, NEW flag, upload'[u].state = "COMPLETE",
         upload'[u].expected = n, upload'[u].interrupted = flag
  PROVE  \A a : a = CompleteAck(u, n, flag) => AckTrue(a)'
<1> SUFFICES ASSUME NEW a, a = CompleteAck(u, n, flag) PROVE AckTrue(a)'
  OBVIOUS
<1>1. a.what = "complete" /\ a.upload = u /\ a.expected = n /\ a.interrupted = flag
  BY DEF CompleteAck
<1> QED BY <1>1 DEF AckTrue

(* What a step newly answers is true after it. *)
LEMMA NewAcks ==
  ASSUME FinalInv, SavedInv, [UploadNext]_vars, NEW a \in acked'
  PROVE  a \in acked \/ AckTrue(a)'
<1>1. ASSUME NEW p \in Putters, PutNext(p) PROVE a \in acked \/ AckTrue(a)'
  <2>1. CASE CommitChunk(p)
    <3> DEFINE r == put[p]
    <3>1. r \in PutRow /\ r.upload \in Uploads
      BY <2>1, PutAt DEF CommitChunk, PutRow, FinalInv, TypeInv
    <3>2. \/ upload'[r.upload] = upload[r.upload] /\ saved'[r.upload] = saved[r.upload]
          \/ ChunkAdded(r.upload, r)
      BY <2>1, <3>1, RecordMoves DEF CommitChunk, FinalInv, TypeInv
    <3>3. r.index \in DOMAIN saved'[r.upload] /\ saved'[r.upload][r.index] = r.data
      <4> DEFINE d == [i \in DOMAIN saved[r.upload] \cup {r.index} |->
                         IF i = r.index THEN r.data ELSE saved[r.upload][i]]
      <4>1. saved' = [saved EXCEPT ![r.upload] = d]
        BY <2>1 DEF CommitChunk, Record
      <4>2. saved'[r.upload] = d
        BY <3>1, <4>1 DEF FinalInv, TypeInv, TypeOK
      <4> QED BY <4>2
    <3>4. a \in acked \/ a = ChunkAck(r.upload, r.index, r.data)
      BY <2>1 DEF CommitChunk
    <3> QED BY <3>1, <3>3, <3>4, ChunkAckTrue
  <2>2. CASE LoseChunkRace(p)
    <3> DEFINE r == put[p]
    <3>1. r \in PutRow /\ r.upload \in Uploads
      BY <2>2, PutAt DEF LoseChunkRace, PutRow, FinalInv, TypeInv
    <3>2. r.index \in DOMAIN saved'[r.upload] /\ saved'[r.upload][r.index] = r.data
      BY <2>2, <3>1, MatchingSaved DEF LoseChunkRace
    <3>3. a \in acked \/ a = ChunkAck(r.upload, r.index, r.data)
      BY <2>2 DEF LoseChunkRace
    <3> QED BY <3>1, <3>2, <3>3, ChunkAckTrue
  <2>3. ASSUME NEW u \in Uploads, NEW i \in Index, NEW d \in Data, BeginPut(p, u, i, d)
        PROVE  acked' = acked
    BY <2>3 DEF BeginPut
  <2>4. CASE StoreChunk(p) \/ RejectChunk(p) \/ RemoveOwnChunk(p) \/ LosePut(p) \/ LateChunk(p)
    BY <2>4 DEF StoreChunk, RejectChunk, RemoveOwnChunk, LosePut, LateChunk
  <2> QED BY <1>1, <2>1, <2>2, <2>3, <2>4 DEF PutNext
<1>2. ASSUME NEW f \in Finishers, FinishNext(f) PROVE a \in acked \/ AckTrue(a)'
  <2>1. CASE CommitFinal(f)
    <3> DEFINE r == fin[f]
    <3>1. /\ r \in FinRow /\ r # IdleFin /\ r.upload \in Uploads /\ r.token \in Tokens
      BY <2>1, FinAt, RowsDiffer DEF CommitFinal, FinRow, FinalInv, TypeInv
    <3>2. CASE MayRegister(r.upload, r.token)
      <4>1. HoldsLease(f) /\ upload[r.upload] \in UploadRow
        BY <3>1, <3>2, UploadAt DEF MayRegister, HoldsLease, FinalInv, TypeInv
      <4>2. Agrees(r, upload[r.upload])
        BY <3>1, <4>1 DEF FinalInv, ClaimInv, FinClaim
      <4>3. upload' = [upload EXCEPT ![r.upload].state = "COMPLETE", ![r.upload].evidence = r.token,
                                     ![r.upload].token = NoToken, ![r.upload].lease = 0]
        BY <2>1, <3>2 DEF CommitFinal, Register
      <4>4. /\ upload'[r.upload].state = "COMPLETE"
            /\ upload'[r.upload].expected = upload[r.upload].expected
            /\ upload'[r.upload].interrupted = upload[r.upload].interrupted
        BY <3>1, <4>1, <4>3 DEF FinalInv, TypeInv, TypeOK, UploadRow
      <4>5. a \in acked \/ a = CompleteAck(r.upload, r.expected, r.interrupted)
        BY <2>1, <3>2 DEF CommitFinal
      <4> QED BY <3>1, <4>2, <4>4, <4>5, CompleteAckTrue DEF Agrees
    <3>3. CASE ~ MayRegister(r.upload, r.token)
      BY <2>1, <3>3 DEF CommitFinal
    <3> QED BY <3>2, <3>3
  <2>2. CASE RecoverFinish(f)
    <3> DEFINE r == fin[f]
    <3>1. CASE CompletedAs(r.upload, r.expected, r.interrupted)
      <4>1. r.upload \in Uploads
        BY <2>2, FinAt DEF RecoverFinish, FinRow, FinalInv, TypeInv
      <4>2. upload'[r.upload] = upload[r.upload]
        BY <3>1, <4>1, ClosedStays DEF CompletedAs, In, FinalInv
      <4>3. a \in acked \/ a = CompleteAck(r.upload, r.expected, r.interrupted)
        BY <2>2, <3>1 DEF RecoverFinish
      <4> QED BY <3>1, <4>1, <4>2, <4>3, CompleteAckTrue DEF CompletedAs
    <3>2. CASE ~ CompletedAs(r.upload, r.expected, r.interrupted)
      BY <2>2, <3>2 DEF RecoverFinish
    <3> QED BY <3>1, <3>2
  <2>3. ASSUME NEW u \in Uploads, NEW n \in 1..Chunks, NEW flag \in Flags, Claim(f, u, n, flag)
        PROVE  acked' = acked
    BY <2>3 DEF Claim
  <2>4. CASE \/ AssembleChunk(f) \/ Heartbeat(f) \/ RenewBeforeUpload(f) \/ UploadFinal(f)
             \/ FailFinish(f) \/ CrashFinish(f)
    BY <2>4 DEF AssembleChunk, Heartbeat, RenewBeforeUpload, UploadFinal, FailFinish, CrashFinish
  <2> QED BY <1>2, <2>1, <2>2, <2>3, <2>4 DEF FinishNext
<1>3. ASSUME NEW u \in Uploads, SessionNext(u) PROVE a \in acked \/ AckTrue(a)'
  <2>1. ASSUME NEW i \in Index, NEW d \in Data, RepeatChunk(u, i, d)
        PROVE  a \in acked \/ AckTrue(a)'
    <3>1. i \in DOMAIN saved'[u] /\ saved'[u][i] = d
      BY <2>1, MatchingSaved DEF RepeatChunk
    <3>2. a \in acked \/ a = ChunkAck(u, i, d)
      BY <2>1 DEF RepeatChunk
    <3> QED BY <3>1, <3>2, ChunkAckTrue
  <2>2. ASSUME NEW n \in 1..Chunks, NEW flag \in Flags, RepeatComplete(u, n, flag)
        PROVE  a \in acked \/ AckTrue(a)'
    <3>1. /\ upload'[u].state = "COMPLETE" /\ upload'[u].expected = n
          /\ upload'[u].interrupted = flag
      BY <2>2 DEF RepeatComplete, CompletedAs
    <3>2. a \in acked \/ a = CompleteAck(u, n, flag)
      BY <2>2 DEF RepeatComplete
    <3> QED BY <3>1, <3>2, CompleteAckTrue
  <2>3. CASE CreateUpload(u) \/ AbortUpload(u)
    BY <2>3 DEF CreateUpload, AbortUpload
  <2> QED BY <1>3, <2>1, <2>2, <2>3 DEF SessionNext
<1>4. ASSUME NEW l \in late, LateFinal(l) PROVE acked' = acked
  BY <1>4 DEF LateFinal
<1>5. ASSUME AttemptNext \/ Tick PROVE acked' = acked
  BY <1>5 DEF AttemptNext, Tick, FinishAttempt, ReviewAttempt, CreateAppeal, ResolveAppeal, rows
<1>6. CASE UNCHANGED vars
  BY <1>6 DEF vars
<1> QED BY <1>1, <1>2, <1>3, <1>4, <1>5, <1>6 DEF UploadNext

LEMMA AcksStart == Init => AckInv
  BY DEF Init, AckInv

LEMMA AcksGoOn ==
  ASSUME FinalInv, AckInv, [UploadNext]_vars
  PROVE  AckInv'
<1> SUFFICES ASSUME NEW a \in acked', a \in acked PROVE AckTrue(a)'
  BY NewAcks DEF AckInv, FinalInv
<1>1. AckTrue(a)
  BY DEF AckInv
<1>2. CASE a.what = "chunk"
  BY <1>1, <1>2, SavedGrows DEF AckTrue, FinalInv
<1>3. CASE a.what # "chunk"
  BY <1>1, <1>3, ClosedStays DEF AckTrue, FinalInv, In
<1> QED BY <1>2, <1>3

LEMMA AcksAreTrue == AckInv => AcksHonoured
  BY DEF AckInv, AckTrue, AcksHonoured

(* What a client was told stays true: the acknowledged chunk is the one    *)
(* recorded, the acknowledged completion has those parameters.             *)
THEOREM AnswersStand == UploadSpec => []AcksHonoured
  BY AcksStart, AcksGoOn, AcksAreTrue, FinalStarts, FinalGoesOn, PTL DEF UploadSpec

-----------------------------------------------------------------------------
(* Sums over finite sets *)

(* MapThenSumSet adds up a finite set element by element, in the order in  *)
(* which CHOOSE takes them out; the order does not matter (TotalAdds).  It *)
(* is defined by recursion over sets, so each fact about every finite set  *)
(* is proved on a smallest set it would fail for.                          *)

(* The element a sum over s takes first. *)
One(s) == CHOOSE x \in s : TRUE

(* g[s] is the sum of f over every subset s of S. *)
SumsTo(f, S, g) ==
  g = [s \in SUBSET S |-> IF s = {} THEN 0 ELSE f[One(s)] + g[s \ {One(s)}]]

Total(f, S) == (CHOOSE g : SumsTo(f, S, g))[S]

(* A non-empty collection of subsets of a finite set has a smallest one. *)
LEMMA SmallestSet ==
  ASSUME NEW U, IsFiniteSet(U), NEW T \in SUBSET (SUBSET U), T # {}
  PROVE  \E s \in T : \A t \in T : t \subseteq s => t = s
<1>1. /\ IsWellFoundedOn(StrictSubsetOrdering(U), FiniteSubsetsOf(U))
      /\ T \subseteq FiniteSubsetsOf(U)
  BY FS_StrictSubsetOrderingWellFounded, FS_FiniteSubsetsOfFinite
<1>2. PICK s \in T : \A t \in T : ~ (<<t, s>> \in StrictSubsetOrdering(U))
  BY <1>1, WFMin, Zenon
<1> QED BY <1>2 DEF StrictSubsetOrdering

LEMMA OneIn ==
  ASSUME NEW s, s # {}
  PROVE  One(s) \in s
  BY DEF One

LEMMA SumsAt ==
  ASSUME NEW f, NEW S, NEW g, SumsTo(f, S, g), NEW s \in SUBSET S
  PROVE  /\ s = {} => g[s] = 0
         /\ s # {} => g[s] = f[One(s)] + g[s \ {One(s)}]
  BY DEF SumsTo

(* A sum is the same in whichever set it is taken. *)
LEMMA SumsAgree ==
  ASSUME NEW f, NEW A, IsFiniteSet(A), NEW g, SumsTo(f, A, g), NEW B, NEW h, SumsTo(f, B, h),
         NEW s \in SUBSET (A \cap B)
  PROVE  g[s] = h[s]
<1> DEFINE T == {t \in SUBSET (A \cap B) : g[t] # h[t]}
<1> SUFFICES ASSUME T # {} PROVE FALSE
  OBVIOUS
<1>1. PICK t \in T : \A r \in T : r \subseteq t => r = t
  <2>1. T \in SUBSET (SUBSET A)
    OBVIOUS
  <2> HIDE DEF T
  <2> QED BY <2>1, SmallestSet
<1>2. t \in SUBSET A /\ t \in SUBSET B /\ g[t] # h[t]
  BY <1>1
<1>3. CASE t = {}
  BY <1>2, <1>3, SumsAt
<1>4. CASE t # {}
  <2>1. One(t) \in t
    BY <1>4, OneIn
  <2>2. t \ {One(t)} \notin T
    BY <1>1, <2>1
  <2>3. g[t \ {One(t)}] = h[t \ {One(t)}]
    BY <1>2, <2>2
  <2>4. /\ g[t] = f[One(t)] + g[t \ {One(t)}]
        /\ h[t] = f[One(t)] + h[t \ {One(t)}]
    BY <1>2, <1>4, SumsAt
  <2> QED BY <1>2, <2>3, <2>4
<1> QED BY <1>3, <1>4

(* Over a finite set there is a sum. *)
LEMMA SumsExist ==
  ASSUME NEW f, NEW S, IsFiniteSet(S)
  PROVE  \E g : SumsTo(f, S, g)
<1> DEFINE T == {t \in SUBSET S : ~ \E g : SumsTo(f, t, g)}
<1> SUFFICES ASSUME T # {} PROVE FALSE
  OBVIOUS
<1>1. PICK t \in T : \A r \in T : r \subseteq t => r = t
  <2>1. T \in SUBSET (SUBSET S)
    OBVIOUS
  <2> HIDE DEF T
  <2> QED BY <2>1, SmallestSet
<1> DEFINE G(r) == CHOOSE g : SumsTo(f, r, g)
           part == [r \in SUBSET t |-> IF r = t THEN 0 ELSE G(r)[r]]
           whole == IF t = {} THEN 0 ELSE f[One(t)] + part[t \ {One(t)}]
           h == [r \in SUBSET t |-> IF r = t THEN whole ELSE part[r]]
<1>2. t \in SUBSET S /\ IsFiniteSet(t) /\ ~ \E g : SumsTo(f, t, g)
  BY <1>1, FS_Subset
<1>3. ASSUME NEW r \in SUBSET t, r # t
      PROVE  SumsTo(f, r, G(r)) /\ IsFiniteSet(r)
  <2>1. r \notin T /\ r \in SUBSET S
    BY <1>1, <1>3
  <2>2. \E g : SumsTo(f, r, g)
    BY <2>1
  <2> QED BY <2>2, <1>2, FS_Subset
<1>4. ASSUME NEW r \in SUBSET t, r # t
      PROVE  part[r] = IF r = {} THEN 0 ELSE f[One(r)] + part[r \ {One(r)}]
  <2> DEFINE q == r \ {One(r)}
  <2>0. part[r] = G(r)[r]
    BY <1>4
  <2>1. CASE r = {}
    <3>1. G(r)[r] = 0
      <4> HIDE DEF G
      <4> QED BY <1>3, <1>4, <2>1, SumsAt
    <3> QED BY <2>0, <2>1, <3>1
  <2>2. CASE r # {}
    <3>1. One(r) \in r /\ q \in SUBSET r /\ q \in SUBSET t /\ q # t
      BY <1>4, <2>2, OneIn
    <3>2. part[q] = G(q)[q]
      BY <3>1
    <3>3. G(q)[q] = G(r)[q]
      <4> HIDE DEF G
      <4>1. SumsTo(f, r, G(r)) /\ IsFiniteSet(r) /\ SumsTo(f, q, G(q)) /\ IsFiniteSet(q)
        BY <1>3, <1>4, <3>1
      <4>2. q \in SUBSET (q \cap r)
        BY <3>1
      <4> HIDE DEF q
      <4> QED BY <4>1, <4>2, SumsAgree
    <3>4. G(r)[r] = f[One(r)] + G(r)[q]
      <4> HIDE DEF G
      <4> QED BY <1>3, <1>4, <2>2, SumsAt
    <3> HIDE DEF part, G
    <3> QED BY <2>0, <2>2, <3>2, <3>3, <3>4
  <2> QED BY <2>1, <2>2
<1>5. ASSUME NEW r \in SUBSET t
      PROVE  h[r] = IF r = {} THEN 0 ELSE f[One(r)] + h[r \ {One(r)}]
  <2>1. CASE r # t
    <3>1. h[r] = part[r] /\ (r # {} => r \ {One(r)} \in SUBSET t /\ h[r \ {One(r)}] = part[r \ {One(r)}])
      <4> HIDE DEF part, whole
      <4>1. r # {} => r \ {One(r)} \in SUBSET t /\ r \ {One(r)} # t
        BY <2>1, OneIn
      <4> QED BY <2>1, <4>1
    <3> HIDE DEF part, h
    <3> QED BY <1>4, <2>1, <3>1
  <2>2. CASE r = t /\ t = {}
    <3> HIDE DEF part
    <3> QED BY <2>2
  <2>3. CASE r = t /\ t # {}
    <3>1. t \ {One(t)} \in SUBSET t /\ t \ {One(t)} # t
      BY <2>3, OneIn
    <3> HIDE DEF part
    <3>2. h[t] = f[One(t)] + part[t \ {One(t)}]
      BY <2>3
    <3>3. h[t \ {One(t)}] = part[t \ {One(t)}]
      BY <3>1
    <3> HIDE DEF h
    <3> QED BY <2>3, <3>2, <3>3
  <2> QED BY <2>1, <2>2, <2>3
<1>6. SumsTo(f, t, h)
  <2>1. h = [r \in SUBSET t |-> h[r]]
    OBVIOUS
  <2> HIDE DEF h
  <2> QED BY <1>5, <2>1 DEF SumsTo
<1> HIDE DEF h
<1> QED BY <1>2, <1>6

LEMMA TotalIs ==
  ASSUME NEW f, NEW S, IsFiniteSet(S), NEW g, SumsTo(f, S, g)
  PROVE  Total(f, S) = g[S]
<1> DEFINE h == CHOOSE x : SumsTo(f, S, x)
<1>1. SumsTo(f, S, h)
  OBVIOUS
<1>2. Total(f, S) = h[S]
  BY DEF Total
<1>3. S \in SUBSET (S \cap S)
  OBVIOUS
<1> HIDE DEF h
<1> QED BY <1>1, <1>2, <1>3, SumsAgree

LEMMA TotalSteps ==
  ASSUME NEW f, NEW S, IsFiniteSet(S)
  PROVE  /\ S = {} => Total(f, S) = 0
         /\ S # {} => Total(f, S) = f[One(S)] + Total(f, S \ {One(S)})
<1>1. PICK g : SumsTo(f, S, g)
  BY SumsExist
<1>2. Total(f, S) = g[S]
  BY <1>1, TotalIs
<1>3. CASE S = {}
  BY <1>1, <1>2, <1>3, SumsAt
<1>4. CASE S # {}
  <2> DEFINE q == S \ {One(S)}
  <2>1. IsFiniteSet(q) /\ q \in SUBSET (q \cap S)
    BY FS_Subset
  <2>2. g[S] = f[One(S)] + g[q]
    BY <1>1, <1>4, SumsAt
  <2> HIDE DEF q
  <2>3. PICK h : SumsTo(f, q, h)
    BY <2>1, SumsExist
  <2>4. Total(f, q) = h[q] /\ h[q] = g[q]
    <3>1. Total(f, q) = h[q]
      BY <2>1, <2>3, TotalIs
    <3>2. h[q] = g[q]
      BY <1>1, <2>1, <2>3, SumsAgree
    <3> QED BY <3>1, <3>2
  <2> QED BY <1>2, <1>4, <2>2, <2>4 DEF q
<1> QED BY <1>3, <1>4

(* Sums of what is equal are equal. *)
LEMMA TotalSame ==
  ASSUME NEW f, NEW h, NEW S, IsFiniteSet(S), \A x \in S : f[x] = h[x]
  PROVE  Total(f, S) = Total(h, S)
<1>1. PICK g : SumsTo(f, S, g)
  BY SumsExist
<1>2. SumsTo(h, S, g)
  <2>1. ASSUME NEW s \in SUBSET S, s # {} PROVE f[One(s)] = h[One(s)]
    BY <2>1, OneIn
  <2>2. [s \in SUBSET S |-> IF s = {} THEN 0 ELSE f[One(s)] + g[s \ {One(s)}]]
        = [s \in SUBSET S |-> IF s = {} THEN 0 ELSE h[One(s)] + g[s \ {One(s)}]]
    BY <2>1
  <2> QED BY <1>1, <2>2 DEF SumsTo
<1> QED BY <1>1, <1>2, TotalIs

LEMMA TotalType ==
  ASSUME NEW S, IsFiniteSet(S), NEW f, \A x \in S : f[x] \in Nat
  PROVE  Total(f, S) \in Nat
<1> DEFINE T == {t \in SUBSET S : Total(f, t) \notin Nat}
<1> SUFFICES ASSUME T # {} PROVE FALSE
  OBVIOUS
<1>1. PICK t \in T : \A r \in T : r \subseteq t => r = t
  <2>1. T \in SUBSET (SUBSET S)
    OBVIOUS
  <2> HIDE DEF T
  <2> QED BY <2>1, SmallestSet
<1>2. t \in SUBSET S /\ IsFiniteSet(t) /\ Total(f, t) \notin Nat
  BY <1>1, FS_Subset
<1>3. t # {}
  <2>1. t = {} => Total(f, t) = 0
    BY <1>2, TotalSteps
  <2>2. 0 \in Nat
    OBVIOUS
  <2> HIDE DEF T
  <2> QED BY <1>2, <2>1, <2>2
<1>4. One(t) \in t
  BY <1>3, OneIn
<1>5. Total(f, t \ {One(t)}) \in Nat
  BY <1>1, <1>2, <1>4
<1>6. Total(f, t) = f[One(t)] + Total(f, t \ {One(t)}) /\ f[One(t)] \in Nat
  BY <1>2, <1>3, <1>4, TotalSteps
<1> QED BY <1>2, <1>5, <1>6

(* One more element adds its own value. *)
LEMMA TotalAdds ==
  ASSUME NEW U, IsFiniteSet(U), NEW f, \A x \in U : f[x] \in Nat,
         NEW S \in SUBSET U, NEW x \in U \ S
  PROVE  Total(f, S \cup {x}) = Total(f, S) + f[x]
<1> DEFINE T == {t \in SUBSET U : \E y \in U \ t : Total(f, t \cup {y}) # Total(f, t) + f[y]}
<1> SUFFICES ASSUME T # {} PROVE FALSE
  OBVIOUS
<1>1. PICK t \in T : \A r \in T : r \subseteq t => r = t
  <2>1. T \in SUBSET (SUBSET U)
    OBVIOUS
  <2> HIDE DEF T
  <2> QED BY <2>1, SmallestSet
<1>2. PICK y \in U \ t : Total(f, t \cup {y}) # Total(f, t) + f[y]
  BY <1>1
<1> DEFINE s == t \cup {y}
           z == One(s)
<1>3. /\ t \in SUBSET U /\ IsFiniteSet(t) /\ IsFiniteSet(s) /\ s # {} /\ z \in s
  <2>1. t \in SUBSET U /\ s \in SUBSET U /\ s # {}
    BY <1>1, <1>2
  <2>2. z \in s
    BY <2>1, OneIn
  <2> HIDE DEF s, z
  <2> QED BY <2>1, <2>2, FS_Subset
<1>4. Total(f, s) = f[z] + Total(f, s \ {z})
  BY <1>3, TotalSteps
<1>5. CASE z = y
  <2>1. s \ {z} = t
    BY <1>2, <1>5
  <2>2. f[y] \in Nat /\ Total(f, t) \in Nat
    BY <1>2, <1>3, TotalType
  <2>3. Total(f, s) = f[y] + Total(f, t)
    BY <1>4, <1>5, <2>1
  <2>4. Total(f, s) = Total(f, t) + f[y]
    <3> HIDE DEF s, z
    <3> QED BY <2>2, <2>3
  <2> QED BY <1>2, <2>4
<1>6. CASE z # y
  <2> DEFINE q == t \ {z}
  <2>1. z \in t /\ q \in SUBSET U /\ q \subseteq t /\ q # t /\ y \in U \ q /\ z \in U \ q
    BY <1>2, <1>3, <1>6
  <2>2. q \notin T
    BY <1>1, <2>1
  <2>3. \A v \in U \ q : Total(f, q \cup {v}) = Total(f, q) + f[v]
    BY <2>1, <2>2
  <2>4. q \cup {z} = t /\ q \cup {y} = s \ {z}
    BY <1>2, <1>6, <2>1
  <2>5. Total(f, t) = Total(f, q) + f[z] /\ Total(f, s \ {z}) = Total(f, q) + f[y]
    <3> HIDE DEF q, s, z
    <3> QED BY <2>1, <2>3, <2>4
  <2>6. Total(f, q) \in Nat /\ f[z] \in Nat /\ f[y] \in Nat
    <3>1. IsFiniteSet(q)
      BY <1>3, FS_Subset
    <3> HIDE DEF q, z
    <3> QED BY <1>2, <2>1, <3>1, TotalType
  <2> HIDE DEF q, s, z
  <2> QED BY <1>2, <1>4, <2>5, <2>6 DEF s
<1> QED BY <1>5, <1>6

(* The sum grows by as much as one of its values does. *)
LEMMA TotalGrows ==
  ASSUME NEW S, IsFiniteSet(S), NEW f, NEW h, \A x \in S : f[x] \in Nat,
         NEW v \in S, NEW n \in Nat, h[v] = f[v] + n, \A x \in S : x # v => h[x] = f[x]
  PROVE  Total(h, S) = Total(f, S) + n
<1> DEFINE r == S \ {v}
<1>1. r \in SUBSET S /\ v \in S \ r /\ r \cup {v} = S /\ IsFiniteSet(r)
  BY FS_Subset
<1>2. \A x \in S : h[x] \in Nat
  <2>1. f[v] + n \in Nat
    BY SMT
  <2> QED BY <2>1
<1>3. Total(f, r) = Total(h, r)
  <2>1. \A x \in r : f[x] = h[x]
    OBVIOUS
  <2> HIDE DEF r
  <2> QED BY <1>1, <2>1, TotalSame
<1>4. Total(f, S) = Total(f, r) + f[v] /\ Total(h, S) = Total(h, r) + h[v]
  <2> HIDE DEF r
  <2>1. Total(f, r \cup {v}) = Total(f, r) + f[v]
    BY <1>1, TotalAdds
  <2>2. Total(h, r \cup {v}) = Total(h, r) + h[v]
    BY <1>1, <1>2, TotalAdds
  <2> QED BY <1>1, <2>1, <2>2
<1>5. Total(f, r) \in Nat /\ f[v] \in Nat
  <2>1. \A x \in r : f[x] \in Nat
    OBVIOUS
  <2> HIDE DEF r
  <2> QED BY <1>1, <2>1, TotalType
<1> HIDE DEF r
<1> QED BY <1>3, <1>4, <1>5

(* The two sums of the model. *)
LEMMA BytesTotal ==
  ASSUME NEW up, NEW S, IsFiniteSet(S)
  PROVE  MapThenSumSet(LAMBDA u : up[u].bytes, S) = Total([u \in S |-> up[u].bytes], S)
<1> DEFINE f == [u \in S |-> up[u].bytes]
           P(g) == g = [s \in SUBSET S |->
                          IF s = {} THEN 0 ELSE up[One(s)].bytes + g[s \ {One(s)}]]
           h == CHOOSE g : P(g)
<1>1. MapThenSumSet(LAMBDA u : up[u].bytes, S) = h[S]
  BY DEF MapThenSumSet, MapThenFoldSet, One
<1>2. ASSUME NEW g PROVE P(g) <=> SumsTo(f, S, g)
  <2>1. \A s \in SUBSET S : s # {} => f[One(s)] = up[One(s)].bytes
    BY OneIn
  <2> HIDE DEF f
  <2>2. [s \in SUBSET S |-> IF s = {} THEN 0 ELSE up[One(s)].bytes + g[s \ {One(s)}]]
        = [s \in SUBSET S |-> IF s = {} THEN 0 ELSE f[One(s)] + g[s \ {One(s)}]]
    BY <2>1
  <2> QED BY <2>2 DEF SumsTo
<1> HIDE DEF f, P
<1>3. \E g : P(g)
  BY <1>2, SumsExist
<1>4. SumsTo(f, S, h)
  BY <1>2, <1>3
<1> HIDE DEF h
<1> QED BY <1>1, <1>4, TotalIs DEF f

LEMMA ChunksTotal ==
  ASSUME NEW c, NEW S, IsFiniteSet(S)
  PROVE  MapThenSumSet(LAMBDA i : Size[c[i]], S) = Total([i \in S |-> Size[c[i]]], S)
<1> DEFINE f == [i \in S |-> Size[c[i]]]
           P(g) == g = [s \in SUBSET S |->
                          IF s = {} THEN 0 ELSE Size[c[One(s)]] + g[s \ {One(s)}]]
           h == CHOOSE g : P(g)
<1>1. MapThenSumSet(LAMBDA i : Size[c[i]], S) = h[S]
  BY DEF MapThenSumSet, MapThenFoldSet, One
<1>2. ASSUME NEW g PROVE P(g) <=> SumsTo(f, S, g)
  <2>1. \A s \in SUBSET S : s # {} => f[One(s)] = Size[c[One(s)]]
    BY OneIn
  <2> HIDE DEF f
  <2>2. [s \in SUBSET S |-> IF s = {} THEN 0 ELSE Size[c[One(s)]] + g[s \ {One(s)}]]
        = [s \in SUBSET S |-> IF s = {} THEN 0 ELSE f[One(s)] + g[s \ {One(s)}]]
    BY <2>1
  <2> QED BY <2>2 DEF SumsTo
<1> HIDE DEF f, P
<1>3. \E g : P(g)
  BY <1>2, SumsExist
<1>4. SumsTo(f, S, h)
  BY <1>2, <1>3
<1> HIDE DEF h
<1> QED BY <1>1, <1>4, TotalIs DEF f

-----------------------------------------------------------------------------
(* The quota *)

Sessions == {u \in Uploads : IsUpload(u)}
BytesOf  == [u \in Sessions |-> upload[u].bytes]
SizesOf(u) == [i \in DOMAIN saved[u] |-> Size[saved[u][i]]]
Allowance == IF appeal.state = "NONE" THEN ByteLimit ELSE 2 * ByteLimit

(* The quota is checked against the sum over all sessions in the           *)
(* transaction that records a chunk, and only recording adds to it.        *)
QuotaInv ==
  /\ IsFiniteSet(Sessions)
  /\ Total(BytesOf, Sessions) <= Allowance
  /\ \A u \in Sessions : upload[u].bytes = Total(SizesOf(u), DOMAIN saved[u])

SameSize(u) == /\ upload'[u] # NoUpload <=> IsUpload(u)
               /\ IsUpload(u) => upload'[u].bytes = upload[u].bytes
               /\ saved'[u] = saved[u]

SizeMove ==
  \/ \A u \in Uploads : SameSize(u)
  \/ \E v \in Uploads : /\ CreateUpload(v) /\ Created(v) /\ saved' = saved
                        /\ \A u \in Uploads : u # v => SameSize(u)
  \/ \E v \in Uploads, p \in Putters : /\ RecordedBy(v, p)
                                       /\ \A u \in Uploads : u # v => SameSize(u)

LEMMA MovesKeepSize ==
  ASSUME TypeInv, NEW u \in Uploads, saved'[u] = saved[u],
         \/ upload'[u] = upload[u] \/ Taken(u) \/ Renewed(u) \/ Registered(u)
         \/ Reopened(u) \/ Aborted(u) \/ Extended(u)
  PROVE  SameSize(u)
<1>1. CASE upload'[u] = upload[u]
  BY <1>1 DEF SameSize, IsUpload
<1>2. CASE \/ Taken(u) \/ Renewed(u) \/ Registered(u)
           \/ Reopened(u) \/ Aborted(u) \/ Extended(u)
  <2>1. IsUpload(u) /\ upload'[u].state # "NONE"
    BY <1>2, RowsDiffer DEF Taken, Renewed, Reopened, Aborted, Registered, Extended,
         MayRegister, In, IsUpload, KeepsClaim
  <2>2. upload'[u] # NoUpload
    BY <2>1, RowsDiffer
  <2>3. upload'[u].bytes = upload[u].bytes
    BY <1>2 DEF Taken, Renewed, Reopened, Aborted, Registered, Extended, KeepsChunks
  <2> QED BY <2>1, <2>2, <2>3 DEF SameSize
<1> QED BY <1>1, <1>2

LEMMA SizeMoves ==
  ASSUME TypeInv, [UploadNext]_vars
  PROVE  SizeMove
<1>1. ASSUME NEW p \in Putters, PutNext(p) PROVE SizeMove
  <2>1. ASSUME NEW u \in Uploads, ~ RecordedBy(u, p) PROVE SameSize(u)
    BY <1>1, <2>1, PutMoves, MovesKeepSize DEF TypeInv
  <2>2. CASE \E v \in Uploads : RecordedBy(v, p)
    <3>1. PICK v \in Uploads : RecordedBy(v, p)
      BY <2>2
    <3>2. \A u \in Uploads : u # v => ~ RecordedBy(u, p)
      BY <3>1 DEF RecordedBy, ChunkAdded
    <3> QED BY <2>1, <3>1, <3>2 DEF SizeMove
  <2>3. CASE ~ \E v \in Uploads : RecordedBy(v, p)
    BY <2>1, <2>3 DEF SizeMove
  <2> QED BY <2>2, <2>3
<1>2. ASSUME ~ \E p \in Putters : PutNext(p) PROVE SizeMove
  <2>1. saved' = saved
    BY <1>2, SavedMoves
  <2>2. ASSUME NEW f \in Finishers, FinishNext(f) PROVE SizeMove
    BY <2>1, <2>2, FinMoves, MovesKeepSize DEF SizeMove
  <2>3. ASSUME NEW l \in late, LateFinal(l) PROVE SizeMove
    BY <2>1, <2>3, LateMoves, MovesKeepSize DEF SizeMove, TypeInv
  <2>4. ASSUME AttemptNext \/ Tick PROVE SizeMove
    BY <2>1, <2>4, AttemptMoves, MovesKeepSize DEF SizeMove, TypeInv
  <2>5. CASE UNCHANGED vars
    BY <2>1, <2>5, MovesKeepSize DEF SizeMove, vars
  <2>6. ASSUME NEW v \in Uploads, SessionNext(v) PROVE SizeMove
    <3>1. CASE CreateUpload(v)
      <4>1. ASSUME NEW u \in Uploads, u # v PROVE SameSize(u)
        <5>1. upload'[u] = upload[u]
          BY <3>1, <4>1 DEF CreateUpload, TypeInv, TypeOK
        <5> QED BY <2>1, <5>1, MovesKeepSize
      <4>2. Created(v)
        <5> DEFINE r == [state |-> "OPEN", expiresAt |-> RecordingDeadline, expected |-> 0,
                         interrupted |-> FALSE, token |-> NoToken, lease |-> 0,
                         chunks |-> [i \in {} |-> NoData], bytes |-> 0, evidence |-> NoToken]
        <5>1. upload' = [upload EXCEPT ![v] = r]
          BY <3>1 DEF CreateUpload
        <5>2. r.state = "OPEN"
          OBVIOUS
        <5>3. upload'[v].state = "OPEN"
          <6> HIDE DEF r
          <6> QED BY <5>1, <5>2 DEF TypeInv, TypeOK
        <5>4. ~ IsUpload(v)
          BY <3>1 DEF CreateUpload
        <5> HIDE DEF r
        <5> QED BY <2>6, <5>3, <5>4, SessionMoves, RowsDiffer DEF TypeInv, IsUpload, Aborted, In
      <4> QED BY <2>1, <3>1, <4>1, <4>2 DEF SizeMove
    <3>2. CASE ~ CreateUpload(v)
      <4>1. ASSUME NEW u \in Uploads PROVE upload'[u] = upload[u] \/ Aborted(u)
        <5>1. CASE upload' = upload
          BY <5>1
        <5>2. CASE AbortUpload(v)
          <6>1. IsUpload(v) /\ \A w \in Uploads : w # v => upload'[w] = upload[w]
            BY <5>2, UploadAt DEF AbortUpload, In, TypeInv, TypeOK
          <6> QED BY <2>6, <6>1, SessionMoves DEF Created, TypeInv
        <5> QED BY <2>6, <3>2, <5>1, <5>2 DEF SessionNext, RepeatChunk, RepeatComplete
      <4> QED BY <2>1, <4>1, MovesKeepSize DEF SizeMove
    <3> QED BY <3>1, <3>2
  <2> QED BY <1>2, <2>2, <2>3, <2>4, <2>5, <2>6 DEF UploadNext
<1> QED BY <1>1, <1>2

(* What is allowed never shrinks. *)
LEMMA AllowanceStays ==
  ASSUME TypeInv, [UploadNext]_vars
  PROVE  /\ Allowance \in Nat /\ Allowance' \in Nat /\ Allowance <= Allowance'
         /\ RecordingByteLimit <= Allowance /\ RecordingByteLimit \in Nat
<1>1. ByteLimit \in Nat /\ 2 * ByteLimit \in Nat /\ ByteLimit <= 2 * ByteLimit
  BY LimitAssumption
<1>2. appeal.state # "NONE" => appeal'.state # "NONE"
  <2>1. CASE UNCHANGED attemptVars
    BY <2>1 DEF attemptVars
  <2>2. CASE FinishAttempt \/ CreateAppeal
    BY <2>2 DEF FinishAttempt, CreateAppeal
  <2>3. ASSUME NEW decision \in {"APPROVED", "REJECTED"}, ReviewAttempt(decision)
        PROVE  appeal' = appeal
    BY <2>3 DEF ReviewAttempt
  <2>4. ASSUME NEW decision \in {"UPHELD", "OVERTURNED"}, ResolveAppeal(decision)
        PROVE  appeal'.state # "NONE"
    BY <2>4 DEF ResolveAppeal, TypeInv, TypeOK
  <2> QED BY <2>1, <2>2, <2>3, <2>4, ReviewMoves
<1>3. RecordingByteLimit \in {ByteLimit, 2 * ByteLimit}
      /\ (appeal.state = "NONE" => RecordingByteLimit = ByteLimit)
  BY DEF RecordingByteLimit, AppealOpen
<1> QED BY <1>1, <1>2, <1>3 DEF Allowance

LEMMA SizesTyped ==
  ASSUME TypeInv, NEW u \in Uploads
  PROVE  /\ IsFiniteSet(DOMAIN saved[u])
         /\ \A i \in DOMAIN saved[u] : SizesOf(u)[i] \in Nat
         /\ IsUpload(u) => upload[u].bytes \in Nat
<1>1. DOMAIN saved[u] \in SUBSET Index /\ saved[u] \in [DOMAIN saved[u] -> Data]
  BY SavedElements DEF TypeInv, TypeOK
<1>2. IsFiniteSet(Index)
  <2>1. 0 \in Int /\ Chunks - 1 \in Int
    BY ChunkAssumption
  <2> QED BY <2>1, FS_Interval DEF Index
<1>3. \A i \in DOMAIN saved[u] : SizesOf(u)[i] \in Nat
  BY <1>1, ChunkAssumption DEF SizesOf
<1>4. IsUpload(u) => upload[u].bytes \in Nat
  BY UploadAt DEF TypeInv, UploadRow
<1> QED BY <1>1, <1>2, <1>3, <1>4, FS_Subset

LEMMA TotalBytesIs ==
  ASSUME QuotaInv
  PROVE  TotalBytes = Total(BytesOf, Sessions)
<1>1. IsFiniteSet(Sessions)
  BY DEF QuotaInv
<1>2. TotalBytes = MapThenSumSet(LAMBDA u : upload[u].bytes, Sessions)
  BY DEF TotalBytes, Sessions
<1>3. MapThenSumSet(LAMBDA u : upload[u].bytes, Sessions) = Total(BytesOf, Sessions)
  BY <1>1, BytesTotal DEF BytesOf
<1> QED BY <1>2, <1>3

LEMMA QuotaGoesOn ==
  ASSUME TypeInv, TypeInv', SavedInv, QuotaInv, [UploadNext]_vars
  PROVE  QuotaInv'
<1> DEFINE S == Sessions
           f == BytesOf
           h == BytesOf'
<1>0. /\ IsFiniteSet(S) /\ Total(f, S) <= Allowance
      /\ f = [u \in S |-> upload[u].bytes]
      /\ h = [u \in Sessions' |-> upload'[u].bytes]
      /\ Sessions' = {u \in Uploads : upload'[u] # NoUpload}
      /\ S = {u \in Uploads : IsUpload(u)}
  BY DEF QuotaInv, Sessions, BytesOf, IsUpload
<1>1. /\ Allowance \in Nat /\ Allowance' \in Nat /\ Allowance <= Allowance'
      /\ RecordingByteLimit <= Allowance /\ RecordingByteLimit \in Nat
  BY AllowanceStays
<1>2. /\ \A x \in S : f[x] \in Nat
      /\ \A x \in Sessions' : h[x] \in Nat
  <2>1. \A u \in S : upload[u].bytes \in Nat
    BY SizesTyped DEF Sessions
  <2>2. ASSUME NEW u \in Sessions' PROVE upload'[u].bytes \in Nat
    <3>1. upload'[u] \in UploadRow
      BY <1>0, <2>2 DEF TypeInv, TypeOK
    <3> QED BY <3>1 DEF UploadRow
  <2> QED BY <1>0, <2>1, <2>2
<1>3. Total(f, S) \in Nat
  <2> HIDE DEF S, f
  <2> QED BY <1>0, <1>2, TotalType
<1>4. ASSUME NEW u \in S, SameSize(u)
      PROVE  upload'[u].bytes = Total(SizesOf(u), DOMAIN saved[u])'
  <2>1. upload[u].bytes = Total(SizesOf(u), DOMAIN saved[u])
    BY DEF QuotaInv
  <2>2. upload'[u].bytes = upload[u].bytes /\ saved'[u] = saved[u]
    BY <1>4 DEF SameSize, Sessions
  <2>3. SizesOf(u)' = SizesOf(u)
    BY <2>2 DEF SizesOf
  <2> QED BY <2>1, <2>2, <2>3
<1>5. CASE \A u \in Uploads : SameSize(u)
  <2>1. Sessions' = S
    BY <1>0, <1>5 DEF SameSize
  <2>2. h = f
    BY <1>0, <1>5, <2>1 DEF SameSize
  <2>3. Total(BytesOf, Sessions)' = Total(f, S)
    BY <2>1, <2>2
  <2>4. Total(BytesOf, Sessions)' <= Allowance'
    <3> HIDE DEF S, f
    <3> QED BY <1>0, <1>1, <1>3, <2>3
  <2>5. \A u \in Sessions' : upload'[u].bytes = Total(SizesOf(u), DOMAIN saved[u])'
    BY <1>0, <1>4, <1>5, <2>1
  <2> QED BY <1>0, <2>1, <2>4, <2>5 DEF QuotaInv
<1>6. ASSUME NEW v \in Uploads, CreateUpload(v), Created(v), saved' = saved,
             \A u \in Uploads : u # v => SameSize(u)
      PROVE  QuotaInv'
  <2>1. v \notin S /\ upload'[v] # NoUpload /\ upload'[v].bytes = 0
    BY <1>6, RowsDiffer DEF Created, Sessions
  <2>2. Sessions' = S \cup {v}
    BY <1>0, <1>6, <2>1 DEF SameSize
  <2>3. IsFiniteSet(Sessions') /\ v \in Sessions'
    <3> HIDE DEF S
    <3> QED BY <1>0, <2>2, FS_AddElement
  <2>4. \A x \in S : h[x] = f[x]
    BY <1>0, <1>6, <2>1, <2>2 DEF SameSize
  <2>5. h[v] = 0
    BY <1>0, <2>1, <2>3
  <2>6. Total(h, Sessions') = Total(f, S)
    <3>1. Total(h, S) = Total(f, S)
      <4>1. IsFiniteSet(S)
        BY <1>0
      <4> HIDE DEF S, f, h
      <4> QED BY <2>4, <4>1, TotalSame
    <3>2. Total(h, S \cup {v}) = Total(h, S) + h[v]
      <4> HIDE DEF S, f, h
      <4>1. S \in SUBSET Sessions' /\ v \in Sessions' \ S
        BY <2>1, <2>2
      <4> QED BY <1>2, <2>3, <4>1, TotalAdds
    <3> HIDE DEF S, f, h
    <3> QED BY <1>3, <2>2, <2>5, <3>1, <3>2
  <2>7. Total(BytesOf, Sessions)' <= Allowance'
    <3>1. Total(BytesOf, Sessions)' = Total(h, Sessions')
      OBVIOUS
    <3> HIDE DEF S, f, h
    <3> QED BY <1>0, <1>1, <1>3, <2>6, <3>1
  <2>8. upload'[v].bytes = Total(SizesOf(v), DOMAIN saved[v])'
    <3>1. DOMAIN saved'[v] = {}
      BY <1>6 DEF SavedInv, SavedRow, Created
    <3>2. Total(SizesOf(v)', {}) = 0
      BY TotalSteps, FS_EmptySet
    <3> QED BY <2>1, <3>1, <3>2
  <2>9. ASSUME NEW u \in Sessions' PROVE upload'[u].bytes = Total(SizesOf(u), DOMAIN saved[u])'
    <3>1. CASE u = v
      BY <2>8, <3>1
    <3>2. CASE u # v
      BY <1>0, <1>4, <1>6, <2>2, <3>2
    <3> QED BY <3>1, <3>2
  <2> QED BY <2>3, <2>7, <2>9 DEF QuotaInv
<1>7. ASSUME NEW v \in Uploads, NEW p \in Putters, RecordedBy(v, p),
             \A u \in Uploads : u # v => SameSize(u)
      PROVE  QuotaInv'
  <2> DEFINE i == put[p].index
             n == Size[put[p].data]
             D == DOMAIN saved[v]
             E == DOMAIN saved'[v]
             a == SizesOf(v)
             b == SizesOf(v)'
  <2>1. /\ put[p] \in PutRow /\ MayRecord(put[p]) /\ put[p].upload = v
        /\ upload'[v].bytes = upload[v].bytes + n
        /\ E = D \cup {i} /\ saved'[v][i] = put[p].data
        /\ \A j \in D : j # i => saved'[v][j] = saved[v][j]
        /\ upload'[v].state = upload[v].state
    BY <1>7 DEF RecordedBy, ChunkAdded, KeepsClaim
  <2>2. v \in S /\ upload'[v] # NoUpload
    BY <2>1, RowsDiffer DEF MayRecord, AcceptsChunks, Sessions, IsUpload
  <2>3. n \in Nat
    BY <2>1, ChunkAssumption DEF PutRow
  <2>4. Sessions' = S
    BY <1>0, <1>7, <2>2 DEF SameSize
  <2>5. h[v] = f[v] + n /\ \A x \in S : x # v => h[x] = f[x]
    BY <1>0, <1>7, <2>1, <2>2, <2>4 DEF SameSize
  <2>6. Total(h, S) = Total(f, S) + n
    <3>1. IsFiniteSet(S) /\ \A x \in S : f[x] \in Nat
      BY <1>0, <1>2
    <3> HIDE DEF S, f, h, n
    <3> QED BY <2>2, <2>3, <2>5, <3>1, TotalGrows
  <2>7. Total(f, S) + n <= RecordingByteLimit
    BY <2>1, TotalBytesIs DEF MayRecord
  <2>8. Total(BytesOf, Sessions)' <= Allowance'
    <3>1. Total(BytesOf, Sessions)' = Total(h, S)
      BY <2>4
    <3> HIDE DEF S, f, h, n
    <3> QED BY <1>1, <1>3, <2>3, <2>6, <2>7, <3>1
  <2>9. upload'[v].bytes = Total(b, E)
    <3>1. i \notin D
      BY <2>1 DEF SavedInv, SavedRow, MayRecord, AcceptsChunks, In
    <3>2. /\ IsFiniteSet(D) /\ IsFiniteSet(E)
          /\ \A j \in D : a[j] \in Nat
          /\ \A j \in E : b[j] \in Nat
      <4>1. IsFiniteSet(D) /\ \A j \in D : a[j] \in Nat
        BY SizesTyped
      <4>2. IsFiniteSet(E)
        <5> HIDE DEF D, E, i
        <5> QED BY <2>1, <4>1, FS_AddElement
      <4>3. \A j \in D : b[j] = a[j]
        BY <2>1, <3>1 DEF SizesOf
      <4>4. b[i] = n
        BY <2>1 DEF SizesOf
      <4> HIDE DEF D, E, i, n, a, b
      <4> QED BY <2>1, <2>3, <4>1, <4>2, <4>3, <4>4
    <3>3. (\A j \in D : b[j] = a[j]) /\ b[i] = n
      BY <2>1, <3>1 DEF SizesOf
    <3>4. upload[v].bytes = Total(a, D)
      BY <2>2 DEF QuotaInv
    <3> HIDE DEF D, E, i, n, a, b
    <3>5. Total(b, D) = Total(a, D)
      BY <3>2, <3>3, TotalSame
    <3>6. D \in SUBSET E /\ i \in E \ D
      BY <2>1, <3>1
    <3>7. Total(b, D \cup {i}) = Total(b, D) + b[i]
      BY <3>2, <3>6, TotalAdds
    <3> QED BY <2>1, <3>3, <3>4, <3>5, <3>7
  <2>10. ASSUME NEW u \in Sessions' PROVE upload'[u].bytes = Total(SizesOf(u), DOMAIN saved[u])'
    <3>1. CASE u = v
      BY <2>9, <3>1
    <3>2. CASE u # v
      BY <1>0, <1>4, <1>7, <2>4, <3>2
    <3> QED BY <3>1, <3>2
  <2>11. IsFiniteSet(Sessions')
    BY <1>0, <2>4
  <2> QED BY <2>8, <2>10, <2>11 DEF QuotaInv
<1> QED BY <1>5, <1>6, <1>7, SizeMoves DEF SizeMove

LEMMA QuotaStarts == Init => QuotaInv
<1> SUFFICES ASSUME Init PROVE QuotaInv
  OBVIOUS
<1>1. Sessions = {} /\ IsFiniteSet(Sessions)
  BY FS_EmptySet DEF Init, Sessions, IsUpload
<1>2. Total(BytesOf, Sessions) = 0
  BY <1>1, TotalSteps
<1>3. Allowance \in Nat
  BY LimitAssumption DEF Init, Allowance
<1> QED BY <1>1, <1>2, <1>3 DEF QuotaInv

LEMMA QuotaIsKept ==
  ASSUME TypeInv, QuotaInv
  PROVE  QuotaHolds
<1>1. TotalBytes <= (IF appeal.state = "NONE" THEN ByteLimit ELSE 2 * ByteLimit)
  BY TotalBytesIs DEF QuotaInv, Allowance
<1>2. ASSUME NEW u \in Uploads, IsUpload(u)
      PROVE  upload[u].bytes = MapThenSumSet(LAMBDA i : Size[saved[u][i]], DOMAIN saved[u])
  <2>1. IsFiniteSet(DOMAIN saved[u])
    BY SizesTyped
  <2>2. upload[u].bytes = Total(SizesOf(u), DOMAIN saved[u])
    BY <1>2 DEF QuotaInv, Sessions
  <2>3. MapThenSumSet(LAMBDA i : Size[saved[u][i]], DOMAIN saved[u])
        = Total(SizesOf(u), DOMAIN saved[u])
    BY <2>1, ChunksTotal DEF SizesOf
  <2> QED BY <2>2, <2>3
<1> QED BY <1>1, <1>2 DEF QuotaHolds

(* However many chunks are committed at once, the sessions of an attempt   *)
(* hold no more than its quota, twice that after an appeal, and a session  *)
(* counts exactly the bytes recorded for it (putChunk's transaction).      *)
THEOREM QuotaKept == UploadSpec => []QuotaHolds
<1>1. TypeInv /\ QuotaInv => QuotaHolds
  BY QuotaIsKept
<1>2. TypeInv /\ TypeInv' /\ SavedInv /\ QuotaInv /\ [UploadNext]_vars => QuotaInv'
  BY QuotaGoesOn
<1>3. TypeInv /\ SavedInv /\ [UploadNext]_vars => SavedInv'
  BY SavedGoesOn
<1> QED BY <1>1, <1>2, <1>3, QuotaStarts, TypeStarts, TypeGoesOn, SavedStarts, PTL DEF UploadSpec

-----------------------------------------------------------------------------
(* The vault *)

vstate == [u \in Uploads |-> VaultState(upload[u])]
vfiles == [u \in Uploads |-> FilesOf(u)]
standing == IF AppealOpen THEN "PENDING" ELSE review

VaultInv == FinalInv /\ OneEvidencePerUpload /\ OpenInv

(* The one file of a recording: what was first recorded for it, in order. *)
Recorded(u) == [j \in 1..upload[u].expected |-> saved[u][j - 1]]

LEMMA FilesAre ==
  VaultInv => \A u \in Uploads :
    FilesOf(u) = IF upload[u].state = "COMPLETE" THEN {Recorded(u)} ELSE {}
<1> SUFFICES ASSUME VaultInv, NEW u \in Uploads
             PROVE  FilesOf(u) = IF upload[u].state = "COMPLETE" THEN {Recorded(u)} ELSE {}
  OBVIOUS
<1>1. CASE upload[u].state = "COMPLETE"
  <2>1. /\ [upload |-> u, token |-> upload[u].evidence] \in evidence
        /\ final[upload[u].evidence] = Recorded(u)
    BY <1>1, FinalIsIntact DEF VaultInv, EvidenceIntact, Recorded
  <2>2. \A e \in evidence : e.upload = u => e.token = upload[u].evidence
    BY DEF VaultInv, OneEvidencePerUpload
  <2> HIDE DEF VaultInv
  <2> QED BY <1>1, <2>1, <2>2 DEF FilesOf
<1>2. CASE upload[u].state # "COMPLETE"
  BY <1>2 DEF VaultInv, OneEvidencePerUpload, FilesOf
<1> QED BY <1>1, <1>2

LEMMA FilesAreNext ==
  VaultInv' => (\A u \in Uploads :
    FilesOf(u) = IF upload[u].state = "COMPLETE" THEN {Recorded(u)} ELSE {})'
  BY FilesAre, PTL

(* The vault sees of a session its state, what was recorded and its file. *)
Unseen(u) == /\ VaultState(upload'[u]) = VaultState(upload[u])
             /\ saved'[u] = saved[u]
             /\ FilesOf(u)' = FilesOf(u)

SeenOpened(u) ==
  /\ WindowOpen
  /\ VaultState(upload[u]) = "absent" /\ VaultState(upload'[u]) = "open"
  /\ saved'[u] = saved[u] /\ FilesOf(u)' = FilesOf(u)

SeenGrown(u) ==
  /\ WindowOpen
  /\ VaultState(upload[u]) = "open" /\ VaultState(upload'[u]) = "open"
  /\ FilesOf(u)' = FilesOf(u)
  /\ \E i \in Index, d \in Data :
       /\ i \notin DOMAIN saved[u]
       /\ saved'[u] = [j \in DOMAIN saved[u] \cup {i} |-> IF j = i THEN d ELSE saved[u][j]]

SeenCompleted(u) ==
  /\ WindowOpen
  /\ VaultState(upload[u]) = "open" /\ VaultState(upload'[u]) = "complete"
  /\ saved'[u] = saved[u]
  /\ \E n \in 1..Chunks : /\ DOMAIN saved[u] = 0..(n - 1)
                          /\ FilesOf(u)' = {[j \in 1..n |-> saved[u][j - 1]]}

SeenAborted(u) ==
  /\ VaultState(upload[u]) = "open" /\ VaultState(upload'[u]) = "aborted"
  /\ saved'[u] = saved[u] /\ FilesOf(u)' = FilesOf(u)

SeenMove(u) ==
  \/ Unseen(u) \/ SeenOpened(u) \/ SeenGrown(u) \/ SeenCompleted(u) \/ SeenAborted(u)

LEMMA VaultStates ==
  ASSUME NEW row
  PROVE  /\ row.state = "NONE" => VaultState(row) = "absent"
         /\ row.state = "COMPLETE" => VaultState(row) = "complete"
         /\ row.state = "ABORTED" => VaultState(row) = "aborted"
         /\ row.state \in {"OPEN", "FINALIZING"} => VaultState(row) = "open"
  BY DEF VaultState

LEMMA SeenMoves ==
  ASSUME VaultInv, VaultInv', [UploadNext]_vars, NEW u \in Uploads
  PROVE  SeenMove(u)
<1> USE DEF VaultInv, FinalInv
<1>1. RowMove(u)
  BY RowMoves
<1>2. FilesOf(u) = IF upload[u].state = "COMPLETE" THEN {Recorded(u)} ELSE {}
  BY FilesAre
<1>3. FilesOf(u)' = IF upload'[u].state = "COMPLETE" THEN {Recorded(u)'} ELSE {}
  BY FilesAreNext
<1> HIDE DEF VaultInv, FinalInv
<1>4. CASE \E p \in Putters : RecordedBy(u, p)
  <2>1. PICK p \in Putters : put[p] \in PutRow /\ ChunkAdded(u, put[p])
    BY <1>4 DEF RecordedBy
  <2> DEFINE i == put[p].index
             d == put[p].data
  <2>2. WindowOpen /\ upload[u].state = "OPEN" /\ upload'[u].state = "OPEN"
    BY <2>1 DEF ChunkAdded, MayRecord, AcceptsChunks, KeepsClaim
  <2>3. i \in Index /\ d \in Data /\ i \notin DOMAIN saved[u]
    BY <2>1, <2>2 DEF VaultInv, FinalInv, SavedInv, SavedRow, In, ChunkAdded, MayRecord, PutRow
  <2>4. saved'[u] = [j \in DOMAIN saved[u] \cup {i} |-> IF j = i THEN d ELSE saved[u][j]]
    <3>1. /\ DOMAIN saved'[u] = DOMAIN saved[u] \cup {i} /\ saved'[u][i] = d
          /\ \A j \in DOMAIN saved[u] : j # i => saved'[u][j] = saved[u][j]
      BY <2>1 DEF ChunkAdded
    <3>2. saved'[u] = [j \in DOMAIN saved'[u] |-> saved'[u][j]]
      <4>1. saved' \in [Uploads -> UNION {[S -> Data] : S \in SUBSET Index}]
        BY DEF VaultInv, FinalInv, TypeInv, TypeOK
      <4> QED BY <4>1, SavedElements
    <3> HIDE DEF i, d
    <3> QED BY <3>1, <3>2
  <2>5. VaultState(upload[u]) = "open" /\ VaultState(upload'[u]) = "open"
    BY <2>2, VaultStates
  <2>6. FilesOf(u)' = FilesOf(u)
    BY <1>2, <1>3, <2>2
  <2> HIDE DEF i, d
  <2> QED BY <2>2, <2>3, <2>4, <2>5, <2>6 DEF SeenMove, SeenGrown
<1>5. CASE ~ \E p \in Putters : RecordedBy(u, p)
  <2>1. saved'[u] = saved[u]
    BY <1>5, SavedRows DEF VaultInv, FinalInv
  <2>2. CASE upload'[u] = upload[u]
    <3>1. Recorded(u)' = Recorded(u)
      BY <2>1, <2>2 DEF Recorded
    <3> QED BY <1>2, <1>3, <2>1, <2>2, <3>1 DEF SeenMove, Unseen
  <2>3. CASE Created(u)
    <3>1. upload[u].state = "NONE" /\ upload'[u].state = "OPEN" /\ WindowOpen
      BY <2>3, RowsDiffer DEF Created, IsUpload
    <3> QED BY <1>2, <1>3, <2>1, <3>1, VaultStates DEF SeenMove, SeenOpened
  <2>4. CASE Registered(u)
    <3>1. /\ WindowOpen /\ upload[u].state = "FINALIZING" /\ upload'[u].state = "COMPLETE"
          /\ upload'[u].expected = upload[u].expected
      BY <2>4 DEF Registered, MayRegister
    <3> DEFINE n == upload[u].expected
    <3>2. DOMAIN saved[u] = 0..(n - 1)
      BY <3>1 DEF VaultInv, FinalInv, SavedInv, SavedRow, In
    <3>3. n \in 1..Chunks
      BY <3>1 DEF VaultInv, FinalInv, SavedInv, SavedRow, In
    <3>4. FilesOf(u)' = {[j \in 1..n |-> saved[u][j - 1]]}
      BY <1>3, <2>1, <3>1 DEF Recorded
    <3> HIDE DEF n
    <3> QED BY <2>1, <3>1, <3>2, <3>3, <3>4, VaultStates DEF SeenMove, SeenCompleted
  <2>5. CASE Aborted(u)
    BY <1>2, <1>3, <2>1, <2>5, VaultStates DEF SeenMove, SeenAborted, Aborted, In
  <2>6. CASE Taken(u) \/ Renewed(u) \/ Reopened(u) \/ Extended(u)
    <3>1. /\ upload[u].state \in {"OPEN", "FINALIZING"}
          /\ upload'[u].state \in {"OPEN", "FINALIZING"}
      BY <2>6 DEF Taken, Renewed, Reopened, Extended, In, KeepsClaim
    <3> QED BY <1>2, <1>3, <2>1, <3>1, VaultStates DEF SeenMove, Unseen
  <2> QED BY <1>1, <1>5, <2>2, <2>3, <2>4, <2>5, <2>6 DEF RowMove
<1> QED BY <1>4, <1>5

(* One session moves at a time. *)
LEMMA OnlyOneMoves ==
  ASSUME TypeInv, [UploadNext]_vars, ~ CreateAppeal
  PROVE  \/ upload' = upload /\ saved' = saved
         \/ \E u \in Uploads : \A v \in Uploads \ {u} :
              upload'[v] = upload[v] /\ saved'[v] = saved[v]
<1> DEFINE Alone(u) == \A v \in Uploads \ {u} : upload'[v] = upload[v] /\ saved'[v] = saved[v]
           Idle == upload' = upload /\ saved' = saved
<1>0. upload \in [Uploads -> UploadRow \cup {NoUpload}] /\ DOMAIN saved = Uploads
  BY DEF TypeInv, TypeOK
<1>1. ASSUME NEW p \in Putters, PutNext(p) PROVE Idle \/ \E u \in Uploads : Alone(u)
  <2>1. CASE UNCHANGED <<upload, saved>>
    BY <2>1
  <2>2. CASE Record(put[p]) /\ put[p].pc \in {"commit", "late"}
    <3>1. put[p].upload \in Uploads
      BY <2>2, PutAt DEF TypeInv, PutRow
    <3>2. Alone(put[p].upload)
      BY <1>0, <2>2 DEF Record
    <3> QED BY <3>1, <3>2
  <2> QED BY <1>1, <2>1, <2>2 DEF PutNext, BeginPut, StoreChunk, CommitChunk, LoseChunkRace,
            RejectChunk, RemoveOwnChunk, LosePut, LateChunk
<1>2. ASSUME NEW f \in Finishers, FinishNext(f) PROVE Idle \/ \E u \in Uploads : Alone(u)
  <2>1. ASSUME NEW u \in Uploads, NEW n \in 1..Chunks, NEW flag \in Flags, Claim(f, u, n, flag)
        PROVE  Alone(u)
    BY <1>0, <2>1 DEF Claim
  <2>2. CASE AssembleChunk(f) \/ UploadFinal(f) \/ FailFinish(f) \/ CrashFinish(f)
    BY <2>2 DEF AssembleChunk, UploadFinal, FailFinish, CrashFinish
  <2>3. CASE Heartbeat(f) \/ RenewBeforeUpload(f) \/ RecoverFinish(f) \/ CommitFinal(f)
    <3>1. fin[f].upload \in Uploads
      BY <2>3, FinAt, RowsDiffer DEF TypeInv, FinRow, Heartbeat, RenewBeforeUpload, RecoverFinish, CommitFinal
    <3>2. Alone(fin[f].upload)
      BY <1>0, <2>3 DEF Heartbeat, RenewBeforeUpload, RecoverFinish, CommitFinal, Register
    <3> QED BY <3>1, <3>2
  <2> QED BY <1>2, <2>1, <2>2, <2>3 DEF FinishNext
<1>3. ASSUME NEW u \in Uploads, SessionNext(u) PROVE Alone(u)
  BY <1>0, <1>3 DEF SessionNext, CreateUpload, AbortUpload, RepeatChunk, RepeatComplete
<1>4. ASSUME NEW l \in late, LateFinal(l) PROVE Alone(l.upload) /\ l.upload \in Uploads
  BY <1>0, <1>4 DEF LateFinal, Register, TypeInv, TypeOK
<1>5. ASSUME AttemptNext \/ Tick PROVE Idle
  BY <1>5 DEF AttemptNext, Tick, FinishAttempt, ReviewAttempt, ResolveAppeal, rows
<1>6. ASSUME UNCHANGED vars PROVE Idle
  BY <1>6 DEF vars
<1> HIDE DEF Alone, Idle
<1>7. Idle \/ \E u \in Uploads : Alone(u)
  <2>1. CASE \E p \in Putters : PutNext(p)
    BY <1>1, <2>1
  <2>2. CASE \E f \in Finishers : FinishNext(f)
    BY <1>2, <2>2
  <2>3. CASE \E u \in Uploads : SessionNext(u)
    BY <1>3, <2>3
  <2>4. CASE \E l \in late : LateFinal(l)
    BY <1>4, <2>4
  <2> QED BY <1>5, <1>6, <2>1, <2>2, <2>3, <2>4 DEF UploadNext
<1> QED BY <1>7 DEF Alone, Idle

vaultSeen == <<vstate, saved, vfiles, standing, appeal.state # "NONE">>

(* A move of one session is an action of the vault. *)
LEMMA MoveImplements ==
  ASSUME TypeOK, NEW u \in Uploads, SeenMove(u), \A v \in Uploads \ {u} : Unseen(v),
         UNCHANGED attemptVars, TypeOK'
  PROVE  [Vault!Next]_vaultSeen
<1> DEFINE s  == VaultState(upload[u])
           s2 == VaultState(upload'[u])
           f  == FilesOf(u)
           f2 == FilesOf(u)'
<1>1. /\ vstate' = [vstate EXCEPT ![u] = s2] /\ vstate[u] = s
      /\ s2 = s => vstate' = vstate
  <2>1. vstate' = [v \in Uploads |-> VaultState(upload'[v])]
    BY DEF vstate, VaultState
  <2> QED BY <2>1 DEF vstate, Unseen
<1>2. /\ vfiles' = [vfiles EXCEPT ![u] = f2] /\ vfiles[u] = f
      /\ f2 = f => vfiles' = vfiles
  <2>1. vfiles' = [v \in Uploads |-> FilesOf(v)']
    BY DEF vfiles, FilesOf
  <2> HIDE DEF f2
  <2> QED BY <2>1 DEF vfiles, Unseen, f2
<1>3. /\ saved' = [saved EXCEPT ![u] = saved'[u]]
      /\ saved'[u] = saved[u] => saved' = saved
  <2>1. DOMAIN saved = Uploads /\ saved = [v \in Uploads |-> saved[v]]
    BY DEF TypeOK
  <2>2. saved' = [v \in Uploads |-> saved'[v]]
    BY DEF TypeOK
  <2> QED BY <2>1, <2>2 DEF Unseen
<1>4. /\ standing' = standing /\ (appeal.state # "NONE")' = (appeal.state # "NONE")
      /\ WindowOpen => standing = "PENDING"
  BY DEF attemptVars, standing, AppealOpen, WindowOpen
<1> HIDE DEF s, s2, f, f2
<1>5. CASE Unseen(u)
  BY <1>1, <1>2, <1>3, <1>4, <1>5 DEF Unseen, vaultSeen, s, s2, f, f2
<1>6. CASE SeenOpened(u)
  <2>1. /\ standing = "PENDING" /\ s = "absent" /\ s2 = "open"
        /\ saved' = saved /\ vfiles' = vfiles
    BY <1>2, <1>3, <1>4, <1>6 DEF SeenOpened, s, s2, f, f2
  <2>2. Vault!Open(u)
    BY <1>1, <1>4, <2>1 DEF Vault!Open, vstate, vfiles, standing
  <2> QED BY <2>2 DEF Vault!Next
<1>7. CASE SeenGrown(u)
  <2>1. PICK i \in Index, d \in Data :
          /\ i \notin DOMAIN saved[u]
          /\ saved'[u] = [j \in DOMAIN saved[u] \cup {i} |-> IF j = i THEN d ELSE saved[u][j]]
    BY <1>7 DEF SeenGrown
  <2>2. /\ standing = "PENDING" /\ s = "open"
        /\ vstate' = vstate /\ vfiles' = vfiles
    BY <1>1, <1>2, <1>4, <1>7 DEF SeenGrown, s, s2, f, f2
  <2>3. Vault!Record(u, i, d)
    BY <1>1, <1>3, <1>4, <2>1, <2>2 DEF Vault!Record, vstate, vfiles, standing
  <2> QED BY <2>3 DEF Vault!Next, Index
<1>8. CASE SeenCompleted(u)
  <2>1. PICK n \in 1..Chunks : /\ DOMAIN saved[u] = 0..(n - 1)
                              /\ f2 = {[j \in 1..n |-> saved[u][j - 1]]}
    BY <1>8 DEF SeenCompleted, f2
  <2>2. /\ standing = "PENDING" /\ s = "open" /\ s2 = "complete" /\ saved' = saved
    BY <1>3, <1>4, <1>8 DEF SeenCompleted, s, s2
  <2>3. Vault!Complete(u, n)
    BY <1>1, <1>2, <1>4, <2>1, <2>2 DEF Vault!Complete, vstate, vfiles, standing
  <2> QED BY <2>3 DEF Vault!Next
<1>9. CASE SeenAborted(u)
  <2>1. /\ s = "open" /\ s2 = "aborted" /\ saved' = saved /\ vfiles' = vfiles
    BY <1>2, <1>3, <1>9 DEF SeenAborted, s, s2, f, f2
  <2>2. Vault!Abort(u)
    BY <1>1, <1>4, <2>1 DEF Vault!Abort, vstate, vfiles, standing
  <2> QED BY <2>2 DEF Vault!Next
<1> QED BY <1>5, <1>6, <1>7, <1>8, <1>9 DEF SeenMove

(* The rows are as they were: only the case is decided. *)
LEMMA SameSeen ==
  ASSUME \A u \in Uploads : VaultState(upload'[u]) = VaultState(upload[u]),
         UNCHANGED <<evidence, final, saved>>
  PROVE  vstate' = vstate /\ vfiles' = vfiles /\ saved' = saved
<1>1. vstate' = [u \in Uploads |-> VaultState(upload'[u])]
  BY DEF vstate, VaultState
<1>2. vfiles' = vfiles
  BY DEF vfiles, FilesOf
<1> QED BY <1>1, <1>2 DEF vstate

LEMMA ReadySettles ==
  ASSUME TypeOK, EvidenceReady
  PROVE  /\ \A u \in Uploads : vstate[u] # "open"
         /\ \A kind \in Kinds : \E u \in Uploads : Kind[u] = kind /\ vfiles[u] # {}
<1>1. ASSUME NEW u \in Uploads PROVE vstate[u] # "open"
  <2>1. upload[u].state \in {"NONE", "COMPLETE", "ABORTED"}
    BY RowsDiffer DEF EvidenceReady, IsUpload, In
  <2> QED BY <2>1, VaultStates DEF vstate
<1>2. ASSUME NEW kind \in Kinds
      PROVE  \E u \in Uploads : Kind[u] = kind /\ vfiles[u] # {}
  <2>1. PICK e \in evidence : Kind[e.upload] = kind
    BY DEF EvidenceReady
  <2>2. e.upload \in Uploads /\ final[e.token] \in FilesOf(e.upload)
    BY DEF TypeOK, FilesOf
  <2> QED BY <2>1, <2>2 DEF vfiles
<1> QED BY <1>1, <1>2

LEMMA DecisionImplements ==
  ASSUME TypeOK, OpenInv, upload' = upload,
         \/ FinishAttempt
         \/ \E decision \in {"APPROVED", "REJECTED"} : ReviewAttempt(decision)
         \/ \E decision \in {"UPHELD", "OVERTURNED"} : ResolveAppeal(decision)
  PROVE  [Vault!Next]_vaultSeen
<1>1. vstate' = vstate /\ vfiles' = vfiles /\ saved' = saved
  <2>1. UNCHANGED <<evidence, final, saved>>
    BY DEF FinishAttempt, ReviewAttempt, ResolveAppeal, rows, storage
  <2> QED BY <2>1, SameSeen
<1>2. ASSUME NEW d \in {"APPROVED", "REJECTED"}, standing = "PENDING", standing' = d,
             d = "APPROVED" => EvidenceReady,
             (appeal.state # "NONE")' = (appeal.state # "NONE")
      PROVE  Vault!Next
  <2>1. d = "APPROVED" => Vault!Settled
    BY <1>2, ReadySettles DEF Vault!Settled, vstate, vfiles
  <2>2. Vault!Decide(d)
    BY <1>1, <1>2, <2>1 DEF Vault!Decide, vstate, vfiles, standing
  <2> QED BY <2>2 DEF Vault!Next
<1>3. CASE FinishAttempt
  <2>1. standing' = standing /\ (appeal.state # "NONE")' = (appeal.state # "NONE")
    BY <1>3 DEF FinishAttempt, standing, AppealOpen
  <2> QED BY <1>1, <2>1 DEF vaultSeen
<1>4. ASSUME NEW d \in {"APPROVED", "REJECTED"}, ReviewAttempt(d) PROVE Vault!Next
  <2>1. appeal' = appeal /\ appeal.state # "OPEN" /\ review = "PENDING" /\ review' = d
    BY <1>4 DEF ReviewAttempt, OpenInv
  <2>2. standing = "PENDING" /\ standing' = d
    BY <2>1 DEF standing, AppealOpen
  <2> QED BY <1>2, <1>4, <2>1, <2>2 DEF ReviewAttempt
<1>5. ASSUME NEW d \in {"UPHELD", "OVERTURNED"}, ResolveAppeal(d) PROVE Vault!Next
  <2> DEFINE e == IF d = "UPHELD" THEN "REJECTED" ELSE "APPROVED"
  <2>1. /\ review = "REJECTED" /\ appeal.state = "OPEN" /\ appeal'.state = d
        /\ review' = e
        /\ e = "APPROVED" => EvidenceReady
    BY <1>5 DEF ResolveAppeal, AppealOpen, TypeOK
  <2>2. standing = "PENDING" /\ standing' = e
    BY <2>1 DEF standing, AppealOpen
  <2>3. (appeal.state # "NONE")' = (appeal.state # "NONE")
    BY <2>1
  <2>4. e \in {"APPROVED", "REJECTED"}
    OBVIOUS
  <2> HIDE DEF e
  <2> QED BY <1>2, <2>1, <2>2, <2>3, <2>4
<1> QED BY <1>3, <1>4, <1>5

LEMMA AppealImplements ==
  ASSUME TypeOK, CreateAppeal
  PROVE  Vault!Appeal
<1>1. vstate' = vstate /\ vfiles' = vfiles /\ saved' = saved
  <2>1. UNCHANGED <<evidence, final, saved>>
    BY DEF CreateAppeal, rows, storage
  <2>2. ASSUME NEW u \in Uploads PROVE VaultState(upload'[u]) = VaultState(upload[u])
    <3>1. \/ upload'[u] = upload[u]
          \/ /\ In(u, {"OPEN", "FINALIZING"})
             /\ upload'[u] = [upload[u] EXCEPT !.expiresAt = now + Window]
      BY DEF CreateAppeal
    <3>2. In(u, {"OPEN", "FINALIZING"}) => upload[u] \in UploadRow
      BY UploadAt DEF In
    <3>3. upload'[u].state = upload[u].state
      BY <3>1, <3>2 DEF UploadRow
    <3> QED BY <3>1, <3>3, VaultStates DEF In
  <2> QED BY <2>1, <2>2, SameSeen
<1>2. /\ review = "REJECTED" /\ review' = review
      /\ appeal.state = "NONE" /\ appeal'.state = "OPEN"
  BY DEF CreateAppeal
<1>3. standing = "REJECTED" /\ standing' = "PENDING"
  BY <1>2 DEF standing, AppealOpen
<1> QED BY <1>1, <1>2, <1>3 DEF Vault!Appeal, vstate, vfiles, standing

LEMMA VaultStarts == Init => VaultInv /\ Vault!Init
<1> SUFFICES ASSUME Init PROVE VaultInv /\ Vault!Init
  OBVIOUS
<1>1. VaultInv
  BY FinalStarts DEF VaultInv, Init, OneEvidencePerUpload, OpenInv
<1>2. vstate = [u \in Uploads |-> "absent"] /\ vfiles = [u \in Uploads |-> {}]
  BY DEF Init, vstate, vfiles, VaultState, FilesOf, NoUpload
<1>3. saved = [u \in Uploads |-> [i \in {} |-> i]]
  <2>1. [i \in {} |-> NoData] = [i \in {} |-> i]
    OBVIOUS
  <2> QED BY <2>1 DEF Init
<1>4. standing = "PENDING" /\ (appeal.state # "NONE") = FALSE
  BY DEF Init, standing, AppealOpen
<1> QED BY <1>1, <1>2, <1>3, <1>4 DEF Vault!Init, vstate, vfiles, standing

LEMMA VaultGoesOn ==
  ASSUME VaultInv, [UploadNext]_vars
  PROVE  VaultInv'
BY FinalGoesOn, OneStaysOne, OpenGoesOn DEF VaultInv, FinalInv

LEMMA VaultStep ==
  ASSUME VaultInv, VaultInv', [UploadNext]_vars
  PROVE  [Vault!Next]_vaultSeen
<1>1. TypeOK /\ TypeOK' /\ TypeInv
  BY DEF VaultInv, FinalInv, TypeInv
<1>2. CASE CreateAppeal
  BY <1>1, <1>2, AppealImplements DEF Vault!Next
<1>3. CASE UNCHANGED attemptVars
  <2>1. ~ CreateAppeal
    BY <1>3 DEF CreateAppeal, attemptVars
  <2>2. CASE Uploads = {}
    <3>1. vstate' = vstate /\ vfiles' = vfiles /\ saved' = saved
      BY <1>1, <2>2 DEF vstate, vfiles, TypeOK
    <3>2. standing' = standing /\ (appeal.state # "NONE")' = (appeal.state # "NONE")
      BY <1>3 DEF attemptVars, standing, AppealOpen
    <3> QED BY <3>1, <3>2 DEF vaultSeen
  <2>3. ASSUME Uploads # {} PROVE [Vault!Next]_vaultSeen
    <3>1. PICK u \in Uploads : \A v \in Uploads \ {u} : upload'[v] = upload[v] /\ saved'[v] = saved[v]
      BY <1>1, <2>1, <2>3, OnlyOneMoves
    <3>2. SeenMove(u)
      BY SeenMoves
    <3>3. ASSUME NEW v \in Uploads \ {u} PROVE Unseen(v)
      <4>1. Recorded(v)' = Recorded(v)
        BY <3>1 DEF Recorded
      <4>2. FilesOf(v)' = FilesOf(v)
        BY <3>1, <4>1, FilesAre, FilesAreNext
      <4> QED BY <3>1, <4>2 DEF Unseen
    <3> QED BY <1>1, <1>3, <3>2, <3>3, MoveImplements
  <2> QED BY <2>2, <2>3
<1>4. CASE /\ upload' = upload
           /\ \/ FinishAttempt
              \/ \E decision \in {"APPROVED", "REJECTED"} : ReviewAttempt(decision)
              \/ \E decision \in {"UPHELD", "OVERTURNED"} : ResolveAppeal(decision)
  BY <1>1, <1>4, DecisionImplements DEF VaultInv
<1> QED BY <1>2, <1>3, <1>4, ReviewMoves

(* Requests, leases, takeovers, late commits and reviews implement the     *)
(* vault: recordings only grow until they are one file, and stand still    *)
(* while a decision stands.                                                *)
THEOREM VaultImplemented == UploadSpec => ImplementsVault
<1>1. VaultInv /\ VaultInv' /\ [UploadNext]_vars => [Vault!Next]_vaultSeen
  BY VaultStep
<1> QED BY <1>1, VaultStarts, VaultGoesOn, PTL
        DEF UploadSpec, ImplementsVault, Vault!Spec, Vault!vault, vaultSeen, vstate, vfiles, standing
=============================================================================
