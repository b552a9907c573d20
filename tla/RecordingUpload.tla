---------------------------- MODULE RecordingUpload ----------------------------
(***************************************************************************)
(* Resumable upload of the recordings of one attempt                       *)
(* (backend/src/evidence/recording-uploads.service.ts): chunk uploads and  *)
(* finalisations of any number of requests interleave with each other and  *)
(* with the review of the attempt, processes die, and a database call may  *)
(* report a failure and still commit later.                                *)
(*                                                                         *)
(* A transaction (serializable(), or a conditional updateMany) is one      *)
(* action.  Object storage is separate state: an object is put, read and   *)
(* removed by actions of their own.  Keys end in a random UUID, so every   *)
(* request takes one never used before.  A chunk is its content; its hash  *)
(* is taken to be injective.                                               *)
(***************************************************************************)
EXTENDS Integers, FiniteSets, Sequences, FiniteSetsExt

CONSTANTS
  Uploads,       \* ids of upload sessions of the attempt
  Kinds,         \* kinds of recordings an approval needs
  Kind,          \* Kind[u]: camera or screen
  Chunks,        \* CHUNK_COUNT_LIMIT: indexes are 0..Chunks-1
  Data,          \* chunk contents
  Size,          \* Size[d]: bytes of d
  Flags,         \* values of the "interrupted" flag
  Objects,       \* keys of staged chunk objects
  Tokens,        \* finalisation tokens; a final object's key contains one
  Putters,       \* putChunk requests
  Finishers,     \* complete requests
  SessionLimit,  \* SESSION_LIMIT
  ByteLimit,     \* ATTEMPT_BYTE_LIMIT
  Window,        \* UPLOAD_GRACE_MS
  Lease,         \* FINALIZE_LEASE_MS
  ExamEnd,       \* attemptDeadline of the attempt
  MaxTime,       \* bound on the clock
  NoToken, NoData

ASSUME KindAssumption  == Kind \in [Uploads -> Kinds]
ASSUME ChunkAssumption == /\ Chunks \in Nat \ {0}
                          /\ Size \in [Data -> Nat \ {0}]
                          /\ NoData \notin Data
                          /\ NoToken \notin Tokens
                          /\ Flags \subseteq BOOLEAN
ASSUME LimitAssumption == /\ SessionLimit \in Nat
                          /\ ByteLimit \in Nat
ASSUME ClockAssumption == /\ Window \in Nat
                          /\ Lease \in Nat
                          /\ ExamEnd \in Nat
                          /\ MaxTime \in Nat

VARIABLES
  now,        \* wall clock
  finishedAt, \* when the attempt was finished, -1 before
  review,     \* reviewStatus of the attempt
  appeal,     \* its appeal: [state, createdAt]
  upload,     \* upload[u]: the row of session u with its chunk rows
  evidence,   \* EvidenceFile rows: which final object belongs to which upload
  store,      \* store[o]: content of staged object o, or NoData
  final,      \* final[k]: content of the final object of token k, or <<>>
  spent,      \* keys and tokens some request has drawn
  put,        \* put[p]: the putChunk request p
  fin,        \* fin[f]: the complete request f
  late,       \* final commits reported as failed that may still happen
  saved,      \* history: saved[u] maps an index to the chunk first recorded
  acked       \* history: what clients were told had succeeded

attemptVars == <<finishedAt, review, appeal>>
storage     == <<store, final>>
requests    == <<put, fin, late>>
vars == <<now, attemptVars, upload, evidence, storage, spent, requests,
          saved, acked>>

-----------------------------------------------------------------------------
(* The attempt's recording window *)

Index == 0..(Chunks - 1)

NoUpload == [state |-> "NONE"]

IsUpload(u) == upload[u] # NoUpload
In(u, states) == upload[u].state \in states

AppealOpen == review = "REJECTED" /\ appeal.state = "OPEN"

RecordingByteLimit == IF AppealOpen THEN 2 * ByteLimit ELSE ByteLimit

RecordingDeadline ==
  IF AppealOpen THEN appeal.createdAt + Window
  ELSE Window + (IF finishedAt # -1 /\ finishedAt < ExamEnd
                 THEN finishedAt ELSE ExamEnd)

(* assertRecordingWindow *)
WindowOpen == /\ review = "PENDING" \/ AppealOpen
              /\ now <= RecordingDeadline

(* assertOpen *)
AcceptsChunks(u) == /\ WindowOpen
                    /\ now <= upload[u].expiresAt
                    /\ upload[u].state = "OPEN"

(* The chunk rows are exactly 0..n-1. *)
HasExactly(u, n) == DOMAIN upload[u].chunks = 0..(n - 1)

TotalBytes == MapThenSumSet(LAMBDA u : upload[u].bytes, {u \in Uploads : IsUpload(u)})

(* A staged object no row refers to. *)
Unreferenced(o) ==
  \A u \in Uploads : IsUpload(u) =>
    \A i \in DOMAIN upload[u].chunks : upload[u].chunks[i].object # o

AnyChunk(u, i, d) == i \in DOMAIN upload[u].chunks  \* mutant

(* assertMatchingChunk: index i is recorded, with these bytes. *)
MatchingChunk(u, i, d) == /\ i \in DOMAIN upload[u].chunks
                          /\ upload[u].chunks[i].data = d

(* What the client of upload u was told has succeeded. *)
ChunkAck(u, i, d)       == [what |-> "chunk", upload |-> u, index |-> i, data |-> d]
CompleteAck(u, n, flag) == [what |-> "complete", upload |-> u, expected |-> n,
                            interrupted |-> flag]

IdlePut == [pc |-> "idle"]
IdleFin == [pc |-> "idle"]

Init ==
  /\ now = 0
  /\ finishedAt = -1
  /\ review = "PENDING"
  /\ appeal = [state |-> "NONE", createdAt |-> 0]
  /\ upload = [u \in Uploads |-> NoUpload]
  /\ evidence = {}
  /\ store = [o \in Objects |-> NoData]
  /\ final = [k \in Tokens |-> <<>>]
  /\ spent = {}
  /\ put = [p \in Putters |-> IdlePut]
  /\ fin = [f \in Finishers |-> IdleFin]
  /\ late = {}
  /\ saved = [u \in Uploads |-> [i \in {} |-> NoData]]
  /\ acked = {}

Tick == /\ now < MaxTime
        /\ now' = now + 1
        /\ UNCHANGED <<attemptVars, upload, evidence, storage, spent, requests,
                       saved, acked>>

-----------------------------------------------------------------------------
(* create.  Creating an expired session again would renew it in an appeal's *)
(* window, but AppealExtendsSessions: none is expired while one is open.   *)

CreateUpload(u) ==
  /\ ~ IsUpload(u)
  /\ WindowOpen
  /\ Cardinality({v \in Uploads : IsUpload(v)}) < SessionLimit
  /\ upload' = [upload EXCEPT ![u] =
       [state |-> "OPEN", expiresAt |-> RecordingDeadline, expected |-> 0,
        interrupted |-> FALSE, token |-> NoToken, lease |-> 0,
        chunks |-> [i \in {} |-> NoData], bytes |-> 0, evidence |-> NoToken]]
  /\ UNCHANGED <<now, attemptVars, evidence, storage, spent, requests, saved, acked>>

-----------------------------------------------------------------------------
(* putChunk *)

(* A recorded index accepts only the same bytes again, and answers at once. *)
RepeatChunk(u, i, d) ==
  /\ IsUpload(u)
  /\ AcceptsChunks(u)
  /\ MatchingChunk(u, i, d)
  /\ acked' = acked \cup {ChunkAck(u, i, d)}
  /\ UNCHANGED <<now, attemptVars, upload, evidence, storage, spent, requests, saved>>

(* assertWritableUpload, then the object is put under a key of its own. *)
BeginPut(p, u, i, d) ==
  /\ put[p] = IdlePut
  /\ IsUpload(u)
  /\ AcceptsChunks(u)
  /\ i \notin DOMAIN upload[u].chunks
  /\ \E o \in Objects \ spent :
       /\ spent' = spent \cup {o}
       /\ put' = [put EXCEPT ![p] = [pc |-> "send", upload |-> u, index |-> i,
                                     data |-> d, object |-> o]]
  /\ UNCHANGED <<now, attemptVars, upload, evidence, storage, fin, late, saved, acked>>

StoreChunk(p) ==
  /\ put[p].pc = "send"
  /\ store' = [store EXCEPT ![put[p].object] = put[p].data]
  /\ put' = [put EXCEPT ![p].pc = "commit"]
  /\ UNCHANGED <<now, attemptVars, upload, evidence, final, spent, fin, late, saved, acked>>

(* Mutant: the quota is taken to be one session's. *)
MayRecordPerSession(r) ==
  /\ AcceptsChunks(r.upload)
  /\ r.index \notin DOMAIN upload[r.upload].chunks
  /\ upload[r.upload].bytes + Size[r.data] <= RecordingByteLimit

(* The transaction may record the chunk. *)
MayRecord(r) ==
  /\ AcceptsChunks(r.upload)
  /\ r.index \notin DOMAIN upload[r.upload].chunks
  /\ TotalBytes + Size[r.data] <= RecordingByteLimit

Record(r) ==
  LET u == r.upload
      row == [object |-> r.object, data |-> r.data]
      old == upload[u].chunks
  IN /\ upload' = [upload EXCEPT
          ![u].chunks = [i \in DOMAIN old \cup {r.index} |->
                           IF i = r.index THEN row ELSE old[i]],
          ![u].bytes = @ + Size[r.data]]
     /\ saved' = [saved EXCEPT ![u] =
          [i \in DOMAIN saved[u] \cup {r.index} |->
             IF i = r.index THEN r.data ELSE saved[u][i]]]

(* The chunk is recorded and the client told so. *)
CommitChunk(p) ==
  LET r == put[p] IN
  /\ r.pc = "commit"
  /\ MayRecord(r)
  /\ Record(r)
  /\ put' = [put EXCEPT ![p] = IdlePut]
  /\ acked' = acked \cup {ChunkAck(r.upload, r.index, r.data)}
  /\ UNCHANGED <<now, attemptVars, evidence, storage, spent, fin, late>>

(* Another request recorded this index first: the same bytes are a success. *)
LoseChunkRace(p) ==
  LET r == put[p] IN
  /\ r.pc = "commit"
  /\ AcceptsChunks(r.upload)
  /\ MatchingChunk(r.upload, r.index, r.data)
  /\ put' = [put EXCEPT ![p].pc = "remove"]
  /\ acked' = acked \cup {ChunkAck(r.upload, r.index, r.data)}
  /\ UNCHANGED <<now, attemptVars, upload, evidence, storage, spent, fin, late, saved>>

(* The transaction refuses the chunk (closed, expired, other bytes, quota) *)
(* or gives up after three serialization conflicts: nothing was recorded.  *)
RejectChunk(p) ==
  /\ put[p].pc = "commit"
  /\ put' = [put EXCEPT ![p].pc = "remove"]
  /\ UNCHANGED <<now, attemptVars, upload, evidence, storage, spent, fin, late, saved, acked>>

(* removeUnreferenced *)
RemoveOwnChunk(p) ==
  /\ put[p].pc = "remove"
  /\ store' = IF Unreferenced(put[p].object)
              THEN [store EXCEPT ![put[p].object] = NoData] ELSE store
  /\ put' = [put EXCEPT ![p] = IdlePut]
  /\ UNCHANGED <<now, attemptVars, upload, evidence, final, spent, fin, late, saved, acked>>

(* Mutant: an unreferenced object goes although its commit may still come. *)
LosePutCleansUp(p) ==
  /\ put[p].pc = "commit"
  /\ put' = [put EXCEPT ![p].pc = "late"]
  /\ store' = IF Unreferenced(put[p].object)
              THEN [store EXCEPT ![put[p].object] = NoData] ELSE store
  /\ UNCHANGED <<now, attemptVars, upload, evidence, final, spent, fin, late, saved, acked>>

(* A failed call or a crash: the object stays, the commit may still come. *)
LosePut(p) ==
  /\ put[p].pc \in {"send", "commit", "remove"}
  /\ put' = [put EXCEPT ![p] = IF put[p].pc = "commit"
                               THEN [@ EXCEPT !.pc = "late"] ELSE IdlePut]
  /\ UNCHANGED <<now, attemptVars, upload, evidence, storage, spent, fin, late, saved, acked>>

LateChunk(p) ==
  LET r == put[p] IN
  /\ r.pc = "late"
  /\ put' = [put EXCEPT ![p] = IdlePut]
  /\ \/ MayRecord(r) /\ Record(r)
     \/ UNCHANGED <<upload, saved>>
  /\ UNCHANGED <<now, attemptVars, evidence, storage, spent, fin, late, acked>>

-----------------------------------------------------------------------------
(* complete *)

CompletedAnyhow(u, n, flag) == upload[u].state = "COMPLETE"  \* mutant

CompletedAs(u, n, flag) == /\ upload[u].state = "COMPLETE"
                           /\ upload[u].expected = n
                           /\ upload[u].interrupted = flag

(* A completed upload answers a retry with the same parameters. *)
RepeatComplete(u, n, flag) ==
  /\ CompletedAs(u, n, flag)
  /\ acked' = acked \cup {CompleteAck(u, n, flag)}
  /\ UNCHANGED <<now, attemptVars, upload, evidence, storage, spent, requests, saved>>

(* The first transaction: take the upload, or take it over. *)
Claim(f, u, n, flag) ==
  /\ fin[f] = IdleFin
  /\ In(u, {"OPEN", "FINALIZING"})
  /\ WindowOpen
  /\ upload[u].expiresAt >= now
  /\ upload[u].state = "FINALIZING" =>
       /\ upload[u].lease <= now
       /\ upload[u].expected = n
       /\ upload[u].interrupted = flag
  /\ HasExactly(u, n)
  /\ \E k \in Tokens \ spent :
       /\ spent' = spent \cup {k}
       /\ upload' = [upload EXCEPT ![u].state = "FINALIZING",
                                   ![u].expected = n,
                                   ![u].interrupted = flag,
                                   ![u].token = k,
                                   ![u].lease = now + Lease]
       /\ fin' = [fin EXCEPT ![f] =
            [pc |-> "assemble", upload |-> u, expected |-> n,
             interrupted |-> flag, token |-> k,
             chunks |-> upload[u].chunks, content |-> <<>>]]
  /\ UNCHANGED <<now, attemptVars, evidence, storage, put, late, saved, acked>>

(* assemble: the next chunk is read and compared with its recorded hash. *)
AssembleChunk(f) ==
  LET r == fin[f]
      i == Len(r.content)
  IN /\ r.pc = "assemble"
     /\ i < r.expected
     /\ fin' = [fin EXCEPT ![f] =
          IF store[r.chunks[i].object] = r.chunks[i].data
          THEN [r EXCEPT !.content = Append(r.content, r.chunks[i].data)]
          ELSE [r EXCEPT !.pc = "failed"]]
     /\ UNCHANGED <<now, attemptVars, upload, evidence, storage, spent, put, late, saved, acked>>

HoldsAny(f) == upload[fin[f].upload] # NoUpload  \* mutant

HoldsLease(f) == /\ upload[fin[f].upload].state = "FINALIZING"
                 /\ upload[fin[f].upload].token = fin[f].token

(* renewLease, from the heartbeat *)
Heartbeat(f) ==
  /\ fin[f].pc \in {"assemble", "upload", "commit"}
  /\ HoldsLease(f)
  /\ upload' = [upload EXCEPT ![fin[f].upload].lease = now + Lease]
  /\ UNCHANGED <<now, attemptVars, evidence, storage, spent, requests, saved, acked>>

(* All chunks are in: the lease is renewed before the result is uploaded. *)
RenewBeforeUpload(f) ==
  /\ fin[f].pc = "assemble"
  /\ Len(fin[f].content) = fin[f].expected
  /\ IF HoldsLease(f)
     THEN /\ upload' = [upload EXCEPT ![fin[f].upload].lease = now + Lease]
          /\ fin' = [fin EXCEPT ![f].pc = "upload"]
     ELSE /\ fin' = [fin EXCEPT ![f].pc = "failed"]
          /\ UNCHANGED upload
  /\ UNCHANGED <<now, attemptVars, evidence, storage, spent, put, late, saved, acked>>

UploadFinal(f) ==
  /\ fin[f].pc = "upload"
  /\ final' = [final EXCEPT ![fin[f].token] = fin[f].content]
  /\ fin' = [fin EXCEPT ![f].pc = "commit"]
  /\ UNCHANGED <<now, attemptVars, upload, evidence, store, spent, put, late, saved, acked>>

MayRegisterOpen(u, k)     == WindowOpen   \* mutants: the claim, the token and
MayRegisterAnyToken(u, k) ==              \* the window are not looked at again
  WindowOpen /\ upload[u].state = "FINALIZING" /\ upload[u].lease >= now
MayRegisterAnyTime(u, k) ==
  /\ upload[u].state = "FINALIZING"
  /\ upload[u].token = k
  /\ upload[u].lease >= now

(* The second transaction may register the result of token k for upload u. *)
MayRegister(u, k) == /\ WindowOpen
                     /\ upload[u].state = "FINALIZING"
                     /\ upload[u].token = k
                     /\ upload[u].lease >= now

Register(u, k) ==
  /\ evidence' = evidence \cup {[upload |-> u, token |-> k]}
  /\ upload' = [upload EXCEPT ![u].state = "COMPLETE", ![u].evidence = k,
                              ![u].token = NoToken, ![u].lease = 0]

CommitFinal(f) ==
  LET r == fin[f] IN
  /\ r.pc = "commit"
  /\ IF MayRegister(r.upload, r.token)
     THEN /\ Register(r.upload, r.token)
          /\ fin' = [fin EXCEPT ![f] = IdleFin]
          /\ acked' = acked \cup {CompleteAck(r.upload, r.expected, r.interrupted)}
     ELSE /\ fin' = [fin EXCEPT ![f].pc = "failed"]
          /\ UNCHANGED <<evidence, upload, acked>>
  /\ UNCHANGED <<now, attemptVars, storage, spent, put, late, saved>>

(* Any step throws; a commit that seems to have failed may still happen.   *)
FailFinish(f) ==
  /\ fin[f].pc \in {"assemble", "upload", "commit"}
  /\ fin' = [fin EXCEPT ![f].pc = "failed"]
  /\ late' = IF fin[f].pc = "commit"
             THEN late \cup {[upload |-> fin[f].upload, token |-> fin[f].token]}
             ELSE late
  /\ UNCHANGED <<now, attemptVars, upload, evidence, storage, spent, put, saved, acked>>

LateFinal(l) ==
  /\ l \in late
  /\ late' = late \ {l}
  /\ \/ MayRegister(l.upload, l.token) /\ Register(l.upload, l.token)
     \/ UNCHANGED <<evidence, upload>>
  /\ UNCHANGED <<now, attemptVars, storage, spent, put, fin, saved, acked>>

(* The catch block: a result that was committed is reported, the upload is *)
(* reopened if this request still holds it, the final object is kept.      *)
RecoverFinish(f) ==
  LET r == fin[f]
      u == r.upload
  IN /\ r.pc = "failed"
     /\ fin' = [fin EXCEPT ![f] = IdleFin]
     /\ acked' = IF CompletedAs(u, r.expected, r.interrupted)
                 THEN acked \cup {CompleteAck(u, r.expected, r.interrupted)}
                 ELSE acked
     /\ upload' = IF HoldsLease(f)
                  THEN [upload EXCEPT ![u].state = "OPEN", ![u].expected = 0,
                                      ![u].token = NoToken, ![u].lease = 0]
                  ELSE upload
     /\ UNCHANGED <<now, attemptVars, evidence, storage, spent, put, late, saved>>

(* The process dies, or the catch block cannot reach the database. *)
CrashFinish(f) ==
  /\ fin[f] # IdleFin
  /\ fin' = [fin EXCEPT ![f] = IdleFin]
  /\ UNCHANGED <<now, attemptVars, upload, evidence, storage, spent, put, late, saved, acked>>

-----------------------------------------------------------------------------
(* abort *)

AbortUpload(u) ==
  /\ In(u, {"OPEN", "FINALIZING"})
  /\ WindowOpen
  /\ upload' = [upload EXCEPT ![u].state = "ABORTED", ![u].token = NoToken,
                              ![u].lease = 0]
  /\ UNCHANGED <<now, attemptVars, evidence, storage, spent, requests, saved, acked>>

-----------------------------------------------------------------------------
(* The attempt: finished, reviewed, appealed (attempts, proctor) *)

rows == <<evidence, storage, spent, requests, saved, acked>>

(* submitAnswers or finalizeExpiredAttempt sets finishedAt. *)
FinishAttempt ==
  /\ finishedAt = -1
  /\ finishedAt' = now
  /\ UNCHANGED <<now, review, appeal, upload, rows>>

(* Mutant: recordings of every kind are there, others may still be coming. *)
EvidencePresent == \A kind \in Kinds : \E e \in evidence : Kind[e.upload] = kind

(* assertEvidenceReady, inside the transaction of the decision *)
EvidenceReady ==
  /\ \A u \in Uploads : IsUpload(u) => In(u, {"COMPLETE", "ABORTED"})
  /\ \A u \in Uploads : upload[u].state = "COMPLETE" =>
        [upload |-> u, token |-> upload[u].evidence] \in evidence
  /\ \A kind \in Kinds : \E e \in evidence : Kind[e.upload] = kind

(* reviewAttempt, first decision; an approval that cannot issue the        *)
(* certificate rolls back.                                                 *)
ReviewAttempt(decision) ==
  /\ finishedAt # -1
  /\ review = "PENDING"
  /\ decision = "APPROVED" => EvidenceReady
  /\ review' = decision
  /\ UNCHANGED <<now, finishedAt, appeal, upload, rows>>

(* Mutant: sessions being completed are not given the new window. *)
CreateAppealOpenOnly ==
  /\ review = "REJECTED"
  /\ appeal.state = "NONE"
  /\ appeal' = [state |-> "OPEN", createdAt |-> now]
  /\ upload' = [u \in Uploads |->
       IF In(u, {"OPEN"}) /\ upload[u].expiresAt < now + Window
       THEN [upload[u] EXCEPT !.expiresAt = now + Window] ELSE upload[u]]
  /\ UNCHANGED <<now, finishedAt, review, rows>>

(* createAppeal reopens the window for the sessions still unfinished. *)
CreateAppeal ==
  /\ review = "REJECTED"
  /\ appeal.state = "NONE"
  /\ appeal' = [state |-> "OPEN", createdAt |-> now]
  /\ upload' = [u \in Uploads |->
       IF In(u, {"OPEN", "FINALIZING"}) /\ upload[u].expiresAt < now + Window
       THEN [upload[u] EXCEPT !.expiresAt = now + Window] ELSE upload[u]]
  /\ UNCHANGED <<now, finishedAt, review, rows>>

(* resolveAppeal *)
ResolveAppeal(decision) ==
  /\ AppealOpen
  /\ appeal' = [appeal EXCEPT !.state = decision]
  /\ \/ decision = "UPHELD" /\ UNCHANGED review
     \/ decision = "OVERTURNED" /\ EvidenceReady /\ review' = "APPROVED"
  /\ UNCHANGED <<now, finishedAt, upload, rows>>

-----------------------------------------------------------------------------
PutNext(p) ==
  \/ \E u \in Uploads, i \in Index, d \in Data : BeginPut(p, u, i, d)
  \/ StoreChunk(p) \/ CommitChunk(p) \/ LoseChunkRace(p) \/ RejectChunk(p)
  \/ RemoveOwnChunk(p) \/ LosePut(p) \/ LateChunk(p)

FinishNext(f) ==
  \/ \E u \in Uploads, n \in 1..Chunks, flag \in Flags : Claim(f, u, n, flag)
  \/ AssembleChunk(f) \/ Heartbeat(f) \/ RenewBeforeUpload(f) \/ UploadFinal(f)
  \/ CommitFinal(f) \/ FailFinish(f) \/ RecoverFinish(f) \/ CrashFinish(f)

SessionNext(u) ==
  \/ CreateUpload(u) \/ AbortUpload(u)
  \/ \E i \in Index, d \in Data : RepeatChunk(u, i, d)
  \/ \E n \in 1..Chunks, flag \in Flags : RepeatComplete(u, n, flag)

AttemptNext ==
  \/ FinishAttempt
  \/ \E decision \in {"APPROVED", "REJECTED"} : ReviewAttempt(decision)
  \/ CreateAppeal
  \/ \E decision \in {"UPHELD", "OVERTURNED"} : ResolveAppeal(decision)

UploadNext ==
  \/ \E p \in Putters : PutNext(p)
  \/ \E f \in Finishers : FinishNext(f)
  \/ \E u \in Uploads : SessionNext(u)
  \/ \E l \in late : LateFinal(l)
  \/ AttemptNext
  \/ Tick

UploadSpec == Init /\ [][UploadNext]_vars

-----------------------------------------------------------------------------
(* Properties *)

ChunkRow == [object : Objects, data : Data]
ChunkRows == UNION {[S -> ChunkRow] : S \in SUBSET Index}

UploadRow ==
  [state : {"OPEN", "FINALIZING", "COMPLETE", "ABORTED"}, expiresAt : Nat,
   expected : 0..Chunks, interrupted : BOOLEAN, token : Tokens \cup {NoToken},
   lease : Nat, chunks : ChunkRows, bytes : Nat,
   evidence : Tokens \cup {NoToken}]

PutRow == [pc : {"send", "commit", "remove", "late"}, upload : Uploads,
           index : Index, data : Data, object : Objects]

FinRow == [pc : {"assemble", "upload", "commit", "failed"}, upload : Uploads,
           expected : 1..Chunks, interrupted : BOOLEAN, token : Tokens,
           chunks : ChunkRows, content : Seq(Data)]

(* Type correctness of the rows, the storage and the requests. *)
TypeOK ==
  /\ now \in Nat
  /\ finishedAt \in Nat \cup {-1}
  /\ review \in {"PENDING", "APPROVED", "REJECTED"}
  /\ appeal \in [state : {"NONE", "OPEN", "UPHELD", "OVERTURNED"}, createdAt : Nat]
  /\ upload \in [Uploads -> UploadRow \cup {NoUpload}]
  /\ evidence \in SUBSET [upload : Uploads, token : Tokens]
  /\ store \in [Objects -> Data \cup {NoData}]
  /\ final \in [Tokens -> Seq(Data)]
  /\ spent \in SUBSET (Objects \cup Tokens)
  /\ put \in [Putters -> PutRow \cup {IdlePut}]
  /\ fin \in [Finishers -> FinRow \cup {IdleFin}]
  /\ late \in SUBSET [upload : Uploads, token : Tokens]
  /\ saved \in [Uploads -> UNION {[S -> Data] : S \in SUBSET Index}]

(* A completed recording is stored, and is the concatenation of the chunks *)
(* first recorded for it, all of them: nothing that was recorded before    *)
(* completion is missing, whichever of several racing finalisations,       *)
(* takeovers and late commits produced it.                                 *)
EvidenceIntact ==
  \A u \in Uploads : upload[u].state = "COMPLETE" =>
    /\ [upload |-> u, token |-> upload[u].evidence] \in evidence
    /\ DOMAIN saved[u] = 0..(upload[u].expected - 1)
    /\ final[upload[u].evidence] =
         [j \in 1..upload[u].expected |-> saved[u][j - 1]]

(* A session yields at most one evidence file, and only a completed        *)
(* session has one: a finaliser that lost its lease registers nothing.     *)
OneEvidencePerUpload ==
  \A e \in evidence : /\ upload[e.upload].state = "COMPLETE"
                      /\ upload[e.upload].evidence = e.token

(* A chunk of a session that can still be completed is in the storage with *)
(* the recorded bytes: no request removes an object a row refers to, also  *)
(* when the outcome of the transaction that wrote the row was unknown.     *)
ReferencedChunksStored ==
  \A u \in Uploads : In(u, {"OPEN", "FINALIZING"}) =>
    \A i \in DOMAIN upload[u].chunks :
       store[upload[u].chunks[i].object] = upload[u].chunks[i].data

(* What a client was told is true for good: an acknowledged chunk is the   *)
(* one recorded, an acknowledged completion has those parameters.          *)
AcksHonoured ==
  \A a \in acked :
    IF a.what = "chunk"
    THEN a.index \in DOMAIN saved[a.upload] /\ saved[a.upload][a.index] = a.data
    ELSE /\ upload[a.upload].state = "COMPLETE"
         /\ upload[a.upload].expected = a.expected
         /\ upload[a.upload].interrupted = a.interrupted

(* The recordings of an attempt stay within its quota, twice that once it  *)
(* was appealed, however many chunks are committed at once; a session's    *)
(* byte count is the size of the chunks recorded for it.                   *)
QuotaHolds ==
  /\ TotalBytes <= (IF appeal.state = "NONE" THEN ByteLimit ELSE 2 * ByteLimit)
  /\ \A u \in Uploads : IsUpload(u) =>
       upload[u].bytes = MapThenSumSet(LAMBDA i : Size[saved[u][i]], DOMAIN saved[u])

(* An open appeal gives every unfinished session its whole new window,     *)
(* whether it was open, being completed, or has been reopened since.       *)
AppealExtendsSessions ==
  AppealOpen => \A u \in Uploads :
    In(u, {"OPEN", "FINALIZING"}) => upload[u].expiresAt >= RecordingDeadline

(* An attempt is approved only on finished recordings of every kind, and   *)
(* nothing is added, completed or reopened afterwards.                     *)
ApprovedIsSettled ==
  review = "APPROVED" =>
    /\ \A u \in Uploads : IsUpload(u) => In(u, {"COMPLETE", "ABORTED"})
    /\ \A kind \in Kinds : \E e \in evidence : Kind[e.upload] = kind

(* While the review is closed the evidence the reviewer saw cannot change, *)
(* although requests that began before the decision are still running.     *)
ClosedReviewFreezesEvidence ==
  [][(review # "PENDING" /\ ~ AppealOpen) =>
       /\ evidence' = evidence
       /\ saved' = saved]_vars

(* Completed and aborted sessions never change again, except that their    *)
(* staged chunk rows may be cleaned up.                                    *)
ClosedSessionsStay ==
  [][\A u \in Uploads : In(u, {"COMPLETE", "ABORTED"}) =>
       upload'[u] \in {upload[u], [upload[u] EXCEPT !.chunks = upload'[u].chunks]}]_vars

(* The promise of EvidenceVault, read off the rows. *)
VaultState(row) ==
  CASE row.state = "NONE"     -> "absent"
    [] row.state = "COMPLETE" -> "complete"
    [] row.state = "ABORTED"  -> "aborted"
    [] OTHER                  -> "open"

FilesOf(u) == {final[e.token] : e \in {e \in evidence : e.upload = u}}

Vault == INSTANCE EvidenceVault
           WITH state    <- [u \in Uploads |-> VaultState(upload[u])],
                pieces   <- saved,
                files    <- [u \in Uploads |-> FilesOf(u)],
                decision <- IF AppealOpen THEN "PENDING" ELSE review,
                appealed <- appeal.state # "NONE"

(* Leases, takeovers, unknown outcomes and late requests implement the     *)
(* vault: a recording only grows until it is one file, nothing changes     *)
(* while a decision stands, and an approval stands on finished recordings. *)
ImplementsVault == Vault!Spec
=============================================================================
