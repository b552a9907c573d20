---------------------------- MODULE RecordingCleanup ----------------------------
(***************************************************************************)
(* RecordingUpload together with the operator's cleanup command            *)
(* (cleanupStaged, run by `npm run recordings:cleanup -- --apply`).  It    *)
(* runs outside any transaction: it reads sessions and objects first and   *)
(* acts on what it read later, one object at a time, while uploads go on.  *)
(*                                                                         *)
(* A run handles sessions and objects one after the other, each from a     *)
(* snapshot of its own, so one session or one object at a time is enough.  *)
(* The age floor of 24 hours is the set "aged".  It is taken to be longer  *)
(* than any putChunk request and any commit whose outcome is unknown;      *)
(* nothing of the kind is assumed of a finalisation, which may be renewed  *)
(* for ever.  Local temporary files are not modelled.                      *)
(***************************************************************************)
EXTENDS RecordingUpload

(* Keys of staged objects and tokens are random and do not meet. *)
ASSUME KeyAssumption == Objects \cap Tokens = {}

VARIABLES
  cleaner,  \* what the command is doing
  aged      \* stored keys and tokens older than UPLOAD_GRACE_MS

cvars == <<vars, cleaner, aged>>

IdleCleaner == [pc |-> "idle"]

CleanupInit == Init /\ cleaner = IdleCleaner /\ aged = {}

ChunkObjects(u) == {upload[u].chunks[i].object : i \in DOMAIN upload[u].chunks}

(* An object crosses the age floor; the request that wrote it is long over. *)
AgeObject(o) ==
  /\ store[o] # NoData
  /\ \A p \in Putters : put[p] # IdlePut => put[p].object # o
  /\ aged' = aged \cup {o}
  /\ UNCHANGED <<vars, cleaner>>

AgeFinal(k) ==
  /\ final[k] # <<>>
  /\ aged' = aged \cup {k}
  /\ UNCHANGED <<vars, cleaner>>

(* Open, or held by a finaliser that is gone, and past its time at t. *)
Overdue(u, t) ==
  /\ In(u, {"OPEN", "FINALIZING"})
  /\ upload[u].expiresAt < t
  /\ upload[u].state = "FINALIZING" => upload[u].lease < t

(* Mutant: sessions left FINALIZING are forgotten. *)
WantsOpen(u) == In(u, {"OPEN"}) /\ Overdue(u, now)

(* The findMany: an overdue session, or a closed one with chunks left. *)
Wants(u) ==
  \/ Overdue(u, now) /\ ~ (AppealOpen /\ RecordingDeadline > now)
  \/ In(u, {"ABORTED"}) /\ DOMAIN upload[u].chunks # {}
  \/ In(u, {"COMPLETE"}) /\ upload[u].expiresAt < now /\ DOMAIN upload[u].chunks # {}

ReadSession(u) ==
  /\ cleaner = IdleCleaner
  /\ Wants(u)
  /\ cleaner' = [pc |-> IF Overdue(u, now) THEN "close" ELSE "remove",
                 upload |-> u, now |-> now, objects |-> ChunkObjects(u)]
  /\ UNCHANGED <<vars, aged>>

(* Mutant: the removal goes on although the session was not closed. *)
CloseSessionAnyway(u) ==
  /\ cleaner.pc = "close"
  /\ cleaner.upload = u
  /\ upload' = IF Overdue(u, cleaner.now)
               THEN [upload EXCEPT ![u].state = "ABORTED",
                                   ![u].token = NoToken, ![u].lease = 0]
               ELSE upload
  /\ cleaner' = [cleaner EXCEPT !.pc = "remove"]
  /\ UNCHANGED <<now, attemptVars, evidence, storage, spent, requests, saved, acked, aged>>

(* The conditional update closes it only if it is still overdue. *)
CloseSession(u) ==
  /\ cleaner.pc = "close"
  /\ cleaner.upload = u
  /\ IF Overdue(u, cleaner.now)
     THEN /\ upload' = [upload EXCEPT ![u].state = "ABORTED",
                                      ![u].token = NoToken, ![u].lease = 0]
          /\ cleaner' = [cleaner EXCEPT !.pc = "remove"]
     ELSE /\ cleaner' = IdleCleaner
          /\ UNCHANGED upload
  /\ UNCHANGED <<now, attemptVars, evidence, storage, spent, requests, saved, acked, aged>>

(* The objects of the chunks read before are removed one by one ... *)
RemoveStaged(o) ==
  /\ cleaner.pc = "remove"
  /\ o \in cleaner.objects
  /\ store' = [store EXCEPT ![o] = NoData]
  /\ aged' = aged \ {o}
  /\ cleaner' = [cleaner EXCEPT !.objects = @ \ {o}]
  /\ UNCHANGED <<now, attemptVars, upload, evidence, final, spent, requests, saved, acked>>

(* ... and then the chunk rows, if the session is closed. *)
DeleteRows(u) ==
  /\ cleaner.pc = "remove"
  /\ cleaner.upload = u
  /\ cleaner.objects = {}
  /\ upload' = IF In(u, {"COMPLETE", "ABORTED"})
               THEN [upload EXCEPT ![u].chunks = <<>>] ELSE upload
  /\ cleaner' = IdleCleaner
  /\ UNCHANGED <<now, attemptVars, evidence, storage, spent, requests, saved, acked, aged>>

(* Mutant: nothing is swept while any session is open. *)
FindOrphanClosed(o) ==
  /\ cleaner = IdleCleaner
  /\ o \in aged
  /\ store[o] # NoData
  /\ Unreferenced(o)
  /\ \A u \in Uploads : ~ In(u, {"OPEN"})
  /\ cleaner' = [pc |-> "orphan", object |-> o]
  /\ UNCHANGED <<vars, aged>>

(* An old staged object without a row; removeUnreferenced looks again. *)
FindOrphan(o) ==
  /\ cleaner = IdleCleaner
  /\ o \in aged
  /\ store[o] # NoData
  /\ Unreferenced(o)
  /\ cleaner' = [pc |-> "orphan", object |-> o]
  /\ UNCHANGED <<vars, aged>>

RemoveOrphan(o) ==
  /\ cleaner.pc = "orphan"
  /\ cleaner.object = o
  /\ store' = [store EXCEPT ![o] = NoData]
  /\ aged' = aged \ {o}
  /\ cleaner' = IdleCleaner
  /\ UNCHANGED <<now, attemptVars, upload, evidence, final, spent, requests, saved, acked>>

(* Mutant: only the sessions that were completed are swept. *)
FindFinalCompleted(k) ==
  /\ cleaner = IdleCleaner
  /\ k \in aged
  /\ final[k] # <<>>
  /\ \E u \in Uploads : In(u, {"COMPLETE"})
  /\ cleaner' = [pc |-> "final", token |-> k]
  /\ UNCHANGED <<vars, aged>>

(* An old final object: first its session's row is read ... *)
FindFinal(k) ==
  /\ cleaner = IdleCleaner
  /\ k \in aged
  /\ final[k] # <<>>
  /\ ~ \E u \in Uploads : upload[u].state = "FINALIZING" /\ upload[u].token = k
  /\ cleaner' = [pc |-> "final", token |-> k]
  /\ UNCHANGED <<vars, aged>>

IsHeld(k) == \E u \in Uploads : IsUpload(u) /\ upload[u].token = k  \* mutant

IsEvidence(k) == \E e \in evidence : e.token = k

(* ... then the evidence rows ... *)
CheckFinal(k) ==
  /\ cleaner.pc = "final"
  /\ cleaner.token = k
  /\ cleaner' = IF IsEvidence(k)
                THEN IdleCleaner ELSE [cleaner EXCEPT !.pc = "finalRemove"]
  /\ UNCHANGED <<vars, aged>>

(* ... and then it is removed. *)
RemoveFinal(k) ==
  /\ cleaner.pc = "finalRemove"
  /\ cleaner.token = k
  /\ final' = [final EXCEPT ![k] = <<>>]
  /\ aged' = aged \ {k}
  /\ cleaner' = IdleCleaner
  /\ UNCHANGED <<now, attemptVars, upload, evidence, store, spent, requests, saved, acked>>

(* The command fails or is interrupted between any two of its steps. *)
CleanerStops ==
  /\ cleaner # IdleCleaner
  /\ cleaner' = IdleCleaner
  /\ UNCHANGED <<vars, aged>>

CleanerNext ==
  \/ \E o \in Objects : AgeObject(o) \/ RemoveStaged(o) \/ FindOrphan(o) \/ RemoveOrphan(o)
  \/ \E k \in Tokens : AgeFinal(k) \/ FindFinal(k) \/ CheckFinal(k) \/ RemoveFinal(k)
  \/ \E u \in Uploads : ReadSession(u) \/ CloseSession(u) \/ DeleteRows(u)
  \/ CleanerStops

CleanupNext == \/ UploadNext /\ UNCHANGED <<cleaner, aged>>
               \/ CleanerNext

CleanupSpec == CleanupInit /\ [][CleanupNext]_cvars

-----------------------------------------------------------------------------
(* The operator runs the command again and again, continuing where the     *)
(* last run stopped (docs/RECORDINGS_AND_APPEALS.md), so every session and *)
(* every object that qualifies again and again is found again and again; a *)
(* run goes on to its end, and runs stop failing some day (a step that     *)
(* finds nothing to do ends the run too: it is no failure).  Objects left  *)
(* alone grow old.  Requests need no fairness.                             *)
Proceed ==
  \/ \E u \in Uploads : CloseSession(u) \/ DeleteRows(u)
  \/ \E o \in Objects : RemoveStaged(o) \/ RemoveOrphan(o)
  \/ \E k \in Tokens : CheckFinal(k) \/ RemoveFinal(k)

Fairness ==
  /\ WF_cvars(Proceed)
  /\ <>[][CleanerStops => Proceed]_cvars
  /\ \A u \in Uploads : SF_cvars(ReadSession(u))
  /\ \A o \in Objects : SF_cvars(FindOrphan(o)) /\ WF_cvars(AgeObject(o) /\ o \notin aged)
  /\ \A k \in Tokens : SF_cvars(FindFinal(k)) /\ WF_cvars(AgeFinal(k) /\ k \notin aged)

FairCleanupSpec == CleanupSpec /\ Fairness

(* A session that nobody finished in time does not stay open for ever: it  *)
(* is closed, unless an appeal renews it or a finaliser takes it over.     *)
OverdueSessionsClose ==
  \A u \in Uploads :
    (Overdue(u, now) /\ ~ AppealOpen) ~> (~ Overdue(u, now) \/ AppealOpen)

(* A staged object that no row refers to and no request will ever record   *)
(* is eventually removed, whatever crash or lost answer left it behind.    *)
OrphansRemoved ==
  \A o \in Objects :
    (/\ store[o] # NoData
     /\ Unreferenced(o)
     /\ \A p \in Putters : put[p] # IdlePut => put[p].object # o)
      ~> store[o] = NoData

(* So is a final object, unless it becomes evidence or a finaliser that    *)
(* holds its session, or has not ended yet, may still make it evidence.    *)
FinalsBecomeEvidenceOrGo ==
  \A k \in Tokens :
    final[k] # <<>> ~>
      (\/ final[k] = <<>>
       \/ \E e \in evidence : e.token = k
       \/ \E u \in Uploads : In(u, {"FINALIZING"}) /\ upload[u].token = k
       \/ \E f \in Finishers : fin[f] # IdleFin /\ fin[f].token = k)
=============================================================================
