----------------------------- MODULE EvidenceVault -----------------------------
(***************************************************************************)
(* What the recordings of an attempt promise the student and the reviewer, *)
(* with no requests, leases, objects, clock or failures: a recording       *)
(* grows piece by piece until it is complete, and is then one file, the    *)
(* pieces in order; nothing grows or is completed while a decision stands; *)
(* an approval stands on finished recordings and for ever, a rejection may *)
(* be appealed once.                                                       *)
(***************************************************************************)
EXTENDS Integers

CONSTANTS Uploads, Kinds, Kind, Chunks, Data

VARIABLES
  state,     \* state[u]: absent, open, complete or aborted
  pieces,    \* pieces[u] maps an index to the piece recorded there
  files,     \* files[u]: the evidence files of u, each a sequence of pieces
  decision,  \* PENDING, also while an appeal is open, APPROVED or REJECTED
  appealed   \* an appeal was made

vault == <<state, pieces, files, decision, appealed>>

Init ==
  /\ state = [u \in Uploads |-> "absent"]
  /\ pieces = [u \in Uploads |-> [i \in {} |-> i]]
  /\ files = [u \in Uploads |-> {}]
  /\ decision = "PENDING"
  /\ appealed = FALSE

Open(u) ==
  /\ decision = "PENDING"
  /\ state[u] = "absent"
  /\ state' = [state EXCEPT ![u] = "open"]
  /\ UNCHANGED <<pieces, files, decision, appealed>>

(* Every index is recorded once. *)
Record(u, i, d) ==
  /\ decision = "PENDING"
  /\ state[u] = "open"
  /\ i \notin DOMAIN pieces[u]
  /\ pieces' = [pieces EXCEPT ![u] =
       [j \in DOMAIN pieces[u] \cup {i} |-> IF j = i THEN d ELSE pieces[u][j]]]
  /\ UNCHANGED <<state, files, decision, appealed>>

(* The recording is whole: it becomes a file, the only one it ever has. *)
Complete(u, n) ==
  /\ decision = "PENDING"
  /\ state[u] = "open"
  /\ DOMAIN pieces[u] = 0..(n - 1)
  /\ state' = [state EXCEPT ![u] = "complete"]
  /\ files' = [files EXCEPT ![u] = {[j \in 1..n |-> pieces[u][j - 1]]}]
  /\ UNCHANGED <<pieces, decision, appealed>>

Abort(u) ==
  /\ state[u] = "open"
  /\ state' = [state EXCEPT ![u] = "aborted"]
  /\ UNCHANGED <<pieces, files, decision, appealed>>

(* All recordings are finished, and there is a file of every kind. *)
Settled ==
  /\ \A u \in Uploads : state[u] # "open"
  /\ \A kind \in Kinds : \E u \in Uploads : Kind[u] = kind /\ files[u] # {}

Decide(d) ==
  /\ decision = "PENDING"
  /\ d = "APPROVED" => Settled
  /\ decision' = d
  /\ UNCHANGED <<state, pieces, files, appealed>>

Appeal ==
  /\ decision = "REJECTED"
  /\ ~ appealed
  /\ decision' = "PENDING"
  /\ appealed' = TRUE
  /\ UNCHANGED <<state, pieces, files>>

Next ==
  \/ \E u \in Uploads :
       \/ Open(u) \/ Abort(u)
       \/ \E i \in 0..(Chunks - 1), d \in Data : Record(u, i, d)
       \/ \E n \in 1..Chunks : Complete(u, n)
  \/ \E d \in {"APPROVED", "REJECTED"} : Decide(d)
  \/ Appeal

Spec == Init /\ [][Next]_vault
=============================================================================
