-------------------------- MODULE MCRecordingCleanup --------------------------
(* A small instance of RecordingCleanup for TLC. *)
EXTENDS RecordingCleanup

CONSTANTS v1, camera, x, o1, k1, p1, f1

MCKindOne == [u \in Uploads |-> camera]
MCSize    == [d \in Data |-> 1]
=============================================================================
