--------------------------- MODULE MCRecordingUpload ---------------------------
(* Small instances of RecordingUpload for TLC. *)
EXTENDS RecordingUpload, TLC

CONSTANTS v1, v2, camera, x, y, o1, o2, k1, k2, p1, p2, f1, f2

MCKindOne == [u \in Uploads |-> camera]
MCSize    == [d \in Data |-> IF d = x THEN 1 ELSE 2]

RequestSymmetry ==
  Permutations(Objects) \cup Permutations(Tokens)
    \cup Permutations(Putters) \cup Permutations(Finishers)
=============================================================================
