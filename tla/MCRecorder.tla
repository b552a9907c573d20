------------------------------- MODULE MCRecorder -------------------------------
(* Instances of Recorder: two tabs, one recording and its clone. *)
EXTENDS Recorder, TLC
CONSTANTS t1, t2, s1, s2
RecorderSymmetry == Permutations(Tabs) \cup Permutations(Sessions)
=============================================================================
