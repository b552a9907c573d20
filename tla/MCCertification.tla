---------------------------- MODULE MCCertification ----------------------------
(* Instances of Certification: one legacy attempt and one to be started.   *)
EXTENDS Certification, TLC
CONSTANTS a1, a2, p1, p2, admin, student, c1
ProctorSymmetry == Permutations({p1, p2})
=============================================================================
