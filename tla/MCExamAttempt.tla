---------------------------- MODULE MCExamAttempt ----------------------------
(* Small instances of ExamAttempt for TLC. *)
EXTENDS ExamAttempt, TLC

CONSTANTS u1, u2, t1, t2, a1, a2, a3, q1, yes, Yes

MCOwnerOne == [t \in Tabs |-> u1]
MCOwnerTwo == (t1 :> u1) @@ (t2 :> u2)
MCCanonical == [x \in Answers |-> IF x = Yes THEN yes ELSE x]

TabSymmetry == Permutations(Tabs)

(* The students may change places, each with their own tab. *)
SwapStudents == (u1 :> u2) @@ (u2 :> u1) @@ (t1 :> t2) @@ (t2 :> t1)

RulesSymmetry == Permutations(Attempts) \cup {SwapStudents}
=============================================================================
