------------------------------- MODULE MCAuthTabs -------------------------------
(* The instance TLC checks: two accounts in two tabs of one browser. *)
EXTENDS AuthTabs, TLC

CONSTANTS ann, bob, t1, t2

AuthSymmetry == Permutations(Users) \cup Permutations(Tabs)
=============================================================================
