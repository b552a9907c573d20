---------------------------- MODULE MCProctorFeed ----------------------------
(* One watching proctor: pages meet only in the set of the room's sockets. *)
EXTENDS ProctorFeed
CONSTANT p1
=============================================================================
