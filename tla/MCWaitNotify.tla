---------------------------- MODULE MCWaitNotify ----------------------------
(***************************************************************************)
(* Small instances of WaitNotify: one batch with one member.               *)
(***************************************************************************)
EXTENDS WaitNotify

CONSTANTS c1, c2, e1, b1, t1

MembersValue == [b \in Batches |-> {e1}]
==============================================================================
