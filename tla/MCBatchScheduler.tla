-------------------------- MODULE MCBatchScheduler --------------------------
(***************************************************************************)
(* Small instances of BatchScheduler: one batch of two or three members,   *)
(* and a standalone execution beside it.                                   *)
(***************************************************************************)
EXTENDS BatchScheduler, TLC

CONSTANTS e1, e2, e3, s1, b1

TwoMembers == b1 :> <<e1, e2>>
ThreeMembers == b1 :> <<e1, e2, e3>>
=============================================================================
