---------------------------- MODULE MCSessionLease ----------------------------
(***************************************************************************)
(* Small instances of SessionLease.                                        *)
(***************************************************************************)
EXTENDS SessionLease, TLC

CONSTANTS c1, c2, p1, p2

Symmetry == Permutations(Clients) \cup Permutations(Probers)
==============================================================================
