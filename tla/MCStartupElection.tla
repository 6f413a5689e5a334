------------------------- MODULE MCStartupElection -------------------------
(***************************************************************************)
(* Small instances of StartupElection.                                     *)
(***************************************************************************)
EXTENDS StartupElection, TLC

CONSTANTS c1, c2, c3, p1, p2, p3

Symmetry == Permutations(Clients) \cup Permutations(Servers)
=============================================================================
