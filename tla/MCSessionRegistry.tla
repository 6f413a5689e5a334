-------------------------- MODULE MCSessionRegistry --------------------------
(***************************************************************************)
(* Small instances of SessionRegistry.                                     *)
(***************************************************************************)
EXTENDS SessionRegistry

CONSTANTS p1, p2
==============================================================================
