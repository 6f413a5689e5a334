---------------------------- MODULE MCOutputSpool ----------------------------
(***************************************************************************)
(* A small instance of OutputSpool: a text of three characters whose last  *)
(* one straddles the limit of the first chunk.                             *)
(***************************************************************************)
EXTENDS OutputSpool, TLC

MCTexts == {<< <<1, 2>>, <<2, 2>>, <<1, 1>>, <<1, 2>>, <<2, 2>> >>}
=============================================================================
