-------------------------- MODULE MCNotebookDocument --------------------------
(***************************************************************************)
(* A notebook of two cells, edited, executed and written back.             *)
(***************************************************************************)
EXTENDS NotebookDocument

CONSTANTS p1, p2
==============================================================================
