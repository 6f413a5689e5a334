------------------------------ MODULE OutputLog ------------------------------
(***************************************************************************)
(* What the output of one execution promises to its readers: a text that   *)
(* only grows, that finalization freezes, and that a prune removes as a    *)
(* whole, and only after it was frozen.  OutputSpool, where the text is    *)
(* spread over a file and a database index, is shown to implement it.      *)
(***************************************************************************)
EXTENDS Naturals, Sequences

VARIABLES text, sealed, dropped

logVars == <<text, sealed, dropped>>

LogInit == text = <<>> /\ sealed = FALSE /\ dropped = FALSE

Extend ==
  /\ ~sealed /\ ~dropped
  /\ Len(text') >= Len(text)
  /\ \A i \in 1..Len(text) : text'[i] = text[i]
  /\ UNCHANGED <<sealed, dropped>>

Seal ==
  /\ ~sealed /\ ~dropped
  /\ sealed' = TRUE
  /\ UNCHANGED <<text, dropped>>

Drop ==
  /\ sealed /\ ~dropped
  /\ dropped' = TRUE /\ text' = <<>>
  /\ UNCHANGED sealed

LogNext == Extend \/ Seal \/ Drop

LogSpec == LogInit /\ [][LogNext]_logVars
==============================================================================
