-------------------------- MODULE ExecutionStates --------------------------
(***************************************************************************)
(* The vocabulary shared by every module about durable executions: the     *)
(* states of an execution row, the transition graph the store enforces,    *)
(* and the rules that turn kernel evidence into a terminal state.          *)
(*                                                                         *)
(* A kernel reply is abstracted to what the rules tell apart:              *)
(*   "ok"        execute_reply with status ok                              *)
(*   "error"     status error with an ordinary exception name              *)
(*   "abort"     status aborted, or an interrupt-like exception name       *)
(*   "malformed" a reply whose status is none of ok, error, aborted        *)
(***************************************************************************)

EXTENDS FiniteSets

CONSTANTS
  Executions,   \* execution ids
  Timed,        \* the executions started with an execution timeout
  None          \* no execution, no idempotency key

ASSUME ExecutionsAssumption == IsFiniteSet(Executions)
ASSUME NoneAssumption == None \notin Executions
ASSUME TimedAssumption == Timed \subseteq Executions

TerminalStates == {"finished", "error", "interrupted", "timed_out", "unknown"}

\* Dispatched rows whose outcome is not settled.
ActiveStates == {"dispatching", "running", "disconnected"}

\* "absent" stands for an execution id that has no row yet.
ExecStates == {"absent", "queued"} \cup ActiveStates \cup TerminalStates

(***************************************************************************)
(* The graph enforced by transition_execution, begin_dispatch,             *)
(* confirm_dispatch and request_execution_cancel.  The code's "created" is *)
(* written to the history in the same transaction as "queued" and is never *)
(* the state of a committed row.                                           *)
(***************************************************************************)
AllowedTransitions ==
  [s \in ExecStates |->
     CASE s = "absent"       -> {"queued"}
       [] s = "queued"       -> {"dispatching", "interrupted"}
       [] s = "dispatching"  -> {"running", "unknown"}
       [] s = "running"      -> {"finished", "error", "interrupted",
                                 "timed_out", "disconnected"}
       [] s = "disconnected" -> {"running", "finished", "error", "interrupted",
                                 "timed_out", "unknown"}
       [] OTHER              -> {}]

\* Reply statuses that ExecutionProof accepts, and all that a kernel sends.
ValidReplies == {"ok", "error", "abort"}
ReplyKinds == ValidReplies \cup {"malformed"}

\* The terminal an interrupt was requested for ("none": no interrupt).
Intents == {"none", "interrupted", "timed_out"}

\* Mutants: the requested outcome for any failed reply; no wait for idle.
IntentOverridesReply(reply, idle, intent) ==
  IF reply = "none" \/ ~idle THEN "none"
  ELSE IF reply = "ok" THEN "finished"
  ELSE IF intent # "none" THEN intent
  ELSE "error"

ReplyAloneSettles(reply, idle, intent) ==
  IF reply = "none" THEN "none"
  ELSE IF reply = "ok" THEN "finished"
  ELSE IF reply = "abort" /\ intent # "none" THEN intent
  ELSE "error"

(***************************************************************************)
(* The terminal state proved by a reply, an idle status and an interrupt   *)
(* intent, or "none".  ExecutionProof applies it to the evidence in memory *)
(* and reconcile_after_restart to the evidence in the row.                 *)
(***************************************************************************)
TerminalState(reply, idle, intent) ==
  IF reply = "none" \/ ~idle THEN "none"
  ELSE IF reply = "ok" THEN "finished"
  ELSE IF reply = "abort" /\ intent # "none" THEN intent
  ELSE "error"

\* request_interrupt of the live proof: a timeout is sticky.
RequestInterrupt(want, intent) == IF want = "timed_out" THEN want ELSE intent
=============================================================================
