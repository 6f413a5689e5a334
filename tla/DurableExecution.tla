-------------------------- MODULE DurableExecution --------------------------
(***************************************************************************)
(* What a client of the controller may rely on, without workers, wires,    *)
(* crashes or files: an accepted execution is handed to the kernel at most *)
(* once, and it settles on what the kernel answered, on a withdrawal       *)
(* before anything was handed over, or on "unknown".                       *)
(***************************************************************************)
EXTENDS Naturals, ExecutionStates

VARIABLES
  state,     \* the state a status query reports
  sent,      \* how often the request was handed to the kernel
  answers    \* what the kernel answered

promiseVars == <<state, sent, answers>>

Init ==
  /\ state = [e \in Executions |-> "absent"]
  /\ sent = [e \in Executions |-> 0]
  /\ answers = [e \in Executions |-> {}]

Moves(e, from, to) ==
  /\ state[e] \in from
  /\ state' = [state EXCEPT ![e] = to]
  /\ UNCHANGED <<sent, answers>>

Accept(e) == Moves(e, {"absent"}, "queued")

\* Cancelled, or impossible to dispatch: the request never left.
Withdraw(e) == sent[e] = 0 /\ Moves(e, {"queued"}, "interrupted")

\* The decision to dispatch is durable before the request leaves.
Decide(e) == sent[e] = 0 /\ Moves(e, {"queued"}, "dispatching")

HandOver(e) ==
  /\ state[e] \in {"dispatching", "unknown"} /\ sent[e] = 0
  /\ sent' = [sent EXCEPT ![e] = 1]
  /\ UNCHANGED <<state, answers>>

Answer(e, r) ==
  /\ sent[e] = 1
  /\ answers' = [answers EXCEPT ![e] = @ \cup {r}]
  /\ UNCHANGED <<state, sent>>

\* The kernel was seen at work on it.
Observe(e) == sent[e] = 1 /\ Moves(e, {"dispatching"}, "running")

Lose(e) == Moves(e, {"running"}, "disconnected")

\* The answers that justify each proven outcome.
Justified(e, s) ==
  \/ s = "finished"    /\ "ok" \in answers[e]
  \/ s = "error"       /\ answers[e] \cap {"error", "abort"} # {}
  \/ s = "interrupted" /\ "abort" \in answers[e]
  \/ s = "timed_out"   /\ "abort" \in answers[e] /\ e \in Timed

Settle(e, s) == Justified(e, s) /\ Moves(e, {"running", "disconnected"}, s)

GiveUp(e) == Moves(e, {"dispatching", "disconnected"}, "unknown")

Next ==
  \E e \in Executions :
    \/ Accept(e) \/ Withdraw(e) \/ Decide(e) \/ HandOver(e)
    \/ \E r \in ReplyKinds : Answer(e, r)
    \/ Observe(e) \/ Lose(e)
    \/ \E s \in TerminalStates : Settle(e, s)
    \/ GiveUp(e)

Spec == Init /\ [][Next]_promiseVars
=============================================================================
