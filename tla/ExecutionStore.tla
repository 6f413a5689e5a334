--------------------------- MODULE ExecutionStore ---------------------------
(***************************************************************************)
(* The durable execution rows of one profile and session (storage.py) and  *)
(* the transactions on them.  A transaction is BEGIN IMMEDIATE ... COMMIT, *)
(* so each operator below is one atomic step; callers interleave between   *)
(* them.  A guard that the code checks inside the transaction and answers  *)
(* by raising is a separate predicate Can..., so that the caller can say   *)
(* what happens to the exception.                                          *)
(***************************************************************************)
EXTENDS Naturals, ExecutionStates

CONSTANT Keys   \* idempotency keys carried by start requests

VARIABLES
  state,        \* executions.state, "absent" when there is no row
  ev,           \* the evidence columns of each row
  src,          \* the ids whose source spool file exists on disk
  torn,         \* the ids whose output spool is longer than its index
  key,          \* executions.idempotency_key
  qat,          \* executions.queued_at, as a logical creation time
  clock         \* the next creation time

storeVars == <<state, ev, src, torn, key, qat, clock>>

Evidence ==
  [confirmed : BOOLEAN,                       \* dispatch_confirmed
   reply     : ValidReplies \cup {"none"},    \* reply_received, reply_status
   idle      : BOOLEAN,                       \* idle_received
   intent    : Intents,                       \* interrupt_requested_state
   finalized : BOOLEAN,                       \* output_finalized_at is set
   complete  : BOOLEAN,                       \* output_complete
   out       : Nat,                           \* indexed output events
   endpoint  : Nat,                           \* session_endpoint
   kernel    : Nat]                           \* kernel_id_snapshot

NewEvidence(endpoint) ==
  [confirmed |-> FALSE, reply |-> "none", idle |-> FALSE, intent |-> "none",
   finalized |-> FALSE, complete |-> TRUE, out |-> 0,
   endpoint |-> endpoint, kernel |-> 0]

StoreTypeOK ==
  /\ state \in [Executions -> ExecStates]
  /\ ev \in [Executions -> Evidence]
  /\ src \subseteq Executions
  /\ torn \subseteq Executions
  /\ key \in [Executions -> Keys \cup {None}]
  /\ qat \in [Executions -> Nat]
  /\ clock \in Nat

StoreInit ==
  /\ state = [e \in Executions |-> "absent"]
  /\ ev = [e \in Executions |-> NewEvidence(0)]
  /\ src = {}
  /\ torn = {}
  /\ key = [e \in Executions |-> None]
  /\ qat = [e \in Executions |-> 0]
  /\ clock = 1

Active == {e \in Executions : state[e] \in ActiveStates}
Queued == {e \in Executions : state[e] = "queued"}

\* The row that already carries an idempotency key, if any.
ExistingFor(k) == {e \in Executions : state[e] # "absent" /\ key[e] = k}

-----------------------------------------------------------------------------
(***************************************************************************)
(* create_execution: a known key returns its row (None: the request has no *)
(* key); otherwise the source spool is written and a queued row inserted.  *)
(* The kernel columns copied from the session row are overwritten by       *)
(* begin_dispatch before anything reads them.                              *)
(***************************************************************************)
CreateExecution(e, k, endpoint) ==
  /\ state[e] = "absent"
  /\ k # None => ExistingFor(k) = {}
  /\ endpoint # 0                       \* SESSION_NOT_FOUND otherwise
  /\ state' = [state EXCEPT ![e] = "queued"]
  /\ ev' = [ev EXCEPT ![e] = NewEvidence(endpoint)]
  /\ src' = src \cup {e}
  /\ key' = [key EXCEPT ![e] = k]
  /\ qat' = [qat EXCEPT ![e] = clock]
  /\ clock' = clock + 1
  /\ torn' = torn

\* read_execution_source: only while queued, and only if the spool survived.
CanReadSource(e) == state[e] = "queued" /\ e \in src

\* Mutant: the state is not checked again when the dispatch is recorded.
BeginDispatchUnchecked(e) == TRUE

CanBeginDispatch(e) == state[e] = "queued"

BeginDispatch(e, endpoint, kernel) ==
  /\ state' = [state EXCEPT ![e] = "dispatching"]
  /\ ev' = [ev EXCEPT ![e].endpoint = endpoint, ![e].kernel = kernel]
  /\ UNCHANGED <<src, torn, key, qat, clock>>

CanConfirmDispatch(e) == state[e] = "dispatching"

\* Mutant: the source spool is kept.
ConfirmKeepsSource(e) ==
  /\ state' = [state EXCEPT ![e] = "running"]
  /\ ev' = [ev EXCEPT ![e].confirmed = TRUE]
  /\ UNCHANGED <<src, torn, key, qat, clock>>

ConfirmDispatch(e) ==
  /\ state' = [state EXCEPT ![e] = "running"]
  /\ ev' = [ev EXCEPT ![e].confirmed = TRUE]
  /\ src' = src \ {e}
  /\ UNCHANGED <<torn, key, qat, clock>>

\* transition_execution: the graph, and finalized output before a terminal.
CanTransition(e, s) ==
  /\ s \in AllowedTransitions[state[e]]
  /\ s \in TerminalStates => ev[e].finalized

TransitionExecution(e, s) ==
  /\ state' = [state EXCEPT ![e] = s]
  /\ src' = IF s \in TerminalStates THEN src \ {e} ELSE src
  /\ UNCHANGED <<ev, torn, key, qat, clock>>

CanRecordEvidence(e) == state[e] \in {"running", "disconnected"}

RecordEvidence(e, reply, idle) ==
  /\ ev' = [ev EXCEPT
       ![e] = [@ EXCEPT !.reply = IF reply = "none" THEN ev[e].reply ELSE reply,
                        !.idle  = IF idle THEN TRUE ELSE ev[e].idle]]
  /\ UNCHANGED <<state, src, torn, key, qat, clock>>

CanAppendOutput(e) == ~ev[e].finalized

\* The spool is first cut at its index, and then grows with it.
AppendOutput(e) ==
  /\ ev' = [ev EXCEPT ![e].out = @ + 1]
  /\ torn' = torn \ {e}
  /\ UNCHANGED <<state, src, key, qat, clock>>

MarkOutputIncomplete(e) ==
  /\ ev' = [ev EXCEPT ![e].complete = FALSE]
  /\ UNCHANGED <<state, src, torn, key, qat, clock>>

\* A spool longer than its index is refused; without an event there is none.
CanFinalizeOutput(e) == ev[e].finalized \/ e \notin torn \/ ev[e].out = 0

FinalizeOutput(e) ==
  /\ ev' = [ev EXCEPT ![e].finalized = TRUE]
  /\ UNCHANGED <<state, src, torn, key, qat, clock>>

\* increment_reconnect_count: the count is only reported; its guard matters.
CanCountReconnect(e) == state[e] = "disconnected"

(***************************************************************************)
(* request_execution_cancel: a terminal row is returned as it is, a queued *)
(* row is interrupted (and its empty output finalized) at once, and an     *)
(* active row only records the intent.                                     *)
(***************************************************************************)
RequestCancel(e) ==
  /\ state[e] \notin {"absent"} \cup TerminalStates
  /\ ev' = [ev EXCEPT
       ![e] = [@ EXCEPT !.intent = "interrupted",
                        !.finalized = IF state[e] = "queued" THEN TRUE
                                      ELSE ev[e].finalized]]
  /\ state' = [state EXCEPT ![e] = IF state[e] = "queued" THEN "interrupted"
                                    ELSE state[e]]
  /\ src' = IF state[e] = "queued" THEN src \ {e} ELSE src
  /\ UNCHANGED <<torn, key, qat, clock>>

\* request_execution_timeout: ignored outside running and disconnected.
RequestTimeout(e) ==
  /\ ev' = IF state[e] \in {"running", "disconnected"}
           THEN [ev EXCEPT ![e].intent = "timed_out"] ELSE ev
  /\ UNCHANGED <<state, src, torn, key, qat, clock>>

\* _terminal_state_from_evidence, on the committed columns.
TerminalFromEvidence(e) ==
  TerminalState(ev[e].reply, ev[e].idle, ev[e].intent)
=============================================================================
