----------------------------- MODULE KernelLink -----------------------------
(***************************************************************************)
(* The Colab kernel, the runtime it lives on and the websocket that        *)
(* KernelTransportAdapter wraps.  The kernel and its server are external:  *)
(* they are modelled by what the adapter and the worker rely on.  The      *)
(* kernel answers its requests one at a time and in order; for an execute  *)
(* request it publishes busy, any outputs and idle on iopub, and one reply *)
(* on shell before the idle.  The two channels are independent queues.     *)
(*                                                                         *)
(* tr is the worker's transport: "none" (not connected), "up", or "down"   *)
(* (the websocket is gone but the adapter still holds received messages).  *)
(* While there is no transport the server may buffer what the kernel       *)
(* publishes or lose it; what is published on a broken websocket is lost.  *)
(***************************************************************************)
EXTENDS Naturals, Sequences, ExecutionStates

CONSTANTS
  Replies,      \* the kinds of execute_reply this kernel gives
  MaxOut,       \* outputs one execution may publish
  Faults,       \* the kinds of fault the environment may inject
  MaxFaults     \* how many faults may happen altogether

ASSUME LinkAssumption ==
  /\ Replies \subseteq ReplyKinds
  /\ MaxOut \in Nat
  /\ MaxFaults \in Nat

VARIABLES
  session,      \* endpoint in the session row, 0 when the row is missing
  kernel,       \* identity of the kernel a new connection reaches, 0: none
  gen,          \* generator of fresh endpoint and kernel identities
  kq,           \* requests the kernel holds; the head is being executed
  phase,        \* progress on the head: "waiting", "busy" or "replied"
  kout,         \* outputs the kernel published for each execution
  answers,      \* the replies the kernel gave to each execution
  tr, shell, iopub,
  peer,         \* kernel_id of the transport's kernel
  faults        \* faults injected so far

kernelVars == <<session, kernel, gen, kq, phase, kout, answers>>
wireVars == <<tr, shell, iopub, peer>>
linkVars == <<kernelVars, wireVars, faults>>

\* An execute_request for e, and the n-th kernel_info_request.
ExecRequest(e) == [exec |-> e, info |-> 0]
InfoRequest(n) == [exec |-> None, info |-> n]
Requests == [exec : Executions \cup {None}, info : Nat]

\* A message and the request named in its parent_header.
Kinds == {"busy", "output", "idle", "info"} \cup ReplyKinds
Messages == [parent : Requests, kind : Kinds]

LinkTypeOK ==
  /\ session \in Nat
  /\ kernel \in Nat
  /\ gen \in Nat
  /\ kq \in Seq(Requests)
  /\ phase \in {"waiting", "busy", "replied"}
  /\ kout \in [Executions -> Nat]
  /\ answers \in [Executions -> SUBSET ReplyKinds]
  /\ tr \in {"none", "up", "down"}
  /\ shell \in Seq(Messages)
  /\ iopub \in Seq(Messages)
  /\ peer \in Nat
  /\ faults \in 0..MaxFaults

LinkInit ==
  /\ session = 1 /\ kernel = 1 /\ gen = 1
  /\ kq = <<>> /\ phase = "waiting"
  /\ kout = [e \in Executions |-> 0]
  /\ answers = [e \in Executions |-> {}]
  /\ tr = "none" /\ shell = <<>> /\ iopub = <<>> /\ peer = 0
  /\ faults = 0

\* Spend one unit of the fault budget on a fault of the given kind.
Fault(kind) ==
  /\ kind \in Faults
  /\ faults < MaxFaults
  /\ faults' = faults + 1

-----------------------------------------------------------------------------
\* Deliver m on a channel: received, buffered by the server, or lost.
Publish(q, m) ==
  CASE tr = "up"   -> {Append(q, m)}
    [] tr = "none" -> {Append(q, m), q}
    [] OTHER       -> {q}

Current == Head(kq)
Executing == kq # <<>> /\ Current.exec # None

KernelBusy ==
  /\ kq # <<>> /\ phase = "waiting"
  /\ phase' = "busy"
  /\ IF Executing
     THEN iopub' \in Publish(iopub, [parent |-> Current, kind |-> "busy"])
     ELSE iopub' = iopub
  /\ UNCHANGED <<session, kernel, gen, kq, kout, answers, tr, shell, peer, faults>>

KernelOutput ==
  /\ Executing /\ phase = "busy"
  /\ kout[Current.exec] < MaxOut
  /\ kout' = [kout EXCEPT ![Current.exec] = @ + 1]
  /\ iopub' \in Publish(iopub, [parent |-> Current, kind |-> "output"])
  /\ UNCHANGED <<session, kernel, gen, kq, phase, answers, tr, shell, peer, faults>>

KernelReply ==
  /\ kq # <<>> /\ phase = "busy"
  /\ phase' = "replied"
  /\ \E r \in (IF Executing THEN Replies ELSE {"info"}) :
       /\ answers' = IF Executing
                     THEN [answers EXCEPT ![Current.exec] = @ \cup {r}]
                     ELSE answers
       /\ shell' \in Publish(shell, [parent |-> Current, kind |-> r])
  /\ UNCHANGED <<session, kernel, gen, kq, kout, tr, iopub, peer, faults>>

KernelIdle ==
  /\ kq # <<>> /\ phase = "replied"
  /\ phase' = "waiting"
  /\ kq' = Tail(kq)
  /\ iopub' \in Publish(iopub, [parent |-> Current, kind |-> "idle"])
  /\ UNCHANGED <<session, kernel, gen, kout, answers, tr, shell, peer, faults>>

Kernel == KernelBusy \/ KernelOutput \/ KernelReply \/ KernelIdle

-----------------------------------------------------------------------------
\* The websocket breaks; messages already received stay in the adapter.
WireDrop ==
  /\ tr = "up" /\ Fault("drop")
  /\ tr' = "down"
  /\ UNCHANGED <<kernelVars, shell, iopub, peer>>

\* What the loss of the kernel process does to the other side of the wire.
KernelGone ==
  /\ kq' = <<>> /\ phase' = "waiting"
  /\ tr' = IF tr = "up" THEN "down" ELSE tr
  /\ shell' = IF tr = "none" THEN <<>> ELSE shell
  /\ iopub' = IF tr = "none" THEN <<>> ELSE iopub
  /\ UNCHANGED <<kout, answers, peer>>

\* A restart keeps the kernel's identity and forgets its requests.
KernelRestart ==
  /\ kernel # 0 /\ Fault("restart")
  /\ KernelGone
  /\ UNCHANGED <<session, kernel, gen>>

\* A new kernel process under the same endpoint.
KernelReplace ==
  /\ kernel # 0 /\ Fault("replace")
  /\ KernelGone
  /\ gen' = gen + 1 /\ kernel' = gen + 1
  /\ UNCHANGED session

\* Another client's stop_session: the runtime and the session row go.
SessionRemove ==
  /\ session # 0 /\ Fault("session")
  /\ KernelGone
  /\ session' = 0 /\ kernel' = 0
  /\ UNCHANGED gen

\* ensure_session allocates a new runtime under the same name.
SessionEnsure ==
  /\ session = 0
  /\ gen' = gen + 1 /\ session' = gen + 1 /\ kernel' = gen + 1
  /\ UNCHANGED <<kq, phase, kout, answers, wireVars, faults>>

LinkFault ==
  WireDrop \/ KernelRestart \/ KernelReplace \/ SessionRemove \/ SessionEnsure

-----------------------------------------------------------------------------
(***************************************************************************)
(* The adapter's operations, as the worker calls them.                     *)
(***************************************************************************)

\* The transport factory reaches the runtime of the session it was given,
\* while that runtime exists.
Connect(endpoint) ==
  /\ tr = "none" /\ session = endpoint /\ session # 0
  /\ tr' = "up" /\ peer' = kernel
  /\ UNCHANGED <<kernelVars, shell, iopub, faults>>

ConnectFails(endpoint) ==
  /\ tr = "none"
  /\ \/ session # endpoint /\ faults' = faults
     \/ Fault("connect")
  /\ UNCHANGED <<kernelVars, wireVars>>

\* send returns: the request reached the kernel, or vanished on a dead wire.
SendReturns(r) ==
  /\ tr # "none"
  /\ kq' = IF tr = "up" THEN Append(kq, r) ELSE kq
  /\ UNCHANGED <<session, kernel, gen, phase, kout, answers, wireVars, faults>>

\* send raises: on a dead wire, or on a live one with delivery unknown.
SendRaises(r) ==
  /\ \/ tr = "down" /\ faults' = faults /\ kq' = kq
     \/ tr = "up" /\ Fault("send") /\ kq' \in {kq, Append(kq, r)}
  /\ UNCHANGED <<session, kernel, gen, phase, kout, answers, wireVars>>

\* interrupt is a call to the runtime, not a message on the websocket.  What
\* it does to the kernel is in KernelReply, which may answer "abort" anyway.
InterruptReturns ==
  /\ kernel # 0
  /\ UNCHANGED linkVars

InterruptRaises ==
  /\ \/ kernel = 0 /\ faults' = faults
     \/ Fault("interrupt")
  /\ UNCHANGED <<kernelVars, wireVars>>

\* next_event takes a waiting message first, from either channel.
TakeMessage(m) ==
  /\ \/ shell # <<>> /\ m = Head(shell) /\ shell' = Tail(shell) /\ iopub' = iopub
     \/ iopub # <<>> /\ m = Head(iopub) /\ iopub' = Tail(iopub) /\ shell' = shell
  /\ UNCHANGED <<kernelVars, tr, peer, faults>>

NoMessage == shell = <<>> /\ iopub = <<>>
NextEventTimesOut == NoMessage /\ tr = "up"
NextEventDisconnects == NoMessage /\ tr # "up"

\* close: whatever the adapter still held is gone; so is it after a crash.
CloseTransport ==
  /\ tr' = "none" /\ peer' = 0
  /\ shell' = IF tr = "none" THEN shell ELSE <<>>
  /\ iopub' = IF tr = "none" THEN iopub ELSE <<>>
=============================================================================
