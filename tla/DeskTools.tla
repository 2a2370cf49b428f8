------------------------------ MODULE DeskTools ------------------------------
(***************************************************************************)
(* Tool calls of the agent that the editor executes: the turns of one      *)
(* conversation.  The agent runs in the Python service and streams events  *)
(* through the Go API to the client; it announces a tool call there and    *)
(* waits on the bridge registered for the conversation until the client    *)
(* posts the result, or until a timeout.                                   *)
(*                                                                         *)
(* Python code between two awaits is one step; so is a POST of the client. *)
(* The events of a turn arrive in order, so the queue of tool calls not    *)
(* yet read is what lies between the last one read and the last one sent.  *)
(***************************************************************************)
EXTENDS Integers

CONSTANTS
  NTurns,     \* bound: messages the user sends
  MaxRounds,  \* max_iterations of the agent
  MaxBatch,   \* bound: tool calls in one answer of the model
  Cuts        \* turns whose connections may break

ASSUME Parameters ==
  NTurns \in Nat /\ MaxRounds \in Nat \ {0} /\ MaxBatch \in Nat /\ Cuts \subseteq 1..NTurns

VARIABLES
  agent,    \* run_desk_reply_stream of each turn, with its graph and bridge
  active,   \* _active_bridges of the conversation: the turn that owns the bridge; NoTurn
            \* when there is none, or the empty one get_bridge makes for a late result
  client,   \* OpenPolvoAgent.sendMessage of each turn
  link,     \* turns whose connection is open
  overlap   \* whether a turn ever began before another was over (history)

vars == <<agent, active, client, link, overlap>>

-----------------------------------------------------------------------------

NoTurn == 0
Turns  == 1..NTurns

Verdicts == {"ok", "failed"}
Pending  == "pending"

\* round: iteration; left: calls of the answer not yet dispatched; n: calls
\* sent so far; future: the future of call n; told: what the model was told
\* of call n.
AgentWith(pc, n) ==
  [pc |-> pc, round |-> 0, left |-> 0, n |-> n, future |-> Pending, told |-> Pending]
Agent ==
  [pc : {"new", "model", "dispatch", "wait", "done", "closed"}, round : 0..MaxRounds,
   left : 0..MaxBatch, n : Nat, future : Verdicts \cup {Pending},
   told : Verdicts \cup {Pending, "timeout"}]

\* read: the last call read; result: what its tool returned.
NewClient == [pc |-> "new", read |-> 0, result |-> Pending]
Client ==
  [pc : {"new", "read", "run", "submit", "resubmit", "over"}, read : Nat,
   result : Verdicts \cup {Pending}]

Live == {t \in Turns : agent[t].pc \notin {"new", "closed"}}

Init ==
  /\ agent = [t \in Turns |-> AgentWith("new", 0)]
  /\ active = NoTurn
  /\ client = [t \in Turns |-> NewClient]
  /\ link = {}
  /\ overlap = FALSE

AgentGoes(t, pc)  == agent' = [agent EXCEPT ![t].pc = pc]
ClientGoes(t, pc) == client' = [client EXCEPT ![t].pc = pc]

-----------------------------------------------------------------------------
(* The agent.                                                              *)

\* Mutant: the bridge is created and not registered for the conversation.
MutOpen(t) ==
  /\ agent[t].pc = "new" /\ client[t].pc # "new"
  /\ AgentGoes(t, "model")
  /\ overlap' = (overlap \/ Live # {})
  /\ UNCHANGED <<active, client, link>>

\* run_desk_reply_stream begins: set_bridge.
Open(t) ==
  /\ agent[t].pc = "new" /\ client[t].pc # "new"
  /\ AgentGoes(t, "model")
  /\ active' = t
  /\ overlap' = (overlap \/ Live # {})
  /\ UNCHANGED <<client, link>>

\* No model can be reached: a friendly answer, and no bridge is registered.
Refuse(t) ==
  /\ agent[t].pc = "new" /\ client[t].pc # "new"
  /\ AgentGoes(t, "closed")
  /\ UNCHANGED <<active, client, link, overlap>>

\* The model answers with tool calls, k of them for the client; those of the
\* last round are not executed and the turn is done.
Answer(t, k) ==
  LET round == agent[t].round + 1 IN
  /\ agent[t].pc = "model"
  /\ agent' = [agent EXCEPT ![t].round = round, ![t].left = k,
                            ![t].pc = IF round = MaxRounds THEN "done"
                                      ELSE IF k = 0 THEN "model" ELSE "dispatch"]
  /\ UNCHANGED <<active, client, link, overlap>>

\* The model answers without calls, keeps repeating its calls, or fails: the
\* final text or the error is sent.
Conclude(t) ==
  /\ agent[t].pc = "model"
  /\ AgentGoes(t, "done")
  /\ UNCHANGED <<active, client, link, overlap>>

\* dispatch_tool_calls, up to the wait: the call is registered and sent.
Dispatch(t) ==
  /\ agent[t].pc = "dispatch"
  /\ agent' = [agent EXCEPT ![t].pc = "wait", ![t].left = @ - 1, ![t].n = @ + 1,
                            ![t].future = Pending, ![t].told = Pending]
  /\ UNCHANGED <<active, client, link, overlap>>

\* The model is told v about the call waited for; the next one, if any, follows.
Tell(t, v) ==
  /\ agent' = [agent EXCEPT ![t].told = v,
                            ![t].pc = IF agent[t].left = 0 THEN "model" ELSE "dispatch"]
  /\ UNCHANGED <<active, client, link, overlap>>

\* The future has a result.
Resume(t) ==
  /\ agent[t].pc = "wait" /\ agent[t].future # Pending
  /\ Tell(t, agent[t].future)

\* Mutant: the wait ends only while the bridge is still registered.
MutTimeout(t) ==
  /\ agent[t].pc = "wait" /\ active = t
  /\ Tell(t, "timeout")

\* tool_result_timeout; asyncio lets it win over a result not yet picked up.
Timeout(t) ==
  /\ agent[t].pc = "wait"
  /\ Tell(t, "timeout")

\* The generator ends, by itself or because its connection is gone, whatever
\* the graph is at: clear_bridge takes the bridge of the conversation away.
Close(t) ==
  /\ agent[t].pc = "done" \/ (t \in Live /\ t \notin link)
  /\ agent' = [agent EXCEPT ![t] = AgentWith("closed", @.n)]
  /\ active' = NoTurn
  /\ UNCHANGED <<client, link, overlap>>

-----------------------------------------------------------------------------
(* The client.                                                             *)

\* sendMessage: the turn before is aborted.
SendMessage(t) ==
  /\ client[t].pc = "new"
  /\ \A u \in 1..(t - 1) : client[u].pc # "new"
  /\ ClientGoes(t, "read")
  /\ link' = {t}
  /\ UNCHANGED <<agent, active, overlap>>

\* The user cancels, the router's timeout is reached or the network breaks.
Cut(t) ==
  /\ t \in Cuts /\ t \in link
  /\ link' = link \ {t}
  /\ UNCHANGED <<agent, active, client, overlap>>

\* Mutant: the event the server also emits for its own tools is executed too.
MutReadCall(t) ==
  /\ client[t].pc = "read" /\ client[t].read < agent[t].n
  /\ client' = [client EXCEPT ![t].pc = "run", ![t].read = @ + 2, ![t].result = Pending]
  /\ UNCHANGED <<agent, active, link, overlap>>

\* The next tool call is read and its tool started; what arrived before an
\* abort is still handled.  Only the event that requires the client counts.
ReadCall(t) ==
  /\ client[t].pc = "read" /\ client[t].read < agent[t].n
  /\ client' = [client EXCEPT ![t].pc = "run", ![t].read = @ + 1, ![t].result = Pending]
  /\ UNCHANGED <<agent, active, link, overlap>>

\* runDeskTool returns; an abort does not stop it.
ToolEnds(t, v) ==
  /\ client[t].pc = "run"
  /\ client' = [client EXCEPT ![t].pc = "submit", ![t].result = v]
  /\ UNCHANGED <<agent, active, link, overlap>>

\* Mutant: a result answers whatever call is pending.
MutAwaited(t) == active = t /\ agent[t].pc = "wait" /\ agent[t].future = Pending

\* DeskToolBridge.submit finds the call of client t in the active bridge.
Awaited(t) ==
  /\ active = t /\ agent[t].pc = "wait" /\ agent[t].future = Pending
  /\ agent[t].n = client[t].read

\* What the client submits: an error if its first attempt failed.
Submitted(t) == IF client[t].pc = "submit" THEN client[t].result ELSE "failed"

\* The client is answered; unless that was a success, it tries once more.
Submitting(t, success) ==
  /\ client[t].pc \in {"submit", "resubmit"}
  /\ ClientGoes(t, IF client[t].pc = "submit" /\ ~success THEN "resubmit" ELSE "read")

\* The result reaches the call; the answer to the client may be lost.
SubmitAccepted(t, acked) ==
  /\ Awaited(t) /\ (acked \/ t \in Cuts)
  /\ Submitting(t, acked)
  /\ agent' = [agent EXCEPT ![t].future = Submitted(t)]
  /\ UNCHANGED <<active, link, overlap>>

\* 404, tool_call not pending, or a request that is lost.
SubmitFails(t) ==
  /\ ~Awaited(t) \/ t \in Cuts
  /\ Submitting(t, FALSE)
  /\ UNCHANGED <<agent, active, link, overlap>>

\* The final event is read, or the connection turns out to be gone.
TurnOver(t) ==
  /\ client[t].pc = "read"
  /\ t \notin link \/ (client[t].read = agent[t].n /\ agent[t].pc \in {"done", "closed"})
  /\ ClientGoes(t, "over")
  /\ UNCHANGED <<agent, active, link, overlap>>

-----------------------------------------------------------------------------

AgentStep(t) ==
  \/ \E k \in 0..MaxBatch : Answer(t, k)
  \/ Open(t) \/ Refuse(t) \/ Conclude(t) \/ Dispatch(t) \/ Resume(t) \/ Timeout(t) \/ Close(t)

ClientStep(t) ==
  \/ \E v \in Verdicts : ToolEnds(t, v)
  \/ \E acked \in BOOLEAN : SubmitAccepted(t, acked)
  \/ ReadCall(t) \/ SubmitFails(t) \/ TurnOver(t)

Next == \E t \in Turns : AgentStep(t) \/ ClientStep(t) \/ SendMessage(t) \/ Cut(t)

Spec == Init /\ [][Next]_vars

\* Event loops run what is ready, models and commands have timeouts, and so has
\* the wait for a result.
FairSpec == Spec /\ \A t \in Turns : WF_vars(AgentStep(t)) /\ WF_vars(ClientStep(t))

-----------------------------------------------------------------------------
(* Properties.                                                             *)

\* The type invariant; the editor has read no call that was not sent.
TypeOK ==
  /\ agent \in [Turns -> Agent]
  /\ active \in Turns \cup {NoTurn}
  /\ client \in [Turns -> Client]
  /\ link \subseteq Turns
  /\ overlap \in BOOLEAN
  /\ \A t \in Turns : client[t].read <= agent[t].n

\* What the model is told about a call is what this very call did: its tool
\* has returned, and a success was its own, however late results, timeouts,
\* resubmitted errors and aborted turns interleave.
ToldTruth ==
  \A t \in Turns :
    agent[t].told \in Verdicts =>
      /\ client[t].read = agent[t].n /\ client[t].result # Pending
      /\ agent[t].told = "ok" => client[t].result = "ok"

Waiting(t) == agent[t].pc = "wait" /\ t \in link

\* As long as turns did not overlap, the agent waits on the bridge results are
\* given to.
BridgeInPlace == ~overlap => \A t \in Turns : Waiting(t) => active = t

\* _active_bridges holds the "sessão activa" of the conversation: the turn that
\* waits for its client.
ActiveSession == \A t \in Turns : Waiting(t) => active = t

\* Every message of the user is answered, or its turn broken off, even if a result
\* never finds its call; and every turn frees the agent.
TurnEnds ==
  \A t \in Turns : /\ client[t].pc = "read" ~> client[t].pc = "over"
                   /\ t \in Live ~> agent[t].pc = "closed"

=============================================================================
