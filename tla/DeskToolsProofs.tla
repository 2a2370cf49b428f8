--------------------------- MODULE DeskToolsProofs ---------------------------
(***************************************************************************)
(* Proofs about DeskTools: type correctness, the truth of what the model   *)
(* is told about its tool calls, and the place of the bridge while turns   *)
(* do not overlap, for every number of turns, rounds and calls.            *)
(***************************************************************************)
EXTENDS DeskTools, TLAPS

USE Parameters

-----------------------------------------------------------------------------
(* The inductive invariant.                                                *)

\* Where the agent of a turn is in its loop.
LoopOK(a) ==
  /\ a.pc = "new" => a.n = 0
  /\ a.pc \in {"new", "model", "dispatch", "wait"} => a.round < MaxRounds
  /\ a.pc = "dispatch" => a.left # 0

\* Where the client of a turn is.
ClientOK(c) ==
  /\ c.pc = "new" => c.read = 0
  /\ c.pc = "run" => c.result = Pending
  /\ c.pc \in {"submit", "resubmit"} => c.result # Pending

\* A verdict v about the last call of a turn comes from the tool of this call.
Witnessed(v, n, c) ==
  v \in Verdicts => c.read = n /\ c.result # Pending /\ (v = "ok" => c.result = "ok")

TurnOK(t) ==
  /\ LoopOK(agent[t])
  /\ ClientOK(client[t])
  /\ client[t].pc = "new" => agent[t].pc = "new"
  /\ Witnessed(agent[t].future, agent[t].n, client[t])
  /\ Witnessed(agent[t].told, agent[t].n, client[t])

\* Without overlap the bridge belongs to the one turn that is live.
OneSession == ~overlap => \A t \in Turns : agent[t].pc \notin {"new", "closed"} => active = t

Inv == TypeOK /\ OneSession /\ \A t \in Turns : TurnOK(t)

-----------------------------------------------------------------------------

THEOREM InitInv == Init => Inv
  <1> SUFFICES ASSUME Init PROVE Inv
    OBVIOUS
  <1>1. \A t \in Turns : agent[t] = AgentWith("new", 0) /\ client[t] = NewClient
    BY DEF Init
  <1>2. AgentWith("new", 0) \in Agent /\ NewClient \in Client
    BY DEF AgentWith, NewClient, Agent, Client, Verdicts, Pending
  <1>3. AgentWith("new", 0).n = 0 /\ NewClient.read = 0
    BY DEF AgentWith, NewClient
  <1>4. \A t \in Turns : client[t].read <= agent[t].n
    BY <1>1, <1>3
  <1>5. TypeOK
    BY <1>2, <1>4 DEF TypeOK, Init
  <1>6. OneSession
    BY <1>1 DEF OneSession, AgentWith
  <1>7. \A t \in Turns : TurnOK(t)
    BY <1>1 DEF TurnOK, LoopOK, ClientOK, Witnessed, AgentWith, NewClient, Verdicts, Pending
  <1> QED BY <1>5, <1>6, <1>7 DEF Inv

-----------------------------------------------------------------------------
(* What a step of one turn has to establish.                               *)

LEMMA TurnMoves ==
  ASSUME Inv, NEW t \in Turns, NEW b \in Agent, NEW d \in Client,
         agent' = [agent EXCEPT ![t] = b], client' = [client EXCEPT ![t] = d],
         LoopOK(b), ClientOK(d), d.pc = "new" => b.pc = "new", d.read <= b.n,
         Witnessed(b.future, b.n, d), Witnessed(b.told, b.n, d),
         active' \in Turns \cup {NoTurn}, link' \subseteq Turns, overlap' \in BOOLEAN, OneSession'
  PROVE  Inv'
  <1>1. agent' \in [Turns -> Agent] /\ client' \in [Turns -> Client]
    BY DEF Inv, TypeOK
  <1>2. agent'[t] = b /\ client'[t] = d
    BY DEF Inv, TypeOK
  <1>3. \A u \in Turns \ {t} : agent'[u] = agent[u] /\ client'[u] = client[u]
    BY DEF Inv, TypeOK
  <1>4. \A u \in Turns : client'[u].read <= agent'[u].n
    BY <1>2, <1>3 DEF Inv, TypeOK
  <1>5. TypeOK'
    BY <1>1, <1>4 DEF TypeOK
  <1>6. \A u \in Turns : TurnOK(u)'
    BY <1>2, <1>3 DEF Inv, TurnOK
  <1> QED BY <1>5, <1>6 DEF Inv

\* The bridge stays where it is unless a turn begins or ends.
LEMMA SameSession ==
  ASSUME Inv, NEW t \in Turns, NEW b \in Agent,
         agent' = [agent EXCEPT ![t] = b], b.pc = "new" \/ agent[t].pc \notin {"new", "closed"},
         active' = active, overlap' = overlap
  PROVE  OneSession'
  <1>1. agent'[t] = b /\ \A u \in Turns \ {t} : agent'[u] = agent[u]
    BY DEF Inv, TypeOK
  <1> QED BY <1>1 DEF Inv, OneSession

\* A step of the agent that is at work, to b.
LEMMA AgentMoves ==
  ASSUME Inv, NEW t \in Turns, NEW b \in Agent, agent' = [agent EXCEPT ![t] = b],
         agent[t].pc \notin {"new", "closed"}, UNCHANGED <<active, client, link, overlap>>,
         LoopOK(b), agent[t].n <= b.n,
         Witnessed(b.future, b.n, client[t]), Witnessed(b.told, b.n, client[t])
  PROVE  Inv'
  <1>1. client[t] \in Client /\ agent[t] \in Agent /\ TurnOK(t) /\ client[t].read <= agent[t].n
    BY DEF Inv, TypeOK
  <1>2. client[t].read <= b.n
    BY <1>1 DEF Agent, Client
  <1>3. client' = [client EXCEPT ![t] = client[t]]
    BY DEF Inv, TypeOK
  <1>4. OneSession'
    BY SameSession
  <1> QED BY <1>1, <1>2, <1>3, <1>4, TurnMoves DEF Inv, TypeOK, TurnOK

\* A step of the client to d that leaves the agent alone.
LEMMA ClientMoves ==
  ASSUME Inv, NEW t \in Turns, NEW d \in Client, client' = [client EXCEPT ![t] = d],
         UNCHANGED <<agent, active, overlap>>, link' \subseteq Turns,
         ClientOK(d), d.pc # "new", d.read <= agent[t].n,
         Witnessed(agent[t].future, agent[t].n, d), Witnessed(agent[t].told, agent[t].n, d)
  PROVE  Inv'
  <1>1. agent[t] \in Agent /\ TurnOK(t)
    BY DEF Inv, TypeOK
  <1>2. agent' = [agent EXCEPT ![t] = agent[t]]
    BY DEF Inv, TypeOK
  <1>3. OneSession'
    BY DEF Inv, OneSession
  <1> QED BY <1>1, <1>2, <1>3, TurnMoves DEF Inv, TypeOK, TurnOK

-----------------------------------------------------------------------------
(* Steps of the agent.                                                     *)

LEMMA OpenInv == ASSUME Inv, NEW t \in Turns, Open(t) PROVE Inv'
  <1> DEFINE a == agent[t]
             b == [a EXCEPT !.pc = "model"]
  <1>1. a \in Agent /\ client[t] \in Client /\ TurnOK(t) /\ client[t].read <= a.n
    BY DEF Inv, TypeOK
  <1>2. agent' = [agent EXCEPT ![t] = b] /\ client' = [client EXCEPT ![t] = client[t]]
    BY DEF Open, AgentGoes, Inv, TypeOK
  <1>3. b \in Agent /\ b.pc = "model" /\ b.n = a.n /\ b.round = a.round
        /\ b.future = a.future /\ b.told = a.told
    BY <1>1 DEF Agent
  <1>4. LoopOK(b)
    BY <1>1, <1>3 DEF TurnOK, LoopOK, Open
  <1>5. OneSession'
    <2>1. agent'[t] = b /\ \A u \in Turns \ {t} : agent'[u] = agent[u]
      BY <1>2 DEF Inv, TypeOK
    <2>2. ~overlap' => \A u \in Turns : agent[u].pc \in {"new", "closed"}
      BY DEF Open, Live
    <2> QED BY <2>1, <2>2 DEF OneSession, Open
  <1> QED BY <1>1, <1>2, <1>3, <1>4, <1>5, TurnMoves DEF Open, Inv, TypeOK, TurnOK

LEMMA RefuseInv == ASSUME Inv, NEW t \in Turns, Refuse(t) PROVE Inv'
  <1> DEFINE a == agent[t]
             b == [a EXCEPT !.pc = "closed"]
  <1>1. a \in Agent /\ client[t] \in Client /\ TurnOK(t) /\ client[t].read <= a.n
    BY DEF Inv, TypeOK
  <1>2. agent' = [agent EXCEPT ![t] = b] /\ client' = [client EXCEPT ![t] = client[t]]
    BY DEF Refuse, AgentGoes, Inv, TypeOK
  <1>3. b \in Agent /\ b.pc = "closed" /\ b.n = a.n /\ b.future = a.future /\ b.told = a.told
    BY <1>1 DEF Agent
  <1>4. LoopOK(b)
    BY <1>3 DEF LoopOK
  <1>5. OneSession'
    <2>1. agent'[t] = b /\ \A u \in Turns \ {t} : agent'[u] = agent[u]
      BY <1>2 DEF Inv, TypeOK
    <2> QED BY <1>3, <2>1 DEF Inv, OneSession, Refuse
  <1> QED BY <1>1, <1>2, <1>3, <1>4, <1>5, TurnMoves DEF Refuse, Inv, TypeOK, TurnOK

LEMMA AnswerInv == ASSUME Inv, NEW t \in Turns, NEW k \in 0..MaxBatch, Answer(t, k) PROVE Inv'
  <1> DEFINE a == agent[t]
             pc == IF a.round + 1 = MaxRounds THEN "done" ELSE IF k = 0 THEN "model" ELSE "dispatch"
             b == [a EXCEPT !.round = a.round + 1, !.left = k, !.pc = pc]
  <1>1. a \in Agent /\ TurnOK(t) /\ a.pc = "model"
    BY DEF Inv, TypeOK, Answer
  <1>2. agent' = [agent EXCEPT ![t] = b] /\ UNCHANGED <<active, client, link, overlap>>
    BY DEF Answer, Inv, TypeOK
  <1>3. a.round \in 0..MaxRounds /\ a.round < MaxRounds
    BY <1>1 DEF Agent, TurnOK, LoopOK
  <1>4. b \in Agent /\ b.pc = pc /\ b.n = a.n /\ b.round = a.round + 1 /\ b.left = k
        /\ b.future = a.future /\ b.told = a.told
    <2>1. a.round + 1 \in 0..MaxRounds /\ pc \in {"model", "dispatch", "done"}
      BY <1>3
    <2>2. b \in Agent
      BY <1>1, <2>1 DEF Agent
    <2>3. b.pc = pc /\ b.n = a.n /\ b.round = a.round + 1 /\ b.left = k
          /\ b.future = a.future /\ b.told = a.told
      BY <1>1 DEF Agent
    <2> QED BY <2>2, <2>3
  <1>5. LoopOK(b)
    BY <1>3, <1>4 DEF LoopOK
  <1>6. a.n <= b.n
    BY <1>1, <1>4 DEF Agent
  <1> QED BY <1>1, <1>2, <1>4, <1>5, <1>6, AgentMoves DEF TurnOK

LEMMA ConcludeInv == ASSUME Inv, NEW t \in Turns, Conclude(t) PROVE Inv'
  <1> DEFINE a == agent[t]
             b == [a EXCEPT !.pc = "done"]
  <1>1. a \in Agent /\ TurnOK(t) /\ a.pc = "model"
    BY DEF Inv, TypeOK, Conclude
  <1>2. agent' = [agent EXCEPT ![t] = b] /\ UNCHANGED <<active, client, link, overlap>>
    BY DEF Conclude, AgentGoes, Inv, TypeOK
  <1>3. b \in Agent /\ b.pc = "done" /\ b.n = a.n /\ b.future = a.future /\ b.told = a.told
    BY <1>1 DEF Agent
  <1>4. LoopOK(b) /\ a.n <= b.n
    BY <1>1, <1>3 DEF LoopOK, Agent
  <1> QED BY <1>1, <1>2, <1>3, <1>4, AgentMoves DEF TurnOK

LEMMA DispatchInv == ASSUME Inv, NEW t \in Turns, Dispatch(t) PROVE Inv'
  <1> DEFINE a == agent[t]
             b == [a EXCEPT !.pc = "wait", !.left = a.left - 1, !.n = a.n + 1,
                            !.future = Pending, !.told = Pending]
  <1>1. a \in Agent /\ TurnOK(t) /\ a.pc = "dispatch"
    BY DEF Inv, TypeOK, Dispatch
  <1>2. agent' = [agent EXCEPT ![t] = b] /\ UNCHANGED <<active, client, link, overlap>>
    BY DEF Dispatch, Inv, TypeOK
  <1>3. a.left \in 0..MaxBatch /\ a.left # 0 /\ a.n \in Nat /\ a.round < MaxRounds
    BY <1>1 DEF Agent, TurnOK, LoopOK
  <1>4. b \in Agent /\ b.pc = "wait" /\ b.n = a.n + 1 /\ b.round = a.round
        /\ b.future = Pending /\ b.told = Pending
    <2>1. a.left - 1 \in 0..MaxBatch /\ a.n + 1 \in Nat
      BY <1>3
    <2>2. b \in Agent
      BY <1>1, <2>1 DEF Agent
    <2>3. b.pc = "wait" /\ b.n = a.n + 1 /\ b.round = a.round
          /\ b.future = Pending /\ b.told = Pending
      BY <1>1 DEF Agent
    <2> QED BY <2>2, <2>3
  <1>5. LoopOK(b) /\ a.n <= b.n
    BY <1>3, <1>4 DEF LoopOK
  <1>6. Witnessed(Pending, b.n, client[t])
    BY DEF Witnessed, Pending, Verdicts
  <1> QED BY <1>1, <1>2, <1>4, <1>5, <1>6, AgentMoves

\* The verdict told is the one of the future, or a timeout.
LEMMA TellInv ==
  ASSUME Inv, NEW t \in Turns, NEW v \in Verdicts \cup {"timeout"}, Tell(t, v),
         agent[t].pc = "wait", v # "timeout" => v = agent[t].future
  PROVE  Inv'
  <1> DEFINE a == agent[t]
             b == [a EXCEPT !.told = v, !.pc = IF a.left = 0 THEN "model" ELSE "dispatch"]
  <1>1. a \in Agent /\ TurnOK(t)
    BY DEF Inv, TypeOK
  <1>2. agent' = [agent EXCEPT ![t] = b] /\ UNCHANGED <<active, client, link, overlap>>
    BY DEF Tell, Inv, TypeOK
  <1>3. b \in Agent /\ b.pc = (IF a.left = 0 THEN "model" ELSE "dispatch") /\ b.n = a.n
        /\ b.round = a.round /\ b.left = a.left /\ b.future = a.future /\ b.told = v
    BY <1>1 DEF Agent
  <1>4. LoopOK(b) /\ a.n <= b.n
    BY <1>1, <1>3 DEF LoopOK, TurnOK, Agent
  <1>5. Witnessed(v, a.n, client[t])
    BY <1>1 DEF TurnOK, Witnessed, Verdicts
  <1> QED BY <1>1, <1>2, <1>3, <1>4, <1>5, AgentMoves DEF TurnOK

LEMMA CloseInv == ASSUME Inv, NEW t \in Turns, Close(t) PROVE Inv'
  <1> DEFINE a == agent[t]
             b == AgentWith("closed", a.n)
  <1>1. a \in Agent /\ client[t] \in Client /\ TurnOK(t) /\ client[t].read <= a.n
    BY DEF Inv, TypeOK
  <1>2. agent' = [agent EXCEPT ![t] = b] /\ client' = [client EXCEPT ![t] = client[t]]
    BY DEF Close, Inv, TypeOK
  <1>3. a.pc \notin {"new", "closed"}
    BY DEF Close, Live
  <1>4. b \in Agent /\ b.pc = "closed" /\ b.n = a.n /\ b.future = Pending /\ b.told = Pending
    BY <1>1 DEF Agent, AgentWith
  <1>5. LoopOK(b)
    BY <1>4 DEF LoopOK
  <1>6. Witnessed(Pending, b.n, client[t])
    BY DEF Witnessed, Pending, Verdicts
  <1>7. OneSession'
    <2>1. agent'[t] = b /\ \A u \in Turns \ {t} : agent'[u] = agent[u]
      BY <1>2 DEF Inv, TypeOK
    <2>2. ~overlap => \A u \in Turns \ {t} : agent[u].pc \in {"new", "closed"}
      BY <1>3 DEF Inv, OneSession
    <2> QED BY <1>4, <2>1, <2>2 DEF OneSession, Close
  <1>8. client[t].pc # "new"
    BY <1>1, <1>3 DEF TurnOK
  <1> QED BY <1>1, <1>2, <1>4, <1>5, <1>6, <1>7, <1>8, TurnMoves DEF Close, Inv, TypeOK, TurnOK

-----------------------------------------------------------------------------
(* Steps of the client.                                                    *)

LEMMA SendMessageInv == ASSUME Inv, NEW t \in Turns, SendMessage(t) PROVE Inv'
  <1> DEFINE c == client[t]
             d == [c EXCEPT !.pc = "read"]
  <1>1. c \in Client /\ TurnOK(t) /\ c.read <= agent[t].n
    BY DEF Inv, TypeOK
  <1>2. client' = [client EXCEPT ![t] = d] /\ UNCHANGED <<agent, active, overlap>>
    BY DEF SendMessage, ClientGoes, Inv, TypeOK
  <1>3. d \in Client /\ d.pc = "read" /\ d.read = c.read /\ d.result = c.result
    BY <1>1 DEF Client
  <1>4. link' \subseteq Turns
    BY DEF SendMessage
  <1>5. ClientOK(d)
    BY <1>3 DEF ClientOK
  <1> QED BY <1>1, <1>2, <1>3, <1>4, <1>5, ClientMoves DEF TurnOK, Witnessed

\* The call read is new, so that nobody has a verdict about it.
LEMMA ReadCallInv == ASSUME Inv, NEW t \in Turns, ReadCall(t) PROVE Inv'
  <1> DEFINE a == agent[t]
             c == client[t]
             d == [c EXCEPT !.pc = "run", !.read = c.read + 1, !.result = Pending]
  <1>1. a \in Agent /\ c \in Client /\ TurnOK(t) /\ c.read < a.n
    BY DEF Inv, TypeOK, ReadCall
  <1>2. client' = [client EXCEPT ![t] = d] /\ UNCHANGED <<agent, active, overlap, link>>
    BY DEF ReadCall, Inv, TypeOK
  <1>3. d \in Client /\ d.pc = "run" /\ d.read = c.read + 1 /\ d.result = Pending
    <2>1. c.read + 1 \in Nat
      BY <1>1 DEF Client
    <2>2. d \in Client
      BY <1>1, <2>1 DEF Client
    <2>3. d.pc = "run" /\ d.read = c.read + 1 /\ d.result = Pending
      BY <1>1 DEF Client
    <2> QED BY <2>2, <2>3
  <1>4. ClientOK(d)
    BY <1>3 DEF ClientOK
  <1>5. d.read <= a.n
    BY <1>1, <1>3 DEF Agent, Client
  <1>6. a.future \notin Verdicts /\ a.told \notin Verdicts
    BY <1>1 DEF TurnOK, Witnessed, Agent, Client
  <1>7. Witnessed(a.future, a.n, d) /\ Witnessed(a.told, a.n, d)
    BY <1>6 DEF Witnessed
  <1> QED BY <1>2, <1>3, <1>4, <1>5, <1>7, ClientMoves DEF Inv, TypeOK

\* The tool returns before anybody has a verdict about its call.
LEMMA ToolEndsInv == ASSUME Inv, NEW t \in Turns, NEW v \in Verdicts, ToolEnds(t, v) PROVE Inv'
  <1> DEFINE a == agent[t]
             c == client[t]
             d == [c EXCEPT !.pc = "submit", !.result = v]
  <1>1. c \in Client /\ TurnOK(t) /\ c.read <= a.n /\ c.pc = "run"
    BY DEF Inv, TypeOK, ToolEnds
  <1>2. client' = [client EXCEPT ![t] = d] /\ UNCHANGED <<agent, active, overlap, link>>
    BY DEF ToolEnds, Inv, TypeOK
  <1>3. d \in Client /\ d.pc = "submit" /\ d.read = c.read /\ d.result = v
    BY <1>1 DEF Client
  <1>4. ClientOK(d)
    BY <1>3 DEF ClientOK, Verdicts, Pending
  <1>5. Witnessed(a.future, a.n, d) /\ Witnessed(a.told, a.n, d)
    BY <1>1 DEF TurnOK, ClientOK, Witnessed
  <1> QED BY <1>1, <1>2, <1>3, <1>4, <1>5, ClientMoves DEF Inv, TypeOK

\* Any other step of the client to pc.
LEMMA ClientGoesInv ==
  ASSUME Inv, NEW t \in Turns, NEW pc \in {"read", "resubmit", "over"}, ClientGoes(t, pc),
         client[t].pc \in {"read", "submit", "resubmit"}, pc = "resubmit" => client[t].pc = "submit",
         UNCHANGED <<agent, active, link, overlap>>
  PROVE  Inv'
  <1> DEFINE c == client[t]
             d == [c EXCEPT !.pc = pc]
  <1>1. c \in Client /\ TurnOK(t) /\ c.read <= agent[t].n
    BY DEF Inv, TypeOK
  <1>2. client' = [client EXCEPT ![t] = d]
    BY DEF ClientGoes, Inv, TypeOK
  <1>3. d \in Client /\ d.pc = pc /\ d.read = c.read /\ d.result = c.result
    BY <1>1 DEF Client
  <1>4. ClientOK(d)
    BY <1>1, <1>3 DEF TurnOK, ClientOK
  <1>5. Witnessed(agent[t].future, agent[t].n, d) /\ Witnessed(agent[t].told, agent[t].n, d)
    BY <1>1, <1>3 DEF TurnOK, Witnessed
  <1> QED BY <1>1, <1>2, <1>3, <1>4, <1>5, ClientMoves DEF Inv, TypeOK

\* The result that reaches the call is the one of its tool, or a failure.
LEMMA SubmitAcceptedInv ==
  ASSUME Inv, NEW t \in Turns, NEW acked \in BOOLEAN, SubmitAccepted(t, acked) PROVE Inv'
  <1> DEFINE a == agent[t]
             c == client[t]
             b == [a EXCEPT !.future = Submitted(t)]
             pc == IF c.pc = "submit" /\ ~acked THEN "resubmit" ELSE "read"
             d == [c EXCEPT !.pc = pc]
  <1>1. a \in Agent /\ c \in Client /\ TurnOK(t) /\ c.read = a.n /\ a.pc = "wait"
    BY DEF Inv, TypeOK, SubmitAccepted, Awaited
  <1>2. /\ agent' = [agent EXCEPT ![t] = b] /\ client' = [client EXCEPT ![t] = d]
        /\ UNCHANGED <<active, link, overlap>>
    BY DEF SubmitAccepted, Submitting, ClientGoes, Inv, TypeOK
  <1>3. c.pc \in {"submit", "resubmit"} /\ c.result \in Verdicts
    BY <1>1 DEF SubmitAccepted, Submitting, TurnOK, ClientOK, Client
  <1>4. Submitted(t) \in Verdicts /\ (Submitted(t) = "ok" => c.result = "ok")
    BY <1>3 DEF Submitted, Verdicts
  <1>5. b \in Agent /\ b.pc = a.pc /\ b.n = a.n /\ b.round = a.round /\ b.left = a.left
        /\ b.future = Submitted(t) /\ b.told = a.told
    BY <1>1, <1>4 DEF Agent
  <1>6. d \in Client /\ d.pc = pc /\ d.read = c.read /\ d.result = c.result
    BY <1>1 DEF Client
  <1>7. LoopOK(b) /\ ClientOK(d) /\ d.pc # "new"
    BY <1>1, <1>3, <1>5, <1>6 DEF TurnOK, LoopOK, ClientOK, Verdicts, Pending
  <1>8. Witnessed(b.future, b.n, d)
    BY <1>1, <1>3, <1>4, <1>5, <1>6 DEF Witnessed, Verdicts, Pending
  <1>9. Witnessed(b.told, b.n, d)
    BY <1>1, <1>5, <1>6 DEF TurnOK, Witnessed
  <1>10. d.read <= b.n
    BY <1>1, <1>5, <1>6 DEF Agent
  <1>11. OneSession'
    BY <1>1, <1>2, <1>5, SameSession
  <1> QED BY <1>2, <1>5, <1>6, <1>7, <1>8, <1>9, <1>10, <1>11, TurnMoves DEF Inv, TypeOK

-----------------------------------------------------------------------------
(* The theorems.                                                           *)

THEOREM StepInv == Inv /\ [Next]_vars => Inv'
  <1> SUFFICES ASSUME Inv, [Next]_vars PROVE Inv'
    OBVIOUS
  <1>1. ASSUME NEW t \in Turns, AgentStep(t) PROVE Inv'
    <2>1. CASE Open(t)
      BY <2>1, OpenInv
    <2>2. CASE \E k \in 0..MaxBatch : Answer(t, k)
      BY <2>2, AnswerInv
    <2>3. CASE Conclude(t)
      BY <2>3, ConcludeInv
    <2>4. CASE Dispatch(t)
      BY <2>4, DispatchInv
    <2>5. CASE Resume(t)
      <3>1. agent[t].future \in Verdicts
        BY <2>5 DEF Resume, Inv, TypeOK, Agent
      <3> QED BY <2>5, <3>1, TellInv DEF Resume
    <2>6. CASE Timeout(t)
      BY <2>6, TellInv DEF Timeout
    <2>7. CASE Close(t)
      BY <2>7, CloseInv
    <2>8. CASE Refuse(t)
      BY <2>8, RefuseInv
    <2> QED BY <1>1, <2>1, <2>2, <2>3, <2>4, <2>5, <2>6, <2>7, <2>8 DEF AgentStep
  <1>2. ASSUME NEW t \in Turns, ClientStep(t) PROVE Inv'
    <2>1. CASE \E v \in Verdicts : ToolEnds(t, v)
      BY <2>1, ToolEndsInv
    <2>2. CASE \E acked \in BOOLEAN : SubmitAccepted(t, acked)
      BY <2>2, SubmitAcceptedInv
    <2>3. CASE ReadCall(t)
      BY <2>3, ReadCallInv
    <2>4. CASE SubmitFails(t)
      BY <2>4, ClientGoesInv DEF SubmitFails, Submitting
    <2>5. CASE TurnOver(t)
      BY <2>5, ClientGoesInv DEF TurnOver
    <2> QED BY <1>2, <2>1, <2>2, <2>3, <2>4, <2>5 DEF ClientStep
  <1>3. ASSUME NEW t \in Turns, SendMessage(t) PROVE Inv'
    BY <1>3, SendMessageInv
  <1>4. ASSUME NEW t \in Turns, Cut(t) PROVE Inv'
    BY <1>4 DEF Cut, Inv, TypeOK, OneSession, TurnOK
  <1>5. CASE UNCHANGED vars
    BY <1>5 DEF vars, Inv, TypeOK, OneSession, TurnOK
  <1> QED BY <1>1, <1>2, <1>3, <1>4, <1>5 DEF Next

\* The invariant holds in every reachable state.
THEOREM Invariant == Spec => []Inv
  BY InitInv, StepInv, PTL DEF Spec

\* The variables of the agent, the client and the bridge keep their types, and
\* the editor never executes a call the agent has not made.
THEOREM DeskTypeCorrect == Spec => []TypeOK
  <1>1. Inv => TypeOK
    BY DEF Inv
  <1> QED BY <1>1, Invariant, PTL

\* What the model is told about a tool call comes from the tool of this call.
THEOREM VerdictsAreTrue == Spec => []ToldTruth
  <1>1. Inv => ToldTruth
    BY DEF Inv, TurnOK, Witnessed, ToldTruth
  <1> QED BY <1>1, Invariant, PTL

\* Without overlapping turns the agent waits on the registered bridge.
THEOREM WaitsOnItsBridge == Spec => []BridgeInPlace
  <1>1. Inv => BridgeInPlace
    BY DEF Inv, OneSession, BridgeInPlace, Waiting
  <1> QED BY <1>1, Invariant, PTL

=============================================================================
