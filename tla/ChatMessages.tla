---------------------------- MODULE ChatMessages ----------------------------
(***************************************************************************)
(* The message list of a conversation in the editor: what                  *)
(* PolvoAgentConversationsService and mergeLocalExtras do to it.           *)
(*                                                                         *)
(* A message is abstracted to who speaks, which turn it is about, what it  *)
(* says (a question, an answer, a progress label or an error), how it is   *)
(* marked (a step of the development workflow, the response, or nothing)   *)
(* and the id of the row of the server it is a copy of.                    *)
(***************************************************************************)
EXTENDS Naturals, Sequences

CONSTANT Turns

NoId == 0
Says == {"question", "answer", "label", "error"}
Marks == {"plain", "step", "response"}
Message == [role : {"user", "assistant"}, turn : Turns, says : Says, mark : Marks, id : Nat]

\* the largest element of a set of positions, 0 for none
Last(S) == IF S = {} THEN 0 ELSE CHOOSE i \in S : \A j \in S : j <= i

Local(role, t, says, mark) == [role |-> role, turn |-> t, says |-> says, mark |-> mark, id |-> NoId]

-----------------------------------------------------------------------------
\* addMessage
AddMessage(msgs, role, t, says) == Append(msgs, Local(role, t, says, "plain"))

\* updateAssistantMessage: the last message if the assistant speaks in it and it is
\* not the response, otherwise a new one
UpdateAssistant(msgs, t, says) ==
  LET n == Len(msgs)
  IN  IF n > 0 /\ msgs[n].role = "assistant" /\ msgs[n].mark # "response"
      THEN [msgs EXCEPT ![n] = [@ EXCEPT !.turn = t, !.says = says]]
      ELSE AddMessage(msgs, "assistant", t, says)

\* appendDevStepMessage; whether a step is finished makes no difference here
AppendDevStep(msgs, t) == Append(msgs, Local("assistant", t, "label", "step"))

\* updateDevResponseMessage: the last response of the whole conversation, or a new one
ResponseAt(msgs) == Last({i \in DOMAIN msgs : msgs[i].mark = "response"})

UpdateDevResponse(msgs, t) ==
  LET i == ResponseAt(msgs)
  IN  IF i = 0
      THEN Append(msgs, Local("assistant", t, "answer", "response"))
      ELSE [msgs EXCEPT ![i] = [@ EXCEPT !.turn = t, !.says = "answer"]]

\* the end of sendMessage: the time is noted in the last response or plain message, by
\* an update with the content it has
NoteTime(msgs) ==
  LET i == Last({k \in DOMAIN msgs : msgs[k].role = "assistant" /\ msgs[k].mark # "step"})
  IN  IF i = 0 \/ msgs[i].mark = "response"
      THEN msgs
      ELSE UpdateAssistant(msgs, msgs[i].turn, msgs[i].says)

-----------------------------------------------------------------------------
(* What is fetched from the server, and how it is merged.                  *)

\* without the id of the row
MutFetched(rows) ==
  [i \in DOMAIN rows |-> Local(IF rows[i].role = "user" THEN "user" ELSE "assistant", rows[i].turn,
                               IF rows[i].role = "user" THEN "question" ELSE "answer", "plain")]

\* serverMessageToLocal; an error is stored with the assistant's role
Fetched(rows) ==
  [i \in DOMAIN rows |-> [role |-> IF rows[i].role = "user" THEN "user" ELSE "assistant",
                          turn |-> rows[i].turn,
                          says |-> CASE rows[i].role = "user" -> "question"
                                     [] rows[i].role = "assistant" -> "answer"
                                     [] OTHER -> "error",
                          mark |-> "plain", id |-> rows[i].id]]

\* mergeMessagePair: the server's content with the local marks
Pair(server, local) == [server EXCEPT !.mark = local.mark]

\* mergeLocalExtras: paired by position if the roles agree, otherwise by id
Counterpart(server, local, i) ==
  IF i \in DOMAIN local /\ local[i].role = server[i].role THEN i
  ELSE LET S == {k \in DOMAIN local : local[k].id # NoId /\ local[k].id = server[i].id}
       IN  IF S = {} THEN 0 ELSE CHOOSE k \in S : \A l \in S : k <= l

MergeLocalExtras(server, local) ==
  IF server = <<>> THEN local
  ELSE IF local = <<>> THEN server
  ELSE [i \in DOMAIN server |->
          LET k == Counterpart(server, local, i)
          IN  IF k = 0 THEN server[i] ELSE Pair(server[i], local[k])]
=============================================================================
