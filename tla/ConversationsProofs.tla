------------------------ MODULE ConversationsProofs ------------------------
(***************************************************************************)
(* Proofs about Conversations, for any number of turns, PATCH requests and *)
(* faults: type correctness, the dialogue in the table, what turns leave   *)
(* behind, and the survival of edits of the memory and of the title.       *)
(***************************************************************************)
EXTENDS Conversations, TLAPS

USE ConstantsDistinct DEF Fields, Replies, Writers

Row == [role : {"user"} \cup Replies, turn : Turns]
Handler == [pc : Counters, untitled : BOOLEAN]
Copy == [pc : {"new", "write", "over"}, fields : SUBSET Fields,
         copy : [Fields -> Writers \cup {Unset}]]

-----------------------------------------------------------------------------
(* Type correctness.                                                       *)

\* The handlers and the windows after a step of turn t that leaves the windows alone.
LEMMA TurnGoes ==
  ASSUME TypeOK, NEW t \in Turns, NEW pc \in Counters \ {"patch"}, Goto(t, pc),
         patch' = patch, turn[t].pc # "patch"
  PROVE  /\ turn' \in [Turns -> Handler]
         /\ \A u \in Turns : turn'[u].pc = "patch" <=> patch'[u].pc = "write"
  BY DEF TypeOK, Goto, At, Handler, Counters

LEMMA AppendRow ==
  ASSUME TypeOK, NEW t \in Turns, NEW role \in {"user"} \cup Replies, Insert(role, t)
  PROVE  /\ rows' \in Seq(Row)
         /\ Len(rows') = Len(rows) + 1
         /\ DOMAIN rows' = DOMAIN rows \cup {Len(rows) + 1}
         /\ \A i \in DOMAIN rows : rows'[i] = rows[i] /\ i <= Len(rows)
         /\ rows'[Len(rows) + 1] = [role |-> role, turn |-> t]
         /\ \A i \in DOMAIN rows' : i # Len(rows) + 1 => i \in DOMAIN rows
  <1>1. rows \in Seq(Row) /\ [role |-> role, turn |-> t] \in Row
    BY DEF TypeOK, Row
  <1> QED BY <1>1 DEF Insert

LEMMA ToldType ==
  ASSUME TypeOK, NEW t \in Turns, NEW e \in Events, Tell(t, e)
  PROVE  told' \in [Turns -> SUBSET Events]
  BY DEF TypeOK, Tell

LEMMA RecallType ==
  ASSUME TypeOK, NEW w \in Writers, NEW F \in SUBSET Fields, Recall(w, F)
  PROVE  /\ patch' \in [Writers -> Copy] /\ mixed' \subseteq Writers
         /\ patch'[w].pc = "write" /\ \A v \in Writers \ {w} : patch'[v] = patch[v]
  <1>1. patch \in [Writers -> Copy] /\ mixed \subseteq Writers /\ InWindow \subseteq Writers
        /\ memory \in [Fields -> Writers \cup {Unset}]
    BY DEF TypeOK, Copy, InWindow
  <1>2. [pc |-> "write", fields |-> F, copy |-> memory] \in Copy
    BY <1>1 DEF Copy
  <1>3. patch' = [patch EXCEPT ![w] = [pc |-> "write", fields |-> F, copy |-> memory]]
    BY DEF Recall
  <1>4. patch' \in [Writers -> Copy] /\ patch'[w].pc = "write" /\ \A v \in Writers \ {w} : patch'[v] = patch[v]
    BY <1>1, <1>2, <1>3
  <1>5. mixed' \subseteq Writers
    BY <1>1 DEF Recall
  <1> QED BY <1>4, <1>5

LEMMA CloseType ==
  ASSUME TypeOK, NEW w \in Writers, CloseWindow(w)
  PROVE  /\ patch' \in [Writers -> Copy]
         /\ patch'[w].pc = "over" /\ \A v \in Writers \ {w} : patch'[v] = patch[v]
  <1>1. patch \in [Writers -> Copy] /\ patch[w] \in Copy
    BY DEF TypeOK, Copy
  <1>2. [patch[w] EXCEPT !.pc = "over"] \in Copy /\ [patch[w] EXCEPT !.pc = "over"].pc = "over"
    BY <1>1 DEF Copy
  <1>3. patch' = [patch EXCEPT ![w] = [patch[w] EXCEPT !.pc = "over"]]
    BY DEF CloseWindow
  <1> QED BY <1>1, <1>2, <1>3

LEMMA UpsertType ==
  ASSUME TypeOK, NEW w \in Writers, Upsert(w)
  PROVE  /\ memory' \in [Fields -> Writers \cup {Unset}]
         /\ last' \in [Fields -> Writers \cup {Unset}]
  <1>1. \A f \in Fields : patch[w].copy[f] \in Writers \cup {Unset} /\ last[f] \in Writers \cup {Unset}
    BY DEF TypeOK
  <1> QED BY <1>1 DEF Upsert

LEMMA InitTypes == ServerInit => TypeOK
  <1> SUFFICES ASSUME ServerInit PROVE TypeOK
    OBVIOUS
  <1>1. patch \in [Writers -> Copy] /\ \A w \in Writers : patch[w].pc = "new"
    BY DEF ServerInit, NewPatch, Copy
  <1>2. turn \in [Turns -> Handler] /\ \A t \in Turns : turn[t].pc = "new"
    BY DEF ServerInit, NewTurn, Handler, Counters
  <1>3. rows \in Seq(Row)
    BY DEF ServerInit
  <1>4. told \in [Turns -> SUBSET Events]
    BY DEF ServerInit
  <1> QED BY <1>1, <1>2, <1>3, <1>4 DEF ServerInit, TypeOK, At, Handler, Copy, Row

LEMMA StepTypes == TypeOK /\ [ServerNext]_serverVars => TypeOK'
  <1> SUFFICES ASSUME TypeOK, [ServerNext]_serverVars PROVE TypeOK'
    OBVIOUS
  <1> USE DEF Handler, Copy, Row
  <1>1. ASSUME NEW t \in Turns, Begin(t) PROVE TypeOK'
    BY <1>1 DEF Begin, TypeOK, At, Counters
  <1>2. ASSUME NEW t \in Turns, Ask(t) PROVE TypeOK'
    <2>1. CASE t \notin gone /\ Insert("user", t) /\ Goto(t, "open") /\ UNCHANGED told
      BY <1>2, <2>1, TurnGoes, AppendRow DEF Ask, TypeOK, At, Counters
    <2>2. CASE Goto(t, "over") /\ Tell(t, "refused") /\ UNCHANGED rows
      BY <1>2, <2>2, TurnGoes, ToldType DEF Ask, TypeOK, At, Counters, Events
    <2> QED BY <1>2, <2>1, <2>2 DEF Ask
  <1>3. ASSUME NEW t \in Turns, OpenStream(t) PROVE TypeOK'
    <2>1. CASE t \notin gone /\ Goto(t, "stream") /\ UNCHANGED told
      BY <1>3, <2>1, TurnGoes DEF OpenStream, TypeOK, At, Counters
    <2>2. CASE Goto(t, "over") /\ Tell(t, "refused")
      BY <1>3, <2>2, TurnGoes, ToldType DEF OpenStream, TypeOK, At, Counters, Events
    <2> QED BY <1>3, <2>1, <2>2 DEF OpenStream
  <1>4. ASSUME NEW t \in Turns, NEW e \in {"file", "done", "error"}, Forward(t, e) PROVE TypeOK'
    <2>1. CASE t \in gone
      BY <1>4, <2>1, TurnGoes DEF Forward, TypeOK, At, Counters
    <2>2. CASE t \notin gone
      BY <1>4, <2>2, ToldType DEF Forward, TypeOK, At, Events
    <2> QED BY <2>1, <2>2
  <1>5. ASSUME NEW t \in Turns, StreamEnds(t) PROVE TypeOK'
    BY <1>5, TurnGoes DEF StreamEnds, TypeOK, At, Counters
  <1>6. ASSUME NEW t \in Turns, StoreAnswer(t) PROVE TypeOK'
    <2>1. rows' \in Seq(Row) /\ failed' \subseteq Turns
      BY <1>6, AppendRow DEF StoreAnswer, TypeOK
    <2> QED BY <1>6, <2>1, TurnGoes DEF StoreAnswer, TypeOK, At, Counters
  <1>7. ASSUME NEW t \in Turns, StoreError(t) PROVE TypeOK'
    <2>1. rows' \in Seq(Row) /\ failed' \subseteq Turns
      BY <1>7, AppendRow DEF StoreError, TypeOK
    <2>2. told' \in [Turns -> SUBSET Events]
      BY <1>7, ToldType DEF StoreError, TypeOK, Events
    <2> QED BY <1>7, <2>1, <2>2, TurnGoes DEF StoreError, TypeOK, At, Counters
  <1>8. ASSUME NEW t \in Turns, RecallMemory(t) PROVE TypeOK'
    <2>1. CASE Goto(t, "title") /\ UNCHANGED <<patch, mixed>>
      BY <1>8, <2>1, TurnGoes DEF RecallMemory, TypeOK, At, Counters
    <2>2. CASE \E F \in AnswerFields : t \notin gone /\ Recall(t, F) /\ Goto(t, "patch")
      <3>1. PICK F \in AnswerFields : Recall(t, F) /\ Goto(t, "patch")
        BY <2>2
      <3>2. /\ patch' \in [Writers -> Copy] /\ mixed' \subseteq Writers
            /\ patch'[t].pc = "write" /\ \A v \in Writers \ {t} : patch'[v] = patch[v]
        BY <3>1, RecallType
      <3>3. turn' \in [Turns -> Handler] /\ turn'[t].pc = "patch"
            /\ \A u \in Turns \ {t} : turn'[u] = turn[u]
        <4>1. turn[t] \in Handler /\ turn \in [Turns -> Handler]
          BY DEF TypeOK
        <4>2. turn' = [turn EXCEPT ![t] = [turn[t] EXCEPT !.pc = "patch"]]
          BY <3>1 DEF Goto
        <4> QED BY <4>1, <4>2 DEF Counters
      <3> QED BY <1>8, <3>2, <3>3 DEF RecallMemory, TypeOK, At
    <2> QED BY <1>8, <2>1, <2>2 DEF RecallMemory
  <1>9. ASSUME NEW t \in Turns, PatchMemory(t) PROVE TypeOK'
    <2>1. /\ memory' \in [Fields -> Writers \cup {Unset}]
          /\ last' \in [Fields -> Writers \cup {Unset}]
      BY <1>9, UpsertType DEF PatchMemory, TypeOK
    <2>2. /\ patch' \in [Writers -> Copy]
          /\ patch'[t].pc = "over" /\ \A v \in Writers \ {t} : patch'[v] = patch[v]
      BY <1>9, CloseType DEF PatchMemory
    <2>3. turn' \in [Turns -> Handler] /\ turn'[t].pc = "title"
          /\ \A u \in Turns \ {t} : turn'[u] = turn[u]
      <3>1. turn[t] \in Handler /\ turn \in [Turns -> Handler]
        BY DEF TypeOK
      <3>2. turn' = [turn EXCEPT ![t] = [turn[t] EXCEPT !.pc = "title"]]
        BY <1>9 DEF PatchMemory, Goto
      <3> QED BY <3>1, <3>2 DEF Counters
    <2>4. \A u \in Turns : turn'[u].pc = "patch" <=> patch'[u].pc = "write"
      BY <2>2, <2>3 DEF TypeOK, At
    <2>5. patch' \in [Writers -> [pc : {"new", "write", "over"}, fields : SUBSET Fields,
                                  copy : [Fields -> Writers \cup {Unset}]]]
      BY <2>2
    <2>6. turn' \in [Turns -> [pc : Counters, untitled : BOOLEAN]]
      BY <2>3
    <2>7. UNCHANGED <<rows, title, gone, told, failed, cut, mixed, early>>
      BY <1>9 DEF PatchMemory
    <2> HIDE DEF Copy, Handler, Row
    <2> QED BY <2>1, <2>4, <2>5, <2>6, <2>7 DEF TypeOK, At
  <1>10. ASSUME NEW t \in Turns, SetTitle(t) PROVE TypeOK'
    <2>1. title' \in {Untitled, Named} \cup Turns
      BY <1>10 DEF SetTitle, TypeOK
    <2> QED BY <1>10, <2>1, TurnGoes DEF SetTitle, TypeOK, At, Counters
  <1>11. ASSUME NEW t \in Turns, SendSaved(t) PROVE TypeOK'
    <2>1. told' \in [Turns -> SUBSET Events]
      BY <1>11, ToldType DEF SendSaved, TypeOK, Events
    <2> QED BY <1>11, <2>1, TurnGoes DEF SendSaved, TypeOK, At, Counters
  <1>12. ASSUME NEW t \in Turns, Hangup(t) PROVE TypeOK'
    BY <1>12 DEF Hangup, TypeOK, At
  <1>13. ASSUME NEW p \in Patchers, NEW F \in PatchFields, PatchGet(p, F) PROVE TypeOK'
    <2>1. /\ patch' \in [Writers -> Copy] /\ mixed' \subseteq Writers
          /\ \A v \in Writers \ {p} : patch'[v] = patch[v]
      BY <1>13, RecallType DEF PatchGet
    <2> QED BY <1>13, <2>1 DEF PatchGet, TypeOK, At
  <1>14. ASSUME NEW p \in Patchers, PatchPut(p) PROVE TypeOK'
    <2>1. /\ memory' \in [Fields -> Writers \cup {Unset}]
          /\ last' \in [Fields -> Writers \cup {Unset}]
      BY <1>14, UpsertType DEF PatchPut
    <2>2. patch' \in [Writers -> Copy] /\ \A v \in Writers \ {p} : patch'[v] = patch[v]
      BY <1>14, CloseType DEF PatchPut
    <2>3. \A t \in Turns : patch'[t] = patch[t]
      BY <2>2
    <2> HIDE DEF Copy
    <2>4. patch' \in [Writers -> [pc : {"new", "write", "over"}, fields : SUBSET Fields,
                                  copy : [Fields -> Writers \cup {Unset}]]]
      BY <2>2 DEF Copy
    <2> QED BY <1>14, <2>1, <2>3, <2>4 DEF PatchPut, TypeOK, At
  <1>15. CASE Rename
    BY <1>15 DEF Rename, TypeOK, At
  <1>16. CASE Crash
    <2>1. turn' \in [Turns -> Handler] /\ \A t \in Turns : turn'[t].pc # "patch"
      <3>1. \A t \in Turns : turn[t] \in Handler
        BY DEF TypeOK
      <3>2. \A t \in Turns : [turn[t] EXCEPT !.pc = "over"] \in Handler
                             /\ [turn[t] EXCEPT !.pc = "over"].pc = "over"
        BY <3>1 DEF Counters
      <3>3. turn' = [t \in Turns |-> IF Live(t) THEN [turn[t] EXCEPT !.pc = "over"] ELSE turn[t]]
        BY <1>16 DEF Crash
      <3>4. \A t \in Turns : ~Live(t) => turn[t].pc # "patch"
        BY DEF Live
      <3> HIDE DEF Handler
      <3> QED BY <3>1, <3>2, <3>3, <3>4
    <2>2. patch' \in [Writers -> Copy] /\ \A w \in Writers : patch'[w].pc # "write"
      <3>1. \A w \in Writers : patch[w] \in Copy
        BY DEF TypeOK
      <3>2. \A w \in Writers : [patch[w] EXCEPT !.pc = "over"] \in Copy
                               /\ [patch[w] EXCEPT !.pc = "over"].pc = "over"
        BY <3>1
      <3>3. patch' = [w \in Writers |->
                        IF patch[w].pc = "write" THEN [patch[w] EXCEPT !.pc = "over"] ELSE patch[w]]
        BY <1>16 DEF Crash
      <3> HIDE DEF Copy
      <3> QED BY <3>1, <3>2, <3>3
    <2> QED BY <1>16, <2>1, <2>2 DEF Crash, TypeOK, At
  <1>17. CASE UNCHANGED serverVars
    BY <1>17 DEF serverVars, TypeOK, At
  <1> QED BY <1>1, <1>2, <1>3, <1>4, <1>5, <1>6, <1>7, <1>8, <1>9, <1>10, <1>11, <1>12, <1>13,
             <1>14, <1>15, <1>16, <1>17 DEF ServerNext, HandlerStep, PatcherStep

\* The tables and the handlers keep their types, and a turn is about to write the memory
\* exactly when its window is open, for any number of turns and requests.
THEOREM TypeCorrect == Spec => []TypeOK
  BY InitTypes, StepTypes, PTL DEF Spec

-----------------------------------------------------------------------------
(* The dialogue in the table and what a turn leaves behind.                *)

\* HasQuestion, HasReply and Dialogue of a table r.
RowIn(r, t) == \E i \in DOMAIN r : r[i].turn = t
QuestionIn(r, t) == \E i \in DOMAIN r : r[i] = [role |-> "user", turn |-> t]
ReplyIn(r, t) == \E i \in DOMAIN r : r[i].role \in Replies /\ r[i].turn = t
DialogueIn(r) ==
  /\ \A i, j \in DOMAIN r : i < j /\ r[i].turn = r[j].turn
                         => r[i].role = "user" /\ r[j].role \in Replies
  /\ \A j \in DOMAIN r : r[j].role \in Replies => \E i \in 1 .. j - 1 : r[i].turn = r[j].turn

LEMMA TableTerms ==
  /\ Dialogue <=> DialogueIn(rows)
  /\ \A t \in Turns : (HasQuestion(t) <=> QuestionIn(rows, t)) /\ (HasReply(t) <=> ReplyIn(rows, t))
  BY DEF Dialogue, DialogueIn, HasQuestion, QuestionIn, HasReply, ReplyIn

\* What the table holds of a turn, by the place its handler has reached.
TurnInv(t) ==
  /\ turn[t].pc \in {"new", "ask"} => ~RowIn(rows, t)
  /\ turn[t].pc \in {"open", "stream", "save"} => QuestionIn(rows, t) /\ ~ReplyIn(rows, t)
  /\ turn[t].pc \in {"recall", "patch", "title", "list"} => ReplyIn(rows, t) \/ t \in gone \cup failed
  /\ turn[t].pc = "over" /\ QuestionIn(rows, t)
       => ReplyIn(rows, t) \/ "refused" \in told[t] \/ t \in gone \cup failed \cup cut
  /\ "saved" \in told[t] => ReplyIn(rows, t) \/ t \in failed

TableInv == DialogueIn(rows) /\ \A t \in Turns : TurnInv(t)

LEMMA NoQuestion == ASSUME NEW t \in Turns, ~RowIn(rows, t) PROVE ~QuestionIn(rows, t) /\ ~ReplyIn(rows, t)
  BY DEF RowIn, QuestionIn, ReplyIn

\* What an insert changes: the rows of its own turn.
LEMMA RowsGrow ==
  ASSUME TypeOK, NEW t \in Turns, NEW role \in {"user"} \cup Replies, Insert(role, t)
  PROVE  /\ \A u \in Turns \ {t} : /\ RowIn(rows', u) <=> RowIn(rows, u)
                                   /\ QuestionIn(rows', u) <=> QuestionIn(rows, u)
                                   /\ ReplyIn(rows', u) <=> ReplyIn(rows, u)
         /\ role = "user" => QuestionIn(rows', t) /\ (ReplyIn(rows', t) <=> ReplyIn(rows, t))
         /\ role \in Replies => ReplyIn(rows', t)
  <1> DEFINE n == Len(rows) + 1
  <1>1. /\ DOMAIN rows' = DOMAIN rows \cup {n}
        /\ \A i \in DOMAIN rows : rows'[i] = rows[i]
        /\ rows'[n] = [role |-> role, turn |-> t]
        /\ \A i \in DOMAIN rows' : i # n => i \in DOMAIN rows
    BY AppendRow
  <1>2. rows'[n].turn = t /\ rows'[n].role = role
    BY <1>1
  <1> HIDE DEF n
  <1>3. ASSUME NEW u \in Turns \ {t} PROVE RowIn(rows', u) <=> RowIn(rows, u)
    BY <1>1, <1>2 DEF RowIn
  <1>4. ASSUME NEW u \in Turns \ {t} PROVE QuestionIn(rows', u) <=> QuestionIn(rows, u)
    BY <1>1, <1>2 DEF QuestionIn
  <1>5. ASSUME NEW u \in Turns PROVE ReplyIn(rows, u) => ReplyIn(rows', u)
    BY <1>1 DEF ReplyIn
  <1>6. ASSUME NEW u \in Turns, ReplyIn(rows', u), u # t \/ role = "user" PROVE ReplyIn(rows, u)
    BY <1>1, <1>2, <1>6 DEF ReplyIn
  <1>7. role = "user" => QuestionIn(rows', t)
    BY <1>1 DEF QuestionIn
  <1>8. role \in Replies => ReplyIn(rows', t)
    BY <1>1, <1>2 DEF ReplyIn
  <1>9. \A u \in Turns \ {t} : ReplyIn(rows', u) <=> ReplyIn(rows, u)
    BY <1>5, <1>6
  <1>10. role = "user" => (ReplyIn(rows', t) <=> ReplyIn(rows, t))
    BY <1>5, <1>6
  <1> QED BY <1>3, <1>4, <1>7, <1>8, <1>9, <1>10

LEMMA QuestionFits ==
  ASSUME TypeOK, DialogueIn(rows), NEW t \in Turns, ~RowIn(rows, t), Insert("user", t)
  PROVE  DialogueIn(rows')
  <1> DEFINE n == Len(rows) + 1
  <1>1. /\ DOMAIN rows' = DOMAIN rows \cup {n}
        /\ \A i \in DOMAIN rows : rows'[i] = rows[i] /\ i <= Len(rows)
        /\ rows'[n] = [role |-> "user", turn |-> t]
        /\ \A i \in DOMAIN rows' : i # n => i \in DOMAIN rows
    BY AppendRow
  <1>2. \A i \in DOMAIN rows : rows[i].turn # t /\ i \in Nat /\ \A k \in 1 .. i - 1 : k \in DOMAIN rows
    <2>1. rows \in Seq(Row)
      BY DEF TypeOK, Row
    <2> QED BY <2>1 DEF RowIn
  <1>3. n \in Nat /\ \A i \in DOMAIN rows : i < n
    BY <1>1, <1>2 DEF TypeOK
  <1>4. \A i, j \in DOMAIN rows' : i < j /\ rows'[i].turn = rows'[j].turn
                                 => rows'[i].role = "user" /\ rows'[j].role \in Replies
    BY <1>1, <1>2, <1>3 DEF DialogueIn
  <1>5. \A j \in DOMAIN rows' : rows'[j].role \in Replies
                              => \E i \in 1 .. j - 1 : rows'[i].turn = rows'[j].turn
    <2> SUFFICES ASSUME NEW j \in DOMAIN rows', rows'[j].role \in Replies
                 PROVE  \E i \in 1 .. j - 1 : rows'[i].turn = rows'[j].turn
      OBVIOUS
    <2>1. j \in DOMAIN rows
      BY <1>1
    <2> QED BY <1>1, <1>2, <2>1 DEF DialogueIn
  <1> QED BY <1>4, <1>5 DEF DialogueIn

LEMMA ReplyFits ==
  ASSUME TypeOK, DialogueIn(rows), NEW t \in Turns, NEW role \in Replies,
         QuestionIn(rows, t), ~ReplyIn(rows, t), Insert(role, t)
  PROVE  DialogueIn(rows')
  <1> DEFINE n == Len(rows) + 1
  <1>1. /\ DOMAIN rows' = DOMAIN rows \cup {n}
        /\ \A i \in DOMAIN rows : rows'[i] = rows[i] /\ i <= Len(rows)
        /\ rows'[n] = [role |-> role, turn |-> t]
        /\ \A i \in DOMAIN rows' : i # n => i \in DOMAIN rows
    BY AppendRow
  <1>2. \A i \in DOMAIN rows : i \in Nat /\ i >= 1 /\ rows[i].role \in {"user"} \cup Replies
                             /\ \A k \in 1 .. i - 1 : k \in DOMAIN rows
    <2>0. rows \in Seq(Row)
      BY DEF TypeOK, Row
    <2>1. rows \in Seq(Row) /\ \A i \in DOMAIN rows : rows[i] \in Row
      BY <2>0
    <2>2. \A i \in DOMAIN rows : rows[i].role \in {"user"} \cup Replies
      BY <2>1 DEF Row
    <2>3. \A i \in DOMAIN rows : i \in Nat /\ i >= 1 /\ \A k \in 1 .. i - 1 : k \in DOMAIN rows
      BY <2>1
    <2> QED BY <2>2, <2>3
  <1>3. n \in Nat /\ \A i \in DOMAIN rows : i < n /\ i \in 1 .. n - 1
    BY <1>1, <1>2 DEF TypeOK
  <1>4. \A i \in DOMAIN rows : rows[i].turn = t => rows[i].role = "user"
    BY <1>2 DEF ReplyIn
  <1>5. \E i \in DOMAIN rows : rows[i].turn = t
    BY DEF QuestionIn
  <1>6. \A i, j \in DOMAIN rows' : i < j /\ rows'[i].turn = rows'[j].turn
                                 => rows'[i].role = "user" /\ rows'[j].role \in Replies
    BY <1>1, <1>2, <1>3, <1>4 DEF DialogueIn
  <1>7. \A j \in DOMAIN rows' : rows'[j].role \in Replies
                              => \E i \in 1 .. j - 1 : rows'[i].turn = rows'[j].turn
    <2> SUFFICES ASSUME NEW j \in DOMAIN rows', rows'[j].role \in Replies
                 PROVE  \E i \in 1 .. j - 1 : rows'[i].turn = rows'[j].turn
      OBVIOUS
    <2>1. CASE j = n
      <3>1. PICK i \in DOMAIN rows : rows[i].turn = t
        BY <1>5
      <3> QED BY <1>1, <1>3, <2>1, <3>1
    <2>2. CASE j \in DOMAIN rows
      BY <1>1, <1>2, <2>2 DEF DialogueIn
    <2> QED BY <1>1, <2>1, <2>2
  <1> QED BY <1>6, <1>7 DEF DialogueIn

\* A step changes nothing about a turn but what it adds to gone, failed and cut.
LEMMA TurnKeeps ==
  ASSUME NEW u \in Turns, TurnInv(u), turn'[u].pc = turn[u].pc, told'[u] = told[u],
         gone \subseteq gone', failed \subseteq failed', cut \subseteq cut',
         RowIn(rows', u) <=> RowIn(rows, u), QuestionIn(rows', u) <=> QuestionIn(rows, u), ReplyIn(rows', u) <=> ReplyIn(rows, u)
  PROVE  TurnInv(u)'
  BY DEF TurnInv

LEMMA OneGoes ==
  ASSUME TypeOK, NEW t \in Turns, NEW pc, Goto(t, pc)
  PROVE  turn'[t].pc = pc /\ \A u \in Turns \ {t} : turn'[u] = turn[u]
  <1>1. turn \in [Turns -> Handler] /\ turn[t] \in Handler
    BY DEF TypeOK, Handler
  <1>2. turn' = [turn EXCEPT ![t] = [turn[t] EXCEPT !.pc = pc]]
    BY DEF Goto
  <1>3. [turn[t] EXCEPT !.pc = pc].pc = pc
    BY <1>1 DEF Handler
  <1> QED BY <1>1, <1>2, <1>3

LEMMA OneTold ==
  ASSUME TypeOK, NEW t \in Turns, NEW e, Tell(t, e)
  PROVE  told'[t] = told[t] \cup {e} /\ \A u \in Turns \ {t} : told'[u] = told[u]
  BY DEF TypeOK, Tell

\* What is left to show of a step of turn t.
LEMMA TableMoves ==
  ASSUME TypeOK, TableInv, NEW t \in Turns, DialogueIn(rows'), TurnInv(t)',
         \A u \in Turns \ {t} : turn'[u] = turn[u] /\ told'[u] = told[u],
         gone \subseteq gone', failed \subseteq failed', cut \subseteq cut',
         rows' = rows \/ \E role \in {"user"} \cup Replies : Insert(role, t)
  PROVE  TableInv'
  <1>1. \A u \in Turns \ {t} : /\ RowIn(rows', u) <=> RowIn(rows, u)
                               /\ QuestionIn(rows', u) <=> QuestionIn(rows, u)
                               /\ ReplyIn(rows', u) <=> ReplyIn(rows, u)
    <2>1. CASE rows' = rows
      BY <2>1
    <2>2. CASE \E role \in {"user"} \cup Replies : Insert(role, t)
      BY <2>2, RowsGrow
    <2> QED BY <2>1, <2>2
  <1>2. ASSUME NEW u \in Turns \ {t} PROVE TurnInv(u)'
    <2>1. TurnInv(u)
      BY DEF TableInv
    <2> QED BY <1>1, <2>1, TurnKeeps
  <1> QED BY <1>2 DEF TableInv

LEMMA StepTable == TypeOK /\ TableInv /\ [ServerNext]_serverVars => TableInv'
  <1> SUFFICES ASSUME TypeOK, TableInv, [ServerNext]_serverVars PROVE TableInv'
    OBVIOUS
  <1> USE DEF At
  <1>0. \A t \in Turns : TurnInv(t)
    BY DEF TableInv
  <1>1. ASSUME NEW t \in Turns, Begin(t) PROVE TableInv'
    <2>1. turn'[t].pc = "ask" /\ \A u \in Turns \ {t} : turn'[u] = turn[u]
      BY <1>1 DEF Begin, TypeOK
    <2>2. rows' = rows /\ UNCHANGED <<told, gone, failed, cut>> /\ turn[t].pc = "new"
      BY <1>1 DEF Begin
    <2>3. TurnInv(t)'
      BY <1>0, <2>1, <2>2 DEF TurnInv
    <2> QED BY <2>1, <2>2, <2>3, TableMoves DEF TableInv
  <1>2. ASSUME NEW t \in Turns, Ask(t) PROVE TableInv'
    <2>0. UNCHANGED <<gone, failed, cut>> /\ turn[t].pc = "ask" /\ ~RowIn(rows, t)
          /\ ~ReplyIn(rows, t) /\ ~QuestionIn(rows, t)
      BY <1>0, <1>2, NoQuestion DEF Ask, TurnInv
    <2>1. CASE Insert("user", t) /\ Goto(t, "open") /\ UNCHANGED told
      <3>1. turn'[t].pc = "open" /\ \A u \in Turns \ {t} : turn'[u] = turn[u]
        BY <2>1, OneGoes
      <3>2. QuestionIn(rows', t) /\ ~ReplyIn(rows', t)
        BY <2>0, <2>1, RowsGrow
      <3>3. TurnInv(t)'
        BY <1>0, <2>0, <2>1, <3>1, <3>2 DEF TurnInv
      <3>4. DialogueIn(rows')
        BY <2>0, <2>1, QuestionFits DEF TableInv
      <3> QED BY <2>0, <2>1, <3>1, <3>3, <3>4, TableMoves
    <2>2. CASE Goto(t, "over") /\ Tell(t, "refused") /\ UNCHANGED rows
      <3>1. turn'[t].pc = "over" /\ \A u \in Turns \ {t} : turn'[u] = turn[u]
        BY <2>2, OneGoes
      <3>2. told'[t] = told[t] \cup {"refused"} /\ \A u \in Turns \ {t} : told'[u] = told[u]
        BY <2>2, OneTold
      <3>3. TurnInv(t)'
        BY <1>0, <2>0, <2>2, <3>1, <3>2 DEF TurnInv
      <3> QED BY <2>0, <2>2, <3>1, <3>2, <3>3, TableMoves DEF TableInv
    <2> QED BY <1>2, <2>1, <2>2 DEF Ask
  <1>3. ASSUME NEW t \in Turns, OpenStream(t) PROVE TableInv'
    <2>0. UNCHANGED <<rows, gone, failed, cut>> /\ turn[t].pc = "open"
      BY <1>3 DEF OpenStream
    <2>1. CASE Goto(t, "stream") /\ UNCHANGED told
      <3>1. turn'[t].pc = "stream" /\ \A u \in Turns \ {t} : turn'[u] = turn[u]
        BY <2>1, OneGoes
      <3>2. TurnInv(t)'
        BY <1>0, <2>0, <2>1, <3>1 DEF TurnInv
      <3> QED BY <2>0, <2>1, <3>1, <3>2, TableMoves DEF TableInv
    <2>2. CASE Goto(t, "over") /\ Tell(t, "refused")
      <3>1. turn'[t].pc = "over" /\ \A u \in Turns \ {t} : turn'[u] = turn[u]
        BY <2>2, OneGoes
      <3>2. told'[t] = told[t] \cup {"refused"} /\ \A u \in Turns \ {t} : told'[u] = told[u]
        BY <2>2, OneTold
      <3>3. TurnInv(t)'
        BY <1>0, <2>0, <3>1, <3>2 DEF TurnInv
      <3> QED BY <2>0, <2>2, <3>1, <3>2, <3>3, TableMoves DEF TableInv
    <2> QED BY <1>3, <2>1, <2>2 DEF OpenStream
  <1>4. ASSUME NEW t \in Turns, NEW e \in {"file", "done", "error"}, Forward(t, e) PROVE TableInv'
    <2>0. UNCHANGED <<rows, gone, failed, cut>> /\ turn[t].pc = "stream"
      BY <1>4 DEF Forward
    <2>1. CASE t \in gone
      <3>1. turn'[t].pc = "over" /\ \A u \in Turns \ {t} : turn'[u] = turn[u]
        BY <1>4, <2>1, OneGoes DEF Forward
      <3>2. told' = told
        BY <1>4, <2>1 DEF Forward
      <3>3. TurnInv(t)'
        BY <1>0, <2>0, <2>1, <3>1, <3>2 DEF TurnInv
      <3> QED BY <2>0, <3>1, <3>2, <3>3, TableMoves DEF TableInv
    <2>2. CASE t \notin gone
      <3>1. turn' = turn
        BY <1>4, <2>2 DEF Forward
      <3>2. told'[t] = told[t] \cup {e} /\ \A u \in Turns \ {t} : told'[u] = told[u]
        BY <1>4, <2>2, OneTold DEF Forward
      <3>3. TurnInv(t)'
        BY <1>0, <2>0, <3>1, <3>2 DEF TurnInv
      <3> QED BY <2>0, <3>1, <3>2, <3>3, TableMoves DEF TableInv
    <2> QED BY <2>1, <2>2
  <1>5. ASSUME NEW t \in Turns, StreamEnds(t) PROVE TableInv'
    <2>0. UNCHANGED <<rows, told, gone, failed, cut>> /\ turn[t].pc = "stream"
      BY <1>5 DEF StreamEnds
    <2>1. \E pc \in {"save", "over"} : Goto(t, pc) /\ (pc = "over" => t \in gone)
      BY <1>5 DEF StreamEnds
    <2>2. /\ turn'[t].pc = "save" \/ (turn'[t].pc = "over" /\ t \in gone)
          /\ \A u \in Turns \ {t} : turn'[u] = turn[u]
      BY <2>1, OneGoes
    <2>3. TurnInv(t)'
      BY <1>0, <2>0, <2>2 DEF TurnInv
    <2> QED BY <2>0, <2>2, <2>3, TableMoves DEF TableInv
  <1>6. ASSUME NEW t \in Turns, StoreAnswer(t) PROVE TableInv'
    <2>0. UNCHANGED <<told, gone, cut>> /\ turn[t].pc = "save" /\ QuestionIn(rows, t) /\ ~ReplyIn(rows, t)
          /\ failed \subseteq failed'
      BY <1>0, <1>6 DEF StoreAnswer, TurnInv
    <2>1. turn'[t].pc = "recall" /\ \A u \in Turns \ {t} : turn'[u] = turn[u]
      BY <1>6, OneGoes DEF StoreAnswer
    <2>2. CASE Insert("assistant", t)
      <3>1. ReplyIn(rows', t)
        BY <2>2, RowsGrow
      <3>2. TurnInv(t)'
        BY <2>1, <3>1 DEF TurnInv
      <3>3. DialogueIn(rows')
        BY <2>0, <2>2, ReplyFits DEF TableInv
      <3> QED BY <2>0, <2>1, <2>2, <3>2, <3>3, TableMoves
    <2>3. CASE rows' = rows /\ t \in gone \cup failed'
      <3>1. TurnInv(t)'
        BY <1>0, <2>0, <2>1, <2>3 DEF TurnInv
      <3> QED BY <2>0, <2>1, <2>3, <3>1, TableMoves DEF TableInv
    <2> QED BY <1>6, <2>2, <2>3 DEF StoreAnswer
  <1>7. ASSUME NEW t \in Turns, StoreError(t) PROVE TableInv'
    <2>0. UNCHANGED <<gone, cut>> /\ turn[t].pc = "save" /\ QuestionIn(rows, t) /\ ~ReplyIn(rows, t)
          /\ failed \subseteq failed'
      BY <1>0, <1>7 DEF StoreError, TurnInv
    <2>1. turn'[t].pc = "over" /\ \A u \in Turns \ {t} : turn'[u] = turn[u]
      BY <1>7, OneGoes DEF StoreError
    <2>2. told'[t] \in {told[t], told[t] \cup {"error"}} /\ \A u \in Turns \ {t} : told'[u] = told[u]
      BY <1>7, OneTold DEF StoreError
    <2>3. CASE Insert("error", t)
      <3>1. ReplyIn(rows', t)
        BY <2>3, RowsGrow
      <3>2. TurnInv(t)'
        BY <2>1, <3>1 DEF TurnInv
      <3>3. DialogueIn(rows')
        BY <2>0, <2>3, ReplyFits DEF TableInv
      <3> QED BY <2>0, <2>1, <2>2, <2>3, <3>2, <3>3, TableMoves
    <2>4. CASE rows' = rows /\ t \in gone \cup failed'
      <3>1. TurnInv(t)'
        BY <1>0, <2>0, <2>1, <2>2, <2>4 DEF TurnInv
      <3> QED BY <2>0, <2>1, <2>2, <2>4, <3>1, TableMoves DEF TableInv
    <2> QED BY <1>7, <2>3, <2>4 DEF StoreError
  <1>8. ASSUME NEW t \in Turns, RecallMemory(t) \/ PatchMemory(t) \/ SetTitle(t) PROVE TableInv'
    <2>0. UNCHANGED <<rows, told, gone, failed, cut>> /\ turn[t].pc \in {"recall", "patch", "title"}
      BY <1>8 DEF RecallMemory, PatchMemory, SetTitle
    <2>1. \E pc \in {"patch", "title", "list"} : Goto(t, pc)
      BY <1>8 DEF RecallMemory, PatchMemory, SetTitle
    <2>2. turn'[t].pc \in {"patch", "title", "list"} /\ \A u \in Turns \ {t} : turn'[u] = turn[u]
      BY <2>1, OneGoes
    <2>3. TurnInv(t)'
      BY <1>0, <2>0, <2>2 DEF TurnInv
    <2> QED BY <2>0, <2>2, <2>3, TableMoves DEF TableInv
  <1>9. ASSUME NEW t \in Turns, SendSaved(t) PROVE TableInv'
    <2>0. UNCHANGED <<rows, gone, failed, cut>> /\ turn[t].pc = "list"
      BY <1>9 DEF SendSaved
    <2>1. turn'[t].pc = "over" /\ \A u \in Turns \ {t} : turn'[u] = turn[u]
      BY <1>9, OneGoes DEF SendSaved
    <2>2. /\ told'[t] = told[t] \/ (told'[t] = told[t] \cup {"saved"} /\ t \notin gone)
          /\ \A u \in Turns \ {t} : told'[u] = told[u]
      BY <1>9, OneTold DEF SendSaved
    <2>3. TurnInv(t)'
      BY <1>0, <2>0, <2>1, <2>2 DEF TurnInv
    <2> QED BY <2>0, <2>1, <2>2, <2>3, TableMoves DEF TableInv
  <1>10. CASE UNCHANGED <<rows, turn, told, failed, cut>> /\ gone \subseteq gone'
    <2>1. \A u \in Turns : TurnInv(u)'
      BY <1>0, <1>10, TurnKeeps
    <2> QED BY <1>10, <2>1 DEF TableInv
  <1>11. CASE Crash
    <2>1. UNCHANGED <<rows, told, gone, failed>> /\ cut \subseteq cut'
      BY <1>11 DEF Crash
    <2>2. ASSUME NEW u \in Turns PROVE TurnInv(u)'
      <3>1. CASE ~Live(u)
        <4>1. turn'[u] = turn[u]
          BY <1>11, <3>1 DEF Crash
        <4> QED BY <1>0, <2>1, <4>1, TurnKeeps
      <3>2. CASE Live(u)
        <4>1. turn'[u] = [turn[u] EXCEPT !.pc = "over"] /\ u \in cut'
          BY <1>11, <3>2 DEF Crash
        <4>2. turn'[u].pc = "over"
          BY <4>1 DEF TypeOK
        <4> QED BY <1>0, <2>1, <4>1, <4>2 DEF TurnInv
      <3> QED BY <3>1, <3>2
    <2> QED BY <2>1, <2>2 DEF TableInv
  <1>12. ASSUME NEW t \in Turns, Hangup(t) PROVE TableInv'
    BY <1>10, <1>12 DEF Hangup
  <1>13. ASSUME NEW p \in Patchers, PatcherStep(p) PROVE TableInv'
    BY <1>10, <1>13 DEF PatcherStep, PatchGet, PatchPut
  <1>14. CASE Rename \/ UNCHANGED serverVars
    BY <1>10, <1>14 DEF Rename, serverVars
  <1> QED BY <1>1, <1>2, <1>3, <1>4, <1>5, <1>6, <1>7, <1>8, <1>9, <1>11, <1>12, <1>13, <1>14
          DEF ServerNext, HandlerStep

LEMMA InitTable == ServerInit => TableInv
  BY DEF ServerInit, TableInv, TurnInv, DialogueIn, RowIn, QuestionIn, ReplyIn, NewTurn

\* The table reads as a dialogue, however turns overlap, break off or crash.
THEOREM TableIsDialogue == Spec => []Dialogue
  <1>1. TableInv => Dialogue
    BY TableTerms DEF TableInv
  <1> QED BY <1>1, InitTable, StepTable, TypeCorrect, PTL DEF Spec

\* messages_saved is sent only for an answer that is stored, and a turn that is over leaves
\* a reply or one of the reasons the code has for leaving none.
THEOREM TurnsAreAccounted == Spec => []RepliesAccounted
  <1>1. TableInv => RepliesAccounted
    BY TableTerms DEF TableInv, TurnInv, RepliesAccounted, SavedIsStored, TurnLeavesReply, At
  <1> QED BY <1>1, InitTable, StepTable, TypeCorrect, PTL DEF Spec

-----------------------------------------------------------------------------
(* Edits of the memory.                                                    *)

Open(w) == patch[w].pc = "write"

\* A copy is as good as the memory, unless windows have overlapped.
MemoryInv ==
  /\ MemoryKept
  /\ \A w \in Writers, f \in Fields : Open(w) => patch[w].copy[f] = last[f] \/ last[f] \in mixed
  /\ \A v, w \in Writers : Open(v) /\ Open(w) /\ v # w => v \in mixed

LEMMA RecallKeeps ==
  ASSUME TypeOK, MemoryInv, NEW w \in Writers, NEW F \in SUBSET Fields, Recall(w, F),
         UNCHANGED <<memory, last>>
  PROVE  MemoryInv'
  <1>1. patch'[w].copy = memory /\ \A v \in Writers \ {w} : patch'[v] = patch[v]
    <2>1. patch \in [Writers -> Copy]
      BY DEF TypeOK, Copy
    <2> QED BY <2>1 DEF Recall
  <1>2. mixed \subseteq mixed' /\ \A v \in Writers : Open(v) => v \in mixed' /\ w \in mixed'
    BY DEF Recall, InWindow, Open
  <1>3. \A f \in Fields : memory[f] = last[f] \/ last[f] \in mixed
    BY DEF MemoryInv, MemoryKept
  <1>4. MemoryKept'
    BY <1>2, <1>3 DEF MemoryKept
  <1>5. ASSUME NEW v \in Writers, NEW f \in Fields, patch'[v].pc = "write"
        PROVE  patch'[v].copy[f] = last'[f] \/ last'[f] \in mixed'
    BY <1>1, <1>2, <1>3, <1>5 DEF MemoryInv, Open
  <1>6. ASSUME NEW u \in Writers, NEW v \in Writers, patch'[u].pc = "write", patch'[v].pc = "write", u # v
        PROVE  u \in mixed'
    BY <1>1, <1>2, <1>6 DEF MemoryInv, Open
  <1> QED BY <1>4, <1>5, <1>6 DEF MemoryInv, Open

\* Every writer whose window is open beside that of w is mixed, and so is w.
LEMMA UpsertKeeps ==
  ASSUME TypeOK, MemoryInv, NEW w \in Writers, Open(w), Upsert(w), CloseWindow(w), mixed' = mixed
  PROVE  MemoryInv'
  <1>1. patch'[w].pc = "over" /\ \A v \in Writers \ {w} : patch'[v] = patch[v]
    BY CloseType
  <1>2. \A f \in Fields : IF f \in patch[w].fields THEN memory'[f] = w /\ last'[f] = w
                         ELSE memory'[f] = patch[w].copy[f] /\ last'[f] = last[f]
    BY DEF Upsert
  <1>3. MemoryKept'
    BY <1>2 DEF MemoryInv, MemoryKept
  <1>4. ASSUME NEW v \in Writers, NEW f \in Fields, patch'[v].pc = "write"
        PROVE  patch'[v].copy[f] = last'[f] \/ last'[f] \in mixed'
    <2>1. v # w /\ patch'[v] = patch[v] /\ Open(v)
      BY <1>1, <1>4 DEF Open
    <2>2. w \in mixed
      BY <2>1 DEF MemoryInv
    <2> QED BY <1>2, <2>1, <2>2 DEF MemoryInv
  <1>5. ASSUME NEW u \in Writers, NEW v \in Writers, patch'[u].pc = "write", patch'[v].pc = "write", u # v
        PROVE  u \in mixed'
    BY <1>1, <1>5 DEF MemoryInv, Open
  <1> QED BY <1>3, <1>4, <1>5 DEF MemoryInv, Open

\* Windows that close without writing harm nobody.
LEMMA ClosingKeeps ==
  ASSUME MemoryInv, UNCHANGED <<memory, last, mixed>>,
         \A w \in Writers : patch'[w].pc = "write" => patch'[w] = patch[w]
  PROVE  MemoryInv'
  <1>1. MemoryKept'
    BY DEF MemoryInv, MemoryKept
  <1>2. ASSUME NEW w \in Writers, NEW f \in Fields, patch'[w].pc = "write"
        PROVE  patch'[w].copy[f] = last'[f] \/ last'[f] \in mixed'
    BY <1>2 DEF MemoryInv, Open
  <1>3. ASSUME NEW u \in Writers, NEW v \in Writers, patch'[u].pc = "write", patch'[v].pc = "write", u # v
        PROVE  u \in mixed'
    BY <1>3 DEF MemoryInv, Open
  <1> QED BY <1>1, <1>2, <1>3 DEF MemoryInv, Open

LEMMA StepMemory == TypeOK /\ MemoryInv /\ [ServerNext]_serverVars => MemoryInv'
  <1> SUFFICES ASSUME TypeOK, MemoryInv, [ServerNext]_serverVars PROVE MemoryInv'
    OBVIOUS
  <1>1. CASE UNCHANGED <<memory, patch, last, mixed>>
    BY <1>1, ClosingKeeps
  <1>2. ASSUME NEW t \in Turns, RecallMemory(t) PROVE MemoryInv'
    BY <1>1, <1>2, RecallKeeps DEF RecallMemory
  <1>3. ASSUME NEW t \in Turns, PatchMemory(t) PROVE MemoryInv'
    <2>1. Open(t) /\ CloseWindow(t) /\ mixed' = mixed
      BY <1>3 DEF PatchMemory, TypeOK, Open
    <2>2. CASE t \in gone
      <3>1. UNCHANGED <<memory, last>>
        BY <1>3, <2>2 DEF PatchMemory
      <3>2. patch'[t].pc = "over" /\ \A v \in Writers \ {t} : patch'[v] = patch[v]
        BY <2>1, CloseType
      <3> QED BY <2>1, <3>1, <3>2, ClosingKeeps
    <2>3. CASE t \notin gone
      BY <1>3, <2>1, <2>3, UpsertKeeps DEF PatchMemory
    <2> QED BY <2>2, <2>3
  <1>4. ASSUME NEW p \in Patchers, PatcherStep(p) PROVE MemoryInv'
    <2>1. ASSUME NEW F \in PatchFields, PatchGet(p, F) PROVE MemoryInv'
      BY <2>1, RecallKeeps DEF PatchGet
    <2>2. CASE PatchPut(p)
      BY <2>2, UpsertKeeps DEF PatchPut, Open
    <2> QED BY <1>4, <2>1, <2>2 DEF PatcherStep
  <1>5. CASE Crash
    <2>1. \A w \in Writers : patch'[w].pc = "write" => patch'[w] = patch[w]
      <3>1. \A w \in Writers : patch[w] \in Copy
        BY DEF TypeOK, Copy
      <3>2. \A w \in Writers : [patch[w] EXCEPT !.pc = "over"].pc = "over"
        BY <3>1 DEF Copy
      <3> QED BY <1>5, <3>2 DEF Crash
    <2> QED BY <1>5, <2>1, ClosingKeeps DEF Crash
  <1>6. ASSUME NEW t \in Turns, Begin(t) \/ Hangup(t) PROVE MemoryInv'
    BY <1>1, <1>6 DEF Begin, Hangup
  <1>7. ASSUME NEW t \in Turns, HandlerStep(t) PROVE MemoryInv'
    BY <1>1, <1>2, <1>3, <1>7 DEF HandlerStep, Ask, OpenStream, Forward, StreamEnds, StoreAnswer,
       StoreError, SetTitle, SendSaved
  <1>8. CASE Rename \/ UNCHANGED serverVars
    BY <1>1, <1>8 DEF Rename, serverVars
  <1> QED BY <1>4, <1>5, <1>6, <1>7, <1>8 DEF ServerNext

-----------------------------------------------------------------------------
(* Edits of the title.                                                     *)

\* A turn that goes on with an empty title is one of those that may set it.
TitleInv == TitleKept /\ \A t \in Turns : Live(t) /\ turn[t].untitled => t \in early

LEMMA TitleSame ==
  ASSUME TitleInv, UNCHANGED <<title, early>>,
         \A u \in Turns : turn'[u].pc \notin {"new", "over"} /\ turn'[u].untitled
                        => (turn[u].pc \notin {"new", "over"} /\ turn[u].untitled) \/ u \in early
  PROVE  TitleInv'
  BY DEF TitleInv, TitleKept, Live

LEMMA GoesOn ==
  ASSUME TypeOK, NEW t \in Turns, NEW pc, Goto(t, pc)
  PROVE  /\ turn'[t].untitled = turn[t].untitled
         /\ \A u \in Turns \ {t} : turn'[u] = turn[u]
  <1>1. turn \in [Turns -> Handler] /\ turn[t] \in Handler
    BY DEF TypeOK, Handler
  <1>2. turn' = [turn EXCEPT ![t] = [turn[t] EXCEPT !.pc = pc]]
    BY DEF Goto
  <1>3. [turn[t] EXCEPT !.pc = pc].untitled = turn[t].untitled
    BY <1>1 DEF Handler
  <1> QED BY <1>1, <1>2, <1>3

LEMMA StepTitle == TypeOK /\ TitleInv /\ [ServerNext]_serverVars => TitleInv'
  <1> SUFFICES ASSUME TypeOK, TitleInv, [ServerNext]_serverVars PROVE TitleInv'
    OBVIOUS
  <1>1. CASE UNCHANGED <<turn, title, early>>
    BY <1>1, TitleSame
  <1>2. ASSUME NEW t \in Turns, NEW pc, Live(t), Goto(t, pc), UNCHANGED <<title, early>> PROVE TitleInv'
    BY <1>2, GoesOn, TitleSame DEF Live
  <1>3. ASSUME NEW t \in Turns, Begin(t) PROVE TitleInv'
    <2>1. turn'[t].untitled = (title = Untitled) /\ \A u \in Turns \ {t} : turn'[u] = turn[u]
      BY <1>3 DEF Begin, TypeOK
    <2>2. title = Untitled => early = Turns
      BY DEF TitleInv, TitleKept
    <2> QED BY <1>3, <2>1, <2>2, TitleSame DEF Begin
  <1>4. ASSUME NEW t \in Turns, Ask(t) \/ OpenStream(t) \/ StreamEnds(t) \/ StoreAnswer(t) \/ StoreError(t)
                              \/ RecallMemory(t) \/ PatchMemory(t) \/ SendSaved(t)
        PROVE TitleInv'
    <2>1. Live(t) /\ UNCHANGED <<title, early>>
      BY <1>4 DEF Ask, OpenStream, StreamEnds, StoreAnswer, StoreError, RecallMemory, PatchMemory,
         SendSaved, At, Live
    <2>2. \E pc \in Counters : Goto(t, pc)
      BY <1>4 DEF Ask, OpenStream, StreamEnds, StoreAnswer, StoreError, RecallMemory, PatchMemory,
         SendSaved, Counters
    <2> QED BY <1>2, <2>1, <2>2
  <1>5. ASSUME NEW t \in Turns, NEW e \in {"file", "done", "error"}, Forward(t, e) PROVE TitleInv'
    BY <1>1, <1>2, <1>5 DEF Forward, At, Live
  <1>6. ASSUME NEW t \in Turns, SetTitle(t) PROVE TitleInv'
    <2>1. /\ turn'[t].untitled = turn[t].untitled
          /\ \A u \in Turns \ {t} : turn'[u] = turn[u]
      BY <1>6, GoesOn DEF SetTitle
    <2>2. Live(t) /\ early' = early
      BY <1>6 DEF SetTitle, At, Live
    <2>3. \A u \in Turns : Live(u)' /\ turn'[u].untitled => u \in early'
      BY <2>1, <2>2 DEF TitleInv, Live
    <2>4. CASE title' = title
      BY <2>2, <2>3, <2>4 DEF TitleInv, TitleKept
    <2>5. CASE turn[t].untitled /\ title' = t
      <3>1. t \in early
        BY <2>2, <2>5 DEF TitleInv
      <3> QED BY <2>2, <2>3, <2>5, <3>1 DEF TitleInv, TitleKept
    <2> QED BY <1>6, <2>4, <2>5 DEF SetTitle
  <1>7. CASE Rename
    BY <1>7 DEF Rename, TitleInv, TitleKept, Live
  <1>8. CASE Crash
    <2>1. \A u \in Turns : turn'[u].pc \notin {"new", "over"} => turn'[u] = turn[u]
      <3>1. \A u \in Turns : turn[u] \in Handler
        BY DEF TypeOK, Handler
      <3>2. \A u \in Turns : [turn[u] EXCEPT !.pc = "over"].pc = "over"
        BY <3>1 DEF Handler
      <3> QED BY <1>8, <3>2 DEF Crash
    <2> QED BY <1>8, <2>1, TitleSame DEF Crash
  <1>9. ASSUME NEW p \in Patchers, PatcherStep(p) PROVE TitleInv'
    BY <1>1, <1>9 DEF PatcherStep, PatchGet, PatchPut
  <1>10. ASSUME NEW t \in Turns, Hangup(t) PROVE TitleInv'
    BY <1>1, <1>10 DEF Hangup
  <1>11. CASE UNCHANGED serverVars
    BY <1>1, <1>11 DEF serverVars
  <1> QED BY <1>3, <1>4, <1>5, <1>6, <1>7, <1>8, <1>9, <1>10, <1>11 DEF ServerNext, HandlerStep

LEMMA InitEdits == ServerInit => MemoryInv /\ TitleInv
  <1> SUFFICES ASSUME ServerInit PROVE MemoryInv /\ TitleInv
    OBVIOUS
  <1>1. \A w \in Writers : patch[w].pc = "new"
    BY DEF ServerInit, NewPatch
  <1>2. \A t \in Turns : turn[t].pc = "new"
    BY DEF ServerInit, NewTurn
  <1>3. MemoryInv
    BY <1>1 DEF ServerInit, MemoryInv, MemoryKept, Open
  <1>4. TitleInv
    BY <1>2 DEF ServerInit, TitleInv, TitleKept, Live
  <1> QED BY <1>3, <1>4

\* A field of the memory is lost only to a writer that had read it beside another, and a
\* title that a user gave only to a turn that had read an empty one.
THEOREM EditsAreKept == Spec => []EditsSurvive
  <1>1. MemoryInv /\ TitleInv => EditsSurvive
    BY DEF MemoryInv, TitleInv, EditsSurvive
  <1> QED BY <1>1, InitEdits, StepMemory, StepTitle, TypeCorrect, PTL DEF Spec

=============================================================================
