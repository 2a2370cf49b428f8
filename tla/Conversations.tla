--------------------------- MODULE Conversations ---------------------------
(***************************************************************************)
(* The conversations of the Go API: a turn (POST .../messages/stream) that *)
(* stores its question, forwards what the agent streams and stores the     *)
(* answer afterwards; the agent memory, which turns and PATCH requests     *)
(* read and write back; the title, which a turn sets when there is none.   *)
(*                                                                         *)
(* One conversation; the turns of another one share no row with it.  Every *)
(* SQL statement is a step.  The order of rows is that of created_at, which*)
(* is taken just before the insert.  updated_at, pins and the deletion of  *)
(* a conversation are left out.                                            *)
(***************************************************************************)
EXTENDS Naturals, Sequences, FiniteSets

CONSTANTS
  Turns,          \* requests that stream a message, named for their question
  Patchers,       \* PATCH .../agent-memory requests
  Untitled,       \* the title of a conversation created without one
  Named,          \* a title that a user gave
  Unset,          \* the content of a field of the memory nobody has written
  AnswerFields,   \* sets of fields of the memory that the metadata of an answer may name
  PatchFields,    \* sets of fields that the body of a PATCH may name
  MaxFaults       \* turns whose client leaves or whose insert of the answer fails
                  \* (the process may stop once, when that is not used up)

Writers == Turns \cup Patchers
Fields == {"global", "builder"}

ASSUME ConstantsDistinct ==
  /\ Turns \cap Patchers = {}
  /\ {Untitled, Named, Unset} \cap (Turns \cup Patchers) = {}
  /\ Untitled # Named
  /\ IsFiniteSet(Turns)
  /\ AnswerFields \subseteq SUBSET Fields
  /\ PatchFields \subseteq SUBSET Fields
  /\ MaxFaults \in Nat

Replies == {"assistant", "error"}

VARIABLES
  rows,       \* laele_messages: role and turn of each row, oldest first
  title,      \* the title: Untitled, Named, or the turn whose question it is
  memory,     \* laele_conversation_agent_memory: the last writer of each field
  turn,       \* the handler of each turn: its program counter and its copies
  patch,      \* the handler of each PATCH request
  gone,       \* turns whose client has closed the connection: context cancelled
  told,       \* the events each turn has sent to its client
  failed,     \* history: turns whose insert of the answer failed
  cut,        \* history: turns that a crash of the process has ended
  last,       \* history: per field of the memory, who last set it on purpose
  mixed,      \* history: writers whose read-to-write windows have overlapped
  early       \* history: turns that may still set the title: all until a user gives
              \* one, then those that had read none before

serverVars == <<rows, title, memory, turn, patch, gone, told, failed, cut, last, mixed, early>>

NewTurn == [pc |-> "new", untitled |-> FALSE]
NewPatch == [pc |-> "new", fields |-> {}, copy |-> [f \in Fields |-> Unset]]

ServerInit ==
  /\ rows = <<>>
  /\ title \in {Untitled, Named}
  /\ memory = [f \in Fields |-> Unset]
  /\ turn = [t \in Turns |-> NewTurn]
  /\ patch = [w \in Writers |-> NewPatch]
  /\ gone = {} /\ failed = {} /\ cut = {} /\ mixed = {}
  /\ early = IF title = Untitled THEN Turns ELSE {}
  /\ told = [t \in Turns |-> {}]
  /\ last = [f \in Fields |-> Unset]

-----------------------------------------------------------------------------
(* What is stored of a turn.                                               *)

HasQuestion(t) == \E i \in DOMAIN rows : rows[i] = [role |-> "user", turn |-> t]
HasReply(t) == \E i \in DOMAIN rows : rows[i].role \in Replies /\ rows[i].turn = t

MayFail == Cardinality(gone \cup failed) < MaxFaults

Live(t) == turn[t].pc \notin {"new", "over"}
At(t, pc) == turn[t].pc = pc
Goto(t, pc) == turn' = [turn EXCEPT ![t].pc = pc]
Insert(role, t) == rows' = Append(rows, [role |-> role, turn |-> t])
Tell(t, e) == told' = [told EXCEPT ![t] = @ \cup {e}]

-----------------------------------------------------------------------------
(* StreamMessage.Prepare                                                   *)

\* GetByIDAndUser: the copy of the conversation that is kept for the whole turn
Begin(t) ==
  /\ At(t, "new")
  /\ turn' = [turn EXCEPT ![t] = [pc |-> "ask", untitled |-> (title = Untitled)]]
  /\ UNCHANGED <<rows, title, memory, patch, gone, told, failed, cut, last, mixed, early>>

\* the stored answer of a question that was not: the error discarded as in SaveAssistant
MutAsk(t) ==
  /\ At(t, "ask")
  /\ (t \notin gone /\ Insert("user", t)) \/ UNCHANGED rows
  /\ Goto(t, "open")
  /\ UNCHANGED <<title, memory, patch, gone, told, failed, cut, last, mixed, early>>

\* Messages.Create of the question; an error is an HTTP error and nothing is stored
Ask(t) ==
  /\ At(t, "ask")
  /\ \/ /\ t \notin gone
        /\ Insert("user", t)
        /\ Goto(t, "open")
        /\ UNCHANGED told
     \/ /\ Goto(t, "over")
        /\ Tell(t, "refused")
        /\ UNCHANGED rows
  /\ UNCHANGED <<title, memory, patch, gone, failed, cut, last, mixed, early>>

\* the history is listed and the stream of the agent opened: when that fails the
\* question stays alone in the table and the client gets an HTTP error
OpenStream(t) ==
  /\ At(t, "open")
  /\ \/ /\ t \notin gone
        /\ Goto(t, "stream")
        /\ UNCHANGED told
     \/ /\ Goto(t, "over")
        /\ Tell(t, "refused")
  /\ UNCHANGED <<rows, title, memory, patch, gone, failed, cut, last, mixed, early>>

-----------------------------------------------------------------------------
(* The handler: the loop over the stream of the agent                      *)

MutForward(t, e) ==
  /\ At(t, "stream")
  /\ told[t] = {}
  /\ IF t \in gone THEN UNCHANGED told ELSE Tell(t, e)
  /\ IF t \in gone \/ e = "done" THEN Goto(t, "over") ELSE UNCHANGED turn
  /\ UNCHANGED <<rows, title, memory, patch, gone, failed, cut, last, mixed, early>>

\* a line is sent on and looked at; a client that has left ends the handler.  Of the
\* lines the one that decides what will be stored is modelled: done, or a file
\* in a stream that brings no done, or an error without either
Forward(t, e) ==
  /\ At(t, "stream")
  /\ told[t] = {}
  /\ IF t \in gone
     THEN Goto(t, "over") /\ UNCHANGED told
     ELSE Tell(t, e) /\ UNCHANGED turn
  /\ UNCHANGED <<rows, title, memory, patch, gone, failed, cut, last, mixed, early>>

\* the agent's stream is over, or breaks
StreamEnds(t) ==
  /\ At(t, "stream")
  /\ \/ Goto(t, "save")
     \/ t \in gone /\ Goto(t, "over")
  /\ UNCHANGED <<rows, title, memory, patch, gone, told, failed, cut, last, mixed, early>>

\* a text to store: the agent's, or the stand-in when only files have come
Answered(t) == told[t] \cap {"done", "file"} # {}

\* the first statement of SaveAssistant, whose error is discarded
StoreAnswer(t) ==
  /\ At(t, "save") /\ Answered(t)
  /\ \/ t \notin gone /\ Insert("assistant", t) /\ UNCHANGED failed
     \/ t \in gone /\ UNCHANGED <<rows, failed>>
     \/ /\ t \notin gone
        /\ MayFail
        /\ failed' = failed \cup {t}
        /\ UNCHANGED rows
  /\ Goto(t, "recall")
  /\ UNCHANGED <<title, memory, patch, gone, told, cut, last, mixed, early>>

\* SaveAssistantError: the stream has ended without an answer
StoreError(t) ==
  /\ At(t, "save") /\ ~Answered(t)
  /\ \/ t \notin gone /\ Insert("error", t) /\ Tell(t, "error") /\ UNCHANGED failed
     \/ t \in gone /\ UNCHANGED <<rows, told, failed>>
     \/ /\ t \notin gone
        /\ MayFail
        /\ failed' = failed \cup {t}
        /\ Tell(t, "error")
        /\ UNCHANGED rows
  /\ Goto(t, "over")
  /\ UNCHANGED <<title, memory, patch, gone, cut, last, mixed, early>>

-----------------------------------------------------------------------------
(* The agent memory.  ApplyAgentMemoryPatch and PatchAgentMemory both get  *)
(* the row, replace the fields they are about and put the row back.        *)

InWindow == {w \in Writers : patch[w].pc = "write"}

Recall(w, F) ==
  /\ patch' = [patch EXCEPT ![w] = [pc |-> "write", fields |-> F, copy |-> memory]]
  /\ mixed' = IF InWindow = {} THEN mixed ELSE mixed \cup InWindow \cup {w}

Upsert(w) ==
  /\ memory' = [f \in Fields |-> IF f \in patch[w].fields THEN w ELSE patch[w].copy[f]]
  /\ last' = [f \in Fields |-> IF f \in patch[w].fields THEN w ELSE last[f]]

CloseWindow(w) == patch' = [patch EXCEPT ![w].pc = "over"]

\* the answer's metadata names fields, or none; a cancelled context reads nothing
RecallMemory(t) ==
  /\ At(t, "recall")
  /\ \/ \E F \in AnswerFields :
          /\ t \notin gone
          /\ Recall(t, F)
          /\ Goto(t, "patch")
     \/ Goto(t, "title") /\ UNCHANGED <<patch, mixed>>
  /\ UNCHANGED <<rows, title, memory, gone, told, failed, cut, last, early>>

MutPatchMemory(t) ==
  /\ At(t, "patch")
  /\ IF t \in gone THEN UNCHANGED <<memory, last, patch>> ELSE Upsert(t) /\ CloseWindow(t)
  /\ Goto(t, "title")
  /\ UNCHANGED <<rows, title, gone, told, failed, cut, mixed, early>>

PatchMemory(t) ==
  /\ At(t, "patch")
  /\ IF t \in gone THEN UNCHANGED <<memory, last>> ELSE Upsert(t)
  /\ CloseWindow(t)
  /\ Goto(t, "title")
  /\ UNCHANGED <<rows, title, gone, told, failed, cut, mixed, early>>

PatchGet(p, F) ==
  /\ patch[p].pc = "new"
  /\ Recall(p, F)
  /\ UNCHANGED <<rows, title, memory, turn, gone, told, failed, cut, last, early>>

PatchPut(p) ==
  /\ patch[p].pc = "write"
  /\ Upsert(p)
  /\ CloseWindow(p)
  /\ UNCHANGED <<rows, title, turn, gone, told, failed, cut, mixed, early>>

-----------------------------------------------------------------------------
(* The end of SaveAssistant                                                *)

MutSetTitle(t) ==
  /\ At(t, "title")
  /\ title' = IF t \notin gone THEN t ELSE title
  /\ Goto(t, "list")
  /\ UNCHANGED <<rows, memory, patch, gone, told, failed, cut, last, mixed, early>>

\* the test is on the copy of the conversation read before the stream
SetTitle(t) ==
  /\ At(t, "title")
  /\ title' = IF turn[t].untitled /\ t \notin gone THEN t ELSE title
  /\ Goto(t, "list")
  /\ UNCHANGED <<rows, memory, patch, gone, told, failed, cut, last, mixed, early>>

\* the messages are listed again and sent as messages_saved
SendSaved(t) ==
  /\ At(t, "list")
  /\ IF t \in gone THEN UNCHANGED told ELSE Tell(t, "saved")
  /\ Goto(t, "over")
  /\ UNCHANGED <<rows, title, memory, patch, gone, failed, cut, last, mixed, early>>

-----------------------------------------------------------------------------
(* Users, clients and the process                                          *)

Rename ==
  /\ title' = Named
  /\ early' = {t \in Turns : Live(t) /\ turn[t].untitled}
  /\ <<title, early>> # <<title', early'>>
  /\ UNCHANGED <<rows, memory, turn, patch, gone, told, failed, cut, last, mixed>>

\* the client aborts its request or goes away
Hangup(t) ==
  /\ Live(t) /\ t \notin gone /\ MayFail
  /\ gone' = gone \cup {t}
  /\ UNCHANGED <<rows, title, memory, turn, patch, told, failed, cut, last, mixed, early>>

\* the process stops: handlers are lost, the tables stay
Crash ==
  /\ (\E t \in Turns : Live(t)) \/ InWindow # {}
  /\ MayFail /\ cut = {}
  /\ cut' = cut \cup {t \in Turns : Live(t)}
  /\ turn' = [t \in Turns |-> IF Live(t) THEN [turn[t] EXCEPT !.pc = "over"] ELSE turn[t]]
  /\ patch' = [w \in Writers |->
                 IF patch[w].pc = "write" THEN [patch[w] EXCEPT !.pc = "over"] ELSE patch[w]]
  /\ UNCHANGED <<rows, title, memory, gone, told, failed, last, mixed, early>>

-----------------------------------------------------------------------------
\* what a handler does by itself once its request has arrived
HandlerStep(t) ==
  \/ Ask(t) \/ OpenStream(t)
  \/ \E e \in {"file", "done", "error"} : Forward(t, e)
  \/ StreamEnds(t)
  \/ StoreAnswer(t) \/ StoreError(t)
  \/ RecallMemory(t) \/ PatchMemory(t)
  \/ SetTitle(t) \/ SendSaved(t)

PatcherStep(p) == PatchPut(p) \/ \E F \in PatchFields : PatchGet(p, F)

ServerNext ==
  \/ \E t \in Turns : Begin(t) \/ HandlerStep(t) \/ Hangup(t)
  \/ \E p \in Patchers : PatcherStep(p)
  \/ Rename
  \/ Crash

Spec == ServerInit /\ [][ServerNext]_serverVars

-----------------------------------------------------------------------------
(* Properties                                                              *)

Counters == {"new", "ask", "open", "stream", "save", "recall", "patch", "title", "list", "over"}
Events == {"refused", "file", "done", "error", "saved"}

\* Types; a turn is about to write the memory exactly when its window is open.
TypeOK ==
  /\ rows \in Seq([role : {"user"} \cup Replies, turn : Turns])
  /\ title \in {Untitled, Named} \cup Turns
  /\ memory \in [Fields -> Writers \cup {Unset}]
  /\ turn \in [Turns -> [pc : Counters, untitled : BOOLEAN]]
  /\ patch \in [Writers -> [pc : {"new", "write", "over"}, fields : SUBSET Fields,
                            copy : [Fields -> Writers \cup {Unset}]]]
  /\ told \in [Turns -> SUBSET Events]
  /\ gone \subseteq Turns /\ failed \subseteq Turns /\ cut \subseteq Turns
  /\ last \in [Fields -> Writers \cup {Unset}]
  /\ mixed \subseteq Writers /\ early \subseteq Turns
  /\ \A t \in Turns : At(t, "patch") <=> patch[t].pc = "write"

\* Whatever turns overlap, break off or crash, the table reads as a dialogue: a
\* question is stored once, at most one reply (answer or error) is stored for it,
\* and behind it (Prepare stores before the stream is opened, the handler after).
Dialogue ==
  /\ \A i, j \in DOMAIN rows : i < j /\ rows[i].turn = rows[j].turn
                            => rows[i].role = "user" /\ rows[j].role \in Replies
  /\ \A j \in DOMAIN rows : rows[j].role \in Replies
                         => \E i \in 1 .. j - 1 : rows[i].turn = rows[j].turn

\* A client that is sent messages_saved can rely on it: the answer is stored.  The
\* one exception is an insert that failed with a live context, whose error
\* SaveAssistant discards; a cancelled context does no harm, since the listing that
\* must follow fails too.
SavedIsStored == \A t \in Turns : "saved" \in told[t] => HasReply(t) \/ t \in failed

\* When a turn is over, a question in the table has its reply, unless the client was
\* told of an HTTP error, or it left, or the insert failed, or the process stopped:
\* nothing else leaves a streamed answer unstored or a question without a trace.
TurnLeavesReply ==
  \A t \in Turns : At(t, "over") /\ HasQuestion(t)
                 => HasReply(t) \/ "refused" \in told[t] \/ t \in gone \cup failed \cup cut

\* What a client is told of the table, and what it finds there.
RepliesAccounted == SavedIsStored /\ TurnLeavesReply

\* A field of the memory holds what was last set on purpose, unless that writer's
\* read-to-write window overlapped another's (both get the row, then put it back).
MemoryKept == \A f \in Fields : memory[f] = last[f] \/ last[f] \in mixed

\* A title that a user gave is replaced only by turns that had read an empty one.
TitleKept ==
  /\ title \in {Untitled, Named} \cup early
  /\ title = Untitled => early = Turns

\* Edits of the memory and of the title survive the turns that they do not overlap.
EditsSurvive == MemoryKept /\ TitleKept

=============================================================================
