----------------------------- MODULE ChatEditor -----------------------------
(***************************************************************************)
(* The chat of the workbench: one editor pane, whose conversation changes  *)
(* when another one is opened; turns sent from it; sessions created on the *)
(* server; histories fetched at startup and when a conversation is opened; *)
(* lists persisted at every change and restored at a restart.              *)
(*                                                                         *)
(* Everything between two awaits is one step.  The server is what          *)
(* Conversations says of it, cut down to what the editor can observe: a    *)
(* turn's question is stored, then its reply unless the request is gone.   *)
(***************************************************************************)
EXTENDS ChatMessages, FiniteSets

CONSTANTS
  Sessions,       \* ids of conversations of the server
  None,           \* no session
  MaxChats,       \* local conversations
  MaxLines,       \* events of the stream of a request before the last
  MaxEvents       \* conversations opened, turns with files, requests refused,
                  \* connections broken and restarts, together

ASSUME ChatConstants ==
  /\ None \notin Sessions
  /\ MaxChats \in Nat \ {0}
  /\ MaxLines \in Nat /\ MaxEvents \in Nat

VARIABLES
  chats,      \* the conversations, the newest last: the session and the messages
  shown,      \* this.conversationId of the pane
  sending,    \* isSending
  turn,       \* sendMessage of each turn
  open,       \* setInput of each conversation that was opened
  sync,       \* syncOnStartup
  table,      \* laele_messages: session, role and turn of each row; its id is its place
  created,    \* the sessions that exist on the server
  server,     \* the handlers: of the first request of a turn and of its repetition
  gone,       \* handlers whose connection was aborted or broke
  used,       \* events so far, up to MaxEvents
  moved,      \* history: turns during which the pane has changed its conversation
  raced       \* history: turns whose question was added, or whose conversation was given
              \* its session, while a history was being fetched or while another
              \* conversation had that session too

vars == <<chats, shown, sending, turn, open, sync, table, created, server, gone, used, moved, raced>>

Chats == 1 .. MaxChats
Handlers == Turns \X {1, 2}

NewChat == [session |-> None, msgs |-> <<>>]
NoOpen == [pc |-> "idle", session |-> None, chat |-> 1, got |-> <<>>]
JustOpened == [NoOpen EXCEPT !.pc = "session"]
NoSync == [pc |-> "start", todo |-> {}, session |-> None, got |-> <<>>]
NoTurn == [pc |-> "idle", chat |-> 1, session |-> None, files |-> FALSE, lines |-> 0, try |-> 1]

\* the editor was started with nothing stored, for an account without conversations (so
\* that the first synchronisation is over): the service creates a conversation, and
\* the pane is opened on it
Init ==
  /\ chats = <<NewChat>>
  /\ shown = 1
  /\ sending = FALSE
  /\ turn = [t \in Turns |-> NoTurn]
  /\ open = [c \in Chats |-> IF c = 1 THEN JustOpened ELSE NoOpen]
  /\ sync = [NoSync EXCEPT !.pc = "done"]
  /\ table = <<>>
  /\ created = {}
  /\ server = [h \in Handlers |-> "none"]
  /\ gone = {} /\ moved = {} /\ raced = {}
  /\ used = 0

serverVars == <<table, created, server>>
fetchVars == <<open, sync>>

-----------------------------------------------------------------------------
(* PolvoAgentConversationsService                                          *)

Shown == chats[shown].msgs
Update(c, msgs) == chats' = [chats EXCEPT ![c].msgs = msgs]

Fetching == sync.pc \in {"get", "merge"} \/ \E c \in Chats : open[c].pc \in {"get", "merge"}
Race(S, shared) == raced' = IF Fetching \/ shared THEN raced \cup S ELSE raced

Sharing(s) == {c \in DOMAIN chats : chats[c].session = s}
TurnsIn(C) == UNION {{chats[c].msgs[i].turn : i \in DOMAIN chats[c].msgs} : c \in C}

SetApiSessionId(c, s) ==
  /\ chats' = [chats EXCEPT ![c].session = s]
  /\ Race(TurnsIn(Sharing(s) \cup {c}), Sharing(s) \ {c} # {})

\* conversations.find(c => c.apiSessionId === s): the list has the newest first
WithSession(s, cs) == Last({c \in DOMAIN cs : cs[c].session = s})

\* upsertFromServer
Upsert(s, rows) ==
  LET c == WithSession(s, chats)
  IN  IF c = 0
      THEN /\ Len(chats) < MaxChats
           /\ chats' = Append(chats, [session |-> s, msgs |-> Fetched(rows)])
      ELSE Update(c, IF rows = <<>> THEN chats[c].msgs
                     ELSE MergeLocalExtras(Fetched(rows), chats[c].msgs))

\* ListByConversation
Nth(S, k) == CHOOSE i \in S : Cardinality({j \in S : j <= i}) = k

List(s) ==
  LET S == {i \in DOMAIN table : table[i].session = s}
  IN  [k \in 1 .. Cardinality(S) |->
         LET i == Nth(S, k) IN [role |-> table[i].role, turn |-> table[i].turn, id |-> i]]

-----------------------------------------------------------------------------
(* Sessions of the server                                                  *)

\* POST /v1/conversations
Create(s) == s \in Sessions \ created /\ created' = created \cup {s}

\* something that does not happen every day
Event == used < MaxEvents /\ used' = used + 1

Busy(t) == turn[t].pc \notin {"idle", "unread", "over"}

-----------------------------------------------------------------------------
(* setInput: the pane is given another conversation, an old one or a new   *)

OpenChat(c) ==
  /\ c # shown /\ c <= Len(chats) + 1
  /\ open[c].pc = "idle"
  /\ Event
  /\ chats' = IF c = Len(chats) + 1 THEN Append(chats, NewChat) ELSE chats
  /\ shown' = c
  /\ open' = [open EXCEPT ![c] = JustOpened]
  /\ moved' = moved \cup {t \in Turns : Busy(t)}
  /\ UNCHANGED <<sending, turn, sync, serverVars, gone, raced>>

\* syncConversationMessages, if the conversation shown by then has no messages
LookAtHistory(c, s) ==
  open' = [open EXCEPT ![c] = IF s # None /\ Shown = <<>>
                              THEN [NoOpen EXCEPT !.pc = "get", !.chat = shown] ELSE NoOpen]

\* ensureApiSession looks at the conversation the pane shows by then; the request for
\* a session may fail
EnsureApiSession(c) ==
  /\ open[c].pc = "session"
  /\ LET s == chats[shown].session
     IN  \/ /\ s = None
            /\ \E n \in Sessions :
                 Create(n) /\ open' = [open EXCEPT ![c] = [@ EXCEPT !.pc = "set", !.session = n]]
            /\ UNCHANGED used
         \/ /\ s = None /\ Event
            /\ LookAtHistory(c, s)
            /\ UNCHANGED created
         \/ /\ s # None
            /\ LookAtHistory(c, s)
            /\ UNCHANGED <<created, used>>
  /\ UNCHANGED <<chats, shown, sending, turn, sync, table, server, gone, moved, raced>>

\* the session is on the server, its answer arrives
SessionSet(c) ==
  /\ open[c].pc = "set"
  /\ SetApiSessionId(shown, open[c].session)
  /\ LookAtHistory(c, open[c].session)
  /\ UNCHANGED <<shown, sending, turn, sync, serverVars, gone, used, moved>>

\* the server answers with the rows of this moment
GetMessages(c) ==
  /\ open[c].pc = "get"
  /\ open' = [open EXCEPT ![c] = [@ EXCEPT !.pc = "merge", !.got = List(chats[open[c].chat].session)]]
  /\ UNCHANGED <<chats, shown, sending, turn, sync, serverVars, gone, used, moved, raced>>

\* the session is read again from the conversation looked at
MergeHistory(c) ==
  /\ open[c].pc = "merge"
  /\ Upsert(chats[open[c].chat].session, open[c].got)
  /\ open' = [open EXCEPT ![c] = NoOpen]
  /\ UNCHANGED <<shown, sending, turn, sync, serverVars, gone, used, moved, raced>>

-----------------------------------------------------------------------------
(* syncOnStartup                                                           *)

\* the loop over the list of the server, of which todo is left, up to the next request: a
\* conversation that has messages keeps them, the others are fetched
Kept(s, cs) == WithSession(s, cs) # 0 /\ cs[WithSession(s, cs)].msgs # <<>>

MutAdvance(todo, cs) ==
  \/ todo = {} /\ sync' = [NoSync EXCEPT !.pc = "done"]
  \/ \E s \in todo : sync' = [NoSync EXCEPT !.pc = "get", !.todo = todo \ {s}, !.session = s]

Advance(todo, cs) ==
  LET kept == {s \in todo : Kept(s, cs)}
  IN  \/ todo = kept /\ sync' = [NoSync EXCEPT !.pc = "done"]
      \/ \E s \in todo \ kept, before \in SUBSET kept :
           sync' = [NoSync EXCEPT !.pc = "get", !.todo = todo \ ({s} \cup before), !.session = s]

SyncList ==
  /\ sync.pc = "start"
  /\ Advance(created, chats)
  /\ UNCHANGED <<chats, shown, sending, turn, open, serverVars, gone, used, moved, raced>>

SyncGet ==
  /\ sync.pc = "get"
  /\ sync' = [sync EXCEPT !.pc = "merge", !.got = List(sync.session)]
  /\ UNCHANGED <<chats, shown, sending, turn, open, serverVars, gone, used, moved, raced>>

SyncMerge ==
  /\ sync.pc = "merge"
  /\ Upsert(sync.session, sync.got)
  /\ Advance(sync.todo, chats')
  /\ UNCHANGED <<shown, sending, turn, open, serverVars, gone, used, moved, raced>>

-----------------------------------------------------------------------------
(* sendMessage                                                             *)

\* the part between the reading of the files and the request, without an await: the
\* question goes to the conversation shown, the request to the session of the one
\* that was shown at the beginning, and every request still open is aborted
Open(h) == server[h] \in {"posted", "stream", "save", "fail"}

\* without a session for the first turn of a conversation
MutAsk(t, c) ==
  /\ Update(shown, AddMessage(Shown, "user", t, "question"))
  /\ sending' = TRUE
  /\ gone' = gone \cup {h \in Handlers : Open(h)}
  /\ turn' = [turn EXCEPT ![t] = [@ EXCEPT !.pc = "post", !.chat = shown, !.session = chats[c].session]]
  /\ Race({t}, chats[shown].session # None /\ Sharing(chats[shown].session) # {shown})
  /\ UNCHANGED <<shown, fetchVars, serverVars, used, moved>>

Ask(t, c) ==
  /\ Update(shown, AddMessage(Shown, "user", t, "question"))
  /\ sending' = TRUE
  /\ gone' = gone \cup {h \in Handlers : Open(h)}
  /\ LET s == chats[c].session
     IN  turn' = [turn EXCEPT ![t] = [@ EXCEPT !.pc = IF s = None THEN "create" ELSE "post",
                                               !.chat = shown, !.session = s]]
  /\ Race({t}, chats[shown].session # None /\ Sharing(chats[shown].session) # {shown})
  /\ UNCHANGED <<shown, fetchVars, serverVars, used, moved>>

\* without the test of isSending
MutSend(t) ==
  /\ turn[t].pc = "idle"
  /\ Ask(t, shown)

Send(t) ==
  /\ ~sending /\ turn[t].pc = "idle"
  /\ Ask(t, shown)

\* with files, isSending is looked at before they are read and set afterwards
PickFiles(t) ==
  /\ ~sending /\ turn[t].pc = "idle"
  /\ Event
  /\ turn' = [turn EXCEPT ![t] = [@ EXCEPT !.pc = "files", !.files = TRUE, !.chat = shown]]
  /\ UNCHANGED <<chats, shown, sending, fetchVars, serverVars, gone, moved, raced>>

FilesRead(t) ==
  /\ turn[t].pc = "files"
  /\ Ask(t, turn[t].chat)

\* a file cannot be read: nothing is sent ("unread")
FilesFail(t) ==
  /\ turn[t].pc = "files"
  /\ Update(shown, AddMessage(Shown, "assistant", t, "error"))
  /\ turn' = [turn EXCEPT ![t].pc = "unread"]
  /\ UNCHANGED <<shown, sending, fetchVars, serverVars, gone, used, moved, raced>>

\* finally: the timer runs exactly while isSending
Finish(t, msgs) ==
  /\ Update(shown, IF sending THEN NoteTime(msgs) ELSE msgs)
  /\ sending' = FALSE
  /\ turn' = [turn EXCEPT ![t].pc = "over"]

Catch(t) == Finish(t, AddMessage(Shown, "assistant", t, "error"))

\* withOpenPolvoApiAuth runs the requests of a turn a second time when the first failed with
\* a message that speaks of authorization or of the connection, be it of a connection that
\* broke or of an HTTP error; when it does not, or the sign-in or the backend fails, or
\* the second time, the error goes to the catch
Again(t, pc) ==
  /\ turn[t].try = 1
  /\ turn' = [turn EXCEPT ![t].pc = pc, ![t].try = 2]
  /\ UNCHANGED <<chats, sending>>

\* no session is left, or the request for one fails: before or after the server has
\* created it
CreateForTurn(t) ==
  /\ turn[t].pc = "create"
  /\ \/ \E s \in Sessions : /\ Create(s)
                            /\ turn' = [turn EXCEPT ![t].pc = "set", ![t].session = s]
                            /\ UNCHANGED <<chats, sending, used>>
     \/ created = Sessions /\ Catch(t) /\ UNCHANGED <<created, used>>
     \/ /\ created # Sessions /\ Event
        /\ UNCHANGED created \/ \E s \in Sessions : Create(s)
        /\ Again(t, "create") \/ Catch(t)
  /\ UNCHANGED <<shown, fetchVars, table, server, gone, moved, raced>>

Now(t) == <<t, turn[t].try>>

\* streamMessage
Call(t) ==
  /\ server' = [server EXCEPT ![Now(t)] = "posted"]
  /\ turn' = [turn EXCEPT ![t].pc = "stream", ![t].lines = 0]

SetForTurn(t) ==
  /\ turn[t].pc = "set"
  /\ SetApiSessionId(shown, turn[t].session)
  /\ Call(t)
  /\ UNCHANGED <<shown, sending, fetchVars, table, created, gone, used, moved>>

Post(t) ==
  /\ turn[t].pc = "post"
  /\ Call(t)
  /\ UNCHANGED <<chats, shown, sending, fetchVars, table, created, gone, used, moved, raced>>

-----------------------------------------------------------------------------
(* The stream: every event goes to the conversation shown at that moment.  *)

Streams(t) == turn[t].pc = "stream" /\ Now(t) \notin gone /\ server[Now(t)] = "stream"

\* thinking and the progress of documents; a step of the development workflow; text,
\* or a file, which is noted in the response too
Line(t) ==
  /\ Streams(t) /\ turn[t].lines < MaxLines
  /\ \/ Update(shown, UpdateAssistant(Shown, t, "label"))
     \/ Update(shown, AppendDevStep(Shown, t))
     \/ Update(shown, UpdateDevResponse(Shown, t))
  /\ turn' = [turn EXCEPT ![t].lines = @ + 1]
  /\ UNCHANGED <<shown, sending, fetchVars, serverVars, gone, used, moved, raced>>

\* done: the reader returns, what the server sends afterwards (messages_saved) is not
\* read
Done(t) ==
  /\ Streams(t)
  /\ Finish(t, UpdateDevResponse(Shown, t))
  /\ server' = [server EXCEPT ![Now(t)] = "save"]
  /\ UNCHANGED <<shown, fetchVars, table, created, gone, used, moved, raced>>

\* an error event, or a stream that ends without a terminal event
ErrorEvent(t) ==
  /\ Streams(t)
  /\ Finish(t, UpdateAssistant(Shown, t, "error"))
  /\ server' = [server EXCEPT ![Now(t)] = "fail"]
  /\ UNCHANGED <<shown, fetchVars, table, created, gone, used, moved, raced>>

\* the abort of the request by a later turn, or an HTTP error, repeated or not according to
\* its message
RequestFails(t) ==
  /\ turn[t].pc = "stream"
  /\ \/ Now(t) \in gone /\ Catch(t)
     \/ Now(t) \notin gone /\ server[Now(t)] = "refused" /\ (Again(t, "post") \/ Catch(t))
  /\ UNCHANGED <<shown, fetchVars, serverVars, gone, used, moved, raced>>

\* repeated for as long as it takes
MutBreak(t) ==
  /\ turn[t].pc = "stream" /\ Now(t) \notin gone /\ server[Now(t)] \in {"posted", "stream"}
  /\ Event
  /\ turn' = [turn EXCEPT ![t].pc = "post"]
  /\ UNCHANGED <<chats, shown, sending, fetchVars, serverVars, gone, moved, raced>>

\* the connection breaks; the server may not notice
Break(t) ==
  /\ turn[t].pc = "stream" /\ Now(t) \notin gone /\ server[Now(t)] \in {"posted", "stream"}
  /\ Event
  /\ gone' \in {gone, gone \cup {Now(t)}}
  /\ Again(t, "post") \/ Catch(t)
  /\ UNCHANGED <<shown, fetchVars, serverVars, moved, raced>>

-----------------------------------------------------------------------------
(* The server (Conversations)                                              *)

Insert(role, h) == table' = Append(table, [session |-> turn[h[1]].session, role |-> role, turn |-> h[1]])

\* Prepare: what fails before or after the question is stored (the history, the settings of
\* the model, the stream of the agent) is answered with an HTTP error
StoreQuestion(h) ==
  /\ server[h] = "posted"
  /\ \/ /\ h \notin gone
        /\ Insert("user", h)
        /\ server' = [server EXCEPT ![h] = "stream"]
        /\ UNCHANGED used
     \/ /\ h \in gone
        /\ server' = [server EXCEPT ![h] = "over"]
        /\ UNCHANGED <<table, used>>
     \/ /\ h \notin gone /\ Event
        /\ server' = [server EXCEPT ![h] = "refused"]
        /\ Insert("user", h) \/ UNCHANGED table
  /\ UNCHANGED <<chats, shown, sending, turn, fetchVars, created, gone, moved, raced>>

\* nobody reads the stream any more: the handler ends when it notices that the client
\* has gone, otherwise it goes on to the end
Unread(h) == turn[h[1]].pc # "stream" \/ Now(h[1]) # h \/ h \in gone

\* SaveAssistant, SaveAssistantError; nothing is stored for a client that has gone
StoreReply(h) ==
  /\ server[h] \in {"save", "fail"} \/ (server[h] = "stream" /\ Unread(h))
  /\ IF h \in gone THEN UNCHANGED table
     ELSE Insert(IF server[h] = "fail" THEN "error" ELSE "assistant", h)
  /\ server' = [server EXCEPT ![h] = "over"]
  /\ UNCHANGED <<chats, shown, sending, turn, fetchVars, created, gone, used, moved, raced>>

-----------------------------------------------------------------------------
\* the editor is closed and started again: what was persisted is all there is, and the
\* pane is opened on the conversation it showed
Restart ==
  /\ Event
  /\ sending' = FALSE
  /\ turn' = [t \in Turns |-> CASE ~Busy(t) -> turn[t]
                               [] turn[t].pc = "files" -> [turn[t] EXCEPT !.pc = "unread"]
                               [] OTHER -> [turn[t] EXCEPT !.pc = "over"]]
  /\ gone' = gone \cup {h \in Handlers : Open(h)}
  /\ open' = [c \in Chats |-> IF c = shown THEN JustOpened ELSE NoOpen]
  /\ sync' = NoSync
  /\ UNCHANGED <<chats, shown, table, created, server, moved, raced>>

-----------------------------------------------------------------------------
OpenStep(c) == EnsureApiSession(c) \/ SessionSet(c) \/ GetMessages(c) \/ MergeHistory(c)

SyncStep == SyncList \/ SyncGet \/ SyncMerge

TurnStep(t) ==
  \/ Send(t) \/ PickFiles(t) \/ FilesRead(t) \/ FilesFail(t)
  \/ CreateForTurn(t) \/ SetForTurn(t) \/ Post(t)
  \/ Line(t) \/ Done(t) \/ ErrorEvent(t) \/ RequestFails(t) \/ Break(t)

HandlerStep(h) == StoreQuestion(h) \/ StoreReply(h)

Next ==
  \/ \E c \in Chats : OpenChat(c) \/ OpenStep(c)
  \/ SyncStep
  \/ \E t \in Turns : TurnStep(t)
  \/ \E h \in Handlers : HandlerStep(h)
  \/ Restart

Spec == Init /\ [][Next]_vars

-----------------------------------------------------------------------------
(* Properties                                                              *)

Questions(t) == {i \in DOMAIN table : table[i].turn = t /\ table[i].role = "user"}
Sent(t) == turn[t].pc \notin {"idle", "files", "unread"}
Live(t) == turn[t].pc \in {"create", "set", "post", "stream"}

Row == [role : {"user", "assistant", "error"}, turn : Turns, id : Nat \ {NoId}]

\* Types; rows belong to conversations that exist.
TypeOK ==
  /\ chats \in Seq([session : Sessions \cup {None}, msgs : Seq(Message)])
  /\ shown \in DOMAIN chats /\ Len(chats) <= MaxChats
  /\ sending \in BOOLEAN
  /\ turn \in [Turns -> [pc : {"idle", "files", "unread", "create", "set", "post", "stream", "over"},
                         chat : Chats, session : Sessions \cup {None},
                         files : BOOLEAN, lines : 0 .. MaxLines, try : {1, 2}]]
  /\ open \in [Chats -> [pc : {"idle", "session", "set", "get", "merge"},
                          session : Sessions \cup {None}, chat : Chats, got : Seq(Row)]]
  /\ sync \in [pc : {"start", "get", "merge", "done"}, todo : SUBSET Sessions,
               session : Sessions \cup {None}, got : Seq(Row)]
  /\ table \in Seq([session : Sessions, role : {"user", "assistant", "error"}, turn : Turns])
  /\ created \subseteq Sessions /\ gone \subseteq Handlers
  /\ server \in [Handlers -> {"none", "posted", "refused", "stream", "save", "fail", "over"}]
  /\ \A i \in DOMAIN table : table[i].session \in created

\* A question that was sent stays in some conversation of the editor, over restarts,
\* merges with the server's history and later turns, unless it was added, or its
\* conversation got its session, while a history was being fetched or while another
\* conversation had the same session (a merge then replaces the list by the rows
\* fetched, for whichever conversation they were fetched).
QuestionsKept ==
  \A t \in Turns : Sent(t) /\ t \notin raced =>
    \E c \in DOMAIN chats : \E i \in DOMAIN chats[c].msgs :
       chats[c].msgs[i].turn = t /\ chats[c].msgs[i].says = "question"

\* What the stream of a turn writes, it writes to the conversation the turn was sent
\* from, unless the pane was given another one meanwhile: the events look at
\* this.conversationId each.  (The end of a turn may copy the last answer of the
\* history over a step below it.)
AtHome ==
  \A c \in DOMAIN chats : \A i \in DOMAIN chats[c].msgs :
    LET m == chats[c].msgs[i]
    IN  m.id = NoId => \/ c = turn[m.turn].chat
                       \/ m.turn \in moved
                       \/ \E k \in 1 .. i - 1 : /\ chats[c].msgs[k].id # NoId
                                                /\ chats[c].msgs[k].says = m.says
                                                /\ chats[c].msgs[k].turn = m.turn

\* On the server a turn has no more questions than requests were made for it (two when the
\* first one broke, or was answered with an error the helper repeats, after its question was
\* stored), all in one conversation, and a reply only behind a question.
StoredOnce ==
  \A t \in Turns :
    /\ Cardinality(Questions(t)) <= Cardinality({k \in {1, 2} : server[<<t, k>>] # "none"})
    /\ \A i, j \in DOMAIN table :
         table[i].turn = t /\ table[j].turn = t => table[i].session = table[j].session
    /\ \A j \in DOMAIN table : table[j].turn = t => \E i \in Questions(t) : i <= j

\* isSending, over all turns: it is on only while a turn is under way (whatever breaks, is
\* refused or aborted, the input comes back), two turns are under way at once only
\* once a turn had files to read, and a turn that waits for its stream is served,
\* refused or aborted.
InputLock ==
  /\ sending => \E t \in Turns : Live(t)
  /\ \A t, u \in Turns : t # u /\ Live(t) /\ Live(u) => \E v \in Turns : turn[v].files
  /\ \A t \in Turns : turn[t].pc = "stream" =>
       Now(t) \in gone \/ server[Now(t)] \in {"posted", "stream", "refused"}

=============================================================================
