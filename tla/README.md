# Open Polvo: specifications

TLA+ models, TLC configurations and TLAPS proofs for the Open Polvo monorepo:
the Go API with its SQLite tables (`src/openpolvobackend`), the Python agent
service (`src/openpolvointeligence`) and the fork of VS Code that is its client
(`src/polvocode`, whose own code is in `contrib/polvoModes` and
`platform/agentHost/node/openpolvo`). The models are written from the code.
`PROJECT.json` names the lines each definition stands for, the run that checks
each property, a plausible bug that each property catches, the hazards of the
code at their lines, and the theorems.

Contents

1. The system, its components and what is hard about them
2. The modules and the code they model
3. The runs: what they check, their bounds, their fairness
4. The theorems
5. Where code and documentation disagree
6. What is only model-checked, and what is not modelled
7. Plan

## 1. The system

    editor (polvocode)                     WhatsApp user, Meta platform
      |  HTTP: turns, tool results,            ^         |
      |  edits, runs, approvals                |         v
      v                                        |      webhook
    Go API (openpolvobackend) ----- goroutines: workflow scheduler, queue
      |      |                      workers, task-list runs, social scheduler,
      |      |                      finance jobs, webhook replies
      |      +-- SQLite, one connection
      | HTTP, streamed
      v
    agent service (openpolvointeligence): LangGraph graphs, desk tool bridge

The database is opened with `SetMaxOpenConns(1)`, WAL and foreign keys on
(`internal/platform/db/db.go:57-80`). Hence the grain of all models of the Go
API: a SQL statement, or a transaction, is one step, and everything between two
statements of two goroutines interleaves. Almost no handler opens a transaction
around a read and the write that depends on it; this is where the properties
aim. `main.go` starts two queue workers (poll 2 s, `LockTTL` 10 min), the
scheduler (45 s), the social scheduler (15 min) and the finance jobs (1 h), and a
shutdown does not wait for any of them, so that for the goroutines a shutdown is
a crash. The models are those of `DB_DRIVER=sqlite`: `db.go` can open MySQL too, but
the adapters that `main.go` builds speak the dialect of SQLite.

The components, the state each keeps, and what makes it correct:

| component | state | operations | interacts with | hard behaviour | correct if |
|---|---|---|---|---|---|
| Schedule queue and workers (`schedulequeue`) | `laele_schedule_queue`; worker goroutines | Enqueue, ClaimNext, MarkDone, MarkError | scheduler, `RunWorkflow` | competing workers, crash between claim and mark, lost mark, expired context | a tick runs at most once, on one worker; what is queued is settled |
| Workflow scheduler and runs (`workflows`) | `laele_workflows`, `laele_workflow_runs`, semaphore of 3 | tick, Execute, create, update, delete, run by hand | queue, HTTP, engine | stale list, edits and deletes during a run, catching up after downtime | ticks fire in order, one at a time, none skipped, never early |
| Development projects (`projects`) | projects, versions, files | record a message, roll back | chat turns | number, base and insert in separate statements | contiguous history, no lost update, exact rollbacks |
| Social posts (`social`) | `laele_social_posts`; scheduler, webhook goroutines | generate, announce, approve, reject, publish | Meta API, WhatsApp | overlapping decisions, cancelled contexts, calls with an unknown outcome | nothing is published unapproved or against the last word |
| Task lists (`tasklists`) | lists, items; a goroutine per run | CRUD, batch, run | executor (agent service) | copies written back, goroutine outlives its request and its failed writes, crash | one runner unless a copy was outdated, an item once, in order, honest outcome |
| Desk tool bridge (`graphs/desk`, `openPolvoAgent.ts`) | `_active_bridges`, futures, queue of calls of the client | open, dispatch, resume, timeout, close; read, run, submit, resubmit | editor, Go API | timeouts against late answers, aborted turns, broken connections | the model is told the truth; every turn ends |
| Conversations and streaming (`conversations`) | conversations, messages, agent memory | stream a turn, patch memory, rename | editor, agent service | answer stored after it was streamed; client that leaves; lost updates of memory and title | every answer behind its question; none missing without one of the known reasons |
| Chat of the editor (`polvoModes`) | local conversations and messages, `isSending`, sessions | send, open, fetch, merge, persist | Conversations | everything after an `await` reads the pane again; history fetched while a message is sent; request repeated | no question lost, answers in their conversation, input given back |
| Finance jobs (`schedule/finance_jobs.go`) | subscriptions, digest settings | tick; patch, paid, delete, put | mail | mailed, then marked; whole rows written back; day in UTC against the user's zone | one mail per reminder and day, one digest a day |
| Social automation settings | configuration, `last_run_at` | put, tick | Social posts | read-modify-write, crash before `last_run_at` | configured rate kept |
| Workflow engine | none between runs | order nodes, run, retry | HTTP, mail, models | retry of what was carried out | topological order, first failure ends |
| Scheduled tasks, rest of the finance store, identity, mail, contacts, model profiles, editor workflows, platform | single rows | CRUD | | no interleaving of their own, or not wired | see section 6 |
| Development agent, orchestrator, document graphs, code search | per request | model calls | | control chosen by a model | see section 6 |

## 2. The modules and the code they model

| system | module | instances | proofs |
|---|---|---|---|
| scheduled workflows | `ScheduleQueue` | `MCScheduleQueue` | `ScheduleQueueProofs` |
| ... their contract | `CronContract` (abstract; `ScheduleQueue!planOf` is the mapping) | | `ScheduleQueueProofs` |
| project versions | `DevProjects` | `MCDevProjects` | `DevProjectsProofs` |
| ... their promise | `VersionLog` (abstract; `DevProjects!logOf` is the mapping) | | `DevProjectsProofs` |
| social posts | `SocialPosts` | `MCSocialPosts` | `SocialPostsProofs` |
| task lists | `TaskLists` | `MCTaskLists` | `TaskListsProofs` |
| desk tools | `DeskTools` | `MCDeskTools` | `DeskToolsProofs` |
| conversations | `Conversations` | `MCConversations` | `ConversationsProofs` |
| chat of the editor | `ChatEditor`, over `ChatMessages` (the operations on a list of messages) | `MCChatEditor` | `ChatEditorProofs` |
| finance jobs | `FinanceJobs` | `MCFinanceJobs` | `FinanceJobsProofs` |

Definitions whose name begins with `Mut` are the plausible bugs: no `Next` uses
them. Variables marked "history" in the declarations are not state of the
program; they record what the properties speak of.

### ScheduleQueue

A row of `wf` is a workflow with its cron and `schedule_last_fired_at`; a row of
`item` is a queue row, addressed by its unique key (workflow, planned tick); `runs`
are the run rows; `exec` is the program counter of each goroutine that executes
`RunWorkflow.Execute` (a worker, an HTTP caller, or the scheduler when the queue
is off); `sched` is what a scheduler tick has read and not yet handled.

* `SchedList`, `SchedNow`, then per workflow `SchedSkip`, `SchedEnqueue` or
  `SchedRunDirect` are `runSchedulerTick`: the list is read once and gets stale
  while its workflows are handled. `IsNextTick` is `ScheduleNextUTC`: the first
  tick strictly after the truncated anchor. A cron expression is the set of its
  ticks; parsing is left to the library.
* `ClaimNext`, `Mark`, `MarkLost` are the worker; `GetRow`, `CreateRun`,
  `AcquireSem`, `GiveUpSem`, `StartRun`, `RunGraph`, `FinishRun` are
  `RunWorkflow.Execute`, with a graph as one step that may fail;
  `UpdateLastFired` is what a worker and the direct scheduler do afterwards.
* `Expire` is the ten-minute timeout of a worker, or the client of a request that
  goes away: every later call with this context fails. `Restart` loses all
  goroutines and keeps the tables; nothing recovers rows left 'running'
  (`Worker.Start`).
* `EditRead`/`EditWrite`, `CreateWorkflow`, `DeleteWorkflow`, `RunByHand` are the
  handlers. Ids of deleted workflows are not reused.

What the code does that a reader may not expect, and the model has: in queue mode
every missed tick is caught up, one after the other, while without the queue
missed ticks coalesce into one run, since the current time is stored; enabling a
schedule again replays the ticks missed in between; an execution that failed
stalls the schedule, because the same tick conflicts with its own row forever
(`CronContract` states it as the phase "stalled").

Abstracted: `LIMIT 500` of `ListSchedulable` (an instance has fewer workflows),
users, pinning, the contents of a graph, the kind of a queue row (only workflows
are wired: `main.go` passes nil for scheduled tasks).

### CronContract

The promise of the whole machinery for a workflow whose schedule is not edited:
off, waiting, dispatched, started, then waiting for the next tick or stalled. One
tick at a time, in cron order, at most once, none skipped. `ScheduleQueue!planOf` is the
refinement mapping; `ImplementsContract` is checked as a property.

### DevProjects

`project` is `latest_version_seq`, `versions` the version rows with their files.
A recorder (`RecordFromMessage`) goes through `EnsureRead`, `EnsureCreate`,
`ReadLatest`, `ReadFiles`, `SaveVersion`; a rollback through `RollbackRead`,
`RollbackTarget`, `ReadFiles`, `SaveVersion`. The number is read first and the base
later. `SaveVersion` is one transaction, refused by `UNIQUE(project_id, seq)`;
that refusal is all that orders concurrent requests. Delete operations are not
applied by the code (`record.go:93`) and so not by the model: a message with only
deletes has no writes. A message that carries the whole project ("snapshot")
replaces what it finds, by design. Conversations are only soft-deleted, so rows
never vanish. Titles, stacks, summaries and listings are left out.

### VersionLog

What the versions of a project promise if its requests were served one at a time:
a snapshot, writes over the latest version, or a copy of an earlier one is
appended, and nothing stored changes. A version without files is never stored
(`record.go:49`). `DevProjects!logOf` reads the rows in the order of their numbers;
every step of `DevProjects` but a successful `SaveVersion` is a stutter of the log, and
`ImplementsLog` is checked as a property and proved.

### SocialPosts

`status` is the table; generators are the scheduler and "generate now"; deciders
are the approve and reject requests and the goroutines of the webhook. `Press` and
`Reply` are decisions; `Find` is `HandleWhatsAppReply` (the quoted id, else the
latest pending post, which need not be the one the user means); `Approve` and
`Reject` write whatever the status is; `Check`, `Call`, `Finish` are
`PublishPost.Execute`. A call of the Meta API that ends in an error may have been
carried out. `Interrupt` cancels a context: the webhook's goroutine lives on
`r.Context()`, which ends when the handler has answered (`meta_handlers.go:206`).
History: `said` is the user's last word, "unclear" when decisions about the post
overlap or one did not name it.

### TaskLists

Every handler reads the list row first and writes the whole row back last
(`ReadList` ... `Touch`), statuses included; `ReadItems`, `Mark` are the run
request and `StartItem`, `FinishItem`, `FinishList` its goroutine, which works on
copies of the items and writes their due dates back. Its three writes may fail; then the
error is logged and it goes on (`run.go:88-90`, `114-116`, `133-135`), so that `Write` and
`Store` have both outcomes. `Crash` ends all goroutines. Requests overlap freely.
A batch request (`apply_batch`) is a sequence of the single requests. Titles and
descriptions are left out.

History: `runs` and `did` are what the executor did with an item, whatever its row says;
`stale` the lists on which a copy was written over a row that had changed since it was read;
`late` the items added, edited or deleted while a run was under way, which begins when its
items are read; `unsaved` the items whose outcome could not be written; `unended` the lists
whose goroutine died or could not write its last status.

### DeskTools

The turns of one conversation. `Open`, `Answer`, `Conclude`, `Dispatch`, `Resume`,
`Timeout`, `Close` are `run_desk_reply_stream` with its graph and bridge; `Refuse`
is the turn for which no model can be reached, which registers no bridge.
`SendMessage`, `ReadCall`, `ToolEnds`, `SubmitAccepted`, `SubmitFails`, `TurnOver`
are `OpenPolvoAgent.sendMessage`; `Cut` breaks a connection. Python code between
two awaits is one step. Events arrive in order, so the calls in flight are those
between the last one read and the last one sent. The editor lets a command run
for 120 s (`deskToolRunner.ts:15`) while the server waits 60 s
(`desk_tool_logic.py:39`): late results, and queued calls that start after the
agent gave up on them, are normal behaviour and in the model. A result whose
request failed is followed by an error for the same call, even if the tool
succeeded.

The bridge is used by desk turns of a client that runs tools (`tool_runner`
'client', `openpolvoBackendProtocol.ts:58`; the workbench chat sends 'server') and by the
development agent with `DEV_WORKFLOW_TERMINAL_LOCAL=false`, with the same
protocol (`dev_gateway_graph.py:1110-1244`). Abstracted: the Go and Python
handlers that pass a result on (`conversation_handlers.go:905-953`,
`routes.py:583-597`), tools the server runs itself (an `Answer` with no calls
for the client), what a tool does to the workspace. Call ids are taken to be
unique, as UUIDs are.

### Conversations

One conversation of the Go API. `rows` is the table of messages in the order of
`created_at`, which every insert takes just before it; `turn` the program counter
of each `POST .../messages/stream` with the one thing it remembers of the
conversation it read first (whether it had a title); `told` what its client was
sent.

* `Begin`, `Ask`, `OpenStream` are `StreamMessage.Prepare`: the question is stored
  before the stream of the agent is opened, so that a failure leaves it alone.
* `Forward`, `StreamEnds`, `StoreAnswer`, `StoreError`, `RecallMemory`, `PatchMemory`,
  `SetTitle`, `SendSaved` are the handler (`conversation_handlers.go`) and
  `SaveAssistant`. The error of the insert of an answer is discarded.
* `Recall` and `Upsert` are the two statements of every update of the agent memory, by a
  turn and by `PATCH .../agent-memory` (`PatchGet`, `PatchPut`); `Rename` is the PATCH
  of the conversation.
* `Hangup` cancels the context of a turn, at any point: every later statement of it
  fails. `Crash` stops all handlers.

Left out: pins, `updated_at`, deletion, the path without streaming
(`send_message.go`, the same statements in one request), and the recorder, which
is `DevProjects`.

### ChatMessages and ChatEditor

`ChatMessages` has the operations of `PolvoAgentConversationsService` on a list of
messages, as operators: `AddMessage`, `UpdateAssistant`, `AppendDevStep`,
`UpdateDevResponse`, `NoteTime`, and `MergeLocalExtras`, which pairs the rows of the
server with local messages by position and then by id. A message is
who speaks, the turn it is about, what it says, its mark and the id of its row.

`ChatEditor` is the pane, the service, the synchronisation at startup and as much of
the server as the editor can observe. Everything between two awaits is one step.

* `Send`, `PickFiles`, `FilesRead`, `CreateForTurn`, `SetForTurn`, `Post` are
  `sendMessage` up to its request; `Line`, `Done`, `ErrorEvent`, `RequestFails` are
  the events of its stream, each of which looks at `this.conversationId` again;
  `Finish` is the `finally`. `Break` is a connection that breaks, `RequestFails` an abort or
  an HTTP error.
* `Again` is `withOpenPolvoApiAuth`: what failed is repeated once, the creation of the session
  or the POST, if the message of the error looks like one of sign-in or of the connection. The
  message is not modelled, so every failure but an abort may be repeated or not. That
  includes an HTTP error sent after the question was stored (a 502 that quotes a 401 of the
  agent service, `client.go:269`), and a session that was created all the same.
* `OpenChat`, `EnsureApiSession`, `SessionSet`, `GetMessages`, `MergeHistory` are `setInput`;
  `SyncList`, `SyncGet`, `SyncMerge` the synchronisation at startup.
* `StoreQuestion`, `StoreReply` are the turn of `Conversations`, cut down to the rows
  it leaves: a question, then a reply unless the connection is known to be gone. A request
  that is refused may have left its question (`stream_message.go:102-154`).
* `Restart` closes the editor: what was persisted (at every change) is restored.

Left out: deletion of conversations, which is local only, so that the server's copy
is imported again at the next start; titles; the answer 401 of the API itself, which is refreshed
and repeated before anything was stored; answers without text; reconciliation of a
single message; the system context and the code operations of an answer.

### FinanceJobs

`sub` and `conf` are the rows of subscriptions and of digest settings, `job` the
goroutine, `req` the handlers with the row each has read. Time is counted in units of which
an hour has `PerHour`, and the ticker fires `Every` so many units after the process started
(`started`; a crash starts it anew), so that ticks have any phase to the hour and an hour may
turn inside a pass. `DIGEST_SCHEDULER_INTERVAL` may be as short as a minute; the default is
an hour.

* `Clock` lets a unit pass, at any moment of a pass; `Ticks` is the ticker, whose channel holds
  one tick; `ListReminders`, `Remind`,
  `MarkReminder`, `ListDigests`, `Digest`, `NoDigest`, `MarkDigest` are a pass, statement by
  statement and mail by mail. A mail that failed may have gone out all the same.
* `SentOn` is the comparison of `processDigest`: the stored date, which is read as
  midnight UTC, taken to the zone of the user.
* `GetSubscription` with `PatchSubscription` or `Paid`, and `GetDigestSettings` with
  `PutDigestSettings`, read a row and write the whole of it back.

Zones are fixed offsets: daylight saving is left out. A subscription is due on a UTC
day: `DATE(next_due_at)` depends on the text the driver stores for a time and is taken to give
that day. The driver is not in the repository; were its text one that SQLite cannot read,
`DATE` would be NULL and nobody be reminded, so that what `Reminders` says would hold of no
mail. A cadence is a day long. The model starts with a
subscription that is due and a digest of today, of yesterday, or none so far.

## 3. The runs

All bounds are constants of the modules, in the guards of the actions that they
bound. States are distinct states found by TLC; times are those of a two-core
machine.

| run | properties | instance | states |
|---|---|---|---|
| `sq_queue` | `TypeOK`, `AtMostOnce`, `SerialPerWorkflow`, `NoTickSkipped`, `ImplementsContract`, `QueuedSettles`, `DueTickFires` | 1 workflow, 2 workers, 1 editor, 2 crons, 2 minutes, 1 edit or deletion, 1 crash or lost mark, 1 expired context | 137 000, 130 s |
| `sq_direct` | `NoOrphanRun`, `FiredOnTick` | no queue, 1 HTTP caller competing for the slot, 1 editor, 3 minutes | 649 000, 25 s |
| `dp_safety` | `TypeOK`, `OpsOnPredecessor`, `ImplementsLog` | 1 conversation, 2 recorders, 1 rollback, 2 paths, 3 versions | 1 107 000, 60 s |
| `sp_safety` | `TypeOK`, `OneYesOnePost`, `ApprovedInHand`, `OnlyWanted`, `ReplySettles` | 2 posts, 1 generator, 2 deciders, 2 decisions, both kinds of replies, interrupts | 61 000, 20 s |
| `sp_repost` | violates `PublishedNotReposted` | 1 post, 1 decider, 2 decisions, no interrupts | |
| `tl_safety` | `TypeOK`, `OneRunner`, `ItemOnce`, `InOrder`, `EditsKept`, `OutcomeTellsItems`, `RunEnds` | 1 list, 2 items, 2 requests open at a time, 4 in all, 2 failed writes or crashes | 1 116 000, 130 s |
| `tl_two_runners` | violates `OneGoroutine` | 1 list, 2 requests open at a time, no faults | |
| `dt_turns` | `TypeOK`, `ToldTruth`, `BridgeInPlace`, `TurnEnds` | 2 turns, 2 rounds, 2 calls in an answer, the first turn's connections may break | 267 000, 120 s |
| `dt_overlap` | violates `ActiveSession` | 2 turns, no broken connections | |
| `cv_safety` | `TypeOK`, `Dialogue`, `RepliesAccounted`, `EditsSurvive` | 2 turns, 1 PATCH of the memory, renames, 1 client that leaves, failed insert or crash | 659 000, 35 s |
| `ce_safety` | `TypeOK`, `QuestionsKept`, `AtHome`, `StoredOnce`, `InputLock` | 2 conversations, 2 turns, 2 sessions, 1 event of a stream, 1 thing out of the ordinary | 1 346 000, 60 s |
| `fj_days` | `TypeOK`, `Reminders`, `OneDigestADay` | 1 user in any of 3 zones, 1 subscription, 2 requests, days of 2 hours of 4 units, 7 units with a tick every 2, 1 fault or crash | 4 468 000, 115 s |

### What the runs show, and why the bounds are enough

**Schedule.** Two workers are what main.go starts. Queue rows of different
workflows interact only through the choice of the earliest row and the
semaphore, so one workflow with ticks in a row is where order and catching up can
go wrong: a tick queued while the previous one is executed, edited, lost or expired.
The two expressions share a tick, so that an edit changes the next tick without
changing all of them. `SemCap` is 1, not 3: with two executors a semaphore of three
never fills. `sq_queue` carries safety and liveness in one instance, whose two
minutes are what the liveness properties leave time for; its safety properties and
`ImplementsContract` are theorems, so that nothing hangs on the third minute.
`NoOrphanRun` and the liveness properties say what holds as long as no context expired
and nothing went down; what faults do is said by `AtMostOnce`, which holds with them,
and by `ImplementsContract`, whose "stalled" is their only effect. Properties of a
workflow except edited ones: an edit during an execution may move the firing time past
or behind ticks of the new cron, which the code accepts.

**Projects.** Races need two writers that read the same number and one that
commits in between; a third writer of the other kind gives the rollback its
rivals. Three versions let a rollback go back over a version stored meanwhile.
One content suffices for `OpsOnPredecessor`, since versions differ in which of the two
paths they hold. Another conversation shares no row.

**Posts.** Two posts are needed for a reply that is not about the latest one;
two deciders, both open at a time, are needed for everything that overlaps; two decisions
are a second one after or during the first. The instance with three decisions (956 000
states) has been run once and shows no error; the configuration keeps two, for
its time. `sp_repost` needs no interleaving at all: an approval after a
publication.

**Task lists.** Two items are the shortest list with an order and a successor that must not
be run. Two requests, each of which may leave a goroutine and be used again, overlap in every
way two can, and four in all are enough to create a list, to run it, to edit it meanwhile and
to ask for a second run; a third open request would be a second stale copy of the same row. Two
faults are a failed write of an item and one of its list, or of either and a crash. The
positions are two, so that an edit can turn the order around. `tl_two_runners` asks for one
goroutine per list without exception; its shortest counterexample is two run requests.

**Desk tools.** Overlap takes two turns; a late result of one call meeting the
next takes two calls, in one answer or in two rounds. Only the first turn's
connections break (`Cuts`), which is the one whose late steps can hurt the other; the
safety properties are theorems for any set.

**Conversations.** Every property relates two turns, or a turn and an edit: two
turns and one PATCH are the smallest instance in which two windows of the memory
overlap with a third writer to come, and in which answers are stored in the other
order than their questions. The faults exclude each other in the instance, not in the
theorems, which cover all four properties.

**Chat of the editor.** Two turns in two conversations, one of which may be imported
from the server. `MaxEvents` is 1: one conversation opened, or files attached, or a
request that fails or is refused, before or after its question was stored, or a connection
broken, or a restart; with files two turns overlap, and a
restart runs the synchronisation against what the turns left on the server. All five
properties are proved for any number of all of these. The bound does hide something: two
conversations get one session only with four such events (section 4), which is why
`QuestionsKept` speaks of sharing at all.

**Finance jobs.** The clock starts an odd number of units into a day, so that the three ticks
lie around a midnight in UTC and none of them on the hour: hours turn between two ticks,
inside passes and outside. The zones put midnight before and after the ticks; an hour has two
of them, so that the second one shows whether the digest of the hour is found again. Two requests are a reader and a rival;
a PATCH sets a new due date or nothing, a PUT the zone UTC, which for some users is a change. Each
exception in `Reminders` and `OneDigestADay` is needed: without it TLC finds the code
to violate the rest. The proofs cover any number of users, requests, faults and ticks,
and any calendar.

### Deadlock

Deadlock is checked in the runs of `ScheduleQueue` only, where the scheduler never
stops. The other models describe requests and turns that end, of which an instance has
finitely many, or (`FinanceJobs`) stop at the end of time: when all are over the system
rests, and their configurations say `CHECK_DEADLOCK FALSE`. What must not get stuck there
is stated as liveness or as an invariant: for a post that nothing would pick up
`ApprovedInHand`, for the input of the chat and a turn that waits for its stream
`InputLock`.

### Fairness

* `ScheduleQueue`: weak fairness of each worker, caller, editor and of the
  scheduler. Go runs every goroutine that is ready, and both loops poll with a
  ticker. No fairness of the clock, of users, of faults. A graph ends: its nodes
  have timeouts. Weak fairness of `AcquireSem` is enough for what is checked:
  an instance has finitely many executions, so a waiting one is not overtaken
  for ever.
* `TaskLists`: weak fairness of the goroutine of a run. The client of the
  executor has a timeout. `RunEnds` excepts a crash and a last write that failed, after
  which nothing takes the mark from a list.
* `SocialPosts`: weak fairness of each decider; the client of the Meta API has a
  timeout. `ReplySettles` excepts posts of which a decision was cut off.
* `DeskTools`: weak fairness of each agent and each client. Both event loops run
  what is ready; models, commands and the wait for a result have timeouts. No
  fairness of `Cut` or `SendMessage`.
* `Conversations`, `ChatEditor`, `FinanceJobs`: none. Their requests wait for streams and
  mails without a deadline of their own, so nothing is promised that must happen; what
  they owe when they are over is stated as invariants. (`OneDigestADay` asks for a digest
  only of passes that were over by the next tick and before the hour turned.)

### Symmetry

`MCSymmetry` permutes recorders and paths, or requests, items and lists, or turns,
sessions or requests, only in runs without liveness properties, and no definition tells the permuted
values apart. The posts are ordered by creation and not permuted.

## 4. The theorems

They hold for every value of the constants that satisfies the named assumptions of the
modules (`ConstantsAssumption`, `DistinctRequests`, `Parameters`, `Bounds`, `Finite`,
`ConstantsDistinct`, `ChatConstants`, `Calendar`, `Changes`), which the runs evaluate. The bounds of an
instance are constants too, so they are arbitrary.

**ScheduleQueueProofs.** `TypeCorrect`; `ClaimIsExclusive`; `DispatchedAtMostOnce`;
`ExecutionsAreSerial`, `CatchUpSkipsNothing` and `FiredNeverGoesBack` (with the
queue); `RunsAreAttended`; `FiresOnTick`.

* `ClaimInv`: a worker that holds a row finds it 'running' and alone holds it, and
  only rows that were never claimed are 'queued'. This is inductive because `Enqueue`
  conflicts with a row in any status and `ClaimNext` selects 'queued' rows only.
  Both exclusivity theorems follow.
* `ScheduleInv` is the argument why ticks are serial, which is not local to any
  function: whatever is queued (`QueuedInv`) or being executed before its firing
  is stored (`FiringInv`) is the *upcoming* tick of its workflow, the one after
  the stored anchor; a snapshot of the scheduler (`SnapshotInv`) has an anchor
  that is the current one or lies behind it, and then its next tick is a row that exists
  already, so that enqueuing it does nothing; and all ticks behind the stored
  firing time were executed (`FiredInv`). A cron has only one next tick
  (`NextTickUnique`), so two executions of a workflow are the same row, which
  `ClaimInv` gives to one worker.
* Without `SnapshotInv` a stale list could enqueue a tick that was never the
  upcoming one; without `QueuedInv` a claimed row could be a tick of the past.
* `OrphanInv`: until a context expires or the process stops, every run row that is not
  over, 'pending' ones included, is in the hands of an executor between the creation of the
  run and its last write.
* `DirectInv`: without the queue only the scheduler fires, with the anchor its snapshot
  has, at a time past the tick it saw. `FiresOnTick` joins it with `FiringInv`.

*The contract* (in the same module). `QueueKeepsContract`: the specification without its
fairness implements `CronContract` for every workflow. `planOf` looks at whole tables, so
each step is a lemma on what it does to the phase of each workflow. Besides `ScheduleInv`
and `ClaimInv` it takes `ContractInv`: the row of an unedited workflow is the upcoming tick
or one that is behind it, and due (`SpentInv`), and what only waits for MarkDone has fired
(`MarkInv`). This makes marking a stutter, and a lost mark the step to "stalled".

**DevProjectsProofs.** `DevTypeCorrect`, `VersionsAreContiguous`, `NoUpdateLost`,
`RollbackIsExact`, `HistoryIsKept`, from `Inv`. Its core is `RequestOK`: what a
request has read is the beginning of a history that only grows (`Grows`), so if
the number it took is still free when it saves, then nothing was stored since
it read the number, and the base it read *later* is the direct predecessor. That is
why two reads in two statements lose no update. `RequestsAreSerial`: the specification
implements `VersionLog`. It takes one more invariant, `Sources` (what a request stores has
files, a snapshot is exactly its writes, and the base of operations was read no earlier than
their number and is a version that exists): with the number still free, number and base are
both the end of the log, so the operations are `Operate` of the log and not merely writes over
some earlier version. `LogSave` splits on the three origins; `LogStep` shows that all
else stutters.

**SocialPostsProofs.** `PostsTypeCorrect`, `PostsNeedApproval`, `ApprovedIsInHand`,
`StoredIsThere`, `OnlyApprovedIsPosted`. `OneYesOnePost` is not inductive; `Covered` counts,
besides the appearances of a post, the deciders that may still cause one (`Owing`), and
that sum never exceeds the approvals. Its proof uses the theorems on finite cardinalities
and that deciders are finitely many. `ApprovedInHand` is inductive with the types, if
the accounts are configured; otherwise `Check` returns and leaves the post approved.
For `OnlyWanted`, `Carried` says that a decider on its way to the platform carries a yes
that is the last word about its post, or that word is unclear; for the posts the table
calls published, `Answered` says that who is about to store so has posted.

**TaskListsProofs.** `TasksTypeCorrect`, `OneGoroutineUnlessStale`, `NoItemTwice`,
`ItemsInOrder`, `DueDatesKept`, `OutcomeIsTrue`, for any number of overlapping requests, failed
writes and crashes. `RunsInv` has a part about every request, every item and every list that
is not `stale`. Of such a list it says that its goroutine is alone, since whoever marked it
put back a row that was still 'pending', and with a goroutine the row is 'running'; that
nothing of a pending list was run; and that a goroutine has still to run what nobody ran,
after items that went well. The argument speaks of `runs` and `did`, never of the
statuses of items, which is why failed writes do not disturb it. Lists on which an outdated
copy was put back drop out at that step. A due date a goroutine holds is the one the user asked
for, or the item is `late`.

**DeskToolsProofs.** `DeskTypeCorrect`, `VerdictsAreTrue`, `WaitsOnItsBridge`, from
`Inv`: `LoopOK` (where the agent waits it has sent a call), `ClientOK` (a client
that submits has a result), `Witnessed` (a verdict in the future of call *n* is that of
the tool of call *n*, and the client has not read on, since it cannot have read a call that
was not sent), and `OneSession` (without overlap a live turn owns the bridge).

**ConversationsProofs.** All four properties. `TableInv` says of every turn what
rows it has at each program counter (`TurnInv`); a lemma says that an insert changes the
rows of its own turn only, and so turns are proved one at a time. `MemoryInv`: an open
window has a copy as good as the memory, or its field was last set by a writer whose
window overlapped; two open windows have overlapped. `TitleInv`: a turn that goes on with an
empty title is one that had read none before a user gave one.

**ChatEditorProofs.** `InputIsGivenBack` and `TurnsAreStoredOnce`, from `ChatInv`: whoever is
between `Send` and its end has set isSending or overlaps a turn that read files
(`InputInv`); a turn that waits has a handler that is served, refused or cut off
(`CallInv`, which also says that a turn that has not repeated anything has not called its second
handler); the rows of a turn are those of the requests made for it (`RowInv`), refused ones
included. None of
it needs the types of messages, so the merges are left out of this argument.

`EditorTypeCorrect`, `QuestionsStay` and `StreamsWriteAtHome` are about the lists, from
`EditInv`.

* `ListOK` is what every operation of `ChatMessages` preserves: questions are the user's and
  carry no mark of the development workflow; a message with an id has that row on the
  server; a message without one is about a turn at home in its conversation, or repeats a
  plain copy above it (`NoteTime`). `Keeps` says that questions stay at their place.
  Each operation has a lemma with both, `MergeLocalExtras` included: it pairs by position or
  by id, so a copy never loses its row, but `Keeps` does not hold of it.
* So what keeps a question is that no merge happens: `Safe(c)`. No history is fetched
  for the session of the conversation, and no other conversation has that session.
  Fetches begin only for conversations without messages (`LookIs`, `KeptIs`), hence a safe
  one stays safe until its session changes. `KeptInv`: the question of a turn that was sent
  and not raced is in a safe conversation.
* An earlier form of `QuestionsKept`, which excepted only fetches under way, is false,
  although TLC finds no counterexample within the bounds of the run. `SessionSet` waits for
  its answer while the synchronisation after a restart lists the new session already and
  imports it as a second conversation; `find` takes the newer of the two, so that opening the
  older, empty one replaces the list of the newer by the rows of the server. A question
  the server had refused is gone. A simulation of these steps confirms it; the history
  `raced` now counts sharing a session.

**FinanceJobsProofs.** `FinanceTypeCorrect`, `RemindersOnce`, `DigestOnce`. Handlers
write back whole rows, so each invariant says what *every copy* of a row may show: that of
the table, of the handlers and of the goroutine.

* `PastInv`: nothing is dated ahead of the clock. `RemindInv`: once a reminder went out
  today, every copy of its subscription carries the mark, unless the goroutine has yet to set
  it, setting it failed, or a handler with an older copy has overwritten it. `PaidInv`: every
  copy is due after all that was paid, unless a payment was overwritten.
* `MailedInv`, `ZoneInv`, `DigestInv` say the same of the digest. Their arithmetic is a lemma
  on `SentOn`: a stored day read in a zone from UTC eastwards is that day, west of it the day
  before.
* That a digest is not *missed* is a count (`HourInv`): every tick of the hour whose
  pass is over, and that sent nothing, has used up a fault, unless the hour turned
  inside a pass. `TicksOfHour` counts the ticks of an hour, whatever their phase.
* The proof attempt corrected the history `paid` of `PatchSubscription`: a PATCH that sets a
  new due date makes earlier payments irrelevant, and the property was false with
  four requests.

Theorems that state no property of a run are what such a property rests on or what
is settled by them for good: that a claim is exclusive, that a firing time does not go back,
that versions are contiguous and kept, and that what is called published was posted.

The proofs use no assumption of their own and nothing is left unproved. `tlapm` 1.4.5
checks 13 406 obligations with Z3, Zenon and LS4.

## 5. Where code and documentation disagree

Each is a counterexample TLC finds in a run of its own.

* `dt_overlap`: `_active_bridges` is "um stream Desk de cada vez". Both streams of two messages
  register their bridge with `set_bridge`, and nothing says which is the later message: if
  the stream of the aborted turn is opened last, its bridge takes the place of the other, whose
  agent then waits where no result arrives. In longer behaviours the `finally` of the aborted
  stream does the same with `clear_bridge`.
* `sp_repost`: `PublishPost.Execute` refuses what is neither approved nor pending; but
  `ApprovePost`, called first by every decision, stores 'approved' over any
  status, so a published post is posted again.
* `tl_two_runners`: a run is marked "imediatamente (síncrono)" and a second one
  refused; the status is read two statements before it is written without
  condition, so two requests that overlap both read 'pending', both mark the list and
  leave a goroutine each. (An edit that overlaps a run can put 'pending' back too, so that a
  later run request is accepted; that takes longer, and is what `stale` in `OneRunner` is
  about.)

Noted without a run of its own:

* `.env.example:50` promises a TTL of the lock of a queue row being executed, "evita
  duplicação entre workers". `ClaimNext` writes `locked_until` and nothing reads it of a
  running row: after a crash or a failed MarkDone the row stays 'running' and the
  schedule of its workflow never fires again ("stalled" in `CronContract`).
* The digest's day is stored as midnight UTC and compared in the zone of the user
  (`finance_jobs.go:86`). West of Greenwich that is the day before, so each tick of the digest
  hour mails again if `DIGEST_SCHEDULER_INTERVAL` is less than an hour, as
  `finance_jobs.go:20` allows ("mín. 1 min"). `OneDigestADay` has it as an exception.
* `messages_saved` means "Histórico persistido após `done`"
  (`docs/desk-api-contract.md:55`): the server sends it although the insert of the answer
  failed, whose error it discards, and the workbench stops reading at the event before it.
* `updateDevResponseMessage` (`polvoAgentConversationsService.ts:293`) replaces the last
  answer of the whole conversation, which may be that of an earlier turn; the server has
  both, but the editor shows its own list after a restart, where the conversation is to be as it
  was (`docs/desk-mvp-quickstart.md:47`).
* A session may be given to a conversation after the synchronisation imported it as another
  one: `upsertFromServer` (`polvoAgentConversationsService.ts:385`) finds by session, and
  `setApiSessionId` (line 223) does not look for a conversation that has it.
* The end of a turn copies the last plain answer over a step or an error below it
  (`NoteTime`). A merge of a history that was fetched while a message was sent
  replaces the list by the rows fetched, and the question is gone from the screen. While a turn
  reads attached files another may be sent, and the end of either gives the input back.
  A conversation deleted in the editor is imported again.
* The comment at `tasklists/application/run.go:38` speaks of executing a finished list
  again, where the code runs only pending ones. A goroutine that cannot write its last
  status leaves its list 'running' for ever, and one that cannot write that of an item a row
  that tells less than was done (`run.go:133`, `114`).
* A pass of the finance jobs reads the hour for each user when it gets to him
  (`finance_jobs.go:80`). If the hour turns between a tick and that moment, and ticks are an hour
  apart, the digest of that day is sent by no pass: `OneDigestADay` has it as an exception.
* The webhook handler says it works in the background (`meta_handlers.go:215`) and
  hands its goroutine a context that ends with the request; a plain "SIM" publishes the latest
  pending post (`approval.go:121`), which the message (`approval.go:62`) does not say.

## 6. What is only model-checked, and what is not modelled

Only model-checked: liveness (`QueuedSettles`, `DueTickFires`, `RunEnds`,
`ReplySettles`, `TurnEnds`), which is out of the proof system's reach as it needs
fairness and ENABLED. Every safety property of a passing run is a theorem.

Not modelled:

* *Scheduled tasks*: no main program builds its use cases; the handlers and the
  worker get nil. Nothing of it runs.
* *Rest of the finance store, identity, mail, contacts, Meta settings, model profiles*:
  single-statement reads and writes guarded by keys of the schema, and calls of
  outside services.
* *Editor workflows*: editing of graphs; what the API does with them is in
  `ScheduleQueue`.
* *Development agent, orchestrator, reply graphs*: prompts and calls whose
  control a language model chooses, stateless per request. Their terminal calls
  use the bridge of `DeskTools`.
* *Document graphs, code search*: data processing without concurrency.
* *Platform, router, main*: wiring; what it decides about the modelled parts is used.
* *Agent host files, sessions, sign-in*: input and output of the workbench.
* *The base of the editor*: third-party.
* Still to come: see the plan.

## 7. Plan

Done, in this order: `ScheduleQueue` with `CronContract`, `DevProjects` with `VersionLog`, `TaskLists`,
`SocialPosts`, `DeskTools`, `Conversations`, `ChatMessages` and `ChatEditor`,
`FinanceJobs`, with the theorems of section 4.

Next, in this order:

1. `SocialSchedule`: `PutConfig` against ticks and `last_run_at`, composed with
   the generators of `SocialPosts`.
2. `WorkflowGraph`: `OrderNodes` (Kahn) as a recursive function against the definition
   of a topological order over all small graphs; `RunGraph` up to the first
   failure; retries of a node that may have been carried out.
3. Abstract specifications: the life of a post
   for `SocialPosts`, a sequential executor for `TaskLists`, and the server of
   `ChatEditor` as what `Conversations` implements, each with its mapping.
4. `ChatEditor` with deletions and two panes.

Theorems, in this order: the abstract specifications of point 3, each step by step from the
invariants there are; that two conversations never share a session if no session is set
while a synchronisation runs.
