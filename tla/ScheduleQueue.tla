---------------------------- MODULE ScheduleQueue ----------------------------
(***************************************************************************)
(* Scheduled workflows of the Open Polvo backend: the workflows table, the *)
(* cron scheduler loop, the persisted execution queue, the queue workers,  *)
(* RunWorkflow.Execute with its semaphore of three slots, the HTTP callers *)
(* that run, edit, create and delete workflows, and the process itself     *)
(* (shutdown or crash, then restart).                                      *)
(*                                                                         *)
(* SQLite is opened with one connection, so a statement or a transaction   *)
(* is one step; everything between two statements interleaves.  Time is    *)
(* counted in cron ticks' unit, the minute, to which ScheduleNextUTC       *)
(* truncates its anchor.                                                   *)
(***************************************************************************)
EXTENDS Integers, Sequences, FiniteSets

CONSTANTS
  Workflows,      \* identities of workflows (UUIDs, never reused)
  Workers,        \* goroutines of schedulequeue Worker.Start
  Callers,        \* HTTP requests running a workflow by hand
  Editors,        \* HTTP requests editing a workflow
  Scheduler,      \* the goroutine of StartWorkflowScheduler
  Crons,          \* cron expressions with their time zone
  NoCron,         \* schedule disabled, or no cron in the graph
  CronTicks,      \* the instants at which an expression fires
  LockTTL,        \* Worker.LockTTL
  SemCap,         \* capacity of runSem
  QueueEnabled,   \* SCHED_QUEUE_ENABLED
  MaxTime, MaxRuns, MaxEdits, MaxFaults, MaxExpiries  \* bounds of an instance

Schedules == Crons \cup {NoCron}
Executors == Workers \cup Callers \cup {Scheduler}
Ticks     == 1..MaxTime
Keys      == Workflows \X Ticks
Never     == -1   \* SQL NULL in schedule_last_fired_at and locked_until

ASSUME ConstantsAssumption ==
  /\ NoCron \notin Crons
  /\ CronTicks \in [Crons -> SUBSET (Nat \ {0})]
  /\ Workers \cap Callers = {}
  /\ Scheduler \notin Workers \cup Callers
  /\ LockTTL \in Nat
  /\ SemCap \in Nat \ {0}
  /\ QueueEnabled \in BOOLEAN
  /\ MaxTime \in Nat /\ MaxRuns \in Nat /\ MaxEdits \in Nat
  /\ MaxFaults \in Nat /\ MaxExpiries \in Nat

VARIABLES
  clock,      \* wall clock, minutes
  wf,         \* laele_workflows: one row per workflow
  item,       \* laele_schedule_queue: one row per (workflow, scheduled_for)
  runs,       \* laele_workflow_runs, in order of creation
  exec,       \* the control state of each goroutine inside Execute
  sched,      \* what runSchedulerTick has read and not yet handled
  edit,       \* what UpdateWorkflow has read and not yet written
  edited,     \* history: workflows whose schedule an edit has rewritten
  budget      \* edits, faults and context expiries still allowed

db   == <<wf, item, runs>>
vars == <<clock, wf, item, runs, exec, sched, edit, edited, budget>>

-----------------------------------------------------------------------------
(* Rows and control states.                                                *)

WfRow == [state : {"new", "live", "deleted"}, cron : Schedules,
          created : Nat, fired : Nat \cup {Never}]

ItemRow == [status : {"none", "queued", "running", "done", "error"},
            attempts : Nat, locked : Nat \cup {Never}]

RunRow == [wf : Workflows, status : {"pending", "running", "success", "failed", "cascaded"}]

Idle == [pc |-> "idle", wf |-> NoCron, tick |-> 0, run |-> 0, ok |-> FALSE, expired |-> FALSE]

\* Idle, or somewhere in Worker.tick, RunWorkflow.Execute or what follows it.
ExecState ==
  {Idle} \cup
  [pc : {"get", "create", "sem", "start", "graph", "finish", "fired", "markDone", "markError"},
   wf : Workflows, tick : Nat, run : Nat, ok : BOOLEAN, expired : BOOLEAN]

Snapshot   == [wf : Workflows, cron : Crons, anchor : Nat]
SchedState == [pc : {"idle", "listed", "loop"}, todo : SUBSET Snapshot, now : Nat]
IdleSched  == [pc |-> "idle", todo |-> {}, now |-> 0]

IdleEdit  == [pc |-> "idle", wf |-> NoCron, cron |-> NoCron]
EditState == {IdleEdit} \cup [pc : {"write"}, wf : Workflows, cron : Schedules]

NoItem == [status |-> "none", attempts |-> 0, locked |-> Never]

Init ==
  /\ clock = 0
  /\ wf = [f \in Workflows |-> [state |-> "new", cron |-> NoCron, created |-> 0, fired |-> Never]]
  /\ item = [k \in Keys |-> NoItem]
  /\ runs = <<>>
  /\ exec = [e \in Executors |-> Idle]
  /\ sched = IdleSched
  /\ edit = [u \in Editors |-> IdleEdit]
  /\ edited = {}
  /\ budget = [edits |-> MaxEdits, faults |-> MaxFaults, expiries |-> MaxExpiries]

-----------------------------------------------------------------------------
(* The schedule of a workflow: ScheduleNextUTC and ListSchedulable.        *)

\* Mutant: the next tick may be the anchor itself.
MutIsNextTick(c, anchor, t) ==
  t \in CronTicks[c] /\ t >= anchor /\ \A u \in CronTicks[c] : u >= anchor => t <= u

\* t is the first tick of cron c strictly after the anchor.
IsNextTick(c, anchor, t) ==
  /\ t \in CronTicks[c]
  /\ t > anchor
  /\ \A u \in CronTicks[c] : u > anchor => t <= u

\* The instant from which the next tick is computed.
Anchor(row) == IF row.fired = Never THEN row.created ELSE row.fired

Schedulable == {f \in Workflows : wf[f].state = "live" /\ wf[f].cron # NoCron}

SnapshotOf(f) == [wf |-> f, cron |-> wf[f].cron, anchor |-> Anchor(wf[f])]

-----------------------------------------------------------------------------
(* Time and the HTTP handlers that change the workflows table.             *)

AdvanceClock ==
  /\ clock < MaxTime
  /\ clock' = clock + 1
  /\ UNCHANGED <<db, exec, sched, edit, edited, budget>>

CreateWorkflow(f, c) ==
  /\ wf[f].state = "new"
  /\ wf' = [wf EXCEPT ![f] = [state |-> "live", cron |-> c, created |-> clock, fired |-> Never]]
  /\ UNCHANGED <<clock, item, runs, exec, sched, edit, edited, budget>>

\* DELETE cascades to the runs of the workflow; queue rows stay.
DeleteWorkflow(f) ==
  /\ wf[f].state = "live"
  /\ budget.edits > 0
  /\ wf' = [wf EXCEPT ![f].state = "deleted"]
  /\ runs' = [i \in DOMAIN runs |->
                IF runs[i].wf = f THEN [runs[i] EXCEPT !.status = "cascaded"] ELSE runs[i]]
  /\ budget' = [budget EXCEPT !.edits = @ - 1]
  /\ UNCHANGED <<clock, item, exec, sched, edit, edited>>

\* UpdateWorkflow reads the row, then derives the schedule c from the graph
\* of the request or, when only the title changes, from the graph it read.
EditRead(u, f, c) ==
  /\ edit[u].pc = "idle"
  /\ wf[f].state = "live"
  /\ budget.edits > 0
  /\ edit' = [edit EXCEPT ![u] = [pc |-> "write", wf |-> f, cron |-> c]]
  /\ budget' = [budget EXCEPT !.edits = @ - 1]
  /\ UNCHANGED <<clock, db, exec, sched, edited>>

\* The UPDATE rewrites the schedule but neither created_at nor
\* schedule_last_fired_at; it matches no row once the workflow is deleted.
EditWrite(u) ==
  LET f == edit[u].wf IN
  /\ edit[u].pc = "write"
  /\ edit' = [edit EXCEPT ![u] = IdleEdit]
  /\ IF wf[f].state = "live"
       THEN /\ wf' = [wf EXCEPT ![f].cron = edit[u].cron]
            /\ edited' = IF edit[u].cron = wf[f].cron THEN edited ELSE edited \cup {f}
       ELSE UNCHANGED <<wf, edited>>
  /\ UNCHANGED <<clock, item, runs, exec, sched, budget>>

-----------------------------------------------------------------------------
(* The scheduler loop.                                                     *)

\* ListSchedulable: the rows are read once, at the start of the tick.
SchedList ==
  /\ sched.pc = "idle"
  /\ exec[Scheduler].pc = "idle"
  /\ sched' = [pc |-> "listed", todo |-> {SnapshotOf(f) : f \in Schedulable}, now |-> 0]
  /\ UNCHANGED <<clock, db, exec, edit, edited, budget>>

\* now := time.Now().UTC(), read after the list.
SchedNow ==
  /\ sched.pc = "listed"
  /\ sched' = IF sched.todo = {} THEN IdleSched ELSE [sched EXCEPT !.pc = "loop", !.now = clock]
  /\ UNCHANGED <<clock, db, exec, edit, edited, budget>>

\* The scheduler drops s from its list and goes on with the rest.
Handled(s) ==
  sched' = IF sched.todo = {s} THEN IdleSched ELSE [sched EXCEPT !.todo = @ \ {s}]

\* Mutant: ON CONFLICT DO UPDATE SET status = 'queued'.
MutEnqueue(k) == item' = [item EXCEPT ![k].status = "queued", ![k].locked = Never]

\* INSERT ... ON CONFLICT(kind, entity_id, scheduled_for) DO NOTHING
Enqueue(k) ==
  item' = IF item[k].status = "none"
            THEN [item EXCEPT ![k] = [status |-> "queued", attempts |-> 0, locked |-> Never]]
            ELSE item

\* No tick is due: the workflow is skipped.
SchedSkip(s) ==
  /\ sched.pc = "loop" /\ s \in sched.todo
  /\ exec[Scheduler].pc = "idle"
  /\ ~ \E t \in 1..sched.now : IsNextTick(s.cron, s.anchor, t)
  /\ Handled(s)
  /\ UNCHANGED <<clock, db, exec, edit, edited, budget>>

\* Mutant: schedule_last_fired_at moves when the tick is enqueued.
MutSchedEnqueue(s) ==
  /\ QueueEnabled /\ sched.pc = "loop" /\ s \in sched.todo
  /\ \E t \in 1..sched.now :
       IsNextTick(s.cron, s.anchor, t) /\ Enqueue(<<s.wf, t>>) /\ wf' = [wf EXCEPT ![s.wf].fired = t]
  /\ Handled(s)
  /\ UNCHANGED <<clock, runs, exec, edit, edited, budget>>

\* A tick is due and the queue is configured: the tick is enqueued.
SchedEnqueue(s) ==
  /\ QueueEnabled
  /\ sched.pc = "loop" /\ s \in sched.todo
  /\ \E t \in 1..sched.now :
       /\ IsNextTick(s.cron, s.anchor, t)
       /\ Enqueue(<<s.wf, t>>)
  /\ Handled(s)
  /\ UNCHANGED <<clock, wf, runs, exec, edit, edited, budget>>

\* Mutant: the scheduler runs a workflow whose tick is not due yet.
MutSchedRunDirect(s) ==
  /\ ~QueueEnabled /\ sched.pc = "loop" /\ s \in sched.todo /\ exec[Scheduler].pc = "idle"
  /\ exec' = [exec EXCEPT ![Scheduler] = [Idle EXCEPT !.pc = "get", !.wf = s.wf]]
  /\ Handled(s)
  /\ UNCHANGED <<clock, db, edit, edited, budget>>

\* A tick is due and there is no queue: the scheduler runs the workflow itself.
SchedRunDirect(s) ==
  /\ ~QueueEnabled
  /\ sched.pc = "loop" /\ s \in sched.todo
  /\ exec[Scheduler].pc = "idle"
  /\ \E t \in 1..sched.now : IsNextTick(s.cron, s.anchor, t)
  /\ exec' = [exec EXCEPT ![Scheduler] = [Idle EXCEPT !.pc = "get", !.wf = s.wf]]
  /\ Handled(s)
  /\ UNCHANGED <<clock, db, edit, edited, budget>>

-----------------------------------------------------------------------------
(* The queue workers: Worker.tick.                                         *)

\* Mutant: a row is due only after its instant.
MutClaimableLate(k) == item[k].status = "queued" /\ k[2] < clock

\* Rows the SELECT of ClaimNext returns.
Claimable(k) ==
  /\ item[k].status = "queued"
  /\ k[2] <= clock
  /\ item[k].locked = Never \/ item[k].locked <= clock

\* ClaimNext, one transaction: the earliest due row becomes 'running'.
ClaimNext(w) ==
  /\ exec[w].pc = "idle"
  /\ \E k \in Keys :
       /\ Claimable(k)
       /\ \A j \in Keys : Claimable(j) => k[2] <= j[2]
       /\ item' = [item EXCEPT ![k] = [status |-> "running", attempts |-> item[k].attempts + 1,
                                       locked |-> clock + LockTTL]]
       /\ exec' = [exec EXCEPT ![w] = [Idle EXCEPT !.pc = "get", !.wf = k[1], !.tick = k[2]]]
  /\ UNCHANGED <<clock, wf, runs, sched, edit, edited, budget>>

\* Mutants: MarkError writes a status the table does not know, or puts the row
\* back into the queue.
MutMarkAs(w, status) ==
  LET k == <<exec[w].wf, exec[w].tick>> IN
  /\ exec[w].pc \in {"markDone", "markError"}
  /\ item' = [item EXCEPT ![k].status = IF exec[w].pc = "markDone" THEN "done" ELSE status,
                          ![k].locked = Never]
  /\ exec' = [exec EXCEPT ![w] = Idle]
  /\ UNCHANGED <<clock, wf, runs, sched, edit, edited, budget>>
MutMark(w)        == MutMarkAs(w, "failed")
MutMarkRequeue(w) == MutMarkAs(w, "queued")

\* MarkDone or MarkError, with a background context.
Mark(w) ==
  LET k == <<exec[w].wf, exec[w].tick>> IN
  /\ exec[w].pc \in {"markDone", "markError"}
  /\ item' = [item EXCEPT ![k].status = IF exec[w].pc = "markDone" THEN "done" ELSE "error",
                          ![k].locked = Never]
  /\ exec' = [exec EXCEPT ![w] = Idle]
  /\ UNCHANGED <<clock, wf, runs, sched, edit, edited, budget>>

\* The error of MarkDone or MarkError is discarded.
MarkLost(w) ==
  /\ exec[w].pc \in {"markDone", "markError"}
  /\ budget.faults > 0
  /\ budget' = [budget EXCEPT !.faults = @ - 1]
  /\ exec' = [exec EXCEPT ![w] = Idle]
  /\ UNCHANGED <<clock, db, sched, edit, edited>>

-----------------------------------------------------------------------------
(* RunWorkflow.Execute, by a worker, by an HTTP caller or by the scheduler. *)

\* RunWorkflow.Execute returned an error to its caller.
Failed(e) == IF e \in Workers THEN [exec EXCEPT ![e].pc = "markError"] ELSE [exec EXCEPT ![e] = Idle]

\* RunWorkflow.Execute returned a run: the handler answers the request, the
\* worker and the scheduler go on to UpdateScheduleLastFired.
Returned(e) == IF e \in Callers THEN [exec EXCEPT ![e] = Idle] ELSE [exec EXCEPT ![e].pc = "fired"]

\* POST /workflows/{id}/run
RunByHand(c, f) ==
  /\ exec[c].pc = "idle"
  /\ wf[f].state # "new"
  /\ Len(runs) < MaxRuns
  /\ exec' = [exec EXCEPT ![c] = [Idle EXCEPT !.pc = "get", !.wf = f]]
  /\ UNCHANGED <<clock, db, sched, edit, edited, budget>>

\* Workflows.GetByIDAndUser
GetRow(e) ==
  /\ exec[e].pc = "get"
  /\ exec' = IF wf[exec[e].wf].state = "live" /\ ~exec[e].expired
               THEN [exec EXCEPT ![e].pc = "create"] ELSE Failed(e)
  /\ UNCHANGED <<clock, db, sched, edit, edited, budget>>

\* Runs.Create: the foreign key refuses a run of a deleted workflow.
CreateRun(e) ==
  /\ exec[e].pc = "create"
  /\ IF wf[exec[e].wf].state = "live" /\ ~exec[e].expired
       THEN /\ runs' = Append(runs, [wf |-> exec[e].wf, status |-> "pending"])
            /\ exec' = [exec EXCEPT ![e].pc = "sem", ![e].run = Len(runs) + 1]
       ELSE /\ exec' = Failed(e)
            /\ UNCHANGED runs
  /\ UNCHANGED <<clock, wf, item, sched, edit, edited, budget>>

SemHolders == {e \in Executors : exec[e].pc \in {"start", "graph", "finish"}}

\* runSem <- struct{}{}
AcquireSem(e) ==
  /\ exec[e].pc = "sem"
  /\ Cardinality(SemHolders) < SemCap
  /\ exec' = [exec EXCEPT ![e].pc = "start"]
  /\ UNCHANGED <<clock, db, sched, edit, edited, budget>>

\* <-ctx.Done(): the run row stays pending.
GiveUpSem(e) ==
  /\ exec[e].pc = "sem"
  /\ exec[e].expired
  /\ exec' = Failed(e)
  /\ UNCHANGED <<clock, db, sched, edit, edited, budget>>

\* Runs.Update of the row of e: it fails on a dead context or a missing row.
Writable(e) == ~exec[e].expired /\ runs[exec[e].run].status # "cascaded"

\* _ = Runs.Update(ctx, run) with status running: an error is ignored.
StartRun(e) ==
  /\ exec[e].pc = "start"
  /\ runs' = IF Writable(e) THEN [runs EXCEPT ![exec[e].run].status = "running"] ELSE runs
  /\ exec' = [exec EXCEPT ![e].pc = "graph"]
  /\ UNCHANGED <<clock, wf, item, sched, edit, edited, budget>>

\* engine.RunGraph ends, with or without an error of the graph.
RunGraph(e) ==
  /\ exec[e].pc = "graph"
  /\ \E ok \in BOOLEAN : exec' = [exec EXCEPT ![e].pc = "finish", ![e].ok = ok]
  /\ UNCHANGED <<clock, db, sched, edit, edited, budget>>

\* Mutant: a graph that failed is returned before the final Runs.Update.
MutFinishRun(e) ==
  /\ exec[e].pc = "finish"
  /\ IF Writable(e) /\ exec[e].ok
       THEN /\ runs' = [runs EXCEPT ![exec[e].run].status = "success"]
            /\ exec' = Returned(e)
       ELSE /\ exec' = Failed(e)
            /\ UNCHANGED runs
  /\ UNCHANGED <<clock, wf, item, sched, edit, edited, budget>>

\* The final Runs.Update, and the deferred release of the semaphore.
FinishRun(e) ==
  /\ exec[e].pc = "finish"
  /\ IF Writable(e)
       THEN /\ runs' = [runs EXCEPT ![exec[e].run].status = IF exec[e].ok THEN "success" ELSE "failed"]
            /\ exec' = Returned(e)
       ELSE /\ exec' = Failed(e)
            /\ UNCHANGED runs
  /\ UNCHANGED <<clock, wf, item, sched, edit, edited, budget>>

\* Mutant: a worker too writes the current time instead of the planned tick.
MutUpdateLastFired(e) ==
  /\ e \notin Callers /\ exec[e].pc = "fired" /\ ~exec[e].expired
  /\ wf' = [wf EXCEPT ![exec[e].wf].fired = clock]
  /\ exec' = IF e \in Workers THEN [exec EXCEPT ![e].pc = "markDone"] ELSE [exec EXCEPT ![e] = Idle]
  /\ UNCHANGED <<clock, item, runs, sched, edit, edited, budget>>

\* UpdateScheduleLastFired: the planned tick for a worker, the current time
\* for the direct scheduler.  No row is no error.
UpdateLastFired(e) ==
  LET f == exec[e].wf
      t == IF e \in Workers THEN exec[e].tick ELSE clock
  IN
  /\ e \notin Callers
  /\ exec[e].pc = "fired"
  /\ IF exec[e].expired
       THEN /\ exec' = Failed(e)
            /\ UNCHANGED wf
       ELSE /\ wf' = IF wf[f].state = "live" THEN [wf EXCEPT ![f].fired = t] ELSE wf
            /\ exec' = IF e \in Workers THEN [exec EXCEPT ![e].pc = "markDone"]
                                        ELSE [exec EXCEPT ![e] = Idle]
  /\ UNCHANGED <<clock, item, runs, sched, edit, edited, budget>>

\* The ten-minute timeout of a worker, or the client of an HTTP request
\* going away: from now on every call with this context fails.
Expire(e) ==
  /\ e # Scheduler
  /\ exec[e].pc \in {"get", "create", "sem", "start", "graph", "finish", "fired"}
  /\ ~exec[e].expired
  /\ budget.expiries > 0
  /\ budget' = [budget EXCEPT !.expiries = @ - 1]
  /\ exec' = [exec EXCEPT ![e].expired = TRUE]
  /\ UNCHANGED <<clock, db, sched, edit, edited>>

\* The process ends, by a crash or after a shutdown signal, and is started
\* again: goroutines, contexts and the semaphore are gone, the tables stay.
Restart ==
  /\ budget.faults > 0
  /\ budget' = [budget EXCEPT !.faults = @ - 1]
  /\ exec' = [e \in Executors |-> Idle]
  /\ sched' = IdleSched
  /\ edit' = [u \in Editors |-> IdleEdit]
  /\ UNCHANGED <<clock, db, edited>>

-----------------------------------------------------------------------------

ExecuteStep(e) ==
  \/ GetRow(e) \/ CreateRun(e) \/ AcquireSem(e) \/ GiveUpSem(e) \/ StartRun(e)
  \/ RunGraph(e) \/ FinishRun(e) \/ UpdateLastFired(e)

WorkerStep(w) == ClaimNext(w) \/ ExecuteStep(w) \/ Mark(w)

SchedulerStep ==
  \/ SchedList \/ SchedNow
  \/ \E s \in sched.todo : SchedSkip(s) \/ SchedEnqueue(s) \/ SchedRunDirect(s)
  \/ ExecuteStep(Scheduler)

Environment ==
  \/ AdvanceClock
  \/ \E f \in Workflows : DeleteWorkflow(f)
  \/ \E f \in Workflows, c \in Schedules : CreateWorkflow(f, c)
  \/ \E u \in Editors, f \in Workflows, c \in Schedules : EditRead(u, f, c)
  \/ \E c \in Callers, f \in Workflows : RunByHand(c, f)
  \/ \E w \in Workers : MarkLost(w)
  \/ \E e \in Executors : Expire(e)
  \/ Restart

Next ==
  \/ \E w \in Workers : WorkerStep(w)
  \/ \E c \in Callers : ExecuteStep(c)
  \/ \E u \in Editors : EditWrite(u)
  \/ SchedulerStep
  \/ Environment

Spec == Init /\ [][Next]_vars

\* Every goroutine that can run is eventually scheduled by the Go runtime,
\* and both loops poll with a ticker.
Fairness ==
  /\ \A w \in Workers : WF_vars(WorkerStep(w))
  /\ \A c \in Callers : WF_vars(ExecuteStep(c))
  /\ \A u \in Editors : WF_vars(EditWrite(u))
  /\ WF_vars(SchedulerStep)

FairSpec == Spec /\ Fairness

-----------------------------------------------------------------------------
(* Properties.                                                             *)

\* The tables and the goroutines keep their types.
TypeOK ==
  /\ clock \in 0..MaxTime
  /\ wf \in [Workflows -> WfRow]
  /\ item \in [Keys -> ItemRow]
  /\ runs \in Seq(RunRow)
  /\ exec \in [Executors -> ExecState]
  /\ sched \in SchedState
  /\ edit \in [Editors -> EditState]
  /\ edited \subseteq Workflows
  /\ budget \in [edits : Nat, faults : Nat, expiries : Nat]

Holds(w, k) == exec[w].pc # "idle" /\ <<exec[w].wf, exec[w].tick>> = k

\* A queue row is executed by at most one worker, and only while it is
\* 'running': ClaimNext never hands out a row twice, whatever the scheduler
\* enqueues again from a stale list, whoever times out and however often the
\* process restarts.
ClaimExclusive ==
  \A k \in Keys : \A w \in Workers :
    Holds(w, k) => /\ item[k].status = "running"
                   /\ \A v \in Workers : Holds(v, k) => v = w

\* A planned tick is dispatched at most once in its life (the side effects of
\* a graph, mails or posts, are never repeated by the queue).
AtMostOnce == \A k \in Keys : item[k].attempts <= 1

\* The goroutine has an execution of its row behind which
\* schedule_last_fired_at has not moved yet.
Firing(w) == exec[w].pc \in {"get", "create", "sem", "start", "graph", "finish", "fired"}

\* As long as nobody edits the schedule of a workflow, its planned executions
\* never overlap: with several workers the next tick is not dispatched before
\* the previous one has moved schedule_last_fired_at.
SerialPerWorkflow ==
  \A v, w \in Workers :
    Firing(v) /\ Firing(w) /\ exec[v].wf = exec[w].wf /\ exec[v].wf \notin edited => v = w

\* Catching up after downtime skips nothing: every tick between the creation
\* of an unedited workflow and its schedule_last_fired_at was executed.
NoTickSkipped ==
  QueueEnabled => \A f \in Workflows \ edited :
    wf[f].fired # Never =>
      \A t \in Ticks :
        t \in CronTicks[wf[f].cron] /\ wf[f].created < t /\ t <= wf[f].fired
          => item[<<f, t>>].status \in {"running", "done"}

NoFaultYet == budget.faults = MaxFaults /\ budget.expiries = MaxExpiries

\* A run row that is not finished has a goroutine working on it, as long as
\* no context expired and the process never went down.
NoOrphanRun ==
  NoFaultYet =>
    \A i \in DOMAIN runs :
      runs[i].status \in {"pending", "running"} => \E e \in Executors : exec[e].pc # "idle" /\ exec[e].run = i

\* schedule_last_fired_at of an unedited workflow never moves back.
FiredForward == [][\A f \in Workflows \ edited' : wf'[f].fired >= wf[f].fired]_vars

\* schedule_last_fired_at of an unedited workflow only moves past a tick of
\* its cron: a tick never fires early, and the direct scheduler, which writes
\* the current time, does not run again for a tick that is already behind.
FiredOnTick ==
  [][\A f \in Workflows \ edited' :
       wf'[f].fired # wf[f].fired =>
         \E t \in CronTicks[wf[f].cron] : Anchor(wf[f]) < t /\ t <= wf'[f].fired]_vars

\* Whatever is queued is executed and marked, unless a write is lost, a context
\* expires or the process goes down.
QueuedSettles ==
  \A k \in Keys : item[k].status = "queued" ~> item[k].status \in {"done", "error"} \/ ~NoFaultYet

\* Every tick of a live, unedited workflow fires, unless an execution fails for
\* one of those reasons.
DueTickFires ==
  \A f \in Workflows, t \in Ticks, c \in Crons :
    /\ wf[f].state = "live" /\ wf[f].cron = c
    /\ t \in CronTicks[c] /\ wf[f].created < t /\ t <= clock
    ~> wf[f].fired >= t \/ wf[f].state # "live" \/ f \in edited \/ ~NoFaultYet

-----------------------------------------------------------------------------
(* The queue and its workers implement CronContract, which lets go of a    *)
(* workflow once its schedule is edited.                                   *)

UpcomingKeys(f) ==
  {k \in Keys : k[1] = f /\ wf[f].cron # NoCron /\ IsNextTick(wf[f].cron, Anchor(wf[f]), k[2])}

PhaseOf(f) ==
  IF \A k \in UpcomingKeys(f) : item[k].status = "none" THEN "waiting"
  ELSE IF \E k \in UpcomingKeys(f) : item[k].status = "queued" THEN "dispatched"
  ELSE IF \E k \in UpcomingKeys(f), w \in Workers : item[k].status = "running" /\ Holds(w, k)
         THEN "started" ELSE "stalled"

\* What CronContract sees of a workflow.
planOf == [f \in Workflows |->
  IF wf[f].state = "live" /\ f \notin edited
    THEN [phase |-> PhaseOf(f), cron |-> wf[f].cron, created |-> wf[f].created, fired |-> wf[f].fired]
    ELSE [phase |-> IF wf[f].state = "new" THEN "off" ELSE "gone",
          cron |-> NoCron, created |-> 0, fired |-> Never]]

Contract == INSTANCE CronContract WITH plan <- planOf

\* Ticks of an unedited workflow are dispatched and executed in cron order,
\* one at a time, each at most once, and a failed or lost execution stalls
\* the schedule for good (CronContract).
ImplementsContract == Contract!Spec

=============================================================================
