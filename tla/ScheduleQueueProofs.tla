------------------------- MODULE ScheduleQueueProofs -------------------------
(***************************************************************************)
(* Safety of the scheduled workflows for every number of workflows,        *)
(* workers, callers and editors and every cron expression.                 *)
(***************************************************************************)
EXTENDS ScheduleQueue, SequenceTheorems, TLAPS

-----------------------------------------------------------------------------
(* Lemmas on the operators of the model.                                   *)

\* Overwriting a run row, or all of them, leaves a table of run rows.
LEMMA FunctionIsSeq ==
  ASSUME NEW S, NEW n \in Nat, NEW g \in [1..n -> S]
  PROVE  g \in Seq(S)
  OBVIOUS

\* A cron expression has at most one next tick after an anchor.
LEMMA NextTickUnique ==
  ASSUME NEW c \in Crons, NEW a \in Int, NEW t, NEW u,
         IsNextTick(c, a, t), IsNextTick(c, a, u)
  PROVE  t = u
  <1>1. t \in Nat /\ u \in Nat
    BY ConstantsAssumption DEF IsNextTick
  <1>2. t <= u /\ u <= t
    BY DEF IsNextTick
  <1>3. QED
    BY <1>1, <1>2

\* Moving the anchor forward, short of the next tick, keeps the next tick.
LEMMA NextTickStable ==
  ASSUME NEW c \in Crons, NEW a \in Int, NEW b \in Int, a <= b, NEW t,
         IsNextTick(c, a, t), t > b
  PROVE  IsNextTick(c, b, t)
  BY ConstantsAssumption DEF IsNextTick

-----------------------------------------------------------------------------
(* Rows and records under the updates of the actions.                      *)

BusyPc    == {"get", "create", "sem", "start", "graph", "finish", "fired", "markDone", "markError"}
Busy      == [pc : BusyPc, wf : Workflows, tick : Nat, run : Nat, ok : BOOLEAN, expired : BOOLEAN]
RunStatus == {"pending", "running", "success", "failed", "cascaded"}
Budget    == [edits : Nat, faults : Nat, expiries : Nat]

LEMMA SeqIsFunction == ASSUME NEW S, NEW R \in Seq(S) PROVE R \in [1..Len(R) -> S] /\ Len(R) \in Nat
  OBVIOUS

LEMMA RunRowTyped ==
  ASSUME NEW r \in RunRow, NEW st \in RunStatus PROVE [r EXCEPT !.status = st] \in RunRow
  BY DEF RunRow, RunStatus

\* Writing the status of a row, whether or not it exists.
LEMMA RunUpdateTyped ==
  ASSUME NEW R \in Seq(RunRow), NEW i, NEW st \in RunStatus
  PROVE  [R EXCEPT ![i].status = st] \in Seq(RunRow)
  <1>1. \A j \in 1..Len(R) : [R[j] EXCEPT !.status = st] \in RunRow
    BY SeqIsFunction, RunRowTyped
  <1>2. [R EXCEPT ![i].status = st] \in [1..Len(R) -> RunRow]
    BY <1>1, SeqIsFunction
  <1> QED
    BY <1>2, SeqIsFunction, FunctionIsSeq

\* The cascade of a deletion.
LEMMA CascadeTyped ==
  ASSUME NEW R \in Seq(RunRow), NEW f
  PROVE  [i \in DOMAIN R |-> IF R[i].wf = f THEN [R[i] EXCEPT !.status = "cascaded"] ELSE R[i]]
           \in Seq(RunRow)
  <1> DEFINE C == [i \in DOMAIN R |-> IF R[i].wf = f THEN [R[i] EXCEPT !.status = "cascaded"] ELSE R[i]]
  <1>1. \A j \in 1..Len(R) : [R[j] EXCEPT !.status = "cascaded"] \in RunRow
    BY SeqIsFunction, RunRowTyped DEF RunStatus
  <1>2. C \in [1..Len(R) -> RunRow]
    BY <1>1, SeqIsFunction
  <1> QED
    BY <1>2, SeqIsFunction, FunctionIsSeq

LEMMA BudgetTyped ==
  ASSUME NEW b \in Budget
  PROVE  /\ b.edits > 0 => [b EXCEPT !.edits = @ - 1] \in Budget
         /\ b.faults > 0 => [b EXCEPT !.faults = @ - 1] \in Budget
         /\ b.expiries > 0 => [b EXCEPT !.expiries = @ - 1] \in Budget
  BY DEF Budget

LEMMA WfRowTyped ==
  ASSUME NEW r \in WfRow
  PROVE  /\ \A t \in Nat : [r EXCEPT !.fired = t] \in WfRow
         /\ \A c \in Schedules : [r EXCEPT !.cron = c] \in WfRow
         /\ [r EXCEPT !.state = "deleted"] \in WfRow
         /\ r.created \in Nat /\ r.fired \in Nat \cup {Never} /\ r.cron \in Schedules
         /\ Anchor(r) \in Nat
  BY DEF WfRow, Anchor, Never

LEMMA KeyTyped == ASSUME NEW k \in Keys PROVE k[1] \in Workflows /\ k[2] \in Nat /\ k[2] \in Ticks
  BY ConstantsAssumption DEF Keys, Ticks

LEMMA FiredTyped ==
  ASSUME TypeOK, NEW f \in Workflows PROVE wf[f] \in WfRow /\ wf[f].fired \in Int
  <1>1. wf[f] \in WfRow
    BY DEF TypeOK
  <1>2. wf[f].fired \in Nat \cup {Never}
    BY <1>1 DEF WfRow
  <1> QED
    BY <1>1, <1>2 DEF Never

LEMMA ClockTyped == ASSUME TypeOK PROVE clock \in Nat
  BY ConstantsAssumption DEF TypeOK

LEMMA BusyIsTyped ==
  ASSUME NEW x \in ExecState
  PROVE  /\ x.pc # "idle" => x \in Busy
         /\ x.pc \in BusyPc \cup {"idle"}
  BY DEF ExecState, Idle, Busy, BusyPc

LEMMA BusyMoves ==
  ASSUME NEW x \in Busy, NEW p \in BusyPc
  PROVE  /\ [x EXCEPT !.pc = p] \in ExecState
         /\ \A i \in Nat : [x EXCEPT !.pc = p, !.run = i] \in ExecState
         /\ \A b \in BOOLEAN : [x EXCEPT !.pc = p, !.ok = b] \in ExecState
         /\ [x EXCEPT !.expired = TRUE] \in ExecState
  BY DEF Busy, BusyPc, ExecState

LEMMA BeginTyped ==
  ASSUME NEW f \in Workflows, NEW t \in Nat
  PROVE  /\ [Idle EXCEPT !.pc = "get", !.wf = f, !.tick = t] \in ExecState
         /\ [Idle EXCEPT !.pc = "get", !.wf = f] \in ExecState
  BY DEF Idle, ExecState

\* Moving one goroutine keeps the others typed.
LEMMA ExecUpdate ==
  ASSUME TypeOK, NEW e \in Executors, exec[e].pc # "idle"
  PROVE  /\ exec[e] \in Busy
         /\ exec[e].wf \in Workflows /\ exec[e].tick \in Nat /\ exec[e].run \in Nat
         /\ \A p \in BusyPc : [exec EXCEPT ![e].pc = p] \in [Executors -> ExecState]
         /\ \A p \in BusyPc, i \in Nat :
              [exec EXCEPT ![e].pc = p, ![e].run = i] \in [Executors -> ExecState]
         /\ \A p \in BusyPc, b \in BOOLEAN :
              [exec EXCEPT ![e].pc = p, ![e].ok = b] \in [Executors -> ExecState]
         /\ [exec EXCEPT ![e].expired = TRUE] \in [Executors -> ExecState]
         /\ [exec EXCEPT ![e] = Idle] \in [Executors -> ExecState]
         /\ Failed(e) \in [Executors -> ExecState]
         /\ Returned(e) \in [Executors -> ExecState]
  <1> DEFINE E == [Executors -> ExecState]
  <1>1. exec \in E
    BY DEF TypeOK
  <1>2. exec[e] \in Busy
    BY <1>1, BusyIsTyped
  <1>3. exec[e].wf \in Workflows /\ exec[e].tick \in Nat /\ exec[e].run \in Nat
    BY <1>2 DEF Busy
  <1>4. \A p \in BusyPc : [exec EXCEPT ![e].pc = p] \in E
    BY <1>1, <1>2, BusyMoves
  <1>5. \A p \in BusyPc, i \in Nat : [exec EXCEPT ![e].pc = p, ![e].run = i] \in E
    BY <1>1, <1>2, BusyMoves
  <1>6. \A p \in BusyPc, b \in BOOLEAN : [exec EXCEPT ![e].pc = p, ![e].ok = b] \in E
    BY <1>1, <1>2, BusyMoves
  <1>7. [exec EXCEPT ![e].expired = TRUE] \in E
    <2>1. [exec[e] EXCEPT !.expired = TRUE] \in ExecState
      BY <1>2, BusyMoves DEF BusyPc
    <2> QED
      BY <1>1, <2>1
  <1>8. [exec EXCEPT ![e] = Idle] \in E
    BY <1>1 DEF ExecState
  <1>9. Failed(e) \in E /\ Returned(e) \in E
    BY <1>4, <1>8 DEF Failed, Returned, BusyPc
  <1> QED
    BY <1>2, <1>3, <1>4, <1>5, <1>6, <1>7, <1>8, <1>9

-----------------------------------------------------------------------------
(* Type correctness.                                                       *)

LEMMA InitTyped == Init => TypeOK
  <1> SUFFICES ASSUME Init PROVE TypeOK
    OBVIOUS
  <1>1. clock \in 0..MaxTime /\ edited \subseteq Workflows
    BY ConstantsAssumption DEF Init
  <1>2. wf \in [Workflows -> WfRow] /\ item \in [Keys -> ItemRow]
    BY DEF Init, WfRow, ItemRow, NoItem, Schedules, Never
  <1>3. runs \in Seq(RunRow)
    BY DEF Init
  <1>4. exec \in [Executors -> ExecState] /\ edit \in [Editors -> EditState]
    BY DEF Init, ExecState, EditState
  <1>5. sched \in SchedState
    BY DEF Init, SchedState, IdleSched
  <1>6. budget \in [edits : Nat, faults : Nat, expiries : Nat]
    BY ConstantsAssumption DEF Init
  <1> QED
    BY <1>1, <1>2, <1>3, <1>4, <1>5, <1>6 DEF TypeOK

\* The HTTP handlers and the clock.
LEMMA HandlersTyped ==
  ASSUME TypeOK
  PROVE  /\ AdvanceClock => TypeOK'
         /\ \A f \in Workflows, c \in Schedules : CreateWorkflow(f, c) => TypeOK'
         /\ \A f \in Workflows : DeleteWorkflow(f) => TypeOK'
         /\ \A u \in Editors, f \in Workflows, c \in Schedules : EditRead(u, f, c) => TypeOK'
         /\ \A u \in Editors : EditWrite(u) => TypeOK'
         /\ \A c \in Callers, f \in Workflows : RunByHand(c, f) => TypeOK'
  <1>0. budget \in Budget
    BY DEF TypeOK, Budget
  <1>1. ASSUME AdvanceClock PROVE TypeOK'
    <2>1. clock' \in 0..MaxTime
      BY <1>1, ConstantsAssumption DEF AdvanceClock, TypeOK
    <2> QED
      BY <1>1, <2>1 DEF AdvanceClock, TypeOK, db
  <1>2. ASSUME NEW f \in Workflows, NEW c \in Schedules, CreateWorkflow(f, c) PROVE TypeOK'
    <2>1. [state |-> "live", cron |-> c, created |-> clock, fired |-> Never] \in WfRow
      BY ClockTyped DEF WfRow
    <2>2. wf' \in [Workflows -> WfRow]
      BY <1>2, <2>1 DEF CreateWorkflow, TypeOK
    <2> QED
      BY <1>2, <2>2 DEF CreateWorkflow, TypeOK
  <1>3. ASSUME NEW f \in Workflows, DeleteWorkflow(f) PROVE TypeOK'
    <2>1. [wf[f] EXCEPT !.state = "deleted"] \in WfRow
      BY WfRowTyped DEF TypeOK
    <2>2. wf' \in [Workflows -> WfRow]
      BY <1>3, <2>1 DEF DeleteWorkflow, TypeOK
    <2>3. runs' \in Seq(RunRow)
      BY <1>3, CascadeTyped DEF DeleteWorkflow, TypeOK
    <2>4. budget' \in Budget
      BY <1>0, <1>3, BudgetTyped DEF DeleteWorkflow
    <2> QED
      BY <1>3, <2>2, <2>3, <2>4 DEF DeleteWorkflow, TypeOK, Budget
  <1>4. ASSUME NEW u \in Editors, NEW f \in Workflows, NEW c \in Schedules, EditRead(u, f, c)
        PROVE  TypeOK'
    <2>1. edit' \in [Editors -> EditState]
      BY <1>4 DEF EditRead, EditState, TypeOK
    <2>2. budget' \in Budget
      BY <1>0, <1>4, BudgetTyped DEF EditRead
    <2> QED
      BY <1>4, <2>1, <2>2 DEF EditRead, TypeOK, Budget, db
  <1>5. ASSUME NEW u \in Editors, EditWrite(u) PROVE TypeOK'
    <2>1. edit[u].wf \in Workflows /\ edit[u].cron \in Schedules
      BY <1>5 DEF EditWrite, EditState, IdleEdit, TypeOK
    <2>2. edit' \in [Editors -> EditState]
      BY <1>5 DEF EditWrite, EditState, TypeOK
    <2>3. [wf[edit[u].wf] EXCEPT !.cron = edit[u].cron] \in WfRow
      BY <2>1, WfRowTyped DEF TypeOK
    <2>4. wf' \in [Workflows -> WfRow]
      BY <1>5, <2>3 DEF EditWrite, TypeOK
    <2>5. edited' \subseteq Workflows
      BY <1>5, <2>1 DEF EditWrite, TypeOK
    <2> QED
      BY <1>5, <2>2, <2>4, <2>5 DEF EditWrite, TypeOK
  <1>6. ASSUME NEW c \in Callers, NEW f \in Workflows, RunByHand(c, f) PROVE TypeOK'
    <2>1. exec' \in [Executors -> ExecState]
      BY <1>6, BeginTyped DEF RunByHand, TypeOK
    <2> QED
      BY <1>6, <2>1 DEF RunByHand, TypeOK, db
  <1> QED
    BY <1>1, <1>2, <1>3, <1>4, <1>5, <1>6

\* The scheduler loop.
LEMMA SchedulerTyped ==
  ASSUME TypeOK
  PROVE  /\ SchedList \/ SchedNow => TypeOK'
         /\ \A s \in sched.todo : SchedSkip(s) \/ SchedEnqueue(s) \/ SchedRunDirect(s) => TypeOK'
  <1>0. sched.todo \subseteq Snapshot /\ sched.pc \in {"idle", "listed", "loop"} /\ sched.now \in Nat
        /\ sched \in SchedState /\ IdleSched \in SchedState
    BY DEF TypeOK, SchedState, IdleSched
  <1>1. ASSUME SchedList PROVE TypeOK'
    <2>1. \A f \in Schedulable : SnapshotOf(f) \in Snapshot
      BY WfRowTyped DEF Schedulable, SnapshotOf, Snapshot, Schedules, TypeOK
    <2>2. sched' \in SchedState
      BY <1>1, <2>1 DEF SchedList, SchedState
    <2> QED
      BY <1>1, <2>2 DEF SchedList, TypeOK, db
  <1>2. ASSUME SchedNow PROVE TypeOK'
    <2>1. [sched EXCEPT !.pc = "loop", !.now = clock] \in SchedState
      BY <1>0, ClockTyped DEF SchedState
    <2>2. sched' \in SchedState
      BY <1>0, <1>2, <2>1 DEF SchedNow
    <2> QED
      BY <1>2, <2>2 DEF SchedNow, TypeOK, db
  <1>3. ASSUME NEW s \in sched.todo, Handled(s) PROVE sched' \in SchedState
    <2>1. [sched EXCEPT !.todo = @ \ {s}] \in SchedState
      BY <1>0 DEF SchedState
    <2> QED
      BY <1>0, <1>3, <2>1 DEF Handled
  <1>4. ASSUME NEW s \in sched.todo, SchedSkip(s) PROVE TypeOK'
    BY <1>3, <1>4 DEF SchedSkip, TypeOK, db
  <1>5. ASSUME NEW s \in sched.todo, SchedEnqueue(s) PROVE TypeOK'
    <2>1. [status |-> "queued", attempts |-> 0, locked |-> Never] \in ItemRow
      BY DEF ItemRow
    <2>2. item' \in [Keys -> ItemRow]
      BY <1>5, <2>1 DEF SchedEnqueue, Enqueue, TypeOK
    <2> QED
      BY <1>3, <1>5, <2>2 DEF SchedEnqueue, TypeOK
  <1>6. ASSUME NEW s \in sched.todo, SchedRunDirect(s) PROVE TypeOK'
    <2>1. s.wf \in Workflows
      BY <1>0 DEF Snapshot
    <2>2. exec' \in [Executors -> ExecState]
      BY <1>6, <2>1, BeginTyped DEF SchedRunDirect, TypeOK
    <2> QED
      BY <1>3, <1>6, <2>2 DEF SchedRunDirect, TypeOK, db
  <1> QED
    BY <1>1, <1>2, <1>4, <1>5, <1>6

\* The queue operations of a worker.
LEMMA WorkerTyped ==
  ASSUME TypeOK, NEW w \in Workers
  PROVE  /\ ClaimNext(w) => TypeOK'
         /\ Mark(w) => TypeOK'
         /\ MarkLost(w) => TypeOK'
  <1>0. w \in Executors /\ budget \in Budget
    BY DEF Executors, TypeOK, Budget
  <1>1. ASSUME ClaimNext(w) PROVE TypeOK'
    <2>1. PICK k \in Keys :
            /\ item' = [item EXCEPT ![k] = [status |-> "running", attempts |-> item[k].attempts + 1,
                                            locked |-> clock + LockTTL]]
            /\ exec' = [exec EXCEPT ![w] = [Idle EXCEPT !.pc = "get", !.wf = k[1], !.tick = k[2]]]
      BY <1>1 DEF ClaimNext
    <2>2. item[k].attempts + 1 \in Nat /\ clock + LockTTL \in Nat
      BY ClockTyped, ConstantsAssumption DEF TypeOK, ItemRow
    <2>3. [status |-> "running", attempts |-> item[k].attempts + 1, locked |-> clock + LockTTL] \in ItemRow
      BY <2>2 DEF ItemRow
    <2>4. item' \in [Keys -> ItemRow]
      BY <2>1, <2>3 DEF TypeOK
    <2>5. exec' \in [Executors -> ExecState]
      BY <2>1, KeyTyped, BeginTyped DEF TypeOK
    <2> QED
      BY <1>1, <2>4, <2>5 DEF ClaimNext, TypeOK
  <1>2. ASSUME Mark(w) PROVE TypeOK'
    <2> DEFINE k  == <<exec[w].wf, exec[w].tick>>
               st == IF exec[w].pc = "markDone" THEN "done" ELSE "error"
    <2>1. item' = [item EXCEPT ![k].status = st, ![k].locked = Never]
      BY <1>2 DEF Mark
    <2>2. \A r \in ItemRow : [r EXCEPT !.status = st, !.locked = Never] \in ItemRow
      BY DEF ItemRow
    <2> HIDE DEF k, st
    <2>3. item' \in [Keys -> ItemRow]
      BY <2>1, <2>2 DEF TypeOK
    <2>4. exec' \in [Executors -> ExecState]
      BY <1>0, <1>2, ExecUpdate DEF Mark
    <2> QED
      BY <1>2, <2>3, <2>4 DEF Mark, TypeOK
  <1>3. ASSUME MarkLost(w) PROVE TypeOK'
    <2>1. exec' \in [Executors -> ExecState]
      BY <1>0, <1>3, ExecUpdate DEF MarkLost
    <2>2. budget' \in Budget
      BY <1>0, <1>3, BudgetTyped DEF MarkLost
    <2> QED
      BY <1>3, <2>1, <2>2 DEF MarkLost, TypeOK, Budget, db
  <1> QED
    BY <1>1, <1>2, <1>3

\* RunWorkflow.Execute and what follows it.
LEMMA ExecuteTyped ==
  ASSUME TypeOK, NEW e \in Executors, ExecuteStep(e) PROVE TypeOK'
  <1>0. exec[e].pc # "idle"
    BY DEF ExecuteStep, GetRow, CreateRun, AcquireSem, GiveUpSem, StartRun, RunGraph, FinishRun,
           UpdateLastFired
  <1>a. /\ exec[e].wf \in Workflows /\ exec[e].tick \in Nat
        /\ Failed(e) \in [Executors -> ExecState] /\ Returned(e) \in [Executors -> ExecState]
        /\ [exec EXCEPT ![e] = Idle] \in [Executors -> ExecState]
    BY <1>0, ExecUpdate
  <1>b. \A p \in BusyPc : [exec EXCEPT ![e].pc = p] \in [Executors -> ExecState]
    BY <1>0, ExecUpdate
  <1>1. CASE GetRow(e)
    <2>1. exec' \in [Executors -> ExecState]
      BY <1>0, <1>1, ExecUpdate DEF GetRow, BusyPc
    <2> QED
      BY <1>1, <2>1 DEF GetRow, TypeOK, db
  <1>2. CASE CreateRun(e)
    <2>1. [wf |-> exec[e].wf, status |-> "pending"] \in RunRow
      BY <1>0, ExecUpdate DEF RunRow
    <2>2. Append(runs, [wf |-> exec[e].wf, status |-> "pending"]) \in Seq(RunRow) /\ Len(runs) + 1 \in Nat
      BY <2>1 DEF TypeOK
    <2>r. [exec EXCEPT ![e].pc = "sem", ![e].run = Len(runs) + 1] \in [Executors -> ExecState]
      BY <1>0, <2>2, ExecUpdate DEF BusyPc
    <2>3. exec' \in [Executors -> ExecState]
      BY <1>2, <1>a, <2>r DEF CreateRun
    <2>4. runs' \in Seq(RunRow)
      BY <1>2, <2>2 DEF CreateRun, TypeOK
    <2> QED
      BY <1>2, <2>3, <2>4 DEF CreateRun, TypeOK
  <1>3. CASE AcquireSem(e) \/ GiveUpSem(e)
    <2>1. exec' \in [Executors -> ExecState]
      BY <1>3, <1>a, <1>b DEF AcquireSem, GiveUpSem, BusyPc
    <2> QED
      BY <1>3, <2>1 DEF AcquireSem, GiveUpSem, TypeOK, db
  <1>4. CASE StartRun(e)
    <2>1. exec' \in [Executors -> ExecState]
      BY <1>0, <1>4, ExecUpdate DEF StartRun, BusyPc
    <2>2. runs' \in Seq(RunRow)
      BY <1>4, RunUpdateTyped DEF StartRun, TypeOK, RunStatus
    <2> QED
      BY <1>4, <2>1, <2>2 DEF StartRun, TypeOK
  <1>5. CASE RunGraph(e)
    <2>r. \A ok \in BOOLEAN : [exec EXCEPT ![e].pc = "finish", ![e].ok = ok] \in [Executors -> ExecState]
      BY <1>0, ExecUpdate DEF BusyPc
    <2>1. exec' \in [Executors -> ExecState]
      BY <1>5, <2>r DEF RunGraph
    <2> QED
      BY <1>5, <2>1 DEF RunGraph, TypeOK, db
  <1>6. CASE FinishRun(e)
    <2>1. exec' \in [Executors -> ExecState]
      BY <1>6, <1>a DEF FinishRun
    <2>s. \A st \in {"success", "failed"} : [runs EXCEPT ![exec[e].run].status = st] \in Seq(RunRow)
      BY RunUpdateTyped DEF TypeOK, RunStatus
    <2>2. runs' \in Seq(RunRow)
      BY <1>6, <2>s DEF FinishRun, TypeOK
    <2> QED
      BY <1>6, <2>1, <2>2 DEF FinishRun, TypeOK
  <1>7. CASE UpdateLastFired(e)
    <2> DEFINE f == exec[e].wf
               t == IF e \in Workers THEN exec[e].tick ELSE clock
    <2>1. exec' \in [Executors -> ExecState]
      BY <1>7, <1>a, <1>b DEF UpdateLastFired, BusyPc
    <2>2. f \in Workflows /\ t \in Nat
      BY <1>a, ClockTyped
    <2>3. wf' = wf \/ wf' = [wf EXCEPT ![f].fired = t]
      BY <1>7 DEF UpdateLastFired
    <2>4. [wf[f] EXCEPT !.fired = t] \in WfRow
      BY <2>2, WfRowTyped DEF TypeOK
    <2> HIDE DEF f, t
    <2>5. wf' \in [Workflows -> WfRow]
      BY <2>3, <2>4 DEF TypeOK
    <2> QED
      BY <1>7, <2>1, <2>5 DEF UpdateLastFired, TypeOK
  <1> QED
    BY <1>1, <1>2, <1>3, <1>4, <1>5, <1>6, <1>7 DEF ExecuteStep

\* Failures: an expired context, a restart of the process.
LEMMA FaultsTyped ==
  ASSUME TypeOK
  PROVE  /\ \A e \in Executors : Expire(e) => TypeOK'
         /\ Restart => TypeOK'
  <1>0. budget \in Budget
    BY DEF TypeOK, Budget
  <1>1. ASSUME NEW e \in Executors, Expire(e) PROVE TypeOK'
    <2>1. exec[e].pc # "idle"
      BY <1>1 DEF Expire
    <2>2. exec' \in [Executors -> ExecState]
      BY <1>1, <2>1, ExecUpdate DEF Expire
    <2>3. budget' \in Budget
      BY <1>0, <1>1, BudgetTyped DEF Expire
    <2> QED
      BY <1>1, <2>2, <2>3 DEF Expire, TypeOK, Budget, db
  <1>2. ASSUME Restart PROVE TypeOK'
    <2>1. budget' \in Budget
      BY <1>0, <1>2, BudgetTyped DEF Restart
    <2>2. /\ exec' \in [Executors -> ExecState]
          /\ sched' \in SchedState
          /\ edit' \in [Editors -> EditState]
      BY <1>2 DEF Restart, ExecState, SchedState, IdleSched, EditState
    <2> QED
      BY <1>2, <2>1, <2>2 DEF Restart, TypeOK, Budget, db
  <1> QED
    BY <1>1, <1>2

LEMMA NextTyped == TypeOK /\ [Next]_vars => TypeOK'
  <1> SUFFICES ASSUME TypeOK, [Next]_vars PROVE TypeOK'
    OBVIOUS
  <1>1. CASE UNCHANGED vars
    BY <1>1 DEF vars, TypeOK
  <1>2. CASE \E w \in Workers : WorkerStep(w)
    BY <1>2, WorkerTyped, ExecuteTyped DEF WorkerStep, Executors
  <1>3. CASE \E c \in Callers : ExecuteStep(c)
    BY <1>3, ExecuteTyped DEF Executors
  <1>4. CASE \E u \in Editors : EditWrite(u)
    BY <1>4, HandlersTyped
  <1>5. CASE SchedulerStep
    BY <1>5, SchedulerTyped, ExecuteTyped DEF SchedulerStep, Executors
  <1>6. CASE Environment
    BY <1>6, HandlersTyped, WorkerTyped, FaultsTyped DEF Environment
  <1> QED
    BY <1>1, <1>2, <1>3, <1>4, <1>5, <1>6 DEF Next

\* Every variable keeps its type: a goroutine that is not idle works for an
\* existing workflow, and the table of runs stays one under cascading deletes.
THEOREM TypeCorrect == Spec => []TypeOK
  <1> QED
    BY InitTyped, NextTyped, PTL DEF Spec

-----------------------------------------------------------------------------
(* The inductive invariant.                                                *)

KeyOf(w) == <<exec[w].wf, exec[w].tick>>

\* The row of a worker is running and its own; attempts follows status.
ClaimInv ==
  /\ \A k \in Keys : item[k].attempts = IF item[k].status \in {"none", "queued"} THEN 0 ELSE 1
  /\ \A w \in Workers :
       exec[w].pc # "idle" => KeyOf(w) \in Keys /\ item[KeyOf(w)].status = "running"
  /\ \A v, w \in Workers :
       exec[v].pc # "idle" /\ exec[w].pc # "idle" /\ KeyOf(v) = KeyOf(w) => v = w

\* k is the next tick of its workflow.
IsUpcoming(k) ==
  /\ wf[k[1]].state # "new"
  /\ wf[k[1]].cron \in Crons
  /\ IsNextTick(wf[k[1]].cron, Anchor(wf[k[1]]), k[2])

\* A queued row of an unedited workflow is its next tick.
QueuedInv == \A k \in Keys : item[k].status = "queued" /\ k[1] \notin edited => IsUpcoming(k)

\* So is the row of a worker, until it has moved schedule_last_fired_at.
FiringInv ==
  \A w \in Workers :
    exec[w].pc \notin {"idle", "markDone"} /\ exec[w].wf \notin edited => IsUpcoming(KeyOf(w))

\* What the scheduler has read is old, never wrong.
SnapshotInv ==
  \A s \in sched.todo :
    s.wf \notin edited =>
      /\ wf[s.wf].state # "new"
      /\ s.cron = wf[s.wf].cron
      /\ wf[s.wf].created <= s.anchor /\ s.anchor <= Anchor(wf[s.wf])

\* Everything up to schedule_last_fired_at has been executed.
FiredInv ==
  \A f \in Workflows \ edited :
    wf[f].fired # Never =>
      /\ wf[f].created < wf[f].fired
      /\ \A t \in Ticks :
           t \in CronTicks[wf[f].cron] /\ wf[f].created < t /\ t <= wf[f].fired
             => item[<<f, t>>].status \in {"running", "done"}

\* A workflow that was not created yet never fired.
NewInv == \A f \in Workflows : wf[f].state = "new" => wf[f].fired = Never

ScheduleInv ==
  /\ exec[Scheduler].pc = "idle"
  /\ NewInv
  /\ QueuedInv /\ FiringInv /\ SnapshotInv /\ FiredInv

-----------------------------------------------------------------------------
(* Steps that leave the rows of the workers alone.                         *)

\* A worker keeps its row or drops it; none takes one, and none leaves the
\* state in which only MarkDone remains for another.
Quiet ==
  \A w \in Workers :
    exec'[w].pc # "idle" =>
      /\ exec[w].pc # "idle" /\ exec'[w].wf = exec[w].wf /\ exec'[w].tick = exec[w].tick
      /\ exec'[w].pc # "markDone" => exec[w].pc # "markDone"

LEMMA WorkersApart ==
  /\ Workers \subseteq Executors /\ Callers \subseteq Executors /\ Scheduler \in Executors
  /\ Scheduler \notin Workers /\ Scheduler \notin Callers /\ Workers \cap Callers = {}
  BY ConstantsAssumption DEF Executors

\* One goroutine moves on, gives up or ends; the others stand still.
LEMMA MoveQuiet ==
  ASSUME TypeOK, NEW e \in Executors, exec[e].pc \notin {"idle", "markDone"},
         \/ exec' = Failed(e) \/ exec' = Returned(e) \/ exec' = [exec EXCEPT ![e] = Idle]
         \/ \E p \in BusyPc : exec' = [exec EXCEPT ![e].pc = p]
         \/ \E p \in BusyPc : \E i : exec' = [exec EXCEPT ![e].pc = p, ![e].run = i]
         \/ \E p \in BusyPc : \E b : exec' = [exec EXCEPT ![e].pc = p, ![e].ok = b]
  PROVE  Quiet /\ \A d \in Executors : d # e => exec'[d] = exec[d]
  <1>1. exec \in [Executors -> ExecState] /\ exec[e] \in Busy
    BY BusyIsTyped DEF TypeOK
  <1>2. \A d \in Executors : d # e => exec'[d] = exec[d]
    BY <1>1 DEF Failed, Returned
  <1>3. \/ exec'[e] = Idle
        \/ exec'[e].wf = exec[e].wf /\ exec'[e].tick = exec[e].tick
    BY <1>1 DEF Failed, Returned, Busy
  <1> QED
    BY <1>2, <1>3, WorkersApart DEF Quiet, Idle

LEMMA ExecuteQuiet ==
  ASSUME TypeOK, NEW e \in Executors, ExecuteStep(e)
  PROVE  /\ Quiet /\ item' = item /\ edited' = edited /\ sched' = sched
         /\ exec[e].pc # "idle"
         /\ \A d \in Executors : d # e => exec'[d] = exec[d]
         /\ wf' = wf \/ UpdateLastFired(e)
  <1>1. /\ exec[e].pc \notin {"idle", "markDone"}
        /\ item' = item /\ edited' = edited /\ sched' = sched
        /\ wf' = wf \/ UpdateLastFired(e)
    BY DEF ExecuteStep, GetRow, CreateRun, AcquireSem, GiveUpSem, StartRun, RunGraph, FinishRun,
           UpdateLastFired, db
  <1>2. CASE GetRow(e) \/ AcquireSem(e) \/ GiveUpSem(e) \/ StartRun(e)
    <2>1. exec' = Failed(e) \/ \E p \in BusyPc : exec' = [exec EXCEPT ![e].pc = p]
      BY <1>2 DEF GetRow, AcquireSem, GiveUpSem, StartRun, BusyPc
    <2> QED
      BY <1>1, <2>1, MoveQuiet
  <1>3. CASE CreateRun(e)
    <2>1. exec' = Failed(e) \/ \E p \in BusyPc : \E i : exec' = [exec EXCEPT ![e].pc = p, ![e].run = i]
      BY <1>3 DEF CreateRun, BusyPc
    <2> QED
      BY <1>1, <2>1, MoveQuiet
  <1>4. CASE RunGraph(e)
    <2>1. \E p \in BusyPc : \E b : exec' = [exec EXCEPT ![e].pc = p, ![e].ok = b]
      BY <1>4 DEF RunGraph, BusyPc
    <2> QED
      BY <1>1, <2>1, MoveQuiet
  <1>5. CASE FinishRun(e)
    <2>1. exec' = Failed(e) \/ exec' = Returned(e)
      BY <1>5 DEF FinishRun
    <2> QED
      BY <1>1, <2>1, MoveQuiet
  <1>6. CASE UpdateLastFired(e)
    <2>1. \/ exec' = Failed(e) \/ exec' = [exec EXCEPT ![e] = Idle]
          \/ \E p \in BusyPc : exec' = [exec EXCEPT ![e].pc = p]
      BY <1>6 DEF UpdateLastFired, BusyPc
    <2> QED
      BY <1>1, <2>1, MoveQuiet
  <1> QED
    BY <1>2, <1>3, <1>4, <1>5, <1>6 DEF ExecuteStep

\* The steps that touch neither the workflows nor the queue.
QuietStep ==
  \/ AdvanceClock \/ SchedNow \/ Restart
  \/ \E u \in Editors, f \in Workflows, c \in Schedules : EditRead(u, f, c)
  \/ \E c \in Callers, f \in Workflows : RunByHand(c, f)
  \/ \E s \in sched.todo : SchedSkip(s)
  \/ \E w \in Workers : MarkLost(w)
  \/ \E e \in Executors : Expire(e)

LEMMA QuietStepQuiet ==
  ASSUME TypeOK, QuietStep
  PROVE  /\ Quiet /\ wf' = wf /\ item' = item /\ edited' = edited
         /\ sched'.todo \subseteq sched.todo
         /\ exec[Scheduler].pc = "idle" => exec'[Scheduler].pc = "idle"
  <1>1. exec \in [Executors -> ExecState] /\ sched \in SchedState
    BY DEF TypeOK
  <1>2. CASE AdvanceClock
    BY <1>2 DEF AdvanceClock, Quiet, db
  <1>3. CASE SchedNow
    BY <1>1, <1>3 DEF SchedNow, Quiet, IdleSched, SchedState, db
  <1>4. CASE Restart
    BY <1>4, WorkersApart DEF Restart, Quiet, Idle, IdleSched, db
  <1>5. CASE \E u \in Editors, f \in Workflows, c \in Schedules : EditRead(u, f, c)
    BY <1>5 DEF EditRead, Quiet, db
  <1>6. ASSUME NEW c \in Callers, NEW f \in Workflows, RunByHand(c, f)
        PROVE  /\ Quiet /\ wf' = wf /\ item' = item /\ edited' = edited
               /\ sched'.todo \subseteq sched.todo /\ exec'[Scheduler] = exec[Scheduler]
    <2>1. \A d \in Executors : d # c => exec'[d] = exec[d]
      BY <1>1, <1>6 DEF RunByHand
    <2> QED
      BY <1>6, <2>1, WorkersApart DEF RunByHand, Quiet, db
  <1>7. CASE \E s \in sched.todo : SchedSkip(s)
    BY <1>1, <1>7 DEF SchedSkip, Handled, Quiet, IdleSched, SchedState, db
  <1>8. ASSUME NEW w \in Workers, MarkLost(w)
        PROVE  /\ Quiet /\ wf' = wf /\ item' = item /\ edited' = edited
               /\ sched'.todo \subseteq sched.todo /\ exec'[Scheduler] = exec[Scheduler]
    <2>1. exec'[w].pc = "idle" /\ \A d \in Executors : d # w => exec'[d] = exec[d]
      BY <1>1, <1>8, WorkersApart DEF MarkLost, Idle
    <2> QED
      BY <1>8, <2>1, WorkersApart DEF MarkLost, Quiet, db
  <1>9. ASSUME NEW e \in Executors, Expire(e)
        PROVE  /\ Quiet /\ wf' = wf /\ item' = item /\ edited' = edited
               /\ sched'.todo \subseteq sched.todo /\ exec'[Scheduler] = exec[Scheduler]
    <2>1. /\ \A d \in Executors : d # e => exec'[d] = exec[d]
          /\ exec'[e].pc = exec[e].pc /\ exec'[e].wf = exec[e].wf /\ exec'[e].tick = exec[e].tick
      BY <1>1, <1>9 DEF Expire, ExecState, Idle
    <2>2. e # Scheduler
      BY <1>9 DEF Expire
    <2> QED
      BY <1>9, <2>1, <2>2, WorkersApart DEF Expire, Quiet, db
  <1> QED
    BY <1>2, <1>3, <1>4, <1>5, <1>6, <1>7, <1>8, <1>9 DEF QuietStep

-----------------------------------------------------------------------------
(* Claims are exclusive and happen once.                                   *)

LEMMA ClaimInvInit == Init => ClaimInv
  BY WorkersApart DEF Init, ClaimInv, NoItem, Idle

LEMMA ClaimInvQuiet == ASSUME ClaimInv, Quiet, item' = item PROVE ClaimInv'
  BY DEF ClaimInv, Quiet, KeyOf

LEMMA ClaimInvEnqueue ==
  ASSUME TypeOK, ClaimInv, NEW s \in sched.todo, SchedEnqueue(s) PROVE ClaimInv'
  <1>1. PICK k : Enqueue(k)
    BY DEF SchedEnqueue
  <1>2. item \in [Keys -> ItemRow] /\ exec' = exec
    BY DEF TypeOK, SchedEnqueue
  <1>3. \A j \in Keys : \/ item'[j] = item[j]
                        \/ item[j].status = "none" /\ item'[j].status = "queued" /\ item'[j].attempts = 0
    BY <1>1, <1>2 DEF Enqueue
  <1> QED
    BY <1>2, <1>3 DEF ClaimInv, KeyOf

LEMMA ClaimInvClaim ==
  ASSUME TypeOK, ClaimInv, NEW w \in Workers, ClaimNext(w) PROVE ClaimInv'
  <1>0. item \in [Keys -> ItemRow] /\ exec \in [Executors -> ExecState]
    BY DEF TypeOK
  <1>1. PICK k \in Keys :
          /\ item[k].status = "queued"
          /\ item' = [item EXCEPT ![k] = [status |-> "running", attempts |-> item[k].attempts + 1,
                                          locked |-> clock + LockTTL]]
          /\ exec' = [exec EXCEPT ![w] = [Idle EXCEPT !.pc = "get", !.wf = k[1], !.tick = k[2]]]
    BY DEF ClaimNext, Claimable
  <1>2. k = <<k[1], k[2]>>
    BY DEF Keys
  <1>3. exec'[w].pc = "get" /\ exec'[w].wf = k[1] /\ exec'[w].tick = k[2]
    BY <1>0, <1>1, WorkersApart DEF Idle
  <1>4. KeyOf(w)' = k
    BY <1>2, <1>3 DEF KeyOf
  <1>5. \A v \in Workers : v # w => exec'[v] = exec[v]
    BY <1>0, <1>1, WorkersApart
  <1>6. item'[k].status = "running" /\ item'[k].attempts = 1 /\ \A j \in Keys : j # k => item'[j] = item[j]
    <2>1. item[k].attempts = 0
      BY <1>1 DEF ClaimInv
    <2> QED
      BY <1>0, <1>1, <2>1
  <1>7. \A v \in Workers : v # w /\ exec[v].pc # "idle" => KeyOf(v) # k
    BY <1>1 DEF ClaimInv
  <1>8. \A v \in Workers : v # w => KeyOf(v)' = KeyOf(v)
    BY <1>5 DEF KeyOf
  <1> QED
    BY <1>3, <1>4, <1>5, <1>6, <1>7, <1>8 DEF ClaimInv

LEMMA ClaimInvMark ==
  ASSUME TypeOK, ClaimInv, NEW w \in Workers, Mark(w) PROVE ClaimInv'
  <1>0. item \in [Keys -> ItemRow] /\ exec \in [Executors -> ExecState]
    BY DEF TypeOK
  <1>1. exec'[w].pc = "idle" /\ \A v \in Workers : v # w => exec'[v] = exec[v]
    BY <1>0, WorkersApart DEF Mark, Idle
  <1>2. KeyOf(w) \in Keys /\ item[KeyOf(w)].status = "running" /\ exec[w].pc # "idle"
    BY DEF ClaimInv, Mark
  <1>3. /\ \A j \in Keys : j # KeyOf(w) => item'[j] = item[j]
        /\ item'[KeyOf(w)].status \in {"done", "error"}
        /\ item'[KeyOf(w)].attempts = item[KeyOf(w)].attempts
    BY <1>0, <1>2 DEF Mark, KeyOf, ItemRow
  <1>4. \A v \in Workers : v # w => KeyOf(v)' = KeyOf(v)
    BY <1>1 DEF KeyOf
  <1> QED
    BY <1>1, <1>2, <1>3, <1>4 DEF ClaimInv

LEMMA ClaimInvNext == TypeOK /\ ClaimInv /\ [Next]_vars => ClaimInv'
  <1> SUFFICES ASSUME TypeOK, ClaimInv, [Next]_vars PROVE ClaimInv'
    OBVIOUS
  <1>1. CASE UNCHANGED vars
    BY <1>1, ClaimInvQuiet DEF vars, Quiet
  <1>2. CASE QuietStep
    BY <1>2, QuietStepQuiet, ClaimInvQuiet
  <1>3. CASE \E e \in Executors : ExecuteStep(e)
    BY <1>3, ExecuteQuiet, ClaimInvQuiet
  <1>4. CASE \E w \in Workers : ClaimNext(w) \/ Mark(w)
    BY <1>4, ClaimInvClaim, ClaimInvMark
  <1>5. CASE \E s \in sched.todo : SchedEnqueue(s)
    BY <1>5, ClaimInvEnqueue
  <1>6. ASSUME NEW s \in sched.todo, SchedRunDirect(s) PROVE ClaimInv'
    <2>1. \A w \in Workers : exec'[w] = exec[w]
      BY <1>6, WorkersApart DEF SchedRunDirect, TypeOK
    <2> QED
      BY <1>6, <2>1, ClaimInvQuiet DEF SchedRunDirect, Quiet, db
  <1>7. CASE \/ SchedList
             \/ \E f \in Workflows : DeleteWorkflow(f)
             \/ \E f \in Workflows, c \in Schedules : CreateWorkflow(f, c)
             \/ \E u \in Editors : EditWrite(u)
    <2>1. exec' = exec /\ item' = item
      BY <1>7 DEF SchedList, DeleteWorkflow, CreateWorkflow, EditWrite, db
    <2> QED
      BY <2>1, ClaimInvQuiet DEF Quiet
  <1> QED
    BY <1>1, <1>2, <1>3, <1>4, <1>5, <1>6, <1>7, WorkersApart
       DEF Next, WorkerStep, SchedulerStep, Environment, QuietStep

LEMMA ClaimInvCorrect == Spec => []ClaimInv
  BY ClaimInvInit, ClaimInvNext, TypeCorrect, PTL DEF Spec

\* Two workers never execute the same queue row, and the row of a worker stays
\* 'running' until that worker marks it.
THEOREM ClaimIsExclusive == Spec => []ClaimExclusive
  <1>1. ClaimInv => ClaimExclusive
    BY DEF ClaimInv, ClaimExclusive, Holds, KeyOf
  <1> QED
    BY <1>1, ClaimInvCorrect, PTL

\* No planned tick is ever dispatched twice.
THEOREM DispatchedAtMostOnce == Spec => []AtMostOnce
  <1>1. ClaimInv => AtMostOnce
    BY DEF ClaimInv, AtMostOnce
  <1> QED
    BY <1>1, ClaimInvCorrect, PTL

-----------------------------------------------------------------------------
(* The schedule of an unedited workflow.                                   *)

LEMMA ScheduleInvInit == Init => ScheduleInv
  BY WorkersApart
     DEF Init, ScheduleInv, NewInv, QueuedInv, FiringInv, SnapshotInv, FiredInv, NoItem, Idle, IdleSched

\* A step that only lets goroutines advance or die.
LEMMA ScheduleInvQuiet ==
  ASSUME ScheduleInv, Quiet, wf' = wf, item' = item, edited' = edited,
         sched'.todo \subseteq sched.todo, exec'[Scheduler].pc = "idle"
  PROVE  ScheduleInv'
  <1>1. NewInv' /\ QueuedInv' /\ FiredInv' /\ SnapshotInv'
    BY DEF ScheduleInv, NewInv, QueuedInv, FiredInv, SnapshotInv, IsUpcoming
  <1>2. FiringInv'
    BY DEF ScheduleInv, FiringInv, Quiet, IsUpcoming, KeyOf
  <1> QED
    BY <1>1, <1>2 DEF ScheduleInv

\* A step that changes workflows, of which every one that the queue, the
\* workers or the scheduler knows keeps its schedule or counts as edited.
SameSchedule(f) ==
  /\ wf[f].state # "new" => wf'[f].state # "new"
  /\ wf'[f].cron = wf[f].cron /\ wf'[f].created = wf[f].created /\ wf'[f].fired = wf[f].fired

LEMMA ScheduleInvWorkflows ==
  ASSUME TypeOK, ClaimInv, ScheduleInv, exec' = exec, item' = item, sched' = sched,
         edited \subseteq edited',
         \A f \in Workflows : (f \in edited' /\ wf'[f].state # "new") \/ SameSchedule(f)
                              \/ (wf[f].state = "new" /\ wf'[f].fired = Never)
  PROVE  ScheduleInv'
  <1>1. \A f \in Workflows : SameSchedule(f) => Anchor(wf'[f]) = Anchor(wf[f])
    BY DEF SameSchedule, Anchor
  <1>2. \A k \in Keys : IsUpcoming(k) => IsUpcoming(k)' \/ k[1] \in edited'
    <2> SUFFICES ASSUME NEW k \in Keys, IsUpcoming(k), k[1] \notin edited' PROVE IsUpcoming(k)'
      OBVIOUS
    <2>1. k[1] \in Workflows /\ SameSchedule(k[1])
      BY KeyTyped DEF IsUpcoming
    <2> QED
      BY <1>1, <2>1 DEF IsUpcoming, SameSchedule
  <1>3. QueuedInv'
    BY <1>2 DEF ScheduleInv, QueuedInv
  <1>4. FiringInv'
    <2> SUFFICES ASSUME NEW w \in Workers, exec[w].pc \notin {"idle", "markDone"},
                        exec[w].wf \notin edited'
                 PROVE  IsUpcoming(KeyOf(w))'
      BY DEF FiringInv, KeyOf
    <2>1. KeyOf(w) \in Keys /\ IsUpcoming(KeyOf(w))
      BY DEF ScheduleInv, FiringInv, ClaimInv
    <2> DEFINE k == KeyOf(w)
    <2>2. k[1] = exec[w].wf /\ KeyOf(w)' = k
      BY DEF KeyOf
    <2> HIDE DEF k
    <2>3. IsUpcoming(k)'
      BY <1>2, <2>1, <2>2 DEF k
    <2> QED
      BY <2>2, <2>3 DEF IsUpcoming, k
  <1>5. SnapshotInv'
    <2> SUFFICES ASSUME NEW s \in sched.todo, s.wf \notin edited'
                 PROVE  /\ wf'[s.wf].state # "new"
                        /\ s.cron = wf'[s.wf].cron
                        /\ wf'[s.wf].created <= s.anchor /\ s.anchor <= Anchor(wf'[s.wf])
      BY DEF SnapshotInv, Anchor
    <2>1. s.wf \in Workflows
      BY DEF TypeOK, SchedState, Snapshot
    <2>2. /\ wf[s.wf].state # "new" /\ s.cron = wf[s.wf].cron
          /\ wf[s.wf].created <= s.anchor /\ s.anchor <= Anchor(wf[s.wf])
      BY DEF ScheduleInv, SnapshotInv
    <2> QED
      BY <1>1, <2>1, <2>2 DEF SameSchedule
  <1>6. FiredInv'
    BY DEF ScheduleInv, FiredInv, SameSchedule
  <1>7. NewInv'
    BY DEF ScheduleInv, NewInv, SameSchedule
  <1> QED
    BY <1>3, <1>4, <1>5, <1>6, <1>7 DEF ScheduleInv

LEMMA AnchorAfterCreation ==
  ASSUME TypeOK, ScheduleInv, NEW f \in Workflows, f \notin edited
  PROVE  /\ wf[f].created \in Nat /\ Anchor(wf[f]) \in Nat
         /\ wf[f].created <= Anchor(wf[f])
         /\ \A t \in Ticks : /\ wf[f].cron \in Crons /\ t \in CronTicks[wf[f].cron]
                             /\ wf[f].created < t /\ t <= Anchor(wf[f])
                             => item[<<f, t>>].status \in {"running", "done"}
  <1>1. wf[f].created \in Nat /\ wf[f].fired \in Nat \cup {Never}
    BY WfRowTyped DEF TypeOK
  <1>2. wf[f].fired # Never => /\ wf[f].created < wf[f].fired
                               /\ \A t \in Ticks :
                                    t \in CronTicks[wf[f].cron] /\ wf[f].created < t /\ t <= wf[f].fired
                                      => item[<<f, t>>].status \in {"running", "done"}
    BY DEF ScheduleInv, FiredInv
  <1>3. \A t \in Ticks : t \in Int
    BY DEF Ticks
  <1> QED
    BY <1>1, <1>2, <1>3 DEF Anchor, Never

LEMMA ScheduleInvList ==
  ASSUME TypeOK, ScheduleInv, SchedList PROVE ScheduleInv'
  <1>1. exec' = exec /\ item' = item /\ wf' = wf /\ edited' = edited
    BY DEF SchedList, db
  <1>2. NewInv' /\ QueuedInv' /\ FiringInv' /\ FiredInv'
    BY <1>1 DEF ScheduleInv, NewInv, QueuedInv, FiringInv, FiredInv, IsUpcoming, KeyOf
  <1>3. SnapshotInv'
    <2> SUFFICES ASSUME NEW f \in Schedulable, f \notin edited
                 PROVE  /\ wf[f].state # "new" /\ wf[f].created <= Anchor(wf[f])
                        /\ Anchor(wf[f]) <= Anchor(wf[f])
      BY <1>1 DEF SchedList, SnapshotInv, SnapshotOf
    <2> QED
      BY AnchorAfterCreation DEF Schedulable
  <1> QED
    BY <1>1, <1>2, <1>3 DEF ScheduleInv

LEMMA ScheduleInvEnqueue ==
  ASSUME TypeOK, ScheduleInv, NEW s \in sched.todo, SchedEnqueue(s) PROVE ScheduleInv'
  <1>1. PICK t \in 1..sched.now : IsNextTick(s.cron, s.anchor, t) /\ Enqueue(<<s.wf, t>>)
    BY DEF SchedEnqueue
  <1>2. s \in Snapshot /\ s.wf \in Workflows /\ s.cron \in Crons /\ s.anchor \in Nat
    BY DEF TypeOK, SchedState, Snapshot
  <1>3. exec' = exec /\ wf' = wf /\ edited' = edited
    BY DEF SchedEnqueue
  <1>4. \A j \in Keys : \/ item'[j] = item[j]
                        \/ /\ j = <<s.wf, t>> /\ item[j].status = "none" /\ item'[j].status = "queued"
    BY <1>1 DEF Enqueue, TypeOK
  <1>5. ASSUME <<s.wf, t>> \in Keys, item[<<s.wf, t>>].status = "none", s.wf \notin edited
        PROVE  IsUpcoming(<<s.wf, t>>)
    <2>1. /\ wf[s.wf].state # "new" /\ s.cron = wf[s.wf].cron
          /\ wf[s.wf].created <= s.anchor /\ s.anchor <= Anchor(wf[s.wf])
      BY <1>5 DEF ScheduleInv, SnapshotInv
    <2>2. t \in Ticks /\ t \in Nat /\ t > s.anchor /\ t \in CronTicks[s.cron]
      BY <1>1, <1>5 DEF Keys, IsNextTick
    <2>3. t > Anchor(wf[s.wf])
      BY <1>2, <1>5, <2>1, <2>2, AnchorAfterCreation
    <2>4. IsNextTick(s.cron, Anchor(wf[s.wf]), t)
      BY <1>1, <1>2, <1>5, <2>1, <2>3, AnchorAfterCreation, NextTickStable
    <2> QED
      BY <1>2, <2>1, <2>4 DEF IsUpcoming
  <1>6. QueuedInv'
    BY <1>3, <1>4, <1>5 DEF ScheduleInv, QueuedInv, IsUpcoming
  <1>7. FiringInv'
    BY <1>3 DEF ScheduleInv, FiringInv, IsUpcoming, KeyOf
  <1>8. SnapshotInv'
    <2>1. sched'.todo \subseteq sched.todo
      BY DEF SchedEnqueue, Handled, IdleSched, TypeOK, SchedState
    <2> QED
      BY <1>3, <2>1 DEF ScheduleInv, SnapshotInv
  <1>9. FiredInv'
    <2>1. \A f \in Workflows, u \in Ticks :
            item[<<f, u>>].status \in {"running", "done"} => item'[<<f, u>>] = item[<<f, u>>]
      BY <1>4 DEF Keys
    <2> QED
      BY <1>3, <2>1 DEF ScheduleInv, FiredInv
  <1> QED
    BY <1>3, <1>6, <1>7, <1>8, <1>9 DEF ScheduleInv, NewInv

LEMMA ScheduleInvClaim ==
  ASSUME TypeOK, ScheduleInv, NEW w \in Workers, ClaimNext(w) PROVE ScheduleInv'
  <1>0. item \in [Keys -> ItemRow] /\ exec \in [Executors -> ExecState]
    BY DEF TypeOK
  <1>1. PICK k \in Keys :
          /\ item[k].status = "queued"
          /\ item' = [item EXCEPT ![k] = [status |-> "running", attempts |-> item[k].attempts + 1,
                                          locked |-> clock + LockTTL]]
          /\ exec' = [exec EXCEPT ![w] = [Idle EXCEPT !.pc = "get", !.wf = k[1], !.tick = k[2]]]
    BY DEF ClaimNext, Claimable
  <1>2. wf' = wf /\ edited' = edited /\ sched' = sched
    BY DEF ClaimNext
  <1>3. item'[k].status = "running" /\ \A j \in Keys : j # k => item'[j] = item[j]
    BY <1>0, <1>1
  <1>4. /\ exec'[w].wf = k[1] /\ exec'[w].tick = k[2]
        /\ \A d \in Executors : d # w => exec'[d] = exec[d]
    BY <1>0, <1>1, WorkersApart DEF Idle
  <1>5. QueuedInv'
    BY <1>2, <1>3 DEF ScheduleInv, QueuedInv, IsUpcoming
  <1>6. FiringInv'
    <2>1. k[1] \notin edited => IsUpcoming(k)
      BY <1>1 DEF ScheduleInv, QueuedInv
    <2>2. k = <<k[1], k[2]>>
      BY DEF Keys
    <2> QED
      BY <1>2, <1>4, <2>1, <2>2, WorkersApart DEF ScheduleInv, FiringInv, IsUpcoming, KeyOf
  <1>7. FiredInv'
    <2>1. \A f \in Workflows, u \in Ticks :
            item[<<f, u>>].status \in {"running", "done"} => item'[<<f, u>>].status \in {"running", "done"}
      BY <1>3 DEF Keys
    <2> QED
      BY <1>2, <2>1 DEF ScheduleInv, FiredInv
  <1>8. SnapshotInv' /\ exec'[Scheduler].pc = "idle"
    BY <1>2, <1>4, WorkersApart DEF ScheduleInv, SnapshotInv
  <1> QED
    BY <1>2, <1>5, <1>6, <1>7, <1>8 DEF ScheduleInv, NewInv

LEMMA ScheduleInvMark ==
  ASSUME TypeOK, ClaimInv, ScheduleInv, NEW w \in Workers, Mark(w) PROVE ScheduleInv'
  <1>0. item \in [Keys -> ItemRow] /\ exec \in [Executors -> ExecState]
    BY DEF TypeOK
  <1>1. KeyOf(w) \in Keys /\ exec[w].pc \in {"markDone", "markError"}
    BY DEF ClaimInv, Mark
  <1>2. wf' = wf /\ edited' = edited /\ sched' = sched
    BY DEF Mark
  <1>3. /\ \A j \in Keys : j # KeyOf(w) => item'[j] = item[j]
        /\ item'[KeyOf(w)].status = IF exec[w].pc = "markDone" THEN "done" ELSE "error"
    BY <1>0, <1>1 DEF Mark, KeyOf, ItemRow
  <1>4. exec'[w].pc = "idle" /\ \A d \in Executors : d # w => exec'[d] = exec[d]
    BY <1>0, WorkersApart DEF Mark, Idle
  <1>5. QueuedInv'
    BY <1>2, <1>3 DEF ScheduleInv, QueuedInv, IsUpcoming
  <1>6. FiringInv'
    BY <1>2, <1>4, WorkersApart DEF ScheduleInv, FiringInv, IsUpcoming, KeyOf
  <1>7. FiredInv'
    <2> SUFFICES ASSUME NEW f \in Workflows, f \notin edited, wf[f].fired # Never
                 PROVE  /\ wf[f].created < wf[f].fired
                        /\ \A t \in Ticks :
                             t \in CronTicks[wf[f].cron] /\ wf[f].created < t /\ t <= wf[f].fired
                               => item'[<<f, t>>].status \in {"running", "done"}
      BY <1>2 DEF FiredInv
    <2>1. /\ wf[f].created < wf[f].fired
          /\ \A t \in Ticks :
               t \in CronTicks[wf[f].cron] /\ wf[f].created < t /\ t <= wf[f].fired
                 => item[<<f, t>>].status \in {"running", "done"}
      BY DEF ScheduleInv, FiredInv
    <2>2. ASSUME NEW t \in Ticks, t <= wf[f].fired, KeyOf(w) = <<f, t>>, exec[w].pc = "markError"
          PROVE  FALSE
      <3>1. exec[w].wf = f
        BY <2>2 DEF KeyOf
      <3>2. IsUpcoming(KeyOf(w))
        BY <2>2, <3>1 DEF ScheduleInv, FiringInv
      <3>3. t > wf[f].fired
        BY <2>2, <3>2 DEF IsUpcoming, IsNextTick, Anchor
      <3>4. t \in Int /\ wf[f].fired \in Int
        BY FiredTyped DEF Ticks
      <3> QED
        BY <2>2, <3>3, <3>4
    <2>3. \A t \in Ticks : <<f, t>> \in Keys
      BY DEF Keys
    <2> QED
      BY <1>1, <1>3, <2>1, <2>2, <2>3
  <1>8. SnapshotInv' /\ exec'[Scheduler].pc = "idle"
    BY <1>2, <1>4, WorkersApart DEF ScheduleInv, SnapshotInv
  <1> QED
    BY <1>2, <1>5, <1>6, <1>7, <1>8 DEF ScheduleInv, NewInv

\* The heart of the argument: when a worker moves schedule_last_fired_at, the
\* tick it moves it to is the only one of its workflow under way.
LEMMA ScheduleInvFire ==
  ASSUME TypeOK, ClaimInv, ScheduleInv, NEW w \in Workers, UpdateLastFired(w), wf' # wf
  PROVE  /\ ScheduleInv'
         /\ \A f \in Workflows \ edited : wf'[f].fired >= wf[f].fired
  <1> DEFINE f == exec[w].wf
             t == exec[w].tick
  <1>0. wf \in [Workflows -> WfRow] /\ exec \in [Executors -> ExecState]
    BY DEF TypeOK
  <1>1. /\ exec[w].pc = "fired" /\ wf[f].state = "live"
        /\ wf' = [wf EXCEPT ![f].fired = t]
        /\ exec' = [exec EXCEPT ![w].pc = "markDone"]
        /\ item' = item /\ sched' = sched /\ edited' = edited
    BY DEF UpdateLastFired
  <1>2. <<f, t>> \in Keys /\ item[<<f, t>>].status = "running" /\ KeyOf(w) = <<f, t>>
    BY <1>1 DEF ClaimInv, KeyOf
  <1>3. f \in Workflows /\ t \in Ticks /\ t \in Nat
    BY <1>2, KeyTyped
  <1> HIDE DEF f, t
  <1>4. /\ \A g \in Workflows : g # f => wf'[g] = wf[g]
        /\ wf'[f].state = wf[f].state /\ wf'[f].cron = wf[f].cron
        /\ wf'[f].created = wf[f].created /\ wf'[f].fired = t
    BY <1>0, <1>1, <1>3 DEF WfRow
  <1>5. /\ exec'[w].pc = "markDone"
        /\ \A d \in Executors : d # w => exec'[d] = exec[d]
    BY <1>0, <1>1, WorkersApart
  <1>6. f \notin edited =>
          /\ wf[f].cron \in Crons
          /\ IsNextTick(wf[f].cron, Anchor(wf[f]), t)
          /\ wf[f].created \in Nat /\ Anchor(wf[f]) \in Nat /\ wf[f].created <= Anchor(wf[f])
          /\ Anchor(wf[f]) < t
    <2> SUFFICES ASSUME f \notin edited
                 PROVE  /\ wf[f].cron \in Crons /\ IsNextTick(wf[f].cron, Anchor(wf[f]), t)
                        /\ wf[f].created \in Nat /\ Anchor(wf[f]) \in Nat
                        /\ wf[f].created <= Anchor(wf[f]) /\ Anchor(wf[f]) < t
      OBVIOUS
    <2>1. IsUpcoming(KeyOf(w))
      BY <1>1 DEF ScheduleInv, FiringInv, f
    <2>2. wf[f].cron \in Crons /\ IsNextTick(wf[f].cron, Anchor(wf[f]), t)
      BY <1>2, <2>1 DEF IsUpcoming
    <2>3. wf[f].created \in Nat /\ Anchor(wf[f]) \in Nat /\ wf[f].created <= Anchor(wf[f])
      BY <1>3, AnchorAfterCreation
    <2> QED
      BY <1>3, <2>2, <2>3 DEF IsNextTick
  <1>7. Anchor(wf'[f]) = t
    BY <1>3, <1>4 DEF Anchor, Never
  \* Any other upcoming row of f would be the row of w.
  <1>8. ASSUME NEW k \in Keys, k[1] = f, f \notin edited, IsUpcoming(k) PROVE k = KeyOf(w)
    <2>1. IsNextTick(wf[f].cron, Anchor(wf[f]), k[2])
      BY <1>8 DEF IsUpcoming
    <2>2. k[2] = t
      BY <1>6, <1>8, <2>1, NextTickUnique
    <2> QED
      BY <1>2, <1>8, <2>2 DEF Keys
  <1>9. \A k \in Keys : k[1] # f => (IsUpcoming(k) <=> IsUpcoming(k)')
    BY <1>4, KeyTyped DEF IsUpcoming
  <1>10. QueuedInv'
    <2> SUFFICES ASSUME NEW k \in Keys, item[k].status = "queued", k[1] \notin edited
                 PROVE  IsUpcoming(k)'
      BY <1>1 DEF QueuedInv
    <2>1. IsUpcoming(k)
      BY DEF ScheduleInv, QueuedInv
    <2>2. k[1] # f
      BY <1>2, <1>8, <2>1
    <2> QED
      BY <1>9, <2>1, <2>2
  <1>11. FiringInv'
    <2> SUFFICES ASSUME NEW v \in Workers, exec'[v].pc \notin {"idle", "markDone"},
                        exec'[v].wf \notin edited
                 PROVE  IsUpcoming(KeyOf(v))'
      BY <1>1 DEF FiringInv
    <2>1. v # w /\ exec'[v] = exec[v]
      BY <1>5, WorkersApart
    <2>2. KeyOf(v) \in Keys /\ IsUpcoming(KeyOf(v)) /\ KeyOf(v)[1] \notin edited
      BY <2>1 DEF ScheduleInv, FiringInv, ClaimInv, KeyOf
    <2>3. KeyOf(v) # KeyOf(w)
      BY <1>1, <2>1 DEF ClaimInv
    <2>4. KeyOf(v)[1] # f
      BY <1>8, <2>2, <2>3
    <2>5. PICK k \in Keys : k = KeyOf(v)
      BY <2>2
    <2>6. KeyOf(v)' = k
      BY <2>1, <2>5 DEF KeyOf
    <2>7. IsUpcoming(k)'
      BY <1>9, <2>2, <2>4, <2>5
    <2> QED
      BY <2>6, <2>7 DEF IsUpcoming
  <1>12. SnapshotInv'
    <2> SUFFICES ASSUME NEW s \in sched.todo, s.wf \notin edited
                 PROVE  /\ wf'[s.wf].state # "new" /\ s.cron = wf'[s.wf].cron
                        /\ wf'[s.wf].created <= s.anchor /\ s.anchor <= Anchor(wf'[s.wf])
      BY <1>1 DEF SnapshotInv
    <2>1. /\ wf[s.wf].state # "new" /\ s.cron = wf[s.wf].cron
          /\ wf[s.wf].created <= s.anchor /\ s.anchor <= Anchor(wf[s.wf])
      BY DEF ScheduleInv, SnapshotInv
    <2>2. s.wf \in Workflows /\ s.anchor \in Nat
      BY DEF TypeOK, SchedState, Snapshot
    <2>3. CASE s.wf # f
      BY <1>4, <2>1, <2>2, <2>3
    <2>4. CASE s.wf = f
      BY <1>3, <1>4, <1>6, <1>7, <2>1, <2>2, <2>4
    <2> QED
      BY <2>3, <2>4
  <1>13. FiredInv'
    <2> SUFFICES ASSUME NEW g \in Workflows, g \notin edited, wf'[g].fired # Never
                 PROVE  /\ wf'[g].created < wf'[g].fired
                        /\ \A u \in Ticks :
                             u \in CronTicks[wf'[g].cron] /\ wf'[g].created < u /\ u <= wf'[g].fired
                               => item[<<g, u>>].status \in {"running", "done"}
      BY <1>1 DEF FiredInv
    <2>1. CASE g # f
      BY <1>4, <2>1 DEF ScheduleInv, FiredInv
    <2>2. CASE g = f
      <3>1. wf'[f].created < wf'[f].fired
        BY <1>3, <1>4, <1>6, <2>2
      <3>2. ASSUME NEW u \in Ticks, u \in CronTicks[wf[f].cron], wf[f].created < u, u <= t
            PROVE  item[<<f, u>>].status \in {"running", "done"}
        <4>1. u \in Nat
          BY DEF Ticks
        <4>2. CASE u <= Anchor(wf[f])
          BY <1>3, <1>6, <2>2, <3>2, <4>2, AnchorAfterCreation
        <4>3. CASE u > Anchor(wf[f])
          BY <1>2, <1>3, <1>6, <2>2, <3>2, <4>1, <4>3 DEF IsNextTick
        <4> QED
          BY <1>6, <2>2, <4>1, <4>2, <4>3
      <3> QED
        BY <1>4, <2>2, <3>1, <3>2
    <2> QED
      BY <2>1, <2>2
  <1>14. exec'[Scheduler].pc = "idle"
    BY <1>5, WorkersApart DEF ScheduleInv
  <1>15. \A g \in Workflows \ edited : wf'[g].fired >= wf[g].fired
    <2> SUFFICES ASSUME NEW g \in Workflows, g \notin edited PROVE wf'[g].fired >= wf[g].fired
      OBVIOUS
    <2>1. wf[g].fired \in Int
      BY FiredTyped
    <2>2. CASE g # f
      BY <1>4, <2>1, <2>2
    <2>3. CASE g = f
      <3>1. wf[f].fired <= Anchor(wf[f])
        BY <1>6, <2>1, <2>3 DEF Anchor, Never
      <3> QED
        BY <1>3, <1>4, <1>6, <2>1, <2>3, <3>1
    <2> QED
      BY <2>2, <2>3
  <1>16. NewInv'
    BY <1>1, <1>4 DEF ScheduleInv, NewInv
  <1> QED
    BY <1>10, <1>11, <1>12, <1>13, <1>14, <1>15, <1>16 DEF ScheduleInv

\* One step of the system, with the queue enabled.
LEMMA ScheduleInvNext ==
  ASSUME QueueEnabled, TypeOK, ClaimInv, ScheduleInv, [Next]_vars
  PROVE  /\ ScheduleInv'
         /\ \A f \in Workflows \ edited' : wf'[f].fired >= wf[f].fired
  <1>0. \A f \in Workflows : wf[f].fired \in Int
    BY FiredTyped
  <1>1. CASE UNCHANGED vars
    BY <1>0, <1>1, ScheduleInvQuiet DEF vars, Quiet, ScheduleInv
  <1>2. CASE QuietStep
    BY <1>0, <1>2, QuietStepQuiet, ScheduleInvQuiet DEF ScheduleInv
  <1>3. ASSUME NEW e \in Executors, ExecuteStep(e)
        PROVE  ScheduleInv' /\ \A f \in Workflows \ edited' : wf'[f].fired >= wf[f].fired
    <2>1. e # Scheduler
      BY <1>3, ExecuteQuiet DEF ScheduleInv
    <2>2. exec'[Scheduler].pc = "idle"
      BY <1>3, <2>1, ExecuteQuiet, WorkersApart DEF ScheduleInv
    <2>3. CASE wf' = wf
      BY <1>0, <1>3, <2>2, <2>3, ExecuteQuiet, ScheduleInvQuiet
    <2>4. CASE wf' # wf
      <3>1. UpdateLastFired(e)
        BY <1>3, <2>4, ExecuteQuiet
      <3>2. e \in Workers
        BY <2>1, <3>1 DEF UpdateLastFired, Executors
      <3> QED
        BY <2>4, <3>1, <3>2, ScheduleInvFire DEF UpdateLastFired
    <2> QED
      BY <2>3, <2>4
  <1>4. CASE \E w \in Workers : ClaimNext(w) \/ Mark(w)
    <2>1. wf' = wf
      BY <1>4 DEF ClaimNext, Mark
    <2>2. ScheduleInv'
      BY <1>4, ScheduleInvClaim, ScheduleInvMark
    <2> QED
      BY <1>0, <2>1, <2>2
  <1>5. CASE \E s \in sched.todo : SchedEnqueue(s)
    BY <1>0, <1>5, ScheduleInvEnqueue DEF SchedEnqueue
  <1>6. CASE \E s \in sched.todo : SchedRunDirect(s)
    BY <1>6 DEF SchedRunDirect
  <1>7. CASE SchedList
    BY <1>0, <1>7, ScheduleInvList DEF SchedList, db
  <1>8. ASSUME NEW f \in Workflows, DeleteWorkflow(f)
        PROVE  ScheduleInv' /\ \A g \in Workflows \ edited' : wf'[g].fired >= wf[g].fired
    <2>1. \A g \in Workflows : SameSchedule(g)
      BY <1>8 DEF DeleteWorkflow, SameSchedule, TypeOK, WfRow
    <2> QED
      BY <1>0, <1>8, <2>1, ScheduleInvWorkflows DEF DeleteWorkflow, SameSchedule
  <1>9. ASSUME NEW f \in Workflows, NEW c \in Schedules, CreateWorkflow(f, c)
        PROVE  ScheduleInv' /\ \A g \in Workflows \ edited' : wf'[g].fired >= wf[g].fired
    <2>1. \A g \in Workflows : SameSchedule(g) \/ (wf[g].state = "new" /\ wf'[g].fired = Never)
      BY <1>9 DEF CreateWorkflow, SameSchedule, TypeOK
    <2>2. ScheduleInv'
      BY <1>9, <2>1, ScheduleInvWorkflows DEF CreateWorkflow
    <2>3. \A g \in Workflows : wf'[g].fired >= wf[g].fired
      BY <1>0, <1>9 DEF CreateWorkflow, TypeOK, ScheduleInv, NewInv, Never
    <2> QED
      BY <2>2, <2>3
  <1>10. ASSUME NEW u \in Editors, EditWrite(u)
         PROVE  ScheduleInv' /\ \A g \in Workflows \ edited' : wf'[g].fired >= wf[g].fired
    <2>1. \A g \in Workflows : (g \in edited' /\ wf'[g].state # "new") \/ SameSchedule(g)
      <3> DEFINE f == edit[u].wf
      <3>1. CASE wf' = wf
        BY <3>1 DEF SameSchedule
      <3>2. CASE wf' # wf
        <4>1. /\ wf[f].state = "live" /\ wf' = [wf EXCEPT ![f].cron = edit[u].cron]
              /\ edited' = IF edit[u].cron = wf[f].cron THEN edited ELSE edited \cup {f}
          BY <1>10, <3>2 DEF EditWrite
        <4> HIDE DEF f
        <4>2. \A g \in Workflows : g # f => wf'[g] = wf[g]
          BY <4>1 DEF TypeOK
        <4>3. f \in Workflows =>
                /\ wf'[f].state = "live" /\ wf'[f].created = wf[f].created
                /\ wf'[f].fired = wf[f].fired /\ wf'[f].cron = edit[u].cron
          BY <4>1 DEF TypeOK, WfRow
        <4> QED
          BY <4>1, <4>2, <4>3 DEF SameSchedule
      <3> QED
        BY <3>1, <3>2
    <2>2. edited \subseteq edited' /\ exec' = exec /\ item' = item /\ sched' = sched
      BY <1>10 DEF EditWrite
    <2> QED
      BY <1>0, <2>1, <2>2, ScheduleInvWorkflows DEF SameSchedule
  <1> QED
    BY <1>1, <1>2, <1>3, <1>4, <1>5, <1>6, <1>7, <1>8, <1>9, <1>10, WorkersApart
       DEF Next, WorkerStep, SchedulerStep, Environment, QuietStep

LEMMA ScheduleInvCorrect == ASSUME QueueEnabled PROVE Spec => []ScheduleInv
  <1>1. TypeOK /\ ClaimInv /\ ScheduleInv /\ [Next]_vars => ScheduleInv'
    BY ScheduleInvNext
  <1> QED
    BY <1>1, ScheduleInvInit, TypeCorrect, ClaimInvCorrect, PTL DEF Spec

\* However many workers there are, two planned executions of an unedited
\* workflow never overlap.
THEOREM ExecutionsAreSerial == ASSUME QueueEnabled PROVE Spec => []SerialPerWorkflow
  <1>1. TypeOK /\ ClaimInv /\ ScheduleInv => SerialPerWorkflow
    <2> SUFFICES ASSUME TypeOK, ClaimInv, ScheduleInv, NEW v \in Workers, NEW w \in Workers,
                        Firing(v), Firing(w), exec[v].wf = exec[w].wf, exec[v].wf \notin edited
                 PROVE  v = w
      BY DEF SerialPerWorkflow
    <2>1. IsUpcoming(KeyOf(v)) /\ IsUpcoming(KeyOf(w))
      BY DEF ScheduleInv, FiringInv, Firing
    <2>2. KeyOf(v) \in Keys /\ KeyOf(w) \in Keys /\ exec[v].pc # "idle" /\ exec[w].pc # "idle"
      BY DEF ClaimInv, Firing
    <2>3. exec[v].wf \in Workflows
      BY <2>2, KeyTyped DEF KeyOf
    <2>4. Anchor(wf[exec[v].wf]) \in Int
      BY <2>3, AnchorAfterCreation
    <2>5. exec[v].tick = exec[w].tick
      BY <2>1, <2>4, NextTickUnique DEF IsUpcoming, KeyOf
    <2> QED
      BY <2>2, <2>5 DEF ClaimInv, KeyOf
  <1> QED
    BY <1>1, ScheduleInvCorrect, TypeCorrect, ClaimInvCorrect, PTL

\* Catching up after downtime executes every missed tick of an unedited
\* workflow: none below schedule_last_fired_at was left out.
THEOREM CatchUpSkipsNothing == Spec => []NoTickSkipped
  <1>1. CASE QueueEnabled
    <2>1. ScheduleInv => NoTickSkipped
      BY DEF ScheduleInv, FiredInv, NoTickSkipped
    <2> QED
      BY <1>1, <2>1, ScheduleInvCorrect, PTL
  <1>2. CASE ~QueueEnabled
    <2>1. NoTickSkipped
      BY <1>2 DEF NoTickSkipped
    <2> QED
      BY <1>2, PTL DEF NoTickSkipped
  <1> QED
    BY <1>1, <1>2

\* schedule_last_fired_at of an unedited workflow never goes back.
THEOREM FiredNeverGoesBack == ASSUME QueueEnabled PROVE Spec => FiredForward
  <1>1. TypeOK /\ ClaimInv /\ ScheduleInv /\ [Next]_vars =>
          [\A f \in Workflows \ edited' : wf'[f].fired >= wf[f].fired]_vars
    BY ScheduleInvNext
  <1> QED
    BY <1>1, ScheduleInvCorrect, TypeCorrect, ClaimInvCorrect, PTL DEF Spec, FiredForward

-----------------------------------------------------------------------------
(* A run row that is not finished has a goroutine behind it.               *)

Works(e, i) == exec[e].pc \in {"sem", "start", "graph", "finish"} /\ exec[e].run = i

Unfinished(i) == i \in DOMAIN runs /\ runs[i].status \in {"pending", "running"}

OrphanInv ==
  /\ budget.faults <= MaxFaults /\ budget.expiries <= MaxExpiries
  /\ NoFaultYet =>
       /\ \A e \in Executors : ~exec[e].expired
       /\ \A i : Unfinished(i) => \E e \in Executors : Works(e, i)

LEMMA OrphanInvInit == Init => OrphanInv
  BY ConstantsAssumption DEF Init, OrphanInv, Unfinished, Idle

\* What a step without a fault has to show.
LEMMA OrphanStep ==
  ASSUME OrphanInv, budget'.faults = budget.faults, budget'.expiries = budget.expiries,
         NoFaultYet => \A e \in Executors : ~exec'[e].expired,
         NoFaultYet => \A i : Unfinished(i)' =>
           \/ Unfinished(i) /\ \A e \in Executors : Works(e, i) => Works(e, i)'
           \/ \E e \in Executors : Works(e, i)'
  PROVE  OrphanInv'
  BY DEF OrphanInv, NoFaultYet

\* A goroutine that had no run row in hand moves; the table stays.
LEMMA OrphanMove ==
  ASSUME TypeOK, OrphanInv, budget' = budget, runs' = runs, NEW e \in Executors,
         exec[e].pc \notin {"sem", "start", "graph", "finish"},
         exec'[e].expired => exec[e].expired, \A d \in Executors : d # e => exec'[d] = exec[d]
  PROVE  OrphanInv'
  <1>1. \A i : \A d \in Executors : Works(d, i) => Works(d, i)'
    BY DEF Works
  <1>2. NoFaultYet => \A d \in Executors : ~exec'[d].expired
    BY DEF OrphanInv
  <1> QED
    BY <1>1, <1>2, OrphanStep DEF Unfinished

\* The goroutine after a step of RunWorkflow.Execute.
LEMMA MoveIs ==
  ASSUME NEW x \in Busy
  PROVE  /\ \A p \in BusyPc : LET y == [x EXCEPT !.pc = p] IN
              y.pc = p /\ y.run = x.run /\ (y.expired => x.expired)
         /\ \A p \in BusyPc, i \in Nat : LET y == [x EXCEPT !.pc = p, !.run = i] IN
              y.pc = p /\ y.run = i /\ (y.expired => x.expired)
         /\ \A p \in BusyPc, b \in BOOLEAN : LET y == [x EXCEPT !.pc = p, !.ok = b] IN
              y.pc = p /\ y.run = x.run /\ (y.expired => x.expired)
         /\ ~Idle.expired
  BY DEF Busy, Idle

LEMMA EndIs ==
  ASSUME TypeOK, NEW e \in Executors, exec[e] \in Busy, exec' = Failed(e) \/ exec' = Returned(e)
  PROVE  exec'[e].expired => exec[e].expired
  <1>1. exec \in [Executors -> ExecState]
    BY DEF TypeOK
  <1>2. exec'[e] = Idle \/ \E p \in BusyPc : exec'[e] = [exec[e] EXCEPT !.pc = p]
    BY <1>1 DEF Failed, Returned, BusyPc
  <1>3. CASE exec'[e] = Idle
    BY <1>3, MoveIs
  <1>4. ASSUME NEW p \in BusyPc, exec'[e] = [exec[e] EXCEPT !.pc = p] PROVE exec'[e].expired => exec[e].expired
    BY <1>4, MoveIs
  <1> QED
    BY <1>2, <1>3, <1>4

LEMMA OrphanExecute == ASSUME TypeOK, OrphanInv, NEW e \in Executors, ExecuteStep(e) PROVE OrphanInv'
  <1>0. exec \in [Executors -> ExecState] /\ runs \in Seq(RunRow)
    BY DEF TypeOK
  <1>1. exec[e].pc # "idle" /\ \A d \in Executors : d # e => exec'[d] = exec[d]
    BY ExecuteQuiet
  <1>2. exec[e] \in Busy /\ exec[e].run \in Nat /\ budget' = budget
    BY <1>0, <1>1, ExecUpdate
       DEF ExecuteStep, GetRow, CreateRun, AcquireSem, GiveUpSem, StartRun, RunGraph, FinishRun, UpdateLastFired
  <1>3. NoFaultYet => \A d \in Executors : ~exec[d].expired
    BY DEF OrphanInv
  <1>4. ASSUME exec'[e].expired => exec[e].expired PROVE NoFaultYet => \A d \in Executors : ~exec'[d].expired
    BY <1>1, <1>3, <1>4
  <1>5. \A i : i # exec[e].run => \A d \in Executors : Works(d, i) => Works(d, i)'
    BY <1>1 DEF Works
  <1>6. CASE GetRow(e) \/ UpdateLastFired(e)
    <2>1. runs' = runs /\ exec[e].pc \notin {"sem", "start", "graph", "finish"}
      BY <1>6 DEF GetRow, UpdateLastFired, db
    <2>2. \/ exec' = Failed(e) \/ exec'[e] = Idle
          \/ \E p \in BusyPc : exec'[e] = [exec[e] EXCEPT !.pc = p]
      BY <1>0, <1>6 DEF GetRow, UpdateLastFired, BusyPc
    <2>3. exec'[e].expired => exec[e].expired
      <3>1. CASE exec' = Failed(e)
        BY <1>2, <3>1, EndIs
      <3>2. CASE exec'[e] = Idle
        BY <1>2, <3>2, MoveIs
      <3>3. ASSUME NEW p \in BusyPc, exec'[e] = [exec[e] EXCEPT !.pc = p] PROVE exec'[e].expired => exec[e].expired
        BY <1>2, <3>3, MoveIs
      <3> QED
        BY <2>2, <3>1, <3>2, <3>3
    <2> QED
      BY <1>1, <1>2, <2>1, <2>3, OrphanMove
  <1>7. CASE CreateRun(e)
    <2>0. exec[e].pc = "create"
      BY <1>7 DEF CreateRun
    <2>1. CASE exec' = Failed(e) /\ runs' = runs
      BY <1>1, <1>2, <2>0, <2>1, EndIs, OrphanMove
    <2>2. CASE /\ runs' = Append(runs, [wf |-> exec[e].wf, status |-> "pending"])
               /\ exec' = [exec EXCEPT ![e].pc = "sem", ![e].run = Len(runs) + 1]
      <3>0. Len(runs) + 1 \in Nat /\ "sem" \in BusyPc
        BY <1>0 DEF BusyPc
      <3>1. exec'[e] = [exec[e] EXCEPT !.pc = "sem", !.run = Len(runs) + 1]
        BY <1>0, <2>2
      <3>2. exec'[e].pc = "sem" /\ exec'[e].run = Len(runs) + 1 /\ (exec'[e].expired => exec[e].expired)
        BY <1>2, <3>0, <3>1, MoveIs
      <3>3. \A i : Unfinished(i)' => i = Len(runs) + 1 \/ Unfinished(i)
        BY <1>0, <2>2 DEF Unfinished
      <3>4. exec'[e].pc \in {"sem", "start", "graph", "finish"} /\ exec'[e].run = Len(runs) + 1
        BY <3>2
      <3>5. \A i : Unfinished(i)' =>
              \/ Unfinished(i) /\ \A d \in Executors : Works(d, i) => Works(d, i)'
              \/ \E d \in Executors : Works(d, i)'
        <4>1. \A i : \A d \in Executors : Works(d, i) => Works(d, i)'
          BY <1>1, <2>0 DEF Works
        <4>2. \A i : i = Len(runs) + 1 => Works(e, i)'
          BY <3>4 DEF Works
        <4> QED
          BY <3>3, <4>1, <4>2
      <3> QED
        BY <1>2, <1>4, <3>2, <3>5, OrphanStep
    <2> QED
      BY <1>7, <2>1, <2>2 DEF CreateRun
  <1>8. CASE AcquireSem(e) \/ StartRun(e) \/ RunGraph(e)
    <2>1. /\ exec'[e].pc \in {"start", "graph", "finish"} /\ exec'[e].run = exec[e].run
          /\ exec'[e].expired => exec[e].expired
      <3>1. CASE AcquireSem(e) \/ StartRun(e)
        <4>1. \E p \in {"start", "graph"} : exec'[e] = [exec[e] EXCEPT !.pc = p]
          BY <1>0, <3>1 DEF AcquireSem, StartRun
        <4> QED
          BY <1>2, <4>1, MoveIs DEF BusyPc
      <3>2. CASE RunGraph(e)
        <4>1. PICK ok \in BOOLEAN : exec' = [exec EXCEPT ![e].pc = "finish", ![e].ok = ok]
          BY <3>2 DEF RunGraph
        <4>2. exec'[e] = [exec[e] EXCEPT !.pc = "finish", !.ok = ok]
          BY <1>0, <4>1
        <4> QED
          BY <1>2, <4>2, MoveIs DEF BusyPc
      <3> QED
        BY <1>8, <3>1, <3>2
    <2>2. \A i : Unfinished(i)' => Unfinished(i) \/ i = exec[e].run
      <3>1. CASE runs' = runs
        BY <3>1 DEF Unfinished
      <3>2. CASE runs' = [runs EXCEPT ![exec[e].run].status = "running"]
        <4>1. DOMAIN runs' = DOMAIN runs /\ \A i \in DOMAIN runs : i # exec[e].run => runs'[i] = runs[i]
          BY <1>0, <3>2
        <4> QED
          BY <4>1 DEF Unfinished
      <3> QED
        BY <1>8, <3>1, <3>2 DEF AcquireSem, StartRun, RunGraph, db
    <2>3. \A i : i = exec[e].run => Works(e, i)'
      BY <2>1 DEF Works
    <2>4. \A i : Unfinished(i)' =>
            \/ Unfinished(i) /\ \A d \in Executors : Works(d, i) => Works(d, i)'
            \/ \E d \in Executors : Works(d, i)'
      BY <1>5, <2>2, <2>3
    <2> QED
      BY <1>2, <1>4, <2>1, <2>4, OrphanStep
  <1>9. CASE GiveUpSem(e) \/ FinishRun(e)
    <2>1. exec' = Failed(e) \/ exec' = Returned(e)
      BY <1>9 DEF GiveUpSem, FinishRun
    <2>2. exec'[e].expired => exec[e].expired
      BY <1>2, <2>1, EndIs
    <2>3. ASSUME NoFaultYet, NEW i, Unfinished(i)' PROVE i # exec[e].run /\ Unfinished(i)
      <3>0. ~exec[e].expired
        BY <1>3, <2>3
      <3>1. FinishRun(e)
        BY <1>9, <3>0 DEF GiveUpSem
      <3>2. CASE ~Writable(e)
        <4>1. runs' = runs /\ runs[exec[e].run].status = "cascaded"
          BY <3>0, <3>1, <3>2 DEF FinishRun, Writable
        <4> QED
          BY <2>3, <4>1 DEF Unfinished
      <3>3. CASE Writable(e)
        <4>0. PICK st \in {"success", "failed"} : runs' = [runs EXCEPT ![exec[e].run].status = st]
          BY <3>1, <3>3 DEF FinishRun
        <4>1. DOMAIN runs' = DOMAIN runs /\ \A k \in DOMAIN runs : k # exec[e].run => runs'[k] = runs[k]
          BY <1>0, <4>0
        <4>2. exec[e].run \in DOMAIN runs => runs'[exec[e].run].status = st
          <5>1. exec[e].run \in DOMAIN runs => runs[exec[e].run] \in RunRow
            BY <1>0
          <5>2. \A row \in RunRow : [row EXCEPT !.status = st].status = st
            BY DEF RunRow
          <5>3. exec[e].run \in DOMAIN runs => runs'[exec[e].run] = [runs[exec[e].run] EXCEPT !.status = st]
            BY <1>0, <4>0
          <5> QED
            BY <5>1, <5>2, <5>3
        <4> QED
          BY <2>3, <4>1, <4>2 DEF Unfinished
      <3> QED
        BY <3>2, <3>3
    <2> QED
      BY <1>2, <1>4, <1>5, <2>2, <2>3, OrphanStep
  <1> QED
    BY <1>6, <1>7, <1>8, <1>9 DEF ExecuteStep

LEMMA OrphanNext == ASSUME TypeOK, OrphanInv, [Next]_vars PROVE OrphanInv'
  <1>0. exec \in [Executors -> ExecState] /\ runs \in Seq(RunRow) /\ budget \in Budget
        /\ budget.faults \in Nat /\ budget.expiries \in Nat
    BY DEF TypeOK, Budget
  <1>1. ASSUME exec' = exec, runs' = runs, budget'.faults = budget.faults, budget'.expiries = budget.expiries
        PROVE  OrphanInv'
    BY <1>1 DEF OrphanInv, NoFaultYet, Works, Unfinished
  <1>2. CASE UNCHANGED vars
    BY <1>1, <1>2 DEF vars
  <1>3. CASE AdvanceClock \/ SchedList \/ SchedNow \/ \E s \in sched.todo : SchedSkip(s) \/ SchedEnqueue(s)
    BY <1>1, <1>3 DEF AdvanceClock, SchedList, SchedNow, SchedSkip, SchedEnqueue, db
  <1>4. CASE \/ \E f \in Workflows, c \in Schedules : CreateWorkflow(f, c)
             \/ \E u \in Editors : EditWrite(u)
             \/ \E u \in Editors, f \in Workflows, c \in Schedules : EditRead(u, f, c)
    <2>1. exec' = exec /\ runs' = runs /\ (budget' = budget \/ budget' = [budget EXCEPT !.edits = @ - 1])
      BY <1>4 DEF CreateWorkflow, EditWrite, EditRead, db
    <2> QED
      BY <1>0, <1>1, <2>1 DEF Budget
  <1>5. ASSUME NEW f \in Workflows, DeleteWorkflow(f) PROVE OrphanInv'
    <2>1. budget'.faults = budget.faults /\ budget'.expiries = budget.expiries /\ exec' = exec
      BY <1>0, <1>5 DEF DeleteWorkflow, Budget
    <2>2. runs' = [i \in DOMAIN runs |->
                     IF runs[i].wf = f THEN [runs[i] EXCEPT !.status = "cascaded"] ELSE runs[i]]
      BY <1>5 DEF DeleteWorkflow
    <2>3. \A i \in DOMAIN runs : runs[i] \in RunRow
      BY <1>0
    <2>4. \A i \in DOMAIN runs : runs'[i] = runs[i] \/ runs'[i].status = "cascaded"
      BY <2>2, <2>3 DEF RunRow
    <2>5. \A i : Unfinished(i)' => Unfinished(i)
      BY <2>2, <2>4 DEF Unfinished
    <2> QED
      BY <2>1, <2>5 DEF OrphanInv, NoFaultYet, Works
  <1>6. ASSUME NEW w \in Workers, ClaimNext(w) PROVE OrphanInv'
    <2>1. \E k \in Keys : exec' = [exec EXCEPT ![w] = [Idle EXCEPT !.pc = "get", !.wf = k[1], !.tick = k[2]]]
      BY <1>6 DEF ClaimNext
    <2>2. ~exec'[w].expired /\ exec[w].pc = "idle" /\ budget' = budget /\ runs' = runs
          /\ \A d \in Executors : d # w => exec'[d] = exec[d]
      BY <1>0, <1>6, <2>1, WorkersApart DEF ClaimNext, Idle
    <2> QED
      BY <2>2, OrphanMove, WorkersApart
  <1>7. ASSUME NEW w \in Workers, Mark(w) PROVE OrphanInv'
    <2>1. ~exec'[w].expired /\ exec[w].pc \in {"markDone", "markError"} /\ budget' = budget /\ runs' = runs
          /\ \A d \in Executors : d # w => exec'[d] = exec[d]
      BY <1>0, <1>7, WorkersApart DEF Mark, Idle
    <2> QED
      BY <2>1, OrphanMove, WorkersApart
  <1>8. ASSUME NEW c \in Callers, NEW f \in Workflows, RunByHand(c, f) PROVE OrphanInv'
    <2>1. ~exec'[c].expired /\ exec[c].pc = "idle" /\ budget' = budget /\ runs' = runs
          /\ \A d \in Executors : d # c => exec'[d] = exec[d]
      BY <1>0, <1>8, WorkersApart DEF RunByHand, Idle, db
    <2> QED
      BY <2>1, OrphanMove, WorkersApart
  <1>9. ASSUME NEW s \in sched.todo, SchedRunDirect(s) PROVE OrphanInv'
    <2>1. ~exec'[Scheduler].expired /\ exec[Scheduler].pc = "idle" /\ budget' = budget /\ runs' = runs
          /\ \A d \in Executors : d # Scheduler => exec'[d] = exec[d]
      BY <1>0, <1>9, WorkersApart DEF SchedRunDirect, Idle, db
    <2> QED
      BY <2>1, OrphanMove, WorkersApart
  <1>10. CASE \/ \E w \in Workers : MarkLost(w)
              \/ \E e \in Executors : Expire(e)
              \/ Restart
    <2>1. \/ budget'.faults = budget.faults - 1 /\ budget'.expiries = budget.expiries
          \/ budget'.faults = budget.faults /\ budget'.expiries = budget.expiries - 1
      BY <1>0, <1>10 DEF MarkLost, Expire, Restart, Budget
    <2> QED
      BY <1>0, <2>1, ConstantsAssumption DEF OrphanInv, NoFaultYet
  <1> QED
    BY <1>2, <1>3, <1>4, <1>5, <1>6, <1>7, <1>8, <1>9, <1>10, OrphanExecute, WorkersApart
       DEF Next, WorkerStep, SchedulerStep, Environment

\* As long as no context expired, no write was lost and the process stayed up,
\* a run row that is not finished has a goroutine working on it.
THEOREM RunsAreAttended == Spec => []NoOrphanRun
  <1>1. OrphanInv => NoOrphanRun
    BY DEF OrphanInv, NoOrphanRun, Unfinished, Works
  <1>2. TypeOK /\ OrphanInv /\ [Next]_vars => OrphanInv'
    BY OrphanNext
  <1> QED
    BY <1>1, <1>2, OrphanInvInit, TypeCorrect, PTL DEF Spec

-----------------------------------------------------------------------------
(* schedule_last_fired_at moves past a tick.                               *)

\* Without the queue the scheduler runs what it found due.  What it has read is
\* what the table holds, one snapshot per workflow, and it runs none of those.
DueNow(f) ==
  wf[f].cron \in Crons /\ \E t \in CronTicks[wf[f].cron] : Anchor(wf[f]) < t /\ t <= clock

DirectInv ==
  /\ \A k \in Keys : item[k].status = "none"
  /\ \A f \in Workflows : wf[f].state = "new" => wf[f].fired = Never
  /\ sched.now <= clock
  /\ \A s \in sched.todo :
       /\ wf[s.wf].state # "new"
       /\ s.wf \notin edited => s.cron = wf[s.wf].cron /\ s.anchor = Anchor(wf[s.wf])
       /\ \A t \in sched.todo : s.wf = t.wf => s = t
  /\ exec[Scheduler].pc # "idle" =>
       /\ wf[exec[Scheduler].wf].state # "new"
       /\ exec[Scheduler].wf \notin edited => DueNow(exec[Scheduler].wf)
       /\ \A s \in sched.todo : s.wf # exec[Scheduler].wf

LEMMA DirectInvInit == Init => DirectInv
  BY ConstantsAssumption, WorkersApart DEF Init, DirectInv, NoItem, Idle, IdleSched

\* A step that fires nothing: workflows keep their schedule, count as edited or
\* are new, and the scheduler goes on with what it has.
LEMMA DirectKept ==
  ASSUME TypeOK, DirectInv, item' = item, edited \subseteq edited', clock \in Nat, clock' \in Nat, clock <= clock',
         \A f \in Workflows : \/ f \in edited' /\ wf'[f].state # "new"
                              \/ SameSchedule(f) /\ (wf'[f].state = "new" => wf[f].state = "new")
                              \/ wf[f].state = "new" /\ wf'[f].fired = Never,
         sched'.todo \subseteq sched.todo, sched'.now \in Nat, sched'.now <= clock',
         exec'[Scheduler].pc # "idle" => exec[Scheduler].pc # "idle" /\ exec'[Scheduler].wf = exec[Scheduler].wf
  PROVE  DirectInv'
  <1>0. /\ \A s \in sched.todo : s.wf \in Workflows
        /\ exec[Scheduler].pc # "idle" => exec[Scheduler].wf \in Workflows
    <2>1. exec[Scheduler] \in ExecState
      BY WorkersApart DEF TypeOK
    <2> QED
      BY <2>1, BusyIsTyped DEF TypeOK, SchedState, Snapshot, Busy
  <1>1. \A f \in Workflows : SameSchedule(f) => Anchor(wf'[f]) = Anchor(wf[f])
    BY DEF SameSchedule, Anchor
  <1>2. (\A k \in Keys : item[k].status = "none")' /\ \A f \in Workflows : wf'[f].state = "new" => wf'[f].fired = Never
    BY DEF DirectInv, SameSchedule
  <1>3. ASSUME NEW s \in sched'.todo
        PROVE  /\ wf'[s.wf].state # "new"
               /\ s.wf \notin edited' => s.cron = wf'[s.wf].cron /\ s.anchor = Anchor(wf'[s.wf])
               /\ \A t \in sched'.todo : s.wf = t.wf => s = t
    <2>1. s \in sched.todo /\ s.wf \in Workflows /\ wf[s.wf].state # "new"
      BY <1>0 DEF DirectInv
    <2>2. s.wf \notin edited' => s.cron = wf[s.wf].cron /\ s.anchor = Anchor(wf[s.wf]) /\ SameSchedule(s.wf)
      BY <2>1 DEF DirectInv
    <2>3. wf'[s.wf].state # "new" /\ \A t \in sched'.todo : s.wf = t.wf => s = t
      BY <2>1 DEF DirectInv, SameSchedule
    <2> QED
      BY <1>1, <2>1, <2>2, <2>3 DEF SameSchedule
  <1>4. ASSUME exec'[Scheduler].pc # "idle"
        PROVE  /\ wf'[exec'[Scheduler].wf].state # "new"
               /\ exec'[Scheduler].wf \notin edited' =>
                    /\ wf'[exec'[Scheduler].wf].cron \in Crons
                    /\ \E t \in CronTicks[wf'[exec'[Scheduler].wf].cron] :
                         Anchor(wf'[exec'[Scheduler].wf]) < t /\ t <= clock'
               /\ \A s \in sched'.todo : s.wf # exec'[Scheduler].wf
    <2> DEFINE f == exec[Scheduler].wf
    <2>1. f \in Workflows /\ exec'[Scheduler].wf = f /\ wf[f].state # "new" /\ \A s \in sched.todo : s.wf # f
      BY <1>0, <1>4 DEF DirectInv
    <2>2. f \notin edited' => SameSchedule(f) /\ DueNow(f)
      BY <1>4, <2>1 DEF DirectInv
    <2>3. ASSUME f \notin edited'
          PROVE  wf'[f].cron \in Crons /\ \E t \in CronTicks[wf'[f].cron] : Anchor(wf'[f]) < t /\ t <= clock'
      <3>1. PICK t \in CronTicks[wf[f].cron] : Anchor(wf[f]) < t /\ t <= clock
        BY <2>2, <2>3 DEF DueNow
      <3>2. wf'[f].cron = wf[f].cron /\ Anchor(wf'[f]) = Anchor(wf[f])
        BY <1>1, <2>1, <2>2, <2>3 DEF SameSchedule
      <3>3. wf[f].cron \in Crons
        BY <2>2, <2>3 DEF DueNow
      <3> QED
        BY <3>1, <3>2, <3>3, ConstantsAssumption
    <2>4. wf'[f].state # "new"
      BY <2>1 DEF SameSchedule
    <2> HIDE DEF f
    <2> QED
      BY <2>1, <2>3, <2>4
  <1>5. DirectInv' <=>
          /\ (\A k \in Keys : item[k].status = "none")'
          /\ \A f \in Workflows : wf'[f].state = "new" => wf'[f].fired = Never
          /\ sched'.now <= clock'
          /\ \A s \in sched'.todo :
               /\ wf'[s.wf].state # "new"
               /\ s.wf \notin edited' => s.cron = wf'[s.wf].cron /\ s.anchor = Anchor(wf'[s.wf])
               /\ \A t \in sched'.todo : s.wf = t.wf => s = t
          /\ exec'[Scheduler].pc # "idle" =>
               /\ wf'[exec'[Scheduler].wf].state # "new"
               /\ exec'[Scheduler].wf \notin edited' =>
                    /\ wf'[exec'[Scheduler].wf].cron \in Crons
                    /\ \E t \in CronTicks[wf'[exec'[Scheduler].wf].cron] :
                         Anchor(wf'[exec'[Scheduler].wf]) < t /\ t <= clock'
               /\ \A s \in sched'.todo : s.wf # exec'[Scheduler].wf
    BY DEF DirectInv, DueNow, Anchor
  <1> QED
    BY <1>2, <1>3, <1>4, <1>5


\* What a step of RunWorkflow.Execute that fires nothing makes of the scheduler.
LEMMA DirectExecute ==
  ASSUME TypeOK, DirectInv, NEW e \in Executors, ExecuteStep(e), wf' = wf PROVE DirectInv'
  <1>1. /\ item' = item /\ edited' = edited /\ sched' = sched /\ exec[e].pc # "idle"
        /\ \A d \in Executors : d # e => exec'[d] = exec[d]
    BY ExecuteQuiet
  <1>2. clock' = clock
    BY DEF ExecuteStep, GetRow, CreateRun, AcquireSem, GiveUpSem, StartRun, RunGraph, FinishRun, UpdateLastFired
  <1>3. exec \in [Executors -> ExecState] /\ exec[e] \in Busy
    BY <1>1, BusyIsTyped DEF TypeOK
  <1>4. exec'[e].pc # "idle" => exec'[e].wf = exec[e].wf
    <2>1. \/ exec' = Failed(e) \/ exec' = Returned(e) \/ exec' = [exec EXCEPT ![e] = Idle]
          \/ \E p \in BusyPc : exec' = [exec EXCEPT ![e].pc = p]
          \/ \E p \in BusyPc : \E i : exec' = [exec EXCEPT ![e].pc = p, ![e].run = i]
          \/ \E p \in BusyPc : \E b : exec' = [exec EXCEPT ![e].pc = p, ![e].ok = b]
      BY DEF ExecuteStep, GetRow, CreateRun, AcquireSem, GiveUpSem, StartRun, RunGraph, FinishRun, UpdateLastFired, BusyPc
    <2>2. exec'[e] = Idle \/ exec'[e].wf = exec[e].wf
      BY <1>3, <2>1 DEF Failed, Returned, Busy
    <2> QED
      BY <2>2 DEF Idle
  <1>5. exec'[Scheduler].pc # "idle" => exec[Scheduler].pc # "idle" /\ exec'[Scheduler].wf = exec[Scheduler].wf
    BY <1>1, <1>4, WorkersApart
  <1>6. sched.now \in Nat /\ clock \in Nat /\ sched.now <= clock
    BY ClockTyped DEF TypeOK, SchedState, DirectInv
  <1>7. \A f \in Workflows : SameSchedule(f) /\ (wf'[f].state = "new" => wf[f].state = "new")
    BY DEF SameSchedule
  <1> QED
    BY <1>1, <1>2, <1>5, <1>6, <1>7, DirectKept

\* The scheduler writes the current time: the tick it ran for is behind it.
LEMMA DirectFire ==
  ASSUME TypeOK, DirectInv, NEW e \in Executors, e \notin Workers, UpdateLastFired(e), wf' # wf
  PROVE  /\ DirectInv'
         /\ \A f \in Workflows \ edited' : wf'[f].fired # wf[f].fired =>
              \E t \in CronTicks[wf[f].cron] : Anchor(wf[f]) < t /\ t <= wf'[f].fired
  <1> DEFINE f == exec[Scheduler].wf
  <1>0. wf \in [Workflows -> WfRow] /\ exec \in [Executors -> ExecState] /\ clock \in Nat
    BY ClockTyped DEF TypeOK
  <1>1. e = Scheduler
    BY DEF UpdateLastFired, Executors
  <1>2. /\ exec[Scheduler].pc = "fired" /\ wf[f].state = "live" /\ wf' = [wf EXCEPT ![f].fired = clock]
        /\ exec' = [exec EXCEPT ![Scheduler] = Idle]
        /\ clock' = clock /\ item' = item /\ sched' = sched /\ edited' = edited
    BY <1>1, WorkersApart DEF UpdateLastFired
  <1>3. f \in Workflows
    BY <1>0, <1>2, BusyIsTyped, WorkersApart DEF Busy
  <1>4. f \notin edited => DueNow(f)
    BY <1>2 DEF DirectInv
  <1>5. \A s \in sched.todo : s.wf # f /\ s.wf \in Workflows
    BY <1>2 DEF DirectInv, TypeOK, SchedState, Snapshot
  <1>6. exec'[Scheduler].pc = "idle"
    BY <1>0, <1>2, WorkersApart DEF Idle
  <1> HIDE DEF f
  <1>7. (\A g \in Workflows : g # f => wf'[g] = wf[g]) /\ wf'[f].state = "live" /\ wf'[f].fired = clock
    BY <1>0, <1>2, <1>3 DEF WfRow
  <1>8. \A g \in Workflows : g # f => Anchor(wf'[g]) = Anchor(wf[g])
    BY <1>7 DEF Anchor
  <1>9. DirectInv'
    BY <1>2, <1>5, <1>6, <1>7, <1>8 DEF DirectInv
  <1>10. ASSUME NEW g \in Workflows, g \notin edited, wf'[g].fired # wf[g].fired
         PROVE  \E t \in CronTicks[wf[g].cron] : Anchor(wf[g]) < t /\ t <= wf'[g].fired
    BY <1>4, <1>7, <1>10 DEF DueNow
  <1> QED
    BY <1>2, <1>9, <1>10

LEMMA HandledLeaves ==
  ASSUME sched \in SchedState, NEW s \in sched.todo, Handled(s)
  PROVE  sched'.todo = sched.todo \ {s} /\ (sched'.now = 0 \/ sched'.now = sched.now)
  <1>1. CASE sched.todo = {s}
    BY <1>1 DEF Handled, IdleSched
  <1>2. CASE sched.todo # {s}
    <2>1. sched' = [sched EXCEPT !.todo = @ \ {s}]
      BY <1>2 DEF Handled
    <2>2. sched'.todo = sched.todo \ {s}
      BY <2>1 DEF SchedState
    <2>3. sched'.now = sched.now
      BY <2>1 DEF SchedState
    <2> QED
      BY <2>2, <2>3
  <1> QED
    BY <1>1, <1>2

LEMMA DirectScheduler ==
  ASSUME ~QueueEnabled, TypeOK, DirectInv,
         SchedList \/ SchedNow \/ \E s \in sched.todo : SchedSkip(s) \/ SchedRunDirect(s)
  PROVE  DirectInv'
  <1>0. sched \in SchedState /\ sched.todo \subseteq Snapshot /\ sched.now \in Nat /\ clock \in Nat /\ sched.now <= clock
        /\ exec \in [Executors -> ExecState]
    BY ClockTyped DEF TypeOK, SchedState, DirectInv
  <1>1. wf' = wf /\ item' = item /\ edited' = edited /\ clock' = clock
    <2>1. CASE SchedList \/ SchedNow
      BY <2>1 DEF SchedList, SchedNow, db
    <2>2. ASSUME NEW s \in sched.todo, SchedSkip(s) \/ SchedRunDirect(s)
          PROVE  wf' = wf /\ item' = item /\ edited' = edited /\ clock' = clock
      BY <2>2 DEF SchedSkip, SchedRunDirect, db
    <2> QED
      BY <2>1, <2>2
  <1>2. \A f \in Workflows : SameSchedule(f) /\ (wf'[f].state = "new" => wf[f].state = "new")
    BY <1>1 DEF SameSchedule
  <1>3. CASE SchedList
    <2>1. exec' = exec /\ exec[Scheduler].pc = "idle" /\ sched'.todo = {SnapshotOf(f) : f \in Schedulable} /\ sched'.now = 0
      BY <1>3 DEF SchedList
    <2>2. \A f \in Schedulable : /\ SnapshotOf(f).wf = f /\ SnapshotOf(f).cron = wf[f].cron
                                 /\ SnapshotOf(f).anchor = Anchor(wf[f]) /\ wf[f].state # "new"
      BY DEF SnapshotOf, Schedulable
    <2>3. \A s \in sched'.todo : s.wf \in Schedulable /\ s = SnapshotOf(s.wf)
      BY <2>1, <2>2
    <2>4. \A s \in sched'.todo : wf[s.wf].state # "new" /\ s.cron = wf[s.wf].cron /\ s.anchor = Anchor(wf[s.wf])
      BY <2>2, <2>3
    <2>5. \A s, t \in sched'.todo : s.wf = t.wf => s = t
      BY <2>3
    <2> QED
      BY <1>0, <1>1, <2>1, <2>4, <2>5 DEF DirectInv
  <1>4. CASE SchedNow \/ \E s \in sched.todo : SchedSkip(s)
    <2> SUFFICES sched'.todo \subseteq sched.todo /\ sched'.now \in Nat /\ sched'.now <= clock
      <3>1. exec' = exec
        BY <1>4 DEF SchedNow, SchedSkip
      <3> QED
        BY <1>0, <1>1, <1>2, <3>1, DirectKept
    <2>1. CASE SchedNow
      <3>1. sched' = IdleSched \/ sched' = [sched EXCEPT !.pc = "loop", !.now = clock]
        BY <2>1 DEF SchedNow
      <3>2. CASE sched' = [sched EXCEPT !.pc = "loop", !.now = clock]
        <4>1. sched'.now = clock /\ sched'.todo = sched.todo
          BY <1>0, <3>2 DEF SchedState
        <4> QED
          BY <1>0, <4>1
      <3> QED
        BY <1>0, <3>1, <3>2 DEF IdleSched
    <2>2. CASE \E s \in sched.todo : SchedSkip(s)
      <3>1. PICK s \in sched.todo : Handled(s)
        BY <2>2 DEF SchedSkip
      <3>2. sched'.todo = sched.todo \ {s} /\ (sched'.now = 0 \/ sched'.now = sched.now)
        BY <1>0, <3>1, HandledLeaves
      <3> QED
        BY <1>0, <3>2
    <2> QED
      BY <1>4, <2>1, <2>2
  <1>5. ASSUME NEW s \in sched.todo, SchedRunDirect(s) PROVE DirectInv'
    <2>1. /\ exec[Scheduler].pc = "idle" /\ exec' = [exec EXCEPT ![Scheduler] = [Idle EXCEPT !.pc = "get", !.wf = s.wf]]
          /\ \E t \in 1..sched.now : IsNextTick(s.cron, s.anchor, t)
      BY <1>5 DEF SchedRunDirect
    <2>2. exec'[Scheduler].wf = s.wf
      BY <1>0, <2>1, WorkersApart DEF Idle
    <2>3. sched'.todo = sched.todo \ {s} /\ sched'.now \in Nat /\ sched'.now <= clock
      <3>1. Handled(s)
        BY <1>5 DEF SchedRunDirect
      <3>2. sched'.todo = sched.todo \ {s} /\ (sched'.now = 0 \/ sched'.now = sched.now)
        BY <1>0, <3>1, HandledLeaves
      <3> QED
        BY <1>0, <3>2
    <2>4. s.wf \notin edited => DueNow(s.wf)
      <3> SUFFICES ASSUME s.wf \notin edited PROVE DueNow(s.wf)
        OBVIOUS
      <3>1. s.cron = wf[s.wf].cron /\ s.anchor = Anchor(wf[s.wf])
        BY DEF DirectInv
      <3>0. s.cron \in Crons /\ s.anchor \in Nat
        BY <1>0 DEF Snapshot
      <3>2. PICK t \in 1..sched.now : IsNextTick(s.cron, s.anchor, t)
        BY <2>1
      <3>3. t \in CronTicks[s.cron] /\ t > s.anchor /\ t <= clock
        <4>1. t \in Nat /\ t <= sched.now
          BY <1>0, <3>2
        <4>2. t \in CronTicks[s.cron] /\ t > s.anchor
          BY <3>2 DEF IsNextTick
        <4> QED
          BY <1>0, <4>1, <4>2
      <3> QED
        BY <3>0, <3>1, <3>3 DEF DueNow
    <2>5. wf[s.wf].state # "new" /\ \A t \in sched'.todo : t.wf # s.wf
      BY <2>3 DEF DirectInv
    <2>6. DueNow(s.wf)' <=> DueNow(s.wf)
      BY <1>1 DEF DueNow
    <2> QED
      BY <1>1, <2>2, <2>3, <2>4, <2>5 DEF DirectInv, DueNow
  <1> QED
    BY <1>3, <1>4, <1>5

\* schedule_last_fired_at of an unedited workflow that moves does so past a tick.
FiredStep ==
  \A f \in Workflows \ edited' :
    wf'[f].fired # wf[f].fired =>
      \E t \in CronTicks[wf[f].cron] : Anchor(wf[f]) < t /\ t <= wf'[f].fired

\* Handlers and clock: the scheduler is where it was.
LEMMA DirectBeside ==
  ASSUME TypeOK, DirectInv, item' = item, sched' = sched, exec'[Scheduler] = exec[Scheduler],
         edited \subseteq edited', clock' = clock \/ clock' = clock + 1,
         \A f \in Workflows : \/ f \in edited' /\ wf'[f].state # "new"
                              \/ SameSchedule(f) /\ (wf'[f].state = "new" => wf[f].state = "new")
                              \/ wf[f].state = "new" /\ wf'[f].fired = Never
  PROVE  DirectInv' /\ FiredStep
  <1>1. clock \in Nat /\ clock' \in Nat /\ clock <= clock' /\ sched.now \in Nat /\ sched.now <= clock'
    BY ClockTyped DEF TypeOK, SchedState, DirectInv
  <1>2. DirectInv'
    BY <1>1, DirectKept
  <1>3. \A f \in Workflows \ edited' : wf'[f].fired = wf[f].fired
    BY DEF SameSchedule, DirectInv
  <1> QED
    BY <1>2, <1>3 DEF FiredStep

LEMMA DirectWorkflows ==
  ASSUME TypeOK, DirectInv,
         \/ \E f \in Workflows : DeleteWorkflow(f)
         \/ \E f \in Workflows, c \in Schedules : CreateWorkflow(f, c)
         \/ \E u \in Editors : EditWrite(u)
  PROVE  DirectInv' /\ FiredStep
  <1>0. wf \in [Workflows -> WfRow]
    BY DEF TypeOK
  <1>1. CASE \E f \in Workflows : DeleteWorkflow(f)
    <2>1. PICK f \in Workflows : DeleteWorkflow(f)
      BY <1>1
    <2>2. wf' = [wf EXCEPT ![f].state = "deleted"] /\ item' = item /\ sched' = sched /\ exec' = exec
          /\ edited' = edited /\ clock' = clock
      BY <2>1 DEF DeleteWorkflow
    <2>3. \A g \in Workflows : SameSchedule(g) /\ (wf'[g].state = "new" => wf[g].state = "new")
      BY <1>0, <2>2 DEF SameSchedule, WfRow
    <2> QED
      BY <2>2, <2>3, DirectBeside
  <1>2. CASE \E f \in Workflows, c \in Schedules : CreateWorkflow(f, c)
    <2>1. PICK f \in Workflows, c \in Schedules : CreateWorkflow(f, c)
      BY <1>2
    <2>2. /\ wf[f].state = "new"
          /\ wf' = [wf EXCEPT ![f] = [state |-> "live", cron |-> c, created |-> clock, fired |-> Never]]
          /\ item' = item /\ sched' = sched /\ exec' = exec /\ edited' = edited /\ clock' = clock
      BY <2>1 DEF CreateWorkflow
    <2>3. \A g \in Workflows : \/ SameSchedule(g) /\ (wf'[g].state = "new" => wf[g].state = "new")
                               \/ wf[g].state = "new" /\ wf'[g].fired = Never
      BY <1>0, <2>2 DEF SameSchedule
    <2> QED
      BY <2>2, <2>3, DirectBeside
  <1>3. CASE \E u \in Editors : EditWrite(u)
    <2>1. PICK u \in Editors : EditWrite(u)
      BY <1>3
    <2>2. item' = item /\ sched' = sched /\ exec' = exec /\ clock' = clock /\ edited \subseteq edited'
      BY <2>1 DEF EditWrite
    <2>3. \A g \in Workflows : \/ g \in edited' /\ wf'[g].state # "new"
                               \/ SameSchedule(g) /\ (wf'[g].state = "new" => wf[g].state = "new")
      <3> DEFINE f == edit[u].wf
      <3>1. CASE wf' = wf
        BY <3>1 DEF SameSchedule
      <3>2. CASE wf' # wf
        <4>1. /\ wf[f].state = "live" /\ wf' = [wf EXCEPT ![f].cron = edit[u].cron]
              /\ edited' = IF edit[u].cron = wf[f].cron THEN edited ELSE edited \cup {f}
          BY <2>1, <3>2 DEF EditWrite
        <4> HIDE DEF f
        <4>2. \A g \in Workflows : g # f => wf'[g] = wf[g]
          BY <1>0, <4>1
        <4>3. f \in Workflows =>
                /\ wf'[f].state = "live" /\ wf'[f].created = wf[f].created
                /\ wf'[f].fired = wf[f].fired /\ wf'[f].cron = edit[u].cron
          BY <1>0, <4>1 DEF WfRow
        <4> QED
          BY <4>1, <4>2, <4>3 DEF SameSchedule
      <3> QED
        BY <3>1, <3>2
    <2> QED
      BY <2>2, <2>3, DirectBeside
  <1> QED
    BY <1>1, <1>2, <1>3

\* The other steps beside the scheduler, which write nothing about schedules.
LEMMA DirectQuiet ==
  ASSUME TypeOK, DirectInv,
         \/ UNCHANGED vars \/ AdvanceClock \/ Restart
         \/ \E u \in Editors, f \in Workflows, c \in Schedules : EditRead(u, f, c)
         \/ \E c \in Callers, f \in Workflows : RunByHand(c, f)
         \/ \E e \in Executors : Expire(e)
  PROVE  DirectInv' /\ FiredStep
  <1>0. exec \in [Executors -> ExecState] /\ clock \in Nat
    BY ClockTyped DEF TypeOK
  <1>1. wf' = wf /\ item' = item /\ edited' = edited /\ (clock' = clock \/ clock' = clock + 1)
    BY DEF vars, db, AdvanceClock, Restart, EditRead, RunByHand, Expire
  <1>2. \A f \in Workflows : SameSchedule(f) /\ (wf'[f].state = "new" => wf[f].state = "new")
    BY <1>1 DEF SameSchedule
  <1>3. CASE Restart
    <2>1. exec'[Scheduler].pc = "idle" /\ sched'.todo = {} /\ sched'.now = 0
      BY <1>3, WorkersApart DEF Restart, Idle, IdleSched
    <2>2. DirectInv'
      BY <1>0, <1>1, <1>2, <2>1, DirectKept
    <2> QED
      BY <1>1, <2>2 DEF FiredStep
  <1>4. CASE ~Restart
    <2>1. sched' = sched
      BY <1>4 DEF vars, AdvanceClock, EditRead, RunByHand, Expire
    <2>2. exec'[Scheduler] = exec[Scheduler]
      <3>1. CASE \E c \in Callers, f \in Workflows : RunByHand(c, f)
        BY <1>0, <3>1, WorkersApart DEF RunByHand
      <3>2. CASE \E e \in Executors : Expire(e)
        BY <1>0, <3>2, WorkersApart DEF Expire
      <3>3. CASE exec' = exec
        BY <3>3
      <3> QED
        BY <1>4, <3>1, <3>2, <3>3 DEF vars, AdvanceClock, EditRead
    <2> QED
      BY <1>1, <1>2, <2>1, <2>2, DirectBeside
  <1> QED
    BY <1>3, <1>4

\* One step of the system without the queue.
LEMMA DirectNext ==
  ASSUME ~QueueEnabled, TypeOK, ClaimInv, DirectInv, [Next]_vars PROVE DirectInv' /\ FiredStep
  <1>1. \A w \in Workers : exec[w].pc = "idle"
    BY DEF ClaimInv, DirectInv
  <1>2. \A k \in Keys : ~Claimable(k)
    BY DEF DirectInv, Claimable
  <1>3. CASE \E w \in Workers : WorkerStep(w) \/ MarkLost(w)
    <2>1. PICK w \in Workers : WorkerStep(w) \/ MarkLost(w)
      BY <1>3
    <2>2. ~ExecuteStep(w)
      BY <1>1, <2>1, ExecuteQuiet, WorkersApart
    <2> QED
      BY <1>1, <1>2, <2>1, <2>2 DEF WorkerStep, ClaimNext, Mark, MarkLost
  <1>4. ASSUME NEW e \in Executors, e \notin Workers, ExecuteStep(e) PROVE DirectInv' /\ FiredStep
    <2>1. CASE wf' = wf
      <3>1. DirectInv'
        BY <1>4, <2>1, DirectExecute
      <3> QED
        BY <2>1, <3>1 DEF FiredStep
    <2>2. CASE wf' # wf
      <3>1. UpdateLastFired(e)
        BY <1>4, <2>2, ExecuteQuiet
      <3> QED
        BY <1>4, <2>2, <3>1, DirectFire DEF FiredStep
    <2> QED
      BY <2>1, <2>2
  <1>5. CASE SchedList \/ SchedNow \/ \E s \in sched.todo : SchedSkip(s) \/ SchedRunDirect(s)
    <2>1. DirectInv'
      BY <1>5, DirectScheduler
    <2>2. wf' = wf
      BY <1>5 DEF SchedList, SchedNow, SchedSkip, SchedRunDirect, db
    <2> QED
      BY <2>1, <2>2 DEF FiredStep
  <1>6. \A s \in sched.todo : ~SchedEnqueue(s)
    BY DEF SchedEnqueue
  <1> QED
    BY <1>3, <1>4, <1>5, <1>6, DirectWorkflows, DirectQuiet, WorkersApart
       DEF Next, SchedulerStep, Environment

LEMMA DirectInvCorrect == ASSUME ~QueueEnabled PROVE Spec => []DirectInv
  <1>1. TypeOK /\ ClaimInv /\ DirectInv /\ [Next]_vars => DirectInv'
    BY DirectNext
  <1> QED
    BY <1>1, DirectInvInit, TypeCorrect, ClaimInvCorrect, PTL DEF Spec

\* With the queue, a worker writes the tick it ran, which was the next one.
LEMMA QueuedFire ==
  ASSUME TypeOK, ClaimInv, ScheduleInv, NEW w \in Workers, UpdateLastFired(w), wf' # wf
  PROVE  FiredStep
  <1> DEFINE f == exec[w].wf
             t == exec[w].tick
  <1>0. wf \in [Workflows -> WfRow]
    BY DEF TypeOK
  <1>1. exec[w].pc = "fired" /\ wf' = [wf EXCEPT ![f].fired = t] /\ edited' = edited
    BY DEF UpdateLastFired
  <1>2. KeyOf(w) = <<f, t>> /\ f \in Workflows /\ t \in Nat
    BY <1>1, KeyTyped DEF ClaimInv, KeyOf
  <1>3. f \notin edited => IsUpcoming(KeyOf(w))
    BY <1>1 DEF ScheduleInv, FiringInv, f
  <1>4. f \notin edited => t \in CronTicks[wf[f].cron] /\ Anchor(wf[f]) < t
    <2> SUFFICES ASSUME f \notin edited PROVE t \in CronTicks[wf[f].cron] /\ Anchor(wf[f]) < t
      OBVIOUS
    <2>1. IsNextTick(wf[f].cron, Anchor(wf[f]), t)
      BY <1>2, <1>3 DEF IsUpcoming
    <2>2. Anchor(wf[f]) \in Nat
      BY <1>2, AnchorAfterCreation, <1>3 DEF IsUpcoming
    <2> QED
      BY <1>2, <2>1, <2>2 DEF IsNextTick
  <1> HIDE DEF f, t
  <1>5. (\A g \in Workflows : g # f => wf'[g] = wf[g]) /\ wf'[f].fired = t
    BY <1>0, <1>1, <1>2 DEF WfRow
  <1>6. ASSUME NEW g \in Workflows, g \notin edited, wf'[g].fired # wf[g].fired
        PROVE  \E u \in CronTicks[wf[g].cron] : Anchor(wf[g]) < u /\ u <= wf'[g].fired
    <2>1. g = f
      BY <1>5, <1>6
    <2>2. wf'[g].fired = t /\ t <= t
      BY <1>2, <1>5, <2>1
    <2> QED
      BY <1>4, <1>6, <2>1, <2>2
  <1> QED
    BY <1>1, <1>6 DEF FiredStep

LEMMA QueuedNext ==
  ASSUME QueueEnabled, TypeOK, ClaimInv, ScheduleInv, [Next]_vars PROVE FiredStep
  <1>1. CASE wf' = wf
    BY <1>1 DEF FiredStep
  <1>2. ASSUME NEW e \in Executors, ExecuteStep(e), wf' # wf PROVE FiredStep
    <2>1. UpdateLastFired(e)
      BY <1>2, ExecuteQuiet
    <2>2. e \in Workers
      BY <2>1 DEF UpdateLastFired, Executors, ScheduleInv
    <2> QED
      BY <1>2, <2>1, <2>2, QueuedFire
  <1>3. ASSUME \A f \in Workflows \ edited' : wf'[f].fired = wf[f].fired PROVE FiredStep
    BY <1>3 DEF FiredStep
  <1>4. ASSUME NEW f \in Workflows, DeleteWorkflow(f) PROVE FiredStep
    BY <1>3, <1>4 DEF DeleteWorkflow, TypeOK, WfRow
  <1>5. ASSUME NEW f \in Workflows, NEW c \in Schedules, CreateWorkflow(f, c) PROVE FiredStep
    BY <1>3, <1>5 DEF CreateWorkflow, TypeOK, ScheduleInv, NewInv
  <1>6. ASSUME NEW u \in Editors, EditWrite(u) PROVE FiredStep
    <2> DEFINE f == edit[u].wf
    <2>1. wf' = wf \/ wf' = [wf EXCEPT ![f].cron = edit[u].cron]
      BY <1>6 DEF EditWrite
    <2> HIDE DEF f
    <2>2. ASSUME NEW g \in Workflows, wf' # wf PROVE wf'[g].fired = wf[g].fired
      <3>1. wf' = [wf EXCEPT ![f].cron = edit[u].cron]
        BY <2>1, <2>2
      <3>2. g # f => wf'[g] = wf[g]
        BY <3>1 DEF TypeOK
      <3>3. g = f => wf'[g] = [wf[g] EXCEPT !.cron = edit[u].cron]
        BY <3>1 DEF TypeOK
      <3>4. wf[g] \in WfRow
        BY DEF TypeOK
      <3> QED
        BY <3>2, <3>3, <3>4 DEF WfRow
    <2> QED
      BY <1>1, <1>3, <2>2
  <1>7. CASE QuietStep \/ UNCHANGED vars
    BY <1>1, <1>7, QuietStepQuiet DEF vars
  <1>8. CASE SchedList \/ \E s \in sched.todo : SchedEnqueue(s) \/ SchedRunDirect(s)
    BY <1>1, <1>8 DEF SchedList, SchedEnqueue, SchedRunDirect, db
  <1>9. CASE \E w \in Workers : ClaimNext(w) \/ Mark(w)
    BY <1>1, <1>9 DEF ClaimNext, Mark
  <1> QED
    BY <1>1, <1>2, <1>4, <1>5, <1>6, <1>7, <1>8, <1>9, WorkersApart
       DEF Next, WorkerStep, SchedulerStep, Environment, QuietStep

\* A tick never fires early, and the direct scheduler, which writes the current
\* time, does not run again for a tick that is already behind.
THEOREM FiresOnTick == Spec => FiredOnTick
  <1>0. FiredStep <=>
          \A f \in Workflows \ edited' :
            wf'[f].fired # wf[f].fired =>
              \E t \in CronTicks[wf[f].cron] : Anchor(wf[f]) < t /\ t <= wf'[f].fired
    BY DEF FiredStep
  <1>1. CASE QueueEnabled
    <2>1. TypeOK /\ ClaimInv /\ ScheduleInv /\ [Next]_vars =>
            [\A f \in Workflows \ edited' :
               wf'[f].fired # wf[f].fired =>
                 \E t \in CronTicks[wf[f].cron] : Anchor(wf[f]) < t /\ t <= wf'[f].fired]_vars
      BY <1>0, <1>1, QueuedNext
    <2> QED
      BY <1>1, <2>1, ScheduleInvCorrect, TypeCorrect, ClaimInvCorrect, PTL DEF Spec, FiredOnTick
  <1>2. CASE ~QueueEnabled
    <2>1. TypeOK /\ ClaimInv /\ DirectInv /\ [Next]_vars =>
            [\A f \in Workflows \ edited' :
               wf'[f].fired # wf[f].fired =>
                 \E t \in CronTicks[wf[f].cron] : Anchor(wf[f]) < t /\ t <= wf'[f].fired]_vars
      BY <1>0, <1>2, DirectNext
    <2> QED
      BY <1>2, <2>1, DirectInvCorrect, TypeCorrect, ClaimInvCorrect, PTL DEF Spec, FiredOnTick
  <1> QED
    BY <1>1, <1>2

-----------------------------------------------------------------------------
(* The queue, its workers and the scheduler implement CronContract: the    *)
(* refinement that the run sq_queue checks on an instance, for every       *)
(* number of workflows, workers, callers and editors, all crons and all    *)
(* faults.                                                                 *)

-----------------------------------------------------------------------------
(* The refinement mapping, with the tables as arguments: W the workflows,  *)
(* I the queue, H the rows that workers hold, D the edited workflows.      *)

HeldKeys == {k \in Keys : \E w \in Workers : Holds(w, k)}

NextKeys(W, f) == {k \in Keys : k[1] = f /\ W[f].cron # NoCron /\ IsNextTick(W[f].cron, Anchor(W[f]), k[2])}

PhaseAt(W, I, H, f) ==
  IF \A k \in NextKeys(W, f) : I[k].status = "none" THEN "waiting"
  ELSE IF \E k \in NextKeys(W, f) : I[k].status = "queued" THEN "dispatched"
  ELSE IF \E k \in NextKeys(W, f) : I[k].status = "running" /\ k \in H THEN "started" ELSE "stalled"

Followed(W, D, f) == W[f].state = "live" /\ f \notin D

PlanAt(W, I, H, D, f) ==
  IF Followed(W, D, f)
    THEN [phase |-> PhaseAt(W, I, H, f), cron |-> W[f].cron, created |-> W[f].created, fired |-> W[f].fired]
    ELSE [phase |-> IF W[f].state = "new" THEN "off" ELSE "gone",
          cron |-> NoCron, created |-> 0, fired |-> Never]

LEMMA PlanIs ==
  /\ planOf = [f \in Workflows |-> PlanAt(wf, item, HeldKeys, edited, f)]
  /\ planOf' = [f \in Workflows |-> PlanAt(wf', item', HeldKeys', edited', f)]
  <1>1. \A f \in Workflows : PhaseOf(f) = PhaseAt(wf, item, HeldKeys, f)
    BY DEF PhaseOf, PhaseAt, UpcomingKeys, NextKeys, HeldKeys
  <1>2. \A f \in Workflows : PhaseOf(f)' = PhaseAt(wf', item', HeldKeys', f)
    BY DEF PhaseOf, PhaseAt, UpcomingKeys, NextKeys, HeldKeys
  <1> QED
    BY <1>1, <1>2 DEF planOf, PlanAt, Followed

LEMMA NextKeyUnique ==
  ASSUME NEW W \in [Workflows -> WfRow], NEW f \in Workflows, NEW j \in NextKeys(W, f), NEW k \in NextKeys(W, f)
  PROVE  j = k
  <1>0. W[f] \in WfRow
    OBVIOUS
  <1>a. W[f].cron \in Schedules /\ Anchor(W[f]) \in Nat
    BY <1>0, WfRowTyped
  <1>1. W[f].cron \in Crons /\ Anchor(W[f]) \in Int
    BY <1>a DEF NextKeys, Schedules
  <1>2. j[2] = k[2]
    BY <1>1, NextTickUnique DEF NextKeys
  <1> QED
    BY <1>2 DEF NextKeys, Keys

\* The phase of a workflow is what its next row says.
LEMMA PhaseOfKey ==
  ASSUME NEW W \in [Workflows -> WfRow], NEW I, NEW H, NEW f \in Workflows, NEW k \in NextKeys(W, f)
  PROVE  PhaseAt(W, I, H, f) = IF I[k].status = "none" THEN "waiting"
                               ELSE IF I[k].status = "queued" THEN "dispatched"
                               ELSE IF I[k].status = "running" /\ k \in H THEN "started" ELSE "stalled"
  <1>1. \A j \in NextKeys(W, f) : j = k
    BY NextKeyUnique
  <1> QED
    BY <1>1 DEF PhaseAt

\* A workflow whose row, next rows and workers stay as they are.
LEMMA PlanFrame ==
  ASSUME NEW W, NEW W2, NEW I, NEW I2, NEW H, NEW H2, NEW D, NEW D2, NEW f,
         W2[f] = W[f], f \in D2 <=> f \in D,
         Followed(W, D, f) => \A k \in NextKeys(W, f) : I2[k].status = I[k].status /\ (k \in H2 <=> k \in H)
  PROVE  PlanAt(W2, I2, H2, D2, f) = PlanAt(W, I, H, D, f)
  <1>1. NextKeys(W2, f) = NextKeys(W, f)
    BY DEF NextKeys
  <1>2. Followed(W, D, f) => PhaseAt(W2, I2, H2, f) = PhaseAt(W, I, H, f)
    BY <1>1 DEF PhaseAt
  <1> QED
    BY <1>2 DEF PlanAt, Followed

\* A step that changes the plan of f only, to p.
LEMMA OnePlan ==
  ASSUME NEW f \in Workflows, NEW p, PlanAt(wf', item', HeldKeys', edited', f) = p,
         \A g \in Workflows : g # f => PlanAt(wf', item', HeldKeys', edited', g) = PlanAt(wf, item, HeldKeys, edited, g)
  PROVE  planOf' = [planOf EXCEPT ![f] = p]
  BY PlanIs

LEMMA SamePlan ==
  ASSUME \A g \in Workflows : PlanAt(wf', item', HeldKeys', edited', g) = PlanAt(wf, item, HeldKeys, edited, g)
  PROVE  planOf' = planOf
  BY PlanIs

-----------------------------------------------------------------------------
(* What the mapping needs besides ClaimInv and ScheduleInv: a row of an    *)
(* unedited workflow is its next tick or one that is behind it, and due.   *)

SpentInv ==
  \A k \in Keys :
    item[k].status # "none" /\ k[1] \notin edited =>
      /\ k[2] <= clock
      /\ IsUpcoming(k) \/ (wf[k[1]].state # "new" /\ k[2] <= Anchor(wf[k[1]]))

\* What only waits for MarkDone has fired.
MarkInv ==
  \A w \in Workers :
    exec[w].pc = "markDone" /\ exec[w].wf \notin edited /\ wf[exec[w].wf].state = "live" =>
      exec[w].tick <= Anchor(wf[exec[w].wf])

ContractInv ==
  /\ SpentInv /\ MarkInv
  /\ \A f \in edited : wf[f].state # "new"
  /\ sched.now <= clock

LEMMA ContractInvInit == Init => ContractInv
  BY WorkersApart DEF Init, ContractInv, SpentInv, MarkInv, NoItem, Idle, IdleSched

\* Steps that leave the workflows alone, add no row and finish no firing.
LEMMA ContractInvStill ==
  ASSUME TypeOK, ContractInv, wf' = wf, edited' = edited,
         \A k \in Keys : item'[k].status # "none" => item[k].status # "none",
         clock' \in Nat, clock <= clock', sched'.now <= clock',
         \A w \in Workers : exec'[w].pc = "markDone" =>
           exec[w].pc = "markDone" /\ exec'[w].wf = exec[w].wf /\ exec'[w].tick = exec[w].tick
  PROVE  ContractInv'
  <1>1. \A k \in Keys : k[2] \in Nat /\ clock \in Nat
    BY KeyTyped, ClockTyped
  <1>2. SpentInv'
    BY <1>1 DEF ContractInv, SpentInv, IsUpcoming
  <1>3. MarkInv'
    BY DEF ContractInv, MarkInv
  <1> QED
    BY <1>2, <1>3 DEF ContractInv

LEMMA NowTyped == ASSUME TypeOK PROVE sched.now \in Nat /\ clock \in Nat
  BY ClockTyped DEF TypeOK, SchedState

LEMMA ContractInvQuiet == ASSUME TypeOK, ContractInv, QuietStep PROVE ContractInv'
  <1>1. exec \in [Executors -> ExecState] /\ sched \in SchedState /\ clock \in Nat /\ sched.now \in Nat
    BY NowTyped DEF TypeOK
  <1>2. wf' = wf /\ item' = item /\ edited' = edited
    BY QuietStepQuiet
  <1>3. sched.now <= clock
    BY DEF ContractInv
  <1>4. clock' \in Nat /\ clock <= clock' /\ sched'.now <= clock'
    <2>1. CASE AdvanceClock
      BY <1>1, <1>3, <2>1 DEF AdvanceClock
    <2>2. CASE SchedNow
      BY <1>1, <2>2 DEF SchedNow, IdleSched, SchedState
    <2>3. CASE Restart
      BY <1>1, <2>3 DEF Restart, IdleSched
    <2>4. CASE \E s \in sched.todo : SchedSkip(s)
      BY <1>1, <1>3, <2>4 DEF SchedSkip, Handled, IdleSched, SchedState
    <2>5. CASE clock' = clock /\ sched' = sched
      BY <1>1, <1>3, <2>5
    <2> QED
      BY <2>1, <2>2, <2>3, <2>4, <2>5 DEF QuietStep, EditRead, RunByHand, MarkLost, Expire
  <1>5. \A w \in Workers : exec'[w].pc = "markDone" =>
           exec[w].pc = "markDone" /\ exec'[w].wf = exec[w].wf /\ exec'[w].tick = exec[w].tick
    <2> SUFFICES ASSUME NEW w \in Workers, exec'[w].pc = "markDone"
                 PROVE  exec[w].pc = "markDone" /\ exec'[w].wf = exec[w].wf /\ exec'[w].tick = exec[w].tick
      OBVIOUS
    <2>1. exec[w].pc # "idle" /\ exec'[w].wf = exec[w].wf /\ exec'[w].tick = exec[w].tick
      BY QuietStepQuiet DEF Quiet
    <2>2. CASE exec' = exec
      BY <2>1, <2>2
    <2>3. CASE Restart
      BY <2>3, WorkersApart DEF Restart, Idle
    <2>4. CASE \E c \in Callers, f \in Workflows : RunByHand(c, f)
      BY <1>1, <2>4, WorkersApart DEF RunByHand
    <2>5. CASE \E v \in Workers : MarkLost(v)
      BY <1>1, <2>5, WorkersApart DEF MarkLost, Idle
    <2>6. CASE \E e \in Executors : Expire(e)
      BY <1>1, <2>6, WorkersApart DEF Expire, ExecState, Idle
    <2> QED
      BY <2>2, <2>3, <2>4, <2>5, <2>6
         DEF QuietStep, AdvanceClock, SchedNow, EditRead, SchedSkip, db
  <1> QED
    BY <1>2, <1>4, <1>5, ContractInvStill

LEMMA ContractInvExecute ==
  ASSUME TypeOK, ContractInv, NEW e \in Executors, ExecuteStep(e), wf' = wf, e # Scheduler PROVE ContractInv'
  <1>0. exec \in [Executors -> ExecState] /\ exec[e] \in Busy /\ clock \in Nat
    BY ExecuteQuiet, BusyIsTyped, ClockTyped DEF TypeOK
  <1>1. item' = item /\ edited' = edited /\ sched' = sched /\ Quiet
        /\ exec[e].pc # "idle" /\ \A d \in Executors : d # e => exec'[d] = exec[d]
    BY ExecuteQuiet
  <1>2. clock' = clock
    BY DEF ExecuteStep, GetRow, CreateRun, AcquireSem, GiveUpSem, StartRun, RunGraph, FinishRun, UpdateLastFired
  <1>3. SpentInv'
    BY <1>1, <1>2 DEF ContractInv, SpentInv, IsUpcoming
  <1>4. MarkInv'
    <2> SUFFICES ASSUME NEW w \in Workers, exec'[w].pc = "markDone", exec'[w].wf \notin edited,
                        wf[exec'[w].wf].state = "live"
                 PROVE  exec'[w].tick <= Anchor(wf[exec'[w].wf])
      BY <1>1 DEF MarkInv
    <2>1. CASE w # e
      BY <1>1, <2>1, WorkersApart DEF ContractInv, MarkInv
    <2>2. CASE w = e
      <3> DEFINE f == exec[w].wf
                 t == exec[w].tick
      <3>1. exec'[w].wf = f /\ exec'[w].tick = t /\ f \in Workflows /\ t \in Nat
        BY <1>0, <1>1, <2>2, ExecUpdate DEF Quiet
      <3>2. UpdateLastFired(w) /\ ~exec[w].expired
          <4>1. exec'[w].pc = "markDone" /\ exec[w] \in Busy
          BY <1>0, <2>2
        <4>2. ASSUME NEW p, exec' = [exec EXCEPT ![e].pc = p] PROVE exec'[w].pc = p
          BY <1>0, <2>2, <4>2 DEF Busy
        <4>3. exec' # Failed(e) /\ exec' # Returned(e)
          BY <1>0, <2>2, <4>1, <4>2, WorkersApart DEF Failed, Returned
        <4>4. ~(GetRow(e) \/ AcquireSem(e) \/ GiveUpSem(e) \/ StartRun(e) \/ FinishRun(e))
          BY <4>1, <4>2, <4>3 DEF GetRow, AcquireSem, GiveUpSem, StartRun, FinishRun
        <4>5. ~CreateRun(e) /\ ~RunGraph(e)
          BY <1>0, <2>2, <4>1, <4>3 DEF CreateRun, RunGraph, Busy
        <4>6. UpdateLastFired(e)
          BY <4>4, <4>5 DEF ExecuteStep
        <4> QED
          BY <2>2, <4>3, <4>6 DEF UpdateLastFired
      <3>3. wf' = [wf EXCEPT ![f].fired = t]
        BY <3>1, <3>2 DEF UpdateLastFired
      <3>4. wf[f].fired = t
        BY <3>1, <3>3 DEF TypeOK, WfRow
      <3> HIDE DEF f, t
      <3>5. Anchor(wf[f]) = t
        BY <3>1, <3>4 DEF Anchor, Never
      <3> QED
        BY <3>1, <3>5
    <2> QED
      BY <2>1, <2>2
  <1> QED
    BY <1>1, <1>2, <1>3, <1>4 DEF ContractInv

\* The tick that a worker fires is the next one of its workflow, and so the
\* only one that is not behind the anchor.
LEMMA FiredRow ==
  ASSUME TypeOK, ClaimInv, ScheduleInv, NEW w \in Workers, UpdateLastFired(w), wf' # wf
  PROVE  LET f == exec[w].wf
             t == exec[w].tick
         IN  /\ <<f, t>> \in Keys /\ f \in Workflows /\ t \in Nat
             /\ item[<<f, t>>].status = "running" /\ KeyOf(w) = <<f, t>>
             /\ wf[f].state = "live" /\ wf'[f].state = "live"
             /\ wf'[f].cron = wf[f].cron /\ wf'[f].created = wf[f].created /\ wf'[f].fired = t
             /\ Anchor(wf'[f]) = t
             /\ \A g \in Workflows : g # f => wf'[g] = wf[g]
             /\ exec' = [exec EXCEPT ![w].pc = "markDone"] /\ exec[w].pc = "fired"
             /\ item' = item /\ sched' = sched /\ edited' = edited /\ clock' = clock
             /\ f \notin edited => /\ IsUpcoming(<<f, t>>) /\ t > Anchor(wf[f])
                                   /\ \A k \in Keys : k[1] = f /\ IsUpcoming(k) => k[2] = t
  <1> DEFINE f == exec[w].wf
             t == exec[w].tick
  <1>0. wf \in [Workflows -> WfRow]
    BY DEF TypeOK
  <1>1. /\ exec[w].pc = "fired" /\ wf[f].state = "live"
        /\ wf' = [wf EXCEPT ![f].fired = t]
        /\ exec' = [exec EXCEPT ![w].pc = "markDone"]
        /\ item' = item /\ sched' = sched /\ edited' = edited /\ clock' = clock
    BY DEF UpdateLastFired
  <1>2. <<f, t>> \in Keys /\ item[<<f, t>>].status = "running" /\ KeyOf(w) = <<f, t>>
    BY <1>1 DEF ClaimInv, KeyOf
  <1>3. f \in Workflows /\ t \in Ticks /\ t \in Nat
    BY <1>2, KeyTyped
  <1>4. f \notin edited => IsUpcoming(KeyOf(w))
    BY <1>1 DEF ScheduleInv, FiringInv
  <1> HIDE DEF f, t
  <1>5. /\ \A g \in Workflows : g # f => wf'[g] = wf[g]
        /\ wf'[f].state = wf[f].state /\ wf'[f].cron = wf[f].cron
        /\ wf'[f].created = wf[f].created /\ wf'[f].fired = t
    BY <1>0, <1>1, <1>3 DEF WfRow
  <1>6. Anchor(wf'[f]) = t
    BY <1>3, <1>5 DEF Anchor, Never
  <1>7. ASSUME f \notin edited
        PROVE  t > Anchor(wf[f]) /\ \A k \in Keys : k[1] = f /\ IsUpcoming(k) => k[2] = t
    <2>1. wf[f].cron \in Crons /\ IsNextTick(wf[f].cron, Anchor(wf[f]), t)
      BY <1>2, <1>4, <1>7 DEF IsUpcoming
    <2>2. Anchor(wf[f]) \in Int
      BY <1>3, <1>7, AnchorAfterCreation
    <2>3. t > Anchor(wf[f])
      BY <2>1 DEF IsNextTick
    <2>4. \A k \in Keys : k[1] = f /\ IsUpcoming(k) => k[2] = t
      BY <2>1, <2>2, NextTickUnique DEF IsUpcoming
    <2> QED
      BY <2>3, <2>4
  <1> QED
    BY <1>1, <1>2, <1>3, <1>4, <1>5, <1>6, <1>7 DEF f, t

LEMMA ContractInvFire ==
  ASSUME TypeOK, ClaimInv, ScheduleInv, ContractInv, NEW w \in Workers, UpdateLastFired(w), wf' # wf
  PROVE  ContractInv'
  <1> DEFINE f == exec[w].wf
             t == exec[w].tick
  <1>1. /\ <<f, t>> \in Keys /\ f \in Workflows /\ t \in Nat
        /\ wf[f].state = "live" /\ wf'[f].state = "live" /\ wf'[f].cron = wf[f].cron /\ Anchor(wf'[f]) = t
        /\ \A g \in Workflows : g # f => wf'[g] = wf[g]
        /\ exec' = [exec EXCEPT ![w].pc = "markDone"]
        /\ item' = item /\ sched' = sched /\ edited' = edited /\ clock' = clock
        /\ f \notin edited => t > Anchor(wf[f]) /\ \A k \in Keys : k[1] = f /\ IsUpcoming(k) => k[2] = t
    BY FiredRow
  <1>2. \A g \in Workflows : g \notin edited => Anchor(wf[g]) \in Int
    BY AnchorAfterCreation
  <1>3. exec \in [Executors -> ExecState] /\ exec[w] \in Busy
    <2>1. exec[w].pc # "idle"
      BY FiredRow
    <2> QED
      BY <2>1, BusyIsTyped, WorkersApart DEF TypeOK
  <1>4. exec'[w].wf = f /\ exec'[w].tick = t /\ \A v \in Workers : v # w => exec'[v] = exec[v]
    BY <1>1, <1>3, WorkersApart DEF Busy
  <1> HIDE DEF f, t
  <1>5. SpentInv'
    <2> SUFFICES ASSUME NEW k \in Keys, item[k].status # "none", k[1] \notin edited
                 PROVE  /\ k[2] <= clock
                        /\ IsUpcoming(k)' \/ (wf'[k[1]].state # "new" /\ k[2] <= Anchor(wf'[k[1]]))
      BY <1>1 DEF SpentInv
    <2>1. k[1] \in Workflows /\ k[2] \in Nat
      BY KeyTyped
    <2>2. k[2] <= clock /\ (IsUpcoming(k) \/ (wf[k[1]].state # "new" /\ k[2] <= Anchor(wf[k[1]])))
      BY DEF ContractInv, SpentInv
    <2>3. CASE k[1] # f
      BY <1>1, <2>1, <2>2, <2>3 DEF IsUpcoming
    <2>4. CASE k[1] = f
      BY <1>1, <1>2, <2>1, <2>2, <2>4
    <2> QED
      BY <2>3, <2>4
  <1>6. MarkInv'
    <2> SUFFICES ASSUME NEW v \in Workers, exec'[v].pc = "markDone", exec'[v].wf \notin edited,
                        wf'[exec'[v].wf].state = "live"
                 PROVE  exec'[v].tick <= Anchor(wf'[exec'[v].wf])
      BY <1>1 DEF MarkInv
    <2>1. CASE v = w
      BY <1>1, <1>4, <2>1
    <2>2. CASE v # w
      <3>1. exec[v].pc = "markDone" /\ exec'[v] = exec[v]
        BY <1>4, <2>2
      <3>2. exec[v].wf \in Workflows /\ exec[v].tick \in Nat
        BY <3>1, ExecUpdate, WorkersApart
      <3>3. exec[v].tick <= Anchor(wf[exec[v].wf])
        BY <1>1, <3>1, <3>2 DEF ContractInv, MarkInv
      <3>4. CASE exec[v].wf # f
        BY <1>1, <3>1, <3>2, <3>3, <3>4
      <3>5. CASE exec[v].wf = f
        BY <1>1, <1>2, <3>1, <3>2, <3>3, <3>5
      <3> QED
        BY <3>4, <3>5
    <2> QED
      BY <2>1, <2>2
  <1>7. \A g \in edited : wf'[g].state # "new"
    BY <1>1 DEF ContractInv, TypeOK
  <1> QED
    BY <1>1, <1>5, <1>6, <1>7 DEF ContractInv

LEMMA ContractInvEnqueue ==
  ASSUME TypeOK, ScheduleInv', ContractInv, NEW s \in sched.todo, SchedEnqueue(s) PROVE ContractInv'
  <1>1. PICK t \in 1..sched.now : Enqueue(<<s.wf, t>>)
    BY DEF SchedEnqueue
  <1>2. exec' = exec /\ wf' = wf /\ edited' = edited /\ clock' = clock
    BY DEF SchedEnqueue
  <1>3. sched.now \in Nat /\ clock \in Nat /\ sched.now <= clock
    BY NowTyped DEF ContractInv
  <1>4. t <= clock
    BY <1>3
  <1>5. \A k \in Keys : \/ item'[k] = item[k]
                        \/ k = <<s.wf, t>> /\ item'[k].status = "queued"
    BY <1>1 DEF Enqueue, TypeOK
  <1>6. SpentInv'
    <2> SUFFICES ASSUME NEW k \in Keys, item'[k].status # "none", k[1] \notin edited
                 PROVE  k[2] <= clock /\ (IsUpcoming(k)' \/ (wf[k[1]].state # "new" /\ k[2] <= Anchor(wf[k[1]])))
      BY <1>2 DEF SpentInv
    <2>1. CASE item'[k] = item[k]
      BY <1>2, <2>1 DEF ContractInv, SpentInv, IsUpcoming
    <2>2. CASE k = <<s.wf, t>> /\ item'[k].status = "queued"
      BY <1>2, <1>4, <2>2 DEF ScheduleInv, QueuedInv
    <2> QED
      BY <1>5, <2>1, <2>2
  <1>7. MarkInv'
    BY <1>2 DEF ContractInv, MarkInv
  <1>8. sched'.now <= clock
    BY <1>3 DEF SchedEnqueue, Handled, IdleSched, TypeOK, SchedState
  <1> QED
    BY <1>2, <1>6, <1>7, <1>8 DEF ContractInv

\* Creation, deletion and edits of workflows.
LEMMA ContractInvWorkflows ==
  ASSUME TypeOK, ClaimInv, ContractInv, exec' = exec, item' = item, sched' = sched, clock' = clock,
         edited \subseteq edited', \A f \in edited' : wf'[f].state # "new",
         \A f \in Workflows \ edited' :
           \/ wf[f].state = "new" /\ wf'[f].state = "live"
           \/ SameSchedule(f) /\ (wf'[f].state = "live" => wf[f].state = "live")
  PROVE  ContractInv'
  <1>1. \A f \in Workflows : SameSchedule(f) => Anchor(wf'[f]) = Anchor(wf[f])
    BY DEF SameSchedule, Anchor
  <1>2. SpentInv'
    <2> SUFFICES ASSUME NEW k \in Keys, item[k].status # "none", k[1] \notin edited'
                 PROVE  /\ k[2] <= clock
                        /\ IsUpcoming(k)' \/ (wf'[k[1]].state # "new" /\ k[2] <= Anchor(wf'[k[1]]))
      BY DEF SpentInv
    <2>1. k[1] \in Workflows /\ k[1] \notin edited
      BY KeyTyped
    <2>2. k[2] <= clock /\ (IsUpcoming(k) \/ (wf[k[1]].state # "new" /\ k[2] <= Anchor(wf[k[1]])))
      BY <2>1 DEF ContractInv, SpentInv
    <2>3. SameSchedule(k[1])
      BY <2>1, <2>2 DEF IsUpcoming
    <2> QED
      BY <1>1, <2>1, <2>2, <2>3 DEF IsUpcoming, SameSchedule
  <1>3. MarkInv'
    <2> SUFFICES ASSUME NEW w \in Workers, exec[w].pc = "markDone", exec[w].wf \notin edited',
                        wf'[exec[w].wf].state = "live"
                 PROVE  exec[w].tick <= Anchor(wf'[exec[w].wf])
      BY DEF MarkInv
    <2> DEFINE f == exec[w].wf
               t == exec[w].tick
    <2>1. f \in Workflows /\ exec[w].tick \in Nat
      BY ExecUpdate, WorkersApart
    <2>2. CASE SameSchedule(f) /\ wf[f].state = "live"
      <3>1. exec[w].tick <= Anchor(wf[f])
        BY <2>1, <2>2 DEF ContractInv, MarkInv
      <3>2. Anchor(wf'[f]) = Anchor(wf[f])
        BY <1>1, <2>1, <2>2
      <3> QED
        BY <3>1, <3>2
    <2>3. CASE wf[f].state = "new" /\ wf'[f].state = "live"
      <3>1. item[KeyOf(w)].status = "running" /\ KeyOf(w) \in Keys
        BY DEF ClaimInv
      <3> QED
        BY <2>1, <2>3, <3>1 DEF ContractInv, SpentInv, KeyOf, IsUpcoming
    <2> QED
      BY <2>1, <2>2, <2>3
  <1> QED
    BY <1>2, <1>3 DEF ContractInv

-----------------------------------------------------------------------------
(* Every step maps to a step of the contract, or to none.                  *)

\* An allowed step of the plans.
PlanStep == [Contract!Next]_(Contract!vars)

\* Steps that keep the tables, and the rows that workers hold.
LEMMA StillPlan ==
  ASSUME wf' = wf, edited' = edited, item' = item, HeldKeys' = HeldKeys, AdvanceClock \/ clock' = clock
  PROVE  PlanStep
  <1>1. planOf' = planOf
    BY SamePlan
  <1>2. CASE clock' = clock
    BY <1>1, <1>2 DEF PlanStep, Contract!vars
  <1>3. CASE AdvanceClock
    BY <1>1, <1>3 DEF PlanStep, Contract!Next, Contract!Tick, AdvanceClock
  <1> QED
    BY <1>2, <1>3

LEMMA HeldStill ==
  ASSUME \A w \in Workers : /\ exec'[w].pc = "idle" <=> exec[w].pc = "idle"
                            /\ exec[w].pc # "idle" => exec'[w].wf = exec[w].wf /\ exec'[w].tick = exec[w].tick
  PROVE  HeldKeys' = HeldKeys
  BY DEF HeldKeys, Holds

\* A claimed row is the next tick of its workflow, if that is followed.
LEMMA ClaimPlan ==
  ASSUME TypeOK, ClaimInv, ScheduleInv, NEW w \in Workers, ClaimNext(w) PROVE PlanStep
  <1>0. item \in [Keys -> ItemRow] /\ exec \in [Executors -> ExecState] /\ wf \in [Workflows -> WfRow]
    BY DEF TypeOK
  <1>1. PICK k \in Keys :
          /\ item[k].status = "queued"
          /\ item' = [item EXCEPT ![k] = [status |-> "running", attempts |-> item[k].attempts + 1,
                                          locked |-> clock + LockTTL]]
          /\ exec' = [exec EXCEPT ![w] = [Idle EXCEPT !.pc = "get", !.wf = k[1], !.tick = k[2]]]
    BY DEF ClaimNext, Claimable
  <1>2. exec[w].pc = "idle" /\ wf' = wf /\ edited' = edited /\ clock' = clock
    BY DEF ClaimNext
  <1>3. /\ exec'[w].pc = "get" /\ exec'[w].wf = k[1] /\ exec'[w].tick = k[2]
        /\ \A v \in Workers : v # w => exec'[v] = exec[v]
    BY <1>0, <1>1, WorkersApart DEF Idle
  <1>4. HeldKeys' = HeldKeys \cup {k}
    BY <1>2, <1>3 DEF HeldKeys, Holds, Keys
  <1>5. item'[k].status = "running" /\ \A j \in Keys : j # k => item'[j] = item[j]
    BY <1>0, <1>1
  <1>6. k[1] \in Workflows
    BY KeyTyped
  <1> DEFINE f == k[1]
  <1>7. \A g \in Workflows : g # f => PlanAt(wf', item', HeldKeys', edited', g) = PlanAt(wf, item, HeldKeys, edited, g)
    <2> SUFFICES ASSUME NEW g \in Workflows, g # f
                 PROVE  PlanAt(wf', item', HeldKeys', edited', g) = PlanAt(wf, item, HeldKeys, edited, g)
      OBVIOUS
    <2>1. \A j \in NextKeys(wf, g) : j \in Keys /\ j # k
      BY DEF NextKeys
    <2>2. \A j \in NextKeys(wf, g) : item'[j].status = item[j].status /\ (j \in HeldKeys' <=> j \in HeldKeys)
      BY <1>4, <1>5, <2>1
    <2> QED
      BY <1>2, <2>2, PlanFrame
  <1>8. CASE ~Followed(wf, edited, f)
    <2>1. PlanAt(wf', item', HeldKeys', edited', f) = PlanAt(wf, item, HeldKeys, edited, f)
      BY <1>2, <1>8 DEF PlanAt
    <2>2. planOf' = planOf
      BY <1>7, <2>1, SamePlan
    <2> QED
      BY <1>2, <2>2 DEF PlanStep, Contract!vars
  <1>9. CASE Followed(wf, edited, f)
    <2>1. IsUpcoming(k)
      BY <1>1, <1>9 DEF ScheduleInv, QueuedInv, Followed
    <2>2. k \in NextKeys(wf, f)
      BY <2>1, ConstantsAssumption DEF NextKeys, IsUpcoming
    <2>3. PhaseAt(wf, item, HeldKeys, f) = "dispatched"
      BY <1>0, <1>1, <1>6, <2>2, PhaseOfKey
    <2>4. PhaseAt(wf, item', HeldKeys', f) = "started"
      BY <1>0, <1>4, <1>5, <1>6, <2>2, PhaseOfKey
    <2>5. planOf[f].phase = "dispatched" /\ planOf[f] = PlanAt(wf, item, HeldKeys, edited, f)
      BY <1>6, <1>9, <2>3, PlanIs DEF PlanAt
    <2>6. PlanAt(wf', item', HeldKeys', edited', f) = [planOf[f] EXCEPT !.phase = "started"]
      BY <1>2, <1>9, <2>4, <2>5 DEF PlanAt, Followed
    <2>7. planOf' = [planOf EXCEPT ![f].phase = "started"]
      BY <1>6, <1>7, <2>6, OnePlan
    <2>8. Contract!Start(f)
      BY <1>2, <2>5, <2>7 DEF Contract!Start
    <2> QED
      BY <1>6, <2>8 DEF PlanStep, Contract!Next
  <1> QED
    BY <1>8, <1>9

\* Whoever follows f, a step that moves no row but those of f leaves the others.
LEMMA OthersKept ==
  ASSUME NEW f \in Workflows, edited' = edited,
         \A g \in Workflows : g # f => wf'[g] = wf[g],
         \A k \in Keys : k[1] # f => item'[k].status = item[k].status /\ (k \in HeldKeys' <=> k \in HeldKeys)
  PROVE  \A g \in Workflows : g # f => PlanAt(wf', item', HeldKeys', edited', g) = PlanAt(wf, item, HeldKeys, edited, g)
  <1> SUFFICES ASSUME NEW g \in Workflows, g # f
               PROVE  PlanAt(wf', item', HeldKeys', edited', g) = PlanAt(wf, item, HeldKeys, edited, g)
    OBVIOUS
  <1>1. \A k \in NextKeys(wf, g) : item'[k].status = item[k].status /\ (k \in HeldKeys' <=> k \in HeldKeys)
    BY DEF NextKeys
  <1> QED
    BY <1>1, PlanFrame

\* A worker lets go of its row, marked or not.
LEMMA MarkPlan ==
  ASSUME TypeOK, ClaimInv, ScheduleInv, ContractInv, NEW w \in Workers, Mark(w) \/ MarkLost(w) PROVE PlanStep
  <1>0. item \in [Keys -> ItemRow] /\ exec \in [Executors -> ExecState] /\ wf \in [Workflows -> WfRow]
    BY DEF TypeOK
  <1> DEFINE k == KeyOf(w)
             f == exec[w].wf
  <1>1. /\ k \in Keys /\ k[1] = f /\ k[2] = exec[w].tick /\ f \in Workflows
        /\ exec[w].pc \in {"markDone", "markError"} /\ item[k].status = "running"
    BY KeyTyped DEF ClaimInv, KeyOf, Mark, MarkLost
  <1>2. wf' = wf /\ edited' = edited /\ clock' = clock
    BY DEF Mark, MarkLost, db
  <1>3. exec'[w].pc = "idle" /\ \A v \in Workers : v # w => exec'[v] = exec[v]
    BY <1>0, WorkersApart DEF Mark, MarkLost, Idle
  <1>4. \A j \in Keys : j # k => item'[j] = item[j]
    BY <1>0 DEF Mark, MarkLost, KeyOf, db
  <1>5. \A j \in Keys : j \in HeldKeys' <=> j \in HeldKeys /\ j # k
    <2>1. \A v \in Workers : v # w /\ exec[v].pc # "idle" => KeyOf(v) # k
      BY <1>1 DEF ClaimInv
    <2> QED
      BY <1>1, <1>3, <2>1 DEF HeldKeys, Holds, KeyOf
  <1>6. k \in HeldKeys
    BY <1>1 DEF HeldKeys, Holds, KeyOf
  <1>7. exec[w].pc = "markError" => item'[k].status \in {"error", "running"}
    BY <1>0, <1>1 DEF Mark, MarkLost, KeyOf, db, ItemRow
  <1> HIDE DEF k, f
  <1>8. \A g \in Workflows : g # f => PlanAt(wf', item', HeldKeys', edited', g) = PlanAt(wf, item, HeldKeys, edited, g)
    BY <1>1, <1>2, <1>4, <1>5, OthersKept
  <1>9. ASSUME ~Followed(wf, edited, f) \/ k \notin NextKeys(wf, f) PROVE PlanStep
    <2>1. PlanAt(wf', item', HeldKeys', edited', f) = PlanAt(wf, item, HeldKeys, edited, f)
      <3>1. CASE ~Followed(wf, edited, f)
        BY <1>2, <3>1 DEF PlanAt
      <3>2. CASE k \notin NextKeys(wf, f)
        <4>1. \A j \in NextKeys(wf, f) : item'[j].status = item[j].status /\ (j \in HeldKeys' <=> j \in HeldKeys)
          BY <1>4, <1>5, <3>2 DEF NextKeys
        <4> QED
          BY <1>2, <4>1, PlanFrame
      <3> QED
        BY <1>9, <3>1, <3>2
    <2>2. planOf' = planOf
      BY <1>8, <2>1, SamePlan
    <2> QED
      BY <1>2, <2>2 DEF PlanStep, Contract!vars
  <1>10. CASE exec[w].pc = "markDone"
    <2>1. ASSUME Followed(wf, edited, f), k \in NextKeys(wf, f) PROVE FALSE
      <3>1. exec[w].tick <= Anchor(wf[f])
        BY <1>10, <2>1 DEF ContractInv, MarkInv, Followed, f
      <3>2. k[2] > Anchor(wf[f])
        BY <2>1 DEF NextKeys, IsNextTick
      <3>3. Anchor(wf[f]) \in Nat /\ k[2] \in Nat
        BY <1>1, <2>1, AnchorAfterCreation, KeyTyped DEF Followed
      <3> QED
        BY <1>1, <3>1, <3>2, <3>3
    <2> QED
      BY <1>9, <2>1
  <1>11. CASE exec[w].pc = "markError" /\ Followed(wf, edited, f)
    <2>1. IsUpcoming(k)
      BY <1>11 DEF ScheduleInv, FiringInv, Followed, k, f
    <2>2. k \in NextKeys(wf, f)
      BY <1>1, <2>1, ConstantsAssumption DEF NextKeys, IsUpcoming
    <2>3. PhaseAt(wf, item, HeldKeys, f) = "started"
      BY <1>0, <1>1, <1>6, <2>2, PhaseOfKey
    <2>4. PhaseAt(wf, item', HeldKeys', f) = "stalled"
      BY <1>0, <1>1, <1>5, <1>7, <1>11, <2>2, PhaseOfKey
    <2>5. planOf[f].phase = "started" /\ planOf[f] = PlanAt(wf, item, HeldKeys, edited, f)
      BY <1>1, <1>11, <2>3, PlanIs DEF PlanAt
    <2>6. PlanAt(wf', item', HeldKeys', edited', f) = [planOf[f] EXCEPT !.phase = "stalled"]
      BY <1>2, <1>11, <2>4, <2>5 DEF PlanAt, Followed
    <2>7. planOf' = [planOf EXCEPT ![f].phase = "stalled"]
      BY <1>1, <1>8, <2>6, OnePlan
    <2>8. Contract!Stall(f)
      BY <1>2, <2>5, <2>7 DEF Contract!Stall
    <2> QED
      BY <1>1, <2>8 DEF PlanStep, Contract!Next
  <1> QED
    BY <1>1, <1>9, <1>10, <1>11

\* A tick that fires is the next one and due, and no later row exists.
LEMMA FirePlan ==
  ASSUME TypeOK, ClaimInv, ScheduleInv, ContractInv, NEW w \in Workers, UpdateLastFired(w), wf' # wf
  PROVE  PlanStep
  <1> DEFINE f == exec[w].wf
             t == exec[w].tick
             k == <<f, t>>
  <1>0. wf \in [Workflows -> WfRow] /\ exec \in [Executors -> ExecState] /\ exec[w].pc = "fired"
    BY FiredRow DEF TypeOK
  <1>1. /\ k \in Keys /\ f \in Workflows /\ t \in Nat
        /\ item[k].status = "running" /\ KeyOf(w) = k
        /\ wf[f].state = "live" /\ wf'[f].state = "live"
        /\ wf'[f].cron = wf[f].cron /\ wf'[f].created = wf[f].created /\ wf'[f].fired = t
        /\ Anchor(wf'[f]) = t
        /\ \A g \in Workflows : g # f => wf'[g] = wf[g]
        /\ exec' = [exec EXCEPT ![w].pc = "markDone"]
        /\ item' = item /\ edited' = edited /\ clock' = clock
        /\ f \notin edited => /\ IsUpcoming(k) /\ t > Anchor(wf[f])
                              /\ \A j \in Keys : j[1] = f /\ IsUpcoming(j) => j[2] = t
    BY FiredRow
  <1>2. HeldKeys' = HeldKeys
    <2>1. exec[w] \in Busy
      BY <1>0, BusyIsTyped, WorkersApart
    <2>2. \A v \in Workers : /\ exec'[v].pc = "idle" <=> exec[v].pc = "idle"
                             /\ exec[v].pc # "idle" => exec'[v].wf = exec[v].wf /\ exec'[v].tick = exec[v].tick
      BY <1>0, <1>1, <2>1, WorkersApart DEF Busy
    <2> QED
      BY <2>2, HeldStill
  <1>3. k \in HeldKeys /\ k[1] = f /\ k[2] = t
    BY <1>0, <1>1 DEF HeldKeys, Holds
  <1> HIDE DEF f, t, k
  <1>4. \A g \in Workflows : g # f => PlanAt(wf', item', HeldKeys', edited', g) = PlanAt(wf, item, HeldKeys, edited, g)
    BY <1>1, <1>2, OthersKept
  <1>5. CASE f \in edited
    <2>1. PlanAt(wf', item', HeldKeys', edited', f) = PlanAt(wf, item, HeldKeys, edited, f)
      BY <1>1, <1>5 DEF PlanAt, Followed
    <2>2. planOf' = planOf
      BY <1>4, <2>1, SamePlan
    <2> QED
      BY <1>1, <2>2 DEF PlanStep, Contract!vars
  <1>6. CASE f \notin edited
    <2>1. k \in NextKeys(wf, f) /\ IsNextTick(wf[f].cron, Anchor(wf[f]), t) /\ wf[f].cron \in Crons
      BY <1>1, <1>3, <1>6, ConstantsAssumption DEF NextKeys, IsUpcoming
    <2>2. PhaseAt(wf, item, HeldKeys, f) = "started"
      BY <1>0, <1>1, <1>3, <2>1, PhaseOfKey
    <2>3. PhaseAt(wf', item', HeldKeys', f) = "waiting"
      <3> SUFFICES ASSUME NEW j \in NextKeys(wf', f), item[j].status # "none" PROVE FALSE
        BY <1>1 DEF PhaseAt
      <3>1. j \in Keys /\ j[1] = f /\ j[2] > t /\ j[2] \in Nat
        BY <1>1, KeyTyped DEF NextKeys, IsNextTick
      <3>2. IsUpcoming(j) \/ j[2] <= Anchor(wf[f])
        BY <1>6, <3>1 DEF ContractInv, SpentInv
      <3>3. Anchor(wf[f]) \in Nat
        BY <1>1, <1>6, AnchorAfterCreation
      <3> QED
        BY <1>1, <1>6, <3>1, <3>2, <3>3
    <2>4. planOf[f] = [phase |-> "started", cron |-> wf[f].cron, created |-> wf[f].created, fired |-> wf[f].fired]
      BY <1>1, <1>6, <2>2, PlanIs DEF PlanAt, Followed
    <2>5. PlanAt(wf', item', HeldKeys', edited', f)
            = [phase |-> "waiting", cron |-> wf[f].cron, created |-> wf[f].created, fired |-> t]
      BY <1>1, <1>6, <2>3 DEF PlanAt, Followed
    <2>6. PlanAt(wf', item', HeldKeys', edited', f) = [planOf[f] EXCEPT !.phase = "waiting", !.fired = t]
      <3> DEFINE p == planOf[f]
                 q == [phase |-> "waiting", cron |-> wf[f].cron, created |-> wf[f].created, fired |-> wf[f].fired]
      <3>1. [p EXCEPT !.phase = "waiting"] = q
        BY <2>4
      <3>2. [q EXCEPT !.fired = t] = PlanAt(wf', item', HeldKeys', edited', f)
        BY <2>5
      <3> HIDE DEF p, q
      <3>3. [p EXCEPT !.phase = "waiting", !.fired = t] = [[p EXCEPT !.phase = "waiting"] EXCEPT !.fired = t]
        OBVIOUS
      <3> QED
        BY <3>1, <3>2, <3>3 DEF p
    <2>7. planOf' = [planOf EXCEPT ![f].phase = "waiting", ![f].fired = t]
      BY <1>1, <1>4, <2>6, OnePlan, PlanIs
    <2>8. t \in 1..clock
      <3>1. k[2] <= clock
        BY <1>1, <1>3, <1>6 DEF ContractInv, SpentInv
      <3>2. t \in Ticks
        BY <1>1, <1>3, KeyTyped
      <3> QED
        BY <1>3, <3>1, <3>2, ClockTyped, ConstantsAssumption DEF Ticks
    <2>9. Contract!Upcoming(planOf[f], t)
      BY <2>1, <2>4, ConstantsAssumption DEF Contract!Upcoming, Contract!Anchor, Contract!Never, IsNextTick, Anchor, Never
    <2>10. Contract!Fire(f)
      <3>1. planOf[f].phase = "started" /\ clock' = clock
        BY <1>1, <2>4
      <3>2. \E u \in 1..clock : Contract!Upcoming(planOf[f], u)
                               /\ planOf' = [planOf EXCEPT ![f].phase = "waiting", ![f].fired = u]
        <4> USE <2>8
        <4> WITNESS t \in 1..clock
        <4> QED
          BY <2>7, <2>9
      <3> QED
        BY <3>1, <3>2, Zenon DEF Contract!Fire
    <2> QED
      BY <1>1, <2>10 DEF PlanStep, Contract!Next
  <1> QED
    BY <1>5, <1>6

\* A row that did not exist is the next tick of its workflow and due.
LEMMA EnqueuePlan ==
  ASSUME TypeOK, ScheduleInv, ScheduleInv', ContractInv, NEW s \in sched.todo, SchedEnqueue(s) PROVE PlanStep
  <1>0. item \in [Keys -> ItemRow] /\ wf \in [Workflows -> WfRow]
    BY DEF TypeOK
  <1>1. PICK t \in 1..sched.now : Enqueue(<<s.wf, t>>)
    BY DEF SchedEnqueue
  <1>2. s.wf \in Workflows
    BY DEF TypeOK, SchedState, Snapshot
  <1> DEFINE f == s.wf
             k == <<f, t>>
  <1>3. exec' = exec /\ wf' = wf /\ edited' = edited /\ clock' = clock /\ HeldKeys' = HeldKeys
    BY DEF SchedEnqueue, HeldKeys, Holds
  <1>4. k[1] = f /\ k[2] = t /\ t \in 1..clock /\ t \in Nat
    BY NowTyped DEF ContractInv
  <1>5. k \in Keys
    BY <1>2, <1>4, ConstantsAssumption DEF Keys, Ticks, TypeOK
  <1>6. CASE item' = item
    BY <1>3, <1>6, StillPlan
  <1>7. CASE item' # item
    <2>1. item[k].status = "none" /\ item'[k].status = "queued" /\ \A j \in Keys : j # k => item'[j] = item[j]
      BY <1>0, <1>1, <1>5, <1>7 DEF Enqueue
    <2> HIDE DEF k, f
    <2>2. \A g \in Workflows : g # f => PlanAt(wf', item', HeldKeys', edited', g) = PlanAt(wf, item, HeldKeys, edited, g)
      BY <1>2, <1>3, <1>4, <2>1, OthersKept DEF f
    <2>3. CASE ~Followed(wf, edited, f)
      <3>1. PlanAt(wf', item', HeldKeys', edited', f) = PlanAt(wf, item, HeldKeys, edited, f)
        BY <1>3, <2>3 DEF PlanAt
      <3>2. planOf' = planOf
        BY <2>2, <3>1, SamePlan
      <3> QED
        BY <1>3, <3>2 DEF PlanStep, Contract!vars
    <2>4. CASE Followed(wf, edited, f)
      <3>1. IsUpcoming(k)
        BY <1>3, <1>4, <1>5, <2>1, <2>4 DEF ScheduleInv, QueuedInv, Followed, IsUpcoming
      <3>2. k \in NextKeys(wf, f) /\ IsNextTick(wf[f].cron, Anchor(wf[f]), t)
        BY <1>4, <1>5, <3>1, ConstantsAssumption DEF NextKeys, IsUpcoming
      <3>3. PhaseAt(wf, item, HeldKeys, f) = "waiting" /\ PhaseAt(wf, item', HeldKeys', f) = "dispatched"
        BY <1>0, <1>2, <2>1, <3>2, PhaseOfKey DEF f
      <3>4. planOf[f] = [phase |-> "waiting", cron |-> wf[f].cron, created |-> wf[f].created, fired |-> wf[f].fired]
        BY <1>2, <2>4, <3>3, PlanIs DEF PlanAt, f
      <3>5. PlanAt(wf', item', HeldKeys', edited', f) = [planOf[f] EXCEPT !.phase = "dispatched"]
        BY <1>3, <2>4, <3>3, <3>4 DEF PlanAt, Followed
      <3>6. planOf' = [planOf EXCEPT ![f].phase = "dispatched"]
        BY <1>2, <2>2, <3>5, OnePlan DEF f
      <3>7. Contract!Upcoming(planOf[f], t)
        BY <3>2, <3>4 DEF NextKeys, Contract!Upcoming, Contract!Anchor, Contract!Never, IsNextTick, Anchor, Never
      <3>8. Contract!Dispatch(f)
        BY <1>3, <1>4, <3>4, <3>6, <3>7 DEF Contract!Dispatch
      <3> QED
        BY <1>2, <3>8 DEF PlanStep, Contract!Next, f
    <2> QED
      BY <2>3, <2>4
  <1> QED
    BY <1>6, <1>7

\* The next rows of a workflow that was just created do not exist yet.
LEMMA CreatePlan ==
  ASSUME TypeOK, ContractInv, NEW f \in Workflows, NEW c \in Schedules, CreateWorkflow(f, c) PROVE PlanStep
  <1>1. /\ wf[f].state = "new" /\ clock' = clock /\ item' = item /\ edited' = edited
        /\ wf'[f] = [state |-> "live", cron |-> c, created |-> clock, fired |-> Never]
        /\ \A g \in Workflows : g # f => wf'[g] = wf[g]
    BY DEF CreateWorkflow, TypeOK
  <1>2. HeldKeys' = HeldKeys
    BY HeldStill DEF CreateWorkflow
  <1>3. \A g \in Workflows : g # f => PlanAt(wf', item', HeldKeys', edited', g) = PlanAt(wf, item, HeldKeys, edited, g)
    BY <1>1, <1>2, OthersKept
  <1>4. f \notin edited
    BY <1>1 DEF ContractInv
  <1>5. \A k \in Keys : k[1] = f => item[k].status = "none"
    BY <1>1, <1>4 DEF ContractInv, SpentInv, IsUpcoming
  <1>6. PhaseAt(wf', item', HeldKeys', f) = "waiting"
    BY <1>1, <1>5 DEF PhaseAt, NextKeys
  <1>7. planOf[f] = Contract!Off
    BY <1>1, PlanIs DEF PlanAt, Followed, Contract!Off, Contract!Never, Never
  <1>8. PlanAt(wf', item', HeldKeys', edited', f) = [phase |-> "waiting", cron |-> c, created |-> clock, fired |-> Never]
    BY <1>1, <1>4, <1>6 DEF PlanAt, Followed
  <1>9. planOf' = [planOf EXCEPT ![f] = [phase |-> "waiting", cron |-> c, created |-> clock, fired |-> Never]]
    BY <1>3, <1>8, OnePlan
  <1>10. Contract!Register(f, c)
    BY <1>1, <1>7, <1>9 DEF Contract!Register, Contract!Never, Never
  <1> QED
    BY <1>10 DEF PlanStep, Contract!Next, Schedules

\* A workflow that is no longer followed, or was not.
LEMMA RemovePlan ==
  ASSUME NEW f \in Workflows, item' = item, HeldKeys' = HeldKeys, clock' = clock,
         \A g \in Workflows : g # f => wf'[g] = wf[g] /\ (g \in edited' <=> g \in edited),
         wf[f].state # "new", wf'[f].state # "new", ~Followed(wf', edited', f)
  PROVE  PlanStep
  <1>1. \A g \in Workflows : g # f => PlanAt(wf', item', HeldKeys', edited', g) = PlanAt(wf, item, HeldKeys, edited, g)
    BY PlanFrame
  <1>2. PlanAt(wf', item', HeldKeys', edited', f) = Contract!Gone
    BY DEF PlanAt, Contract!Gone, Contract!Off, Contract!Never, Never
  <1>3. CASE Followed(wf, edited, f)
    <2>1. planOf[f].phase \notin {"off", "gone"}
      BY <1>3, PlanIs DEF PlanAt, PhaseAt
    <2>2. planOf' = [planOf EXCEPT ![f] = Contract!Gone]
      BY <1>1, <1>2, OnePlan
    <2>3. Contract!Remove(f)
      BY <2>1, <2>2 DEF Contract!Remove
    <2> QED
      BY <2>3 DEF PlanStep, Contract!Next
  <1>4. CASE ~Followed(wf, edited, f)
    <2>1. PlanAt(wf, item, HeldKeys, edited, f) = Contract!Gone
      BY <1>4 DEF PlanAt, Contract!Gone, Contract!Off, Contract!Never, Never
    <2>2. planOf' = planOf
      BY <1>1, <1>2, <2>1, SamePlan
    <2> QED
      BY <2>2 DEF PlanStep, Contract!vars
  <1> QED
    BY <1>3, <1>4

LEMMA DeletePlan ==
  ASSUME TypeOK, NEW f \in Workflows, DeleteWorkflow(f) PROVE PlanStep
  <1>1. /\ wf[f].state = "live" /\ clock' = clock /\ item' = item /\ edited' = edited
        /\ wf'[f].state = "deleted" /\ \A g \in Workflows : g # f => wf'[g] = wf[g]
    BY DEF DeleteWorkflow, TypeOK, WfRow
  <1>2. HeldKeys' = HeldKeys
    BY HeldStill DEF DeleteWorkflow
  <1> QED
    BY <1>1, <1>2, RemovePlan DEF Followed

LEMMA EditPlan ==
  ASSUME TypeOK, NEW u \in Editors, EditWrite(u) PROVE PlanStep
  <1> DEFINE f == edit[u].wf
  <1>1. clock' = clock /\ item' = item /\ HeldKeys' = HeldKeys
    BY HeldStill DEF EditWrite
  <1>2. CASE wf' = wf /\ edited' = edited
    BY <1>1, <1>2, StillPlan
  <1>3. CASE wf' # wf \/ edited' # edited
    <2>1. /\ wf[f].state = "live" /\ wf' = [wf EXCEPT ![f].cron = edit[u].cron]
          /\ edited' = IF edit[u].cron = wf[f].cron THEN edited ELSE edited \cup {f}
      BY <1>3 DEF EditWrite
    <2>2. f \in Workflows
      BY DEF EditWrite, EditState, IdleEdit, TypeOK
    <2> HIDE DEF f
    <2>3. wf \in [Workflows -> WfRow] /\ wf[f] \in WfRow
      BY <2>2 DEF TypeOK
    <2>4. /\ wf'[f].state = "live" /\ \A g \in Workflows : g # f => wf'[g] = wf[g]
      BY <2>1, <2>2, <2>3 DEF WfRow
    <2>5. edit[u].cron = wf[f].cron => wf' = wf
      <3>1. [wf[f] EXCEPT !.cron = wf[f].cron] = wf[f]
        BY <2>3 DEF WfRow
      <3> QED
        BY <2>1, <2>2, <2>3, <3>1
    <2>6. edited' = edited \cup {f}
      BY <1>3, <2>1, <2>5
    <2> QED
      BY <1>1, <2>1, <2>2, <2>4, <2>6, RemovePlan DEF Followed
  <1> QED
    BY <1>2, <1>3

\* Every execution under way is lost.
LEMMA RestartPlan == ASSUME TypeOK, Restart PROVE PlanStep
  <1>0. wf \in [Workflows -> WfRow]
    BY DEF TypeOK
  <1>1. wf' = wf /\ item' = item /\ edited' = edited /\ clock' = clock
    BY DEF Restart, db
  <1>2. HeldKeys' = {}
    BY WorkersApart DEF Restart, HeldKeys, Holds, Idle
  <1>3. \A f \in Workflows :
          PhaseAt(wf, item, HeldKeys', f) = IF PhaseAt(wf, item, HeldKeys, f) = "started"
                                              THEN "stalled" ELSE PhaseAt(wf, item, HeldKeys, f)
    <2> SUFFICES ASSUME NEW f \in Workflows
                 PROVE  PhaseAt(wf, item, HeldKeys', f) = IF PhaseAt(wf, item, HeldKeys, f) = "started"
                                              THEN "stalled" ELSE PhaseAt(wf, item, HeldKeys, f)
      OBVIOUS
    <2>1. CASE NextKeys(wf, f) = {}
      BY <2>1 DEF PhaseAt
    <2>2. ASSUME NEW k \in NextKeys(wf, f) PROVE PhaseAt(wf, item, HeldKeys', f) = IF PhaseAt(wf, item, HeldKeys, f) = "started"
                                              THEN "stalled" ELSE PhaseAt(wf, item, HeldKeys, f)
      <3>1. PhaseAt(wf, item, HeldKeys, f) = IF item[k].status = "none" THEN "waiting"
                               ELSE IF item[k].status = "queued" THEN "dispatched"
                               ELSE IF item[k].status = "running" /\ k \in HeldKeys THEN "started" ELSE "stalled"
        BY <1>0, <2>2, PhaseOfKey
      <3>2. PhaseAt(wf, item, HeldKeys', f) = IF item[k].status = "none" THEN "waiting"
                               ELSE IF item[k].status = "queued" THEN "dispatched"
                               ELSE IF item[k].status = "running" /\ k \in HeldKeys' THEN "started" ELSE "stalled"
        BY <1>0, <2>2, PhaseOfKey
      <3> QED
        BY <1>2, <3>1, <3>2
    <2> QED
      BY <2>1, <2>2
  <1>4. \A f \in Workflows :
          PlanAt(wf, item, HeldKeys', edited, f) = IF planOf[f].phase = "started"
                                                     THEN [planOf[f] EXCEPT !.phase = "stalled"] ELSE planOf[f]
    <2> SUFFICES ASSUME NEW f \in Workflows
                 PROVE  PlanAt(wf, item, HeldKeys', edited, f) = IF planOf[f].phase = "started"
                                                     THEN [planOf[f] EXCEPT !.phase = "stalled"] ELSE planOf[f]
      OBVIOUS
    <2>1. planOf[f] = PlanAt(wf, item, HeldKeys, edited, f)
      BY PlanIs
    <2>2. CASE Followed(wf, edited, f)
      BY <1>3, <2>1, <2>2 DEF PlanAt
    <2>3. CASE ~Followed(wf, edited, f)
      BY <2>1, <2>3 DEF PlanAt
    <2> QED
      BY <2>2, <2>3
  <1>5. planOf' = [f \in Workflows |-> IF planOf[f].phase = "started"
                                         THEN [planOf[f] EXCEPT !.phase = "stalled"] ELSE planOf[f]]
    BY <1>1, <1>4, PlanIs
  <1> QED
    BY <1>1, <1>5 DEF PlanStep, Contract!Next, Contract!StallAll

\* A worker never leaves its row inside RunWorkflow.Execute.
LEMMA ExecuteHeld ==
  ASSUME TypeOK, NEW e \in Executors, ExecuteStep(e) PROVE HeldKeys' = HeldKeys
  <1>0. exec \in [Executors -> ExecState] /\ exec[e] \in Busy /\ exec[e].pc # "idle"
    BY ExecuteQuiet, BusyIsTyped DEF TypeOK
  <1>1. Quiet /\ \A d \in Executors : d # e => exec'[d] = exec[d]
    BY ExecuteQuiet
  <1>2. e \in Workers => exec'[e].pc # "idle"
    <2>1. \A p : exec' = [exec EXCEPT ![e].pc = p] => exec'[e].pc = p
      BY <1>0 DEF Busy
    <2>2. e \in Workers /\ (exec' = Failed(e) \/ exec' = Returned(e)) => exec'[e].pc # "idle"
      BY <2>1, WorkersApart DEF Failed, Returned
    <2>3. CASE GetRow(e) \/ AcquireSem(e) \/ GiveUpSem(e) \/ StartRun(e) \/ FinishRun(e) \/ UpdateLastFired(e)
      BY <2>1, <2>2, <2>3 DEF GetRow, AcquireSem, GiveUpSem, StartRun, FinishRun, UpdateLastFired
    <2>4. CASE CreateRun(e) \/ RunGraph(e)
      BY <1>0, <2>2, <2>4 DEF CreateRun, RunGraph, Busy
    <2> QED
      BY <2>3, <2>4 DEF ExecuteStep
  <1>3. \A w \in Workers : /\ exec'[w].pc = "idle" <=> exec[w].pc = "idle"
                           /\ exec[w].pc # "idle" => exec'[w].wf = exec[w].wf /\ exec'[w].tick = exec[w].tick
    BY <1>0, <1>1, <1>2, WorkersApart DEF Quiet
  <1> QED
    BY <1>3, HeldStill

LEMMA ExecutePlan ==
  ASSUME TypeOK, ClaimInv, ScheduleInv, ContractInv, NEW e \in Executors, ExecuteStep(e)
  PROVE  ContractInv' /\ PlanStep
  <1>1. e # Scheduler
    BY ExecuteQuiet DEF ScheduleInv
  <1>2. CASE wf' = wf
    <2>1. clock' = clock
      BY DEF ExecuteStep, GetRow, CreateRun, AcquireSem, GiveUpSem, StartRun, RunGraph, FinishRun, UpdateLastFired
    <2> QED
      BY <1>1, <1>2, <2>1, ExecuteQuiet, ExecuteHeld, ContractInvExecute, StillPlan
  <1>3. CASE wf' # wf
    <2>1. UpdateLastFired(e) /\ e \in Workers
      BY <1>1, <1>3, ExecuteQuiet DEF UpdateLastFired, Executors
    <2> QED
      BY <1>3, <2>1, ContractInvFire, FirePlan
  <1> QED
    BY <1>2, <1>3

LEMMA QuietPlan ==
  ASSUME TypeOK, ClaimInv, ScheduleInv, ContractInv, QuietStep PROVE PlanStep
  <1>0. exec \in [Executors -> ExecState] /\ wf' = wf /\ item' = item /\ edited' = edited
    BY QuietStepQuiet DEF TypeOK
  <1>1. CASE exec' = exec /\ (AdvanceClock \/ clock' = clock)
    BY <1>0, <1>1, HeldStill, StillPlan
  <1>2. CASE Restart
    BY <1>2, RestartPlan
  <1>3. CASE \E c \in Callers, f \in Workflows : RunByHand(c, f)
    <2>1. \A w \in Workers : exec'[w] = exec[w]
      BY <1>0, <1>3, WorkersApart DEF RunByHand
    <2>2. clock' = clock
      BY <1>3 DEF RunByHand
    <2> QED
      BY <1>0, <2>1, <2>2, HeldStill, StillPlan
  <1>4. CASE \E w \in Workers : MarkLost(w)
    BY <1>4, MarkPlan
  <1>5. CASE \E e \in Executors : Expire(e)
    <2>1. \A w \in Workers : /\ exec'[w].pc = "idle" <=> exec[w].pc = "idle"
                             /\ exec[w].pc # "idle" => exec'[w].wf = exec[w].wf /\ exec'[w].tick = exec[w].tick
      BY <1>0, <1>5, WorkersApart DEF Expire, ExecState, Idle
    <2>2. clock' = clock
      BY <1>5 DEF Expire
    <2> QED
      BY <1>0, <2>1, <2>2, HeldStill, StillPlan
  <1> QED
    BY <1>1, <1>2, <1>3, <1>4, <1>5 DEF QuietStep, AdvanceClock, SchedNow, EditRead, SchedSkip, db

\* One step of the system, with the queue enabled.
LEMMA ContractNext ==
  ASSUME QueueEnabled, TypeOK, ClaimInv, ScheduleInv, ScheduleInv', ContractInv, [Next]_vars
  PROVE  ContractInv' /\ PlanStep
  <1>0. clock \in Nat /\ exec \in [Executors -> ExecState] /\ sched.now \in Nat
    BY NowTyped DEF TypeOK
  <1>1. CASE UNCHANGED vars
    <2>1. wf' = wf /\ item' = item /\ exec' = exec /\ edited' = edited /\ clock' = clock /\ sched' = sched
      BY <1>1 DEF vars
    <2>2. ContractInv'
      BY <2>1 DEF ContractInv, SpentInv, MarkInv, IsUpcoming
    <2> QED
      BY <2>1, <2>2, HeldStill, StillPlan
  <1>2. CASE QuietStep
    BY <1>2, ContractInvQuiet, QuietPlan
  <1>3. CASE \E e \in Executors : ExecuteStep(e)
    BY <1>3, ExecutePlan
  <1>4. ASSUME NEW w \in Workers, ClaimNext(w) PROVE ContractInv' /\ PlanStep
    <2>1. \A k \in Keys : item'[k].status # "none" => item[k].status # "none"
      BY <1>4 DEF ClaimNext, Claimable, TypeOK
    <2>2. /\ exec'[w].pc = "get" /\ \A v \in Workers : v # w => exec'[v] = exec[v]
      BY <1>0, <1>4, WorkersApart DEF ClaimNext, Idle
    <2>3. wf' = wf /\ edited' = edited /\ clock' = clock /\ sched' = sched /\ sched.now <= clock
      BY <1>4 DEF ClaimNext, ContractInv
    <2>4. ContractInv'
      BY <1>0, <2>1, <2>2, <2>3, ContractInvStill
    <2> QED
      BY <1>4, <2>4, ClaimPlan
  <1>5. ASSUME NEW w \in Workers, Mark(w) PROVE ContractInv' /\ PlanStep
    <2>1. \A k \in Keys : item'[k].status # "none" => item[k].status # "none"
      <3>1. KeyOf(w) \in Keys /\ item[KeyOf(w)].status = "running"
        BY <1>5 DEF ClaimInv, Mark
      <3>2. \A k \in Keys : k # KeyOf(w) => item'[k] = item[k]
        BY <1>5 DEF Mark, KeyOf, TypeOK
      <3> QED
        BY <3>1, <3>2
    <2>2. exec'[w].pc = "idle" /\ \A v \in Workers : v # w => exec'[v] = exec[v]
      BY <1>0, <1>5, WorkersApart DEF Mark, Idle
    <2>3. wf' = wf /\ edited' = edited /\ clock' = clock /\ sched' = sched /\ sched.now <= clock
      BY <1>5 DEF Mark, ContractInv
    <2>4. ContractInv'
      BY <1>0, <2>1, <2>2, <2>3, ContractInvStill
    <2> QED
      BY <1>5, <2>4, MarkPlan
  <1>6. CASE \E s \in sched.todo : SchedEnqueue(s)
    BY <1>6, ContractInvEnqueue, EnqueuePlan
  <1>7. CASE \E s \in sched.todo : SchedRunDirect(s)
    BY <1>7 DEF SchedRunDirect
  <1>8. CASE SchedList
    <2>1. wf' = wf /\ item' = item /\ exec' = exec /\ edited' = edited /\ clock' = clock /\ sched'.now = 0
      BY <1>8 DEF SchedList, db
    <2>2. ContractInv'
      BY <1>0, <2>1, ContractInvStill
    <2> QED
      BY <2>1, <2>2, HeldStill, StillPlan
  <1>9. ASSUME NEW f \in Workflows, DeleteWorkflow(f) PROVE ContractInv' /\ PlanStep
    <2>1. wf'[f].state = "deleted" /\ SameSchedule(f) /\ \A g \in Workflows : g # f => wf'[g] = wf[g]
      BY <1>9 DEF DeleteWorkflow, SameSchedule, TypeOK, WfRow
    <2>2. \A g \in Workflows : SameSchedule(g) /\ (wf'[g].state = "live" => wf[g].state = "live")
      BY <2>1 DEF SameSchedule
    <2>3. exec' = exec /\ item' = item /\ sched' = sched /\ clock' = clock /\ edited' = edited
      BY <1>9 DEF DeleteWorkflow
    <2>4. \A g \in edited' : wf'[g].state # "new"
      BY <2>2, <2>3 DEF ContractInv, SameSchedule, TypeOK
    <2> QED
      BY <1>9, <2>2, <2>3, <2>4, ContractInvWorkflows, DeletePlan
  <1>10. ASSUME NEW f \in Workflows, NEW c \in Schedules, CreateWorkflow(f, c) PROVE ContractInv' /\ PlanStep
    <2>1. wf[f].state = "new" /\ wf'[f].state = "live" /\ \A g \in Workflows : g # f => wf'[g] = wf[g]
      BY <1>10 DEF CreateWorkflow, TypeOK
    <2>2. \A g \in Workflows : \/ wf[g].state = "new" /\ wf'[g].state = "live"
                               \/ SameSchedule(g) /\ (wf'[g].state = "live" => wf[g].state = "live")
      BY <2>1 DEF SameSchedule
    <2>3. exec' = exec /\ item' = item /\ sched' = sched /\ clock' = clock /\ edited' = edited
      BY <1>10 DEF CreateWorkflow
    <2>4. \A g \in edited' : wf'[g].state # "new"
      BY <2>1, <2>3 DEF ContractInv, TypeOK
    <2> QED
      BY <1>10, <2>2, <2>3, <2>4, ContractInvWorkflows, CreatePlan
  <1>11. ASSUME NEW u \in Editors, EditWrite(u) PROVE ContractInv' /\ PlanStep
    <2>1. exec' = exec /\ item' = item /\ sched' = sched /\ clock' = clock /\ edited \subseteq edited'
      BY <1>11 DEF EditWrite
    <2>2. \A g \in Workflows : wf'[g].state = wf[g].state /\ (g \notin edited' => SameSchedule(g))
      <3> DEFINE f == edit[u].wf
      <3>1. CASE wf' = wf
        BY <3>1 DEF SameSchedule
      <3>2. CASE wf' # wf
        <4>1. /\ wf[f].state = "live" /\ wf' = [wf EXCEPT ![f].cron = edit[u].cron]
              /\ edited' = IF edit[u].cron = wf[f].cron THEN edited ELSE edited \cup {f}
          BY <1>11, <3>2 DEF EditWrite
        <4> HIDE DEF f
        <4>2. \A g \in Workflows : g # f => wf'[g] = wf[g]
          BY <4>1 DEF TypeOK
        <4>3. f \in Workflows => /\ wf'[f].state = wf[f].state /\ wf'[f].created = wf[f].created
                                 /\ wf'[f].fired = wf[f].fired /\ wf'[f].cron = edit[u].cron
          BY <4>1 DEF TypeOK, WfRow
        <4> QED
          BY <4>1, <4>2, <4>3 DEF SameSchedule
      <3> QED
        BY <3>1, <3>2
    <2>3. \A g \in edited' : wf'[g].state # "new"
      <3>1. edit[u].wf \in Workflows
        BY <1>11 DEF EditWrite, EditState, IdleEdit, TypeOK
      <3>2. \A g \in edited' : g \in Workflows /\ (g \in edited \/ wf[g].state = "live")
        BY <1>11, <3>1 DEF EditWrite, TypeOK
      <3> QED
        BY <2>2, <3>2 DEF ContractInv
    <2> QED
      BY <1>11, <2>1, <2>2, <2>3, ContractInvWorkflows, EditPlan
  <1> QED
    BY <1>1, <1>2, <1>3, <1>4, <1>5, <1>6, <1>7, <1>8, <1>9, <1>10, <1>11, WorkersApart
       DEF Next, WorkerStep, SchedulerStep, Environment, QuietStep

\* The queue, however many workers execute it and whatever crashes, expires, is
\* edited or deleted, keeps the promise of CronContract: ticks of an unedited
\* workflow are dispatched and executed in cron order, one at a time, each at
\* most once, and a failed or lost execution stalls the schedule for good.
THEOREM QueueKeepsContract == ASSUME QueueEnabled PROVE Spec => ImplementsContract
  <1>1. Init => Contract!Init
    BY DEF Init, planOf, Contract!Init, Contract!Off, Contract!Never, Never
  <1>2. TypeOK /\ ClaimInv /\ ScheduleInv /\ ScheduleInv' /\ ContractInv /\ [Next]_vars
          => ContractInv' /\ [Contract!Next]_(Contract!vars)
    BY ContractNext DEF PlanStep
  <1> QED
    BY <1>1, <1>2, ContractInvInit, TypeCorrect, ClaimInvCorrect, ScheduleInvCorrect, PTL
       DEF Spec, ImplementsContract, Contract!Spec

=============================================================================
