---------------------------- MODULE CronContract ----------------------------
(***************************************************************************)
(* What the scheduler, the queue and the workers together promise for a    *)
(* workflow whose schedule is not edited: its ticks are dispatched and     *)
(* executed in cron order, one at a time, each at most once, none skipped, *)
(* until an execution fails or is lost in a restart.  From then on the     *)
(* workflow is stalled: no later tick is ever dispatched.                  *)
(***************************************************************************)
EXTENDS Integers

CONSTANTS Workflows, Crons, NoCron, CronTicks, MaxTime

VARIABLES clock, plan

vars == <<clock, plan>>

Never == -1

Plan == [phase : {"off", "gone", "waiting", "dispatched", "started", "stalled"},
         cron : Crons \cup {NoCron}, created : Nat, fired : Nat \cup {Never}]

Off  == [phase |-> "off", cron |-> NoCron, created |-> 0, fired |-> Never]
Gone == [Off EXCEPT !.phase = "gone"]

Init ==
  /\ clock = 0
  /\ plan = [f \in Workflows |-> Off]

Anchor(p) == IF p.fired = Never THEN p.created ELSE p.fired

\* t is the tick that follows what the workflow has already fired.
Upcoming(p, t) ==
  /\ p.cron # NoCron
  /\ t \in CronTicks[p.cron] /\ t > Anchor(p)
  /\ \A u \in CronTicks[p.cron] : u > Anchor(p) => t <= u

Tick == clock < MaxTime /\ clock' = clock + 1 /\ UNCHANGED plan

Register(f, c) ==
  /\ plan[f] = Off
  /\ plan' = [plan EXCEPT ![f] = [phase |-> "waiting", cron |-> c, created |-> clock, fired |-> Never]]
  /\ UNCHANGED clock

Dispatch(f) ==
  /\ plan[f].phase = "waiting"
  /\ \E t \in 1..clock : Upcoming(plan[f], t)
  /\ plan' = [plan EXCEPT ![f].phase = "dispatched"]
  /\ UNCHANGED clock

Start(f) ==
  /\ plan[f].phase = "dispatched"
  /\ plan' = [plan EXCEPT ![f].phase = "started"]
  /\ UNCHANGED clock

Fire(f) ==
  /\ plan[f].phase = "started"
  /\ \E t \in 1..clock :
       /\ Upcoming(plan[f], t)
       /\ plan' = [plan EXCEPT ![f].phase = "waiting", ![f].fired = t]
  /\ UNCHANGED clock

Stall(f) ==
  /\ plan[f].phase = "started"
  /\ plan' = [plan EXCEPT ![f].phase = "stalled"]
  /\ UNCHANGED clock

\* A restart loses every execution under way at once.
StallAll ==
  /\ plan' = [f \in Workflows |-> IF plan[f].phase = "started"
                                    THEN [plan[f] EXCEPT !.phase = "stalled"] ELSE plan[f]]
  /\ UNCHANGED clock

\* The workflow is deleted, or its schedule is edited: nothing is promised.
Remove(f) ==
  /\ plan[f].phase \notin {"off", "gone"}
  /\ plan' = [plan EXCEPT ![f] = Gone]
  /\ UNCHANGED clock

Next ==
  \/ Tick \/ StallAll
  \/ \E f \in Workflows, c \in Crons \cup {NoCron} : Register(f, c)
  \/ \E f \in Workflows : Dispatch(f) \/ Start(f) \/ Fire(f) \/ Stall(f) \/ Remove(f)

Spec == Init /\ [][Next]_vars
=============================================================================
