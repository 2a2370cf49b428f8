------------------------------ MODULE TaskLists ------------------------------
(***************************************************************************)
(* Task lists that the agent executes one item after the other: the HTTP   *)
(* handlers that create, edit, run and delete lists and items, and the     *)
(* goroutine that a run request leaves behind.                             *)
(*                                                                         *)
(* Each SQL statement is one step.  A handler reads the list first and     *)
(* writes the whole row back last, so it holds a copy in between; the      *)
(* goroutine holds copies of the list and of its items, and goes on when   *)
(* one of its writes fails.  Any number of requests may be open at a time. *)
(***************************************************************************)
EXTENDS Integers, FiniteSets

CONSTANTS
  Lists, Items,   \* rows that may be created
  Requests,       \* requests, each with the goroutine it may start
  MaxBegun,       \* bound: requests that clients send
  MaxPos,         \* bound: largest position of an item
  MaxFaults       \* bound: crashes of the process, and writes of goroutines that fail

ASSUME Bounds == MaxBegun \in Nat /\ MaxPos \in Nat /\ MaxFaults \in Nat

ASSUME Finite == IsFiniteSet(Items)

VARIABLES
  list,     \* laele_task_lists
  item,     \* laele_task_items
  req,      \* requests and goroutines
  begun,    \* requests sent so far
  faults,   \* crashes and failed writes so far
  \* Histories: how often an item was given to the executor (up to 2), what
  \* came of it last, and the due date the user asked for last;
  runs, did, want,
  \* lists on which a row was put back that was no longer what the table held,
  \* and items that were added, edited or deleted while a run was under way;
  stale, late,
  \* items whose outcome could not be written, lists whose outcome never will.
  unsaved, unended

history == <<runs, did, want, stale, late, unsaved, unended>>
vars    == <<list, item, req, begun, faults, history>>

-----------------------------------------------------------------------------

None      == "none"
Dues      == {"none", "soon"}
Positions == 0..MaxPos
Terminal  == {"completed", "failed"}

\* "new" is a row not yet created, "gone" one that was deleted.
ListRow == [status : {"new", "gone", "pending", "running", "completed", "failed"}, finished : BOOLEAN]
ItemRow == [status : {"new", "gone", "pending", "running", "completed", "failed"},
            list : Lists \cup {None}, pos : Positions, due : Dues]

NewList == [status |-> "new", finished |-> FALSE]
NewItem == [status |-> "new", list |-> None, pos |-> 0, due |-> "none"]

\* row: the copy of the list; base: MAX(position); todo and seen: the items the
\* goroutine has still to run and their rows as it read them.
Idle == [pc |-> "idle", list |-> None, row |-> NewList, item |-> None, base |-> -1,
         todo |-> {}, seen |-> [i \in Items |-> NewItem], failed |-> FALSE]

Working    == {"createBatch", "runItems", "runMark", "maxPos", "batch", "getItem", "patch",
               "getDeleted", "delete", "touch"}
Background == {"loop", "exec"}

RequestState ==
  [pc : {"idle"} \cup Working \cup Background, list : Lists \cup {None}, row : ListRow,
   item : Items \cup {None}, base : -1..MaxPos, todo : SUBSET Items, seen : [Items -> ItemRow],
   failed : BOOLEAN]

Request ==
  {q \in RequestState : /\ q.pc # "idle" => q.list \in Lists
                        /\ q.pc \in {"patch", "delete", "exec"} => q.item \in Items}

Init ==
  /\ list = [l \in Lists |-> NewList]
  /\ item = [i \in Items |-> NewItem]
  /\ req = [r \in Requests |-> Idle]
  /\ begun = 0 /\ faults = 0
  /\ runs = [i \in Items |-> 0]
  /\ did = [i \in Items |-> "none"]
  /\ want = [i \in Items |-> "none"]
  /\ stale = {} /\ late = {} /\ unsaved = {} /\ unended = {}

ListExists(l) == list[l].status \notin {"new", "gone"}
ItemExists(i) == item[i].status \notin {"new", "gone"}
ItemsOf(l)    == {i \in Items : ItemExists(i) /\ item[i].list = l}

\* A run of the list is under way: its items were read, or it is marked running.
UnderWay(l) ==
  \/ list[l].status = "running"
  \/ \E r \in Requests : req[r].pc \in {"runMark"} \cup Background /\ req[r].list = l

\* A client sends request r.
Begin(r) == req[r].pc = "idle" /\ begun < MaxBegun /\ begun' = begun + 1

GoTo(r, pc) == req' = [req EXCEPT ![r].pc = pc]
Return(r)   == req' = [req EXCEPT ![r] = Idle]

-----------------------------------------------------------------------------
(* Requests.                                                               *)

\* CreateTaskList: the list first, then its items, if any.
CreateList(r, l) ==
  /\ Begin(r) /\ list[l].status = "new"
  /\ list' = [list EXCEPT ![l].status = "pending"]
  /\ \/ Return(r)
     \/ req' = [req EXCEPT ![r] = [Idle EXCEPT !.pc = "createBatch", !.list = l]]
  /\ UNCHANGED <<item, faults, history>>

\* Mutants: running lists can be run, or be edited.
MutReadListRun(r, l, op) ==
  /\ Begin(r) /\ ListExists(l)
  /\ op # "runItems" => list[l].status # "running"
  /\ req' = [req EXCEPT ![r] = [Idle EXCEPT !.pc = op, !.list = l, !.row = list[l]]]
  /\ UNCHANGED <<list, item, faults, history>>
MutReadListEdit(r, l, op) ==
  /\ Begin(r) /\ ListExists(l)
  /\ op = "runItems" => list[l].status = "pending"
  /\ req' = [req EXCEPT ![r] = [Idle EXCEPT !.pc = op, !.list = l, !.row = list[l]]]
  /\ UNCHANGED <<list, item, faults, history>>

\* The first statement of every other handler: only pending lists run, running
\* lists are not edited.
ReadList(r, l, op) ==
  /\ Begin(r) /\ ListExists(l)
  /\ IF op = "runItems" THEN list[l].status = "pending" ELSE list[l].status # "running"
  /\ req' = [req EXCEPT ![r] = [Idle EXCEPT !.pc = op, !.list = l, !.row = list[l]]]
  /\ UNCHANGED <<list, item, faults, history>>

\* AppendTaskItems: COALESCE(MAX(position), -1).
MaxPosition(r) ==
  /\ req[r].pc = "maxPos"
  /\ \E base \in -1..MaxPos :
       /\ \A i \in ItemsOf(req[r].list) : item[i].pos <= base
       /\ base # -1 => \E i \in ItemsOf(req[r].list) : item[i].pos = base
       /\ req' = [req EXCEPT ![r].pc = "batch", ![r].base = base]
  /\ UNCHANGED <<list, item, begun, faults, history>>

\* The positions of a batch of new items.
MutPlaces(base, S) == {p \in [S -> (base + 1)..(base + 1 + Cardinality(S))] : \A i, j \in S : p[i] = p[j] => i = j}
Places(base, S) == {p \in [S -> (base + 1)..(base + Cardinality(S))] : \A i, j \in S : p[i] = p[j] => i = j}

\* CreateBatch, one transaction; the foreign key refuses items of a deleted list.
CreateBatch(r, S) ==
  LET l == req[r].list IN
  /\ req[r].pc \in {"createBatch", "batch"}
  /\ S # {} /\ \A i \in S : item[i].status = "new"
  /\ req[r].base + Cardinality(S) <= MaxPos
  /\ IF ListExists(l)
       THEN /\ \E pos \in Places(req[r].base, S) :
                 item' = [i \in Items |->
                   IF i \in S THEN [NewItem EXCEPT !.status = "pending", !.list = l, !.pos = pos[i]]
                              ELSE item[i]]
            /\ late' = IF UnderWay(l) THEN late \cup S ELSE late
            /\ IF req[r].pc = "batch" THEN GoTo(r, "touch") ELSE Return(r)
       ELSE Return(r) /\ UNCHANGED <<item, late>>
  /\ UNCHANGED <<list, begun, faults, runs, did, want, stale, unsaved, unended>>

\* GetByIDAndUser of the item; only PatchTaskItem looks at its status here.
GetItem(r, i) ==
  LET del == req[r].pc = "getDeleted" IN
  /\ req[r].pc \in {"getItem", "getDeleted"}
  /\ IF i \in ItemsOf(req[r].list) /\ (del \/ item[i].status = "pending")
       THEN req' = [req EXCEPT ![r].pc = IF del THEN "delete" ELSE "patch", ![r].item = i]
       ELSE Return(r)
  /\ UNCHANGED <<list, item, begun, faults, history>>

\* UpdateUserFields, of a pending item.
PatchItem(r, pos, due) ==
  LET i == req[r].item IN
  /\ req[r].pc = "patch"
  /\ IF item[i].status = "pending"
       THEN /\ item' = [item EXCEPT ![i].pos = pos, ![i].due = due]
            /\ want' = [want EXCEPT ![i] = due]
            /\ late' = IF UnderWay(req[r].list) THEN late \cup {i} ELSE late
            /\ GoTo(r, "touch")
       ELSE Return(r) /\ UNCHANGED <<item, want, late>>
  /\ UNCHANGED <<list, begun, faults, runs, did, stale, unsaved, unended>>

\* DeleteByIDAndUser, of a pending item.
DeleteItem(r) ==
  LET i == req[r].item IN
  /\ req[r].pc = "delete"
  /\ IF item[i].status = "pending"
       THEN /\ item' = [item EXCEPT ![i].status = "gone"]
            /\ late' = IF UnderWay(req[r].list) THEN late \cup {i} ELSE late
            /\ GoTo(r, "touch")
       ELSE Return(r) /\ UNCHANGED <<item, late>>
  /\ UNCHANGED <<list, begun, faults, runs, did, want, stale, unsaved, unended>>

\* Lists.Update: the whole row, from the copy the request read at its start.
PutBack(r, row) ==
  LET l == req[r].list IN
  /\ list' = [list EXCEPT ![l] = row]
  /\ stale' = IF list[l] = req[r].row THEN stale ELSE stale \cup {l}

\* Lists.Update with the copy as it was read; also all of PatchTaskListTitle.
Touch(r) ==
  /\ req[r].pc = "touch"
  /\ IF ListExists(req[r].list) THEN PutBack(r, req[r].row) ELSE UNCHANGED <<list, stale>>
  /\ Return(r)
  /\ UNCHANGED <<item, begun, faults, runs, did, want, late, unsaved, unended>>

\* DeleteTaskList in one statement, whatever the status; the items go with it.
DeleteList(r, l) ==
  /\ Begin(r) /\ ListExists(l)
  /\ list' = [list EXCEPT ![l].status = "gone"]
  /\ item' = [i \in Items |-> IF i \in ItemsOf(l) THEN [item[i] EXCEPT !.status = "gone"] ELSE item[i]]
  /\ UNCHANGED <<req, faults, history>>

\* The client goes away, or a statement fails: the handler gives up.
Abort(r) ==
  /\ req[r].pc \in Working
  /\ Return(r)
  /\ UNCHANGED <<list, item, begun, faults, history>>

-----------------------------------------------------------------------------
(* RunTaskList.                                                            *)

\* Mutant: the query leaves out due_at.
MutReadItems(r) ==
  /\ req[r].pc = "runItems"
  /\ req' = [req EXCEPT ![r].pc = "runMark", ![r].seen = [i \in Items |-> [item[i] EXCEPT !.due = "none"]],
                        ![r].todo = {i \in ItemsOf(req[r].list) : item[i].status = "pending"}]
  /\ UNCHANGED <<list, item, begun, faults, history>>

\* Execute: ListByTaskList.  runSequential skips what is not pending in it.
ReadItems(r) ==
  /\ req[r].pc = "runItems"
  /\ LET pending == {i \in ItemsOf(req[r].list) : item[i].status = "pending"} IN
       req' = [req EXCEPT ![r].pc = "runMark", ![r].todo = pending,
                          ![r].seen = [i \in Items |-> IF i \in pending THEN item[i] ELSE NewItem]]
  /\ UNCHANGED <<list, item, begun, faults, history>>

\* Mutant: there is no goroutine for an empty list.
MutMark(r) ==
  /\ req[r].pc = "runMark" /\ ListExists(req[r].list)
  /\ PutBack(r, [req[r].row EXCEPT !.status = "running"])
  /\ IF req[r].todo = {} THEN Return(r) ELSE GoTo(r, "loop")
  /\ UNCHANGED <<item, begun, faults, runs, did, want, late, unsaved, unended>>

\* Execute: the list is marked running and the goroutine starts.
Mark(r) ==
  /\ req[r].pc = "runMark"
  /\ IF ListExists(req[r].list)
       THEN PutBack(r, [req[r].row EXCEPT !.status = "running"]) /\ GoTo(r, "loop")
       ELSE Return(r) /\ UNCHANGED <<list, stale>>
  /\ UNCHANGED <<item, begun, faults, runs, did, want, late, unsaved, unended>>

\* A write of a goroutine succeeds, or fails and is only logged.
Write(stored) == IF stored THEN faults' = faults ELSE faults < MaxFaults /\ faults' = faults + 1

\* Items.Update: the status and what the goroutine read of the due date.  When
\* it fails the error is logged, and the goroutine goes on.
Store(r, i, status, stored) ==
  item' = [item EXCEPT ![i] =
             IF stored /\ ItemExists(i) THEN [@ EXCEPT !.status = status, !.due = req[r].seen[i].due] ELSE @]

\* Mutant: the items come in any order.
MutIsNext(r, i) == i \in req[r].todo
IsNext(r, i) ==
  i \in req[r].todo /\ \A j \in req[r].todo : req[r].seen[i].pos <= req[r].seen[j].pos

\* The item is marked running, or not, and given to the executor.
StartItem(r, i, stored) ==
  /\ req[r].pc = "loop" /\ IsNext(r, i)
  /\ Write(stored)
  /\ Store(r, i, "running", stored)
  /\ runs' = [runs EXCEPT ![i] = IF @ = 2 THEN 2 ELSE @ + 1]
  /\ req' = [req EXCEPT ![r].pc = "exec", ![r].item = i, ![r].todo = @ \ {i}]
  /\ UNCHANGED <<list, begun, did, want, stale, late, unsaved, unended>>

\* Mutant: a failed item is tried again.
MutFinishItem(r, ok, stored) ==
  LET i == req[r].item IN
  /\ req[r].pc = "exec"
  /\ Write(stored)
  /\ Store(r, i, IF ok THEN "completed" ELSE "failed", stored)
  /\ did' = [did EXCEPT ![i] = IF ok THEN "ok" ELSE "failed"]
  /\ unsaved' = IF stored THEN unsaved \ {i} ELSE unsaved \cup {i}
  /\ req' = [req EXCEPT ![r].pc = "loop", ![r].item = None, ![r].todo = IF ok THEN @ ELSE @ \cup {i}]
  /\ UNCHANGED <<list, begun, runs, want, stale, late, unended>>

\* The executor answers; a failure ends the sequence.
FinishItem(r, ok, stored) ==
  LET i == req[r].item IN
  /\ req[r].pc = "exec"
  /\ Write(stored)
  /\ Store(r, i, IF ok THEN "completed" ELSE "failed", stored)
  /\ did' = [did EXCEPT ![i] = IF ok THEN "ok" ELSE "failed"]
  /\ unsaved' = IF stored THEN unsaved \ {i} ELSE unsaved \cup {i}
  /\ req' = [req EXCEPT ![r].pc = "loop", ![r].item = None, ![r].failed = ~ok,
                        ![r].todo = IF ok THEN @ ELSE {}]
  /\ UNCHANGED <<list, begun, runs, want, stale, late, unended>>

\* Mutant: the outcome of the items is forgotten.
MutFinishList(r, stored) ==
  LET l == req[r].list IN
  /\ req[r].pc = "loop" /\ req[r].todo = {}
  /\ Write(stored)
  /\ list' = IF stored /\ ListExists(l) THEN [list EXCEPT ![l] = [status |-> "completed", finished |-> TRUE]]
                                        ELSE list
  /\ unended' = IF stored THEN unended ELSE unended \cup {l}
  /\ Return(r)
  /\ UNCHANGED <<item, begun, runs, did, want, stale, late, unsaved>>

\* The list gets its final status, or the error is logged and the goroutine ends.
FinishList(r, stored) ==
  LET l == req[r].list
      status == IF req[r].failed THEN "failed" ELSE "completed"
  IN
  /\ req[r].pc = "loop" /\ req[r].todo = {}
  /\ Write(stored)
  /\ list' = IF stored /\ ListExists(l) THEN [list EXCEPT ![l] = [status |-> status, finished |-> TRUE]] ELSE list
  /\ unended' = IF stored THEN unended ELSE unended \cup {l}
  /\ Return(r)
  /\ UNCHANGED <<item, begun, runs, did, want, stale, late, unsaved>>

\* The process dies and starts again; nothing resumes the goroutines.
Crash ==
  /\ faults < MaxFaults
  /\ faults' = faults + 1
  /\ req' = [r \in Requests |-> Idle]
  /\ unended' = unended \cup {l \in Lists : list[l].status = "running"}
  /\ UNCHANGED <<list, item, begun, runs, did, want, stale, late, unsaved>>

-----------------------------------------------------------------------------

Operations == {"runItems", "maxPos", "getItem", "getDeleted", "touch"}

Handler(r) ==
  \/ \E l \in Lists : CreateList(r, l) \/ DeleteList(r, l)
  \/ \E l \in Lists, op \in Operations : ReadList(r, l, op)
  \/ \E S \in SUBSET Items : CreateBatch(r, S)
  \/ \E i \in Items : GetItem(r, i)
  \/ \E pos \in Positions, due \in Dues : PatchItem(r, pos, due)
  \/ MaxPosition(r) \/ DeleteItem(r) \/ Touch(r) \/ Abort(r) \/ ReadItems(r) \/ Mark(r)

Goroutine(r) ==
  \/ \E i \in Items, stored \in BOOLEAN : StartItem(r, i, stored)
  \/ \E ok, stored \in BOOLEAN : FinishItem(r, ok, stored)
  \/ \E stored \in BOOLEAN : FinishList(r, stored)

Next == Crash \/ \E r \in Requests : Handler(r) \/ Goroutine(r)

Spec == Init /\ [][Next]_vars

\* The runtime schedules every goroutine, and the HTTP client of the executor
\* has a timeout, so the executor answers.
FairSpec == Spec /\ \A r \in Requests : WF_vars(Goroutine(r))

-----------------------------------------------------------------------------
(* Properties.                                                             *)

TypeOK ==
  /\ list \in [Lists -> ListRow]
  /\ item \in [Items -> ItemRow]
  /\ req \in [Requests -> Request]
  /\ begun \in 0..MaxBegun /\ faults \in 0..MaxFaults
  /\ runs \in [Items -> 0..2]
  /\ did \in [Items -> {"none", "ok", "failed"}]
  /\ want \in [Items -> Dues]
  /\ stale \subseteq Lists /\ late \subseteq Items /\ unsaved \subseteq Items /\ unended \subseteq Lists

Running(l) == {r \in Requests : req[r].pc \in Background /\ req[r].list = l}

\* ErrAlreadyRunning: a list has at most one goroutine.  Requests that overlap
\* break this.
OneGoroutine == \A l \in Lists : \A r, s \in Running(l) : r = s

\* What breaks it is a row put back from an outdated copy, and nothing else:
\* any other list has one goroutine at most, and is marked running as long as
\* it has one, unless it was deleted.
OneRunner ==
  \A l \in Lists \ stale :
    /\ \A r, s \in Running(l) : r = s
    /\ Running(l) # {} => list[l].status \in {"running", "gone"}

\* No item of such a list is given to the executor twice, whatever fails, ends,
\* is not written, or is deleted.
ItemOnce == \A i \in Items : item[i].list \in Lists \ stale => runs[i] <= 1

\* The items of a running list are executed in the order of the positions the
\* user sees, each after the ones before it went well, but for items changed
\* while the run was under way; whether their rows could be written or not.
InOrder ==
  \A l \in Lists \ stale : list[l].status = "running" =>
    \A i, j \in ItemsOf(l) \ late :
      item[j].pos < item[i].pos /\ runs[i] > 0 => did[j] = "ok"

\* A due date the user set is not overwritten by the copy of a goroutine, unless
\* it was set while a run was under way.
EditsKept == \A i \in Items \ late : ItemExists(i) => item[i].due = want[i]

\* The final status of a list tells what the executor did: one item failed, or
\* all went well, but for the ones that came too late.  The rows of these say
\* so too, as far as they could be written.
OutcomeTellsItems ==
  [][\A l \in Lists \ stale' : list[l].status = "running" /\ list'[l].status \in Terminal =>
       /\ list'[l].finished
       /\ list'[l].status = "failed" <=> \E i \in Items : item[i].list = l /\ did[i] = "failed"
       /\ list'[l].status = "completed" => \A i \in ItemsOf(l) \ late : did[i] = "ok"
       /\ \A i \in ItemsOf(l) \ unsaved : did[i] = "ok" => item[i].status = "completed"
       /\ \A i \in ItemsOf(l) \ unsaved : did[i] = "failed" => item[i].status = "failed"]_vars

\* A run that was accepted ends, unless the process crashed under it or its final
\* status could not be written: nothing takes the mark away then.
RunEnds == \A l \in Lists : list[l].status = "running" ~> list[l].status # "running" \/ l \in unended

=============================================================================
