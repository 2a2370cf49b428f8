---------------------------- MODULE TaskListsProofs ----------------------------
(***************************************************************************)
(* Safety of the task lists for every number of lists, items and requests, *)
(* all of which may overlap.                                               *)
(***************************************************************************)
EXTENDS TaskLists, FiniteSetTheorems, TLAPS

-----------------------------------------------------------------------------
(* Type correctness.                                                       *)

Pcs     == {"idle"} \cup Working \cup Background
ItemPcs == {"patch", "delete", "exec"}

LEMMA IdleTyped ==
  /\ Idle \in Request
  /\ \A p \in Pcs \ ItemPcs, l \in Lists : [Idle EXCEPT !.pc = p, !.list = l] \in Request
  /\ \A p \in Pcs \ ItemPcs, l \in Lists, row \in ListRow : [Idle EXCEPT !.pc = p, !.list = l, !.row = row] \in Request
  <1>1. NewItem \in ItemRow /\ NewList \in ListRow /\ -1 \in -1..MaxPos
    BY Bounds DEF NewItem, NewList, ItemRow, ListRow, Positions, Dues
  <1>2. [i \in Items |-> NewItem] \in [Items -> ItemRow]
    BY <1>1
  <1> QED
    BY <1>1, <1>2 DEF Idle, Request, RequestState, Pcs, ItemPcs, None

\* The updates of a busy request that the actions make.
LEMMA RequestMoves ==
  ASSUME NEW q \in Request, q.pc # "idle", NEW p \in Pcs
  PROVE  /\ p \notin ItemPcs =>
              /\ [q EXCEPT !.pc = p] \in Request
              /\ \A b \in -1..MaxPos : [q EXCEPT !.pc = p, !.base = b] \in Request
              /\ \A S \in SUBSET Items, seen \in [Items -> ItemRow] :
                   [q EXCEPT !.pc = p, !.seen = seen, !.todo = S] \in Request
              /\ \A b \in BOOLEAN, S \in SUBSET Items :
                   [q EXCEPT !.pc = p, !.item = None, !.failed = b, !.todo = S] \in Request
         /\ \A i \in Items : [q EXCEPT !.pc = p, !.item = i] \in Request
         /\ \A i \in Items, S \in SUBSET Items : [q EXCEPT !.pc = p, !.item = i, !.todo = S] \in Request
  BY DEF Request, RequestState, Pcs, ItemPcs

LEMMA ItemMoves ==
  ASSUME NEW x \in ItemRow
  PROVE  /\ \A st \in {"gone", "running", "completed", "failed"} : [x EXCEPT !.status = st] \in ItemRow
         /\ \A st \in {"running", "completed", "failed"}, due \in Dues : [x EXCEPT !.status = st, !.due = due] \in ItemRow
         /\ \A pos \in Positions, due \in Dues : [x EXCEPT !.pos = pos, !.due = due] \in ItemRow
         /\ x.due \in Dues /\ x.pos \in Positions
  BY DEF ItemRow

LEMMA ListMoves ==
  ASSUME NEW x \in ListRow
  PROVE  \A st \in {"gone", "pending", "running"} : [x EXCEPT !.status = st] \in ListRow
  BY DEF ListRow

LEMMA InitTyped == Init => TypeOK
  <1> SUFFICES ASSUME Init PROVE TypeOK
    OBVIOUS
  <1>1. NewItem \in ItemRow /\ NewList \in ListRow
    BY Bounds DEF NewItem, NewList, ItemRow, ListRow, Positions, Dues
  <1>2. list \in [Lists -> ListRow] /\ item \in [Items -> ItemRow] /\ req \in [Requests -> Request]
    BY <1>1, IdleTyped DEF Init
  <1>3. /\ runs \in [Items -> 0..2] /\ want \in [Items -> Dues] /\ did \in [Items -> {"none", "ok", "failed"}]
        /\ begun \in 0..MaxBegun /\ faults \in 0..MaxFaults
        /\ stale \subseteq Lists /\ late \subseteq Items /\ unsaved \subseteq Items /\ unended \subseteq Lists
    BY Bounds DEF Init, Dues
  <1> QED
    BY <1>2, <1>3 DEF TypeOK

\* Requests that only move on.
LEMMA MovesTyped ==
  ASSUME TypeOK, NEW r \in Requests, req[r].pc # "idle"
  PROVE  /\ \A p \in Pcs \ ItemPcs : GoTo(r, p) => req' \in [Requests -> Request]
         /\ Return(r) => req' \in [Requests -> Request]
         /\ req[r].list \in Lists
         /\ req[r].pc \in ItemPcs => req[r].item \in Items
  <1>1. req \in [Requests -> Request] /\ req[r] \in Request
    BY DEF TypeOK
  <1>2. \A p \in Pcs \ ItemPcs : [req[r] EXCEPT !.pc = p] \in Request
    BY <1>1, RequestMoves
  <1> QED
    BY <1>1, <1>2, IdleTyped DEF GoTo, Return, Request, ItemPcs

LEMMA ReturnTyped ==
  ASSUME TypeOK, NEW r \in Requests, Return(r)
  PROVE  req' \in [Requests -> Request]
  BY IdleTyped DEF Return, TypeOK

\* The counters of requests and faults.
LEMMA CountersTyped ==
  ASSUME TypeOK
  PROVE  /\ \A r \in Requests : Begin(r) => begun' \in 0..MaxBegun
         /\ \A stored \in BOOLEAN : Write(stored) => faults' \in 0..MaxFaults
         /\ Crash => faults' \in 0..MaxFaults
  BY Bounds DEF TypeOK, Begin, Write, Crash

LEMMA HandlerTyped == ASSUME TypeOK, NEW r \in Requests, Handler(r) PROVE TypeOK'
  <1>0. /\ list \in [Lists -> ListRow] /\ item \in [Items -> ItemRow] /\ req \in [Requests -> Request]
        /\ req[r] \in Request /\ req[r] \in RequestState /\ \A i \in Items : item[i] \in ItemRow
        /\ stale \subseteq Lists /\ late \subseteq Items
    BY DEF TypeOK, Request
  <1>1. ASSUME NEW l \in Lists, CreateList(r, l) PROVE TypeOK'
    <2>1. [list[l] EXCEPT !.status = "pending"] \in ListRow
      BY <1>0, ListMoves
    <2>2. list' \in [Lists -> ListRow]
      BY <1>0, <1>1, <2>1 DEF CreateList
    <2>3. [Idle EXCEPT !.pc = "createBatch", !.list = l] \in Request
      BY IdleTyped DEF Pcs, Working, ItemPcs
    <2>4. req' \in [Requests -> Request]
      BY <1>0, <1>1, <2>3, ReturnTyped DEF CreateList
    <2> QED
      BY <1>1, <2>2, <2>4, CountersTyped DEF CreateList, history, TypeOK
  <1>2. ASSUME NEW l \in Lists, DeleteList(r, l) PROVE TypeOK'
    <2>1. [list[l] EXCEPT !.status = "gone"] \in ListRow
      BY <1>0, ListMoves
    <2>2. list' \in [Lists -> ListRow]
      BY <1>0, <1>2, <2>1 DEF DeleteList
    <2>3. \A i \in Items : [item[i] EXCEPT !.status = "gone"] \in ItemRow
      BY <1>0, ItemMoves
    <2>4. item' \in [Items -> ItemRow]
      BY <1>0, <1>2, <2>3 DEF DeleteList
    <2> QED
      BY <1>2, <2>2, <2>4, CountersTyped DEF DeleteList, history, TypeOK
  <1>3. ASSUME NEW l \in Lists, NEW op \in Operations, ReadList(r, l, op) PROVE TypeOK'
    <2>1. [Idle EXCEPT !.pc = op, !.list = l, !.row = list[l]] \in Request
      BY <1>0, IdleTyped DEF Pcs, Working, Operations, ItemPcs
    <2>2. req' \in [Requests -> Request]
      BY <1>0, <1>3, <2>1 DEF ReadList
    <2> QED
      BY <1>3, <2>2, CountersTyped DEF ReadList, history, TypeOK
  <1>4. ASSUME NEW S \in SUBSET Items, CreateBatch(r, S) PROVE TypeOK'
    <2>0. req[r].pc # "idle"
      BY <1>4 DEF CreateBatch
    <2>1. \A p \in Places(req[r].base, S) : \A i \in S : p[i] \in Positions
      <3>1. IsFiniteSet(S)
        BY Finite, FS_Subset
      <3>2. Cardinality(S) \in Nat /\ req[r].base \in -1..MaxPos
        BY <1>0, <3>1, FS_CardinalityType DEF RequestState
      <3>3. req[r].base + Cardinality(S) <= MaxPos
        BY <1>4 DEF CreateBatch
      <3> QED
        BY <3>2, <3>3, Bounds DEF Places, Positions
    <2>3. \A pos \in Positions : [NewItem EXCEPT !.status = "pending", !.list = req[r].list, !.pos = pos] \in ItemRow
      BY <2>0, MovesTyped DEF NewItem, ItemRow, Dues
    <2>4. item' \in [Items -> ItemRow]
      <3>1. CASE item' = item
        BY <1>0, <3>1
      <3>2. CASE item' # item
        <4>1. PICK pos \in Places(req[r].base, S) :
                item' = [i \in Items |->
                   IF i \in S THEN [NewItem EXCEPT !.status = "pending", !.list = req[r].list, !.pos = pos[i]]
                              ELSE item[i]]
          BY <1>4, <3>2 DEF CreateBatch
        <4>2. \A i \in S : [NewItem EXCEPT !.status = "pending", !.list = req[r].list, !.pos = pos[i]] \in ItemRow
          BY <2>1, <2>3
        <4> QED
          BY <1>0, <4>1, <4>2
      <3> QED
        BY <3>1, <3>2
    <2>5. req' \in [Requests -> Request]
      BY <1>4, <2>0, MovesTyped DEF CreateBatch, Pcs, Working, ItemPcs
    <2>6. late' \subseteq Items
      BY <1>0, <1>4 DEF CreateBatch
    <2> QED
      BY <1>4, <2>4, <2>5, <2>6 DEF CreateBatch, TypeOK
  <1>5. ASSUME NEW i \in Items, GetItem(r, i) PROVE TypeOK'
    <2>0. req[r].pc # "idle"
      BY <1>5 DEF GetItem
    <2>1. \A p \in {"patch", "delete"} : [req[r] EXCEPT !.pc = p, !.item = i] \in Request
      BY <1>0, <2>0, RequestMoves DEF Pcs, Working
    <2>2. req' \in [Requests -> Request]
      BY <1>0, <1>5, <2>1, ReturnTyped DEF GetItem
    <2> QED
      BY <1>5, <2>2 DEF GetItem, history, TypeOK
  <1>6. ASSUME NEW pos \in Positions, NEW due \in Dues, PatchItem(r, pos, due) PROVE TypeOK'
    <2>0. req[r].pc # "idle" /\ req[r].item \in Items
      BY <1>6, MovesTyped DEF PatchItem, ItemPcs
    <2>1. [item[req[r].item] EXCEPT !.pos = pos, !.due = due] \in ItemRow
      BY <1>0, <2>0, ItemMoves
    <2>2. item' \in [Items -> ItemRow]
      BY <1>0, <1>6, <2>0, <2>1 DEF PatchItem
    <2>3. want' \in [Items -> Dues] /\ late' \subseteq Items
      BY <1>6, <2>0 DEF PatchItem, TypeOK
    <2>4. req' \in [Requests -> Request]
      BY <1>6, <2>0, MovesTyped DEF PatchItem, Pcs, Working, ItemPcs
    <2> QED
      BY <1>6, <2>2, <2>3, <2>4 DEF PatchItem, TypeOK
  <1>7. ASSUME MaxPosition(r) PROVE TypeOK'
    <2>0. req[r].pc # "idle"
      BY <1>7 DEF MaxPosition
    <2>1. \A b \in -1..MaxPos : [req[r] EXCEPT !.pc = "batch", !.base = b] \in Request
      BY <1>0, <2>0, RequestMoves DEF Pcs, Working, ItemPcs
    <2>2. req' \in [Requests -> Request]
      BY <1>0, <1>7, <2>1 DEF MaxPosition
    <2> QED
      BY <1>7, <2>2 DEF MaxPosition, history, TypeOK
  <1>8. ASSUME DeleteItem(r) PROVE TypeOK'
    <2>0. req[r].pc # "idle" /\ req[r].item \in Items
      BY <1>8, MovesTyped DEF DeleteItem, ItemPcs
    <2>1. \A i \in Items : [item[i] EXCEPT !.status = "gone"] \in ItemRow
      BY <1>0, ItemMoves
    <2>2. item' \in [Items -> ItemRow]
      BY <1>0, <1>8, <2>1 DEF DeleteItem
    <2>3. req' \in [Requests -> Request] /\ late' \subseteq Items
      BY <1>0, <1>8, <2>0, MovesTyped DEF DeleteItem, Pcs, Working, ItemPcs
    <2> QED
      BY <1>8, <2>2, <2>3 DEF DeleteItem, TypeOK
  <1>9. ASSUME Touch(r) PROVE TypeOK'
    <2>0. req[r].pc # "idle" /\ req[r].list \in Lists
      BY <1>9, MovesTyped DEF Touch
    <2>1. req[r].row \in ListRow
      BY <1>0 DEF RequestState
    <2>2. list' \in [Lists -> ListRow] /\ req' \in [Requests -> Request] /\ stale' \subseteq Lists
      BY <1>0, <1>9, <2>0, <2>1, MovesTyped DEF Touch, PutBack
    <2> QED
      BY <1>9, <2>2 DEF Touch, TypeOK
  <1>10. ASSUME Abort(r) PROVE TypeOK'
    BY <1>10, ReturnTyped DEF Abort, history, TypeOK
  <1>11. ASSUME ReadItems(r) PROVE TypeOK'
    <2>0. req[r].pc # "idle" /\ NewItem \in ItemRow
      <3>1. req[r].pc # "idle"
        BY <1>11 DEF ReadItems
      <3> QED
        BY <3>1, Bounds DEF NewItem, ItemRow, Positions, Dues
    <2>1. \A S \in SUBSET Items, seen \in [Items -> ItemRow] :
            [req[r] EXCEPT !.pc = "runMark", !.seen = seen, !.todo = S] \in Request
      BY <1>0, <2>0, RequestMoves DEF Pcs, Working, ItemPcs
    <2> DEFINE S == {i \in ItemsOf(req[r].list) : item[i].status = "pending"}
               seen == [i \in Items |-> IF i \in S THEN item[i] ELSE NewItem]
    <2>2. S \in SUBSET Items
      BY DEF ItemsOf
    <2>3. seen \in [Items -> ItemRow]
      BY <1>0, <2>0
    <2>4. req' = [req EXCEPT ![r] = [@ EXCEPT !.pc = "runMark", !.todo = S, !.seen = seen]]
      BY <1>0, <1>11 DEF ReadItems
    <2> HIDE DEF S, seen
    <2>5. req' \in [Requests -> Request]
      BY <1>0, <2>1, <2>2, <2>3, <2>4
    <2> QED
      BY <1>11, <2>5 DEF ReadItems, history, TypeOK
  <1>12. ASSUME Mark(r) PROVE TypeOK'
    <2>0. req[r].pc # "idle" /\ req[r].list \in Lists
      BY <1>12, MovesTyped DEF Mark
    <2>1. [req[r].row EXCEPT !.status = "running"] \in ListRow
      BY <1>0, ListMoves DEF RequestState
    <2>2. list' \in [Lists -> ListRow] /\ stale' \subseteq Lists
      BY <1>0, <1>12, <2>0, <2>1 DEF Mark, PutBack
    <2>3. req' \in [Requests -> Request]
      BY <1>12, <2>0, MovesTyped DEF Mark, Pcs, Background, ItemPcs
    <2> QED
      BY <1>12, <2>2, <2>3 DEF Mark, TypeOK
  <1> QED
    BY <1>1, <1>2, <1>3, <1>4, <1>5, <1>6, <1>7, <1>8, <1>9, <1>10, <1>11, <1>12 DEF Handler

LEMMA StoreTyped ==
  ASSUME TypeOK, NEW r \in Requests, NEW i \in Items, NEW st \in {"running", "completed", "failed"},
         NEW stored \in BOOLEAN, Store(r, i, st, stored)
  PROVE  item' \in [Items -> ItemRow]
  <1>0. req[r].seen \in [Items -> ItemRow]
    BY DEF TypeOK, Request, RequestState
  <1>1. req[r].seen[i].due \in Dues
    BY <1>0, ItemMoves
  <1>2. [item[i] EXCEPT !.status = st, !.due = req[r].seen[i].due] \in ItemRow
    BY <1>1, ItemMoves DEF TypeOK
  <1> QED
    BY <1>2 DEF Store, TypeOK

LEMMA GoroutineTyped == ASSUME TypeOK, NEW r \in Requests, Goroutine(r) PROVE TypeOK'
  <1>0. /\ req \in [Requests -> Request] /\ req[r] \in Request /\ req[r].todo \in SUBSET Items
        /\ list \in [Lists -> ListRow]
    BY DEF TypeOK, Request, RequestState
  <1>1. ASSUME NEW i \in Items, NEW stored \in BOOLEAN, StartItem(r, i, stored) PROVE TypeOK'
    <2>1. [req[r] EXCEPT !.pc = "exec", !.item = i, !.todo = @ \ {i}] \in Request
      BY <1>0, <1>1, RequestMoves DEF Pcs, Background, StartItem
    <2>2. req' \in [Requests -> Request]
      BY <1>0, <1>1, <2>1 DEF StartItem
    <2>3. runs' \in [Items -> 0..2]
      BY <1>1 DEF StartItem, TypeOK
    <2>4. item' \in [Items -> ItemRow] /\ faults' \in 0..MaxFaults
      BY <1>1, StoreTyped, CountersTyped DEF StartItem
    <2> QED
      BY <1>1, <2>2, <2>3, <2>4 DEF StartItem, TypeOK
  <1>2. ASSUME NEW ok \in BOOLEAN, NEW stored \in BOOLEAN, FinishItem(r, ok, stored) PROVE TypeOK'
    <2>0. req[r].pc # "idle" /\ req[r].item \in Items
      BY <1>2, MovesTyped DEF FinishItem, ItemPcs
    <2>1. [req[r] EXCEPT !.pc = "loop", !.item = None, !.failed = ~ok, !.todo = IF ok THEN @ ELSE {}] \in Request
      BY <1>0, <2>0, RequestMoves DEF Pcs, Background, ItemPcs
    <2>2. req' \in [Requests -> Request]
      BY <1>0, <1>2, <2>1 DEF FinishItem
    <2>3. item' \in [Items -> ItemRow] /\ faults' \in 0..MaxFaults
      BY <1>2, <2>0, StoreTyped, CountersTyped DEF FinishItem
    <2>4. did' \in [Items -> {"none", "ok", "failed"}] /\ unsaved' \subseteq Items
      BY <1>2, <2>0 DEF FinishItem, TypeOK
    <2> QED
      BY <1>2, <2>2, <2>3, <2>4 DEF FinishItem, TypeOK
  <1>3. ASSUME NEW stored \in BOOLEAN, FinishList(r, stored) PROVE TypeOK'
    <2>0. req[r].list \in Lists
      BY <1>3, MovesTyped DEF FinishList
    <2>1. \A st \in Terminal : [status |-> st, finished |-> TRUE] \in ListRow
      BY DEF Terminal, ListRow
    <2>2. list' \in [Lists -> ListRow] /\ unended' \subseteq Lists /\ faults' \in 0..MaxFaults
      BY <1>0, <1>3, <2>0, <2>1, CountersTyped DEF FinishList, Terminal, TypeOK
    <2>3. req' \in [Requests -> Request]
      BY <1>3, ReturnTyped DEF FinishList
    <2> QED
      BY <1>3, <2>2, <2>3 DEF FinishList, TypeOK
  <1> QED
    BY <1>1, <1>2, <1>3 DEF Goroutine

LEMMA NextTyped == TypeOK /\ [Next]_vars => TypeOK'
  <1> SUFFICES ASSUME TypeOK, [Next]_vars PROVE TypeOK'
    OBVIOUS
  <1>1. CASE UNCHANGED vars
    BY <1>1 DEF vars, history, TypeOK
  <1>2. CASE Crash
    <2>1. faults' \in 0..MaxFaults /\ unended' \subseteq Lists
      BY <1>2, CountersTyped DEF Crash, TypeOK
    <2>2. req' \in [Requests -> Request]
      BY <1>2, IdleTyped DEF Crash
    <2> QED
      BY <1>2, <2>1, <2>2 DEF Crash, TypeOK
  <1>3. CASE \E r \in Requests : Handler(r) \/ Goroutine(r)
    BY <1>3, HandlerTyped, GoroutineTyped
  <1> QED
    BY <1>1, <1>2, <1>3 DEF Next

\* The tables and the requests keep their types, however many requests overlap:
\* positions stay within the bound that CreateBatch respects.
THEOREM TasksTypeCorrect == Spec => []TypeOK
  BY InitTyped, NextTyped, PTL DEF Spec

-----------------------------------------------------------------------------
(* The inductive invariant.                                                *)

\* Requests that hold copies of the items of a run.
Active == {"runMark"} \cup Background

In(l)   == {i \in Items : item[i].status # "new" /\ item[i].list = l}
Mine(r) == req[r].todo \cup (IF req[r].pc = "exec" THEN {req[r].item} ELSE {})

ItemFine(i) ==
  /\ item[i].status = "new" => runs[i] = 0 /\ want[i] = "none"
  /\ item[i].status # "new" => item[i].list \in Lists /\ list[item[i].list].status # "new"
  /\ runs[i] = 0 => did[i] = "none"
  /\ ItemExists(i) /\ i \notin late => item[i].due = want[i]

\* Requests work on rows that were created, and what they read of a due date is
\* what the user asked for, unless the user was late.
RequestFine(r) ==
  /\ req[r].pc # "idle" => list[req[r].list].status # "new"
  /\ req[r].pc \in Working => ~req[r].failed
  /\ req[r].pc \in Working \ {"createBatch"} => req[r].row.status # "new"
  /\ req[r].pc \in {"runItems", "runMark"} => req[r].row.status = "pending"
  /\ req[r].pc \in ItemPcs => req[r].item \in In(req[r].list)
  /\ req[r].pc = "exec" => runs[req[r].item] # 0
  /\ req[r].pc \in Active =>
       /\ req[r].todo \subseteq In(req[r].list)
       /\ \A i \in Mine(r) : i \in late \/ req[r].seen[i].due = want[i]

\* A running list is executed in order, and nothing of a pending one was.
Ordered(l) ==
  /\ list[l].status = "pending" => \A i \in In(l) : runs[i] = 0 /\ item[i].status \in {"pending", "gone"}
  /\ list[l].status = "running" =>
       \A i, j \in ItemsOf(l) \ late : item[j].pos < item[i].pos /\ runs[i] > 0 => did[j] = "ok"

Recorded(l) ==
  \A i \in In(l) :
    /\ runs[i] <= 1
    /\ ItemExists(i) /\ i \notin unsaved =>
         (did[i] = "ok" => item[i].status = "completed") /\ (did[i] = "failed" => item[i].status = "failed")

\* What a run request read of a pending list is all there is to run.
Ready(r, l) ==
  req[r].pc = "runMark" /\ req[r].list = l /\ list[l].status = "pending" =>
    \A i \in ItemsOf(l) \ late : i \in req[r].todo /\ req[r].seen[i].pos = item[i].pos

\* What a goroutine has still to run nobody ran; all else went well, or one item
\* failed and the goroutine is done.
RunFine(r, l) ==
  req[r].pc \in Background /\ req[r].list = l =>
    /\ \A i \in req[r].todo : runs[i] = 0
    /\ req[r].failed => req[r].todo = {} /\ \E i \in In(l) : did[i] = "failed"
    /\ ~req[r].failed => \A i \in In(l) : did[i] # "failed"
    /\ req[r].pc = "exec" => ~req[r].failed /\ did[req[r].item] = "none"
    /\ list[l].status = "running" =>
         \A i \in ItemsOf(l) \ late :
           /\ i \in req[r].todo => req[r].seen[i].pos = item[i].pos
           /\ ~req[r].failed => i \in req[r].todo \/ did[i] = "ok" \/ (req[r].pc = "exec" /\ i = req[r].item)

Alone(l) ==
  /\ \A r, s \in Running(l) : r = s
  /\ Running(l) # {} => list[l].status \in {"running", "gone"}

\* A list on which no outdated copy was put back.
ListFine(l) ==
  l \notin stale =>
    /\ Alone(l) /\ Ordered(l) /\ Recorded(l)
    /\ \A r \in Requests : Ready(r, l) /\ RunFine(r, l)

RunsInv ==
  /\ \A i \in Items : ItemFine(i)
  /\ \A r \in Requests : RequestFine(r)
  /\ \A l \in Lists : ListFine(l)

\* What no step takes back.
Grows ==
  /\ \A l \in Lists : list[l].status # "new" => list'[l].status # "new"
  /\ late \subseteq late' /\ stale \subseteq stale'
  /\ \A i \in Items : item[i].status # "new" =>
       /\ item'[i].status # "new" /\ item'[i].list = item[i].list
       /\ runs[i] # 0 => runs'[i] # 0
       /\ want'[i] # want[i] => i \in late' \/ ~UnderWay(item[i].list)

\* A list whose rows and goroutines a step leaves alone.
Untouched(l) ==
  /\ list'[l] = list[l] /\ stale \subseteq stale' /\ late \subseteq late'
  /\ \A i \in Items : (item[i].status # "new" /\ item[i].list = l) \/ (item'[i].status # "new" /\ item'[i].list = l) =>
       /\ item'[i] = item[i] /\ runs'[i] = runs[i] /\ did'[i] = did[i]
       /\ i \in unsaved' <=> i \in unsaved
  /\ \A s \in Requests : req'[s].pc \in Active /\ req'[s].list = l => req'[s] = req[s]

LEMMA RunsInvInit == Init => RunsInv
  <1> SUFFICES ASSUME Init PROVE RunsInv
    OBVIOUS
  <1>1. /\ \A i \in Items : item[i].status = "new" /\ runs[i] = 0 /\ want[i] = "none" /\ did[i] = "none"
        /\ \A r \in Requests : req[r].pc = "idle"
        /\ \A l \in Lists : list[l].status = "new"
    BY DEF Init, NewItem, NewList, Idle
  <1>2. \A i \in Items : ItemFine(i)
    BY <1>1 DEF ItemFine, ItemExists
  <1>3. \A r \in Requests : RequestFine(r)
    BY <1>1 DEF RequestFine, Working, ItemPcs, Active, Background
  <1>4. ASSUME NEW l \in Lists PROVE ListFine(l)
    BY <1>1 DEF ListFine, Alone, Running, Ordered, Recorded, Ready, RunFine, In, ItemsOf, ItemExists, Background
  <1> QED
    BY <1>2, <1>3, <1>4 DEF RunsInv

LEMMA PcsApart ==
  /\ "idle" \notin Working /\ "idle" \notin Active
  /\ Background \subseteq Active /\ Active \cap Working = {"runMark"} /\ Background \cap Working = {}
  /\ Active \cap ItemPcs = {"exec"}
  BY DEF Working, Active, Background, ItemPcs

\* Requests that move on or return.
LEMMA MovesAre ==
  ASSUME TypeOK, NEW r \in Requests
  PROVE  /\ \A p \in Pcs : GoTo(r, p) =>
              /\ req'[r].pc = p /\ req'[r].list = req[r].list /\ req'[r].row = req[r].row /\ req'[r].item = req[r].item
              /\ req'[r].todo = req[r].todo /\ req'[r].seen = req[r].seen /\ req'[r].failed = req[r].failed
              /\ \A s \in Requests : s # r => req'[s] = req[s]
         /\ Return(r) => req'[r] = Idle /\ \A s \in Requests : s # r => req'[s] = req[s]
  BY DEF TypeOK, Request, RequestState, GoTo, Return

LEMMA IdleFine == ASSUME NEW r \in Requests, req'[r] = Idle PROVE RequestFine(r)' /\ req'[r].pc \notin Active
  BY PcsApart DEF RequestFine, Idle, Working, ItemPcs, Active, Background

\* A request keeps what it holds while the others work.
LEMMA RequestKept ==
  ASSUME TypeOK, RunsInv, NEW s \in Requests, req'[s] = req[s], Grows
  PROVE  RequestFine(s)'
  <1>1. RequestFine(s) /\ req[s] \in Request
    BY DEF RunsInv, TypeOK
  <1>2. /\ req[s].todo \subseteq Items
        /\ req[s].pc # "idle" => req[s].list \in Lists
        /\ req[s].pc \in ItemPcs => req[s].item \in Items
    BY <1>1 DEF Request, RequestState, ItemPcs
  <1>3. \A i \in In(req[s].list) : i \in In(req[s].list)'
    BY DEF In, Grows
  <1>4. req[s].pc \in Active => \A i \in Mine(s) :
          i \in In(req[s].list) /\ (i \in late' \/ req[s].seen[i].due = want'[i])
    <2> SUFFICES ASSUME req[s].pc \in Active, NEW i \in Mine(s)
                 PROVE  i \in In(req[s].list) /\ (i \in late' \/ req[s].seen[i].due = want'[i])
      OBVIOUS
    <2>1. i \in In(req[s].list) /\ (i \in late \/ req[s].seen[i].due = want[i])
      BY <1>1, PcsApart DEF RequestFine, Mine, ItemPcs
    <2>2. i \in Items /\ item[i].status # "new" /\ item[i].list = req[s].list
      BY <2>1 DEF In
    <2>3. UnderWay(item[i].list)
      BY <2>2 DEF UnderWay, Active
    <2> QED
      BY <2>1, <2>2, <2>3 DEF Grows
  <1>5. req[s].pc = "exec" => runs'[req[s].item] # 0
    BY <1>1, <1>2 DEF RequestFine, ItemPcs, In, Grows
  <1>6. Mine(s)' = Mine(s)
    BY DEF Mine
  <1>7. req[s].pc # "idle" => list'[req[s].list].status # "new"
    BY <1>1, <1>2 DEF RequestFine, Grows
  <1> QED
    BY <1>1, <1>3, <1>4, <1>5, <1>6, <1>7 DEF RequestFine

LEMMA ListKept ==
  ASSUME RunsInv, NEW l \in Lists, Untouched(l)
  PROVE  ListFine(l)'
  <1> SUFFICES ASSUME l \notin stale'
               PROVE  /\ Alone(l)' /\ Ordered(l)' /\ Recorded(l)'
                      /\ \A r \in Requests : Ready(r, l)' /\ RunFine(r, l)'
    BY DEF ListFine
  <1>1. Alone(l) /\ Ordered(l) /\ Recorded(l) /\ \A r \in Requests : Ready(r, l) /\ RunFine(r, l)
    BY DEF RunsInv, ListFine, Untouched
  <1>2. In(l)' = In(l) /\ ItemsOf(l)' = ItemsOf(l)
    BY DEF In, ItemsOf, ItemExists, Untouched
  <1>3. \A i \in In(l) : item'[i] = item[i] /\ runs'[i] = runs[i] /\ did'[i] = did[i] /\ (i \in unsaved' <=> i \in unsaved)
    BY DEF In, Untouched
  <1>4. ItemsOf(l) \subseteq In(l)
    BY DEF In, ItemsOf, ItemExists
  <1>5. Running(l)' \subseteq Running(l)
    BY PcsApart DEF Running, Untouched
  <1>6. Alone(l)'
    BY <1>1, <1>5 DEF Alone, Untouched
  <1>7. Ordered(l)'
    BY <1>1, <1>2, <1>3, <1>4 DEF Ordered, Untouched
  <1>8. Recorded(l)'
    BY <1>1, <1>2, <1>3 DEF Recorded, ItemExists
  <1>9. ASSUME NEW r \in Requests PROVE Ready(r, l)'
    BY <1>1, <1>2, <1>3, <1>4 DEF Ready, Untouched, Active
  <1>10. ASSUME NEW r \in Requests PROVE RunFine(r, l)'
    <2> SUFFICES ASSUME req'[r].pc \in Background, req'[r].list = l PROVE RunFine(r, l)'
      BY DEF RunFine
    <2>1. req'[r] = req[r] /\ list'[l] = list[l] /\ late \subseteq late'
      BY PcsApart DEF Untouched
    <2>2. req[r].todo \subseteq In(l) /\ (req[r].pc = "exec" => req[r].item \in In(l))
      BY <2>1, PcsApart DEF RunsInv, RequestFine, ItemPcs
    <2> QED
      BY <1>1, <1>2, <1>3, <1>4, <2>1, <2>2 DEF RunFine
  <1> QED
    BY <1>6, <1>7, <1>8, <1>9, <1>10

\* A step of one request on one list.
LEMMA LocalStep ==
  ASSUME TypeOK, RunsInv, NEW r \in Requests, NEW l \in Lists, Grows,
         \A s \in Requests : s # r => req'[s] = req[s],
         \A m \in Lists : m # l => Untouched(m),
         \A i \in Items : ItemFine(i)', RequestFine(r)', ListFine(l)'
  PROVE  RunsInv'
  <1>1. \A s \in Requests : RequestFine(s)'
    BY RequestKept
  <1>2. \A m \in Lists : ListFine(m)'
    BY ListKept
  <1> QED
    BY <1>1, <1>2 DEF RunsInv

\* A step of one request that changes no row and starts no run.
LEMMA QuietStep ==
  ASSUME TypeOK, RunsInv, NEW r \in Requests,
         \A s \in Requests : s # r => req'[s] = req[s],
         UNCHANGED <<list, item, history>>, RequestFine(r)', req'[r].pc \notin Active
  PROVE  RunsInv'
  <1>1. Grows
    BY DEF Grows, history
  <1>2. \A s \in Requests : RequestFine(s)'
    BY <1>1, RequestKept
  <1>3. \A l \in Lists : Untouched(l)
    BY DEF Untouched, history
  <1>4. \A l \in Lists : ListFine(l)'
    BY <1>3, ListKept
  <1>5. \A i \in Items : ItemFine(i)'
    BY DEF RunsInv, ItemFine, ItemExists, history
  <1> QED
    BY <1>2, <1>4, <1>5 DEF RunsInv

-----------------------------------------------------------------------------
(* Handlers.                                                               *)

\* What a busy request works on.
LEMMA BusyFacts ==
  ASSUME TypeOK, RunsInv, NEW r \in Requests, req[r].pc # "idle"
  PROVE  /\ req[r].list \in Lists /\ list[req[r].list].status # "new" /\ req[r] \in Request
         /\ req[r].row \in ListRow /\ req[r].todo \subseteq Items
         /\ req[r].pc \in ItemPcs => req[r].item \in In(req[r].list) /\ req[r].item \in Items
         /\ req[r].pc \in Working => ~req[r].failed
         /\ req[r].pc \in Working \ {"createBatch"} => req[r].row.status # "new"
  BY DEF TypeOK, Request, RequestState, RunsInv, RequestFine, In

LEMMA RunsCreateList ==
  ASSUME TypeOK, RunsInv, NEW r \in Requests, NEW l \in Lists, CreateList(r, l) PROVE RunsInv'
  <1>0. list \in [Lists -> ListRow] /\ req \in [Requests -> Request]
    BY DEF TypeOK
  <1>1. /\ list[l].status = "new" /\ list'[l].status = "pending" /\ \A m \in Lists : m # l => list'[m] = list[m]
        /\ UNCHANGED <<item, history>>
        /\ \A s \in Requests : s # r => req'[s] = req[s]
        /\ req'[r] = Idle \/ req'[r] = [Idle EXCEPT !.pc = "createBatch", !.list = l]
    BY <1>0 DEF CreateList, Return, ListRow
  <1>2. RequestFine(r)' /\ req'[r].pc \notin Active
    <2>1. CASE req'[r] = Idle
      BY <2>1, IdleFine
    <2>2. CASE req'[r] = [Idle EXCEPT !.pc = "createBatch", !.list = l]
      <3>1. req'[r].pc = "createBatch" /\ req'[r].list = l /\ ~req'[r].failed
        BY <2>2 DEF Idle
      <3> QED
        BY <1>1, <3>1 DEF RequestFine, ItemPcs, Active, Background
    <2> QED
      BY <1>1, <2>1, <2>2
  <1>3. In(l) = {} /\ In(l)' = {} /\ \A s \in Requests : req'[s].pc \notin Active \/ req'[s].list # l
    <2>1. \A s \in Requests : s # r /\ req[s].pc # "idle" => req[s].list # l
      BY <1>1 DEF RunsInv, RequestFine
    <2>2. \A s \in Requests : s # r /\ req[s].pc \in Active => req[s].list # l
      BY <2>1, PcsApart
    <2> QED
      BY <1>1, <1>2, <2>2 DEF RunsInv, ItemFine, In
  <1>4. ListFine(l)'
    <2>1. Running(l)' = {} /\ \A s \in Requests : Ready(s, l)' /\ RunFine(s, l)'
      BY <1>3 DEF Running, Ready, RunFine, Active
    <2> QED
      BY <1>1, <1>3, <2>1 DEF ListFine, Alone, Ordered, Recorded
  <1>5. \A m \in Lists : m # l => Untouched(m)
    BY <1>1, <1>2 DEF Untouched, history
  <1>6. Grows /\ \A i \in Items : ItemFine(i)'
    BY <1>1 DEF Grows, RunsInv, ItemFine, ItemExists, history
  <1> QED
    BY <1>1, <1>2, <1>4, <1>5, <1>6, LocalStep

LEMMA RunsReadList ==
  ASSUME TypeOK, RunsInv, NEW r \in Requests, NEW l \in Lists, NEW op \in Operations, ReadList(r, l, op) PROVE RunsInv'
  <1>0. list \in [Lists -> ListRow] /\ req \in [Requests -> Request]
    BY DEF TypeOK
  <1>1. /\ UNCHANGED <<list, item, history>> /\ list[l].status # "new"
        /\ op = "runItems" => list[l].status = "pending"
        /\ \A s \in Requests : s # r => req'[s] = req[s]
        /\ req'[r] = [Idle EXCEPT !.pc = op, !.list = l, !.row = list[l]]
    BY <1>0 DEF ReadList, ListExists
  <1>2. req'[r].pc = op /\ req'[r].list = l /\ req'[r].row = list[l] /\ ~req'[r].failed
    BY <1>1 DEF Idle
  <1>3. op \notin Active /\ op \notin ItemPcs /\ op # "idle" /\ op # "runMark" /\ op # "exec"
    BY DEF Operations, Active, Background, ItemPcs
  <1>4. RequestFine(r)'
    BY <1>1, <1>2, <1>3 DEF RequestFine
  <1> QED
    BY <1>1, <1>2, <1>3, <1>4, QuietStep

\* Statements that change no row, and those that refuse.
LEMMA RunsQuiet ==
  ASSUME TypeOK, RunsInv, NEW r \in Requests, UNCHANGED <<list, item, history>>,
         \/ Return(r)
         \/ MaxPosition(r)
         \/ \E i \in Items : GetItem(r, i)
  PROVE  RunsInv'
  <1>0. req \in [Requests -> Request] /\ req[r] \in RequestState
    BY DEF TypeOK, Request
  <1>1. CASE Return(r)
    BY <1>1, MovesAre, IdleFine, QuietStep
  <1>2. CASE MaxPosition(r)
    <2>1. /\ req[r].pc = "maxPos" /\ req'[r].pc = "batch" /\ req'[r].list = req[r].list /\ req'[r].failed = req[r].failed
          /\ req'[r].row = req[r].row /\ \A s \in Requests : s # r => req'[s] = req[s]
      <3>1. PICK base \in -1..MaxPos : req' = [req EXCEPT ![r].pc = "batch", ![r].base = base]
        BY <1>2 DEF MaxPosition
      <3> QED
        BY <1>0, <1>2, <3>1 DEF MaxPosition, RequestState
    <2>2. RequestFine(r)' /\ req'[r].pc \notin Active
      BY <2>1, BusyFacts DEF RequestFine, Working, ItemPcs, Active, Background
    <2> QED
      BY <2>1, <2>2, QuietStep
  <1>3. ASSUME NEW i \in Items, GetItem(r, i), ~Return(r) PROVE RunsInv'
    <2>1. /\ req[r].pc \in {"getItem", "getDeleted"} /\ i \in ItemsOf(req[r].list)
          /\ req'[r].pc \in {"patch", "delete"} /\ req'[r].item = i
          /\ req'[r].list = req[r].list /\ req'[r].failed = req[r].failed /\ req'[r].row = req[r].row
          /\ \A s \in Requests : s # r => req'[s] = req[s]
      BY <1>0, <1>3 DEF GetItem, RequestState
    <2>2. (req[r].item \in In(req[r].list))'
      BY <2>1 DEF In, ItemsOf, ItemExists
    <2>3. list'[req'[r].list].status # "new" /\ ~req'[r].failed /\ req'[r].row.status # "new"
      BY <2>1, BusyFacts DEF Working
    <2>4. RequestFine(r)' /\ req'[r].pc \notin Active
      BY <2>1, <2>2, <2>3 DEF RequestFine, Working, ItemPcs, Active, Background
    <2> QED
      BY <2>1, <2>4, QuietStep
  <1> QED
    BY <1>1, <1>2, <1>3

LEMMA RunsCreateBatch ==
  ASSUME TypeOK, RunsInv, NEW r \in Requests, NEW S \in SUBSET Items, CreateBatch(r, S) PROVE RunsInv'
  <1>0. PICK l \in Lists : l = req[r].list
    BY BusyFacts DEF CreateBatch
  <1>1. CASE ~ListExists(l)
    BY <1>0, <1>1, RunsQuiet DEF CreateBatch, history
  <1>2. CASE ListExists(l)
    <2>0. item \in [Items -> ItemRow] /\ req[r].pc # "idle" /\ list[l].status # "new" /\ ~req[r].failed
      BY <1>0, BusyFacts DEF CreateBatch, TypeOK, Working
    <2>1. /\ \A i \in S : item[i].status = "new"
          /\ \A i \in Items : i \notin S => item'[i] = item[i]
          /\ \A i \in S : item'[i].status = "pending" /\ item'[i].list = l /\ item'[i].due = "none"
          /\ late' = IF UnderWay(l) THEN late \cup S ELSE late
          /\ UNCHANGED <<list, runs, did, want, stale, unsaved>>
      <3>1. PICK pos \in Places(req[r].base, S) :
              item' = [i \in Items |->
                 IF i \in S THEN [NewItem EXCEPT !.status = "pending", !.list = l, !.pos = pos[i]] ELSE item[i]]
        BY <1>0, <1>2 DEF CreateBatch
      <3> QED
        BY <1>0, <1>2, <3>1 DEF CreateBatch, NewItem
    <2>2. /\ \A s \in Requests : s # r => req'[s] = req[s]
          /\ RequestFine(r)' /\ req'[r].pc \notin Active
      <3>1. CASE Return(r)
        BY <3>1, MovesAre, IdleFine
      <3>2. CASE req[r].pc = "batch" /\ GoTo(r, "touch")
        <4>1. /\ req'[r].pc = "touch" /\ req'[r].list = l /\ ~req'[r].failed /\ req'[r].row.status # "new"
              /\ \A s \in Requests : s # r => req'[s] = req[s]
          BY <1>0, <2>0, <3>2, BusyFacts, MovesAre DEF Pcs, Working
        <4> QED
          BY <1>0, <2>0, <2>1, <4>1 DEF RequestFine, Working, ItemPcs, Active, Background
      <3> QED
        BY <1>0, <1>2, <3>1, <3>2 DEF CreateBatch
    <2>3. \A i \in S : runs[i] = 0 /\ did[i] = "none" /\ want[i] = "none"
      BY <2>1 DEF RunsInv, ItemFine
    <2>4. \A i \in Items : ItemFine(i)'
      BY <2>0, <2>1, <2>3 DEF RunsInv, ItemFine, ItemExists
    <2>5. \A m \in Lists : m # l => Untouched(m)
      BY <2>0, <2>1, <2>2 DEF Untouched
    <2>6. Grows
      BY <2>1 DEF Grows
    <2>7. ListFine(l)'
      <3> SUFFICES ASSUME l \notin stale PROVE ListFine(l)'
        BY <2>1 DEF ListFine
      <3>1. Alone(l) /\ Ordered(l) /\ Recorded(l) /\ \A s \in Requests : Ready(s, l) /\ RunFine(s, l)
        BY <2>0 DEF RunsInv, ListFine
      <3>2. In(l)' = In(l) \cup S
        BY <2>1 DEF In
      <3>3. UnderWay(l) => ItemsOf(l)' \ late' \subseteq ItemsOf(l) \ late
        BY <2>1 DEF ItemsOf, ItemExists
      <3>4. \A s \in Requests : req'[s].pc \in Active => req'[s] = req[s]
        BY <2>2
      <3>5. \A i \in In(l) : item'[i] = item[i]
        BY <2>1 DEF In
      <3>6. ItemsOf(l) \subseteq In(l)
        BY DEF ItemsOf, In, ItemExists
      <3>7. Alone(l)'
        BY <2>1, <3>1, <3>4, PcsApart DEF Alone, Running
      <3>8. Ordered(l)'
        BY <2>1, <2>3, <3>1, <3>2, <3>3, <3>5, <3>6 DEF Ordered, UnderWay
      <3>9. Recorded(l)'
        BY <2>1, <2>3, <3>1, <3>2, <3>5 DEF Recorded, ItemExists
      <3>10. ASSUME NEW s \in Requests PROVE Ready(s, l)'
        BY <2>1, <3>1, <3>3, <3>4, <3>5, <3>6 DEF Ready, UnderWay, Active
      <3>11. ASSUME NEW s \in Requests PROVE RunFine(s, l)'
        <4> SUFFICES ASSUME req'[s].pc \in Background, req'[s].list = l PROVE RunFine(s, l)'
          BY DEF RunFine
        <4>1. req'[s] = req[s] /\ UnderWay(l)
          BY <3>4, PcsApart DEF UnderWay, Active
        <4> QED
          BY <2>1, <2>3, <3>1, <3>2, <3>3, <3>5, <3>6, <4>1 DEF RunFine
      <3> QED
        BY <3>7, <3>8, <3>9, <3>10, <3>11 DEF ListFine
    <2> QED
      BY <2>0, <2>2, <2>4, <2>5, <2>6, <2>7, LocalStep
  <1> QED
    BY <1>1, <1>2

\* A pending item changes or goes.
LEMMA RunsChangeItem ==
  ASSUME TypeOK, RunsInv, NEW r \in Requests,
         DeleteItem(r) \/ \E pos \in Positions, due \in Dues : PatchItem(r, pos, due)
  PROVE  RunsInv'
  <1>0. item \in [Items -> ItemRow] /\ want \in [Items -> Dues] /\ req[r].pc \in {"patch", "delete"}
    BY DEF TypeOK, DeleteItem, PatchItem
  <1> PICK l \in Lists, i \in Items : l = req[r].list /\ i = req[r].item
    BY <1>0, BusyFacts DEF ItemPcs
  <1>1. list[l].status # "new" /\ item[i].status # "new" /\ item[i].list = l /\ ~req[r].failed
    BY <1>0, BusyFacts DEF ItemPcs, In, Working
  <1>2. CASE item[i].status # "pending"
    BY <1>2, RunsQuiet DEF DeleteItem, PatchItem, history
  <1>3. CASE item[i].status = "pending"
    <2>1. /\ \A k \in Items : k # i => item'[k] = item[k] /\ want'[k] = want[k]
          /\ item'[i].list = l /\ item'[i].status \in {"pending", "gone"}
          /\ item'[i].status = "gone" \/ item'[i].due = want'[i]
          /\ late' = IF UnderWay(l) THEN late \cup {i} ELSE late
          /\ UNCHANGED <<list, runs, did, stale, unsaved>>
          /\ GoTo(r, "touch")
      <3>1. CASE DeleteItem(r)
        BY <1>0, <1>1, <1>3, <3>1 DEF DeleteItem, ItemRow
      <3>2. ASSUME NEW pos \in Positions, NEW due \in Dues, PatchItem(r, pos, due)
            PROVE  /\ \A k \in Items : k # i => item'[k] = item[k] /\ want'[k] = want[k]
                   /\ item'[i].list = l /\ item'[i].status = "pending" /\ item'[i].due = want'[i]
                   /\ late' = IF UnderWay(l) THEN late \cup {i} ELSE late
                   /\ UNCHANGED <<list, runs, did, stale, unsaved>>
                   /\ GoTo(r, "touch")
        BY <1>0, <1>1, <1>3, <3>2 DEF PatchItem, ItemRow
      <3> QED
        BY <3>1, <3>2
    <2>2. /\ \A s \in Requests : s # r => req'[s] = req[s]
          /\ req'[r].pc = "touch" /\ req'[r].list = l /\ ~req'[r].failed /\ req'[r].row.status # "new"
      BY <1>0, <1>1, <2>1, BusyFacts, MovesAre DEF Pcs, Working
    <2>3. RequestFine(r)' /\ req'[r].pc \notin Active
      BY <1>1, <2>1, <2>2 DEF RequestFine, Working, ItemPcs, Active, Background
    <2>4. \A k \in Items : ItemFine(k)'
      BY <1>1, <1>3, <2>1 DEF RunsInv, ItemFine, ItemExists
    <2>5. \A m \in Lists : m # l => Untouched(m)
      BY <1>1, <2>1, <2>2, <2>3 DEF Untouched
    <2>6. Grows
      BY <1>1, <2>1 DEF Grows
    <2>7. ListFine(l)'
      <3> SUFFICES ASSUME l \notin stale PROVE ListFine(l)'
        BY <2>1 DEF ListFine
      <3>1. Alone(l) /\ Ordered(l) /\ Recorded(l) /\ \A s \in Requests : Ready(s, l) /\ RunFine(s, l)
        BY <1>1 DEF RunsInv, ListFine
      <3>2. In(l)' = In(l)
        BY <1>1, <2>1 DEF In
      <3>3. /\ ItemsOf(l)' \subseteq ItemsOf(l)
            /\ UnderWay(l) => i \notin ItemsOf(l)' \ late'
            /\ \A k \in ItemsOf(l)' \ late' : k \in ItemsOf(l) \ late
        BY <1>1, <1>3, <2>1 DEF ItemsOf, ItemExists
      <3>4. \A s \in Requests : req'[s].pc \in Active => req'[s] = req[s]
        BY <2>2, <2>3
      <3>5. Alone(l)'
        BY <2>1, <3>1, <3>4, PcsApart DEF Alone, Running
      <3>6. Ordered(l)'
        BY <2>1, <3>1, <3>2, <3>3 DEF Ordered, UnderWay, In, ItemsOf
      <3>7. Recorded(l)'
        BY <1>3, <2>1, <3>1, <3>2 DEF Recorded, ItemExists, In
      <3>8. ASSUME NEW s \in Requests PROVE Ready(s, l)'
        BY <2>1, <3>1, <3>3, <3>4 DEF Ready, UnderWay, Active, ItemsOf
      <3>9. ASSUME NEW s \in Requests PROVE RunFine(s, l)'
        <4> SUFFICES ASSUME req'[s].pc \in Background, req'[s].list = l PROVE RunFine(s, l)'
          BY DEF RunFine
        <4>1. req'[s] = req[s] /\ UnderWay(l)
          BY <3>4, PcsApart DEF UnderWay, Active
        <4> QED
          BY <2>1, <3>1, <3>2, <3>3, <4>1 DEF RunFine, ItemsOf
      <3> QED
        BY <3>5, <3>6, <3>7, <3>8, <3>9 DEF ListFine
    <2> QED
      BY <1>1, <2>2, <2>3, <2>4, <2>5, <2>6, <2>7, LocalStep
  <1> QED
    BY <1>2, <1>3

\* A copy that is put back is what the table holds, or the list is marked stale.
LEMMA RunsTouch ==
  ASSUME TypeOK, RunsInv, NEW r \in Requests, Touch(r) PROVE RunsInv'
  <1>0. req[r].pc = "touch" /\ Return(r) /\ list \in [Lists -> ListRow]
    BY DEF Touch, TypeOK
  <1> PICK l \in Lists : l = req[r].list
    BY <1>0, BusyFacts
  <1>1. CASE list' = list /\ stale' = stale
    BY <1>0, <1>1, RunsQuiet DEF Touch, history
  <1>2. CASE ~(list' = list /\ stale' = stale)
    <2>1. /\ l \in stale' /\ stale \subseteq stale' /\ list[l].status \notin {"new", "gone"}
          /\ list'[l] = req[r].row /\ \A m \in Lists : m # l => list'[m] = list[m]
          /\ UNCHANGED <<item, runs, did, want, late, unsaved>>
      BY <1>0, <1>2 DEF Touch, PutBack, ListExists
    <2>2. req[r].row.status # "new"
      BY <1>0 DEF RunsInv, RequestFine, Working
    <2>3. (\A s \in Requests : s # r => req'[s] = req[s]) /\ RequestFine(r)' /\ req'[r].pc \notin Active
      BY <1>0, MovesAre, IdleFine
    <2>4. ListFine(l)'
      BY <2>1 DEF ListFine
    <2>5. \A i \in Items : ItemFine(i)'
      <3>1. \A m \in Lists : list[m].status # "new" => list'[m].status # "new"
        BY <2>1, <2>2
      <3> QED
        BY <2>1, <3>1 DEF RunsInv, ItemFine, ItemExists
    <2>6. Grows /\ \A m \in Lists : m # l => Untouched(m)
      BY <2>1, <2>2, <2>3 DEF Grows, Untouched
    <2> QED
      BY <2>3, <2>4, <2>5, <2>6, LocalStep
  <1> QED
    BY <1>1, <1>2

LEMMA RunsDeleteList ==
  ASSUME TypeOK, RunsInv, NEW r \in Requests, NEW l \in Lists, DeleteList(r, l) PROVE RunsInv'
  <1>0. list \in [Lists -> ListRow] /\ item \in [Items -> ItemRow]
    BY DEF TypeOK
  <1>1. /\ list'[l].status = "gone" /\ \A m \in Lists : m # l => list'[m] = list[m]
        /\ \A i \in Items : item'[i].list = item[i].list /\ (item'[i].status = item[i].status \/ item'[i].status = "gone")
        /\ \A i \in Items : item[i].list # l => item'[i] = item[i]
        /\ \A i \in Items : item'[i].due = item[i].due
        /\ \A i \in Items : item'[i].status = "new" <=> item[i].status = "new"
        /\ UNCHANGED <<req, history>>
    BY <1>0 DEF DeleteList, ListRow, ItemRow, ItemsOf, ItemExists
  <1>2. ItemsOf(l)' = {}
    BY <1>0 DEF DeleteList, ItemsOf, ItemExists, ItemRow
  <1>3. In(l)' = In(l)
    BY <1>1 DEF In
  <1>4. ListFine(l)'
    <2> SUFFICES ASSUME l \notin stale PROVE ListFine(l)'
      BY <1>1 DEF ListFine, history
    <2>1. Alone(l) /\ Ordered(l) /\ Recorded(l) /\ \A s \in Requests : Ready(s, l) /\ RunFine(s, l)
      BY DEF RunsInv, ListFine
    <2>2. Alone(l)' /\ Ordered(l)'
      BY <1>1, <2>1 DEF Alone, Running, Ordered
    <2>3. Recorded(l)'
      BY <1>1, <1>2, <1>3, <2>1 DEF Recorded, ItemsOf, In, history
    <2>4. ASSUME NEW s \in Requests PROVE Ready(s, l)' /\ RunFine(s, l)'
      BY <1>1, <1>3, <2>1 DEF Ready, RunFine, history
    <2> QED
      BY <2>2, <2>3, <2>4 DEF ListFine
  <1>5. Grows /\ \A m \in Lists : m # l => Untouched(m)
    BY <1>1 DEF Grows, Untouched, history
  <1>6. \A i \in Items : ItemFine(i)'
    BY <1>1 DEF RunsInv, ItemFine, ItemExists, history
  <1>7. RequestFine(r)'
    BY <1>1, <1>5, RequestKept
  <1> QED
    BY <1>1, <1>4, <1>5, <1>6, <1>7, LocalStep

LEMMA RunsReadItems ==
  ASSUME TypeOK, RunsInv, NEW r \in Requests, ReadItems(r) PROVE RunsInv'
  <1>0. req \in [Requests -> Request] /\ req[r] \in RequestState /\ req[r].pc = "runItems" /\ UNCHANGED <<list, item, history>>
    BY DEF TypeOK, Request, ReadItems
  <1> PICK l \in Lists : l = req[r].list
    BY <1>0, BusyFacts
  <1> DEFINE todo == {i \in ItemsOf(l) : item[i].status = "pending"}
             seen == [i \in Items |-> IF i \in todo THEN item[i] ELSE NewItem]
  <1>1. /\ \A s \in Requests : s # r => req'[s] = req[s]
        /\ req'[r].pc = "runMark" /\ req'[r].list = l /\ req'[r].todo = todo /\ req'[r].seen = seen
        /\ req'[r].row = req[r].row /\ req'[r].failed = req[r].failed
    <2>1. req' = [req EXCEPT ![r] = [@ EXCEPT !.pc = "runMark", !.todo = todo, !.seen = seen]]
      BY <1>0 DEF ReadItems
    <2> HIDE DEF todo, seen
    <2> QED
      BY <1>0, <2>1 DEF RequestState
  <1>2. \A i \in todo : i \in In(l) /\ ItemExists(i) /\ seen[i] = item[i]
    BY DEF ItemsOf, In, ItemExists
  <1>3. RequestFine(r)'
    <2>1. \A i \in todo : i \in late \/ seen[i].due = want[i]
      BY <1>2 DEF RunsInv, ItemFine, In
    <2>2. Mine(r)' = todo
      BY <1>1 DEF Mine
    <2>3. list[l].status # "new" /\ ~req[r].failed /\ req[r].row.status = "pending"
      BY <1>0, BusyFacts DEF RunsInv, RequestFine, Working
    <2>4. todo \subseteq In(l)'
      BY <1>0, <1>2 DEF In
    <2> HIDE DEF todo, seen
    <2> QED
      BY <1>0, <1>1, <2>1, <2>2, <2>3, <2>4, PcsApart DEF RequestFine, ItemPcs, history
  <1>4. ListFine(l)'
    <2> SUFFICES ASSUME l \notin stale PROVE ListFine(l)'
      BY <1>0 DEF ListFine, history
    <2>1. Alone(l) /\ Ordered(l) /\ Recorded(l) /\ \A s \in Requests : Ready(s, l) /\ RunFine(s, l)
      BY DEF RunsInv, ListFine
    <2>2. Alone(l)' /\ Ordered(l)' /\ Recorded(l)'
      BY <1>0, <1>1, <2>1 DEF Alone, Running, Background, Ordered, Recorded, In, ItemsOf, ItemExists, history
    <2>3. Ready(r, l)'
      <3>1. list[l].status = "pending" => ItemsOf(l) \subseteq todo
        BY <2>1 DEF Ordered, ItemsOf, In, ItemExists
      <3> QED
        BY <1>0, <1>1, <1>2, <3>1 DEF Ready, ItemsOf, ItemExists, history
    <2>4. RunFine(r, l)'
      BY <1>1 DEF RunFine, Background
    <2>5. ASSUME NEW s \in Requests, s # r PROVE Ready(s, l)' /\ RunFine(s, l)'
      BY <1>0, <1>1, <2>1, <2>5 DEF Ready, RunFine, In, ItemsOf, ItemExists, history
    <2> QED
      BY <2>2, <2>3, <2>4, <2>5 DEF ListFine
  <1>5. Grows /\ \A m \in Lists : m # l => Untouched(m)
    BY <1>0, <1>1 DEF Grows, Untouched, history
  <1>6. \A i \in Items : ItemFine(i)'
    BY <1>0 DEF RunsInv, ItemFine, ItemExists, history
  <1> QED
    BY <1>1, <1>3, <1>4, <1>5, <1>6, LocalStep

\* The run starts on a pending list, which has no goroutine, or the list is
\* marked stale.
LEMMA RunsMark ==
  ASSUME TypeOK, RunsInv, NEW r \in Requests, Mark(r) PROVE RunsInv'
  <1>0. req[r].pc = "runMark" /\ list \in [Lists -> ListRow] /\ req[r].row \in ListRow
    BY BusyFacts DEF Mark, TypeOK
  <1> PICK l \in Lists : l = req[r].list
    BY <1>0, BusyFacts
  <1>1. CASE ~ListExists(l)
    BY <1>1, RunsQuiet DEF Mark, history
  <1>2. CASE ListExists(l)
    <2>1. /\ list'[l].status = "running" /\ \A m \in Lists : m # l => list'[m] = list[m]
          /\ stale' = IF list[l] = req[r].row THEN stale ELSE stale \cup {l}
          /\ UNCHANGED <<item, runs, did, want, late, unsaved>>
      BY <1>0, <1>2 DEF Mark, PutBack, ListRow
    <2>2. /\ \A s \in Requests : s # r => req'[s] = req[s]
          /\ req'[r].pc = "loop" /\ req'[r].list = l /\ req'[r].todo = req[r].todo /\ req'[r].seen = req[r].seen
          /\ req'[r].failed = req[r].failed
      BY <1>2, MovesAre DEF Mark, Pcs, Background
    <2>3. Grows
      BY <2>1 DEF Grows
    <2>4. /\ ~req[r].failed /\ req[r].row.status = "pending" /\ req[r].todo \subseteq In(l)
          /\ \A i \in req[r].todo : i \in late \/ req[r].seen[i].due = want[i]
      BY <1>0, PcsApart DEF RunsInv, RequestFine, Mine
    <2>5. RequestFine(r)'
      <3>1. Mine(r)' = req[r].todo
        BY <2>2 DEF Mine
      <3>2. In(l)' = In(l)
        BY <2>1 DEF In
      <3> QED
        BY <2>1, <2>2, <2>4, <3>1, <3>2 DEF RequestFine, Working, ItemPcs, Active, Background
    <2>6. ListFine(l)'
      <3> SUFFICES ASSUME l \notin stale' PROVE ListFine(l)'
        BY DEF ListFine
      <3>1. l \notin stale /\ list[l].status = "pending"
        BY <2>1, <2>4
      <3>2. Alone(l) /\ Ordered(l) /\ Recorded(l) /\ \A s \in Requests : Ready(s, l) /\ RunFine(s, l)
        BY <3>1 DEF RunsInv, ListFine
      <3>3. In(l)' = In(l) /\ ItemsOf(l)' = ItemsOf(l) /\ ItemsOf(l) \subseteq In(l) /\ In(l) \subseteq Items
        BY <2>1 DEF In, ItemsOf, ItemExists
      <3>4. \A i \in In(l) : runs'[i] = 0 /\ did'[i] = "none"
        BY <2>1, <3>1, <3>2, <3>3 DEF Ordered, RunsInv, ItemFine
      <3>5. \A s \in Requests : req'[s].pc \in Background /\ req'[s].list = l => s = r
        BY <2>2, <3>1, <3>2 DEF Alone, Running
      <3>6. Alone(l)'
        BY <2>1, <3>5 DEF Alone, Running
      <3>7. Ordered(l)'
        BY <2>1, <3>3, <3>4 DEF Ordered
      <3>8. Recorded(l)'
        BY <2>1, <3>2, <3>3 DEF Recorded, ItemExists
      <3>9. \A s \in Requests : Ready(s, l)'
        BY <2>1 DEF Ready
      <3>10. RunFine(r, l)'
        BY <1>0, <2>1, <2>2, <2>4, <3>1, <3>2, <3>3, <3>4 DEF RunFine, Ready
      <3>11. \A s \in Requests : RunFine(s, l)'
        BY <3>5, <3>10 DEF RunFine
      <3> QED
        BY <3>6, <3>7, <3>8, <3>9, <3>11 DEF ListFine
    <2>7. (\A i \in Items : ItemFine(i)') /\ \A m \in Lists : m # l => Untouched(m)
      BY <2>1, <2>2 DEF RunsInv, ItemFine, ItemExists, Untouched
    <2> QED
      BY <2>2, <2>3, <2>5, <2>6, <2>7, LocalStep
  <1> QED
    BY <1>1, <1>2

-----------------------------------------------------------------------------
(* The goroutine.                                                          *)

\* What Store does to an item that has been created.
LEMMA StoreIs ==
  ASSUME TypeOK, NEW r \in Requests, NEW i \in Items, NEW st \in {"running", "completed", "failed"},
         NEW stored \in BOOLEAN, Store(r, i, st, stored)
  PROVE  /\ \A k \in Items : k # i => item'[k] = item[k]
         /\ item'[i].list = item[i].list /\ item'[i].pos = item[i].pos
         /\ ItemExists(i)' <=> ItemExists(i)
         /\ item'[i].status = "new" <=> item[i].status = "new"
         /\ item'[i] = item[i] \/ item'[i].due = req[r].seen[i].due
         /\ stored /\ ItemExists(i) => item'[i].status = st
  <1>1. item \in [Items -> ItemRow] /\ item[i] \in ItemRow
    BY DEF TypeOK
  <1>2. CASE stored /\ ItemExists(i)
    <2>1. item' = [item EXCEPT ![i] = [item[i] EXCEPT !.status = st, !.due = req[r].seen[i].due]]
      BY <1>2 DEF Store
    <2> QED
      BY <1>1, <1>2, <2>1 DEF ItemExists, ItemRow
  <1>3. CASE ~(stored /\ ItemExists(i))
    <2>1. item' = [item EXCEPT ![i] = item[i]]
      BY <1>3 DEF Store
    <2> QED
      BY <1>1, <1>3, <2>1 DEF ItemExists
  <1> QED
    BY <1>2, <1>3

LEMMA RunsStartItem ==
  ASSUME TypeOK, RunsInv, NEW r \in Requests, NEW i \in Items, NEW stored \in BOOLEAN, StartItem(r, i, stored)
  PROVE  RunsInv'
  <1>0. req \in [Requests -> Request] /\ req[r] \in RequestState /\ runs \in [Items -> 0..2] /\ item \in [Items -> ItemRow]
    BY DEF TypeOK, Request
  <1> PICK l \in Lists : l = req[r].list
    BY BusyFacts DEF StartItem
  <1>1. /\ req[r].pc = "loop" /\ IsNext(r, i) /\ i \in req[r].todo
        /\ Store(r, i, "running", stored)
        /\ runs' = [runs EXCEPT ![i] = IF @ = 2 THEN 2 ELSE @ + 1]
        /\ UNCHANGED <<list, did, want, stale, late, unsaved>>
    BY DEF StartItem, IsNext
  <1>2. /\ \A s \in Requests : s # r => req'[s] = req[s]
        /\ req'[r].pc = "exec" /\ req'[r].item = i /\ req'[r].list = l /\ req'[r].todo = req[r].todo \ {i}
        /\ req'[r].seen = req[r].seen /\ req'[r].failed = req[r].failed
    BY <1>0 DEF StartItem, RequestState
  <1>3. /\ list[l].status # "new" /\ req[r].todo \subseteq In(l)
        /\ item[i].status # "new" /\ item[i].list = l
        /\ \A k \in req[r].todo : k \in late \/ req[r].seen[k].due = want[k]
    BY <1>1, PcsApart, BusyFacts DEF RunsInv, RequestFine, Mine, In, Background
  <1>4. /\ \A k \in Items : k # i => item'[k] = item[k] /\ runs'[k] = runs[k]
        /\ item'[i].list = l /\ item'[i].pos = item[i].pos /\ item'[i].status # "new"
        /\ ItemExists(i)' <=> ItemExists(i)
        /\ item'[i] = item[i] \/ item'[i].due = req[r].seen[i].due
        /\ runs'[i] # 0 /\ (runs[i] = 0 => runs'[i] = 1)
    BY <1>0, <1>1, <1>3, StoreIs
  <1>5. In(l)' = In(l) /\ ItemsOf(l)' = ItemsOf(l)
    BY <1>3, <1>4 DEF In, ItemsOf, ItemExists
  <1>6. Grows /\ \A m \in Lists : m # l => Untouched(m)
    BY <1>1, <1>2, <1>3, <1>4 DEF Grows, Untouched
  <1>7. \A k \in Items : ItemFine(k)'
    BY <1>1, <1>3, <1>4 DEF RunsInv, ItemFine, ItemExists
  <1>8. RequestFine(r)'
    <2>1. Mine(r)' \subseteq req[r].todo
      BY <1>1, <1>2 DEF Mine
    <2>2. i \in In(l)'
      BY <1>3, <1>4 DEF In
    <2> QED
      BY <1>1, <1>2, <1>3, <1>4, <1>5, <2>1, <2>2 DEF RequestFine, Working, ItemPcs
  <1>9. ListFine(l)'
    <2> SUFFICES ASSUME l \notin stale PROVE ListFine(l)'
      BY <1>1 DEF ListFine
    <2>1. Alone(l) /\ Ordered(l) /\ Recorded(l) /\ \A s \in Requests : Ready(s, l) /\ RunFine(s, l)
      BY DEF RunsInv, ListFine
    <2>2. r \in Running(l) /\ Running(l)' = Running(l)
      BY <1>1, <1>2 DEF Running, Background
    <2>3. list[l].status \in {"running", "gone"} /\ \A s \in Requests : req'[s].pc \in Background /\ req'[s].list = l => s = r
      BY <2>1, <2>2 DEF Alone, Running
    <2>4. /\ \A k \in req[r].todo : runs[k] = 0
          /\ ~req[r].failed /\ \A k \in In(l) : did[k] # "failed"
          /\ list[l].status = "running" =>
               \A k \in ItemsOf(l) \ late :
                 /\ k \in req[r].todo => req[r].seen[k].pos = item[k].pos
                 /\ k \in req[r].todo \/ did[k] = "ok"
      BY <1>1, <2>1 DEF RunFine, Background
    <2>5. did[i] = "none" /\ runs'[i] = 1 /\ i \in In(l)
      BY <1>1, <1>3, <1>4, <2>4 DEF RunsInv, ItemFine, In
    <2>6. Alone(l)'
      BY <1>1, <2>1, <2>2 DEF Alone
    <2>7. Ordered(l)'
      <3> SUFFICES ASSUME list[l].status = "running", NEW a \in ItemsOf(l) \ late, NEW b \in ItemsOf(l) \ late,
                          item[b].pos < item[a].pos, runs'[a] > 0
                   PROVE  did[b] = "ok"
        BY <1>1, <1>4, <1>5, <2>3 DEF Ordered, ItemsOf
      <3>0. a \in Items /\ b \in Items /\ item[a].pos \in Nat /\ item[b].pos \in Nat
        BY <1>0 DEF ItemsOf, ItemRow, Positions
      <3>1. CASE a = i
        <4>1. req[r].seen[a].pos = item[a].pos
          BY <1>1, <2>4, <3>1
        <4>2. b \in req[r].todo => req[r].seen[a].pos <= req[r].seen[b].pos /\ req[r].seen[b].pos = item[b].pos
          BY <1>1, <2>4, <3>1 DEF IsNext
        <4> QED
          BY <2>4, <3>0, <4>1, <4>2
      <3>2. CASE a # i
        BY <1>4, <2>1, <3>0, <3>2 DEF Ordered
      <3> QED
        BY <3>1, <3>2
    <2>8. Recorded(l)'
      BY <1>1, <1>4, <1>5, <2>1, <2>5 DEF Recorded, In, ItemExists
    <2>9. \A s \in Requests : Ready(s, l)'
      BY <1>1, <2>3 DEF Ready
    <2>10. RunFine(r, l)'
      <3>1. \A k \in req[r].todo \ {i} : runs'[k] = 0
        BY <1>0, <1>4, <2>4 DEF RequestState
      <3>2. list[l].status = "running" =>
              \A k \in ItemsOf(l) \ late :
                /\ k \in req[r].todo \ {i} => req[r].seen[k].pos = item'[k].pos
                /\ k \in req[r].todo \ {i} \/ did[k] = "ok" \/ k = i
        BY <1>4, <2>4 DEF ItemsOf
      <3> QED
        BY <1>1, <1>2, <1>5, <2>4, <2>5, <3>1, <3>2 DEF RunFine
    <2>11. \A s \in Requests : RunFine(s, l)'
      BY <2>3, <2>10 DEF RunFine
    <2> QED
      BY <2>6, <2>7, <2>8, <2>9, <2>11 DEF ListFine
  <1> QED
    BY <1>2, <1>6, <1>7, <1>8, <1>9, LocalStep

LEMMA RunsFinishItem ==
  ASSUME TypeOK, RunsInv, NEW r \in Requests, NEW ok \in BOOLEAN, NEW stored \in BOOLEAN, FinishItem(r, ok, stored)
  PROVE  RunsInv'
  <1>0. req \in [Requests -> Request] /\ req[r] \in RequestState /\ did \in [Items -> {"none", "ok", "failed"}]
    BY DEF TypeOK, Request
  <1>1. req[r].pc = "exec" /\ req[r].pc # "idle"
    BY DEF FinishItem
  <1> PICK l \in Lists, i \in Items : l = req[r].list /\ i = req[r].item
    BY <1>1, BusyFacts DEF ItemPcs
  <1> DEFINE st == IF ok THEN "completed" ELSE "failed"
             res == IF ok THEN "ok" ELSE "failed"
             left == IF ok THEN req[r].todo ELSE {}
  <1>2. /\ Store(r, i, st, stored)
        /\ did' = [did EXCEPT ![i] = res]
        /\ unsaved' = IF stored THEN unsaved \ {i} ELSE unsaved \cup {i}
        /\ UNCHANGED <<list, runs, want, stale, late>>
    BY DEF FinishItem
  <1>3. /\ \A s \in Requests : s # r => req'[s] = req[s]
        /\ req'[r].pc = "loop" /\ req'[r].list = l /\ req'[r].todo = left
        /\ req'[r].seen = req[r].seen /\ (req'[r].failed <=> ~ok)
    <2>1. /\ req'[r] = [req[r] EXCEPT !.pc = "loop", !.item = None, !.failed = ~ok, !.todo = left]
          /\ \A s \in Requests : s # r => req'[s] = req[s]
      BY <1>0 DEF FinishItem
    <2> HIDE DEF left
    <2>2. req'[r].failed = ~ok
      BY <1>0, <2>1 DEF RequestState
    <2>3. req'[r].failed <=> ~ok
      BY <2>2, Zenon
    <2> QED
      BY <1>0, <2>1, <2>3 DEF RequestState
  <1>4. /\ list[l].status # "new" /\ req[r].todo \subseteq In(l) /\ runs[i] # 0
        /\ item[i].status # "new" /\ item[i].list = l
        /\ \A k \in req[r].todo \cup {i} : k \in late \/ req[r].seen[k].due = want[k]
    BY <1>1, PcsApart, BusyFacts DEF RunsInv, RequestFine, Mine, In, Background, ItemPcs
  <1>5. /\ \A k \in Items : k # i => item'[k] = item[k] /\ did'[k] = did[k] /\ (k \in unsaved' <=> k \in unsaved)
        /\ item'[i].list = l /\ item'[i].pos = item[i].pos /\ item'[i].status # "new"
        /\ ItemExists(i)' <=> ItemExists(i)
        /\ item'[i] = item[i] \/ item'[i].due = req[r].seen[i].due
        /\ i \notin unsaved' /\ ItemExists(i) => item'[i].status = st
        /\ did'[i] = res
    <2>1. st \in {"running", "completed", "failed"}
      OBVIOUS
    <2> HIDE DEF st, res
    <2> QED
      BY <1>0, <1>2, <1>4, <2>1, StoreIs
  <1>6. In(l)' = In(l) /\ ItemsOf(l)' = ItemsOf(l)
    BY <1>4, <1>5 DEF In, ItemsOf, ItemExists
  <1>7. Grows /\ \A m \in Lists : m # l => Untouched(m)
    BY <1>2, <1>3, <1>4, <1>5 DEF Grows, Untouched
  <1>8. \A k \in Items : ItemFine(k)'
    BY <1>2, <1>4, <1>5 DEF RunsInv, ItemFine, ItemExists
  <1>9. RequestFine(r)'
    <2>1. Mine(r)' = left
      BY <1>3 DEF Mine
    <2>2. left \subseteq req[r].todo
      OBVIOUS
    <2> HIDE DEF left
    <2> QED
      BY <1>2, <1>3, <1>4, <1>6, <2>1, <2>2 DEF RequestFine, Working, ItemPcs
  <1>10. ListFine(l)'
    <2> SUFFICES ASSUME l \notin stale PROVE ListFine(l)'
      BY <1>2 DEF ListFine
    <2>1. Alone(l) /\ Ordered(l) /\ Recorded(l) /\ \A s \in Requests : Ready(s, l) /\ RunFine(s, l)
      BY DEF RunsInv, ListFine
    <2>2. r \in Running(l) /\ Running(l)' = Running(l)
      BY <1>1, <1>3 DEF Running, Background
    <2>3. list[l].status \in {"running", "gone"} /\ \A s \in Requests : req'[s].pc \in Background /\ req'[s].list = l => s = r
      BY <2>1, <2>2 DEF Alone, Running
    <2>4. /\ \A k \in req[r].todo : runs[k] = 0
          /\ ~req[r].failed /\ did[i] = "none" /\ \A k \in In(l) : did[k] # "failed"
          /\ list[l].status = "running" =>
               \A k \in ItemsOf(l) \ late :
                 /\ k \in req[r].todo => req[r].seen[k].pos = item[k].pos
                 /\ k \in req[r].todo \/ did[k] = "ok" \/ k = i
      BY <1>1, <2>1 DEF RunFine, Background
    <2>5. i \in In(l)
      BY <1>4 DEF In
    <2>6. Alone(l)'
      BY <1>2, <2>1, <2>2 DEF Alone
    <2>7. Ordered(l)'
      BY <1>2, <1>5, <1>6, <2>1, <2>3, <2>4 DEF Ordered, ItemsOf
    <2>8. Recorded(l)'
      BY <1>2, <1>5, <1>6, <2>1 DEF Recorded, In, ItemExists
    <2>9. \A s \in Requests : Ready(s, l)'
      BY <1>2, <2>3 DEF Ready
    <2>10. RunFine(r, l)'
      <3>1. CASE ok
        BY <1>2, <1>3, <1>5, <1>6, <2>4, <3>1 DEF RunFine, ItemsOf, In
      <3>2. CASE ~ok
        BY <1>2, <1>3, <1>5, <1>6, <2>5, <3>2 DEF RunFine
      <3> QED
        BY <3>1, <3>2
    <2>11. \A s \in Requests : RunFine(s, l)'
      BY <2>3, <2>10 DEF RunFine
    <2> QED
      BY <2>6, <2>7, <2>8, <2>9, <2>11 DEF ListFine
  <1> QED
    BY <1>3, <1>7, <1>8, <1>9, <1>10, LocalStep

LEMMA RunsFinishList ==
  ASSUME TypeOK, RunsInv, NEW r \in Requests, NEW stored \in BOOLEAN, FinishList(r, stored) PROVE RunsInv'
  <1>0. req[r].pc = "loop" /\ Return(r) /\ list \in [Lists -> ListRow]
    BY DEF FinishList, TypeOK
  <1> PICK l \in Lists : l = req[r].list
    BY <1>0, BusyFacts
  <1>1. /\ \A m \in Lists : m # l => list'[m] = list[m]
        /\ list'[l] = list[l] \/ list'[l].status \in Terminal
        /\ UNCHANGED <<item, runs, did, want, stale, late, unsaved>>
    <2>1. \E st \in Terminal : list' = list \/ list' = [list EXCEPT ![l] = [status |-> st, finished |-> TRUE]]
      BY DEF FinishList, Terminal
    <2> QED
      BY <1>0, <2>1 DEF FinishList
  <1>2. (\A s \in Requests : s # r => req'[s] = req[s]) /\ RequestFine(r)' /\ req'[r].pc \notin Active
    BY <1>0, MovesAre, IdleFine
  <1>3. Grows /\ \A m \in Lists : m # l => Untouched(m)
    BY <1>1, <1>2 DEF Grows, Untouched, Terminal
  <1>4. \A i \in Items : ItemFine(i)'
    BY <1>1 DEF RunsInv, ItemFine, ItemExists, Terminal
  <1>5. ListFine(l)'
    <2>1. CASE list'[l] = list[l]
      <3>1. Untouched(l)
        BY <1>1, <1>2, <2>1 DEF Untouched
      <3> QED
        BY <3>1, ListKept
    <2>2. CASE list'[l].status \in Terminal
      <3> SUFFICES ASSUME l \notin stale PROVE ListFine(l)'
        BY <1>1 DEF ListFine
      <3>1. Alone(l) /\ Recorded(l)
        BY DEF RunsInv, ListFine
      <3>2. \A s \in Requests : req'[s].pc \notin Background \/ req'[s].list # l
        <4>1. \A s \in Requests : s # r => req[s].pc \notin Background \/ req[s].list # l
          BY <1>0, <3>1 DEF Alone, Running, Background
        <4> QED
          BY <1>2, <4>1, PcsApart
      <3>3. Alone(l)' /\ \A s \in Requests : RunFine(s, l)'
        BY <3>2 DEF Alone, Running, RunFine
      <3>4. Recorded(l)'
        BY <1>1, <3>1 DEF Recorded, In, ItemExists
      <3>5. Ordered(l)' /\ \A s \in Requests : Ready(s, l)'
        BY <2>2 DEF Ordered, Ready, Terminal
      <3> QED
        BY <3>3, <3>4, <3>5 DEF ListFine
    <2> QED
      BY <1>1, <2>1, <2>2
  <1> QED
    BY <1>2, <1>3, <1>4, <1>5, LocalStep

LEMMA RunsCrash == ASSUME TypeOK, RunsInv, Crash PROVE RunsInv'
  <1>1. (\A r \in Requests : req'[r] = Idle) /\ UNCHANGED <<list, item, runs, did, want, stale, late, unsaved>>
    BY DEF Crash
  <1>2. \A r \in Requests : RequestFine(r)' /\ req'[r].pc \notin Active
    BY <1>1, IdleFine
  <1>3. \A l \in Lists : Untouched(l)
    BY <1>1, <1>2 DEF Untouched
  <1>4. \A l \in Lists : ListFine(l)'
    BY <1>3, ListKept
  <1>5. \A i \in Items : ItemFine(i)'
    BY <1>1 DEF RunsInv, ItemFine, ItemExists
  <1> QED
    BY <1>2, <1>4, <1>5 DEF RunsInv

LEMMA RunsInvNext == ASSUME TypeOK, RunsInv, [Next]_vars PROVE RunsInv'
  <1>1. CASE UNCHANGED vars
    <2>1. (\A l \in Lists : Untouched(l)) /\ Grows
      BY <1>1 DEF vars, history, Untouched, Grows
    <2>2. \A l \in Lists : ListFine(l)'
      BY <2>1, ListKept
    <2>3. \A s \in Requests : RequestFine(s)'
      BY <1>1, <2>1, RequestKept DEF vars
    <2>4. \A i \in Items : ItemFine(i)'
      BY <1>1 DEF vars, history, RunsInv, ItemFine, ItemExists
    <2> QED
      BY <2>2, <2>3, <2>4 DEF RunsInv
  <1>2. CASE Crash
    BY <1>2, RunsCrash
  <1>3. ASSUME NEW r \in Requests, Handler(r) PROVE RunsInv'
    <2>1. Abort(r) => RunsInv'
      BY RunsQuiet DEF Abort
    <2>2. MaxPosition(r) => RunsInv'
      BY RunsQuiet DEF MaxPosition
    <2>3. (\E i \in Items : GetItem(r, i)) => RunsInv'
      BY RunsQuiet DEF GetItem
    <2> QED
      BY <1>3, <2>1, <2>2, <2>3, RunsCreateList, RunsReadList, RunsCreateBatch, RunsChangeItem, RunsTouch, RunsDeleteList,
         RunsReadItems, RunsMark DEF Handler
  <1>4. ASSUME NEW r \in Requests, Goroutine(r) PROVE RunsInv'
    BY <1>4, RunsStartItem, RunsFinishItem, RunsFinishList DEF Goroutine
  <1> QED
    BY <1>1, <1>2, <1>3, <1>4 DEF Next

LEMMA RunsInvAlways == Spec => []RunsInv
  <1>1. TypeOK /\ RunsInv /\ [Next]_vars => RunsInv'
    BY RunsInvNext
  <1> QED
    BY <1>1, RunsInvInit, TasksTypeCorrect, PTL DEF Spec

-----------------------------------------------------------------------------
(* What holds however many requests overlap.                               *)

\* Only a row put back from an outdated copy gives a list two goroutines, or
\* takes the mark away from one that has a goroutine.
THEOREM OneGoroutineUnlessStale == Spec => []OneRunner
  <1>1. RunsInv => OneRunner
    BY DEF RunsInv, ListFine, Alone, OneRunner
  <1> QED
    BY <1>1, RunsInvAlways, PTL

\* No item of a list that was not overwritten so is given to the executor twice,
\* over crashes, failures, failed writes, deletions and overlapping edits.
THEOREM NoItemTwice == Spec => []ItemOnce
  <1>1. TypeOK /\ RunsInv => ItemOnce
    <2> SUFFICES ASSUME TypeOK, RunsInv, NEW i \in Items, item[i].list \in Lists \ stale PROVE runs[i] <= 1
      BY DEF ItemOnce
    <2>1. item[i].status = "new" => runs[i] = 0
      BY DEF RunsInv, ItemFine
    <2>2. item[i].status # "new" => runs[i] <= 1
      BY DEF RunsInv, ListFine, Recorded, In
    <2> QED
      BY <2>1, <2>2
  <1> QED
    BY <1>1, TasksTypeCorrect, RunsInvAlways, PTL

\* The items of a running list are started in the order of the positions, each
\* when the ones before it went well, though writes fail.
THEOREM ItemsInOrder == Spec => []InOrder
  <1>1. RunsInv => InOrder
    BY DEF RunsInv, ListFine, Ordered, InOrder
  <1> QED
    BY <1>1, RunsInvAlways, PTL

\* The due date of an item is the one the user asked for last, though goroutines
\* write back the one they read, unless the user was late.
THEOREM DueDatesKept == Spec => []EditsKept
  <1>1. RunsInv => EditsKept
    BY DEF RunsInv, ItemFine, EditsKept
  <1> QED
    BY <1>1, RunsInvAlways, PTL

\* The status a goroutine leaves on its list says what the executor did, and so
\* do the rows of the items that could be written.
THEOREM OutcomeIsTrue == Spec => OutcomeTellsItems
  <1> DEFINE Told(l) ==
       /\ list'[l].finished
       /\ list'[l].status = "failed" <=> \E i \in Items : item[i].list = l /\ did[i] = "failed"
       /\ list'[l].status = "completed" => \A i \in ItemsOf(l) \ late : did[i] = "ok"
       /\ \A i \in ItemsOf(l) \ unsaved : did[i] = "ok" => item[i].status = "completed"
       /\ \A i \in ItemsOf(l) \ unsaved : did[i] = "failed" => item[i].status = "failed"
  <1>1. ASSUME TypeOK, RunsInv, NEW l \in Lists \ stale', list[l].status = "running", list'[l].status \in Terminal,
               [Next]_vars
        PROVE  \E r \in Requests, stored \in BOOLEAN : FinishList(r, stored) /\ req[r].list = l
    <2>0. list \in [Lists -> ListRow] /\ req \in [Requests -> Request]
      BY <1>1 DEF TypeOK
    <2>1. list'[l].status \notin {"running", "gone", "pending"} /\ list' # list
      BY <1>1 DEF Terminal
    <2>2. PICK r \in Requests : Handler(r) \/ Goroutine(r)
      BY <1>1, <2>1 DEF Next, Crash, vars
    <2>3. ASSUME NEW m \in Lists PROVE ~CreateList(r, m) /\ ~DeleteList(r, m)
      <3>1. CreateList(r, m) => list'[l] = list[l] \/ list'[l].status = "pending"
        BY <1>1, <2>0 DEF CreateList, ListRow
      <3>2. DeleteList(r, m) => list'[l] = list[l] \/ list'[l].status = "gone"
        BY <1>1, <2>0 DEF DeleteList, ListRow
      <3> QED
        BY <1>1, <2>1, <3>1, <3>2
    <2>4. ~Touch(r)
      <3>1. Touch(r) => list' = [list EXCEPT ![req[r].list] = req[r].row]
                        /\ stale' = IF list[req[r].list] = req[r].row THEN stale ELSE stale \cup {req[r].list}
        BY <2>1 DEF Touch, PutBack
      <3>2. CASE req[r].list = l
        BY <1>1, <2>0, <2>1, <3>1, <3>2
      <3>3. CASE req[r].list # l
        BY <1>1, <2>0, <2>1, <3>1, <3>3
      <3> QED
        BY <3>2, <3>3
    <2>5. ~Mark(r)
      <3>1. Mark(r) => list'[l] = list[l] \/ list'[l] = [req[r].row EXCEPT !.status = "running"]
        BY <1>1, <2>0 DEF Mark, PutBack
      <3>2. [req[r].row EXCEPT !.status = "running"].status = "running"
        BY <2>0 DEF Request, RequestState, ListRow
      <3> QED
        BY <1>1, <2>1, <3>1, <3>2
    <2>6. PICK stored \in BOOLEAN : FinishList(r, stored)
      BY <2>1, <2>2, <2>3, <2>4, <2>5
         DEF Handler, Goroutine, ReadList, CreateBatch, GetItem, PatchItem, MaxPosition, DeleteItem, Abort, ReadItems,
             StartItem, FinishItem
    <2>7. req[r].list = l
      BY <1>1, <2>0, <2>1, <2>6 DEF FinishList
    <2> QED
      BY <2>6, <2>7
  <1>2. ASSUME TypeOK, RunsInv, NEW l \in Lists \ stale', list[l].status = "running", list'[l].status \in Terminal,
               [Next]_vars
        PROVE  Told(l)
    <2>1. PICK r \in Requests, stored \in BOOLEAN : FinishList(r, stored) /\ req[r].list = l
      BY <1>1, <1>2
    <2>2. /\ req[r].pc = "loop" /\ req[r].todo = {} /\ l \notin stale
          /\ list'[l] = [status |-> IF req[r].failed THEN "failed" ELSE "completed", finished |-> TRUE]
      <3>1. l \notin stale /\ list'[l] # list[l]
        BY <1>2, <2>1 DEF FinishList, Terminal
      <3> QED
        BY <1>2, <2>1, <3>1 DEF FinishList, TypeOK
    <2>3. RunFine(r, l) /\ Recorded(l) /\ \A i \in Items : ItemFine(i)
      BY <1>2, <2>2 DEF RunsInv, ListFine
    <2>4. /\ req[r].failed => \E i \in In(l) : did[i] = "failed"
          /\ ~req[r].failed => (\A i \in In(l) : did[i] # "failed") /\ \A i \in ItemsOf(l) \ late : did[i] = "ok"
      BY <1>2, <2>1, <2>2, <2>3 DEF RunFine, Background
    <2>5. (\E i \in In(l) : did[i] = "failed") <=> \E i \in Items : item[i].list = l /\ did[i] = "failed"
      BY <2>3 DEF In, ItemFine
    <2>6. /\ \A i \in ItemsOf(l) \ unsaved : did[i] = "ok" => item[i].status = "completed"
          /\ \A i \in ItemsOf(l) \ unsaved : did[i] = "failed" => item[i].status = "failed"
      BY <2>3 DEF Recorded, In, ItemsOf, ItemExists
    <2> QED
      BY <2>2, <2>4, <2>5, <2>6
  <1>3. TypeOK /\ RunsInv /\ [Next]_vars =>
          [\A l \in Lists \ stale' : list[l].status = "running" /\ list'[l].status \in Terminal => Told(l)]_vars
    BY <1>2
  <1> QED
    BY <1>3, RunsInvAlways, TasksTypeCorrect, PTL DEF Spec, OutcomeTellsItems
=============================================================================
