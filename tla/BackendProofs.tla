---------------------------- MODULE BackendProofs ----------------------------
(***************************************************************************)
(* Why the window's pointer m_current stays good between handlers, and its *)
(* list agrees with memory and with the table: the inductive invariant     *)
(* adds to that of TaskTree that the window removes children of the task   *)
(* it shows and nothing else, so the task shown is above any that an erase *)
(* destroys or moves.                                                      *)
(***************************************************************************)
EXTENDS Backend, TaskTreeMirror

\* A remove the window began is of a child of the task shown.
DeletesAChild(h, s, a) ==
  Removing(s) => (Len(s) = 1 /\ Erased(s)) \/ Owns(h, a, s[Len(s)].task)

\* The task shown is where m_current points, and not in the way of a remove.
Shows(h, s, cur) ==
  /\ cur.ref \in LiveAddrs(h)
  /\ cur = TaskModel(h, cur.ref)
  /\ DeletesAChild(h, s, cur.ref)

BackendInv ==
  /\ MirrorInv
  /\ current \in Model
  /\ tasks \subseteq Model
  /\ job \in {"none", "open", "delete"}
  /\ job = "none" => calls = <<>>
  /\ Ready => tasks = loadTasks(heap, current)
  /\ running /\ ~astray => Shows(heap, calls, current)

-----------------------------------------------------------------------------
(* The models, and what they point to. *)

LEMMA ModelType ==
  ASSUME NEW h \in Heap, NEW a \in Addr
  PROVE  TaskModel(h, a) \in Model
<1>1. h.at[a] \in Task
  BY DEF Heap
<1>2. QED
  BY <1>1 DEF TaskModel, Model, Task

LEMMA ListedFacts ==
  ASSUME NEW h \in Heap, NEW cur \in Model
  PROVE  /\ loadTasks(h, cur) \subseteq Model
         /\ \A model \in loadTasks(h, cur) :
              /\ model.ref \in ChildAddrs(h, cur.ref)
              /\ model.ref \in LiveAddrs(h)
              /\ model = TaskModel(h, model.ref)
<1>1. cur.ref \in Addr
  BY DEF Model
<1>2. get_child_count(h, cur.ref) \in Nat
  BY <1>1, CountType, BoundFacts
<1>3. \A a \in ChildAddrs(h, cur.ref) : a \in LiveAddrs(h) /\ a \in Addr
  BY <1>1, <1>2, ChildFacts DEF ChildAddrs, LiveAddrs
<1>4. ASSUME NEW model \in loadTasks(h, cur)
      PROVE  /\ model.ref \in ChildAddrs(h, cur.ref)
             /\ model = TaskModel(h, model.ref)
  <2>1. PICK a \in ChildAddrs(h, cur.ref) : model = TaskModel(h, a)
    BY DEF loadTasks
  <2>2. model.ref = a
    BY <2>1 DEF TaskModel
  <2>3. QED
    BY <2>1, <2>2
<1>5. QED
  BY <1>3, <1>4, ModelType

LEMMA EmptyHeapModel ==
  /\ TaskModel(EmptyHeap, head) \in Model
  /\ head \in LiveAddrs(EmptyHeap)
<1>1. head \in Addr
  BY DEF Addr
<1>2. QED
  BY <1>1, EmptyHeapType, ModelType DEF LiveAddrs, Alive

\* An edit of a task's own fields moves nothing.
LEMMA AssignFacts ==
  ASSUME NEW h \in Heap, NEW a \in Addr, NEW t, t.children = h.at[a].children,
         NEW g, g = Assign(h, a, t)
  PROVE  /\ LiveAddrs(g) = LiveAddrs(h)
         /\ \A x \in Addr : x # a => g.at[x] = h.at[x]
         /\ g.at[a] = t
         /\ \A x \in Addr : ChildAddrs(g, x) = ChildAddrs(h, x)
<1>1. /\ g.len = h.len
      /\ \A x \in Addr : x # a => g.at[x] = h.at[x]
      /\ g.at[a] = t
  BY DEF Assign, Heap
<1>2. \A x \in Addr : g.at[x].children = h.at[x].children
  BY <1>1
<1>3. QED
  BY <1>1, <1>2 DEF LiveAddrs, Alive, ChildAddrs, get_child_count, get_child

-----------------------------------------------------------------------------
(* What the window does is what TaskTree allows its callers. *)

LEMMA ModelsAreLive ==
  ASSUME BackendInv, Ready, NEW model \in tasks
  PROVE  /\ model.ref \in ChildAddrs(heap, current.ref)
         /\ model.ref \in LiveAddrs(heap)
         /\ model = TaskModel(heap, model.ref)
<1>1. heap \in Heap /\ current \in Model /\ tasks = loadTasks(heap, current)
  BY DEF BackendInv, MirrorInv, HeldInv, LoadInv, TypeOK
<1>2. QED
  BY <1>1, ListedFacts

LEMMA CurrentIsLive ==
  ASSUME BackendInv, Ready, ~astray
  PROVE  current.ref \in LiveAddrs(heap) /\ current = TaskModel(heap, current.ref)
<1>1. running
  BY DEF Ready, Idle
<1>2. QED
  BY <1>1 DEF BackendInv, Shows

LEMMA HandlersAreCalls ==
  ASSUME BackendInv, [BackendNext]_allVars
  PROVE  [Next]_vars \/ goBack \/ \E name \in Names : addTaskLost(name)
<1>1. ASSUME NEW name \in Names, addTask(name)
      PROVE  Next
  <2>1. current.ref \in LiveAddrs(heap) /\ AddChild(current.ref, name)
    BY <1>1 DEF addTask, LiveAddrs, BackendInv, Model
  <2>2. QED
    BY <2>1 DEF Next, Request
<1>2. ASSUME NEW model \in tasks, deleteTask(model)
      PROVE  Next
  <2>1. model.ref \in LiveAddrs(heap) /\ Remove(model.ref)
    BY <1>2, ModelsAreLive DEF deleteTask
  <2>2. QED
    BY <2>1 DEF Next, Request
<1>3. ASSUME NEW model \in tasks, NEW name \in Names, setTaskName(model, name)
      PROVE  Next
  <2>1. model.ref \in LiveAddrs(heap) /\ SetTaskName(model.ref, name)
    BY <1>3, ModelsAreLive DEF setTaskName
  <2>2. QED
    BY <2>1 DEF Next, Request
<1>4. ASSUME NEW model \in tasks, NEW completed \in BOOLEAN, setTaskCompleted(model, completed)
      PROVE  Next
  <2>1. model.ref \in LiveAddrs(heap) /\ ToggleTaskCompleted(model.ref)
    BY <1>4, ModelsAreLive DEF setTaskCompleted
  <2>2. QED
    BY <2>1 DEF Next, Request
<1>5. Open => Next
  BY DEF Open, Next
<1>6. Close => Next
  BY DEF Close, Next
<1>7. InLibrary => Next
  BY DEF InLibrary, Next, Step
<1>8. Opened \/ Deleted \/ goBackLost \/ (\E model \in tasks : setCurrent(model)) => UNCHANGED vars
  BY DEF Opened, Deleted, goBackLost, setCurrent
<1>9. UNCHANGED allVars => UNCHANGED vars
  BY DEF allVars
<1>10. QED
  BY <1>1, <1>2, <1>3, <1>4, <1>5, <1>6, <1>7, <1>8, <1>9 DEF BackendNext

\* A handler that goes back changes nothing TaskTree keeps; a pointer that is
\* lost was lost astray.
LEMMA BackendMirrorInv ==
  ASSUME BackendInv, [BackendNext]_allVars
  PROVE  MirrorInv'
<1>1. MirrorInv /\ HeldInv /\ LoadInv /\ TypeOK
  BY DEF BackendInv, MirrorInv, HeldInv, LoadInv
<1>2. CASE [Next]_vars
  BY <1>1, <1>2, MirrorInvNext
<1>3. CASE goBack
  <2>1. /\ rows' = rows /\ running' = running /\ heap' = heap /\ calls' = calls
        /\ astray' \in BOOLEAN /\ (~astray' => ~astray)
    BY <1>1, <1>3 DEF goBack, TypeOK
  <2>2. LoadInv'
    BY <1>1, <2>1 DEF LoadInv, TypeOK, Loading
  <2>3. QED
    BY <1>1, <2>1, <2>2 DEF MirrorInv, HeldInv
<1>4. ASSUME NEW name \in Names, addTaskLost(name)
      PROVE  MirrorInv'
  <2>1. Ready /\ astray /\ calls = <<>>
    BY <1>1, <1>4, CurrentIsLive DEF addTaskLost, Lost, TypeOK, Ready, Idle, LiveAddrs
  <2>2. /\ running' = FALSE /\ heap' = EmptyHeap /\ calls' = <<>> /\ astray' = astray
    BY <1>4, <2>1 DEF addTaskLost
  <2>3. IsTable(rows')
    BY <1>1, <1>4, TableTypes DEF addTaskLost, TypeOK
  <2>4. TypeOK'
    BY <1>1, <2>2, <2>3, EmptyHeapType, EmptyStackType DEF TypeOK
  <2>5. OneKind(calls') /\ ~Loading'
    BY <2>2 DEF OneKind, Loading
  <2>6. LoadInv'
    BY <2>4, <2>5 DEF LoadInv
  <2>7. QED
    BY <2>1, <2>2, <2>6 DEF MirrorInv, HeldInv
<1>5. QED
  BY <1>2, <1>3, <1>4, HandlersAreCalls

-----------------------------------------------------------------------------
(* The list. *)

LEMMA SetTaskNameLists ==
  ASSUME BackendInv, NEW model \in tasks, NEW name \in Names, setTaskName(model, name)
  PROVE  tasks' = loadTasks(heap', current')
<1> DEFINE a == model.ref
           t == [heap.at[a] EXCEPT !.name = name]
<1>1. /\ heap \in Heap /\ current \in Model /\ tasks = loadTasks(heap, current) /\ Ready
      /\ current' = current
      /\ heap' = Assign(heap, a, t)
      /\ tasks' = (tasks \ {model}) \cup {[model EXCEPT !.name = name]}
  BY DEF BackendInv, MirrorInv, HeldInv, LoadInv, TypeOK, setTaskName, SetTaskName
<1>2. a \in ChildAddrs(heap, current.ref) /\ a \in Addr /\ model = TaskModel(heap, a)
  BY <1>1, ModelsAreLive DEF LiveAddrs
<1>3. heap.at[a] \in Task
  BY <1>1, <1>2 DEF Heap
<1>4. /\ t.id = heap.at[a].id /\ t.name = name /\ t.completed = heap.at[a].completed
      /\ t.children = heap.at[a].children
  BY <1>3 DEF Task
<1> HIDE DEF t
<1>5. /\ \A x \in Addr : x # a => heap'.at[x] = heap.at[x]
      /\ heap'.at[a] = t
      /\ ChildAddrs(heap', current.ref) = ChildAddrs(heap, current.ref)
  BY <1>1, <1>2, <1>4, AssignFacts DEF Model
<1>6. [model EXCEPT !.name = name] = TaskModel(heap', a)
  BY <1>2, <1>4, <1>5 DEF TaskModel
<1>7. \A x \in Addr : x # a => TaskModel(heap', x) = TaskModel(heap, x)
  BY <1>5 DEF TaskModel
<1>8. \A x : TaskModel(heap, x).ref = x
  BY DEF TaskModel
<1>9. ChildAddrs(heap, current.ref) \subseteq Addr
  <2>1. current.ref \in Addr /\ get_child_count(heap, current.ref) \in Nat
    BY <1>1, CountType, BoundFacts DEF Model
  <2>2. QED
    BY <1>1, <2>1, ChildFacts DEF ChildAddrs, LiveAddrs
<1> HIDE DEF a
<1>10. tasks \ {model} = {TaskModel(heap, x) : x \in ChildAddrs(heap, current.ref) \ {a}}
  BY <1>1, <1>2, <1>8 DEF loadTasks
<1> DEFINE C == ChildAddrs(heap, current.ref)
<1>11. loadTasks(heap', current') = {TaskModel(heap', x) : x \in C}
  BY <1>1, <1>5 DEF loadTasks
<1>12. tasks' = {TaskModel(heap, x) : x \in C \ {a}} \cup {TaskModel(heap', a)}
  BY <1>1, <1>6, <1>10
<1>13. a \in C /\ \A x \in C : x # a => TaskModel(heap', x) = TaskModel(heap, x)
  BY <1>2, <1>7, <1>9
<1> HIDE DEF C
<1>14. QED
  BY <1>11, <1>12, <1>13, Zenon

LEMMA WindowType ==
  ASSUME BackendInv, [BackendNext]_allVars
  PROVE  /\ current' \in Model /\ tasks' \subseteq Model
         /\ job' \in {"none", "open", "delete"}
         /\ job' = "none" => calls' = <<>>
         /\ Ready' => tasks' = loadTasks(heap', current')
<1>1. /\ current \in Model /\ tasks \subseteq Model /\ job \in {"none", "open", "delete"}
      /\ job = "none" => calls = <<>>
      /\ Ready => tasks = loadTasks(heap, current)
      /\ heap \in Heap
  BY DEF BackendInv, MirrorInv, HeldInv, LoadInv, TypeOK
<1>2. heap' \in Heap
  BY BackendMirrorInv DEF MirrorInv, HeldInv, LoadInv, TypeOK
<1>3. CASE UNCHANGED allVars
  <2>1. /\ heap' = heap /\ calls' = calls /\ running' = running
        /\ current' = current /\ tasks' = tasks /\ job' = job
    BY <1>3 DEF allVars, vars, backendVars
  <2>2. loadTasks(heap', current') = loadTasks(heap, current)
    BY <2>1
  <2>3. QED
    BY <1>1, <2>1, <2>2 DEF Ready, Idle
<1>4. CASE Open \/ Close
  BY <1>4, EmptyHeapModel DEF Open, Close, Stop, Reset, Ready, Idle
<1>5. CASE InLibrary
  <2>1. job # "none"
    BY <1>1, <1>5 DEF InLibrary, Proceed, LoadSelect, LoadDescend, LoadReturn, RemoveChild,
                      RemoveRow, RemoveErase, RemoveReturn, InPc
  <2>2. QED
    BY <1>1, <1>5, <2>1 DEF InLibrary, backendVars, Ready
<1>6. CASE Opened \/ Deleted
  <2>1. /\ heap' = heap /\ calls' = calls /\ calls = <<>> /\ current' = current
        /\ tasks' = loadTasks(heap, current) /\ job' = "none"
    BY <1>6 DEF Opened, Deleted, Idle, vars
  <2>2. loadTasks(heap', current') = loadTasks(heap, current)
    BY <2>1
  <2>3. QED
    BY <1>1, <2>1, <2>2, ListedFacts
<1>7. ASSUME NEW name \in Names, addTask(name)
      PROVE  /\ current' = current /\ job' = job /\ calls' = calls
             /\ tasks' = loadTasks(heap', current')
  BY <1>7 DEF addTask, AddChild
<1>8. ASSUME NEW name \in Names, addTaskLost(name)
      PROVE  /\ calls' = calls /\ job' = "none" /\ tasks' = {} /\ running' = FALSE
             /\ current' = TaskModel(EmptyHeap, head) /\ calls = <<>>
  BY <1>8 DEF addTaskLost, Reset, Lost, Ready, Idle
<1>9. ASSUME NEW model \in tasks, deleteTask(model)
      PROVE  current' = current /\ tasks' = tasks /\ job' = "delete"
  BY <1>9 DEF deleteTask
<1>10. ASSUME NEW model \in tasks, NEW name \in Names, setTaskName(model, name)
       PROVE  /\ current' = current /\ job' = job /\ calls' = calls
              /\ tasks' = loadTasks(heap', current')
  BY <1>10, SetTaskNameLists DEF setTaskName, SetTaskName
<1>11. ASSUME NEW model \in tasks, NEW completed \in BOOLEAN, setTaskCompleted(model, completed)
       PROVE  /\ current' = current /\ job' = job /\ calls' = calls
              /\ tasks' = loadTasks(heap', current')
  BY <1>11 DEF setTaskCompleted, ToggleTaskCompleted
<1>12. ASSUME NEW model \in tasks, setCurrent(model)
       PROVE  /\ current' \in Model /\ job' = job /\ calls' = calls
              /\ tasks' = loadTasks(heap', current')
  <2>1. model.ref \in Addr
    BY <1>1
       DEF Model
  <2>2. /\ current' = TaskModel(heap, model.ref) /\ job' = job /\ calls' = calls /\ heap' = heap
        /\ tasks' = loadTasks(heap, current')
    BY <1>12 DEF setCurrent, vars
  <2>3. QED
    BY <1>1, <2>1, <2>2, ModelType
<1>13. goBack \/ goBackLost =>
         /\ current' \in Model /\ job' = job /\ calls' = calls
         /\ tasks' = loadTasks(heap', current')
  <2>1. ASSUME goBack
        PROVE  current' \in Model
    <3> DEFINE q == heap.at[current.ref].parent
    <3>1. q \in Addr
      <4>1. current.ref \in Addr
        BY <1>1 DEF Model
      <4>2. heap.at[current.ref] \in Task
        BY <1>1, <4>1 DEF Heap
      <4>3. QED
        BY <2>1, <4>2 DEF goBack, Task
    <3> HIDE DEF q
    <3>2. current' \in IF Alive(heap, q) THEN {TaskModel(heap, q)}
              ELSE {[ref |-> q, id |-> id, name |-> "", completed |-> FALSE] :
                      id \in RowIds \cup {0}}
      BY <2>1 DEF goBack, q
    <3>3. QED
      <4>1. CASE Alive(heap, q)
        BY <1>1, <3>1, <3>2, <4>1, ModelType
      <4>2. CASE ~Alive(heap, q)
        <5>1. PICK id \in RowIds \cup {0} :
                current' = [ref |-> q, id |-> id, name |-> "", completed |-> FALSE]
          BY <3>2, <4>2
        <5>2. QED
          BY <3>1, <5>1, NamesAssumption DEF Model
      <4>3. QED
        BY <4>1, <4>2
  <2>2. ASSUME goBackLost
        PROVE  current' \in Model
    BY <1>1, <2>2, ModelType DEF goBackLost, LiveAddrs
  <2>3. QED
    <3>1. ASSUME goBack \/ goBackLost
          PROVE  /\ job' = job /\ calls' = calls /\ heap' = heap
                 /\ tasks' = loadTasks(heap, current')
      BY <3>1 DEF goBack, goBackLost, vars
    <3>2. QED
      BY <2>1, <2>2, <3>1
<1>14. tasks' = loadTasks(heap', current') /\ current' \in Model => tasks' \subseteq Model
  BY <1>2, ListedFacts
<1>15. QED
  BY <1>1, <1>3, <1>4, <1>5, <1>6, <1>7, <1>8, <1>9, <1>10, <1>11, <1>12, <1>13, <1>14,
     EmptyHeapModel DEF BackendNext, Ready, Idle

-----------------------------------------------------------------------------
(* The task shown. *)

\* A task that keeps its fields where it is, and no remove under way.
LEMMA ShownInPlace ==
  ASSUME NEW h, NEW cur, cur.ref \in LiveAddrs(h), cur = TaskModel(h, cur.ref),
         NEW g, cur.ref \in LiveAddrs(g),
         g.at[cur.ref].id = h.at[cur.ref].id, g.at[cur.ref].name = h.at[cur.ref].name,
         g.at[cur.ref].completed = h.at[cur.ref].completed,
         NEW s, DeletesAChild(g, s, cur.ref)
  PROVE  Shows(g, s, cur)
<1>1. TaskModel(g, cur.ref) = TaskModel(h, cur.ref)
  BY DEF TaskModel
<1>2. QED
  BY <1>1 DEF Shows

LEMMA NothingRemoved ==
  ASSUME NEW s, ~Removing(s), NEW h, NEW a
  PROVE  DeletesAChild(h, s, a)
BY DEF DeletesAChild

LEMMA ShowsAdded ==
  ASSUME heap \in Heap, IsTable(rows), calls = <<>>, CallsHeld(heap, calls),
         Shows(heap, calls, current), NEW name \in Names, AddChild(current.ref, name)
  PROVE  Shows(heap', calls', current)
<1> DEFINE a == current.ref
<1>1. a \in LiveAddrs(heap) /\ current = TaskModel(heap, a)
  BY DEF Shows
<1>2. PICK id \in RowIds : heap' \in add_child(heap, a, NewTask(id, name, FALSE, a))
  BY DEF AddChild
<1>3. PICK y, m : Joined(heap, heap', a, y, m)
  <2>1. Storage(heap) /\ \E rk : Ranked(heap, rk)
    BY DEF CallsHeld
  <2>2. QED
    BY <1>1, <1>2, <2>1, AddChildJoins
<1>4. /\ a \in LiveAddrs(heap')
      /\ heap'.at[a].id = heap.at[a].id /\ heap'.at[a].name = heap.at[a].name
      /\ heap'.at[a].completed = heap.at[a].completed
  BY <1>1, <1>3 DEF Joined
<1>5. ~Removing(calls')
  BY DEF AddChild, Removing
<1>6. QED
  BY <1>1, <1>4, <1>5, ShownInPlace, NothingRemoved

\* An edit of a child leaves its owner as it is.
LEMMA ShowsEdited ==
  ASSUME heap \in Heap, calls = <<>>, CallsHeld(heap, calls), Shows(heap, calls, current),
         NEW a \in LiveAddrs(heap), a \in ChildAddrs(heap, current.ref),
         NEW t, t.children = heap.at[a].children, heap' = Assign(heap, a, t), calls' = calls
  PROVE  Shows(heap', calls', current)
<1>1. current.ref \in LiveAddrs(heap) /\ current = TaskModel(heap, current.ref)
  BY DEF Shows
<1>2. Owns(heap, current.ref, a)
  BY <1>1, ChildIsOwned
<1>3. a # current.ref
  <2>1. PICK rk : Ranked(heap, rk)
    BY DEF CallsHeld
  <2>2. rk[current.ref] < rk[a] /\ rk[a] \in Nat
    BY <1>1, <1>2, <2>1 DEF Ranked
  <2>3. QED
    BY <2>2
<1>4. heap'.at[current.ref] = heap.at[current.ref] /\ LiveAddrs(heap') = LiveAddrs(heap)
  BY <1>1, <1>3, AssignFacts DEF LiveAddrs
<1>5. ~Removing(calls')
  BY DEF Removing
<1>6. QED
  BY <1>1, <1>4, <1>5, ShownInPlace, NothingRemoved

\* The erase takes a task below the one shown, so that one is neither destroyed
\* nor moved.
LEMMA ShowsErased ==
  ASSUME heap \in Heap, calls \in Seq(Frame), OneKind(calls), CallsHeld(heap, calls),
         Mirrors(rows, heap, calls), Shows(heap, calls, current), RemoveErase, ~astray'
  PROVE  Shows(heap', calls', current)
<1> DEFINE a == calls[1].task
           p == current.ref
           n == Len(calls)
<1>1. /\ Erasing(calls) /\ ~Erased(calls) /\ Removing(calls) /\ Storage(heap)
      /\ n \in Nat \ {0} /\ 1 \in 1 .. n /\ a \in LiveAddrs(heap)
  <2>1. /\ Erasing(calls) /\ Removing(calls) /\ Storage(heap)
        /\ n \in Nat \ {0} /\ a \in LiveAddrs(heap)
    BY EraseFacts
  <2>2. QED
    BY <2>1 DEF Erasing, Erased
<1>2. PICK rk \in [LiveAddrs(heap) -> Nat], q \in LiveAddrs(heap), k \in Nat :
        /\ Ranked(heap, rk)
        /\ k < get_child_count(heap, q)
        /\ a = get_child(heap, q, k) /\ a[2] = k
        /\ Owns(heap, q, a)
        /\ heap' = EraseChild(heap, q, k) /\ Goto("erase", k + 1)
        /\ \A j \in 2 .. n :
             calls[j].task \in LiveAddrs(heap) /\ rk[calls[j].task] <= rk[q]
  BY EraseFacts
<1>3. /\ p \in LiveAddrs(heap) /\ current = TaskModel(heap, p)
      /\ Owns(heap, p, calls[n].task)
  BY <1>1 DEF Shows, DeletesAChild
<1>4. PICK m \in [LiveAddrs(heap') -> LiveAddrs(heap)] :
        /\ \A x \in LiveAddrs(heap') : heap'.at[x] = heap.at[m[x]] /\ m[x][1] = x[1]
        /\ \A x \in LiveAddrs(heap) : rk[x] <= rk[q] =>
             x \in LiveAddrs(heap') /\ m[x] = x
  <2> DEFINE Moved(h, rr, b, g) ==
        \E m \in [LiveAddrs(g) -> LiveAddrs(h)] :
          /\ \A x \in LiveAddrs(g) : g.at[x] = h.at[m[x]] /\ m[x][1] = x[1]
          /\ \A x \in LiveAddrs(h) : rr[x] <= rr[b] => x \in LiveAddrs(g) /\ m[x] = x
  <2>1. ASSUME NEW h \in Heap, NEW rr, NEW b \in LiveAddrs(h), NEW j \in Nat, NEW d, NEW g,
               Storage(h), Ranked(h, rr), j < get_child_count(h, b),
               d = get_child(h, b, j), g = EraseChild(h, b, j)
        PROVE  Moved(h, rr, b, g)
    BY <2>1, EraseMoves
  <2>2. /\ Storage(heap) /\ Ranked(heap, rk) /\ q \in LiveAddrs(heap) /\ k \in Nat
        /\ k < get_child_count(heap, q)
        /\ a = get_child(heap, q, k) /\ heap' = EraseChild(heap, q, k)
    BY <1>1, <1>2
  <2> HIDE DEF Moved
  <2>3. Moved(heap, rk, q, heap')
    BY <2>1, <2>2
  <2>4. QED
    BY <2>3 DEF Moved
<1>5. n = 1 => p = q
  <2>1. SUFFICES ASSUME n = 1 PROVE p = q
    OBVIOUS
  <2>2. heap.at[p].children = a[1] /\ heap.at[q].children = a[1]
    BY <1>2, <1>3, <2>1 DEF Owns
  <2>3. a # head
    BY <1>2, ChildFacts DEF LiveAddrs
  <2>4. heap.at[q].children # Nil
    BY <1>1, <2>2, <2>3, LiveFacts
  <2>5. QED
    BY <1>1, <1>2, <1>3, <2>2, <2>4 DEF Storage
<1>6. rk[p] <= rk[q]
  <2>1. rk[p] \in Nat /\ rk[q] \in Nat
    BY <1>2, <1>3
  <2>2. CASE n = 1
    BY <1>5, <2>1, <2>2
  <2>3. CASE n # 1
    <3>1. n \in 2 .. n
      <4>1. \A i \in Nat \ {0} : i # 1 => i \in 2 .. i
        OBVIOUS
      <4>2. QED
        BY <1>1, <2>3, <4>1
    <3>2. calls[n].task \in LiveAddrs(heap) /\ rk[calls[n].task] <= rk[q]
      BY <1>2, <3>1
    <3>3. rk[p] < rk[calls[n].task] /\ rk[calls[n].task] \in Nat
      BY <1>2, <1>3, <3>2 DEF Ranked
    <3>4. QED
      BY <2>1, <3>2, <3>3
  <2>4. QED
    BY <2>2, <2>3
<1>7. p \in LiveAddrs(heap') /\ m[p] = p /\ heap'.at[p] = heap.at[p]
  BY <1>3, <1>4, <1>6
<1>8. /\ Len(calls') = n /\ calls'[1] = At(a, "erase", k + 1)
      /\ \A j \in 2 .. n : calls'[j] = calls[j]
  BY <1>1, <1>2, GotoStack DEF Erasing
<1>9. DeletesAChild(heap', calls', p)
  <2>1. CASE n = 1
    <3>1. Erased(calls')
      <4>1. calls' # <<>>
        BY <1>1, <1>8
      <4>2. calls'[1].pc = "erase" /\ calls'[1].i = k + 1 /\ k + 1 > 0
        BY <1>8 DEF At
      <4>3. QED
        BY <4>1, <4>2 DEF Erased
    <3>2. QED
      BY <1>8, <2>1, <3>1 DEF DeletesAChild
  <2>2. CASE n # 1
    <3>1. n \in 2 .. n
      <4>1. \A i \in Nat \ {0} : i # 1 => i \in 2 .. i
        OBVIOUS
      <4>2. QED
        BY <1>1, <2>2, <4>1
    <3>2. /\ calls'[n] = calls[n] /\ calls[n].task \in LiveAddrs(heap')
          /\ m[calls[n].task] = calls[n].task
      BY <1>2, <1>4, <1>8, <3>1
    <3>3. Owns(heap', p, calls[n].task)
      BY <1>3, <1>7 DEF Owns, LiveAddrs
    <3>4. QED
      BY <1>8, <3>2, <3>3 DEF DeletesAChild
  <2>3. QED
    BY <2>1, <2>2
<1> HIDE DEF p
<1>10. QED
  BY <1>3, <1>7, <1>9, ShownInPlace DEF p

\* Whatever the library does on behalf of a handler, the task shown stays.
LEMMA ShowsProceed ==
  ASSUME BackendInv, Proceed, running, ~astray'
  PROVE  Shows(heap', calls', current)
<1>1. /\ LoadInv /\ LoadInv' /\ heap \in Heap /\ heap' \in Heap /\ IsTable(rows)
      /\ calls \in Seq(Frame) /\ calls' \in Seq(Frame) /\ OneKind(calls) /\ OneKind(calls')
      /\ ~astray
  <2>1. LoadInv
    BY DEF BackendInv, MirrorInv, HeldInv
  <2>2. LoadInv'
    BY <2>1, LoadInvNext DEF Next, Step
  <2>3. ~astray
    BY <2>1 DEF LoadInv, TypeOK, Proceed, LoadSelect, LoadDescend, LoadReturn, RemoveChild,
                RemoveRow, RemoveErase, RemoveReturn
  <2>4. QED
    BY <2>1, <2>2, <2>3 DEF LoadInv, TypeOK
<1>2. /\ Mirrors(rows, heap, calls) /\ CallsHeld(heap, calls) /\ Shows(heap, calls, current)
      /\ current.ref \in LiveAddrs(heap) /\ current = TaskModel(heap, current.ref)
  BY <1>1 DEF BackendInv, MirrorInv, HeldInv, Shows
<1>3. calls # <<>> /\ Stack(calls) /\ Len(calls) \in Nat \ {0} /\ 1 \in 1 .. Len(calls)
  <2>1. calls # <<>>
    BY DEF Proceed, LoadSelect, LoadDescend, LoadReturn, RemoveChild, RemoveRow, RemoveErase,
           RemoveReturn, InPc
  <2>2. QED
    BY <1>1, <2>1, StackFacts DEF Stack
<1>4. ASSUME LoadSelect \/ LoadDescend \/ LoadReturn
      PROVE  DeletesAChild(heap', calls', current.ref)
  <2>1. \A j \in 1 .. Len(calls) : calls[j].pc \in {"select", "load"}
    BY <1>1, <1>3, <1>4 DEF OneKind, LoadSelect, LoadDescend, LoadReturn, InPc
  <2>2. ~Removing(calls')
    <3>1. CASE LoadSelect
      <4>1. calls'[1] = At(calls[1].task, "load", 0)
        BY <1>1, <1>3, <3>1, GotoStack DEF LoadSelect
      <4>2. calls'[1].pc = "load"
        BY <4>1 DEF At
      <4>3. QED
        BY <4>2 DEF Removing
    <3>2. CASE LoadDescend
      <4>1. calls'[1].pc = "select"
        BY <1>1, <3>2 DEF LoadDescend, Enter, Call, At
      <4>2. QED
        BY <4>1 DEF Removing
    <3>3. CASE LoadReturn
      <4>1. CASE Len(calls) = 1
        <5>1. calls' = <<>>
          BY <3>3, <4>1 DEF LoadReturn, Return
        <5>2. QED
          BY <5>1 DEF Removing
      <4>2. CASE Len(calls) # 1
        <5>1. Len(calls) > 1 /\ 2 \in 1 .. Len(calls)
          <6>1. \A i \in Nat \ {0} : i # 1 => i > 1 /\ 2 \in 1 .. i
            OBVIOUS
          <6>2. QED
            BY <1>3, <4>2, <6>1
        <5>2. calls'[1].pc = calls[2].pc
          BY <1>1, <3>3, <5>1, ReturnStack DEF LoadReturn, At
        <5>3. QED
          BY <2>1, <5>1, <5>2 DEF Removing
      <4>3. QED
        BY <4>1, <4>2
    <3>4. QED
      BY <1>4, <3>1, <3>2, <3>3
  <2>3. QED
    BY <2>2, NothingRemoved
<1>5. CASE LoadSelect
  <2>1. /\ LiveAddrs(heap) \subseteq LiveAddrs(heap')
        /\ heap'.at[current.ref].id = heap.at[current.ref].id
        /\ heap'.at[current.ref].name = heap.at[current.ref].name
        /\ heap'.at[current.ref].completed = heap.at[current.ref].completed
    BY <1>1, <1>2, <1>5, SelectShape
  <2>2. QED
    BY <1>2, <1>4, <1>5, <2>1, ShownInPlace
<1>6. CASE LoadDescend \/ LoadReturn
  BY <1>2, <1>4, <1>6, ShownInPlace DEF LoadDescend, LoadReturn
<1>7. CASE RemoveChild
  <2>1. /\ calls[1].pc = "remove" /\ heap' = heap
        /\ calls' = <<Call(get_child(heap, calls[1].task, calls[1].i), "remove")>> \o calls
    BY <1>7 DEF RemoveChild, InPc, Enter
  <2>2. Owns(heap, current.ref, calls[Len(calls)].task)
    BY <1>2, <1>3, <2>1 DEF Shows, DeletesAChild, Removing, Erased
  <2>3. calls'[Len(calls')] = calls[Len(calls)]
    BY <1>1, <1>3, <2>1
  <2>4. QED
    BY <1>2, <2>1, <2>2, <2>3, ShownInPlace DEF DeletesAChild
<1>8. CASE RemoveRow
  <2>1. calls[1].pc = "remove" /\ heap' = heap /\ Goto("erase", 0)
    BY <1>8 DEF RemoveRow, InPc
  <2>2. Owns(heap, current.ref, calls[Len(calls)].task)
    BY <1>2, <1>3, <2>1 DEF Shows, DeletesAChild, Removing, Erased
  <2>3. /\ Len(calls') = Len(calls) /\ calls'[1] = At(calls[1].task, "erase", 0)
        /\ \A j \in 2 .. Len(calls) : calls'[j] = calls[j]
    BY <1>1, <1>3, <2>1, GotoStack
  <2>4. calls'[Len(calls')].task = calls[Len(calls)].task
    BY <1>3, <2>3 DEF At
  <2>5. QED
    BY <1>2, <2>1, <2>2, <2>4, ShownInPlace DEF DeletesAChild
<1>9. CASE RemoveErase
  BY <1>1, <1>2, <1>9, ShowsErased
<1>10. CASE RemoveReturn
  <2>1. calls[1].pc = "erase" /\ heap' = heap /\ Return
    BY <1>10 DEF RemoveReturn, InPc
  <2>2. CASE Len(calls) = 1
    <3>1. calls' = <<>>
      BY <2>1, <2>2 DEF Return
    <3>2. ~Removing(calls')
      BY <3>1 DEF Removing
    <3>3. QED
      BY <1>2, <2>1, <3>2, ShownInPlace, NothingRemoved
  <2>3. CASE Len(calls) # 1
    <3>1. Len(calls) > 1
      <4>1. \A i \in Nat \ {0} : i # 1 => i > 1
        OBVIOUS
      <4>2. QED
        BY <1>3, <2>3, <4>1
    <3>2. Owns(heap, current.ref, calls[Len(calls)].task)
      BY <1>2, <1>3, <2>1, <2>3 DEF Shows, DeletesAChild, Removing
    <3>3. /\ Len(calls') = Len(calls) - 1
          /\ calls'[1] = At(calls[2].task, calls[2].pc, calls[2].i + 1)
          /\ \A j \in 2 .. Len(calls) - 1 : calls'[j] = calls[j + 1]
      BY <1>1, <2>1, <3>1, ReturnStack
    <3>4. calls'[Len(calls')].task = calls[Len(calls)].task
      <4>1. CASE Len(calls) = 2
        <5>1. Len(calls') = 1
          BY <3>3, <4>1
        <5>2. calls'[1].task = calls[2].task
          BY <3>3 DEF At
        <5>3. calls'[Len(calls')] = calls'[1] /\ calls[Len(calls)] = calls[2]
          BY <4>1, <5>1, Zenon
        <5>4. QED
          BY <5>2, <5>3, Zenon
      <4>2. CASE Len(calls) # 2
        <5>1. Len(calls) - 1 \in 2 .. Len(calls) - 1 /\ (Len(calls) - 1) + 1 = Len(calls)
          <6>1. \A i \in Nat \ {0} : i > 1 /\ i # 2 => i - 1 \in 2 .. i - 1 /\ (i - 1) + 1 = i
            OBVIOUS
          <6>2. QED
            BY <1>3, <3>1, <4>2, <6>1
        <5>2. QED
          BY <3>3, <5>1
      <4>3. QED
        BY <4>1, <4>2
    <3>5. QED
      BY <1>2, <2>1, <3>2, <3>4, ShownInPlace DEF DeletesAChild
  <2>4. QED
    BY <2>2, <2>3
<1>11. QED
  BY <1>5, <1>6, <1>7, <1>8, <1>9, <1>10 DEF Proceed

LEMMA ShowsNext ==
  ASSUME BackendInv, [BackendNext]_allVars, running', ~astray'
  PROVE  Shows(heap', calls', current')
<1>1. /\ IsTable(rows) /\ heap \in Heap /\ astray \in BOOLEAN
      /\ current \in Model
      /\ Ready => running /\ calls = <<>>
      /\ running /\ ~astray => Shows(heap, calls, current) /\ CallsHeld(heap, calls)
  BY DEF BackendInv, MirrorInv, HeldInv, LoadInv, TypeOK, Ready, Idle
<1>2. ASSUME running, ~astray, heap' = heap, calls' = calls, current' = current
      PROVE  Shows(heap', calls', current')
  BY <1>1, <1>2
<1>3. ASSUME running, ~astray, calls' = <<>>, current'.ref \in LiveAddrs(heap'),
             current' = TaskModel(heap', current'.ref)
      PROVE  Shows(heap', calls', current')
  BY <1>3 DEF Shows, DeletesAChild, Removing
<1>4. CASE UNCHANGED allVars
  BY <1>2, <1>4 DEF allVars, vars, backendVars
<1>5. CASE Open
  <2>1. /\ heap' = EmptyHeap /\ calls' = <<Call(head, "select")>>
        /\ current' = TaskModel(EmptyHeap, head)
    BY <1>5 DEF Open, Start
  <2>2. ~Removing(calls')
    BY <2>1 DEF Removing, Call, At
  <2>3. current'.ref = head
    BY <2>1 DEF TaskModel
  <2>4. QED
    BY <2>1, <2>2, <2>3, EmptyHeapModel, NothingRemoved DEF Shows
<1>6. CASE Close
  BY <1>6 DEF Close, Stop
<1>7. CASE InLibrary
  <2>1. running /\ Proceed /\ current' = current
    BY <1>7 DEF InLibrary, backendVars, Proceed, LoadSelect, LoadDescend, LoadReturn, RemoveChild,
                RemoveRow, RemoveErase, RemoveReturn
  <2>2. QED
    BY <2>1, ShowsProceed
<1>8. CASE Opened \/ Deleted
  BY <1>2, <1>8 DEF Opened, Deleted, Idle, vars
<1>9. ASSUME NEW name \in Names, addTask(name)
      PROVE  Shows(heap', calls', current')
  <2>1. /\ running /\ ~astray /\ calls = <<>> /\ AddChild(current.ref, name)
        /\ current' = current
    BY <1>1, <1>9 DEF addTask, AddChild
  <2>2. QED
    BY <1>1, <2>1, ShowsAdded
<1>10. ASSUME NEW model \in tasks, deleteTask(model)
       PROVE  Shows(heap', calls', current')
  <2>1. /\ running /\ ~astray /\ calls = <<>> /\ heap' = heap /\ current' = current
        /\ calls' = <<Call(model.ref, "remove")>> \o calls
    BY <1>1, <1>10 DEF deleteTask, Remove, Enter
  <2>2. /\ current.ref \in LiveAddrs(heap) /\ current = TaskModel(heap, current.ref)
        /\ Owns(heap, current.ref, model.ref)
    BY <1>1, <1>10, <2>1, ModelsAreLive, ChildIsOwned DEF deleteTask, Shows
  <2>3. Len(calls') = 1 /\ calls'[1].task = model.ref
    BY <2>1 DEF Call, At
  <2>4. QED
    BY <2>1, <2>2, <2>3 DEF Shows, DeletesAChild
<1>11. ASSUME NEW model \in tasks, NEW t, t.children = heap.at[model.ref].children, Ready,
              heap' = Assign(heap, model.ref, t), calls' = calls, astray' = astray, current' = current
       PROVE  Shows(heap', calls', current')
  BY <1>1, <1>11, ModelsAreLive, ShowsEdited
<1>12. ASSUME NEW model \in tasks, Ready
       PROVE  heap.at[model.ref] \in Task
  BY <1>1, <1>12, ModelsAreLive DEF LiveAddrs, Heap
<1>13. ASSUME NEW model \in tasks, NEW name \in Names, setTaskName(model, name)
       PROVE  Shows(heap', calls', current')
  <2> DEFINE t == [heap.at[model.ref] EXCEPT !.name = name]
  <2>1. t.children = heap.at[model.ref].children
    BY <1>12, <1>13 DEF setTaskName, Task
  <2>2. /\ Ready /\ heap' = Assign(heap, model.ref, t) /\ calls' = calls
        /\ astray' = astray /\ current' = current
    BY <1>13 DEF setTaskName, SetTaskName
  <2> HIDE DEF t
  <2>3. QED
    BY <1>11, <2>1, <2>2
<1>14. ASSUME NEW model \in tasks, NEW completed \in BOOLEAN, setTaskCompleted(model, completed)
       PROVE  Shows(heap', calls', current')
  <2> DEFINE t == [heap.at[model.ref] EXCEPT !.completed = ~heap.at[model.ref].completed]
  <2>1. t.children = heap.at[model.ref].children
    BY <1>12, <1>14 DEF setTaskCompleted, Task
  <2>2. /\ Ready /\ heap' = Assign(heap, model.ref, t) /\ calls' = calls
        /\ astray' = astray /\ current' = current
    BY <1>14 DEF setTaskCompleted, ToggleTaskCompleted
  <2> HIDE DEF t
  <2>3. QED
    BY <1>11, <2>1, <2>2
<1>15. ASSUME NEW model \in tasks, setCurrent(model)
       PROVE  Shows(heap', calls', current')
  <2>1. /\ Ready /\ current' = TaskModel(heap, model.ref) /\ UNCHANGED vars
    BY <1>15 DEF setCurrent
  <2>2. model.ref \in LiveAddrs(heap) /\ current'.ref = model.ref
    BY <2>1, ModelsAreLive DEF TaskModel
  <2>3. QED
    BY <1>1, <1>3, <2>1, <2>2 DEF vars
<1>16. CASE goBack
  <2> DEFINE q == heap.at[current.ref].parent
  <2>1. /\ Ready /\ ~astray /\ PointsToOwner(heap, current.ref)
        /\ heap' = heap /\ calls' = calls
    BY <1>1, <1>16 DEF goBack
  <2>2. q \in LiveAddrs(heap) /\ Alive(heap, q)
    BY <2>1 DEF PointsToOwner, Owns, LiveAddrs
  <2>3. current' = TaskModel(heap, q)
    BY <1>16, <2>2 DEF goBack
  <2> HIDE DEF q
  <2>4. current'.ref = q
    BY <2>3 DEF TaskModel
  <2>5. QED
    BY <1>1, <1>3, <2>1, <2>2, <2>3, <2>4
<1>17. CASE goBackLost
  <2>1. Ready /\ UNCHANGED vars
    BY <1>17 DEF goBackLost, Lost
  <2>2. PICK a \in LiveAddrs(heap) : current' = TaskModel(heap, a)
    BY <1>17 DEF goBackLost
  <2>3. current'.ref = a
    BY <2>2 DEF TaskModel
  <2>4. QED
    BY <1>1, <1>3, <2>1, <2>2, <2>3 DEF vars
<1>18. ASSUME NEW name \in Names, addTaskLost(name)
       PROVE  FALSE
  BY <1>18 DEF addTaskLost
<1>19. QED
  BY <1>4, <1>5, <1>6, <1>7, <1>8, <1>9, <1>10, <1>13, <1>14, <1>15, <1>16, <1>17, <1>18
     DEF BackendNext

-----------------------------------------------------------------------------
(* The inductive invariant, and what it carries. *)

LEMMA BackendInvInit == BackendInit => BackendInv
<1>1. SUFFICES ASSUME BackendInit PROVE BackendInv
  OBVIOUS
<1>2. MirrorInv
  BY <1>1, MirrorInvInit DEF BackendInit
<1>3. ~running /\ calls = <<>>
  BY <1>1 DEF BackendInit, Init
<1>4. QED
  BY <1>1, <1>2, <1>3, EmptyHeapModel DEF BackendInit, BackendInv, Ready, Idle

LEMMA BackendInvNext ==
  ASSUME BackendInv, [BackendNext]_allVars
  PROVE  BackendInv'
BY BackendMirrorInv, WindowType, ShowsNext DEF BackendInv

LEMMA BackendInvariant == BackendSpec => []BackendInv
<1>1. BackendInv /\ [BackendNext]_allVars => BackendInv'
  BY BackendInvNext
<1>2. QED
  BY <1>1, BackendInvInit, PTL DEF BackendSpec

\* Whatever the user does, in whatever order, m_current and the models of the
\* list stay references into the process's memory, good or not.
THEOREM BackendTypeCorrect == BackendSpec => []BackendTypeOK
<1>1. BackendInv => BackendTypeOK
  BY DEF BackendInv, MirrorInv, HeldInv, LoadInv, BackendTypeOK
<1>2. QED
  BY <1>1, BackendInvariant, PTL

\* The task the window shows is where m_current points, however many children
\* were added to it and deleted below it: only going back through a misleading
\* parent pointer can lose it.
THEOREM CurrentStays == BackendSpec => []CurrentStaysPut
<1>1. BackendInv => CurrentStaysPut
  BY DEF BackendInv, Shows, CurrentStaysPut, LiveAddrs
<1>2. QED
  BY <1>1, BackendInvariant, PTL

\* Between handlers the list holds exactly one model for each child of the task
\* shown, with the child's fields: also after going back through a misleading
\* pointer, when the task shown is not the one the user came from.
THEOREM ListIsTheTasks == BackendSpec => []ListMirrorsTasks
<1>1. BackendInv => ListMirrorsTasks
  BY DEF BackendInv, ListMirrorsTasks
<1>2. QED
  BY <1>1, BackendInvariant, PTL

\* Between handlers the list is what the table holds under the task shown.
THEOREM ListIsTheTable == BackendSpec => []ListMirrorsTable
<1>1. BackendInv => ListMirrorsTable
  <2>1. SUFFICES ASSUME BackendInv, Ready, ~astray
                 PROVE  {<<m.id, m.name, m.completed>> : m \in tasks} = RowsUnder(current.id)
    BY DEF ListMirrorsTable
  <2> DEFINE a == current.ref
             C == ChildAddrs(heap, a)
  <2>2. a \in LiveAddrs(heap) /\ current = TaskModel(heap, a)
    BY <2>1, CurrentIsLive
  <2>3. TasksUnder(a) = RowsUnder(heap.at[a].id)
    <3>1. running /\ Idle
      BY <2>1 DEF Ready, Idle
    <3>2. heap \in Heap /\ Mirrors(rows, heap, calls)
      BY <2>1, <3>1 DEF BackendInv, MirrorInv, HeldInv, LoadInv, TypeOK
    <3>3. QED
      BY <2>2, <3>1, <3>2, MirrorsTheTable
  <2>4. current.id = heap.at[a].id
    BY <2>2 DEF TaskModel
  <2>5. tasks = {TaskModel(heap, c) : c \in C}
    BY <2>1 DEF BackendInv, loadTasks
  <2>6. TasksUnder(a) = {<<heap.at[c].id, heap.at[c].name, heap.at[c].completed>> : c \in C}
    BY DEF TasksUnder
  <2>7. \A c : /\ TaskModel(heap, c).id = heap.at[c].id
               /\ TaskModel(heap, c).name = heap.at[c].name
               /\ TaskModel(heap, c).completed = heap.at[c].completed
    BY DEF TaskModel
  <2> HIDE DEF a, C
  <2>8. {<<m.id, m.name, m.completed>> : m \in tasks} = TasksUnder(a)
    BY <2>5, <2>6, <2>7
  <2>9. QED
    BY <2>3, <2>4, <2>8
<1>2. QED
  BY <1>1, BackendInvariant, PTL

\* The window is a caller TaskTree can serve: every reference its handlers pass
\* is of a live task, until going back has followed a misleading pointer.
THEOREM PassesLiveReferences == BackendSpec => OnlyLiveReferences
<1>1. BackendInv /\ [BackendNext]_allVars => [Next \/ astray']_vars
  <2>1. SUFFICES ASSUME BackendInv, [BackendNext]_allVars, ~astray'
                 PROVE  [Next]_vars
    OBVIOUS
  <2>2. CASE goBack
    BY <2>1, <2>2 DEF goBack, vars, BackendInv, MirrorInv, HeldInv, LoadInv, TypeOK
  <2>3. ASSUME NEW name \in Names, addTaskLost(name)
        PROVE  FALSE
    <3>1. Ready /\ ~Alive(heap, current.ref) /\ ~astray
      BY <2>1, <2>3 DEF addTaskLost, Lost
    <3>2. QED
      BY <2>1, <3>1, CurrentIsLive DEF LiveAddrs
  <2>4. QED
    BY <2>1, <2>2, <2>3, HandlersAreCalls
<1>2. BackendInit => Init
  BY DEF BackendInit
<1>3. QED
  BY <1>1, <1>2, BackendInvariant, PTL DEF BackendSpec, OnlyLiveReferences
=============================================================================
