------------------------------ MODULE TaskTree ------------------------------
(***************************************************************************)
(* tasktree::TaskTree (src/tasktree/tasktree.cpp) in one process on the    *)
(* tasks table.  The recursive functions load_child_tasks and remove run   *)
(* one statement, or one pass of a loop, per step on an explicit stack of  *)
(* calls, so the process can end and another can write between any two.    *)
(* The caller is any program that uses the public interface on references  *)
(* to live tasks, as test/test.cpp does.  A statement that fails throws;   *)
(* it changes nothing, so only the throw out of remove (RemoveThrows) and  *)
(* out of the constructor (Stop) are steps.                                *)
(***************************************************************************)
EXTENDS TaskHeap, Sequences

CONSTANT
  MaxTasks  \* bound: the tasks in memory, those whose row is gone included

VARIABLES
  rows,     \* the tasks table, which outlives the process
  running,  \* a TaskTree object exists
  heap,     \* the tasks in memory
  calls,    \* the active calls of load_child_tasks and remove, innermost first
  astray    \* history: a parent pointer that is not the owner was followed

vars == <<rows, running, heap, calls, astray>>

(***************************************************************************)
(* pc: "select" before the SELECT of load_child_tasks, "load" in its loop  *)
(* over the children; "remove" in the loop of remove over the children,    *)
(* "erase" in its loop over the parent's children after the DELETE.  i is  *)
(* the index of the loop.                                                  *)
(***************************************************************************)
Frame == [task : Addr, pc : {"select", "load", "remove", "erase"}, i : Nat]

At(task, pc, i) == [task |-> task, pc |-> pc, i |-> i]
Call(task, pc) == At(task, pc, 0)

Idle == running /\ calls = <<>>
InPc(pc) == calls # <<>> /\ calls[1].pc = pc
Loading == calls # <<>> /\ calls[1].pc \in {"select", "load"}

Goto(pc, i) == calls' = [calls EXCEPT ![1] = At(calls[1].task, pc, i)]
Enter(call) == calls' = <<call>> \o calls

\* Mutant of Return: the caller's loop does not go to the next index.
ReturnToSameIndex == calls' = Tail(calls)

\* The innermost call returns; its caller's loop goes to the next index.
Return ==
  calls' = IF Len(calls) = 1 THEN <<>>
           ELSE [Tail(calls) EXCEPT ![1] = At(calls[2].task, calls[2].pc, calls[2].i + 1)]

Init ==
  /\ rows = EmptyTable
  /\ running = FALSE
  /\ heap = EmptyHeap
  /\ calls = <<>>
  /\ astray = FALSE

-----------------------------------------------------------------------------
\* TaskTree::TaskTree: the table exists once it ran, and the load begins.
Start ==
  /\ ~running
  /\ running' = TRUE
  /\ heap' = EmptyHeap
  /\ calls' = <<Call(head, "select")>>
  /\ UNCHANGED <<rows, astray>>

\* The object goes: destruction, exit, a kill, a segmentation fault, an
\* exception nobody catches (one out of the constructor included).
Stop ==
  /\ running
  /\ running' = FALSE
  /\ heap' = EmptyHeap
  /\ calls' = <<>>
  /\ UNCHANGED <<rows, astray>>

\* Mutant of Filled: the children get their parent's parent.
FilledUnderGrandparent(h, a, ids, n, b, room) ==
  [at  |-> [x \in Addr |->
              IF x = a THEN [h.at[x] EXCEPT !.children = b]
              ELSE IF x[1] = b /\ x[2] < n
              THEN NewTask(ids[x[2]], rows[ids[x[2]]].name,
                           rows[ids[x[2]]].completed, h.at[a].parent)
              ELSE h.at[x]],
   len |-> [h.len EXCEPT ![b] = n],
   cap |-> [h.cap EXCEPT ![b] = room]]

\* Mutant of Filled: the column with the mark is not read.
FilledUnmarked(h, a, ids, n, b, room) ==
  [at  |-> [x \in Addr |->
              IF x = a THEN [h.at[x] EXCEPT !.children = b]
              ELSE IF x[1] = b /\ x[2] < n
              THEN NewTask(ids[x[2]], rows[ids[x[2]]].name, FALSE, a)
              ELSE h.at[x]],
   len |-> [h.len EXCEPT ![b] = n],
   cap |-> [h.cap EXCEPT ![b] = room]]

\* The vector of the task at a after n push_backs into it when it was empty:
\* the tasks ids[0], ids[1], ... in buffer b, with the room n calls grow it to.
Filled(h, a, ids, n, b, room) ==
  LET loaded(i) == NewTask(i, rows[i].name, rows[i].completed, a)
  IN  [at  |-> [x \in Addr |->
                  IF x = a THEN [h.at[x] EXCEPT !.children = b]
                  ELSE IF x[1] = b /\ x[2] < n THEN loaded(ids[x[2]])
                  ELSE h.at[x]],
       len |-> [h.len EXCEPT ![b] = n],
       cap |-> [h.cap EXCEPT ![b] = room]]

GrownTo(room, n) == n <= room /\ room < 2 * n /\ \E k \in 0 .. n : room = 2 ^ k

\* load_child_tasks: the SELECT, whose rows all become children before any of
\* them is descended into.
LoadSelect ==
  /\ InPc("select")
  /\ LET a   == calls[1].task
         ids == ChildRows(rows, heap.at[a].id)
         n   == Cardinality(ids)
     IN  \/ ids = {} /\ heap' = heap
         \/ /\ ids # {}
            /\ \E f \in ScanOrders(ids), b \in FreeBufs(heap), room \in 1 .. MaxLen :
                 GrownTo(room, n) /\ heap' = Filled(heap, a, f, n, b, room)
  /\ Goto("load", 0)
  /\ UNCHANGED <<rows, running, astray>>

LoadDescend ==
  /\ InPc("load")
  /\ calls[1].i < get_child_count(heap, calls[1].task)
  /\ Enter(Call(get_child(heap, calls[1].task, calls[1].i), "select"))
  /\ UNCHANGED <<rows, running, heap, astray>>

\* Mutant of LoadReturn: the loop over the children stops before the last.
LoadReturnBeforeLast ==
  /\ InPc("load")
  /\ calls[1].i + 1 >= get_child_count(heap, calls[1].task)
  /\ Return
  /\ UNCHANGED <<rows, running, heap, astray>>

LoadReturn ==
  /\ InPc("load")
  /\ calls[1].i >= get_child_count(heap, calls[1].task)
  /\ Return
  /\ UNCHANGED <<rows, running, heap, astray>>

-----------------------------------------------------------------------------
\* TaskTree::add_child on the task at a.
AddChild(a, name) ==
  /\ Idle
  /\ Cardinality(LiveAddrs(heap)) <= MaxTasks
  /\ \E id \in RowIds :
       /\ IsNewRowid(rows, id)
       /\ rows' = Insert(rows, id, heap.at[a].id, name)
       /\ heap' \in add_child(heap, a, NewTask(id, name, FALSE, a))
  /\ UNCHANGED <<running, calls, astray>>

\* TaskTree::remove is called on the task at a.
Remove(a) ==
  /\ Idle
  /\ heap.at[a].id # 0
  /\ Enter(Call(a, "remove"))
  /\ UNCHANGED <<rows, running, heap, astray>>

\* Mutant of RemoveChild: the loop runs one index too far.
RemoveOneChildTooMany ==
  /\ InPc("remove")
  /\ calls[1].i <= get_child_count(heap, calls[1].task)
  /\ Enter(Call(get_child(heap, calls[1].task, calls[1].i), "remove"))
  /\ UNCHANGED <<rows, running, heap, astray>>

\* remove(task.get_child(i)), the count read again each time round.
RemoveChild ==
  /\ InPc("remove")
  /\ calls[1].i < get_child_count(heap, calls[1].task)
  /\ Enter(Call(get_child(heap, calls[1].task, calls[1].i), "remove"))
  /\ UNCHANGED <<rows, running, heap, astray>>

\* Mutant of RemoveRow: the rows whose parent it is go with it.
RemoveRowAndChildren ==
  /\ InPc("remove")
  /\ calls[1].i >= get_child_count(heap, calls[1].task)
  /\ LET id == heap.at[calls[1].task].id
     IN  rows' = [j \in DOMAIN rows \ ({id} \cup ChildRows(rows, id)) |-> rows[j]]
  /\ Goto("erase", 0)
  /\ UNCHANGED <<running, heap, astray>>

\* DELETE FROM tasks WHERE id = ?, with whatever id a dead slot shows.
RemoveRow ==
  /\ InPc("remove")
  /\ calls[1].i >= get_child_count(heap, calls[1].task)
  /\ \E id \in IF Alive(heap, calls[1].task) THEN {heap.at[calls[1].task].id}
               ELSE RowIds :
       rows' = Delete(rows, id)
  /\ Goto("erase", 0)
  /\ UNCHANGED <<running, heap, astray>>

\* The DELETE fails and the exception leaves every active call of remove.
RemoveThrows ==
  /\ InPc("remove")
  /\ calls[1].i >= get_child_count(heap, calls[1].task)
  /\ calls' = <<>>
  /\ UNCHANGED <<rows, running, heap, astray>>

\* Mutant of Matches: the child at the first index is never looked at.
MatchesAfterFirst(h, q, a, i) ==
  {k \in i + 1 .. get_child_count(h, q) - 1 : h.at[get_child(h, q, k)].id = h.at[a].id}

\* The indices from i on, among the children of the task at q, of
\* tasks with the id of the task at a.
Matches(h, q, a, i) ==
  {k \in i .. get_child_count(h, q) - 1 : h.at[get_child(h, q, k)].id = h.at[a].id}

(***************************************************************************)
(* The loop over task.parent's children.  The reference task still names   *)
(* its slot after the erase, so the rest of the loop reads id and parent   *)
(* of whatever moved in there; a slot nothing moved into keeps its bytes,  *)
(* and the parent read there has no child left to look at.                 *)
(***************************************************************************)
RemoveErase ==
  /\ InPc("erase")
  /\ LET a == calls[1].task
         q == heap.at[a].parent
     IN  /\ Alive(heap, a) /\ q # Nil
         /\ \E k \in Matches(heap, q, a, calls[1].i) :
              /\ \A j \in Matches(heap, q, a, calls[1].i) : k <= j
              /\ heap' = EraseChild(heap, q, k)
              /\ Goto("erase", k + 1)
         /\ astray' = (astray \/ ~PointsToOwner(heap, a))
  /\ UNCHANGED <<rows, running>>

RemoveReturn ==
  /\ InPc("erase")
  /\ LET a == calls[1].task
         q == heap.at[a].parent
     IN  \/ ~Alive(heap, a) /\ astray' = astray
         \/ /\ Alive(heap, a) /\ q # Nil
            /\ Matches(heap, q, a, calls[1].i) = {}
            /\ astray' = (astray \/ ~PointsToOwner(heap, a))
  /\ Return
  /\ UNCHANGED <<rows, running, heap>>

\* TaskTree::set_task_name and TaskTree::toggle_task_completed.
SetTaskName(a, name) ==
  /\ Idle
  /\ heap.at[a].id # 0
  /\ rows' = UpdateName(rows, heap.at[a].id, name)
  /\ heap' = Assign(heap, a, [heap.at[a] EXCEPT !.name = name])
  /\ UNCHANGED <<running, calls, astray>>

ToggleTaskCompleted(a) ==
  /\ Idle
  /\ rows' = UpdateCompleted(rows, heap.at[a].id, ~heap.at[a].completed)
  /\ heap' = Assign(heap, a, [heap.at[a] EXCEPT !.completed = ~heap.at[a].completed])
  /\ UNCHANGED <<running, calls, astray>>

-----------------------------------------------------------------------------
\* What the process does by itself once a call is made.
Proceed ==
  \/ LoadSelect
  \/ LoadDescend
  \/ LoadReturn
  \/ RemoveChild
  \/ RemoveRow
  \/ RemoveErase
  \/ RemoveReturn

Step == Proceed \/ RemoveThrows

\* What a caller asks for, of a task it can reach.
Request ==
  \E a \in LiveAddrs(heap) :
    \/ \E name \in Names : AddChild(a, name)
    \/ Remove(a)
    \/ \E name \in Names : SetTaskName(a, name)
    \/ ToggleTaskCompleted(a)

Next == Start \/ Stop \/ Step \/ Request

Spec == Init /\ [][Next]_vars

\* Nothing blocks inside a call: it runs on the caller's thread to its end.
FairSpec == Spec /\ WF_vars(Step)

-----------------------------------------------------------------------------
\* Every variable has its type; there is no memory and no call when no
\* TaskTree exists.
TypeOK ==
  /\ IsTable(rows)
  /\ running \in BOOLEAN
  /\ heap \in Heap
  /\ calls \in Seq(Frame)
  /\ astray \in BOOLEAN
  /\ ~running => calls = <<>> /\ heap = EmptyHeap

\* While the tree is being loaded, and so when the constructor returns, every
\* parent pointer leads to the task that holds the child: load_child_tasks
\* descends only into a vector that has all its elements.
LoadPointersRight ==
  Loading => \A a \in LiveAddrs(heap) \ {head} : PointsToOwner(heap, a)

\* What a task's vector should hold, by the table.
RowsUnder(id) == {<<i, rows[i].name, rows[i].completed>> : i \in ChildRows(rows, id)}
TasksUnder(a) == {<<heap.at[c].id, heap.at[c].name, heap.at[c].completed>> :
                    c \in ChildAddrs(heap, a)}

\* Between calls, a tree in which no misleading parent pointer was followed is
\* the table: below every task in memory are exactly the rows with its id as
\* parent, with the same names and states.  It survives a remove that throws
\* half-way.
MemoryMirrorsTable ==
  Idle /\ ~astray => \A a \in LiveAddrs(heap) : TasksUnder(a) = RowsUnder(heap.at[a].id)

\* No two tasks in memory have the same id.
IdsUnique ==
  ~astray => \A a, b \in LiveAddrs(heap) : heap.at[a].id = heap.at[b].id => a = b

\* The Task& each active call holds across its recursion names a task that is
\* still there, up to the erase that ends it.
CallsHoldLiveTasks ==
  ~astray => \A j \in 1 .. Len(calls) :
               calls[j].pc # "erase" => Alive(heap, calls[j].task)

\* A row's parent is older than the row: no chain of rows is a cycle, and no
\* row waits for a parent id that is still to be handed out.
ParentsOlder == ~astray => \A i \in DOMAIN rows : rows[i].parent < i

\* An id given to a new task is nobody's parent yet: rows left behind by an
\* incomplete remove are never adopted by a later task.
NoAdoption ==
  [][~astray => \A i \in DOMAIN rows' \ DOMAIN rows : ChildRows(rows, i) = {}]_vars

\* A call that was made returns, throws, or ends with the process.
CallsReturn == calls # <<>> ~> calls = <<>>

\* The parent of every row is a row, or the head: test RemoveTaskWithChild.
NoOrphans == Idle => \A i \in DOMAIN rows : rows[i].parent \in DOMAIN rows \cup {0}

\* remove removes the "task from database and memory" (tasktree.hpp:47).
RemovedFromBoth == Idle => \A a \in LiveAddrs(heap) \ {head} : heap.at[a].id \in DOMAIN rows
=============================================================================
