--------------------------- MODULE TaskTreeProofs ---------------------------
(***************************************************************************)
(* Theorems about TaskTree, for every number of tasks, names and buffers,  *)
(* that speak of memory and the stack of calls only and so hold whatever   *)
(* the table says: the types, why the parent pointers of a load are right, *)
(* and why the calls keep their tasks.                                     *)
(***************************************************************************)
EXTENDS TaskTree, FiniteSetTheorems, SequenceTheorems, TLAPS

-----------------------------------------------------------------------------
(* What the statements leave is a table. *)

LEMMA TableTypes ==
  ASSUME NEW t, IsTable(t), NEW id \in RowIds, NEW name \in Names,
         NEW parent \in RowIds \cup {0}, NEW completed \in BOOLEAN
  PROVE  /\ IsTable(Insert(t, id, parent, name))
         /\ IsTable(UpdateName(t, id, name))
         /\ IsTable(UpdateCompleted(t, id, completed))
<1>1. IsTable(Insert(t, id, parent, name))
  BY DEF IsTable, Insert, Row
<1>2. IsTable(UpdateName(t, id, name))
  BY DEF IsTable, UpdateName, Row
<1>3. IsTable(UpdateCompleted(t, id, completed))
  BY DEF IsTable, UpdateCompleted, Row
<1>4. QED
  BY <1>1, <1>2, <1>3

LEMMA DeleteType == ASSUME NEW t, IsTable(t), NEW id PROVE IsTable(Delete(t, id))
BY DEF IsTable, Delete

LEMMA AfterWriteType ==
  ASSUME NEW t, IsTable(t), NEW u \in AfterWrite(t)
  PROVE  IsTable(u)
<1>1. CASE \E id \in {i \in RowIds : IsNewRowid(t, i)}, parent \in RowIds \cup {0},
              name \in Names : u = Insert(t, id, parent, name)
  BY <1>1, TableTypes
<1>2. CASE \E id \in RowIds : u = Delete(t, id)
  BY <1>2, DeleteType
<1>3. CASE \E id \in RowIds, name \in Names : u = UpdateName(t, id, name)
  BY <1>3, TableTypes
<1>4. CASE \E id \in RowIds, completed \in BOOLEAN : u = UpdateCompleted(t, id, completed)
  BY <1>4 DEF IsTable, UpdateCompleted, Row
<1>5. QED
  BY <1>1, <1>2, <1>3, <1>4 DEF AfterWrite

-----------------------------------------------------------------------------
(* Types of what the heap operators return. *)

LEMMA BoundFacts == MaxId \in Nat /\ MaxId >= 1 /\ MaxLen \in Nat /\ MaxLen >= 1
BY MaxIdAssumption, LengthAssumption

LEMMA BlankType == Blank \in Task
BY NamesAssumption DEF Blank, NewTask, Task

LEMMA BlankChildless == Blank.children = Nil
BY DEF Blank, NewTask

LEMMA EmptyHeapType == EmptyHeap \in Heap
BY BlankType, BoundFacts DEF EmptyHeap, Heap

LEMMA CountType ==
  ASSUME NEW h \in Heap, NEW a \in Addr
  PROVE  /\ get_child_count(h, a) \in 0 .. MaxLen
         /\ \A i \in Nat : i < get_child_count(h, a) =>
              h.at[a].children \in Bufs /\ i \in Slots /\ get_child(h, a, i) \in Addr
BY BoundFacts, BlocksAssumption DEF Heap, Task, get_child_count, get_child, Addr, Slots

LEMMA AddChildType ==
  ASSUME NEW h \in Heap, NEW a \in Addr, NEW t \in Task
  PROVE  add_child(h, a, t) \subseteq Heap
<1> DEFINE child == [t EXCEPT !.parent = a]
           n == get_child_count(h, a)
           old == h.at[a].children
<1>1. child \in Task
  BY DEF Task
<1>2. n \in 0 .. MaxLen
  BY CountType
<1>3. ASSUME old # Nil, n < h.cap[old]
      PROVE  PushInPlace(h, a, child) \in Heap
  <2>1. old \in Bufs /\ n = h.len[old] /\ n + 1 \in 0 .. MaxLen /\ n \in Slots
    BY <1>2, <1>3, BoundFacts DEF Heap, Task, get_child_count, Slots
  <2>2. <<old, n>> \in Addr
    BY <2>1 DEF Addr
  <2>3. QED
    BY <1>1, <2>1, <2>2 DEF PushInPlace, Heap
<1>4. ASSUME NEW b \in Bufs, 2 * n <= MaxLen
      PROVE  PushMoving(h, a, child, b) \in Heap
  <2>1. n + 1 \in 0 .. MaxLen /\ (IF n = 0 THEN 1 ELSE 2 * n) \in 0 .. MaxLen
    BY <1>2, <1>4, BoundFacts
  <2>2. ASSUME NEW x \in Addr, x[1] = b, x[2] < n
        PROVE  h.at[<<old, x[2]>>] \in Task
    <3>1. x[2] \in Nat /\ n > 0
      BY <1>2, <2>2, BlocksAssumption, BoundFacts DEF Addr, Slots, head
    <3>2. QED
      BY <2>2, <3>1, CountType DEF Heap, get_child
  <2>3. PushMoving(h, a, child, b).at \in [Addr -> Task]
    BY <1>1, <2>2, BlankType DEF PushMoving, Heap, Task
  <2>4. /\ PushMoving(h, a, child, b).len \in [Bufs -> 0 .. MaxLen]
        /\ PushMoving(h, a, child, b).cap \in [Bufs -> 0 .. MaxLen]
    BY <2>1, BoundFacts DEF PushMoving, Heap
  <2>5. QED
    BY <2>3, <2>4 DEF PushMoving, Heap
<1>5. QED
  BY <1>3, <1>4 DEF add_child, FreeBufs

LEMMA EraseChildType ==
  ASSUME NEW h \in Heap, NEW a \in Addr, NEW k \in Nat, k < get_child_count(h, a)
  PROVE  EraseChild(h, a, k) \in Heap
<1> DEFINE b == h.at[a].children
           last == h.len[b] - 1
<1>1. b \in Bufs /\ last \in 0 .. MaxLen /\ last < MaxLen
  BY CountType, BoundFacts, BlocksAssumption DEF get_child_count, Heap
<1>2. ASSUME NEW x \in Addr, x[1] = b, k <= x[2], x[2] < last
      PROVE  <<b, x[2] + 1>> \in Addr
  BY <1>1, <1>2, BoundFacts, BlocksAssumption DEF Addr, Slots, head
<1>3. EraseChild(h, a, k).at \in [Addr -> Task]
  BY <1>2, BlankType DEF EraseChild, Heap
<1>4. /\ EraseChild(h, a, k).len \in [Bufs -> 0 .. MaxLen]
      /\ EraseChild(h, a, k).cap \in [Bufs -> 0 .. MaxLen]
  BY <1>1, BoundFacts DEF EraseChild, Heap
<1>5. QED
  BY <1>3, <1>4 DEF EraseChild, Heap

LEMMA FilledType ==
  ASSUME IsTable(rows), NEW h \in Heap, NEW a \in Addr, NEW n \in 0 .. MaxLen,
         NEW f \in [0 .. n - 1 -> DOMAIN rows], NEW b \in Bufs, NEW room \in 0 .. MaxLen
  PROVE  Filled(h, a, f, n, b, room) \in Heap
<1>1. ASSUME NEW x \in Addr, x[1] = b, x[2] < n
      PROVE  NewTask(f[x[2]], rows[f[x[2]]].name, rows[f[x[2]]].completed, a) \in Task
  <2>1. x[2] \in 0 .. n - 1
    BY <1>1, BlocksAssumption, BoundFacts DEF Addr, Slots, head
  <2>2. f[x[2]] \in RowIds /\ rows[f[x[2]]] \in Row
    BY <2>1 DEF IsTable
  <2>3. QED
    BY <2>2 DEF NewTask, Task, Row
<1>2. h.at \in [Addr -> Task] /\ [h.at[a] EXCEPT !.children = b] \in Task
  BY DEF Heap, Task
<1>3. Filled(h, a, f, n, b, room).at \in [Addr -> Task]
  BY <1>1, <1>2 DEF Filled
<1>4. QED
  BY <1>3 DEF Filled, Heap

LEMMA ScanOrderType ==
  ASSUME IsTable(rows), NEW id
  PROVE  /\ Cardinality(ChildRows(rows, id)) \in Nat
         /\ \A f \in ScanOrders(ChildRows(rows, id)) :
              f \in [0 .. Cardinality(ChildRows(rows, id)) - 1 -> DOMAIN rows]
<1>1. IsFiniteSet(RowIds)
  BY FS_Interval, BoundFacts DEF RowIds
<1>2. ChildRows(rows, id) \subseteq RowIds /\ ChildRows(rows, id) \subseteq DOMAIN rows
  BY DEF ChildRows, IsTable
<1>3. IsFiniteSet(ChildRows(rows, id))
  BY <1>1, <1>2, FS_Subset
<1>4. QED
  BY <1>2, <1>3, FS_CardinalityType DEF ScanOrders

(* Types of the stack of calls. *)

LEMMA EmptyStackType == <<>> \in Seq(Frame)
OBVIOUS

LEMMA AtType ==
  ASSUME NEW a \in Addr, NEW pc \in {"select", "load", "remove", "erase"}, NEW i \in Nat
  PROVE  At(a, pc, i) \in Frame
BY DEF At, Frame

LEMMA TopType ==
  ASSUME calls \in Seq(Frame), calls # <<>>
  PROVE  /\ Len(calls) \in Nat \ {0}
         /\ calls[1] \in Frame
         /\ calls[1].task \in Addr
         /\ calls[1].i \in Nat
         /\ Len(calls) # 1 =>
              /\ calls[2] \in Frame
              /\ Tail(calls) \in Seq(Frame)
              /\ Len(Tail(calls)) \in Nat \ {0}
<1>1. Len(calls) \in Nat \ {0} /\ calls \in [1 .. Len(calls) -> Frame]
  OBVIOUS
<1>2. calls[1] \in Frame
  BY <1>1
<1>3. Len(calls) # 1 => calls[2] \in Frame
  BY <1>1
<1>4. Len(calls) # 1 => Tail(calls) \in Seq(Frame) /\ Len(Tail(calls)) \in Nat \ {0}
  BY <1>1
<1>5. QED
  BY <1>1, <1>2, <1>3, <1>4 DEF Frame

LEMMA GotoType ==
  ASSUME calls \in Seq(Frame), calls # <<>>, NEW i \in Nat,
         NEW pc \in {"select", "load", "remove", "erase"}, Goto(pc, i)
  PROVE  calls' \in Seq(Frame)
BY TopType, AtType DEF Goto

LEMMA EnterType ==
  ASSUME calls \in Seq(Frame), NEW a \in Addr,
         NEW pc \in {"select", "load", "remove", "erase"}, Enter(Call(a, pc))
  PROVE  calls' \in Seq(Frame)
<1>1. Call(a, pc) \in Frame
  BY AtType DEF Call
<1>2. QED
  BY <1>1 DEF Enter

LEMMA ReturnType ==
  ASSUME calls \in Seq(Frame), calls # <<>>, Return
  PROVE  calls' \in Seq(Frame)
<1>1. CASE Len(calls) = 1
  BY <1>1 DEF Return
<1>2. CASE Len(calls) # 1
  <2>1. At(calls[2].task, calls[2].pc, calls[2].i + 1) \in Frame
    <3>1. calls[2] \in Frame
      BY <1>2, TopType
    <3>2. QED
      BY <3>1 DEF Frame, At
  <2>2. ASSUME NEW s \in Seq(Frame), NEW e \in Frame
        PROVE  [s EXCEPT ![1] = e] \in Seq(Frame)
    <3>1. Len(s) \in Nat /\ s \in [1 .. Len(s) -> Frame]
      OBVIOUS
    <3>2. [s EXCEPT ![1] = e] \in [1 .. Len(s) -> Frame]
      BY <3>1
    <3>3. QED
      BY <3>1, <3>2, SeqDef
  <2>3. QED
    BY <1>2, <2>1, <2>2, TopType DEF Return
<1>3. QED
  BY <1>1, <1>2

-----------------------------------------------------------------------------
(* Type correctness: one lemma for the requests, one for the steps. *)

LEMMA AssignType ==
  ASSUME NEW h \in Heap, NEW a \in Addr, NEW t \in Task
  PROVE  Assign(h, a, t) \in Heap
BY DEF Assign, Heap

LEMMA RequestType ==
  ASSUME TypeOK, Request
  PROVE  TypeOK'
<1> USE DEF TypeOK
<1>1. PICK a \in Addr :
        \/ \E name \in Names : AddChild(a, name)
        \/ Remove(a)
        \/ \E name \in Names : SetTaskName(a, name)
        \/ ToggleTaskCompleted(a)
  BY DEF Request, LiveAddrs
<1>2. heap.at[a] \in Task /\ heap.at[a].id \in RowIds \cup {0}
  BY DEF Heap, Task
<1>3. ASSUME NEW name \in Names, AddChild(a, name)
      PROVE  TypeOK'
  <2>1. PICK id \in RowIds :
          /\ rows' = Insert(rows, id, heap.at[a].id, name)
          /\ heap' \in add_child(heap, a, NewTask(id, name, FALSE, a))
    BY <1>3 DEF AddChild
  <2>2. NewTask(id, name, FALSE, a) \in Task
    BY DEF NewTask, Task
  <2>3. heap' \in Heap
    BY <2>1, <2>2, AddChildType
  <2>4. IsTable(rows')
    BY <1>2, <2>1, TableTypes
  <2>5. QED
    BY <1>3, <2>3, <2>4 DEF AddChild, Idle
<1>4. CASE Remove(a)
  BY <1>4, EnterType DEF Remove, Idle
<1>5. ASSUME NEW name \in Names, SetTaskName(a, name)
      PROVE  TypeOK'
  <2>1. [heap.at[a] EXCEPT !.name = name] \in Task
    BY <1>2 DEF Task
  <2>2. heap' \in Heap
    BY <1>5, <2>1, AssignType DEF SetTaskName
  <2>3. IsTable(rows')
    <3>1. heap.at[a].id \in RowIds
      BY <1>2, <1>5 DEF SetTaskName
    <3>2. QED
      BY <1>5, <3>1, TableTypes DEF SetTaskName
  <2>4. QED
    BY <1>5, <2>2, <2>3 DEF SetTaskName, Idle
<1>6. CASE ToggleTaskCompleted(a)
  <2>1. /\ (~heap.at[a].completed) \in BOOLEAN
        /\ [heap.at[a] EXCEPT !.completed = ~heap.at[a].completed] \in Task
    BY <1>2 DEF Task
  <2>2. heap' \in Heap
    BY <1>6, <2>1, AssignType DEF ToggleTaskCompleted
  <2>3. IsTable(rows')
    BY <1>6, <2>1 DEF ToggleTaskCompleted, UpdateCompleted, IsTable, Row
  <2>4. QED
    BY <1>6, <2>2, <2>3 DEF ToggleTaskCompleted, Idle
<1>7. QED
  BY <1>1, <1>3, <1>4, <1>5, <1>6

LEMMA StepType ==
  ASSUME TypeOK, Step
  PROVE  TypeOK'
<1> USE DEF TypeOK
<1>1. CASE LoadSelect
  <2> DEFINE a == calls[1].task
             ids == ChildRows(rows, heap.at[a].id)
             n == Cardinality(ids)
  <2>1. calls # <<>> /\ a \in Addr
    BY <1>1, TopType DEF LoadSelect, InPc
  <2>2. heap' \in Heap
    <3>1. CASE heap' = heap
      BY <3>1
    <3>2. CASE heap' # heap
      <4>1. PICK f \in ScanOrders(ids), b \in FreeBufs(heap), room \in 1 .. MaxLen :
              GrownTo(room, n) /\ heap' = Filled(heap, a, f, n, b, room)
        BY <1>1, <3>2 DEF LoadSelect
      <4>2. n \in Nat /\ f \in [0 .. n - 1 -> DOMAIN rows]
        BY <4>1, ScanOrderType
      <4>3. n \in 0 .. MaxLen /\ room \in 0 .. MaxLen /\ b \in Bufs
        BY <4>1, <4>2, BoundFacts DEF GrownTo, FreeBufs
      <4>4. QED
        BY <2>1, <4>1, <4>2, <4>3, FilledType
    <3>3. QED
      BY <3>1, <3>2
  <2>3. calls' \in Seq(Frame)
    BY <1>1, <2>1, GotoType DEF LoadSelect
  <2>4. QED
    BY <1>1, <2>1, <2>2, <2>3 DEF LoadSelect
<1>2. CASE LoadDescend
  <2>1. calls # <<>> /\ calls[1].task \in Addr /\ calls[1].i \in Nat
    BY <1>2, TopType DEF LoadDescend, InPc
  <2>2. calls' \in Seq(Frame)
    BY <1>2, <2>1, CountType, EnterType DEF LoadDescend
  <2>3. QED
    BY <1>2, <2>1, <2>2 DEF LoadDescend
<1>3. CASE LoadReturn
  BY <1>3, ReturnType DEF LoadReturn, InPc
<1>4. CASE RemoveChild
  <2>1. calls # <<>> /\ calls[1].task \in Addr /\ calls[1].i \in Nat
    BY <1>4, TopType DEF RemoveChild, InPc
  <2>2. calls' \in Seq(Frame)
    BY <1>4, <2>1, CountType, EnterType DEF RemoveChild
  <2>3. QED
    BY <1>4, <2>1, <2>2 DEF RemoveChild
<1>5. CASE RemoveRow
  <2>1. calls # <<>>
    BY <1>5 DEF RemoveRow, InPc
  <2>2. calls' \in Seq(Frame) /\ IsTable(rows')
    BY <1>5, <2>1, GotoType, DeleteType DEF RemoveRow
  <2>3. QED
    BY <1>5, <2>1, <2>2 DEF RemoveRow
<1>6. CASE RemoveThrows
  BY <1>6 DEF RemoveThrows, InPc
<1>7. CASE RemoveErase
  <2> DEFINE a == calls[1].task
             q == heap.at[a].parent
  <2>1. calls # <<>> /\ a \in Addr /\ calls[1].i \in Nat
    BY <1>7, TopType DEF RemoveErase, InPc
  <2>2. q \in Addr
    BY <1>7, <2>1 DEF RemoveErase, Heap, Task
  <2>3. PICK k \in Matches(heap, q, a, calls[1].i) :
          heap' = EraseChild(heap, q, k) /\ Goto("erase", k + 1)
    BY <1>7 DEF RemoveErase
  <2>4. k \in Nat /\ k < get_child_count(heap, q)
    BY <2>1, <2>2, <2>3, CountType DEF Matches
  <2>5. heap' \in Heap
    BY <2>2, <2>3, <2>4, EraseChildType
  <2>6. calls' \in Seq(Frame)
    BY <2>1, <2>3, <2>4, GotoType
  <2>7. QED
    BY <1>7, <2>1, <2>5, <2>6 DEF RemoveErase, PointsToOwner
<1>8. CASE RemoveReturn
  <2>1. calls # <<>> /\ calls' \in Seq(Frame)
    BY <1>8, ReturnType DEF RemoveReturn, InPc
  <2>2. astray' \in BOOLEAN
    BY <1>8 DEF RemoveReturn
  <2>3. QED
    BY <1>8, <2>1, <2>2 DEF RemoveReturn
<1>9. QED
  BY <1>1, <1>2, <1>3, <1>4, <1>5, <1>6, <1>7, <1>8 DEF Step, Proceed

LEMMA InitType == Init => TypeOK
<1>1. IsTable(EmptyTable)
  BY DEF IsTable, EmptyTable
<1>2. QED
  BY <1>1, EmptyHeapType, EmptyStackType, Zenon DEF Init, TypeOK

LEMMA NextType == TypeOK /\ [Next]_vars => TypeOK'
<1> SUFFICES ASSUME TypeOK, [Next]_vars
             PROVE  TypeOK'
  OBVIOUS
<1>1. CASE Start
  <2>1. head \in Addr
    BY DEF Addr
  <2>2. Call(head, "select") \in Frame
    BY <2>1, AtType DEF Call
  <2>3. calls' \in Seq(Frame)
    BY <1>1, <2>2 DEF Start
  <2>4. QED
    BY <1>1, <2>3, EmptyHeapType DEF Start, TypeOK
<1>2. CASE Stop
  <2>1. IsTable(rows')
    BY <1>2 DEF Stop, TypeOK
  <2>2. QED
    BY <1>2, <2>1, EmptyHeapType, EmptyStackType, Zenon DEF Stop, TypeOK
<1>3. CASE Step
  BY <1>3, StepType
<1>4. CASE Request
  BY <1>4, RequestType
<1>5. CASE UNCHANGED vars
  BY <1>5 DEF vars, TypeOK
<1>6. QED
  BY <1>1, <1>2, <1>3, <1>4, <1>5 DEF Next

\* Type correctness: whatever callers ask for and wherever the process ends,
\* the table, the memory and the stack of calls of TaskTree stay well formed.
THEOREM TypeCorrect == Spec => []TypeOK
BY InitType, NextType, PTL DEF Spec

-----------------------------------------------------------------------------
(* Why a load never leaves a parent pointer that misleads: the inductive    *)
(* invariant behind LoadPointersRight, and its proof.                       *)

\* A free buffer is empty, a task's buffer is not free and no other task's, and
\* every task points to the one that holds it.
Shaped(h) ==
  /\ \A b \in Bufs : h.cap[b] = 0 => h.len[b] = 0
  /\ \A a \in LiveAddrs(h) : h.at[a].children # Nil => h.cap[h.at[a].children] > 0
  /\ \A p, q \in LiveAddrs(h) :
       h.at[p].children = h.at[q].children /\ h.at[p].children # Nil => p = q
  /\ \A a \in LiveAddrs(h) \ {head} : PointsToOwner(h, a)

\* The calls go down the tree from child to child, no task twice.
GoesDown(h, s) ==
  /\ \A j \in 1 .. Len(s) : Alive(h, s[j].task)
  /\ \A j \in 2 .. Len(s) :
       /\ s[j].pc = "load"
       /\ s[j].i < get_child_count(h, s[j].task)
       /\ s[j - 1].task = get_child(h, s[j].task, s[j].i)
  /\ \A j, k \in 1 .. Len(s) : s[j].task = s[k].task => j = k

\* The tasks a call has still to descend into have no children yet.
ChildlessAhead(h, s) ==
  /\ s[1].pc = "select" => h.at[s[1].task].children = Nil
  /\ \A j \in 1 .. Len(s) : s[j].pc = "load" =>
       \A k \in s[j].i .. get_child_count(h, s[j].task) - 1 :
         j = 1 \/ k > s[j].i => h.at[get_child(h, s[j].task, k)].children = Nil

\* A load and a remove are never active together.
OneKind(s) ==
  \/ \A j \in 1 .. Len(s) : s[j].pc \in {"select", "load"}
  \/ \A j \in 1 .. Len(s) : s[j].pc \in {"remove", "erase"}

LoadInv ==
  /\ TypeOK
  /\ OneKind(calls)
  /\ Loading => Shaped(heap) /\ GoesDown(heap, calls) /\ ChildlessAhead(heap, calls)

-----------------------------------------------------------------------------
(* The stack after each of the three ways it changes. *)

LEMMA GotoStack ==
  ASSUME calls \in Seq(Frame), calls # <<>>, NEW pc, NEW i, Goto(pc, i)
  PROVE  /\ Len(calls') = Len(calls)
         /\ calls'[1] = At(calls[1].task, pc, i)
         /\ \A j \in 2 .. Len(calls) : calls'[j] = calls[j]
<1>1. Len(calls) \in Nat \ {0} /\ calls \in [1 .. Len(calls) -> Frame]
  OBVIOUS
<1>2. calls' = [calls EXCEPT ![1] = At(calls[1].task, pc, i)]
  BY DEF Goto
<1>3. QED
  BY <1>1, <1>2

LEMMA EnterStack ==
  ASSUME calls \in Seq(Frame), NEW call \in Frame, Enter(call)
  PROVE  /\ Len(calls') = Len(calls) + 1
         /\ calls'[1] = call
         /\ \A j \in 2 .. Len(calls) + 1 : calls'[j] = calls[j - 1]
BY DEF Enter

LEMMA ReturnStack ==
  ASSUME calls \in Seq(Frame), Len(calls) > 1, Return
  PROVE  /\ Len(calls') = Len(calls) - 1
         /\ calls'[1] = At(calls[2].task, calls[2].pc, calls[2].i + 1)
         /\ \A j \in 2 .. Len(calls) - 1 : calls'[j] = calls[j + 1]
<1> DEFINE t == Tail(calls)
           e == At(calls[2].task, calls[2].pc, calls[2].i + 1)
<1>1. /\ Len(calls) \in Nat /\ t \in Seq(Frame) /\ Len(t) = Len(calls) - 1
      /\ \A j \in 1 .. Len(calls) - 1 : t[j] = calls[j + 1]
  OBVIOUS
<1>2. calls' = [t EXCEPT ![1] = e]
  BY DEF Return
<1> HIDE DEF t, e
<1>3. t \in [1 .. Len(t) -> Frame]
  BY <1>1
<1>4. Len(calls') = Len(t) /\ calls'[1] = e /\ \A j \in 2 .. Len(t) : calls'[j] = t[j]
  BY <1>1, <1>2, <1>3
<1>5. QED
  BY <1>1, <1>4 DEF e

LEMMA TopOfStack ==
  ASSUME calls \in Seq(Frame), calls # <<>>
  PROVE  /\ Len(calls) \in Nat \ {0}
         /\ \A j \in 1 .. Len(calls) :
              calls[j] \in Frame /\ calls[j].task \in Addr /\ calls[j].i \in Nat
<1>1. Len(calls) \in Nat \ {0} /\ calls \in [1 .. Len(calls) -> Frame]
  OBVIOUS
<1>2. QED
  BY <1>1 DEF Frame

-----------------------------------------------------------------------------
(* OneKind: an active load is never joined by a remove. *)

LEMMA OneKindStep ==
  ASSUME TypeOK, TypeOK', OneKind(calls), [Next]_vars
  PROVE  OneKind(calls')
<1>0. /\ calls \in Seq(Frame) /\ heap \in Heap
      /\ Len(calls) \in Nat
      /\ calls = <<>> <=> Len(calls) = 0
      /\ calls # <<>> => Len(calls) >= 1
  BY DEF TypeOK
<1>1. CASE Len(calls') = 0
  BY <1>1 DEF OneKind
<1>2. CASE calls' = calls
  BY <1>2 DEF OneKind
<1>3. ASSUME calls # <<>>,
             \E pc, i : /\ Goto(pc, i)
                        /\ \/ pc = "load" /\ calls[1].pc = "select"
                           \/ pc = "erase" /\ calls[1].pc \in {"remove", "erase"}
      PROVE  OneKind(calls')
  <2>1. PICK pc, i : /\ Goto(pc, i)
                     /\ \/ pc = "load" /\ calls[1].pc = "select"
                        \/ pc = "erase" /\ calls[1].pc \in {"remove", "erase"}
    BY <1>3
  <2>2. /\ Len(calls') = Len(calls) /\ Len(calls) \in Nat \ {0}
        /\ calls'[1].pc = pc
        /\ \A j \in 2 .. Len(calls) : calls'[j] = calls[j]
    <3>1. Len(calls') = Len(calls) /\ \A j \in 2 .. Len(calls) : calls'[j] = calls[j]
      BY <1>0, <1>3, <2>1, GotoStack
    <3>2. calls'[1] = At(calls[1].task, pc, i)
      BY <1>0, <1>3, <2>1, GotoStack
    <3>3. QED
      BY <1>0, <1>3, <3>1, <3>2 DEF At
  <2>3. QED
    BY <2>1, <2>2 DEF OneKind
<1>4. ASSUME \E a \in Addr : \/ /\ calls # <<>>
                                /\ Enter(Call(a, "select"))
                                /\ calls[1].pc = "load"
                             \/ /\ Enter(Call(a, "remove"))
                                /\ calls = <<>> \/ calls[1].pc = "remove"
      PROVE  OneKind(calls')
  <2>1. PICK a \in Addr, pc \in {"select", "remove"} :
          /\ Enter(Call(a, pc))
          /\ \/ pc = "select" /\ calls # <<>> /\ calls[1].pc = "load"
             \/ pc = "remove" /\ (calls = <<>> \/ calls[1].pc = "remove")
    BY <1>4
  <2>2. Call(a, pc) \in Frame /\ Call(a, pc).pc = pc
    BY AtType DEF Call, At
  <2>3. /\ Len(calls') = Len(calls) + 1 /\ Len(calls) \in Nat
        /\ calls'[1].pc = pc
        /\ \A j \in 2 .. Len(calls) + 1 : calls'[j] = calls[j - 1]
    BY <1>0, <2>1, <2>2, EnterStack
  <2>4. \A j \in 2 .. Len(calls) + 1 : j - 1 \in 1 .. Len(calls)
    BY <2>3
  <2>5. \A j \in 1 .. Len(calls') : j = 1 \/ j \in 2 .. Len(calls) + 1
    BY <2>3
  <2>6. CASE calls = <<>>
    BY <1>0, <2>1, <2>3, <2>6 DEF OneKind
  <2>7. CASE calls # <<>>
    <3>1. 1 \in 1 .. Len(calls)
      BY <1>0, <2>7
    <3>2. CASE pc = "select"
      BY <2>1, <2>3, <2>4, <2>5, <3>1, <3>2 DEF OneKind
    <3>3. CASE pc = "remove"
      BY <2>1, <2>3, <2>4, <2>5, <2>7, <3>1, <3>3 DEF OneKind
    <3>4. QED
      BY <3>2, <3>3
  <2>8. QED
    BY <2>6, <2>7
<1>5. ASSUME calls # <<>>, Return
      PROVE  OneKind(calls')
  <2>1. CASE Len(calls) = 1
    BY <1>5, <2>1 DEF Return, OneKind
  <2>2. CASE Len(calls) # 1
    <3>1. Len(calls) \in Nat /\ Len(calls) > 1
      BY <1>0, <1>5, <2>2
    <3>2. /\ Len(calls') = Len(calls) - 1
          /\ calls'[1].pc = calls[2].pc
          /\ \A j \in 2 .. Len(calls) - 1 : calls'[j] = calls[j + 1]
      BY <1>0, <1>5, <3>1, ReturnStack DEF At
    <3>3. \A j \in 1 .. Len(calls') :
            j + 1 \in 1 .. Len(calls) /\ calls'[j].pc = calls[j + 1].pc
      BY <3>1, <3>2
    <3>4. QED
      BY <3>3 DEF OneKind
  <2>3. QED
    BY <2>1, <2>2
<1>6. CASE Start
  <2>1. Len(calls') = 1 /\ calls'[1].pc = "select"
    BY <1>6 DEF Start, Call, At
  <2>2. QED
    BY <2>1 DEF OneKind
<1>7. CASE Stop
  BY <1>1, <1>7 DEF Stop
<1>8. CASE Step
  <2>1. CASE LoadSelect
    BY <1>3, <2>1 DEF LoadSelect, InPc
  <2>2. CASE LoadDescend
    <3>1. calls # <<>> /\ get_child(heap, calls[1].task, calls[1].i) \in Addr
      BY <1>0, <2>2, TopOfStack, CountType DEF LoadDescend, InPc
    <3>2. QED
      BY <1>4, <2>2, <3>1 DEF LoadDescend, InPc
  <2>3. CASE LoadReturn
    BY <1>5, <2>3 DEF LoadReturn, InPc
  <2>4. CASE RemoveChild
    <3>1. calls # <<>> /\ get_child(heap, calls[1].task, calls[1].i) \in Addr
      BY <1>0, <2>4, TopOfStack, CountType DEF RemoveChild, InPc
    <3>2. QED
      BY <1>4, <2>4, <3>1 DEF RemoveChild, InPc
  <2>5. CASE RemoveRow
    BY <1>3, <2>5 DEF RemoveRow, InPc
  <2>6. CASE RemoveThrows
    BY <1>1, <2>6 DEF RemoveThrows
  <2>7. CASE RemoveErase
    BY <1>3, <2>7 DEF RemoveErase, InPc
  <2>8. CASE RemoveReturn
    BY <1>5, <2>8 DEF RemoveReturn, InPc
  <2>9. QED
    BY <1>8, <2>1, <2>2, <2>3, <2>4, <2>5, <2>6, <2>7, <2>8 DEF Step, Proceed
<1>9. CASE Request
  <2>1. PICK a \in Addr :
          \/ \E name \in Names : AddChild(a, name)
          \/ Remove(a)
          \/ \E name \in Names : SetTaskName(a, name)
          \/ ToggleTaskCompleted(a)
    BY <1>9 DEF Request, LiveAddrs
  <2>2. CASE Remove(a)
    BY <1>4, <2>2 DEF Remove, Idle
  <2>3. CASE ~Remove(a)
    BY <1>2, <2>1, <2>3 DEF AddChild, SetTaskName, ToggleTaskCompleted
  <2>4. QED
    BY <2>2, <2>3
<1>10. CASE UNCHANGED vars
  BY <1>2, <1>10 DEF vars
<1>11. QED
  BY <1>6, <1>7, <1>8, <1>9, <1>10 DEF Next

-----------------------------------------------------------------------------
(* What loading the children of a task does to the heap. *)

\* A slot no task lives in shows a task without children.
Vacant(h) == \A x \in Addr \ LiveAddrs(h) : h.at[x].children = Nil

LEMMA LiveFacts ==
  ASSUME NEW h \in Heap, NEW x \in LiveAddrs(h)
  PROVE  /\ x \in Addr
         /\ x = head \/ (x \in Bufs \X Slots /\ x[1] \in Bufs /\ x[2] \in Nat /\ x[2] < h.len[x[1]])
         /\ x # head => x[1] # Nil /\ x[1] # Root
         /\ h.at[x].children \in Bufs \cup {Nil}
<1>1. x \in Addr /\ (x = head \/ (x[1] \in Bufs /\ x[2] < h.len[x[1]]))
  BY DEF LiveAddrs, Alive
<1>2. x # head => x \in Bufs \X Slots /\ x[1] \in Bufs /\ x[2] \in Nat
  BY <1>1, BoundFacts DEF Addr, Slots
<1>3. h.at[x].children \in Bufs \cup {Nil}
  BY <1>1 DEF Heap, Task
<1>4. QED
  BY <1>1, <1>2, <1>3, BlocksAssumption

LEMMA FilledHeap ==
  ASSUME IsTable(rows), NEW h \in Heap, Shaped(h),
         NEW a \in LiveAddrs(h), h.at[a].children = Nil,
         NEW n \in 1 .. MaxLen, NEW f \in [0 .. n - 1 -> DOMAIN rows],
         NEW b \in Bufs, h.cap[b] = 0, NEW room \in 1 .. MaxLen,
         NEW g, g = Filled(h, a, f, n, b, room)
  PROVE  /\ LiveAddrs(g) = LiveAddrs(h) \cup {<<b, i>> : i \in 0 .. n - 1}
         /\ \A x \in LiveAddrs(h) : x # head => x[1] # b
         /\ g.at[a].children = b /\ g.at[a].parent = h.at[a].parent
         /\ \A x \in LiveAddrs(h) : x # a => g.at[x] = h.at[x]
         /\ \A i \in 0 .. n - 1 : g.at[<<b, i>>].children = Nil /\ g.at[<<b, i>>].parent = a
         /\ g.len[b] = n /\ g.cap[b] = room
         /\ \A c \in Bufs \ {b} : g.len[c] = h.len[c] /\ g.cap[c] = h.cap[c]
         /\ g.at[a].id = h.at[a].id
         /\ g.at[a].name = h.at[a].name /\ g.at[a].completed = h.at[a].completed
         /\ \A i \in 0 .. n - 1 :
              /\ g.at[<<b, i>>].id = f[i] /\ g.at[<<b, i>>].name = rows[f[i]].name
              /\ g.at[<<b, i>>].completed = rows[f[i]].completed
<1>1. h.len[b] = 0
  BY DEF Shaped
<1>2. \A x \in LiveAddrs(h) : x # head => x[1] # b
  BY <1>1, LiveFacts
<1>3. head[1] = Root /\ Root # b /\ head \in Addr
  BY BlocksAssumption DEF head, Addr
<1>4. /\ g.len = [h.len EXCEPT ![b] = n]
      /\ g.cap = [h.cap EXCEPT ![b] = room]
      /\ \A x \in Addr :
           g.at[x] = IF x = a THEN [h.at[x] EXCEPT !.children = b]
                     ELSE IF x[1] = b /\ x[2] < n
                     THEN NewTask(f[x[2]], rows[f[x[2]]].name, rows[f[x[2]]].completed, a)
                     ELSE h.at[x]
  BY DEF Filled
<1>5. /\ g.len[b] = n /\ g.cap[b] = room
      /\ \A c \in Bufs \ {b} : g.len[c] = h.len[c] /\ g.cap[c] = h.cap[c]
  BY <1>4 DEF Heap
<1>6. \A i \in 0 .. n - 1 : <<b, i>> \in Addr /\ <<b, i>> # a
  BY <1>2, <1>3, BoundFacts DEF Addr, Slots
<1>7. a \in Addr /\ h.at[a] \in Task
  BY DEF LiveAddrs, Heap
<1>8. /\ g.at[a].children = b /\ g.at[a].parent = h.at[a].parent /\ g.at[a].id = h.at[a].id
      /\ g.at[a].name = h.at[a].name /\ g.at[a].completed = h.at[a].completed
  BY <1>4, <1>7 DEF Task
<1>9. \A x \in LiveAddrs(h) : x # a => g.at[x] = h.at[x]
  BY <1>2, <1>3, <1>4 DEF LiveAddrs
<1>10. ASSUME NEW i \in 0 .. n - 1
       PROVE  /\ g.at[<<b, i>>].children = Nil /\ g.at[<<b, i>>].parent = a
              /\ g.at[<<b, i>>].id = f[i] /\ g.at[<<b, i>>].name = rows[f[i]].name
              /\ g.at[<<b, i>>].completed = rows[f[i]].completed
  <2>2. g.at[<<b, i>>] = NewTask(f[i], rows[f[i]].name, rows[f[i]].completed, a)
    <3> DEFINE x == <<b, i>>
    <3>1. x \in Addr /\ x # a /\ x[1] = b /\ x[2] = i /\ i < n
      BY <1>6
    <3> HIDE DEF x
    <3>2. g.at[x] = NewTask(f[i], rows[f[i]].name, rows[f[i]].completed, a)
      BY <1>4, <3>1
    <3>3. QED
      BY <3>2 DEF x
  <2>3. QED
    BY <2>2 DEF NewTask
<1>11. LiveAddrs(g) = LiveAddrs(h) \cup {<<b, i>> : i \in 0 .. n - 1}
  <2>1. ASSUME NEW x \in LiveAddrs(g), x \notin LiveAddrs(h)
        PROVE  x \in {<<b, i>> : i \in 0 .. n - 1}
    <3>1. x \in Addr /\ x # head /\ x[1] \in Bufs /\ x[2] < g.len[x[1]] /\ ~(x[2] < h.len[x[1]])
      BY <2>1 DEF LiveAddrs, Alive
    <3>2. x \in Bufs \X Slots /\ x = <<x[1], x[2]>> /\ x[2] \in Nat
      BY <3>1, BoundFacts DEF Addr, Slots
    <3>3. x[1] = b
      BY <1>5, <3>1
    <3>4. QED
      BY <1>5, <3>1, <3>2, <3>3
  <2>2. ASSUME NEW x \in LiveAddrs(h) PROVE x \in LiveAddrs(g)
    BY <1>2, <1>5, <2>2 DEF LiveAddrs, Alive
  <2>3. ASSUME NEW i \in 0 .. n - 1 PROVE <<b, i>> \in LiveAddrs(g)
    BY <1>5, <1>6 DEF LiveAddrs, Alive
  <2>4. QED
    BY <2>1, <2>2, <2>3
<1>12. QED
  BY <1>2, <1>5, <1>8, <1>9, <1>10, <1>11

LEMMA FilledVacant ==
  ASSUME NEW h \in Heap, Shaped(h), Vacant(h), NEW a \in LiveAddrs(h), NEW n \in 1 .. MaxLen,
         NEW f, NEW b \in Bufs, h.cap[b] = 0, NEW room,
         NEW g, g = Filled(h, a, f, n, b, room)
  PROVE  Vacant(g)
<1>1. /\ g.len = [h.len EXCEPT ![b] = n]
      /\ \A x \in Addr : x # a /\ ~(x[1] = b /\ x[2] < n) => g.at[x] = h.at[x]
  BY DEF Filled
<1>2. g.len[b] = n /\ h.len[b] = 0 /\ \A c \in Bufs \ {b} : g.len[c] = h.len[c]
  BY <1>1 DEF Heap, Shaped
<1>3. SUFFICES ASSUME NEW x \in Addr \ LiveAddrs(g)
               PROVE  g.at[x].children = Nil
  BY DEF Vacant
<1>4. x # head /\ x[1] \in Bufs /\ x[2] \in Nat /\ ~(x[2] < g.len[x[1]])
  BY <1>3, BoundFacts DEF LiveAddrs, Alive, Addr, Slots
<1>5. x \notin LiveAddrs(h)
  BY <1>2, <1>4 DEF LiveAddrs, Alive
<1>6. g.at[x] = h.at[x]
  BY <1>1, <1>2, <1>4, <1>5
<1>7. QED
  BY <1>3, <1>5, <1>6 DEF Vacant

LEMMA FilledShape ==
  ASSUME IsTable(rows), NEW h \in Heap, Shaped(h),
         NEW a \in LiveAddrs(h), h.at[a].children = Nil,
         NEW n \in 1 .. MaxLen, NEW f \in [0 .. n - 1 -> DOMAIN rows],
         NEW b \in Bufs, h.cap[b] = 0, NEW room \in 1 .. MaxLen,
         NEW g, g = Filled(h, a, f, n, b, room)
  PROVE  Shaped(g)
<1> DEFINE new == {<<b, i>> : i \in 0 .. n - 1}
<1>1. /\ LiveAddrs(g) = LiveAddrs(h) \cup new
      /\ \A x \in LiveAddrs(h) : x # head => x[1] # b
      /\ g.at[a].children = b /\ g.at[a].parent = h.at[a].parent
      /\ \A x \in LiveAddrs(h) : x # a => g.at[x] = h.at[x]
      /\ \A x \in new : g.at[x].children = Nil /\ g.at[x].parent = a /\ x[1] = b
      /\ g.len[b] = n /\ g.cap[b] = room
      /\ \A c \in Bufs \ {b} : g.len[c] = h.len[c] /\ g.cap[c] = h.cap[c]
  BY FilledHeap
<1> HIDE DEF new
<1>2. b # Nil
  BY BlocksAssumption
<1>3. \A x \in LiveAddrs(h) : h.at[x].children # b
  BY <1>2 DEF Shaped
<1>4. \A c \in Bufs : g.cap[c] = 0 => g.len[c] = 0
  BY <1>1 DEF Shaped
<1>5. \A x \in LiveAddrs(g) : g.at[x].children # Nil => g.cap[g.at[x].children] > 0
  <2>1. SUFFICES ASSUME NEW x \in LiveAddrs(g), g.at[x].children # Nil
                 PROVE  g.cap[g.at[x].children] > 0
    OBVIOUS
  <2>2. CASE x = a
    BY <1>1, <2>2
  <2>3. CASE x # a
    <3>1. x \in LiveAddrs(h) /\ g.at[x] = h.at[x]
      BY <1>1, <2>1, <2>3
    <3>2. h.at[x].children \in Bufs \ {b} /\ h.cap[h.at[x].children] > 0
      BY <1>3, <2>1, <3>1, LiveFacts DEF Shaped
    <3>3. QED
      BY <1>1, <3>1, <3>2
  <2>4. QED
    BY <2>2, <2>3
<1>6. \A p, q \in LiveAddrs(g) :
        g.at[p].children = g.at[q].children /\ g.at[p].children # Nil => p = q
  BY <1>1, <1>3 DEF Shaped
<1>7. ASSUME NEW x \in LiveAddrs(g) \ {head}
      PROVE  PointsToOwner(g, x)
  <2>1. CASE x \in new
    BY <1>1, <2>1 DEF PointsToOwner, Owns, LiveAddrs
  <2>2. CASE x \notin new
    <3>1. x \in LiveAddrs(h) /\ g.at[x].parent = h.at[x].parent
      BY <1>1, <1>7, <2>2
    <3>2. PointsToOwner(h, x) /\ x[1] # Nil
      BY <1>7, <3>1, LiveFacts DEF Shaped
    <3>3. PICK p \in LiveAddrs(h) : p = h.at[x].parent /\ h.at[p].children = x[1]
      BY <3>2 DEF PointsToOwner, Owns, LiveAddrs
    <3>4. p # a /\ g.at[p].children = x[1] /\ p \in LiveAddrs(g)
      BY <1>1, <3>2, <3>3
    <3>5. QED
      BY <3>1, <3>3, <3>4 DEF PointsToOwner, Owns, LiveAddrs
  <2>3. QED
    BY <2>1, <2>2
<1>8. QED
  BY <1>4, <1>5, <1>6, <1>7 DEF Shaped

-----------------------------------------------------------------------------
(* The steps of a load, on any heap h and stack s. *)

Stack(s) == s \in Seq(Frame) /\ s # <<>>

LEMMA StackFacts ==
  ASSUME NEW s, Stack(s)
  PROVE  /\ Len(s) \in Nat \ {0} /\ 1 \in 1 .. Len(s)
         /\ \A j \in 1 .. Len(s) :
              s[j] \in Frame /\ s[j].task \in Addr /\ s[j].i \in Nat
<1>1. Len(s) \in Nat \ {0} /\ s \in [1 .. Len(s) -> Frame]
  BY DEF Stack
<1>2. QED
  BY <1>1 DEF Frame

LEMMA ChildFacts ==
  ASSUME NEW h \in Heap, NEW p \in Addr, NEW k \in Nat, k < get_child_count(h, p)
  PROVE  /\ get_child(h, p, k) = <<h.at[p].children, k>>
         /\ get_child(h, p, k) \in LiveAddrs(h) \ {head}
         /\ h.at[p].children \in Bufs /\ h.at[p].children # Nil
<1>1. h.at[p].children \in Bufs /\ k < h.len[h.at[p].children]
  BY CountType, BlocksAssumption DEF get_child_count
<1>2. get_child(h, p, k) \in Addr
  BY CountType
<1>3. QED
  BY <1>1, <1>2, BlocksAssumption DEF get_child, LiveAddrs, Alive, head

\* What the outer calls have still to descend into is not the innermost task.
LEMMA AheadIsElsewhere ==
  ASSUME NEW h \in Heap, NEW s, Stack(s), Shaped(h), GoesDown(h, s),
         NEW j \in 2 .. Len(s), NEW k \in Nat, k > s[j].i,
         k < get_child_count(h, s[j].task)
  PROVE  get_child(h, s[j].task, k) \in LiveAddrs(h) \ {s[1].task}
<1>1. /\ Len(s) \in Nat \ {0} /\ 2 \in 2 .. Len(s) /\ 2 \in 1 .. Len(s) /\ j \in 1 .. Len(s)
      /\ s[j].task \in LiveAddrs(h) /\ s[2].task \in LiveAddrs(h)
      /\ s[2].i \in Nat /\ s[j].task \in Addr /\ s[2].task \in Addr
  BY StackFacts DEF GoesDown, LiveAddrs
<1>2. /\ s[1].task = get_child(h, s[2].task, s[2].i)
      /\ s[2].i < get_child_count(h, s[2].task)
  BY <1>1 DEF GoesDown
<1>3. /\ s[1].task = <<h.at[s[2].task].children, s[2].i>>
      /\ h.at[s[2].task].children # Nil
  BY <1>1, <1>2, ChildFacts
<1>4. /\ get_child(h, s[j].task, k) = <<h.at[s[j].task].children, k>>
      /\ get_child(h, s[j].task, k) \in LiveAddrs(h)
  BY <1>1, ChildFacts
<1>5. ASSUME get_child(h, s[j].task, k) = s[1].task
      PROVE  FALSE
  <2>1. h.at[s[j].task].children = h.at[s[2].task].children /\ k = s[2].i
    BY <1>3, <1>4, <1>5
  <2>2. s[j].task = s[2].task
    BY <1>1, <1>3, <2>1 DEF Shaped
  <2>3. j = 2
    BY <1>1, <2>2 DEF GoesDown
  <2>4. QED
    BY <2>1, <2>3
<1>6. QED
  BY <1>4, <1>5

\* After the SELECT, whether it returned rows (g is Filled) or none (g is h).
LEMMA SelectKeeps ==
  ASSUME NEW h \in Heap, NEW s, Stack(s), Shaped(h), GoesDown(h, s),
         ChildlessAhead(h, s), s[1].pc = "select",
         NEW g \in Heap, LiveAddrs(h) \subseteq LiveAddrs(g),
         \A x \in LiveAddrs(h) : x # s[1].task =>
           /\ g.at[x].children = h.at[x].children
           /\ get_child_count(g, x) = get_child_count(h, x),
         \A k \in 0 .. get_child_count(g, s[1].task) - 1 :
           g.at[get_child(g, s[1].task, k)].children = Nil,
         NEW t, Len(t) = Len(s), t[1] = At(s[1].task, "load", 0),
         \A j \in 2 .. Len(s) : t[j] = s[j]
  PROVE  GoesDown(g, t) /\ ChildlessAhead(g, t)
<1>1. /\ Len(s) \in Nat \ {0} /\ 1 \in 1 .. Len(s)
      /\ \A j \in 1 .. Len(s) : s[j].task \in LiveAddrs(h) /\ s[j].task \in Addr /\ s[j].i \in Nat
  BY StackFacts DEF GoesDown, LiveAddrs
<1>2. t[1].task = s[1].task /\ t[1].pc = "load" /\ t[1].i = 0
  BY DEF At
<1>3. \A j \in 1 .. Len(s) : t[j].task = s[j].task
  BY <1>1, <1>2
<1>4. ASSUME NEW j \in 2 .. Len(s)
      PROVE  /\ t[j].pc = s[j].pc /\ t[j].i = s[j].i /\ j \in 1 .. Len(s) /\ j - 1 \in 1 .. Len(s)
             /\ s[j].task # s[1].task
             /\ g.at[s[j].task].children = h.at[s[j].task].children
             /\ get_child_count(g, s[j].task) = get_child_count(h, s[j].task)
  <2>1. j \in 1 .. Len(s) /\ j - 1 \in 1 .. Len(s) /\ j # 1
    BY <1>1
  <2>2. s[j].task # s[1].task
    BY <1>1, <2>1 DEF GoesDown
  <2>3. QED
    BY <1>1, <2>1, <2>2
<1>5. GoesDown(g, t)
  <2>1. \A j \in 1 .. Len(t) : Alive(g, t[j].task)
    BY <1>1, <1>3 DEF LiveAddrs
  <2>2. ASSUME NEW j \in 2 .. Len(t)
        PROVE  /\ t[j].pc = "load"
               /\ t[j].i < get_child_count(g, t[j].task)
               /\ t[j - 1].task = get_child(g, t[j].task, t[j].i)
    <3>1. j \in 2 .. Len(s) /\ j \in 1 .. Len(s) /\ j - 1 \in 1 .. Len(s)
      BY <1>4
    <3>2. /\ s[j].pc = "load"
          /\ s[j].i < get_child_count(h, s[j].task)
          /\ s[j - 1].task = <<h.at[s[j].task].children, s[j].i>>
      BY <3>1 DEF GoesDown, get_child
    <3>3. t[j].task = s[j].task /\ t[j - 1].task = s[j - 1].task
      BY <1>3, <3>1
    <3>4. QED
      BY <1>4, <3>1, <3>2, <3>3 DEF get_child
  <2>3. \A j, k \in 1 .. Len(t) : t[j].task = t[k].task => j = k
    BY <1>3 DEF GoesDown
  <2>4. QED
    BY <2>1, <2>2, <2>3 DEF GoesDown
<1>6. ChildlessAhead(g, t)
  <2>1. t[1].pc # "select"
    BY <1>2
  <2>2. ASSUME NEW j \in 1 .. Len(t), t[j].pc = "load",
               NEW k \in t[j].i .. get_child_count(g, t[j].task) - 1,
               j = 1 \/ k > t[j].i
        PROVE  g.at[get_child(g, t[j].task, k)].children = Nil
    <3>1. CASE j = 1
      BY <1>2, <2>2, <3>1
    <3>2. CASE j # 1
      <4>1. j \in 2 .. Len(s)
        BY <2>2, <3>2
      <4>2. /\ k \in s[j].i .. get_child_count(h, s[j].task) - 1 /\ k > s[j].i
            /\ s[j].pc = "load" /\ s[j].i \in Nat
        BY <1>1, <1>3, <1>4, <2>2, <3>2, <4>1
      <4>3. h.at[get_child(h, s[j].task, k)].children = Nil
        BY <1>4, <4>1, <4>2 DEF ChildlessAhead
      <4>4. k \in Nat /\ k < get_child_count(h, s[j].task)
        BY <1>1, <1>4, <4>1, <4>2, CountType
      <4>5. get_child(h, s[j].task, k) \in LiveAddrs(h) \ {s[1].task}
        BY <4>1, <4>2, <4>4, AheadIsElsewhere
      <4>6. get_child(g, t[j].task, k) = get_child(h, s[j].task, k)
        BY <1>3, <1>4, <4>1 DEF get_child
      <4>7. QED
        BY <4>3, <4>5, <4>6
    <3>3. QED
      BY <3>1, <3>2
  <2>3. QED
    BY <2>1, <2>2 DEF ChildlessAhead
<1>7. QED
  BY <1>5, <1>6

\* A descent into the child at the loop's index.
LEMMA DescendKeeps ==
  ASSUME NEW h \in Heap, NEW s, Stack(s), GoesDown(h, s), ChildlessAhead(h, s),
         s[1].pc = "load", s[1].i < get_child_count(h, s[1].task),
         NEW c, c = get_child(h, s[1].task, s[1].i),
         NEW t, Len(t) = Len(s) + 1, t[1] = At(c, "select", 0),
         \A j \in 2 .. Len(s) + 1 : t[j] = s[j - 1]
  PROVE  GoesDown(h, t) /\ ChildlessAhead(h, t)
<1>1. /\ Len(s) \in Nat \ {0} /\ 1 \in 1 .. Len(s)
      /\ \A j \in 1 .. Len(s) : s[j].task \in LiveAddrs(h) /\ s[j].task \in Addr /\ s[j].i \in Nat
  BY StackFacts DEF GoesDown, LiveAddrs
<1>2. t[1].task = c /\ t[1].pc = "select"
  BY DEF At
<1>3. c \in LiveAddrs(h)
  BY <1>1, ChildFacts
<1>4. h.at[c].children = Nil
  <2>1. s[1].i \in s[1].i .. get_child_count(h, s[1].task) - 1
    BY <1>1, CountType
  <2>2. QED
    BY <1>1, <2>1 DEF ChildlessAhead
<1>5. \A j \in 1 .. Len(s) : s[j].i < get_child_count(h, s[j].task) /\ s[j].pc = "load"
  BY <1>1 DEF GoesDown
<1>6. \A j \in 1 .. Len(s) : h.at[s[j].task].children # Nil /\ s[j].task # c
  BY <1>1, <1>4, <1>5, ChildFacts
<1>7. \A j \in 2 .. Len(t) : j - 1 \in 1 .. Len(s) /\ t[j] = s[j - 1]
  BY <1>1
<1>8. GoesDown(h, t)
  <2>1. \A j \in 1 .. Len(t) : Alive(h, t[j].task)
    BY <1>1, <1>2, <1>3, <1>7 DEF LiveAddrs
  <2>2. ASSUME NEW j \in 2 .. Len(t)
        PROVE  /\ t[j].pc = "load"
               /\ t[j].i < get_child_count(h, t[j].task)
               /\ t[j - 1].task = get_child(h, t[j].task, t[j].i)
    <3>1. CASE j = 2
      BY <1>2, <1>5, <1>7, <3>1
    <3>2. CASE j # 2
      <4>1. j - 1 \in 2 .. Len(s) /\ t[j] = s[j - 1] /\ t[j - 1] = s[(j - 1) - 1]
        BY <1>1, <1>7, <2>2, <3>2
      <4>2. QED
        BY <4>1 DEF GoesDown
    <3>3. QED
      BY <3>1, <3>2
  <2>3. ASSUME NEW j \in 1 .. Len(t), NEW k \in 1 .. Len(t), t[j].task = t[k].task
        PROVE  j = k
    <3>1. CASE j = 1 /\ k # 1
      <4>1. k \in 2 .. Len(t)
        BY <3>1
      <4>2. QED
        BY <1>2, <1>6, <1>7, <2>3, <3>1, <4>1
    <3>2. CASE k = 1 /\ j # 1
      <4>1. j \in 2 .. Len(t)
        BY <3>2
      <4>2. QED
        BY <1>2, <1>6, <1>7, <2>3, <3>2, <4>1
    <3>3. CASE j # 1 /\ k # 1
      <4>1. j \in 2 .. Len(t) /\ k \in 2 .. Len(t)
        BY <3>3
      <4>2. s[j - 1].task = s[k - 1].task /\ j - 1 \in 1 .. Len(s) /\ k - 1 \in 1 .. Len(s)
        BY <1>7, <2>3, <4>1
      <4>3. j - 1 = k - 1
        BY <4>2 DEF GoesDown
      <4>4. QED
        BY <4>3
    <3>4. QED
      BY <3>1, <3>2, <3>3
  <2>4. QED
    BY <2>1, <2>2, <2>3 DEF GoesDown
<1>9. ChildlessAhead(h, t)
  <2>1. h.at[t[1].task].children = Nil
    BY <1>2, <1>4
  <2>2. ASSUME NEW j \in 1 .. Len(t), t[j].pc = "load",
               NEW k \in t[j].i .. get_child_count(h, t[j].task) - 1,
               j = 1 \/ k > t[j].i
        PROVE  h.at[get_child(h, t[j].task, k)].children = Nil
    <3>1. j \in 2 .. Len(t)
      BY <1>2, <2>2
    <3>2. j - 1 \in 1 .. Len(s) /\ t[j] = s[j - 1] /\ k > t[j].i
      BY <1>7, <2>2, <3>1
    <3>3. QED
      BY <2>2, <3>2 DEF ChildlessAhead
  <2>3. QED
    BY <2>1, <2>2 DEF ChildlessAhead
<1>10. QED
  BY <1>8, <1>9

\* The innermost call returns and its caller's loop goes on.
LEMMA ReturnKeeps ==
  ASSUME NEW h \in Heap, NEW s, Stack(s), Len(s) > 1, GoesDown(h, s),
         ChildlessAhead(h, s),
         NEW t, Len(t) = Len(s) - 1, t[1] = At(s[2].task, s[2].pc, s[2].i + 1),
         \A j \in 2 .. Len(s) - 1 : t[j] = s[j + 1]
  PROVE  GoesDown(h, t) /\ ChildlessAhead(h, t)
<1>1. /\ Len(s) \in Nat \ {0} /\ 2 \in 2 .. Len(s) /\ 2 \in 1 .. Len(s)
      /\ \A j \in 1 .. Len(s) : s[j].task \in Addr /\ s[j].i \in Nat
  BY StackFacts
<1>2. t[1].task = s[2].task /\ t[1].pc = "load" /\ t[1].i = s[2].i + 1
  BY <1>1 DEF At, GoesDown
<1>3. \A j \in 1 .. Len(t) :
        /\ j + 1 \in 1 .. Len(s) /\ j + 1 \in 2 .. Len(s)
        /\ t[j].task = s[j + 1].task /\ t[j].pc = s[j + 1].pc
  BY <1>1, <1>2 DEF GoesDown
<1>4. \A j \in 2 .. Len(t) : j \in 1 .. Len(t) /\ j - 1 \in 1 .. Len(t) /\ t[j].i = s[j + 1].i
  BY <1>1
<1>5. GoesDown(h, t)
  <2>1. \A j \in 1 .. Len(t) : Alive(h, t[j].task)
    BY <1>3 DEF GoesDown
  <2>2. ASSUME NEW j \in 2 .. Len(t)
        PROVE  /\ t[j].pc = "load"
               /\ t[j].i < get_child_count(h, t[j].task)
               /\ t[j - 1].task = get_child(h, t[j].task, t[j].i)
    <3>1. j \in 1 .. Len(t) /\ j - 1 \in 1 .. Len(t) /\ t[j].i = s[j + 1].i
      BY <1>4
    <3>2. /\ j + 1 \in 2 .. Len(s) /\ t[j].task = s[j + 1].task /\ t[j].pc = s[j + 1].pc
          /\ t[j - 1].task = s[(j - 1) + 1].task
      BY <1>3, <3>1
    <3>3. /\ s[j + 1].pc = "load"
          /\ s[j + 1].i < get_child_count(h, s[j + 1].task)
          /\ s[(j + 1) - 1].task = get_child(h, s[j + 1].task, s[j + 1].i)
      BY <3>2 DEF GoesDown
    <3>4. (j - 1) + 1 = j /\ (j + 1) - 1 = j
      BY <1>1
    <3>5. QED
      BY <3>1, <3>2, <3>3, <3>4
  <2>3. ASSUME NEW j \in 1 .. Len(t), NEW k \in 1 .. Len(t), t[j].task = t[k].task
        PROVE  j = k
    <3>1. j + 1 = k + 1
      BY <1>3, <2>3 DEF GoesDown
    <3>2. QED
      BY <3>1
  <2>4. QED
    BY <2>1, <2>2, <2>3 DEF GoesDown
<1>6. ChildlessAhead(h, t)
  <2>1. t[1].pc # "select"
    BY <1>2
  <2>2. ASSUME NEW j \in 1 .. Len(t), t[j].pc = "load",
               NEW k \in t[j].i .. get_child_count(h, t[j].task) - 1,
               j = 1 \/ k > t[j].i
        PROVE  h.at[get_child(h, t[j].task, k)].children = Nil
    <3>1. /\ j + 1 \in 1 .. Len(s) /\ j + 1 # 1
          /\ t[j].task = s[j + 1].task /\ s[j + 1].pc = "load" /\ s[j + 1].i \in Nat
      BY <1>1, <1>3, <2>2
    <3>2. get_child_count(h, s[j + 1].task) \in Nat
      BY <1>1, <3>1, CountType
    <3>3. k \in s[j + 1].i .. get_child_count(h, s[j + 1].task) - 1 /\ k > s[j + 1].i
      <4>1. CASE j = 1
        BY <1>2, <2>2, <3>1, <3>2, <4>1
      <4>2. CASE j # 1
        <5>1. t[j].i = s[j + 1].i
          BY <1>4, <4>2
        <5>2. QED
          BY <2>2, <3>1, <3>2, <4>2, <5>1
      <4>3. QED
        BY <4>1, <4>2
    <3>4. h.at[get_child(h, s[j + 1].task, k)].children = Nil
      BY <3>1, <3>3 DEF ChildlessAhead
    <3>5. QED
      BY <3>1, <3>4
  <2>3. QED
    BY <2>1, <2>2 DEF ChildlessAhead
<1>7. QED
  BY <1>5, <1>6

-----------------------------------------------------------------------------
(* The invariant and the theorem. *)

LEMMA EmptyHeapShape == Shaped(EmptyHeap) /\ LiveAddrs(EmptyHeap) = {head}
<1>1. head \in Addr
  BY DEF Addr
<1>2. LiveAddrs(EmptyHeap) = {head}
  BY <1>1, BoundFacts DEF LiveAddrs, Alive, EmptyHeap, Addr, Slots
<1>3. EmptyHeap.at[head].children = Nil
  BY <1>1 DEF EmptyHeap, Blank, NewTask
<1>4. QED
  BY <1>2, <1>3 DEF Shaped, EmptyHeap

LEMMA SelectShape ==
  ASSUME LoadInv, LoadSelect, heap' \in Heap
  PROVE  /\ Shaped(heap')
         /\ LiveAddrs(heap) \subseteq LiveAddrs(heap')
         /\ \A x \in LiveAddrs(heap) : x # calls[1].task =>
              /\ heap'.at[x].children = heap.at[x].children
              /\ get_child_count(heap', x) = get_child_count(heap, x)
         /\ \A x \in LiveAddrs(heap) :
              /\ heap'.at[x].id = heap.at[x].id
              /\ heap'.at[x].name = heap.at[x].name
              /\ heap'.at[x].completed = heap.at[x].completed
         /\ \A k \in 0 .. get_child_count(heap', calls[1].task) - 1 :
              heap'.at[get_child(heap', calls[1].task, k)].children = Nil
         /\ LiveAddrs(heap') = LiveAddrs(heap) \cup ChildAddrs(heap', calls[1].task)
         /\ Vacant(heap) => Vacant(heap')
<1> DEFINE a == calls[1].task
           ids == ChildRows(rows, heap.at[a].id)
           n == Cardinality(ids)
<1>1. /\ calls \in Seq(Frame) /\ calls # <<>> /\ calls[1].pc = "select" /\ Loading
      /\ heap \in Heap /\ IsTable(rows)
      /\ Shaped(heap) /\ GoesDown(heap, calls) /\ ChildlessAhead(heap, calls)
  BY DEF LoadInv, TypeOK, LoadSelect, InPc, Loading
<1>2. Stack(calls)
  BY <1>1 DEF Stack
<1>3. a \in LiveAddrs(heap) /\ a \in Addr /\ heap.at[a].children = Nil
  BY <1>1, <1>2, StackFacts DEF GoesDown, ChildlessAhead, LiveAddrs
<1>4. CASE heap' = heap
  <2>1. get_child_count(heap, a) = 0
    BY <1>3 DEF get_child_count
  <2>2. ChildAddrs(heap', a) = {}
    BY <1>4, <2>1 DEF ChildAddrs
  <2>3. QED
    BY <1>1, <1>4, <2>1, <2>2
<1>5. CASE heap' # heap
  <2>1. PICK f \in ScanOrders(ids), b \in FreeBufs(heap), room \in 1 .. MaxLen :
          GrownTo(room, n) /\ heap' = Filled(heap, a, f, n, b, room)
    BY <1>5 DEF LoadSelect
  <2>2. ids # {}
    BY <1>5 DEF LoadSelect
  <2>3. n \in Nat /\ f \in [0 .. n - 1 -> DOMAIN rows]
    BY <1>1, <2>1, ScanOrderType
  <2>4. n # 0
    <3>1. IsFiniteSet(RowIds) /\ ids \subseteq RowIds
      BY <1>1, FS_Interval, BoundFacts DEF RowIds, ChildRows, IsTable
    <3>2. QED
      BY <2>2, <3>1, FS_Subset, FS_EmptySet
  <2>5. n \in 1 .. MaxLen /\ b \in Bufs /\ heap.cap[b] = 0
    BY <2>1, <2>3, <2>4, BoundFacts DEF GrownTo, FreeBufs
  <2>6. Shaped(heap')
    BY <1>1, <1>3, <2>1, <2>3, <2>5, FilledShape
  <2>7. /\ LiveAddrs(heap) \subseteq LiveAddrs(heap')
        /\ heap'.at[a].children = b
        /\ \A x \in LiveAddrs(heap) : x # a => heap'.at[x] = heap.at[x]
        /\ \A i \in 0 .. n - 1 : heap'.at[<<b, i>>].children = Nil
        /\ heap'.len[b] = n
        /\ \A c \in Bufs \ {b} : heap'.len[c] = heap.len[c]
    <3> HIDE DEF a, n
    <3>1. LiveAddrs(heap) \subseteq LiveAddrs(heap')
      BY <1>1, <1>3, <2>1, <2>3, <2>5, FilledHeap
    <3>2. heap'.at[a].children = b /\ heap'.len[b] = n
      BY <1>1, <1>3, <2>1, <2>3, <2>5, FilledHeap
    <3>3. \A x \in LiveAddrs(heap) : x # a => heap'.at[x] = heap.at[x]
      BY <1>1, <1>3, <2>1, <2>3, <2>5, FilledHeap
    <3>4. \A i \in 0 .. n - 1 : heap'.at[<<b, i>>].children = Nil
      BY <1>1, <1>3, <2>1, <2>3, <2>5, FilledHeap
    <3>5. \A c \in Bufs \ {b} : heap'.len[c] = heap.len[c]
      BY <1>1, <1>3, <2>1, <2>3, <2>5, FilledHeap
    <3>6. QED
      BY <3>1, <3>2, <3>3, <3>4, <3>5
  <2>8. ASSUME NEW x \in LiveAddrs(heap), x # a
        PROVE  /\ heap'.at[x].children = heap.at[x].children
               /\ get_child_count(heap', x) = get_child_count(heap, x)
    <3>1. heap'.at[x].children = heap.at[x].children
      BY <2>7, <2>8
    <3>2. heap.at[x].children = Nil \/ heap.at[x].children \in Bufs \ {b}
      BY <1>1, <2>5, LiveFacts DEF Shaped
    <3>3. QED
      BY <2>7, <3>1, <3>2 DEF get_child_count
  <2>9. get_child_count(heap', a) = n
    BY <2>5, <2>7, BlocksAssumption DEF get_child_count
  <2>10. /\ heap'.at[a].id = heap.at[a].id /\ heap'.at[a].name = heap.at[a].name
         /\ heap'.at[a].completed = heap.at[a].completed
    <3> HIDE DEF a, n
    <3>1. heap'.at[a].id = heap.at[a].id
      BY <1>1, <1>3, <2>1, <2>3, <2>5, FilledHeap
    <3>2. heap'.at[a].name = heap.at[a].name
      BY <1>1, <1>3, <2>1, <2>3, <2>5, FilledHeap
    <3>3. heap'.at[a].completed = heap.at[a].completed
      BY <1>1, <1>3, <2>1, <2>3, <2>5, FilledHeap
    <3>4. QED
      BY <3>1, <3>2, <3>3
  <2>11. LiveAddrs(heap') = LiveAddrs(heap) \cup ChildAddrs(heap', a)
    <3>1. LiveAddrs(heap') = LiveAddrs(heap) \cup {<<b, i>> : i \in 0 .. n - 1}
      <4> HIDE DEF a, n
      <4>1. QED
        BY <1>1, <1>3, <2>1, <2>3, <2>5, FilledHeap
    <3>2. ChildAddrs(heap', a) = {<<b, i>> : i \in 0 .. n - 1}
      <4> HIDE DEF n
      <4>1. QED
        BY <2>7, <2>9 DEF ChildAddrs, get_child
    <3>3. QED
      BY <3>1, <3>2
  <2>12. Vacant(heap) => Vacant(heap')
    <3> HIDE DEF a, n
    <3>1. QED
      BY <1>1, <1>3, <2>1, <2>5, FilledVacant
  <2>13. QED
    BY <2>6, <2>7, <2>8, <2>9, <2>10, <2>11, <2>12 DEF get_child
<1>6. QED
  BY <1>4, <1>5

LEMMA LoadStep ==
  ASSUME LoadInv, heap' \in Heap, LoadSelect \/ LoadDescend \/ LoadReturn, Loading'
  PROVE  Shaped(heap') /\ GoesDown(heap', calls') /\ ChildlessAhead(heap', calls')
<1>1. /\ calls \in Seq(Frame) /\ calls # <<>> /\ heap \in Heap
      /\ calls[1].pc \in {"select", "load"}
  BY DEF LoadInv, TypeOK, LoadSelect, LoadDescend, LoadReturn, InPc
<1>2. /\ Stack(calls) /\ Shaped(heap) /\ GoesDown(heap, calls)
      /\ ChildlessAhead(heap, calls)
  BY <1>1 DEF Stack, LoadInv, Loading
<1>3. CASE LoadSelect
  <2>1. /\ Shaped(heap')
        /\ LiveAddrs(heap) \subseteq LiveAddrs(heap')
        /\ \A x \in LiveAddrs(heap) : x # calls[1].task =>
             /\ heap'.at[x].children = heap.at[x].children
             /\ get_child_count(heap', x) = get_child_count(heap, x)
        /\ \A k \in 0 .. get_child_count(heap', calls[1].task) - 1 :
             heap'.at[get_child(heap', calls[1].task, k)].children = Nil
    BY <1>3, SelectShape
  <2>2. calls[1].pc = "select" /\ Goto("load", 0)
    BY <1>3 DEF LoadSelect, InPc
  <2>3. /\ Len(calls') = Len(calls)
        /\ calls'[1] = At(calls[1].task, "load", 0)
        /\ \A j \in 2 .. Len(calls) : calls'[j] = calls[j]
    BY <1>1, <2>2, GotoStack
  <2>4. GoesDown(heap', calls') /\ ChildlessAhead(heap', calls')
    BY <1>1, <1>2, <2>1, <2>2, <2>3, SelectKeeps
  <2>5. QED
    BY <2>1, <2>4
<1>4. CASE LoadDescend
  <2> DEFINE c == get_child(heap, calls[1].task, calls[1].i)
  <2>1. /\ calls[1].pc = "load" /\ heap' = heap
        /\ calls[1].i < get_child_count(heap, calls[1].task)
        /\ Enter(Call(c, "select"))
    BY <1>4 DEF LoadDescend, InPc
  <2>2. c \in Addr
    BY <1>1, <2>1, TopOfStack, CountType
  <2>3. Call(c, "select") = At(c, "select", 0) /\ Call(c, "select") \in Frame
    BY <2>2, AtType DEF Call
  <2>4. /\ Len(calls') = Len(calls) + 1
        /\ calls'[1] = At(c, "select", 0)
        /\ \A j \in 2 .. Len(calls) + 1 : calls'[j] = calls[j - 1]
    BY <1>1, <2>1, <2>3, EnterStack
  <2>5. GoesDown(heap, calls') /\ ChildlessAhead(heap, calls')
    BY <1>1, <1>2, <2>1, <2>4, DescendKeeps
  <2>6. QED
    BY <1>2, <2>1, <2>5
<1>5. CASE LoadReturn
  <2>1. Return /\ heap' = heap
    BY <1>5 DEF LoadReturn
  <2>2. Len(calls) # 1
    BY <2>1 DEF Return, Loading
  <2>3. Len(calls) > 1
    <3>1. Len(calls) \in Nat \ {0}
      BY <1>1
    <3>2. \A m \in Nat \ {0} : m # 1 => m > 1
      OBVIOUS
    <3>3. Len(calls) > 1
      BY <2>2, <3>1, <3>2
    <3>4. QED
      BY <3>1, <3>3
  <2>4. /\ Len(calls') = Len(calls) - 1
        /\ calls'[1] = At(calls[2].task, calls[2].pc, calls[2].i + 1)
        /\ \A j \in 2 .. Len(calls) - 1 : calls'[j] = calls[j + 1]
    BY <1>1, <2>1, <2>3, ReturnStack
  <2>5. GoesDown(heap, calls') /\ ChildlessAhead(heap, calls')
    BY <1>1, <1>2, <2>3, <2>4, ReturnKeeps
  <2>6. QED
    BY <1>2, <2>1, <2>5
<1>6. QED
  BY <1>3, <1>4, <1>5

\* Only the constructor and the steps of a load lead to a state of a load.
LEMMA OnlyLoadsLoad ==
  ASSUME TypeOK, TypeOK', OneKind(calls), [Next]_vars, Loading'
  PROVE  \/ Start
         \/ LoadSelect \/ LoadDescend \/ LoadReturn
         \/ heap' = heap /\ calls' = calls
<1>1. /\ calls \in Seq(Frame) /\ calls' \in Seq(Frame)
      /\ calls' # <<>> /\ calls'[1].pc \in {"select", "load"}
  BY DEF TypeOK, Loading
<1>2. ~Stop /\ ~RemoveThrows
  BY <1>1 DEF Stop, RemoveThrows
<1>3. ASSUME NEW a \in Addr, Enter(Call(a, "remove"))
      PROVE  FALSE
  <2>1. Call(a, "remove") \in Frame /\ Call(a, "remove").pc = "remove"
    BY AtType DEF Call, At
  <2>2. calls'[1].pc = "remove"
    BY <1>1, <1>3, <2>1, EnterStack
  <2>3. QED
    BY <1>1, <2>2
<1>4. ASSUME NEW i, Goto("erase", i), calls # <<>>
      PROVE  FALSE
  <2>1. calls'[1] = At(calls[1].task, "erase", i)
    BY <1>1, <1>4, GotoStack
  <2>2. QED
    BY <1>1, <2>1 DEF At
<1>5. ~RemoveRow /\ ~RemoveErase
  BY <1>4 DEF RemoveRow, RemoveErase, InPc
<1>6. ~RemoveChild
  <2>1. SUFFICES ASSUME RemoveChild PROVE FALSE
    OBVIOUS
  <2>2. get_child(heap, calls[1].task, calls[1].i) \in Addr
    BY <1>1, <2>1, TopOfStack, CountType DEF RemoveChild, InPc, TypeOK
  <2>3. QED
    BY <1>3, <2>1, <2>2 DEF RemoveChild
<1>7. ~RemoveReturn
  <2>1. SUFFICES ASSUME RemoveReturn PROVE FALSE
    OBVIOUS
  <2>2. calls # <<>> /\ calls[1].pc = "erase" /\ Return
    BY <2>1 DEF RemoveReturn, InPc
  <2>3. Len(calls) # 1
    BY <1>1, <2>2 DEF Return
  <2>4. Len(calls) \in Nat /\ Len(calls) > 1 /\ 1 \in 1 .. Len(calls) /\ 2 \in 1 .. Len(calls)
    <3>1. Len(calls) \in Nat \ {0}
      BY <1>1, <2>2
    <3>2. \A m \in Nat \ {0} : m # 1 => m > 1
      OBVIOUS
    <3>3. Len(calls) > 1
      BY <2>3, <3>1, <3>2
    <3>4. QED
      BY <3>1, <3>3
  <2>5. calls'[1].pc = calls[2].pc
    BY <1>1, <2>2, <2>4, ReturnStack DEF At
  <2>6. calls[2].pc \in {"remove", "erase"}
    BY <2>2, <2>4 DEF OneKind
  <2>7. QED
    BY <1>1, <2>5, <2>6
<1>8. ~Request
  <2>1. SUFFICES ASSUME Request PROVE FALSE
    OBVIOUS
  <2>2. PICK a \in Addr :
          \/ \E name \in Names : AddChild(a, name)
          \/ Remove(a)
          \/ \E name \in Names : SetTaskName(a, name)
          \/ ToggleTaskCompleted(a)
    BY <2>1 DEF Request, LiveAddrs
  <2>3. ~Remove(a)
    BY <1>3 DEF Remove
  <2>4. calls' = calls /\ calls = <<>>
    BY <2>2, <2>3 DEF AddChild, SetTaskName, ToggleTaskCompleted, Idle
  <2>5. QED
    BY <1>1, <2>4
<1>9. QED
  BY <1>2, <1>5, <1>6, <1>7, <1>8 DEF Next, Step, Proceed, vars

LEMMA LoadInvInit == Init => LoadInv
<1>1. Init => TypeOK
  BY InitType
<1>2. QED
  BY <1>1 DEF Init, LoadInv, OneKind, Loading

LEMMA LoadInvNext ==
  ASSUME LoadInv, [Next]_vars
  PROVE  LoadInv'
<1>1. TypeOK /\ OneKind(calls)
  BY DEF LoadInv
<1>2. TypeOK'
  BY <1>1, NextType
<1>3. OneKind(calls')
  BY <1>1, <1>2, OneKindStep
<1>4. ASSUME Loading'
      PROVE  Shaped(heap') /\ GoesDown(heap', calls') /\ ChildlessAhead(heap', calls')
  <2>1. CASE Start
    <3>1. /\ heap' = EmptyHeap /\ Len(calls') = 1
          /\ calls'[1].task = head /\ calls'[1].pc = "select"
      BY <2>1 DEF Start, Call, At
    <3>2. EmptyHeap.at[head].children = Nil
      BY DEF EmptyHeap, Addr, Blank, NewTask
    <3>3. GoesDown(heap', calls')
      BY <3>1 DEF GoesDown, Alive
    <3>4. ChildlessAhead(heap', calls')
      BY <3>1, <3>2 DEF ChildlessAhead
    <3>5. QED
      BY <3>1, <3>3, <3>4, EmptyHeapShape
  <2>2. CASE LoadSelect \/ LoadDescend \/ LoadReturn
    BY <1>2, <1>4, <2>2, LoadStep DEF TypeOK
  <2>3. CASE heap' = heap /\ calls' = calls
    BY <1>4, <2>3 DEF LoadInv, Loading
  <2>4. QED
    BY <1>1, <1>2, <1>4, <2>1, <2>2, <2>3, OnlyLoadsLoad
<1>5. QED
  BY <1>2, <1>3, <1>4 DEF LoadInv

LEMMA LoadInvariant == Spec => []LoadInv
<1>1. LoadInv /\ [Next]_vars => LoadInv'
  BY LoadInvNext
<1>2. QED
  BY <1>1, LoadInvInit, PTL DEF Spec

\* A load never leaves a parent pointer that misleads: at every point of the
\* constructor, and so when it returns, whatever rows the table holds, every
\* task load_child_tasks has put in memory points to the task whose vector holds it.
THEOREM LoadsPointRight == Spec => []LoadPointersRight
<1>1. LoadInv => LoadPointersRight
  BY DEF LoadInv, Shaped, LoadPointersRight
<1>2. QED
  BY <1>1, LoadInvariant, PTL

-----------------------------------------------------------------------------
(***************************************************************************)
(* Why the Task& a call holds across its recursion stays where the call    *)
(* knows it, whatever the table says: the invariant behind                 *)
(* CallsHoldLiveTasks.  Ownership (whose vector holds a task) takes the    *)
(* place of the parent pointers, which mislead.  With another program on   *)
(* the file ids repeat and rows can be their own ancestors; ranks of the   *)
(* tasks in memory grow from owner to child all the same, as tasks only    *)
(* ever join below tasks that are there, so nothing is below itself.       *)
(***************************************************************************)

\* A free buffer is empty; a task's buffer is not free, and no other task's.
Storage(h) ==
  /\ \A b \in Bufs : h.cap[b] = 0 => h.len[b] = 0
  /\ \A p \in LiveAddrs(h) : h.at[p].children # Nil => h.cap[h.at[p].children] > 0
  /\ \A p, q \in LiveAddrs(h) :
       h.at[p].children = h.at[q].children /\ h.at[p].children # Nil => p = q

\* A task's rank is greater than its owner's.
Ranked(h, rk) ==
  /\ rk \in [LiveAddrs(h) -> Nat]
  /\ \A x \in LiveAddrs(h) \ {head} : \E p \in LiveAddrs(h) : Owns(h, p, x)
  /\ \A p, x \in LiveAddrs(h) : Owns(h, p, x) => rk[p] < rk[x]

\* The tasks in memory are one tree, below the head.
MemoryTree(h) == Storage(h) /\ Vacant(h) /\ \E rk : Ranked(h, rk)

Removing(s) == s # <<>> /\ s[1].pc \in {"remove", "erase"}

-----------------------------------------------------------------------------
(* What erasing a child does to the heap. *)

LEMMA BelowFacts ==
  ASSUME NEW h \in Heap, NEW d \in Bufs
  PROVE  /\ d \in Below(h, d) /\ Below(h, d) \subseteq Bufs
         /\ \A x \in Below(h, d) : \A i \in 0 .. h.len[x] - 1 :
              h.at[<<x, i>>].children \in Below(h, d) \cup {Nil}
         /\ \A S \in SUBSET Bufs :
              /\ d \in S
              /\ \A x \in S : \A i \in 0 .. h.len[x] - 1 :
                   h.at[<<x, i>>].children \in S \cup {Nil}
              => Below(h, d) \subseteq S
<1>1. d \in Below(h, d) /\ Below(h, d) \subseteq Bufs
  BY DEF Below
<1>2. ASSUME NEW x \in Below(h, d), NEW i \in 0 .. h.len[x] - 1
      PROVE  h.at[<<x, i>>].children \in Below(h, d) \cup {Nil}
  <2>1. x \in Bufs /\ <<x, i>> \in Addr
    BY <1>1, BoundFacts DEF Heap, Addr, Slots
  <2>2. h.at[<<x, i>>].children \in Bufs \cup {Nil}
    BY <2>1 DEF Heap, Task
  <2>3. QED
    BY <1>2, <2>2 DEF Below
<1>3. QED
  BY <1>1, <1>2 DEF Below

\* The elements of a live buffer are tasks.
LEMMA ElementAlive ==
  ASSUME NEW h \in Heap, NEW c \in Bufs, NEW i \in 0 .. h.len[c] - 1
  PROVE  <<c, i>> \in LiveAddrs(h)
BY BoundFacts DEF Heap, LiveAddrs, Alive, Addr, Slots

LEMMA OwnedFacts ==
  ASSUME NEW h \in Heap, NEW p \in LiveAddrs(h), NEW i \in Nat, i < get_child_count(h, p)
  PROVE  /\ h.at[p].children \in Bufs
         /\ get_child_count(h, p) = h.len[h.at[p].children]
         /\ get_child(h, p, i) \in LiveAddrs(h) /\ Owns(h, p, get_child(h, p, i))
<1>1. p \in Addr /\ Alive(h, p)
  BY DEF LiveAddrs
<1>2. h.at[p].children \in Bufs
  BY <1>1, CountType
<1>3. get_child_count(h, p) = h.len[h.at[p].children]
  BY <1>2, BlocksAssumption DEF get_child_count
<1>4. i \in 0 .. h.len[h.at[p].children] - 1
  BY <1>2, <1>3, BoundFacts DEF Heap
<1>5. QED
  BY <1>1, <1>2, <1>3, <1>4, ElementAlive DEF get_child, Owns

\* A task's children are the tasks it holds.
LEMMA ChildIsOwned ==
  ASSUME NEW h \in Heap, NEW p \in LiveAddrs(h), NEW x \in LiveAddrs(h)
  PROVE  Owns(h, p, x) <=> x \in ChildAddrs(h, p)
<1>1. ASSUME x \in ChildAddrs(h, p)
      PROVE  Owns(h, p, x)
  <2>1. PICK i \in 0 .. get_child_count(h, p) - 1 : x = get_child(h, p, i)
    BY <1>1 DEF ChildAddrs
  <2>2. get_child_count(h, p) \in Nat
    BY CountType, BoundFacts DEF LiveAddrs
  <2>3. QED
    BY <2>1, <2>2, OwnedFacts
<1>2. ASSUME Owns(h, p, x)
      PROVE  x \in ChildAddrs(h, p)
  <2>1. h.at[p].children = x[1] /\ x # head
    <3>1. head[1] = Root /\ h.at[p].children = x[1] /\ h.at[p].children \in Bufs \cup {Nil}
      BY <1>2, LiveFacts DEF Owns, head
    <3>2. QED
      BY <3>1, BlocksAssumption
  <2>2. x \in Bufs \X Slots /\ x[1] \in Bufs /\ x[2] \in Nat /\ x[2] < h.len[x[1]]
    BY <2>1, LiveFacts
  <2>3. x = get_child(h, p, x[2])
    <3>1. x = <<x[1], x[2]>>
      BY <2>2
    <3>2. QED
      BY <2>1, <3>1 DEF get_child
  <2>4. x[2] \in 0 .. get_child_count(h, p) - 1
    BY <2>1, <2>2, BlocksAssumption, BoundFacts DEF get_child_count, Heap
  <2>5. QED
    BY <2>3, <2>4 DEF ChildAddrs
<1>3. QED
  BY <1>1, <1>2

\* Everything below a task has a greater rank, and is reached through it.
LEMMA FreedFacts ==
  ASSUME NEW h \in Heap, Storage(h), NEW rk, Ranked(h, rk),
         NEW a \in LiveAddrs(h), NEW freed,
         freed = IF h.at[a].children = Nil THEN {} ELSE Below(h, h.at[a].children)
  PROVE  /\ freed \subseteq Bufs
         /\ h.at[a].children \in freed \cup {Nil}
         /\ \A x \in LiveAddrs(h) : x[1] \in freed =>
              rk[a] < rk[x] /\ h.at[x].children \in freed \cup {Nil}
         /\ \A p \in LiveAddrs(h) : h.at[p].children \in freed => p = a \/ p[1] \in freed
<1> DEFINE d == h.at[a].children
<1>1. CASE d = Nil
  BY <1>1, BlocksAssumption
<1>2. CASE d # Nil
  <2>1. d \in Bufs /\ freed = Below(h, d)
    BY <1>2, LiveFacts
  <2>2. freed \subseteq Bufs /\ d \in freed
    BY <2>1, BelowFacts
  <2>3. \A x \in LiveAddrs(h) : x[1] \in Bufs =>
          x = <<x[1], x[2]>> /\ x[2] \in 0 .. h.len[x[1]] - 1
    BY LiveFacts, BlocksAssumption, BoundFacts DEF head, Heap
  <2>4. \A x \in LiveAddrs(h) : x[1] \in freed => h.at[x].children \in freed \cup {Nil}
    BY <2>1, <2>2, <2>3, BelowFacts
  <2>5. ASSUME NEW x \in LiveAddrs(h), x[1] \in freed
        PROVE  rk[a] < rk[x]
    <3> DEFINE S == {c \in Bufs : \A i \in 0 .. h.len[c] - 1 : rk[a] < rk[<<c, i>>]}
    <3>1. d \in S
      <4>1. \A i \in 0 .. h.len[d] - 1 : <<d, i>> \in LiveAddrs(h) /\ Owns(h, a, <<d, i>>)
        BY <2>1, ElementAlive DEF Owns, LiveAddrs
      <4>2. QED
        BY <2>1, <4>1 DEF Ranked
    <3>2. ASSUME NEW c \in S, NEW i \in 0 .. h.len[c] - 1, h.at[<<c, i>>].children # Nil
          PROVE  h.at[<<c, i>>].children \in S
      <4> DEFINE e == <<c, i>>
                 y == h.at[e].children
      <4>1. e \in LiveAddrs(h) /\ rk[a] < rk[e]
        BY <3>2, ElementAlive
      <4>2. y \in Bufs
        BY <3>2, <4>1, LiveFacts
      <4>3. ASSUME NEW j \in 0 .. h.len[y] - 1 PROVE rk[a] < rk[<<y, j>>]
        <5>1. <<y, j>> \in LiveAddrs(h) /\ Owns(h, e, <<y, j>>)
          BY <4>1, <4>2, ElementAlive DEF Owns, LiveAddrs
        <5>2. rk[e] < rk[<<y, j>>]
          BY <4>1, <5>1 DEF Ranked
        <5>3. rk[e] \in Int /\ rk[a] \in Int /\ rk[<<y, j>>] \in Int
          BY <4>1, <5>1 DEF Ranked
        <5>4. QED
          BY <4>1, <5>2, <5>3
      <4>4. QED
        BY <4>2, <4>3
    <3>3. Below(h, d) \subseteq S
      <4> HIDE DEF S
      <4>1. S \in SUBSET Bufs
        BY DEF S
      <4>2. QED
        BY <2>1, <3>1, <3>2, <4>1, BelowFacts
    <3>4. QED
      BY <2>1, <2>2, <2>3, <2>5, <3>3
  <2>6. ASSUME NEW p \in LiveAddrs(h), h.at[p].children \in freed, p # a, p[1] \notin freed
        PROVE  FALSE
    <3> DEFINE c == h.at[p].children
               S == freed \ {c}
    <3>1. c # Nil /\ c # d
      BY <1>2, <2>2, <2>6, BlocksAssumption DEF Storage
    <3>2. ASSUME NEW x \in S, NEW i \in 0 .. h.len[x] - 1
          PROVE  h.at[<<x, i>>].children \in S \cup {Nil}
      <4>1. <<x, i>> \in LiveAddrs(h) /\ <<x, i>> # p
        BY <2>2, <2>6, ElementAlive
      <4>2. h.at[<<x, i>>].children # c
        BY <3>1, <4>1 DEF Storage
      <4>3. h.at[<<x, i>>].children \in freed \cup {Nil}
        BY <2>1, BelowFacts
      <4>4. QED
        BY <4>2, <4>3
    <3>3. S \in SUBSET Bufs /\ d \in S
      BY <2>2, <3>1
    <3>4. Below(h, d) \subseteq S
      <4> HIDE DEF S
      <4>1. QED
        BY <2>1, <3>2, <3>3, BelowFacts
    <3>5. QED
      BY <2>1, <2>6, <3>4
  <2>7. QED
    BY <2>2, <2>4, <2>5, <2>6
<1>3. QED
  BY <1>1, <1>2

\* After children.erase the tasks that are left are those that were there, moved
\* by m: all but the one erased and what was below it, each held by the same task.
LEMMA EraseMoves ==
  ASSUME NEW h \in Heap, Storage(h), NEW rk, Ranked(h, rk),
         NEW q \in LiveAddrs(h), NEW k \in Nat, k < get_child_count(h, q),
         NEW a, a = get_child(h, q, k), NEW g, g = EraseChild(h, q, k)
  PROVE  /\ Vacant(h) => Vacant(g)
         /\ \E m \in [LiveAddrs(g) -> LiveAddrs(h)] :
           /\ m[head] = head
           /\ \A x, y \in LiveAddrs(g) : m[x] = m[y] => x = y
           /\ \A x \in LiveAddrs(g) : g.at[x] = h.at[m[x]] /\ m[x][1] = x[1] /\ m[x] # a
           /\ \A p \in LiveAddrs(g), c \in LiveAddrs(h) :
                Owns(h, m[p], c) /\ c # a => \E x \in LiveAddrs(g) : m[x] = c
           /\ \A c \in LiveAddrs(h) : c # a /\ c[1] = a[1] => \E x \in LiveAddrs(g) : m[x] = c
           /\ \A x \in LiveAddrs(g) \ {head} : \E p \in LiveAddrs(g) : Owns(h, m[p], m[x])
           /\ \A x \in LiveAddrs(h) : rk[x] <= rk[q] =>
                x \in LiveAddrs(g) /\ m[x] = x
           /\ \A c \in Bufs : g.cap[c] = 0 => g.len[c] = 0
           /\ \A p \in LiveAddrs(g) : g.at[p].children # Nil => g.cap[g.at[p].children] > 0
<1> DEFINE b == h.at[q].children
           last == h.len[b] - 1
           freed == IF h.at[a].children = Nil THEN {} ELSE Below(h, h.at[a].children)
           src(x) == IF x[1] = b /\ k <= x[2] THEN <<b, x[2] + 1>> ELSE x
<1>1. /\ b \in Bufs /\ a = <<b, k>> /\ a \in LiveAddrs(h) /\ Owns(h, q, a)
      /\ last \in Nat /\ k <= last /\ h.len[b] \in Nat
  <2>1. b \in Bufs /\ get_child_count(h, q) = h.len[b] /\ a \in LiveAddrs(h) /\ Owns(h, q, a)
    BY OwnedFacts
  <2>2. h.len[b] \in Nat /\ k < h.len[b]
    BY <2>1, BoundFacts DEF Heap
  <2>3. a = <<b, k>>
    BY DEF get_child
  <2> HIDE DEF b
  <2>4. QED
    BY <2>1, <2>2, <2>3
<1>2. /\ freed \subseteq Bufs
      /\ h.at[a].children \in freed \cup {Nil}
      /\ \A x \in LiveAddrs(h) : x[1] \in freed =>
           rk[a] < rk[x] /\ h.at[x].children \in freed \cup {Nil}
      /\ \A p \in LiveAddrs(h) : h.at[p].children \in freed => p = a \/ p[1] \in freed
  <2>1. freed = IF h.at[a].children = Nil THEN {} ELSE Below(h, h.at[a].children)
    OBVIOUS
  <2> HIDE DEF freed
  <2>2. QED
    BY <1>1, <2>1, FreedFacts
<1>3. b \notin freed
  BY <1>1, <1>2, BoundFacts DEF Ranked
<1>4. /\ \A x \in Addr : g.at[x] =
           IF x[1] = b /\ k <= x[2] /\ x[2] < last THEN h.at[<<b, x[2] + 1>>]
           ELSE IF (x[1] = b /\ x[2] = last) \/ x[1] \in freed THEN Blank
           ELSE h.at[x]
      /\ \A c \in Bufs :
           /\ g.len[c] = (IF c \in freed THEN 0 ELSE IF c = b THEN last ELSE h.len[c])
           /\ g.cap[c] = IF c \in freed THEN 0 ELSE h.cap[c]
  <2>1. a = <<h.at[q].children, k>>
    BY <1>1
  <2>2. g = [at  |-> [x \in Addr |->
                IF x[1] = b /\ k <= x[2] /\ x[2] < last THEN h.at[<<b, x[2] + 1>>]
                ELSE IF x = <<b, last>> \/ x[1] \in freed THEN Blank
                ELSE h.at[x]],
             len |-> [c \in Bufs |-> IF c \in freed THEN 0
                                     ELSE IF c = b THEN last ELSE h.len[c]],
             cap |-> [c \in Bufs |-> IF c \in freed THEN 0 ELSE h.cap[c]]]
    BY <2>1 DEF EraseChild
  <2> HIDE DEF b, last, freed
  <2>3. g.at = [x \in Addr |->
                IF x[1] = b /\ k <= x[2] /\ x[2] < last THEN h.at[<<b, x[2] + 1>>]
                ELSE IF x = <<b, last>> \/ x[1] \in freed THEN Blank
                ELSE h.at[x]]
    BY <2>2
  <2>4. /\ g.len = [c \in Bufs |-> IF c \in freed THEN 0
                                   ELSE IF c = b THEN last ELSE h.len[c]]
        /\ g.cap = [c \in Bufs |-> IF c \in freed THEN 0 ELSE h.cap[c]]
    BY <2>2
  <2>5. \A x \in Addr : x = <<b, last>> <=> x[1] = b /\ x[2] = last
    BY <1>1 DEF Addr, head
  <2>6. QED
    BY <2>3, <2>4, <2>5
<1>5. rk[q] < rk[a] /\ q # a
  <2>1. rk[q] < rk[a]
    BY <1>1 DEF Ranked
  <2>2. rk[q] \in Int
    BY DEF Ranked
  <2>3. QED
    BY <2>1, <2>2
<1> HIDE DEF b, last, freed
<1>6. head[1] = Root /\ Root \notin Bufs /\ head \in Addr
  BY BlocksAssumption DEF head, Addr
<1>7. ASSUME NEW x \in LiveAddrs(g)
      PROVE  /\ src(x) \in LiveAddrs(h) /\ src(x)[1] = x[1] /\ src(x) # a
             /\ x # head => x[1] \in Bufs \ freed
             /\ g.at[x] = h.at[src(x)]
             /\ x = head => src(x) = head
             /\ x # head => x = <<x[1], x[2]>> /\ x[2] \in Nat
  <2>1. CASE x = head
    BY <1>1, <1>2, <1>4, <1>6, <2>1 DEF LiveAddrs, Alive
  <2>2. CASE x # head
    <3>1. x \in Addr /\ x \in Bufs \X Slots /\ x[1] \in Bufs /\ x[2] < g.len[x[1]]
      <4>1. x \in Addr /\ x[1] \in Bufs /\ x[2] < g.len[x[1]]
        BY <2>2 DEF LiveAddrs, Alive
      <4>2. QED
        BY <2>2, <4>1 DEF Addr
    <3>2. x = <<x[1], x[2]>> /\ x[2] \in Nat
      BY <3>1, BoundFacts DEF Slots
    <3>3. x[1] \notin freed
      BY <1>4, <3>1, <3>2
    <3>4. CASE x[1] # b
      <4>1. src(x) = x /\ g.at[x] = h.at[x] /\ g.len[x[1]] = h.len[x[1]]
        BY <1>4, <3>1, <3>3, <3>4
      <4>2. x \in LiveAddrs(h)
        BY <3>1, <4>1 DEF LiveAddrs, Alive
      <4>3. x # a
        BY <1>1, <3>4
      <4>4. QED
        BY <2>2, <3>1, <3>2, <3>3, <4>1, <4>2, <4>3
    <3>5. CASE x[1] = b
      <4>1. x[2] < last
        BY <1>3, <1>4, <3>1, <3>5
      <4>2. CASE k <= x[2]
        <5> DEFINE y == <<b, x[2] + 1>>
        <5>1. src(x) = y /\ y[1] = b /\ y # a
          BY <1>1, <3>2, <3>5, <4>2
        <5>2. x[2] + 1 \in 0 .. h.len[b] - 1
          BY <1>1, <3>2, <4>1 DEF last
        <5>3. y \in LiveAddrs(h)
          BY <1>1, <5>2, ElementAlive
        <5>4. g.at[x] = h.at[y]
          BY <1>4, <3>1, <3>5, <4>1, <4>2
        <5> HIDE DEF y
        <5>5. QED
          BY <2>2, <3>2, <3>3, <3>5, <5>1, <5>3, <5>4, <3>1
      <4>3. CASE ~(k <= x[2])
        <5>1. src(x) = x /\ x # a
          BY <1>1, <3>2, <4>3
        <5>2. g.at[x] = h.at[x]
          BY <1>1, <1>4, <3>1, <3>2, <3>3, <4>1, <4>3
        <5>3. x[2] \in 0 .. h.len[b] - 1
          BY <1>1, <3>2, <4>1 DEF last
        <5>4. x \in LiveAddrs(h)
          BY <1>1, <3>2, <3>5, <5>3, ElementAlive
        <5>5. QED
          BY <2>2, <3>1, <3>2, <3>3, <5>1, <5>2, <5>4
      <4>4. QED
        BY <4>2, <4>3
    <3>6. QED
      BY <3>4, <3>5
  <2>3. QED
    BY <2>1, <2>2
<1>8. ASSUME NEW y \in LiveAddrs(h), y # a, y[1] \notin freed
      PROVE  \E x \in LiveAddrs(g) : src(x) = y
  <2>1. CASE y = head \/ y[1] # b
    <3>1. src(y) = y
      BY <1>1, <1>6, <2>1
    <3>2. y \in LiveAddrs(g)
      BY <1>4, <1>8, <2>1 DEF LiveAddrs, Alive
    <3>3. QED
      BY <3>1, <3>2
  <2>2. CASE y # head /\ y[1] = b
    <3>1. y = <<b, y[2]>> /\ y[2] \in Nat /\ y[2] < h.len[b] /\ y[2] # k
      BY <1>1, <1>8, <2>2, LiveFacts
    <3>2. h.len[b] <= MaxLen /\ last = h.len[b] - 1 /\ g.len[b] = last
      BY <1>1, <1>3, <1>4, BoundFacts DEF Heap, last
    <3> DEFINE n == IF y[2] < k THEN y[2] ELSE y[2] - 1
               x == <<b, n>>
    <3>3. n \in 0 .. last - 1 /\ (IF k <= n THEN n + 1 ELSE n) = y[2]
      BY <1>1, <3>1, <3>2
    <3> HIDE DEF n
    <3>4. x \in LiveAddrs(g)
      BY <1>1, <3>2, <3>3, BoundFacts DEF LiveAddrs, Alive, Addr, Slots
    <3>5. src(x) = y
      BY <3>1, <3>3
    <3>6. QED
      BY <3>4, <3>5
  <2>3. QED
    BY <2>1, <2>2
<1>9. ASSUME NEW x \in LiveAddrs(g), NEW y \in LiveAddrs(g), src(x) = src(y)
      PROVE  x = y
  <2>1. x[1] = y[1] /\ (x = head <=> y = head)
    BY <1>6, <1>7, <1>9
  <2>2. CASE x = head
    BY <2>1, <2>2
  <2>3. CASE x # head
    <3>1. x = <<x[1], x[2]>> /\ x[2] \in Nat /\ y = <<y[1], y[2]>> /\ y[2] \in Nat
      BY <1>7, <2>1, <2>3
    <3>2. x[2] = y[2]
      <4>1. src(x)[2] = (IF x[1] = b /\ k <= x[2] THEN x[2] + 1 ELSE x[2])
        OBVIOUS
      <4>2. src(y)[2] = (IF y[1] = b /\ k <= y[2] THEN y[2] + 1 ELSE y[2])
        OBVIOUS
      <4> HIDE DEF src
      <4>3. QED
        BY <1>9, <2>1, <3>1, <4>1, <4>2
    <3>3. QED
      BY <2>1, <3>1, <3>2
  <2>4. QED
    BY <2>2, <2>3
<1>10. ASSUME NEW x \in LiveAddrs(h), rk[x] <= rk[q]
       PROVE  x \in LiveAddrs(g) /\ src(x) = x
  <2>1. rk[q] < rk[a] /\ rk[q] \in Int /\ rk[x] \in Int /\ rk[a] \in Int
    BY <1>1, BoundFacts DEF Ranked
  <2>2. x # a /\ x[1] \notin freed
    BY <1>2, <1>10, <2>1
  <2>3. x[1] # b
    <3>1. SUFFICES ASSUME x[1] = b PROVE FALSE
      OBVIOUS
    <3>2. Owns(h, q, x)
      BY <3>1 DEF Owns, LiveAddrs, b
    <3>3. rk[q] < rk[x]
      BY <3>2 DEF Ranked
    <3>4. QED
      BY <1>10, <2>1, <3>3
  <2>4. src(x) = x
    BY <2>3
  <2>5. x \in LiveAddrs(g)
    BY <1>4, <2>2, <2>3 DEF LiveAddrs, Alive
  <2>6. QED
    BY <2>4, <2>5
<1>11. \A p \in LiveAddrs(g) : h.at[src(p)].children \notin freed
  <2>1. SUFFICES ASSUME NEW p \in LiveAddrs(g), h.at[src(p)].children \in freed
                 PROVE  FALSE
    OBVIOUS
  <2>2. src(p) \in LiveAddrs(h) /\ src(p) # a /\ src(p)[1] \in freed
    BY <1>2, <1>7, <2>1
  <2>3. p[1] \in freed /\ p # head
    BY <1>2, <1>6, <1>7, <2>2
  <2>4. QED
    BY <1>7, <2>3
<1>12. ASSUME NEW p \in LiveAddrs(g), NEW c \in LiveAddrs(h), Owns(h, src(p), c), c # a
       PROVE  \E x \in LiveAddrs(g) : src(x) = c
  BY <1>8, <1>11, <1>12 DEF Owns
<1>13. ASSUME NEW x \in LiveAddrs(g) \ {head}
       PROVE  \E p \in LiveAddrs(g) : Owns(h, src(p), src(x))
  <2>1. src(x) \in LiveAddrs(h) /\ src(x) # head /\ src(x)[1] = x[1] /\ x[1] \in Bufs \ freed
    BY <1>6, <1>7
  <2>2. PICK p \in LiveAddrs(h) : Owns(h, p, src(x))
    BY <2>1 DEF Ranked
  <2>3. h.at[p].children = x[1]
    BY <2>1, <2>2 DEF Owns
  <2>4. p # a /\ p[1] \notin freed
    BY <1>1, <1>2, <2>1, <2>3, BlocksAssumption
  <2>5. QED
    BY <1>8, <2>2, <2>4
<1>14. ASSUME NEW p \in LiveAddrs(g), g.at[p].children # Nil
       PROVE  g.cap[g.at[p].children] > 0
  <2>1. src(p) \in LiveAddrs(h) /\ g.at[p] = h.at[src(p)] /\ h.at[src(p)].children \notin freed
    BY <1>7, <1>11
  <2>2. h.at[src(p)].children \in Bufs /\ h.cap[h.at[src(p)].children] > 0
    BY <1>14, <2>1, LiveFacts DEF Storage
  <2>3. QED
    BY <1>4, <2>1, <2>2
<1>15. \A c \in Bufs : g.cap[c] = 0 => g.len[c] = 0
  <2>1. h.cap[b] > 0 /\ b # Nil
    BY <1>1, BlocksAssumption DEF Storage, b
  <2>2. QED
    BY <1>4, <2>1 DEF Storage
<1>16. \A c \in LiveAddrs(h) : c # a /\ c[1] = a[1] => \E x \in LiveAddrs(g) : src(x) = c
  BY <1>1, <1>3, <1>8
<1>17. ASSUME Vacant(h), NEW x \in Addr \ LiveAddrs(g)
       PROVE  g.at[x].children = Nil
  <2>1. x # head /\ x \in Bufs \X Slots /\ x[1] \in Bufs /\ x[2] \in Nat /\ ~(x[2] < g.len[x[1]])
    BY <1>17, BoundFacts DEF LiveAddrs, Alive, Addr, Slots
  <2>2. CASE x[1] \in freed
    BY <1>3, <1>4, <2>1, <2>2, BlankChildless
  <2>3. CASE x[1] \notin freed
    <3>1. CASE x \in LiveAddrs(h)
      <4>1. x[1] = b /\ x[2] = last
        <5>1. x[2] < h.len[x[1]]
          BY <2>1, <3>1 DEF LiveAddrs, Alive
        <5>2. x[1] = b
          BY <1>4, <2>1, <2>3, <5>1
        <5>3. h.len[b] = last + 1 /\ g.len[b] = last
          BY <1>1, <1>3, <1>4 DEF last
        <5>4. QED
          BY <1>1, <2>1, <5>1, <5>2, <5>3
      <4>2. QED
        <5>1. x \in Addr /\ ~(x[2] < last)
          BY <1>1, <1>17, <4>1
        <5>2. g.at[x] = Blank
          BY <1>4, <4>1, <5>1
        <5>3. QED
          BY <5>2, BlankChildless
    <3>2. CASE x \notin LiveAddrs(h)
      <4>1. ~(x[2] < last) \/ x[1] # b
        BY <1>3, <1>4, <2>1, <2>3
      <4>2. g.at[x] = Blank \/ g.at[x] = h.at[x]
        BY <1>4, <1>17, <4>1
      <4>3. QED
        BY <1>17, <3>2, <4>2, BlankChildless DEF Vacant
    <3>3. QED
      BY <3>1, <3>2
  <2>4. QED
    BY <2>2, <2>3
<1> DEFINE m == [x \in LiveAddrs(g) |-> src(x)]
<1> HIDE DEF src
<1>18. m \in [LiveAddrs(g) -> LiveAddrs(h)] /\ \A x \in LiveAddrs(g) : m[x] = src(x)
  BY <1>7
<1>19. head \in LiveAddrs(g)
  BY <1>6 DEF LiveAddrs, Alive
<1> HIDE DEF m
<1>20. QED
  <2>1. m[head] = head
    BY <1>7, <1>18, <1>19
  <2>2. \A x, y \in LiveAddrs(g) : m[x] = m[y] => x = y
    BY <1>9, <1>18
  <2>3. \A x \in LiveAddrs(g) : g.at[x] = h.at[m[x]] /\ m[x][1] = x[1] /\ m[x] # a
    BY <1>7, <1>18
  <2>4. \A p \in LiveAddrs(g), c \in LiveAddrs(h) :
          Owns(h, m[p], c) /\ c # a => \E x \in LiveAddrs(g) : m[x] = c
    BY <1>12, <1>18
  <2>5. \A x \in LiveAddrs(g) \ {head} : \E p \in LiveAddrs(g) : Owns(h, m[p], m[x])
    BY <1>13, <1>18
  <2>6. \A x \in LiveAddrs(h) : rk[x] <= rk[q] => x \in LiveAddrs(g) /\ m[x] = x
    BY <1>10, <1>18
  <2>7. \A c \in LiveAddrs(h) : c # a /\ c[1] = a[1] => \E x \in LiveAddrs(g) : m[x] = c
    BY <1>16, <1>18
  <2>8. QED
    <3>1. Vacant(h) => Vacant(g)
      BY <1>17 DEF Vacant
    <3>2. QED
      BY <1>14, <1>15, <1>18, <2>1, <2>2, <2>3, <2>4, <2>5, <2>6, <2>7, <3>1

-----------------------------------------------------------------------------
(* What adding a child does to the heap. *)

\* After push_back the tasks that were there are still there, moved by m, each
\* held by the same task; y is new, childless and held by a.
Joined(h, g, a, y, m) ==
  /\ m \in [LiveAddrs(h) -> LiveAddrs(g)]
  /\ y \in LiveAddrs(g)
  /\ m[head] = head /\ m[a] = a
  /\ \A p, x \in LiveAddrs(h) : m[p] = m[x] => p = x
  /\ \A z \in LiveAddrs(g) : z = y <=> \A x \in LiveAddrs(h) : m[x] # z
  /\ \A x \in LiveAddrs(h) :
       /\ g.at[m[x]].id = h.at[x].id
       /\ g.at[m[x]].name = h.at[x].name
       /\ g.at[m[x]].completed = h.at[x].completed
  /\ \A p, x \in LiveAddrs(h) : Owns(g, m[p], m[x]) <=> Owns(h, p, x)
  /\ \A p \in LiveAddrs(h) : Owns(g, m[p], y) <=> p = a
  /\ \A z \in LiveAddrs(g) : ~Owns(g, y, z)

LEMMA PushInPlaceJoins ==
  ASSUME NEW h \in Heap, Storage(h), NEW a \in LiveAddrs(h),
         NEW b, b = h.at[a].children, b # Nil, h.len[b] < h.cap[b],
         NEW t, t.children = Nil, NEW g, g = PushInPlace(h, a, t)
  PROVE  /\ Storage(g)
         /\ \E m : Joined(h, g, a, <<b, h.len[b]>>, m)
         /\ g.at[<<b, h.len[b]>>] = t
         /\ Vacant(h) => Vacant(g)
<1> DEFINE n == h.len[b]
           y == <<b, n>>
           m == [x \in LiveAddrs(h) |-> x]
<1>1. b \in Bufs /\ n \in Nat /\ n < MaxLen
  BY LiveFacts, BoundFacts DEF Heap
<1>2. y \in Addr /\ y[1] = b /\ y[2] = n /\ y # head /\ b # Root /\ b # Nil
  BY <1>1, BlocksAssumption, BoundFacts DEF Addr, Slots, head
<1>3. y \notin LiveAddrs(h)
  BY <1>1, <1>2 DEF LiveAddrs, Alive
<1>4. /\ g.at[y] = t
      /\ \A x \in Addr : x # y => g.at[x] = h.at[x]
      /\ g.cap = h.cap
      /\ g.len[b] = n + 1
      /\ \A c \in Bufs : c # b => g.len[c] = h.len[c]
  <2>1. g.at = [h.at EXCEPT ![y] = t] /\ g.len = [h.len EXCEPT ![b] = n + 1] /\ g.cap = h.cap
    BY DEF PushInPlace
  <2> HIDE DEF y
  <2>2. QED
    BY <1>1, <1>2, <2>1 DEF Heap
<1> HIDE DEF n
<1>5. \A z : z \in LiveAddrs(g) <=> z = y \/ z \in LiveAddrs(h)
  <2>1. ASSUME NEW z \in LiveAddrs(g), z # y PROVE z \in LiveAddrs(h)
    <3>1. z = head \/ (z \in Addr /\ z[1] \in Bufs /\ z[2] < g.len[z[1]])
      BY DEF LiveAddrs, Alive
    <3>2. z # head => z[2] \in Nat /\ z = <<z[1], z[2]>>
      BY <3>1, BoundFacts DEF Addr, Slots, LiveAddrs
    <3>3. CASE z[1] = b /\ z # head
      <4>1. z[2] # n
        BY <2>1, <3>2, <3>3
      <4>2. z[2] < n
        BY <1>1, <1>4, <3>1, <3>2, <3>3, <4>1
      <4>3. QED
        BY <3>1, <3>3, <4>2 DEF LiveAddrs, Alive, n
    <3>4. CASE z[1] # b \/ z = head
      BY <1>4, <3>1, <3>4 DEF LiveAddrs, Alive
    <3>5. QED
      BY <3>3, <3>4
  <2>2. ASSUME NEW z \in LiveAddrs(h) PROVE z \in LiveAddrs(g)
    <3>1. z = head \/ (z \in Addr /\ z[1] \in Bufs /\ z[2] \in Nat /\ z[2] < h.len[z[1]])
      BY LiveFacts
    <3>2. z # head => z[2] < g.len[z[1]]
      BY <1>1, <1>4, <3>1 DEF n
    <3>3. QED
      BY <3>1, <3>2 DEF LiveAddrs, Alive
  <2>3. y \in LiveAddrs(g)
    BY <1>1, <1>2, <1>4 DEF LiveAddrs, Alive
  <2>4. QED
    BY <2>1, <2>2, <2>3
<1> HIDE DEF y
<1>6. \A x \in LiveAddrs(h) : x # y /\ g.at[x] = h.at[x]
  BY <1>3, <1>4 DEF LiveAddrs
<1>7. Storage(g)
  BY <1>1, <1>4, <1>5, <1>6 DEF Storage
<1>8. /\ \A p, x \in LiveAddrs(h) : Owns(g, p, x) <=> Owns(h, p, x)
      /\ \A p \in LiveAddrs(h) : Owns(g, p, y) <=> p = a
      /\ \A z \in LiveAddrs(g) : ~Owns(g, y, z)
  <2>1. \A z \in LiveAddrs(g) : z[1] # Nil
    BY BlocksAssumption DEF LiveAddrs, Addr, head
  <2>2. QED
    BY <1>2, <1>4, <1>5, <1>6, <2>1 DEF Owns, LiveAddrs, Storage
<1>9. head \in LiveAddrs(h)
  BY DEF LiveAddrs, Alive, Addr
<1>10. Joined(h, g, a, y, m)
  BY <1>5, <1>6, <1>8, <1>9 DEF Joined
<1>11. Vacant(h) => Vacant(g)
  BY <1>4, <1>5 DEF Vacant
<1>12. QED
  BY <1>4, <1>7, <1>10, <1>11 DEF y, n

LEMMA PushMovingJoins ==
  ASSUME NEW h \in Heap, Storage(h), NEW rk, Ranked(h, rk), NEW a \in LiveAddrs(h),
         NEW new \in FreeBufs(h), 2 * get_child_count(h, a) <= MaxLen,
         NEW t, t.children = Nil, NEW g, g = PushMoving(h, a, t, new)
  PROVE  /\ Storage(g)
         /\ \E m : Joined(h, g, a, <<new, get_child_count(h, a)>>, m)
         /\ g.at[<<new, get_child_count(h, a)>>] = t
         /\ Vacant(h) => Vacant(g)
<1> DEFINE old == h.at[a].children
           n == get_child_count(h, a)
           y == <<new, n>>
           mv(x) == IF x[1] = old THEN <<new, x[2]>> ELSE x
           m == [x \in LiveAddrs(h) |-> mv(x)]
<1>1. /\ new \in Bufs /\ h.cap[new] = 0 /\ h.len[new] = 0 /\ n \in Nat /\ n < MaxLen
      /\ new # Nil /\ new # Root /\ old # Root
      /\ old \in Bufs \cup {Nil} /\ n = (IF old = Nil THEN 0 ELSE h.len[old])
  <2>1. a \in Addr /\ n \in 0 .. MaxLen
    BY CountType DEF LiveAddrs
  <2>2. new \in Bufs /\ h.cap[new] = 0 /\ h.len[new] = 0
    BY DEF FreeBufs, Storage
  <2>3. old \in Bufs \cup {Nil} /\ n = (IF old = Nil THEN 0 ELSE h.len[old])
    BY LiveFacts DEF get_child_count
  <2> HIDE DEF n, old
  <2>4. n < MaxLen
    BY <2>1, BoundFacts DEF n
  <2>5. QED
    BY <2>1, <2>2, <2>3, <2>4, BlocksAssumption
<1>2. y \in Addr /\ y[1] = new /\ y[2] = n /\ y # head
  BY <1>1, BlocksAssumption, BoundFacts DEF Addr, Slots, head
<1>3. old # new
  BY <1>1 DEF Storage
<1>4. a[1] # old /\ a[1] # new
  <2>1. ~Owns(h, a, a)
    BY DEF Ranked
  <2>2. QED
    BY <1>1, <2>1, LiveFacts, BlocksAssumption DEF Owns, LiveAddrs, head
<1>5. /\ \A x \in Addr : g.at[x] =
           IF x = a THEN [h.at[x] EXCEPT !.children = new]
           ELSE IF x[1] = new /\ x[2] = n THEN t
           ELSE IF x[1] = new /\ x[2] < n THEN h.at[<<old, x[2]>>]
           ELSE IF x[1] = old THEN Blank
           ELSE h.at[x]
      /\ \A c \in Bufs : g.len[c] = (IF c = new THEN n + 1 ELSE IF c = old THEN 0 ELSE h.len[c])
      /\ \A c \in Bufs : g.cap[c] = (IF c = new THEN IF n = 0 THEN 1 ELSE 2 * n
                                     ELSE IF c = old THEN 0 ELSE h.cap[c])
  <2>1. g = [at  |-> [x \in Addr |->
                        IF x = a THEN [h.at[x] EXCEPT !.children = new]
                        ELSE IF x = <<new, n>> THEN t
                        ELSE IF x[1] = new /\ x[2] < n THEN h.at[<<old, x[2]>>]
                        ELSE IF x[1] = old THEN Blank
                        ELSE h.at[x]],
             len |-> [c \in Bufs |-> IF c = new THEN n + 1 ELSE IF c = old THEN 0 ELSE h.len[c]],
             cap |-> [c \in Bufs |-> IF c = new THEN IF n = 0 THEN 1 ELSE 2 * n
                                     ELSE IF c = old THEN 0 ELSE h.cap[c]]]
    BY DEF PushMoving
  <2> HIDE DEF n, old
  <2>2. \A x \in Addr : x = <<new, n>> <=> x[1] = new /\ x[2] = n
    BY <1>1 DEF Addr, head
  <2>3. g.at = [x \in Addr |->
                        IF x = a THEN [h.at[x] EXCEPT !.children = new]
                        ELSE IF x = <<new, n>> THEN t
                        ELSE IF x[1] = new /\ x[2] < n THEN h.at[<<old, x[2]>>]
                        ELSE IF x[1] = old THEN Blank
                        ELSE h.at[x]]
    BY <2>1
  <2>4. /\ g.len = [c \in Bufs |-> IF c = new THEN n + 1 ELSE IF c = old THEN 0 ELSE h.len[c]]
        /\ g.cap = [c \in Bufs |-> IF c = new THEN IF n = 0 THEN 1 ELSE 2 * n
                                   ELSE IF c = old THEN 0 ELSE h.cap[c]]
    BY <2>1
  <2>5. QED
    BY <2>2, <2>3, <2>4
<1>6. a \in Addr /\ h.at[a] \in Task /\ h.at[a].children = old
  BY DEF LiveAddrs, Heap
<1> HIDE DEF n, old
<1>7. ASSUME NEW x \in LiveAddrs(h)
      PROVE  /\ mv(x) \in LiveAddrs(g) /\ mv(x) # y
             /\ mv(x)[1] = (IF x[1] = old THEN new ELSE x[1])
             /\ x[1] # new
             /\ g.at[mv(x)].children = (IF x = a THEN new ELSE h.at[x].children)
             /\ g.at[mv(x)].id = h.at[x].id
             /\ g.at[mv(x)].name = h.at[x].name
             /\ g.at[mv(x)].completed = h.at[x].completed
  <2>1. x[1] # new
    BY <1>1, LiveFacts, BlocksAssumption DEF head
  <2>2. CASE x[1] # old
    <3>1. mv(x) = x /\ mv(x) # y
      BY <1>2, <2>1, <2>2
    <3>2. x \in LiveAddrs(g)
      BY <1>5, <2>1, <2>2 DEF LiveAddrs, Alive
    <3>3. x # a => g.at[x] = h.at[x]
      BY <1>5, <2>1, <2>2 DEF LiveAddrs
    <3>4. g.at[a] = [h.at[a] EXCEPT !.children = new]
      BY <1>5, <1>6
    <3>5. /\ g.at[a].children = new /\ g.at[a].id = h.at[a].id
          /\ g.at[a].name = h.at[a].name /\ g.at[a].completed = h.at[a].completed
      BY <1>6, <3>4 DEF Task
    <3>6. QED
      BY <2>1, <2>2, <3>1, <3>2, <3>3, <3>5
  <2>3. CASE x[1] = old
    <3>1. /\ x # head /\ x = <<old, x[2]>> /\ x[2] \in Nat /\ old \in Bufs
          /\ x[2] < n /\ x # a
      BY <1>1, <1>4, <2>3, LiveFacts, BlocksAssumption DEF head
    <3> DEFINE z == <<new, x[2]>>
    <3>2. mv(x) = z /\ z[1] = new /\ z[2] = x[2] /\ z # a /\ z # y
      BY <1>2, <1>4, <2>3, <3>1
    <3>3. z \in Addr
      BY <1>1, <3>1, BoundFacts DEF Addr, Slots
    <3> HIDE DEF z
    <3>4. g.at[z] = h.at[<<old, z[2]>>]
      BY <1>1, <1>5, <3>1, <3>2, <3>3
    <3>5. g.at[z] = h.at[x]
      BY <3>1, <3>2, <3>4
    <3>6. z \in LiveAddrs(g)
      BY <1>1, <1>5, <3>1, <3>2, <3>3 DEF LiveAddrs, Alive
    <3>7. QED
      BY <2>1, <2>3, <3>1, <3>2, <3>5, <3>6
  <2>4. QED
    BY <2>2, <2>3
<1>8. y \in LiveAddrs(g) /\ g.at[y] = t
  <2>1. g.len[new] = n + 1
    BY <1>1, <1>5
  <2> HIDE DEF y
  <2>2. y \in LiveAddrs(g)
    BY <1>1, <1>2, <2>1 DEF LiveAddrs, Alive
  <2>3. y # a
    BY <1>2, <1>4
  <2>4. g.at[y] = t
    BY <1>2, <1>5, <2>3
  <2>5. QED
    BY <2>2, <2>4
<1>9. ASSUME NEW z \in LiveAddrs(g), z # y
      PROVE  \E x \in LiveAddrs(h) : mv(x) = z
  <2>1. z \in Addr /\ (z = head \/ (z[1] \in Bufs /\ z[2] < g.len[z[1]]))
    BY DEF LiveAddrs, Alive
  <2>2. z # head => z[2] \in Nat /\ z = <<z[1], z[2]>>
    BY <2>1, BoundFacts DEF Addr, Slots
  <2>3. z = head \/ z[1] # old
    BY <1>3, <1>5, <2>1, <2>2
  <2>4. CASE z[1] = new
    <3>1. z # head /\ z[2] \in 0 .. n - 1 /\ old \in Bufs /\ n = h.len[old] /\ z = <<new, z[2]>>
      <4>1. z # head
        BY <1>1, <2>4, BlocksAssumption DEF head
      <4>2. z[2] < n + 1 /\ z[2] # n
        BY <1>2, <1>5, <1>9, <2>1, <2>2, <2>4, <4>1
      <4>3. QED
        BY <1>1, <2>2, <2>4, <4>1, <4>2
    <3>2. <<old, z[2]>> \in LiveAddrs(h)
      BY <3>1, ElementAlive
    <3>3. mv(<<old, z[2]>>) = z
      BY <3>1
    <3>4. QED
      BY <3>2, <3>3
  <2>5. CASE z[1] # new
    <3>1. z \in LiveAddrs(h)
      BY <1>5, <2>1, <2>3, <2>5 DEF LiveAddrs, Alive
    <3>2. z[1] # old
      BY <1>1, <2>3, BlocksAssumption DEF head
    <3>3. mv(z) = z
      BY <3>2
    <3>4. QED
      BY <3>1, <3>3
  <2>6. QED
    BY <2>4, <2>5
<1>10. ASSUME NEW p \in LiveAddrs(h), NEW x \in LiveAddrs(h), mv(p) = mv(x)
       PROVE  p = x
  <2>1. p[1] = x[1]
    BY <1>7, <1>10
  <2>2. CASE p[1] = old
    <3>1. p = <<old, p[2]>> /\ x = <<old, x[2]>>
      <4>1. p # head /\ x # head
        <5>1. head[1] = Root
          BY DEF head
        <5>2. QED
          BY <1>1, <2>1, <2>2, <5>1
      <4>2. p \in Bufs \X Slots /\ x \in Bufs \X Slots
        BY <4>1, LiveFacts
      <4>3. p = <<p[1], p[2]>> /\ x = <<x[1], x[2]>>
        BY <4>2
      <4>4. QED
        BY <2>1, <2>2, <4>3
    <3>2. mv(p)[2] = p[2] /\ mv(x)[2] = x[2]
      BY <2>1, <2>2
    <3> HIDE DEF mv
    <3>3. QED
      BY <1>10, <3>1, <3>2
  <2>3. CASE p[1] # old
    BY <1>10, <2>1, <2>3
  <2>4. QED
    BY <2>2, <2>3
<1> HIDE DEF y
<1>11. mv(a) = a /\ mv(head) = head
  BY <1>1, <1>4 DEF head
<1> HIDE DEF mv
<1>12. Storage(g)
  <2>1. \A c \in Bufs : g.cap[c] = 0 => g.len[c] = 0
    BY <1>1, <1>5 DEF Storage
  <2>2. ASSUME NEW p \in LiveAddrs(g), g.at[p].children # Nil
        PROVE  g.cap[g.at[p].children] > 0
    <3>1. PICK x \in LiveAddrs(h) : mv(x) = p
      BY <1>8, <1>9, <2>2
    <3>2. CASE x = a
      BY <1>1, <1>5, <1>7, <3>1, <3>2
    <3>3. CASE x # a
      <4>1. g.at[p].children = h.at[x].children
        BY <1>7, <3>1, <3>3
      <4>2. h.at[x].children \in Bufs /\ h.cap[h.at[x].children] > 0 /\ h.at[x].children # new
        BY <1>1, <2>2, <4>1, LiveFacts DEF Storage
      <4>3. h.at[x].children # old
        BY <1>6, <2>2, <3>3, <4>1 DEF Storage
      <4>4. QED
        BY <1>5, <4>1, <4>2, <4>3
    <3>4. QED
      BY <3>2, <3>3
  <2>3. ASSUME NEW p \in LiveAddrs(g), NEW q \in LiveAddrs(g),
               g.at[p].children = g.at[q].children, g.at[p].children # Nil
        PROVE  p = q
    <3>1. PICK x \in LiveAddrs(h), z \in LiveAddrs(h) : mv(x) = p /\ mv(z) = q
      BY <1>8, <1>9, <2>3
    <3>2. \A w \in LiveAddrs(h) : h.at[w].children # new
      BY <1>1 DEF Storage
    <3>3. x = z
      BY <1>7, <2>3, <3>1, <3>2 DEF Storage
    <3>4. QED
      BY <3>1, <3>3
  <2>4. QED
    BY <2>1, <2>2, <2>3 DEF Storage
<1>13. ASSUME NEW p \in LiveAddrs(h), NEW x \in LiveAddrs(h)
       PROVE  Owns(g, mv(p), mv(x)) <=> Owns(h, p, x)
  <2>1. /\ Owns(g, mv(p), mv(x)) <=> g.at[mv(p)].children = mv(x)[1]
        /\ Owns(h, p, x) <=> h.at[p].children = x[1]
    BY <1>7 DEF Owns, LiveAddrs
  <2>2. x[1] # Nil
    BY BlocksAssumption DEF LiveAddrs, Addr, head
  <2>3. h.at[p].children = old /\ p # a => old = Nil
    BY <1>6 DEF Storage
  <2>4. h.at[p].children # new
    BY <1>1 DEF Storage
  <2>5. QED
    BY <1>6, <1>7, <2>1, <2>2, <2>3, <2>4
<1>14. ASSUME NEW p \in LiveAddrs(h)
       PROVE  Owns(g, mv(p), y) <=> p = a
  <2>1. Owns(g, mv(p), y) <=> g.at[mv(p)].children = new
    BY <1>2, <1>7 DEF Owns, LiveAddrs
  <2>2. h.at[p].children # new
    BY <1>1 DEF Storage
  <2>3. QED
    BY <1>7, <2>1, <2>2
<1>15. \A z \in LiveAddrs(g) : ~Owns(g, y, z)
  <2>1. \A z \in LiveAddrs(g) : z[1] # Nil
    BY BlocksAssumption DEF LiveAddrs, Addr, head
  <2>2. QED
    BY <1>8, <2>1 DEF Owns
<1>16. head \in LiveAddrs(h)
  BY DEF LiveAddrs, Alive, Addr
<1>17. m \in [LiveAddrs(h) -> LiveAddrs(g)] /\ \A x \in LiveAddrs(h) : m[x] = mv(x)
  BY <1>7
<1> HIDE DEF m
<1>18. Joined(h, g, a, y, m)
  <2>1. m[head] = head /\ m[a] = a
    BY <1>11, <1>16, <1>17
  <2>2. \A p, x \in LiveAddrs(h) : m[p] = m[x] => p = x
    BY <1>10, <1>17
  <2>3. \A z \in LiveAddrs(g) : z = y <=> \A x \in LiveAddrs(h) : m[x] # z
    BY <1>7, <1>9, <1>17
  <2>4. \A x \in LiveAddrs(h) :
          /\ g.at[m[x]].id = h.at[x].id
          /\ g.at[m[x]].name = h.at[x].name
          /\ g.at[m[x]].completed = h.at[x].completed
    BY <1>7, <1>17
  <2>5. /\ \A p, x \in LiveAddrs(h) : Owns(g, m[p], m[x]) <=> Owns(h, p, x)
        /\ \A p \in LiveAddrs(h) : Owns(g, m[p], y) <=> p = a
    BY <1>13, <1>14, <1>17
  <2>6. QED
    BY <1>8, <1>15, <1>17, <2>1, <2>2, <2>3, <2>4, <2>5 DEF Joined
<1>19. ASSUME Vacant(h), NEW x \in Addr \ LiveAddrs(g)
       PROVE  g.at[x].children = Nil
  <2>1. x # head /\ x \in Bufs \X Slots /\ x[1] \in Bufs /\ x[2] \in Nat /\ ~(x[2] < g.len[x[1]])
    BY <1>19, BoundFacts DEF LiveAddrs, Alive, Addr, Slots
  <2>2. x # a
    <3>1. a \in LiveAddrs(g)
      BY <1>7, <1>11
    <3>2. QED
      BY <1>19, <3>1
  <2>3. CASE x[1] = old /\ x[1] # new
    BY <1>5, <2>1, <2>2, <2>3, BlankChildless
  <2>4. CASE x[1] = new
    <3>1. ~(x[2] < n + 1)
      BY <1>1, <1>5, <2>1, <2>4
    <3>2. g.at[x] = h.at[x]
      <4>1. x[1] # old /\ x[2] # n /\ ~(x[2] < n)
        BY <1>1, <1>3, <2>1, <2>4, <3>1
      <4>2. QED
        BY <1>5, <2>2, <4>1
    <3>3. x \notin LiveAddrs(h)
      BY <1>1, <2>1, <2>4 DEF LiveAddrs, Alive
    <3>4. QED
      BY <1>19, <3>2, <3>3 DEF Vacant
  <2>5. CASE x[1] # old /\ x[1] # new
    <3>1. g.at[x] = h.at[x] /\ g.len[x[1]] = h.len[x[1]]
      BY <1>5, <2>1, <2>2, <2>5
    <3>2. x \notin LiveAddrs(h)
      BY <2>1, <3>1 DEF LiveAddrs, Alive
    <3>3. QED
      BY <1>19, <3>1, <3>2 DEF Vacant
  <2>6. QED
    BY <2>3, <2>4, <2>5
<1>20. QED
  BY <1>8, <1>12, <1>18, <1>19 DEF y, n, Vacant

LEMMA AddChildJoins ==
  ASSUME NEW h \in Heap, Storage(h), NEW rk, Ranked(h, rk), NEW a \in LiveAddrs(h),
         NEW id \in RowIds, NEW name \in Names, NEW g \in add_child(h, a, NewTask(id, name, FALSE, a))
  PROVE  /\ Storage(g)
         /\ \E y, m : /\ Joined(h, g, a, y, m)
                      /\ g.at[y] = NewTask(id, name, FALSE, a)
         /\ Vacant(h) => Vacant(g)
<1> DEFINE t == NewTask(id, name, FALSE, a)
           b == h.at[a].children
           n == get_child_count(h, a)
<1>1. [t EXCEPT !.parent = a] = t /\ t.children = Nil
  <2>1. t \in Task /\ t.parent = a /\ t.children = Nil
    BY DEF NewTask, Task, LiveAddrs
  <2> HIDE DEF t
  <2>2. [t EXCEPT !.parent = a] = t
    BY <2>1 DEF Task
  <2>3. QED
    BY <2>1, <2>2
<1>0. g \in add_child(h, a, t)
  OBVIOUS
<1> HIDE DEF t
<1>2. g \in (IF b # Nil /\ n < h.cap[b] THEN {PushInPlace(h, a, [t EXCEPT !.parent = a])}
             ELSE {PushMoving(h, a, [t EXCEPT !.parent = a], c) :
                     c \in {x \in FreeBufs(h) : 2 * n <= MaxLen}})
  BY <1>0 DEF add_child
<1>3. CASE b # Nil /\ n < h.cap[b]
  <2>1. n = h.len[b] /\ g = PushInPlace(h, a, t)
    BY <1>1, <1>2, <1>3 DEF get_child_count
  <2>2. h.len[b] < h.cap[b]
    BY <1>3, <2>1
  <2>3. /\ Storage(g) /\ (\E m : Joined(h, g, a, <<b, h.len[b]>>, m))
        /\ g.at[<<b, h.len[b]>>] = t /\ (Vacant(h) => Vacant(g))
    BY <1>1, <1>3, <2>1, <2>2, PushInPlaceJoins
  <2>4. QED
    BY <2>3 DEF t
<1>4. CASE ~(b # Nil /\ n < h.cap[b])
  <2>1. PICK c \in FreeBufs(h) : 2 * n <= MaxLen /\ g = PushMoving(h, a, t, c)
    BY <1>1, <1>2, <1>4
  <2>2. /\ Storage(g) /\ (\E m : Joined(h, g, a, <<c, n>>, m))
        /\ g.at[<<c, n>>] = t /\ (Vacant(h) => Vacant(g))
    BY <1>1, <2>1, PushMovingJoins
  <2>3. QED
    BY <2>2 DEF t
<1>5. QED
  BY <1>3, <1>4

-----------------------------------------------------------------------------
(* The invariant. *)

\* The calls of remove: each is on a child of the next one's task.  A task
\* whose erase is still to come is there, and above those the inner calls are on.
Held(h, s, rk) ==
  /\ \A j \in 2 .. Len(s) : s[j].pc = "remove" /\ Owns(h, s[j].task, s[j - 1].task)
  /\ \A j \in 1 .. Len(s) : s[j].pc # "erase" => Alive(h, s[j].task)
  /\ \A j, k \in 1 .. Len(s) : j < k /\ s[j].pc # "erase" => rk[s[k].task] < rk[s[j].task]

CallsHeld(h, s) ==
  Storage(h) /\ \E rk : Ranked(h, rk) /\ (Removing(s) => Held(h, s, rk))

HeldInv ==
  /\ LoadInv
  /\ running /\ ~astray => CallsHeld(heap, calls)

LEMMA RankFacts ==
  ASSUME NEW h, NEW rk, Ranked(h, rk), NEW x \in LiveAddrs(h)
  PROVE  rk[x] \in Nat /\ rk[x] \in Int
BY DEF Ranked

\* Erasing a child moves tasks along with their ranks; those above stay put.
LEMMA EraseHeld ==
  ASSUME NEW h \in Heap, Storage(h), NEW rk, Ranked(h, rk),
         NEW q \in LiveAddrs(h), NEW k \in Nat, k < get_child_count(h, q),
         NEW g, g = EraseChild(h, q, k)
  PROVE  /\ Storage(g)
         /\ \E r : /\ Ranked(g, r)
                   /\ \A x \in LiveAddrs(h) : rk[x] <= rk[q] =>
                        x \in LiveAddrs(g) /\ r[x] = rk[x] /\ g.at[x] = h.at[x]
         /\ Vacant(h) => Vacant(g)
<1>1. PICK m \in [LiveAddrs(g) -> LiveAddrs(h)] :
        /\ m[head] = head
        /\ \A x, y \in LiveAddrs(g) : m[x] = m[y] => x = y
        /\ \A x \in LiveAddrs(g) : g.at[x] = h.at[m[x]] /\ m[x][1] = x[1]
        /\ \A x \in LiveAddrs(g) \ {head} : \E p \in LiveAddrs(g) : Owns(h, m[p], m[x])
        /\ \A x \in LiveAddrs(h) : rk[x] <= rk[q] => x \in LiveAddrs(g) /\ m[x] = x
        /\ \A c \in Bufs : g.cap[c] = 0 => g.len[c] = 0
        /\ \A p \in LiveAddrs(g) : g.at[p].children # Nil => g.cap[g.at[p].children] > 0
  BY EraseMoves
<1>2. \A p, x \in LiveAddrs(g) : Owns(g, p, x) <=> Owns(h, m[p], m[x])
  BY <1>1 DEF Owns, LiveAddrs
<1>3. Storage(g)
  BY <1>1 DEF Storage
<1> DEFINE r == [x \in LiveAddrs(g) |-> rk[m[x]]]
<1>4. \A x \in LiveAddrs(g) : r[x] = rk[m[x]] /\ m[x] \in LiveAddrs(h) /\ rk[m[x]] \in Nat
  BY RankFacts
<1>5. r \in [LiveAddrs(g) -> Nat]
  BY <1>4
<1> HIDE DEF r
<1>6. Ranked(g, r)
  <2>1. \A x \in LiveAddrs(g) \ {head} : \E p \in LiveAddrs(g) : Owns(g, p, x)
    BY <1>1, <1>2
  <2>2. ASSUME NEW p \in LiveAddrs(g), NEW x \in LiveAddrs(g), Owns(g, p, x)
        PROVE  r[p] < r[x]
    <3>1. rk[m[p]] < rk[m[x]]
      BY <1>2, <1>4, <2>2 DEF Ranked
    <3>2. QED
      BY <1>4, <3>1
  <2>3. QED
    BY <1>5, <2>1, <2>2 DEF Ranked
<1>7. \A x \in LiveAddrs(h) : rk[x] <= rk[q] =>
        x \in LiveAddrs(g) /\ r[x] = rk[x] /\ g.at[x] = h.at[x]
  BY <1>1, <1>4
<1>8. Vacant(h) => Vacant(g)
  BY EraseMoves
<1>9. QED
  BY <1>3, <1>6, <1>7, <1>8

\* A task that joins gets the rank after its owner's.
LEMMA JoinedRanked ==
  ASSUME NEW h \in Heap, NEW rk, Ranked(h, rk), NEW g, NEW a \in LiveAddrs(h), NEW y, NEW m,
         Joined(h, g, a, y, m)
  PROVE  \E r : Ranked(g, r)
<1>1. /\ \A z \in LiveAddrs(g) : z = y \/ \E x \in LiveAddrs(h) : z = m[x]
      /\ \A x \in LiveAddrs(h) : m[x] \in LiveAddrs(g) /\ m[x] # y
      /\ m[head] = head /\ m[a] = a /\ head \in LiveAddrs(h) /\ y \in LiveAddrs(g)
      /\ \A p, x \in LiveAddrs(h) : m[p] = m[x] => p = x
  BY DEF Joined, LiveAddrs, Alive, Addr
<1> DEFINE old(z) == CHOOSE x \in LiveAddrs(h) : m[x] = z
           r == [z \in LiveAddrs(g) |-> IF z = y THEN rk[a] + 1 ELSE rk[old(z)]]
<1>2. \A x \in LiveAddrs(h) : old(m[x]) = x
  BY <1>1
<1> HIDE DEF old
<1>3. r[y] = rk[a] + 1 /\ \A x \in LiveAddrs(h) : r[m[x]] = rk[x]
  BY <1>1, <1>2
<1>4. \A x \in LiveAddrs(h) : rk[x] \in Nat
  BY RankFacts
<1>5. r \in [LiveAddrs(g) -> Nat]
  <2>1. ASSUME NEW z \in LiveAddrs(g)
        PROVE  r[z] \in Nat
    <3>1. CASE z = y
      BY <1>3, <1>4, <3>1
    <3>2. CASE z # y
      <4>1. PICK x \in LiveAddrs(h) : z = m[x]
        BY <1>1, <3>2
      <4>2. QED
        BY <1>3, <1>4, <4>1
    <3>3. QED
      BY <3>1, <3>2
  <2>2. QED
    BY <2>1
<1> HIDE DEF r
<1>6. ASSUME NEW z \in LiveAddrs(g) \ {head}
      PROVE  \E p \in LiveAddrs(g) : Owns(g, p, z)
  <2>1. CASE z = y
    BY <1>1, <2>1 DEF Joined
  <2>2. CASE z # y
    <3>1. PICK x \in LiveAddrs(h) : z = m[x] /\ x # head
      BY <1>1, <1>6, <2>2
    <3>2. PICK p \in LiveAddrs(h) : Owns(h, p, x)
      BY <3>1 DEF Ranked
    <3>3. QED
      BY <1>1, <3>1, <3>2 DEF Joined
  <2>3. QED
    BY <2>1, <2>2
<1>7. ASSUME NEW p \in LiveAddrs(g), NEW z \in LiveAddrs(g), Owns(g, p, z)
      PROVE  r[p] < r[z]
  <2>1. PICK u \in LiveAddrs(h) : p = m[u]
    BY <1>1, <1>7 DEF Joined
  <2>2. CASE z = y
    <3>1. u = a
      BY <1>7, <2>1, <2>2 DEF Joined
    <3>2. QED
      BY <1>3, <1>4, <2>1, <2>2, <3>1
  <2>3. CASE z # y
    <3>1. PICK x \in LiveAddrs(h) : z = m[x]
      BY <1>1, <2>3
    <3>2. Owns(h, u, x)
      BY <1>7, <2>1, <3>1 DEF Joined
    <3>3. QED
      BY <1>3, <2>1, <3>1, <3>2 DEF Ranked
  <2>4. QED
    BY <2>2, <2>3
<1>8. QED
  BY <1>5, <1>6, <1>7 DEF Ranked

-----------------------------------------------------------------------------
(* Each step keeps the calls held. *)

LEMMA AddChildHeld ==
  ASSUME heap \in Heap, CallsHeld(heap, calls), NEW a \in LiveAddrs(heap), NEW name \in Names,
         AddChild(a, name)
  PROVE  CallsHeld(heap', calls')
<1>1. PICK id \in RowIds : heap' \in add_child(heap, a, NewTask(id, name, FALSE, a))
  BY DEF AddChild
<1>2. calls' = <<>> /\ ~Removing(calls')
  BY DEF AddChild, Idle, Removing
<1>3. PICK rk : Storage(heap) /\ Ranked(heap, rk)
  BY DEF CallsHeld
<1>4. Storage(heap') /\ \E y, m : Joined(heap, heap', a, y, m)
  BY <1>1, <1>3, AddChildJoins
<1>5. \E r : Ranked(heap', r)
  BY <1>3, <1>4, JoinedRanked
<1>6. QED
  BY <1>2, <1>4, <1>5 DEF CallsHeld

\* An edit of a name or a mark moves nothing.
LEMMA AssignHeld ==
  ASSUME heap \in Heap, CallsHeld(heap, calls), NEW a \in LiveAddrs(heap),
         NEW t, t.children = heap.at[a].children, heap' = Assign(heap, a, t),
         ~Removing(calls')
  PROVE  CallsHeld(heap', calls')
<1>1. PICK rk : Storage(heap) /\ Ranked(heap, rk)
  BY DEF CallsHeld
<1>2. /\ heap'.len = heap.len /\ heap'.cap = heap.cap
      /\ \A x \in Addr : heap'.at[x].children = heap.at[x].children
  BY DEF Assign, Heap, LiveAddrs
<1>3. LiveAddrs(heap') = LiveAddrs(heap) /\ LiveAddrs(heap) \subseteq Addr
  BY <1>2 DEF LiveAddrs, Alive
<1>4. \A p, x \in LiveAddrs(heap) : Owns(heap', p, x) <=> Owns(heap, p, x)
  BY <1>2, <1>3 DEF Owns, LiveAddrs
<1>5. Storage(heap')
  BY <1>1, <1>2, <1>3 DEF Storage
<1>6. Ranked(heap', rk)
  BY <1>1, <1>3, <1>4 DEF Ranked
<1>7. QED
  BY <1>5, <1>6 DEF CallsHeld

\* The children a SELECT brings get the rank after their owner's.
LEMMA SelectHeld ==
  ASSUME LoadInv, heap' \in Heap, CallsHeld(heap, calls), LoadSelect
  PROVE  CallsHeld(heap', calls')
<1> DEFINE a == calls[1].task
<1>1. /\ calls \in Seq(Frame) /\ calls # <<>> /\ calls[1].pc = "select" /\ Loading
      /\ heap \in Heap /\ Goto("load", 0)
      /\ GoesDown(heap, calls) /\ ChildlessAhead(heap, calls)
  BY DEF LoadInv, TypeOK, LoadSelect, InPc, Loading
<1>2. PICK rk : Storage(heap) /\ Ranked(heap, rk)
  BY DEF CallsHeld
<1>3. ~Removing(calls')
  <2>1. calls'[1] = At(calls[1].task, "load", 0)
    BY <1>1, GotoStack
  <2>2. calls'[1].pc = "load"
    BY <2>1 DEF At
  <2>3. QED
    BY <2>2 DEF Removing
<1>4. a \in LiveAddrs(heap) /\ heap.at[a].children = Nil
  <2>1. Len(calls) \in Nat \ {0} /\ a \in Addr
    BY <1>1, TopType
  <2>2. QED
    BY <1>1, <2>1 DEF GoesDown, ChildlessAhead, LiveAddrs
<1>5. /\ Shaped(heap')
      /\ LiveAddrs(heap) \subseteq LiveAddrs(heap')
      /\ \A x \in LiveAddrs(heap) : x # a => heap'.at[x].children = heap.at[x].children
      /\ \A k \in 0 .. get_child_count(heap', a) - 1 :
           heap'.at[get_child(heap', a, k)].children = Nil
      /\ LiveAddrs(heap') = LiveAddrs(heap) \cup ChildAddrs(heap', a)
  BY SelectShape
<1> HIDE DEF a
<1> DEFINE kids == ChildAddrs(heap', a)
           r == [x \in LiveAddrs(heap') |-> IF x \in kids THEN rk[a] + 1 ELSE rk[x]]
<1>6. Storage(heap')
  BY <1>5 DEF Shaped, Storage
<1>7. \A x \in LiveAddrs(heap') : Owns(heap', a, x) <=> x \in kids
  BY <1>4, <1>5, ChildIsOwned
<1>8. \A x \in kids : heap'.at[x].children = Nil
  BY <1>5 DEF ChildAddrs
<1>9. \A x \in LiveAddrs(heap') : x[1] # Nil
  BY BlocksAssumption DEF LiveAddrs, Addr, head
<1>10. \A x \in LiveAddrs(heap) : ~Owns(heap, a, x)
  BY <1>4, <1>5, <1>9 DEF Owns
<1>11. kids \cap LiveAddrs(heap) = {}
  <2>1. SUFFICES ASSUME NEW x \in LiveAddrs(heap), x \in kids
                 PROVE  FALSE
    OBVIOUS
  <2>2. Owns(heap', a, x)
    BY <1>5, <1>7, <2>1
  <2>3. x # head
    <3>1. head[1] = Root
      BY DEF head
    <3>2. heap'.at[a].children \in Bufs \cup {Nil}
      BY <1>4, <1>5, LiveFacts
    <3>3. QED
      BY <2>2, <3>1, <3>2, BlocksAssumption DEF Owns
  <2>4. PICK p \in LiveAddrs(heap) : Owns(heap, p, x)
    BY <1>2, <2>1, <2>3 DEF Ranked
  <2>5. p # a
    BY <1>10, <2>1, <2>4
  <2>6. heap'.at[p].children = heap'.at[a].children /\ heap'.at[p].children # Nil
    BY <1>5, <1>9, <2>1, <2>2, <2>4, <2>5 DEF Owns
  <2>7. QED
    BY <1>4, <1>5, <1>6, <2>5, <2>6 DEF Storage
<1>12. \A p, x \in LiveAddrs(heap) : Owns(heap, p, x) => Owns(heap', p, x)
  BY <1>5, <1>10 DEF Owns, LiveAddrs
<1>13. /\ \A x \in LiveAddrs(heap) : r[x] = rk[x] /\ rk[x] \in Nat
       /\ \A x \in kids : r[x] = rk[a] + 1
  BY <1>2, <1>5, <1>11, RankFacts
<1>14. r \in [LiveAddrs(heap') -> Nat]
  <2>1. rk[a] \in Nat /\ \A x \in LiveAddrs(heap) : rk[x] \in Nat
    BY <1>4, <1>13
  <2>2. \A x \in LiveAddrs(heap') : x \in kids \/ x \in LiveAddrs(heap)
    BY <1>5
  <2> HIDE DEF kids
  <2>3. QED
    BY <2>1, <2>2
<1> HIDE DEF r, kids
<1>15. ASSUME NEW x \in LiveAddrs(heap') \ {head}
       PROVE  \E p \in LiveAddrs(heap') : Owns(heap', p, x)
  <2>1. CASE x \in kids
    BY <1>4, <1>5, <1>7, <2>1
  <2>2. CASE x \in LiveAddrs(heap)
    <3>1. PICK p \in LiveAddrs(heap) : Owns(heap, p, x)
      BY <1>2, <1>15, <2>2 DEF Ranked
    <3>2. QED
      BY <1>5, <1>12, <2>2, <3>1
  <2>3. QED
    BY <1>5, <2>1, <2>2 DEF kids
<1>16. ASSUME NEW p \in LiveAddrs(heap'), NEW x \in LiveAddrs(heap'), Owns(heap', p, x)
       PROVE  r[p] < r[x]
  <2>1. p \notin kids
    BY <1>8, <1>9, <1>16 DEF Owns
  <2>2. p \in LiveAddrs(heap)
    BY <1>5, <2>1 DEF kids
  <2>3. CASE x \in kids
    <3>1. Owns(heap', a, x)
      BY <1>7, <2>3
    <3>2. p = a
      <4>1. heap'.at[p].children = heap'.at[a].children /\ heap'.at[p].children # Nil
        BY <1>9, <1>16, <3>1 DEF Owns
      <4>2. QED
        BY <1>4, <1>5, <1>6, <4>1 DEF Storage
    <3>3. QED
      BY <1>4, <1>13, <2>3, <3>2
  <2>4. CASE x \notin kids
    <3>1. x \in LiveAddrs(heap) /\ p # a
      BY <1>5, <1>7, <1>16, <2>4 DEF kids
    <3>2. Owns(heap, p, x)
      BY <1>5, <1>16, <2>2, <3>1 DEF Owns, LiveAddrs
    <3>3. QED
      BY <1>2, <1>13, <2>2, <3>1, <3>2 DEF Ranked
  <2>5. QED
    BY <2>3, <2>4
<1>17. Ranked(heap', r)
  BY <1>14, <1>15, <1>16 DEF Ranked
<1>18. QED
  BY <1>3, <1>6, <1>17 DEF CallsHeld

\* A step that moves nothing in memory.
LEMMA StackHeld ==
  ASSUME NEW h, NEW s, CallsHeld(h, s), NEW s2,
         \A rk : Ranked(h, rk) /\ Removing(s2) =>
           Removing(s) /\ (Held(h, s, rk) => Held(h, s2, rk))
  PROVE  CallsHeld(h, s2)
BY DEF CallsHeld

LEMMA RemoveHeld ==
  ASSUME calls = <<>>, CallsHeld(heap, calls), NEW a \in LiveAddrs(heap), Remove(a)
  PROVE  CallsHeld(heap', calls')
<1>1. heap' = heap /\ calls' = <<At(a, "remove", 0)>>
  BY DEF Remove, Enter, Call
<1>2. /\ 2 .. Len(calls') = {} /\ 1 .. Len(calls') = {1}
      /\ calls'[1].task = a /\ calls'[1].pc = "remove" /\ Alive(heap, a)
  BY <1>1 DEF At, LiveAddrs
<1>3. \A rk : Held(heap, calls', rk)
  BY <1>2 DEF Held
<1>4. QED
  BY <1>1, <1>3 DEF CallsHeld

LEMMA RemoveChildHeld ==
  ASSUME heap \in Heap, calls \in Seq(Frame), CallsHeld(heap, calls), RemoveChild
  PROVE  CallsHeld(heap', calls')
<1> DEFINE a == calls[1].task
           c == get_child(heap, a, calls[1].i)
<1>1. /\ calls # <<>> /\ calls[1].pc = "remove" /\ heap' = heap
      /\ calls[1].i < get_child_count(heap, a)
      /\ Enter(Call(c, "remove"))
  BY DEF RemoveChild, InPc
<1>2. /\ Removing(calls) /\ Len(calls) \in Nat \ {0} /\ 1 \in 1 .. Len(calls)
      /\ a \in Addr /\ calls[1].i \in Nat
  BY <1>1, TopType DEF Removing
<1>3. PICK rk : Storage(heap) /\ Ranked(heap, rk) /\ Held(heap, calls, rk)
  BY <1>2 DEF CallsHeld
<1>4. a \in LiveAddrs(heap)
  BY <1>1, <1>2, <1>3 DEF Held, LiveAddrs
<1> HIDE DEF a
<1>5. c \in LiveAddrs(heap) /\ Owns(heap, a, c) /\ c \in Addr
  BY <1>1, <1>2, <1>4, OwnedFacts DEF LiveAddrs
<1> HIDE DEF c
<1>6. Call(c, "remove") \in Frame /\ Call(c, "remove").task = c /\ Call(c, "remove").pc = "remove"
  BY <1>5, AtType DEF Call, At
<1>7. /\ Len(calls') = Len(calls) + 1
      /\ calls'[1].task = c /\ calls'[1].pc = "remove"
      /\ \A j \in 2 .. Len(calls) + 1 : calls'[j] = calls[j - 1]
  BY <1>1, <1>6, EnterStack
<1>8. \A j \in 2 .. Len(calls') : j - 1 \in 1 .. Len(calls) /\ calls'[j] = calls[j - 1]
  BY <1>2, <1>7
<1>9. \A j \in 1 .. Len(calls) : calls[j].pc = "remove" /\ calls[j].task \in LiveAddrs(heap)
  <2>1. \A j \in 1 .. Len(calls) : calls[j].pc = "remove"
    BY <1>1, <1>2, <1>3 DEF Held
  <2>2. \A j \in 1 .. Len(calls) : calls[j].task \in Addr
    BY <1>1, TopOfStack
  <2>3. QED
    BY <1>3, <2>1, <2>2 DEF Held, LiveAddrs
<1>10. \A j \in 1 .. Len(calls) : rk[calls[j].task] < rk[c]
  <2>1. rk[a] < rk[c]
    BY <1>3, <1>4, <1>5 DEF Ranked
  <2>2. ASSUME NEW j \in 1 .. Len(calls), j # 1
        PROVE  rk[calls[j].task] < rk[c]
    <3>1. rk[calls[j].task] < rk[a]
      BY <1>2, <1>3, <1>9, <2>2 DEF Held, a
    <3>2. rk[calls[j].task] \in Int /\ rk[a] \in Int /\ rk[c] \in Int
      BY <1>3, <1>4, <1>5, <1>9, RankFacts
    <3>3. QED
      BY <2>1, <3>1, <3>2
  <2>3. QED
    BY <2>1, <2>2 DEF a
<1>11. Held(heap, calls', rk)
  <2>1. /\ \A j \in 2 .. Len(calls') : calls'[j].pc = "remove"
        /\ \A j \in 1 .. Len(calls') : Alive(heap, calls'[j].task)
    <3>1. \A j \in 1 .. Len(calls') : j = 1 \/ j \in 2 .. Len(calls')
      BY <1>2, <1>7
    <3>2. \A j \in 2 .. Len(calls') : calls'[j].pc = "remove" /\ Alive(heap, calls'[j].task)
      BY <1>8, <1>9 DEF LiveAddrs
    <3>3. Alive(heap, calls'[1].task)
      BY <1>5, <1>7 DEF LiveAddrs
    <3>4. QED
      BY <3>1, <3>2, <3>3
  <2>2. ASSUME NEW j \in 2 .. Len(calls')
        PROVE  Owns(heap, calls'[j].task, calls'[j - 1].task)
    <3>1. CASE j = 2
      BY <1>5, <1>7, <1>8, <3>1 DEF a
    <3>2. CASE j # 2
      <4>1. /\ j - 1 \in 2 .. Len(calls) /\ j - 1 \in 2 .. Len(calls')
            /\ calls'[j] = calls[j - 1] /\ calls'[j - 1] = calls[(j - 1) - 1]
        BY <1>2, <1>7, <1>8, <3>2
      <4>2. QED
        BY <1>3, <4>1 DEF Held
    <3>3. QED
      BY <3>1, <3>2
  <2>3. ASSUME NEW j \in 1 .. Len(calls'), NEW k \in 1 .. Len(calls'), j < k
        PROVE  rk[calls'[k].task] < rk[calls'[j].task]
    <3>1. k \in 2 .. Len(calls') /\ k - 1 \in 1 .. Len(calls) /\ calls'[k] = calls[k - 1]
      BY <1>2, <1>7, <1>8, <2>3
    <3>2. CASE j = 1
      BY <1>7, <1>10, <3>1, <3>2
    <3>3. CASE j # 1
      <4>1. j - 1 \in 1 .. Len(calls) /\ calls'[j] = calls[j - 1] /\ j - 1 < k - 1
            /\ calls[j - 1].pc # "erase"
        BY <1>2, <1>7, <1>8, <1>9, <2>3, <3>3
      <4>2. QED
        BY <1>3, <3>1, <4>1 DEF Held
    <3>4. QED
      BY <3>2, <3>3
  <2>4. QED
    BY <2>1, <2>2, <2>3 DEF Held
<1>12. QED
  BY <1>1, <1>3, <1>11 DEF CallsHeld

LEMMA RemoveRowHeld ==
  ASSUME calls \in Seq(Frame), CallsHeld(heap, calls), RemoveRow
  PROVE  CallsHeld(heap', calls')
<1>1. calls # <<>> /\ calls[1].pc = "remove" /\ heap' = heap /\ Goto("erase", 0)
  BY DEF RemoveRow, InPc
<1>2. Removing(calls) /\ Len(calls) \in Nat \ {0}
  BY <1>1, TopType DEF Removing
<1>3. /\ Len(calls') = Len(calls) /\ calls'[1] = At(calls[1].task, "erase", 0)
      /\ \A j \in 2 .. Len(calls) : calls'[j] = calls[j]
  BY <1>1, GotoStack
<1>4. calls'[1].task = calls[1].task /\ calls'[1].pc = "erase"
  BY <1>3 DEF At
<1>5. ASSUME NEW rk, Held(heap, calls, rk)
      PROVE  Held(heap, calls', rk)
  <2>1. \A j \in 1 .. Len(calls') : calls'[j].task = calls[j].task
    BY <1>2, <1>3, <1>4
  <2>2. \A j \in 1 .. Len(calls') : calls'[j].pc # "erase" => calls[j].pc # "erase"
    BY <1>2, <1>3, <1>4
  <2>3. \A j \in 2 .. Len(calls') : calls'[j].pc = "remove"
    BY <1>3, <1>5 DEF Held
  <2>4. \A j \in 2 .. Len(calls') : Owns(heap, calls'[j].task, calls'[j - 1].task)
    <3>1. \A j \in 2 .. Len(calls') : j \in 1 .. Len(calls') /\ j - 1 \in 1 .. Len(calls')
      BY <1>2, <1>3
    <3>2. \A j \in 2 .. Len(calls) : Owns(heap, calls[j].task, calls[j - 1].task)
      BY <1>5 DEF Held
    <3>3. QED
      BY <1>3, <2>1, <3>1, <3>2
  <2>5. \A j \in 1 .. Len(calls') : calls'[j].pc # "erase" => Alive(heap, calls'[j].task)
    BY <1>3, <1>5, <2>1, <2>2 DEF Held
  <2>6. \A j, k \in 1 .. Len(calls') :
          j < k /\ calls'[j].pc # "erase" => rk[calls'[k].task] < rk[calls'[j].task]
    BY <1>3, <1>5, <2>1, <2>2 DEF Held
  <2>7. QED
    BY <2>3, <2>4, <2>5, <2>6 DEF Held
<1>6. QED
  BY <1>1, <1>2, <1>5, StackHeld

\* An erase that is not astray takes a child of the next call's task: that task
\* and those of the calls further out rank no higher.
LEMMA EraseTakesChild ==
  ASSUME heap \in Heap, calls \in Seq(Frame), CallsHeld(heap, calls), RemoveErase, ~astray'
  PROVE  /\ Removing(calls) /\ Len(calls) \in Nat \ {0} /\ calls[1].task \in LiveAddrs(heap)
         /\ Storage(heap)
         /\ \E rk \in [LiveAddrs(heap) -> Nat], q \in LiveAddrs(heap), k \in Nat :
              /\ Ranked(heap, rk) /\ Held(heap, calls, rk)
              /\ Owns(heap, q, calls[1].task)
              /\ k < get_child_count(heap, q) /\ calls[1].i <= k
              /\ heap.at[get_child(heap, q, k)].id = heap.at[calls[1].task].id
              /\ heap' = EraseChild(heap, q, k) /\ Goto("erase", k + 1)
              /\ \A j \in 2 .. Len(calls) :
                   calls[j].task \in LiveAddrs(heap) /\ rk[calls[j].task] <= rk[q]
<1> DEFINE a == calls[1].task
           q == heap.at[a].parent
<1>1. /\ calls # <<>> /\ calls[1].pc = "erase"
      /\ Alive(heap, a) /\ PointsToOwner(heap, a)
      /\ \E k \in Matches(heap, q, a, calls[1].i) :
           heap' = EraseChild(heap, q, k) /\ Goto("erase", k + 1)
  BY DEF RemoveErase, InPc
<1>2. PICK k \in Matches(heap, q, a, calls[1].i) :
        heap' = EraseChild(heap, q, k) /\ Goto("erase", k + 1)
  BY <1>1
<1>3. /\ Removing(calls) /\ Len(calls) \in Nat \ {0} /\ a \in Addr /\ calls[1].i \in Nat
      /\ \A j \in 1 .. Len(calls) : calls[j].task \in Addr
  BY <1>1, TopOfStack DEF Removing
<1>4. PICK rk : Storage(heap) /\ Ranked(heap, rk) /\ Held(heap, calls, rk)
  BY <1>3 DEF CallsHeld
<1>5. a \in LiveAddrs(heap) /\ q \in LiveAddrs(heap) /\ Owns(heap, q, a)
  BY <1>1, <1>3 DEF LiveAddrs, PointsToOwner, Owns
<1>6. /\ k \in Nat /\ k < get_child_count(heap, q) /\ calls[1].i <= k
      /\ heap.at[get_child(heap, q, k)].id = heap.at[a].id
  <2>1. get_child_count(heap, q) \in Int
    BY <1>5, CountType, BoundFacts DEF LiveAddrs
  <2>2. QED
    BY <1>2, <1>3, <2>1 DEF Matches
<1> HIDE DEF a, q
<1>7. \A j \in 2 .. Len(calls) : j \in 1 .. Len(calls) /\ calls[j].pc = "remove"
  BY <1>3, <1>4 DEF Held
<1>8. ASSUME NEW j \in 2 .. Len(calls)
      PROVE  calls[j].task \in LiveAddrs(heap) /\ rk[calls[j].task] <= rk[q]
  <2>1. /\ calls[j].task \in LiveAddrs(heap) /\ 2 \in 2 .. Len(calls)
        /\ calls[2].task \in LiveAddrs(heap)
    <3>1. 2 \in 2 .. Len(calls)
      BY <1>3
    <3>2. QED
      BY <1>3, <1>4, <1>7, <3>1 DEF Held, LiveAddrs
  <2>2. Owns(heap, calls[2].task, a)
    <3>1. Owns(heap, calls[2].task, calls[2 - 1].task)
      BY <1>4, <2>1 DEF Held
    <3>2. QED
      BY <3>1 DEF a
  <2>3. calls[2].task = q
    <3>1. heap.at[calls[2].task].children = heap.at[q].children
      BY <1>5, <2>2 DEF Owns
    <3>2. heap.at[q].children # Nil
      BY <1>5, LiveFacts, BlocksAssumption DEF Owns, Addr, head
    <3>3. QED
      BY <1>4, <1>5, <2>1, <3>1, <3>2 DEF Storage
  <2>4. CASE j = 2
    BY <1>4, <1>5, <2>1, <2>3, <2>4, RankFacts
  <2>5. CASE j # 2
    <3>1. j \in 1 .. Len(calls) /\ 2 \in 1 .. Len(calls) /\ 2 < j /\ calls[2].pc # "erase"
      BY <1>3, <1>7, <2>1, <2>5
    <3>2. rk[calls[j].task] < rk[calls[2].task]
      BY <1>4, <3>1 DEF Held
    <3>3. QED
      BY <1>4, <1>5, <2>1, <2>3, <3>2, RankFacts
  <2>6. QED
    BY <2>4, <2>5
<1>9. /\ Ranked(heap, rk) /\ Held(heap, calls, rk)
      /\ Owns(heap, q, calls[1].task)
      /\ k < get_child_count(heap, q) /\ calls[1].i <= k
      /\ heap.at[get_child(heap, q, k)].id = heap.at[calls[1].task].id
      /\ heap' = EraseChild(heap, q, k) /\ Goto("erase", k + 1)
      /\ \A j \in 2 .. Len(calls) :
           calls[j].task \in LiveAddrs(heap) /\ rk[calls[j].task] <= rk[q]
  BY <1>2, <1>4, <1>5, <1>6, <1>8 DEF a
<1>10. calls[1].task \in LiveAddrs(heap) /\ rk \in [LiveAddrs(heap) -> Nat]
  BY <1>4, <1>5 DEF a, Ranked
<1>11. QED
  BY <1>3, <1>4, <1>5, <1>6, <1>9, <1>10, Zenon

\* With ids that repeat the erase can take a sibling of the task that is being
\* removed; it takes a child of the next call's task, so no outer call's.
LEMMA RemoveEraseHeld ==
  ASSUME heap \in Heap, calls \in Seq(Frame), CallsHeld(heap, calls), RemoveErase, ~astray'
  PROVE  CallsHeld(heap', calls')
<1> DEFINE a == calls[1].task
<1>1. /\ calls # <<>> /\ Storage(heap)
      /\ Len(calls) \in Nat \ {0} /\ a \in LiveAddrs(heap)
  BY EraseTakesChild DEF RemoveErase, InPc
<1>2. PICK rk \in [LiveAddrs(heap) -> Nat], q \in LiveAddrs(heap), k \in Nat :
              /\ Ranked(heap, rk) /\ Held(heap, calls, rk)
              /\ k < get_child_count(heap, q)
              /\ heap' = EraseChild(heap, q, k) /\ Goto("erase", k + 1)
              /\ \A j \in 2 .. Len(calls) :
                   calls[j].task \in LiveAddrs(heap) /\ rk[calls[j].task] <= rk[q]
  BY EraseTakesChild
<1> HIDE DEF a
<1>3. /\ Storage(heap')
      /\ \E r : /\ Ranked(heap', r)
                /\ \A x \in LiveAddrs(heap) : rk[x] <= rk[q] =>
                     x \in LiveAddrs(heap') /\ r[x] = rk[x] /\ heap'.at[x] = heap.at[x]
  BY <1>1, <1>2, EraseHeld
<1>4. PICK r : /\ Ranked(heap', r)
               /\ \A x \in LiveAddrs(heap) : rk[x] <= rk[q] =>
                    x \in LiveAddrs(heap') /\ r[x] = rk[x] /\ heap'.at[x] = heap.at[x]
  BY <1>3
<1>5. /\ Len(calls') = Len(calls) /\ calls'[1] = At(a, "erase", k + 1)
      /\ \A j \in 2 .. Len(calls) : calls'[j] = calls[j]
  BY <1>1, <1>2, GotoStack DEF a
<1>6. calls'[1].task = a /\ calls'[1].pc = "erase"
  BY <1>5 DEF At
<1>7. \A j \in 2 .. Len(calls) : j \in 1 .. Len(calls) /\ calls[j].pc = "remove"
  BY <1>1, <1>2 DEF Held
<1>8. \A j \in 2 .. Len(calls') :
         /\ j \in 2 .. Len(calls) /\ calls'[j] = calls[j] /\ calls'[j].pc = "remove"
         /\ calls[j].task \in LiveAddrs(heap')
         /\ r[calls[j].task] = rk[calls[j].task]
         /\ heap'.at[calls[j].task] = heap.at[calls[j].task]
  BY <1>2, <1>4, <1>5, <1>7
<1>9. Held(heap', calls', r)
  <2>1. ASSUME NEW j \in 2 .. Len(calls')
        PROVE  Owns(heap', calls'[j].task, calls'[j - 1].task)
    <3>1. Owns(heap, calls[j].task, calls[j - 1].task)
      BY <1>2, <1>8 DEF Held
    <3>2. calls'[j - 1].task = calls[j - 1].task
      <4>1. j = 2 \/ j - 1 \in 2 .. Len(calls)
        BY <1>1, <1>5
      <4>2. QED
        BY <1>5, <1>6, <4>1 DEF a
    <3>3. QED
      BY <1>8, <3>1, <3>2 DEF Owns, LiveAddrs
  <2>2. \A j \in 1 .. Len(calls') : calls'[j].pc # "erase" => j \in 2 .. Len(calls')
    BY <1>1, <1>5, <1>6
  <2>3. ASSUME NEW j \in 1 .. Len(calls'), NEW l \in 1 .. Len(calls'), j < l, calls'[j].pc # "erase"
        PROVE  r[calls'[l].task] < r[calls'[j].task]
    <3>1. /\ j \in 2 .. Len(calls') /\ l \in 2 .. Len(calls')
          /\ j \in 1 .. Len(calls) /\ l \in 1 .. Len(calls)
      BY <1>1, <1>5, <2>2, <2>3
    <3>2. rk[calls[l].task] < rk[calls[j].task]
      BY <1>2, <1>8, <2>3, <3>1 DEF Held
    <3>3. QED
      BY <1>8, <3>1, <3>2
  <2>4. QED
    BY <1>8, <2>1, <2>2, <2>3 DEF Held, LiveAddrs
<1>10. QED
  BY <1>3, <1>4, <1>9 DEF CallsHeld

LEMMA RemoveReturnHeld ==
  ASSUME calls \in Seq(Frame), CallsHeld(heap, calls), RemoveReturn
  PROVE  CallsHeld(heap', calls')
<1>1. calls # <<>> /\ calls[1].pc = "erase" /\ heap' = heap /\ Return
  BY DEF RemoveReturn, InPc
<1>2. Removing(calls) /\ Len(calls) \in Nat \ {0}
  BY <1>1, TopType DEF Removing
<1>3. CASE Len(calls) = 1
  <2>1. ~Removing(calls')
    BY <1>1, <1>3 DEF Return, Removing
  <2>2. QED
    BY <1>1, <2>1 DEF CallsHeld
<1>4. CASE Len(calls) # 1
  <2>0. Len(calls) > 1
    <3>1. \A n \in Nat \ {0} : n # 1 => n > 1
      OBVIOUS
    <3>2. QED
      BY <1>2, <1>4, <3>1
  <2>1. /\ Len(calls') = Len(calls) - 1
        /\ calls'[1] = At(calls[2].task, calls[2].pc, calls[2].i + 1)
        /\ \A j \in 2 .. Len(calls) - 1 : calls'[j] = calls[j + 1]
    BY <1>1, <2>0, ReturnStack
  <2>2. \A j \in 1 .. Len(calls') :
             /\ j + 1 \in 2 .. Len(calls) /\ j + 1 \in 1 .. Len(calls)
             /\ calls'[j].task = calls[j + 1].task /\ calls'[j].pc = calls[j + 1].pc
    <3>1. calls'[1].task = calls[2].task /\ calls'[1].pc = calls[2].pc
      BY <2>1 DEF At
    <3>2. QED
      BY <1>2, <2>1, <3>1
  <2>3. ASSUME NEW rk, Held(heap, calls, rk)
        PROVE  Held(heap, calls', rk)
    <3>1. \A j \in 1 .. Len(calls') : calls'[j].pc = "remove" /\ Alive(heap, calls'[j].task)
      BY <2>2, <2>3 DEF Held
    <3>2. ASSUME NEW j \in 2 .. Len(calls')
          PROVE  Owns(heap, calls'[j].task, calls'[j - 1].task)
      <4>1. /\ j \in 1 .. Len(calls') /\ j - 1 \in 1 .. Len(calls')
            /\ (j + 1) - 1 = j /\ (j - 1) + 1 = j
        BY <1>2, <2>1
      <4>2. Owns(heap, calls[j + 1].task, calls[(j + 1) - 1].task)
        BY <2>2, <2>3, <4>1 DEF Held
      <4>3. QED
        BY <2>2, <4>1, <4>2
    <3>3. ASSUME NEW j \in 1 .. Len(calls'), NEW l \in 1 .. Len(calls'), j < l
          PROVE  rk[calls'[l].task] < rk[calls'[j].task]
      <4>1. j + 1 < l + 1 /\ calls[j + 1].pc # "erase"
        BY <1>2, <2>1, <2>2, <3>1, <3>3
      <4>2. QED
        BY <2>2, <2>3, <4>1 DEF Held
    <3>4. \A j \in 2 .. Len(calls') : j \in 1 .. Len(calls')
      BY <1>2, <2>1
    <3>5. QED
      BY <3>1, <3>2, <3>3, <3>4 DEF Held
  <2>4. QED
    BY <1>1, <1>2, <2>3, StackHeld
<1>5. QED
  BY <1>3, <1>4

LEMMA EmptyHeapTree == MemoryTree(EmptyHeap)
<1>1. Shaped(EmptyHeap) /\ LiveAddrs(EmptyHeap) = {head}
  BY EmptyHeapShape
<1>2. EmptyHeap.at[head].children = Nil /\ Vacant(EmptyHeap)
  BY DEF EmptyHeap, Blank, NewTask, Addr, Vacant
<1>3. ~Owns(EmptyHeap, head, head)
  BY <1>2, BlocksAssumption DEF Owns, head
<1>4. Storage(EmptyHeap)
  BY <1>1 DEF Shaped, Storage
<1>5. Ranked(EmptyHeap, [x \in LiveAddrs(EmptyHeap) |-> 0])
  BY <1>1, <1>3 DEF Ranked
<1>6. QED
  BY <1>2, <1>4, <1>5 DEF MemoryTree

LEMMA StartHeld ==
  ASSUME Start
  PROVE  CallsHeld(heap', calls')
<1>1. heap' = EmptyHeap /\ calls' = <<At(head, "select", 0)>>
  BY DEF Start, Call
<1>2. ~Removing(calls')
  BY <1>1 DEF Removing, At
<1>3. QED
  BY <1>1, <1>2, EmptyHeapTree DEF CallsHeld, MemoryTree

\* A load that goes on or returns is not a remove.
LEMMA LoadStaysLoad ==
  ASSUME heap \in Heap, calls \in Seq(Frame), OneKind(calls), LoadDescend \/ LoadReturn
  PROVE  heap' = heap /\ ~Removing(calls')
<1>1. /\ calls # <<>> /\ calls[1].pc = "load" /\ heap' = heap
      /\ Len(calls) \in Nat \ {0} /\ 1 \in 1 .. Len(calls)
  BY TopType DEF LoadDescend, LoadReturn, InPc
<1>2. CASE LoadDescend
  <2>1. get_child(heap, calls[1].task, calls[1].i) \in Addr
    BY <1>1, <1>2, TopOfStack, CountType DEF LoadDescend
  <2>2. PICK c \in Addr : Enter(Call(c, "select"))
    BY <1>2, <2>1 DEF LoadDescend
  <2>3. Call(c, "select") \in Frame /\ Call(c, "select").pc = "select"
    BY AtType DEF Call, At
  <2>4. calls'[1].pc = "select"
    BY <2>2, <2>3, EnterStack
  <2>5. QED
    BY <1>1, <2>4 DEF Removing
<1>3. CASE LoadReturn
  <2>1. CASE Len(calls) = 1
    BY <1>1, <1>3, <2>1 DEF LoadReturn, Return, Removing
  <2>2. CASE Len(calls) # 1
    <3>1. Len(calls) > 1
      <4>1. \A n \in Nat \ {0} : n # 1 => n > 1
        OBVIOUS
      <4>2. QED
        BY <1>1, <2>2, <4>1
    <3>2. calls'[1].pc = calls[2].pc /\ 2 \in 1 .. Len(calls)
      BY <1>1, <1>3, <3>1, ReturnStack DEF LoadReturn, At
    <3>3. calls[2].pc \in {"select", "load"}
      BY <1>1, <3>2 DEF OneKind
    <3>4. QED
      BY <1>1, <3>2, <3>3 DEF Removing
  <2>3. QED
    BY <2>1, <2>2
<1>4. QED
  BY <1>2, <1>3

LEMMA HeldInvInit == Init => HeldInv
<1>1. Init => LoadInv
  BY LoadInvInit
<1>2. QED
  BY <1>1 DEF Init, HeldInv

LEMMA HeldInvNext ==
  ASSUME HeldInv, [Next]_vars
  PROVE  HeldInv'
<1>1. LoadInv /\ (running /\ ~astray => CallsHeld(heap, calls))
  BY DEF HeldInv
<1>2. /\ IsTable(rows) /\ heap \in Heap /\ calls \in Seq(Frame) /\ OneKind(calls)
      /\ calls # <<>> => running
  BY <1>1 DEF LoadInv, TypeOK
<1>3. LoadInv'
  BY <1>1, LoadInvNext
<1>4. heap' \in Heap
  BY <1>3 DEF LoadInv, TypeOK
<1>5. SUFFICES ASSUME running', ~astray'
               PROVE  CallsHeld(heap', calls')
  BY <1>3 DEF HeldInv
<1>6. CASE Start
  BY <1>6, StartHeld
<1>7. CASE Stop
  BY <1>5, <1>7 DEF Stop
<1>8. CASE Step
  <2>1. calls # <<>> /\ running /\ ~astray
    <3>1. calls # <<>>
      BY <1>8 DEF Step, Proceed, LoadSelect, LoadDescend, LoadReturn, RemoveChild, RemoveRow,
                  RemoveErase, RemoveReturn, RemoveThrows, InPc
    <3>2. ~astray
      BY <1>5, <1>8 DEF Step, Proceed, LoadSelect, LoadDescend, LoadReturn, RemoveChild, RemoveRow,
                        RemoveErase, RemoveReturn, RemoveThrows
    <3>3. QED
      BY <1>2, <3>1, <3>2
  <2>2. CallsHeld(heap, calls)
    BY <1>1, <2>1
  <2>3. CASE LoadSelect
    BY <1>1, <1>4, <2>2, <2>3, SelectHeld
  <2>4. CASE LoadDescend \/ LoadReturn
    <3>1. heap' = heap /\ ~Removing(calls')
      BY <1>2, <2>4, LoadStaysLoad
    <3>2. QED
      BY <2>2, <3>1 DEF CallsHeld
  <2>5. CASE RemoveChild
    BY <1>2, <2>2, <2>5, RemoveChildHeld
  <2>6. CASE RemoveRow
    BY <1>2, <2>2, <2>6, RemoveRowHeld
  <2>7. CASE RemoveErase
    BY <1>2, <1>5, <2>2, <2>7, RemoveEraseHeld
  <2>8. CASE RemoveReturn
    BY <1>2, <2>2, <2>8, RemoveReturnHeld
  <2>9. CASE RemoveThrows
    <3>1. heap' = heap /\ calls' = <<>>
      BY <2>9 DEF RemoveThrows
    <3>2. QED
      BY <2>2, <3>1 DEF CallsHeld, Removing
  <2>10. QED
    BY <1>8, <2>3, <2>4, <2>5, <2>6, <2>7, <2>8, <2>9 DEF Step, Proceed
<1>9. CASE Request
  <2>1. PICK a \in LiveAddrs(heap) :
          \/ \E name \in Names : AddChild(a, name)
          \/ Remove(a)
          \/ \E name \in Names : SetTaskName(a, name)
          \/ ToggleTaskCompleted(a)
    BY <1>9 DEF Request
  <2>2. running /\ calls = <<>> /\ ~astray
    <3>1. \A name : AddChild(a, name) => running /\ calls = <<>> /\ astray' = astray
      BY DEF AddChild, Idle
    <3>2. Remove(a) => running /\ calls = <<>> /\ astray' = astray
      BY DEF Remove, Idle
    <3>3. \A name : SetTaskName(a, name) => running /\ calls = <<>> /\ astray' = astray
      BY DEF SetTaskName, Idle
    <3>4. ToggleTaskCompleted(a) => running /\ calls = <<>> /\ astray' = astray
      BY DEF ToggleTaskCompleted, Idle
    <3>5. QED
      BY <1>5, <2>1, <3>1, <3>2, <3>3, <3>4
  <2>3. CallsHeld(heap, calls) /\ heap.at[a] \in Task
    BY <1>1, <1>2, <2>2 DEF LiveAddrs, Heap
  <2>4. CASE \E name \in Names : AddChild(a, name)
    BY <1>2, <2>3, <2>4, AddChildHeld
  <2>5. CASE Remove(a)
    BY <2>2, <2>3, <2>5, RemoveHeld
  <2>6. ASSUME NEW t, t.children = heap.at[a].children, heap' = Assign(heap, a, t), calls' = calls
        PROVE  CallsHeld(heap', calls')
    <3>1. ~Removing(calls')
      BY <2>2, <2>6 DEF Removing
    <3>2. QED
      BY <1>2, <2>3, <2>6, <3>1, AssignHeld
  <2>7. CASE \E name \in Names : SetTaskName(a, name)
    <3>1. PICK name \in Names : heap' = Assign(heap, a, [heap.at[a] EXCEPT !.name = name]) /\ calls' = calls
      BY <2>7 DEF SetTaskName
    <3>2. [heap.at[a] EXCEPT !.name = name].children = heap.at[a].children
      BY <2>3 DEF Task
    <3>3. QED
      BY <2>6, <3>1, <3>2
  <2>8. CASE ToggleTaskCompleted(a)
    <3>1. heap' = Assign(heap, a, [heap.at[a] EXCEPT !.completed = ~heap.at[a].completed]) /\ calls' = calls
      BY <2>8 DEF ToggleTaskCompleted
    <3>2. [heap.at[a] EXCEPT !.completed = ~heap.at[a].completed].children = heap.at[a].children
      BY <2>3 DEF Task
    <3>3. QED
      BY <2>6, <3>1, <3>2
  <2>9. QED
    BY <2>1, <2>4, <2>5, <2>7, <2>8
<1>10. CASE UNCHANGED vars
  BY <1>1, <1>5, <1>10 DEF vars
<1>11. QED
  BY <1>6, <1>7, <1>8, <1>9, <1>10 DEF Next

LEMMA HeldCalls == HeldInv => CallsHoldLiveTasks
<1>1. SUFFICES ASSUME HeldInv, ~astray, NEW j \in 1 .. Len(calls), calls[j].pc # "erase"
               PROVE  Alive(heap, calls[j].task)
  BY DEF CallsHoldLiveTasks
<1>2. /\ calls \in Seq(Frame) /\ OneKind(calls) /\ (~running => calls = <<>>)
      /\ Loading => GoesDown(heap, calls)
      /\ running /\ ~astray => CallsHeld(heap, calls)
  BY <1>1 DEF HeldInv, LoadInv, TypeOK
<1>3. calls # <<>> /\ running
  BY <1>1, <1>2
<1>4. 1 \in 1 .. Len(calls)
  BY <1>2, <1>3, TopType
<1>5. CASE Loading
  BY <1>2, <1>5 DEF GoesDown
<1>6. CASE ~Loading
  <2>1. Removing(calls)
    BY <1>2, <1>3, <1>4, <1>6 DEF OneKind, Loading, Removing
  <2>2. QED
    BY <1>1, <1>2, <1>3, <2>1 DEF CallsHeld, Held
<1>7. QED
  BY <1>5, <1>6

LEMMA HeldInvariant == Spec => []HeldInv
<1>1. HeldInv /\ [Next]_vars => HeldInv'
  BY HeldInvNext
<1>2. QED
  BY <1>1, HeldInvInit, PTL DEF Spec

\* The Task& each active call of remove or load_child_tasks holds names a task
\* that is still there, whatever the calls below it erased.
THEOREM CallsKeepTheirTasks == Spec => []CallsHoldLiveTasks
BY HeldInvariant, HeldCalls, PTL

-----------------------------------------------------------------------------
(***************************************************************************)
(* The tasks in memory stay one tree below the head also after a parent    *)
(* pointer misled: an erase among the children of the wrong task takes a   *)
(* whole subtree there, and a task no longer there has no children to      *)
(* erase.                                                                  *)
(***************************************************************************)

TreeInv == LoadInv /\ MemoryTree(heap)

LEMMA TreeRequest ==
  ASSUME TreeInv, Request, heap' \in Heap
  PROVE  MemoryTree(heap')
<1>1. heap \in Heap /\ MemoryTree(heap)
  BY DEF TreeInv, LoadInv, TypeOK
<1>2. PICK a \in LiveAddrs(heap) :
        \/ \E name \in Names : AddChild(a, name)
        \/ Remove(a)
        \/ \E name \in Names : SetTaskName(a, name)
        \/ ToggleTaskCompleted(a)
  BY DEF Request
<1>3. a \in Addr /\ heap.at[a] \in Task
  BY <1>1 DEF LiveAddrs, Heap
<1>4. calls = <<>>
  BY <1>2 DEF AddChild, Remove, SetTaskName, ToggleTaskCompleted, Idle
<1>5. CallsHeld(heap, calls)
  BY <1>1, <1>4 DEF MemoryTree, CallsHeld, Removing
<1>6. ASSUME NEW name \in Names, AddChild(a, name)
      PROVE  MemoryTree(heap')
  <2>1. CallsHeld(heap', calls')
    BY <1>1, <1>5, <1>6, AddChildHeld
  <2>2. PICK id \in RowIds : heap' \in add_child(heap, a, NewTask(id, name, FALSE, a))
    BY <1>6 DEF AddChild
  <2>3. Vacant(heap')
    BY <1>1, <2>2, AddChildJoins DEF MemoryTree
  <2>4. QED
    BY <2>1, <2>3 DEF CallsHeld, MemoryTree
<1>7. CASE Remove(a)
  BY <1>1, <1>7 DEF Remove
<1>8. ASSUME NEW t, t.children = heap.at[a].children, heap' = Assign(heap, a, t), calls' = calls
      PROVE  MemoryTree(heap')
  <2>1. CallsHeld(heap', calls')
    BY <1>1, <1>4, <1>5, <1>8, AssignHeld DEF Removing
  <2>2. /\ heap'.len = heap.len
        /\ \A x \in Addr : heap'.at[x].children = heap.at[x].children
    BY <1>1, <1>3, <1>8 DEF Assign, Heap
  <2>3. Vacant(heap')
    BY <1>1, <2>2 DEF MemoryTree, Vacant, LiveAddrs, Alive
  <2>4. QED
    BY <2>1, <2>3 DEF CallsHeld, MemoryTree
<1>9. CASE \E name \in Names : SetTaskName(a, name)
  <2>1. PICK name \in Names :
          heap' = Assign(heap, a, [heap.at[a] EXCEPT !.name = name]) /\ calls' = calls
    BY <1>9 DEF SetTaskName
  <2>2. [heap.at[a] EXCEPT !.name = name].children = heap.at[a].children
    BY <1>3 DEF Task
  <2>3. QED
    BY <1>8, <2>1, <2>2
<1>10. CASE ToggleTaskCompleted(a)
  <2>1. /\ heap' = Assign(heap, a, [heap.at[a] EXCEPT !.completed = ~heap.at[a].completed])
        /\ calls' = calls
    BY <1>10 DEF ToggleTaskCompleted
  <2>2. [heap.at[a] EXCEPT !.completed = ~heap.at[a].completed].children = heap.at[a].children
    BY <1>3 DEF Task
  <2>3. QED
    BY <1>8, <2>1, <2>2
<1>11. QED
  BY <1>2, <1>6, <1>7, <1>9, <1>10

\* Whatever the parent pointer, the erase is among the children of a live task.
LEMMA TreeErase ==
  ASSUME TreeInv, RemoveErase
  PROVE  MemoryTree(heap')
<1> DEFINE a == calls[1].task
           q == heap.at[a].parent
<1>1. /\ heap \in Heap /\ calls \in Seq(Frame) /\ calls # <<>> /\ MemoryTree(heap)
  BY DEF TreeInv, LoadInv, TypeOK, RemoveErase, InPc
<1>2. a \in Addr /\ calls[1].i \in Nat
  BY <1>1, TopType
<1>3. q \in Addr
  BY <1>1, <1>2 DEF RemoveErase, Heap, Task
<1>4. PICK k \in Matches(heap, q, a, calls[1].i) : heap' = EraseChild(heap, q, k)
  BY DEF RemoveErase
<1> HIDE DEF a, q
<1>5. k \in Nat /\ k < get_child_count(heap, q)
  BY <1>1, <1>2, <1>3, <1>4, CountType DEF Matches
<1>6. q \in LiveAddrs(heap)
  BY <1>1, <1>3, <1>5 DEF MemoryTree, Vacant, get_child_count
<1>7. PICK rk : Ranked(heap, rk)
  BY <1>1 DEF MemoryTree
<1>8. Storage(heap) /\ Vacant(heap)
  BY <1>1 DEF MemoryTree
<1>9. Storage(heap') /\ (\E r : Ranked(heap', r)) /\ Vacant(heap')
  BY <1>1, <1>4, <1>5, <1>6, <1>7, <1>8, EraseHeld
<1>10. QED
  BY <1>9 DEF MemoryTree

LEMMA TreeInvInit == Init => TreeInv
BY LoadInvInit, EmptyHeapTree DEF Init, TreeInv

LEMMA TreeInvNext ==
  ASSUME TreeInv, [Next]_vars
  PROVE  TreeInv'
<1>1. LoadInv /\ MemoryTree(heap)
  BY DEF TreeInv
<1>2. LoadInv' /\ heap' \in Heap
  BY <1>1, LoadInvNext DEF LoadInv, TypeOK
<1>3. CASE Start \/ Stop
  BY <1>2, <1>3, EmptyHeapTree DEF Start, Stop, TreeInv
<1>4. CASE Request
  BY <1>2, <1>4, TreeRequest DEF TreeInv
<1>5. CASE LoadSelect
  <2>1. ~Removing(calls)
    BY <1>5 DEF LoadSelect, InPc, Removing
  <2>2. CallsHeld(heap, calls)
    BY <1>1, <2>1 DEF CallsHeld, MemoryTree
  <2>3. CallsHeld(heap', calls')
    BY <1>1, <1>2, <1>5, <2>2, SelectHeld
  <2>4. Vacant(heap')
    BY <1>1, <1>2, <1>5, SelectShape DEF MemoryTree
  <2>5. QED
    BY <1>2, <2>3, <2>4 DEF CallsHeld, MemoryTree, TreeInv
<1>6. CASE RemoveErase
  BY <1>2, <1>6, TreeErase DEF TreeInv
<1>7. CASE heap' = heap
  BY <1>1, <1>2, <1>7 DEF TreeInv
<1>8. CASE Step
  BY <1>5, <1>6, <1>7, <1>8
     DEF Step, Proceed, LoadDescend, LoadReturn, RemoveChild, RemoveRow, RemoveReturn, RemoveThrows
<1>9. CASE UNCHANGED vars
  BY <1>7, <1>9 DEF vars
<1>10. QED
  BY <1>3, <1>4, <1>8, <1>9 DEF Next

\* Whatever the table says and whichever parent pointers mislead, each task in
\* memory is in the vector of one other task, and going from task to owner ends
\* at the head.
THEOREM MemoryStaysATree == Spec => []MemoryTree(heap)
<1>1. TreeInv /\ [Next]_vars => TreeInv'
  BY TreeInvNext
<1>2. TreeInv => MemoryTree(heap)
  BY DEF TreeInv
<1>3. QED
  BY <1>1, <1>2, TreeInvInit, PTL DEF Spec
=============================================================================
