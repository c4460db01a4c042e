--------------------------- MODULE TaskTreeMirror ---------------------------
(***************************************************************************)
(* Why memory mirrors the table for as long as no misleading parent        *)
(* pointer is followed: the inductive invariant behind MemoryMirrorsTable, *)
(* IdsUnique, ParentsOlder and NoAdoption.  That the calls hold their      *)
(* tasks (HeldInv) is taken for granted in each step.  At the end, from    *)
(* the same invariant: TaskTree implements SavedTasks.                     *)
(***************************************************************************)
EXTENDS TaskTreeProofs, TaskTreeSaved

\* The head has the id that is no row's; no id occurs twice.
Distinct(h) ==
  /\ h.at[head].id = 0
  /\ \A x, y \in LiveAddrs(h) : h.at[x].id = h.at[y].id => x = y

\* The innermost call of remove has yet to erase its task, or has done so: then
\* its loop is past the place its reference still names.
Erasing(s) == s # <<>> /\ s[1].pc = "erase" /\ s[1].i = 0
Erased(s) == s # <<>> /\ s[1].pc = "erase" /\ s[1].i > 0

ErasesOnce(h, s) ==
  /\ Erasing(s) => Alive(h, s[1].task)
  /\ Erased(s) => s[1].task[2] < s[1].i

\* The load has still to select the children of the task at p.
Ahead(h, s, p) ==
  \E j \in 1 .. Len(s) :
    \/ s[j].pc = "select" /\ p = s[j].task
    \/ /\ s[j].pc = "load"
       /\ \E k \in s[j].i .. get_child_count(h, s[j].task) - 1 :
            (j = 1 \/ k > s[j].i) /\ p = get_child(h, s[j].task, k)

\* Every task in memory has its row, but the one whose row remove just deleted.
InTable(t, h, s) ==
  \A p, x \in LiveAddrs(h) : Owns(h, p, x) =>
    LET id == h.at[x].id
    IN  IF Erasing(s) /\ x = s[1].task THEN id \notin DOMAIN t
        ELSE /\ id \in DOMAIN t
             /\ t[id].parent = h.at[p].id
             /\ t[id].name = h.at[x].name
             /\ t[id].completed = h.at[x].completed

\* Every row below a task in memory is a child of that task, once loaded.
InMemory(t, h, s) ==
  \A p \in LiveAddrs(h) : ~Ahead(h, s, p) =>
    \A i \in ChildRows(t, h.at[p].id) : \E x \in LiveAddrs(h) : Owns(h, p, x) /\ h.at[x].id = i

Mirrors(t, h, s) ==
  /\ Distinct(h) /\ ErasesOnce(h, s)
  /\ InTable(t, h, s) /\ InMemory(t, h, s)

Older(t) == \A i \in DOMAIN t : t[i].parent < i

MirrorInv ==
  /\ HeldInv
  /\ ~astray => Older(rows) /\ (running => Mirrors(rows, heap, calls))

-----------------------------------------------------------------------------
(* Each step keeps Mirrors. *)

\* No load is active, so none is ahead.
LEMMA NoneAhead ==
  ASSUME NEW s, \A j \in 1 .. Len(s) : s[j].pc \in {"remove", "erase"}, NEW h, NEW p
  PROVE  ~Ahead(h, s, p)
BY DEF Ahead

LEMMA IdFacts ==
  ASSUME NEW h \in Heap, NEW x \in LiveAddrs(h)
  PROVE  h.at[x].id \in RowIds \cup {0} /\ h.at[x].id \in Int
BY BoundFacts DEF LiveAddrs, Heap, Task, RowIds

\* Every task but the head has an owner.
LEMMA HeldFacts ==
  ASSUME NEW h, NEW s, CallsHeld(h, s)
  PROVE  /\ Storage(h)
         /\ \A x \in LiveAddrs(h) \ {head} : \E p \in LiveAddrs(h) : Owns(h, p, x)
BY DEF CallsHeld, Ranked

LEMMA RowOfTask ==
  ASSUME CallsHeld(heap, calls), Mirrors(rows, heap, calls), ~Erasing(calls),
         NEW x \in LiveAddrs(heap)
  PROVE  x = head \/ heap.at[x].id \in DOMAIN rows
BY HeldFacts DEF Mirrors, InTable

\* The new id is above all others, so it is nobody's parent: the new task has no
\* row below it that memory does not have.
LEMMA AddChildMirrors ==
  ASSUME IsTable(rows), heap \in Heap, calls = <<>>,
         CallsHeld(heap, calls), Mirrors(rows, heap, calls), Older(rows),
         NEW a \in LiveAddrs(heap), NEW name \in Names, AddChild(a, name)
  PROVE  Mirrors(rows', heap', calls') /\ Older(rows')
<1>1. PICK id \in RowIds :
        /\ IsNewRowid(rows, id)
        /\ rows' = Insert(rows, id, heap.at[a].id, name)
        /\ heap' \in add_child(heap, a, NewTask(id, name, FALSE, a))
  BY DEF AddChild
<1>2. calls' = <<>> /\ Len(calls) = 0
  BY DEF AddChild
<1>3. Distinct(heap) /\ InTable(rows, heap, calls) /\ InMemory(rows, heap, calls)
  BY DEF Mirrors
<1>4. PICK rk : Storage(heap) /\ Ranked(heap, rk)
  BY DEF CallsHeld
<1>5. PICK y, m : Joined(heap, heap', a, y, m) /\ heap'.at[y] = NewTask(id, name, FALSE, a)
  BY <1>1, <1>4, AddChildJoins
<1>6. heap'.at[y].id = id /\ heap'.at[y].name = name /\ heap'.at[y].completed = FALSE
  BY <1>5 DEF NewTask
<1>7. /\ id \in Int /\ id > 0 /\ id \notin DOMAIN rows
      /\ \A i \in DOMAIN rows : i \in Int /\ i < id
  BY <1>1, BoundFacts DEF IsNewRowid, RowIds, IsTable
<1>8. \A x \in LiveAddrs(heap) : x = head \/ heap.at[x].id \in DOMAIN rows
  BY <1>2, RowOfTask DEF Erasing
<1>9. \A x \in LiveAddrs(heap) : heap.at[x].id < id
  BY <1>3, <1>7, <1>8 DEF Distinct
<1>10. Distinct(heap')
  <2>1. /\ \A z \in LiveAddrs(heap') : z = y \/ \E x \in LiveAddrs(heap) : z = m[x]
        /\ \A x \in LiveAddrs(heap) : heap'.at[m[x]].id = heap.at[x].id /\ heap.at[x].id # id
        /\ m[head] = head /\ head \in LiveAddrs(heap)
    BY <1>5, <1>7, <1>9, IdFacts DEF Joined, LiveAddrs, Alive, Addr
  <2>2. QED
    BY <1>3, <1>6, <2>1 DEF Distinct
<1>11. /\ DOMAIN rows' = DOMAIN rows \cup {id}
       /\ rows'[id].parent = heap.at[a].id /\ rows'[id].name = name /\ rows'[id].completed = FALSE
       /\ \A i \in DOMAIN rows : rows'[i] = rows[i]
  BY <1>1, <1>7 DEF Insert
<1>12. Older(rows')
  BY <1>9, <1>11 DEF Older
<1>13. /\ \A z \in LiveAddrs(heap') : z = y \/ \E x \in LiveAddrs(heap) : z = m[x]
       /\ \A x \in LiveAddrs(heap) : m[x] \in LiveAddrs(heap')
       /\ y \in LiveAddrs(heap') /\ m[a] = a
  BY <1>5 DEF Joined
<1>14. InTable(rows', heap', calls')
  <2>1. SUFFICES ASSUME NEW p \in LiveAddrs(heap'), NEW z \in LiveAddrs(heap'), Owns(heap', p, z)
                 PROVE  /\ heap'.at[z].id \in DOMAIN rows'
                        /\ rows'[heap'.at[z].id].parent = heap'.at[p].id
                        /\ rows'[heap'.at[z].id].name = heap'.at[z].name
                        /\ rows'[heap'.at[z].id].completed = heap'.at[z].completed
    BY <1>2 DEF InTable, Erasing
  <2>2. PICK u \in LiveAddrs(heap) : p = m[u]
    BY <1>5, <1>13, <2>1 DEF Joined
  <2>3. heap'.at[p].id = heap.at[u].id
    BY <1>5, <2>2 DEF Joined
  <2>4. CASE z = y
    <3>1. u = a
      BY <1>5, <2>1, <2>2, <2>4 DEF Joined
    <3>2. QED
      BY <1>6, <1>11, <2>3, <2>4, <3>1
  <2>5. CASE z # y
    <3>1. PICK x \in LiveAddrs(heap) : z = m[x]
      BY <1>13, <2>5
    <3>2. Owns(heap, u, x)
      BY <1>5, <2>1, <2>2, <3>1 DEF Joined
    <3>3. /\ heap'.at[z].id = heap.at[x].id /\ heap'.at[z].name = heap.at[x].name
          /\ heap'.at[z].completed = heap.at[x].completed
      BY <1>5, <3>1 DEF Joined
    <3>4. /\ heap.at[x].id \in DOMAIN rows
          /\ rows[heap.at[x].id].parent = heap.at[u].id
          /\ rows[heap.at[x].id].name = heap.at[x].name
          /\ rows[heap.at[x].id].completed = heap.at[x].completed
      BY <1>2, <1>3, <3>2 DEF InTable, Erasing
    <3>5. QED
      BY <1>11, <2>3, <3>3, <3>4
  <2>6. QED
    BY <2>4, <2>5
<1>15. InMemory(rows', heap', calls')
  <2>1. SUFFICES ASSUME NEW p \in LiveAddrs(heap'), NEW i \in ChildRows(rows', heap'.at[p].id)
                 PROVE  \E x \in LiveAddrs(heap') : Owns(heap', p, x) /\ heap'.at[x].id = i
    BY DEF InMemory
  <2>2. i \in DOMAIN rows' /\ rows'[i].parent = heap'.at[p].id
    BY <2>1 DEF ChildRows
  <2>3. p # y
    <3>1. SUFFICES ASSUME p = y PROVE FALSE
      OBVIOUS
    <3>2. i < id \/ i = id
      BY <1>7, <1>11, <2>2
    <3>3. rows'[i].parent = id /\ rows'[i].parent < i
      BY <1>6, <1>12, <2>2, <3>1 DEF Older
    <3>4. QED
      BY <1>7, <1>11, <2>2, <3>2, <3>3
  <2>4. PICK u \in LiveAddrs(heap) : p = m[u]
    BY <1>13, <2>3
  <2>5. heap'.at[p].id = heap.at[u].id
    BY <1>5, <2>4 DEF Joined
  <2>6. CASE i = id
    <3>1. heap.at[u].id = heap.at[a].id
      BY <1>11, <2>2, <2>5, <2>6
    <3>2. u = a
      BY <1>3, <3>1 DEF Distinct
    <3>3. Owns(heap', p, y)
      BY <1>5, <2>4, <3>2 DEF Joined
    <3>4. QED
      BY <1>6, <1>13, <2>6, <3>3
  <2>7. CASE i # id
    <3>1. i \in ChildRows(rows, heap.at[u].id)
      BY <1>11, <2>2, <2>5, <2>7 DEF ChildRows
    <3>2. PICK x \in LiveAddrs(heap) : Owns(heap, u, x) /\ heap.at[x].id = i
      BY <1>2, <1>3, <3>1 DEF InMemory, Ahead
    <3>3. m[x] \in LiveAddrs(heap') /\ Owns(heap', p, m[x]) /\ heap'.at[m[x]].id = i
      BY <1>5, <2>4, <3>2 DEF Joined
    <3>4. QED
      BY <3>3
  <2>8. QED
    BY <2>6, <2>7
<1>16. QED
  BY <1>2, <1>10, <1>12, <1>14, <1>15 DEF Mirrors, ErasesOnce, Erasing, Erased

\* An edit of the name or the mark, in the row and in the task.
LEMMA EditMirrors ==
  ASSUME IsTable(rows), heap \in Heap, calls = <<>>, Mirrors(rows, heap, calls),
         NEW a \in LiveAddrs(heap), NEW t, t.id = heap.at[a].id, t.children = heap.at[a].children,
         heap' = Assign(heap, a, t), calls' = calls,
         DOMAIN rows' = DOMAIN rows,
         \A i \in DOMAIN rows : rows'[i].parent = rows[i].parent,
         \A i \in DOMAIN rows : i # t.id => rows'[i] = rows[i],
         t.id \in DOMAIN rows => rows'[t.id].name = t.name /\ rows'[t.id].completed = t.completed
  PROVE  Mirrors(rows', heap', calls')
<1>1. Distinct(heap) /\ InTable(rows, heap, calls) /\ InMemory(rows, heap, calls)
  BY DEF Mirrors
<1>2. /\ heap'.len = heap.len /\ heap'.cap = heap.cap
      /\ \A x \in Addr : x # a => heap'.at[x] = heap.at[x]
      /\ heap'.at[a] = t
  BY DEF Assign, Heap, LiveAddrs
<1>3. LiveAddrs(heap') = LiveAddrs(heap) /\ LiveAddrs(heap) \subseteq Addr
  BY <1>2 DEF LiveAddrs, Alive
<1>4. \A x \in LiveAddrs(heap) :
        heap'.at[x].id = heap.at[x].id /\ heap'.at[x].children = heap.at[x].children
  BY <1>2, <1>3
<1>5. \A p, x \in LiveAddrs(heap) : Owns(heap', p, x) <=> Owns(heap, p, x)
  BY <1>3, <1>4 DEF Owns, LiveAddrs
<1>6. Distinct(heap')
  <2>1. head \in LiveAddrs(heap)
    BY DEF LiveAddrs, Alive, Addr
  <2>2. QED
    BY <1>1, <1>3, <1>4, <2>1 DEF Distinct
<1>7. InTable(rows', heap', calls')
  <2>1. SUFFICES ASSUME NEW p \in LiveAddrs(heap), NEW x \in LiveAddrs(heap), Owns(heap, p, x)
                 PROVE  /\ heap'.at[x].id \in DOMAIN rows'
                        /\ rows'[heap'.at[x].id].parent = heap'.at[p].id
                        /\ rows'[heap'.at[x].id].name = heap'.at[x].name
                        /\ rows'[heap'.at[x].id].completed = heap'.at[x].completed
    BY <1>3, <1>5 DEF InTable, Erasing
  <2>2. /\ heap.at[x].id \in DOMAIN rows
        /\ rows[heap.at[x].id].parent = heap.at[p].id
        /\ rows[heap.at[x].id].name = heap.at[x].name
        /\ rows[heap.at[x].id].completed = heap.at[x].completed
    BY <1>1, <2>1 DEF InTable, Erasing
  <2>3. CASE x = a
    BY <1>2, <1>4, <2>2, <2>3
  <2>4. CASE x # a
    <3>1. heap.at[x].id # t.id /\ heap'.at[x] = heap.at[x]
      BY <1>1, <1>2, <1>3, <2>4 DEF Distinct
    <3>2. QED
      BY <1>4, <2>2, <3>1
  <2>5. QED
    BY <2>3, <2>4
<1>8. InMemory(rows', heap', calls')
  <2>1. \A id : ChildRows(rows', id) = ChildRows(rows, id)
    BY DEF ChildRows
  <2>2. \A p : ~Ahead(heap, calls, p)
    BY DEF Ahead
  <2>3. SUFFICES ASSUME NEW p \in LiveAddrs(heap'), NEW i \in ChildRows(rows', heap'.at[p].id)
                 PROVE  \E x \in LiveAddrs(heap') : Owns(heap', p, x) /\ heap'.at[x].id = i
    BY DEF InMemory
  <2>4. p \in LiveAddrs(heap) /\ i \in ChildRows(rows, heap.at[p].id)
    BY <1>3, <1>4, <2>1, <2>3
  <2>5. PICK x \in LiveAddrs(heap) : Owns(heap, p, x) /\ heap.at[x].id = i
    BY <1>1, <2>2, <2>4 DEF InMemory
  <2>6. x \in LiveAddrs(heap') /\ Owns(heap', p, x) /\ heap'.at[x].id = i
    BY <1>3, <1>4, <1>5, <2>4, <2>5
  <2>7. QED
    BY <2>6
<1>9. QED
  BY <1>6, <1>7, <1>8 DEF Mirrors, ErasesOnce, Erasing, Erased

LEMMA SetTaskNameMirrors ==
  ASSUME IsTable(rows), heap \in Heap, calls = <<>>,
         CallsHeld(heap, calls), Mirrors(rows, heap, calls),
         NEW a \in LiveAddrs(heap), NEW name \in Names, SetTaskName(a, name)
  PROVE  Mirrors(rows', heap', calls')
<1> DEFINE t == [heap.at[a] EXCEPT !.name = name]
<1>1. heap.at[a] \in Task
  BY DEF Heap, LiveAddrs
<1>2. /\ t.id = heap.at[a].id /\ t.children = heap.at[a].children
      /\ t.name = name /\ t.completed = heap.at[a].completed
  BY <1>1 DEF Task
<1>3. heap' = Assign(heap, a, t) /\ calls' = calls /\ rows' = UpdateName(rows, t.id, name)
  BY <1>2 DEF SetTaskName
<1> HIDE DEF t
<1>4. /\ DOMAIN rows' = DOMAIN rows
      /\ \A i \in DOMAIN rows : rows'[i].parent = rows[i].parent
      /\ \A i \in DOMAIN rows : i # t.id => rows'[i] = rows[i]
      /\ t.id \in DOMAIN rows => rows'[t.id].name = name /\ rows'[t.id].completed = rows[t.id].completed
  BY <1>3 DEF UpdateName, IsTable, Row
<1>5. t.id \in DOMAIN rows => rows[t.id].completed = t.completed
  <2>1. SUFFICES ASSUME t.id \in DOMAIN rows PROVE rows[t.id].completed = t.completed
    OBVIOUS
  <2>2. a # head
    BY <1>2, <2>1, BoundFacts DEF Mirrors, Distinct, IsTable, RowIds
  <2>3. PICK p \in LiveAddrs(heap) : Owns(heap, p, a)
    BY <2>2, HeldFacts
  <2>4. QED
    BY <1>2, <2>3 DEF Mirrors, InTable, Erasing
<1>6. t.id \in DOMAIN rows => rows'[t.id].name = t.name /\ rows'[t.id].completed = t.completed
  BY <1>2, <1>4, <1>5
<1>7. QED
  BY <1>2, <1>3, <1>4, <1>6, EditMirrors

LEMMA ToggleMirrors ==
  ASSUME IsTable(rows), heap \in Heap, calls = <<>>,
         CallsHeld(heap, calls), Mirrors(rows, heap, calls),
         NEW a \in LiveAddrs(heap), ToggleTaskCompleted(a)
  PROVE  Mirrors(rows', heap', calls')
<1> DEFINE t == [heap.at[a] EXCEPT !.completed = ~heap.at[a].completed]
<1>1. heap.at[a] \in Task
  BY DEF Heap, LiveAddrs
<1>2. /\ t.id = heap.at[a].id /\ t.children = heap.at[a].children
      /\ t.name = heap.at[a].name /\ t.completed = ~heap.at[a].completed
  BY <1>1 DEF Task
<1>3. /\ heap' = Assign(heap, a, t) /\ calls' = calls
      /\ rows' = UpdateCompleted(rows, t.id, t.completed)
  BY <1>2 DEF ToggleTaskCompleted
<1> HIDE DEF t
<1>4. /\ DOMAIN rows' = DOMAIN rows
      /\ \A i \in DOMAIN rows : rows'[i].parent = rows[i].parent
      /\ \A i \in DOMAIN rows : i # t.id => rows'[i] = rows[i]
      /\ t.id \in DOMAIN rows => rows'[t.id].name = rows[t.id].name /\ rows'[t.id].completed = t.completed
  BY <1>3 DEF UpdateCompleted, IsTable, Row
<1>5. t.id \in DOMAIN rows => rows[t.id].name = t.name
  <2>1. SUFFICES ASSUME t.id \in DOMAIN rows PROVE rows[t.id].name = t.name
    OBVIOUS
  <2>2. a # head
    BY <1>2, <2>1, BoundFacts DEF Mirrors, Distinct, IsTable, RowIds
  <2>3. PICK p \in LiveAddrs(heap) : Owns(heap, p, a)
    BY <2>2, HeldFacts
  <2>4. QED
    BY <1>2, <2>3 DEF Mirrors, InTable, Erasing
<1>6. t.id \in DOMAIN rows => rows'[t.id].name = t.name /\ rows'[t.id].completed = t.completed
  BY <1>4, <1>5
<1>7. QED
  BY <1>2, <1>3, <1>4, <1>6, EditMirrors

\* A step that changes the stack only, and leaves no less ahead.
LEMMA StackMirrors ==
  ASSUME NEW t, NEW h, NEW s, Mirrors(t, h, s), NEW s2, ~Erasing(s), ~Erasing(s2), ~Erased(s2),
         \A p : Ahead(h, s, p) => Ahead(h, s2, p)
  PROVE  Mirrors(t, h, s2)
<1>1. InTable(t, h, s2)
  BY DEF Mirrors, InTable
<1>2. InMemory(t, h, s2)
  BY DEF Mirrors, InMemory
<1>3. QED
  BY <1>1, <1>2 DEF Mirrors, ErasesOnce

LEMMA RemoveMirrors ==
  ASSUME calls = <<>>, Mirrors(rows, heap, calls), NEW a, Remove(a)
  PROVE  Mirrors(rows', heap', calls')
<1>1. rows' = rows /\ heap' = heap /\ calls' = <<At(a, "remove", 0)>>
  BY DEF Remove, Enter, Call
<1>2. ~Erasing(calls') /\ ~Erased(calls')
  BY <1>1 DEF At, Erasing, Erased
<1>3. ~Erasing(calls) /\ \A p : ~Ahead(heap, calls, p)
  BY DEF Erasing, Ahead
<1>4. QED
  BY <1>1, <1>2, <1>3, StackMirrors

LEMMA RemoveThrowsMirrors ==
  ASSUME Mirrors(rows, heap, calls), OneKind(calls), calls \in Seq(Frame), RemoveThrows
  PROVE  Mirrors(rows', heap', calls')
<1>1. /\ rows' = rows /\ heap' = heap /\ calls' = <<>>
      /\ calls # <<>> /\ calls[1].pc = "remove"
  BY DEF RemoveThrows, InPc
<1>2. \A j \in 1 .. Len(calls) : calls[j].pc \in {"remove", "erase"}
  BY <1>1, TopOfStack DEF OneKind
<1>3. ~Erasing(calls) /\ ~Erasing(calls') /\ ~Erased(calls')
  BY <1>1 DEF Erasing, Erased
<1>4. \A p : ~Ahead(heap, calls, p)
  BY <1>2, NoneAhead
<1>5. QED
  BY <1>1, <1>3, <1>4, StackMirrors

\* In a call of remove, every call is one of remove; nothing is ahead.
LEMMA RemovingFacts ==
  ASSUME OneKind(calls), calls \in Seq(Frame), Removing(calls)
  PROVE  /\ Stack(calls)
         /\ \A h, p : ~Ahead(h, calls, p)
<1>1. \A j \in 1 .. Len(calls) : calls[j].pc \in {"remove", "erase"}
  BY TopOfStack DEF OneKind, Removing
<1>2. QED
  BY <1>1, NoneAhead DEF Stack, Removing

LEMMA RemoveChildMirrors ==
  ASSUME heap \in Heap, calls \in Seq(Frame), OneKind(calls), Mirrors(rows, heap, calls),
         RemoveChild
  PROVE  Mirrors(rows', heap', calls')
<1> DEFINE c == get_child(heap, calls[1].task, calls[1].i)
<1>1. /\ calls # <<>> /\ calls[1].pc = "remove" /\ rows' = rows /\ heap' = heap
      /\ calls[1].i < get_child_count(heap, calls[1].task)
      /\ Enter(Call(c, "remove"))
  BY DEF RemoveChild, InPc
<1>2. Removing(calls) /\ ~Erasing(calls)
  BY <1>1 DEF Removing, Erasing
<1>3. /\ \A p : ~Ahead(heap, calls, p)
      /\ Len(calls) \in Nat \ {0} /\ calls[1].task \in Addr /\ calls[1].i \in Nat
  BY <1>1, <1>2, RemovingFacts, TopType
<1>4. c \in Addr
  BY <1>1, <1>3, CountType
<1> HIDE DEF c
<1>5. Call(c, "remove") \in Frame /\ Call(c, "remove").pc = "remove"
  BY <1>4, AtType DEF Call, At
<1>6. calls'[1].pc = "remove"
  BY <1>1, <1>5, EnterStack
<1>7. ~Erased(calls') /\ ~Erasing(calls')
  BY <1>6 DEF Erased, Erasing
<1>8. QED
  BY <1>1, <1>2, <1>3, <1>7, StackMirrors

LEMMA RemoveRowMirrors ==
  ASSUME heap \in Heap, calls \in Seq(Frame), calls' \in Seq(Frame), OneKind(calls), OneKind(calls'),
         CallsHeld(heap, calls), Mirrors(rows, heap, calls), RemoveRow
  PROVE  Mirrors(rows', heap', calls')
<1> DEFINE a == calls[1].task
           id == heap.at[a].id
<1>1. calls # <<>> /\ calls[1].pc = "remove" /\ heap' = heap /\ Goto("erase", 0)
  BY DEF RemoveRow, InPc
<1>2. /\ Removing(calls) /\ ~Erasing(calls)
      /\ Distinct(heap) /\ InTable(rows, heap, calls) /\ InMemory(rows, heap, calls)
  BY <1>1 DEF Removing, Erasing, Mirrors
<1>3. /\ \A p : ~Ahead(heap, calls, p)
      /\ Len(calls) \in Nat \ {0} /\ 1 \in 1 .. Len(calls) /\ a \in Addr
  BY <1>1, <1>2, RemovingFacts, TopType
<1>4. Alive(heap, a) /\ a \in LiveAddrs(heap)
  BY <1>1, <1>2, <1>3 DEF CallsHeld, Held, LiveAddrs
<1>5. rows' = Delete(rows, id)
  BY <1>4 DEF RemoveRow
<1>6. Len(calls') = Len(calls) /\ calls'[1] = At(a, "erase", 0)
  BY <1>1, GotoStack
<1>7. calls'[1].task = a /\ calls'[1].pc = "erase" /\ calls'[1].i = 0 /\ calls' # <<>>
  BY <1>3, <1>6 DEF At
<1>8. Erasing(calls') /\ ~Erased(calls') /\ Removing(calls')
  BY <1>7 DEF Erasing, Erased, Removing
<1> HIDE DEF a, id
<1>9. /\ DOMAIN rows' = DOMAIN rows \ {id}
      /\ \A i \in DOMAIN rows' : rows'[i] = rows[i]
  BY <1>5 DEF Delete
<1>10. InTable(rows', heap, calls')
  <2>1. \A x \in LiveAddrs(heap) : x # a => heap.at[x].id # id
    BY <1>2, <1>4 DEF Distinct, id
  <2>2. QED
    BY <1>2, <1>7, <1>8, <1>9, <2>1 DEF InTable, id
<1>11. InMemory(rows', heap, calls')
  <2>1. \A j : ChildRows(rows', j) \subseteq ChildRows(rows, j)
    BY <1>9 DEF ChildRows
  <2>2. QED
    BY <1>2, <1>3, <2>1 DEF InMemory
<1>12. QED
  BY <1>1, <1>2, <1>4, <1>7, <1>8, <1>10, <1>11 DEF Mirrors, ErasesOnce

\* As ids are distinct, the erase takes the very task that is being removed.
LEMMA EraseFacts ==
  ASSUME heap \in Heap, calls \in Seq(Frame), OneKind(calls),
         CallsHeld(heap, calls), Mirrors(rows, heap, calls), RemoveErase, ~astray'
  PROVE  /\ Erasing(calls) /\ Removing(calls)
         /\ \A h, p : ~Ahead(h, calls, p)
         /\ Len(calls) \in Nat \ {0} /\ calls[1].task \in LiveAddrs(heap)
         /\ Storage(heap)
         /\ \E rk \in [LiveAddrs(heap) -> Nat], q \in LiveAddrs(heap), k \in Nat :
              /\ Ranked(heap, rk)
              /\ k < get_child_count(heap, q)
              /\ calls[1].task = get_child(heap, q, k) /\ calls[1].task[2] = k
              /\ Owns(heap, q, calls[1].task)
              /\ heap' = EraseChild(heap, q, k) /\ Goto("erase", k + 1)
              /\ \A j \in 2 .. Len(calls) :
                   calls[j].task \in LiveAddrs(heap) /\ rk[calls[j].task] <= rk[q]
<1> DEFINE a == calls[1].task
<1>1. /\ Removing(calls) /\ Len(calls) \in Nat \ {0} /\ a \in LiveAddrs(heap)
      /\ Storage(heap)
  BY EraseTakesChild
<1>2. PICK rk \in [LiveAddrs(heap) -> Nat], q \in LiveAddrs(heap), k \in Nat :
              /\ Ranked(heap, rk)
              /\ Owns(heap, q, calls[1].task)
              /\ k < get_child_count(heap, q) /\ calls[1].i <= k
              /\ heap.at[get_child(heap, q, k)].id = heap.at[calls[1].task].id
              /\ heap' = EraseChild(heap, q, k) /\ Goto("erase", k + 1)
              /\ \A j \in 2 .. Len(calls) :
                   calls[j].task \in LiveAddrs(heap) /\ rk[calls[j].task] <= rk[q]
  BY EraseTakesChild
<1>3. \A h, p : ~Ahead(h, calls, p)
  BY <1>1, RemovingFacts
<1>4. get_child(heap, q, k) \in LiveAddrs(heap) /\ get_child(heap, q, k)[2] = k
  BY <1>2, OwnedFacts DEF get_child
<1>5. calls[1].task = get_child(heap, q, k) /\ calls[1].task[2] = k
  BY <1>1, <1>2, <1>4 DEF Mirrors, Distinct
<1>6. Erasing(calls)
  <2>1. calls # <<>> /\ calls[1].pc = "erase" /\ calls[1].i \in Nat
    BY TopType DEF RemoveErase, InPc
  <2>2. ~Erased(calls)
    BY <1>2, <1>5, <2>1 DEF Mirrors, ErasesOnce
  <2>3. QED
    BY <2>1, <2>2 DEF Erasing, Erased
<1>7. QED
  BY <1>1, <1>2, <1>3, <1>5, <1>6, Zenon

LEMMA RemoveEraseMirrors ==
  ASSUME heap \in Heap, calls \in Seq(Frame), OneKind(calls),
         CallsHeld(heap, calls), Mirrors(rows, heap, calls), RemoveErase, ~astray'
  PROVE  Mirrors(rows', heap', calls')
<1> DEFINE a == calls[1].task
<1>1. /\ calls # <<>> /\ rows' = rows /\ Erasing(calls) /\ Storage(heap)
      /\ \A p : ~Ahead(heap, calls, p)
      /\ Len(calls) \in Nat \ {0} /\ a \in LiveAddrs(heap)
  BY EraseFacts DEF RemoveErase, InPc
<1>2. Distinct(heap) /\ InTable(rows, heap, calls) /\ InMemory(rows, heap, calls)
  BY DEF Mirrors
<1>3. PICK rk \in [LiveAddrs(heap) -> Nat], q \in LiveAddrs(heap), k \in Nat :
              /\ Ranked(heap, rk)
              /\ k < get_child_count(heap, q)
              /\ a = get_child(heap, q, k) /\ a[2] = k
              /\ Owns(heap, q, a)
              /\ heap' = EraseChild(heap, q, k) /\ Goto("erase", k + 1)
  BY EraseFacts
<1> HIDE DEF a
<1>4. PICK m \in [LiveAddrs(heap') -> LiveAddrs(heap)] :
         /\ m[head] = head
         /\ \A x, y \in LiveAddrs(heap') : m[x] = m[y] => x = y
         /\ \A x \in LiveAddrs(heap') :
              heap'.at[x] = heap.at[m[x]] /\ m[x][1] = x[1] /\ m[x] # a
         /\ \A p \in LiveAddrs(heap'), c \in LiveAddrs(heap) :
              Owns(heap, m[p], c) /\ c # a => \E x \in LiveAddrs(heap') : m[x] = c
  <2> DEFINE Moved(h, d, e) ==
        \E m \in [LiveAddrs(e) -> LiveAddrs(h)] :
          /\ m[head] = head
          /\ \A x, y \in LiveAddrs(e) : m[x] = m[y] => x = y
          /\ \A x \in LiveAddrs(e) : e.at[x] = h.at[m[x]] /\ m[x][1] = x[1] /\ m[x] # d
          /\ \A p \in LiveAddrs(e), c \in LiveAddrs(h) :
               Owns(h, m[p], c) /\ c # d => \E x \in LiveAddrs(e) : m[x] = c
  <2>1. ASSUME NEW h \in Heap, NEW rr, NEW b \in LiveAddrs(h), NEW j \in Nat, NEW d, NEW e,
               Storage(h), Ranked(h, rr), j < get_child_count(h, b),
               d = get_child(h, b, j), e = EraseChild(h, b, j)
        PROVE  Moved(h, d, e)
    BY <2>1, EraseMoves
  <2>2. /\ Storage(heap) /\ Ranked(heap, rk) /\ q \in LiveAddrs(heap) /\ k \in Nat /\ k < get_child_count(heap, q)
        /\ a = get_child(heap, q, k) /\ heap' = EraseChild(heap, q, k)
    BY <1>1, <1>3
  <2> HIDE DEF Moved
  <2>3. Moved(heap, a, heap')
    BY <2>1, <2>2
  <2>4. QED
    BY <2>3 DEF Moved
<1>5. \A p, x \in LiveAddrs(heap') : Owns(heap', p, x) <=> Owns(heap, m[p], m[x])
  BY <1>4 DEF Owns, LiveAddrs
<1>6. Len(calls') = Len(calls) /\ calls'[1] = At(a, "erase", k + 1)
  BY <1>1, <1>3, GotoStack DEF a
<1>7. /\ calls'[1].task = a /\ calls'[1].i = k + 1
      /\ Erased(calls') /\ ~Erasing(calls')
  <2>1. calls'[1].task = a /\ calls'[1].pc = "erase" /\ calls'[1].i = k + 1
    BY <1>6 DEF At
  <2>2. calls' # <<>> /\ k + 1 > 0 /\ k + 1 # 0
    BY <1>1, <1>3, <1>6
  <2>3. QED
    BY <2>1, <2>2 DEF Erased, Erasing
<1>8. Distinct(heap')
  <2>1. head \in LiveAddrs(heap')
    BY DEF LiveAddrs, Alive, Addr
  <2>2. heap'.at[head].id = 0
    BY <1>2, <1>4, <2>1 DEF Distinct
  <2>3. \A x, y \in LiveAddrs(heap') : heap'.at[x].id = heap'.at[y].id => x = y
    BY <1>2, <1>4 DEF Distinct
  <2>4. QED
    BY <2>2, <2>3 DEF Distinct
<1>9. InTable(rows', heap', calls')
  <2>1. SUFFICES ASSUME NEW p \in LiveAddrs(heap'), NEW x \in LiveAddrs(heap'), Owns(heap', p, x)
                 PROVE  /\ heap'.at[x].id \in DOMAIN rows
                        /\ rows[heap'.at[x].id].parent = heap'.at[p].id
                        /\ rows[heap'.at[x].id].name = heap'.at[x].name
                        /\ rows[heap'.at[x].id].completed = heap'.at[x].completed
    BY <1>1, <1>7 DEF InTable
  <2>2. Owns(heap, m[p], m[x]) /\ m[x] # a /\ heap'.at[x] = heap.at[m[x]] /\ heap'.at[p] = heap.at[m[p]]
        /\ m[p] \in LiveAddrs(heap) /\ m[x] \in LiveAddrs(heap)
    BY <1>4, <1>5, <2>1
  <2>3. QED
    BY <1>1, <1>2, <2>2 DEF InTable, a
<1>10. InMemory(rows', heap', calls')
  <2>1. SUFFICES ASSUME NEW p \in LiveAddrs(heap'), NEW i \in ChildRows(rows, heap'.at[p].id)
                 PROVE  \E x \in LiveAddrs(heap') : Owns(heap', p, x) /\ heap'.at[x].id = i
    BY <1>1 DEF InMemory
  <2>2. i \in ChildRows(rows, heap.at[m[p]].id) /\ m[p] \in LiveAddrs(heap)
    BY <1>4, <2>1
  <2>3. PICK c \in LiveAddrs(heap) : Owns(heap, m[p], c) /\ heap.at[c].id = i
    BY <1>1, <1>2, <2>2 DEF InMemory
  <2>4. heap.at[a].id \notin DOMAIN rows
    BY <1>1, <1>2, <1>3 DEF InTable, a
  <2>5. c # a
    BY <2>2, <2>3, <2>4 DEF ChildRows
  <2>6. PICK x \in LiveAddrs(heap') : m[x] = c
    BY <1>4, <2>3, <2>5
  <2>7. Owns(heap', p, x) /\ heap'.at[x].id = i
    BY <1>4, <1>5, <2>3, <2>6
  <2>8. QED
    BY <2>7
<1>11. ErasesOnce(heap', calls')
  BY <1>3, <1>7 DEF ErasesOnce
<1>12. QED
  BY <1>8, <1>9, <1>10, <1>11 DEF Mirrors

\* A call of remove returns only after its erase, to a call that is still before its own.
LEMMA RemoveReturnMirrors ==
  ASSUME heap \in Heap, calls \in Seq(Frame), OneKind(calls),
         CallsHeld(heap, calls), Mirrors(rows, heap, calls), RemoveReturn, ~astray'
  PROVE  Mirrors(rows', heap', calls')
<1> DEFINE a == calls[1].task
           q == heap.at[a].parent
<1>1. /\ calls # <<>> /\ calls[1].pc = "erase" /\ rows' = rows /\ heap' = heap /\ Return
      /\ Alive(heap, a) => PointsToOwner(heap, a) /\ Matches(heap, q, a, calls[1].i) = {}
  BY DEF RemoveReturn, InPc
<1>2. Removing(calls)
  BY <1>1 DEF Removing
<1>3. /\ \A p : ~Ahead(heap, calls, p)
      /\ Len(calls) \in Nat \ {0} /\ a \in Addr
  BY <1>1, <1>2, RemovingFacts, TopType
<1>4. ~Erasing(calls)
  <2>1. SUFFICES ASSUME Erasing(calls) PROVE FALSE
    OBVIOUS
  <2>2. Alive(heap, a) /\ calls[1].i = 0 /\ a \in LiveAddrs(heap)
    BY <1>3, <2>1 DEF Erasing, Mirrors, ErasesOnce, LiveAddrs
  <2>3. q \in LiveAddrs(heap) /\ Owns(heap, q, a)
    BY <1>1, <2>2 DEF PointsToOwner, Owns, LiveAddrs
  <2> HIDE DEF q, a
  <2>4. /\ heap.at[q].children = a[1] /\ a # head
    <3>1. head[1] = Root /\ heap.at[q].children = a[1] /\ heap.at[q].children \in Bufs \cup {Nil}
      BY <2>3, LiveFacts DEF Owns, head
    <3>2. QED
      BY <3>1, BlocksAssumption
  <2>5. a \in Bufs \X Slots /\ a[1] \in Bufs /\ a[2] \in Nat /\ a[2] < heap.len[a[1]]
    BY <2>2, <2>4, LiveFacts
  <2>6. get_child(heap, q, a[2]) = a
    <3>1. a = <<a[1], a[2]>>
      BY <2>5
    <3>2. QED
      BY <2>4, <3>1 DEF get_child
  <2>7. get_child_count(heap, q) = heap.len[a[1]] /\ heap.len[a[1]] \in Int
    BY <2>4, <2>5, BlocksAssumption, BoundFacts DEF get_child_count, Heap
  <2>8. a[2] \in Matches(heap, q, a, 0)
    BY <2>5, <2>6, <2>7 DEF Matches
  <2>9. QED
    BY <1>1, <2>2, <2>8 DEF a, q
<1>5. CASE Len(calls) = 1
  <2>1. calls' = <<>>
    BY <1>1, <1>5 DEF Return
  <2>2. QED
    BY <1>1, <1>3, <1>4, <2>1, StackMirrors DEF Erasing, Erased
<1>6. CASE Len(calls) # 1
  <2>1. Len(calls) > 1 /\ 2 \in 2 .. Len(calls)
    <3>1. \A n \in Nat \ {0} : n # 1 => n > 1 /\ 2 \in 2 .. n
      OBVIOUS
    <3>2. QED
      BY <1>3, <1>6, <3>1
  <2>2. calls[2].pc = "remove"
    BY <1>2, <2>1 DEF CallsHeld, Held
  <2>3. calls'[1].pc = "remove"
    BY <1>1, <2>1, <2>2, ReturnStack DEF At
  <2>4. QED
    BY <1>1, <1>3, <1>4, <2>3, StackMirrors DEF Erasing, Erased
<1>7. QED
  BY <1>5, <1>6

\* A tree just constructed: the head, whose children are still to be selected.
LEMMA StartMirrors ==
  ASSUME Start
  PROVE  Mirrors(rows', heap', calls')
<1>1. heap' = EmptyHeap /\ calls' = <<At(head, "select", 0)>>
  BY DEF Start, Call
<1>2. /\ Len(calls') = 1 /\ calls'[1].task = head /\ calls'[1].pc = "select"
      /\ Ahead(heap', calls', head)
  BY <1>1 DEF At, Ahead
<1>3. LiveAddrs(heap') = {head}
  BY <1>1, EmptyHeapShape
<1>4. heap'.at[head].id = 0 /\ heap'.at[head].children = Nil
  BY <1>1 DEF EmptyHeap, Blank, NewTask, Addr
<1>5. ~Owns(heap', head, head)
  BY <1>4, BlocksAssumption DEF Owns, head
<1>6. Distinct(heap') /\ InTable(rows', heap', calls')
  BY <1>3, <1>4, <1>5 DEF Distinct, InTable
<1>7. InMemory(rows', heap', calls')
  BY <1>2, <1>3 DEF InMemory
<1>8. QED
  BY <1>2, <1>6, <1>7 DEF Mirrors, ErasesOnce, Erasing, Erased

LEMMA LoadDescendMirrors ==
  ASSUME heap \in Heap, calls \in Seq(Frame), Mirrors(rows, heap, calls), LoadDescend
  PROVE  Mirrors(rows', heap', calls')
<1> DEFINE c == get_child(heap, calls[1].task, calls[1].i)
<1>1. /\ calls # <<>> /\ calls[1].pc = "load" /\ rows' = rows /\ heap' = heap
      /\ calls[1].i < get_child_count(heap, calls[1].task) /\ Enter(Call(c, "select"))
  BY DEF LoadDescend, InPc
<1>2. /\ Len(calls) \in Nat \ {0}
      /\ \A j \in 1 .. Len(calls) : calls[j].task \in Addr /\ calls[j].i \in Nat
  BY <1>1, TopOfStack
<1>3. c \in Addr
  BY <1>1, <1>2, CountType
<1> HIDE DEF c
<1>4. Call(c, "select") \in Frame /\ Call(c, "select").task = c /\ Call(c, "select").pc = "select"
  BY <1>3, AtType DEF Call, At
<1>5. /\ Len(calls') = Len(calls) + 1
      /\ calls'[1].task = c /\ calls'[1].pc = "select"
      /\ \A j \in 2 .. Len(calls) + 1 : calls'[j] = calls[j - 1]
  BY <1>1, <1>4, EnterStack
<1>6. \A j \in 1 .. Len(calls) : j + 1 \in 2 .. Len(calls') /\ calls'[j + 1] = calls[j]
  BY <1>2, <1>5
<1>7. ASSUME NEW p, Ahead(heap, calls, p)
      PROVE  Ahead(heap, calls', p)
  <2>1. PICK j \in 1 .. Len(calls) :
          \/ calls[j].pc = "select" /\ p = calls[j].task
          \/ /\ calls[j].pc = "load"
             /\ \E k \in calls[j].i .. get_child_count(heap, calls[j].task) - 1 :
                  (j = 1 \/ k > calls[j].i) /\ p = get_child(heap, calls[j].task, k)
    BY <1>7 DEF Ahead
  <2>2. j + 1 \in 1 .. Len(calls') /\ calls'[j + 1] = calls[j] /\ 1 \in 1 .. Len(calls')
    BY <1>2, <1>5, <1>6
  <2>3. CASE calls[j].pc = "select" /\ p = calls[j].task
    BY <2>2, <2>3 DEF Ahead
  <2>4. CASE /\ calls[j].pc = "load"
             /\ \E k \in calls[j].i .. get_child_count(heap, calls[j].task) - 1 :
                  (j = 1 \/ k > calls[j].i) /\ p = get_child(heap, calls[j].task, k)
    <3>1. PICK k \in calls[j].i .. get_child_count(heap, calls[j].task) - 1 :
             (j = 1 \/ k > calls[j].i) /\ p = get_child(heap, calls[j].task, k)
      BY <2>4
    <3>2. CASE k > calls[j].i
      BY <2>2, <2>4, <3>1, <3>2 DEF Ahead
    <3>3. CASE ~(k > calls[j].i)
      <4>1. j = 1 /\ k = calls[1].i
        BY <1>2, <3>1, <3>3
      <4>2. p = c
        BY <3>1, <4>1 DEF c
      <4>3. QED
        BY <1>5, <2>2, <4>2 DEF Ahead
    <3>4. QED
      BY <3>2, <3>3
  <2>5. QED
    BY <2>1, <2>3, <2>4
<1>8. ~Erasing(calls) /\ ~Erasing(calls') /\ ~Erased(calls')
  BY <1>1, <1>5 DEF Erasing, Erased
<1>9. QED
  BY <1>1, <1>7, <1>8, StackMirrors

LEMMA LoadReturnMirrors ==
  ASSUME heap \in Heap, calls \in Seq(Frame), OneKind(calls), Mirrors(rows, heap, calls),
         LoadReturn
  PROVE  Mirrors(rows', heap', calls')
<1>1. /\ calls # <<>> /\ calls[1].pc = "load" /\ rows' = rows /\ heap' = heap
      /\ calls[1].i >= get_child_count(heap, calls[1].task) /\ Return
  BY DEF LoadReturn, InPc
<1>2. /\ Len(calls) \in Nat \ {0} /\ 1 \in 1 .. Len(calls)
      /\ \A j \in 1 .. Len(calls) :
           /\ calls[j].task \in Addr /\ calls[j].i \in Nat
           /\ get_child_count(heap, calls[j].task) \in Int
  BY <1>1, TopOfStack, CountType, BoundFacts
<1>3. \A j \in 1 .. Len(calls) : calls[j].pc \in {"select", "load"}
  BY <1>1, <1>2 DEF OneKind
<1>4. ~Erasing(calls)
  BY <1>1 DEF Erasing
<1>5. ASSUME NEW p, Ahead(heap, calls, p)
      PROVE  /\ Len(calls) > 1
             /\ \E j \in 2 .. Len(calls) :
                  \/ calls[j].pc = "select" /\ p = calls[j].task
                  \/ /\ calls[j].pc = "load"
                     /\ \E k \in calls[j].i + 1 .. get_child_count(heap, calls[j].task) - 1 :
                          p = get_child(heap, calls[j].task, k)
  <2>1. PICK j \in 1 .. Len(calls) :
          \/ calls[j].pc = "select" /\ p = calls[j].task
          \/ /\ calls[j].pc = "load"
             /\ \E k \in calls[j].i .. get_child_count(heap, calls[j].task) - 1 :
                  (j = 1 \/ k > calls[j].i) /\ p = get_child(heap, calls[j].task, k)
    BY <1>5 DEF Ahead
  <2>2. j # 1
    <3>1. SUFFICES ASSUME j = 1 PROVE FALSE
      OBVIOUS
    <3>2. PICK k \in calls[1].i .. get_child_count(heap, calls[1].task) - 1 : TRUE
      BY <1>1, <2>1, <3>1
    <3>3. QED
      BY <1>1, <1>2, <3>2
  <2>3. j \in 2 .. Len(calls) /\ Len(calls) > 1
    BY <1>2, <2>2
  <2>4. calls[j].i \in Nat /\ get_child_count(heap, calls[j].task) \in Int
    BY <1>2
  <2>5. \A k \in calls[j].i .. get_child_count(heap, calls[j].task) - 1 :
          k > calls[j].i => k \in calls[j].i + 1 .. get_child_count(heap, calls[j].task) - 1
    BY <2>4
  <2>6. QED
    BY <2>1, <2>2, <2>3, <2>5
<1>6. CASE Len(calls) = 1
  <2>1. calls' = <<>>
    BY <1>1, <1>6 DEF Return
  <2>2. ~Erasing(calls') /\ ~Erased(calls')
    BY <2>1 DEF Erasing, Erased
  <2>3. \A p : ~Ahead(heap, calls, p)
    BY <1>5, <1>6
  <2>4. QED
    BY <1>1, <1>4, <2>2, <2>3, StackMirrors
<1>7. CASE Len(calls) # 1
  <2>0. Len(calls) > 1
    <3>1. \A n \in Nat \ {0} : n # 1 => n > 1
      OBVIOUS
    <3>2. QED
      BY <1>2, <1>7, <3>1
  <2>1. /\ Len(calls') = Len(calls) - 1
        /\ calls'[1] = At(calls[2].task, calls[2].pc, calls[2].i + 1)
        /\ \A j \in 2 .. Len(calls) - 1 : calls'[j] = calls[j + 1]
    BY <1>1, <2>0, ReturnStack
  <2>2. /\ calls'[1].task = calls[2].task /\ calls'[1].pc = calls[2].pc
        /\ calls'[1].i = calls[2].i + 1 /\ calls[2].pc \in {"select", "load"}
    BY <1>2, <1>3, <2>0, <2>1 DEF At
  <2>3. ASSUME NEW p, Ahead(heap, calls, p)
        PROVE  Ahead(heap, calls', p)
    <3>1. PICK j \in 2 .. Len(calls) :
            \/ calls[j].pc = "select" /\ p = calls[j].task
            \/ /\ calls[j].pc = "load"
               /\ \E k \in calls[j].i + 1 .. get_child_count(heap, calls[j].task) - 1 :
                    p = get_child(heap, calls[j].task, k)
      BY <1>5, <2>3
    <3>2. CASE j = 2
      <4>1. 1 \in 1 .. Len(calls')
        BY <1>2, <2>0, <2>1
      <4>2. QED
        BY <2>2, <3>1, <3>2, <4>1 DEF Ahead
    <3>3. CASE j # 2
      <4>1. j - 1 \in 1 .. Len(calls') /\ calls'[j - 1] = calls[j] /\ j \in 1 .. Len(calls)
        BY <1>2, <2>1, <3>3
      <4>2. \A k \in calls[j].i + 1 .. get_child_count(heap, calls[j].task) - 1 :
               k > calls[j].i /\ k \in calls[j].i .. get_child_count(heap, calls[j].task) - 1
        BY <1>2, <4>1
      <4>3. QED
        BY <3>1, <4>1, <4>2 DEF Ahead
    <3>4. QED
      BY <3>2, <3>3
  <2>4. ~Erasing(calls') /\ ~Erased(calls')
    BY <2>2 DEF Erasing, Erased
  <2>5. QED
    BY <1>1, <1>4, <2>3, <2>4, StackMirrors
<1>8. QED
  BY <1>6, <1>7

\* A scan returns each row once.
LEMMA ScanFacts ==
  ASSUME IsTable(rows), NEW id, NEW ids, ids = ChildRows(rows, id), NEW n, n = Cardinality(ids),
         NEW f \in ScanOrders(ids)
  PROVE  /\ n \in Nat /\ f \in [0 .. n - 1 -> ids] /\ ids \subseteq DOMAIN rows
         /\ ids # {} => n # 0
         /\ \A j, k \in 0 .. n - 1 : f[j] = f[k] => j = k
         /\ \A i \in ids : \E j \in 0 .. n - 1 : f[j] = i
<1>1. IsFiniteSet(ids) /\ ids \subseteq RowIds /\ ids \subseteq DOMAIN rows
  <2>1. IsFiniteSet(RowIds) /\ ids \subseteq RowIds
    BY FS_Interval, BoundFacts DEF RowIds, ChildRows, IsTable
  <2>2. QED
    BY <2>1, FS_Subset DEF ChildRows
<1>2. n \in Nat /\ (ids # {} => n # 0)
  BY <1>1, FS_CardinalityType, FS_EmptySet
<1>3. f \in [0 .. n - 1 -> ids] /\ \A j, k \in 0 .. n - 1 : j < k => f[j] < f[k]
  BY DEF ScanOrders
<1>4. \A j, k \in 0 .. n - 1 : f[j] = f[k] => j = k
  <2>1. SUFFICES ASSUME NEW j \in 0 .. n - 1, NEW k \in 0 .. n - 1, f[j] = f[k], j # k PROVE FALSE
    OBVIOUS
  <2>2. f[j] \in Int /\ f[k] \in Int
    BY <1>1, <1>3, BoundFacts DEF RowIds
  <2>3. j < k \/ k < j
    BY <1>2, <2>1
  <2>4. QED
    BY <1>3, <2>1, <2>2, <2>3
<1>5. f \in Injection(0 .. n - 1, ids)
  BY <1>3, <1>4 DEF Injection, IsInjective
<1>6. IsFiniteSet(0 .. n - 1) /\ Cardinality(0 .. n - 1) = n
  <2>1. 0 \in Int /\ n - 1 \in Int /\ (0 > n - 1 => n = 0) /\ (n - 1) - 0 + 1 = n
    BY <1>2
  <2>2. QED
    BY <2>1, FS_Interval
<1>7. f \in Surjection(0 .. n - 1, ids)
  BY <1>1, <1>5, <1>6, FS_Injection
<1>8. QED
  BY <1>1, <1>2, <1>3, <1>4, <1>7 DEF Surjection

LEMMA LoadSelectMirrors ==
  ASSUME LoadInv, heap' \in Heap, CallsHeld(heap, calls), Mirrors(rows, heap, calls), LoadSelect
  PROVE  Mirrors(rows', heap', calls')
<1> DEFINE a == calls[1].task
           ids == ChildRows(rows, heap.at[a].id)
           n == Cardinality(ids)
<1>1. /\ calls \in Seq(Frame) /\ calls # <<>> /\ calls[1].pc = "select" /\ Loading
      /\ heap \in Heap /\ IsTable(rows) /\ rows' = rows /\ Goto("load", 0)
      /\ Shaped(heap) /\ GoesDown(heap, calls) /\ ChildlessAhead(heap, calls)
      /\ OneKind(calls)
  BY DEF LoadInv, TypeOK, LoadSelect, InPc, Loading
<1>2. Stack(calls)
  BY <1>1 DEF Stack
<1>3. /\ Len(calls) \in Nat \ {0} /\ 1 \in 1 .. Len(calls)
      /\ \A j \in 1 .. Len(calls) :
           /\ calls[j].task \in LiveAddrs(heap) /\ calls[j].task \in Addr
           /\ calls[j].i \in Nat /\ calls[j].pc \in {"select", "load"}
  BY <1>1, <1>2, StackFacts DEF GoesDown, LiveAddrs, OneKind
<1>4. a \in LiveAddrs(heap) /\ heap.at[a].children = Nil
  BY <1>1, <1>3 DEF ChildlessAhead
<1>5. /\ Len(calls') = Len(calls) /\ calls'[1] = At(a, "load", 0)
      /\ \A j \in 2 .. Len(calls) : calls'[j] = calls[j]
  BY <1>1, GotoStack
<1>6. /\ calls'[1].task = a /\ calls'[1].pc = "load" /\ calls'[1].i = 0
      /\ ~Erasing(calls) /\ ~Erasing(calls') /\ ~Erased(calls')
  BY <1>1, <1>5 DEF At, Erasing, Erased
<1>7. /\ Distinct(heap)
      /\ InTable(rows, heap, calls) /\ InMemory(rows, heap, calls)
  BY DEF Mirrors
<1>8. /\ Shaped(heap')
      /\ LiveAddrs(heap) \subseteq LiveAddrs(heap')
      /\ \A x \in LiveAddrs(heap) : x # a =>
           /\ heap'.at[x].children = heap.at[x].children
           /\ get_child_count(heap', x) = get_child_count(heap, x)
  BY SelectShape
<1> HIDE DEF a
<1>9. ASSUME NEW p, p # a, Ahead(heap, calls, p)
      PROVE  Ahead(heap', calls', p)
  <2>1. PICK j \in 1 .. Len(calls) :
          \/ calls[j].pc = "select" /\ p = calls[j].task
          \/ /\ calls[j].pc = "load"
             /\ \E k \in calls[j].i .. get_child_count(heap, calls[j].task) - 1 :
                  (j = 1 \/ k > calls[j].i) /\ p = get_child(heap, calls[j].task, k)
    BY <1>9 DEF Ahead
  <2>2. j # 1
    BY <1>1, <1>9, <2>1 DEF a
  <2>3. j \in 2 .. Len(calls) /\ j \in 1 .. Len(calls') /\ calls'[j] = calls[j]
    BY <1>3, <1>5, <2>2
  <2>4. calls[j].task # a /\ calls[j].task \in LiveAddrs(heap)
    BY <1>1, <1>3, <2>2 DEF GoesDown, a
  <2>5. /\ get_child_count(heap', calls[j].task) = get_child_count(heap, calls[j].task)
        /\ \A k : get_child(heap', calls[j].task, k) = get_child(heap, calls[j].task, k)
    BY <1>8, <2>4 DEF get_child
  <2>6. QED
    BY <2>1, <2>2, <2>3, <2>5 DEF Ahead
<1>10. Storage(heap')
  BY <1>8 DEF Shaped, Storage
<1>11. CASE ids = {}
  <2>1. heap' = heap
    BY <1>11 DEF LoadSelect, a, FreeBufs, ScanOrders
  <2>2. InTable(rows, heap, calls')
    BY <1>6, <1>7 DEF InTable
  <2>3. InMemory(rows, heap, calls')
    <3>1. SUFFICES ASSUME NEW p \in LiveAddrs(heap), ~Ahead(heap, calls', p),
                          NEW i \in ChildRows(rows, heap.at[p].id)
                   PROVE  \E x \in LiveAddrs(heap) : Owns(heap, p, x) /\ heap.at[x].id = i
      BY DEF InMemory
    <3>2. p # a
      BY <1>11, <3>1
    <3>3. ~Ahead(heap, calls, p)
      BY <1>9, <2>1, <3>1, <3>2
    <3>4. QED
      BY <1>7, <3>1, <3>3 DEF InMemory
  <2>4. QED
    BY <1>1, <1>6, <1>7, <2>1, <2>2, <2>3 DEF Mirrors, ErasesOnce
<1>12. CASE ids # {}
  <2>1. PICK f \in ScanOrders(ids), b \in FreeBufs(heap), room \in 1 .. MaxLen :
          GrownTo(room, n) /\ heap' = Filled(heap, a, f, n, b, room)
    BY <1>12 DEF LoadSelect, a
  <2> DEFINE new == {<<b, i>> : i \in 0 .. n - 1}
  <2>2. /\ n \in Nat /\ n # 0 /\ f \in [0 .. n - 1 -> ids] /\ ids \subseteq DOMAIN rows
        /\ \A j, k \in 0 .. n - 1 : f[j] = f[k] => j = k
        /\ \A i \in ids : \E j \in 0 .. n - 1 : f[j] = i
    <3>1. \E id : ids = ChildRows(rows, id) /\ f \in ScanOrders(ids) /\ n = Cardinality(ids)
      BY <2>1
    <3> HIDE DEF ids, n
    <3>2. QED
      BY <1>1, <1>12, <3>1, ScanFacts
  <2>3. n \in 1 .. MaxLen /\ b \in Bufs /\ heap.cap[b] = 0 /\ f \in [0 .. n - 1 -> DOMAIN rows]
    BY <2>1, <2>2, BoundFacts DEF GrownTo, FreeBufs
  <2> HIDE DEF ids, n
  <2>4. /\ LiveAddrs(heap') = LiveAddrs(heap) \cup new
        /\ \A x \in LiveAddrs(heap) : x # head => x[1] # b
        /\ heap'.at[a].children = b
        /\ \A x \in LiveAddrs(heap) : x # a => heap'.at[x] = heap.at[x]
        /\ \A i \in 0 .. n - 1 : heap'.at[<<b, i>>].children = Nil
        /\ heap'.len[b] = n
        /\ heap'.at[a].id = heap.at[a].id
        /\ heap'.at[a].name = heap.at[a].name /\ heap'.at[a].completed = heap.at[a].completed
        /\ \A i \in 0 .. n - 1 :
             /\ heap'.at[<<b, i>>].id = f[i] /\ heap'.at[<<b, i>>].name = rows[f[i]].name
             /\ heap'.at[<<b, i>>].completed = rows[f[i]].completed
    BY <1>1, <1>4, <2>1, <2>3, FilledHeap
  <2> HIDE DEF new
  <2>5. /\ head[1] # b /\ \A x \in LiveAddrs(heap) : x[1] # b /\ x[1] # Nil
    BY <2>3, <2>4, LiveFacts, BlocksAssumption DEF head
  <2>6. \A i \in 0 .. n - 1 : <<b, i>> \in new /\ <<b, i>> \in LiveAddrs(heap')
    BY <2>4 DEF new
  <2>7. ASSUME NEW x \in new
        PROVE  /\ x[1] = b /\ x \notin LiveAddrs(heap) /\ x \in LiveAddrs(heap')
               /\ heap'.at[x].children = Nil
               /\ heap'.at[x].id \in ids
               /\ rows[heap'.at[x].id].parent = heap.at[a].id
               /\ heap'.at[x].name = rows[heap'.at[x].id].name
               /\ heap'.at[x].completed = rows[heap'.at[x].id].completed
               /\ Ahead(heap', calls', x)
    <3>1. PICK i \in 0 .. n - 1 : x = <<b, i>>
      BY DEF new
    <3>2. x[1] = b /\ x \in LiveAddrs(heap') /\ f[i] \in ids
      BY <2>2, <2>4, <3>1
    <3>3. \A j \in ids : rows[j].parent = heap.at[a].id
      BY DEF ids, ChildRows
    <3>4. i \in calls'[1].i .. get_child_count(heap', calls'[1].task) - 1
      BY <1>6, <2>3, <2>4, BlocksAssumption DEF get_child_count
    <3>5. x = get_child(heap', calls'[1].task, i)
      BY <1>6, <2>4, <3>1 DEF get_child
    <3>6. Ahead(heap', calls', x)
      BY <1>3, <1>5, <1>6, <3>4, <3>5 DEF Ahead
    <3>7. QED
      BY <2>4, <2>5, <3>1, <3>2, <3>3, <3>6
  <2>8. /\ \A x \in LiveAddrs(heap) :
             /\ heap'.at[x].id = heap.at[x].id /\ heap'.at[x].name = heap.at[x].name
             /\ heap'.at[x].completed = heap.at[x].completed
        /\ \A x \in LiveAddrs(heap) : ~Owns(heap, a, x)
        /\ \A p, x \in LiveAddrs(heap) : Owns(heap', p, x) <=> Owns(heap, p, x)
        /\ \A p \in LiveAddrs(heap) : \A x \in new : Owns(heap', p, x) <=> p = a
        /\ \A x \in LiveAddrs(heap') : \A p \in new : ~Owns(heap', p, x)
    <3>1. \A x \in LiveAddrs(heap) :
             /\ heap'.at[x].id = heap.at[x].id /\ heap'.at[x].name = heap.at[x].name
             /\ heap'.at[x].completed = heap.at[x].completed
      BY <2>4
    <3>2. \A x \in LiveAddrs(heap) : ~Owns(heap, a, x)
      BY <1>4, <2>5 DEF Owns
    <3>3. ASSUME NEW p \in LiveAddrs(heap), NEW x \in LiveAddrs(heap)
          PROVE  Owns(heap', p, x) <=> Owns(heap, p, x)
      <4>1. Alive(heap, p) /\ Alive(heap', p)
        BY <2>4 DEF LiveAddrs
      <4>2. CASE p = a
        BY <2>4, <2>5, <3>2, <4>2 DEF Owns
      <4>3. CASE p # a
        BY <2>4, <4>1, <4>3 DEF Owns
      <4>4. QED
        BY <4>2, <4>3
    <3>4. ASSUME NEW p \in LiveAddrs(heap), NEW x \in new
          PROVE  Owns(heap', p, x) <=> p = a
      <4>1. Alive(heap', p) /\ x[1] = b
        BY <2>4, <2>7 DEF LiveAddrs
      <4>2. p # a => heap'.at[p].children # b
        <5>1. heap'.at[a].children = b /\ b # Nil /\ p \in LiveAddrs(heap') /\ a \in LiveAddrs(heap')
          BY <1>4, <2>3, <2>4, BlocksAssumption
        <5>2. QED
          BY <1>10, <5>1 DEF Storage
      <4>3. QED
        BY <2>4, <4>1, <4>2 DEF Owns
    <3>5. \A x \in LiveAddrs(heap') : x[1] # Nil
      BY <2>3, <2>4, <2>5, <2>7, BlocksAssumption
    <3>6. \A x \in LiveAddrs(heap') : \A p \in new : ~Owns(heap', p, x)
      BY <2>7, <3>5 DEF Owns
    <3>7. QED
      BY <3>1, <3>2, <3>3, <3>4, <3>6
  <2>9. ASSUME NEW x \in LiveAddrs(heap), NEW y \in new, heap.at[x].id = heap'.at[y].id
        PROVE  FALSE
    <3>1. rows[heap.at[x].id].parent = heap.at[a].id /\ heap.at[x].id \in DOMAIN rows
      BY <2>2, <2>7, <2>9
    <3>2. x # head
      BY <1>1, <1>7, <3>1, BoundFacts DEF Distinct, IsTable, RowIds
    <3>3. PICK p \in LiveAddrs(heap) : Owns(heap, p, x)
      BY <3>2, HeldFacts
    <3>4. heap.at[p].id = heap.at[a].id
      BY <1>6, <1>7, <3>1, <3>3 DEF InTable
    <3>5. p = a
      BY <1>4, <1>7, <3>3, <3>4 DEF Distinct
    <3>6. QED
      BY <2>8, <3>3, <3>5
  <2>10. ASSUME NEW x \in new, NEW y \in new, heap'.at[x].id = heap'.at[y].id
         PROVE  x = y
    <3>1. PICK i \in 0 .. n - 1 : x = <<b, i>>
      BY DEF new
    <3>2. PICK j \in 0 .. n - 1 : y = <<b, j>>
      BY DEF new
    <3>3. f[i] = f[j]
      BY <2>4, <2>10, <3>1, <3>2
    <3>4. QED
      BY <2>2, <3>1, <3>2, <3>3
  <2>11. Distinct(heap')
    <3>1. head \in LiveAddrs(heap)
      BY DEF LiveAddrs, Alive, Addr
    <3>2. heap'.at[head].id = 0
      BY <1>7, <2>8, <3>1 DEF Distinct
    <3>3. ASSUME NEW x \in LiveAddrs(heap'), NEW y \in LiveAddrs(heap'),
                 heap'.at[x].id = heap'.at[y].id
          PROVE  x = y
      <4>1. CASE x \in new /\ y \in new
        BY <2>10, <3>3, <4>1
      <4>2. CASE x \in LiveAddrs(heap) /\ y \in LiveAddrs(heap)
        BY <1>7, <2>8, <3>3, <4>2 DEF Distinct
      <4>3. CASE x \in LiveAddrs(heap) /\ y \in new
        BY <2>8, <2>9, <3>3, <4>3
      <4>4. CASE x \in new /\ y \in LiveAddrs(heap)
        BY <2>8, <2>9, <3>3, <4>4
      <4>5. QED
        BY <2>4, <4>1, <4>2, <4>3, <4>4
    <3>4. QED
      BY <3>2, <3>3 DEF Distinct
  <2>12. InTable(rows, heap', calls')
    <3>1. SUFFICES ASSUME NEW p \in LiveAddrs(heap'), NEW x \in LiveAddrs(heap'), Owns(heap', p, x)
                   PROVE  /\ heap'.at[x].id \in DOMAIN rows
                          /\ rows[heap'.at[x].id].parent = heap'.at[p].id
                          /\ rows[heap'.at[x].id].name = heap'.at[x].name
                          /\ rows[heap'.at[x].id].completed = heap'.at[x].completed
      BY <1>6 DEF InTable
    <3>2. p \in LiveAddrs(heap)
      BY <2>4, <2>8, <3>1
    <3>3. CASE x \in new
      BY <2>2, <2>7, <2>8, <3>1, <3>2, <3>3
    <3>4. CASE x \in LiveAddrs(heap)
      BY <1>6, <1>7, <2>8, <3>1, <3>2, <3>4 DEF InTable
    <3>5. QED
      BY <2>4, <3>3, <3>4
  <2>13. InMemory(rows, heap', calls')
    <3>1. SUFFICES ASSUME NEW p \in LiveAddrs(heap'), ~Ahead(heap', calls', p),
                          NEW i \in ChildRows(rows, heap'.at[p].id)
                   PROVE  \E x \in LiveAddrs(heap') : Owns(heap', p, x) /\ heap'.at[x].id = i
      BY DEF InMemory
    <3>2. p \in LiveAddrs(heap)
      BY <2>4, <2>7, <3>1
    <3>3. CASE p = a
      <4>1. i \in ids
        BY <2>8, <3>1, <3>2, <3>3 DEF ids
      <4>2. PICK j \in 0 .. n - 1 : f[j] = i
        BY <2>2, <4>1
      <4>3. <<b, j>> \in LiveAddrs(heap') /\ Owns(heap', p, <<b, j>>) /\ heap'.at[<<b, j>>].id = i
        BY <2>4, <2>6, <2>8, <3>2, <3>3, <4>2
      <4>4. QED
        BY <4>3
    <3>4. CASE p # a
      <4>1. ~Ahead(heap, calls, p) /\ i \in ChildRows(rows, heap.at[p].id)
        BY <1>9, <2>8, <3>1, <3>2, <3>4
      <4>2. PICK x \in LiveAddrs(heap) : Owns(heap, p, x) /\ heap.at[x].id = i
        BY <1>7, <3>2, <4>1 DEF InMemory
      <4>3. x \in LiveAddrs(heap') /\ Owns(heap', p, x) /\ heap'.at[x].id = i
        BY <2>4, <2>8, <3>2, <4>2
      <4>4. QED
        BY <4>3
    <3>5. QED
      BY <3>3, <3>4
  <2>14. QED
    BY <1>1, <1>6, <2>11, <2>12, <2>13 DEF Mirrors, ErasesOnce
<1>13. QED
  BY <1>11, <1>12

-----------------------------------------------------------------------------
(* The inductive invariant, and the properties it carries. *)

\* A step of remove, of a load or of an edit, whatever order the parent column
\* has: with this one TaskTree on the file, or while the others leave it alone.
LEMMA StepMirrors ==
  ASSUME HeldInv, HeldInv', running, ~astray, ~astray', Mirrors(rows, heap, calls),
         Step \/ Request, \A a \in LiveAddrs(heap), name \in Names : ~AddChild(a, name)
  PROVE  Mirrors(rows', heap', calls')
<1>1. LoadInv /\ LoadInv' /\ CallsHeld(heap, calls)
  BY DEF HeldInv
<1>2. /\ IsTable(rows) /\ heap \in Heap /\ heap' \in Heap /\ calls \in Seq(Frame)
      /\ calls' \in Seq(Frame) /\ OneKind(calls) /\ OneKind(calls')
  BY <1>1 DEF LoadInv, TypeOK
<1>3. CASE LoadSelect
  BY <1>1, <1>2, <1>3, LoadSelectMirrors
<1>4. CASE LoadDescend
  BY <1>2, <1>4, LoadDescendMirrors
<1>5. CASE LoadReturn
  BY <1>2, <1>5, LoadReturnMirrors
<1>6. CASE RemoveChild
  BY <1>2, <1>6, RemoveChildMirrors
<1>7. CASE RemoveRow
  BY <1>1, <1>2, <1>7, RemoveRowMirrors
<1>8. CASE RemoveErase
  BY <1>1, <1>2, <1>8, RemoveEraseMirrors
<1>9. CASE RemoveReturn
  BY <1>1, <1>2, <1>9, RemoveReturnMirrors
<1>10. CASE RemoveThrows
  BY <1>2, <1>10, RemoveThrowsMirrors
<1>11. ASSUME NEW a, Remove(a)
       PROVE  Mirrors(rows', heap', calls')
  BY <1>11, RemoveMirrors DEF Remove, Idle
<1>12. ASSUME NEW a \in LiveAddrs(heap), NEW name \in Names, SetTaskName(a, name)
       PROVE  Mirrors(rows', heap', calls')
  BY <1>1, <1>2, <1>12, SetTaskNameMirrors DEF SetTaskName, Idle
<1>13. ASSUME NEW a \in LiveAddrs(heap), ToggleTaskCompleted(a)
       PROVE  Mirrors(rows', heap', calls')
  BY <1>1, <1>2, <1>13, ToggleMirrors DEF ToggleTaskCompleted, Idle
<1>14. QED
  BY <1>3, <1>4, <1>5, <1>6, <1>7, <1>8, <1>9, <1>10, <1>11, <1>12, <1>13
     DEF Step, Proceed, Request

\* These start from, and end in, a tree that was not led astray.
LEMMA StepFrom ==
  ASSUME TypeOK, Step \/ Request, ~astray'
  PROVE  running /\ running' /\ ~astray
<1>1. astray \in BOOLEAN /\ (~running => calls = <<>>)
  BY DEF TypeOK
<1>2. CASE Step
  <2>1. calls # <<>> /\ running' = running
    BY <1>2 DEF Step, Proceed, LoadSelect, LoadDescend, LoadReturn, RemoveChild, RemoveRow,
                RemoveErase, RemoveReturn, RemoveThrows, InPc
  <2>2. ~astray
    BY <1>1, <1>2 DEF Step, Proceed, LoadSelect, LoadDescend, LoadReturn,
         RemoveChild, RemoveRow, RemoveErase, RemoveReturn, RemoveThrows
  <2>3. QED
    BY <1>1, <2>1, <2>2
<1>3. CASE Request
  <2>1. \A a, name : AddChild(a, name) => running /\ running' = running /\ astray' = astray
    BY DEF AddChild, Idle
  <2>2. \A a : Remove(a) => running /\ running' = running /\ astray' = astray
    BY DEF Remove, Idle
  <2>3. \A a, name : SetTaskName(a, name) => running /\ running' = running /\ astray' = astray
    BY DEF SetTaskName, Idle
  <2>4. \A a : ToggleTaskCompleted(a) => running /\ running' = running /\ astray' = astray
    BY DEF ToggleTaskCompleted, Idle
  <2>5. QED
    BY <1>3, <2>1, <2>2, <2>3, <2>4 DEF Request
<1>4. QED
  BY <1>2, <1>3

LEMMA StepKeepsOlder ==
  ASSUME Older(rows), Step \/ Request, \A a \in LiveAddrs(heap), name \in Names : ~AddChild(a, name)
  PROVE  Older(rows')
<1>1. CASE rows' = rows
  BY <1>1
<1>2. ASSUME NEW id, rows' = Delete(rows, id)
      PROVE  Older(rows')
  BY <1>2 DEF Delete, Older
<1>3. ASSUME NEW a, NEW name, SetTaskName(a, name)
      PROVE  Older(rows')
  BY <1>3 DEF SetTaskName, UpdateName, Older
<1>4. ASSUME NEW a, ToggleTaskCompleted(a)
      PROVE  Older(rows')
  BY <1>4 DEF ToggleTaskCompleted, UpdateCompleted, Older
<1>5. CASE Step
  BY <1>1, <1>2, <1>5 DEF Step, Proceed, LoadSelect, LoadDescend, LoadReturn, RemoveChild,
       RemoveRow, RemoveErase, RemoveReturn, RemoveThrows
<1>6. CASE Request
  BY <1>1, <1>3, <1>4, <1>6 DEF Request, Remove
<1>7. QED
  BY <1>5, <1>6

LEMMA MirrorInvInit == Init => MirrorInv
<1>1. SUFFICES ASSUME Init PROVE MirrorInv
  OBVIOUS
<1>2. HeldInv
  BY <1>1, HeldInvInit
<1>3. Older(rows) /\ ~running
  BY <1>1 DEF Init, EmptyTable, Older
<1>4. QED
  BY <1>2, <1>3 DEF MirrorInv

LEMMA MirrorInvNext ==
  ASSUME MirrorInv, [Next]_vars
  PROVE  MirrorInv'
<1>1. HeldInv /\ HeldInv' /\ TypeOK
  BY HeldInvNext DEF MirrorInv, HeldInv, LoadInv
<1>2. SUFFICES ASSUME ~astray'
               PROVE  Older(rows') /\ (running' => Mirrors(rows', heap', calls'))
  BY <1>1 DEF MirrorInv
<1>3. CASE Start
  BY <1>2, <1>3, StartMirrors DEF Start, MirrorInv
<1>4. CASE Stop
  BY <1>2, <1>4 DEF Stop, MirrorInv
<1>5. CASE UNCHANGED vars
  BY <1>2, <1>5 DEF vars, MirrorInv
<1>6. CASE Step \/ Request
  <2>1. running /\ ~astray
    BY <1>1, <1>2, <1>6, StepFrom
  <2>2. Older(rows) /\ Mirrors(rows, heap, calls) /\ CallsHeld(heap, calls)
    BY <1>1, <2>1 DEF MirrorInv, HeldInv
  <2>3. CASE \A a \in LiveAddrs(heap), name \in Names : ~AddChild(a, name)
    BY <1>1, <1>2, <1>6, <2>1, <2>2, <2>3, StepMirrors, StepKeepsOlder
  <2>4. ASSUME NEW a \in LiveAddrs(heap), NEW name \in Names, AddChild(a, name)
        PROVE  Older(rows') /\ Mirrors(rows', heap', calls')
    BY <1>1, <2>2, <2>4, AddChildMirrors DEF TypeOK, AddChild, Idle
  <2>5. QED
    BY <1>6, <2>3, <2>4
<1>7. QED
  BY <1>3, <1>4, <1>5, <1>6 DEF Next

LEMMA MirrorInvariant == Spec => []MirrorInv
<1>1. MirrorInv /\ [Next]_vars => MirrorInv'
  BY MirrorInvNext
<1>2. QED
  BY <1>1, MirrorInvInit, PTL DEF Spec

\* Between calls, what mirrors the table is the table.
LEMMA MirrorsTheTable ==
  ASSUME heap \in Heap, Mirrors(rows, heap, calls), Idle, NEW a \in LiveAddrs(heap)
  PROVE  TasksUnder(a) = RowsUnder(heap.at[a].id)
<1>1. /\ calls = <<>>
      /\ InTable(rows, heap, calls) /\ InMemory(rows, heap, calls)
  BY DEF Mirrors, Idle
<1>2. ~Erasing(calls) /\ ~Ahead(heap, calls, a)
  BY <1>1 DEF Erasing, Ahead
<1>3. ChildAddrs(heap, a) \subseteq LiveAddrs(heap)
  <2>1. get_child_count(heap, a) \in Nat
    BY CountType, BoundFacts DEF LiveAddrs
  <2>2. QED
    BY <2>1, OwnedFacts DEF ChildAddrs
<1>4. ASSUME NEW c \in ChildAddrs(heap, a)
      PROVE  <<heap.at[c].id, heap.at[c].name, heap.at[c].completed>> \in RowsUnder(heap.at[a].id)
  <2>1. c \in LiveAddrs(heap) /\ Owns(heap, a, c)
    BY <1>3, <1>4, ChildIsOwned
  <2> DEFINE id == heap.at[c].id
  <2>2. /\ id \in DOMAIN rows /\ rows[id].parent = heap.at[a].id
        /\ rows[id].name = heap.at[c].name /\ rows[id].completed = heap.at[c].completed
    BY <1>1, <1>2, <2>1 DEF InTable
  <2>3. QED
    BY <2>2 DEF RowsUnder, ChildRows
<1>5. ASSUME NEW i \in ChildRows(rows, heap.at[a].id)
      PROVE  <<i, rows[i].name, rows[i].completed>> \in TasksUnder(a)
  <2>1. PICK c \in LiveAddrs(heap) : Owns(heap, a, c) /\ heap.at[c].id = i
    BY <1>1, <1>2 DEF InMemory
  <2>2. c \in ChildAddrs(heap, a)
    BY <2>1, ChildIsOwned
  <2>3. rows[i].name = heap.at[c].name /\ rows[i].completed = heap.at[c].completed
    BY <1>1, <1>2, <2>1 DEF InTable
  <2>4. QED
    BY <2>1, <2>2, <2>3 DEF TasksUnder
<1>6. QED
  BY <1>4, <1>5 DEF TasksUnder, RowsUnder

\* Between calls, however the program was stopped, restarted and left by an
\* exception before, memory is the table: under every task in memory are exactly
\* the rows with its id as parent.  It holds until a remove searches the
\* children of a task that is not the owner (TaskTree::remove with a parent
\* pointer that a reallocation or an erase left behind).
THEOREM MemoryIsTheTable == Spec => []MemoryMirrorsTable
<1>1. MirrorInv => MemoryMirrorsTable
  BY MirrorsTheTable DEF MirrorInv, HeldInv, LoadInv, TypeOK, Idle, MemoryMirrorsTable
<1>2. QED
  BY <1>1, MirrorInvariant, PTL

\* No two tasks in memory have the same id, so the search of remove for the id
\* among the children finds one task at most.
THEOREM IdsStayUnique == Spec => []IdsUnique
<1>1. MirrorInv => IdsUnique
  <2>1. SUFFICES ASSUME MirrorInv, ~astray, NEW a \in LiveAddrs(heap), NEW b \in LiveAddrs(heap),
                        heap.at[a].id = heap.at[b].id
                 PROVE  a = b
    BY DEF IdsUnique
  <2>2. CASE running
    BY <2>1, <2>2 DEF MirrorInv, Mirrors, Distinct
  <2>3. CASE ~running
    BY <2>1, <2>3, EmptyHeapShape DEF MirrorInv, HeldInv, LoadInv, TypeOK
  <2>4. QED
    BY <2>2, <2>3
<1>2. QED
  BY <1>1, MirrorInvariant, PTL

\* A row's parent has a smaller id than the row: remove takes the children
\* before their parent, so an id is handed out again only when no row names it.
THEOREM ParentsStayOlder == Spec => []ParentsOlder
<1>1. MirrorInv => ParentsOlder
  BY DEF MirrorInv, Older, ParentsOlder
<1>2. QED
  BY <1>1, MirrorInvariant, PTL

\* The id an INSERT hands out is nobody's parent, also when it was the id of a
\* row deleted before: rows that a remove left behind half-way are never taken
\* for the children of a later task.
THEOREM NeverAdopts == Spec => NoAdoption
<1>1. MirrorInv /\ [Next]_vars =>
        [~astray => \A i \in DOMAIN rows' \ DOMAIN rows : ChildRows(rows, i) = {}]_vars
  <2>1. SUFFICES ASSUME MirrorInv, Next, ~astray, NEW i \in DOMAIN rows' \ DOMAIN rows
                 PROVE  ChildRows(rows, i) = {}
    OBVIOUS
  <2>2. IsTable(rows) /\ Older(rows)
    BY <2>1 DEF MirrorInv, HeldInv, LoadInv, TypeOK
  <2>3. IsNewRowid(rows, i)
    <3>1. ASSUME NEW id, rows' = Delete(rows, id)
          PROVE  FALSE
      BY <2>1, <3>1 DEF Delete
    <3>2. ~Start /\ ~Stop /\ ~Step
      BY <2>1, <3>1 DEF Start, Stop, Step, Proceed, LoadSelect, LoadDescend, LoadReturn,
           RemoveChild, RemoveRow, RemoveErase, RemoveReturn, RemoveThrows
    <3>3. PICK a \in LiveAddrs(heap) :
             \/ \E name \in Names : AddChild(a, name)
             \/ Remove(a)
             \/ \E name \in Names : SetTaskName(a, name)
             \/ ToggleTaskCompleted(a)
      BY <2>1, <3>2 DEF Next, Request
    <3>4. ~Remove(a) /\ ~ToggleTaskCompleted(a) /\ \A name \in Names : ~SetTaskName(a, name)
      BY <2>1 DEF Remove, ToggleTaskCompleted, SetTaskName, UpdateName, UpdateCompleted
    <3>5. PICK id \in RowIds, name \in Names :
            IsNewRowid(rows, id) /\ rows' = Insert(rows, id, heap.at[a].id, name)
      BY <3>3, <3>4 DEF AddChild
    <3>6. i = id
      BY <2>1, <3>5 DEF Insert
    <3>7. QED
      BY <3>5, <3>6
  <2>4. SUFFICES ASSUME NEW j \in DOMAIN rows, rows[j].parent = i PROVE FALSE
    BY DEF ChildRows
  <2>5. j \in Int /\ i \in Int /\ j < i /\ i < j
    BY <2>2, <2>3, <2>4, BoundFacts DEF IsNewRowid, Older, IsTable, RowIds
  <2>6. QED
    BY <2>5
<1>2. QED
  BY <1>1, MirrorInvariant, PTL DEF Spec, NoAdoption

-----------------------------------------------------------------------------
(***************************************************************************)
(* TaskTree implements SavedTasks: what a load would reach (Loaded) is one *)
(* tree, and each statement of add_child, remove and the edits is a step   *)
(* of it.  The rows a remove skips stay in the table but hang from no task *)
(* (TasksAreSaved, with the ids in use never reused for them), so they are *)
(* no part of the tree and never come back into it.                        *)
(***************************************************************************)

-----------------------------------------------------------------------------
(* The rows at any depth below one. *)

\* A set of rows that holds the children of id and those of its own members.
ClosedBelow(t, id, S) ==
  ChildRows(t, id) \subseteq S /\ \A j \in S : ChildRows(t, j) \subseteq S

LEMMA UnderFacts ==
  ASSUME NEW t, NEW id
  PROVE  /\ Under(t, id) \subseteq DOMAIN t
         /\ ClosedBelow(t, id, Under(t, id))
         /\ \A S \in SUBSET DOMAIN t : ClosedBelow(t, id, S) => Under(t, id) \subseteq S
<1>1. /\ Under(t, id) \subseteq DOMAIN t
      /\ \A S \in SUBSET DOMAIN t : ClosedBelow(t, id, S) => Under(t, id) \subseteq S
  BY DEF Under, ClosedBelow
<1>2. \A j : ChildRows(t, j) \subseteq DOMAIN t
  BY DEF ChildRows
<1>3. ClosedBelow(t, id, Under(t, id))
  BY <1>2 DEF Under, ClosedBelow
<1>4. QED
  BY <1>1, <1>3

\* A row below id has its parent there too, or is a child of id.
LEMMA ParentsUnder ==
  ASSUME NEW t, NEW id, NEW x \in Under(t, id)
  PROVE  t[x].parent \in Under(t, id) \cup {id}
<1>1. SUFFICES ASSUME t[x].parent \notin Under(t, id) \cup {id}
               PROVE  FALSE
  OBVIOUS
<1> DEFINE S == Under(t, id) \ {x}
<1>2. S \in SUBSET DOMAIN t
  BY UnderFacts
<1>3. \A j \in S \cup {id} : x \notin ChildRows(t, j)
  BY <1>1 DEF ChildRows
<1>4. ClosedBelow(t, id, S)
  BY <1>3, UnderFacts DEF ClosedBelow
<1>5. QED
  BY <1>2, <1>4, UnderFacts

\* A row without children of its own joins the tree below its parent.
LEMMA UnderInsert ==
  ASSUME NEW t, NEW id, id # 0, id \notin DOMAIN t, ChildRows(t, id) = {},
         NEW p \in Under(t, 0) \cup {0}, NEW name
  PROVE  Under(Insert(t, id, p, name), 0) = Under(t, 0) \cup {id}
<1> DEFINE u == Insert(t, id, p, name)
<1>1. /\ DOMAIN u = DOMAIN t \cup {id} /\ u[id].parent = p
      /\ \A i \in DOMAIN t : u[i] = t[i]
  BY DEF Insert
<1>2. p # id /\ Under(t, 0) \subseteq DOMAIN t
  BY UnderFacts
<1> HIDE DEF u
<1>3. \A j : ChildRows(u, j) = IF j = p THEN ChildRows(t, j) \cup {id} ELSE ChildRows(t, j)
  BY <1>1 DEF ChildRows
<1>4. Under(u, 0) \subseteq Under(t, 0) \cup {id}
  <2>1. ClosedBelow(u, 0, Under(t, 0) \cup {id})
    BY <1>2, <1>3, UnderFacts DEF ClosedBelow
  <2>2. QED
    BY <1>1, <1>2, <2>1, UnderFacts
<1>5. Under(t, 0) \subseteq Under(u, 0)
  <2> DEFINE S == Under(u, 0) \ {id}
  <2>1. S \in SUBSET DOMAIN t
    BY <1>1, UnderFacts
  <2>2. \A j : ChildRows(t, j) \subseteq DOMAIN t
    BY DEF ChildRows
  <2>3. ClosedBelow(t, 0, S)
    BY <1>3, <2>2, UnderFacts DEF ClosedBelow
  <2>4. QED
    BY <2>1, <2>3, UnderFacts
<1>6. id \in Under(u, 0)
  <2>1. id \in ChildRows(u, p)
    BY <1>3
  <2>2. QED
    BY <1>5, <2>1, UnderFacts DEF ClosedBelow
<1>7. QED
  BY <1>4, <1>5, <1>6 DEF u

\* A row that goes takes what is below it out of the tree.
LEMMA UnderDelete ==
  ASSUME NEW t, IsTable(t), NEW id \in Under(t, 0)
  PROVE  Under(Delete(t, id), 0) = Under(t, 0) \ ({id} \cup Under(Loaded(t), id))
<1> DEFINE U == Under(t, 0)
           L == Loaded(t)
           D == {id} \cup Under(L, id)
           u == Delete(t, id)
<1>1. DOMAIN u = DOMAIN t \ {id} /\ \A i \in DOMAIN u : u[i] = t[i]
  BY DEF Delete
<1>2. DOMAIN L = U /\ \A i \in U : L[i] = t[i]
  BY DEF Loaded
<1>3. U \subseteq DOMAIN t /\ ClosedBelow(t, 0, U)
  BY UnderFacts
<1>4. D \subseteq U /\ ClosedBelow(L, id, Under(L, id))
  BY <1>2, UnderFacts
<1>5. 0 \notin D
  BY <1>3, <1>4, BoundFacts DEF IsTable, RowIds
<1>6. \A x \in D : x # id => t[x].parent \in D
  BY <1>2, <1>4, ParentsUnder
<1> HIDE DEF u, L, U
<1>7. \A j : ChildRows(u, j) = ChildRows(t, j) \ {id}
  BY <1>1 DEF ChildRows
<1>8. Under(u, 0) \subseteq U \ D
  <2>1. \A j : j \notin D => \A x \in ChildRows(u, j) : x \notin D
    <3>1. \A j : \A x \in ChildRows(t, j) : t[x].parent = j
      BY DEF ChildRows
    <3> HIDE DEF D
    <3>2. QED
      BY <1>6, <1>7, <3>1
  <2>2. ClosedBelow(u, 0, U \ D)
    <3>1. ASSUME NEW j \in (U \ D) \cup {0}
          PROVE  ChildRows(u, j) \subseteq U \ D
      <4>1. ChildRows(t, j) \subseteq U
        BY <1>3, <3>1 DEF ClosedBelow
      <4>2. j \notin D
        BY <1>5, <3>1
      <4>3. QED
        BY <1>7, <2>1, <4>1, <4>2
    <3>2. QED
      BY <3>1 DEF ClosedBelow
  <2>3. U \ D \in SUBSET DOMAIN u
    BY <1>1, <1>3
  <2>4. QED
    BY <2>2, <2>3, UnderFacts
<1>9. U \subseteq Under(u, 0) \cup D
  <2>1. Under(u, 0) \cup D \in SUBSET DOMAIN t
    BY <1>1, <1>3, <1>4, UnderFacts
  <2>2. ASSUME NEW j \in Under(u, 0) \cup {0}, NEW x \in ChildRows(t, j)
        PROVE  x \in Under(u, 0) \cup D
    <3>1. x = id \/ x \in ChildRows(u, j)
      BY <1>7
    <3>2. ClosedBelow(u, 0, Under(u, 0))
      BY UnderFacts
    <3>3. QED
      BY <3>1, <3>2 DEF ClosedBelow
  <2>3. ASSUME NEW j \in D, NEW x \in ChildRows(t, j)
        PROVE  x \in D
    <3>1. x \in U
      BY <1>3, <1>4 DEF ClosedBelow
    <3>2. x \in ChildRows(L, j)
      BY <1>2, <3>1 DEF ChildRows
    <3>3. QED
      BY <1>4, <3>2 DEF ClosedBelow
  <2>4. ClosedBelow(t, 0, Under(u, 0) \cup D)
    BY <2>2, <2>3 DEF ClosedBelow
  <2>5. QED
    BY <2>1, <2>4, UnderFacts DEF U
<1>10. QED
  BY <1>8, <1>9 DEF u, U, L

\* The tree is made of the parent column alone.
LEMMA UnderSame ==
  ASSUME NEW t, NEW u, DOMAIN u = DOMAIN t, \A i \in DOMAIN t : u[i].parent = t[i].parent
  PROVE  \A id : Under(u, id) = Under(t, id)
<1>1. \A j : ChildRows(u, j) = ChildRows(t, j)
  BY DEF ChildRows
<1>2. QED
  BY <1>1 DEF Under

-----------------------------------------------------------------------------
(* Every task in memory belongs to the tree. *)

\* A set of naturals that is not empty has a least one.
LEMMA LeastNat ==
  ASSUME NEW B \in SUBSET Nat, B # {}
  PROVE  \E m \in B : \A i \in B : m <= i
<1> DEFINE R == StrictSubsetOrdering(Nat)
           T == {1 .. i : i \in B}
<1>1. IsWellFoundedOn(R, FiniteSubsetsOf(Nat))
  BY FS_StrictSubsetOrderingWellFounded
<1>2. \A i \in B : 1 .. i \subseteq Nat /\ IsFiniteSet(1 .. i)
  <2>1. \A i \in B : 1 .. i \subseteq Nat /\ i \in Int
    OBVIOUS
  <2>2. QED
    BY <2>1, FS_Interval
<1>3. T \subseteq FiniteSubsetsOf(Nat) /\ T # {}
  BY <1>2 DEF FiniteSubsetsOf
<1> HIDE DEF R, T
<1>4. PICK x \in T : \A y \in T : <<y, x>> \notin R
  BY <1>1, <1>3, WFMin
<1>5. PICK m \in B : x = 1 .. m
  BY <1>4 DEF T
<1>6. ASSUME NEW i \in B, i < m
      PROVE  FALSE
  <2>1. 1 .. i \in T
    BY DEF T
  <2>2. 1 .. i \subseteq 1 .. m /\ m \in 1 .. m /\ m \notin 1 .. i
    BY <1>6
  <2>3. 1 .. i \in SUBSET Nat /\ 1 .. m \in SUBSET Nat
    BY <1>2
  <2>4. <<1 .. i, 1 .. m>> \in R
    BY <2>2, <2>3 DEF R, StrictSubsetOrdering
  <2>5. QED
    BY <1>4, <1>5, <2>1, <2>4
<1>7. QED
  BY <1>6

LEMMA TasksAreSaved ==
  ASSUME CallsHeld(heap, calls), Mirrors(rows, heap, calls), ~Erasing(calls),
         NEW a \in LiveAddrs(heap), a # head
  PROVE  heap.at[a].id \in Under(rows, 0)
<1>1. PICK rk : Ranked(heap, rk)
  BY DEF CallsHeld
<1> DEFINE U == Under(rows, 0)
           Lost == {x \in LiveAddrs(heap) \ {head} : heap.at[x].id \notin U}
           B == {rk[x] : x \in Lost}
<1>2. Distinct(heap) /\ InTable(rows, heap, calls) /\ ClosedBelow(rows, 0, U)
  BY UnderFacts DEF Mirrors
<1> HIDE DEF U
<1>3. ASSUME NEW x \in LiveAddrs(heap) \ {head}
      PROVE  \E p \in LiveAddrs(heap) :
               rk[p] < rk[x] /\ heap.at[x].id \in ChildRows(rows, heap.at[p].id)
  <2>1. PICK p \in LiveAddrs(heap) : Owns(heap, p, x)
    BY <1>1 DEF Ranked
  <2>2. rk[p] < rk[x]
    BY <1>1, <2>1 DEF Ranked
  <2>3. heap.at[x].id \in ChildRows(rows, heap.at[p].id)
    BY <1>2, <2>1 DEF InTable, ChildRows
  <2>4. QED
    BY <2>2, <2>3
<1>4. SUFFICES ASSUME Lost # {} PROVE FALSE
  BY DEF U
<1>5. B \in SUBSET Nat /\ B # {}
  BY <1>1, <1>4, RankFacts
<1> HIDE DEF B
<1>6. PICK n \in B : \A i \in B : n <= i
  BY <1>5, LeastNat
<1>7. PICK x \in LiveAddrs(heap) \ {head} : n = rk[x] /\ heap.at[x].id \notin U
  BY DEF B
<1>8. PICK p \in LiveAddrs(heap) : rk[p] < n /\ heap.at[x].id \in ChildRows(rows, heap.at[p].id)
  BY <1>3, <1>7
<1>9. heap.at[p].id \notin U \cup {0}
  BY <1>2, <1>7, <1>8 DEF ClosedBelow
<1>10. p # head
  BY <1>2, <1>9 DEF Distinct
<1>11. rk[p] \in B
  BY <1>9, <1>10 DEF B
<1>12. rk[p] \in Nat /\ n \in Nat
  BY <1>1, <1>5, RankFacts
<1>13. QED
  BY <1>6, <1>8, <1>11, <1>12

-----------------------------------------------------------------------------
(* Each statement is a step of SavedTasks. *)

LEMMA LoadedInsert ==
  ASSUME IsTable(rows), NEW id \in RowIds, id \notin DOMAIN rows, ChildRows(rows, id) = {},
         NEW p \in Under(rows, 0) \cup {0}, NEW name \in Names,
         rows' = Insert(rows, id, p, name)
  PROVE  Tree!Next
<1> DEFINE U == Under(rows, 0)
           L == Loaded(rows)
<1>1. DOMAIN L = U /\ \A i \in U : L[i] = rows[i]
  BY DEF Loaded
<1>2. U \subseteq DOMAIN rows /\ id # 0
  BY UnderFacts, BoundFacts DEF RowIds
<1>3. Under(rows', 0) = U \cup {id}
  BY <1>2, UnderInsert
<1>4. Loaded(rows') = [i \in U \cup {id} |-> rows'[i]]
  BY <1>3 DEF Loaded
<1>5. /\ \A i \in U : rows'[i] = rows[i] /\ i # id
      /\ rows'[id] = [parent |-> p, name |-> name, completed |-> FALSE]
  BY <1>2 DEF Insert
<1>6. Tree!Insert(L, id, p, name) =
        [i \in U \cup {id} |-> IF i = id THEN [parent |-> p, name |-> name, completed |-> FALSE]
                               ELSE L[i]]
  BY <1>1 DEF Tree!Insert
<1> HIDE DEF U
<1>7. Loaded(rows') = Tree!Insert(L, id, p, name)
  BY <1>1, <1>4, <1>5, <1>6
<1>8. id \notin DOMAIN L
  BY <1>1, <1>2
<1>9. Tree!Add(id, p, name)
  BY <1>7, <1>8 DEF Tree!Add
<1>10. p \in DOMAIN L \cup {0} /\ id \in Tree!RowIds
  BY <1>1 DEF U, Tree!RowIds, RowIds
<1>11. QED
  BY <1>9, <1>10 DEF Tree!Next

LEMMA SameUnder ==
  ASSUME NEW t, NEW id
  PROVE  Tree!Under(t, id) = Under(t, id)
BY DEF Tree!Under, Under, Tree!ChildRows, ChildRows

LEMMA LoadedDelete ==
  ASSUME IsTable(rows), NEW id \in Under(rows, 0), rows' = Delete(rows, id)
  PROVE  Tree!Next
<1> DEFINE U == Under(rows, 0)
           L == Loaded(rows)
           D == {id} \cup Under(L, id)
<1>1. DOMAIN L = U /\ \A i \in U : L[i] = rows[i]
  BY DEF Loaded
<1>2. Under(rows', 0) = U \ D /\ U \subseteq DOMAIN rows
  BY UnderDelete, UnderFacts
<1>3. Loaded(rows') = [i \in U \ D |-> rows'[i]]
  BY <1>2 DEF Loaded
<1>4. \A i \in U \ D : rows'[i] = L[i]
  BY <1>1, <1>2 DEF Delete
<1>5. Tree!Under(L, id) = Under(L, id)
  BY SameUnder
<1> HIDE DEF U, L
<1>6. Loaded(rows') = [i \in DOMAIN L \ D |-> L[i]]
  BY <1>1, <1>3, <1>4
<1>7. Tree!Drop(id)
  BY <1>5, <1>6 DEF Tree!Drop, L
<1>8. id \in DOMAIN L
  BY <1>1 DEF U
<1>9. QED
  BY <1>7, <1>8 DEF Tree!Next, L

LEMMA LoadedName ==
  ASSUME IsTable(rows), NEW id \in Under(rows, 0), NEW name \in Names,
         rows' = UpdateName(rows, id, name)
  PROVE  Tree!Next
<1> DEFINE U == Under(rows, 0)
           L == Loaded(rows)
<1>1. DOMAIN L = U /\ \A i \in U : L[i] = rows[i]
  BY DEF Loaded
<1>2. /\ DOMAIN rows' = DOMAIN rows /\ U \subseteq DOMAIN rows
      /\ \A i \in DOMAIN rows : rows'[i] = IF i = id THEN [rows[i] EXCEPT !.name = name] ELSE rows[i]
  BY UnderFacts DEF UpdateName
<1>3. \A i \in DOMAIN rows : rows[i] \in Row
  BY DEF IsTable
<1>4. \A i \in DOMAIN rows : rows'[i].parent = rows[i].parent
  BY <1>2, <1>3 DEF Row
<1>5. Under(rows', 0) = U
  BY <1>2, <1>4, UnderSame
<1>6. Loaded(rows') = [i \in U |-> rows'[i]]
  BY <1>5 DEF Loaded
<1> HIDE DEF U, L
<1>7. Loaded(rows') = Tree!UpdateName(L, id, name)
  BY <1>1, <1>2, <1>6 DEF Tree!UpdateName
<1>8. Tree!Rename(id, name) /\ id \in DOMAIN L
  BY <1>1, <1>7 DEF Tree!Rename, L, U
<1>9. QED
  BY <1>8 DEF Tree!Next, L

LEMMA LoadedMark ==
  ASSUME IsTable(rows), NEW id \in Under(rows, 0), NEW completed \in BOOLEAN,
         rows' = UpdateCompleted(rows, id, completed)
  PROVE  Tree!Next
<1> DEFINE U == Under(rows, 0)
           L == Loaded(rows)
<1>1. DOMAIN L = U /\ \A i \in U : L[i] = rows[i]
  BY DEF Loaded
<1>2. /\ DOMAIN rows' = DOMAIN rows /\ U \subseteq DOMAIN rows
      /\ \A i \in DOMAIN rows :
           rows'[i] = IF i = id THEN [rows[i] EXCEPT !.completed = completed] ELSE rows[i]
  BY UnderFacts DEF UpdateCompleted
<1>3. \A i \in DOMAIN rows : rows[i] \in Row
  BY DEF IsTable
<1>4. \A i \in DOMAIN rows : rows'[i].parent = rows[i].parent
  BY <1>2, <1>3 DEF Row
<1>5. Under(rows', 0) = U
  BY <1>2, <1>4, UnderSame
<1>6. Loaded(rows') = [i \in U |-> rows'[i]]
  BY <1>5 DEF Loaded
<1> HIDE DEF U, L
<1>7. Loaded(rows') = Tree!UpdateCompleted(L, id, completed)
  BY <1>1, <1>2, <1>6 DEF Tree!UpdateCompleted
<1>8. Tree!Mark(id, completed) /\ id \in DOMAIN L
  BY <1>1, <1>7 DEF Tree!Mark, L, U
<1>9. QED
  BY <1>8 DEF Tree!Next, L

\* A statement on a row that is not there changes nothing.
LEMMA NoSuchRow ==
  ASSUME IsTable(rows), NEW id, id \notin DOMAIN rows
  PROVE  /\ Delete(rows, id) = rows
         /\ \A name : UpdateName(rows, id, name) = rows
         /\ \A completed : UpdateCompleted(rows, id, completed) = rows
<1>1. rows = [i \in DOMAIN rows |-> rows[i]]
  BY DEF IsTable
<1>2. DOMAIN rows \ {id} = DOMAIN rows
  OBVIOUS
<1>3. QED
  BY <1>1, <1>2 DEF Delete, UpdateName, UpdateCompleted

LEMMA AddChildSaved ==
  ASSUME IsTable(rows), heap \in Heap, calls = <<>>, CallsHeld(heap, calls),
         Older(rows), Mirrors(rows, heap, calls),
         NEW a \in LiveAddrs(heap), NEW name \in Names, AddChild(a, name)
  PROVE  Tree!Next
<1> DEFINE p == heap.at[a].id
<1>1. PICK id \in RowIds : IsNewRowid(rows, id) /\ rows' = Insert(rows, id, p, name)
  BY DEF AddChild
<1>2. id \notin DOMAIN rows /\ ChildRows(rows, id) = {}
  <2>1. \A i \in DOMAIN rows : i \in Int /\ rows[i].parent \in Int
    BY BoundFacts DEF IsTable, Row, RowIds
  <2>2. \A i \in DOMAIN rows : i < id /\ rows[i].parent < i
    BY <1>1 DEF IsNewRowid, Older
  <2>3. id \in Int
    BY BoundFacts DEF RowIds
  <2>4. \A i \in DOMAIN rows : rows[i].parent # id /\ i # id
    BY <2>1, <2>2, <2>3
  <2>5. QED
    BY <2>4 DEF ChildRows
<1>3. p \in Under(rows, 0) \cup {0}
  <2>1. CASE a = head
    BY <2>1 DEF Mirrors, Distinct
  <2>2. CASE a # head
    <3>1. ~Erasing(calls)
      BY DEF Erasing
    <3>2. QED
      BY <2>2, <3>1, TasksAreSaved
  <2>3. QED
    BY <2>1, <2>2
<1> HIDE DEF p
<1>4. QED
  BY <1>1, <1>2, <1>3, LoadedInsert

\* The id of a task, the head's apart, is that of a row of the tree.
LEMMA SavedId ==
  ASSUME IsTable(rows), CallsHeld(heap, calls), Mirrors(rows, heap, calls), ~Erasing(calls),
         NEW a \in LiveAddrs(heap)
  PROVE  heap.at[a].id \in Under(rows, 0) \/ heap.at[a].id \notin DOMAIN rows
<1>1. CASE a = head
  BY <1>1, BoundFacts DEF Mirrors, Distinct, IsTable, RowIds
<1>2. CASE a # head
  BY <1>2, TasksAreSaved
<1>3. QED
  BY <1>1, <1>2

LEMMA SavedStep ==
  ASSUME MirrorInv, Next, ~astray'
  PROVE  Tree!Next \/ Loaded(rows') = Loaded(rows)
<1>1. /\ IsTable(rows) /\ heap \in Heap /\ astray \in BOOLEAN
      /\ calls \in Seq(Frame) /\ OneKind(calls) /\ (~running => calls = <<>>)
  BY DEF MirrorInv, HeldInv, LoadInv, TypeOK
<1>2. CASE rows' = rows
  BY <1>2
<1>3. ASSUME NEW a \in LiveAddrs(heap), NEW name \in Names, AddChild(a, name)
      PROVE  Tree!Next
  <2>1. running /\ ~astray /\ calls = <<>>
    BY <1>1, <1>3 DEF AddChild, Idle
  <2>2. Older(rows) /\ CallsHeld(heap, calls) /\ Mirrors(rows, heap, calls)
    BY <2>1 DEF MirrorInv, HeldInv
  <2>3. QED
    BY <1>1, <1>3, <2>1, <2>2, AddChildSaved
<1>4. ASSUME NEW a \in LiveAddrs(heap), NEW name \in Names, SetTaskName(a, name)
      PROVE  Tree!Next \/ rows' = rows
  <2>1. running /\ ~astray /\ calls = <<>> /\ rows' = UpdateName(rows, heap.at[a].id, name)
    BY <1>1, <1>4 DEF SetTaskName, Idle
  <2>2. CallsHeld(heap, calls) /\ Mirrors(rows, heap, calls) /\ ~Erasing(calls)
    BY <2>1 DEF MirrorInv, HeldInv, Erasing
  <2>3. QED
    BY <1>1, <2>1, <2>2, SavedId, LoadedName, NoSuchRow
<1>5. ASSUME NEW a \in LiveAddrs(heap), ToggleTaskCompleted(a)
      PROVE  Tree!Next \/ rows' = rows
  <2> DEFINE mark == ~heap.at[a].completed
  <2>1. running /\ ~astray /\ calls = <<>> /\ rows' = UpdateCompleted(rows, heap.at[a].id, mark)
    BY <1>1, <1>5 DEF ToggleTaskCompleted, Idle
  <2>2. CallsHeld(heap, calls) /\ Mirrors(rows, heap, calls) /\ ~Erasing(calls)
    BY <2>1 DEF MirrorInv, HeldInv, Erasing
  <2>3. mark \in BOOLEAN
    OBVIOUS
  <2> HIDE DEF mark
  <2>4. QED
    BY <1>1, <2>1, <2>2, <2>3, SavedId, LoadedMark, NoSuchRow
<1>6. ASSUME RemoveRow
      PROVE  Tree!Next \/ rows' = rows
  <2> DEFINE a == calls[1].task
  <2>1. calls # <<>> /\ calls[1].pc = "remove" /\ astray' = astray
    BY <1>6 DEF RemoveRow, InPc
  <2>2. running /\ ~astray
    BY <1>1, <2>1
  <2>3. /\ CallsHeld(heap, calls) /\ Mirrors(rows, heap, calls)
        /\ ~Erasing(calls) /\ Removing(calls)
    BY <2>1, <2>2 DEF MirrorInv, HeldInv, Erasing, Removing
  <2>4. a \in Addr /\ 1 \in 1 .. Len(calls)
    BY <1>1, <2>1, TopType
  <2>5. Alive(heap, a)
    BY <2>1, <2>3, <2>4 DEF CallsHeld, Held
  <2>6. a \in LiveAddrs(heap)
    BY <2>4, <2>5 DEF LiveAddrs
  <2>7. rows' = Delete(rows, heap.at[a].id)
    BY <1>6, <2>5 DEF RemoveRow
  <2> HIDE DEF a
  <2>8. QED
    BY <1>1, <2>3, <2>6, <2>7, SavedId, LoadedDelete, NoSuchRow
<1>7. QED
  BY <1>2, <1>3, <1>4, <1>5, <1>6
     DEF Next, Start, Stop, Step, Proceed, LoadSelect, LoadDescend, LoadReturn, RemoveChild,
         RemoveErase, RemoveReturn, RemoveThrows, Request, Remove

\* TaskTree up to the first step astray.
StraightSpec == Init /\ [][Next /\ ~astray']_vars

\* The table always holds one tree a user could have made, whatever is left in
\* it besides: until a misleading parent pointer is followed, TaskTree
\* implements SavedTasks with what a load would reach as the saved tasks.
THEOREM TheTreeIsKept == StraightSpec => KeepsTheTree
<1>1. Init => Tree!Init
  <2>1. Under(EmptyTable, 0) = {}
    BY UnderFacts DEF EmptyTable
  <2>2. Loaded(EmptyTable) = Tree!EmptyTable
    BY <2>1 DEF Loaded, Tree!EmptyTable
  <2>3. QED
    BY <2>2 DEF Init, Tree!Init
<1>2. MirrorInv /\ [Next /\ ~astray']_vars => MirrorInv'
  BY MirrorInvNext
<1>3. MirrorInv /\ [Next /\ ~astray']_vars => [Tree!Next]_(Loaded(rows))
  <2>1. CASE Next /\ ~astray'
    BY <2>1, SavedStep
  <2>2. CASE UNCHANGED vars
    BY <2>2 DEF vars
  <2>3. QED
    BY <2>1, <2>2
<1>4. QED
  BY <1>1, <1>2, <1>3, MirrorInvInit, PTL DEF StraightSpec, KeepsTheTree, Tree!Spec
=============================================================================
