------------------------- MODULE SharedTableProofs --------------------------
(***************************************************************************)
(* Theorems about SharedTable: what other programs do to the table between *)
(* a TaskTree's statements, for any size of table and memory.              *)
(***************************************************************************)
EXTENDS SharedTable, TaskTreeMirror

LEMMA ElsewhereType ==
  ASSUME TypeOK, Elsewhere
  PROVE  TypeOK'
<1>1. IsTable(rows')
  BY AfterWriteType DEF TypeOK, Elsewhere
<1>2. QED
  BY <1>1 DEF TypeOK, Elsewhere

LEMMA SharedStepIs ==
  ASSUME [SharedNext]_sharedVars
  PROVE  [Next]_vars \/ Elsewhere
BY DEF SharedNext, SharedStart, OwnStep, Next, sharedVars

LEMMA SharedTypeNext ==
  ASSUME TypeOK, [SharedNext]_sharedVars
  PROVE  TypeOK'
BY SharedStepIs, NextType, ElsewhereType

\* Types stay right whatever other programs write.
THEOREM SharedTypeCorrect == SharedSpec => []TypeOK
<1>1. SharedInit => TypeOK
  BY InitType DEF SharedInit
<1>2. TypeOK /\ [SharedNext]_sharedVars => TypeOK'
  BY SharedTypeNext
<1>3. QED
  BY <1>1, <1>2, PTL DEF SharedSpec

\* What a load has put in memory does not depend on what the table has become.
LEMMA SharedLoadInvNext ==
  ASSUME LoadInv, [SharedNext]_sharedVars
  PROVE  LoadInv'
<1>1. CASE [Next]_vars
  BY <1>1, LoadInvNext
<1>2. CASE Elsewhere
  <2>1. TypeOK'
    BY <1>2, ElsewhereType DEF LoadInv
  <2>2. UNCHANGED <<running, heap, calls, astray>>
    BY <1>2 DEF Elsewhere
  <2>3. QED
    BY <2>1, <2>2 DEF LoadInv, Loading
<1>3. QED
  BY <1>1, <1>2, SharedStepIs

\* A load leaves no parent pointer that misleads, though other programs insert,
\* delete and change rows between any two of its SELECTs.
THEOREM SharedLoadsPointRight == SharedSpec => []LoadPointersRight
<1>1. SharedInit => LoadInv
  BY LoadInvInit DEF SharedInit
<1>2. LoadInv /\ [SharedNext]_sharedVars => LoadInv'
  BY SharedLoadInvNext
<1>3. LoadInv => LoadPointersRight
  BY DEF LoadInv, Shaped, LoadPointersRight
<1>4. QED
  BY <1>1, <1>2, <1>3, PTL DEF SharedSpec

-----------------------------------------------------------------------------
(* What a TaskTree is to the others. *)

LEMMA DeleteIsWrite ==
  ASSUME IsTable(rows), NEW id \in RowIds \cup {0}
  PROVE  Delete(rows, id) = rows \/ Delete(rows, id) \in AfterWrite(rows)
<1>1. CASE id \in RowIds
  BY <1>1 DEF AfterWrite
<1>2. CASE id = 0
  <2>1. DOMAIN rows \ {id} = DOMAIN rows
    BY <1>2, MaxIdAssumption DEF IsTable, RowIds
  <2>2. rows = [i \in DOMAIN rows |-> rows[i]]
    BY DEF IsTable
  <2>3. QED
    BY <2>1, <2>2 DEF Delete
<1>3. QED
  BY <1>1, <1>2

LEMMA UpdateIsWrite ==
  ASSUME IsTable(rows), NEW id \in RowIds \cup {0},
         NEW name \in Names, NEW completed \in BOOLEAN
  PROVE  /\ UpdateName(rows, id, name) = rows
            \/ UpdateName(rows, id, name) \in AfterWrite(rows)
         /\ UpdateCompleted(rows, id, completed) = rows
            \/ UpdateCompleted(rows, id, completed) \in AfterWrite(rows)
<1>1. CASE id \in RowIds
  BY <1>1 DEF AfterWrite
<1>2. CASE id = 0
  <2>1. \A i \in DOMAIN rows : i # id
    BY <1>2, MaxIdAssumption DEF IsTable, RowIds
  <2>2. rows = [i \in DOMAIN rows |-> rows[i]]
    BY DEF IsTable
  <2>3. QED
    BY <2>1, <2>2 DEF UpdateName, UpdateCompleted
<1>3. QED
  BY <1>1, <1>2

\* Every step of a TaskTree is, for the other programs, a statement or nothing.
LEMMA StepIsStatement ==
  ASSUME TypeOK, Next
  PROVE  rows' = rows \/ rows' \in AfterWrite(rows)
<1>1. IsTable(rows) /\ heap \in Heap /\ head \in Addr
  BY DEF TypeOK, Addr
<1>2. ASSUME NEW a \in Addr PROVE heap.at[a].id \in RowIds \cup {0} /\ heap.at[a].completed \in BOOLEAN
  BY <1>1 DEF Heap, Task
<1>3. CASE Start \/ Stop \/ LoadSelect \/ LoadDescend \/ LoadReturn \/ RemoveChild
           \/ RemoveErase \/ RemoveReturn \/ RemoveThrows
  BY <1>3 DEF Start, Stop, LoadSelect, LoadDescend, LoadReturn, RemoveChild, RemoveErase,
              RemoveReturn, RemoveThrows
<1>4. CASE RemoveRow
  <2>1. calls \in Seq(Frame) /\ calls # <<>>
    BY <1>4 DEF TypeOK, RemoveRow, InPc
  <2>2. calls[1].task \in Addr
    BY <2>1, TopType
  <2>3. PICK id \in RowIds \cup {0} : rows' = Delete(rows, id)
    BY <1>2, <1>4, <2>2 DEF RemoveRow
  <2>4. QED
    BY <1>1, <2>3, DeleteIsWrite
<1>5. CASE Request
  <2>1. PICK a \in Addr :
          \/ \E name \in Names : AddChild(a, name)
          \/ Remove(a)
          \/ \E name \in Names : SetTaskName(a, name)
          \/ ToggleTaskCompleted(a)
    BY <1>5 DEF Request, LiveAddrs
  <2>2. CASE \E name \in Names : AddChild(a, name)
    <3>1. PICK name \in Names, id \in RowIds :
            IsNewRowid(rows, id) /\ rows' = Insert(rows, id, heap.at[a].id, name)
      BY <2>2 DEF AddChild
    <3>2. heap.at[a].id \in RowIds \cup {0} /\ id \in {i \in RowIds : IsNewRowid(rows, i)}
      BY <1>2, <3>1
    <3>3. QED
      BY <3>1, <3>2 DEF AfterWrite
  <2>3. CASE Remove(a)
    BY <2>3 DEF Remove
  <2>4. CASE \E name \in Names : SetTaskName(a, name)
    <3>1. PICK name \in Names : rows' = UpdateName(rows, heap.at[a].id, name)
      BY <2>4 DEF SetTaskName
    <3>2. QED
      BY <1>1, <1>2, <3>1, UpdateIsWrite
  <2>5. CASE ToggleTaskCompleted(a)
    <3>1. /\ rows' = UpdateCompleted(rows, heap.at[a].id, ~heap.at[a].completed)
          /\ (~heap.at[a].completed) \in BOOLEAN
      BY <1>2, <2>5 DEF ToggleTaskCompleted
    <3>2. QED
      BY <1>1, <1>2, <3>1, UpdateIsWrite, NamesAssumption
  <2>6. QED
    BY <2>1, <2>2, <2>3, <2>4, <2>5
<1>6. QED
  BY <1>3, <1>4, <1>5 DEF Next, Step, Proceed

\* Whatever a TaskTree does, other programs see one of the statements Elsewhere
\* allows them, or nothing: so two TaskTrees on one file, or any number of them,
\* are each a SharedTable to which the rest is Elsewhere.
THEOREM OthersSeeStatements == SharedSpec => [][rows' \in AfterWrite(rows)]_rows
<1>1. TypeOK /\ [SharedNext]_sharedVars => [rows' \in AfterWrite(rows)]_rows
  <2>1. SUFFICES ASSUME TypeOK, [SharedNext]_sharedVars
                 PROVE  rows' = rows \/ rows' \in AfterWrite(rows)
    OBVIOUS
  <2>2. CASE Next
    BY <2>1, <2>2, StepIsStatement
  <2>3. CASE UNCHANGED vars
    BY <2>3 DEF vars
  <2>4. CASE Elsewhere
    BY <2>4 DEF Elsewhere
  <2>5. QED
    BY <2>1, <2>2, <2>3, <2>4, SharedStepIs
<1>2. QED
  BY <1>1, SharedTypeCorrect, PTL DEF SharedSpec

-----------------------------------------------------------------------------
(* What the calls hold, and what a load left alone shows. *)

LEMMA SharedHeldInvNext ==
  ASSUME HeldInv, [SharedNext]_sharedVars
  PROVE  HeldInv'
<1>1. CASE [Next]_vars
  BY <1>1, HeldInvNext
<1>2. CASE Elsewhere
  <2>1. LoadInv'
    BY SharedLoadInvNext DEF HeldInv
  <2>2. UNCHANGED <<running, heap, calls, astray>>
    BY <1>2 DEF Elsewhere
  <2>3. QED
    BY <2>1, <2>2 DEF HeldInv
<1>3. QED
  BY <1>1, <1>2, SharedStepIs

\* The Task& an active call of remove or load_child_tasks holds names a task that
\* is still there until the call's own erase, though other programs insert, delete
\* and change any rows in between, so that ids in memory repeat and an erase takes
\* a sibling of the task it means.
THEOREM SharedCallsKeepTheirTasks == SharedSpec => []CallsHoldLiveTasks
<1>1. SharedInit => HeldInv
  BY HeldInvInit DEF SharedInit
<1>2. HeldInv /\ [SharedNext]_sharedVars => HeldInv'
  BY SharedHeldInvNext
<1>3. QED
  BY <1>1, <1>2, HeldCalls, PTL DEF SharedSpec

\* While nobody else writes and no task is added, memory is what was loaded.
QuietInv ==
  /\ HeldInv
  /\ undisturbed /\ running /\ ~astray => Mirrors(rows, heap, calls)

LEMMA QuietInvNext ==
  ASSUME QuietInv, [SharedNext]_sharedVars
  PROVE  QuietInv'
<1>1. HeldInv /\ HeldInv' /\ TypeOK
  BY SharedHeldInvNext DEF QuietInv, HeldInv, LoadInv
<1>2. SUFFICES ASSUME undisturbed', running', ~astray'
               PROVE  Mirrors(rows', heap', calls')
  BY <1>1 DEF QuietInv
<1>3. CASE SharedStart
  BY <1>1, <1>3, StartMirrors DEF SharedStart, HeldInv
<1>4. CASE Elsewhere
  BY <1>2, <1>4 DEF Elsewhere, QuietInv
<1>5. CASE UNCHANGED sharedVars
  BY <1>2, <1>5 DEF sharedVars, vars, QuietInv
<1>6. CASE OwnStep
  <2>1. /\ Stop \/ Step \/ Request
        /\ undisturbed /\ DOMAIN rows' \subseteq DOMAIN rows
    BY <1>2, <1>6 DEF OwnStep
  <2>2. ~Stop
    BY <1>2 DEF Stop
  <2>3. running /\ ~astray
    BY <1>1, <1>2, <2>1, <2>2, StepFrom
  <2>4. ASSUME NEW a \in LiveAddrs(heap), NEW name \in Names, AddChild(a, name)
        PROVE  FALSE
    <3>1. PICK id \in RowIds : IsNewRowid(rows, id) /\ rows' = Insert(rows, id, heap.at[a].id, name)
      BY <2>4 DEF AddChild
    <3>2. id \in DOMAIN rows' /\ id \notin DOMAIN rows
      BY <3>1, MaxIdAssumption DEF Insert, IsNewRowid, RowIds
    <3>3. QED
      BY <2>1, <3>2
  <2>5. QED
    BY <1>1, <1>2, <2>1, <2>2, <2>3, <2>4, StepMirrors DEF QuietInv
<1>7. QED
  BY <1>3, <1>4, <1>5, <1>6 DEF SharedNext

\* A load that no other program disturbs puts in memory what the table holds, and
\* memory and table stay alike, whatever parents, names and marks the programs
\* gave the rows before, until a task is added, another program writes or a
\* remove searches the children of a task that is not the owner.
THEOREM SharedLoadsWhatIsThere == SharedSpec => []LoadsWhatIsThere
<1>1. SharedInit => QuietInv
  BY HeldInvInit DEF SharedInit, QuietInv
<1>2. QuietInv /\ [SharedNext]_sharedVars => QuietInv'
  BY QuietInvNext
<1>3. QuietInv => LoadsWhatIsThere
  BY MirrorsTheTable DEF QuietInv, HeldInv, LoadInv, TypeOK, LoadsWhatIsThere, MemoryMirrorsTable, Idle
<1>4. QED
  BY <1>1, <1>2, <1>3, PTL DEF SharedSpec
=============================================================================
