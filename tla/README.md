# TaskTree in TLA+

TaskTree keeps a tree of tasks in an SQLite table and, while a program runs, a
copy of it in memory: C++ objects held by value in vectors, with raw pointers
upwards. A Qt window and a small command line program work on that copy, and
both open the same file. This directory models the tree and the memory it lives
in, the two programs, several of them on one file, and the statements below
them; TLC checks the models on small instances and TLAPS proves theorems for all
of them. Paths below are relative to the repository.

## Inventory

| component | state | operations | talks to |
|---|---|---|---|
| tasks table (SQLite, `tasktree.db`) | rows: id, parent id, creation time, completed, name | INSERT, DELETE, UPDATE, SELECT by parent; each a transaction of its own | – |
| `UniqueSqlite`, `UniqueSqliteStmt` (`src/database`) | a connection; a statement, stepped or not, perhaps holding the file's shared lock | open, prepare, bind, step, column, finalize; throw on error | SQLite |
| `Task` (`src/tasktree/task.*`) | fields, a pointer to the parent, a vector of child tasks | `add_child`, `get_child`, `get_parent`, erase (by TaskTree) | – |
| `TaskTree` (`src/tasktree/tasktree.*`) | the head task, the database | constructor (load), `add_child`, `remove`, `set_task_name`, `toggle_task_completed`, `get_by_id`, `print` | Task, SQLite |
| `Backend`, `TaskModel` (`src/backend.*`) | a TaskTree, the current task, the list of its children; both hold `Task*` | `addTask`, `deleteTask`, `setTaskName`, `setTaskCompleted`, `setCurrent`, `goBack`, `refreshTasks` | TaskTree |
| QML (`src/ui`) | – | calls one Backend slot per control | Backend |
| `main` | – | builds a Backend, runs the event loop; an exception ends the program | Backend |
| command line program (`src/cli.cpp`) | a TaskTree, the indentation of `list` | `new`, `delete`, `complete`, `list` | TaskTree |
| `getDbPath` (`src/util.cpp`) | – | names the file | – |

Hard behaviour, and what makes each component correct:

- **Memory.** A child vector that grows moves its tasks, an erase shifts them.
  Every pointer kept across such a move (parent pointers, the references that
  recursive calls hold, the window's `Task*`) has to be good when it is used.
- **Two copies.** The table and the memory must say the same after every
  operation, also when a statement throws between the table's change and the
  memory's, or in the middle of a recursive remove.
- **Ending anywhere.** The process can end between any two statements; the next
  one loads whatever rows are left.
- **Id reuse.** SQLite hands the id of a deleted newest row out again; nothing
  may still be known by it.
- **Recursion over data.** A remove must end whatever happens to the vector it walks,
  a load whatever other programs have left. On a table that nobody writes to, a load
  from the head cannot run into a cycle (a row has one parent, and none has id 0);
  one written into between two SELECTs can.
- **The window** shows a list of copies with pointers: it must agree with memory
  and table between handlers, and pass no stale reference on.

- **The list's order** comes from three sorts, none of them stable, with a border
  searched for by hand between the last two.
- **Other programs on the file.** No TaskTree reads a row again once it is loaded,
  and a load is many statements. What a load shows, and the references a call
  holds, must stand whatever the others write in between.
- **Locks.** A SELECT is stepped row by row and holds the shared lock while it is
  at a row; it must show the rows of one moment, and let go.

Every hazard with its line is in `PROJECT.json`.

## Modules

    TaskTable            rows as a function from ids; the SQL statements as operators
      TaskHeap             tasks in slots of buffers; add_child, erase, parent pointers
        TaskTree             the class, on both: state, actions, Spec, properties
          TaskTreeProofs       types; memory is a tree; calls keep their tasks
            TaskTreeMirror       memory is the table; SavedTasks is implemented
              SharedTableProofs    all of it with other programs on the file
          TaskTreeSaved        TaskTree implements SavedTasks       (MCTaskTree)
          Backend              the window on a TaskTree             (MCBackend)
            BackendProofs        its list and current task, on TaskTreeMirror
          Cli                  the command line program on a TaskTree (MCCli)
            CliProofs            both programs are callers of it, on TaskTreeMirror
          SharedTable          a TaskTree among other programs      (MCSharedTable)
            TwoTrees             two of them, each the other's others (MCTwoTrees)
              TwoTreesProofs       that they are, so what is proved holds of both
      SavedTasks           abstract: one tree of saved tasks
      AtomicTable          abstract: a table on which a SELECT is one step
      Statements           the wrappers stepped row by row, with locks (MCStatements)
        StatementsProofs     Statements implements AtomicTable
    TaskOrder            the order of the window's list             (MCTaskOrder)
      TaskOrderProofs      ... proved, for lists of any length

The MC modules in parentheses hold the instances TLC checks.

**TaskTable.** A statement commits alone and does nothing if it fails, so each is
an operator on the table. `IsNewRowid` is SQLite's choice (`OP_NewRowid`):
largest id plus one. Its random ids past 2^63-1 are out of reach. `ScanOrders`
says that a scan returns rows by id, which fixes the order of children after a
load. `Under` is what a load reaches, as the least set closed under children.

**TaskHeap.** The memory of one process, literally enough for pointers to go
wrong as they do in C++. An address is a buffer and an index (`head` is a member,
so it has a block of its own and never moves). `PushInPlace` is `push_back` with
room, `PushMoving` one that reallocates into any free buffer (one freed before
included), `EraseChild` is `vector::erase` with the shift and the destruction of
the erased subtree. `add_child` sets the new child's parent only, as the code
does. Reading a dead slot shows a task without children (a moved-from vector is
empty); the crash it may cause instead is covered by `Stop`.

**TaskTree.** `rows` outlives the process; `running`, `heap` and `calls` are its
memory. `calls` is the stack of the recursive functions: a frame is a `Task&`, a
place in the function and a loop index.

| code | actions |
|---|---|
| constructor, `load_child_tasks` | `Start`, `LoadSelect`, `LoadDescend`, `LoadReturn` |
| `add_child` | `AddChild` |
| `remove` | `Remove` (call), `RemoveChild` (recursion), `RemoveRow` (DELETE), `RemoveThrows`, `RemoveErase` (each match of the last loop), `RemoveReturn` |
| `set_task_name`, `toggle_task_completed` | `SetTaskName`, `ToggleTaskCompleted` |
| destruction, exit, kill, uncaught throw | `Stop` |

One statement or loop pass is one step, so `Stop` falls between any two. A
statement that fails before anything changed is a stutter; `RemoveThrows` and
`Stop` are the throws that leave something half done. `Request` is any caller
that passes references to live tasks. `astray` is a history variable: a `remove`
or `goBack` has followed a parent pointer that does not lead to the task's owner.
From that point the code has left its own invariants (see the findings), so the
invariants it does keep are stated as `~astray => ...` where they end there and
without it where they survive.

**Backend.** `current`, `tasks` and `job` on top of TaskTree's variables. Each
slot is an action; `deleteTask` and the constructor wait for TaskTree's steps
(`InLibrary`) and finish in `Deleted` and `Opened`. Exceptions end the program
(`Close`). `goBack` can land where no task lives: then only `goBackLost` and
`addTaskLost` are possible, with whatever bytes are read there; what a process
does after it has *written* there is not modelled.

**SavedTasks, TaskTreeSaved.** What a user is promised: one tree of saved tasks,
to which a childless task is added, from which a task is dropped with all below
it, in which one is renamed or marked. `TaskTreeSaved` maps TaskTree to it: saved
is `Loaded(rows)`, the rows a load would reach from the head.

**Cli.** On top of TaskTree: which program has the TaskTree now (`session`), the
static `iteration` of `list_tasks`, and the stack of its calls.

| code (`src/cli.cpp`) | actions |
|---|---|
| `main` | `Run("cli")`, `End` |
| `new`, `delete`, `complete` | `new`, `delete`, `complete`; the null of `get_by_id` and what `stoi` or a statement throws are `End` |
| `list_tasks` | `list` (call), `ListLine` or `ListThrows` (a negative indentation), `ListDescend`, `ListReturn` |

`get_by_id` searches the head's children only, so the command line program makes
tasks at the top level only. No exception is caught, so in a session a remove that
fails ends with the program: `InLibrary` is `Proceed`, without `RemoveThrows`. Deeper trees come from another program's session on
the same file (`Elsewhere`). `run_cli` takes its TaskTree by value; the temporary
`main` passes is constructed in place, so no task moves.

**TaskOrder.** `loadTasks` in `src/backend.cpp`, alone: the vector of the current
task, the clock, the list. `Sorts` is what `std::sort` may leave: any order of the
elements in which none is before one that compares less. `first_completed` is the
hand-written search. The system clock, taken in seconds,
can be set back.

**SharedTable.** TaskTree, and between any two of its statements `Elsewhere`: any
INSERT, DELETE or UPDATE of another program, with whatever ids that program
believes to exist. `undisturbed` is a history variable: no other program has
written, and no task was added, since this TaskTree was constructed.

**TwoTrees** instantiates SharedTable twice on one `rows`. `FirstMoves` and
`SecondMoves` are the steps of one program, with the other's memory unchanged.

**Statements.** The level below: each program's connection, the PRAGMA that tells
`column_ids`, and a `UniqueSqliteStmt` for every active call of
`load_child_tasks`, one `sqlite3_step` at a time.

| code | actions |
|---|---|
| `UniqueSqlite::UniqueSqlite`, `exec` of CREATE TABLE | `Open` |
| the PRAGMA's loop, which takes an error for the end | `LoadColumns` |
| `while (stmt.step() == SQLITE_ROW)` | `ScanRow`, `ScanNoColumns` (`column_ids.at` throws), `ScanDone`, `ScanFails` |
| the second loop, run after an error too | `Descend` |
| return, `throw` | `LoadReturns`, `LoadThrows` |
| add, remove, rename, toggle | `Write` |
| destructors, exit | `Close` |

What it takes from SQLite (vendored, 3.45.2), as the code sets it up: a rollback
journal and no busy timeout. A statement holds the shared lock only while it is
at a row. A commit needs that no other program holds it; one that meets it fails
with BUSY, the wrapper throws, and nothing has changed, which is a stutter. A
program's own scan would not keep it from writing, but nothing writes during a
load.

## Checks

| run | instance | shows |
|---|---|---|
| `tree` | 4 ids, 4 buffers, until astray; names and marks while there are at most two rows | `MemoryMirrorsTable`, `IdsUnique`, `ParentsOlder`, `CallsHoldLiveTasks`, `NoAdoption`, `KeepsTheTree` |
| `tree_astray` | no edits, 3 ids, with all that follows a step astray; fairness | `TypeOK`, `LoadPointersRight`, `CallsReturn` |
| `window` | 3 ids, with all that follows a step astray; edits until then, while there are at most two rows; fairness | `BackendTypeOK`, `CurrentStaysPut`, `ListMirrorsTasks`, `ListMirrorsTable`, `OnlyLiveReferences`, `HandlersEnd` |
| `list_order` | 4 tasks, a clock of two values | `TypeOK`, `ListOrdered`, `OthersKeepTheirOrder` |
| `cli` | 3 ids, sessions of either program in any order, marks on the first task; fairness | `CliTypeOK`, `CommandsFindTheRow`, `ListEndsOnChains`, `ListEnds` |
| `shared` | whole TaskTree, others writing at any point, 2 ids | `LoadPointersRight`, `LoadsWhatIsThere`, `CallsHoldLiveTasks` |
| `shared_loads` | a program that loads again and again, 4 ids, one write during each load; fairness | `LoadsWhatIsThere`, `QuietLoadEnds` |
| `two_trees` | two TaskTrees, 2 ids; no check marks, the second starts on an empty table and does not end | `CallsUnharmed`, `EachIsShared` |
| `statements` | 2 programs, 2 ids, recursion 2 deep, marks on the first task; fairness | `StatementsTypeOK`, `WaitingHoldsNothing`, `OpenedWhole`, `StatementsAreAtomic`, `LocksAreReleased` |
| `tree_no_orphans`, `tree_removed_from_both`, `window_go_back` | 3 ids | the findings |

What the properties say:

- `MemoryMirrorsTable`, up to the first step astray: below every task in memory are exactly the rows with its
  id as parent. It holds although remove skips children: the row it skips hangs
  under a deleted row, and so does not show under any task in memory.
- `IdsUnique`, `ParentsOlder`, `NoAdoption`: id reuse is harmless *because*
  a row's parent always has a smaller id, so an orphan keeps the ids at and below
  its parent's from being handed out again. A SQLite that filled gaps would break
  the last two (their mutant).
- `CallsHoldLiveTasks`: `remove(task.get_child(i))` erases from the vector the
  caller iterates, and the outer references still survive.
- `KeepsTheTree` (refinement): the rows a load would reach are always one tree, and
  change only as a user asked. A `remove` deletes from the leaves up, so it is a
  series of drops, and the rows it skips fall out of reach with their parent.
- `LoadPointersRight`: loading in two passes (all rows of one parent, then the
  descents) is what keeps parent pointers right until the load returns; it holds
  with any rows. What a later `add_child` does to them is `RemovedFromBoth`.
- `CurrentStaysPut`: the task shown is never moved while it is shown, since the
  window adds and removes only below it; that is what makes `m_current` safe, until a
  `goBack` goes astray (`GoBackGoesUp`).
- `OnlyLiveReferences`: the window is a caller TaskTree allows. The steps of
  `BackendSpec` are steps of `TaskTree!Next`, up to the first step astray, so what
  is shown of TaskTree carries over.
- `ListOrdered`: the three sorts amount to open before completed, oldest first
  within each. `OthersKeepTheirOrder`: adding, deleting or marking one task swaps
  no two others created in different seconds (those of one second `std::sort` may
  put in another order at every refresh).
- `CommandsFindTheRow`: the command line program asks memory for an id and acts on
  what it finds there. Until a step astray that is the row with this id, if it is at
  the top level, and `complete` turns the mark the table has, also where the window
  set it in a session before, and whatever removes have moved in between.
- `ListEndsOnChains`: `iteration` only ever goes down, once per line, so a `list`
  that ends was the first of its session and of a tree without siblings; any
  other ends the program (`ListThrows`).
- `LoadsWhatIsThere`: a load nobody wrote during is the table, even where programs
  that did not know of each other have left rows that are their own ancestors:
  those are not reachable from the head. `QuietLoadEnds`: so it ends. A load that
  is written into has neither guarantee.
- `CallsHoldLiveTasks` and `CallsUnharmed` with other programs: two tasks in one
  memory may then have the same id, and a remove may erase the wrong one, but
  never one that an active call holds.
- `EachIsShared` (refinement): to each of two programs the other is no more than
  `Elsewhere`, so what is shown of SharedTable holds of both.
- `StatementsAreAtomic` (refinement): a SELECT, though stepped row by row, gives the
  rows of one moment: the shared lock keeps commits out from its first row to its
  last. This is what lets `LoadSelect` be one step.
- `WaitingHoldsNothing`: a call that waits for one below it has stepped its
  statement to the end (two loops, not one), so a deep load does not keep the
  file locked. `LocksAreReleased`: each scan ends.
- `OpenedWhole`: after a SELECT fails the load goes on below the tasks it got, and
  after the PRAGMA fails it begins, and still no constructor returns with rows missing
  or read by columns it did not know: `column_ids.at` throws at the first row, which
  leaves only an empty table to be opened without columns. It has a mutant for each:
  an error not thrown on return, and `at` replaced by `[]`.

Why the bounds are enough. Tree, window and command line: `Bufs` has as many
buffers as ids (each task can own one, and a reallocation needs one more, which
there is as some task has no children); buffers are interchangeable, and
symmetric in the runs without liveness; `MaxLen = 4`, so a vector grows 1, 2, 4.
The shortest way to each hazard needs three tasks (two siblings and a child of
one: a skipped child, a moved parent, a ghost left in memory) and id reuse after
it one more id than live tasks. Vectors of length 3 cover an erase in the first,
middle and last place, and growth with and without a move. `MaxTasks` keeps
ghosts, which have no row and so take no id, finite. A rename or a mark touches
one row and its task, so two rows show whether it touches another.

Sharing: two ids are enough for an id handed out twice, a row under a removed
parent and a row under itself; cycles and trees of several levels are in
`shared_loads`, where one write is enough to disturb a load. Statements: two rows
in a scan let a write fall before, between and after them, and two levels have a
call wait for another; what depends on more is proved for all values. Order: two
open and two completed tasks, equal or different in time, on each side of the
border, and the border at either end.

Fairness. `WF(Step)`, for the window `WF(Handler)`, for the command line program
`WF(InLibrary \/ ListStep)`, for a load among others `WF` of its own steps: a call
runs to its end on the caller's thread, nothing in it waits (a BUSY throws at
once), and the GUI thread runs one handler at a time, so a call that can go on
does. `Statements` has `WF(Load(c))` for each program: the operating system runs
each process. Nothing is assumed about callers, restarts, throws, commands, or
other programs' writes.

### Findings

- `NoOrphans`: `remove` walks the children by ascending index while each recursive
  call erases from the same vector (tasktree.cpp:98), so every other child keeps
  its row for ever. `test.cpp:77` expects an empty table but has one child per task.
- `RemovedFromBoth`: a vector that grows or loses an element leaves the parent
  pointers of its tasks' children behind (task.cpp:18, tasktree.cpp:116). A remove
  through such a pointer deletes the row and keeps the task (tasktree.cpp:114); a
  later task can get its id.
- `GoBackGoesUp`: going back through such a pointer shows another task
  (backend.cpp:104).

## Proofs

All for any finite bounds, names and buffers and any number of programs, from the
assumptions on the constants alone.

`TaskTreeProofs`:

- `TypeCorrect == Spec => []TypeOK`. TypeOK is inductive. One lemma per operator
  of TaskHeap and TaskTable says what type it returns, two lemmas go through the
  requests and the steps. Its content is in the bounds: an index taken from
  `get_child_count` is one of a slot that exists, the length after a push or an
  erase is one the buffer can have, and a parent pointer never leaves the memory.
- `LoadsPointRight == Spec => []LoadPointersRight`, for any rows an earlier
  process left. The property is not inductive: in a state where a call is about to
  read the children of a task that has some already, the pushes would move them.
  `LoadInv` adds what rules that out, while a load is active:
  - `Shaped`: a free buffer is empty, no two tasks own one buffer, no task owns a
    free one, and every parent pointer leads to the owner. So filling a vector
    that was empty touches no task in memory but the one that gets it.
  - `GoesDown`: the stack is a path from child to child without a task twice, so
    the filled task is none of the outer calls'.
  - `ChildlessAhead`: what is still to be descended into has no children yet, so
    every vector is filled from empty. `AheadIsElsewhere` shows that the tasks
    ahead of an outer call are not those the inner ones work on.
  - `OneKind`: no remove is on the stack, so nothing else moves memory.

  The proof has a lemma for each way the stack changes (`GotoStack`,
  `EnterStack`, `ReturnStack`), two about `Filled` (`FilledHeap`, `FilledShape`)
  and one per step (`SelectKeeps`, `DescendKeeps`, `ReturnKeeps`).

- `CallsKeepTheirTasks == Spec => []CallsHoldLiveTasks`, from `HeldInv`. It speaks of
  memory and the stack of calls only, so that it serves with other programs on the
  file too, where two tasks can have one id and a row can be its own ancestor. As
  long as no misleading pointer was followed:
  - `Storage`: no two tasks own one buffer, a task's buffer is not free.
  - `Ranked`: every task but the head has an owner, and there is a rank of the tasks
    that grows from owner to child. Ownership (whose vector holds a task) stands in
    for the parent pointers, which mislead after the first growth or erase.
  - `Held`: each call of `remove` is on a child of the next one's task. Only the
    innermost can be past its erase.

  The code moves tasks about in memory; the proof does not follow slots but maps.
  `EraseMoves` and `AddChildJoins` each give a map `m` from the tasks that stay to
  their new places which keeps ids, fields and ownership. A rank is carried along
  it, and a load ranks the tasks it adds above their owner. An erase then moves or
  destroys only tasks ranked above the owner, and the calls further out are on tasks
  ranked no higher than it (`EraseTakesChild`).

- `MemoryStaysATree == Spec => []MemoryTree(heap)`, astray or not. `MemoryTree` is
  `Storage`, some `Ranked`, and `Vacant`: a slot without a live task has no children.
  It says nothing of pointers or the table, so what misleads cannot
  break it: a remove that goes astray erases a whole subtree somewhere, or nothing.
  `TreeInv` joins it to `LoadInv`, which an erase needs for types and a load for
  filling empty vectors only. So in no state does a walk by `get_child` run in a
  circle, or a destructor meet a task twice.

`TaskTreeMirror`:

- `MemoryIsTheTable`, `IdsStayUnique`, `ParentsStayOlder` and `NeverAdopts` state the
  properties of run `tree` for every instance. None of them is inductive, and they do
  not hold one without the others: `MirrorInv` is the invariant behind all four. To
  `HeldInv` it adds `Older` (a row's parent has a smaller id, so a new id is no
  orphan's parent) and `Mirrors`:
  - `Distinct`: ids in memory are unique, so an erase takes the task it means.
  - `ErasesOnce`: the reference of a call past its erase is left behind by its loop.
  - `InTable`, `InMemory`: each task has its row with the same parent, name and mark,
    but the one whose row `remove` just deleted; each row below a task is a child of
    it, once a load has read that task's children (`Ahead` says what a load has not
    read yet).

  There is one lemma per action (`RemoveRowMirrors`, `RemoveEraseMirrors`,
  `LoadSelectMirrors`, ...). Only that of `AddChild` needs `Older`: every other step
  keeps `Mirrors` whatever the parent column says (`StepMirrors`).

- `TheTreeIsKept == StraightSpec => KeepsTheTree`, the refinement of SavedTasks.
  `StraightSpec` is `Spec` without the steps that go astray, as in run `tree`: after
  one of these a task without a row may stay in memory (`tree_removed_from_both`), and
  rows added below it come back under whatever task gets its id, so `Spec` does not
  implement SavedTasks. Under the refinement mapping an INSERT is `Add`, a DELETE of a
  row that is reached is `Drop` and of one that is not is a stutter, an UPDATE is
  `Rename` or `Mark`, and all else is a stutter. It rests on `TasksAreSaved` (each task
  in memory has a row that a load reaches, by the owners' chain to the head: the task
  of least rank that had none would have an owner that has one) and on what each
  statement does to `Under` (`UnderInsert`, `UnderDelete`, `UnderSame`).

`BackendProofs`, from `BackendInv`, which adds the window to `MirrorInv`:

- `CurrentStays`, `ListIsTheTasks`, `ListIsTheTable`, `PassesLiveReferences` and
  `BackendTypeCorrect`: the safety properties of run `window`. At the centre is
  `Shows`: the task shown is alive where the window's pointer says and what the
  window holds of it is what memory holds, also inside a remove. The window removes
  only children of the task it shows (`DeletesAChild`), and an erase below a task
  moves nothing ranked as low as that task, so it stays.
  `PassesLiveReferences` then is the step-by-step fact that every step of the window
  is one of TaskTree's that a well-behaved caller may make. `CurrentStaysPut` and
  `ListMirrorsTasks` hold up to the first step astray, as they are stated.

`CliProofs`:

- `ProgramsUseTheTree == CliSpec => Spec`: what a command passes to the TaskTree is a
  live task (`GetByIdFacts`), and a session of another program is TaskTree's own
  `Next`. So every theorem about `Spec` is one about the command line program.
- `CliTypeCorrect`, from the types of TaskTree and of the stack of `list_tasks`: each
  call holds an address of the memory, and a program is up just during a session.
- `CommandsReachTheRow == CliSpec => CommandsFindTheRow`. `ChildByIdFacts` says that
  the loop of `get_child_by_id` finds a child with the id if there is one; by
  `MirrorInv` the children of the head are the top level rows (`TopLevelRows`), each
  once and with the row's mark.
- `OnlyChainsAreListed == CliSpec => ListEndsOnChains`, astray or not. `ListInv` says
  what `iteration` knows: unless the next line throws, the tasks visited are the
  first children `p[1] .. p[n]` from the head on (`FirstsFrom`), the active calls are
  on the first of them (`OnPath`), and `iteration` counts those that are through,
  each of which had no other child (`ChainFrom`). If a call finds a second child after
  the counter went down, the line of that child has a negative indentation. When the
  outermost call returns, `p` is a chain closed under children; as the memory is a
  tree (`MemoryStaysATree`), the task of least rank not on it would have an owner that
  is, so it is all there is (`ChainIsAll`), and its length is the number of tasks.

`TaskOrderProofs`, from `ListInv` (types and order, inductive together):

- `ListIsOrdered`, `OthersStayInOrder` and `ListTypeCorrect`: the properties of run
  `list_order`. A sort is a permutation of places (`ShuffleRearranges`: an injection of
  a finite set into itself misses nothing, so no child is lost or shown twice).
  `FirstCompletedFacts` says where the hand-written search ends, by the least place
  it may end at. `LoadTasksOrders` goes through the three sorts: the first leaves only
  completed models from the border on, and each of the others stays on its side.
  `OthersStayInOrder` then needs no step: in any list so ordered, two models of
  different seconds have their places by their data alone (`PlacesFollowData`).

`SharedTableProofs`:

- `SharedTypeCorrect` and `SharedLoadsPointRight`, the two theorems above with other
  programs on the file: `LoadInv` speaks of memory and the stack only, so a step of
  `Elsewhere`, which changes `rows` alone, keeps it, and all other steps are those
  of TaskTree.
- `SharedCallsKeepTheirTasks == SharedSpec => []CallsHoldLiveTasks`: `HeldInv` speaks
  of memory and the stack only as well.
- `SharedLoadsWhatIsThere == SharedSpec => []LoadsWhatIsThere`. `MirrorInv` does not
  apply: a row need not be younger than its parent here. `QuietInv` is `HeldInv` and
  `Mirrors` while the tree is undisturbed. It starts with a load, whatever the table
  holds by then, and by `StepMirrors` only two things can end it: a write of another
  program and a task added, whose new id may be the parent that other programs gave
  some row, and both end `undisturbed`.
- `OthersSeeStatements`: every step of a TaskTree, well behaved or astray, leaves
  `rows` as it was or changes it by one statement (`AfterWrite`). So any number of
  TaskTrees on one file are each a SharedTable.

`TwoTreesProofs`:

- `EachSharesTheFile == Spec => EachIsShared`: two TaskTrees that step in any order
  each implement SharedTable. A step of one is, for the other, `Elsewhere` or a
  stutter (`FirstIsElsewhere`, `SecondIsElsewhere`), by the lemma behind
  `OthersSeeStatements`; it needs that the types of both stay right (`Types`).
- `NoCallIsHarmed == Spec => []CallsUnharmed` then is `SharedCallsKeepTheirTasks`,
  once for each. `TwoTrees` instantiates SharedTable by way of `SharedTableProofs`
  so that the theorem can be cited of either program; that adds no behaviour.

`StatementsProofs`, from one inductive invariant `Inv`:

- `Snapshot`: a scan under way has exactly those children up to its last id that
  the table has now, as the table has them now; it holds because its lock excludes
  commits. `Waits`: every statement but the innermost was stepped to its end or to
  an error, and its call has gone on below. `Kept` is the two for a whole stack.
  `ErrorSeen`: in a program whose SELECT failed, some call on the stack has the
  error; a row without columns takes no part in it, as the stack unwinds there.
- `SelectsAreAtomic == Spec => StatementsAreAtomic`: `ScanDone` maps to `Ask`, by
  `Snapshot`; the other steps to `Forget`, `Commit` or a stutter.
- `WaitingHoldsNoLock` from `Waits`, `OpensWhole` from `ErrorSeen`, and
  `StatementsTypeCorrect`.

Every safety property, action property and refinement that a passing run checks is a
theorem. Only model-checked is liveness (`CallsReturn`, `HandlersEnd`, `ListEnds`,
`QuietLoadEnds`, `LocksAreReleased`), which needs fairness and ENABLED, outside the
prover. The findings are counterexamples. What is proved about the command line
program takes one assumption more than the rest, `NullAssumption`: no task is at the
null pointer.

## Not modelled

- `TaskTree::print`, which only writes; `Task::remove_child`, which nothing calls.
- The SQLite library apart from row ids, scan order and the two locks; the
  wrappers' binding and column checks, which always pass for the fixed statements.
- Layout, text fields and drawing of QML; the path of the file; the build.
- What a process does after writing through a dead reference.
- What a stale copy should mean: a program that renames, marks or removes a task
  another program has changed acts on its own copy. `SharedTable` has it happen,
  but the code promises nothing about it, so there is no property to state.

## Plan

1. (done) TaskTable, TaskHeap, TaskTree, Backend; type correctness and the
   pointers of a load proved.
2. (done) `SavedTasks`, `TaskOrder`, `Cli`, `SharedTable`, `TwoTrees`, `AtomicTable`
   and `Statements`, with the proofs of the last and of sharing.
3. (done) The invariants of TaskTree and Backend, and that TaskTree implements
   SavedTasks, proved.
4. (done) `CallsHoldLiveTasks` and `LoadsWhatIsThere` with other programs on the
   file, and both for two TaskTrees, proved.
5. (done) The order of `TaskOrder`, proved.
6. (done) The command line program: that it is a caller of TaskTree, what its commands
   find, and on which trees a list ends, proved; the memory a tree in every state.

What could follow: the window and the command line program open at the same time as
two trees of `TwoTrees`, with the handlers of one between the statements of the other,
once the code says what a stale copy should mean.
