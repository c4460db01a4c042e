----------------------------- MODULE Statements -----------------------------
(***************************************************************************)
(* Below TaskTree: the wrappers UniqueSqlite and UniqueSqliteStmt          *)
(* (src/database/unique-sqlite.cpp) as the constructor and                 *)
(* load_child_tasks use them, one sqlite3_step per step, several programs  *)
(* on one file.  Every active call of load_child_tasks has a statement     *)
(* object of its own that lives as long as the call.  SQLite, with a       *)
(* rollback journal and no busy timeout as the code leaves it, has a       *)
(* statement hold the file's shared lock from the step that gives its      *)
(* first row to the step that gives no more; a write that meets another    *)
(* program's shared lock fails and changes nothing.                        *)
(***************************************************************************)
EXTENDS TaskTable, Sequences

CONSTANTS
  Conns,    \* the programs that have the file open
  MaxDepth  \* bound: the active calls of load_child_tasks

VARIABLES
  rows,     \* the tasks table
  phase,    \* of each program's TaskTree: closed, tabled, loading or open
  columns,  \* whether PRAGMA table_info told it the columns
  stmts,    \* its statements, that of the innermost call first
  whole     \* history: since its TaskTree was opened no SELECT failed, and each
            \* row taken was read with the columns known

vars == <<rows, phase, columns, stmts, whole>>

\* The tables, as a set.
Tables == UNION {[S -> Row] : S \in SUBSET RowIds}

(***************************************************************************)
(* A statement of load_child_tasks: its parameter, whether it was not yet  *)
(* stepped, gave a row, gave no more or failed, the id of its last row,    *)
(* the rows it gave, which the call made tasks of, and those among them    *)
(* the call has not descended into.                                        *)
(***************************************************************************)
Stmt == [parent : RowIds \cup {0},
         rc     : {"ready", "row", "done", "error"},
         last   : RowIds \cup {0},
         got    : Tables,
         left   : SUBSET RowIds]

\* A UniqueSqliteStmt on the SELECT, its parameter bound.
Select(parent) ==
  [parent |-> parent, rc |-> "ready", last |-> 0, got |-> EmptyTable, left |-> {}]

Holds(s) == s.rc = "row"

\* Some statement of program c holds the shared lock.
Scanning(c) == \E j \in DOMAIN stmts[c] : Holds(stmts[c][j])

Top(c) == stmts[c][1]
SetTop(c, s) == stmts' = [stmts EXCEPT ![c] = [stmts[c] EXCEPT ![1] = s]]

Init ==
  /\ rows = EmptyTable
  /\ phase = [c \in Conns |-> "closed"]
  /\ columns = [c \in Conns |-> FALSE]
  /\ stmts = [c \in Conns |-> <<>>]
  /\ whole = [c \in Conns |-> FALSE]

-----------------------------------------------------------------------------
\* UniqueSqlite::UniqueSqlite and the CREATE TABLE IF NOT EXISTS; when either
\* fails it throws and there is no TaskTree.
Open(c) ==
  /\ phase[c] = "closed"
  /\ phase' = [phase EXCEPT ![c] = "tabled"]
  /\ whole' = [whole EXCEPT ![c] = TRUE]
  /\ UNCHANGED <<rows, columns, stmts>>

\* The PRAGMA is stepped until it gives no row, for whatever reason.
LoadColumns(c) ==
  /\ phase[c] = "tabled"
  /\ phase' = [phase EXCEPT ![c] = "loading"]
  /\ \E told \in BOOLEAN : columns' = [columns EXCEPT ![c] = told]
  /\ stmts' = [stmts EXCEPT ![c] = <<Select(0)>>]
  /\ UNCHANGED <<rows, whole>>

\* Mutant of Unwind: the statements are not finalized.
UnwindUnfinalized(c) ==
  /\ phase' = [phase EXCEPT ![c] = "closed"]
  /\ columns' = [columns EXCEPT ![c] = FALSE]
  /\ whole' = [whole EXCEPT ![c] = FALSE]
  /\ UNCHANGED <<rows, stmts>>

\* Every statement is finalized, by its destructor or with the process, and the
\* connection is closed.
Unwind(c) ==
  /\ phase' = [phase EXCEPT ![c] = "closed"]
  /\ columns' = [columns EXCEPT ![c] = FALSE]
  /\ stmts' = [stmts EXCEPT ![c] = <<>>]
  /\ whole' = [whole EXCEPT ![c] = FALSE]
  /\ UNCHANGED rows

\* The TaskTree is destroyed or the program ends, in a call or between calls.
Close(c) == phase[c] # "closed" /\ Unwind(c)

-----------------------------------------------------------------------------
Stepping(c) == stmts[c] # <<>> /\ Top(c).rc \in {"ready", "row"}

\* Mutant of Ahead: the cursor goes round.
AheadOrBehind(s) == {id \in ChildRows(rows, s.parent) : id # s.last}

\* The rows the scan has yet to come to, in the table as it is now.
Ahead(s) == {id \in ChildRows(rows, s.parent) : id > s.last}

\* A statement after the row id, of which a task is made.
Taken(s, id) ==
  [s EXCEPT
     !.rc = "row",
     !.last = id,
     !.got = [i \in DOMAIN s.got \cup {id} |-> IF i = id THEN rows[id] ELSE s.got[i]],
     !.left = s.left \cup {id}]

\* Mutant of ScanRow: a name that is not in column_ids gives column 0.
ScanRowUnchecked(c) ==
  /\ Stepping(c)
  /\ \E id \in Ahead(Top(c)) :
       /\ \A other \in Ahead(Top(c)) : id <= other
       /\ SetTop(c, Taken(Top(c), id))
  /\ whole' = [whole EXCEPT ![c] = whole[c] /\ columns[c]]
  /\ UNCHANGED <<rows, phase, columns>>

\* sqlite3_step gives the next row.
ScanRow(c) ==
  /\ Stepping(c)
  /\ columns[c]
  /\ \E id \in Ahead(Top(c)) :
       /\ \A other \in Ahead(Top(c)) : id <= other
       /\ SetTop(c, Taken(Top(c), id))
  /\ whole' = [whole EXCEPT ![c] = whole[c] /\ columns[c]]
  /\ UNCHANGED <<rows, phase, columns>>

\* It gives a row, and column_ids.at throws.
ScanNoColumns(c) ==
  /\ Stepping(c)
  /\ ~columns[c]
  /\ Ahead(Top(c)) # {}
  /\ Unwind(c)

ScanDone(c) ==
  /\ Stepping(c)
  /\ Ahead(Top(c)) = {}
  /\ SetTop(c, [Top(c) EXCEPT !.rc = "done"])
  /\ UNCHANGED <<rows, phase, columns, whole>>

\* The file is locked by a write that commits, or cannot be read.
ScanFails(c) ==
  /\ Stepping(c)
  /\ SetTop(c, [Top(c) EXCEPT !.rc = "error"])
  /\ whole' = [whole EXCEPT ![c] = FALSE]
  /\ UNCHANGED <<rows, phase, columns>>

-----------------------------------------------------------------------------
\* Mutant of Descending: each task is descended into as it is read.
DescendingAsRead(c) == stmts[c] # <<>> /\ Top(c).rc \in {"row", "done", "error"}

\* The second loop of load_child_tasks, which runs after an error too.
Descending(c) == stmts[c] # <<>> /\ Top(c).rc \in {"done", "error"}

\* The statements of a program whose innermost call descends into the task id.
Passed(q, id) == [q EXCEPT ![1] = [q[1] EXCEPT !.left = q[1].left \ {id}]]

Descend(c) ==
  /\ Descending(c)
  /\ Len(stmts[c]) < MaxDepth
  /\ \E id \in Top(c).left :
       /\ \A other \in Top(c).left : id <= other
       /\ stmts' = [stmts EXCEPT ![c] = <<Select(id)>> \o Passed(stmts[c], id)]
  /\ UNCHANGED <<rows, phase, columns, whole>>

\* Mutant of Returning: the rows read before an error are taken for all.
ReturningAnyway(c) == Descending(c) /\ Top(c).left = {}

Returning(c) == Descending(c) /\ Top(c).left = {} /\ Top(c).rc = "done"

\* load_child_tasks returns; the outermost one's return ends the constructor.
LoadReturns(c) ==
  /\ Returning(c)
  /\ stmts' = [stmts EXCEPT ![c] = Tail(stmts[c])]
  /\ phase' = [phase EXCEPT ![c] = IF Len(stmts[c]) = 1 THEN "open" ELSE "loading"]
  /\ UNCHANGED <<rows, columns, whole>>

\* It throws, out of every call above it and out of the constructor.
LoadThrows(c) ==
  /\ Descending(c)
  /\ Top(c).left = {}
  /\ Top(c).rc = "error"
  /\ Unwind(c)

-----------------------------------------------------------------------------
\* Mutant of MayCommit: readers do not keep a write from its commit.
MayCommitAlways(c) == TRUE

\* The exclusive lock a commit needs: no other program holds the shared one.
MayCommit(c) == \A d \in Conns \ {c} : ~Scanning(d)

\* A statement of add_child, remove, set_task_name or toggle_task_completed.
Write(c) ==
  /\ phase[c] = "open"
  /\ MayCommit(c)
  /\ rows' \in AfterWrite(rows)
  /\ UNCHANGED <<phase, columns, stmts, whole>>

Load(c) ==
  \/ ScanRow(c)
  \/ ScanNoColumns(c)
  \/ ScanDone(c)
  \/ ScanFails(c)
  \/ Descend(c)
  \/ LoadReturns(c)
  \/ LoadThrows(c)

Next ==
  \E c \in Conns : Open(c) \/ LoadColumns(c) \/ Load(c) \/ Close(c) \/ Write(c)

Spec == Init /\ [][Next]_vars

\* A load runs on its caller's thread and waits for nothing.
FairSpec == Spec /\ \A c \in Conns : WF_vars(Load(c))

-----------------------------------------------------------------------------
\* The answer to the SELECT of the innermost call, from the step that gives no
\* more rows until the call goes on to the tasks it made of them.
AnswerOf(q) ==
  IF q # <<>> /\ q[1].rc = "done" /\ q[1].left = DOMAIN q[1].got
  THEN {[parent |-> q[1].parent, children |-> q[1].got]}
  ELSE {}

answers == [c \in Conns |-> AnswerOf(stmts[c])]

Table == INSTANCE AtomicTable WITH answer <- answers

\* Every variable has its type.
StatementsTypeOK ==
  /\ IsTable(rows)
  /\ phase \in [Conns -> {"closed", "tabled", "loading", "open"}]
  /\ columns \in [Conns -> BOOLEAN]
  /\ stmts \in [Conns -> Seq(Stmt)]
  /\ whole \in [Conns -> BOOLEAN]
  /\ \A c \in Conns : (stmts[c] # <<>>) = (phase[c] = "loading")

\* Though it is stepped row by row, with other programs' statements in between,
\* each SELECT is one step on the table: it gives the rows of one moment.  So a
\* TaskTree that takes LoadSelect as one step is right to.
StatementsAreAtomic == Table!Spec

\* A call of load_child_tasks that waits for a call below it keeps no other
\* program from writing, however deep the tree: the lock is held for one SELECT
\* at a time.
WaitingHoldsNothing ==
  \A c \in Conns : \A j \in 2 .. Len(stmts[c]) : ~Holds(stmts[c][j])

\* The load goes on below the tasks it got before a SELECT failed, and it begins
\* although the PRAGMA failed, but a constructor that returns lost no row to an
\* error and made no task of columns it did not know.
OpenedWhole == \A c \in Conns : phase[c] = "open" => whole[c]

\* The file is not kept from being written for ever: a scan that holds the
\* shared lock comes to its end.
LocksAreReleased == \A c \in Conns : Scanning(c) ~> ~Scanning(c)
=============================================================================
