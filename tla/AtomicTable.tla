---------------------------- MODULE AtomicTable -----------------------------
(***************************************************************************)
(* The tasks table as TaskTree (src/tasktree/tasktree.cpp) takes it to be: *)
(* any program's statement is one step, a SELECT of the children of a task *)
(* as well as a write, and a SELECT answers with the rows of one moment.   *)
(***************************************************************************)
EXTENDS TaskTable

CONSTANT Conns  \* the programs that have the file open

VARIABLES
  rows,    \* the table
  answer   \* the answer each program has just had, {} when it has none

\* The answer to SELECT * FROM tasks WHERE parent = ?.
ChildrenOf(t, parent) ==
  [parent |-> parent, children |-> [i \in ChildRows(t, parent) |-> t[i]]]

Init ==
  /\ rows = EmptyTable
  /\ answer = [c \in Conns |-> {}]

Ask(c, parent) ==
  /\ answer' = [answer EXCEPT ![c] = {ChildrenOf(rows, parent)}]
  /\ UNCHANGED rows

Forget(c) ==
  /\ answer' = [answer EXCEPT ![c] = {}]
  /\ UNCHANGED rows

Commit ==
  /\ rows' \in AfterWrite(rows)
  /\ UNCHANGED answer

Next ==
  \/ \E c \in Conns, parent \in RowIds \cup {0} : Ask(c, parent)
  \/ \E c \in Conns : Forget(c)
  \/ Commit

Spec == Init /\ [][Next]_<<rows, answer>>
=============================================================================
