----------------------------- MODULE TaskTable ------------------------------
(***************************************************************************)
(* The tasks table of tasktree.db as src/tasktree/tasktree.cpp uses it     *)
(* through SQLite: a partial function from row id to row.  A statement     *)
(* commits by itself (the code opens no transaction) and does nothing when *)
(* it fails, so each operator below is one committed statement.            *)
(* creation_time is written once and only orders the displayed list; it is *)
(* left out here.                                                          *)
(***************************************************************************)
EXTENDS Integers, FiniteSets

CONSTANTS
  Names,   \* the names a task can have, the empty one among them
  MaxId    \* bound: the largest id SQLite hands out

ASSUME MaxIdAssumption == MaxId \in Nat \ {0}
ASSUME NamesAssumption == "" \in Names

RowIds == 1 .. MaxId

Row == [parent : RowIds \cup {0}, name : Names, completed : BOOLEAN]

\* A table is a function from some of RowIds to Row.
IsTable(t) == DOMAIN t \subseteq RowIds /\ t \in [DOMAIN t -> Row]

EmptyTable == [i \in {} |-> [parent |-> 0, name |-> "", completed |-> FALSE]]

\* Mutant of IsNewRowid: the gaps that deleted rows leave are filled.
IsLowestFreeRowid(t, id) == id \in RowIds \ DOMAIN t /\ 1 .. id - 1 \subseteq DOMAIN t

\* The id an INSERT that names none gets: the largest in the table plus one,
\* 1 in an empty table.  The ids of deleted rows at the end are used again.
IsNewRowid(t, id) ==
  /\ id \in RowIds
  /\ id - 1 \in DOMAIN t \cup {0}
  /\ \A i \in DOMAIN t : i < id

Insert(t, id, parent, name) ==
  [i \in DOMAIN t \cup {id} |->
     IF i = id THEN [parent |-> parent, name |-> name, completed |-> FALSE]
     ELSE t[i]]

\* Mutant of UpdateName: without the WHERE.
UpdateEveryName(t, id, name) == [i \in DOMAIN t |-> [t[i] EXCEPT !.name = name]]

\* DELETE and UPDATE of an id that is not there succeed and change nothing.
Delete(t, id) == [i \in DOMAIN t \ {id} |-> t[i]]

UpdateName(t, id, name) ==
  [i \in DOMAIN t |-> IF i = id THEN [t[i] EXCEPT !.name = name] ELSE t[i]]

UpdateCompleted(t, id, completed) ==
  [i \in DOMAIN t |->
     IF i = id THEN [t[i] EXCEPT !.completed = completed] ELSE t[i]]

\* The tables one statement that writes can make of t: an INSERT, a DELETE, or
\* an UPDATE of a name or of a check mark, each for any id.
AfterWrite(t) ==
  {Insert(t, id, parent, name) :
     id \in {i \in RowIds : IsNewRowid(t, i)}, parent \in RowIds \cup {0}, name \in Names}
  \cup {Delete(t, id) : id \in RowIds}
  \cup {UpdateName(t, id, name) : id \in RowIds, name \in Names}
  \cup {UpdateCompleted(t, id, completed) : id \in RowIds, completed \in BOOLEAN}

ChildRows(t, parent) == {i \in DOMAIN t : t[i].parent = parent}

\* The ids at any depth below this one, the least set with the children of this
\* one and of its own members: what load_child_tasks reads when nothing else
\* writes.
Under(t, id) ==
  LET Closed == {S \in SUBSET DOMAIN t :
                   ChildRows(t, id) \subseteq S /\ \A j \in S : ChildRows(t, j) \subseteq S}
  IN  {x \in DOMAIN t : \A S \in Closed : x \in S}

\* The part of a table that load_child_tasks reaches from the head.
Loaded(t) == [i \in Under(t, 0) |-> t[i]]

\* The order a table scan returns the rows with these ids in: by id.
ScanOrders(ids) ==
  {f \in [0 .. Cardinality(ids) - 1 -> ids] :
     \A j, k \in DOMAIN f : j < k => f[j] < f[k]}
=============================================================================
