-------------------------------- MODULE Cli ---------------------------------
(***************************************************************************)
(* The command line program (src/cli.cpp) on a TaskTree of its own, and    *)
(* between its sessions any other program that uses TaskTree, the window   *)
(* for one.  A command is a line: new, delete, complete or list, with what *)
(* follows the first blank as its argument (the word itself when there is  *)
(* no blank).  Ids are found among the head's children only.  list walks   *)
(* the tree with a static counter for the indentation.  Nothing is caught: *)
(* an exception, and the use of the null get_by_id returns, end the        *)
(* program.                                                                *)
(***************************************************************************)
EXTENDS TaskTree

\* What get_by_id returns for "not found" is no task.
ASSUME NullAssumption == Nil \notin Addr

VARIABLES
  session,    \* the program that has the TaskTree: "cli", another, or none
  iteration,  \* list_tasks's static counter
  listing     \* the active calls of list_tasks, innermost first

cliVars == <<session, iteration, listing>>
allVars == <<vars, cliVars>>

\* A call of list_tasks: its task, whether its line is written, its index.
ListFrame == [task : Addr, written : BOOLEAN, i : Nat]
List(a) == [task |-> a, written |-> FALSE, i |-> 0]

CliInit ==
  /\ Init
  /\ session = "none"
  /\ iteration = 0
  /\ listing = <<>>

\* The program starts: its static counter is 0.
Run(program) ==
  /\ Start
  /\ session' = program
  /\ iteration' = 0
  /\ listing' = <<>>

\* It ends: after the last line of input, by an exception (of stoi, when the
\* argument is no number), by a fault (of the use of null).
End ==
  /\ Stop
  /\ session' = "none"
  /\ iteration' = 0
  /\ listing' = <<>>

\* The TaskTree goes on with what it was asked for. Neither program goes on after
\* an exception, so a throw out of remove, wherever it is, is End.
InLibrary == Proceed /\ UNCHANGED cliVars

\* The prompt: getline waits for a command.
Prompt == session = "cli" /\ Idle /\ listing = <<>>

-----------------------------------------------------------------------------
\* Task::get_child_by_id, the address of the first child with this id or Nil.
get_child_by_id(h, a, id) ==
  LET found == {i \in 0 .. get_child_count(h, a) - 1 : h.at[get_child(h, a, i)].id = id}
  IN  IF found = {} THEN Nil
      ELSE get_child(h, a, CHOOSE i \in found : \A j \in found : i <= j)

\* TaskTree::get_by_id.
get_by_id(id) == get_child_by_id(heap, head, id)

\* Mutant of new: the new task goes below the first top level task.
newBelowFirst(name) ==
  /\ Prompt
  /\ AddChild(IF get_child_count(heap, head) = 0 THEN head ELSE get_child(heap, head, 0), name)
  /\ UNCHANGED cliVars

new(name) ==
  /\ Prompt
  /\ AddChild(head, name)
  /\ UNCHANGED cliVars

delete(id) ==
  /\ Prompt
  /\ \/ get_by_id(id) = Nil /\ End
     \/ get_by_id(id) # Nil /\ Remove(get_by_id(id)) /\ UNCHANGED cliVars

complete(id) ==
  /\ Prompt
  /\ \/ get_by_id(id) = Nil /\ End
     \/ get_by_id(id) # Nil /\ ToggleTaskCompleted(get_by_id(id)) /\ UNCHANGED cliVars

-----------------------------------------------------------------------------
list ==
  /\ Prompt
  /\ listing' = <<List(head)>>
  /\ UNCHANGED <<vars, session, iteration>>

ToNext(s) == [s EXCEPT ![1].i = s[1].i + 1]

\* list_tasks writes its line, indented by four times iteration.
ListLine ==
  /\ listing # <<>>
  /\ ~listing[1].written
  /\ iteration >= 0
  /\ listing' = [listing EXCEPT ![1].written = TRUE]
  /\ UNCHANGED <<vars, session, iteration>>

\* Mutant of ListThrows: the exception is caught, and the line tried again.
ListThrowsRetried ==
  /\ listing # <<>>
  /\ ~listing[1].written
  /\ iteration < 0
  /\ UNCHANGED allVars

\* string(iteration * 4, ' ') with a negative number asks for more than a
\* string can hold: it throws, and the program ends.
ListThrows ==
  /\ listing # <<>>
  /\ ~listing[1].written
  /\ iteration < 0
  /\ End

ListDescend ==
  /\ listing # <<>>
  /\ listing[1].written
  /\ listing[1].i < get_child_count(heap, listing[1].task)
  /\ listing' = <<List(get_child(heap, listing[1].task, listing[1].i))>> \o listing
  /\ UNCHANGED <<vars, session, iteration>>

\* Mutant of ListReturn: the counter is put back by the call that raised it.
ListReturnBalanced ==
  /\ listing # <<>>
  /\ listing[1].written
  /\ listing[1].i >= get_child_count(heap, listing[1].task)
  /\ listing' = IF Len(listing) = 1 THEN <<>> ELSE ToNext(Tail(listing))
  /\ UNCHANGED <<vars, session, iteration>>

ListReturn ==
  /\ listing # <<>>
  /\ listing[1].written
  /\ listing[1].i >= get_child_count(heap, listing[1].task)
  /\ iteration' = iteration - 1
  /\ listing' = IF Len(listing) = 1 THEN <<>> ELSE ToNext(Tail(listing))
  /\ UNCHANGED <<vars, session>>

-----------------------------------------------------------------------------
Command ==
  \/ \E name \in Names : new(name)
  \/ \E id \in RowIds : delete(id) \/ complete(id)
  \/ list

ListStep == ListLine \/ ListThrows \/ ListDescend \/ ListReturn

Here == Run("cli") \/ End \/ InLibrary \/ Command \/ ListStep

\* Another program, with every task in its reach.
Elsewhere ==
  \/ Run("other")
  \/ session = "other" /\ Request /\ UNCHANGED cliVars

CliSpec == CliInit /\ [][Here \/ Elsewhere]_allVars
FairCliSpec == CliSpec /\ WF_allVars(InLibrary \/ ListStep)

-----------------------------------------------------------------------------
\* Every variable of the program has its type.
CliTypeOK ==
  /\ TypeOK
  /\ session \in {"none", "cli", "other"}
  /\ iteration \in Int
  /\ listing \in Seq(ListFrame)
  /\ session = "none" <=> ~running

\* As long as no misleading pointer was followed, complete and delete find just
\* the top level rows of the table, and complete turns the mark the row has
\* there, whichever program set it, whatever was removed in between; for any
\* other id the program ends.
CommandsFindTheRow ==
  [][~astray => \A id \in RowIds :
       /\ delete(id) \/ complete(id) => (running' <=> id \in ChildRows(rows, 0))
       /\ complete(id) /\ running' =>
            rows' = UpdateCompleted(rows, id, ~rows[id].completed)]_allVars

\* A list that is written to its end was the first of its session, and of a tree
\* in which no task has two children: the counter only ever goes down, once for
\* every line, and the next line after that cannot be written.
ListEndsOnChains ==
  [][ListReturn /\ Len(listing) = 1 =>
       /\ iteration' = -Cardinality(LiveAddrs(heap))
       /\ \A a \in LiveAddrs(heap) : get_child_count(heap, a) <= 1]_allVars

\* A list that was begun ends, if only with the program.
ListEnds == listing # <<>> ~> listing = <<>>
=============================================================================
