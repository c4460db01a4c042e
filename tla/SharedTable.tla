----------------------------- MODULE SharedTable ------------------------------
(***************************************************************************)
(* A TaskTree on a file that other programs have open too: the window and  *)
(* the command line program find it by the same getDbPath                  *)
(* (src/util.cpp), and nothing keeps a second one out.  Between any two    *)
(* statements of one the others' statements commit; no TaskTree reads a    *)
(* row again once it is loaded.  Elsewhere is what the others can do to    *)
(* the table, whatever they believe it holds: a task that another program  *)
(* removed can still be renamed, marked, removed, or given children.       *)
(***************************************************************************)
EXTENDS TaskTree

VARIABLE
  undisturbed  \* history: since this TaskTree was constructed no other program
               \* has changed the table, and no task was added

sharedVars == <<vars, undisturbed>>

SharedInit == Init /\ undisturbed = FALSE

SharedStart == Start /\ undisturbed' = TRUE

\* A call of this TaskTree goes on, or another one is made.
OwnStep ==
  /\ Stop \/ Step \/ Request
  /\ undisturbed' = (undisturbed /\ DOMAIN rows' \subseteq DOMAIN rows)

\* A statement of another program commits.
Elsewhere ==
  /\ rows' \in AfterWrite(rows)
  /\ undisturbed' = (undisturbed /\ rows' = rows)
  /\ UNCHANGED <<running, heap, calls, astray>>

SharedNext == SharedStart \/ OwnStep \/ Elsewhere
SharedSpec == SharedInit /\ [][SharedNext]_sharedVars

-----------------------------------------------------------------------------
\* A load that is left alone shows what the table holds, and so it stays until
\* a task is added: whatever programs that did not know of each other have made
\* of the parent column, tasks that are their own ancestors included.
LoadsWhatIsThere == undisturbed => MemoryMirrorsTable

\* A load that is left alone ends: what hangs below the head is a tree whatever
\* the parent column says, as a row has one parent and no row has the head's id.
QuietLoadEnds == Loading /\ undisturbed ~> ~Loading \/ ~undisturbed
=============================================================================
