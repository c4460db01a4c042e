------------------------------ MODULE Backend -------------------------------
(***************************************************************************)
(* The window's Backend (src/backend.cpp, reached from src/ui/Main.qml) on *)
(* a TaskTree of its own.  It shows the children of one task, the current  *)
(* one, as a list of TaskModel objects, each a copy of a task's fields     *)
(* with a pointer to it.  A signal handler runs to its end on the one GUI  *)
(* thread; the handlers that wait for calls of TaskTree are job "open" and *)
(* "delete".  An exception ends the process (src/main.cpp), so             *)
(* RemoveThrows becomes Close.  The order of the list is not modelled here.*)
(***************************************************************************)
EXTENDS TaskTree

VARIABLES
  current,  \* m_current
  tasks,    \* m_tasks
  job       \* the handler that waits for a call of TaskTree: "open", "delete"

backendVars == <<current, tasks, job>>
allVars == <<vars, backendVars>>

Model == [ref : Addr, id : RowIds \cup {0}, name : Names, completed : BOOLEAN]

TaskModel(h, a) == [ref |-> a, id |-> h.at[a].id, name |-> h.at[a].name,
                    completed |-> h.at[a].completed]

\* Backend::loadTasks: one TaskModel for every child of the current task.
loadTasks(h, cur) == {TaskModel(h, c) : c \in ChildAddrs(h, cur.ref)}

Ready == Idle /\ job = "none"

BackendInit ==
  /\ Init
  /\ current = TaskModel(EmptyHeap, head)
  /\ tasks = {}
  /\ job = "none"

-----------------------------------------------------------------------------
\* main and Backend::Backend: the tree is loaded, then the head's list.
Open ==
  /\ Start
  /\ job' = "open"
  /\ current' = TaskModel(EmptyHeap, head)
  /\ tasks' = {}

Opened ==
  /\ Idle /\ job = "open"
  /\ tasks' = loadTasks(heap, current)
  /\ job' = "none"
  /\ UNCHANGED <<vars, current>>

Reset ==
  /\ job' = "none"
  /\ current' = TaskModel(EmptyHeap, head)
  /\ tasks' = {}

\* The window is closed, or the process dies: killed, by a fault, or by an
\* exception of any handler.
Close ==
  /\ Stop
  /\ Reset

InLibrary == Proceed /\ UNCHANGED backendVars

\* Mutant of addTask: a new task goes to the top of the tree, whichever is shown.
addTaskToHead(name) ==
  /\ Ready
  /\ name # ""
  /\ AddChild(head, name)
  /\ tasks' = loadTasks(heap', current)
  /\ UNCHANGED <<current, job>>

addTask(name) ==
  /\ Ready
  /\ name # ""
  /\ Alive(heap, current.ref)
  /\ AddChild(current.ref, name)
  /\ tasks' = loadTasks(heap', current)
  /\ UNCHANGED <<current, job>>

deleteTask(model) ==
  /\ Ready
  /\ Remove(model.ref)
  /\ job' = "delete"
  /\ UNCHANGED <<current, tasks>>

\* Mutant of Deleted: deleteTask does not refresh the list.
DeletedWithoutRefresh ==
  /\ Idle /\ job = "delete"
  /\ job' = "none"
  /\ UNCHANGED <<vars, current, tasks>>

\* The refreshTasks at the end of deleteTask.
Deleted ==
  /\ Idle /\ job = "delete"
  /\ tasks' = loadTasks(heap, current)
  /\ job' = "none"
  /\ UNCHANGED <<vars, current>>

setTaskName(model, name) ==
  /\ Ready
  /\ model.name # name
  /\ SetTaskName(model.ref, name)
  /\ tasks' = (tasks \ {model}) \cup {[model EXCEPT !.name = name]}
  /\ UNCHANGED <<current, job>>

\* Mutant of setTaskCompleted: the list is not refreshed.
setTaskCompletedNoRefresh(model, completed) ==
  /\ Ready
  /\ model.completed # completed
  /\ ToggleTaskCompleted(model.ref)
  /\ UNCHANGED <<current, tasks, job>>

setTaskCompleted(model, completed) ==
  /\ Ready
  /\ model.completed # completed
  /\ ToggleTaskCompleted(model.ref)
  /\ tasks' = loadTasks(heap', current)
  /\ UNCHANGED <<current, job>>

\* A task of the list is tapped: its model is about to be deleted with the
\* list, so the new current one is a copy made from the task.
setCurrent(model) ==
  /\ Ready
  /\ current' = TaskModel(heap, model.ref)
  /\ tasks' = loadTasks(heap, current')
  /\ UNCHANGED <<vars, job>>

\* goBack makes the task at get_parent() current.  Where none lives any more
\* the list is empty, and the id read there is the last task's or anything.
goBack ==
  /\ Ready
  /\ Alive(heap, current.ref) /\ current.id # 0
  /\ LET q == heap.at[current.ref].parent
     IN  /\ q # Nil
         /\ current' \in
              IF Alive(heap, q) THEN {TaskModel(heap, q)}
              ELSE {[ref |-> q, id |-> id, name |-> "", completed |-> FALSE] :
                      id \in RowIds \cup {0}}
  /\ tasks' = loadTasks(heap, current')
  /\ astray' = (astray \/ ~PointsToOwner(heap, current.ref))
  /\ UNCHANGED <<rows, running, heap, calls, job>>

(***************************************************************************)
(* m_current points where no task lives.  goBack ends wherever the parent  *)
(* read there leads.  addTask gives the row whatever id it reads there as  *)
(* parent, and then push_back writes to memory that is no vector: what the *)
(* process would do after that, were it to live on, is not modelled.       *)
(***************************************************************************)
Lost == Ready /\ ~Alive(heap, current.ref)

goBackLost ==
  /\ Lost
  /\ current.id # 0
  /\ \E a \in LiveAddrs(heap) : current' = TaskModel(heap, a)
  /\ tasks' = loadTasks(heap, current')
  /\ UNCHANGED <<vars, job>>

addTaskLost(name) ==
  /\ Lost
  /\ name # ""
  /\ \E id \in RowIds, parent \in RowIds \cup {0} :
       IsNewRowid(rows, id) /\ rows' = Insert(rows, id, parent, name)
  /\ running' = FALSE
  /\ heap' = EmptyHeap
  /\ UNCHANGED <<calls, astray>>
  /\ Reset

BackendNext ==
  \/ Open
  \/ Opened
  \/ Close
  \/ InLibrary
  \/ Deleted
  \/ goBack
  \/ goBackLost
  \/ \E name \in Names : addTask(name) \/ addTaskLost(name)
  \/ \E model \in tasks :
       \/ deleteTask(model)
       \/ setCurrent(model)
       \/ \E name \in Names : setTaskName(model, name)
       \/ \E completed \in BOOLEAN : setTaskCompleted(model, completed)

BackendSpec == BackendInit /\ [][BackendNext]_allVars

\* A handler runs on the GUI thread until it returns.
Handler == InLibrary \/ Opened \/ Deleted

-----------------------------------------------------------------------------
\* Every variable of the window has its type.
BackendTypeOK ==
  /\ TypeOK
  /\ current \in Model
  /\ tasks \subseteq Model
  /\ job \in {"none", "open", "delete"}

\* The task the window shows stays where it is in memory while it is shown:
\* no addTask or deleteTask moves it, so the pointer m_current keeps between
\* handlers (and passes to add_child and loadTasks) stays good.
CurrentStaysPut ==
  running /\ ~astray /\ job # "open" =>
    Alive(heap, current.ref) /\ current = TaskModel(heap, current.ref)

\* Between handlers the list agrees with memory, each TaskModel's copy of
\* the fields with the task it points to (the assertion at the end of
\* setTaskName), and no TaskModel is left over or missing.
ListMirrorsTasks == Ready => tasks = loadTasks(heap, current)

\* Between handlers the list is what the table holds under the id of the task
\* shown, until a misleading parent pointer was followed.
ListMirrorsTable ==
  Ready /\ ~astray =>
    {<<m.id, m.name, m.completed>> : m \in tasks} = RowsUnder(current.id)

\* Until a misleading parent pointer was followed, the window's steps are
\* ones TaskTree allows its callers: every reference it passes is live.
OnlyLiveReferences == Init /\ [][Next \/ astray']_vars

\* A handler ends: the window answers again, or is gone.
HandlersEnd == job # "none" ~> job = "none"

\* "Go back" shows the task whose row is the parent of the one shown.
GoBackGoesUp ==
  [][goBack => current'.id = rows[current.id].parent]_allVars
=============================================================================
