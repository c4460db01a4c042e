------------------------------ MODULE TaskOrder -------------------------------
(***************************************************************************)
(* The order of the list the window shows (Backend::loadTasks,             *)
(* src/backend.cpp).  The children of the current task lie in its vector   *)
(* in the order they were added; loadTasks puts a model of each in a list  *)
(* and sorts it three times: all of it by completed, then the open ones    *)
(* and the completed ones each by creation time.  std::sort is not stable: *)
(* models that compare equal may end up in any order, and in another one   *)
(* at the next refresh.  The creation time is the system clock in seconds, *)
(* which can be set back.                                                  *)
(***************************************************************************)
EXTENDS Integers, Sequences, FiniteSets

CONSTANTS
  MaxChildren,  \* bound: the children of the current task
  MaxTime,      \* bound: the system clock
  Ids           \* bound: the ids of the tasks added, each one once

ASSUME BoundsAssumption == MaxChildren \in Nat /\ MaxTime \in Nat

VARIABLES
  children,  \* the vector of the current task
  clock,     \* the system clock
  list       \* m_tasks

vars == <<children, clock, list>>

Child == [id : Ids, created : 0 .. MaxTime, completed : BOOLEAN]

\* Mutant of NewChild: the time is rounded up to the next second.
NewChildNextSecond(id, time) == [id |-> id, created |-> time + 1, completed |-> FALSE]

\* The creation_time a later add_child gives: the clock when it is called.
NewChild(id, time) == [id |-> id, created |-> time, completed |-> FALSE]

-----------------------------------------------------------------------------
\* The two comparisons.
OpenFirst(x, y) == ~x.completed /\ y.completed
OldestFirst(x, y) == x.created < y.created

\* What std::sort may leave of s when it sorts the places from lo to hi:
\* the same elements, none before one that compares less.
Sorts(s, lo, hi, Before(_, _)) ==
  {[i \in DOMAIN s |-> s[p[i]]] :
     p \in {q \in [DOMAIN s -> DOMAIN s] :
              /\ \A i, j \in DOMAIN s : q[i] = q[j] => i = j
              /\ \A i \in DOMAIN s \ (lo .. hi) : q[i] = i
              /\ \A i, j \in lo .. hi : i < j => ~Before(s[q[j]], s[q[i]])}}

\* Mutant of first_completed: the search begins after the first model.
first_completed_from_second(s) ==
  CHOOSE k \in 0 .. Len(s) :
    /\ k = Len(s) \/ (k > 0 /\ s[k + 1].completed)
    /\ \A i \in 2 .. k : ~s[i].completed

\* How many models are before the first completed one.
first_completed(s) ==
  CHOOSE k \in 0 .. Len(s) :
    (k = Len(s) \/ s[k + 1].completed) /\ \A i \in 1 .. k : ~s[i].completed

\* Mutant of loadTasks: sorted by creation time first, then by state.
loadTasksByTimeFirst(s) ==
  UNION {Sorts(byTime, 1, Len(s), OpenFirst) : byTime \in Sorts(s, 1, Len(s), OldestFirst)}

\* The lists loadTasks may make of the children in s.
loadTasks(s) ==
  UNION {UNION {Sorts(halfway, first_completed(byState) + 1, Len(s), OldestFirst) :
                  halfway \in Sorts(byState, 1, first_completed(byState), OldestFirst)} :
           byState \in Sorts(s, 1, Len(s), OpenFirst)}

-----------------------------------------------------------------------------
Init ==
  /\ children = <<>>
  /\ clock \in 0 .. MaxTime
  /\ list = <<>>

addTask(id) ==
  /\ Len(children) < MaxChildren
  /\ \A i \in DOMAIN children : children[i].id # id
  /\ children' = Append(children, NewChild(id, clock))
  /\ list' \in loadTasks(children')
  /\ UNCHANGED clock

\* erase: the children behind move up.
deleteTask(id) ==
  /\ \E i \in DOMAIN children :
       /\ children[i].id = id
       /\ children' = SubSeq(children, 1, i - 1) \o SubSeq(children, i + 1, Len(children))
  /\ list' \in loadTasks(children')
  /\ UNCHANGED clock

setTaskCompleted(id) ==
  /\ \E i \in DOMAIN children : children[i].id = id
  /\ children' = [i \in DOMAIN children |->
                    IF children[i].id = id
                    THEN [children[i] EXCEPT !.completed = ~children[i].completed]
                    ELSE children[i]]
  /\ list' \in loadTasks(children')
  /\ UNCHANGED clock

\* setCurrent, goBack and back again, or another refresh.
refreshTasks ==
  /\ list' \in loadTasks(children)
  /\ UNCHANGED <<children, clock>>

\* The clock goes on, or is set.
Tick ==
  /\ clock' \in 0 .. MaxTime
  /\ UNCHANGED <<children, list>>

Next ==
  \/ refreshTasks
  \/ Tick
  \/ \E id \in Ids : addTask(id) \/ deleteTask(id) \/ setTaskCompleted(id)

Spec == Init /\ [][Next]_vars

-----------------------------------------------------------------------------
\* Every variable has its type.
TypeOK ==
  /\ children \in Seq(Child)
  /\ clock \in 0 .. MaxTime
  /\ list \in Seq(Child)

\* The order the three sorts amount to.
ShownBefore(x, y) ==
  OpenFirst(x, y) \/ (x.completed = y.completed /\ OldestFirst(x, y))

\* README.md:21-22, "sort by creation date" and "sort completed to bottom": the
\* list shows every child once, the open ones first, each part from the oldest on.
ListOrdered ==
  /\ Len(list) = Len(children)
  /\ {list[i] : i \in DOMAIN list} = {children[i] : i \in DOMAIN children}
  /\ \A i, j \in DOMAIN list : i < j => ~ShownBefore(list[j], list[i])

\* The place of a task in a list.
PlaceIn(s, id) == CHOOSE i \in DOMAIN s : s[i].id = id
Shows(s, id) == \E i \in DOMAIN s : s[i].id = id

\* Marking, adding or deleting a task, and every refresh, leaves two others in
\* the order they were in, unless they were created in the same second.
OthersKeepTheirOrder ==
  [][\A x, y \in Ids :
       /\ Shows(list, x) /\ Shows(list, y) /\ Shows(list', x) /\ Shows(list', y)
       /\ list[PlaceIn(list, x)] = list'[PlaceIn(list', x)]
       /\ list[PlaceIn(list, y)] = list'[PlaceIn(list', y)]
       /\ list[PlaceIn(list, x)].created # list[PlaceIn(list, y)].created
       => (PlaceIn(list, x) < PlaceIn(list, y)) = (PlaceIn(list', x) < PlaceIn(list', y))]_vars
=============================================================================
