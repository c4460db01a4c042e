------------------------------ MODULE CliProofs ------------------------------
(***************************************************************************)
(* Theorems about Cli: both programs use the TaskTree as its callers may,  *)
(* so what is proved of TaskTree holds for them; and from that, what the   *)
(* commands find and on which trees a list gets to its end.                *)
(***************************************************************************)
EXTENDS Cli, TaskTreeMirror, WellFoundedInduction

-----------------------------------------------------------------------------
(* Ids are found among the children. *)

LEMMA LeastIndex ==
  ASSUME NEW S \in SUBSET Nat, S # {}
  PROVE  \E m \in S : \A i \in S : m <= i
<1> DEFINE R == {x \in Nat \X Nat : x[1] < x[2]}
<1>1. IsWellFoundedOn(R, Nat)
  BY NatLessThanWellFounded DEF OpToRel
<1>2. \A i, j \in Nat : i < j => <<i, j>> \in R
  OBVIOUS
<1> HIDE DEF R
<1>3. PICK m \in S : \A i \in S : <<i, m>> \notin R
  BY <1>1, WFMin
<1>4. ASSUME NEW i \in S, i < m
      PROVE  FALSE
  BY <1>2, <1>3, <1>4
<1>5. QED
  BY <1>4

LEMMA HeadIsLive == ASSUME NEW h PROVE head \in LiveAddrs(h) /\ head \in Addr
BY DEF LiveAddrs, Alive, Addr

\* get_child_by_id finds a child with the id, when there is one.
LEMMA ChildByIdFacts ==
  ASSUME NEW h \in Heap, NEW a \in LiveAddrs(h), NEW id,
         NEW c, c = get_child_by_id(h, a, id)
  PROVE  /\ c = Nil <=> \A x \in ChildAddrs(h, a) : h.at[x].id # id
         /\ c # Nil => c \in ChildAddrs(h, a) /\ c \in LiveAddrs(h) /\ h.at[c].id = id
<1> DEFINE n == get_child_count(h, a)
           found == {i \in 0 .. n - 1 : h.at[get_child(h, a, i)].id = id}
<1>1. n \in Nat /\ a \in Addr
  BY CountType, BoundFacts DEF LiveAddrs
<1>2. ASSUME NEW i \in 0 .. n - 1
      PROVE  /\ get_child(h, a, i) \in ChildAddrs(h, a)
             /\ get_child(h, a, i) \in LiveAddrs(h) /\ get_child(h, a, i) # Nil
  <2>1. i \in Nat /\ i < get_child_count(h, a)
    BY <1>1
  <2>2. get_child(h, a, i) \in LiveAddrs(h)
    BY <2>1, OwnedFacts
  <2>3. get_child(h, a, i) # Nil
    BY <2>2, NullAssumption DEF LiveAddrs
  <2>4. QED
    BY <2>2, <2>3 DEF ChildAddrs
<1>3. CASE found = {}
  <2>1. c = Nil
    BY <1>3 DEF get_child_by_id
  <2>2. \A x \in ChildAddrs(h, a) : h.at[x].id # id
    BY <1>3 DEF ChildAddrs
  <2>3. QED
    BY <2>1, <2>2
<1>4. CASE found # {}
  <2> DEFINE i == CHOOSE j \in found : \A k \in found : j <= k
  <2>1. found \in SUBSET Nat
    BY <1>1
  <2>2. \E j \in found : \A k \in found : j <= k
    <3> HIDE DEF found
    <3>1. QED
      BY <1>4, <2>1, LeastIndex
  <2>3. i \in found
    <3> HIDE DEF found
    <3>1. QED
      BY <2>2
  <2>4. c = get_child(h, a, i)
    BY <1>4 DEF get_child_by_id
  <2> HIDE DEF i
  <2>5. i \in 0 .. n - 1 /\ h.at[get_child(h, a, i)].id = id
    BY <2>3
  <2>6. QED
    BY <1>2, <2>4, <2>5
<1>5. QED
  BY <1>3, <1>4

LEMMA GetByIdFacts ==
  ASSUME heap \in Heap, NEW id
  PROVE  /\ get_by_id(id) = Nil <=> \A x \in ChildAddrs(heap, head) : heap.at[x].id # id
         /\ get_by_id(id) # Nil =>
              /\ get_by_id(id) \in ChildAddrs(heap, head)
              /\ get_by_id(id) \in LiveAddrs(heap) /\ heap.at[get_by_id(id)].id = id
<1>1. get_by_id(id) = get_child_by_id(heap, head, id)
  BY DEF get_by_id
<1>2. QED
  BY <1>1, HeadIsLive, ChildByIdFacts

-----------------------------------------------------------------------------
(* The programs are callers of TaskTree. *)

LEMMA CommandIsNext == ASSUME heap \in Heap, Command PROVE [Next]_vars
<1>1. head \in LiveAddrs(heap)
  BY HeadIsLive
<1>2. CASE \E name \in Names : new(name)
  BY <1>1, <1>2 DEF new, Next, Request
<1>3. CASE \E id \in RowIds : delete(id) \/ complete(id)
  <2>1. PICK id \in RowIds : delete(id) \/ complete(id)
    BY <1>3
  <2>2. \/ End
        \/ /\ get_by_id(id) # Nil
           /\ Remove(get_by_id(id)) \/ ToggleTaskCompleted(get_by_id(id))
    BY <2>1 DEF delete, complete
  <2>3. get_by_id(id) # Nil => get_by_id(id) \in LiveAddrs(heap)
    BY GetByIdFacts
  <2>4. QED
    BY <2>2, <2>3 DEF End, Next, Request
<1>4. CASE list
  BY <1>4 DEF list
<1>5. QED
  BY <1>2, <1>3, <1>4 DEF Command

LEMMA ProgramIsNext == ASSUME heap \in Heap, [Here \/ Elsewhere]_allVars PROVE [Next]_vars
<1>1. CASE Run("cli") \/ Run("other")
  BY <1>1 DEF Run, Next
<1>2. CASE End
  BY <1>2 DEF End, Next
<1>3. CASE InLibrary
  BY <1>3 DEF InLibrary, Next, Step
<1>4. CASE Command
  BY <1>4, CommandIsNext
<1>5. CASE ListStep
  BY <1>2, <1>5 DEF ListStep, ListLine, ListThrows, ListDescend, ListReturn
<1>6. CASE session = "other" /\ Request /\ UNCHANGED cliVars
  BY <1>6 DEF Next
<1>7. CASE UNCHANGED allVars
  BY <1>7 DEF allVars
<1>8. QED
  BY <1>1, <1>2, <1>3, <1>4, <1>5, <1>6, <1>7 DEF Here, Elsewhere

\* The command line program and the one between its sessions do to the TaskTree
\* only what TaskTree lets a caller do: on references to tasks that are there.
\* What is proved of TaskTree therefore holds for them.
THEOREM ProgramsUseTheTree == CliSpec => Spec
<1>1. CliInit => Init
  BY DEF CliInit
<1>2. TypeOK /\ [Here \/ Elsewhere]_allVars => [Next]_vars
  BY ProgramIsNext DEF TypeOK
<1>3. Init => TypeOK
  BY InitType
<1>4. TypeOK /\ [Next]_vars => TypeOK'
  BY NextType
<1>5. QED
  BY <1>1, <1>2, <1>3, <1>4, PTL DEF CliSpec, Spec

-----------------------------------------------------------------------------
(* Types. *)

LEMMA ListTypes ==
  ASSUME heap \in Heap, listing \in Seq(ListFrame), listing # <<>>
  PROVE  /\ Len(listing) \in Nat \ {0} /\ listing[1] \in ListFrame
         /\ listing[1].task \in Addr /\ listing[1].i \in Nat
         /\ [listing EXCEPT ![1].written = TRUE] \in Seq(ListFrame)
         /\ \A a \in Addr : <<List(a)>> \o listing \in Seq(ListFrame)
         /\ Len(listing) # 1 => ToNext(Tail(listing)) \in Seq(ListFrame)
<1>1. Len(listing) \in Nat \ {0} /\ listing \in [1 .. Len(listing) -> ListFrame]
  OBVIOUS
<1>2. listing[1] \in ListFrame
  BY <1>1
<1>3. listing[1].task \in Addr /\ listing[1].i \in Nat
  BY <1>2 DEF ListFrame
<1>4. ASSUME NEW s \in Seq(ListFrame), NEW e \in ListFrame
      PROVE  [s EXCEPT ![1] = e] \in Seq(ListFrame)
  <2>1. Len(s) \in Nat /\ s \in [1 .. Len(s) -> ListFrame]
    OBVIOUS
  <2>2. [s EXCEPT ![1] = e] \in [1 .. Len(s) -> ListFrame]
    BY <2>1
  <2>3. QED
    BY <2>1, <2>2, SeqDef
<1>5. [listing EXCEPT ![1].written = TRUE] \in Seq(ListFrame)
  <2>1. [listing[1] EXCEPT !.written = TRUE] \in ListFrame
    BY <1>2 DEF ListFrame
  <2>2. QED
    BY <1>4, <2>1
<1>6. \A a \in Addr : <<List(a)>> \o listing \in Seq(ListFrame)
  <2>1. \A a \in Addr : List(a) \in ListFrame
    BY DEF List, ListFrame
  <2>2. QED
    BY <2>1
<1>7. ASSUME Len(listing) # 1
      PROVE  ToNext(Tail(listing)) \in Seq(ListFrame)
  <2> DEFINE s == Tail(listing)
  <2>1. s \in Seq(ListFrame) /\ Len(s) \in Nat \ {0}
    BY <1>1, <1>7
  <2> HIDE DEF s
  <2>2. s[1] \in ListFrame
    <3>1. s \in [1 .. Len(s) -> ListFrame] /\ 1 \in 1 .. Len(s)
      BY <2>1
    <3>2. QED
      BY <3>1
  <2>3. [s[1] EXCEPT !.i = s[1].i + 1] \in ListFrame
    BY <2>2 DEF ListFrame
  <2>4. [s EXCEPT ![1] = [s[1] EXCEPT !.i = s[1].i + 1]] \in Seq(ListFrame)
    BY <1>4, <2>1, <2>3
  <2>5. QED
    BY <2>4 DEF ToNext, s
<1>8. QED
  BY <1>1, <1>2, <1>3, <1>5, <1>6, <1>7

\* Only Run and End start and end a program.
LEMMA ProceedStays == ASSUME Proceed PROVE running' = running /\ calls # <<>>
BY DEF Proceed, LoadSelect, LoadDescend, LoadReturn, RemoveChild, RemoveRow, RemoveErase,
       RemoveReturn, InPc

LEMMA RequestStays == ASSUME Request PROVE running' = running
BY DEF Request, AddChild, Remove, SetTaskName, ToggleTaskCompleted

LEMMA CommandStays ==
  ASSUME Command
  PROVE  /\ Prompt
         /\ \/ End
            \/ /\ running' = running /\ session' = session /\ iteration' = iteration
               /\ \/ listing' = listing
                  \/ listing' = <<List(head)>> /\ UNCHANGED vars
<1>1. CASE \E name \in Names : new(name)
  BY <1>1 DEF new, AddChild, cliVars
<1>2. CASE \E id \in RowIds : delete(id)
  BY <1>2 DEF delete, Remove, cliVars
<1>3. CASE \E id \in RowIds : complete(id)
  BY <1>3 DEF complete, ToggleTaskCompleted, cliVars
<1>4. CASE list
  BY <1>4 DEF list, vars
<1>5. QED
  BY <1>1, <1>2, <1>3, <1>4 DEF Command

LEMMA CliTypeInit == CliInit => CliTypeOK
<1>1. Init => TypeOK /\ ~running
  BY InitType DEF Init
<1>2. <<>> \in Seq(ListFrame) /\ 0 \in Int
  OBVIOUS
<1>3. QED
  BY <1>1, <1>2, Zenon DEF CliInit, CliTypeOK

LEMMA CliTypeNext ==
  ASSUME CliTypeOK, [Here \/ Elsewhere]_allVars
  PROVE  CliTypeOK'
<1>1. /\ TypeOK /\ heap \in Heap /\ session \in {"none", "cli", "other"} /\ iteration \in Int
      /\ listing \in Seq(ListFrame) /\ (session = "none" <=> ~running)
  BY DEF CliTypeOK, TypeOK
<1>2. TypeOK'
  BY <1>1, ProgramIsNext, NextType
<1>3. <<>> \in Seq(ListFrame) /\ <<List(head)>> \in Seq(ListFrame)
  <2>1. List(head) \in ListFrame
    BY HeadIsLive DEF List, ListFrame
  <2>2. QED
    BY <2>1
<1>4. CASE Run("cli") \/ Run("other")
  <2>1. /\ session' \in {"none", "cli", "other"} /\ session' # "none"
        /\ iteration' \in Int /\ listing' \in Seq(ListFrame)
    <3>1. \E p \in {"cli", "other"} : session' = p /\ iteration' = 0 /\ listing' = <<>>
      BY <1>4 DEF Run
    <3>2. QED
      BY <1>3, <3>1
  <2>2. running'
    BY <1>4 DEF Run, Start
  <2>3. QED
    BY <1>2, <2>1, <2>2, Zenon DEF CliTypeOK
<1>5. CASE End
  BY <1>2, <1>3, <1>5 DEF End, Stop, CliTypeOK
<1>6. CASE running' = running /\ UNCHANGED cliVars
  BY <1>1, <1>2, <1>6 DEF CliTypeOK, cliVars
<1>7. CASE InLibrary
  BY <1>6, <1>7, ProceedStays DEF InLibrary
<1>8. CASE Command
  <2>1. CASE End
    BY <1>5, <2>1
  <2>2. CASE ~End
    <3>1. /\ running' = running /\ session' = session /\ iteration' = iteration
          /\ listing' = listing \/ listing' = <<List(head)>>
      BY <1>8, <2>2, CommandStays
    <3>2. listing' \in Seq(ListFrame)
      BY <1>1, <1>3, <3>1
    <3>3. QED
      BY <1>1, <1>2, <3>1, <3>2, Zenon DEF CliTypeOK
  <2>3. QED
    BY <2>1, <2>2
<1>9. ASSUME iteration' \in Int, listing' \in Seq(ListFrame), UNCHANGED <<vars, session>>
      PROVE  CliTypeOK'
  BY <1>1, <1>2, <1>9 DEF CliTypeOK, vars
<1>10. CASE ListLine
  BY <1>1, <1>9, <1>10, ListTypes DEF ListLine
<1>11. CASE ListThrows
  BY <1>5, <1>11 DEF ListThrows
<1>12. CASE ListDescend
  <2>1. listing # <<>> /\ listing[1].task \in Addr /\ listing[1].i \in Nat
    BY <1>1, <1>12, ListTypes DEF ListDescend
  <2>2. get_child(heap, listing[1].task, listing[1].i) \in Addr
    BY <1>1, <1>12, <2>1, CountType DEF ListDescend
  <2>3. listing' \in Seq(ListFrame)
    BY <1>1, <1>12, <2>1, <2>2, ListTypes DEF ListDescend
  <2>4. QED
    BY <1>1, <1>9, <1>12, <2>3 DEF ListDescend
<1>13. CASE ListReturn
  <2>1. listing' \in Seq(ListFrame)
    BY <1>1, <1>3, <1>13, ListTypes DEF ListReturn
  <2>2. QED
    BY <1>1, <1>9, <1>13, <2>1 DEF ListReturn
<1>14. CASE session = "other" /\ Request /\ UNCHANGED cliVars
  BY <1>6, <1>14, RequestStays
<1>15. CASE UNCHANGED allVars
  BY <1>6, <1>15 DEF allVars, vars
<1>16. QED
  BY <1>4, <1>5, <1>7, <1>8, <1>10, <1>11, <1>12, <1>13, <1>14, <1>15
     DEF Here, Elsewhere, ListStep

\* Type correctness, of the active calls of list_tasks too: each is on a task,
\* and a TaskTree exists just while a program runs.
THEOREM CliTypeCorrect == CliSpec => []CliTypeOK
BY CliTypeInit, CliTypeNext, PTL DEF CliSpec

-----------------------------------------------------------------------------
(* What the commands find. *)

\* Between calls, with no misleading pointer followed, the tasks below the head
\* are the top level rows.
LEMMA TopLevelRows ==
  ASSUME MirrorInv, Idle, ~astray, NEW id \in RowIds
  PROVE  /\ get_by_id(id) # Nil <=> id \in ChildRows(rows, 0)
         /\ get_by_id(id) # Nil => heap.at[get_by_id(id)].completed = rows[id].completed
<1>1. /\ heap \in Heap /\ running /\ heap.at[head].id = 0
      /\ MemoryMirrorsTable
  <2>1. heap \in Heap
    BY DEF MirrorInv, HeldInv, LoadInv, TypeOK
  <2>2. heap.at[head].id = 0
    BY DEF MirrorInv, Mirrors, Distinct, Idle
  <2>3. MemoryMirrorsTable
    BY MirrorsTheTable DEF MirrorInv, HeldInv, LoadInv, TypeOK, Idle, MemoryMirrorsTable
  <2>4. QED
    BY <2>1, <2>2, <2>3 DEF Idle
<1>2. TasksUnder(head) = RowsUnder(0)
  BY <1>1, HeadIsLive DEF MemoryMirrorsTable
<1>3. ASSUME NEW x \in ChildAddrs(heap, head)
      PROVE  /\ heap.at[x].id \in ChildRows(rows, 0)
             /\ heap.at[x].completed = rows[heap.at[x].id].completed
  <2>1. <<heap.at[x].id, heap.at[x].name, heap.at[x].completed>> \in RowsUnder(0)
    BY <1>2 DEF TasksUnder
  <2>2. QED
    BY <2>1 DEF RowsUnder
<1>4. ASSUME NEW i \in ChildRows(rows, 0)
      PROVE  \E x \in ChildAddrs(heap, head) : heap.at[x].id = i
  <2>1. <<i, rows[i].name, rows[i].completed>> \in TasksUnder(head)
    BY <1>2 DEF RowsUnder
  <2>2. QED
    BY <2>1 DEF TasksUnder
<1>5. QED
  BY <1>1, <1>3, <1>4, GetByIdFacts

\* As long as no misleading pointer was followed, complete and delete find
\* exactly the top level rows, and complete turns the mark the table has, though
\* it looks only at memory.
THEOREM CommandsReachTheRow == CliSpec => CommandsFindTheRow
<1>1. MirrorInv =>
        (~astray => \A id \in RowIds :
           /\ delete(id) \/ complete(id) => (running' <=> id \in ChildRows(rows, 0))
           /\ complete(id) /\ running' =>
                rows' = UpdateCompleted(rows, id, ~rows[id].completed))
  <2>1. SUFFICES ASSUME MirrorInv, ~astray, NEW id \in RowIds, delete(id) \/ complete(id)
                 PROVE  /\ running' <=> id \in ChildRows(rows, 0)
                        /\ complete(id) /\ running' =>
                             rows' = UpdateCompleted(rows, id, ~rows[id].completed)
    OBVIOUS
  <2>2. Idle /\ running /\ heap \in Heap
    BY <2>1 DEF delete, complete, Prompt, Idle, MirrorInv, HeldInv, LoadInv, TypeOK
  <2> DEFINE a == get_by_id(id)
  <2>3. a # Nil => heap.at[a].id = id
    BY <2>2, GetByIdFacts
  <2>4. (a # Nil <=> id \in ChildRows(rows, 0))
        /\ (a # Nil => heap.at[a].completed = rows[id].completed)
    BY <2>1, <2>2, TopLevelRows
  <2>5. \/ a = Nil /\ ~running'
        \/ a # Nil /\ running' /\ (complete(id) => ToggleTaskCompleted(a))
    BY <2>1, <2>2 DEF delete, complete, End, Stop, Remove, ToggleTaskCompleted
  <2> HIDE DEF a
  <2>6. QED
    BY <2>3, <2>4, <2>5 DEF ToggleTaskCompleted
<1>2. Spec => []MirrorInv
  BY MirrorInvariant
<1>3. CliSpec => Spec
  BY ProgramsUseTheTree
<1>4. MirrorInv => [~astray => \A id \in RowIds :
                      /\ delete(id) \/ complete(id) => (running' <=> id \in ChildRows(rows, 0))
                      /\ complete(id) /\ running' =>
                           rows' = UpdateCompleted(rows, id, ~rows[id].completed)]_allVars
  BY <1>1
<1>5. QED
  BY <1>2, <1>3, <1>4, PTL DEF CommandsFindTheRow

-----------------------------------------------------------------------------
(***************************************************************************)
(* Why only a chain is listed to its end.  The static counter starts a     *)
(* session at 0 and is lowered by each return, so a list can go on         *)
(* writing only while it has not returned from any task: as it goes down   *)
(* through first children.  After the first return, of a task without      *)
(* children, each task on the way back must have no other child, or the    *)
(* next line throws.                                                       *)
(***************************************************************************)

\* p goes from the head down through n first children, the head counted.
FirstsFrom(h, p, n) ==
  /\ n \in Nat \ {0} /\ p \in [1 .. n -> LiveAddrs(h)] /\ p[1] = head
  /\ \A j \in 1 .. n - 1 :
       get_child_count(h, p[j]) > 0 /\ p[j + 1] = get_child(h, p[j], 0)

\* What lies on p from j on is a chain: one child each, none for the last.
ChainFrom(h, p, n, j) ==
  \A k \in j .. n : get_child_count(h, p[k]) = IF k = n THEN 0 ELSE 1

\* The calls s of list_tasks are on the first tasks of p, and have returned from
\* the others, each with no other child.
OnPath(h, s, counter, p, n) ==
  /\ Len(s) <= n /\ counter = Len(s) - n
  /\ \A j \in 1 .. Len(s) : s[j].task = p[Len(s) + 1 - j]
  /\ \A j \in 2 .. Len(s) : s[j].written /\ s[j].i = 0
  /\ counter = 0 => s[1].i = 0
  /\ counter < 0 => s[1].written /\ s[1].i = 1
  /\ ChainFrom(h, p, n, Len(s) + 1)

\* It goes on so, or the line to be written next throws.
Walks(h, s, counter) ==
  \/ counter < 0 /\ ~s[1].written
  \/ \E n, p : FirstsFrom(h, p, n) /\ OnPath(h, s, counter, p, n)

ListInv ==
  /\ CliTypeOK
  /\ iteration <= 0
  /\ listing # <<>> =>
       session = "cli" /\ running /\ calls = <<>> /\ Walks(heap, listing, iteration)

LEMMA FrameFacts ==
  ASSUME NEW s \in Seq(ListFrame), s # <<>>
  PROVE  /\ Len(s) \in Nat \ {0} /\ 1 \in 1 .. Len(s)
         /\ \A j \in 1 .. Len(s) : s[j] \in ListFrame /\ s[j].i \in Nat /\ s[j].task \in Addr
<1>1. Len(s) \in Nat \ {0} /\ s \in [1 .. Len(s) -> ListFrame]
  OBVIOUS
<1>2. QED
  BY <1>1 DEF ListFrame

LEMMA WalksFromHead ==
  ASSUME NEW h, NEW counter \in Int, counter <= 0
  PROVE  Walks(h, <<List(head)>>, counter)
<1> DEFINE s == <<List(head)>>
           p == [j \in 1 .. 1 |-> head]
<1>1. Len(s) = 1 /\ s[1].task = head /\ s[1].written = FALSE /\ s[1].i = 0
  BY DEF List
<1>2. CASE counter < 0
  BY <1>1, <1>2 DEF Walks
<1>3. CASE counter = 0
  <2>1. p \in [1 .. 1 -> LiveAddrs(h)] /\ p[1] = head
    BY HeadIsLive
  <2> HIDE DEF p, s
  <2>2. FirstsFrom(h, p, 1)
    BY <2>1 DEF FirstsFrom
  <2>3. OnPath(h, s, counter, p, 1)
    BY <1>1, <1>3, <2>1 DEF OnPath, ChainFrom
  <2>4. QED
    BY <2>2, <2>3 DEF Walks, s
<1>4. QED
  BY <1>2, <1>3

LEMMA WalksLine ==
  ASSUME NEW h, NEW s \in Seq(ListFrame), s # <<>>, ~s[1].written,
         Walks(h, s, 0), NEW t, t = [s EXCEPT ![1].written = TRUE]
  PROVE  Walks(h, t, 0)
<1>1. /\ Len(s) \in Nat \ {0} /\ s \in [1 .. Len(s) -> ListFrame]
      /\ 1 \in 1 .. Len(s) /\ s[1] \in ListFrame
  BY FrameFacts
<1>2. t = [s EXCEPT ![1] = [s[1] EXCEPT !.written = TRUE]]
  OBVIOUS
<1>3. /\ Len(t) = Len(s) /\ t[1] = [s[1] EXCEPT !.written = TRUE]
      /\ \A j \in 2 .. Len(s) : t[j] = s[j]
  BY <1>1, <1>2
<1>4. t[1].task = s[1].task /\ t[1].i = s[1].i
  BY <1>1, <1>3 DEF ListFrame
<1>5. \A j \in 1 .. Len(s) : t[j].task = s[j].task
  BY <1>1, <1>3, <1>4
<1>6. PICK n, p : FirstsFrom(h, p, n) /\ OnPath(h, s, 0, p, n)
  BY DEF Walks
<1>7. OnPath(h, t, 0, p, n)
  BY <1>1, <1>3, <1>4, <1>5, <1>6 DEF OnPath
<1>8. QED
  BY <1>6, <1>7 DEF Walks

\* Down to a first child, or to a second one, whose line throws.
LEMMA WalksDown ==
  ASSUME NEW h \in Heap, NEW s \in Seq(ListFrame), s # <<>>, s[1].written,
         s[1].i < get_child_count(h, s[1].task),
         NEW counter \in Int, counter <= 0, Walks(h, s, counter),
         NEW c, c = get_child(h, s[1].task, s[1].i),
         NEW t, t = <<List(c)>> \o s
  PROVE  Walks(h, t, counter)
<1>1. /\ Len(s) \in Nat \ {0} /\ 1 \in 1 .. Len(s) /\ s[1].i \in Nat
      /\ Len(t) = Len(s) + 1 /\ t[1] = List(c)
      /\ \A j \in 2 .. Len(s) + 1 : t[j] = s[j - 1] /\ j - 1 \in 1 .. Len(s)
  <2>1. Len(s) \in Nat \ {0} /\ 1 \in 1 .. Len(s) /\ s[1].i \in Nat
    BY FrameFacts
  <2>2. s \in Seq(ListFrame \cup {List(c)}) /\ <<List(c)>> \in Seq(ListFrame \cup {List(c)})
    OBVIOUS
  <2>3. /\ Len(t) = Len(s) + 1 /\ t[1] = List(c)
        /\ \A j \in 2 .. Len(s) + 1 : t[j] = s[j - 1]
    BY <2>1, <2>2
  <2>4. QED
    BY <2>1, <2>3
<1>2. t[1].task = c /\ t[1].written = FALSE /\ t[1].i = 0
  BY <1>1 DEF List
<1>3. CASE counter < 0
  BY <1>2, <1>3 DEF Walks
<1>4. CASE counter = 0
  <2>1. PICK n, p : FirstsFrom(h, p, n) /\ OnPath(h, s, 0, p, n)
    BY <1>4 DEF Walks
  <2>2. /\ n \in Nat \ {0} /\ p \in [1 .. n -> LiveAddrs(h)] /\ p[1] = head
        /\ \A j \in 1 .. n - 1 :
             get_child_count(h, p[j]) > 0 /\ p[j + 1] = get_child(h, p[j], 0)
    BY <2>1 DEF FirstsFrom
  <2>3. /\ Len(s) = n /\ s[1].task = p[n] /\ s[1].i = 0
        /\ \A j \in 1 .. n : s[j].task = p[n + 1 - j]
        /\ \A j \in 2 .. n : s[j].written /\ s[j].i = 0
    <3>1. Len(s) = n
      BY <1>1, <2>1, <2>2 DEF OnPath
    <3>2. QED
      BY <1>1, <2>1, <2>2, <3>1 DEF OnPath
  <2>4. c = get_child(h, p[n], 0) /\ c \in LiveAddrs(h) /\ get_child_count(h, p[n]) > 0
    <3>1. p[n] \in LiveAddrs(h) /\ 0 < get_child_count(h, p[n])
      BY <2>2, <2>3
    <3>2. QED
      BY <2>3, <3>1, OwnedFacts
  <2> DEFINE q == [j \in 1 .. n + 1 |-> IF j <= n THEN p[j] ELSE c]
  <2>5. q \in [1 .. n + 1 -> LiveAddrs(h)]
    BY <2>2, <2>4
  <2>6. (\A j \in 1 .. n : q[j] = p[j]) /\ q[n + 1] = c
    BY <2>2
  <2> HIDE DEF q
  <2>7. FirstsFrom(h, q, n + 1)
    <3>1. ASSUME NEW j \in 1 .. n
          PROVE  get_child_count(h, q[j]) > 0 /\ q[j + 1] = get_child(h, q[j], 0)
      <4>1. CASE j = n
        BY <2>4, <2>6, <4>1
      <4>2. CASE j # n
        <5>1. j \in 1 .. n - 1 /\ j + 1 \in 1 .. n
          BY <2>2, <4>2
        <5>2. QED
          BY <2>2, <2>6, <5>1
      <4>3. QED
        BY <4>1, <4>2
    <3>2. n + 1 \in Nat \ {0} /\ (n + 1) - 1 = n /\ q[1] = head
      BY <2>2, <2>6
    <3>3. QED
      BY <2>5, <3>1, <3>2 DEF FirstsFrom
  <2>8. OnPath(h, t, 0, q, n + 1)
    <3>1. ASSUME NEW j \in 1 .. Len(t)
          PROVE  t[j].task = q[Len(t) + 1 - j]
      <4>1. CASE j = 1
        BY <1>1, <1>2, <2>2, <2>3, <2>6, <4>1
      <4>2. CASE j # 1
        <5>1. /\ j \in 2 .. Len(s) + 1 /\ j - 1 \in 1 .. n
              /\ n + 1 - (j - 1) = Len(t) + 1 - j /\ Len(t) + 1 - j \in 1 .. n
          BY <1>1, <2>2, <2>3, <4>2
        <5>2. t[j].task = p[n + 1 - (j - 1)]
          BY <1>1, <2>3, <5>1
        <5>3. QED
          BY <2>6, <5>1, <5>2
      <4>3. QED
        BY <4>1, <4>2
    <3>2. ASSUME NEW j \in 2 .. Len(t)
          PROVE  t[j].written /\ t[j].i = 0
      <4>1. CASE j = 2
        <5>1. t[j] = s[1]
          BY <1>1, <4>1
        <5>2. QED
          BY <2>3, <5>1
      <4>2. CASE j # 2
        <5>1. j - 1 \in 2 .. n /\ t[j] = s[j - 1]
          BY <1>1, <2>3, <4>2
        <5>2. QED
          BY <2>3, <5>1
      <4>3. QED
        BY <4>1, <4>2
    <3>3. Len(t) <= n + 1 /\ 0 = Len(t) - (n + 1)
      BY <1>1, <2>2, <2>3
    <3>4. ChainFrom(h, q, n + 1, Len(t) + 1)
      BY <1>1, <2>2, <2>3 DEF ChainFrom
    <3>5. QED
      <4>1. (0 = 0 => t[1].i = 0) /\ (0 < 0 => t[1].written /\ t[1].i = 1)
        BY <1>2
      <4>2. QED
        BY <3>1, <3>2, <3>3, <3>4, <4>1, Zenon DEF OnPath
  <2>9. QED
    BY <1>4, <2>7, <2>8 DEF Walks
<1>5. QED
  BY <1>3, <1>4

\* The call that returns has its place on the chain too.
LEMMA ReturnFacts ==
  ASSUME NEW h \in Heap, NEW s \in Seq(ListFrame), s # <<>>, s[1].written,
         ~(s[1].i < get_child_count(h, s[1].task)),
         NEW counter \in Int, Walks(h, s, counter)
  PROVE  \E n, p : FirstsFrom(h, p, n) /\ OnPath(h, s, counter, p, n) /\ ChainFrom(h, p, n, Len(s))
<1>1. PICK n, p : FirstsFrom(h, p, n) /\ OnPath(h, s, counter, p, n)
  BY DEF Walks
<1>2. /\ n \in Nat \ {0} /\ p \in [1 .. n -> LiveAddrs(h)]
      /\ \A j \in 1 .. n - 1 : get_child_count(h, p[j]) > 0
  BY <1>1 DEF FirstsFrom
<1> DEFINE m == Len(s)
<1>3. m \in 1 .. n /\ counter = m - n /\ 1 \in 1 .. m
  BY <1>1, <1>2, FrameFacts DEF OnPath
<1>4. s[1].task = p[m]
  BY <1>1, <1>3 DEF OnPath
<1>5. get_child_count(h, p[m]) \in Nat
  BY <1>2, <1>3, CountType, BoundFacts DEF LiveAddrs
<1>6. get_child_count(h, p[m]) = IF m = n THEN 0 ELSE 1
  <2>1. CASE m = n
    <3>1. s[1].i = 0
      BY <1>1, <1>2, <1>3, <2>1 DEF OnPath
    <3>2. QED
      BY <1>4, <1>5, <2>1, <3>1
  <2>2. CASE m # n
    <3>1. s[1].i = 1 /\ m \in 1 .. n - 1
      BY <1>1, <1>2, <1>3, <2>2 DEF OnPath
    <3>2. QED
      BY <1>2, <1>4, <1>5, <2>2, <3>1
  <2>3. QED
    BY <2>1, <2>2
<1>7. ChainFrom(h, p, n, m + 1)
  BY <1>1 DEF OnPath
<1> HIDE DEF m
<1>8. ChainFrom(h, p, n, m)
  <2>1. \A k \in m .. n : k = m \/ k \in m + 1 .. n
    BY <1>2, <1>3
  <2>2. QED
    BY <1>6, <1>7, <2>1 DEF ChainFrom
<1>9. QED
  BY <1>1, <1>8 DEF m

LEMMA WalksBack ==
  ASSUME NEW h \in Heap, NEW s \in Seq(ListFrame), s # <<>>, s[1].written,
         ~(s[1].i < get_child_count(h, s[1].task)),
         NEW counter \in Int, Walks(h, s, counter), Len(s) # 1,
         NEW t, t = ToNext(Tail(s))
  PROVE  Walks(h, t, counter - 1)
<1>1. PICK n, p :
        FirstsFrom(h, p, n) /\ OnPath(h, s, counter, p, n) /\ ChainFrom(h, p, n, Len(s))
  BY ReturnFacts
<1>2. /\ Len(s) \in Nat \ {0} /\ Len(s) > 1 /\ 2 \in 1 .. Len(s) /\ 2 \in 2 .. Len(s)
      /\ s[2] \in ListFrame
  <2>1. Len(s) \in Nat \ {0}
    BY FrameFacts
  <2>2. Len(s) > 1
    <3>1. \A m \in Nat \ {0} : m # 1 => m > 1
      OBVIOUS
    <3>2. QED
      BY <2>1, <3>1
  <2>3. QED
    BY <2>1, <2>2, FrameFacts
<1>3. /\ Len(t) = Len(s) - 1 /\ t[1] = [s[2] EXCEPT !.i = s[2].i + 1]
      /\ \A j \in 2 .. Len(s) - 1 : t[j] = s[j + 1]
  <2> DEFINE r == Tail(s)
  <2>1. /\ r \in Seq(ListFrame) /\ Len(r) = Len(s) - 1
        /\ \A j \in 1 .. Len(s) - 1 : r[j] = s[j + 1]
    BY <1>2
  <2> HIDE DEF r
  <2>2. r \in [1 .. Len(s) - 1 -> ListFrame] /\ 1 \in 1 .. Len(s) - 1 /\ r[1] = s[2]
    BY <1>2, <2>1
  <2>3. t = [r EXCEPT ![1] = [r[1] EXCEPT !.i = r[1].i + 1]]
    BY DEF ToNext, r
  <2> DEFINE m == Len(s) - 1
             e == [r[1] EXCEPT !.i = r[1].i + 1]
  <2>4. m \in Nat /\ 1 \in 1 .. m /\ r \in [1 .. m -> ListFrame] /\ e \in ListFrame
    BY <1>2, <2>2 DEF ListFrame
  <2> HIDE DEF e, m
  <2>5. t = [r EXCEPT ![1] = e]
    BY <2>3 DEF e
  <2>6. t \in [1 .. m -> ListFrame] /\ t[1] = e /\ \A j \in 2 .. m : t[j] = r[j]
    BY <2>4, <2>5
  <2>7. Len(t) = m
    BY <2>4, <2>6
  <2>8. e = [s[2] EXCEPT !.i = s[2].i + 1]
    BY <2>2 DEF e
  <2>9. QED
    BY <1>2, <2>1, <2>6, <2>7, <2>8 DEF m
<1>4. s[2].written /\ s[2].i = 0
  BY <1>1, <1>2 DEF OnPath
<1>5. t[1].task = s[2].task /\ t[1].written /\ t[1].i = 1
  BY <1>2, <1>3, <1>4 DEF ListFrame
<1>6. n \in Nat /\ Len(s) <= n /\ counter = Len(s) - n
  BY <1>1 DEF FirstsFrom, OnPath
<1>7. ASSUME NEW j \in 1 .. Len(t)
      PROVE  t[j].task = p[Len(t) + 1 - j]
  <2>1. t[j].task = s[j + 1].task
    BY <1>2, <1>3, <1>5
  <2>2. /\ j + 1 \in 1 .. Len(s)
        /\ Len(s) + 1 - (j + 1) = Len(t) + 1 - j
    BY <1>2, <1>3
  <2>3. s[j + 1].task = p[Len(s) + 1 - (j + 1)]
    BY <1>1, <2>2 DEF OnPath
  <2>4. QED
    BY <2>1, <2>2, <2>3
<1>8. ASSUME NEW j \in 2 .. Len(t)
      PROVE  t[j].written /\ t[j].i = 0
  <2>1. j + 1 \in 2 .. Len(s) /\ t[j] = s[j + 1]
    BY <1>2, <1>3
  <2>2. QED
    BY <1>1, <2>1 DEF OnPath
<1>9. /\ Len(t) <= n /\ counter - 1 = Len(t) - n /\ counter - 1 # 0
      /\ Len(t) + 1 = Len(s)
  BY <1>2, <1>3, <1>6
<1>10. OnPath(h, t, counter - 1, p, n)
  BY <1>1, <1>5, <1>7, <1>8, <1>9 DEF OnPath
<1>11. QED
  BY <1>1, <1>10 DEF Walks

\* A chain from the head is the whole tree, each task once.
LEMMA ChainIsAll ==
  ASSUME NEW h \in Heap, MemoryTree(h), NEW n, NEW p, FirstsFrom(h, p, n), ChainFrom(h, p, n, 1)
  PROVE  /\ Cardinality(LiveAddrs(h)) = n
         /\ \A a \in LiveAddrs(h) : get_child_count(h, a) <= 1
<1>1. /\ n \in Nat \ {0} /\ p \in [1 .. n -> LiveAddrs(h)] /\ p[1] = head
      /\ \A j \in 1 .. n - 1 :
           get_child_count(h, p[j]) > 0 /\ p[j + 1] = get_child(h, p[j], 0)
      /\ \A j \in 1 .. n : get_child_count(h, p[j]) = IF j = n THEN 0 ELSE 1
  BY DEF FirstsFrom, ChainFrom
<1>2. PICK rk : Storage(h) /\ Ranked(h, rk)
  BY DEF MemoryTree
<1>3. \A x \in LiveAddrs(h) : \E j \in 1 .. n : x = p[j]
  <2> DEFINE Off == {x \in LiveAddrs(h) : \A j \in 1 .. n : x # p[j]}
  <2>1. SUFFICES ASSUME Off # {} PROVE FALSE
    OBVIOUS
  <2>2. {rk[x] : x \in Off} \in SUBSET Nat /\ {rk[x] : x \in Off} # {}
    BY <1>2, <2>1, RankFacts
  <2>3. \E m \in {rk[x] : x \in Off} : \A i \in {rk[x] : x \in Off} : m <= i
    BY <2>2, LeastIndex
  <2>4. PICK x \in Off : \A y \in Off : rk[x] <= rk[y]
    BY <2>3
  <2>5. x \in LiveAddrs(h) \ {head}
    BY <1>1
  <2>6. PICK o \in LiveAddrs(h) : Owns(h, o, x)
    BY <1>2, <2>5 DEF Ranked
  <2>7. o \notin Off
    <3>1. rk[o] < rk[x] /\ rk[o] \in Int /\ rk[x] \in Int
      BY <1>2, <2>5, <2>6, RankFacts DEF Ranked
    <3>2. QED
      BY <2>4, <3>1
  <2>8. PICK j \in 1 .. n : o = p[j]
    BY <2>7
  <2>9. PICK i \in 0 .. get_child_count(h, o) - 1 : x = get_child(h, o, i)
    BY <2>5, <2>6, ChildIsOwned DEF ChildAddrs
  <2>10. j # n /\ i = 0
    BY <1>1, <2>8, <2>9
  <2>11. j \in 1 .. n - 1 /\ j + 1 \in 1 .. n
    BY <1>1, <2>10
  <2>12. x = p[j + 1]
    BY <1>1, <2>8, <2>9, <2>10, <2>11
  <2>13. QED
    BY <2>11, <2>12
<1>4. \A j, k \in 1 .. n : p[j] = p[k] => j = k
  <2> DEFINE Twice == {j \in 1 .. n : \E k \in 1 .. n : j < k /\ p[j] = p[k]}
  <2>1. ASSUME Twice # {} PROVE FALSE
    <3>1. PICK j \in Twice : \A i \in Twice : j <= i
      <4>1. Twice \in SUBSET Nat
        OBVIOUS
      <4> HIDE DEF Twice
      <4>2. QED
        BY <2>1, <4>1, LeastIndex
    <3>2. PICK k \in 1 .. n : j < k /\ p[j] = p[k] /\ j \in 1 .. n
      OBVIOUS
    <3>3. \A i \in 2 .. n : i - 1 \in 1 .. n - 1 /\ i - 1 \in 1 .. n /\ (i - 1) + 1 = i
      BY <1>1
    <3>4. ASSUME NEW i \in 2 .. n
          PROVE  /\ p[i] = <<h.at[p[i - 1]].children, 0>> /\ p[i] # head
                 /\ h.at[p[i - 1]].children # Nil /\ p[i - 1] \in LiveAddrs(h)
      <4>1. p[i - 1] \in LiveAddrs(h) /\ 0 < get_child_count(h, p[i - 1])
            /\ p[i] = get_child(h, p[i - 1], 0)
        BY <1>1, <3>3
      <4>2. p[i - 1] \in Addr
        BY <4>1 DEF LiveAddrs
      <4>3. QED
        BY <4>1, <4>2, ChildFacts
    <3>5. k \in 2 .. n
      BY <3>2
    <3>6. j \in 2 .. n
      BY <1>1, <3>2, <3>4, <3>5
    <3>7. h.at[p[j - 1]].children = h.at[p[k - 1]].children
      BY <3>2, <3>4, <3>5, <3>6
    <3>8. p[j - 1] = p[k - 1]
      BY <1>2, <3>4, <3>5, <3>6, <3>7 DEF Storage
    <3>9. j - 1 \in Twice
      BY <3>2, <3>3, <3>5, <3>6, <3>8
    <3>10. QED
      BY <3>1, <3>2, <3>9
  <2>2. QED
    BY <2>1
<1>5. Cardinality(LiveAddrs(h)) = n
  <2>1. p \in Bijection(1 .. n, LiveAddrs(h))
    BY <1>1, <1>3, <1>4 DEF Bijection, Injection, Surjection, IsInjective
  <2>2. ExistsBijection(1 .. n, LiveAddrs(h))
    BY <2>1 DEF ExistsBijection
  <2>3. QED
    BY <1>1, <2>2, FS_CountingElements
<1>6. \A a \in LiveAddrs(h) : get_child_count(h, a) <= 1
  BY <1>1, <1>3
<1>7. QED
  BY <1>5, <1>6

LEMMA ListInvNext ==
  ASSUME ListInv, [Here \/ Elsewhere]_allVars
  PROVE  ListInv'
<1>1. /\ CliTypeOK /\ heap \in Heap /\ iteration \in Int /\ iteration <= 0
      /\ listing \in Seq(ListFrame)
      /\ listing # <<>> =>
           session = "cli" /\ running /\ calls = <<>> /\ Walks(heap, listing, iteration)
  BY DEF ListInv, CliTypeOK, TypeOK
<1>2. CliTypeOK'
  BY <1>1, CliTypeNext
<1>3. ASSUME iteration' <= 0, listing' = <<>>
      PROVE  ListInv'
  BY <1>2, <1>3 DEF ListInv
<1>4. CASE Run("cli") \/ Run("other") \/ End
  BY <1>3, <1>4 DEF Run, End
<1>5. CASE listing = <<>> /\ UNCHANGED cliVars
  BY <1>1, <1>3, <1>5 DEF cliVars
<1>6. CASE InLibrary
  BY <1>1, <1>5, <1>6, ProceedStays DEF InLibrary
<1>7. ASSUME iteration' <= 0, Walks(heap, listing', iteration'),
             session = "cli", running, calls = <<>>, UNCHANGED <<vars, session>>
      PROVE  ListInv'
  BY <1>2, <1>7 DEF ListInv, vars
<1>8. CASE Command
  <2>1. Prompt
    BY <1>8, CommandStays
  <2>2. CASE End
    BY <1>4, <2>2
  <2>3. CASE iteration' = iteration /\ listing' = listing
    BY <1>1, <1>3, <2>1, <2>3 DEF Prompt
  <2>4. CASE /\ listing' = <<List(head)>> /\ UNCHANGED vars
             /\ iteration' = iteration /\ session' = session
    BY <1>1, <1>7, <2>1, <2>4, WalksFromHead DEF Prompt, Idle
  <2>5. QED
    BY <1>8, <2>2, <2>3, <2>4, CommandStays
<1>9. CASE ListLine
  <2>1. iteration = 0 /\ iteration' = 0
    BY <1>1, <1>9 DEF ListLine
  <2>2. Walks(heap, listing', 0)
    BY <1>1, <1>9, <2>1, WalksLine DEF ListLine
  <2>3. QED
    BY <1>1, <1>7, <1>9, <2>1, <2>2 DEF ListLine
<1>10. CASE ListThrows
  BY <1>4, <1>10 DEF ListThrows
<1>11. CASE ListDescend
  <2>1. Walks(heap, listing', iteration)
    BY <1>1, <1>11, WalksDown DEF ListDescend
  <2>2. QED
    BY <1>1, <1>7, <1>11, <2>1 DEF ListDescend
<1>12. CASE ListReturn
  <2>1. iteration' = iteration - 1 /\ iteration' <= 0
    BY <1>1, <1>12 DEF ListReturn
  <2>2. CASE Len(listing) = 1
    BY <1>3, <1>12, <2>1, <2>2 DEF ListReturn
  <2>3. CASE Len(listing) # 1
    <3>1. ~(listing[1].i < get_child_count(heap, listing[1].task))
      <4>1. listing[1].task \in Addr /\ listing[1].i \in Nat
        BY <1>1, <1>12, FrameFacts DEF ListReturn
      <4>2. get_child_count(heap, listing[1].task) \in Nat
        BY <1>1, <4>1, CountType, BoundFacts
      <4>3. QED
        BY <1>12, <4>1, <4>2 DEF ListReturn
    <3>2. Walks(heap, listing', iteration - 1)
      BY <1>1, <1>12, <2>3, <3>1, WalksBack DEF ListReturn
    <3>3. QED
      BY <1>1, <1>7, <1>12, <2>1, <3>2 DEF ListReturn
  <2>4. QED
    BY <2>2, <2>3
<1>13. CASE session = "other" /\ Request /\ UNCHANGED cliVars
  BY <1>1, <1>5, <1>13
<1>14. CASE UNCHANGED allVars
  BY <1>1, <1>2, <1>14 DEF ListInv, allVars, vars, cliVars
<1>15. QED
  BY <1>4, <1>6, <1>8, <1>9, <1>10, <1>11, <1>12, <1>13, <1>14 DEF Here, Elsewhere, ListStep

LEMMA ListInvariant == CliSpec => []ListInv
<1>1. CliInit => ListInv
  BY CliTypeInit DEF CliInit, ListInv
<1>2. ListInv /\ [Here \/ Elsewhere]_allVars => ListInv'
  BY ListInvNext
<1>3. QED
  BY <1>1, <1>2, PTL DEF CliSpec

\* A list that writes all its lines was the first of its session, and of a tree
\* in which no task has two children, however long: the static counter is left
\* at minus the number of lines, so no later list of the session ends.
THEOREM OnlyChainsAreListed == CliSpec => ListEndsOnChains
<1>1. ASSUME ListInv, MemoryTree(heap), ListReturn, Len(listing) = 1
      PROVE  /\ iteration' = -Cardinality(LiveAddrs(heap))
             /\ \A a \in LiveAddrs(heap) : get_child_count(heap, a) <= 1
  <2>1. /\ heap \in Heap /\ iteration \in Int /\ listing \in Seq(ListFrame) /\ listing # <<>>
        /\ listing[1].written /\ Walks(heap, listing, iteration) /\ iteration' = iteration - 1
    BY <1>1 DEF ListInv, CliTypeOK, TypeOK, ListReturn
  <2>2. ~(listing[1].i < get_child_count(heap, listing[1].task))
    <3>1. listing[1].task \in Addr /\ listing[1].i \in Nat
      BY <2>1, FrameFacts
    <3>2. get_child_count(heap, listing[1].task) \in Nat
      BY <2>1, <3>1, CountType, BoundFacts
    <3>3. QED
      BY <1>1, <3>1, <3>2 DEF ListReturn
  <2>3. PICK n, p : /\ FirstsFrom(heap, p, n) /\ OnPath(heap, listing, iteration, p, n)
                    /\ ChainFrom(heap, p, n, Len(listing))
    BY <2>1, <2>2, ReturnFacts
  <2>4. n \in Nat /\ iteration = 1 - n /\ ChainFrom(heap, p, n, 1)
    BY <1>1, <2>3 DEF FirstsFrom, OnPath
  <2>5. /\ Cardinality(LiveAddrs(heap)) = n
        /\ \A a \in LiveAddrs(heap) : get_child_count(heap, a) <= 1
    BY <1>1, <2>1, <2>3, <2>4, ChainIsAll
  <2>6. QED
    BY <2>1, <2>4, <2>5
<1>2. ListInv /\ MemoryTree(heap) =>
        [ListReturn /\ Len(listing) = 1 =>
           /\ iteration' = -Cardinality(LiveAddrs(heap))
           /\ \A a \in LiveAddrs(heap) : get_child_count(heap, a) <= 1]_allVars
  BY <1>1
<1>3. CliSpec => []MemoryTree(heap)
  BY ProgramsUseTheTree, MemoryStaysATree, PTL
<1>4. QED
  BY <1>2, <1>3, ListInvariant, PTL DEF ListEndsOnChains
=============================================================================
