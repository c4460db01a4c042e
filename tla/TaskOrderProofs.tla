-------------------------- MODULE TaskOrderProofs ---------------------------
(***************************************************************************)
(* Theorems about TaskOrder: what three unstable sorts leave is the order  *)
(* README.md promises, for lists of any length.                            *)
(***************************************************************************)
EXTENDS TaskOrder, FiniteSetTheorems, SequenceTheorems, WellFoundedInduction, TLAPS

-----------------------------------------------------------------------------
(* What a sort leaves. *)

\* The elements of s in the order q puts its places in.
Shuffled(s, q) == [i \in DOMAIN s |-> s[q[i]]]

\* q exchanges places of s from lo to hi.
Shuffles(s, lo, hi, q) ==
  /\ q \in [DOMAIN s -> DOMAIN s]
  /\ \A i, j \in DOMAIN s : q[i] = q[j] => i = j
  /\ \A i \in DOMAIN s \ (lo .. hi) : q[i] = i

\* t has the elements of s, those outside lo .. hi at their places, those inside
\* from inside.
Rearranges(s, lo, hi, t) ==
  /\ t \in Seq(Child) /\ Len(t) = Len(s) /\ DOMAIN t = 1 .. Len(s)
  /\ {t[i] : i \in DOMAIN t} = {s[i] : i \in DOMAIN s}
  /\ \A i \in DOMAIN s \ (lo .. hi) : t[i] = s[i]
  /\ \A i \in DOMAIN s \cap (lo .. hi) :
       \E j \in DOMAIN s \cap (lo .. hi) : t[i] = s[j]

\* What a shuffle leaves.
LEMMA ShuffleRearranges ==
  ASSUME NEW s \in Seq(Child), NEW lo \in Int, NEW hi \in Int,
         NEW q, Shuffles(s, lo, hi, q)
  PROVE  Rearranges(s, lo, hi, Shuffled(s, q))
<1> DEFINE t == Shuffled(s, q)
<1>1. Len(s) \in Nat /\ DOMAIN s = 1 .. Len(s) /\ \A i \in 1 .. Len(s) : s[i] \in Child
  OBVIOUS
<1>0. q \in [DOMAIN s -> DOMAIN s] /\ t = [i \in DOMAIN s |-> s[q[i]]]
  BY DEF Shuffles, Shuffled
<1> HIDE DEF t
<1>2. t \in [1 .. Len(s) -> Child]
  BY <1>1, <1>0
<1>3. t \in Seq(Child) /\ Len(t) = Len(s) /\ DOMAIN t = 1 .. Len(s)
  BY <1>1, <1>2, LenProperties, SeqDef
<1>4. \A j \in DOMAIN s : \E i \in DOMAIN s : q[i] = j
  <2>1. IsFiniteSet(DOMAIN s)
    <3>1. IsFiniteSet(1 .. Len(s))
      BY <1>1, FS_Interval
    <3>2. QED
      BY <1>1, <3>1
  <2>2. q \in Injection(DOMAIN s, DOMAIN s)
    BY DEF Shuffles, Injection, IsInjective
  <2>3. q \in Surjection(DOMAIN s, DOMAIN s)
    BY <2>1, <2>2, FS_Injection
  <2>4. QED
    BY <2>3 DEF Surjection
<1>5. \A i \in DOMAIN s : t[i] = s[q[i]] /\ q[i] \in DOMAIN s
  BY <1>0
<1>6. {t[i] : i \in DOMAIN t} = {s[i] : i \in DOMAIN s}
  <2>1. DOMAIN t = DOMAIN s
    BY <1>0
  <2>2. \A i \in DOMAIN s : \E j \in DOMAIN s : t[i] = s[j]
    BY <1>5, Zenon
  <2>3. \A j \in DOMAIN s : \E i \in DOMAIN s : s[j] = t[i]
    <3>1. SUFFICES ASSUME NEW j \in DOMAIN s
                   PROVE  \E i \in DOMAIN s : s[j] = t[i]
      BY Zenon
    <3>2. PICK i \in DOMAIN s : q[i] = j
      BY <1>4, Zenon
    <3>3. QED
      BY <1>5, <3>2
  <2>4. {t[i] : i \in DOMAIN s} = {s[i] : i \in DOMAIN s}
    <3>1. {t[i] : i \in DOMAIN s} \subseteq {s[i] : i \in DOMAIN s}
      BY <2>2
    <3>2. {s[i] : i \in DOMAIN s} \subseteq {t[i] : i \in DOMAIN s}
      BY <2>3
    <3>3. QED
      BY <3>1, <3>2
  <2>5. QED
    BY <2>1, <2>4
<1>7. ASSUME NEW i \in DOMAIN s \cap (lo .. hi)
      PROVE  q[i] \in DOMAIN s \cap (lo .. hi)
  <2>1. i \in DOMAIN s /\ q[i] \in DOMAIN s
    BY <1>5
  <2>2. CASE q[i] \notin lo .. hi
    <3>1. q[q[i]] = q[i]
      BY <2>1, <2>2 DEF Shuffles
    <3>2. q[i] = i
      BY <2>1, <3>1 DEF Shuffles
    <3>3. QED
      BY <2>2, <3>2
  <2>3. QED
    BY <2>1, <2>2
<1>8. \A i \in DOMAIN s \ (lo .. hi) : t[i] = s[i]
  BY <1>5 DEF Shuffles
<1>9. \A i \in DOMAIN s \cap (lo .. hi) :
        \E j \in DOMAIN s \cap (lo .. hi) : t[i] = s[j]
  BY <1>5, <1>7, Zenon
<1>10. QED
  <2>1. Rearranges(s, lo, hi, t)
    BY <1>3, <1>6, <1>8, <1>9, Zenon DEF Rearranges
  <2>2. QED
    BY <2>1 DEF t

\* Where the search for the first completed model ends.
LEMMA FirstCompletedFacts ==
  ASSUME NEW s \in Seq(Child)
  PROVE  LET k == first_completed(s)
         IN  /\ k \in 0 .. Len(s)
             /\ k = Len(s) \/ s[k + 1].completed
             /\ \A i \in 1 .. k : ~s[i].completed
<1> DEFINE Ends(k) == (k = Len(s) \/ s[k + 1].completed) /\ \A i \in 1 .. k : ~s[i].completed
           B == {k \in 0 .. Len(s) : k = Len(s) \/ s[k + 1].completed}
           R == {x \in Nat \X Nat : x[1] < x[2]}
<1>1. IsWellFoundedOn(R, Nat)
  BY NatLessThanWellFounded DEF OpToRel
<1>2. \A i, j \in Nat : i < j => <<i, j>> \in R
  OBVIOUS
<1>3. Len(s) \in Nat
  OBVIOUS
<1>4. B \in SUBSET Nat /\ B # {}
  BY <1>3
<1> HIDE DEF R
<1>5. PICK m \in B : \A i \in B : <<i, m>> \notin R
  BY <1>1, <1>4, WFMin
<1>6. ASSUME NEW i \in 1 .. m, s[i].completed
      PROVE  FALSE
  <2>1. i - 1 \in 0 .. Len(s) /\ (i - 1) + 1 = i /\ i - 1 < m /\ m \in Nat
    BY <1>3, <1>4
  <2>2. i - 1 \in B
    BY <1>6, <2>1
  <2>3. QED
    BY <1>2, <1>4, <1>5, <2>1, <2>2
<1>7. m \in 0 .. Len(s) /\ Ends(m)
  BY <1>5, <1>6
<1>8. first_completed(s) = CHOOSE k \in 0 .. Len(s) : Ends(k)
  BY DEF first_completed
<1> HIDE DEF Ends
<1>9. first_completed(s) \in 0 .. Len(s) /\ Ends(first_completed(s))
  BY <1>7, <1>8
<1>10. QED
  BY <1>9 DEF Ends

LEMMA LoadTasksOrders ==
  ASSUME NEW s \in Seq(Child), NEW u \in loadTasks(s)
  PROVE  /\ u \in Seq(Child) /\ Len(u) = Len(s)
         /\ {u[i] : i \in DOMAIN u} = {s[i] : i \in DOMAIN s}
         /\ \A i, j \in DOMAIN u : i < j => ~ShownBefore(u[j], u[i])
<1> DEFINE n == Len(s)
<1>1. n \in Nat
  OBVIOUS
<1>2. PICK byState \in Sorts(s, 1, n, OpenFirst) :
        \E halfway \in Sorts(byState, 1, first_completed(byState), OldestFirst) :
          u \in Sorts(halfway, first_completed(byState) + 1, Len(s), OldestFirst)
  BY DEF loadTasks
<1> DEFINE k == first_completed(byState)
<1>3. PICK halfway \in Sorts(byState, 1, k, OldestFirst) : u \in Sorts(halfway, k + 1, n, OldestFirst)
  BY <1>2
<1>4. /\ byState \in Seq(Child) /\ Len(byState) = n
      /\ {byState[i] : i \in DOMAIN byState} = {s[i] : i \in DOMAIN s}
      /\ \A i, j \in 1 .. n : i < j => ~OpenFirst(byState[j], byState[i])
  <2>1. PICK p :
          /\ Shuffles(s, 1, n, p)
          /\ \A i, j \in 1 .. n : i < j => ~OpenFirst(s[p[j]], s[p[i]])
          /\ byState = Shuffled(s, p)
    BY <1>2 DEF Sorts, Shuffles, Shuffled
  <2>2. Rearranges(s, 1, n, byState) /\ \A i \in DOMAIN s : byState[i] = s[p[i]]
    <3>1. 1 \in Int /\ n \in Int
      BY <1>1
    <3>2. Rearranges(s, 1, n, Shuffled(s, p))
      BY <2>1, <3>1, ShuffleRearranges, Zenon
    <3>3. \A i \in DOMAIN s : byState[i] = s[p[i]]
      BY <2>1 DEF Shuffled
    <3>4. QED
      BY <2>1, <3>2, <3>3, Zenon
  <2>3. DOMAIN s = 1 .. n
    OBVIOUS
  <2>4. \A i, j \in 1 .. n : i < j => ~OpenFirst(byState[j], byState[i])
    BY <2>1, <2>2, <2>3, Zenon
  <2>5. QED
    BY <2>2, <2>4, Zenon DEF Rearranges
<1>5. /\ k \in 0 .. n
      /\ k = n \/ byState[k + 1].completed
      /\ \A i \in 1 .. k : ~byState[i].completed
  BY <1>4, FirstCompletedFacts
<1> HIDE DEF k, n
<1>6. \A i \in k + 1 .. n : byState[i].completed
  <2>1. SUFFICES ASSUME NEW i \in k + 1 .. n PROVE byState[i].completed
    OBVIOUS
  <2>2. k + 1 \in 1 .. n /\ i \in 1 .. n /\ byState[k + 1].completed
    BY <1>1, <1>5
  <2>3. byState[i] \in Child
    BY <1>4, <2>2
  <2>4. CASE i = k + 1
    BY <2>2, <2>4
  <2>5. CASE i # k + 1
    <3>1. k + 1 < i
      BY <1>1, <1>5, <2>5
    <3>2. QED
      BY <1>4, <2>2, <2>3, <3>1 DEF OpenFirst, Child
  <2>6. QED
    BY <2>4, <2>5
<1>7. /\ halfway \in Seq(Child) /\ Len(halfway) = n
      /\ {halfway[i] : i \in DOMAIN halfway} = {s[i] : i \in DOMAIN s}
      /\ \A i \in 1 .. k : ~halfway[i].completed
      /\ \A i \in k + 1 .. n : halfway[i].completed
      /\ \A i, j \in 1 .. k : i < j => ~OldestFirst(halfway[j], halfway[i])
  <2>1. PICK p :
          /\ Shuffles(byState, 1, k, p)
          /\ \A i, j \in 1 .. k : i < j => ~OldestFirst(byState[p[j]], byState[p[i]])
          /\ halfway = Shuffled(byState, p)
    BY <1>3 DEF Sorts, Shuffles, Shuffled
  <2>2. Rearranges(byState, 1, k, halfway) /\ \A i \in DOMAIN byState : halfway[i] = byState[p[i]]
    <3>1. byState \in Seq(Child) /\ 1 \in Int /\ k \in Int
      BY <1>1, <1>4, <1>5
    <3>2. Rearranges(byState, 1, k, Shuffled(byState, p))
      BY <2>1, <3>1, ShuffleRearranges, Zenon
    <3>3. \A i \in DOMAIN byState : halfway[i] = byState[p[i]]
      BY <2>1 DEF Shuffled
    <3>4. QED
      BY <2>1, <3>2, <3>3, Zenon
  <2>3. DOMAIN byState = 1 .. n /\ 1 .. k \subseteq 1 .. n
    BY <1>1, <1>4, <1>5
  <2>4. 1 .. n \ 1 .. k = k + 1 .. n /\ 1 .. n \cap 1 .. k = 1 .. k
    BY <1>1, <1>5
  <2>5. \A i \in 1 .. k : \E j \in 1 .. k : halfway[i] = byState[j]
    BY <2>2, <2>3, <2>4, Zenon DEF Rearranges
  <2>6. \A i \in k + 1 .. n : halfway[i] = byState[i]
    BY <2>2, <2>3, <2>4, Zenon DEF Rearranges
  <2>7. \A i, j \in 1 .. k : i < j => ~OldestFirst(halfway[j], halfway[i])
    BY <2>1, <2>2, <2>3, Zenon
  <2>8. halfway \in Seq(Child) /\ Len(halfway) = n
    BY <1>4, <2>2, Zenon DEF Rearranges
  <2>9. {halfway[i] : i \in DOMAIN halfway} = {s[i] : i \in DOMAIN s}
    BY <1>4, <2>2, Zenon DEF Rearranges
  <2>10. QED
    BY <1>5, <1>6, <2>5, <2>6, <2>7, <2>8, <2>9, Zenon
<1>8. /\ u \in Seq(Child) /\ Len(u) = n
      /\ {u[i] : i \in DOMAIN u} = {s[i] : i \in DOMAIN s}
      /\ \A i \in 1 .. k : u[i] = halfway[i]
      /\ \A i \in k + 1 .. n : u[i].completed
      /\ \A i, j \in k + 1 .. n : i < j => ~OldestFirst(u[j], u[i])
  <2>1. PICK p :
          /\ Shuffles(halfway, k + 1, n, p)
          /\ \A i, j \in k + 1 .. n : i < j => ~OldestFirst(halfway[p[j]], halfway[p[i]])
          /\ u = Shuffled(halfway, p)
    BY <1>3 DEF Sorts, Shuffles, Shuffled
  <2>2. Rearranges(halfway, k + 1, n, u) /\ \A i \in DOMAIN halfway : u[i] = halfway[p[i]]
    <3>1. halfway \in Seq(Child) /\ k + 1 \in Int /\ n \in Int
      BY <1>1, <1>5, <1>7
    <3>2. Rearranges(halfway, k + 1, n, Shuffled(halfway, p))
      BY <2>1, <3>1, ShuffleRearranges, Zenon
    <3>3. \A i \in DOMAIN halfway : u[i] = halfway[p[i]]
      BY <2>1 DEF Shuffled
    <3>4. QED
      BY <2>1, <3>2, <3>3, Zenon
  <2>3. DOMAIN halfway = 1 .. n /\ k + 1 .. n \subseteq 1 .. n
    BY <1>1, <1>5, <1>7
  <2>4. 1 .. n \ (k + 1 .. n) = 1 .. k /\ 1 .. n \cap (k + 1 .. n) = k + 1 .. n
    BY <1>1, <1>5
  <2>5. \A i \in 1 .. k : u[i] = halfway[i]
    BY <2>2, <2>3, <2>4, Zenon DEF Rearranges
  <2>6. \A i \in k + 1 .. n : \E j \in k + 1 .. n : u[i] = halfway[j]
    BY <2>2, <2>3, <2>4, Zenon DEF Rearranges
  <2>7. \A i, j \in k + 1 .. n : i < j => ~OldestFirst(u[j], u[i])
    BY <2>1, <2>2, <2>3, Zenon
  <2>8. u \in Seq(Child) /\ Len(u) = n
    BY <1>7, <2>2, Zenon DEF Rearranges
  <2>9. {u[i] : i \in DOMAIN u} = {s[i] : i \in DOMAIN s}
    BY <1>7, <2>2, Zenon DEF Rearranges
  <2>10. QED
    BY <1>7, <2>5, <2>6, <2>7, <2>8, <2>9, Zenon
<1>9. ASSUME NEW i \in 1 .. n, NEW j \in 1 .. n, i < j
      PROVE  ~ShownBefore(u[j], u[i])
  <2>1. CASE j <= k
    <3>1. i \in 1 .. k /\ j \in 1 .. k
      BY <1>1, <1>5, <1>9, <2>1
    <3>2. QED
      BY <1>7, <1>8, <1>9, <3>1 DEF ShownBefore, OpenFirst
  <2>2. CASE i <= k /\ ~(j <= k)
    <3>1. i \in 1 .. k /\ j \in k + 1 .. n
      BY <1>1, <1>5, <2>2
    <3>2. ~u[i].completed /\ u[j].completed
      BY <1>7, <1>8, <3>1
    <3>3. QED
      BY <3>2 DEF ShownBefore, OpenFirst
  <2>3. CASE ~(i <= k) /\ ~(j <= k)
    <3>1. i \in k + 1 .. n /\ j \in k + 1 .. n
      BY <1>1, <1>5, <2>3
    <3>2. u[i].completed /\ u[j].completed /\ ~OldestFirst(u[j], u[i])
      BY <1>8, <1>9, <3>1
    <3>3. QED
      BY <3>2 DEF ShownBefore, OpenFirst
  <2>4. QED
    BY <1>1, <1>5, <1>9, <2>1, <2>2, <2>3
<1>10. DOMAIN u = 1 .. n
  BY <1>8
<1>11. QED
  BY <1>8, <1>9, <1>10 DEF n

-----------------------------------------------------------------------------
(* The list of the specification. *)

\* The invariant is inductive: every step but the clock's makes the list anew
\* from the children it leaves.
ListInv == TypeOK /\ ListOrdered

\* A refresh of well typed children.
LEMMA RefreshOrders ==
  ASSUME clock \in 0 .. MaxTime, children' \in Seq(Child), clock' = clock,
         list' \in loadTasks(children')
  PROVE  ListInv'
BY LoadTasksOrders, Zenon DEF ListInv, TypeOK, ListOrdered

LEMMA ListInvInit == Init => ListInv
<1>1. SUFFICES ASSUME Init PROVE ListInv
  OBVIOUS
<1>2. children = <<>> /\ list = <<>> /\ clock \in 0 .. MaxTime
  BY <1>1 DEF Init
<1>3. TypeOK
  BY <1>2 DEF TypeOK
<1>4. Len(list) = Len(children) /\ DOMAIN list = {} /\ DOMAIN children = {}
  BY <1>2
<1>5. QED
  BY <1>3, <1>4 DEF ListInv, ListOrdered

LEMMA ListInvNext == ListInv /\ [Next]_vars => ListInv'
<1>1. SUFFICES ASSUME ListInv, [Next]_vars PROVE ListInv'
  OBVIOUS
<1>2. children \in Seq(Child) /\ clock \in 0 .. MaxTime /\ list \in Seq(Child)
  BY <1>1 DEF ListInv, TypeOK
<1>3. CASE refreshTasks
  BY <1>2, <1>3, RefreshOrders, Zenon DEF refreshTasks
<1>4. CASE Tick
  <2>1. children' = children /\ list' = list /\ clock' \in 0 .. MaxTime
    BY <1>4 DEF Tick
  <2>2. QED
    BY <1>1, <2>1 DEF ListInv, TypeOK, ListOrdered
<1>5. ASSUME NEW id \in Ids, addTask(id)
      PROVE  ListInv'
  <2>1. NewChild(id, clock) \in Child
    BY <1>2 DEF NewChild, Child
  <2>2. children' \in Seq(Child)
    BY <1>2, <1>5, <2>1 DEF addTask
  <2>3. QED
    BY <1>2, <1>5, <2>2, RefreshOrders, Zenon DEF addTask
<1>6. ASSUME NEW id \in Ids, deleteTask(id)
      PROVE  ListInv'
  <2>1. PICK i \in DOMAIN children :
          children' = SubSeq(children, 1, i - 1) \o SubSeq(children, i + 1, Len(children))
    BY <1>6 DEF deleteTask
  <2>2. i \in 1 .. Len(children) /\ Len(children) \in Nat
    BY <1>2
  <2>3. SubSeq(children, 1, i - 1) \in Seq(Child)
    BY <1>2, <2>2, SubSeqProperties
  <2>4. SubSeq(children, i + 1, Len(children)) \in Seq(Child)
    BY <1>2, <2>2, SubSeqProperties
  <2>5. children' \in Seq(Child)
    BY <2>1, <2>3, <2>4, ConcatProperties
  <2>6. QED
    BY <1>2, <1>6, <2>5, RefreshOrders, Zenon DEF deleteTask
<1>7. ASSUME NEW id \in Ids, setTaskCompleted(id)
      PROVE  ListInv'
  <2>1. \A i \in DOMAIN children :
          [children[i] EXCEPT !.completed = ~children[i].completed] \in Child
    <3>1. \A t \in Child : [t EXCEPT !.completed = ~t.completed] \in Child
      BY DEF Child
    <3>2. QED
      BY <1>2, <3>1
  <2>2. children' \in [1 .. Len(children) -> Child]
    BY <1>2, <1>7, <2>1 DEF setTaskCompleted
  <2>3. children' \in Seq(Child)
    BY <1>2, <2>2, LenProperties, SeqDef
  <2>4. QED
    BY <1>2, <1>7, <2>3, RefreshOrders, Zenon DEF setTaskCompleted
<1>8. CASE UNCHANGED vars
  <2>1. children' = children /\ list' = list /\ clock' = clock
    BY <1>8 DEF vars
  <2>2. QED
    BY <1>1, <2>1 DEF ListInv, TypeOK, ListOrdered
<1>9. QED
  BY <1>1, <1>3, <1>4, <1>5, <1>6, <1>7, <1>8 DEF Next

\* Every state has a list in order.
LEMMA ListInvariant == Spec => []ListInv
BY ListInvInit, ListInvNext, PTL DEF Spec

\* The list and the children of the current task stay well formed: a refresh puts
\* nothing in the list but the children.
THEOREM ListTypeCorrect == Spec => []TypeOK
BY ListInvariant, PTL DEF ListInv

\* The window shows every child once, the open ones first and each part
\* from the oldest on, however many children there are, whatever the three
\* sorts of Backend::loadTasks do with those that compare equal, and however
\* the clock is set.
THEOREM ListIsOrdered == Spec => []ListOrdered
BY ListInvariant, PTL DEF ListInv

-----------------------------------------------------------------------------
(* From one list to the next. *)

\* Two tasks created at different seconds have their places by their data alone.
LEMMA PlacesFollowData ==
  ASSUME NEW s \in Seq(Child), NEW i \in DOMAIN s, NEW j \in DOMAIN s,
         \A a, b \in DOMAIN s : a < b => ~ShownBefore(s[b], s[a]),
         s[i].created # s[j].created
  PROVE  i < j <=> ShownBefore(s[i], s[j])
<1>1. i \in Nat /\ j \in Nat /\ i # j /\ s[i] \in Child /\ s[j] \in Child
  OBVIOUS
<1>2. /\ s[i].created \in Int /\ s[j].created \in Int
      /\ s[i].completed \in BOOLEAN /\ s[j].completed \in BOOLEAN
  <2>1. \A t \in Child : t.created \in 0 .. MaxTime /\ t.completed \in BOOLEAN
    BY DEF Child
  <2>2. QED
    BY <1>1, <2>1
<1>3. ShownBefore(s[i], s[j]) \/ ShownBefore(s[j], s[i])
  BY <1>2 DEF ShownBefore, OpenFirst, OldestFirst
<1>4. ~(ShownBefore(s[i], s[j]) /\ ShownBefore(s[j], s[i]))
  BY <1>2 DEF ShownBefore, OpenFirst, OldestFirst
<1>5. CASE i < j
  BY <1>3, <1>5
<1>6. CASE j < i
  BY <1>1, <1>6
<1>7. QED
  BY <1>1, <1>5, <1>6

\* Marking, adding or deleting a task, a refresh, and setting the clock leave
\* two other tasks of the list, created at different seconds, as they stood to
\* one another.
THEOREM OthersStayInOrder == Spec => OthersKeepTheirOrder
<1> DEFINE Kept ==
      \A x, y \in Ids :
       /\ Shows(list, x) /\ Shows(list, y) /\ Shows(list', x) /\ Shows(list', y)
       /\ list[PlaceIn(list, x)] = list'[PlaceIn(list', x)]
       /\ list[PlaceIn(list, y)] = list'[PlaceIn(list', y)]
       /\ list[PlaceIn(list, x)].created # list[PlaceIn(list, y)].created
       => (PlaceIn(list, x) < PlaceIn(list, y)) = (PlaceIn(list', x) < PlaceIn(list', y))
<1>1. ListInv /\ ListInv' => Kept
  <2>1. SUFFICES ASSUME ListInv, ListInv',
                        NEW x \in Ids, NEW y \in Ids,
                        Shows(list, x), Shows(list, y), Shows(list', x), Shows(list', y),
                        list[PlaceIn(list, x)] = list'[PlaceIn(list', x)],
                        list[PlaceIn(list, y)] = list'[PlaceIn(list', y)],
                        list[PlaceIn(list, x)].created # list[PlaceIn(list, y)].created
                 PROVE  (PlaceIn(list, x) < PlaceIn(list, y)) =
                          (PlaceIn(list', x) < PlaceIn(list', y))
    BY Zenon
  <2>2. \A s : \A id : Shows(s, id) => PlaceIn(s, id) \in DOMAIN s
    BY Zenon DEF Shows, PlaceIn
  <2>3. /\ list \in Seq(Child) /\ list' \in Seq(Child)
        /\ \A a, b \in DOMAIN list : a < b => ~ShownBefore(list[b], list[a])
        /\ \A a, b \in DOMAIN list' : a < b => ~ShownBefore(list'[b], list'[a])
    BY <2>1, Zenon DEF ListInv, TypeOK, ListOrdered
  <2> DEFINE i == PlaceIn(list, x)
             j == PlaceIn(list, y)
             k == PlaceIn(list', x)
             l == PlaceIn(list', y)
  <2>4. i \in DOMAIN list /\ j \in DOMAIN list /\ k \in DOMAIN list' /\ l \in DOMAIN list'
    BY <2>1, <2>2, Zenon
  <2>5. list[i] = list'[k] /\ list[j] = list'[l] /\ list[i].created # list[j].created
    BY <2>1
  <2> HIDE DEF i, j, k, l
  <2>6. i < j <=> ShownBefore(list[i], list[j])
    BY <2>3, <2>4, <2>5, PlacesFollowData, Zenon
  <2>7. k < l <=> ShownBefore(list'[k], list'[l])
    BY <2>3, <2>4, <2>5, PlacesFollowData, Zenon
  <2>8. (i < j) = (k < l)
    BY <2>5, <2>6, <2>7
  <2>9. QED
    BY <2>8 DEF i, j, k, l
<1>2. QED
  BY ListInvariant, <1>1, PTL DEF OthersKeepTheirOrder
=============================================================================
