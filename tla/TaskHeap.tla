------------------------------ MODULE TaskHeap ------------------------------
(***************************************************************************)
(* The memory of one process as src/tasktree/task.hpp lays it out: Task    *)
(* objects held by value in std::vector<Task>, each with a raw pointer to  *)
(* its parent.  A vector's elements live in a buffer; growing the vector   *)
(* moves them to another buffer, erasing one shifts those after it, and    *)
(* neither touches a pointer that refers to the slots they leave.  A heap  *)
(* is                                                                      *)
(*   at   the task in each slot, Blank where no element lives,             *)
(*   len  how many elements each buffer holds (0 when it is free),         *)
(*   cap  how many it has room for (0 when it is free).                    *)
(* Growth is the doubling of libstdc++ and libc++; the allocator may hand  *)
(* out any free buffer, also one freed before.  Reading a dead slot shows  *)
(* a task without children, as a moved-from vector does; the crash it can  *)
(* cause instead is the caller's Stop.                                     *)
(***************************************************************************)
EXTENDS TaskTable

CONSTANTS
  Bufs,    \* the buffers the allocator has
  Nil,     \* the null pointer, and the buffer of an empty vector
  Root,    \* the block holding TaskTree::head, which is a member, in no vector
  MaxLen   \* bound: the largest vector

ASSUME BlocksAssumption == Nil \notin Bufs /\ Root \notin Bufs /\ Nil # Root
ASSUME LengthAssumption == MaxLen \in Nat /\ MaxId <= MaxLen

Slots == 0 .. MaxLen - 1
head == <<Root, 0>>
Addr == {head} \cup (Bufs \X Slots)

Task == [id        : RowIds \cup {0},
         name      : Names,
         completed : BOOLEAN,
         parent    : Addr \cup {Nil},
         children  : Bufs \cup {Nil}]

Heap == [at  : [Addr -> Task],
         len : [Bufs -> 0 .. MaxLen],
         cap : [Bufs -> 0 .. MaxLen]]

-----------------------------------------------------------------------------
NewTask(id, name, completed, parent) ==
  [id |-> id, name |-> name, completed |-> completed,
   parent |-> parent, children |-> Nil]

\* Task::Task(): what the head is.
Blank == NewTask(0, "", FALSE, Nil)

\* A TaskTree just constructed: the head task and no other.
EmptyHeap ==
  [at  |-> [a \in Addr |-> Blank],
   len |-> [b \in Bufs |-> 0],
   cap |-> [b \in Bufs |-> 0]]

Alive(h, a) == a = head \/ (a[1] \in Bufs /\ a[2] < h.len[a[1]])
LiveAddrs(h) == {a \in Addr : Alive(h, a)}
FreeBufs(h) == {b \in Bufs : h.cap[b] = 0}

get_child_count(h, a) ==
  IF h.at[a].children = Nil THEN 0 ELSE h.len[h.at[a].children]

get_child(h, a, i) == <<h.at[a].children, i>>

ChildAddrs(h, a) == {get_child(h, a, i) : i \in 0 .. get_child_count(h, a) - 1}

\* q is the task whose vector holds slot a.
Owns(h, q, a) == Alive(h, q) /\ h.at[q].children = a[1]

\* The parent pointer of the task at a leads to the task that holds it.
PointsToOwner(h, a) == h.at[a].parent \in Addr /\ Owns(h, h.at[a].parent, a)

-----------------------------------------------------------------------------
\* An assignment to fields of the task at a.
Assign(h, a, t) == [at |-> [h.at EXCEPT ![a] = t], len |-> h.len, cap |-> h.cap]

\* push_back with room to spare.
PushInPlace(h, a, t) ==
  LET b == h.at[a].children
  IN  [at  |-> [h.at EXCEPT ![<<b, h.len[b]>>] = t],
       len |-> [h.len EXCEPT ![b] = @ + 1],
       cap |-> h.cap]

\* push_back that reallocates: the elements move to the buffer new and the
\* old one is freed.
PushMoving(h, a, t, new) ==
  LET old == h.at[a].children
      n   == get_child_count(h, a)
      moved(x) ==
        IF x = a THEN [h.at[x] EXCEPT !.children = new]
        ELSE IF x = <<new, n>> THEN t
        ELSE IF x[1] = new /\ x[2] < n THEN h.at[<<old, x[2]>>]
        ELSE IF x[1] = old THEN Blank
        ELSE h.at[x]
      resized(f, v) ==
        [b \in Bufs |-> IF b = new THEN v ELSE IF b = old THEN 0 ELSE f[b]]
  IN  [at  |-> [x \in Addr |-> moved(x)],
       len |-> resized(h.len, n + 1),
       cap |-> resized(h.cap, IF n = 0 THEN 1 ELSE 2 * n)]

\* The heaps Task::add_child(t) on the task at a can lead to: parent is this.
add_child(h, a, t) ==
  LET child == [t EXCEPT !.parent = a]
      n     == get_child_count(h, a)
  IN  IF h.at[a].children # Nil /\ n < h.cap[h.at[a].children]
      THEN {PushInPlace(h, a, child)}
      ELSE {PushMoving(h, a, child, b) :
               b \in {x \in FreeBufs(h) : 2 * n <= MaxLen}}

-----------------------------------------------------------------------------
\* The buffers destroying a vector with buffer b frees: b and those of every
\* task below it.
Below(h, b) ==
  LET Closed(S) == \A x \in S : \A i \in 0 .. h.len[x] - 1 :
                     h.at[<<x, i>>].children \in S \cup {Nil}
  IN  {x \in Bufs : \A S \in SUBSET Bufs : b \in S /\ Closed(S) => x \in S}

\* children.erase(children.begin() + k) on the task at a: those after k move
\* down one slot, what k held is destroyed, and the last slot is vacated.
EraseChild(h, a, k) ==
  LET b      == h.at[a].children
      last   == h.len[b] - 1
      doomed == h.at[<<b, k>>].children
      freed  == IF doomed = Nil THEN {} ELSE Below(h, doomed)
      shifted(x) ==
        IF x[1] = b /\ k <= x[2] /\ x[2] < last THEN h.at[<<b, x[2] + 1>>]
        ELSE IF x = <<b, last>> \/ x[1] \in freed THEN Blank
        ELSE h.at[x]
  IN  [at  |-> [x \in Addr |-> shifted(x)],
       len |-> [x \in Bufs |-> IF x \in freed THEN 0
                               ELSE IF x = b THEN last ELSE h.len[x]],
       cap |-> [x \in Bufs |-> IF x \in freed THEN 0 ELSE h.cap[x]]]
=============================================================================
