-------------------------- MODULE StatementsProofs --------------------------
(***************************************************************************)
(* Theorems about Statements, for any number of programs, tasks and names  *)
(* and any depth of recursion: the wrappers' statements are atomic as      *)
(* TaskTree takes them to be.                                              *)
(***************************************************************************)
EXTENDS Statements, SequenceTheorems, TLAPS

(* What holds of one program's statements q on the table t. *)

\* A scan that is under way has every row it has passed, as the table still
\* has it, and descends into none of them.
Snapshot(t, s) ==
  /\ s.rc \in {"ready", "row"} =>
       /\ DOMAIN s.got = {i \in ChildRows(t, s.parent) : i <= s.last}
       /\ \A i \in DOMAIN s.got : s.got[i] = t[i]
       /\ s.left = DOMAIN s.got
  /\ s.rc = "ready" => s.last = 0
  /\ s.left \subseteq DOMAIN s.got

\* A call that waits for one below it has stepped its statement to the end or
\* to an error, and has descended into one of its tasks.
Waits(s) == s.rc \in {"done", "error"} /\ s.left # DOMAIN s.got

Kept(t, q) ==
  /\ \A j \in 1 .. Len(q) : Snapshot(t, q[j])
  /\ \A j \in 2 .. Len(q) : Waits(q[j])

\* An error that was met is on the stack until the constructor throws.
ErrorSeen(q) == \E j \in 1 .. Len(q) : q[j].rc = "error"

Inv ==
  /\ StatementsTypeOK
  /\ \A c \in Conns : Kept(rows, stmts[c])
  /\ \A c \in Conns : ~whole[c] => phase[c] = "closed" \/ ErrorSeen(stmts[c])

-----------------------------------------------------------------------------
(* Sequences of statements. *)

LEMMA TablesAre == ASSUME NEW t PROVE t \in Tables <=> IsTable(t)
BY DEF Tables, IsTable

LEMMA EmptyTableType == IsTable(EmptyTable)
BY DEF IsTable, EmptyTable

LEMMA WriteType ==
  ASSUME NEW t, IsTable(t), NEW u \in AfterWrite(t)
  PROVE  IsTable(u)
<1>1. CASE \E id \in {i \in RowIds : IsNewRowid(t, i)}, parent \in RowIds \cup {0},
              name \in Names : u = Insert(t, id, parent, name)
  BY <1>1 DEF IsTable, Insert, Row
<1>2. CASE \E id \in RowIds : u = Delete(t, id)
  BY <1>2 DEF IsTable, Delete
<1>3. CASE \/ \E id \in RowIds, name \in Names : u = UpdateName(t, id, name)
           \/ \E id \in RowIds, completed \in BOOLEAN : u = UpdateCompleted(t, id, completed)
  BY <1>3 DEF IsTable, UpdateName, UpdateCompleted, Row
<1>4. QED
  BY <1>1, <1>2, <1>3 DEF AfterWrite

LEMMA SelectType ==
  ASSUME NEW parent \in RowIds \cup {0}
  PROVE  Select(parent) \in Stmt
<1>1. EmptyTable \in Tables
  BY TablesAre, EmptyTableType
<1>2. QED
  BY <1>1 DEF Select, Stmt

\* The innermost statement, and those it waits for.
LEMMA StackTop ==
  ASSUME NEW q \in Seq(Stmt), q # <<>>
  PROVE  /\ q[1] \in Stmt
         /\ Len(q) \in Nat \ {0}
         /\ 1 \in 1 .. Len(q)
         /\ \A j \in 1 .. Len(q) : q[j] \in Stmt
OBVIOUS

LEMMA WithTop ==
  ASSUME NEW q \in Seq(Stmt), q # <<>>, NEW s \in Stmt, NEW t,
         Kept(t, q), Snapshot(t, s)
  PROVE  /\ [q EXCEPT ![1] = s] \in Seq(Stmt)
         /\ [q EXCEPT ![1] = s] # <<>>
         /\ Len([q EXCEPT ![1] = s]) = Len(q)
         /\ [q EXCEPT ![1] = s][1] = s
         /\ Kept(t, [q EXCEPT ![1] = s])
<1> DEFINE r == [q EXCEPT ![1] = s]
<1>1. /\ Len(q) \in Nat \ {0}
      /\ q \in [1 .. Len(q) -> Stmt]
  OBVIOUS
<1>2. r \in [1 .. Len(q) -> Stmt]
  BY <1>1
<1>3. r \in Seq(Stmt) /\ Len(r) = Len(q)
  BY <1>1, <1>2, SeqDef
<1>4. r[1] = s /\ \A j \in 2 .. Len(q) : r[j] = q[j]
  BY <1>1
<1>5. \A j \in 1 .. Len(r) : Snapshot(t, r[j])
  BY <1>1, <1>3, <1>4 DEF Kept
<1>6. \A j \in 2 .. Len(r) : Waits(r[j])
  BY <1>1, <1>3, <1>4 DEF Kept
<1>7. QED
  BY <1>1, <1>3, <1>4, <1>5, <1>6 DEF Kept

LEMMA PushStatement ==
  ASSUME NEW q \in Seq(Stmt), q # <<>>, NEW t, Kept(t, q), Waits(q[1]),
         NEW s \in Stmt, Snapshot(t, s)
  PROVE  /\ <<s>> \o q \in Seq(Stmt)
         /\ <<s>> \o q # <<>>
         /\ (<<s>> \o q)[1] = s
         /\ Kept(t, <<s>> \o q)
         /\ ErrorSeen(q) => ErrorSeen(<<s>> \o q)
<1> DEFINE r == <<s>> \o q
<1>1. /\ r \in Seq(Stmt) /\ Len(q) \in Nat \ {0} /\ Len(r) = Len(q) + 1
      /\ r[1] = s
      /\ \A j \in 2 .. Len(r) : r[j] = q[j - 1] /\ j - 1 \in 1 .. Len(q)
  OBVIOUS
<1>2. \A j \in 1 .. Len(r) : Snapshot(t, r[j])
  <2>1. TAKE j \in 1 .. Len(r)
  <2>2. CASE j = 1
    BY <1>1, <2>2
  <2>3. CASE j # 1
    BY <1>1, <2>3 DEF Kept
  <2>4. QED
    BY <2>2, <2>3
<1>3. \A j \in 2 .. Len(r) : Waits(r[j])
  <2>1. TAKE j \in 2 .. Len(r)
  <2>2. CASE j = 2
    BY <1>1, <2>2
  <2>3. CASE j # 2
    BY <1>1, <2>3 DEF Kept
  <2>4. QED
    BY <2>2, <2>3
<1>4. ErrorSeen(q) => ErrorSeen(r)
  <2>1. \A j \in 1 .. Len(q) : j + 1 \in 1 .. Len(r) /\ r[j + 1] = q[j]
    BY <1>1
  <2>2. QED
    BY <2>1 DEF ErrorSeen
<1>5. r # <<>>
  OBVIOUS
<1>6. Kept(t, r)
  BY <1>2, <1>3 DEF Kept
<1>7. QED
  BY <1>1, <1>4, <1>5, <1>6

LEMMA PopStatement ==
  ASSUME NEW q \in Seq(Stmt), q # <<>>, NEW t, Kept(t, q), q[1].rc = "done"
  PROVE  /\ Tail(q) \in Seq(Stmt)
         /\ (Tail(q) = <<>>) <=> (Len(q) = 1)
         /\ Kept(t, Tail(q))
         /\ Tail(q) # <<>> => Waits(Tail(q)[1])
         /\ ErrorSeen(q) => ErrorSeen(Tail(q))
<1> DEFINE r == Tail(q)
<1>1. /\ r \in Seq(Stmt) /\ Len(q) \in Nat \ {0} /\ Len(r) = Len(q) - 1
      /\ \A j \in 1 .. Len(r) : r[j] = q[j + 1] /\ j + 1 \in 2 .. Len(q)
      /\ \A j \in 2 .. Len(q) : q[j] = r[j - 1] /\ j - 1 \in 1 .. Len(r)
  OBVIOUS
<1>2. (r = <<>>) <=> (Len(q) = 1)
  <2>1. Len(r) = 0 <=> Len(q) = 1
    BY <1>1
  <2>2. r # <<>> => Len(r) # 0
    BY <1>1
  <2>3. r = <<>> => Len(r) = 0
    <3>1. Len(<<>>) = 0
      OBVIOUS
    <3>2. QED
      BY <3>1, Zenon
  <2>4. QED
    BY <2>1, <2>2, <2>3
<1>3. \A j \in 1 .. Len(r) : Waits(r[j]) /\ Snapshot(t, r[j])
  BY <1>1 DEF Kept
<1>4. r # <<>> => 1 \in 1 .. Len(r)
  BY <1>1
<1>5. ErrorSeen(q) => ErrorSeen(r)
  BY <1>1 DEF ErrorSeen
<1>6. QED
  BY <1>1, <1>2, <1>3, <1>4, <1>5 DEF Kept

LEMMA ErrorStays ==
  ASSUME NEW q \in Seq(Stmt), q # <<>>, NEW s \in Stmt, q[1].rc = "error" => s.rc = "error",
         ErrorSeen(q)
  PROVE  ErrorSeen([q EXCEPT ![1] = s])
<1> DEFINE r == [q EXCEPT ![1] = s]
<1>1. /\ Len(q) \in Nat \ {0}
      /\ q \in [1 .. Len(q) -> Stmt]
  OBVIOUS
<1>2. r \in [1 .. Len(q) -> Stmt]
  BY <1>1
<1>3. Len(r) = Len(q)
  BY <1>1, <1>2, SeqDef
<1>4. r[1] = s /\ \A j \in 2 .. Len(q) : r[j] = q[j]
  BY <1>1
<1>5. PICK j \in 1 .. Len(q) : q[j].rc = "error"
  BY DEF ErrorSeen
<1>6. CASE j = 1
  BY <1>1, <1>3, <1>4, <1>5, <1>6 DEF ErrorSeen
<1>7. CASE j # 1
  BY <1>1, <1>3, <1>4, <1>5, <1>7 DEF ErrorSeen
<1>8. QED
  BY <1>6, <1>7

-----------------------------------------------------------------------------
(* One statement that is stepped. *)

LEMMA SelectKept ==
  ASSUME IsTable(rows), NEW parent \in RowIds \cup {0}
  PROVE  Snapshot(rows, Select(parent))
BY MaxIdAssumption DEF Snapshot, Select, EmptyTable, ChildRows, IsTable, RowIds

LEMMA TakenType ==
  ASSUME IsTable(rows), NEW s \in Stmt, NEW id \in Ahead(s)
  PROVE  Taken(s, id) \in Stmt
<1> DEFINE got == [i \in DOMAIN s.got \cup {id} |-> IF i = id THEN rows[id] ELSE s.got[i]]
<1>1. id \in RowIds /\ rows[id] \in Row
  BY DEF Ahead, ChildRows, IsTable
<1>2. s.left \cup {id} \in SUBSET RowIds
  BY <1>1 DEF Stmt
<1>3. IsTable(s.got)
  BY TablesAre DEF Stmt
<1>4. IsTable(got)
  BY <1>1, <1>3 DEF IsTable
<1>5. got \in Tables
  BY <1>4, TablesAre
<1>6. QED
  BY <1>1, <1>2, <1>5 DEF Taken, Stmt

LEMMA TakenKept ==
  ASSUME IsTable(rows), NEW s \in Stmt, Snapshot(rows, s), s.rc \in {"ready", "row"},
         NEW id \in Ahead(s), \A other \in Ahead(s) : id <= other
  PROVE  Snapshot(rows, Taken(s, id))
<1> DEFINE t == Taken(s, id)
<1>1. /\ t.rc = "row" /\ t.last = id /\ t.parent = s.parent
      /\ t.left = s.left \cup {id}
      /\ DOMAIN t.got = DOMAIN s.got \cup {id}
      /\ \A i \in DOMAIN t.got : t.got[i] = IF i = id THEN rows[id] ELSE s.got[i]
  BY DEF Taken, Stmt
<1>2. /\ ChildRows(rows, s.parent) \subseteq Int
      /\ s.last \in Int
  BY MaxIdAssumption DEF ChildRows, IsTable, RowIds, Stmt
<1>3. DOMAIN s.got = {i \in ChildRows(rows, s.parent) : i <= s.last}
  BY DEF Snapshot
<1>4. \A i \in ChildRows(rows, s.parent) : i <= id <=> i \in DOMAIN s.got \/ i = id
  BY <1>2, <1>3 DEF Ahead
<1>5. DOMAIN t.got = {i \in ChildRows(rows, s.parent) : i <= id}
  BY <1>1, <1>3, <1>4 DEF Ahead
<1>6. \A i \in DOMAIN t.got : t.got[i] = rows[i]
  BY <1>1 DEF Snapshot
<1>7. t.left = DOMAIN t.got
  BY <1>1 DEF Snapshot
<1> HIDE DEF t
<1>8. Snapshot(rows, t)
  BY <1>1, <1>5, <1>6, <1>7 DEF Snapshot
<1>9. QED
  BY <1>8 DEF t

LEMMA EndedKept ==
  ASSUME NEW s \in Stmt, NEW t, Snapshot(t, s), NEW rc \in {"done", "error"}
  PROVE  /\ [s EXCEPT !.rc = rc] \in Stmt
         /\ Snapshot(t, [s EXCEPT !.rc = rc])
BY DEF Snapshot, Stmt

\* What a scan that comes to no more rows has is the whole answer.
LEMMA WholeAnswer ==
  ASSUME IsTable(rows), NEW s \in Stmt, Snapshot(rows, s), s.rc \in {"ready", "row"},
         Ahead(s) = {}
  PROVE  /\ s.got = [i \in ChildRows(rows, s.parent) |-> rows[i]]
         /\ s.left = DOMAIN s.got
<1>1. /\ ChildRows(rows, s.parent) \subseteq Int
      /\ s.last \in Int
  BY MaxIdAssumption DEF ChildRows, IsTable, RowIds, Stmt
<1>2. DOMAIN s.got = ChildRows(rows, s.parent)
  BY <1>1 DEF Ahead, Snapshot
<1>3. IsTable(s.got)
  BY TablesAre DEF Stmt
<1>4. s.got = [i \in DOMAIN s.got |-> s.got[i]]
  BY <1>3 DEF IsTable
<1>5. QED
  BY <1>2, <1>4 DEF Snapshot

\* A statement that holds no lock does not depend on the table.
LEMMA NoLockKept ==
  ASSUME NEW t, NEW u, IsTable(t), IsTable(u), NEW s \in Stmt, Snapshot(t, s), ~Holds(s)
  PROVE  Snapshot(u, s)
<1>1. s.rc = "ready" => \A i \in RowIds : ~(i <= s.last)
  BY MaxIdAssumption DEF Snapshot, RowIds
<1>2. s.rc = "ready" => DOMAIN s.got = {} /\ {i \in ChildRows(u, s.parent) : i <= s.last} = {}
  BY <1>1 DEF Snapshot, ChildRows, IsTable
<1>3. QED
  BY <1>2 DEF Snapshot, Holds

-----------------------------------------------------------------------------
(* The steps.  Each keeps Inv, and is a step of AtomicTable or none. *)

Simulates == [Table!Next]_<<rows, answers>>

LEMMA InitInv == Init => Inv
<1> SUFFICES ASSUME Init PROVE Inv
  OBVIOUS
<1>1. StatementsTypeOK
  BY EmptyTableType DEF Init, StatementsTypeOK
<1>2. \A c \in Conns : Kept(rows, stmts[c])
  BY DEF Init, Kept
<1>3. QED
  BY <1>1, <1>2 DEF Init, Inv

\* A step that changes the statements of one program to q, and not the table.
LEMMA StatementsOfOne ==
  ASSUME Inv, NEW c \in Conns, NEW q \in Seq(Stmt), Kept(rows, q),
         stmts' = [stmts EXCEPT ![c] = q], rows' = rows
  PROVE  /\ stmts' \in [Conns -> Seq(Stmt)]
         /\ \A d \in Conns : Kept(rows', stmts'[d])
         /\ stmts'[c] = q
         /\ \A d \in Conns \ {c} : stmts'[d] = stmts[d]
         /\ answers' = [answers EXCEPT ![c] = AnswerOf(q)]
<1>1. stmts \in [Conns -> Seq(Stmt)]
  BY DEF Inv, StatementsTypeOK
<1>2. /\ stmts' \in [Conns -> Seq(Stmt)]
      /\ stmts'[c] = q
      /\ \A d \in Conns \ {c} : stmts'[d] = stmts[d]
  BY <1>1
<1>3. \A d \in Conns : Kept(rows', stmts'[d])
  <2>1. TAKE d \in Conns
  <2>2. CASE d = c
    BY <1>2, <2>2
  <2>3. CASE d # c
    BY <1>2, <2>3 DEF Inv
  <2>4. QED
    BY <2>2, <2>3
<1>4. answers' = [answers EXCEPT ![c] = AnswerOf(q)]
  <2>1. answers' = [d \in Conns |-> AnswerOf(stmts'[d])]
    BY DEF answers
  <2>2. \A d \in Conns : AnswerOf(stmts'[d]) = IF d = c THEN AnswerOf(q) ELSE answers[d]
    BY <1>2 DEF answers
  <2>3. QED
    BY <2>1, <2>2 DEF answers
<1>5. QED
  BY <1>2, <1>3, <1>4

\* Such a step that leaves the program without an answer.
LEMMA NoAnswer ==
  ASSUME NEW c \in Conns, answers' = [answers EXCEPT ![c] = {}], rows' = rows
  PROVE  Simulates
BY DEF Simulates, Table!Next, Table!Forget

LEMMA UnwindKeeps ==
  ASSUME Inv, NEW c \in Conns, Unwind(c)
  PROVE  Inv' /\ Simulates
<1>1. Kept(rows, <<>>) /\ <<>> \in Seq(Stmt) /\ AnswerOf(<<>>) = {}
  BY DEF Kept, AnswerOf
<1>2. /\ stmts' \in [Conns -> Seq(Stmt)]
      /\ \A d \in Conns : Kept(rows', stmts'[d])
      /\ stmts'[c] = <<>>
      /\ \A d \in Conns \ {c} : stmts'[d] = stmts[d]
      /\ answers' = [answers EXCEPT ![c] = {}]
  BY <1>1, StatementsOfOne DEF Unwind
<1>3. StatementsTypeOK'
  BY <1>2 DEF Inv, StatementsTypeOK, Unwind
<1>4. \A d \in Conns : ~whole'[d] => phase'[d] = "closed" \/ ErrorSeen(stmts'[d])
  BY <1>2 DEF Inv, StatementsTypeOK, Unwind
<1>5. Simulates
  BY <1>2, NoAnswer DEF Unwind
<1>6. QED
  BY <1>2, <1>3, <1>4, <1>5 DEF Inv

LEMMA OpenKeeps ==
  ASSUME Inv, NEW c \in Conns, Open(c)
  PROVE  Inv' /\ Simulates
<1>1. StatementsTypeOK'
  BY DEF Inv, StatementsTypeOK, Open
<1>2. \A d \in Conns : Kept(rows', stmts'[d])
  BY DEF Inv, Open
<1>3. \A d \in Conns : ~whole'[d] => phase'[d] = "closed" \/ ErrorSeen(stmts'[d])
  BY DEF Inv, StatementsTypeOK, Open
<1>4. Simulates
  BY DEF Simulates, Open, answers
<1>5. QED
  BY <1>1, <1>2, <1>3, <1>4 DEF Inv

LEMMA LoadColumnsKeeps ==
  ASSUME Inv, NEW c \in Conns, LoadColumns(c)
  PROVE  Inv' /\ Simulates
<1> DEFINE q == <<Select(0)>>
<1>1. IsTable(rows) /\ Select(0) \in Stmt /\ Snapshot(rows, Select(0))
  BY SelectType, SelectKept DEF Inv, StatementsTypeOK
<1>2. /\ q \in Seq(Stmt) /\ q # <<>> /\ Len(q) = 1 /\ q[1] = Select(0)
  BY <1>1
<1>3. Kept(rows, q)
  BY <1>1, <1>2 DEF Kept
<1>4. AnswerOf(q) = {}
  BY <1>2 DEF AnswerOf, Select
<1>5. stmts' = [stmts EXCEPT ![c] = q] /\ rows' = rows
  BY DEF LoadColumns
<1> HIDE DEF q
<1>6. /\ stmts' \in [Conns -> Seq(Stmt)]
      /\ \A d \in Conns : Kept(rows', stmts'[d])
      /\ stmts'[c] = q
      /\ \A d \in Conns \ {c} : stmts'[d] = stmts[d]
      /\ answers' = [answers EXCEPT ![c] = {}]
  BY <1>2, <1>3, <1>4, <1>5, StatementsOfOne
<1>7. StatementsTypeOK'
  BY <1>2, <1>6 DEF Inv, StatementsTypeOK, LoadColumns
<1>8. \A d \in Conns : ~whole'[d] => phase'[d] = "closed" \/ ErrorSeen(stmts'[d])
  <2>1. ~ErrorSeen(<<>>)
    BY DEF ErrorSeen
  <2>2. stmts[c] = <<>> /\ phase[c] # "closed"
    BY DEF Inv, StatementsTypeOK, LoadColumns
  <2>3. QED
    BY <1>6, <2>1, <2>2 DEF Inv, StatementsTypeOK, LoadColumns
<1>9. QED
  BY <1>5, <1>6, <1>7, <1>8, NoAnswer DEF Inv

\* A step of sqlite3_step of the innermost statement of c, which makes s of it.
LEMMA SetTopKeeps ==
  ASSUME Inv, NEW c \in Conns, Stepping(c), NEW s \in Stmt, Snapshot(rows, s), SetTop(c, s),
         UNCHANGED <<rows, phase, columns>>,
         whole' = whole \/ (s.rc = "error" /\ whole' = [whole EXCEPT ![c] = FALSE])
  PROVE  /\ Inv'
         /\ answers' = [answers EXCEPT ![c] = AnswerOf([stmts[c] EXCEPT ![1] = s])]
<1> DEFINE q == [stmts[c] EXCEPT ![1] = s]
<1>1. stmts[c] \in Seq(Stmt) /\ stmts[c] # <<>> /\ Kept(rows, stmts[c])
  BY DEF Inv, StatementsTypeOK, Stepping
<1>2. q \in Seq(Stmt) /\ q # <<>> /\ Len(q) \in Nat \ {0} /\ q[1] = s /\ Kept(rows, q)
  BY <1>1, WithTop
<1>3. stmts' = [stmts EXCEPT ![c] = q] /\ rows' = rows
  BY DEF SetTop
<1>4. ErrorSeen(stmts[c]) \/ s.rc = "error" => ErrorSeen(q)
  <2>1. stmts[c][1].rc # "error"
    BY DEF Stepping, Top
  <2>2. ErrorSeen(stmts[c]) => ErrorSeen(q)
    BY <1>1, <2>1, ErrorStays
  <2>3. s.rc = "error" => ErrorSeen(q)
    BY <1>2 DEF ErrorSeen
  <2>4. QED
    BY <2>2, <2>3
<1> HIDE DEF q
<1>5. /\ stmts' \in [Conns -> Seq(Stmt)]
      /\ \A d \in Conns : Kept(rows', stmts'[d])
      /\ stmts'[c] = q
      /\ \A d \in Conns \ {c} : stmts'[d] = stmts[d]
      /\ answers' = [answers EXCEPT ![c] = AnswerOf(q)]
  BY <1>2, <1>3, StatementsOfOne
<1>6. StatementsTypeOK'
  BY <1>1, <1>2, <1>5 DEF Inv, StatementsTypeOK
<1>7. \A d \in Conns : ~whole'[d] => phase'[d] = "closed" \/ ErrorSeen(stmts'[d])
  BY <1>4, <1>5 DEF Inv, StatementsTypeOK
<1>8. QED
  BY <1>5, <1>6, <1>7 DEF Inv, q

LEMMA ScanRowKeeps ==
  ASSUME Inv, NEW c \in Conns, ScanRow(c)
  PROVE  Inv' /\ Simulates
<1>1. PICK id \in Ahead(Top(c)) :
        /\ \A other \in Ahead(Top(c)) : id <= other
        /\ SetTop(c, Taken(Top(c), id))
  BY DEF ScanRow
<1>2. /\ stmts[c] \in Seq(Stmt) /\ stmts[c] # <<>> /\ IsTable(rows)
      /\ Top(c) \in Stmt /\ Top(c).rc \in {"ready", "row"} /\ Snapshot(rows, Top(c))
  BY StackTop DEF ScanRow, Stepping, Inv, StatementsTypeOK, Kept, Top
<1>3. Taken(Top(c), id) \in Stmt /\ Snapshot(rows, Taken(Top(c), id))
  BY <1>1, <1>2, TakenType, TakenKept
<1>4. /\ Inv'
      /\ answers' = [answers EXCEPT ![c] = AnswerOf([stmts[c] EXCEPT ![1] = Taken(Top(c), id)])]
  <2>1. whole' = whole
    <3>1. /\ whole \in [Conns -> BOOLEAN] /\ columns[c]
          /\ whole' = [whole EXCEPT ![c] = whole[c] /\ columns[c]]
      BY DEF ScanRow, Inv, StatementsTypeOK
    <3>2. (whole[c] /\ columns[c]) = whole[c]
      BY <3>1
    <3>3. QED
      BY <3>1, <3>2
  <2>2. Stepping(c) /\ UNCHANGED <<rows, phase, columns>>
    BY DEF ScanRow
  <2>3. QED
    BY <1>1, <1>3, <2>1, <2>2, SetTopKeeps
<1>5. AnswerOf([stmts[c] EXCEPT ![1] = Taken(Top(c), id)]) = {}
  <2>1. Taken(Top(c), id).rc = "row"
    BY <1>2 DEF Taken, Stmt
  <2>2. [stmts[c] EXCEPT ![1] = Taken(Top(c), id)][1] = Taken(Top(c), id)
    BY <1>2, <1>3, WithTop DEF Inv
  <2>3. QED
    BY <2>1, <2>2 DEF AnswerOf
<1>6. QED
  BY <1>4, <1>5, NoAnswer DEF ScanRow

LEMMA ScanDoneKeeps ==
  ASSUME Inv, NEW c \in Conns, ScanDone(c)
  PROVE  Inv' /\ Simulates
<1> DEFINE s == [Top(c) EXCEPT !.rc = "done"]
<1>1. /\ stmts[c] \in Seq(Stmt) /\ stmts[c] # <<>> /\ IsTable(rows) /\ Kept(rows, stmts[c])
      /\ Top(c) \in Stmt /\ Top(c).rc \in {"ready", "row"} /\ Snapshot(rows, Top(c))
  BY StackTop DEF ScanDone, Stepping, Inv, StatementsTypeOK, Kept, Top
<1>2. s \in Stmt /\ Snapshot(rows, s)
  BY <1>1, EndedKept
<1>3. /\ s.parent = Top(c).parent /\ s.got = Top(c).got /\ s.left = Top(c).left
      /\ s.rc = "done" /\ s.parent \in RowIds \cup {0}
  BY <1>1 DEF Stmt
<1>4. /\ s.got = [i \in ChildRows(rows, s.parent) |-> rows[i]]
      /\ s.left = DOMAIN s.got
  BY <1>1, <1>3, WholeAnswer DEF ScanDone
<1>5. SetTop(c, s) /\ Stepping(c) /\ UNCHANGED <<rows, phase, columns, whole>>
  BY DEF ScanDone
<1> HIDE DEF s
<1>6. /\ Inv'
      /\ answers' = [answers EXCEPT ![c] = AnswerOf([stmts[c] EXCEPT ![1] = s])]
  BY <1>2, <1>5, SetTopKeeps
<1>7. AnswerOf([stmts[c] EXCEPT ![1] = s]) = {Table!ChildrenOf(rows, s.parent)}
  <2>1. [stmts[c] EXCEPT ![1] = s][1] = s /\ [stmts[c] EXCEPT ![1] = s] # <<>>
    BY <1>1, <1>2, WithTop
  <2>2. QED
    BY <1>3, <1>4, <2>1 DEF AnswerOf, Table!ChildrenOf, Table!ChildRows, ChildRows
<1>8. Table!Ask(c, s.parent)
  BY <1>5, <1>6, <1>7 DEF Table!Ask
<1>9. Simulates
  BY <1>3, <1>8 DEF Simulates, Table!Next, Table!RowIds, RowIds
<1>10. QED
  BY <1>6, <1>9

LEMMA ScanFailsKeeps ==
  ASSUME Inv, NEW c \in Conns, ScanFails(c)
  PROVE  Inv' /\ Simulates
<1> DEFINE s == [Top(c) EXCEPT !.rc = "error"]
<1>1. /\ stmts[c] \in Seq(Stmt) /\ stmts[c] # <<>> /\ Kept(rows, stmts[c])
      /\ Top(c) \in Stmt /\ Snapshot(rows, Top(c))
  BY StackTop DEF ScanFails, Stepping, Inv, StatementsTypeOK, Kept, Top
<1>2. s \in Stmt /\ Snapshot(rows, s) /\ s.rc = "error"
  BY <1>1, EndedKept DEF Stmt
<1>3. /\ SetTop(c, s) /\ Stepping(c) /\ UNCHANGED <<rows, phase, columns>>
      /\ whole' = [whole EXCEPT ![c] = FALSE]
  BY DEF ScanFails
<1> HIDE DEF s
<1>4. /\ Inv'
      /\ answers' = [answers EXCEPT ![c] = AnswerOf([stmts[c] EXCEPT ![1] = s])]
  BY <1>2, <1>3, SetTopKeeps
<1>5. AnswerOf([stmts[c] EXCEPT ![1] = s]) = {}
  <2>1. [stmts[c] EXCEPT ![1] = s][1] = s
    BY <1>1, <1>2, WithTop
  <2>2. QED
    BY <1>2, <2>1 DEF AnswerOf
<1>6. QED
  BY <1>3, <1>4, <1>5, NoAnswer

LEMMA DescendKeeps ==
  ASSUME Inv, NEW c \in Conns, Descend(c)
  PROVE  Inv' /\ Simulates
<1>1. PICK id \in Top(c).left :
        stmts' = [stmts EXCEPT ![c] = <<Select(id)>> \o Passed(stmts[c], id)]
  BY DEF Descend
<1> DEFINE s == [Top(c) EXCEPT !.left = Top(c).left \ {id}]
           q == Passed(stmts[c], id)
<1>2. /\ stmts[c] \in Seq(Stmt) /\ stmts[c] # <<>> /\ IsTable(rows) /\ Kept(rows, stmts[c])
      /\ Top(c) \in Stmt /\ Top(c).rc \in {"done", "error"} /\ Snapshot(rows, Top(c))
      /\ Top(c) = stmts[c][1]
  BY StackTop DEF Descend, Descending, Inv, StatementsTypeOK, Kept, Top
<1>3. id \in RowIds /\ Select(id) \in Stmt /\ Snapshot(rows, Select(id))
  BY <1>1, <1>2, SelectType, SelectKept DEF Stmt
<1>4. s \in Stmt /\ Snapshot(rows, s) /\ Waits(s) /\ s.rc = Top(c).rc
  BY <1>1, <1>2 DEF Stmt, Snapshot, Waits
<1>5. q = [stmts[c] EXCEPT ![1] = s]
  BY DEF Passed, Top
<1> HIDE DEF s, q
<1>6. /\ q \in Seq(Stmt) /\ q # <<>> /\ q[1] = s /\ Kept(rows, q)
      /\ ErrorSeen(stmts[c]) => ErrorSeen(q)
  BY <1>2, <1>4, <1>5, WithTop, ErrorStays
<1> DEFINE r == <<Select(id)>> \o q
<1>7. /\ r \in Seq(Stmt) /\ r # <<>> /\ r[1] = Select(id) /\ Kept(rows, r)
      /\ ErrorSeen(stmts[c]) => ErrorSeen(r)
  BY <1>3, <1>4, <1>6, PushStatement
<1>8. stmts' = [stmts EXCEPT ![c] = r] /\ UNCHANGED <<rows, phase, columns, whole>>
  BY <1>1 DEF Descend, q
<1> HIDE DEF r
<1>9. AnswerOf(r) = {}
  BY <1>7 DEF AnswerOf, Select
<1>10. /\ stmts' \in [Conns -> Seq(Stmt)]
       /\ \A d \in Conns : Kept(rows', stmts'[d])
       /\ stmts'[c] = r
       /\ \A d \in Conns \ {c} : stmts'[d] = stmts[d]
       /\ answers' = [answers EXCEPT ![c] = {}]
  BY <1>7, <1>8, <1>9, StatementsOfOne
<1>11. StatementsTypeOK'
  BY <1>2, <1>7, <1>8, <1>10 DEF Inv, StatementsTypeOK
<1>12. \A d \in Conns : ~whole'[d] => phase'[d] = "closed" \/ ErrorSeen(stmts'[d])
  BY <1>7, <1>8, <1>10 DEF Inv
<1>13. QED
  BY <1>8, <1>10, <1>11, <1>12, NoAnswer DEF Inv

LEMMA LoadReturnsKeeps ==
  ASSUME Inv, NEW c \in Conns, LoadReturns(c)
  PROVE  Inv' /\ Simulates
<1> DEFINE q == Tail(stmts[c])
<1>1. /\ stmts[c] \in Seq(Stmt) /\ stmts[c] # <<>> /\ Kept(rows, stmts[c])
      /\ stmts[c][1].rc = "done" /\ phase[c] = "loading"
  BY DEF LoadReturns, Returning, Descending, Inv, StatementsTypeOK, Top
<1>2. /\ q \in Seq(Stmt) /\ ((q = <<>>) <=> (Len(stmts[c]) = 1)) /\ Kept(rows, q)
      /\ q # <<>> => Waits(q[1])
      /\ ErrorSeen(stmts[c]) => ErrorSeen(q)
  BY <1>1, PopStatement
<1>3. /\ stmts' = [stmts EXCEPT ![c] = q] /\ UNCHANGED <<rows, columns, whole>>
      /\ phase' = [phase EXCEPT ![c] = IF Len(stmts[c]) = 1 THEN "open" ELSE "loading"]
  BY DEF LoadReturns
<1> HIDE DEF q
<1>4. AnswerOf(q) = {}
  BY <1>2 DEF AnswerOf, Waits
<1>5. /\ stmts' \in [Conns -> Seq(Stmt)]
      /\ \A d \in Conns : Kept(rows', stmts'[d])
      /\ stmts'[c] = q
      /\ \A d \in Conns \ {c} : stmts'[d] = stmts[d]
      /\ answers' = [answers EXCEPT ![c] = {}]
  BY <1>2, <1>3, <1>4, StatementsOfOne
<1>6. StatementsTypeOK'
  BY <1>2, <1>3, <1>5 DEF Inv, StatementsTypeOK
<1>7. \A d \in Conns : ~whole'[d] => phase'[d] = "closed" \/ ErrorSeen(stmts'[d])
  BY <1>1, <1>2, <1>3, <1>5 DEF Inv, StatementsTypeOK
<1>8. QED
  BY <1>3, <1>5, <1>6, <1>7, NoAnswer DEF Inv

\* The step that needs the locks: no scan of another program is under way, and
\* the program itself has no statement.
LEMMA WriteKeeps ==
  ASSUME Inv, NEW c \in Conns, Write(c)
  PROVE  Inv' /\ Simulates
<1>1. IsTable(rows) /\ IsTable(rows')
  BY WriteType DEF Write, Inv, StatementsTypeOK
<1>2. stmts' = stmts /\ UNCHANGED <<phase, columns, whole>>
  BY DEF Write
<1>3. StatementsTypeOK'
  BY <1>1, <1>2 DEF Inv, StatementsTypeOK
<1>4. ASSUME NEW d \in Conns
      PROVE  Kept(rows', stmts[d])
  <2>1. stmts[d] \in Seq(Stmt) /\ Kept(rows, stmts[d])
    BY DEF Inv, StatementsTypeOK
  <2>2. \A j \in 1 .. Len(stmts[d]) : stmts[d][j] \in Stmt /\ ~Holds(stmts[d][j])
    <3>1. CASE d = c
      <4>1. stmts[d] = <<>>
        BY <3>1 DEF Write, Inv, StatementsTypeOK
      <4>2. Len(stmts[d]) = 0
        BY <4>1
      <4>3. QED
        BY <4>2
    <3>2. CASE d # c
      BY <2>1, <3>2 DEF Write, MayCommit, Scanning
    <3>3. QED
      BY <3>1, <3>2
  <2>3. \A j \in 1 .. Len(stmts[d]) : Snapshot(rows', stmts[d][j])
    BY <1>1, <2>1, <2>2, NoLockKept DEF Kept
  <2>4. QED
    BY <2>1, <2>3 DEF Kept
<1>5. \A d \in Conns : ~whole'[d] => phase'[d] = "closed" \/ ErrorSeen(stmts'[d])
  BY <1>2 DEF Inv
<1>6. Simulates
  <2>1. answers' = answers
    BY <1>2 DEF answers
  <2>2. rows' \in Table!AfterWrite(rows)
    <3>1. rows' \in AfterWrite(rows) /\ Table!RowIds = RowIds
      BY DEF Write, Table!RowIds, RowIds
    <3>2. CASE \E id \in {i \in RowIds : IsNewRowid(rows, i)}, parent \in RowIds \cup {0},
                  name \in Names : rows' = Insert(rows, id, parent, name)
      <4>1. \A id : Table!IsNewRowid(rows, id) <=> IsNewRowid(rows, id)
        BY <3>1 DEF Table!IsNewRowid, IsNewRowid
      <4>2. \A id, parent, name : Table!Insert(rows, id, parent, name)
                                  = Insert(rows, id, parent, name)
        BY DEF Table!Insert, Insert
      <4>3. QED
        BY <3>1, <3>2, <4>1, <4>2 DEF Table!AfterWrite
    <3>3. CASE \E id \in RowIds : rows' = Delete(rows, id)
      BY <3>1, <3>3 DEF Table!AfterWrite, Table!Delete, Delete
    <3>4. CASE \E id \in RowIds, name \in Names : rows' = UpdateName(rows, id, name)
      <4>1. \A id, name : Table!UpdateName(rows, id, name) = UpdateName(rows, id, name)
        BY DEF Table!UpdateName, UpdateName
      <4>2. QED
        BY <3>1, <3>4, <4>1 DEF Table!AfterWrite
    <3>5. CASE \E id \in RowIds, completed \in BOOLEAN :
                 rows' = UpdateCompleted(rows, id, completed)
      <4>1. \A id, completed : Table!UpdateCompleted(rows, id, completed) = UpdateCompleted(rows, id, completed)
        BY DEF Table!UpdateCompleted, UpdateCompleted
      <4>2. QED
        BY <3>1, <3>5, <4>1 DEF Table!AfterWrite
    <3>6. QED
      BY <3>1, <3>2, <3>3, <3>4, <3>5 DEF AfterWrite
  <2>3. QED
    BY <2>1, <2>2 DEF Simulates, Table!Next, Table!Commit
<1>7. QED
  BY <1>2, <1>3, <1>4, <1>5, <1>6 DEF Inv

LEMMA NextKeeps == Inv /\ [Next]_vars => Inv' /\ Simulates
<1> SUFFICES ASSUME Inv, [Next]_vars PROVE Inv' /\ Simulates
  OBVIOUS
<1>1. CASE UNCHANGED vars
  <2>1. Inv'
    BY <1>1 DEF vars, Inv, StatementsTypeOK
  <2>2. Simulates
    BY <1>1 DEF vars, Simulates, answers
  <2>3. QED
    BY <2>1, <2>2
<1>2. ASSUME NEW c \in Conns, Open(c) \/ LoadColumns(c) \/ Load(c) \/ Close(c) \/ Write(c)
      PROVE  Inv' /\ Simulates
  <2>1. CASE Open(c)
    BY <2>1, OpenKeeps
  <2>2. CASE LoadColumns(c)
    BY <2>2, LoadColumnsKeeps
  <2>3. CASE ScanRow(c)
    BY <2>3, ScanRowKeeps
  <2>4. CASE ScanDone(c)
    BY <2>4, ScanDoneKeeps
  <2>5. CASE ScanFails(c)
    BY <2>5, ScanFailsKeeps
  <2>6. CASE Descend(c)
    BY <2>6, DescendKeeps
  <2>7. CASE LoadReturns(c)
    BY <2>7, LoadReturnsKeeps
  <2>8. CASE Unwind(c)
    BY <2>8, UnwindKeeps
  <2>9. CASE Write(c)
    BY <2>9, WriteKeeps
  <2>10. QED
    BY <1>2, <2>1, <2>2, <2>3, <2>4, <2>5, <2>6, <2>7, <2>8, <2>9
    DEF Load, ScanNoColumns, LoadThrows, Close
<1>3. QED
  BY <1>1, <1>2 DEF Next

-----------------------------------------------------------------------------
(* Theorems. *)

LEMMA SpecInv == Spec => []Inv
BY InitInv, NextKeeps, PTL DEF Spec

\* The variables keep their types.
THEOREM StatementsTypeCorrect == Spec => []StatementsTypeOK
<1>1. Inv => StatementsTypeOK
  BY DEF Inv
<1>2. QED
  BY <1>1, SpecInv, PTL

\* Stepped row by row between other programs' statements, every SELECT still
\* gives the rows of one moment: the wrappers' statements implement a table on
\* which a SELECT is one step.
THEOREM SelectsAreAtomic == Spec => StatementsAreAtomic
<1>1. Init => Table!Init
  BY DEF Init, Table!Init, answers, AnswerOf, EmptyTable, Table!EmptyTable
<1>2. Inv /\ [Next]_vars => [Table!Next]_<<rows, answers>>
  BY NextKeeps DEF Simulates
<1>3. QED
  BY <1>1, <1>2, SpecInv, PTL DEF Spec, StatementsAreAtomic, Table!Spec

\* A call of load_child_tasks that waits for the calls below it holds no lock.
THEOREM WaitingHoldsNoLock == Spec => []WaitingHoldsNothing
<1>1. Inv => WaitingHoldsNothing
  BY DEF Inv, Kept, Waits, WaitingHoldsNothing, Holds
<1>2. QED
  BY <1>1, SpecInv, PTL

\* A constructor that returns has read every row its SELECTs were to give.
THEOREM OpensWhole == Spec => []OpenedWhole
<1>1. Inv => OpenedWhole
  <2>1. ~ErrorSeen(<<>>)
    BY DEF ErrorSeen
  <2>2. QED
    BY <2>1 DEF Inv, StatementsTypeOK, OpenedWhole
<1>2. QED
  BY <1>1, SpecInv, PTL
=============================================================================
