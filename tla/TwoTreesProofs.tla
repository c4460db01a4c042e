--------------------------- MODULE TwoTreesProofs ---------------------------
(***************************************************************************)
(* Two programs on one file, each a TaskTree among other programs: what    *)
(* SharedTableProofs shows of one holds of both.                           *)
(***************************************************************************)
EXTENDS TwoTrees, TLAPS

Types ==
  /\ First!TypeOK /\ undisturbed1 \in BOOLEAN
  /\ Second!TypeOK /\ undisturbed2 \in BOOLEAN

LEMMA SameWrites == \A t : First!AfterWrite(t) = Second!AfterWrite(t)
BY DEF First!AfterWrite, First!Insert, First!Delete, First!UpdateName, First!UpdateCompleted,
       First!RowIds, First!IsNewRowid,
       Second!AfterWrite, Second!Insert, Second!Delete, Second!UpdateName, Second!UpdateCompleted,
       Second!RowIds, Second!IsNewRowid

LEMMA FirstWrites ==
  ASSUME First!TypeOK, First!Next
  PROVE  rows' = rows \/ rows' \in First!AfterWrite(rows)
BY First!StepIsStatement, MaxIdAssumption, NamesAssumption, BlocksAssumption, LengthAssumption, Zenon

LEMMA SecondWrites ==
  ASSUME Second!TypeOK, Second!Next
  PROVE  rows' = rows \/ rows' \in Second!AfterWrite(rows)
BY Second!StepIsStatement, MaxIdAssumption, NamesAssumption, BlocksAssumption, LengthAssumption, Zenon

\* A step of the first program is for the second a statement, or nothing.
LEMMA FirstIsElsewhere ==
  ASSUME Types, FirstMoves
  PROVE  First!SharedNext /\ [Second!SharedNext]_(Second!sharedVars)
<1>1. First!SharedNext /\ First!Next
  BY DEF FirstMoves, First!SharedNext, First!SharedStart, First!OwnStep, First!Next
<1>2. /\ UNCHANGED <<running2, heap2, calls2, astray2>>
      /\ undisturbed2' = (undisturbed2 /\ rows' = rows)
  BY DEF FirstMoves, two
<1>3. CASE rows' = rows
  <2>1. undisturbed2' = undisturbed2
    BY <1>2, <1>3 DEF Types
  <2>2. QED
    BY <1>1, <1>2, <1>3, <2>1 DEF Second!sharedVars, Second!vars
<1>4. CASE rows' \in First!AfterWrite(rows)
  <2>1. rows' \in Second!AfterWrite(rows)
    BY <1>4, SameWrites
  <2>2. Second!Elsewhere
    BY <1>2, <2>1 DEF Second!Elsewhere
  <2>3. QED
    BY <1>1, <2>2 DEF Second!SharedNext
<1>5. QED
  BY <1>1, <1>3, <1>4, FirstWrites DEF Types

LEMMA SecondIsElsewhere ==
  ASSUME Types, SecondMoves
  PROVE  Second!SharedNext /\ [First!SharedNext]_(First!sharedVars)
<1>1. Second!SharedNext /\ Second!Next
  BY DEF SecondMoves, Second!SharedNext, Second!SharedStart, Second!OwnStep, Second!Next
<1>2. /\ UNCHANGED <<running1, heap1, calls1, astray1>>
      /\ undisturbed1' = (undisturbed1 /\ rows' = rows)
  BY DEF SecondMoves, one
<1>3. CASE rows' = rows
  <2>1. undisturbed1' = undisturbed1
    BY <1>2, <1>3 DEF Types
  <2>2. QED
    BY <1>1, <1>2, <1>3, <2>1 DEF First!sharedVars, First!vars
<1>4. CASE rows' \in Second!AfterWrite(rows)
  <2>1. rows' \in First!AfterWrite(rows)
    BY <1>4, SameWrites
  <2>2. First!Elsewhere
    BY <1>2, <2>1 DEF First!Elsewhere
  <2>3. QED
    BY <1>1, <2>2 DEF First!SharedNext
<1>5. QED
  BY <1>1, <1>3, <1>4, SecondWrites DEF Types

LEMMA EachSteps ==
  ASSUME Types, [FirstMoves \/ SecondMoves]_allVars
  PROVE  [First!SharedNext]_(First!sharedVars) /\ [Second!SharedNext]_(Second!sharedVars)
<1>1. CASE FirstMoves
  BY <1>1, FirstIsElsewhere
<1>2. CASE SecondMoves
  BY <1>2, SecondIsElsewhere
<1>3. CASE UNCHANGED allVars
  BY <1>3 DEF allVars, one, two, First!sharedVars, First!vars, Second!sharedVars, Second!vars
<1>4. QED
  BY <1>1, <1>2, <1>3

LEMMA FirstTypes ==
  ASSUME First!TypeOK, [First!SharedNext]_(First!sharedVars)
  PROVE  First!TypeOK'
BY First!SharedTypeNext, MaxIdAssumption, NamesAssumption, BlocksAssumption, LengthAssumption, Zenon

LEMMA SecondTypes ==
  ASSUME Second!TypeOK, [Second!SharedNext]_(Second!sharedVars)
  PROVE  Second!TypeOK'
BY Second!SharedTypeNext, MaxIdAssumption, NamesAssumption, BlocksAssumption, LengthAssumption, Zenon

LEMMA TypesInit == Init => Types
<1>1. First!Init => First!TypeOK
  BY First!InitType, MaxIdAssumption, NamesAssumption, BlocksAssumption, LengthAssumption, Zenon
<1>2. Second!Init => Second!TypeOK
  BY Second!InitType, MaxIdAssumption, NamesAssumption, BlocksAssumption, LengthAssumption, Zenon
<1>3. QED
  BY <1>1, <1>2 DEF Init, First!SharedInit, Second!SharedInit, Types

LEMMA TypesNext ==
  ASSUME Types, [FirstMoves \/ SecondMoves]_allVars
  PROVE  Types'
<1>1. First!TypeOK' /\ Second!TypeOK'
  BY EachSteps, FirstTypes, SecondTypes DEF Types
<1>2. undisturbed1' \in BOOLEAN /\ undisturbed2' \in BOOLEAN
  BY DEF Types, FirstMoves, SecondMoves, allVars, First!SharedStart, First!OwnStep,
         Second!SharedStart, Second!OwnStep
<1>3. QED
  BY <1>1, <1>2 DEF Types

\* Two TaskTrees on one file, stepping in any order and ending and starting again
\* when they like, are each a SharedTable: neither does to the table what the
\* other does not already allow for.
THEOREM EachSharesTheFile == Spec => EachIsShared
<1>1. Init => First!SharedInit /\ Second!SharedInit
  BY DEF Init
<1>2. Types /\ [FirstMoves \/ SecondMoves]_allVars =>
        [First!SharedNext]_(First!sharedVars) /\ [Second!SharedNext]_(Second!sharedVars)
  BY EachSteps
<1>3. Types /\ [FirstMoves \/ SecondMoves]_allVars => Types'
  BY TypesNext
<1>4. QED
  BY <1>1, <1>2, <1>3, TypesInit, PTL
     DEF Spec, EachIsShared, First!SharedSpec, Second!SharedSpec

\* Neither program's calls lose the tasks they refer to by what the other does.
THEOREM NoCallIsHarmed == Spec => []CallsUnharmed
<1>1. First!SharedSpec => []First!CallsHoldLiveTasks
  BY First!SharedCallsKeepTheirTasks, MaxIdAssumption, NamesAssumption, BlocksAssumption,
     LengthAssumption, Zenon
<1>2. Second!SharedSpec => []Second!CallsHoldLiveTasks
  BY Second!SharedCallsKeepTheirTasks, MaxIdAssumption, NamesAssumption, BlocksAssumption,
     LengthAssumption, Zenon
<1>3. QED
  BY <1>1, <1>2, EachSharesTheFile, PTL DEF EachIsShared, CallsUnharmed
=============================================================================
