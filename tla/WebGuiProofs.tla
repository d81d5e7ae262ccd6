---------------------------- MODULE WebGuiProofs ----------------------------
(***************************************************************************)
(* The page, for any number of files, columns and requests, answers of any *)
(* length in any order, and rows of any width: its selection stays         *)
(* consistent, because a column can only be selected in the schema that is *)
(* shown, and that is the schema of the selected file; and the left panel  *)
(* is always the grouping of one answer, which loses no file.              *)
(***************************************************************************)
EXTENDS WebGui, SequenceTheorems, TLAPS

-----------------------------------------------------------------------------
(* Selection *)

LEMMA InvariantInit == Init => SelectionOfOneFile
  BY DEF Init, SelectionOfOneFile

\* A search is not about a column.
LEMMA SearchKeeps ==
  ASSUME SelectionOfOneFile, NEW mode \in {"kw", "ss"}, Search(mode)
  PROVE  SelectionOfOneFile'
<1>1. UNCHANGED <<schema, selectedFile, selectedColumn>> /\ queryMode' = mode
  BY DEF Search, Send
<1>2. PICK k \in Keywords :
        waiting' = waiting \union {[id |-> requests + 1, mode |-> mode, what |-> k]}
  BY DEF Search, Send
<1>3. \A q \in waiting' : q \in waiting \/ q.mode = mode
  BY <1>2
<1> QED
  BY <1>1, <1>3 DEF SelectionOfOneFile

\* A question about a column carries the selection of the moment it is asked.
LEMMA QuestionKeeps ==
  ASSUME SelectionOfOneFile, NEW mode, AskAboutColumn(mode)
  PROVE  SelectionOfOneFile'
<1> DEFINE what == [file |-> selectedFile, column |-> selectedColumn]
<1>1. /\ UNCHANGED <<selectedFile, selectedColumn>>
      /\ schema' = Null /\ asked' = what
      /\ waiting' = waiting \union {[id |-> requests + 1, mode |-> mode, what |-> what]}
      /\ selectedColumn # Null
  BY DEF AskAboutColumn, Send
<1>2. selectedColumn.file = selectedFile
  BY <1>1 DEF SelectionOfOneFile
<1>3. what.column.file = what.file
  BY <1>2
<1>4. \A q \in waiting' : q \in waiting \/ q.what = what
  BY <1>1
<1> HIDE DEF what
<1> QED
  BY <1>1, <1>2, <1>3, <1>4 DEF SelectionOfOneFile

LEMMA InvariantNext == SelectionOfOneFile /\ [Next]_vars => SelectionOfOneFile'
<1> SUFFICES ASSUME SelectionOfOneFile, [Next]_vars
             PROVE  SelectionOfOneFile'
  OBVIOUS
<1> USE DEF SelectionOfOneFile
<1>1. CASE UNCHANGED vars
  BY <1>1 DEF vars
<1>2. CASE KeywordSearch
  BY <1>2, SearchKeeps DEF KeywordSearch
<1>3. CASE SchemaSearch
  BY <1>3, SearchKeeps DEF SchemaSearch
<1>4. CASE ColSim
  BY <1>4, QuestionKeeps DEF ColSim
<1>5. CASE ColOve
  BY <1>5, QuestionKeeps DEF ColOve
<1>6. CASE SetSchema
  BY <1>6 DEF SetSchema
<1>7. CASE SelectColumn
  <2>1. PICK c \in schema : selectedColumn' = c
    BY <1>7 DEF SelectColumn
  <2>2. c \in ColumnsOf(selectedFile)
    BY <1>7, <2>1 DEF SelectColumn
  <2>3. selectedColumn'.file = selectedFile
    BY <2>1, <2>2 DEF ColumnsOf
  <2> QED
    BY <1>7, <2>3 DEF SelectColumn
<1>8. CASE ShowSamples
  BY <1>8 DEF ShowSamples
<1>9. CASE AnswerArrives
  BY <1>9 DEF AnswerArrives
<1>10. CASE RequestFails
  BY <1>10 DEF RequestFails
<1> QED
  BY <1>1, <1>2, <1>3, <1>4, <1>5, <1>6, <1>7, <1>8, <1>9, <1>10 DEF Next

\* Every question about a column names the file that column is of, however
\* clicks, questions and answers interleave.
THEOREM SelectionsAgree == Spec => []SelectionOfOneFile
  BY InvariantInit, InvariantNext, PTL DEF Spec

-----------------------------------------------------------------------------
(* Rows *)

\* An answer is a list of files.
LEMMA AnswerIsList ==
  ASSUME NEW files \in Answers
  PROVE  files \in Seq(Files)
<1>1. PICK n \in 0..MaxAnswer : files \in [1..n -> Files]
  BY DEF Answers
<1>2. n \in Nat
  BY BoundAssumption
<1> QED BY <1>1, <1>2, SeqDef

\* Multiplying by a positive number keeps the order.
LEMMA TimesMonotonic ==
  ASSUME NEW k \in Nat \ {0}, NEW a \in Int, NEW b \in Int, a <= b
  PROVE  a * k <= b * k
<1>1. (b - a) \in Nat
  OBVIOUS
<1>2. (b - a) * k >= 0
  BY <1>1
<1>3. (b - a) * k = b * k - a * k
  OBVIOUS
<1>4. a * k \in Int /\ b * k \in Int
  OBVIOUS
<1> QED BY <1>2, <1>3, <1>4

\* Quotient and remainder.
LEMMA Division ==
  ASSUME NEW k \in Nat \ {0}, NEW a \in Nat
  PROVE  /\ a \div k \in Nat /\ a % k \in 0..(k - 1)
         /\ a = ((a \div k) * k) + (a % k)
  OBVIOUS

\* How many rows there are, where each begins and how long it is: the last one
\* is not empty, and the others are full.
LEMMA RowLengths ==
  ASSUME NEW files \in Seq(Files)
  PROVE  LET n == Len(files)
             k == numberItemsPerRow
             m == (n + k - 1) \div k
         IN  /\ n \in Nat /\ m \in Nat /\ n <= m * k /\ m * k < n + k
             /\ Grouped(files) \in Seq(Seq(Files))
             /\ DOMAIN Grouped(files) = 1..m /\ Len(Grouped(files)) = m
             /\ \A r \in 1..m :
                  LET last == IF r * k <= n THEN r * k ELSE n IN
                  /\ (r - 1) * k < last /\ last - (r - 1) * k <= k
                  /\ r < m => last - (r - 1) * k = k
                  /\ Grouped(files)[r] \in Seq(Files)
                  /\ Len(Grouped(files)[r]) = last - (r - 1) * k
                  /\ \A i \in 1..(last - (r - 1) * k) :
                       Grouped(files)[r][i] = files[(r - 1) * k + i]
<1> DEFINE n == Len(files)
           k == numberItemsPerRow
           m == (n + k - 1) \div k
           rest == (n + k - 1) % k
           last(r) == IF r * k <= n THEN r * k ELSE n
<1>1. n \in Nat /\ k \in Nat \ {0} /\ n + k - 1 \in Nat
  BY LenProperties, RowAssumption
<1>2. m \in Nat /\ rest \in 0..(k - 1) /\ n + k - 1 = m * k + rest
  BY <1>1, Division
<1>3. n <= m * k /\ m * k < n + k /\ m * k \in Int
  BY <1>1, <1>2
<1>4. ASSUME NEW r \in 1..m
      PROVE  /\ (r - 1) * k \in Nat /\ r * k = (r - 1) * k + k
             /\ (r - 1) * k < n
             /\ r < m => r * k <= n
  <2>1. /\ r \in Int /\ m \in Int /\ r - 1 \in Nat
        /\ r * k \in Int /\ (r - 1) * k \in Nat
    BY <1>1, <1>2
  <2>2. r * k <= m * k
    BY <1>1, <2>1, TimesMonotonic
  <2>3. r * k = (r - 1) * k + k
    BY <1>1
  <2>4. ASSUME r < m PROVE r * k <= n
    <3>1. (r + 1) * k <= m * k
      BY <1>1, <2>1, <2>4, TimesMonotonic
    <3>2. (r + 1) * k = r * k + k
      BY <1>1
    <3> QED BY <1>1, <1>3, <2>1, <3>1, <3>2
  <2> HIDE DEF m, k, n
  <2> QED BY <1>1, <1>3, <2>1, <2>2, <2>3, <2>4
<1>5. ASSUME NEW r \in 1..m
      PROVE  /\ (r - 1) * k < last(r) /\ last(r) - (r - 1) * k <= k
             /\ r < m => last(r) - (r - 1) * k = k
             /\ last(r) \in Int /\ last(r) <= n
  <2>1. (r - 1) * k \in Int /\ r * k \in Int
    BY <1>1, <1>4
  <2> HIDE DEF m, k, n
  <2> QED BY <1>1, <1>4, <2>1
<1>6. Grouped(files) = [r \in 1..m |-> SubSeq(files, (r - 1) * k + 1, last(r))]
  BY DEF Grouped
<1>7. ASSUME NEW r \in 1..m
      PROVE  /\ Grouped(files)[r] \in Seq(Files)
             /\ Len(Grouped(files)[r]) = last(r) - (r - 1) * k
             /\ \A i \in 1..(last(r) - (r - 1) * k) :
                  Grouped(files)[r][i] = files[(r - 1) * k + i]
  <2> DEFINE first == (r - 1) * k + 1
             final == last(r)
  <2>1. /\ first \in Int /\ final \in Int /\ 1 <= first /\ first <= final
        /\ final <= n
    BY <1>1, <1>4, <1>5
  <2>2. Grouped(files)[r] = SubSeq(files, first, final)
    BY <1>6
  <2>3. \A i \in first..final : files[i] \in Files
    BY <1>1, <2>1, ElementOfSeq
  <2>4. final - first + 1 = last(r) - (r - 1) * k
        /\ \A i \in 1..(final - first + 1) : first + i - 1 = (r - 1) * k + i
    BY <1>1, <1>4, <2>1
  <2> HIDE DEF first, final
  <2>5. /\ SubSeq(files, first, final) \in Seq(Files)
        /\ Len(SubSeq(files, first, final)) = final - first + 1
        /\ \A i \in 1..(final - first + 1) :
             SubSeq(files, first, final)[i] = files[first + i - 1]
    BY <2>1, <2>3, SubSeqProperties
  <2> HIDE DEF last, k
  <2> QED BY <2>2, <2>4, <2>5
<1>8. /\ Grouped(files) \in Seq(Seq(Files))
      /\ DOMAIN Grouped(files) = 1..m /\ Len(Grouped(files)) = m
  <2>1. Grouped(files) \in [1..m -> Seq(Files)]
    BY <1>6, <1>7
  <2>2. Grouped(files) \in Seq(Seq(Files))
    BY <1>2, <2>1, SeqDef
  <2>3. Len(Grouped(files)) \in Nat /\ 1..m = 1..Len(Grouped(files))
    BY <2>1, <2>2, LenProperties
  <2> HIDE DEF m
  <2> QED BY <1>2, <2>1, <2>3
<1> HIDE DEF n, k, m, last
<1> QED BY <1>1, <1>2, <1>3, <1>5, <1>7, <1>8 DEF n, k, m, last

\* The grouping shows every file of an answer, in its row and place.
LEMMA GroupedShowsAll ==
  ASSUME NEW files \in Seq(Files), rows = Grouped(files), shown.files = files
  PROVE  RowsShowWholeAnswer
<1> DEFINE n == Len(files)
           k == numberItemsPerRow
           m == (n + k - 1) \div k
           last(r) == IF r * k <= n THEN r * k ELSE n
<1>1. k \in Nat \ {0}
  BY RowAssumption
<1>2. /\ n \in Nat /\ m \in Nat /\ n <= m * k /\ m * k < n + k
      /\ DOMAIN rows = 1..m /\ Len(rows) = m
  BY RowLengths
<1>3. \A r \in 1..m :
        /\ (r - 1) * k < last(r) /\ last(r) - (r - 1) * k <= k
        /\ r < m => last(r) - (r - 1) * k = k
        /\ rows[r] \in Seq(Files)
        /\ Len(rows[r]) = last(r) - (r - 1) * k
        /\ \A i \in 1..(last(r) - (r - 1) * k) :
             rows[r][i] = files[(r - 1) * k + i]
  BY RowLengths
<1> HIDE DEF n, m, k, last
<1>4. ASSUME NEW i \in 1..n
      PROVE  LET r == ((i - 1) \div k) + 1
                 c == ((i - 1) % k) + 1
             IN  r \in DOMAIN rows /\ c \in DOMAIN rows[r] /\ rows[r][c] = files[i]
  <2> DEFINE q == (i - 1) \div k
             c == (i - 1) % k
  <2>1. q \in Nat /\ c \in 0..(k - 1) /\ i - 1 = (q * k) + c
    <3>1. i - 1 \in Nat
      BY <1>2
    <3> QED BY <1>1, <3>1, Division
  <2> HIDE DEF q, c
  <2>2. q < m
    <3> SUFFICES ASSUME m <= q PROVE FALSE
      BY <1>2, <2>1
    <3>1. m * k <= q * k
      BY <1>1, <1>2, <2>1, TimesMonotonic
    <3>2. m * k \in Int /\ q * k \in Int
      BY <1>1, <1>2, <2>1
    <3> QED BY <1>1, <1>2, <2>1, <3>1, <3>2
  <2>3. q + 1 \in 1..m /\ (q + 1) - 1 = q
    BY <1>2, <2>1, <2>2
  <2>4. c + 1 \in 1..(last(q + 1) - q * k)
    <3>1. (q + 1) * k = q * k + k /\ q * k \in Int
      BY <1>1, <2>1
    <3> QED BY <1>1, <1>2, <2>1, <3>1 DEF last
  <2>5. /\ rows[q + 1] \in Seq(Files)
        /\ Len(rows[q + 1]) = last(q + 1) - q * k
        /\ rows[q + 1][c + 1] = files[q * k + (c + 1)]
    BY <1>3, <2>3, <2>4
  <2>6. c + 1 \in DOMAIN rows[q + 1]
    BY <2>4, <2>5, LenProperties
  <2>7. q * k + (c + 1) = i
    <3>1. q * k \in Int
      BY <1>1, <2>1
    <3> QED BY <1>1, <1>2, <2>1, <3>1
  <2> QED BY <1>2, <2>3, <2>5, <2>6, <2>7 DEF q, c
<1>5. ASSUME NEW r \in 1..m
      PROVE  Len(rows[r]) \in 1..k /\ (r < m => Len(rows[r]) = k)
  <2>1. (r - 1) * k \in Int /\ r * k \in Int
    BY <1>1, <1>2
  <2>2. last(r) \in Int
    BY <1>2, <2>1 DEF last
  <2> QED BY <1>1, <1>3, <2>1, <2>2
<1> QED BY <1>2, <1>4, <1>5 DEF RowsShowWholeAnswer, n, k

\* The left panel is the grouping of the answer it shows.
RowsInv == shown.files \in Seq(Files) /\ rows = Grouped(shown.files)

\* The empty page groups the empty answer, and only an answer touches the rows.
LEMMA RowsInvHolds == Spec => []RowsInv
<1>1. Init => RowsInv
  <2> SUFFICES ASSUME Init PROVE RowsInv
    OBVIOUS
  <2>1. shown.files = <<>> /\ rows = <<>>
    BY DEF Init
  <2>2. <<>> \in Seq(Files) /\ Len(<<>>) = 0
    BY EmptySeq
  <2> DEFINE m == (0 + numberItemsPerRow - 1) \div numberItemsPerRow
  <2>3. /\ Grouped(<<>>) \in Seq(Seq(Files)) /\ Len(Grouped(<<>>)) = m
        /\ m \in Nat /\ m * numberItemsPerRow < 0 + numberItemsPerRow
    BY <2>2, RowLengths
  <2> HIDE DEF m
  <2>4. m = 0
    <3>1. m >= 1 => 1 * numberItemsPerRow <= m * numberItemsPerRow
      BY <2>3, RowAssumption, TimesMonotonic
    <3>2. m * numberItemsPerRow \in Int
      BY <2>3, RowAssumption
    <3> QED BY <2>3, <3>1, <3>2, RowAssumption
  <2>5. Grouped(<<>>) = <<>>
    BY <2>3, <2>4, EmptySeq
  <2> QED BY <2>1, <2>2, <2>5 DEF RowsInv
<1>2. RowsInv /\ [Next]_vars => RowsInv'
  <2> SUFFICES ASSUME RowsInv, [Next]_vars PROVE RowsInv'
    OBVIOUS
  <2>1. CASE AnswerArrives
    <3>1. PICK files \in Answers : rows' = Grouped(files) /\ shown'.files = files
      BY <2>1 DEF AnswerArrives
    <3> QED BY <3>1, AnswerIsList DEF RowsInv
  <2>2. CASE UNCHANGED <<rows, shown>>
    BY <2>2 DEF RowsInv
  <2>3. [Next]_vars => AnswerArrives \/ UNCHANGED <<rows, shown>>
    BY DEF Next, vars, KeywordSearch, SchemaSearch, Search, Send, ColSim, ColOve,
       AskAboutColumn, SetSchema, SelectColumn, ShowSamples, RequestFails
  <2> QED BY <2>1, <2>2, <2>3
<1> QED BY <1>1, <1>2, PTL DEF Spec

\* The left panel shows one answer whole and in order, for any width of the
\* rows and any length of the answer.
THEOREM RowsAreWhole == Spec => []RowsShowWholeAnswer
<1>1. RowsInv => RowsShowWholeAnswer
  BY GroupedShowsAll DEF RowsInv
<1> QED BY <1>1, RowsInvHolds, PTL

-----------------------------------------------------------------------------
(* Types *)

\* What is clicked is shown: the types of the panels carry over to the
\* selection, and those of the selection to the questions.
LEMMA TypeStep ==
  ASSUME TypeOK, RowsInv', [Next]_vars
  PROVE  TypeOK'
<1> USE ModesAssumption, BoundAssumption DEF TypeOK, Questions
<1>1. \A r \in DOMAIN rows' : \A i \in DOMAIN rows'[r] : rows'[r][i] \in Files
  <2> SUFFICES ASSUME NEW r \in DOMAIN rows', NEW i \in DOMAIN rows'[r]
               PROVE  rows'[r][i] \in Files
    OBVIOUS
  <2>1. rows'[r] \in Seq(Files)
    BY RowLengths DEF RowsInv
  <2> QED BY <2>1, LenProperties, ElementOfSeq
<1>2. ASSUME NEW mode \in Modes, NEW what \in Questions, Send(mode, what)
      PROVE  /\ queryMode' \in AllModes /\ asked' \in Questions
             /\ requests' \in 0..MaxRequests
             /\ waiting' \subseteq [id : 1..requests', mode : Modes, what : Questions]
  <2>1. requests' = requests + 1 /\ requests + 1 \in 0..MaxRequests
    BY <1>2 DEF Send
  <2>2. 1..requests \subseteq 1..(requests + 1) /\ requests + 1 \in 1..(requests + 1)
    OBVIOUS
  <2>3. waiting \subseteq [id : 1..(requests + 1), mode : Modes, what : Questions]
    BY <2>2
  <2> QED BY <1>2, <2>1, <2>2, <2>3 DEF Send
<1>3. ASSUME NEW mode, Search(mode) PROVE TypeOK'
  <2>1. PICK w \in Keywords : Send(mode, w)
    BY <1>3 DEF Search
  <2>2. mode \in Modes /\ w \in Questions
    BY <2>1 DEF Send
  <2> QED BY <1>1, <1>2, <1>3, <2>1, <2>2 DEF Search
<1>4. ASSUME NEW mode, AskAboutColumn(mode) PROVE TypeOK'
  <2>1. /\ mode \in Modes
        /\ [file |-> selectedFile, column |-> selectedColumn] \in Questions
        /\ Send(mode, [file |-> selectedFile, column |-> selectedColumn])
    BY <1>4 DEF AskAboutColumn, Send
  <2> QED BY <1>1, <1>2, <1>4, <2>1 DEF AskAboutColumn
<1>5. CASE SetSchema
  <2>1. PICK f \in ShownIn(rows) : selectedFile' = f /\ schema' = ColumnsOf(f)
    BY <1>5 DEF SetSchema
  <2>2. f \in Files /\ ColumnsOf(f) \subseteq Column
    BY DEF ShownIn, ColumnsOf
  <2> QED BY <1>1, <1>5, <2>1, <2>2 DEF SetSchema
<1>6. CASE SelectColumn \/ ShowSamples
  BY <1>1, <1>6 DEF SelectColumn, ShowSamples
<1>7. CASE AnswerArrives \/ RequestFails
  BY <1>1, <1>7 DEF AnswerArrives, RequestFails
<1>8. CASE UNCHANGED vars
  BY <1>8 DEF vars
<1> QED
  BY <1>3, <1>4, <1>5, <1>6, <1>7, <1>8
     DEF Next, KeywordSearch, SchemaSearch, ColSim, ColOve

\* Every variable keeps its type.
THEOREM TypeCorrect == Spec => []TypeOK
<1>1. Init => TypeOK
  BY BoundAssumption DEF Init, TypeOK
<1>2. TypeOK /\ RowsInv' /\ [Next]_vars => TypeOK'
  BY TypeStep
<1> QED BY <1>1, <1>2, RowsInvHolds, PTL DEF Spec
=============================================================================
