------------------------------- MODULE WebGui -------------------------------
(***************************************************************************)
(* The web front end: the controller of the single page (one handler at a  *)
(* time, as a browser runs them) and the requests it has under way.        *)
(*                                                                         *)
(* The left panel shows the files of an answer in rows; a click on a file  *)
(* shows its schema in the right panel, a click on a column selects it; a  *)
(* search or a question about the selected column sends a request, whose   *)
(* answer replaces the rows when it arrives.  Only what a panel shows can  *)
(* be clicked.                                                             *)
(***************************************************************************)
EXTENDS Integers, Sequences, FiniteSets

CONSTANTS
  Files,                 \* names of sources in the lake
  ColumnNames,           \* every file has these columns
  Keywords,              \* what is typed into the two search fields
  Modes,                 \* the questions the page offers
  Routes,                \* those the server answers, the others fail
  numberItemsPerRow,
  MaxAnswer,             \* files in an answer (bound)
  MaxRequests,           \* requests of a session (bound)
  Null

AllModes == {"kw", "ss", "colsim", "colove"}
ASSUME ModesAssumption == Modes \subseteq AllModes /\ Routes \subseteq Modes
ASSUME NullAssumption  == Null \notin Files \union ColumnNames \union Keywords
ASSUME RowAssumption   == numberItemsPerRow \in Nat \ {0}
ASSUME BoundAssumption == MaxAnswer \in Nat /\ MaxRequests \in Nat

VARIABLES
  rows,                  \* the left panel: rows of files
  schema,                \* the right panel: columns, or Null
  selectedFile, selectedColumn,
  queryMode,             \* what the header says was asked
  asked,                 \* its keyword, attributes, or file and column
  samplesOf,             \* the column whose samples the dialog shows
  requests,              \* requests sent so far
  waiting,               \* requests without an answer
  shown                  \* history: the answer in the left panel, and its question

vars == <<rows, schema, selectedFile, selectedColumn, queryMode, asked,
          samplesOf, requests, waiting, shown>>

Column == [file : Files, name : ColumnNames]
ColumnsOf(f) == {c \in Column : c.file = f}

\* Distinct files: the server groups what it found by file.
Answers == {a \in UNION {[1..n -> Files] : n \in 0..MaxAnswer} :
              \A i, j \in DOMAIN a : a[i] = a[j] => i = j}

-----------------------------------------------------------------------------
\* formatServerResultIntoClientFormat: full rows, and what is left in one more.
Grouped(files) ==
  [r \in 1..((Len(files) + numberItemsPerRow - 1) \div numberItemsPerRow) |->
     SubSeq(files, (r - 1) * numberItemsPerRow + 1,
            IF r * numberItemsPerRow <= Len(files)
            THEN r * numberItemsPerRow ELSE Len(files))]

ShownIn(panel) == UNION {{panel[r][i] : i \in DOMAIN panel[r]} : r \in DOMAIN panel}

Init ==
  /\ rows = <<>> /\ schema = {}
  /\ selectedFile = Null /\ selectedColumn = Null
  /\ queryMode = "null" /\ asked = Null /\ samplesOf = Null
  /\ requests = 0 /\ waiting = {}
  /\ shown = [mode |-> "null", what |-> Null, files |-> <<>>]

\* Every question is sent at once; no earlier one is cancelled.
Send(mode, what) ==
  /\ mode \in Modes /\ requests < MaxRequests
  /\ requests' = requests + 1
  /\ waiting' = waiting \union {[id |-> requests + 1, mode |-> mode, what |-> what]}
  /\ queryMode' = mode /\ asked' = what

Search(mode) ==
  /\ \E k \in Keywords : Send(mode, k)
  /\ UNCHANGED <<rows, schema, selectedFile, selectedColumn, samplesOf, shown>>

KeywordSearch == Search("kw")
SchemaSearch  == Search("ss")

\* Mutant: a file is enough to ask about a column.
AskAboutFile(mode) ==
  /\ selectedFile # Null
  /\ schema' = Null
  /\ Send(mode, [file |-> selectedFile, column |-> selectedColumn])
  /\ UNCHANGED <<rows, selectedFile, selectedColumn, samplesOf, shown>>

\* colSim and colOve differ by the route: without a selection they alert,
\* with one they empty the right panel and ask.
AskAboutColumn(mode) ==
  /\ selectedFile # Null /\ selectedColumn # Null
  /\ schema' = Null
  /\ Send(mode, [file |-> selectedFile, column |-> selectedColumn])
  /\ UNCHANGED <<rows, selectedFile, selectedColumn, samplesOf, shown>>

ColSim == AskAboutColumn("colsim")
ColOve == AskAboutColumn("colove")

\* Mutant: the column selected before stays selected.
SetSchemaKeepsColumn ==
  /\ \E f \in ShownIn(rows) : selectedFile' = f /\ schema' = ColumnsOf(f)
  /\ UNCHANGED <<rows, selectedColumn, queryMode, asked, samplesOf, requests,
                 waiting, shown>>

SetSchema ==
  /\ \E f \in ShownIn(rows) : selectedFile' = f /\ schema' = ColumnsOf(f)
  /\ selectedColumn' = Null
  /\ UNCHANGED <<rows, queryMode, asked, samplesOf, requests, waiting, shown>>

SelectColumn ==
  /\ schema # Null /\ \E c \in schema : selectedColumn' = c
  /\ UNCHANGED <<rows, schema, selectedFile, queryMode, asked, samplesOf,
                 requests, waiting, shown>>

ShowSamples ==
  /\ schema # Null /\ \E c \in schema : samplesOf' = c
  /\ UNCHANGED <<rows, schema, selectedFile, selectedColumn, queryMode, asked,
                 requests, waiting, shown>>

\* The answers arrive in any order, and each replaces the rows.
AnswerArrives ==
  /\ \E q \in waiting : \E files \in Answers :
       /\ q.mode \in Routes
       /\ rows' = Grouped(files)
       /\ shown' = [mode |-> q.mode, what |-> q.what, files |-> files]
       /\ waiting' = waiting \ {q}
  /\ UNCHANGED <<schema, selectedFile, selectedColumn, queryMode, asked,
                 samplesOf, requests>>

\* No handler is called for an error.
RequestFails ==
  /\ \E q \in waiting : q.mode \notin Routes /\ waiting' = waiting \ {q}
  /\ UNCHANGED <<rows, schema, selectedFile, selectedColumn, queryMode, asked,
                 samplesOf, requests, shown>>

Next ==
  \/ KeywordSearch \/ SchemaSearch \/ ColSim \/ ColOve
  \/ SetSchema \/ SelectColumn \/ ShowSamples
  \/ AnswerArrives \/ RequestFails

Spec == Init /\ [][Next]_vars

-----------------------------------------------------------------------------
(* Properties *)

Questions == Keywords \union [file : Files, column : Column]

\* Every variable stays in its range.
TypeOK ==
  /\ \A r \in DOMAIN rows : \A i \in DOMAIN rows[r] : rows[r][i] \in Files
  /\ schema = Null \/ schema \subseteq Column
  /\ selectedFile \in Files \union {Null}
  /\ selectedColumn \in Column \union {Null}
  /\ queryMode \in AllModes \union {"null"} /\ asked \in Questions \union {Null}
  /\ samplesOf \in Column \union {Null}
  /\ requests \in 0..MaxRequests
  /\ waiting \subseteq [id : 1..requests, mode : Modes, what : Questions]

\* The right panel, the selected file and the selected column, chosen by two
\* clicks between which answers replace the rows and questions empty the
\* panel, belong together; so do the file and the column of every question
\* that is under way, and the header's.
SelectionOfOneFile ==
  /\ schema # Null /\ schema # {} => schema = ColumnsOf(selectedFile)
  /\ selectedColumn # Null => selectedColumn.file = selectedFile
  /\ \A q \in waiting :
       q.mode \in {"colsim", "colove"} => q.what.column.file = q.what.file
  /\ queryMode \in {"colsim", "colove"} => asked.column.file = asked.file

\* The rows are the answer they came from, complete and in its order, in rows
\* of numberItemsPerRow files of which only the last may be shorter.
RowsShowWholeAnswer ==
  LET n == Len(shown.files) IN
  /\ \A i \in 1..n :
       LET r == ((i - 1) \div numberItemsPerRow) + 1
           k == ((i - 1) % numberItemsPerRow) + 1
       IN  r \in DOMAIN rows /\ k \in DOMAIN rows[r] /\ rows[r][k] = shown.files[i]
  /\ \A r \in DOMAIN rows :
       /\ Len(rows[r]) \in 1..numberItemsPerRow
       /\ r < Len(rows) => Len(rows[r]) = numberItemsPerRow
  /\ Len(rows) * numberItemsPerRow < n + numberItemsPerRow

\* controller.js:41: the files returned by the last user action.  When no
\* answer is awaited, the files in the left panel answer the question that the
\* header shows, which is the last one.
RowsOfLastAction ==
  waiting = {} /\ rows # <<>> => shown.mode = queryMode /\ shown.what = asked
=============================================================================
