------------------------------- MODULE Ingest -------------------------------
(***************************************************************************)
(* How the rows of a source become a profile and text documents (layer L1):*)
(* the connectors read chunks of rows, the pre-analyzer types each column  *)
(* by the first chunk and casts every chunk to that type, the analyzers    *)
(* count the values, the indexer hands the text to the store, and the bulk *)
(* processor of the native store sends documents behind the worker's back, *)
(* to a store that takes them one by one, in any order, at any time.       *)
(*                                                                         *)
(* One worker takes the sources of a job in any order; the job may be      *)
(* killed, and run again over the same store.  Module Profiler models the  *)
(* threads, queues and counters around this loop.                          *)
(***************************************************************************)
EXTENDS Integers, FiniteSets, FiniteSetsExt, SequencesExt

CONSTANTS
  Sources,     \* the files and tables of a job
  Kinds,       \* what a source may be (see AllKinds)
  Columns,     \* columns of a source
  Tables,      \* what a source may hold: sequences of rows
  Chunk,       \* rows per read (num.record.read)
  BulkLimit,   \* documents that fill a request (bound for the 50 MB)
  MaxRuns,     \* jobs over the same store (bound)
  NoSource

AllKinds == {"csv", "postgres", "oracle", "mysql"}

(***************************************************************************)
(* A cell is told apart by what the type inference and the cast see in it: *)
(* "padded" is a number with spaces around it, which is trimmed before it  *)
(* is typed and not before it is cast; "blank" is "" or "nan".             *)
(***************************************************************************)
Cells == {"int", "float", "word", "blank", "padded"}

ASSUME SourcesAssumption == IsFiniteSet(Sources) /\ NoSource \notin Sources
ASSUME KindsAssumption   == Kinds \subseteq AllKinds
ASSUME ColumnsAssumption == Columns \in Nat \ {0}
ASSUME BoundsAssumption  ==
  Chunk \in Nat \ {0} /\ BulkLimit \in Nat \ {0} /\ MaxRuns \in Nat \ {0}
ASSUME TablesAssumption  == \A t \in Tables : t \in Seq(Seq(Cells))

VARIABLES
  kind, table,   \* the data lake: what each source is and holds
  run,           \* the job that runs or ran last
  pending,       \* its sources that are not pulled yet
  counted,       \* its sources counted as processed
  pc, source,    \* where the worker is, and with which source
  offset,        \* DBConnector.currentOffset, or the lines read of a file
  chunk,         \* chunks consumed (0: the next read is the first)
  batch,         \* the rows of the chunk just read
  types,         \* Attribute.columnType of each column
  total,         \* totalRecords of each column's analyzer
  results,       \* columns whose result is not given to the store yet
  buffer,        \* documents the bulk processor has not sent
  waiting,       \* whether the answer to a request is awaited
  inflight,      \* documents sent that the store has not taken (it may never)
  index,         \* the documents of the store
  unsent,        \* history: documents that a crash took from the buffer
  disturbed      \* history: sources whose rows moved, or whose query failed,
                 \* while they were read

lake    == <<kind, table>>
job     == <<run, pending, counted>>
reading == <<source, offset, chunk, batch, types, total, results>>
bulk    == <<buffer, waiting, inflight, index, unsent>>
vars    == <<lake, job, pc, reading, bulk, disturbed>>

Cols == 1..Columns

-----------------------------------------------------------------------------
(* Connectors: what a read may return; no row is the end of the data *)

Slice(t, first, last) == SubSeq(t, first, Min({last, Len(t)}))

\* The next lines of a file.
Page(t, from) == Slice(t, from + 1, from + Chunk)

\* Any n rows of a table: no query orders them.  (The order within a chunk
\* shows nowhere, so that of the table stands for all.)
AnyRows(t, n) ==
  {[i \in 1..n |-> t[f[i]]] :
     f \in {f \in [1..n -> DOMAIN t] : \A i, j \in 1..n : i < j => f[i] < f[j]}}

\* Mutant: the offset is one row too far after the first page.
PageSizeShort(t, from) ==
  IF from = 0 THEN Min({Chunk, Len(t)})
  ELSE IF from + 1 < Len(t) THEN Min({Chunk, Len(t) - from - 1}) ELSE 0

\* LIMIT num OFFSET from: the number of rows is certain.
PageSize(t, from) == IF from < Len(t) THEN Min({Chunk, Len(t) - from}) ELSE 0

\* ROWNUM BETWEEN from AND from + num: rows are numbered as they are
\* selected, so that a lower bound above one selects none.
RowNumSize(t, from) == IF from <= 1 THEN Min({from + Chunk, Len(t)}) ELSE 0

\* A MySQL table has no statement: executing null throws, which ends the data.
NextRows(k, t, from) ==
  CASE k = "csv"      -> {Page(t, from)}
    [] k = "postgres" -> AnyRows(t, PageSize(t, from))
    [] k = "oracle"   -> AnyRows(t, RowNumSize(t, from))
    [] k = "mysql"    -> {<<>>}

\* Rows of another width than the header are skipped, in every column.  A row
\* is known by its number.
WellFormed(rows) == {i \in DOMAIN rows : Len(rows[i]) = Columns}

\* What the type inference sees of a column.
Values(rows, c) == {rows[i][c] : i \in WellFormed(rows)}

-----------------------------------------------------------------------------
(* The pre-analyzer: types and casts *)

TypeOfValue(values) ==
  LET seen == values \ {"blank"} IN
  IF "word" \in seen THEN "STRING"
  ELSE IF "float" \in seen THEN "FLOAT"
  ELSE IF seen # {} THEN "INT" ELSE "STRING"

\* The cells that survive the cast; the others are skipped without a trace.
Castable(type) ==
  CASE type = "INT"   -> {"int"}
    [] type = "FLOAT" -> {"int", "float"}
    [] OTHER          -> Cells

Cast(rows, c, type) == {i \in WellFormed(rows) : rows[i][c] \in Castable(type)}

\* Mutant: every chunk is typed anew.
RetypeEachChunk(known, rows) == [c \in Cols |-> TypeOfValue(Values(rows, c))]

\* Only a column that has no type yet gets one.
CalculateDataTypes(known, rows) ==
  [c \in Cols |-> IF known[c] # "UNKNOWN" THEN known[c]
                  ELSE TypeOfValue(Values(rows, c))]

-----------------------------------------------------------------------------
(* Documents *)

\* The values of a column in the chunk just read, by the number of their row
\* among those that the task has read.
Fed(c, type) == {offset - Len(batch) + i : i \in Cast(batch, c, type)}

\* A text document holds the values, here their rows; a profile counts them.
TextDoc(c, ts) ==
  [kind |-> "text", run |-> run, source |-> source, column |-> c,
   type |-> ts[c], chunk |-> chunk, rows |-> Fed(c, ts[c])]

\* The columns the indexer lets through, one document per column and chunk.
IndexData(ts) == {TextDoc(c, ts) : c \in {c \in Cols : ts[c] = "STRING"}}

ProfileDoc(c) ==
  [kind |-> "profile", run |-> run, source |-> source, column |-> c,
   type |-> types[c], values |-> total[c]]

\* A profile replaces that of its column (the id is the column's); a text
\* document has an id of its own.
Applied(docs) ==
  {d \in index : \A e \in docs :
     ~ /\ d.kind = "profile" /\ e.kind = "profile"
       /\ d.source = e.source /\ d.column = e.column} \union docs

-----------------------------------------------------------------------------
Init ==
  /\ kind \in [Sources -> Kinds] /\ table \in [Sources -> Tables]
  /\ \A s \in Sources : kind[s] # "csv" => WellFormed(table[s]) = DOMAIN table[s]
  /\ run = 1 /\ pending = Sources /\ counted = {}
  /\ pc = "idle" /\ source = NoSource /\ offset = 0 /\ chunk = 0 /\ batch = <<>>
  /\ types = [c \in Cols |-> "UNKNOWN"] /\ total = [c \in Cols |-> 0]
  /\ results = {}
  /\ buffer = {} /\ waiting = FALSE /\ inflight = {} /\ index = {} /\ unsent = {}
  /\ disturbed = {}

\* The connector, the analyzers and the attributes live for one task.
LocalsFor(s) ==
  /\ source' = s
  /\ offset' = 0 /\ chunk' = 0 /\ batch' = <<>> /\ results' = {}
  /\ types' = [c \in Cols |-> "UNKNOWN"] /\ total' = [c \in Cols |-> 0]

PullTask ==
  /\ pc = "idle"
  /\ \E s \in pending : LocalsFor(s) /\ pending' = pending \ {s}
  /\ pc' = "read"
  /\ UNCHANGED <<lake, run, counted, bulk, disturbed>>

\* Without a first chunk the task fails; without a further one it is over.
NoMoreRows ==
  /\ pc' = IF chunk = 0 THEN "failed" ELSE "store"
  /\ results' = IF chunk = 0 THEN {} ELSE Cols
  /\ UNCHANGED <<source, offset, chunk, batch, types, total>>

\* Mutant: an empty first chunk is read again.
ReadRowsAgain ==
  /\ pc = "read"
  /\ \E rows \in NextRows(kind[source], table[source], offset) :
       IF rows = <<>>
       THEN chunk > 0 /\ NoMoreRows
       ELSE /\ batch' = rows /\ offset' = offset + Len(rows)
            /\ pc' = "feed"
            /\ UNCHANGED <<source, chunk, types, total, results>>
  /\ UNCHANGED <<lake, job, bulk, disturbed>>
ReadRows ==
  /\ pc = "read"
  /\ \E rows \in NextRows(kind[source], table[source], offset) :
       IF rows = <<>>
       THEN NoMoreRows
       ELSE /\ batch' = rows /\ offset' = offset + Len(rows)
            /\ pc' = "feed"
            /\ UNCHANGED <<source, chunk, types, total, results>>
  /\ UNCHANGED <<lake, job, bulk, disturbed>>

\* executeQuery throws: readRows answers as at the end of the table.
QueryFails ==
  /\ pc = "read" /\ kind[source] # "csv"
  /\ NoMoreRows
  /\ disturbed' = disturbed \union {source}
  /\ UNCHANGED <<lake, job, bulk>>

\* Any other failure of a read is swallowed, and the missing chunk is used.
ReadThrows ==
  /\ pc = "read"
  /\ pc' = "failed"
  /\ UNCHANGED <<lake, job, reading, bulk, disturbed>>

\* The conductor's error log is not modelled here.
TaskFails ==
  /\ pc = "failed"
  /\ LocalsFor(NoSource)
  /\ pc' = "idle"
  /\ UNCHANGED <<lake, job, bulk, disturbed>>

\* Mutant: a full request goes on taking documents.
RoomIgnored == TRUE

\* bulkProcessor.add blocks on a full request that cannot be sent yet.
Room == Cardinality(buffer) < BulkLimit

Feed(ts) ==
  /\ types' = ts
  /\ total' = [c \in Cols |-> total[c] + Cardinality(Fed(c, ts[c]))]
  /\ chunk' = chunk + 1
  /\ batch' = <<>>
  /\ pc' = "read"
  /\ UNCHANGED <<lake, job, source, offset, results, waiting, inflight, index,
                 unsent, disturbed>>

\* Mutant: the chunk that gives the types is not indexed.
ReadFirstRecordsUnindexed ==
  /\ pc = "feed" /\ chunk = 0 /\ Room
  /\ Feed(CalculateDataTypes(types, batch))
  /\ UNCHANGED buffer

ReadFirstRecords ==
  /\ pc = "feed" /\ chunk = 0 /\ Room
  /\ LET ts == CalculateDataTypes(types, batch) IN
       Feed(ts) /\ buffer' = buffer \union IndexData(ts)

FeedValuesToAnalyzers ==
  /\ pc = "feed" /\ chunk > 0 /\ Room
  /\ LET ts == CalculateDataTypes(types, batch) IN
       Feed(ts) /\ buffer' = buffer \union IndexData(ts)

StoreDocument ==
  /\ pc = "store" /\ Room
  /\ \E c \in results :
       /\ buffer' = buffer \union {ProfileDoc(c)}
       /\ results' = results \ {c}
  /\ UNCHANGED <<lake, job, pc, source, offset, chunk, batch, types, total,
                 waiting, inflight, index, unsent, disturbed>>

NotifyProcessedTask ==
  /\ pc = "store" /\ results = {}
  /\ counted' = counted \union {source}
  /\ LocalsFor(NoSource)
  /\ pc' = "idle"
  /\ UNCHANGED <<lake, run, pending, bulk, disturbed>>

-----------------------------------------------------------------------------
(* The bulk processor and the store *)

\* One concurrent request: the next waits for the answer.
MaySend == ~ waiting

\* Mutant: the profiles are sent on their own, before the text.
SendProfilesFirst ==
  LET docs == IF \E d \in buffer : d.kind = "profile"
              THEN {d \in buffer : d.kind = "profile"} ELSE buffer
  IN  inflight' = inflight \union docs /\ buffer' = buffer \ docs /\ waiting' = TRUE

\* All that is buffered goes in one request.
Send == inflight' = inflight \union buffer /\ buffer' = {} /\ waiting' = TRUE

\* Every five seconds, or when the request is full.
Flush ==
  /\ pc # "exited" /\ buffer # {} /\ MaySend
  /\ Send
  /\ UNCHANGED <<lake, job, pc, reading, index, unsent, disturbed>>

\* The items of a request are independent: the store takes each of them before
\* or after the answer, after those of a later request, or never.
StoreApplies ==
  /\ \E d \in inflight : index' = Applied({d}) /\ inflight' = inflight \ {d}
  /\ UNCHANGED <<lake, job, pc, reading, buffer, waiting, unsent, disturbed>>

\* The answer, or the timeout.  Nobody looks at it: what failed is not sent
\* again.
AfterBulk ==
  /\ pc # "exited" /\ waiting
  /\ waiting' = FALSE
  /\ UNCHANGED <<lake, job, pc, reading, buffer, inflight, index, unsent, disturbed>>

\* Mutant: the store is torn down without closing the bulk processor.
TearDownHttpOnly ==
  /\ pc = "idle" /\ pending = {}
  /\ pc' = "closed"
  /\ UNCHANGED <<lake, job, reading, bulk, disturbed>>

\* close sends what is left and does not wait for the answer.
TearDownStore ==
  /\ pc = "idle" /\ pending = {}
  /\ \/ buffer # {} /\ MaySend /\ Send
     \/ buffer = {} /\ UNCHANGED <<buffer, waiting, inflight>>
  /\ pc' = "closed"
  /\ UNCHANGED <<lake, job, reading, index, unsent, disturbed>>

\* The process ends, and its buffer with it; what was sent may still arrive.
Exit(docs) ==
  /\ unsent' = docs /\ buffer' = buffer \ docs
  /\ waiting' = FALSE
  /\ LocalsFor(NoSource)
  /\ pc' = "exited"
  /\ UNCHANGED <<lake, job, inflight, index, disturbed>>

ProcessExits == pc = "closed" /\ Exit({})
ProcessDies  == pc \notin {"closed", "exited"} /\ Exit(buffer)

-----------------------------------------------------------------------------
(* Around the job *)

\* The job is run again, by hand, over the same sources and the same store.
\* What has not reached the store by then never does.
RunAgain ==
  /\ pc = "exited" /\ run < MaxRuns
  /\ run' = run + 1 /\ pending' = Sources /\ counted' = {}
  /\ disturbed' = {} /\ inflight' = {} /\ unsent' = {}
  /\ pc' = "idle"
  /\ UNCHANGED <<lake, reading, buffer, waiting, index>>

\* Another client deletes a row of a table that is being read.
RowDeleted ==
  /\ pc = "read" /\ chunk > 0 /\ kind[source] # "csv"
  /\ \E i \in DOMAIN table[source] :
       table' = [table EXCEPT ![source] = RemoveAt(@, i)]
  /\ disturbed' = disturbed \union {source}
  /\ UNCHANGED <<kind, job, pc, reading, bulk>>

Worker ==
  \/ PullTask \/ ReadRows \/ TaskFails
  \/ ReadFirstRecords \/ FeedValuesToAnalyzers
  \/ StoreDocument \/ NotifyProcessedTask
  \/ TearDownStore \/ ProcessExits

Next ==
  \/ Worker \/ Flush \/ StoreApplies \/ AfterBulk
  \/ QueryFails \/ ReadThrows \/ ProcessDies \/ RunAgain \/ RowDeleted

\* The worker runs (no failure has to happen), the flush interval elapses, and
\* a request is answered or times out.  The store owes nothing.
Fairness == WF_vars(Worker) /\ WF_vars(Flush) /\ WF_vars(AfterBulk)

Spec == Init /\ [][Next]_vars /\ Fairness

-----------------------------------------------------------------------------
(* Properties *)

Documents ==
  [kind : {"text"}, run : 1..MaxRuns, source : Sources, column : Cols,
   type : {"STRING"}, chunk : Nat, rows : SUBSET Nat]
  \union
  [kind : {"profile"}, run : 1..MaxRuns, source : Sources, column : Cols,
   type : {"INT", "FLOAT", "STRING"}, values : Nat]

\* Every variable stays in its range, and a full request is not added to: it
\* holds at most the documents of one chunk above the limit.
TypeOK ==
  /\ kind \in [Sources -> Kinds]
  /\ run \in 1..MaxRuns /\ pending \subseteq Sources
  /\ counted \subseteq Sources \ pending
  /\ pc \in {"idle", "read", "feed", "store", "failed", "closed", "exited"}
  /\ source \in Sources \union {NoSource}
  /\ offset \in Nat /\ chunk \in Nat
  /\ types \in [Cols -> {"UNKNOWN", "INT", "FLOAT", "STRING"}]
  /\ total \in [Cols -> Nat] /\ results \subseteq Cols
  /\ buffer \subseteq Documents /\ Cardinality(buffer) < BulkLimit + Columns
  /\ waiting \in BOOLEAN /\ inflight \subseteq Documents
  /\ index \subseteq Documents /\ unsent \subseteq Documents
  /\ disturbed \subseteq Sources

\* All that was handed to the store in this job, and what was there before.
Everywhere == index \union inflight \union buffer \union unsent
ProfilesIn(docs) == {d \in docs : d.kind = "profile"}
TextOf(p, docs) ==
  {d \in docs : /\ d.kind = "text" /\ d.run = p.run
                /\ d.source = p.source /\ d.column = p.column}

\* A profile of a file covers every well-formed row exactly once, whatever the
\* size of its chunks: its type is that of the first chunk and its total
\* counts the values of the whole column that this type can hold.
WholeColumnProfiled ==
  \A p \in ProfilesIn(Everywhere) :
    (p.run = run /\ kind[p.source] = "csv") =>
      LET t == table[p.source]
          type == TypeOfValue(Values(Page(t, 0), p.column))
      IN  p.type = type /\ p.values = Cardinality(Cast(t, p.column, type))

\* The pages of a PostgreSQL table have no order, so that a row may be read
\* twice and another never; the sizes of the pages still add up.  A text
\* column's profile counts as many values as the table has rows, and no other
\* profile more.  (Unless a row was deleted or a query failed meanwhile.)
TableSizeCounted ==
  \A p \in ProfilesIn(Everywhere) :
    (p.run = run /\ p.source \notin disturbed /\ kind[p.source] = "postgres") =>
      LET n == Len(table[p.source])
      IN  IF p.type = "STRING" THEN p.values = n ELSE p.values <= n

\* The text index and the profile of a text column agree: the documents the
\* column gave rise to in the same job share no value, and hold as many as its
\* profile counts, wherever the bulk processor has brought each of them, and
\* however the reading went.
TextMatchesProfile ==
  \A p \in ProfilesIn(Everywhere) :
    p.run = run =>
      LET texts == TextOf(p, Everywhere)
      IN  /\ \A d, e \in texts : d # e => d.rows \cap e.rows = {}
          /\ Cardinality(UNION {d.rows : d \in texts}) =
               IF p.type = "STRING" THEN p.values ELSE 0

\* A crash never keeps a profile whose text it drops: once the profile of a
\* column was sent, all the text of the column in that job was sent before it
\* or with it.  (The store may still take the profile first.)
TextSentWithProfile ==
  \A p \in ProfilesIn(index \union inflight) :
    TextOf(p, buffer \union unsent) = {}

\* When the process is over, every column of a source that was counted has
\* its profile in the store or sent to it, unless a crash took it from the
\* buffer; a process that comes to its end leaves nothing unsent.
CountedIsStored ==
  pc = "exited" =>
    \A s \in counted : \A c \in Cols :
      \E p \in ProfilesIn(index \union inflight \union unsent) :
        p.run = run /\ p.source = s /\ p.column = c

\* A job that is not killed comes to its end, whatever the sources hold and
\* however the store answers.
JobEnds == pc # "exited" ~> pc = "exited"
=============================================================================
