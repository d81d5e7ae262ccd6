# A formal model of Aurum

Aurum discovers relations between the columns of many data sources. It has
three layers. The **profiler** (L1, Java, `src/ddprofiler`) reads every column
of a folder of CSV files or of a database and writes one profile per column,
and the text of the textual columns, to a store (Elasticsearch). The **model
builder** (L2, Python, `src/networkbuildercoordinator.py`) reads the profiles
back and builds a *field network*: one node per column, edges labelled with
relations (similar content, similar name, candidate primary key / foreign key).
The **discovery API** (L3, Python, `src/ddapi.py`) answers questions with
*discovery result sets* (DRS) computed from the network and the store.

This directory holds TLA+ modules that model parts of these layers, the TLC
configurations that check them on small instances, and TLAPS proofs.

To repeat the checks, run TLC on every configuration listed under
[Runs](#runs) (`tlc -config MCDrs_all.cfg MCDrs`) and `tlapm` on the
modules whose names end in `Proofs`. Operators named in a comment as a
*mutant* are unused by the specifications: each is a plausible bug, and putting
it in the place of the definition that follows it must break the property
that `PROJECT.json` pairs it with.

## Inventory

### Layer 1: the profiler

| component | state | operations | what is hard |
|---|---|---|---|
| orchestration (`core/Main`, `Conductor`, `Worker`, `WorkerTask`, packages) | task, error queue, four counters, a flag per thread, the field `Worker.task` | submit, pull, profile, count, report, stop, join, tear down | three kinds of threads over shared queues and counters; termination by counting; errors in the error path |
| source connectors (`inputoutput/conn`) | open reader or connection, `currentOffset`, cached attributes | open, attributes, read a chunk, close | failures that look like the end of the data; paging; the header |
| type inference (`preanalysis/PreAnalyzer`) | the type of each attribute | read and cast a chunk | the first chunk decides for all |
| analyzers (`analysis`) | running range, cardinality sketch, entities | feed a chunk, read the result | numeric edges; the entity analyzer is shared by the columns of a worker |
| result holder, ids (`core/WorkerTaskResultHolder`, `Utils`) | an iterator over results | has next, next | ids are 32 bit checksums |
| data indexer (`core/FilterAndBatchDataIndexer`) | id of each attribute | index a chunk | text reaches the store before the outcome of the task is known |
| stores (`store`) | bulk queue or HTTP client | init, index data, store document, tear down | batches fail later, and only a log line says so |
| REST server (`comm`), configuration (`core/config`) | none that lasts | parse, validate | – |

The main thread submits tasks to the conductor, workers pull them and drive
connector, pre-analyzer, analyzers and store, the consumer logs and counts the
failures. What makes this right: every source is counted exactly once, as a
success or as a failure; the job ends; the store is closed after the last use;
a failed source leaves no profile; the log names the right source, and never one
that is still to be done; a profile covers its whole column, agrees with the
text of its column, and is not sent before it; what was counted is sent.

### Layer 2: store to network

| component | state | operations | what is hard |
|---|---|---|---|
| store client (`modelstore/elasticstore.py`) | scroll | read all fields, signatures, search | scroll loops that count down to zero |
| field network (`knowledgerepr/fieldnetwork.py`) | graph, id → names, source → ids | register fields, add a relation, neighbours, paths, save, load | dictionaries shared by class; three files written one by one; searches |
| network builder (`knowledgerepr/networkbuilder.py`) | none | one function per relation | order of two iterations must agree; thresholds |
| coordinator (`networkbuildercoordinator.py`) | none | the stages in order | the store may change between stages; a crash while saving |

What makes this right: nodes, names and source index agree, also after a
crash; relations hold both ways; a search finds a path exactly when there is
one.

### Layer 3: discovery

| component | state | operations | what is hard |
|---|---|---|---|
| result sets (`api/apiutils.py`) | data, provenance graph, two cursors, mode, table view, ranking data | iterate, set operations, absorb, rank, provenance queries | the object is its own iterator; caches derived from data that changes |
| API (`ddapi.py`) | none (network, store client) | seed, search, primitives, combiners, path queries, traverse | loops whose bodies change what they iterate; operands that are changed |
| reporting, shell (`api/reporting.py`, `main.py`) | none | counts | – |

What makes this right: a call uses all of its input and nothing else, returns,
and leaves its inputs fit for the next call; a ranking is one of the current
data.

### Beside the layers

A web page over the API (`old_frontend`): one AngularJS controller
(`webgui/js/controller.js`) that keeps what two panels show and what is
selected, and sends a request per question, whose answers may overtake each
other; the other scripts of the directory are vendored libraries. What makes it
right: the panels show whole answers, and a question is about one file.

The earlier celery indexer (`old_dist_infra_py`), its statistics and concept
graph (`dataanalysis`, `conceptgraph`), a vendored copy of NearPy, benchmarks
and tests.

## Modules

| module | models | |
|---|---|---|
| `ProfilerJob` | what a job promises | abstract specification |
| `Profiler` | orchestration of an offline job | implements `ProfilerJob` |
| `Ingest` | from the rows of a source to documents in the store | |
| `FieldNetwork` | the network as data, and the relations of the builder | operators |
| `NetworkBuild` | building, saving and loading the network | extends `FieldNetwork` |
| `Drs` | result sets and the API calls over them | |
| `Provenance` | the provenance graphs of result sets | |
| `PathSearch` | path queries over fields | |
| `WebGui` | the controller of the web page and its requests | |
| `ProfilerProofs`, `IngestProofs`, `NetworkBuildProofs`, `DrsProofs`, `ProvenanceProofs`, `PathSearchProofs`, `WebGuiProofs` | theorems about the module of that name | TLAPS |
| `MCProfiler`, `MCIngest`, `MCNetworkBuild`, `MCDrs`, `MCProvenance`, `MCPathSearch`, `MCWebGui` | instances for TLC | |

The modules meet at the data they share. `Profiler` takes what a worker does
with one source as a few steps that may fail; `Ingest` takes the threads away
and models those steps. `Ingest` ends with profile documents in an index;
`NetworkBuild` begins with such an index, into which a profiler still stores.
`NetworkBuild` ends with a loaded network; `Drs`, `Provenance` and `PathSearch`
have any network as a constant. `WebGui` has the answers of the server as
inputs.

### Profiler

One `pc` per thread (`main`, `consumer`, `worker[w]`); a step is what a thread
does between two accesses to shared state.

| action | code |
|---|---|
| `CountSubmission`, `SubmitTask` | the two statements of `Conductor.submitTask`, which are not atomic together |
| `AllSubmitted`, `StopConsumer`, `JoinConsumer`, `TearDownStore` | the end of `Main.startProfiler`, `Conductor.stop` |
| `StartWorker`, `ConsumerChecks`, `NoError`, `PollError`, `LogError`, `CountError`, `CountFailed`, `StopWorker`, `ConsumerExits` | `Consumer.run` |
| `WorkerChecks`, `NoTaskPulled`, `PollTask`, `OpenSource`, `OpenAbsent`, `OpenZeroByte` | the head of the loop of `Worker.run`, `pullTask` and what it calls |
| `ReadFirstRecords`, `ReadNothing`, `ReadFails`, `EndOfData`, `StoreDocument`, `NotifyProcessedTask`, `CountColumns` | the body of the loop |
| `ReportError`, `WorkerDies` | the catch block; `task.toString()` in it may itself throw |

`Faults` says what may go wrong: the listing fails, a file is gone when it is
opened, has no line at all, has no row, or reading it throws. Nothing in the
code interrupts a thread, so interrupts are left out; an `OutOfMemoryError`,
which no handler catches, is too. Queues are unbounded in the code and sets
here, since a source is submitted once and no property depends on order.
`processed` and `failed` are history variables.

The flags `doWork` are not `volatile`. Every loop that tests one polls a
concurrent queue in each iteration, whose locking makes the flag be read again,
so a write is seen.

### Ingest

One worker, one source at a time, chunk by chunk.

| action | code |
|---|---|
| `ReadRows`, `NoMoreRows` | `PreAnalyzer.readRows` over the connector; no rows end the data, and on the first read fail the task |
| `QueryFails` | a query that throws, which `DBConnector.readRows` reports as the end of the table |
| `ReadThrows` | any other exception, which `PreAnalyzer` swallows and whose missing chunk then throws |
| `ReadFirstRecords`, `FeedValuesToAnalyzers` | types, casts, counts and the text documents of one chunk |
| `StoreDocument`, `NotifyProcessedTask` | the results of a source, and its count |
| `Flush`, `AfterBulk`, `TearDownStore` | the bulk processor: a request every five seconds or when one is full, one at a time; answers and timeouts that are only logged |
| `StoreApplies` | the store, outside the code: takes one document of a request, at any time after it was sent |
| `ProcessExits`, `ProcessDies`, `RunAgain`, `RowDeleted` | around the code: the process ends or is killed, the job is run again, another client changes a table |

Values are told apart by the number of their row: a text document holds the
rows whose values it was made from, and a profile their count. A cell is one of
five sorts: an integer, another number, a word, a blank, and a
number with spaces around it, which is typed as a number and dropped by the
cast. A read of a file returns its next lines (`Page`). A page of a table is any
rows of it (`AnyRows`), because no query orders them (`DBConnector.java:105`):
two pages may share rows and miss others. Only the size of a page is certain:
`PageSize` for `LIMIT` and `OFFSET`, `RowNumSize` for Oracle; MySQL has no
statement. The order of the rows within a page is that of the table, since the
types and the counts of a chunk do not depend on it.

A bulk request holds `BulkLimit` documents, for 50 MB. The close of the bulk
processor sends the last request and does not wait for its answer, as the
version of the client that the build file names does. The store takes the
documents of a request one by one and in any order (text and profiles are in two
indices): before the answer, after it, after those of a later request when the
client has stopped waiting, after the process is gone, or never. `waiting` is
therefore a state of its own: it holds the next request back, and says nothing
of what the store has. One thing is assumed of the surroundings: what has not
reached the store when a job is run again, by hand, never does.

### FieldNetwork and NetworkBuild

The graph is a function from nodes to cardinalities and, per relation, a
function from pairs to scores, since `add_edge` uses the relation as the key of
an undirected edge. Scores and cardinality ratios are exact fractions; ranges
are integers in tenths. The pairs that the hashing engine
finds similar are inputs; the comparison of numeric ranges, its early break
and its three cases, the clusters of single points, and the key candidates are
translated.

`NetworkBuild` has one step per field read, per relation, and two per file
(opening truncates, writing completes). A build may end by an exception that
follows from the data (`BuildRaises`), by a store that fails (`StoreFails`),
or with its process (`ProcessEnds`), and may be followed by another one, which
in the same process finds the dictionaries of the class `FieldNetwork` as the
first one left them. A reader loads file by file at any time, and
`AskForTable` is the lookup that adds a key to a `defaultdict`.

### Drs

`drs` holds the client's result sets and `call` the API call in progress. A
call that loops over a DRS takes one step per `__next__`, because the body of
the loop may move the cursor of, or give new data to, the very object that is
iterated. Calls that cannot interfere with themselves are one step (`Seed`,
`SetMode`, `Combine`, `Rank`, `Show`, `Traverse`). The relation of a primitive
is the constant `Similar`; the three primitives over relations have one body in
the code and are one call (`similar_to`). A Python set turned into a list comes
in any order. `call.asked` is history: the input when the call began.

Left out: scores, the provenance graph (`Provenance`), and the order a ranking
gives. The answer of a path query is any set that its search may have visited
(`PathHits`); `PathSearch` models the search itself. A path query over tables
contributes nothing, which is what the code does: its helper records no path.

### Provenance

Each result set carries its data and its graph. `Origin`, `Lookup`,
`Primitive`, `ExpandToTable` and `Combine` are the groups of API functions that
grow graphs in the same way; `schema_neighbors` and `drs_from_table_hit` are an
`Origin` followed by `ExpandToTable`. All sets are in FIELDS mode, calls are one
step, and path queries, which add edges of the same kind, are left out. `Leafs`
keeps the detail of the code that a node reached only from nodes it leads to
counts as a leaf. `given` is history: what the client's chain of calls began
with.

### PathSearch

`_bidirectional_pred_succ` step by step: the two trees, the two fringes, the
level in progress, the field whose neighbours are visited. Lists without
duplicates are sets, visited in any order. `explored` is the edges of the
provenance that `o_drs` carries.

### WebGui

One action per handler of the controller, as a browser runs them, one for the
callback of a request and one for a request without an answer: `/colove` is
commented out in `web.py`, and no handler is given an error. A column carries
its file, which the code does not keep, so that the properties can tell
selections apart. `shown` is history: the answer in the left panel and the
question it answers.

## Properties

Besides one type invariant per module:

| property | says |
|---|---|
| `NoWorkAfterTeardown` | no worker works once the store is closed, although `stop()` joins only the consumer |
| `JobSettled` | main stops waiting only when each source was counted by exactly one side, queues are empty, failures logged |
| `ProfilesAllOrNothing` | a processed source has all its profiles, a failed one none |
| `FinalTotals` | the plain counters agree with the log at the end |
| `RecordsNameTheirSource` | where no file is empty, an error is logged under the source that failed |
| `RecordsNameFinishedSources` | an error record, even one made from a field of an earlier iteration, names no source that is still listed, queued or in a worker's hands |
| `ErrorsReachTheLog`, `SurvivorsDrainTheQueue` | what survives the death of threads |
| `JobFinishesOrDies` | the job ends and every thread returns, unless a thread dies |
| `ImplementsJob`, `ImplementsLiveJob` | the threads refine `ProfilerJob`, and its liveness when none dies |
| `Inductive` | the invariant of the proofs |
| `WholeColumnProfiled` | a profile of a file covers every well-formed row once, whatever the chunk size, with the type of the first chunk |
| `TableSizeCounted` | the unordered pages of a PostgreSQL table add up to its size |
| `TextMatchesProfile` | the text documents that a column gave rise to in a job hold what its profile counts |
| `TextSentWithProfile` | when a profile was sent, all its text was sent before it or with it, so a crash keeps no profile whose text it drops |
| `CountedIsStored` | when the process is over, every column of a counted source has its profile in the store or sent to it; only a crash may leave it unsent |
| `JobEnds` | a job that is not killed ends, however the store answers |
| `LoadedWhole` | in a loaded network, nodes, names and tables agree, relations join nodes, key relations are similar and nearly unique |
| `FilesAgree` | the files come from one build, unless the last save was cut off or is under way; no file is ever older than one written after it |
| `SimilarWhenRangesShare` | which pairs of ranges the sorted search with its early break connects |
| `BuildEnds` | a build ends |
| `CursorsAtRest` | between calls every cursor is at the start |
| `TableViewFresh` | the cached table view is the one of the data |
| `AnswersWholeInput` | a primitive uses all its input, and nothing else |
| `RankLosesNothing` | a ranking loses no result |
| `CallsWithOwnCursorsReturn` | every call returns whose loops do not share a cursor or reset their own |
| `EveryResultExplained` | results are nodes of the graph, and each is reached from what the client began with |
| `CoverageDefined` | a chain that began with searches has leafs, and each result an origin among them |
| `AnswerShowsPath`, `NoAnswerNoPath` | a search is right when it answers and when it gives up |
| `PathIsShortest`, `SearchEnds` | the path through the meeting point is a shortest one; every search ends |
| `SelectionOfOneFile` | schema, selection and questions are of one file, whatever arrives between the clicks |
| `RowsShowWholeAnswer` | the left panel shows the whole answer, in order, in rows |

`RecordsNameTheirSource` and `RowsShowWholeAnswer` are theorems that no run
checks; the others are checked by a run.

Three are refuted by runs: `JobFinishes` (without the exception for dead
threads), `AnswersWholeInput` with path queries, and `RowsOfLastAction`.

What a property does not say: `TextMatchesProfile` counts what was handed to the
store, wherever it is by now, and says nothing of documents that the store never
takes. `WholeColumnProfiled` is about files, since the pages of a table may repeat
and skip rows. `FilesAgree` does not exclude that a crash mixes builds, because
it does. `LoadedWhole` is about three files of one build, the first of its
process, and allows tables without fields; so it finds neither the entries that a
lookup adds nor tables that share a name. `CoverageDefined` is about chains that
began with searches. `PROJECT.json` says for each hazard that no property covers
why that is so.

`SimilarWhenRangesShare` also documents what the code does with a short range
that overlaps an end of a long one: the share is measured against the range
whose turn it is in the outer loop, so a short range that touches an end of a
long one is similar to it at any difference of length, and one that lies
strictly inside only above seven tenths.

## Runs

| run | instance | shows |
|---|---|---|
| `profiler_safety` | 3 sources, 3 workers, 2 columns, all faults; symmetry | safety and the refinement |
| `profiler_live` | 2 sources, 2 workers, all faults | the end of a job, dead threads, the log |
| `profiler_absent` | a file may vanish | **violation** of `JobFinishes` |
| `ingest` | 1 source, 4 tables, 4 kinds, unordered pages, a store that takes documents at any time, 2 jobs | chunks, types, documents, the bulk processor, a second job over what the first has left |
| `network` | 5 fields, one stored late, 2 builds, crashes | what a session may rely on |
| `drs_fields` | fields mode, a network that knows all fields | iteration is sound |
| `drs_all` | all calls, both modes, exceptions | types, rankings lose nothing, calls return |
| `drs_cursor` | path queries, then a primitive | **violation** of `AnswersWholeInput` |
| `provenance` | 2 sets, 3 fields, 3 relations, 5 calls | results stay explained |
| `path_search` | all pairs of 9 fields, one unknown | the search is right |
| `webgui` | 3 files, 2 columns, 3 requests; symmetry | panels and selection |
| `webgui_order` | the same with 2 keywords, without the route that is missing | **violation** of `RowsOfLastAction` |

**Bounds.** Profiler: three workers and three sources allow one thread to die,
one to fail and one to succeed while a task waits in the queue; two columns
separate the first profile stored from the last. The liveness run takes two of
each, without symmetry. Ingest: sources are read one after the other and their
documents do not interfere, so one source gives every order of a column's
documents; the second job works over the documents of the first, killed or not;
chunks of two rows and tables of up to three give a first chunk and a shorter
one, columns whose type would change with the second chunk, and, where pages are
unordered, either row in either chunk; a row of another width is skipped; two
documents per request make a chunk of two text columns overfill one. NetworkBuild: two builds
are what it takes to mix files and to find used dictionaries; the three
numeric fields have ranges that are equal, inside, overlapping or touching,
with shares at, above and below seven tenths, and single points near and far;
the late field is the numeric one, whose signature is read by the last query.
Drs: two objects are enough for every binary call, an object with itself
included; three fields in two tables give tables of one and of two fields, so
that iterating tables differs from iterating fields; `MaxCalls` = 4 calls per
session, searches with up to `MaxHits` = 2 hits, and `MaxHops` = 2 hops, after
which the first fringe and the later ones have both been used. Provenance: the
three relations lead from a field back to itself, five calls are two seeds and
three relations, or a union on the way. PathSearch: an odd cycle makes the sides
meet inside a level, a hanging field makes the fringes unequal, a separate pair
makes searches fail on either side, and the unknown field raises the `KeyError`
of `neighbors_id` as source or as target. WebGui: rows of two and answers of up
to three files give full and short rows, and three requests an answer that
arrives before, between and after two others.

**Where a run stops.** Profiler, Drs and PathSearch allow an explicit final
stutter (`Terminated`, `Rest`, `Done`) only in states where the code really is
at its end, and deadlock is checked. The runs of Ingest, NetworkBuild,
Provenance and WebGui do not check deadlock: there a process may have exited, a
client may have used up its calls, builds or requests, and nothing is left to do;
`JobEnds` and `BuildEnds` say that the programs do not stop earlier.

**Fairness.** Weak fairness for each profiler thread: the scheduler runs a
thread that can run, reads of a source and writes to the store return, and no
thread holds a lock across a blocking call. In Ingest, of the worker, of the
flush timer and of the answers to requests, which arrive or time out (this is
assumed of the client library: an answer that never comes would stop the job);
the store need not take any document, and no failure has to happen. In NetworkBuild, of the builder, which is one thread. For
Drs and PathSearch, of the steps of a call that has begun: it runs in the thread
that called it. Nothing makes a client call, a profile arrive, or a process die.

## Proofs

| theorem | says |
|---|---|
| `InductiveInvariant`, `TypeCorrect` | `Inductive` and the types always hold |
| `TeardownIsSafe`, `JobIsSettled`, `ProfilesAreWhole` | the three safety invariants above |
| `JobIsImplemented` | `Profiler` refines `ProfilerJob` |
| `LogNamesTheSource` | if no file is completely empty, the log names the right source |
| `RecordsNameFinished` | `RecordsNameFinishedSources`, with every fault |
| `TotalsAreFinal` | `FinalTotals`, for any sources, workers and columns |
| `CountedColumnsAreStored` | `CountedIsStored`, for any sources, chunk and request sizes, and runs |
| `TextIsSentWithProfile` | `TextSentWithProfile`, likewise |
| `IngestProofs!TypeCorrect` | types of the ingestion |
| `ColumnsAreProfiledWhole` | `WholeColumnProfiled`, for any files and chunk sizes |
| `TableSizesAreCounted` | `TableSizeCounted`, for any tables and page sizes |
| `TextAgreesWithProfile` | `TextMatchesProfile`, likewise |
| `SavedFilesAgree` | `FilesAgree`, for any lake and number of builds |
| `LoadedNetworksAreWhole` | `LoadedWhole`, likewise |
| `NetworkBuildProofs!TypeCorrect` | types of the build; its graph always is a field network |
| `RangesDecideSimilarity` | `SimilarWhenRangesShare`, for any ranges |
| `DrsProofs!TypeCorrect` | types of result sets and calls |
| `RankingsKeepHits` | `RankLosesNothing`, in any session |
| `TableViewsAreFresh` | `TableViewFresh`, in sessions without rankings |
| `CursorsReturnToStart`, `PrimitivesReadAll` | `CursorsAtRest` and `AnswersWholeInput`, in sessions that are `SoundSession` |
| `CallsAdvance` | in any session, every step of a call that owns its cursors ends it or brings it nearer its end |
| `ProvenanceProofs!TypeCorrect` | types of the provenance |
| `ResultsAreExplained`, `CoverageIsDefined` | the two properties of the provenance, for every network |
| `PathSearchProofs!TypeCorrect` | types of the search |
| `AnswersShowPaths` | `AnswerShowsPath`, for every network |
| `NoAnswerIsRight` | `NoAnswerNoPath`, for every network |
| `PathsAreShortest` | `PathIsShortest`, for every network |
| `SearchesAdvance` | for every network, every step of a search brings it nearer its end |
| `WebGuiProofs!TypeCorrect` | types of the web page |
| `SelectionsAgree` | `SelectionOfOneFile`, for any files and numbers of requests |
| `RowsAreWhole` | `RowsShowWholeAnswer`, for any answers and row lengths |

**Profiler.** Assumptions: finite sets of sources and workers, `Columns` a
natural number. None of the properties is inductive. What makes them true is
that a source taken from the listing is in one place at a time: being queued,
queued, in a worker's hands, in the error queue, in the consumer's hands, or
settled. So no task is counted twice, and the two counters are the
cardinalities of the accepted and of the settled sources; hence, when they are
equal after the listing, the settled sources are all of them, no worker holds
one, and the store may be closed. The proof has one lemma per part of the
invariant (types, counters, apartness, order of the main thread, outcomes),
each with a step per action. For `FinalTotals` a second invariant, `TotalsLag`,
says by how much a total is behind: the consumer may have logged an error it has
not counted, and each worker between its two counts owes the columns of one
source. An error is logged once because its source is not settled before, and
the join leaves nothing owed by the consumer. For `RecordsNameFinishedSources`
the field `task` of a worker is empty, the source it works on, or one that is
over: counted, or on its way from the error queue to the consumer. A source that
is over stays over (`OverStays`), and a worker's own source is over as soon as
the worker lets go of it, whether it counts or reports it. The refinement maps the step that counts a task
to `Settle` and the teardown to `Close`; all other steps but `CountSubmission`
stutter.

**Ingest.** A document is in the buffer, sent, in the index, or left unsent by a
crash; it leaves the index only for a newer profile of its column, and what was
sent only into the index or with the end of the job. The invariant adds that
unsettled documents are of the current job, that a source with a profile is not
pulled again, that a profile which was sent has no text in the buffer, and that
the worker has handed over the profiles of a source before it counts it. A
request takes all that is buffered, and text is handed over before the profile:
this is why the two are sent together or in this order, and no property relies on
the order in which the store takes them.
The other three properties are about the task in hand, and hold of a document
once it is handed over because nothing changes it later. For
`WholeColumnProfiled` the invariant `WholeInv` says, of a file, that what was
read is the file up to `offset`, that the type is that of its first chunk, and
that the count is that of the rows read so far which the type can hold; the rows
come without gap or overlap because a chunk begins where the last one ended. For
`TableSizeCounted` the invariant keeps only numbers: the offset is the number of
rows read and at most the size of the table, a text column has counted all of
them, and at the end of the data the offset is the size. For `TextMatchesProfile`
the invariant `TextInv` says that the text documents of the running task hold
rows that were read, are disjoint, and together count what the running total
counts: each chunk adds to both the same rows, all of them beyond those before.

**NetworkBuild.** While a save is under way, the files before the one it is at
carry its number; before it has truncated the first, nothing has changed. A save
that is cut off sets `torn`, and only a complete one clears it. No file has a
higher number than the build in progress, and a save writes the files in one
order: so no file is older than one written after it, however many saves were
cut off.
For `LoadedWhole` the invariant speaks of the versions of each file that a session
may come to read: on disk, already loaded, or about to be written by the save
under way. Three versions with the number of one clean build are a whole network.
A save and a session only choose among these versions; new ones come with the
last relation of a build, whose number no file has yet. Until then the build
keeps its nodes equal to its names (`Sound`) and every name in one place in the
list of its table (`Listed`): a scroll gives each field once, and the queries
that come later and see newer profiles can only add relations among named fields,
because the lookup of a name that is missing raises.
For `SimilarWhenRangesShare` the invariant keeps numeric edges out of the graph
until the step that makes them all. That step is a loop over the fields sorted
by length whose inner loop stops early. `ReachedAreLong` shows that the
sort makes this safe: whatever lies beyond the break is too short to be similar
from this side. `TakingInIsSimilar` then compares the three cases of the loop,
seen from either field, with the one measure of the property; it is linear
arithmetic over the ends of two ranges.

**Drs.** Assumptions: finitely many fields and tables, none of them both. A list
made from a finite set holds all of it (`SeqsOfSet`). For `RankLosesNothing`
the invariant says that a ranked set has only hits with a score; every
operation that gives a set new data ends its ranking. `TableViewFresh` needs
that no ranking replaces the data behind the view. `SoundSession` says when
iteration is sound: the network knows all fields, and there are no path queries
and no table mode. Then only the set that a running loop iterates is off its
start, and the answer so far is the one for the elements before its cursor. The
finding of `drs_cursor` shows that the restriction on path queries is needed.
What the two recursive functions of the model return (`FlattenTyped`,
`ReachedTyped`) is proved from their equations by the least number for which it
would fail, because a theorem of induction cannot be applied.
`CallsAdvance` is the part of `CallsWithOwnCursorsReturn` that the prover can
reach, and needs no restriction on the session: what the outer cursor has ahead,
and then what the inner one has, is a pair of numbers that each step of a call
lowers, whatever view the sets show and wherever earlier calls left the cursors.

**Provenance.** Every operation makes a sound graph out of sound ones: nodes
and edges stay together, and a set of nodes that holds what was given and is
closed under the edges is the whole graph. A chain that began with searches is
given nodes that no edge leads to; so they are leafs, and a result that no leaf
reached would leave a closed set without it.

**PathSearch.** Assumptions: neighbours are nodes, and edges have no direction
(the graph is a `MultiGraph`). Being joined by a path is stated as: no set of
fields that is closed under the edges contains one and not the other. For
`AnswerShowsPath` the invariant `Shown` says that the provenance joins each
tree to its root and already holds the edges still to be visited. For
`NoAnswerNoPath` the invariant `Apart` says that a field of a tree is on the
fringe, in the level, being visited, or has all its neighbours in the tree, and
that the trees are disjoint. So when a fringe is empty its tree is a closed set
that holds one end and not the other, even though the other side may still have
fields to expand.
For `PathIsShortest` and `SearchesAdvance`, and for them alone, the fields are
finite. The invariant
`Levelwise` gives the fields of each tree a rank, their steps from the root: the
fringe is the last rank, the level in progress the one before, and no edge leads
up by more than one rank. With `Apart` this says how far each tree has been
explored (`ExploredSoFar`): a tree explored up to rank p holds all that lies
within p steps of its root (`BallWithin`). Two disjoint trees explored up to p
and q are therefore more than p + q steps apart (`FarApart`), and the field where
they meet is on the last rank of both, so that the path through it has p + q + 1
steps. That the sets in `Depth` and `Distance` exist and what they hold is shown
from their equations, by the least number for which it would fail.
`SearchesAdvance` is the part of `SearchEnds` that the prover can reach. The
measure counts, for each side, the fields it may still expand: those outside its
tree, on its fringe, or in the level it is at; then the neighbours still to
visit; then how far the loops are from their end.

**WebGui.** `SelectionOfOneFile` is inductive, with one step per handler: a
column can only be selected in the panel that is shown, and selecting a file
resets the column. For `RowsShowWholeAnswer` the grouping is a quotient and a
remainder, and `GroupedShowsAll` shows that every index of the answer is met
exactly once.

**Only model-checked:** the liveness properties (`JobFinishesOrDies`,
`ImplementsLiveJob`, `ErrorsReachTheLog`, `SurvivorsDrainTheQueue`, `JobEnds`,
`BuildEnds`, `CallsWithOwnCursorsReturn`, `SearchEnds`: fairness is out of the
prover's reach; for the last two a decreasing measure is proved, and what stays
with TLC is that a call or search which is not over can take a step); and of
`Drs`, sessions with table mode, path queries or unknown fields beyond
`RankingsKeepHits`, `TableViewsAreFresh` and `CallsAdvance`. Every safety
property of a passing run is also a theorem.

## Where the code and its documentation differ

Checked by a run:

1. *A file that vanishes stops the job for ever* (`profiler_absent`). The task
   is created without a connector (`WorkerTask.java:28-34`), its first use
   throws, and the catch block throws again in `task.toString()`
   (`WorkerTask.java:65`). The thread ends and the task is never counted, although
   `Conductor.java:148-149` counts a failed task as a processed one.
2. *A path query shortens later answers* (`drs_cursor`). `ddapi.py:376` returns
   out of two loops over objects that are their own iterators.
3. *The left panel may show an earlier answer* (`webgui_order`).
   `controller.js:41` calls the rows the files returned by the last user action;
   a slower, earlier request replaces them when it is answered.

Met while modelling, and part of the models:

- An empty file is logged under another name: `pullTask` throws, and the field
  `Worker.task` still holds the previous task (`OpenZeroByte`).
- `paths` does not return for two or more fields, and a primitive over tables for
  any: the loop over a result set shares its one cursor with an inner loop
  (`ddapi.py:400-401`), or absorbs into the set it iterates
  (`ddapi.py:239-241`). These calls are what `OwnsItsCursors` leaves out.
- A ranking brings removed results back, since `_rank_data` is never cleared
  (`apiutils.py:627`).
- The coverage divides by zero when a chain that began with fields has closed a
  cycle (`apiutils.py:604`); `CoverageDefined` says when it does not.
- Oracle tables are cut off after their first chunk and MySQL tables are never
  read (`DBConnector.java:104-110`). A query that fails in the middle of a table
  ends it, and its profile counts as a good one (`DBConnector.java:118-125`).
  PostgreSQL pages have no order, so that rows may be profiled twice or not at
  all.
- Values that do not fit the type of the first chunk are dropped without a
  trace, and so are numbers with spaces around them
  (`PreAnalyzer.java:78-99`, `184`).
- Failed bulk items are logged and forgotten (`NativeElasticStore.java:95-104`).
  Profiling a source again stores its text a second time, which doubles the term
  frequencies the builder filters by (`elasticstore.py:217`).
- A build raises for a lake without a single-point numeric field
  (`networkbuilder.py:260`), without text, or when a numeric profile is stored
  between its first and its last query (`networkbuilder.py:200`).
- A second build in one process begins with the names of the first
  (`fieldnetwork.py:22`), and tables of the same name in two databases become one
  (`fieldnetwork.py:106`). Saving forces a separator onto the path, loading does
  not (`fieldnetwork.py:429`, `438`).

## Not modelled

`PROJECT.json` lists each part with its reason, and under `hazards` what can go
wrong there. Outside the reach of this method: the estimators (cardinality
sketch, quantiles, entity models, TF-IDF, locality sensitive hashing) and
floating point; the wording of reports. Out of interest: configuration parsing,
the shell, vendored code (NearPy; jQuery, AngularJS, Bootstrap and sigma in
`old_frontend`, which are nearly all of the JavaScript in the repository: only
`controller.js` is its own). Of modelled components, these operations are left
out: the search over tables and the enumeration of all paths
(`fieldnetwork.py`), `how` and the path listings of a provenance, the certainty
score, the HTTP store, and the creation of index mappings. The legacy celery
coordinator is not started by anything any more.

## Plan

Done: the profiler with its abstract job; the ingestion of a source; the network
from the store to a loaded session; result sets, API calls, provenance and
path search; the web page; and the proofs above. To come, in this order:

1. **Search over tables** and the enumeration of paths, with the provenance of
   path queries, composed with `Provenance`.
2. **Ids**: checksum collisions, from the profile to the network.
