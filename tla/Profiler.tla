------------------------------ MODULE Profiler ------------------------------
(***************************************************************************)
(* The orchestration of an offline profiling job (layer L1 of Aurum).      *)
(*                                                                         *)
(* Three kinds of thread share two unbounded queues and two counters:      *)
(*   - the main thread submits one task per source, sleeps until as many   *)
(*     tasks have been processed as were submitted, then stops and joins   *)
(*     the consumer and tears the store down (core.Main, core.Conductor);  *)
(*   - each worker pulls a task, opens its source, reads it, writes one    *)
(*     profile per column and counts the task; an exception makes it put   *)
(*     an error package on the error queue instead (core.Worker);          *)
(*   - the consumer starts the workers, appends every error package to the *)
(*     error log, counts it as processed, and stops the workers when it is *)
(*     told to stop itself (core.Conductor.Consumer).                      *)
(*                                                                         *)
(* The queues are sets: a source is submitted once, and no property tells  *)
(* their order apart.  processed and failed are history: the sources whose *)
(* task a worker, respectively the consumer, has counted.                  *)
(***************************************************************************)
EXTENDS Integers, FiniteSets

CONSTANTS
  Sources,   \* what the folder or the database lists: one task each
  Workers,   \* the threads of the pool (profiler.num.pool.threads)
  Columns,   \* the columns of a source: one profile document each
  Faults,    \* what may go wrong (see AllFaults)
  NoTask     \* Java's null, and a task without a connector

(***************************************************************************)
(* "unlisted":   the folder cannot be listed, the database not reached     *)
(* "absent":     the file is gone or unreadable when it is opened          *)
(* "zeroByte":   the file has not even a header line                       *)
(* "headerOnly": the source has no row (every MySQL table reads like this) *)
(* "broken":     an exception while rows are read, analysed or indexed     *)
(***************************************************************************)
AllFaults == {"unlisted", "absent", "zeroByte", "headerOnly", "broken"}

ASSUME SourcesAssumption == IsFiniteSet(Sources) /\ NoTask \notin Sources
ASSUME WorkersAssumption == IsFiniteSet(Workers)
ASSUME ColumnsAssumption == Columns \in Nat
ASSUME FaultsAssumption  == Faults \subseteq AllFaults

VARIABLES
  main,                 \* where the main thread is
  remaining,            \* sources listed and not yet submitted
  adding,               \* the source counted by submitTask and not yet queued
  consumer,             \* where the consumer thread is
  consumerDoWork,       \* Consumer.doWork
  held,                 \* the error package the consumer has polled
  worker,               \* where each worker thread is
  doWork,               \* Worker.doWork of each worker
  task,                 \* Worker.task: a field, it survives an iteration
  current,              \* the source of the package the worker has pulled
  taskQueue, errorQueue,
  totalTasksSubmitted, totalProcessedTasks, totalFailedTasks, totalColumns,
  open,                 \* sources with an open reader or connection
  profiles,             \* profile documents given to the store, per source
  storeOpen,
  log,                  \* the error log file
  processed, failed     \* history

mainVars     == <<main, remaining, adding>>
consumerVars == <<consumer, consumerDoWork, held>>
workerVars   == <<worker, task, current>>
queues       == <<taskQueue, errorQueue>>
counters     == <<totalTasksSubmitted, totalProcessedTasks, totalFailedTasks,
                  totalColumns>>
storeVars    == <<open, profiles, storeOpen>>
history      == <<processed, failed>>
vars == <<mainVars, consumerVars, workerVars, doWork, queues, counters,
          storeVars, log, history>>

\* What the error log says of a failure: the source that failed is history,
\* the log itself shows only the source it names.
ErrorPackage == [source : Sources, named : Sources]

Init ==
  /\ main = "listing" /\ remaining = Sources /\ adding = NoTask
  /\ consumer = "starting" /\ consumerDoWork = TRUE /\ held = NoTask
  /\ worker = [w \in Workers |-> "new"]
  /\ doWork = [w \in Workers |-> TRUE]
  /\ task = [w \in Workers |-> NoTask]
  /\ current = [w \in Workers |-> NoTask]
  /\ taskQueue = {} /\ errorQueue = {}
  /\ totalTasksSubmitted = 0 /\ totalProcessedTasks = 0
  /\ totalFailedTasks = 0 /\ totalColumns = 0
  /\ open = {} /\ profiles = [s \in Sources |-> 0] /\ storeOpen = TRUE
  /\ log = {} /\ processed = {} /\ failed = {}

-----------------------------------------------------------------------------
(* The main thread *)

\* listFiles() returns null, or the database connection is null: the
\* NullPointerException ends the main thread, the others go on.
ListingFails ==
  /\ "unlisted" \in Faults
  /\ main = "listing" /\ remaining = Sources
  /\ main' = "dead"
  /\ UNCHANGED <<remaining, adding, consumerVars, workerVars, doWork, queues,
                 counters, storeVars, log, history>>

\* submitTask counts the task first ...
CountSubmission ==
  /\ main = "listing"
  /\ \E s \in remaining : adding' = s /\ remaining' = remaining \ {s}
  /\ totalTasksSubmitted' = totalTasksSubmitted + 1
  /\ main' = "adding"
  /\ UNCHANGED <<consumerVars, workerVars, doWork, queues, totalProcessedTasks,
                 totalFailedTasks, totalColumns, storeVars, log, history>>

\* ... and queues it next.
SubmitTask ==
  /\ main = "adding"
  /\ taskQueue' = taskQueue \union {adding}
  /\ adding' = NoTask
  /\ main' = "listing"
  /\ UNCHANGED <<remaining, consumerVars, workerVars, doWork, errorQueue,
                 counters, storeVars, log, history>>

AllSubmitted ==
  /\ main = "listing" /\ remaining = {}
  /\ main' = "waiting"
  /\ UNCHANGED <<remaining, adding, consumerVars, workerVars, doWork, queues,
                 counters, storeVars, log, history>>

\* Mutant: the comparison is off by one.
PendingWorkOffByOne == totalProcessedTasks + 1 < totalTasksSubmitted
\* Mutant: the job is over once every task has been pulled.
PendingWorkIfQueued == taskQueue # {}

IsTherePendingWork == totalProcessedTasks < totalTasksSubmitted

\* The main thread sleeps, without an effect, while there is pending work.
StopConsumer ==
  /\ main = "waiting" /\ ~IsTherePendingWork
  /\ consumerDoWork' = FALSE
  /\ main' = "joining"
  /\ UNCHANGED <<remaining, adding, consumer, held, workerVars, doWork, queues,
                 counters, storeVars, log, history>>

\* Mutant: stop returns without joining the consumer.
SkipJoin ==
  /\ main = "joining"
  /\ main' = "tearingDown"
  /\ UNCHANGED <<remaining, adding, consumerVars, workerVars, doWork, queues,
                 counters, storeVars, log, history>>

\* Conductor.stop joins the consumer, never the workers.
JoinConsumer ==
  /\ main = "joining" /\ consumer = "exited"
  /\ main' = "tearingDown"
  /\ UNCHANGED <<remaining, adding, consumerVars, workerVars, doWork, queues,
                 counters, storeVars, log, history>>

TearDownStore ==
  /\ main = "tearingDown"
  /\ storeOpen' = FALSE
  /\ main' = "done"
  /\ UNCHANGED <<remaining, adding, consumerVars, workerVars, doWork, queues,
                 counters, open, profiles, log, history>>

Main ==
  \/ ListingFails \/ CountSubmission \/ SubmitTask \/ AllSubmitted
  \/ StopConsumer \/ JoinConsumer \/ TearDownStore

-----------------------------------------------------------------------------
(* The consumer thread *)

StartWorker(w) ==
  /\ consumer = "starting" /\ worker[w] = "new"
  /\ worker' = [worker EXCEPT ![w] = "checking"]
  /\ UNCHANGED <<mainVars, consumerVars, doWork, task, current, queues,
                 counters, storeVars, log, history>>

WorkersStarted ==
  /\ consumer = "starting" /\ \A w \in Workers : worker[w] # "new"
  /\ consumer' = "checking"
  /\ UNCHANGED <<mainVars, consumerDoWork, held, workerVars, doWork, queues,
                 counters, storeVars, log, history>>

ConsumerChecks ==
  /\ consumer = "checking"
  /\ consumer' = IF consumerDoWork THEN "polling" ELSE "stopping"
  /\ UNCHANGED <<mainVars, consumerDoWork, held, workerVars, doWork, queues,
                 counters, storeVars, log, history>>

\* poll(1000 ms) gives up only on an empty queue.
NoError ==
  /\ consumer = "polling" /\ errorQueue = {}
  /\ consumer' = "checking"
  /\ UNCHANGED <<mainVars, consumerDoWork, held, workerVars, doWork, queues,
                 counters, storeVars, log, history>>

PollError ==
  /\ consumer = "polling"
  /\ \E e \in errorQueue : held' = e /\ errorQueue' = errorQueue \ {e}
  /\ consumer' = "logging"
  /\ UNCHANGED <<mainVars, consumerDoWork, workerVars, doWork, taskQueue,
                 counters, storeVars, log, history>>

LogError ==
  /\ consumer = "logging"
  /\ log' = log \union {held}
  /\ consumer' = "counting"
  /\ UNCHANGED <<mainVars, consumerDoWork, held, workerVars, doWork, queues,
                 counters, storeVars, history>>

\* Mutant: a failed task does not count as processed.
ForgetError ==
  /\ consumer = "counting"
  /\ failed' = failed \union {held.source}
  /\ consumer' = "countingFailed"
  /\ UNCHANGED <<mainVars, consumerDoWork, held, workerVars, doWork, queues,
                 counters, storeVars, log, processed>>

CountError ==
  /\ consumer = "counting"
  /\ totalProcessedTasks' = totalProcessedTasks + 1
  /\ failed' = failed \union {held.source}
  /\ consumer' = "countingFailed"
  /\ UNCHANGED <<mainVars, consumerDoWork, held, workerVars, doWork, queues,
                 totalTasksSubmitted, totalFailedTasks, totalColumns,
                 storeVars, log, processed>>

CountFailed ==
  /\ consumer = "countingFailed"
  /\ totalFailedTasks' = totalFailedTasks + 1
  /\ held' = NoTask
  /\ consumer' = "checking"
  /\ UNCHANGED <<mainVars, consumerDoWork, workerVars, doWork, queues,
                 totalTasksSubmitted, totalProcessedTasks, totalColumns,
                 storeVars, log, history>>

StopWorker(w) ==
  /\ consumer = "stopping" /\ doWork[w]
  /\ doWork' = [doWork EXCEPT ![w] = FALSE]
  /\ UNCHANGED <<mainVars, consumerVars, workerVars, queues, counters,
                 storeVars, log, history>>

\* Mutant: the consumer returns without having stopped every worker.
ExitAtOnce ==
  /\ consumer = "stopping"
  /\ consumer' = "exited"
  /\ UNCHANGED <<mainVars, consumerDoWork, held, workerVars, doWork, queues,
                 counters, storeVars, log, history>>

ConsumerExits ==
  /\ consumer = "stopping" /\ \A w \in Workers : ~doWork[w]
  /\ consumer' = "exited"
  /\ UNCHANGED <<mainVars, consumerDoWork, held, workerVars, doWork, queues,
                 counters, storeVars, log, history>>

Consumer ==
  \/ \E w \in Workers : StartWorker(w) \/ StopWorker(w)
  \/ WorkersStarted \/ ConsumerChecks \/ NoError \/ PollError
  \/ LogError \/ CountError \/ CountFailed \/ ConsumerExits

-----------------------------------------------------------------------------
(* A worker thread *)

\* Every worker step leaves these alone.
WorkerFrame ==
  UNCHANGED <<mainVars, consumerVars, doWork, totalTasksSubmitted,
              totalFailedTasks, storeOpen, log, failed>>

Goto(w, pc) == worker' = [worker EXCEPT ![w] = pc]

WorkerChecks(w) ==
  /\ worker[w] = "checking"
  /\ Goto(w, IF doWork[w] THEN "polling" ELSE "exited")
  /\ UNCHANGED <<task, current, queues, totalProcessedTasks, totalColumns,
                 open, profiles, processed>>
  /\ WorkerFrame

\* Mutant: a worker that finds no task returns.
ExitOnEmptyQueue(w) ==
  /\ worker[w] = "polling" /\ taskQueue = {}
  /\ task' = [task EXCEPT ![w] = NoTask]
  /\ Goto(w, "exited")
  /\ UNCHANGED <<current, queues, totalProcessedTasks, totalColumns, open,
                 profiles, processed>>
  /\ WorkerFrame

\* pullTask returns null after 500 ms on an empty queue, and the field takes it.
NoTaskPulled(w) ==
  /\ worker[w] = "polling" /\ taskQueue = {}
  /\ task' = [task EXCEPT ![w] = NoTask]
  /\ Goto(w, "checking")
  /\ UNCHANGED <<current, queues, totalProcessedTasks, totalColumns, open,
                 profiles, processed>>
  /\ WorkerFrame

\* Mutant: the task stays on the queue while a worker has it.
PeekTask(w) ==
  /\ worker[w] = "polling"
  /\ \E s \in taskQueue : current' = [current EXCEPT ![w] = s]
  /\ Goto(w, "opening")
  /\ UNCHANGED <<task, queues, totalProcessedTasks, totalColumns, open,
                 profiles, processed>>
  /\ WorkerFrame

PollTask(w) ==
  /\ worker[w] = "polling"
  /\ \E s \in taskQueue :
       /\ taskQueue' = taskQueue \ {s}
       /\ current' = [current EXCEPT ![w] = s]
  /\ Goto(w, "opening")
  /\ UNCHANGED <<task, errorQueue, totalProcessedTasks, totalColumns, open,
                 profiles, processed>>
  /\ WorkerFrame

\* Mutant: one field task for all the workers.
OpenSharingTask(w) ==
  /\ worker[w] = "opening"
  /\ open' = open \union {current[w]}
  /\ task' = [v \in Workers |-> current[w]]
  /\ Goto(w, "firstRead")
  /\ UNCHANGED <<current, queues, totalProcessedTasks, totalColumns, profiles,
                 processed>>
  /\ WorkerFrame

OpenSource(w) ==
  /\ worker[w] = "opening"
  /\ open' = open \union {current[w]}
  /\ task' = [task EXCEPT ![w] = current[w]]
  /\ Goto(w, "firstRead")
  /\ UNCHANGED <<current, queues, totalProcessedTasks, totalColumns, profiles,
                 processed>>
  /\ WorkerFrame

\* The IOException is swallowed: the task has no connector, and every use of
\* it, toString included, throws.
OpenAbsent(w) ==
  /\ "absent" \in Faults
  /\ worker[w] = "opening"
  /\ task' = [task EXCEPT ![w] = NoTask]
  /\ Goto(w, "failing")
  /\ UNCHANGED <<current, queues, totalProcessedTasks, totalColumns, open,
                 profiles, processed>>
  /\ WorkerFrame

\* The NullPointerException leaves pullTask: the reader stays open and the
\* field task keeps the value of an earlier iteration.
OpenZeroByte(w) ==
  /\ "zeroByte" \in Faults
  /\ worker[w] = "opening"
  /\ open' = open \union {current[w]}
  /\ Goto(w, "failing")
  /\ UNCHANGED <<task, current, queues, totalProcessedTasks, totalColumns,
                 profiles, processed>>
  /\ WorkerFrame

\* The first chunk fixes the types and feeds new analyzers.  Later chunks
\* change none of the variables here.
ReadFirstRecords(w) ==
  /\ worker[w] = "firstRead"
  /\ Goto(w, "reading")
  /\ UNCHANGED <<task, current, queues, totalProcessedTasks, totalColumns,
                 open, profiles, processed>>
  /\ WorkerFrame

\* Without rows the task is closed, and then the missing chunk is used.
ReadNothing(w) ==
  /\ "headerOnly" \in Faults
  /\ worker[w] = "firstRead"
  /\ open' = open \ {current[w]}
  /\ Goto(w, "failing")
  /\ UNCHANGED <<task, current, queues, totalProcessedTasks, totalColumns,
                 profiles, processed>>
  /\ WorkerFrame

\* Mutant: the results are stored while they are computed.
MayThrowLate == {"firstRead", "reading", "storing"}

MayThrow == {"firstRead", "reading"}

\* Nothing closes the connector of a task that throws.
ReadFails(w) ==
  /\ "broken" \in Faults
  /\ worker[w] \in MayThrow
  /\ Goto(w, "failing")
  /\ UNCHANGED <<task, current, queues, totalProcessedTasks, totalColumns,
                 open, profiles, processed>>
  /\ WorkerFrame

EndOfData(w) ==
  /\ worker[w] = "reading"
  /\ open' = open \ {current[w]}
  /\ Goto(w, "storing")
  /\ UNCHANGED <<task, current, queues, totalProcessedTasks, totalColumns,
                 profiles, processed>>
  /\ WorkerFrame

\* Mutant: one result too many.
MoreResultsOffByOne(w) == profiles[current[w]] <= Columns

MoreResults(w) == profiles[current[w]] < Columns

StoreDocument(w) ==
  /\ worker[w] = "storing" /\ MoreResults(w)
  /\ profiles' = [profiles EXCEPT ![current[w]] = @ + 1]
  /\ UNCHANGED <<workerVars, queues, totalProcessedTasks, totalColumns, open,
                 processed>>
  /\ WorkerFrame

\* Mutant: the task is counted while its results are being stored.
NotifyEarly(w) ==
  /\ worker[w] = "storing" /\ current[w] \notin processed
  /\ totalProcessedTasks' = totalProcessedTasks + 1
  /\ processed' = processed \union {current[w]}
  /\ UNCHANGED <<workerVars, queues, totalColumns, open, profiles>>
  /\ WorkerFrame

NotifyProcessedTask(w) ==
  /\ worker[w] = "storing" /\ ~MoreResults(w)
  /\ totalProcessedTasks' = totalProcessedTasks + 1
  /\ processed' = processed \union {current[w]}
  /\ Goto(w, "counting")
  /\ UNCHANGED <<task, current, queues, totalColumns, open, profiles>>
  /\ WorkerFrame

CountColumns(w) ==
  /\ worker[w] = "counting"
  /\ totalColumns' = totalColumns + Columns
  /\ current' = [current EXCEPT ![w] = NoTask]
  /\ Goto(w, "checking")
  /\ UNCHANGED <<task, queues, totalProcessedTasks, open, profiles, processed>>
  /\ WorkerFrame

\* Mutant: the worker counts its task in a finally block.
ReportAndCount(w) ==
  /\ worker[w] = "failing" /\ task[w] # NoTask
  /\ errorQueue' = errorQueue \union
                     {[source |-> current[w], named |-> task[w]]}
  /\ current' = [current EXCEPT ![w] = NoTask]
  /\ totalProcessedTasks' = totalProcessedTasks + 1
  /\ Goto(w, "checking")
  /\ UNCHANGED <<task, taskQueue, totalColumns, open, profiles, processed>>
  /\ WorkerFrame

ReportError(w) ==
  /\ worker[w] = "failing" /\ task[w] # NoTask
  /\ errorQueue' = errorQueue \union
                     {[source |-> current[w], named |-> task[w]]}
  /\ current' = [current EXCEPT ![w] = NoTask]
  /\ Goto(w, "checking")
  /\ UNCHANGED <<task, taskQueue, totalProcessedTasks, totalColumns, open,
                 profiles, processed>>
  /\ WorkerFrame

\* task.toString() throws inside the catch block and ends the thread.
WorkerDies(w) ==
  /\ worker[w] = "failing" /\ task[w] = NoTask
  /\ Goto(w, "dead")
  /\ UNCHANGED <<task, current, queues, totalProcessedTasks, totalColumns,
                 open, profiles, processed>>
  /\ WorkerFrame

Worker(w) ==
  \/ WorkerChecks(w) \/ NoTaskPulled(w) \/ PollTask(w)
  \/ OpenSource(w) \/ OpenAbsent(w) \/ OpenZeroByte(w)
  \/ ReadFirstRecords(w) \/ ReadNothing(w) \/ ReadFails(w) \/ EndOfData(w)
  \/ StoreDocument(w) \/ NotifyProcessedTask(w) \/ CountColumns(w)
  \/ ReportError(w) \/ WorkerDies(w)

-----------------------------------------------------------------------------
\* Only here may the process stop: every thread has returned.
Finished ==
  /\ main = "done" /\ consumer = "exited"
  /\ \A w \in Workers : worker[w] = "exited"

Terminated == Finished /\ UNCHANGED vars

Next ==
  \/ Main
  \/ Consumer
  \/ \E w \in Workers : Worker(w)
  \/ Terminated

\* The threads share no lock across a blocking call, so the scheduler runs
\* each of them; reads of a source and writes to the store return.
Fairness ==
  /\ WF_vars(Main)
  /\ WF_vars(Consumer)
  /\ \A w \in Workers : WF_vars(Worker(w))

SafetySpec == Init /\ [][Next]_vars
Spec == SafetySpec /\ Fairness

-----------------------------------------------------------------------------
(* Properties *)

MainStates ==
  {"listing", "adding", "waiting", "joining", "tearingDown", "done", "dead"}
ConsumerStates ==
  {"starting", "checking", "polling", "logging", "counting", "countingFailed",
   "stopping", "exited"}
WorkerStates ==
  {"new", "checking", "polling", "opening", "firstRead", "reading", "storing",
   "counting", "failing", "exited", "dead"}

\* Every variable stays in its range.
TypeOK ==
  /\ main \in MainStates /\ remaining \subseteq Sources
  /\ adding \in Sources \union {NoTask}
  /\ consumer \in ConsumerStates /\ consumerDoWork \in BOOLEAN
  /\ held \in ErrorPackage \union {NoTask}
  /\ worker \in [Workers -> WorkerStates]
  /\ doWork \in [Workers -> BOOLEAN]
  /\ task \in [Workers -> Sources \union {NoTask}]
  /\ current \in [Workers -> Sources \union {NoTask}]
  /\ taskQueue \subseteq Sources /\ errorQueue \subseteq ErrorPackage
  /\ totalTasksSubmitted \in Nat /\ totalProcessedTasks \in Nat
  /\ totalFailedTasks \in Nat /\ totalColumns \in Nat
  /\ open \subseteq Sources /\ profiles \in [Sources -> 0..Columns]
  /\ storeOpen \in BOOLEAN
  /\ log \subseteq ErrorPackage
  /\ processed \subseteq Sources /\ failed \subseteq Sources

settled == processed \union failed

\* A worker in one of these still works on the package it pulled.
Busy == {"opening", "firstRead", "reading", "storing", "failing"}

\* No worker touches a source or the store once the store is torn down,
\* although stop() never waits for a worker.
NoWorkAfterTeardown ==
  ~storeOpen => \A w \in Workers : worker[w] \notin Busy

\* When the main thread stops waiting, every source has been counted by
\* exactly one of the two sides, nothing is left in a queue, and the log
\* holds every failure.
JobSettled ==
  main \in {"joining", "tearingDown", "done"} =>
    /\ settled = Sources /\ processed \intersect failed = {}
    /\ taskQueue = {} /\ errorQueue = {}
    /\ {e.source : e \in log} = failed

\* A source that failed has left no profile in the store, one that was
\* processed has left all of them: a failure is never half a success.
ProfilesAllOrNothing ==
  /\ \A s \in processed : profiles[s] = Columns
  /\ \A e \in errorQueue \union log : profiles[e.source] = 0
  /\ \A w \in Workers :
       worker[w] \in {"failing", "dead"} => profiles[current[w]] = 0

\* When the process is over the four totals agree with what happened, the
\* failure total included, which is a plain int the consumer increments
\* after it has let the main thread go.
FinalTotals ==
  /\ main = "done" =>
       /\ totalFailedTasks = Cardinality(log)
       /\ totalProcessedTasks = totalTasksSubmitted
  /\ Finished => totalColumns = Columns * Cardinality(processed)

\* The error log names the source that failed (where no file is empty: the
\* exception of an empty one leaves Worker.task at the task before).
RecordsNameTheirSource ==
  \A e \in log : e.named = e.source

\* The consumer holds an error package that is not counted yet.
HoldsError == consumer \in {"logging", "counting"}

\* No worker has the source any more: it is counted, or its error package is
\* on the way to be.
Over(s) ==
  \/ s \in settled
  \/ \E e \in errorQueue : e.source = s
  \/ HoldsError /\ held.source = s

\* An error package may name an earlier source of its worker, because the field
\* Worker.task outlives an iteration that fails before it sets it.  Never does
\* one name a source that is still listed, queued or in the hands of a worker.
RecordsNameFinishedSources ==
  /\ \A e \in errorQueue \union log : Over(e.named)
  /\ HoldsError => Over(held.named)

\* An error package, once queued, reaches the log, whatever else fails.
ErrorsReachTheLog ==
  \A s \in Sources :
    (\E e \in errorQueue : e.source = s) ~> (\E e \in log : e.source = s)

\* As long as one worker survives, every queued task is pulled.
SurvivorsDrainTheQueue ==
  \A s \in Sources :
    s \in taskQueue ~> (s \notin taskQueue \/ \A w \in Workers : worker[w] = "dead")

\* The job comes to its end and every thread returns.
JobFinishes == <>Finished

\* ... unless a thread dies of a fault: no failure that is only reported, and
\* no order of the threads, keeps the job from its end.
SomeThreadDead == main = "dead" \/ \E w \in Workers : worker[w] = "dead"
JobFinishesOrDies == <>(Finished \/ SomeThreadDead)

Outcome(s) ==
  IF s \in processed THEN "profiled"
  ELSE IF s \in failed THEN "failed"
  ELSE IF s \in remaining THEN "listed" ELSE "submitted"

Job == INSTANCE ProfilerJob WITH
         outcome <- [s \in Sources |-> Outcome(s)], closed <- ~storeOpen

\* The threads implement the job as its user sees it.
ImplementsJob == Job!SafetySpec
\* ... and, where no thread dies, they implement its progress as well.
ImplementsLiveJob == []~SomeThreadDead => Job!Progress

-----------------------------------------------------------------------------
(***************************************************************************)
(* The inductive invariant.  A source that was taken from the listing is   *)
(* in one place at a time: about to be queued, in the task queue, in the   *)
(* hands of a worker, in the error queue, in the hands of the consumer, or *)
(* settled.  This is why a task is never counted twice, hence why the two  *)
(* counters meet only when every source is settled.                        *)
(***************************************************************************)
accepted == Sources \ remaining

\* A worker in one of these holds current[w]; a dead one never lets it go.
Holding == Busy \union {"dead"}
Holders == {w \in Workers : worker[w] \in Holding}

CountersMatch ==
  /\ totalTasksSubmitted = Cardinality(accepted)
  /\ totalProcessedTasks = Cardinality(settled)

MainOrder ==
  /\ main \notin {"listing", "adding", "dead"} => remaining = {}
  /\ storeOpen = (main # "done")
  /\ main \in {"joining", "tearingDown", "done"} => settled = Sources

AddingApart ==
  main = "adding" =>
    /\ adding \in accepted \ (settled \union taskQueue)
    /\ \A w \in Holders : current[w] # adding
    /\ \A e \in errorQueue : e.source # adding
    /\ HoldsError => held.source # adding

QueueApart == taskQueue \subseteq accepted \ settled

WorkersApart ==
  \A w \in Holders :
    /\ current[w] \in accepted \ (settled \union taskQueue)
    /\ \A v \in Holders : current[v] = current[w] => v = w

ErrorsApart ==
  \A e \in errorQueue :
    /\ e.source \in accepted \ (settled \union taskQueue)
    /\ \A w \in Holders : current[w] # e.source
    /\ \A f \in errorQueue : f.source = e.source => f = e

HeldApart ==
  /\ HoldsError =>
       /\ held \in ErrorPackage
       /\ held.source \in accepted \ (settled \union taskQueue)
       /\ \A w \in Holders : current[w] # held.source
       /\ \A e \in errorQueue : e.source # held.source

SettledOnce == processed \intersect failed = {} /\ settled \subseteq accepted

LogMatches ==
  {e.source : e \in log} =
    failed \union (IF consumer = "counting" THEN {held.source} ELSE {})

ProfilesMatch ==
  /\ \A s \in processed : profiles[s] = Columns
  /\ \A s \in Sources \ processed :
       (\A w \in Workers : worker[w] = "storing" => current[w] # s)
         => profiles[s] = 0

Inductive ==
  /\ TypeOK /\ CountersMatch /\ MainOrder
  /\ AddingApart /\ QueueApart /\ WorkersApart /\ ErrorsApart /\ HeldApart
  /\ SettledOnce /\ LogMatches /\ ProfilesMatch
=============================================================================
