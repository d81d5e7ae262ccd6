--------------------------- MODULE ProfilerProofs ---------------------------
(***************************************************************************)
(* Proofs about Profiler, for any finite sets of sources and workers, any  *)
(* number of columns and any combination of faults.  The lemmas *Step take *)
(* the conjuncts of Inductive through every step, a few at a time; the     *)
(* theorems follow from Inductive alone.                                   *)
(***************************************************************************)
EXTENDS Profiler, FiniteSetTheorems, TLAPS

\* The inductive invariant holds initially.
LEMMA InitInductive == Init => Inductive
<1> SUFFICES ASSUME Init PROVE Inductive
  OBVIOUS
<1> USE SourcesAssumption, WorkersAssumption, ColumnsAssumption DEF Init
<1>1. TypeOK
  BY DEF TypeOK, MainStates, ConsumerStates, WorkerStates
<1>2. CountersMatch
  BY FS_EmptySet DEF CountersMatch, accepted, settled
<1>3. MainOrder /\ AddingApart /\ QueueApart /\ SettledOnce
  BY DEF MainOrder, AddingApart, QueueApart, SettledOnce, accepted, settled
<1>4. WorkersApart /\ ErrorsApart /\ HeldApart
  BY DEF WorkersApart, ErrorsApart, HeldApart, HoldsError, Holders, Holding,
       Busy
<1>5. LogMatches /\ ProfilesMatch
  BY DEF LogMatches, ProfilesMatch
<1> QED
  BY <1>1, <1>2, <1>3, <1>4, <1>5 DEF Inductive

\* Types: the only delicate values are the source a busy worker holds and the
\* error package the consumer holds, which WorkersApart and HeldApart bound.
LEMMA TypeStep == ASSUME Inductive, [Next]_vars PROVE TypeOK'
<1> USE SourcesAssumption, WorkersAssumption, ColumnsAssumption
    DEF Inductive, TypeOK, MainStates, ConsumerStates, WorkerStates, mainVars,
        consumerVars, workerVars, queues, counters, storeVars, history
<1>1. CASE Main
  <2>1. CASE CountSubmission
    BY <2>1 DEF CountSubmission
  <2>2. CASE SubmitTask
    BY <2>2 DEF SubmitTask, AddingApart, accepted
  <2>3. CASE ListingFails \/ AllSubmitted \/ StopConsumer \/ JoinConsumer
    BY <2>3 DEF ListingFails, AllSubmitted, StopConsumer, JoinConsumer
  <2>4. CASE TearDownStore
    BY <2>4 DEF TearDownStore
  <2> QED BY <1>1, <2>1, <2>2, <2>3, <2>4 DEF Main
<1>2. CASE Consumer
  <2>1. ASSUME NEW w \in Workers, StartWorker(w) \/ StopWorker(w) PROVE TypeOK'
    BY <2>1 DEF StartWorker, StopWorker
  <2>2. CASE WorkersStarted \/ ConsumerChecks \/ NoError \/ ConsumerExits
    BY <2>2 DEF WorkersStarted, ConsumerChecks, NoError, ConsumerExits
  <2>3. CASE PollError
    BY <2>3 DEF PollError
  <2>4. CASE LogError
    BY <2>4 DEF LogError, HeldApart, HoldsError
  <2>5. CASE CountError
    BY <2>5 DEF CountError, HeldApart, HoldsError, accepted
  <2>6. CASE CountFailed
    BY <2>6 DEF CountFailed
  <2> QED BY <1>2, <2>1, <2>2, <2>3, <2>4, <2>5, <2>6 DEF Consumer
<1>3. ASSUME NEW w \in Workers, Worker(w) PROVE TypeOK'
  <2> USE DEF WorkerFrame, Goto
  <2>0. worker[w] \in Busy => current[w] \in Sources
    BY DEF WorkersApart, Holders, Holding, accepted
  <2>1. CASE WorkerChecks(w) \/ NoTaskPulled(w)
    BY <2>1 DEF WorkerChecks, NoTaskPulled
  <2>2. CASE PollTask(w)
    BY <2>2 DEF PollTask
  <2>3. CASE OpenSource(w) \/ OpenAbsent(w) \/ OpenZeroByte(w)
    BY <2>0, <2>3 DEF OpenSource, OpenAbsent, OpenZeroByte, Busy
  <2>4. CASE ReadFirstRecords(w) \/ ReadNothing(w) \/ ReadFails(w) \/ EndOfData(w)
    BY <2>4 DEF ReadFirstRecords, ReadNothing, ReadFails, EndOfData, MayThrow
  <2>5. CASE StoreDocument(w)
    BY <2>0, <2>5 DEF StoreDocument, MoreResults, Busy
  <2>6. CASE NotifyProcessedTask(w)
    BY <2>0, <2>6 DEF NotifyProcessedTask, Busy
  <2>7. CASE CountColumns(w)
    BY <2>7 DEF CountColumns
  <2>8. CASE ReportError(w)
    BY <2>0, <2>8 DEF ReportError, Busy, ErrorPackage
  <2>9. CASE WorkerDies(w)
    BY <2>9 DEF WorkerDies
  <2> QED BY <1>3, <2>1, <2>2, <2>3, <2>4, <2>5, <2>6, <2>7, <2>8,
         <2>9 DEF Worker
<1>4. CASE Terminated \/ UNCHANGED vars
  BY <1>4 DEF Terminated, vars
<1> QED BY <1>1, <1>2, <1>3, <1>4 DEF Next

\* A submission takes one source out of remaining, and each of the two places
\* that count a task settles a source that was not settled before: the two
\* counters are the cardinalities of accepted and settled.
LEMMA CountersStep == ASSUME Inductive, [Next]_vars PROVE CountersMatch'
<1> USE SourcesAssumption
    DEF Inductive, TypeOK, mainVars, consumerVars, workerVars, queues,
        counters, storeVars, history
<1>1. IsFiniteSet(accepted) /\ IsFiniteSet(settled)
  BY FS_Subset DEF accepted, settled
<1>2. CASE CountSubmission
  <2>1. /\ accepted' = accepted \union {adding'} /\ adding' \notin accepted
        /\ totalTasksSubmitted' = totalTasksSubmitted + 1
        /\ settled' = settled /\ totalProcessedTasks' = totalProcessedTasks
    BY <1>2 DEF CountSubmission, accepted, settled
  <2> QED BY <1>1, <2>1, FS_AddElement DEF CountersMatch
<1>3. CASE CountError
  <2>1. /\ settled' = settled \union {held.source} /\ held.source \notin settled
        /\ totalProcessedTasks' = totalProcessedTasks + 1
        /\ accepted' = accepted /\ totalTasksSubmitted' = totalTasksSubmitted
    BY <1>3 DEF CountError, HeldApart, HoldsError, accepted, settled
  <2> QED BY <1>1, <2>1, FS_AddElement DEF CountersMatch
<1>4. ASSUME NEW w \in Workers, NotifyProcessedTask(w) PROVE CountersMatch'
  <2>1. /\ settled' = settled \union {current[w]} /\ current[w] \notin settled
        /\ totalProcessedTasks' = totalProcessedTasks + 1
        /\ accepted' = accepted /\ totalTasksSubmitted' = totalTasksSubmitted
    BY <1>4 DEF NotifyProcessedTask, WorkerFrame, WorkersApart, Holders,
         Holding, Busy, accepted, settled
  <2> QED BY <1>1, <2>1, FS_AddElement DEF CountersMatch
<1>5. CASE UNCHANGED <<remaining, totalTasksSubmitted, totalProcessedTasks,
                       history>>
  BY <1>5 DEF CountersMatch, accepted, settled
<1>6. Main => \/ CountSubmission
              \/ UNCHANGED <<remaining, totalTasksSubmitted,
                             totalProcessedTasks, history>>
  BY DEF Main, ListingFails, CountSubmission, SubmitTask, AllSubmitted,
       StopConsumer, JoinConsumer, TearDownStore
<1>7. Consumer => \/ CountError
                  \/ UNCHANGED <<remaining, totalTasksSubmitted,
                                 totalProcessedTasks, history>>
  BY DEF Consumer, StartWorker, StopWorker, WorkersStarted, ConsumerChecks,
       NoError, PollError, LogError, CountFailed, ConsumerExits
<1>8. ASSUME NEW w \in Workers, Worker(w)
      PROVE  \/ NotifyProcessedTask(w)
             \/ UNCHANGED <<remaining, totalTasksSubmitted,
                            totalProcessedTasks, history>>
  BY <1>8 DEF Worker, WorkerFrame, WorkerChecks, NoTaskPulled, PollTask,
       OpenSource, OpenAbsent, OpenZeroByte, ReadFirstRecords, ReadNothing,
       ReadFails, EndOfData, StoreDocument, CountColumns, ReportError,
       WorkerDies
<1>9. Terminated => UNCHANGED vars
  BY DEF Terminated
<1> QED BY <1>2, <1>3, <1>4, <1>5, <1>6, <1>7, <1>8, <1>9 DEF Next, vars

\* Where a source is between its submission and its outcome: in one place.
Apart == AddingApart /\ QueueApart /\ WorkersApart /\ ErrorsApart /\ HeldApart

\* Every hand-over removes a source from one place and puts it in the next.
LEMMA ApartStep == ASSUME Inductive, [Next]_vars PROVE Apart'
<1> USE SourcesAssumption
    DEF Inductive, TypeOK, mainVars, consumerVars, workerVars, queues,
        counters, storeVars, history, Apart, AddingApart, QueueApart,
        WorkersApart, ErrorsApart, HeldApart, HoldsError, Holders, Holding,
        Busy, accepted, settled
<1>1. CASE Main
  <2>1. CASE CountSubmission
    <3>1. PICK s \in remaining : adding' = s /\ remaining' = remaining \ {s}
      BY <2>1 DEF CountSubmission
    <3>2. /\ main' = "adding"
          /\ UNCHANGED <<taskQueue, errorQueue, worker, current, consumer, held,
                         processed, failed>>
      BY <2>1 DEF CountSubmission
    <3>3. s \notin settled
      BY <3>1 DEF SettledOnce
    <3> QED BY <3>1, <3>2, <3>3
  <2>2. CASE SubmitTask
    BY <2>2 DEF SubmitTask
  <2>3. CASE ListingFails \/ AllSubmitted \/ StopConsumer \/ JoinConsumer
    BY <2>3 DEF ListingFails, AllSubmitted, StopConsumer, JoinConsumer
  <2>4. CASE TearDownStore
    BY <2>4 DEF TearDownStore
  <2> QED BY <1>1, <2>1, <2>2, <2>3, <2>4 DEF Main
<1>2. CASE Consumer
  <2>1. ASSUME NEW w \in Workers, StartWorker(w) \/ StopWorker(w) PROVE Apart'
    BY <2>1 DEF StartWorker, StopWorker
  <2>2. CASE WorkersStarted \/ ConsumerChecks \/ NoError \/ ConsumerExits
    BY <2>2 DEF WorkersStarted, ConsumerChecks, NoError, ConsumerExits
  <2>3. CASE PollError
    BY <2>3 DEF PollError
  <2>4. CASE LogError
    BY <2>4 DEF LogError
  <2>5. CASE CountError
    BY <2>5 DEF CountError
  <2>6. CASE CountFailed
    BY <2>6 DEF CountFailed
  <2> QED BY <1>2, <2>1, <2>2, <2>3, <2>4, <2>5, <2>6 DEF Consumer
<1>3. ASSUME NEW w \in Workers, Worker(w) PROVE Apart'
  <2> USE DEF WorkerFrame, Goto
  <2>1. CASE WorkerChecks(w) \/ NoTaskPulled(w)
    BY <2>1 DEF WorkerChecks, NoTaskPulled
  <2>2. CASE PollTask(w)
    BY <2>2 DEF PollTask
  <2>3. CASE OpenSource(w) \/ OpenAbsent(w) \/ OpenZeroByte(w)
    BY <2>3 DEF OpenSource, OpenAbsent, OpenZeroByte
  <2>4. CASE ReadFirstRecords(w) \/ ReadNothing(w) \/ ReadFails(w) \/ EndOfData(w)
    BY <2>4 DEF ReadFirstRecords, ReadNothing, ReadFails, EndOfData, MayThrow
  <2>5. CASE StoreDocument(w)
    BY <2>5 DEF StoreDocument, MoreResults
  <2>6. CASE NotifyProcessedTask(w)
    BY <2>6 DEF NotifyProcessedTask
  <2>7. CASE CountColumns(w)
    BY <2>7 DEF CountColumns
  <2>8. CASE ReportError(w)
    BY <2>8 DEF ReportError
  <2>9. CASE WorkerDies(w)
    BY <2>9 DEF WorkerDies
  <2> QED BY <1>3, <2>1, <2>2, <2>3, <2>4, <2>5, <2>6, <2>7, <2>8,
         <2>9 DEF Worker
<1>4. CASE Terminated \/ UNCHANGED vars
  BY <1>4 DEF Terminated, vars
<1> QED BY <1>1, <1>2, <1>3, <1>4 DEF Next

\* Once nothing remains to be listed, equal counters mean equal sets: the main
\* thread leaves its waiting loop only when every source is settled.
LEMMA MainOrderStep == ASSUME Inductive, [Next]_vars PROVE MainOrder'
<1> USE SourcesAssumption
    DEF Inductive, TypeOK, MainStates, mainVars, consumerVars, workerVars,
        queues, counters, storeVars, history, MainOrder, settled
<1>1. CASE StopConsumer
  <2>1. accepted = Sources /\ settled \subseteq Sources
    BY <1>1 DEF StopConsumer, accepted
  <2>2. Cardinality(settled) >= Cardinality(Sources)
    BY <1>1, <2>1, FS_Subset, FS_CardinalityType
       DEF StopConsumer, IsTherePendingWork, CountersMatch
  <2>3. settled = Sources
    BY <2>1, <2>2, FS_Subset, FS_CardinalityType
  <2> QED BY <1>1, <2>3 DEF StopConsumer
<1>2. CASE \/ ListingFails \/ CountSubmission \/ SubmitTask \/ AllSubmitted
           \/ JoinConsumer \/ TearDownStore
  BY <1>2 DEF ListingFails, CountSubmission, SubmitTask, AllSubmitted,
       JoinConsumer, TearDownStore
<1>3. CASE CountError
  BY <1>3 DEF CountError, HeldApart, HoldsError, accepted
<1>4. ASSUME NEW w \in Workers, NotifyProcessedTask(w) PROVE MainOrder'
  BY <1>4 DEF NotifyProcessedTask, WorkerFrame, WorkersApart, Holders, Holding,
       Busy, accepted
<1>5. CASE UNCHANGED <<main, remaining, storeOpen, history>>
  BY <1>5
<1>6. Consumer => CountError \/ UNCHANGED <<main, remaining, storeOpen, history>>
  BY DEF Consumer, StartWorker, StopWorker, WorkersStarted, ConsumerChecks,
       NoError, PollError, LogError, CountFailed, ConsumerExits
<1>7. ASSUME NEW w \in Workers, Worker(w)
      PROVE  NotifyProcessedTask(w) \/ UNCHANGED <<main, remaining, storeOpen, history>>
  BY <1>7 DEF Worker, WorkerFrame, WorkerChecks, NoTaskPulled, PollTask,
       OpenSource, OpenAbsent, OpenZeroByte, ReadFirstRecords, ReadNothing,
       ReadFails, EndOfData, StoreDocument, CountColumns, ReportError,
       WorkerDies
<1>8. CASE Terminated \/ UNCHANGED vars
  BY <1>8 DEF Terminated, vars
<1> QED BY <1>1, <1>2, <1>3, <1>4, <1>5, <1>6, <1>7, <1>8 DEF Next, Main

\* A source is settled by one side only, the log grows with failed, and the
\* profiles of a source are all written by the worker that settles it.
LEMMA OutcomeStep ==
  ASSUME Inductive, [Next]_vars
  PROVE  SettledOnce' /\ LogMatches' /\ ProfilesMatch'
<1> USE SourcesAssumption, ColumnsAssumption
    DEF Inductive, TypeOK, mainVars, consumerVars, workerVars, queues,
        counters, storeVars, history, accepted, settled, SettledOnce,
        LogMatches, ProfilesMatch
<1>1. CASE Main
  BY <1>1 DEF Main, ListingFails, CountSubmission, SubmitTask, AllSubmitted,
       StopConsumer, JoinConsumer, TearDownStore
<1>2. CASE Consumer
  <2>1. ASSUME NEW w \in Workers, StartWorker(w) \/ StopWorker(w)
        PROVE SettledOnce' /\ LogMatches' /\ ProfilesMatch'
    BY <2>1 DEF StartWorker, StopWorker
  <2>2. CASE \/ WorkersStarted \/ ConsumerChecks \/ NoError \/ ConsumerExits
             \/ PollError \/ CountFailed
    BY <2>2 DEF WorkersStarted, ConsumerChecks, NoError, ConsumerExits,
         PollError, CountFailed
  <2>4. CASE LogError
    BY <2>4 DEF LogError
  <2>5. CASE CountError
    BY <2>5 DEF CountError, HeldApart, HoldsError
  <2> QED BY <1>2, <2>1, <2>2, <2>4, <2>5 DEF Consumer
<1>3. ASSUME NEW w \in Workers, Worker(w)
      PROVE SettledOnce' /\ LogMatches' /\ ProfilesMatch'
  <2> USE DEF WorkerFrame, Goto
  <2>1. CASE WorkerChecks(w) \/ NoTaskPulled(w) \/ PollTask(w)
    BY <2>1 DEF WorkerChecks, NoTaskPulled, PollTask
  <2>3. CASE OpenSource(w) \/ OpenAbsent(w) \/ OpenZeroByte(w)
    BY <2>3 DEF OpenSource, OpenAbsent, OpenZeroByte
  <2>4. CASE ReadFirstRecords(w) \/ ReadNothing(w) \/ ReadFails(w) \/ EndOfData(w)
    BY <2>4 DEF ReadFirstRecords, ReadNothing, ReadFails, EndOfData, MayThrow
  <2>5. CASE StoreDocument(w)
    BY <2>5 DEF StoreDocument, MoreResults, WorkersApart, Holders, Holding,
         Busy
  <2>6. CASE NotifyProcessedTask(w)
    <3>1. /\ current[w] \in accepted \ settled /\ profiles[current[w]] = Columns
          /\ processed' = processed \union {current[w]}
          /\ \A v \in Workers \ {w} : worker'[v] = worker[v]
          /\ UNCHANGED <<failed, profiles, log, consumer, held, remaining, current>>
      BY <2>6 DEF NotifyProcessedTask, MoreResults, WorkersApart, Holders,
           Holding, Busy, accepted
    <3>2. SettledOnce' /\ LogMatches'
      BY <3>1 DEF accepted
    <3>3. ProfilesMatch'
      BY <3>1
    <3> QED BY <3>2, <3>3
  <2>7. CASE CountColumns(w) \/ ReportError(w) \/ WorkerDies(w)
    BY <2>7 DEF CountColumns, ReportError, WorkerDies
  <2> QED BY <1>3, <2>1, <2>3, <2>4, <2>5, <2>6, <2>7 DEF Worker
<1>4. CASE Terminated \/ UNCHANGED vars
  BY <1>4 DEF Terminated, vars
<1> QED BY <1>1, <1>2, <1>3, <1>4 DEF Next

\* Inductive holds in every reachable state.
THEOREM InductiveInvariant == SafetySpec => []Inductive
<1>1. Inductive /\ [Next]_vars => Inductive'
  BY TypeStep, CountersStep, ApartStep, MainOrderStep, OutcomeStep
     DEF Inductive, Apart
<1> QED BY InitInductive, <1>1, PTL DEF SafetySpec

\* Every variable keeps its type.
THEOREM TypeCorrect == SafetySpec => []TypeOK
<1>1. Inductive => TypeOK
  BY DEF Inductive
<1> QED BY <1>1, InductiveInvariant, PTL

\* No worker is at work once the store is torn down, for any number of
\* workers and sources, although nobody waits for the workers.
THEOREM TeardownIsSafe == SafetySpec => []NoWorkAfterTeardown
<1>1. Inductive => NoWorkAfterTeardown
  <2> SUFFICES ASSUME Inductive, ~storeOpen, NEW w \in Workers,
         worker[w] \in Busy
               PROVE  FALSE
    BY DEF NoWorkAfterTeardown
  <2>1. settled = Sources
    BY DEF Inductive, MainOrder
  <2>2. current[w] \in Sources \ settled
    BY DEF Inductive, WorkersApart, Holders, Holding, accepted
  <2> QED BY <2>1, <2>2
<1> QED BY <1>1, InductiveInvariant, PTL

\* The main thread goes on only when every source is settled, on one side
\* only, and both queues are empty and every failure is in the log.
THEOREM JobIsSettled == SafetySpec => []JobSettled
<1>1. Inductive => JobSettled
  <2> SUFFICES ASSUME Inductive, main \in {"joining", "tearingDown", "done"}
               PROVE  /\ settled = Sources /\ processed \intersect failed = {}
                      /\ taskQueue = {} /\ errorQueue = {}
                      /\ {e.source : e \in log} = failed
    BY DEF JobSettled
  <2>1. settled = Sources /\ processed \intersect failed = {}
    BY DEF Inductive, MainOrder, SettledOnce
  <2>2. taskQueue = {} /\ errorQueue = {}
    BY <2>1 DEF Inductive, QueueApart, ErrorsApart, accepted
  <2>3. consumer # "counting"
    BY <2>1 DEF Inductive, HeldApart, HoldsError, accepted
  <2>4. {e.source : e \in log} = failed
    BY <2>3 DEF Inductive, LogMatches
  <2> QED BY <2>1, <2>2, <2>4
<1> QED BY <1>1, InductiveInvariant, PTL

\* A source has all its profiles in the store or, when it failed, none.
THEOREM ProfilesAreWhole == SafetySpec => []ProfilesAllOrNothing
<1>1. Inductive => ProfilesAllOrNothing
  <2> SUFFICES ASSUME Inductive PROVE ProfilesAllOrNothing
    OBVIOUS
  <2>1. \A s \in processed : profiles[s] = Columns
    BY DEF Inductive, ProfilesMatch
  <2>2. ASSUME NEW s \in Sources \ processed,
               \A w \in Holders : current[w] = s => worker[w] # "storing"
        PROVE  profiles[s] = 0
    BY <2>2 DEF Inductive, ProfilesMatch, Holders, Holding, Busy
  <2>3. ASSUME NEW e \in errorQueue PROVE profiles[e.source] = 0
    BY <2>2, <2>3 DEF Inductive, ErrorsApart, settled, accepted
  <2>4. ASSUME NEW e \in log PROVE profiles[e.source] = 0
    <3>1. e.source \in failed \/ (HoldsError /\ e.source = held.source)
      BY <2>4 DEF Inductive, LogMatches, HoldsError
    <3>2. CASE e.source \in failed
      BY <2>2, <3>2 DEF Inductive, TypeOK, SettledOnce, WorkersApart, settled
    <3>3. CASE HoldsError /\ e.source = held.source
      BY <2>2, <3>3 DEF Inductive, HeldApart, settled, accepted
    <3> QED BY <3>1, <3>2, <3>3
  <2>5. ASSUME NEW w \in Workers, worker[w] \in {"failing", "dead"}
        PROVE  profiles[current[w]] = 0
    BY <2>2, <2>5 DEF Inductive, WorkersApart, Holders, Holding, Busy, settled,
         accepted
  <2> QED BY <2>1, <2>3, <2>4, <2>5 DEF ProfilesAllOrNothing
<1> QED BY <1>1, InductiveInvariant, PTL

-----------------------------------------------------------------------------
(* The threads implement the abstract job. *)

\* The initial state is one of the job: every source is listed.
LEMMA InitRefines == Init => Job!Init
  BY SourcesAssumption DEF Init, Job!Init, Outcome

\* Only four actions are visible to the job, the others stutter.
LEMMA StepRefines ==
  ASSUME Inductive, [Next]_vars
  PROVE  [Job!Next]_(Job!vars)
<1> USE DEF mainVars, consumerVars, workerVars, queues, counters, storeVars,
       history, Job!vars
<1>0. ASSUME UNCHANGED <<remaining, storeOpen, history>>
      PROVE  UNCHANGED Job!vars
  BY <1>0 DEF Outcome
<1>1. CASE CountSubmission
  <2>1. PICK s \in remaining : remaining' = remaining \ {s}
    BY <1>1 DEF CountSubmission
  <2>2. /\ s \in Sources /\ s \notin settled /\ storeOpen
        /\ UNCHANGED <<storeOpen, history>>
    BY <1>1 DEF CountSubmission, Inductive, TypeOK, SettledOnce, MainOrder,
         accepted
  <2>3. Job!Submit(s)
    BY <2>1, <2>2 DEF Job!Submit, Outcome, settled
  <2> QED BY <2>2, <2>3 DEF Job!Next
<1>2. CASE CountError
  <2>1. held.source \in accepted \ settled
    BY <1>2 DEF CountError, Inductive, HeldApart, HoldsError
  <2>2. storeOpen
    BY <2>1 DEF Inductive, TypeOK, MainOrder, accepted
  <2>3. /\ failed' = failed \union {held.source}
        /\ UNCHANGED <<remaining, storeOpen, processed>>
    BY <1>2 DEF CountError
  <2>4. Job!Settle(held.source)
    BY <2>1, <2>2, <2>3 DEF Job!Settle, Outcome, settled, accepted
  <2> QED BY <2>1, <2>4 DEF Job!Next, accepted
<1>3. ASSUME NEW w \in Workers, NotifyProcessedTask(w) PROVE Job!Next
  <2>1. current[w] \in accepted \ settled
    BY <1>3 DEF NotifyProcessedTask, Inductive, WorkersApart, Holders, Holding,
         Busy
  <2>2. storeOpen
    BY <2>1 DEF Inductive, TypeOK, MainOrder, accepted
  <2>3. /\ processed' = processed \union {current[w]}
        /\ UNCHANGED <<remaining, storeOpen, failed>>
    BY <1>3 DEF NotifyProcessedTask, WorkerFrame
  <2>4. Job!Settle(current[w])
    BY <2>1, <2>2, <2>3 DEF Job!Settle, Outcome, settled, accepted
  <2> QED BY <2>1, <2>4 DEF Job!Next, accepted
<1>4. CASE TearDownStore
  <2>1. settled = Sources /\ storeOpen
    BY <1>4 DEF TearDownStore, Inductive, MainOrder
  <2>2. ~storeOpen' /\ storeOpen' \in BOOLEAN /\ UNCHANGED <<remaining, history>>
    BY <1>4 DEF TearDownStore
  <2>3. Job!Close
    BY <1>4, <2>1, <2>2 DEF Job!Close, Outcome, settled, TearDownStore
  <2> QED BY <2>3 DEF Job!Next
<1>5. Main => \/ CountSubmission \/ TearDownStore
              \/ UNCHANGED <<remaining, storeOpen, history>>
  BY DEF Main, ListingFails, SubmitTask, AllSubmitted, StopConsumer,
       JoinConsumer
<1>6. Consumer => CountError \/ UNCHANGED <<remaining, storeOpen, history>>
  BY DEF Consumer, StartWorker, StopWorker, WorkersStarted, ConsumerChecks,
       NoError, PollError, LogError, CountFailed, ConsumerExits
<1>7. ASSUME NEW w \in Workers, Worker(w)
      PROVE  NotifyProcessedTask(w) \/ UNCHANGED <<remaining, storeOpen, history>>
  BY <1>7 DEF Worker, WorkerFrame, WorkerChecks, NoTaskPulled, PollTask,
       OpenSource, OpenAbsent, OpenZeroByte, ReadFirstRecords, ReadNothing,
       ReadFails, EndOfData, StoreDocument, CountColumns, ReportError,
       WorkerDies
<1>8. CASE Terminated \/ UNCHANGED vars
  BY <1>0, <1>8 DEF Terminated, vars
<1> QED BY <1>0, <1>1, <1>2, <1>3, <1>4, <1>5, <1>6, <1>7, <1>8 DEF Next

\* Every behaviour of the threads is one of the abstract job: a source gets
\* one outcome, and the store closes after the last one.
THEOREM JobIsImplemented == SafetySpec => ImplementsJob
<1>1. Inductive /\ [Next]_vars => [Job!Next]_(Job!vars)
  BY StepRefines
<1> QED
  BY InitRefines, <1>1, InductiveInvariant, PTL
     DEF SafetySpec, ImplementsJob, Job!SafetySpec

-----------------------------------------------------------------------------
(* Whom the error log blames *)

\* From the moment a source is open, the field task is the task of the
\* package; a failing worker without one dies.
TaskIsCurrent ==
  /\ \A w \in Workers :
       /\ worker[w] \in {"firstRead", "reading", "storing"} => task[w] = current[w]
       /\ worker[w] = "failing" => task[w] \in {current[w], NoTask}
  /\ \A e \in errorQueue \union log : e.named = e.source
  /\ HoldsError => held.named = held.source

\* Without a completely empty file every step preserves it.
LEMMA TaskIsCurrentStep ==
  ASSUME Inductive, TaskIsCurrent, [Next]_vars, "zeroByte" \notin Faults
  PROVE  TaskIsCurrent'
<1> USE DEF mainVars, consumerVars, workerVars, queues, counters, storeVars,
       history, TaskIsCurrent, HoldsError, Inductive, TypeOK
<1>1. CASE Main
  BY <1>1 DEF Main, ListingFails, CountSubmission, SubmitTask, AllSubmitted,
       StopConsumer, JoinConsumer, TearDownStore
<1>2. CASE Consumer
  BY <1>2 DEF Consumer, StartWorker, StopWorker, WorkersStarted,
       ConsumerChecks, NoError, PollError, LogError, CountError, CountFailed,
       ConsumerExits
<1>3. ASSUME NEW w \in Workers, Worker(w) PROVE TaskIsCurrent'
  <2> USE DEF WorkerFrame, Goto
  <2>1. CASE WorkerChecks(w) \/ NoTaskPulled(w) \/ PollTask(w)
    BY <2>1 DEF WorkerChecks, NoTaskPulled, PollTask
  <2>2. CASE OpenSource(w) \/ OpenAbsent(w) \/ OpenZeroByte(w)
    BY <2>2 DEF OpenSource, OpenAbsent, OpenZeroByte
  <2>3. CASE ReadFirstRecords(w) \/ ReadNothing(w) \/ ReadFails(w) \/ EndOfData(w)
    BY <2>3 DEF ReadFirstRecords, ReadNothing, ReadFails, EndOfData, MayThrow
  <2>4. CASE \/ StoreDocument(w) \/ NotifyProcessedTask(w) \/ CountColumns(w)
             \/ WorkerDies(w)
    BY <2>4 DEF StoreDocument, NotifyProcessedTask, CountColumns, WorkerDies
  <2>5. CASE ReportError(w)
    BY <2>5 DEF ReportError
  <2> QED BY <1>3, <2>1, <2>2, <2>3, <2>4, <2>5 DEF Worker
<1>4. CASE Terminated \/ UNCHANGED vars
  BY <1>4 DEF Terminated, vars
<1> QED BY <1>1, <1>2, <1>3, <1>4 DEF Next

\* As long as no file is completely empty, the error log names the sources
\* that failed: the stale field task is never read.
THEOREM LogNamesTheSource ==
  ASSUME "zeroByte" \notin Faults
  PROVE  SafetySpec => []RecordsNameTheirSource
<1>1. Init => TaskIsCurrent
  BY DEF Init, TaskIsCurrent, HoldsError
<1>2. Inductive /\ TaskIsCurrent /\ [Next]_vars => TaskIsCurrent'
  BY TaskIsCurrentStep
<1>3. TaskIsCurrent => RecordsNameTheirSource
  BY DEF TaskIsCurrent, RecordsNameTheirSource
<1> QED BY <1>1, <1>2, <1>3, InductiveInvariant, PTL DEF SafetySpec

\* The field task of a worker is empty, its own source, or one that is over.
TasksOver ==
  \A w \in Workers :
    \/ task[w] = NoTask \/ Over(task[w])
    \/ /\ worker[w] \in {"firstRead", "reading", "storing", "failing"}
       /\ task[w] = current[w]

\* A source that is over stays over: from the error queue to the consumer, and
\* from there to the failed ones.
LEMMA OverStays ==
  ASSUME Inductive, [Next]_vars, NEW s \in Sources, Over(s)
  PROVE  Over(s)'
<1> USE DEF mainVars, consumerVars, workerVars, queues, counters, storeVars,
       history, HoldsError, Inductive, TypeOK, Over, settled
<1>1. CASE Main
  BY <1>1 DEF Main, ListingFails, CountSubmission, SubmitTask, AllSubmitted,
       StopConsumer, JoinConsumer, TearDownStore
<1>2. CASE Consumer
  BY <1>2 DEF Consumer, StartWorker, StopWorker, WorkersStarted,
       ConsumerChecks, NoError, PollError, LogError, CountError, CountFailed,
       ConsumerExits
<1>3. ASSUME NEW w \in Workers, Worker(w) PROVE Over(s)'
  BY <1>3 DEF Worker, WorkerFrame, WorkerChecks, NoTaskPulled, PollTask,
       OpenSource, OpenAbsent, OpenZeroByte, ReadFirstRecords, ReadNothing,
       ReadFails, EndOfData, StoreDocument, NotifyProcessedTask, CountColumns,
       ReportError, WorkerDies
<1>4. CASE Terminated \/ UNCHANGED vars
  BY <1>4 DEF Terminated, vars
<1> QED BY <1>1, <1>2, <1>3, <1>4 DEF Next

\* The source that a worker reports is over.
LEMMA ReportedIsOver ==
  ASSUME NEW w \in Workers, ReportError(w), NEW s, s = current[w]
  PROVE  Over(s)'
<1>1. PICK e : e = [source |-> current[w], named |-> task[w]]
  OBVIOUS
<1>2. e \in errorQueue' /\ e.source = s
  BY <1>1 DEF ReportError
<1> QED BY <1>2 DEF Over

\* What was over stays so; a step of a worker changes its own field only, and
\* its source is over when it lets go of it.
LEMMA TasksOverStep ==
  ASSUME Inductive, TasksOver, [Next]_vars
  PROVE  TasksOver'
<1> DEFINE Own == {"firstRead", "reading", "storing", "failing"}
           OwnLater(v) == worker'[v] \in Own /\ task'[v] = current'[v]
<1> SUFFICES ASSUME NEW v \in Workers
             PROVE  \/ task'[v] = NoTask
                    \/ \E s \in Sources : s = task'[v] /\ Over(s)'
                    \/ OwnLater(v)
  BY DEF TasksOver, Over
<1>1. PICK t \in Sources \union {NoTask} : t = task[v]
  BY DEF Inductive, TypeOK
<1>2. \/ t = NoTask
      \/ t \in Sources /\ Over(t)
      \/ worker[v] \in Own /\ t \in Sources /\ t = current[v]
  BY <1>1 DEF TasksOver, Over
<1>3. t \in Sources /\ Over(t) => Over(t)'
  BY OverStays
<1>4. CASE task'[v] = t /\ current'[v] = current[v] /\ worker'[v] = worker[v]
  BY <1>2, <1>3, <1>4
<1>5. CASE task'[v] = t /\ current'[v] = current[v] /\ worker'[v] \in Own
  BY <1>2, <1>3, <1>5
<1>6. CASE task'[v] = t /\ worker[v] \notin Own
  BY <1>2, <1>3, <1>6
<1>7. CASE task'[v] = NoTask
  BY <1>7
<1> USE DEF Goto, WorkerFrame, mainVars, consumerVars, workerVars, queues,
       counters, storeVars, history
<1>8. ASSUME NEW w \in Workers, Worker(w), w # v
      PROVE  task'[v] = task[v] /\ current'[v] = current[v] /\ worker'[v] = worker[v]
  BY <1>8 DEF Worker, WorkerChecks, NoTaskPulled, PollTask,
       OpenSource, OpenAbsent, OpenZeroByte, ReadFirstRecords, ReadNothing,
       ReadFails, EndOfData, StoreDocument, NotifyProcessedTask, CountColumns,
       ReportError, WorkerDies, Inductive, TypeOK
<1>9. Main \/ Consumer \/ Terminated \/ UNCHANGED vars
        => task' = task /\ current' = current
           /\ (worker'[v] = worker[v] \/ worker[v] = "new")
  BY DEF Main, ListingFails, CountSubmission, SubmitTask, AllSubmitted,
       StopConsumer, JoinConsumer, TearDownStore, Consumer, StartWorker,
       StopWorker, WorkersStarted, ConsumerChecks, NoError, PollError, LogError,
       CountError, CountFailed, ConsumerExits, Terminated, vars, Inductive, TypeOK
<1>10. CASE WorkerChecks(v) \/ PollTask(v) \/ OpenZeroByte(v) \/ CountColumns(v)
  <2>1. task' = task
    BY <1>10 DEF WorkerChecks, PollTask, OpenZeroByte, CountColumns
  <2>2. worker[v] \in {"checking", "polling", "opening", "counting"}
    BY <1>10 DEF WorkerChecks, PollTask, OpenZeroByte, CountColumns
  <2> QED BY <1>1, <1>6, <2>1, <2>2
<1>11. CASE NoTaskPulled(v) \/ OpenAbsent(v) \/ WorkerDies(v)
  BY <1>7, <1>11 DEF NoTaskPulled, OpenAbsent, WorkerDies, Inductive, TypeOK
<1>12. CASE OpenSource(v)
  BY <1>12 DEF OpenSource, Inductive, TypeOK
<1>13. CASE \/ ReadFirstRecords(v) \/ ReadNothing(v) \/ ReadFails(v)
            \/ EndOfData(v) \/ StoreDocument(v)
  BY <1>1, <1>5, <1>13 DEF ReadFirstRecords, ReadNothing, ReadFails, EndOfData,
       StoreDocument, Inductive, TypeOK
<1>14. CASE NotifyProcessedTask(v) \/ ReportError(v)
  <2>1. task'[v] = t
    BY <1>1, <1>14 DEF NotifyProcessedTask, ReportError
  <2>2. t \in Sources /\ t = current[v] => Over(t)'
    <3>1. CASE NotifyProcessedTask(v)
      BY <3>1 DEF NotifyProcessedTask, Over, settled
    <3>2. CASE ReportError(v)
      BY <3>2, ReportedIsOver
    <3> QED BY <1>14, <3>1, <3>2
  <2> QED BY <1>2, <1>3, <2>1, <2>2
<1>15. ASSUME Worker(v)
       PROVE  \/ WorkerChecks(v) \/ PollTask(v) \/ OpenZeroByte(v) \/ CountColumns(v)
              \/ NoTaskPulled(v) \/ OpenAbsent(v) \/ WorkerDies(v)
              \/ OpenSource(v) \/ ReadFirstRecords(v) \/ ReadNothing(v)
              \/ ReadFails(v) \/ EndOfData(v) \/ StoreDocument(v)
              \/ NotifyProcessedTask(v) \/ ReportError(v)
  BY <1>15 DEF Worker
<1>16. ASSUME NEW w \in Workers, Worker(w), w # v
       PROVE  \/ task'[v] = NoTask
              \/ \E s \in Sources : s = task'[v] /\ Over(s)'
              \/ OwnLater(v)
  BY <1>1, <1>4, <1>8, <1>16
<1>17. CASE Main \/ Consumer \/ Terminated \/ UNCHANGED vars
  BY <1>1, <1>4, <1>6, <1>9, <1>17
<1> QED
  BY <1>10, <1>11, <1>12, <1>13, <1>14, <1>15, <1>16, <1>17 DEF Next

\* The field of a worker that reports names its own source, which is in the
\* error queue then, or one that was over before.
NamesOver == TasksOver /\ RecordsNameFinishedSources

LEMMA NamesOverStep ==
  ASSUME Inductive, NamesOver, [Next]_vars
  PROVE  RecordsNameFinishedSources'
<1> USE DEF mainVars, consumerVars, workerVars, queues, counters, storeVars,
       history
<1> DEFINE Package(e) == e \in errorQueue \union log \/ (HoldsError /\ e = held)
           Reported(w) == [source |-> current[w], named |-> task[w]]
<1>1. \A s \in Sources : Over(s) => Over(s)'
  BY OverStays
<1>2. \A e \in ErrorPackage : e.source \in Sources /\ e.named \in Sources
  BY DEF ErrorPackage
<1>3. /\ errorQueue \subseteq ErrorPackage /\ log \subseteq ErrorPackage
      /\ HoldsError => held \in ErrorPackage
  BY DEF Inductive, TypeOK, HeldApart
<1>4. ASSUME NEW e, Package(e) PROVE Over(e.named)'
  <2>1. e.named \in Sources
    BY <1>2, <1>3, <1>4
  <2>2. Over(e.named)
    BY <1>4 DEF NamesOver, RecordsNameFinishedSources
  <2> QED BY <1>1, <2>1, <2>2
<1>5. ASSUME NEW w \in Workers, ReportError(w), NEW e, e = Reported(w)
      PROVE  Over(e.named)'
  <2>1. PICK s \in Sources : s = task[w]
    BY <1>5 DEF ReportError, Inductive, TypeOK
  <2>2. e.named = s
    BY <1>5, <2>1
  <2>3. Over(s) => Over(s)'
    BY <1>1
  <2>4. s = current[w] => Over(s)'
    BY <1>5, ReportedIsOver
  <2>5. Over(s) \/ s = current[w]
    BY <1>5, <2>1 DEF ReportError, NamesOver, TasksOver
  <2> QED BY <2>2, <2>3, <2>4, <2>5
<1>6. ASSUME NEW w \in Workers, Worker(w)
      PROVE  /\ UNCHANGED <<log, held, consumer>>
             /\ \/ errorQueue' = errorQueue
                \/ ReportError(w) /\ errorQueue' = errorQueue \union {Reported(w)}
  BY <1>6 DEF Worker, WorkerFrame, WorkerChecks, NoTaskPulled, PollTask,
       OpenSource, OpenAbsent, OpenZeroByte, ReadFirstRecords, ReadNothing,
       ReadFails, EndOfData, StoreDocument, NotifyProcessedTask, CountColumns,
       ReportError, WorkerDies
<1>7. ASSUME Main \/ Consumer \/ Terminated \/ UNCHANGED vars
      PROVE  /\ \A e \in errorQueue' \union log' : Package(e)
             /\ HoldsError' => Package(held')
  BY <1>7 DEF Main, ListingFails, CountSubmission, SubmitTask, AllSubmitted,
       StopConsumer, JoinConsumer, TearDownStore, Consumer, StartWorker,
       StopWorker, WorkersStarted, ConsumerChecks, NoError, PollError, LogError,
       CountError, CountFailed, ConsumerExits, Terminated, vars, HoldsError
<1>8. CASE Main \/ Consumer \/ Terminated \/ UNCHANGED vars
  <2>1. \A e \in errorQueue' \union log' : Over(e.named)'
    BY <1>4, <1>7, <1>8
  <2>2. ASSUME HoldsError' PROVE Over(held.named)'
    <3>1. PICK h : h = held'
      OBVIOUS
    <3>2. Over(h.named)'
      BY <1>4, <1>7, <1>8, <2>2, <3>1
    <3> QED BY <3>1, <3>2 DEF Over
  <2> QED BY <2>1, <2>2 DEF RecordsNameFinishedSources
<1>9. ASSUME NEW w \in Workers, Worker(w) PROVE RecordsNameFinishedSources'
  <2>1. ASSUME NEW e \in errorQueue' \union log' PROVE Over(e.named)'
    <3>1. CASE Package(e)
      BY <1>4, <3>1
    <3>2. CASE ReportError(w) /\ e = Reported(w)
      BY <1>5, <3>2
    <3> QED BY <1>6, <1>9, <3>1, <3>2
  <2>2. ASSUME HoldsError' PROVE Over(held.named)'
    <3>1. HoldsError /\ held' = held
      BY <1>6, <1>9, <2>2 DEF HoldsError
    <3>2. PICK h : h = held
      OBVIOUS
    <3>3. Over(h.named)'
      BY <1>4, <3>1, <3>2
    <3> QED BY <3>1, <3>2, <3>3 DEF Over
  <2> QED BY <2>1, <2>2 DEF RecordsNameFinishedSources
<1> QED BY <1>8, <1>9 DEF Next

\* Whatever fails, an error record names no source that is still listed, queued
\* or in the hands of a worker, although the field task it is made from may be
\* that of an earlier iteration.
THEOREM RecordsNameFinished == SafetySpec => []RecordsNameFinishedSources
<1>1. Init => NamesOver
  BY DEF Init, NamesOver, TasksOver, RecordsNameFinishedSources, HoldsError
<1>2. Inductive /\ NamesOver /\ [Next]_vars => NamesOver'
  BY TasksOverStep, NamesOverStep DEF NamesOver
<1>3. NamesOver => RecordsNameFinishedSources
  BY DEF NamesOver
<1> QED BY <1>1, <1>2, <1>3, InductiveInvariant, PTL DEF SafetySpec

-----------------------------------------------------------------------------
(* The totals the job reports *)

\* The consumer has logged an error that totalFailedTasks does not count yet.
LoggedNotCounted == consumer \in {"counting", "countingFailed"}

\* Workers whose task is counted and whose columns are not.
Counting == {w \in Workers : worker[w] = "counting"}

\* The totals lag behind the log and behind processed by what the threads are
\* about to add; the main thread is past the join only if the consumer is out.
TotalsLag ==
  /\ IsFiniteSet(log)
  /\ totalFailedTasks + (IF LoggedNotCounted THEN 1 ELSE 0) = Cardinality(log)
  /\ totalColumns + Columns * Cardinality(Counting)
       = Columns * Cardinality(processed)
  /\ main \in {"tearingDown", "done"} => consumer = "exited"

\* Adding one to a factor.
LEMMA TimesSuccessor ==
  ASSUME NEW c \in Nat, NEW n \in Nat
  PROVE  c * (n + 1) = c * n + c
OBVIOUS

\* The three variables of the columns total keep their relation.
ColumnsLag ==
  totalColumns + Columns * Cardinality(Counting)
    = Columns * Cardinality(processed)

\* A task enters processed and Counting in one step, and its columns are
\* added in the step in which the worker leaves Counting.
LEMMA ColumnsLagStep ==
  ASSUME Inductive, ColumnsLag, [Next]_vars
  PROVE  ColumnsLag'
<1> USE SourcesAssumption, WorkersAssumption, ColumnsAssumption
    DEF Inductive, TypeOK, mainVars, consumerVars, workerVars, queues,
        counters, storeVars, history, ColumnsLag
<1>1. IsFiniteSet(processed) /\ IsFiniteSet(Counting)
  BY FS_Subset DEF Counting
<1>2. Cardinality(processed) \in Nat /\ Cardinality(Counting) \in Nat
  BY <1>1, FS_CardinalityType
<1>3. ASSUME NEW w \in Workers, NotifyProcessedTask(w) PROVE ColumnsLag'
  <2>1. /\ processed' = processed \union {current[w]}
        /\ current[w] \notin processed /\ totalColumns' = totalColumns
    BY <1>3 DEF NotifyProcessedTask, WorkersApart, Holders, Holding, Busy,
         settled
  <2>2. Counting' = Counting \union {w} /\ w \notin Counting
    BY <1>3 DEF NotifyProcessedTask, Goto, Counting
  <2>3. /\ Cardinality(processed') = Cardinality(processed) + 1
        /\ Cardinality(Counting') = Cardinality(Counting) + 1
    BY <1>1, <2>1, <2>2, FS_AddElement
  <2>4. /\ Columns * Cardinality(processed')
             = Columns * Cardinality(processed) + Columns
        /\ Columns * Cardinality(Counting')
             = Columns * Cardinality(Counting) + Columns
    BY <1>2, <2>3, TimesSuccessor
  <2> DEFINE p == Columns * Cardinality(processed)
             c == Columns * Cardinality(Counting)
  <2>5. p \in Nat /\ c \in Nat
    BY <1>2
  <2>6. ColumnsLag' <=> totalColumns + (c + Columns) = p + Columns
    BY <2>1, <2>4
  <2>7. totalColumns + c = p
    OBVIOUS
  <2> HIDE DEF p, c
  <2> QED BY <2>5, <2>6, <2>7
<1>4. ASSUME NEW w \in Workers, CountColumns(w) PROVE ColumnsLag'
  <2>1. processed' = processed /\ totalColumns' = totalColumns + Columns
    BY <1>4 DEF CountColumns
  <2>2. Counting = Counting' \union {w} /\ w \notin Counting'
    BY <1>4 DEF CountColumns, Goto, Counting
  <2>3. IsFiniteSet(Counting')
    BY <1>1, <2>2, FS_Subset
  <2>4. /\ Cardinality(Counting') \in Nat
        /\ Cardinality(Counting) = Cardinality(Counting') + 1
    BY <2>2, <2>3, FS_AddElement, FS_CardinalityType
  <2>5. Columns * Cardinality(Counting) = Columns * Cardinality(Counting') + Columns
    BY <2>4, TimesSuccessor
  <2> DEFINE p == Columns * Cardinality(processed)
             c == Columns * Cardinality(Counting')
  <2>6. p \in Nat /\ c \in Nat
    BY <1>2, <2>4
  <2>7. ColumnsLag' <=> (totalColumns + Columns) + c = p
    BY <2>1
  <2>8. totalColumns + (c + Columns) = p
    BY <2>5
  <2> HIDE DEF p, c
  <2> QED BY <2>6, <2>7, <2>8
<1>5. CASE UNCHANGED <<totalColumns, processed>> /\ Counting' = Counting
  BY <1>5
<1>6. Main => UNCHANGED <<totalColumns, processed>> /\ Counting' = Counting
  BY DEF Main, ListingFails, CountSubmission, SubmitTask, AllSubmitted,
       StopConsumer, JoinConsumer, TearDownStore, Counting
<1>7. Consumer => UNCHANGED <<totalColumns, processed>> /\ Counting' = Counting
  BY DEF Consumer, StartWorker, StopWorker, WorkersStarted, ConsumerChecks,
       NoError, PollError, LogError, CountError, CountFailed, ConsumerExits,
       Counting
<1>8. ASSUME NEW w \in Workers, Worker(w)
      PROVE  \/ NotifyProcessedTask(w) \/ CountColumns(w)
             \/ UNCHANGED <<totalColumns, processed>> /\ Counting' = Counting
  <2> USE DEF Goto, Counting
  <2>1. CASE WorkerChecks(w) \/ NoTaskPulled(w) \/ PollTask(w)
    BY <2>1 DEF WorkerChecks, NoTaskPulled, PollTask
  <2>2. CASE OpenSource(w) \/ OpenAbsent(w) \/ OpenZeroByte(w)
    BY <2>2 DEF OpenSource, OpenAbsent, OpenZeroByte
  <2>3. CASE ReadFirstRecords(w) \/ ReadNothing(w) \/ ReadFails(w) \/ EndOfData(w)
    BY <2>3 DEF ReadFirstRecords, ReadNothing, ReadFails, EndOfData, MayThrow
  <2>4. CASE StoreDocument(w) \/ ReportError(w) \/ WorkerDies(w)
    BY <2>4 DEF StoreDocument, ReportError, WorkerDies
  <2> QED BY <1>8, <2>1, <2>2, <2>3, <2>4 DEF Worker
<1>9. Terminated => UNCHANGED <<totalColumns, processed>> /\ Counting' = Counting
  BY DEF Terminated, vars, Counting
<1>10. UNCHANGED vars
         => UNCHANGED <<totalColumns, processed>> /\ Counting' = Counting
  BY DEF vars, Counting
<1> QED BY <1>3, <1>4, <1>5, <1>6, <1>7, <1>8, <1>9, <1>10 DEF Next

\* An error package is logged once, because its source is not failed yet, and
\* nothing brings the consumer back once it is out.
LEMMA TotalsLagStep ==
  ASSUME Inductive, TotalsLag, [Next]_vars
  PROVE  TotalsLag'
<1> USE DEF Inductive, TypeOK, mainVars, consumerVars, workerVars, queues,
        counters, storeVars, history
<1> DEFINE LogLag ==
             /\ IsFiniteSet(log)
             /\ totalFailedTasks + (IF LoggedNotCounted THEN 1 ELSE 0)
                  = Cardinality(log)
             /\ main \in {"tearingDown", "done"} => consumer = "exited"
<1>1. ColumnsLag'
  BY ColumnsLagStep DEF TotalsLag, ColumnsLag
<1>2. LogLag
  BY DEF TotalsLag
<1>3. CASE Main
  BY <1>1, <1>2, <1>3 DEF Main, ListingFails, CountSubmission, SubmitTask,
       AllSubmitted, StopConsumer, JoinConsumer, TearDownStore, TotalsLag,
       ColumnsLag, LoggedNotCounted
<1>4. CASE Consumer
  <2>1. CASE LogError
    <3>1. held \notin log
      BY <2>1 DEF LogError, LogMatches, HeldApart, HoldsError, settled
    <3>2. /\ log' = log \union {held} /\ consumer' = "counting"
          /\ UNCHANGED <<totalFailedTasks, main>> /\ consumer = "logging"
      BY <2>1 DEF LogError
    <3>3. IsFiniteSet(log') /\ Cardinality(log') = Cardinality(log) + 1
      BY <1>2, <3>1, <3>2, FS_AddElement
    <3> QED BY <1>1, <1>2, <3>2, <3>3 DEF TotalsLag, ColumnsLag, LoggedNotCounted
  <2>2. CASE CountError \/ CountFailed
    BY <1>1, <1>2, <2>2
       DEF CountError, CountFailed, TotalsLag, ColumnsLag, LoggedNotCounted
  <2>3. CASE \/ WorkersStarted \/ ConsumerChecks \/ NoError \/ PollError
             \/ ConsumerExits
    BY <1>1, <1>2, <2>3
       DEF WorkersStarted, ConsumerChecks, NoError, PollError, ConsumerExits,
           TotalsLag, ColumnsLag, LoggedNotCounted
  <2>4. ASSUME NEW w \in Workers, StartWorker(w) \/ StopWorker(w)
        PROVE  TotalsLag'
    BY <1>1, <1>2, <2>4
       DEF StartWorker, StopWorker, TotalsLag, ColumnsLag, LoggedNotCounted
  <2> QED BY <1>4, <2>1, <2>2, <2>3, <2>4 DEF Consumer
<1>5. CASE UNCHANGED <<main, consumer, log, totalFailedTasks>>
  BY <1>1, <1>2, <1>5 DEF TotalsLag, ColumnsLag, LoggedNotCounted
<1>6. ASSUME NEW w \in Workers, Worker(w)
      PROVE  UNCHANGED <<main, consumer, log, totalFailedTasks>>
  BY <1>6 DEF Worker, WorkerFrame, WorkerChecks, NoTaskPulled, PollTask,
       OpenSource, OpenAbsent, OpenZeroByte, ReadFirstRecords, ReadNothing,
       ReadFails, EndOfData, StoreDocument, NotifyProcessedTask, CountColumns,
       ReportError, WorkerDies
<1>7. Terminated \/ UNCHANGED vars
        => UNCHANGED <<main, consumer, log, totalFailedTasks>>
  BY DEF Terminated, vars
<1> QED BY <1>1, <1>3, <1>4, <1>5, <1>6, <1>7 DEF Next, TotalsLag, ColumnsLag

\* When the job is over the totals it reports are what happened, although
\* each is added after the step that lets the main thread go on.
THEOREM TotalsAreFinal == SafetySpec => []FinalTotals
<1>1. Init => TotalsLag
  <2> SUFFICES ASSUME Init PROVE TotalsLag
    OBVIOUS
  <2>1. Counting = {} /\ processed = {} /\ log = {}
    BY DEF Init, Counting
  <2>2. IsFiniteSet({}) /\ Cardinality({}) = 0
    BY FS_EmptySet
  <2> QED BY <2>1, <2>2, ColumnsAssumption DEF Init, TotalsLag, LoggedNotCounted
<1>2. Inductive /\ TotalsLag /\ [Next]_vars => TotalsLag'
  BY TotalsLagStep
<1>3. Inductive /\ TotalsLag => FinalTotals
  <2> SUFFICES ASSUME Inductive, TotalsLag PROVE FinalTotals
    OBVIOUS
  <2> USE DEF Inductive, TypeOK
  <2>1. ASSUME main = "done" PROVE totalFailedTasks = Cardinality(log)
    BY <2>1 DEF TotalsLag, LoggedNotCounted
  <2>2. ASSUME main = "done" PROVE totalProcessedTasks = totalTasksSubmitted
    BY <2>2 DEF MainOrder, CountersMatch, accepted
  <2>3. ASSUME Finished PROVE totalColumns = Columns * Cardinality(processed)
    <3>1. Counting = {}
      BY <2>3 DEF Finished, Counting
    <3>2. Cardinality(Counting) = 0
      BY <3>1, FS_EmptySet
    <3> QED BY <3>2, ColumnsAssumption DEF TotalsLag
  <2> QED BY <2>1, <2>2, <2>3 DEF FinalTotals
<1> QED BY <1>1, <1>2, <1>3, InductiveInvariant, PTL DEF SafetySpec
=============================================================================
