--------------------- MODULE ProcessingDispatcherProofs ---------------------
(***************************************************************************)
(* The safety properties of ProcessingDispatcher, proved for any number of *)
(* workers, any capacity and any eventfd maximum, with every fault.        *)
(***************************************************************************)
EXTENDS ProcessingDispatcher, TLAPS

\* What stop() and the destructor have done by the time they have come this far.
LifetimesMatch ==
    /\ joined => closed /\ Pool!Quiet
    /\ notifier # "open" => joined
    /\ \A w \in unnotified : running[w] # NoTask

\* The inductive invariant.
DispatcherInv == DispatcherTypeOK /\ LifetimesMatch /\ NoStrandedResult
-----------------------------------------------------------------------------
\* An empty completed_ and a zero eventfd have their types.
LEMMA NoResults == <<>> \in Seq(ProcessingResults) /\ 0 \in 0..EventFdMax
<1>1. <<>> \in Seq(ProcessingResults)
  OBVIOUS
<1>2. 0 \in 0..EventFdMax
  BY DispatcherAssumption
<1> QED
  BY <1>1, <1>2

\* Every step keeps the variables in their types.
LEMMA DispatcherTypePreserved ==
    DispatcherTypeOK /\ LifetimesMatch /\ [DispatcherNext]_dispatcherVars
        => DispatcherTypeOK'
<1> SUFFICES ASSUME DispatcherTypeOK, LifetimesMatch, [DispatcherNext]_dispatcherVars
             PROVE  DispatcherTypeOK'
  OBVIOUS
<1> USE DispatcherAssumption DEF DispatcherTypeOK, poolVars
<1>1. ASSUME NEW task \in ProcessingTasks, TrySubmit(task) PROVE DispatcherTypeOK'
  BY <1>1 DEF TrySubmit, TrySubmitStatus, Pool!Submit, Pool!SubmitStatus
<1>2. CASE ConsumeNotifications
  BY <1>2 DEF ConsumeNotifications
<1>3. CASE TakeCompleted
  BY <1>3, NoResults DEF TakeCompleted
<1>4. CASE StopPool
  BY <1>4 DEF StopPool, Pool!Close
<1>5. CASE JoinPool
  BY <1>5 DEF JoinPool, Pool!Join
<1>6. CASE Destroy
  BY <1>6, NoResults DEF Destroy
<1>7. ASSUME NEW w \in Workers, StartTask(w) PROVE DispatcherTypeOK'
  BY <1>7 DEF StartTask, Pool!Start
<1>8. ASSUME NEW w \in Workers, TaskThrows(w) PROVE DispatcherTypeOK'
  BY <1>8 DEF TaskThrows, Pool!Finish
<1>9. ASSUME NEW w \in Workers, Publish(w) PROVE DispatcherTypeOK'
  BY <1>9 DEF Publish, ProcessingResults
<1>10. ASSUME NEW w \in Workers, Notify(w) PROVE DispatcherTypeOK'
  BY <1>10 DEF Notify, Pool!Finish
<1>11. ASSUME NEW w \in Workers, NotifyFails(w) PROVE DispatcherTypeOK'
  BY <1>11 DEF NotifyFails, Pool!Finish
<1>12. CASE UNCHANGED dispatcherVars
  BY <1>12 DEF dispatcherVars
<1> QED
  BY <1>1, <1>2, <1>3, <1>4, <1>5, <1>6, <1>7, <1>8, <1>9, <1>10, <1>11, <1>12
  DEF DispatcherNext, WorkerStep

\* stop() and the destructor keep their order: the workers are gone before the
\* notifier is.
LEMMA LifetimesPreserved ==
    DispatcherTypeOK /\ LifetimesMatch /\ [DispatcherNext]_dispatcherVars
        => LifetimesMatch'
<1> SUFFICES ASSUME DispatcherTypeOK, LifetimesMatch, [DispatcherNext]_dispatcherVars
             PROVE  LifetimesMatch'
  OBVIOUS
<1> USE DispatcherAssumption DEF DispatcherTypeOK, LifetimesMatch, Pool!Quiet, poolVars
<1>1. ASSUME NEW task \in ProcessingTasks, TrySubmit(task) PROVE LifetimesMatch'
  BY <1>1 DEF TrySubmit, TrySubmitStatus, Pool!Submit, Pool!SubmitStatus
<1>2. CASE ConsumeNotifications
  BY <1>2 DEF ConsumeNotifications
<1>3. CASE TakeCompleted
  BY <1>3 DEF TakeCompleted
<1>4. CASE StopPool
  BY <1>4 DEF StopPool, Pool!Close
<1>5. CASE JoinPool
  BY <1>5 DEF JoinPool, Pool!Join
<1>6. CASE Destroy
  BY <1>6 DEF Destroy
<1>7. ASSUME NEW w \in Workers, StartTask(w) PROVE LifetimesMatch'
  BY <1>7 DEF StartTask, Pool!Start
<1>8. ASSUME NEW w \in Workers, TaskThrows(w) PROVE LifetimesMatch'
  BY <1>8 DEF TaskThrows, Pool!Finish
<1>9. ASSUME NEW w \in Workers, Publish(w) PROVE LifetimesMatch'
  BY <1>9 DEF Publish
<1>10. ASSUME NEW w \in Workers, Notify(w) PROVE LifetimesMatch'
  BY <1>10 DEF Notify, Pool!Finish
<1>11. ASSUME NEW w \in Workers, NotifyFails(w) PROVE LifetimesMatch'
  BY <1>11 DEF NotifyFails, Pool!Finish
<1>12. CASE UNCHANGED dispatcherVars
  BY <1>12 DEF dispatcherVars
<1> QED
  BY <1>1, <1>2, <1>3, <1>4, <1>5, <1>6, <1>7, <1>8, <1>9, <1>10, <1>11, <1>12
  DEF DispatcherNext, WorkerStep

\* No step strands a result.
LEMMA ResultsPreserved ==
    DispatcherTypeOK /\ NoStrandedResult /\ [DispatcherNext]_dispatcherVars
        => NoStrandedResult'
<1> SUFFICES ASSUME DispatcherTypeOK, NoStrandedResult, [DispatcherNext]_dispatcherVars
             PROVE  NoStrandedResult'
  OBVIOUS
<1> USE DEF NoStrandedResult
<1>1. ASSUME NEW task \in ProcessingTasks, TrySubmit(task) PROVE NoStrandedResult'
  BY <1>1 DEF TrySubmit
<1>2. CASE ConsumeNotifications
  BY <1>2 DEF ConsumeNotifications
<1>3. CASE TakeCompleted
  BY <1>3 DEF TakeCompleted
<1>4. CASE StopPool
  BY <1>4 DEF StopPool
<1>5. CASE JoinPool
  BY <1>5 DEF JoinPool
<1>6. CASE Destroy
  BY <1>6 DEF Destroy
<1>7. ASSUME NEW w \in Workers, StartTask(w) PROVE NoStrandedResult'
  BY <1>7 DEF StartTask
<1>8. ASSUME NEW w \in Workers, TaskThrows(w) PROVE NoStrandedResult'
  BY <1>8 DEF TaskThrows
<1>9. ASSUME NEW w \in Workers, Publish(w) PROVE NoStrandedResult'
  BY <1>9 DEF Publish
<1>10. ASSUME NEW w \in Workers, Notify(w) PROVE NoStrandedResult'
  <2>1. counter' > 0
    BY <1>10, DispatcherAssumption DEF Notify, DispatcherTypeOK
  <2> QED
    BY <2>1
<1>11. ASSUME NEW w \in Workers, NotifyFails(w) PROVE NoStrandedResult'
  BY <1>11 DEF NotifyFails
<1>12. CASE UNCHANGED dispatcherVars
  BY <1>12 DEF dispatcherVars
<1> QED
  BY <1>1, <1>2, <1>3, <1>4, <1>5, <1>6, <1>7, <1>8, <1>9, <1>10, <1>11, <1>12
  DEF DispatcherNext, WorkerStep
-----------------------------------------------------------------------------
\* The constructor establishes the invariant ...
LEMMA DispatcherStarts == DispatcherInit => DispatcherInv
<1> SUFFICES ASSUME DispatcherInit PROVE DispatcherInv
  OBVIOUS
<1>a. queue \in Seq(ProcessingTasks) /\ Len(queue) = 0
  BY DEF DispatcherInit
<1>b. Len(queue) <= Capacity
  BY <1>a, DispatcherAssumption
<1>c. notifier \in {"open", "invalid"}
  BY DEF DispatcherInit
<1>1. DispatcherTypeOK
  BY <1>a, <1>b, <1>c, NoResults DEF DispatcherInit, DispatcherTypeOK
<1>2. LifetimesMatch
  BY <1>c DEF DispatcherInit, LifetimesMatch, Pool!Quiet
<1>3. NoStrandedResult
  BY DEF DispatcherInit, NoStrandedResult
<1> QED
  BY <1>1, <1>2, <1>3 DEF DispatcherInv

\* ... and every operation keeps it.
LEMMA DispatcherKeeps ==
    DispatcherInv /\ [DispatcherNext]_dispatcherVars => DispatcherInv'
BY DispatcherTypePreserved, LifetimesPreserved, ResultsPreserved DEF DispatcherInv

\* DispatcherInv holds in every reachable state of the dispatcher.
THEOREM DispatcherInvariant == DispatcherSpec => []DispatcherInv
BY DispatcherStarts, DispatcherKeeps, PTL DEF DispatcherSpec

\* Type correctness of the dispatcher, with the bounds on the task queue and the
\* eventfd.
THEOREM DispatcherTypeCorrect == DispatcherSpec => []DispatcherTypeOK
<1>1. DispatcherInv => DispatcherTypeOK
  BY DEF DispatcherInv
<1> QED
  BY <1>1, DispatcherInvariant, PTL

\* The hand-over between publish() and the I/O thread strands no result.
THEOREM NoResultIsStranded == DispatcherSpec => []NoStrandedResult
<1>1. DispatcherInv => NoStrandedResult
  BY DEF DispatcherInv
<1> QED
  BY <1>1, DispatcherInvariant, PTL

\* No worker runs a task of a dispatcher whose notifier is destroyed.
THEOREM WorkersLeaveFirst == DispatcherSpec => []NotifierOutlivesWorkers
<1>1. DispatcherInv => NotifierOutlivesWorkers
  BY DEF DispatcherInv, LifetimesMatch, Pool!Quiet, NotifierOutlivesWorkers
<1> QED
  BY <1>1, DispatcherInvariant, PTL
=============================================================================
