-------------------------- MODULE ThreadPoolProofs --------------------------
(***************************************************************************)
(* The safety properties of ThreadPool, proved for any number of workers,  *)
(* submitters and stoppers and any capacity.                               *)
(***************************************************************************)
EXTENDS ThreadPool, FiniteSetTheorems, TLAPS

\* Tasks run on live workers only, and only a worker inside waitPop sleeps.
ThreadsMatch ==
    /\ exited \subseteq spawned
    /\ \A w \in Workers : running[w] # NoTask => w \in spawned \ exited
    /\ \A w \in waiters : InWaitPop(w)

\* How far the constructor and the calls of stop() have come, and what they have
\* done by then.
StagesMatch ==
    /\ creation = "ready" => spawned = Workers
    /\ creation # "ready" => queue = <<>> /\ \A s \in Stoppers : stopper[s] = "idle"
    /\ creation \in {"notify", "join", "threw"} => closed
    /\ creation = "threw" => spawned \subseteq exited
    /\ (\E s \in Stoppers : stopper[s] = "returned") => spawned \subseteq exited

\* The inductive invariant.
PoolInv ==
    /\ TypeOK /\ ThreadsMatch /\ StagesMatch
    /\ NoLostWakeup /\ NoSleeperAfterClose /\ WorkersOutliveTasks
-----------------------------------------------------------------------------
\* Every step keeps the variables in their types.
LEMMA TypePreserved == TypeOK /\ [Next]_vars => TypeOK'
<1> SUFFICES ASSUME TypeOK, [Next]_vars PROVE TypeOK'
  OBVIOUS
<1> USE PoolAssumption DEF TypeOK
<1>1. ASSUME NEW w \in Workers, Spawn(w) PROVE TypeOK'
  BY <1>1 DEF Spawn, queueVars, Creations
<1>2. CASE SpawnFails
  BY <1>2 DEF SpawnFails, queueVars, Creations
<1>3. CASE CreatorCloses
  BY <1>3 DEF CreatorCloses, CloseQueue, Creations
<1>4. CASE CreatorNotifies
  BY <1>4 DEF CreatorNotifies, NotifyAll, Creations
<1>5. CASE CreatorJoins
  BY <1>5 DEF CreatorJoins, queueVars, Creations
<1>6. ASSUME NEW s \in Submitters, NEW t \in Tasks, TrySubmit(s, t) PROVE TypeOK'
  BY <1>6 DEF TrySubmit, TryPush, PushStatus, poolVars
<1>7. ASSUME NEW s \in Submitters, SubmitNotifies(s) PROVE TypeOK'
  BY <1>7 DEF SubmitNotifies, NotifyOne, poolVars
<1>8. ASSUME NEW w \in Workers, WorkerBlocks(w) PROVE TypeOK'
  BY <1>8 DEF WorkerBlocks, WaitPopBlocks, poolVars
<1>9. ASSUME NEW w \in Workers, WorkerWakes(w) PROVE TypeOK'
  BY <1>9 DEF WorkerWakes, SpuriousWakeup, poolVars
<1>10. ASSUME NEW w \in Workers, WorkerTakes(w) PROVE TypeOK'
  BY <1>10 DEF WorkerTakes, WaitPopValue
<1>11. ASSUME NEW w \in Workers, WorkerFinishes(w) PROVE TypeOK'
  BY <1>11 DEF WorkerFinishes, queueVars
<1>12. ASSUME NEW w \in Workers, WorkerExits(w) PROVE TypeOK'
  BY <1>12 DEF WorkerExits, WaitPopEnds, queueVars
<1>13. ASSUME NEW s \in Stoppers, StopCalled(s) PROVE TypeOK'
  BY <1>13 DEF StopCalled, queueVars, StopStages
<1>14. ASSUME NEW s \in Stoppers, StopLocks(s) PROVE TypeOK'
  BY <1>14 DEF StopLocks, queueVars, StopStages
<1>15. ASSUME NEW s \in Stoppers, StopCloses(s) PROVE TypeOK'
  BY <1>15 DEF StopCloses, CloseQueue, StopStages
<1>16. ASSUME NEW s \in Stoppers, StopNotifies(s) PROVE TypeOK'
  BY <1>16 DEF StopNotifies, NotifyAll, StopStages
<1>17. ASSUME NEW s \in Stoppers, StopJoins(s) PROVE TypeOK'
  BY <1>17 DEF StopJoins, queueVars, StopStages
<1>18. CASE UNCHANGED vars
  BY <1>18 DEF vars, queueVars, poolVars
<1> QED
  BY <1>1, <1>2, <1>3, <1>4, <1>5, <1>6, <1>7, <1>8, <1>9, <1>10, <1>11, <1>12,
     <1>13, <1>14, <1>15, <1>16, <1>17, <1>18
  DEF Next, CreatorStep, WorkerStep, StopStep, Terminated

\* Sleepers and tasks stay on live workers.
LEMMA ThreadsPreserved == TypeOK /\ ThreadsMatch /\ [Next]_vars => ThreadsMatch'
<1> SUFFICES ASSUME TypeOK, ThreadsMatch, [Next]_vars PROVE ThreadsMatch'
  OBVIOUS
<1> USE DEF TypeOK, ThreadsMatch, InWaitPop
<1>1. ASSUME NEW w \in Workers, Spawn(w) PROVE ThreadsMatch'
  BY <1>1 DEF Spawn, queueVars
<1>2. CASE SpawnFails
  BY <1>2 DEF SpawnFails, queueVars
<1>3. CASE CreatorCloses
  BY <1>3 DEF CreatorCloses, CloseQueue
<1>4. CASE CreatorNotifies
  BY <1>4 DEF CreatorNotifies, NotifyAll
<1>5. CASE CreatorJoins
  BY <1>5 DEF CreatorJoins, queueVars
<1>6. ASSUME NEW s \in Submitters, NEW t \in Tasks, TrySubmit(s, t) PROVE ThreadsMatch'
  BY <1>6 DEF TrySubmit, TryPush, PushStatus, poolVars
<1>7. ASSUME NEW s \in Submitters, SubmitNotifies(s) PROVE ThreadsMatch'
  BY <1>7 DEF SubmitNotifies, NotifyOne, poolVars
<1>8. ASSUME NEW w \in Workers, WorkerBlocks(w) PROVE ThreadsMatch'
  BY <1>8 DEF WorkerBlocks, WaitPopBlocks, poolVars
<1>9. ASSUME NEW w \in Workers, WorkerWakes(w) PROVE ThreadsMatch'
  BY <1>9 DEF WorkerWakes, SpuriousWakeup, poolVars
<1>10. ASSUME NEW w \in Workers, WorkerTakes(w) PROVE ThreadsMatch'
  BY <1>10 DEF WorkerTakes, WaitPopValue
<1>11. ASSUME NEW w \in Workers, WorkerFinishes(w) PROVE ThreadsMatch'
  BY <1>11 DEF WorkerFinishes, queueVars
<1>12. ASSUME NEW w \in Workers, WorkerExits(w) PROVE ThreadsMatch'
  BY <1>12 DEF WorkerExits, WaitPopEnds, queueVars
<1>13. ASSUME NEW s \in Stoppers, StopCalled(s) PROVE ThreadsMatch'
  BY <1>13 DEF StopCalled, queueVars
<1>14. ASSUME NEW s \in Stoppers, StopLocks(s) PROVE ThreadsMatch'
  BY <1>14 DEF StopLocks, queueVars
<1>15. ASSUME NEW s \in Stoppers, StopCloses(s) PROVE ThreadsMatch'
  BY <1>15 DEF StopCloses, CloseQueue
<1>16. ASSUME NEW s \in Stoppers, StopNotifies(s) PROVE ThreadsMatch'
  BY <1>16 DEF StopNotifies, NotifyAll
<1>17. ASSUME NEW s \in Stoppers, StopJoins(s) PROVE ThreadsMatch'
  BY <1>17 DEF StopJoins, queueVars
<1>18. CASE UNCHANGED vars
  BY <1>18 DEF vars, queueVars, poolVars
<1> QED
  BY <1>1, <1>2, <1>3, <1>4, <1>5, <1>6, <1>7, <1>8, <1>9, <1>10, <1>11, <1>12,
     <1>13, <1>14, <1>15, <1>16, <1>17, <1>18
  DEF Next, CreatorStep, WorkerStep, StopStep, Terminated

\* The constructor and stop() keep to their stages.
LEMMA StagesPreserved == TypeOK /\ ThreadsMatch /\ StagesMatch /\ WorkersOutliveTasks /\ [Next]_vars => StagesMatch'
<1> SUFFICES ASSUME TypeOK, ThreadsMatch, StagesMatch, WorkersOutliveTasks, [Next]_vars PROVE StagesMatch'
  OBVIOUS
<1> USE PoolAssumption DEF TypeOK, ThreadsMatch, StagesMatch, InWaitPop, WorkersOutliveTasks
<1>1. ASSUME NEW w \in Workers, Spawn(w) PROVE StagesMatch'
  BY <1>1 DEF Spawn, queueVars
<1>2. CASE SpawnFails
  BY <1>2 DEF SpawnFails, queueVars
<1>3. CASE CreatorCloses
  BY <1>3 DEF CreatorCloses, CloseQueue
<1>4. CASE CreatorNotifies
  BY <1>4 DEF CreatorNotifies, NotifyAll
<1>5. CASE CreatorJoins
  BY <1>5 DEF CreatorJoins, queueVars
<1>6. ASSUME NEW s \in Submitters, NEW t \in Tasks, TrySubmit(s, t) PROVE StagesMatch'
  BY <1>6 DEF TrySubmit, TryPush, PushStatus, poolVars
<1>7. ASSUME NEW s \in Submitters, SubmitNotifies(s) PROVE StagesMatch'
  BY <1>7 DEF SubmitNotifies, NotifyOne, poolVars
<1>8. ASSUME NEW w \in Workers, WorkerBlocks(w) PROVE StagesMatch'
  BY <1>8 DEF WorkerBlocks, WaitPopBlocks, poolVars
<1>9. ASSUME NEW w \in Workers, WorkerWakes(w) PROVE StagesMatch'
  BY <1>9 DEF WorkerWakes, SpuriousWakeup, poolVars
<1>10. ASSUME NEW w \in Workers, WorkerTakes(w) PROVE StagesMatch'
  BY <1>10 DEF WorkerTakes, WaitPopValue
<1>11. ASSUME NEW w \in Workers, WorkerFinishes(w) PROVE StagesMatch'
  BY <1>11 DEF WorkerFinishes, queueVars
<1>12. ASSUME NEW w \in Workers, WorkerExits(w) PROVE StagesMatch'
  BY <1>12 DEF WorkerExits, WaitPopEnds, queueVars
<1>13. ASSUME NEW s \in Stoppers, StopCalled(s) PROVE StagesMatch'
  BY <1>13 DEF StopCalled, queueVars
<1>14. ASSUME NEW s \in Stoppers, StopLocks(s) PROVE StagesMatch'
  BY <1>14 DEF StopLocks, queueVars
<1>15. ASSUME NEW s \in Stoppers, StopCloses(s) PROVE StagesMatch'
  BY <1>15 DEF StopCloses, CloseQueue
<1>16. ASSUME NEW s \in Stoppers, StopNotifies(s) PROVE StagesMatch'
  BY <1>16 DEF StopNotifies, NotifyAll
<1>17. ASSUME NEW s \in Stoppers, StopJoins(s) PROVE StagesMatch'
  BY <1>17 DEF StopJoins, queueVars
<1>18. CASE UNCHANGED vars
  BY <1>18 DEF vars, queueVars, poolVars
<1> QED
  BY <1>1, <1>2, <1>3, <1>4, <1>5, <1>6, <1>7, <1>8, <1>9, <1>10, <1>11, <1>12,
     <1>13, <1>14, <1>15, <1>16, <1>17, <1>18
  DEF Next, CreatorStep, WorkerStep, StopStep, Terminated

\* No step lets a worker sleep in a closed queue with no notify_all to come.
LEMMA CloseWakesAll == NoSleeperAfterClose /\ [Next]_vars => NoSleeperAfterClose'
<1> SUFFICES ASSUME NoSleeperAfterClose, [Next]_vars PROVE NoSleeperAfterClose'
  OBVIOUS
<1> USE DEF NoSleeperAfterClose
<1>1. ASSUME NEW w \in Workers, Spawn(w) PROVE NoSleeperAfterClose'
  BY <1>1 DEF Spawn, queueVars
<1>2. CASE SpawnFails
  BY <1>2 DEF SpawnFails, queueVars
<1>3. CASE CreatorCloses
  BY <1>3 DEF CreatorCloses, CloseQueue
<1>4. CASE CreatorNotifies
  BY <1>4 DEF CreatorNotifies, NotifyAll
<1>5. CASE CreatorJoins
  BY <1>5 DEF CreatorJoins, queueVars
<1>6. ASSUME NEW s \in Submitters, NEW t \in Tasks, TrySubmit(s, t) PROVE NoSleeperAfterClose'
  BY <1>6 DEF TrySubmit, TryPush, PushStatus, poolVars
<1>7. ASSUME NEW s \in Submitters, SubmitNotifies(s) PROVE NoSleeperAfterClose'
  BY <1>7 DEF SubmitNotifies, NotifyOne, poolVars
<1>8. ASSUME NEW w \in Workers, WorkerBlocks(w) PROVE NoSleeperAfterClose'
  BY <1>8 DEF WorkerBlocks, WaitPopBlocks, poolVars
<1>9. ASSUME NEW w \in Workers, WorkerWakes(w) PROVE NoSleeperAfterClose'
  BY <1>9 DEF WorkerWakes, SpuriousWakeup, poolVars
<1>10. ASSUME NEW w \in Workers, WorkerTakes(w) PROVE NoSleeperAfterClose'
  BY <1>10 DEF WorkerTakes, WaitPopValue
<1>11. ASSUME NEW w \in Workers, WorkerFinishes(w) PROVE NoSleeperAfterClose'
  BY <1>11 DEF WorkerFinishes, queueVars
<1>12. ASSUME NEW w \in Workers, WorkerExits(w) PROVE NoSleeperAfterClose'
  BY <1>12 DEF WorkerExits, WaitPopEnds, queueVars
<1>13. ASSUME NEW s \in Stoppers, StopCalled(s) PROVE NoSleeperAfterClose'
  BY <1>13 DEF StopCalled, queueVars
<1>14. ASSUME NEW s \in Stoppers, StopLocks(s) PROVE NoSleeperAfterClose'
  BY <1>14 DEF StopLocks, queueVars
<1>15. ASSUME NEW s \in Stoppers, StopCloses(s) PROVE NoSleeperAfterClose'
  BY <1>15 DEF StopCloses, CloseQueue
<1>16. ASSUME NEW s \in Stoppers, StopNotifies(s) PROVE NoSleeperAfterClose'
  BY <1>16 DEF StopNotifies, NotifyAll
<1>17. ASSUME NEW s \in Stoppers, StopJoins(s) PROVE NoSleeperAfterClose'
  BY <1>17 DEF StopJoins, queueVars
<1>18. CASE UNCHANGED vars
  BY <1>18 DEF vars, queueVars, poolVars
<1> QED
  BY <1>1, <1>2, <1>3, <1>4, <1>5, <1>6, <1>7, <1>8, <1>9, <1>10, <1>11, <1>12,
     <1>13, <1>14, <1>15, <1>16, <1>17, <1>18
  DEF Next, CreatorStep, WorkerStep, StopStep, Terminated

\* Once a worker has left, the queue is closed and stays empty.
LEMMA ExitsAreFinal == TypeOK /\ WorkersOutliveTasks /\ [Next]_vars => WorkersOutliveTasks'
<1> SUFFICES ASSUME TypeOK, WorkersOutliveTasks, [Next]_vars PROVE WorkersOutliveTasks'
  OBVIOUS
<1> USE DEF TypeOK, WorkersOutliveTasks
<1>1. ASSUME NEW w \in Workers, Spawn(w) PROVE WorkersOutliveTasks'
  BY <1>1 DEF Spawn, queueVars
<1>2. CASE SpawnFails
  BY <1>2 DEF SpawnFails, queueVars
<1>3. CASE CreatorCloses
  BY <1>3 DEF CreatorCloses, CloseQueue
<1>4. CASE CreatorNotifies
  BY <1>4 DEF CreatorNotifies, NotifyAll
<1>5. CASE CreatorJoins
  BY <1>5 DEF CreatorJoins, queueVars
<1>6. ASSUME NEW s \in Submitters, NEW t \in Tasks, TrySubmit(s, t) PROVE WorkersOutliveTasks'
  BY <1>6 DEF TrySubmit, TryPush, PushStatus, poolVars
<1>7. ASSUME NEW s \in Submitters, SubmitNotifies(s) PROVE WorkersOutliveTasks'
  BY <1>7 DEF SubmitNotifies, NotifyOne, poolVars
<1>8. ASSUME NEW w \in Workers, WorkerBlocks(w) PROVE WorkersOutliveTasks'
  BY <1>8 DEF WorkerBlocks, WaitPopBlocks, poolVars
<1>9. ASSUME NEW w \in Workers, WorkerWakes(w) PROVE WorkersOutliveTasks'
  BY <1>9 DEF WorkerWakes, SpuriousWakeup, poolVars
<1>10. ASSUME NEW w \in Workers, WorkerTakes(w) PROVE WorkersOutliveTasks'
  BY <1>10 DEF WorkerTakes, WaitPopValue
<1>11. ASSUME NEW w \in Workers, WorkerFinishes(w) PROVE WorkersOutliveTasks'
  BY <1>11 DEF WorkerFinishes, queueVars
<1>12. ASSUME NEW w \in Workers, WorkerExits(w) PROVE WorkersOutliveTasks'
  BY <1>12 DEF WorkerExits, WaitPopEnds, queueVars
<1>13. ASSUME NEW s \in Stoppers, StopCalled(s) PROVE WorkersOutliveTasks'
  BY <1>13 DEF StopCalled, queueVars
<1>14. ASSUME NEW s \in Stoppers, StopLocks(s) PROVE WorkersOutliveTasks'
  BY <1>14 DEF StopLocks, queueVars
<1>15. ASSUME NEW s \in Stoppers, StopCloses(s) PROVE WorkersOutliveTasks'
  BY <1>15 DEF StopCloses, CloseQueue
<1>16. ASSUME NEW s \in Stoppers, StopNotifies(s) PROVE WorkersOutliveTasks'
  BY <1>16 DEF StopNotifies, NotifyAll
<1>17. ASSUME NEW s \in Stoppers, StopJoins(s) PROVE WorkersOutliveTasks'
  BY <1>17 DEF StopJoins, queueVars
<1>18. CASE UNCHANGED vars
  BY <1>18 DEF vars, queueVars, poolVars
<1> QED
  BY <1>1, <1>2, <1>3, <1>4, <1>5, <1>6, <1>7, <1>8, <1>9, <1>10, <1>11, <1>12,
     <1>13, <1>14, <1>15, <1>16, <1>17, <1>18
  DEF Next, CreatorStep, WorkerStep, StopStep, Terminated
-----------------------------------------------------------------------------
\* The two sets NoLostWakeup counts are finite.
LEMMA CountsAreNumbers ==
    ASSUME TypeOK
    PROVE  /\ IsFiniteSet(Awake) /\ Cardinality(Awake) \in Nat
           /\ IsFiniteSet(notifyOneDue) /\ Cardinality(notifyOneDue) \in Nat
<1>1. Awake \subseteq Workers /\ notifyOneDue \subseteq Submitters
  BY DEF TypeOK, Awake
<1>2. IsFiniteSet(Awake) /\ IsFiniteSet(notifyOneDue)
  BY <1>1, PoolAssumption, FS_Subset
<1> QED
  BY <1>2, FS_CardinalityType

\* The same of the state after a step.
LEMMA CountsStayNumbers ==
    ASSUME TypeOK'
    PROVE  /\ IsFiniteSet(Awake') /\ Cardinality(Awake') \in Nat
           /\ Cardinality(notifyOneDue') \in Nat
<1>1. Awake' \subseteq Workers /\ notifyOneDue' \subseteq Submitters
  BY DEF TypeOK, Awake
<1>2. IsFiniteSet(Awake') /\ IsFiniteSet(notifyOneDue')
  BY <1>1, PoolAssumption, FS_Subset
<1> QED
  BY <1>2, FS_CardinalityType

\* A step that neither pushes nor notifies nor takes an awake worker away keeps
\* the count.
LEMMA CountKept ==
    ASSUME TypeOK, TypeOK', NoLostWakeup,
           queue' = queue, notifyOneDue' = notifyOneDue,
           waiters' \subseteq waiters, Awake \subseteq Awake'
    PROVE  NoLostWakeup'
<1>1. IsFiniteSet(Awake') /\ Cardinality(Awake') \in Nat
  BY CountsStayNumbers
<1>2. Cardinality(Awake) <= Cardinality(Awake')
  BY <1>1, FS_Subset
<1> QED
  BY <1>1, <1>2, CountsAreNumbers DEF NoLostWakeup, TypeOK

\* Every step keeps a notification or an awake worker for each queued task.
LEMMA WakeupPreserved ==
    TypeOK /\ ThreadsMatch /\ NoLostWakeup /\ [Next]_vars => NoLostWakeup'
<1> SUFFICES ASSUME TypeOK, ThreadsMatch, NoLostWakeup, [Next]_vars
             PROVE  NoLostWakeup'
  OBVIOUS
<1>a. TypeOK'
  BY TypePreserved
<1>b. /\ IsFiniteSet(Awake) /\ Cardinality(Awake) \in Nat
      /\ IsFiniteSet(notifyOneDue) /\ Cardinality(notifyOneDue) \in Nat
  BY CountsAreNumbers
<1>1. ASSUME NEW w \in Workers, Spawn(w) PROVE NoLostWakeup'
  BY <1>1, <1>a, CountKept DEF Spawn, queueVars, Awake
<1>2. CASE SpawnFails
  BY <1>2, <1>a, CountKept DEF SpawnFails, queueVars, Awake
<1>3. CASE CreatorCloses
  BY <1>3, <1>a, CountKept DEF CreatorCloses, CloseQueue, Awake
<1>4. CASE CreatorNotifies
  BY <1>4 DEF CreatorNotifies, NotifyAll, NoLostWakeup
<1>5. CASE CreatorJoins
  BY <1>5, <1>a, CountKept DEF CreatorJoins, queueVars, Awake
<1>6. ASSUME NEW s \in Submitters, NEW t \in Tasks, TrySubmit(s, t)
      PROVE  NoLostWakeup'
  <2>1. Awake' = Awake /\ waiters' = waiters
    BY <1>6 DEF TrySubmit, TryPush, poolVars, Awake
  <2>2. Cardinality(notifyOneDue') = Cardinality(notifyOneDue) + 1
    BY <1>6, <1>b, FS_AddElement DEF TrySubmit, TryPush
  <2>3. Len(queue') = Len(queue) + 1 /\ Len(queue) \in Nat
    BY <1>6 DEF TrySubmit, TryPush, TypeOK
  <2> QED
    BY <2>1, <2>2, <2>3, <1>b DEF NoLostWakeup
<1>7. ASSUME NEW s \in Submitters, SubmitNotifies(s) PROVE NoLostWakeup'
  <2>1. Cardinality(notifyOneDue') = Cardinality(notifyOneDue) - 1
    BY <1>7, <1>b, FS_RemoveElement DEF SubmitNotifies, NotifyOne
  <2>2. CASE waiters' = {}
    BY <2>2 DEF NoLostWakeup
  <2>3. ASSUME NEW w \in waiters, waiters' = waiters \ {w} PROVE NoLostWakeup'
    <3>1. w \notin Awake /\ Awake' = Awake \cup {w}
      BY <2>3, <1>7 DEF SubmitNotifies, NotifyOne, poolVars, Awake, ThreadsMatch, InWaitPop
    <3>2. Cardinality(Awake') = Cardinality(Awake) + 1
      BY <3>1, <1>b, FS_AddElement
    <3>3. queue' = queue /\ Len(queue) \in Nat
      BY <1>7 DEF SubmitNotifies, NotifyOne, TypeOK
    <3> QED
      BY <2>1, <2>3, <3>2, <3>3, <1>b DEF NoLostWakeup
  <2> QED
    BY <1>7, <2>2, <2>3 DEF SubmitNotifies, NotifyOne
<1>8. ASSUME NEW w \in Workers, WorkerBlocks(w) PROVE NoLostWakeup'
  <2>1. Len(queue') = 0
    BY <1>8 DEF WorkerBlocks, WaitPopBlocks
  <2>2. Cardinality(Awake') \in Nat /\ Cardinality(notifyOneDue') \in Nat
    BY <1>a, CountsStayNumbers
  <2> QED
    BY <2>1, <2>2 DEF NoLostWakeup
<1>9. ASSUME NEW w \in Workers, WorkerWakes(w) PROVE NoLostWakeup'
  BY <1>9, <1>a, CountKept DEF WorkerWakes, SpuriousWakeup, poolVars, Awake
<1>10. ASSUME NEW w \in Workers, WorkerTakes(w) PROVE NoLostWakeup'
  <2>1. w \in Awake /\ Awake' = Awake \ {w}
    BY <1>10, PoolAssumption DEF WorkerTakes, WaitPopValue, InWaitPop, Awake, TypeOK
  <2>2. Cardinality(Awake') = Cardinality(Awake) - 1
    BY <2>1, <1>b, FS_RemoveElement
  <2>3. Len(queue') = Len(queue) - 1 /\ Len(queue) \in Nat
    BY <1>10 DEF WorkerTakes, WaitPopValue, TypeOK
  <2>4. waiters' = waiters /\ notifyOneDue' = notifyOneDue
    BY <1>10 DEF WorkerTakes, WaitPopValue
  <2> QED
    BY <2>2, <2>3, <2>4, <1>b DEF NoLostWakeup
<1>11. ASSUME NEW w \in Workers, WorkerFinishes(w) PROVE NoLostWakeup'
  BY <1>11, <1>a, CountKept DEF WorkerFinishes, queueVars, Awake, TypeOK
<1>12. ASSUME NEW w \in Workers, WorkerExits(w) PROVE NoLostWakeup'
  <2>1. Len(queue') = 0
    BY <1>12 DEF WorkerExits, WaitPopEnds, queueVars
  <2>2. Cardinality(Awake') \in Nat /\ Cardinality(notifyOneDue') \in Nat
    BY <1>a, CountsStayNumbers
  <2> QED
    BY <2>1, <2>2 DEF NoLostWakeup
<1>13. ASSUME NEW s \in Stoppers, StopCalled(s) PROVE NoLostWakeup'
  BY <1>13, <1>a, CountKept DEF StopCalled, queueVars, Awake
<1>14. ASSUME NEW s \in Stoppers, StopLocks(s) PROVE NoLostWakeup'
  BY <1>14, <1>a, CountKept DEF StopLocks, queueVars, Awake
<1>15. ASSUME NEW s \in Stoppers, StopCloses(s) PROVE NoLostWakeup'
  BY <1>15, <1>a, CountKept DEF StopCloses, CloseQueue, Awake
<1>16. ASSUME NEW s \in Stoppers, StopNotifies(s) PROVE NoLostWakeup'
  BY <1>16 DEF StopNotifies, NotifyAll, NoLostWakeup
<1>17. ASSUME NEW s \in Stoppers, StopJoins(s) PROVE NoLostWakeup'
  BY <1>17, <1>a, CountKept DEF StopJoins, queueVars, Awake
<1>18. CASE UNCHANGED vars
  BY <1>18, <1>a, CountKept DEF vars, queueVars, poolVars, Awake
<1> QED
  BY <1>1, <1>2, <1>3, <1>4, <1>5, <1>6, <1>7, <1>8, <1>9, <1>10, <1>11, <1>12,
     <1>13, <1>14, <1>15, <1>16, <1>17, <1>18
  DEF Next, CreatorStep, WorkerStep, StopStep, Terminated
-----------------------------------------------------------------------------
\* PoolInv holds in every reachable state of the pool.
THEOREM PoolInvariant == Spec => []PoolInv
<1>1. Init => PoolInv
  <2> SUFFICES ASSUME Init PROVE PoolInv
    OBVIOUS
  <2>a. queue \in Seq(Tasks) /\ Len(queue) = 0
    BY DEF Init, QueueInit
  <2>b. Len(queue) <= Capacity
    BY <2>a, PoolAssumption
  <2>1. TypeOK
    BY <2>a, <2>b, PoolAssumption DEF Init, QueueInit, TypeOK, Creations, StopStages
  <2> QED
    BY <2>1 DEF Init, QueueInit, PoolInv, ThreadsMatch, StagesMatch, NoLostWakeup,
                NoSleeperAfterClose, WorkersOutliveTasks
<1>2. PoolInv /\ [Next]_vars => PoolInv'
  BY TypePreserved, ThreadsPreserved, StagesPreserved, WakeupPreserved,
     CloseWakesAll, ExitsAreFinal
  DEF PoolInv
<1> QED
  BY <1>1, <1>2, PTL DEF Spec

\* Type correctness of the pool, with the bound on its queue.
THEOREM PoolTypeCorrect == Spec => []TypeOK
<1>1. PoolInv => TypeOK
  BY DEF PoolInv
<1> QED
  BY <1>1, PoolInvariant, PTL

\* BoundedQueue never loses a wakeup: a task is not left in the queue with a worker
\* asleep and nobody about to wake it.
THEOREM NoWakeupIsLost == Spec => []NoLostWakeup
<1>1. PoolInv => NoLostWakeup
  BY DEF PoolInv
<1> QED
  BY <1>1, PoolInvariant, PTL

\* close() reaches every sleeping worker.
THEOREM CloseIsHeard == Spec => []NoSleeperAfterClose
<1>1. PoolInv => NoSleeperAfterClose
  BY DEF PoolInv
<1> QED
  BY <1>1, PoolInvariant, PTL

\* workerLoop ends only when the queue is closed and empty.
THEOREM WorkersServeToTheEnd == Spec => []WorkersOutliveTasks
<1>1. PoolInv => WorkersOutliveTasks
  BY DEF PoolInv
<1> QED
  BY <1>1, PoolInvariant, PTL

\* In a state the invariant allows, a pool one stop() has left is drained.
LEMMA JoinedIsDrained == PoolInv => StopDrains
<1> SUFFICES ASSUME PoolInv, Joined
             PROVE  /\ closed /\ queue = <<>>
                    /\ \A w \in Workers : running[w] = NoTask
                    /\ spawned \subseteq exited
  BY DEF StopDrains
<1>1. spawned \subseteq exited
  BY DEF PoolInv, StagesMatch, Joined
<1>2. \A w \in Workers : running[w] = NoTask
  BY <1>1 DEF PoolInv, ThreadsMatch
<1>3. closed /\ queue = <<>>
  <2>1. CASE creation = "ready"
    BY <1>1, <2>1, PoolAssumption DEF PoolInv, StagesMatch, WorkersOutliveTasks
  <2>2. CASE creation # "ready"
    BY <2>2 DEF PoolInv, StagesMatch, Joined
  <2> QED
    BY <2>1, <2>2
<1> QED
  BY <1>1, <1>2, <1>3

\* When any stop() has returned, or the constructor has thrown, the pool is drained
\* and its workers are gone.
THEOREM StopReturnsDrained == Spec => []StopDrains
BY JoinedIsDrained, PoolInvariant, PTL
-----------------------------------------------------------------------------
(* The pool implements TaskPool.                                           *)

\* The steps of the mutex, the condition variable and the thread handles are hidden.
LEMMA HiddenStep ==
    ASSUME UNCHANGED <<queue, closed, running>>, Joined' <=> Joined
    PROVE  [Abstract!Next]_(Abstract!poolVars)
<1>1. Joined' = Joined
  BY DEF Joined
<1> QED
  BY <1>1 DEF Abstract!poolVars

\* close() shuts the pool, the first time it is called.
LEMMA CloseStep ==
    ASSUME TypeOK, closed' = TRUE, UNCHANGED <<queue, running>>, Joined' <=> Joined
    PROVE  [Abstract!Next]_(Abstract!poolVars)
<1>1. Joined' = Joined
  BY DEF Joined
<1>2. CASE closed
  BY <1>1, <1>2 DEF Abstract!poolVars, TypeOK
<1>3. CASE ~closed
  BY <1>1, <1>3 DEF Abstract!Next, Abstract!Close
<1> QED
  BY <1>2, <1>3

\* A join that ends makes the pool joined, if it was not.
LEMMA JoinStep ==
    ASSUME PoolInv', Joined', UNCHANGED <<queue, closed, running>>
    PROVE  [Abstract!Next]_(Abstract!poolVars)
<1>1. StopDrains'
  BY JoinedIsDrained, PTL
<1>2. closed /\ queue = <<>> /\ \A w \in Workers : running[w] = NoTask
  BY <1>1 DEF StopDrains
<1>3. CASE Joined
  BY <1>3, HiddenStep
<1>4. CASE ~Joined
  <2>1. Joined' = TRUE
    BY DEF Joined
  <2> QED
    BY <1>2, <1>4, <2>1 DEF Abstract!Next, Abstract!Join, Abstract!Quiet
<1> QED
  BY <1>3, <1>4

\* A step that changes neither the constructor's end nor a call of stop() joins nothing.
LEMMA NothingJoined ==
    ASSUME creation' = "threw" <=> creation = "threw", UNCHANGED stopper
    PROVE  Joined' <=> Joined
BY DEF Joined

\* Nor does a call of stop() before its end.
LEMMA StopGoesOn ==
    ASSUME TypeOK, NEW s \in Stoppers, NEW stage, stage # "returned", stopper[s] # "returned",
           stopper' = [stopper EXCEPT ![s] = stage], UNCHANGED creation
    PROVE  Joined' <=> Joined
BY DEF Joined, TypeOK

\* Mutex, condition variable, notifications, spawning and joining together do nothing that a
\* bounded FIFO queue of tasks would not: a task is accepted only below the capacity and before
\* the close, taken in the order of acceptance, by one worker, and stop() returns only to
\* a pool with nothing queued and nothing running.
THEOREM PoolRefinesTaskPool == Spec => Abstract!Spec
<1>1. Init => Abstract!Init
  <2> SUFFICES ASSUME Init PROVE Abstract!Init
    OBVIOUS
  <2>1. Joined = FALSE
    BY DEF Init, Joined
  <2> QED
    BY <2>1 DEF Init, QueueInit, Abstract!Init
<1>2. PoolInv /\ PoolInv' /\ [Next]_vars => [Abstract!Next]_(Abstract!poolVars)
  <2> SUFFICES ASSUME PoolInv, PoolInv', [Next]_vars PROVE [Abstract!Next]_(Abstract!poolVars)
    OBVIOUS
  <2>0. TypeOK
    BY DEF PoolInv
  <2>1. ASSUME NEW w \in Workers, Spawn(w) PROVE [Abstract!Next]_(Abstract!poolVars)
    BY <2>1, HiddenStep, NothingJoined DEF Spawn, queueVars
  <2>2. CASE SpawnFails
    BY <2>2, HiddenStep, NothingJoined DEF SpawnFails, queueVars
  <2>3. CASE CreatorCloses
    BY <2>0, <2>3, CloseStep, NothingJoined DEF CreatorCloses, CloseQueue
  <2>4. CASE CreatorNotifies
    BY <2>4, HiddenStep, NothingJoined DEF CreatorNotifies, NotifyAll
  <2>5. CASE CreatorJoins
    BY <2>5, JoinStep DEF CreatorJoins, queueVars, Joined
  <2>6. ASSUME NEW s \in Submitters, NEW t \in Tasks, TrySubmit(s, t)
        PROVE  [Abstract!Next]_(Abstract!poolVars)
    <3>1. Joined' = Joined
      BY <2>6 DEF TrySubmit, poolVars, Joined
    <3> QED
      BY <2>6, <3>1 DEF TrySubmit, TryPush, PushStatus, poolVars, Abstract!Next,
         Abstract!Submit, Abstract!SubmitStatus
  <2>7. ASSUME NEW s \in Submitters, SubmitNotifies(s) PROVE [Abstract!Next]_(Abstract!poolVars)
    BY <2>7, HiddenStep, NothingJoined DEF SubmitNotifies, NotifyOne, poolVars
  <2>8. ASSUME NEW w \in Workers, WorkerBlocks(w) \/ WorkerWakes(w) \/ WorkerExits(w)
        PROVE  [Abstract!Next]_(Abstract!poolVars)
    BY <2>8, HiddenStep, NothingJoined
       DEF WorkerBlocks, WaitPopBlocks, WorkerWakes, SpuriousWakeup, WorkerExits, WaitPopEnds,
           queueVars, poolVars
  <2>9. ASSUME NEW w \in Workers, WorkerTakes(w) PROVE [Abstract!Next]_(Abstract!poolVars)
    <3>1. Joined' = Joined
      BY <2>9 DEF WorkerTakes, Joined
    <3> QED
      BY <2>9, <3>1 DEF WorkerTakes, WaitPopValue, InWaitPop, Abstract!Next, Abstract!Start
  <2>10. ASSUME NEW w \in Workers, WorkerFinishes(w) PROVE [Abstract!Next]_(Abstract!poolVars)
    <3>1. Joined' = Joined
      BY <2>10 DEF WorkerFinishes, Joined
    <3> QED
      BY <2>10, <3>1 DEF WorkerFinishes, queueVars, Abstract!Next, Abstract!Finish
  <2>11. ASSUME NEW s \in Stoppers, StopCalled(s) \/ StopLocks(s) \/ StopNotifies(s)
         PROVE  [Abstract!Next]_(Abstract!poolVars)
    <3>1. UNCHANGED <<queue, closed, running, creation>> /\ stopper[s] # "returned"
      BY <2>11 DEF StopCalled, StopLocks, StopNotifies, NotifyAll, queueVars
    <3>2. \E stage : stage # "returned" /\ stopper' = [stopper EXCEPT ![s] = stage]
      BY <2>11 DEF StopCalled, StopLocks, StopNotifies
    <3> QED
      BY <2>0, <3>1, <3>2, HiddenStep, StopGoesOn
  <2>12. ASSUME NEW s \in Stoppers, StopCloses(s) PROVE [Abstract!Next]_(Abstract!poolVars)
    <3>1. /\ closed' = TRUE /\ UNCHANGED <<queue, running, creation>>
          /\ stopper[s] # "returned" /\ stopper' = [stopper EXCEPT ![s] = "notify"]
      BY <2>12 DEF StopCloses, CloseQueue
    <3> QED
      BY <2>0, <3>1, CloseStep, StopGoesOn
  <2>13. ASSUME NEW s \in Stoppers, StopJoins(s) PROVE [Abstract!Next]_(Abstract!poolVars)
    <3>1. Joined'
      BY <2>0, <2>13 DEF StopJoins, Joined, TypeOK
    <3> QED
      BY <2>13, <3>1, JoinStep DEF StopJoins, queueVars
  <2>14. CASE UNCHANGED vars
    BY <2>14, HiddenStep, NothingJoined DEF vars, queueVars, poolVars
  <2> QED
    BY <2>1, <2>2, <2>3, <2>4, <2>5, <2>6, <2>7, <2>8, <2>9, <2>10, <2>11, <2>12, <2>13, <2>14
    DEF Next, CreatorStep, WorkerStep, StopStep, Terminated
<1> QED
  BY <1>1, <1>2, PoolInvariant, PTL DEF Spec, Abstract!Spec
=============================================================================
