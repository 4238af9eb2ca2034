----------------------------- MODULE ThreadPool -----------------------------
(***************************************************************************)
(* netpulse::concurrency::ThreadPool: a fixed set of std::thread workers   *)
(* that drain one BoundedQueue, trySubmit() for any number of callers, and *)
(* stop(), which any number of threads may call at the same time (the      *)
(* destructor is one more call of stop()).                                 *)
(*                                                                         *)
(* The constructor spawns the workers one by one and they run before it    *)
(* returns; std::thread may throw half way, and the constructor then       *)
(* closes the queue, joins the workers it has spawned and rethrows.        *)
(***************************************************************************)
EXTENDS BoundedQueue, FiniteSets

CONSTANTS
    Tasks,       \* callable tasks
    Workers,     \* worker threads, one per index of the constructor's loop
    Submitters,  \* threads that call trySubmit()
    Stoppers,    \* threads that call stop(), once each
    Creator,     \* the thread that runs the constructor
    NoTask,      \* "this worker runs no task"
    NoThread     \* "nobody holds stop_mutex_"

\* The constructors reject zero workers and a zero capacity.
ASSUME PoolAssumption ==
    /\ Capacity \in Nat \ {0}
    /\ Workers # {} /\ IsFiniteSet(Workers)
    /\ IsFiniteSet(Submitters)
    /\ NoTask \notin Tasks
    /\ NoThread \notin Stoppers

VARIABLES
    creation,   \* where the constructor is
    spawned,    \* workers_ : the threads that have been started
    exited,     \* workers whose workerLoop has returned
    running,    \* running[w] is the task w executes, or NoTask
    stopFlag,   \* stopped_
    stopMutex,  \* the thread that holds stop_mutex_, or NoThread
    stopper     \* stopper[s] is where s is in its call of stop()

poolVars == <<creation, spawned, exited, running, stopFlag, stopMutex, stopper>>
vars == <<queueVars, poolVars>>

Creations == {"spawning", "catch", "notify", "join", "threw", "ready"}
StopStages == {"idle", "lock", "close", "notify", "join", "returned"}

\* The queue keeps its capacity, whoever races for its last place.
TypeOK ==
    /\ queue \in Seq(Tasks) /\ Len(queue) <= Capacity
    /\ closed \in BOOLEAN
    /\ waiters \subseteq Workers
    /\ notifyOneDue \subseteq Submitters
    /\ notifyAllDue \subseteq Stoppers \cup {Creator}
    /\ creation \in Creations
    /\ spawned \subseteq Workers
    /\ exited \subseteq Workers
    /\ running \in [Workers -> Tasks \cup {NoTask}]
    /\ stopFlag \in BOOLEAN
    /\ stopMutex \in Stoppers \cup {NoThread}
    /\ stopper \in [Stoppers -> StopStages]

Init ==
    /\ QueueInit
    /\ creation = "spawning"
    /\ spawned = {}
    /\ exited = {}
    /\ running = [w \in Workers |-> NoTask]
    /\ stopFlag = FALSE
    /\ stopMutex = NoThread
    /\ stopper = [s \in Stoppers |-> "idle"]
-----------------------------------------------------------------------------
(* The constructor.                                                        *)

\* workers_.emplace_back(&ThreadPool::workerLoop, this)
Spawn(w) ==
    /\ creation = "spawning"
    /\ w \notin spawned
    /\ spawned' = spawned \cup {w}
    /\ creation' = IF spawned' = Workers THEN "ready" ELSE "spawning"
    /\ UNCHANGED <<queueVars, exited, running, stopFlag, stopMutex, stopper>>

\* The std::thread constructor throws; control reaches catch (...).
SpawnFails ==
    /\ creation = "spawning"
    /\ creation' = "catch"
    /\ UNCHANGED <<queueVars, spawned, exited, running, stopFlag, stopMutex, stopper>>

\* catch (...): tasks_.close()
CreatorCloses ==
    /\ creation = "catch"
    /\ CloseQueue(Creator)
    /\ creation' = "notify"
    /\ UNCHANGED <<spawned, exited, running, stopFlag, stopMutex, stopper>>

CreatorNotifies ==
    /\ creation = "notify"
    /\ NotifyAll(Creator)
    /\ creation' = "join"
    /\ UNCHANGED <<spawned, exited, running, stopFlag, stopMutex, stopper>>

\* catch (...): every spawned thread is joined, then the exception goes on.
CreatorJoins ==
    /\ creation = "join"
    /\ spawned \subseteq exited
    /\ creation' = "threw"
    /\ UNCHANGED <<queueVars, spawned, exited, running, stopFlag, stopMutex, stopper>>
-----------------------------------------------------------------------------
(* trySubmit.  An empty std::function, a full queue and a closed queue are *)
(* reported to the caller and change nothing (PushStatus).                 *)

TrySubmit(s, t) ==
    /\ creation = "ready"
    /\ s \notin notifyOneDue
    /\ TryPush(s, t)
    /\ UNCHANGED poolVars

SubmitNotifies(s) ==
    /\ NotifyOne(s)
    /\ UNCHANGED poolVars
-----------------------------------------------------------------------------
(* workerLoop.                                                             *)

\* w is inside waitPop (blocked in it when w is also in waiters).
InWaitPop(w) == w \in spawned \ exited /\ running[w] = NoTask

WorkerBlocks(w) ==
    /\ InWaitPop(w)
    /\ WaitPopBlocks(w)
    /\ UNCHANGED poolVars

WorkerWakes(w) ==
    /\ InWaitPop(w)
    /\ SpuriousWakeup(w)
    /\ UNCHANGED poolVars

WorkerTakes(w) ==
    /\ InWaitPop(w)
    /\ WaitPopValue(w)
    /\ running' = [running EXCEPT ![w] = Head(queue)]
    /\ UNCHANGED <<creation, spawned, exited, stopFlag, stopMutex, stopper>>

\* Mutant: an exception thrown by the task ends the worker.
TaskThrowEndsWorker(w) ==
    /\ running[w] # NoTask
    /\ running' = [running EXCEPT ![w] = NoTask]
    /\ \/ UNCHANGED exited
       \/ exited' = exited \cup {w}
    /\ UNCHANGED <<queueVars, creation, spawned, stopFlag, stopMutex, stopper>>

\* (*task)() returns, or throws into catch (...): the loop goes on.
WorkerFinishes(w) ==
    /\ running[w] # NoTask
    /\ running' = [running EXCEPT ![w] = NoTask]
    /\ UNCHANGED <<queueVars, creation, spawned, exited, stopFlag, stopMutex, stopper>>

\* waitPop returned std::nullopt.
WorkerExits(w) ==
    /\ InWaitPop(w)
    /\ WaitPopEnds(w)
    /\ exited' = exited \cup {w}
    /\ UNCHANGED <<creation, spawned, running, stopFlag, stopMutex, stopper>>
-----------------------------------------------------------------------------
(* stop().                                                                 *)

StopCalled(s) ==
    /\ creation = "ready"
    /\ stopper[s] = "idle"
    /\ stopper' = [stopper EXCEPT ![s] = "lock"]
    /\ UNCHANGED <<queueVars, creation, spawned, exited, running, stopFlag, stopMutex>>

\* Mutant: stopped_ is tested before the lock is taken.
StopTestsBeforeLock(s) ==
    /\ stopper[s] = "lock"
    /\ stopFlag \/ stopMutex = NoThread
    /\ stopFlag' = TRUE
    /\ stopMutex' = IF stopFlag THEN stopMutex ELSE s
    /\ stopper' = [stopper EXCEPT ![s] = IF stopFlag THEN "returned" ELSE "close"]
    /\ UNCHANGED <<queueVars, creation, spawned, exited, running>>

\* lock_guard lock{stop_mutex_}; stopped_.exchange(true)
StopLocks(s) ==
    /\ stopper[s] = "lock"
    /\ stopMutex = NoThread
    /\ stopMutex' = s
    /\ stopFlag' = TRUE
    /\ stopper' = [stopper EXCEPT ![s] = IF stopFlag THEN "join" ELSE "close"]
    /\ UNCHANGED <<queueVars, creation, spawned, exited, running>>

StopCloses(s) ==
    /\ stopper[s] = "close"
    /\ CloseQueue(s)
    /\ stopper' = [stopper EXCEPT ![s] = "notify"]
    /\ UNCHANGED <<creation, spawned, exited, running, stopFlag, stopMutex>>

StopNotifies(s) ==
    /\ stopper[s] = "notify"
    /\ NotifyAll(s)
    /\ stopper' = [stopper EXCEPT ![s] = "join"]
    /\ UNCHANGED <<creation, spawned, exited, running, stopFlag, stopMutex>>

\* Every joinable worker is joined, stop_mutex_ is released, stop() returns.
StopJoins(s) ==
    /\ stopper[s] = "join"
    /\ spawned \subseteq exited
    /\ stopMutex' = NoThread
    /\ stopper' = [stopper EXCEPT ![s] = "returned"]
    /\ UNCHANGED <<queueVars, creation, spawned, exited, running, stopFlag>>
-----------------------------------------------------------------------------
CreatorStep == CreatorCloses \/ CreatorNotifies \/ CreatorJoins \/ \E w \in Workers : Spawn(w)

WorkerStep(w) ==
    \/ WorkerBlocks(w) \/ WorkerWakes(w) \/ WorkerTakes(w)
    \/ WorkerFinishes(w) \/ WorkerExits(w)

StopStep(s) == StopLocks(s) \/ StopCloses(s) \/ StopNotifies(s) \/ StopJoins(s)

\* The pool is gone, or every call of stop() has returned: all threads may rest.
Terminated ==
    /\ \/ creation = "threw"
       \/ \A s \in Stoppers : stopper[s] = "returned"
    /\ notifyOneDue = {}
    /\ UNCHANGED vars

Next ==
    \/ CreatorStep
    \/ SpawnFails
    \/ \E s \in Submitters : SubmitNotifies(s) \/ \E t \in Tasks : TrySubmit(s, t)
    \/ \E w \in Workers : WorkerStep(w)
    \/ \E s \in Stoppers : StopCalled(s) \/ StopStep(s)
    \/ Terminated

Spec == Init /\ [][Next]_vars

\* Every thread of the process keeps being scheduled, locks are handed on and
\* tasks return.  Nobody has to call trySubmit() or stop(), std::thread need not
\* fail, and wakeups without a notification need not happen.
Fairness ==
    /\ WF_vars(CreatorStep)
    /\ \A s \in Submitters : WF_vars(SubmitNotifies(s))
    /\ \A w \in Workers :
         WF_vars(WorkerBlocks(w) \/ WorkerTakes(w) \/ WorkerFinishes(w) \/ WorkerExits(w))
    /\ \A s \in Stoppers : WF_vars(StopStep(s))

FairSpec == Spec /\ Fairness
-----------------------------------------------------------------------------
(* Properties.                                                             *)

\* Workers that will test the wait predicate before they can sleep.
Awake == {w \in spawned \ exited : running[w] = NoTask /\ w \notin waiters}

\* No lost wakeup: while some worker sleeps in waitPop, each queued task has a
\* notify_one still to come or an awake worker on its way to the queue.  This is
\* what releasing the lock before notify_one, waking one thread per push and
\* letting busy workers steal a task must not break.
NoLostWakeup ==
    waiters # {} => Len(queue) <= Cardinality(notifyOneDue) + Cardinality(Awake)

\* No worker sleeps through close(): after closed_ is set, a thread blocked in
\* waitPop still has a notify_all coming.  A worker missed here would block
\* join(), and with it stop() and the destructor, for ever.
NoSleeperAfterClose == closed /\ waiters # {} => notifyAllDue # {}

\* workerLoop returns only from a closed and drained queue, whatever the tasks
\* throw ("worker must continue after a task throws", thread_pool_test.cpp).
WorkersOutliveTasks == exited # {} => closed /\ queue = <<>>

\* Some stop() has returned, or the constructor has thrown.
Joined == creation = "threw" \/ \E s \in Stoppers : stopper[s] = "returned"

\* Once one stop() has returned, to whichever caller, and for ever after: no task
\* is queued, none runs, no worker is left ("stop must drain accepted tasks",
\* thread_pool_test.cpp).  The same holds of a constructor that threw.
StopDrains ==
    Joined => /\ closed /\ queue = <<>>
              /\ \A w \in Workers : running[w] = NoTask
              /\ spawned \subseteq exited

\* Every call of stop() returns, also when several threads make it at once.
StopReturns == \A s \in Stoppers : (stopper[s] = "lock") ~> (stopper[s] = "returned")

\* The pool implements its abstract specification, with its fairness: a task
\* accepted by trySubmit is started in FIFO order, once, and without waiting for
\* as long as a worker is idle.
Abstract == INSTANCE TaskPool WITH joined <- Joined

ImplementsTaskPool == Abstract!FairSpec
=============================================================================
