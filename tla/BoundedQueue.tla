---------------------------- MODULE BoundedQueue ----------------------------
(***************************************************************************)
(* netpulse::concurrency::BoundedQueue<T>: a std::deque behind one mutex,  *)
(* with the condition variable not_empty_ for blocked consumers.           *)
(*                                                                         *)
(* Each critical section of mutex_ is one step.  The notification that     *)
(* follows it is a step of its own, because the code issues it after the   *)
(* lock is released (tryPush lines 54-56, close lines 87-89): between the  *)
(* two, every other thread may run.                                        *)
(***************************************************************************)
EXTENDS Naturals, Sequences

CONSTANT Capacity    \* capacity_

VARIABLES
    queue,         \* queue_
    closed,        \* closed_
    waiters,       \* threads blocked in not_empty_.wait
    notifyOneDue,  \* threads that pushed and have not called notify_one yet
    notifyAllDue   \* threads that closed and have not called notify_all yet

queueVars == <<queue, closed, waiters, notifyOneDue, notifyAllDue>>

QueueInit ==
    /\ queue = <<>>
    /\ closed = FALSE
    /\ waiters = {}
    /\ notifyOneDue = {}
    /\ notifyAllDue = {}
-----------------------------------------------------------------------------
\* Mutants of the code: the closed_ test is dropped; the bound is off by one.
PushStatusIgnoresClosed ==
    IF Len(queue) >= Capacity THEN "Full" ELSE "Success"

PushStatusOffByOne ==
    IF closed THEN "Closed" ELSE IF Len(queue) > Capacity THEN "Full" ELSE "Success"

\* What tryPush finds under the lock; only "Success" changes the queue.
PushStatus ==
    IF closed THEN "Closed"
    ELSE IF Len(queue) >= Capacity THEN "Full"
    ELSE "Success"

\* tryPush(v) by thread t, up to the release of the lock.
TryPush(t, v) ==
    /\ PushStatus = "Success"
    /\ queue' = Append(queue, v)
    /\ notifyOneDue' = notifyOneDue \cup {t}
    /\ UNCHANGED <<closed, waiters, notifyAllDue>>

\* Mutant: the notification is lost.
NotifyOneLost(t) ==
    /\ t \in notifyOneDue
    /\ notifyOneDue' = notifyOneDue \ {t}
    /\ UNCHANGED <<queue, closed, waiters, notifyAllDue>>

\* not_empty_.notify_one(): wakes one blocked thread, if there is one.
NotifyOne(t) ==
    /\ t \in notifyOneDue
    /\ notifyOneDue' = notifyOneDue \ {t}
    /\ \/ waiters = {} /\ UNCHANGED waiters
       \/ \E w \in waiters : waiters' = waiters \ {w}
    /\ UNCHANGED <<queue, closed, notifyAllDue>>
-----------------------------------------------------------------------------
\* waitPop, predicate false: t blocks and the lock is released.
WaitPopBlocks(t) ==
    /\ t \notin waiters
    /\ queue = <<>> /\ ~closed
    /\ waiters' = waiters \cup {t}
    /\ UNCHANGED <<queue, closed, notifyOneDue, notifyAllDue>>

\* not_empty_.wait may return without a notification; it then tests again.
SpuriousWakeup(t) ==
    /\ t \in waiters
    /\ waiters' = waiters \ {t}
    /\ UNCHANGED <<queue, closed, notifyOneDue, notifyAllDue>>

\* waitPop returns Head(queue).
WaitPopValue(t) ==
    /\ t \notin waiters
    /\ queue # <<>>
    /\ queue' = Tail(queue)
    /\ UNCHANGED <<closed, waiters, notifyOneDue, notifyAllDue>>

\* Mutant: closed_ is tested before the queue, so queued values are dropped.
WaitPopEndsAtClose(t) ==
    /\ t \notin waiters
    /\ closed
    /\ UNCHANGED queueVars

\* waitPop returns std::nullopt.
WaitPopEnds(t) ==
    /\ t \notin waiters
    /\ queue = <<>> /\ closed
    /\ UNCHANGED queueVars
-----------------------------------------------------------------------------
\* close() by thread t, up to the release of the lock.
CloseQueue(t) ==
    /\ closed' = TRUE
    /\ notifyAllDue' = notifyAllDue \cup {t}
    /\ UNCHANGED <<queue, waiters, notifyOneDue>>

\* Mutant: notify_one instead of notify_all.
NotifyAllWakesOne(t) ==
    /\ t \in notifyAllDue
    /\ notifyAllDue' = notifyAllDue \ {t}
    /\ \/ waiters = {} /\ UNCHANGED waiters
       \/ \E w \in waiters : waiters' = waiters \ {w}
    /\ UNCHANGED <<queue, closed, notifyOneDue>>

\* not_empty_.notify_all()
NotifyAll(t) ==
    /\ t \in notifyAllDue
    /\ notifyAllDue' = notifyAllDue \ {t}
    /\ waiters' = {}
    /\ UNCHANGED <<queue, closed, notifyOneDue>>
=============================================================================
