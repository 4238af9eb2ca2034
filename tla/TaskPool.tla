------------------------------ MODULE TaskPool ------------------------------
(***************************************************************************)
(* What netpulse::concurrency::ThreadPool promises to the code that uses   *)
(* it, with the mutex, the condition variable and the thread handles       *)
(* hidden: a bounded FIFO queue of tasks that workers drain.  Accepting a  *)
(* task and starting it are single steps, closing is final, and stop()     *)
(* returns only to a pool that has nothing queued and nothing running.     *)
(*                                                                         *)
(* ThreadPool.tla is shown to implement this specification, fairness       *)
(* included; ProcessingDispatcher.tla is built on its actions.             *)
(***************************************************************************)
EXTENDS Naturals, Sequences

CONSTANTS
    Tasks,     \* the tasks callers may submit
    Workers,   \* the worker threads of the pool
    Capacity,  \* capacity of the task queue
    NoTask     \* "this worker runs no task"

VARIABLES
    queue,     \* accepted tasks no worker has taken, oldest first
    closed,    \* the pool accepts no more tasks
    running,   \* running[w] is the task worker w executes, or NoTask
    joined     \* some stop() has returned (or the constructor has thrown)

poolVars == <<queue, closed, running, joined>>

Init ==
    /\ queue = <<>>
    /\ closed = FALSE
    /\ running = [w \in Workers |-> NoTask]
    /\ joined = FALSE
-----------------------------------------------------------------------------
\* The SubmitStatus trySubmit returns for a callable task.
SubmitStatus ==
    IF closed THEN "Stopped"
    ELSE IF Len(queue) >= Capacity THEN "QueueFull"
    ELSE "Success"

\* An accepted submission; a rejected one leaves the pool as it is.
Submit(t) ==
    /\ SubmitStatus = "Success"
    /\ queue' = Append(queue, t)
    /\ UNCHANGED <<closed, running, joined>>

\* Mutant: the newest task is taken.
StartNewest(w) ==
    /\ running[w] = NoTask
    /\ queue # <<>>
    /\ running' = [running EXCEPT ![w] = queue[Len(queue)]]
    /\ queue' = SubSeq(queue, 1, Len(queue) - 1)
    /\ UNCHANGED <<closed, joined>>

\* An idle worker takes the oldest task.
Start(w) ==
    /\ running[w] = NoTask
    /\ queue # <<>>
    /\ running' = [running EXCEPT ![w] = Head(queue)]
    /\ queue' = Tail(queue)
    /\ UNCHANGED <<closed, joined>>

\* The task of w returns or throws; the worker is free again either way.
Finish(w) ==
    /\ running[w] # NoTask
    /\ running' = [running EXCEPT ![w] = NoTask]
    /\ UNCHANGED <<queue, closed, joined>>

\* stop() shuts the queue; what was accepted stays in it.
Close ==
    /\ ~closed
    /\ closed' = TRUE
    /\ UNCHANGED <<queue, running, joined>>

\* Nothing queued and nothing running.
Quiet == queue = <<>> /\ \A w \in Workers : running[w] = NoTask

\* stop() has joined every worker and returns.
Join ==
    /\ closed
    /\ Quiet
    /\ ~joined
    /\ joined' = TRUE
    /\ UNCHANGED <<queue, closed, running>>

Next ==
    \/ \E t \in Tasks : Submit(t)
    \/ \E w \in Workers : Start(w) \/ Finish(w)
    \/ Close
    \/ Join

\* A queued task does not wait while a worker is idle, and tasks end.
Fairness ==
    /\ WF_poolVars(\E w \in Workers : Start(w))
    /\ \A w \in Workers : WF_poolVars(Finish(w))
    /\ WF_poolVars(Join)

Spec == Init /\ [][Next]_poolVars

FairSpec == Spec /\ Fairness
=============================================================================
