------------------------ MODULE ProcessingDispatcher ------------------------
(***************************************************************************)
(* netpulse::server::ProcessingDispatcher: hands frames to the thread pool *)
(* and their results back to the I/O thread.  A worker appends its result  *)
(* to completed_ under completed_mutex_ and then, outside the lock, adds 1 *)
(* to an eventfd the I/O thread polls; the I/O thread reads the eventfd to *)
(* zero and then swaps completed_ out.  Four steps of two threads, and no  *)
(* lock around any two of them.                                            *)
(*                                                                         *)
(* The pool is used through its promise, TaskPool, which ThreadPool.tla    *)
(* implements.  Faults names the failures a run lets the system calls have.*)
(***************************************************************************)
EXTENDS Naturals, Sequences

CONSTANTS
    Workers,          \* worker threads
    Capacity,         \* capacity of the task queue
    Fds,              \* client descriptors
    MaxConnectionId,  \* bound on ConnectionId, 2^64-1 in the code
    Frames,           \* payloads
    EventFdMax,       \* largest eventfd value, 2^64-2 in the kernel
    Faults,           \* the failures that may happen
    NoTask            \* "this worker runs no task"

\* Descriptors are non-negative ints; the other bounds are at least 1.
ASSUME DispatcherAssumption ==
    /\ Capacity \in Nat \ {0}
    /\ Fds \subseteq Nat
    /\ MaxConnectionId \in Nat \ {0}
    /\ EventFdMax \in Nat \ {0}
    /\ NoTask \notin [fd : Fds, id : 1..MaxConnectionId, frame : Frames]

\* ProcessingTask.  processFrame copies descriptor and id into the result and
\* answers with a constant; a result is named here by the frame it answers.
ProcessingTasks == [fd : Fds, id : 1..MaxConnectionId, frame : Frames]
ProcessingResults == ProcessingTasks

VARIABLES
    queue, closed, running, joined,  \* pool_, see TaskPool
    unnotified,  \* workers inside publish(), result appended, eventfd not written
    completed,   \* completed_
    counter,     \* value of the eventfd behind notifier_
    notifier,    \* "open", "invalid" (eventfd() failed) or "destroyed"
    failed,      \* error_number_ # 0
    draining     \* the I/O thread has read the eventfd and not taken the results

Pool == INSTANCE TaskPool WITH Tasks <- ProcessingTasks

poolVars == <<queue, closed, running, joined>>
dispatcherVars == <<poolVars, unnotified, completed, counter, notifier, failed, draining>>

\* The task queue keeps its capacity, and every result the descriptor and the id of a
\* connection.
DispatcherTypeOK ==
    /\ queue \in Seq(ProcessingTasks) /\ Len(queue) <= Capacity
    /\ closed \in BOOLEAN /\ joined \in BOOLEAN
    /\ running \in [Workers -> ProcessingTasks \cup {NoTask}]
    /\ unnotified \subseteq Workers
    /\ completed \in Seq(ProcessingResults)
    /\ counter \in 0..EventFdMax
    /\ notifier \in {"open", "invalid", "destroyed"}
    /\ failed \in BOOLEAN /\ draining \in BOOLEAN

\* The constructor; when eventfd() failed it stops the pool at once.
DispatcherInit ==
    /\ queue = <<>>
    /\ running = [w \in Workers |-> NoTask]
    /\ unnotified = {}
    /\ completed = <<>>
    /\ counter = 0
    /\ draining = FALSE
    /\ notifier \in {"open"} \cup (IF "eventfd" \in Faults THEN {"invalid"} ELSE {})
    /\ failed = (notifier = "invalid")
    /\ closed = failed
    /\ joined = failed
-----------------------------------------------------------------------------
(* The I/O thread.                                                         *)

\* valid()
Valid == notifier = "open" /\ ~failed

\* The SubmitStatus of trySubmit(task).
TrySubmitStatus(task) ==
    IF task.fd < 0 \/ task.id = 0 THEN "InvalidTask"
    ELSE IF ~Valid THEN "Stopped"
    ELSE Pool!SubmitStatus

\* A successful trySubmit(task); the others change nothing here.
TrySubmit(task) ==
    /\ TrySubmitStatus(task) = "Success"
    /\ Pool!Submit(task)
    /\ UNCHANGED <<unnotified, completed, counter, notifier, failed, draining>>

\* consumeNotifications() on a readable eventfd: the value goes back to 0.
ConsumeNotifications ==
    /\ notifier = "open" /\ ~draining
    /\ counter > 0
    /\ counter' = 0
    /\ draining' = TRUE
    /\ UNCHANGED <<poolVars, unnotified, completed, notifier, failed>>

\* Mutant: only one result is taken per notification.
TakesOneResult ==
    /\ draining
    /\ completed' = IF completed = <<>> THEN <<>> ELSE Tail(completed)
    /\ draining' = FALSE
    /\ UNCHANGED <<poolVars, unnotified, counter, notifier, failed>>

\* Mutant: completed_ is copied, not swapped out.
TakeCopies ==
    /\ draining
    /\ completed' = completed
    /\ draining' = FALSE
    /\ UNCHANGED <<poolVars, unnotified, counter, notifier, failed>>

\* takeCompleted(): the whole of completed_ is swapped out.
TakeCompleted ==
    /\ draining
    /\ completed' = <<>>
    /\ draining' = FALSE
    /\ UNCHANGED <<poolVars, unnotified, counter, notifier, failed>>

\* stop(), and the first half of the destructor: the pool stops accepting ...
StopPool ==
    /\ Pool!Close
    /\ UNCHANGED <<unnotified, completed, counter, notifier, failed, draining>>

\* ... and is left when its workers have drained the queue.
JoinPool ==
    /\ Pool!Join
    /\ UNCHANGED <<unnotified, completed, counter, notifier, failed, draining>>

\* Mutant: pool_ is not the last member, so notifier_ is destroyed first.
DestroyNotifierFirst ==
    /\ closed /\ notifier # "destroyed"
    /\ notifier' = "destroyed"
    /\ completed' = <<>>
    /\ counter' = 0
    /\ draining' = FALSE
    /\ UNCHANGED <<poolVars, unnotified, failed>>

\* The rest of the destructor: pool_ is the last member, so ~ThreadPool has
\* joined the workers before completed_ and notifier_ are destroyed.
Destroy ==
    /\ joined /\ notifier # "destroyed"
    /\ notifier' = "destroyed"
    /\ completed' = <<>>
    /\ counter' = 0
    /\ draining' = FALSE
    /\ UNCHANGED <<poolVars, unnotified, failed>>
-----------------------------------------------------------------------------
(* The workers: the task is publish(processFrame(task)).                   *)

StartTask(w) ==
    /\ Pool!Start(w)
    /\ UNCHANGED <<unnotified, completed, counter, notifier, failed, draining>>

\* An allocation of the task throws before the result is in completed_; the
\* pool swallows the exception and the frame is never answered.
TaskThrows(w) ==
    /\ "throw" \in Faults
    /\ w \notin unnotified
    /\ Pool!Finish(w)
    /\ UNCHANGED <<unnotified, completed, counter, notifier, failed, draining>>

\* Mutant: processFrame() does not copy the connection's id.
PublishForgetsId(w) ==
    /\ running[w] # NoTask /\ w \notin unnotified
    /\ completed' = Append(completed, [running[w] EXCEPT !.id = 0])
    /\ unnotified' = unnotified \cup {w}
    /\ UNCHANGED <<poolVars, counter, notifier, failed, draining>>

\* processFrame and the locked half of publish().
Publish(w) ==
    /\ running[w] # NoTask /\ w \notin unnotified
    /\ completed' = Append(completed, running[w])
    /\ unnotified' = unnotified \cup {w}
    /\ UNCHANGED <<poolVars, counter, notifier, failed, draining>>

\* Mutant: a full eventfd counter wraps to zero.
NotifyWraps(w) ==
    /\ w \in unnotified
    /\ counter' = IF counter < EventFdMax THEN counter + 1 ELSE 0
    /\ unnotified' = unnotified \ {w}
    /\ Pool!Finish(w)
    /\ UNCHANGED <<completed, notifier, failed, draining>>

\* notifier_.notify(): the counter grows by 1.  At its maximum the write reports
\* EAGAIN, which publish() ignores: the eventfd is readable anyway.
Notify(w) ==
    /\ w \in unnotified
    /\ counter' = IF counter < EventFdMax THEN counter + 1 ELSE counter
    /\ unnotified' = unnotified \ {w}
    /\ Pool!Finish(w)
    /\ UNCHANGED <<completed, notifier, failed, draining>>

\* Any other error is kept in error_number_ and nobody is woken.
NotifyFails(w) ==
    /\ "notify" \in Faults
    /\ w \in unnotified
    /\ failed' = TRUE
    /\ unnotified' = unnotified \ {w}
    /\ Pool!Finish(w)
    /\ UNCHANGED <<completed, counter, notifier, draining>>

WorkerStep(w) ==
    StartTask(w) \/ TaskThrows(w) \/ Publish(w) \/ Notify(w) \/ NotifyFails(w)
-----------------------------------------------------------------------------
DispatcherNext ==
    \/ \E task \in ProcessingTasks : TrySubmit(task)
    \/ ConsumeNotifications \/ TakeCompleted
    \/ StopPool \/ JoinPool \/ Destroy
    \/ \E w \in Workers : WorkerStep(w)

DispatcherSpec == DispatcherInit /\ [][DispatcherNext]_dispatcherVars

\* The I/O thread answers its poll and completes a destructor it has entered;
\* every worker keeps being scheduled.
DispatcherFairness ==
    /\ WF_dispatcherVars(ConsumeNotifications \/ TakeCompleted)
    /\ WF_dispatcherVars(JoinPool)
    /\ \A w \in Workers : WF_dispatcherVars(WorkerStep(w))

FairDispatcherSpec == DispatcherSpec /\ DispatcherFairness
-----------------------------------------------------------------------------
(* Properties.                                                             *)

\* No result is stranded: while completed_ holds one, the eventfd is readable,
\* or a worker is about to write it, or the I/O thread is about to take.  This is
\* what the order push-then-notify against read-then-take is for, and what
\* ignoring EAGAIN in publish() relies on.  Only a failed write loses it.
NoStrandedResult ==
    completed # <<>> => counter > 0 \/ unnotified # {} \/ draining \/ failed

\* No worker touches completed_ or the eventfd once they are destroyed: pool_ is
\* declared last so that it is destroyed first (processing_dispatcher.hpp, 61).
NotifierOutlivesWorkers ==
    \A w \in Workers : running[w] # NoTask => notifier = "open"

\* Every result published is taken, unless the dispatcher is destroyed or a
\* write to the eventfd failed.
ResultsAreTaken ==
    (completed # <<>>) ~> (completed = <<>> \/ failed)
=============================================================================
