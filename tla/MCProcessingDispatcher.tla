----------------------- MODULE MCProcessingDispatcher -----------------------
(* Instances of ProcessingDispatcher for TLC. *)
EXTENDS ProcessingDispatcher, FiniteSets

\* Bound on the tasks and results in the dispatcher: completed_ has none.
CONSTANT MaxOutstanding

Outstanding ==
    Len(queue) + Len(completed) + Cardinality({w \in Workers : running[w] # NoTask})

MCNext == DispatcherNext /\ Outstanding' <= MaxOutstanding

MCSpec == DispatcherInit /\ [][MCNext]_dispatcherVars /\ DispatcherFairness
=============================================================================
