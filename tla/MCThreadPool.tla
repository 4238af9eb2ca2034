---------------------------- MODULE MCThreadPool ----------------------------
(* Instances of ThreadPool for TLC. *)
EXTENDS ThreadPool, TLC

\* Threads of one kind, and tasks, are interchangeable.
PoolSymmetry ==
    Permutations(Workers) \cup Permutations(Submitters)
      \cup Permutations(Stoppers) \cup Permutations(Tasks)
=============================================================================
