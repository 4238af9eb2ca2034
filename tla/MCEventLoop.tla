----------------------------- MODULE MCEventLoop -----------------------------
(* Instances of EventLoop for TLC. *)
EXTENDS EventLoop, TLC

MCFrames == Clients \X (1..MaxFrames)

\* The clients and the workers are interchangeable.
LoopSymmetry == Permutations(Clients) \cup Permutations(Workers)
=============================================================================
