----------------------------- MODULE MCPipeline -----------------------------
(* Pipeline on a small instance.  Threads and payloads are interchangeable; *)
(* keys are not, because InitCalls chooses one.                             *)
EXTENDS Pipeline, TLC

Symmetry == Permutations(Thread) \cup Permutations(Payload)
=============================================================================
