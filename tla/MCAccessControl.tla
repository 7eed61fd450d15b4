-------------------------- MODULE MCAccessControl --------------------------
(* Three threads, so that two writers and a reader can meet.  Threads are   *)
(* interchangeable; keys and roles are not, because Init chooses one.       *)
EXTENDS AccessControl, TLC

Symmetry == Permutations(Thread)
=============================================================================
