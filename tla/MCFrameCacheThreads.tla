------------------------ MODULE MCFrameCacheThreads ------------------------
(* FrameCacheThreads on a small instance.  Threads are interchangeable, and *)
(* so are the keys that are never pinned.  The state is finite without a   *)
(* bound.                                                                   *)
EXTENDS FrameCacheThreads, TLC

Symmetry == Permutations(Thread) \cup Permutations(Key \ Pinnable)
=============================================================================
