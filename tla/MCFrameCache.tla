--------------------------- MODULE MCFrameCache ----------------------------
(* FrameCache on a small instance.  Keys and regions are interchangeable.  *)
(* hits, misses and outcome are read only by the step that writes them, so *)
(* two states that differ in nothing else have the same future.            *)
EXTENDS FrameCache, TLC

Symmetry == Permutations(Key) \cup Permutations(Region)
View == <<policy, frames, clock, pinned>>
=============================================================================
