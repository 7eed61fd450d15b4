---------------------------- MODULE MCARCCache -----------------------------
(* ARCCache on a small instance.  hits, misses, regions and outcome are     *)
(* written and never read: states that differ only there are explored once, *)
(* which makes every behaviour of the instance finite without a bound.      *)
EXTENDS ARCCache

Symmetry == Permutations(Key)
View == <<t1, t2, b1, b2, p, pinned>>
=============================================================================
