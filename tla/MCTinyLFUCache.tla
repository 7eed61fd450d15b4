--------------------------- MODULE MCTinyLFUCache --------------------------
(* TinyLFUCache on a small instance: two rows of two cells, in which k1     *)
(* collides with k2 in one row and with k3 in the other.  The aging window  *)
(* keeps the counters finite, so no bound is needed.  hits, misses, regions *)
(* and outcome are written and never read.                                  *)
EXTENDS TinyLFUCache

CONSTANTS k1, k2, k3

MCKey == {k1, k2, k3}
MCIdx == [row \in {1, 2} |-> [key \in MCKey |->
            IF row = 1 THEN IF key = k3 THEN 2 ELSE 1
            ELSE IF key = k2 THEN 2 ELSE 1]]

View == <<main, table, total, pinned, accesses>>
=============================================================================
