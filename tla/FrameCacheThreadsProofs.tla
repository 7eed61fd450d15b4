---------------------- MODULE FrameCacheThreadsProofs ----------------------
(***************************************************************************)
(* What races on _FrameCache cannot do, proved for any number of threads,  *)
(* keys and pins and any capacity.  One inductive invariant, Inv, carries  *)
(* most of it: what each location of put knows of the locals (Shape), and  *)
(* what a call still knows of the dictionary when no other thread has      *)
(* removed a key since it began (Undisturbed).  Two facts that speak of    *)
(* sizes, FullWhenEvicting and OverfillBounded, are proved on top of it.    *)
(***************************************************************************)
EXTENDS FrameCacheThreads, FiniteSetTheorems, TLAPS

USE CapacityAssumption, ThreadAssumption, KeyAssumption

Shape ==
    \A t \in Thread :
        /\ pc[t] \in {"fresh", "select"} => todo[t] \subseteq snapshot[t]
        /\ pc[t] \in {"select", "delete"} => pool[t] \subseteq snapshot[t]
        /\ pc[t] = "delete" => \E victim \in Key : pool[t] = {victim}
        /\ pc[t] = "survive" => todo[t] \subseteq snapshot[t] \ pool[t]
        /\ pc[t] \in {"fresh", "select", "delete"} => snapshot[t] \cap steady[t] = {}
        /\ pc[t] = "collect" /\ ~mutated[t] => snapshot[t] = resident

Undisturbed ==
    \A t \in Thread : ~robbed[t] =>
        /\ pc[t] \in {"collect", "fresh", "select", "delete"} => snapshot[t] \subseteq resident
        /\ pc[t] = "survive" => snapshot[t] \ pool[t] \subseteq resident
        /\ pc[t] # "KeyError"

Inv == TypeOK /\ Shape /\ Undisturbed
-----------------------------------------------------------------------------
LEMMA InitInv == Init => Inv
  BY DEF Init, Inv, TypeOK, Shape, Undisturbed, Location, Resting

LEMMA StepInv == Inv /\ [Next]_vars => Inv'
<1> SUFFICES ASSUME Inv, [Next]_vars PROVE Inv'
  OBVIOUS
<1> USE DEF Inv, TypeOK, Shape, Undisturbed, Location, Resting, Loop, Goto, locals, pins, Forget
<1>1. ASSUME NEW t \in Thread, NEW key \in Key, Put(t, key) PROVE Inv'
  BY <1>1 DEF Put
<1>2. ASSUME NEW t \in Thread, Size(t) PROVE Inv'
  BY <1>2 DEF Size
<1>3. ASSUME NEW t \in Thread, Evict(t) PROVE Inv'
  BY <1>3 DEF Evict
<1>4. ASSUME NEW t \in Thread, Collect(t) PROVE Inv'
  BY <1>4 DEF Collect, Candidates
<1>5. ASSUME NEW t \in Thread, CollectMutated(t) PROVE Inv'
  BY <1>5 DEF CollectMutated
<1>6. ASSUME NEW t \in Thread, Visit(t) PROVE Inv'
  BY <1>6 DEF Visit
<1>7. ASSUME NEW t \in Thread, Pool(t) PROVE Inv'
  BY <1>7 DEF Pool
<1>8. ASSUME NEW t \in Thread, Select(t) PROVE Inv'
  BY <1>8 DEF Select
<1>9. ASSUME NEW t \in Thread, Delete(t) PROVE Inv'
  BY <1>9 DEF Delete
<1>10. ASSUME NEW t \in Thread, DeleteGone(t) PROVE Inv'
  BY <1>10 DEF DeleteGone
<1>11. ASSUME NEW t \in Thread, Survived(t) PROVE Inv'
  BY <1>11 DEF Survived
<1>12. ASSUME NEW t \in Thread, Insert(t) PROVE Inv'
  <2>1. TypeOK'
    BY <1>12 DEF Insert
  <2>2. Undisturbed'
    BY <1>12 DEF Insert
  <2>3. \A u \in Thread : pc'[u] = "collect" /\ ~mutated'[u] =>
            u # t /\ pc[u] = "collect" /\ ~mutated[u] /\ resident' = resident
    <3>1. \A u \in Thread : pc'[u] = "collect" => u # t /\ pc[u] = "collect"
      BY <1>12 DEF Insert
    <3>2. ASSUME NEW u \in Thread, u # t, ~mutated'[u]
          PROVE  ~mutated[u] /\ arg[t] \in resident
      <4>1. mutated'[u] = (mutated[u] \/ (u # t /\ arg[t] \notin resident))
        BY <1>12 DEF Insert
      <4> QED
        BY <3>2, <4>1
    <3>3. arg[t] \in resident => resident' = resident
      BY <1>12 DEF Insert
    <3> QED
      BY <3>1, <3>2, <3>3
  <2>4. Shape'
    <3>1. \A u \in Thread : pc'[u] = "collect" /\ ~mutated'[u] => snapshot'[u] = resident'
      BY <1>12, <2>3 DEF Insert
    <3>2. \A u \in Thread :
            /\ pc'[u] \in {"fresh", "select"} => todo'[u] \subseteq snapshot'[u]
            /\ pc'[u] \in {"select", "delete"} => pool'[u] \subseteq snapshot'[u]
            /\ pc'[u] = "delete" => \E victim \in Key : pool'[u] = {victim}
            /\ pc'[u] = "survive" => todo'[u] \subseteq snapshot'[u] \ pool'[u]
            /\ pc'[u] \in {"fresh", "select", "delete"} => snapshot'[u] \cap steady'[u] = {}
      BY <1>12 DEF Insert
    <3> QED
      BY <3>1, <3>2
  <2> QED
    BY <2>1, <2>2, <2>4
<1>13. ASSUME NEW t \in Thread, VisitGone(t) PROVE Inv'
  BY <1>13 DEF VisitGone
<1>14. ASSUME NEW key \in Pinnable, Pin(key) PROVE Inv'
  BY <1>14 DEF Pin
<1>15. ASSUME NEW key \in Pinnable, Unpin(key) PROVE Inv'
  BY <1>15 DEF Unpin
<1>16. CASE UNCHANGED vars
  BY <1>16 DEF vars
<1> QED
  BY <1>1, <1>2, <1>3, <1>4, <1>5, <1>6, <1>7, <1>8, <1>9, <1>10, <1>11, <1>12, <1>13, <1>14,
     <1>15, <1>16
  DEF Next, Step

LEMMA Invariance == Spec => []Inv
  BY InitInv, StepInv, PTL DEF Spec

(* Every variable of the race keeps its type for any number of threads.     *)
THEOREM ThreadsTypes == Spec => []TypeOK
  BY Invariance, PTL DEF Inv

\* The test of the size is still true in _evict if no key has been removed.
FullWhenEvicting ==
    \A t \in Thread :
        pc[t] \in {"evict", "collect"} /\ ~robbed[t] => Cardinality(resident) >= Capacity

LEMMA FullInit == Init => FullWhenEvicting
  BY DEF Init, FullWhenEvicting

LEMMA FullStep == Inv /\ Inv' /\ FullWhenEvicting /\ [Next]_vars => FullWhenEvicting'
<1> SUFFICES ASSUME Inv, Inv', FullWhenEvicting, [Next]_vars PROVE FullWhenEvicting'
  OBVIOUS
<1> USE DEF Goto, locals, pins, Forget
<1>1. /\ pc \in [Thread -> Location] /\ robbed \in [Thread -> BOOLEAN]
      /\ IsFiniteSet(resident) /\ Cardinality(resident) \in Nat
      /\ IsFiniteSet(resident') /\ Cardinality(resident') \in Nat
  <2>1. /\ pc \in [Thread -> Location] /\ robbed \in [Thread -> BOOLEAN]
        /\ resident \subseteq Key /\ resident' \subseteq Key
    BY DEF Inv, TypeOK
  <2> QED
    BY <2>1, FS_Subset, FS_CardinalityType
<1>2. ASSUME NEW t \in Thread, Size(t) PROVE FullWhenEvicting'
  BY <1>1, <1>2 DEF Size, FullWhenEvicting
<1>3. ASSUME NEW t \in Thread, Delete(t) PROVE FullWhenEvicting'
  BY <1>1, <1>3 DEF Delete, FullWhenEvicting
<1>4. ASSUME NEW t \in Thread, Insert(t) PROVE FullWhenEvicting'
  <2>1. resident \subseteq resident'
    BY <1>4 DEF Insert
  <2>2. Cardinality(resident) <= Cardinality(resident')
    BY <1>1, <2>1, FS_Subset
  <2>3. \A u \in Thread : /\ pc'[u] \in {"evict", "collect"} => pc[u] = pc'[u]
                           /\ robbed'[u] = robbed[u]
    BY <1>1, <1>4 DEF Insert
  <2> QED
    BY <1>1, <2>2, <2>3 DEF FullWhenEvicting
<1>5. ASSUME NEW t \in Thread, Step(t), ~Size(t), ~Delete(t), ~Insert(t) PROVE FullWhenEvicting'
  <2>1. resident' = resident
    BY <1>5 DEF Step, Put, Evict, Collect, CollectMutated, Visit, VisitGone, Pool, Select,
                DeleteGone, Survived
  <2>2. \A u \in Thread : pc'[u] \in {"evict", "collect"} =>
            pc[u] \in {"evict", "collect"} /\ robbed'[u] = robbed[u]
    BY <1>1, <1>5 DEF Step, Put, Evict, Collect, CollectMutated, Visit, VisitGone, Pool, Select,
                      DeleteGone, Survived
  <2> QED
    BY <2>1, <2>2 DEF FullWhenEvicting
<1>6. CASE /\ UNCHANGED <<resident, pc, robbed>>
  BY <1>6 DEF FullWhenEvicting
<1> QED
  BY <1>2, <1>3, <1>4, <1>5, <1>6 DEF Next, vars, Pin, Unpin

(* What put raises without a race, one thread alone could get: a KeyError   *)
(* always follows a removal by another thread; a RuntimeError, unless       *)
(* another thread has changed the keys, follows an iteration in which every *)
(* resident key was seen pinned, in a cache that is full.                   *)
THEOREM ThreadsErrorsNeedRace == Spec => ErrorsNeedRace
<1> DEFINE Blamed(t) ==
             /\ Raises(t, "KeyError") => robbed[t]
             /\ Raises(t, "RuntimeError") /\ ~mutated[t] =>
                   /\ resident \subseteq touched[t]
                   /\ ~robbed[t] => Cardinality(resident) >= Capacity
<1>1. ASSUME Inv, Inv', FullWhenEvicting, Next, NEW t \in Thread PROVE Blamed(t)
  <2>1. /\ pc \in [Thread -> Location]
        /\ robbed \in [Thread -> BOOLEAN] /\ robbed' \in [Thread -> BOOLEAN]
    BY <1>1 DEF Inv, TypeOK
  <2>2. ASSUME Raises(t, "KeyError") PROVE robbed[t]
    <3>1. PICK u \in Thread : Step(u)
      BY <1>1, <2>2 DEF Next, Pin, Unpin, Raises
    <3>2. VisitGone(t) \/ DeleteGone(t)
      BY <2>1, <2>2, <3>1 DEF Raises, Goto, Step, Put, Size, Evict, Collect, CollectMutated,
         Visit, VisitGone, Pool, Select, Delete, DeleteGone, Survived, Insert
    <3>3. robbed'[t] = robbed[t]
      BY <3>2 DEF VisitGone, DeleteGone
    <3> QED
      BY <1>1, <2>2, <3>3 DEF Inv, Undisturbed, Raises
  <2>3. ASSUME Raises(t, "RuntimeError"), ~mutated[t]
        PROVE  /\ resident \subseteq touched[t]
               /\ ~robbed[t] => Cardinality(resident) >= Capacity
    <3>1. PICK u \in Thread : Step(u)
      BY <1>1, <2>3 DEF Next, Pin, Unpin, Raises
    <3>2. Collect(t) /\ pc[t] = "collect"
      BY <2>1, <2>3, <3>1 DEF Raises, Goto, Step, Put, Size, Evict, Collect, CollectMutated,
         Visit, VisitGone, Pool, Select, Delete, DeleteGone, Survived, Insert
    <3>3. {} \in Candidates(t)
      BY <2>1, <2>3, <3>2 DEF Collect, Goto, Raises
    <3>4. snapshot[t] \subseteq touched[t] /\ snapshot[t] = resident
      BY <1>1, <2>3, <3>2, <3>3 DEF Candidates, Inv, Shape
    <3> QED
      BY <1>1, <3>2, <3>4 DEF FullWhenEvicting
  <2> QED
    BY <2>2, <2>3
<1>2. Inv /\ Inv' /\ FullWhenEvicting /\ [Next]_vars => [\A t \in Thread : Blamed(t)]_vars
  BY <1>1
<1> QED
  BY <1>2, FullInit, FullStep, Invariance, PTL DEF Spec, ErrorsNeedRace

(* No interleaving of puts, pins and unpins removes a key that was pinned   *)
(* since before the eviction that removes it began.                         *)
THEOREM ThreadsPinnedStay == Spec => PinnedStay
<1> DEFINE Free == \A key \in resident \ resident' :
                      \E t \in Thread : pc[t] = "delete" /\ pc'[t] # "delete" /\ key \notin steady[t]
<1>1. Inv /\ [Next]_vars => [Free]_vars
  <2> SUFFICES ASSUME Inv, Next PROVE Free
    BY DEF vars
  <2>1. ASSUME NEW t \in Thread, Delete(t) PROVE Free
    <3>1. /\ resident' = resident \ pool[t]
          /\ pc[t] = "delete" /\ pc'[t] = "survive"
      BY <2>1 DEF Delete, Goto, Inv, TypeOK
    <3>2. pool[t] \cap steady[t] = {}
      BY <3>1 DEF Inv, Shape
    <3> QED
      BY <3>1, <3>2
  <2>2. ASSUME NEW t \in Thread, Insert(t) PROVE Free
    BY <2>2 DEF Insert
  <2>3. ASSUME NEW t \in Thread, Step(t), ~Delete(t), ~Insert(t) PROVE Free
    BY <2>3 DEF Step, Put, Size, Evict, Collect, CollectMutated, Visit, VisitGone, Pool,
                Select, DeleteGone, Survived
  <2>4. ASSUME NEW key \in Pinnable, Pin(key) \/ Unpin(key) PROVE Free
    BY <2>4 DEF Pin, Unpin
  <2> QED
    BY <2>1, <2>2, <2>3, <2>4 DEF Next
<1> QED
  BY <1>1, Invariance, PTL DEF Spec, PinnedStay
-----------------------------------------------------------------------------
\* While a thread has no place promised, some thread is missing in Reserved.
LEMMA NotAllReserved ==
  ASSUME NEW t \in Thread, t \notin Reserved
  PROVE  Cardinality(Reserved) + 1 <= Cardinality(Thread)
<1>1. Reserved \subseteq Thread \ {t}
  BY DEF Reserved
<1>2. /\ IsFiniteSet(Thread \ {t})
      /\ Cardinality(Thread \ {t}) = Cardinality(Thread) - 1
  BY FS_RemoveElement
<1>3. Cardinality(Reserved) <= Cardinality(Thread \ {t}) /\ Cardinality(Reserved) \in Nat
  BY <1>1, <1>2, FS_Subset, FS_CardinalityType
<1> QED
  BY <1>2, <1>3, FS_CardinalityType

LEMMA OverfillInit == Init => OverfillBounded
<1> SUFFICES ASSUME Init PROVE OverfillBounded
  OBVIOUS
<1>1. resident = {} /\ Reserved = {}
  BY DEF Init, Reserved
<1>2. Cardinality(Thread) \in Nat /\ Cardinality(Thread) # 0
  BY FS_EmptySet, FS_CardinalityType
<1> QED
  BY <1>1, <1>2, FS_EmptySet DEF OverfillBounded

LEMMA OverfillStep == Inv /\ Inv' /\ OverfillBounded /\ [Next]_vars => OverfillBounded'
<1> SUFFICES ASSUME Inv, Inv', OverfillBounded, Next PROVE OverfillBounded'
  BY DEF vars, OverfillBounded, Reserved
<1> USE DEF Goto, locals, pins, Forget
<1>1. /\ IsFiniteSet(resident) /\ Cardinality(resident) \in Nat
      /\ IsFiniteSet(Reserved) /\ Cardinality(Reserved) \in Nat
      /\ Cardinality(Thread) \in Nat
      /\ IsFiniteSet(resident') /\ Cardinality(resident') \in Nat
      /\ IsFiniteSet(Reserved') /\ Cardinality(Reserved') \in Nat
  <2>1. TypeOK /\ TypeOK'
    BY DEF Inv
  <2> QED
    BY <2>1, FS_Subset, FS_CardinalityType DEF TypeOK, Reserved
<1>8. ASSUME NEW key \in Pinnable, Pin(key) \/ Unpin(key) PROVE OverfillBounded'
  BY <1>8 DEF Pin, Unpin, OverfillBounded, Reserved
<1>2. SUFFICES ASSUME NEW t \in Thread, Step(t) PROVE OverfillBounded'
  BY <1>8 DEF Next
<1>3. pc \in [Thread -> Location]
  BY DEF Inv, TypeOK
\* The size was below the capacity when the place was promised.
<1>4. ASSUME Size(t), pc'[t] = "insert" PROVE OverfillBounded'
  <2>1. resident' = resident /\ Cardinality(resident) <= Capacity - 1
    BY <1>1, <1>3, <1>4 DEF Size
  <2>2. t \notin Reserved /\ Reserved' = Reserved \cup {t}
    BY <1>3, <1>4 DEF Size, Reserved
  <2>3. Cardinality(Reserved') = Cardinality(Reserved) + 1
    BY <1>1, <2>2, FS_AddElement
  <2>4. Cardinality(Reserved) + 1 <= Cardinality(Thread)
    BY <2>2, NotAllReserved
  <2> QED
    BY <1>1, <2>1, <2>3, <2>4 DEF OverfillBounded
\* A key goes, a place is promised.
<1>5. ASSUME Delete(t) PROVE OverfillBounded'
  <2>1. PICK victim \in Key : pool[t] = {victim}
    BY <1>5 DEF Delete, Inv, Shape
  <2>2. victim \in resident /\ resident' = resident \ {victim}
    BY <1>5, <2>1 DEF Delete
  <2>3. Cardinality(resident') = Cardinality(resident) - 1
    BY <1>1, <2>2, FS_RemoveElement
  <2>4. t \notin Reserved /\ Reserved' = Reserved \cup {t}
    BY <1>3, <1>5 DEF Delete, Reserved
  <2>5. Cardinality(Reserved') = Cardinality(Reserved) + 1
    BY <1>1, <2>4, FS_AddElement
  <2> QED
    BY <1>1, <2>3, <2>5, FS_CardinalityType DEF OverfillBounded
\* The promise is used.
<1>6. ASSUME Insert(t) PROVE OverfillBounded'
  <2>1. t \in Reserved /\ Reserved' = Reserved \ {t}
    BY <1>3, <1>6 DEF Insert, Reserved
  <2>2. Cardinality(Reserved') = Cardinality(Reserved) - 1
    BY <1>1, <2>1, FS_RemoveElement
  <2>3. resident' = resident \cup {arg[t]}
    BY <1>6 DEF Insert
  <2>4. Cardinality(resident') <= Cardinality(resident) + 1
    <3>1. CASE arg[t] \in resident
      <4>1. resident' = resident
        BY <2>3, <3>1
      <4> QED
        BY <1>1, <4>1
    <3>2. CASE arg[t] \notin resident
      <4>1. Cardinality(resident \cup {arg[t]}) = Cardinality(resident) + 1
        BY <1>1, <3>2, FS_AddElement
      <4> QED
        BY <1>1, <2>3, <4>1
    <3> QED
      BY <3>1, <3>2
  <2> QED
    BY <1>1, <2>2, <2>3, <2>4 DEF OverfillBounded
\* Every other step leaves the keys alone and promises nothing.
<1>7. ASSUME ~(Size(t) /\ pc'[t] = "insert"), ~Delete(t), ~Insert(t) PROVE OverfillBounded'
  <2>1. resident' = resident
    BY <1>2, <1>7 DEF Step, Put, Size, Evict, Collect, CollectMutated, Visit, VisitGone,
                      Pool, Select, DeleteGone, Survived
  <2>2. Reserved' \subseteq Reserved
    BY <1>2, <1>3, <1>7 DEF Step, Put, Size, Evict, Collect, CollectMutated, Visit, VisitGone,
                      Pool, Select, DeleteGone, Survived, Reserved
  <2>3. Cardinality(Reserved') <= Cardinality(Reserved)
    BY <1>1, <2>2, FS_Subset
  <2> QED
    BY <1>1, <2>1, <2>3 DEF OverfillBounded
<1> QED
  BY <1>4, <1>5, <1>6, <1>7

(* However many threads race, the cache is overfilled by at most one key    *)
(* for each thread beyond the first.                                        *)
THEOREM ThreadsOverfillBounded == Spec => []OverfillBounded
  BY OverfillInit, OverfillStep, Invariance, PTL DEF Spec
=============================================================================
