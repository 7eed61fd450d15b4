------------------------- MODULE FrameCacheProofs --------------------------
(***************************************************************************)
(* Theorems about the cache interface, for every set of keys, every        *)
(* pinning and every positive capacity, which a module that implements     *)
(* CachePolicy inherits; and about the frame-backed caches, which          *)
(* implement it, for any keys, regions, capacity, policy and saturation    *)
(* point.                                                                  *)
(***************************************************************************)
EXTENDS FrameCache, FiniteSetTheorems, TLAPS

\* The interface by itself: any set of resident keys, with or without a door.
CONSTANT Door
VARIABLE resident
Policy == INSTANCE CachePolicy

LEMMA PolicyCardinality ==
    ASSUME NEW S
    PROVE  Policy!Cardinality(S) = Cardinality(S) /\ (Policy!IsFiniteSet(S) <=> IsFiniteSet(S))
  BY DEF Policy!Cardinality, Cardinality, Policy!IsFiniteSet, IsFiniteSet

\* The two definitions of the interface that count keys.
LEMMA PolicyCounts ==
    /\ Policy!WithinCapacity <=> IsFiniteSet(resident) /\ Cardinality(resident) <= Capacity
    /\ Policy!WithinCapacity' <=> IsFiniteSet(resident') /\ Cardinality(resident') <= Capacity
    /\ Policy!Full <=> Cardinality(resident) >= Capacity
    /\ Policy!Full' <=> Cardinality(resident') >= Capacity
  BY PolicyCardinality DEF Policy!WithinCapacity, Policy!Full

(* The types and the capacity bound are inductive together: the bound makes *)
(* the resident set finite, which the cardinality of the next one needs.    *)
PolicySafe == Policy!TypeOK /\ Policy!WithinCapacity

LEMMA PolicyInitSafe == Policy!Init => PolicySafe
  BY FS_EmptySet, PolicyCounts, CapacityAssumption
  DEF Policy!Init, PolicySafe, Policy!TypeOK, Policy!Outcome

LEMMA PolicyStepTypeOK == Policy!TypeOK /\ [Policy!Next]_(Policy!vars) => Policy!TypeOK'
<1> SUFFICES ASSUME Policy!TypeOK, [Policy!Next]_(Policy!vars) PROVE Policy!TypeOK'
  OBVIOUS
<1> USE DEF Policy!TypeOK, Policy!Outcome
<1>1. ASSUME NEW key \in Key, Policy!GetHit(key) \/ Policy!GetMiss(key) PROVE Policy!TypeOK'
  BY <1>1 DEF Policy!GetHit, Policy!GetMiss
<1>2. ASSUME NEW key \in Key, Policy!Put(key) PROVE Policy!TypeOK'
  BY <1>2 DEF Policy!Put, Policy!PutAgain, Policy!PutRoom, Policy!PutTrade,
               Policy!PutTurnedAway, Policy!PutRefused
<1>3. ASSUME NEW key \in Key, Policy!Pin(key) \/ Policy!Unpin(key) PROVE Policy!TypeOK'
  BY <1>3 DEF Policy!Pin, Policy!Unpin
<1>4. CASE UNCHANGED Policy!vars
  BY <1>4 DEF Policy!vars
<1> QED
  BY <1>1, <1>2, <1>3, <1>4 DEF Policy!Next

\* Trading one key of a finite set for a new one keeps its size.
LEMMA TradedSize ==
    ASSUME NEW R, IsFiniteSet(R), NEW victim \in R, NEW key, key \notin R
    PROVE  /\ IsFiniteSet((R \ {victim}) \cup {key})
           /\ Cardinality((R \ {victim}) \cup {key}) = Cardinality(R)
<1> DEFINE rest == R \ {victim}
<1>1. /\ IsFiniteSet(rest) /\ key \notin rest
      /\ Cardinality(rest) = Cardinality(R) - 1
  BY FS_RemoveElement
<1>2. Cardinality(R) \in Nat /\ Cardinality(rest) \in Nat
  BY <1>1, FS_CardinalityType
<1> HIDE DEF rest
<1>3. /\ IsFiniteSet(rest \cup {key})
      /\ Cardinality(rest \cup {key}) = Cardinality(rest) + 1
  BY <1>1, FS_AddElement
<1> QED
  BY <1>1, <1>2, <1>3 DEF rest

(* Trading one key of a full cache for another keeps its size, and adding a *)
(* key to a cache that is not full stays within the capacity.               *)
LEMMA PolicyStepSize ==
    ASSUME Policy!WithinCapacity, [Policy!Next]_(Policy!vars)
    PROVE  /\ Policy!WithinCapacity'
           /\ Policy!Full => Policy!Full'
<1> USE PolicyCounts, CapacityAssumption
<1>1. Cardinality(resident) \in Nat
  BY FS_CardinalityType
<1>2. CASE resident' = resident
  BY <1>2
<1>3. ASSUME NEW key \in Key, Policy!PutRoom(key)
      PROVE  Policy!WithinCapacity' /\ (Policy!Full => Policy!Full')
  <2>1. /\ IsFiniteSet(resident')
        /\ Cardinality(resident') = Cardinality(resident) + 1
    BY <1>3, FS_AddElement DEF Policy!PutRoom
  <2> QED
    BY <1>1, <1>3, <2>1 DEF Policy!PutRoom
<1>4. ASSUME NEW key \in Key, Policy!PutTrade(key)
      PROVE  Policy!WithinCapacity' /\ (Policy!Full => Policy!Full')
  <2>1. PICK victim \in resident \ pinned :
            resident' = (resident \ {victim}) \cup {key}
    BY <1>4 DEF Policy!PutTrade
  <2>2. IsFiniteSet(resident') /\ Cardinality(resident') = Cardinality(resident)
    BY <1>4, <2>1, TradedSize DEF Policy!PutTrade
  <2> QED
    BY <1>1, <2>2
<1> QED
  BY <1>2, <1>3, <1>4
  DEF Policy!Next, Policy!vars, Policy!GetHit, Policy!GetMiss, Policy!Put, Policy!PutAgain,
      Policy!PutTurnedAway, Policy!PutRefused, Policy!Pin, Policy!Unpin

(* At every moment the variables have their types.                          *)
THEOREM PolicyTypes == Policy!Spec => []Policy!TypeOK
<1>1. Policy!Init => Policy!TypeOK
  BY PolicyInitSafe DEF PolicySafe
<1> QED
  BY <1>1, PolicyStepTypeOK, PTL DEF Policy!Spec

(* No cache that keeps the interface ever holds more than Capacity keys.    *)
THEOREM PolicyCapacity == Policy!Spec => []Policy!WithinCapacity
<1>1. Policy!Init => Policy!WithinCapacity
  BY PolicyInitSafe DEF PolicySafe
<1>2. Policy!WithinCapacity /\ [Policy!Next]_(Policy!vars) => Policy!WithinCapacity'
  BY PolicyStepSize
<1> QED
  BY <1>1, <1>2, PTL DEF Policy!Spec

(* No step evicts a pinned key.                                             *)
THEOREM PolicyPinnedStay == Policy!Spec => Policy!PinnedStay
<1>1. [Policy!Next]_(Policy!vars)
          => [resident \cap pinned \subseteq resident']_(Policy!vars)
  BY DEF Policy!Next, Policy!vars, Policy!GetHit, Policy!GetMiss, Policy!Put, Policy!PutAgain,
         Policy!PutRoom, Policy!PutTrade, Policy!PutTurnedAway, Policy!PutRefused,
         Policy!Pin, Policy!Unpin
<1> QED
  BY <1>1, PTL DEF Policy!Spec, Policy!PinnedStay

(* Once full, always full.                                                  *)
THEOREM PolicyFullStaysFull == Policy!Spec => Policy!FullStaysFull
<1>1. Policy!WithinCapacity /\ [Policy!Next]_(Policy!vars)
          => [Policy!Full => Policy!Full']_(Policy!vars)
  BY PolicyStepSize
<1> QED
  BY <1>1, PolicyCapacity, PTL DEF Policy!Spec, Policy!FullStaysFull
-----------------------------------------------------------------------------

(* The empty cache satisfies every invariant.                               *)
LEMMA InitOK == Init => TypeOK /\ RecencyDistinct
  BY DEF Init, TypeOK, RecencyDistinct, Resident, Outcome

(* The victim comes from the candidates.                                    *)
LEMMA VictimIsCandidate == SelectVictim(EvictionPool) \subseteq Candidates
  BY DEF SelectVictim, EvictionPool, Candidates

LEMMA NewFrameType ==
    ASSUME NEW region \in RegionOrNone, NEW now \in Nat
    PROVE  NewFrame(region, now) \in Frame
  BY DEF NewFrame, Frame, RegionOrNone

(* What a hit and a refreshing put make of one frame.                       *)
LEMMA TouchedFrame ==
    ASSUME NEW f \in Frame, NEW query_region \in RegionOrNone, NEW now \in Nat
    PROVE  /\ Touched(f, query_region, now) \in Frame
           /\ Touched(f, query_region, now).recency = now
           /\ Touched(f, query_region, now).access_count = f.access_count + 1
           /\ ~Touched(f, query_region, now).grace
  BY DEF Touched, Frame, RegionOrNone

LEMMA RefreshedFrame ==
    ASSUME NEW f \in Frame, NEW region \in RegionOrNone, NEW now \in Nat
    PROVE  /\ Refreshed(f, region, now) \in Frame
           /\ Refreshed(f, region, now).recency = now
           /\ Refreshed(f, region, now).grace = f.grace
           /\ Refreshed(f, region, now).access_count = f.access_count
  BY DEF Refreshed, Frame, RegionOrNone

(* What put leaves of the frames when it evicts: the new frame, and the old *)
(* ones, the candidates among them without their grace.                     *)
EvictEffect(victim, key, region) ==
    /\ DOMAIN frames' = (Resident \ {victim}) \cup {key}
    /\ frames'[key] = NewFrame(region, clock + 1)
    /\ \A k \in Resident \ {victim} :
          /\ k # key
          /\ frames'[k] \in Frame
          /\ frames'[k].recency = frames[k].recency
          /\ frames'[k].access_count = frames[k].access_count
          /\ frames'[k].grace <=> frames[k].grace /\ k \in pinned

LEMMA EvictFrames ==
    ASSUME TypeOK, NEW key \in Key, NEW region \in RegionOrNone,
           PutEvict(key, region)
    PROVE  \E victim \in Candidates : EvictEffect(victim, key, region)
<1>1. PICK victim \in SelectVictim(EvictionPool) :
          frames' = [k \in (Resident \ {victim}) \cup {key} |->
                        IF k = key THEN NewFrame(region, clock + 1) ELSE AfterEviction(k)]
  BY DEF PutEvict
<1>2. victim \in Candidates
  BY VictimIsCandidate
<1>3. DOMAIN frames' = (Resident \ {victim}) \cup {key}
  BY <1>1
<1>4. frames'[key] = NewFrame(region, clock + 1)
  BY <1>1
<1>5. ASSUME NEW k \in Resident \ {victim}
      PROVE  /\ k # key
             /\ frames'[k] \in Frame
             /\ frames'[k].recency = frames[k].recency
             /\ frames'[k].access_count = frames[k].access_count
             /\ frames'[k].grace <=> frames[k].grace /\ k \in pinned
  <2>1. k # key
    BY DEF PutEvict
  <2>2. frames[k] \in Frame
    BY DEF TypeOK
  <2>3. frames'[k] = IF k \in pinned THEN frames[k] ELSE [frames[k] EXCEPT !.grace = FALSE]
    BY <1>1, <2>1 DEF AfterEviction, Candidates
  <2> QED
    BY <2>1, <2>2, <2>3 DEF Frame
<1> QED
  BY <1>2, <1>3, <1>4, <1>5 DEF EvictEffect

(* The same for get and put of a resident key: one frame is stamped.        *)
LEMMA HitFrames ==
    ASSUME TypeOK, NEW key \in Key, NEW query_region \in RegionOrNone,
           GetHit(key, query_region)
    PROVE  /\ DOMAIN frames' = Resident
           /\ frames'[key] \in Frame
           /\ frames'[key].recency = clock + 1
           /\ frames'[key].access_count = frames[key].access_count + 1
           /\ ~frames'[key].grace
           /\ \A k \in Resident \ {key} : frames'[k] = frames[k]
<1>1. key \in Resident /\ frames[key] \in Frame /\ clock \in Nat
  BY DEF GetHit, TypeOK
<1>2. frames' = [frames EXCEPT ![key] = Touched(frames[key], query_region, clock + 1)]
  BY DEF GetHit
<1>3. frames'[key] = Touched(frames[key], query_region, clock + 1)
  BY <1>1, <1>2 DEF Resident
<1> QED
  BY <1>1, <1>2, <1>3, TouchedFrame DEF Resident

LEMMA AgainFrames ==
    ASSUME TypeOK, NEW key \in Key, NEW region \in RegionOrNone,
           PutAgain(key, region)
    PROVE  /\ DOMAIN frames' = Resident
           /\ frames'[key] \in Frame
           /\ frames'[key].recency = clock + 1
           /\ frames'[key].grace = frames[key].grace
           /\ frames'[key].access_count = frames[key].access_count
           /\ \A k \in Resident \ {key} : frames'[k] = frames[k]
<1>1. key \in Resident /\ frames[key] \in Frame /\ clock \in Nat
  BY DEF PutAgain, TypeOK
<1>2. frames' = [frames EXCEPT ![key] = Refreshed(frames[key], region, clock + 1)]
  BY DEF PutAgain
<1>3. frames'[key] = Refreshed(frames[key], region, clock + 1)
  BY <1>1, <1>2 DEF Resident
<1> QED
  BY <1>1, <1>2, <1>3, RefreshedFrame DEF Resident

LEMMA RoomFrames ==
    ASSUME TypeOK, NEW key \in Key, NEW region \in RegionOrNone,
           PutRoom(key, region)
    PROVE  /\ DOMAIN frames' = Resident \cup {key}
           /\ frames'[key] = NewFrame(region, clock + 1)
           /\ \A k \in Resident : k # key /\ frames'[k] = frames[k]
  BY DEF PutRoom, Resident

(* The actions that leave the frames alone.                                 *)
LEMMA StillFrames ==
    ASSUME NEW key \in Key,
           GetMiss(key) \/ PutRefused(key) \/ Pin(key) \/ Unpin(key)
             \/ UNCHANGED vars
    PROVE  frames' = frames
  BY DEF GetMiss, PutRefused, Pin, Unpin, vars

(* A step is one of six kinds, as far as the frames are concerned.          *)
LEMMA StepKinds ==
    ASSUME [Next]_vars
    PROVE  \/ \E key \in Key, region \in RegionOrNone :
                 \/ GetHit(key, region)
                 \/ PutAgain(key, region)
                 \/ PutRoom(key, region)
                 \/ PutEvict(key, region)
           \/ \E key \in Key :
                 GetMiss(key) \/ PutRefused(key) \/ Pin(key) \/ Unpin(key)
           \/ UNCHANGED vars
  BY DEF Next, Get, Put

(* What every step does to the variables other than frames.                 *)
LEMMA StepScalars ==
    ASSUME TypeOK, [Next]_vars
    PROVE  /\ policy' \in Policies
           /\ clock' \in Nat /\ clock <= clock'
           /\ hits' \in Nat
           /\ misses' \in Nat
           /\ pinned' \subseteq Key
           /\ outcome' \in Outcome
<1>1. /\ policy \in Policies /\ clock \in Nat /\ hits \in Nat /\ misses \in Nat
      /\ pinned \subseteq Key /\ outcome \in Outcome
  BY DEF TypeOK
<1>2. ASSUME NEW key \in Key, NEW region \in RegionOrNone,
             GetHit(key, region) \/ PutAgain(key, region)
               \/ PutRoom(key, region) \/ PutEvict(key, region)
      PROVE  /\ clock' = clock + 1
             /\ hits' \in {hits, hits + 1}
             /\ UNCHANGED <<policy, misses, pinned>>
             /\ outcome' \in Outcome
  BY <1>2 DEF GetHit, PutAgain, PutRoom, PutEvict, Tick, Outcome
<1>3. ASSUME NEW key \in Key, GetMiss(key) \/ PutRefused(key)
      PROVE  /\ clock' = clock + 1
             /\ misses' \in {misses, misses + 1}
             /\ UNCHANGED <<policy, hits, pinned>>
             /\ outcome' \in Outcome
  BY <1>3 DEF GetMiss, PutRefused, Tick, Outcome
<1>4. ASSUME NEW key \in Key, Pin(key) \/ Unpin(key)
      PROVE  /\ UNCHANGED <<policy, clock, hits, misses>>
             /\ pinned' \subseteq Key
             /\ outcome' \in Outcome
  BY <1>1, <1>4 DEF Pin, Unpin, Outcome
<1>5. CASE UNCHANGED vars
  BY <1>1, <1>5 DEF vars
<1> QED
  BY <1>1, <1>2, <1>3, <1>4, <1>5, StepKinds

FramesOK == /\ DOMAIN frames \subseteq Key
            /\ \A k \in DOMAIN frames :
                  frames[k] \in Frame /\ frames[k].recency <= clock

LEMMA StepFramesOK ==
    ASSUME TypeOK, [Next]_vars
    PROVE  FramesOK'
<1>1. /\ clock \in Nat /\ clock' \in Nat /\ clock <= clock'
      /\ DOMAIN frames \subseteq Key
      /\ \A k \in DOMAIN frames :
            /\ frames[k] \in Frame
            /\ frames[k].recency \in Nat
            /\ frames[k].recency <= clock
  BY StepScalars DEF TypeOK, Resident, Frame
<1>2. \A k \in DOMAIN frames : frames[k].recency <= clock'
  BY <1>1
<1>3. ASSUME NEW key \in Key, NEW region \in RegionOrNone, GetHit(key, region)
      PROVE  FramesOK'
  <2>1. /\ DOMAIN frames' = DOMAIN frames
        /\ frames'[key] \in Frame /\ frames'[key].recency = clock + 1
        /\ \A k \in DOMAIN frames \ {key} : frames'[k] = frames[k]
    BY <1>3, HitFrames DEF Resident
  <2>2. clock' = clock + 1
    BY <1>3 DEF GetHit, Tick
  <2> QED
    BY <1>1, <1>2, <2>1, <2>2 DEF FramesOK
<1>4. ASSUME NEW key \in Key, NEW region \in RegionOrNone, PutAgain(key, region)
      PROVE  FramesOK'
  <2>1. /\ DOMAIN frames' = DOMAIN frames
        /\ frames'[key] \in Frame /\ frames'[key].recency = clock + 1
        /\ \A k \in DOMAIN frames \ {key} : frames'[k] = frames[k]
    BY <1>4, AgainFrames DEF Resident
  <2>2. clock' = clock + 1
    BY <1>4 DEF PutAgain, Tick
  <2> QED
    BY <1>1, <1>2, <2>1, <2>2 DEF FramesOK
<1>5. ASSUME NEW key \in Key, NEW region \in RegionOrNone, PutRoom(key, region)
      PROVE  FramesOK'
  <2>1. /\ DOMAIN frames' = DOMAIN frames \cup {key}
        /\ frames'[key] = NewFrame(region, clock + 1)
        /\ \A k \in DOMAIN frames : frames'[k] = frames[k]
    BY <1>5, RoomFrames DEF Resident
  <2>2. clock' = clock + 1
    BY <1>5 DEF PutRoom, Tick
  <2>3. NewFrame(region, clock + 1) \in Frame
    BY <1>1, NewFrameType
  <2>4. NewFrame(region, clock + 1).recency = clock + 1
    BY DEF NewFrame
  <2> QED
    BY <1>1, <1>2, <2>1, <2>2, <2>3, <2>4 DEF FramesOK
<1>6. ASSUME NEW key \in Key, NEW region \in RegionOrNone, PutEvict(key, region)
      PROVE  FramesOK'
  <2>1. PICK victim \in Candidates : EvictEffect(victim, key, region)
    BY <1>6, EvictFrames
  <2>2. clock' = clock + 1
    BY <1>6 DEF PutEvict, Tick
  <2>3. NewFrame(region, clock + 1) \in Frame
    BY <1>1, NewFrameType
  <2>4. NewFrame(region, clock + 1).recency = clock + 1
    BY DEF NewFrame
  <2>5. DOMAIN frames' \subseteq Key
    BY <1>1, <2>1 DEF Resident, EvictEffect
  <2>6. \A k \in DOMAIN frames' : frames'[k] \in Frame /\ frames'[k].recency <= clock'
    BY <1>1, <1>2, <2>1, <2>2, <2>3, <2>4 DEF Resident, EvictEffect
  <2> QED
    BY <2>5, <2>6 DEF FramesOK
<1>7. CASE frames' = frames
  BY <1>1, <1>2, <1>7 DEF FramesOK
<1> QED
  BY <1>3, <1>4, <1>5, <1>6, <1>7, StepKinds, StillFrames DEF vars

LEMMA StepTypeOK ==
    ASSUME TypeOK, [Next]_vars
    PROVE  TypeOK'
  BY StepScalars, StepFramesOK DEF TypeOK, FramesOK, Resident

(* A frame is stamped with a clock value no frame has had before, and keeps *)
(* its stamp until its next use: this is why stamps stay distinct.          *)
LEMMA StepRecencyDistinct ==
    ASSUME TypeOK, RecencyDistinct, [Next]_vars
    PROVE  RecencyDistinct'
<1>1. \A k \in DOMAIN frames : frames[k].recency # clock + 1
  <2>1. clock \in Nat
    BY DEF TypeOK
  <2>2. \A k \in DOMAIN frames :
           frames[k].recency \in Nat /\ frames[k].recency <= clock
    BY DEF TypeOK, Frame, Resident
  <2> QED
    BY <2>1, <2>2
<1>2. \A j, k \in DOMAIN frames : frames[j].recency = frames[k].recency => j = k
  BY DEF RecencyDistinct, Resident
<1>3. ASSUME NEW key \in Key, DOMAIN frames' \subseteq DOMAIN frames \cup {key},
             frames'[key].recency = clock + 1,
             \A k \in DOMAIN frames' \ {key} : frames'[k].recency = frames[k].recency
      PROVE  RecencyDistinct'
  <2>1. ASSUME NEW j \in DOMAIN frames', NEW k \in DOMAIN frames',
               frames'[j].recency = frames'[k].recency
        PROVE  j = k
    <3>1. CASE j = key
      BY <1>1, <1>3, <2>1, <3>1
    <3>2. CASE k = key
      BY <1>1, <1>3, <2>1, <3>2
    <3>3. CASE j # key /\ k # key
      BY <1>2, <1>3, <2>1, <3>3
    <3> QED
      BY <3>1, <3>2, <3>3
  <2> QED
    BY <2>1 DEF RecencyDistinct, Resident
<1>4. ASSUME NEW key \in Key, NEW region \in RegionOrNone, GetHit(key, region)
      PROVE  RecencyDistinct'
  BY <1>3, <1>4, HitFrames DEF Resident
<1>5. ASSUME NEW key \in Key, NEW region \in RegionOrNone, PutAgain(key, region)
      PROVE  RecencyDistinct'
  BY <1>3, <1>5, AgainFrames DEF Resident
<1>6. ASSUME NEW key \in Key, NEW region \in RegionOrNone, PutRoom(key, region)
      PROVE  RecencyDistinct'
  <2>1. frames'[key].recency = clock + 1
    <3>1. frames'[key] = NewFrame(region, clock + 1)
      BY <1>6, RoomFrames
    <3> QED
      BY <3>1 DEF NewFrame
  <2> QED
    BY <1>3, <1>6, <2>1, RoomFrames DEF Resident
<1>7. ASSUME NEW key \in Key, NEW region \in RegionOrNone, PutEvict(key, region)
      PROVE  RecencyDistinct'
  <2>1. PICK victim \in Candidates : EvictEffect(victim, key, region)
    BY <1>7, EvictFrames
  <2>2. frames'[key].recency = clock + 1
    BY <2>1 DEF NewFrame, EvictEffect
  <2> QED
    BY <1>3, <2>1, <2>2 DEF Resident, EvictEffect
<1>8. CASE frames' = frames
  BY <1>2, <1>8 DEF RecencyDistinct, Resident
<1> QED
  BY <1>4, <1>5, <1>6, <1>7, <1>8, StepKinds, StillFrames DEF vars

(* The variables of every frame cache keep their types, and no recency      *)
(* stamp runs ahead of the clock.                                           *)
THEOREM FrameCacheTypes == Spec => []TypeOK
<1>1. Init => TypeOK
  BY InitOK
<1>2. TypeOK /\ [Next]_vars => TypeOK'
  BY StepTypeOK
<1> QED
  BY <1>1, <1>2, PTL DEF Spec

(* For any capacity and any history of calls, stamps are distinct, so the   *)
(* victim of an eviction is one frame and no order of the dictionary        *)
(* matters.                                                                 *)
THEOREM FrameCacheRecencyDistinct == Spec => []RecencyDistinct
<1>1. Init => RecencyDistinct
  BY InitOK
<1>2. TypeOK /\ RecencyDistinct /\ [Next]_vars => RecencyDistinct'
  BY StepRecencyDistinct
<1> QED
  BY <1>1, <1>2, FrameCacheTypes, PTL DEF Spec

(* A key leaves the cache only through put of a new key into a full cache.  *)
LEMMA OnlyEvictionRemoves ==
    ASSUME TypeOK, [Next]_vars, NEW k \in Key, Evicted(k)
    PROVE  \E key \in Key, region \in RegionOrNone : PutEvict(key, region)
<1>1. ~(DOMAIN frames \subseteq DOMAIN frames')
  BY DEF Evicted, Resident
<1>2. ASSUME NEW key \in Key, NEW region \in RegionOrNone,
             GetHit(key, region) \/ PutAgain(key, region) \/ PutRoom(key, region)
      PROVE  DOMAIN frames \subseteq DOMAIN frames'
  BY <1>2, HitFrames, AgainFrames, RoomFrames DEF Resident
<1>3. CASE frames' = frames
  BY <1>1, <1>3
<1> QED
  BY <1>1, <1>2, <1>3, StepKinds, StillFrames

(* A fresh frame goes only when no unpinned frame that stays is proven.     *)
THEOREM FrameCacheFreshSpared == Spec => FreshSpared
<1> DEFINE Sparing == \A j, k \in Key :
                 Evicted(k) /\ frames[k].grace /\ Spared(j) => frames[j].grace
<1>1. ASSUME TypeOK, [Next]_vars
      PROVE  [Sparing]_vars
  <2> SUFFICES ASSUME NEW j \in Key, NEW k \in Key,
                      Evicted(k), frames[k].grace, Spared(j)
               PROVE  frames[j].grace
    OBVIOUS
  <2>1. ASSUME NEW key \in Key, NEW region \in RegionOrNone, PutEvict(key, region)
        PROVE  frames[j].grace
    <3>1. PICK victim \in SelectVictim(EvictionPool) :
              DOMAIN frames' = (Resident \ {victim}) \cup {key}
      BY <2>1 DEF PutEvict
    <3>2. k = victim
      BY <3>1 DEF Evicted
    <3>3. k \in EvictionPool /\ j \in Candidates
      BY <3>1, <3>2 DEF SelectVictim, Spared, Candidates
    <3> QED
      BY <3>3 DEF EvictionPool
  <2> QED
    BY <1>1, <2>1, OnlyEvictionRemoves
<1> QED
  BY <1>1, FrameCacheTypes, PTL DEF Spec, FreshSpared

(* What a step may do to the grace of a frame that stays.                   *)
GraceOf(k) ==
    /\ frames'[k].grace =>
          /\ frames[k].grace
          /\ frames'[k].access_count = frames[k].access_count
          /\ \A j \in Key : Evicted(j) => k \in pinned
    /\ frames[k].grace /\ ~frames'[k].grace =>
          \/ frames'[k].access_count > frames[k].access_count
          \/ \E j \in Key : Evicted(j)

(* Grace lasts exactly one eviction event: an eviction ends it for every    *)
(* unpinned frame that stays, and nothing else but a hit ends it.           *)
THEOREM FrameCacheGraceLastsOneEviction == Spec => GraceLastsOneEviction
<1>1. ASSUME TypeOK, [Next]_vars, NEW k \in Resident \cap DOMAIN frames'
      PROVE  GraceOf(k)
  <2>1. frames[k] \in Frame /\ k \in Key
    BY <1>1 DEF TypeOK
  <2>2. ASSUME frames'[k] = frames[k], DOMAIN frames \subseteq DOMAIN frames'
        PROVE  GraceOf(k)
    BY <2>2 DEF GraceOf, Evicted, Resident
  <2>3. ASSUME NEW key \in Key, NEW region \in RegionOrNone, GetHit(key, region)
        PROVE  GraceOf(k)
    <3>1. CASE k = key
      <4>1. ~frames'[k].grace /\ frames'[k].access_count = frames[k].access_count + 1
        BY <1>1, <2>3, <3>1, HitFrames
      <4>2. frames[k].access_count \in Nat
        BY <2>1 DEF Frame
      <4> QED
        BY <4>1, <4>2 DEF GraceOf
    <3>2. CASE k # key
      BY <1>1, <2>2, <2>3, <3>2, HitFrames DEF Resident
    <3> QED
      BY <3>1, <3>2
  <2>4. ASSUME NEW key \in Key, NEW region \in RegionOrNone, PutAgain(key, region)
        PROVE  GraceOf(k)
    <3>1. CASE k = key
      <4>1. /\ frames'[k].grace = frames[k].grace
            /\ frames'[k].access_count = frames[k].access_count
            /\ DOMAIN frames' = DOMAIN frames
        BY <1>1, <2>4, <3>1, AgainFrames DEF Resident
      <4> QED
        BY <4>1 DEF GraceOf, Evicted, Resident
    <3>2. CASE k # key
      BY <1>1, <2>2, <2>4, <3>2, AgainFrames DEF Resident
    <3> QED
      BY <3>1, <3>2
  <2>5. ASSUME NEW key \in Key, NEW region \in RegionOrNone, PutRoom(key, region)
        PROVE  GraceOf(k)
    BY <1>1, <2>2, <2>5, RoomFrames DEF Resident
  <2>6. ASSUME NEW key \in Key, NEW region \in RegionOrNone, PutEvict(key, region)
        PROVE  GraceOf(k)
    <3>1. PICK victim \in Candidates : EvictEffect(victim, key, region)
      BY <1>1, <2>6, EvictFrames
    <3>2. victim \in Key /\ Evicted(victim)
      BY <1>1, <2>6, <3>1 DEF EvictEffect, Evicted, Candidates, PutEvict, TypeOK
    <3>3. k # victim
      BY <1>1, <3>2 DEF Evicted
    <3>4. /\ frames'[k].access_count = frames[k].access_count
          /\ frames'[k].grace <=> frames[k].grace /\ k \in pinned
      BY <1>1, <3>1, <3>3 DEF EvictEffect
    <3> QED
      BY <3>2, <3>4 DEF GraceOf
  <2>7. CASE frames' = frames
    BY <2>2, <2>7
  <2>8. ASSUME NEW key \in Key, GetMiss(key) \/ PutRefused(key) \/ Pin(key) \/ Unpin(key)
        PROVE  GraceOf(k)
    BY <2>7, <2>8, StillFrames
  <2>9. CASE UNCHANGED vars
    BY <2>7, <2>9 DEF vars
  <2> QED
    BY <1>1, <2>3, <2>4, <2>5, <2>6, <2>8, <2>9, StepKinds
<1>2. TypeOK /\ [Next]_vars
        => [\A k \in Resident \cap DOMAIN frames' :
              /\ frames'[k].grace =>
                    /\ frames[k].grace
                    /\ frames'[k].access_count = frames[k].access_count
                    /\ \A j \in Key : Evicted(j) => k \in pinned
              /\ frames[k].grace /\ ~frames'[k].grace =>
                    \/ frames'[k].access_count > frames[k].access_count
                    \/ \E j \in Key : Evicted(j)]_vars
  BY <1>1 DEF GraceOf
<1> QED
  BY <1>2, FrameCacheTypes, PTL DEF Spec, GraceLastsOneEviction

(* What a match of regions is worth: a frame that has one and is still no   *)
(* better than a frame without one is behind it by that much in frequency.  *)
LEMMA MatchWorth ==
    ASSUME policy = "SCADS", NEW f \in Frame, NEW g \in Frame,
           NoWorseVictim(f, g), Matched(f), ~Matched(g)
    PROVE  60 * Saturated(g.access_count) >= 60 * Saturated(f.access_count) + 32 * FreqCap
<1>1. Worth(f) = FrameScore(f) /\ Worth(g) = FrameScore(g)
  BY DEF Worth
<1>2. GeoMatch(f) /\ ~GeoMatch(g)
  BY DEF Matched, GeoMatch
<1>3. /\ FrameScore(f) = 60 * Saturated(f.access_count) + FreqCap * 40
      /\ FrameScore(g) = 60 * Saturated(g.access_count) + FreqCap * 8
  BY <1>2 DEF FrameScore
<1>4. FreqCap \in Nat /\ Saturated(f.access_count) \in Nat /\ Saturated(g.access_count) \in Nat
  BY FreqCapAssumption DEF Frame, Saturated
<1>5. FrameScore(f) <= FrameScore(g)
  <2>1. FrameScore(f) \in Nat /\ FrameScore(g) \in Nat
    BY <1>3, <1>4
  <2> QED
    BY <1>1, <2>1 DEF NoWorseVictim
<1> QED
  BY <1>3, <1>4, <1>5

(* SCADSCache gives up a proven frame that was asked for from its own       *)
(* region, and keeps a proven one that was not, only if the latter is ahead *)
(* in frequency by the 0.32 of score that the match is worth.               *)
THEOREM FrameCacheGeoMatchOutweighs == Spec => GeoMatchOutweighs
<1> DEFINE Outweighed ==
             \A j, k \in Key :
                /\ policy = "SCADS"
                /\ Evicted(k) /\ ~frames[k].grace /\ Matched(frames[k])
                /\ Spared(j) /\ ~frames[j].grace /\ ~Matched(frames[j])
                => 60 * Saturated(frames[j].access_count)
                     >= 60 * Saturated(frames[k].access_count) + 32 * FreqCap
<1>1. ASSUME TypeOK, [Next]_vars
      PROVE  [Outweighed]_vars
  <2> SUFFICES ASSUME NEW j \in Key, NEW k \in Key, policy = "SCADS",
                      Evicted(k), ~frames[k].grace, Matched(frames[k]),
                      Spared(j), ~frames[j].grace, ~Matched(frames[j])
               PROVE  60 * Saturated(frames[j].access_count)
                        >= 60 * Saturated(frames[k].access_count) + 32 * FreqCap
    OBVIOUS
  <2>1. PICK key \in Key, region \in RegionOrNone : PutEvict(key, region)
    BY <1>1, OnlyEvictionRemoves
  <2>2. k \in SelectVictim(EvictionPool)
    <3>1. PICK victim \in SelectVictim(EvictionPool) :
              DOMAIN frames' = (Resident \ {victim}) \cup {key}
      BY <2>1 DEF PutEvict
    <3> QED
      BY <3>1 DEF Evicted
  <2>3. j \in EvictionPool
    BY DEF Spared, EvictionPool, Candidates
  <2>4. NoWorseVictim(frames[k], frames[j])
    BY <2>2, <2>3 DEF SelectVictim
  <2>5. frames[k] \in Frame /\ frames[j] \in Frame
    BY <1>1 DEF TypeOK, Evicted, Spared
  <2> QED
    BY <2>4, <2>5, MatchWorth
<1> QED
  BY <1>1, FrameCacheTypes, PTL DEF Spec, GeoMatchOutweighs

(* The interface counts keys as this module does.                           *)
LEMMA SameCardinality ==
    ASSUME NEW S
    PROVE  Abstract!Cardinality(S) = Cardinality(S)
  BY DEF Abstract!Cardinality, Cardinality

(* Every frame cache implements the cache interface: LRUCache, LFUCache and *)
(* SCADSCache do nothing that the interface does not allow.                 *)
THEOREM FrameCacheImplementsPolicy == Spec => ImplementsPolicy
<1>1. Init => Abstract!Init
  BY DEF Init, Abstract!Init, Resident
<1>2. ASSUME TypeOK, [Next]_vars
      PROVE  [Abstract!Next]_(Abstract!vars)
  <2>0. Abstract!Full <=> Cardinality(Resident) >= Capacity
    BY SameCardinality DEF Abstract!Full
  <2>1. ASSUME NEW key \in Key, NEW region \in RegionOrNone, GetHit(key, region)
        PROVE  Abstract!GetHit(key)
    BY <1>2, <2>1, HitFrames DEF GetHit, Abstract!GetHit, Resident
  <2>2. ASSUME NEW key \in Key, GetMiss(key)
        PROVE  Abstract!GetMiss(key)
    BY <2>2 DEF GetMiss, Abstract!GetMiss, Resident
  <2>3. ASSUME NEW key \in Key, NEW region \in RegionOrNone, PutAgain(key, region)
        PROVE  Abstract!PutAgain(key)
    BY <1>2, <2>3, AgainFrames DEF PutAgain, Abstract!PutAgain, Resident
  <2>4. ASSUME NEW key \in Key, NEW region \in RegionOrNone, PutRoom(key, region)
        PROVE  Abstract!PutRoom(key)
    <3>1. Resident \in SUBSET Key
      BY <1>2 DEF TypeOK
    <3>2. Cardinality(Resident) \in Nat
      BY <3>1, KeyAssumption, FS_Subset, FS_CardinalityType
    <3>3. Resident' = Resident \cup {key}
      BY <1>2, <2>4, RoomFrames DEF Resident
    <3> QED
      BY <2>0, <2>4, <3>2, <3>3, CapacityAssumption DEF PutRoom, Abstract!PutRoom
  <2>5. ASSUME NEW key \in Key, NEW region \in RegionOrNone, PutEvict(key, region)
        PROVE  Abstract!PutTrade(key)
    <3>1. PICK victim \in Candidates : EvictEffect(victim, key, region)
      BY <1>2, <2>5, EvictFrames
    <3>2. Resident' = (Resident \ {victim}) \cup {key}
      BY <3>1 DEF EvictEffect, Resident
    <3>3. victim \in Resident \ pinned
      BY <3>1 DEF Candidates
    <3> QED
      BY <2>0, <2>5, <3>2, <3>3 DEF PutEvict, Abstract!PutTrade
  <2>6. ASSUME NEW key \in Key, PutRefused(key)
        PROVE  Abstract!PutRefused(key)
    <3>1. Resident \subseteq pinned
      BY <2>6 DEF PutRefused, Candidates
    <3>2. Resident' = Resident
      BY <2>6 DEF PutRefused, Resident
    <3> QED
      BY <2>0, <2>6, <3>1, <3>2 DEF PutRefused, Abstract!PutRefused
  <2>7. ASSUME NEW key \in Key, Pin(key)
        PROVE  Abstract!Pin(key)
    BY <2>7 DEF Pin, Abstract!Pin, Resident
  <2>8. ASSUME NEW key \in Key, Unpin(key)
        PROVE  Abstract!Unpin(key)
    BY <2>8 DEF Unpin, Abstract!Unpin, Resident
  <2>9. CASE UNCHANGED vars
    BY <2>9 DEF vars, Abstract!vars, Resident
  <2>10. ASSUME NEW key \in Key, NEW region \in RegionOrNone,
                \/ GetHit(key, region)
                \/ PutAgain(key, region)
                \/ PutRoom(key, region)
                \/ PutEvict(key, region)
         PROVE  Abstract!Next
    BY <2>1, <2>3, <2>4, <2>5, <2>10 DEF Abstract!Next, Abstract!Put
  <2>11. ASSUME NEW key \in Key,
                GetMiss(key) \/ PutRefused(key) \/ Pin(key) \/ Unpin(key)
         PROVE  Abstract!Next
    BY <2>2, <2>6, <2>7, <2>8, <2>11 DEF Abstract!Next, Abstract!Put
  <2> QED
    BY <1>2, <2>9, <2>10, <2>11, StepKinds
<1> QED
  BY <1>1, <1>2, FrameCacheTypes, PTL DEF Spec, ImplementsPolicy, Abstract!Spec
-----------------------------------------------------------------------------
(* What callers rely on, drawn from the refinement: never more keys than    *)
(* the capacity, no pinned key taken out, and a full cache stays full.      *)
LEMMA PromisesCount ==
    /\ Abstract!WithinCapacity <=> IsFiniteSet(Resident) /\ Cardinality(Resident) <= Capacity
    /\ Abstract!WithinCapacity'
           <=> IsFiniteSet(Resident') /\ Cardinality(Resident') <= Capacity
    /\ Abstract!Full <=> Cardinality(Resident) >= Capacity
    /\ Abstract!Full' <=> Cardinality(Resident') >= Capacity
  BY DEF Abstract!WithinCapacity, Abstract!Full, Abstract!IsFiniteSet, IsFiniteSet,
         Abstract!Cardinality, Cardinality

LEMMA PromisesKept ==
    ASSUME Abstract!WithinCapacity, [Abstract!Next]_(Abstract!vars)
    PROVE  /\ Abstract!WithinCapacity'
           /\ Resident \cap pinned \subseteq Resident'
           /\ Abstract!Full => Abstract!Full'
<1> USE PromisesCount, CapacityAssumption
<1>1. IsFiniteSet(Resident) /\ Cardinality(Resident) \in Nat
  BY FS_CardinalityType
<1>2. CASE Resident' = Resident
  BY <1>2
<1>3. ASSUME NEW key, Abstract!PutRoom(key)
      PROVE  /\ Abstract!WithinCapacity' /\ (Abstract!Full => Abstract!Full')
             /\ Resident \cap pinned \subseteq Resident'
  <2>1. /\ IsFiniteSet(Resident \cup {key})
        /\ Cardinality(Resident \cup {key}) = Cardinality(Resident) + 1
    BY <1>1, <1>3, FS_AddElement DEF Abstract!PutRoom
  <2>2. Resident' = Resident \cup {key} /\ ~Abstract!Full
    BY <1>3 DEF Abstract!PutRoom
  <2> QED
    BY <1>1, <2>1, <2>2
<1>4. ASSUME NEW key, Abstract!PutTrade(key)
      PROVE  /\ Abstract!WithinCapacity' /\ (Abstract!Full => Abstract!Full')
             /\ Resident \cap pinned \subseteq Resident'
  <2>1. PICK victim \in Resident \ pinned :
            Resident' = (Resident \ {victim}) \cup {key}
    BY <1>4 DEF Abstract!PutTrade
  <2>2. IsFiniteSet(Resident') /\ Cardinality(Resident') = Cardinality(Resident)
    BY <1>1, <1>4, <2>1, TradedSize DEF Abstract!PutTrade
  <2> QED
    BY <2>1, <2>2
<1> QED
  BY <1>2, <1>3, <1>4
  DEF Abstract!Next, Abstract!vars, Abstract!GetHit, Abstract!GetMiss, Abstract!Put,
      Abstract!PutAgain, Abstract!PutTurnedAway, Abstract!PutRefused, Abstract!Pin, Abstract!Unpin

(* LRUCache, LFUCache and SCADSCache keep the promises of the interface.    *)
THEOREM FrameCacheKeepsPromises ==
    Spec => []Abstract!WithinCapacity /\ Abstract!PinnedStay /\ Abstract!FullStaysFull
<1>1. Abstract!Init => Abstract!WithinCapacity
  BY FS_EmptySet, PromisesCount, CapacityAssumption DEF Abstract!Init
<1>2. Abstract!WithinCapacity /\ [Abstract!Next]_(Abstract!vars) => Abstract!WithinCapacity'
  BY PromisesKept
<1>3. Abstract!WithinCapacity /\ [Abstract!Next]_(Abstract!vars)
          => /\ [Resident \cap pinned \subseteq Resident']_(Abstract!vars)
             /\ [Abstract!Full => Abstract!Full']_(Abstract!vars)
  BY PromisesKept
<1> QED
  BY <1>1, <1>2, <1>3, FrameCacheImplementsPolicy, PTL
  DEF ImplementsPolicy, Abstract!Spec, Abstract!PinnedStay, Abstract!FullStaysFull
=============================================================================
