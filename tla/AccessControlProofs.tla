------------------------ MODULE AccessControlProofs ------------------------
(***************************************************************************)
(* The access policy under any number of threads, roles, keys and calls.   *)
(* The inductive invariant IInv has four layers, each preserved with the   *)
(* help of those before it: types; every set a thread can still reach      *)
(* holds only what its role has been granted (OnlyLive); a question has    *)
(* seen everything it can answer with (AskersSee); and a grant that        *)
(* nothing has overlapped works on the set in force (GrantsHold).          *)
(***************************************************************************)
EXTENDS AccessControl, TLAPS

USE MaxCallsAssumption, NoneAssumption, DomainAssumption

SetObject == [role : Role, keys : SUBSET Key]
-----------------------------------------------------------------------------
\* set.add: one object gains a key, the others stay.
LEMMA AddKey ==
  ASSUME object \in Seq(SetObject), NEW i \in DOMAIN object, NEW key \in Key,
         object' = [object EXCEPT ![i].keys = @ \cup {key}]
  PROVE  /\ object' \in Seq(SetObject)
         /\ DOMAIN object' = DOMAIN object
         /\ object'[i].keys = object[i].keys \cup {key}
         /\ \A j \in DOMAIN object : object'[j].role = object[j].role
         /\ \A j \in DOMAIN object : j # i => object'[j] = object[j]
<1>1. /\ DOMAIN object = 1 .. Len(object)
      /\ Len(object) \in Nat
      /\ \A j \in DOMAIN object : object[j] \in SetObject
  OBVIOUS
<1>2. object[i].role \in Role /\ object[i].keys \in SUBSET Key
  BY <1>1 DEF SetObject
<1>3. DOMAIN object' = DOMAIN object /\ object'[i] = [object[i] EXCEPT !.keys = @ \cup {key}]
  OBVIOUS
<1>4. object'[i] = [role |-> object[i].role, keys |-> object[i].keys \cup {key}]
  BY <1>1, <1>3 DEF SetObject
<1>5. \A j \in DOMAIN object : j # i => object'[j] = object[j]
  OBVIOUS
<1>6. object' \in [1 .. Len(object) -> SetObject]
  BY <1>1, <1>2, <1>3, <1>4, <1>5 DEF SetObject
<1>7. \A j \in DOMAIN object : object'[j].role = object[j].role
  BY <1>4, <1>5
<1>8. object'[i].keys = object[i].keys \cup {key}
  BY <1>4
<1>9. object' \in Seq(SetObject)
  BY <1>1, <1>6
<1> QED
  BY <1>3, <1>5, <1>7, <1>8, <1>9

\* A new object gets the next number.
LEMMA NewObject ==
  ASSUME object \in Seq(SetObject), NEW role \in Role,
         object' = Append(object, [role |-> role, keys |-> {}])
  PROVE  /\ object' \in Seq(SetObject)
         /\ DOMAIN object' = DOMAIN object \cup {Len(object) + 1}
         /\ Len(object) + 1 \in Nat
         /\ Len(object) + 1 \notin DOMAIN object
         /\ object'[Len(object) + 1].role = role
         /\ object'[Len(object) + 1].keys = {}
         /\ \A j \in DOMAIN object : object'[j] = object[j]
  BY DEF SetObject

LEMMA CallCounts ==
  ASSUME calls \in 0 .. MaxCalls, Call
  PROVE  (calls \in 0 .. MaxCalls)'
  BY DEF Call
-----------------------------------------------------------------------------
LEMMA InitIInv == Init => IInv
<1> SUFFICES ASSUME Init PROVE IInv
  OBVIOUS
<1>1. (CHOOSE r \in Role : TRUE) \in Role /\ (CHOOSE k \in Key : TRUE) \in Key
  OBVIOUS
<1>2. TypeOK
  BY <1>1 DEF Init, TypeOK, Location
<1>3. OnlyLive /\ AskersSee /\ NoGrantOutlivesRevoke /\ GrantsHold /\ LostGrantNeedsRace
  BY DEF Init, OnlyLive, AskersSee, NoGrantOutlivesRevoke, GrantsHold, LostGrantNeedsRace,
         Granting, Asking
<1> QED
  BY <1>2, <1>3 DEF IInv


\* TypeOK in parts that a step can disturb separately.
PolicyOK ==
    /\ DOMAIN policy \subseteq Role
    /\ \A role \in DOMAIN policy :
          policy[role] # Wildcard => policy[role] \in DOMAIN object /\ object[policy[role]].role = role
    /\ object \in Seq(SetObject)

HeldOK ==
    /\ held \in [Thread -> Nat \cup {None, Wildcard}]
    /\ \A t \in Thread : pc[t] \in {"grant add", "ask member"} =>
          held[t] \in DOMAIN object /\ object[held[t]].role = args[t].role

CallOK ==
    /\ pc \in [Thread -> Location]
    /\ args \in [Thread -> [role : Role, key : Key]]
    /\ calls \in 0 .. MaxCalls

HistoryOK ==
    /\ live \in [Role -> SUBSET Key]
    /\ raced \in [Thread -> BOOLEAN]
    /\ owed \in [Role -> SUBSET Key]

Parts == PolicyOK /\ HeldOK /\ CallOK /\ HistoryOK

LEMMA TypeParts ==
  TypeOK <=> Parts /\ answer \in [Thread -> BOOLEAN] /\ seen \in [Thread -> SUBSET Key]
BY DEF TypeOK, Parts, PolicyOK, HeldOK, CallOK, HistoryOK, SetObject

LEMMA GetType ==
  ASSUME PolicyOK, NEW role \in Role
  PROVE  /\ Get(role) \in Nat \cup {None, Wildcard}
         /\ Get(role) \notin {None, Wildcard} =>
               Get(role) \in DOMAIN object /\ object[Get(role)].role = role
  BY DEF Get, PolicyOK

LEMMA PartsStep == Parts /\ [Next]_vars => Parts'
<1> SUFFICES ASSUME Parts, [Next]_vars PROVE Parts'
  OBVIOUS
<1> USE DEF Parts, Location, Granting, Asking
<1>1. ASSUME NEW t \in Thread, NEW role \in Role, NEW key \in Key, GrantBegin(t, role, key)
      PROVE  Parts'
  <2>1. PolicyOK' /\ HeldOK'
    BY <1>1 DEF GrantBegin, Begin, PolicyOK, HeldOK, CallOK
  <2>2. CallOK'
    BY <1>1, CallCounts DEF GrantBegin, Begin, CallOK
  <2>3. HistoryOK'
    BY <1>1 DEF GrantBegin, HistoryOK, Overlap
  <2> QED
    BY <2>1, <2>2, <2>3
<1>2. ASSUME NEW t \in Thread, GrantGet(t) PROVE Parts'
  <2>1. args[t].role \in Role /\ args[t].key \in Key
    BY DEF CallOK
  <2>2. PolicyOK'
    BY <1>2 DEF GrantGet, PolicyOK
  <2>3. CallOK'
    BY <1>2 DEF GrantGet, AfterGet, CallOK
  <2>4. HeldOK'
    <3>1. held' = [held EXCEPT ![t] = Get(args[t].role)] /\ UNCHANGED <<object, args>>
      BY <1>2 DEF GrantGet
    <3>2. Get(args[t].role) \in Nat \cup {None, Wildcard}
      BY <2>1, GetType
    <3>3. pc'[t] \in {"grant add", "ask member"} =>
             held'[t] \in DOMAIN object' /\ object'[held'[t]].role = args'[t].role
      BY <1>2, <2>1, <3>1, GetType DEF GrantGet, AfterGet, HeldOK, CallOK
    <3>4. \A u \in Thread : u # t => pc'[u] = pc[u] /\ held'[u] = held[u]
      BY <1>2, <3>1 DEF GrantGet, HeldOK, CallOK
    <3> QED
      BY <3>1, <3>2, <3>3, <3>4 DEF HeldOK
  <2>5. HistoryOK'
    <3>1. UNCHANGED <<live, raced>>
      BY <1>2 DEF GrantGet
    <3>2. \/ owed' = owed
          \/ owed' = [owed EXCEPT ![args[t].role] = @ \cup {args[t].key}]
      BY <1>2 DEF GrantGet, Granted
    <3> QED
      BY <2>1, <3>1, <3>2 DEF HistoryOK
  <2> QED
    BY <2>2, <2>3, <2>4, <2>5
<1>3. ASSUME NEW t \in Thread, GrantInstall(t) PROVE Parts'
  <2>1. args[t].role \in Role
    BY DEF CallOK
  <2>2. /\ object' \in Seq(SetObject)
        /\ DOMAIN object' = DOMAIN object \cup {Len(object) + 1}
        /\ Len(object) + 1 \in Nat
        /\ object'[Len(object) + 1].role = args[t].role
        /\ \A j \in DOMAIN object : object'[j] = object[j]
    BY <1>3, <2>1, NewObject DEF GrantInstall, PolicyOK
  <2>3. PolicyOK'
    <3>1. /\ DOMAIN policy' = DOMAIN policy \cup {args[t].role}
          /\ policy'[args[t].role] = Len(object) + 1
          /\ \A r \in DOMAIN policy : r # args[t].role => policy'[r] = policy[r]
      BY <1>3 DEF GrantInstall, With
    <3> QED
      BY <2>1, <2>2, <3>1 DEF PolicyOK
  <2>4. HeldOK'
    <3>1. /\ held' = [held EXCEPT ![t] = Len(object) + 1]
          /\ pc' = [pc EXCEPT ![t] = "grant add"]
          /\ args' = args
      BY <1>3 DEF GrantInstall
    <3>2. \A u \in Thread : u # t => pc'[u] = pc[u] /\ held'[u] = held[u]
      BY <3>1 DEF HeldOK, CallOK
    <3>3. held'[t] = Len(object) + 1
      BY <3>1 DEF HeldOK
    <3>4. held' \in [Thread -> Nat \cup {None, Wildcard}]
      BY <2>2, <3>1 DEF HeldOK
    <3>5. held'[t] \in DOMAIN object' /\ object'[held'[t]].role = args'[t].role
      <4>1. held'[t] \in DOMAIN object' /\ object'[held'[t]].role = args[t].role
        BY <2>2, <3>3
      <4> QED
        BY <3>1, <4>1
    <3>6. ASSUME NEW u \in Thread, u # t, pc'[u] \in {"grant add", "ask member"}
          PROVE  held'[u] \in DOMAIN object' /\ object'[held'[u]].role = args'[u].role
      <4>1. held[u] \in DOMAIN object /\ object[held[u]].role = args[u].role
        BY <3>2, <3>6 DEF HeldOK
      <4> QED
        BY <2>2, <3>1, <3>2, <3>6, <4>1
    <3> QED
      BY <3>4, <3>5, <3>6 DEF HeldOK
  <2>5. CallOK' /\ HistoryOK'
    BY <1>3 DEF GrantInstall, CallOK, HistoryOK
  <2> QED
    BY <2>3, <2>4, <2>5
<1>4. ASSUME NEW t \in Thread, GrantAdd(t) PROVE Parts'
  <2>1. args[t].role \in Role /\ args[t].key \in Key /\ held[t] \in DOMAIN object
    BY <1>4 DEF CallOK, HeldOK, GrantAdd
  <2>2. /\ object' \in Seq(SetObject)
        /\ DOMAIN object' = DOMAIN object
        /\ \A j \in DOMAIN object : object'[j].role = object[j].role
    BY <1>4, <2>1, AddKey DEF GrantAdd, PolicyOK
  <2>3. PolicyOK'
    BY <1>4, <2>2 DEF GrantAdd, PolicyOK
  <2>4. HeldOK'
    BY <1>4, <2>2 DEF GrantAdd, HeldOK, CallOK
  <2>5. CallOK'
    BY <1>4 DEF GrantAdd, CallOK
  <2>6. HistoryOK'
    BY <1>4, <2>1 DEF GrantAdd, Granted, HistoryOK
  <2> QED
    BY <2>3, <2>4, <2>5, <2>6
<1>5. ASSUME NEW t \in Thread, NEW role \in Role, GrantAll(t, role) PROVE Parts'
  <2>1. PolicyOK'
    BY <1>5 DEF GrantAll, With, PolicyOK
  <2>2. HeldOK' /\ CallOK'
    BY <1>5, CallCounts DEF GrantAll, HeldOK, CallOK
  <2>3. HistoryOK'
    BY <1>5 DEF GrantAll, HistoryOK, Overlap
  <2> QED
    BY <2>1, <2>2, <2>3
<1>6. ASSUME NEW t \in Thread, NEW role \in Role, Revoke(t, role) PROVE Parts'
  <2>1. PolicyOK'
    BY <1>6 DEF Revoke, PolicyOK
  <2>2. HeldOK' /\ CallOK'
    BY <1>6, CallCounts DEF Revoke, HeldOK, CallOK
  <2>3. {args[u].key : u \in Granters(role)} \in SUBSET Key
    BY DEF Granters, CallOK
  <2>4. HistoryOK'
    BY <1>6, <2>3 DEF Revoke, HistoryOK, Overlap
  <2> QED
    BY <2>1, <2>2, <2>4
<1>7. ASSUME NEW t \in Thread, NEW role \in Role, NEW key \in Key, AskBegin(t, role, key)
      PROVE  Parts'
  <2>1. PolicyOK' /\ HeldOK'
    BY <1>7 DEF AskBegin, Begin, PolicyOK, HeldOK, CallOK
  <2>2. CallOK' /\ HistoryOK'
    BY <1>7, CallCounts DEF AskBegin, Begin, CallOK, HistoryOK
  <2> QED
    BY <2>1, <2>2
<1>8. ASSUME NEW t \in Thread, AskGet(t) PROVE Parts'
  <2>1. args[t].role \in Role
    BY DEF CallOK
  <2>2. PolicyOK' /\ CallOK' /\ HistoryOK'
    BY <1>8 DEF AskGet, PolicyOK, CallOK, HistoryOK
  <2>3. HeldOK'
    BY <1>8, <2>1, GetType DEF AskGet, HeldOK, CallOK
  <2> QED
    BY <2>2, <2>3
<1>9. ASSUME NEW t \in Thread, AskMember(t) PROVE Parts'
  BY <1>9 DEF AskMember, PolicyOK, HeldOK, CallOK, HistoryOK
<1>10. CASE UNCHANGED vars
  BY <1>10 DEF vars, state, PolicyOK, HeldOK, CallOK, HistoryOK
<1> QED
  BY <1>1, <1>2, <1>3, <1>4, <1>5, <1>6, <1>7, <1>8, <1>9, <1>10 DEF Next, Step

\* A boolean function updated at one place.
LEMMA AnswerType ==
  ASSUME answer \in [Thread -> BOOLEAN], NEW t \in Thread, NEW b \in BOOLEAN,
         answer' = [answer EXCEPT ![t] = b]
  PROVE  answer' \in [Thread -> BOOLEAN]
  BY Zenon

LEMMA AnswerStep ==
  answer \in [Thread -> BOOLEAN] /\ [Next]_vars => (answer \in [Thread -> BOOLEAN])'
<1> SUFFICES ASSUME answer \in [Thread -> BOOLEAN], [Next]_vars
             PROVE  answer' \in [Thread -> BOOLEAN]
  OBVIOUS
<1>1. CASE answer' = answer
  BY <1>1
<1>2. CASE \E t \in Thread, b \in BOOLEAN : answer' = [answer EXCEPT ![t] = b]
  BY <1>2, AnswerType
<1>3. ASSUME NEW t \in Thread, NEW role \in Role, NEW key \in Key,
             GrantBegin(t, role, key) \/ AskBegin(t, role, key)
      PROVE  \E b \in BOOLEAN : answer' = [answer EXCEPT ![t] = b]
  <2>1. answer' = [answer EXCEPT ![t] = FALSE]
    BY <1>3 DEF GrantBegin, AskBegin, Begin
  <2> QED
    BY <2>1
<1>4. ASSUME NEW t \in Thread, AskGet(t)
      PROVE  \E b \in BOOLEAN : answer' = [answer EXCEPT ![t] = b]
  <2>1. answer' = [answer EXCEPT ![t] = Get(args[t].role) = Wildcard]
    BY <1>4 DEF AskGet
  <2>2. (Get(args[t].role) = Wildcard) \in BOOLEAN
    OBVIOUS
  <2> QED
    BY <2>1, <2>2, Zenon
<1>5. ASSUME NEW t \in Thread, AskMember(t)
      PROVE  \E b \in BOOLEAN : answer' = [answer EXCEPT ![t] = b]
  <2>1. answer' = [answer EXCEPT ![t] = args[t].key \in object[held[t]].keys]
    BY <1>5 DEF AskMember
  <2>2. (args[t].key \in object[held[t]].keys) \in BOOLEAN
    OBVIOUS
  <2> QED
    BY <2>1, <2>2, Zenon
<1>6. ASSUME NEW t \in Thread,
             \/ GrantGet(t) \/ GrantInstall(t) \/ GrantAdd(t)
             \/ \E role \in Role : GrantAll(t, role) \/ Revoke(t, role)
      PROVE  answer' = answer
  BY <1>6 DEF GrantGet, GrantInstall, GrantAdd, GrantAll, Revoke
<1>7. CASE UNCHANGED vars
  BY <1>7, <1>1 DEF vars, state
<1> QED
  BY <1>1, <1>2, <1>3, <1>4, <1>5, <1>6, <1>7 DEF Next, Step

\* Every action ends with Witness.
LEMMA NextWitnesses == Next => Witness
  BY DEF Next, Step, GrantBegin, GrantGet, GrantInstall, GrantAdd, GrantAll, Revoke,
         AskBegin, AskGet, AskMember

LEMMA TypeStep == TypeOK /\ [Next]_vars => TypeOK'
<1> SUFFICES ASSUME TypeOK, [Next]_vars PROVE TypeOK'
  OBVIOUS
<1>4. (Parts /\ answer \in [Thread -> BOOLEAN] /\ seen \in [Thread -> SUBSET Key])' => TypeOK'
  BY TypeParts, PTL
<1>1. Parts /\ Parts' /\ (answer \in [Thread -> BOOLEAN])'
  BY TypeParts, PartsStep, AnswerStep
<1>2. CASE Next
  <2>1. Witness /\ seen \in [Thread -> SUBSET Key]
    BY <1>2, NextWitnesses, TypeParts
  <2>2. \A t \in Thread : live'[args'[t].role] \in SUBSET Key
    BY <1>1 DEF Parts, CallOK, HistoryOK
  <2>3. (seen \in [Thread -> SUBSET Key])'
    BY <2>1, <2>2 DEF Witness
  <2> QED
    BY <1>1, <1>4, <2>3
<1>3. CASE UNCHANGED vars
  BY <1>1, <1>3, <1>4, TypeParts DEF vars
<1> QED
  BY <1>2, <1>3
-----------------------------------------------------------------------------
LEMMA LiveStep == Parts /\ OnlyLive /\ [Next]_vars => OnlyLive'
<1> SUFFICES ASSUME Parts, OnlyLive, [Next]_vars PROVE OnlyLive'
  OBVIOUS
<1> USE DEF Parts, Granting, Asking
<1>1. ASSUME NEW t \in Thread, NEW role \in Role, NEW key \in Key, GrantBegin(t, role, key)
      PROVE  OnlyLive'
  <2>1. UNCHANGED <<policy, object>> /\ pc' = [pc EXCEPT ![t] = "grant get"]
    BY <1>1 DEF GrantBegin, Begin
  <2>2. /\ args' = [args EXCEPT ![t] = [role |-> role, key |-> key]]
        /\ live' = [live EXCEPT ![role] = @ \cup {key}]
    BY <1>1 DEF GrantBegin, Begin
  <2>3. \A r \in Role : live[r] \subseteq live'[r] /\ live'[r] \subseteq Key
    BY <2>2 DEF HistoryOK
  <2>4. ASSUME NEW r \in DOMAIN policy
        PROVE  /\ policy[r] = Wildcard => live'[r] = Key
               /\ policy[r] # Wildcard => object[policy[r]].keys \subseteq live'[r]
    <3>1. r \in Role /\ live[r] \subseteq live'[r] /\ live'[r] \subseteq Key
      BY <2>3 DEF PolicyOK
    <3> QED
      BY <3>1 DEF OnlyLive
  <2>5. ASSUME NEW u \in Thread, pc'[u] \in Granting PROVE args'[u].key \in live'[args'[u].role]
    <3>1. CASE u = t
      <4>1. args'[u].role = role /\ args'[u].key = key /\ key \in live'[role]
        BY <2>2, <3>1 DEF CallOK, HistoryOK
      <4> QED
        BY <4>1
    <3>2. CASE u # t
      <4>1. pc[u] \in Granting /\ args'[u] = args[u] /\ args[u].role \in Role
        BY <2>1, <2>2, <2>5, <3>2 DEF CallOK
      <4> QED
        BY <2>3, <4>1 DEF OnlyLive
    <3> QED
      BY <3>1, <3>2
  <2> QED
    BY <2>1, <2>4, <2>5 DEF OnlyLive
<1>2. ASSUME NEW t \in Thread, GrantGet(t) PROVE OnlyLive'
  BY <1>2 DEF GrantGet, AfterGet, OnlyLive, PolicyOK, CallOK
<1>3. ASSUME NEW t \in Thread, GrantInstall(t) PROVE OnlyLive'
  <2>1. args[t].role \in Role
    BY DEF CallOK
  <2>2. /\ object'[Len(object) + 1].keys = {}
        /\ Len(object) + 1 \in Nat
        /\ \A j \in DOMAIN object : object'[j] = object[j]
    BY <1>3, <2>1, NewObject DEF GrantInstall, PolicyOK
  <2>3. /\ DOMAIN policy' = DOMAIN policy \cup {args[t].role}
        /\ policy'[args[t].role] = Len(object) + 1
        /\ \A r \in DOMAIN policy : r # args[t].role => policy'[r] = policy[r]
    BY <1>3 DEF GrantInstall, With
  <2>4. ASSUME NEW r \in DOMAIN policy'
        PROVE  /\ policy'[r] = Wildcard => live'[r] = Key
               /\ policy'[r] # Wildcard => object'[policy'[r]].keys \subseteq live'[r]
    <3>1. live' = live
      BY <1>3 DEF GrantInstall
    <3>2. CASE r = args[t].role
      <4>1. policy'[r] = Len(object) + 1
        BY <2>3, <3>2
      <4>2. policy'[r] # Wildcard /\ object'[policy'[r]].keys = {}
        BY <2>2, <4>1
      <4> QED
        BY <4>2
    <3>3. CASE r # args[t].role
      <4>1. r \in DOMAIN policy /\ policy'[r] = policy[r]
        BY <2>3, <3>3
      <4>2. policy[r] # Wildcard => object'[policy[r]] = object[policy[r]]
        BY <2>2, <4>1 DEF PolicyOK
      <4> QED
        BY <3>1, <4>1, <4>2 DEF OnlyLive
    <3> QED
      BY <3>2, <3>3
  <2>5. ASSUME NEW u \in Thread, pc'[u] \in Granting PROVE args'[u].key \in live'[args'[u].role]
    BY <1>3, <2>5 DEF GrantInstall, OnlyLive, CallOK
  <2> QED
    BY <2>4, <2>5 DEF OnlyLive
<1>4. ASSUME NEW t \in Thread, GrantAdd(t) PROVE OnlyLive'
  <2>1. args[t].role \in Role /\ args[t].key \in Key /\ held[t] \in DOMAIN object
    BY <1>4 DEF CallOK, HeldOK, GrantAdd
  <2>2. /\ object'[held[t]].keys = object[held[t]].keys \cup {args[t].key}
        /\ \A j \in DOMAIN object : j # held[t] => object'[j] = object[j]
    BY <1>4, <2>1, AddKey DEF GrantAdd, PolicyOK
  <2>3. object[held[t]].role = args[t].role /\ args[t].key \in live[args[t].role]
    BY <1>4 DEF GrantAdd, HeldOK, OnlyLive
  <2>4. UNCHANGED <<policy, args, live>>
    BY <1>4 DEF GrantAdd
  <2>5. ASSUME NEW r \in DOMAIN policy, policy[r] # Wildcard
        PROVE  object'[policy[r]].keys \subseteq live[r]
    <3>1. /\ policy[r] \in DOMAIN object
          /\ object[policy[r]].role = r
          /\ object[policy[r]].keys \subseteq live[r]
      BY <2>5 DEF OnlyLive, PolicyOK
    <3>2. CASE policy[r] = held[t]
      BY <2>2, <2>3, <3>1, <3>2
    <3>3. CASE policy[r] # held[t]
      BY <2>2, <3>1, <3>3
    <3> QED
      BY <3>2, <3>3
  <2>6. ASSUME NEW u \in Thread, pc'[u] \in Granting PROVE args[u].key \in live[args[u].role]
    BY <1>4, <2>6 DEF GrantAdd, OnlyLive, CallOK
  <2> QED
    BY <2>4, <2>5, <2>6 DEF OnlyLive
<1>5. ASSUME NEW t \in Thread, NEW role \in Role, GrantAll(t, role) PROVE OnlyLive'
  <2>1. /\ DOMAIN policy' = DOMAIN policy \cup {role}
        /\ policy'[role] = Wildcard
        /\ \A r \in DOMAIN policy : r # role => policy'[r] = policy[r]
    BY <1>5 DEF GrantAll, With
  <2>2. live' = [live EXCEPT ![role] = Key] /\ UNCHANGED <<object, pc, args>>
    BY <1>5 DEF GrantAll
  <2>3. live'[role] = Key /\ \A r \in Role : r # role => live'[r] = live[r]
    BY <2>2 DEF HistoryOK
  <2>4. ASSUME NEW r \in DOMAIN policy'
        PROVE  /\ policy'[r] = Wildcard => live'[r] = Key
               /\ policy'[r] # Wildcard => object[policy'[r]].keys \subseteq live'[r]
    BY <2>1, <2>3 DEF OnlyLive, PolicyOK
  <2>5. ASSUME NEW u \in Thread, pc[u] \in Granting PROVE args[u].key \in live'[args[u].role]
    BY <2>3, <2>5 DEF OnlyLive, CallOK
  <2> QED
    BY <2>2, <2>4, <2>5 DEF OnlyLive
<1>6. ASSUME NEW t \in Thread, NEW role \in Role, Revoke(t, role) PROVE OnlyLive'
  <2>1. /\ DOMAIN policy' = DOMAIN policy \ {role}
        /\ \A r \in DOMAIN policy' : policy'[r] = policy[r]
    BY <1>6 DEF Revoke
  <2>2. /\ live' = [live EXCEPT ![role] = {args[u].key : u \in Granters(role)}]
        /\ UNCHANGED <<object, pc, args>>
    BY <1>6 DEF Revoke
  <2>3. ASSUME NEW u \in Thread, pc[u] \in Granting PROVE args[u].key \in live'[args[u].role]
    BY <2>2, <2>3 DEF OnlyLive, Granters, CallOK, HistoryOK
  <2>4. \A r \in DOMAIN policy' : live'[r] = live[r]
    BY <2>1, <2>2 DEF PolicyOK, HistoryOK
  <2> QED
    BY <2>1, <2>2, <2>3, <2>4 DEF OnlyLive
<1>7. ASSUME NEW t \in Thread, NEW role \in Role, NEW key \in Key, AskBegin(t, role, key)
      PROVE  OnlyLive'
  BY <1>7 DEF AskBegin, Begin, OnlyLive, CallOK
<1>8. ASSUME NEW t \in Thread, AskGet(t) PROVE OnlyLive'
  BY <1>8 DEF AskGet, OnlyLive, CallOK
<1>9. ASSUME NEW t \in Thread, AskMember(t) PROVE OnlyLive'
  BY <1>9 DEF AskMember, OnlyLive, CallOK
<1>10. CASE UNCHANGED vars
  BY <1>10 DEF vars, state, OnlyLive
<1> QED
  BY <1>1, <1>2, <1>3, <1>4, <1>5, <1>6, <1>7, <1>8, <1>9, <1>10 DEF Next, Step
-----------------------------------------------------------------------------
\* What every step gives a question in progress.
LEMMA WitnessSees ==
  ASSUME Parts, seen \in [Thread -> SUBSET Key], Next, NEW u \in Thread
  PROVE  /\ pc'[u] \in Asking => live'[args'[u].role] \subseteq seen'[u]
         /\ pc[u] \in Asking /\ pc'[u] \in Asking => seen[u] \subseteq seen'[u]
         /\ pc'[u] \notin Asking => seen'[u] = seen[u]
  BY NextWitnesses DEF Witness

\* A thread takes one step; the call of another thread stands still.
StepOf(t) ==
    \/ Step(t)
    \/ \E role \in Role, key \in Key : GrantBegin(t, role, key) \/ AskBegin(t, role, key)
    \/ \E role \in Role : GrantAll(t, role) \/ Revoke(t, role)

LEMMA OthersWait ==
  ASSUME Parts, NEW t \in Thread, NEW u \in Thread, u # t, StepOf(t)
  PROVE  pc'[u] = pc[u] /\ args'[u] = args[u] /\ held'[u] = held[u]
<1> USE DEF Parts, CallOK, HeldOK
<1>2. CASE GrantGet(t)
  BY <1>2 DEF GrantGet
<1>3. CASE GrantInstall(t)
  BY <1>3 DEF GrantInstall
<1>4. CASE GrantAdd(t)
  BY <1>4 DEF GrantAdd
<1>5. CASE AskGet(t)
  BY <1>5 DEF AskGet
<1>6. CASE AskMember(t)
  BY <1>6 DEF AskMember
<1>7. ASSUME NEW role \in Role, NEW key \in Key, GrantBegin(t, role, key) \/ AskBegin(t, role, key)
      PROVE  pc'[u] = pc[u] /\ args'[u] = args[u] /\ held'[u] = held[u]
  BY <1>7 DEF GrantBegin, AskBegin, Begin
<1>8. ASSUME NEW role \in Role, GrantAll(t, role) \/ Revoke(t, role)
      PROVE  pc'[u] = pc[u] /\ args'[u] = args[u] /\ held'[u] = held[u]
  BY <1>8 DEF GrantAll, Revoke
<1> QED
  BY <1>2, <1>3, <1>4, <1>5, <1>6, <1>7, <1>8 DEF StepOf, Step

\* An object never changes its role, and only GrantAdd gives it a key.
LEMMA ObjectsGrow ==
  ASSUME Parts, NEW t \in Thread, StepOf(t), NEW i \in DOMAIN object
  PROVE  \/ object'[i] = object[i]
         \/ /\ GrantAdd(t)
            /\ i = held[t]
            /\ object'[i].keys = object[i].keys \cup {args[t].key}
<1>1. CASE GrantAdd(t)
  <2>1. held[t] \in DOMAIN object /\ args[t].key \in Key /\ object \in Seq(SetObject)
    BY <1>1 DEF Parts, PolicyOK, HeldOK, CallOK, GrantAdd
  <2> QED
    BY <1>1, <2>1, AddKey DEF GrantAdd
<1>2. CASE GrantInstall(t)
  <2>1. object \in Seq(SetObject) /\ args[t].role \in Role
    BY DEF Parts, PolicyOK, CallOK
  <2> QED
    BY <1>2, <2>1, NewObject DEF GrantInstall
<1>3. CASE ~GrantAdd(t) /\ ~GrantInstall(t)
  BY <1>3 DEF StepOf, Step, GrantBegin, AskBegin, Begin, GrantGet, AskGet, AskMember, GrantAll, Revoke
<1> QED
  BY <1>1, <1>2, <1>3

LEMMA AskersStep ==
  ASSUME Parts, seen \in [Thread -> SUBSET Key], OnlyLive, OnlyLive', AskersSee, Next
  PROVE  AskersSee'
<1>1. PICK t \in Thread : StepOf(t)
  BY DEF Next, StepOf
<1>2. SUFFICES ASSUME NEW u \in Thread, pc'[u] = "ask member"
               PROVE  object'[held'[u]].keys \subseteq seen'[u]
  BY WitnessSees DEF AskersSee
<1>3. live'[args'[u].role] \subseteq seen'[u]
  BY <1>2, WitnessSees DEF Asking
\* The set the question has just fetched is the one in force.
<1>4. CASE u = t
  <2>1. AskGet(t)
    BY <1>1, <1>2, <1>4 DEF Parts, CallOK, StepOf, Step, GrantBegin, AskBegin, Begin, GrantGet,
         GrantInstall, GrantAdd, AskGet, AskMember, GrantAll, Revoke, AfterGet
  <2>2. /\ Get(args[t].role) \notin {None, Wildcard}
        /\ held'[t] = Get(args[t].role)
        /\ UNCHANGED <<object, args, live>>
    BY <1>2, <1>4, <2>1 DEF AskGet, Parts, CallOK, HeldOK
  <2>3. object[Get(args[t].role)].keys \subseteq live[args[t].role]
    BY <2>2 DEF Get, OnlyLive
  <2> QED
    BY <1>3, <1>4, <2>2, <2>3
\* A key added to the set that another question holds was granted to its role.
<1>5. CASE u # t
  <2>1. pc[u] = "ask member" /\ args'[u] = args[u] /\ held'[u] = held[u]
    BY <1>1, <1>2, <1>5, OthersWait
  <2>2. object[held[u]].keys \subseteq seen'[u]
    BY <1>2, <2>1, WitnessSees DEF AskersSee, Asking
  <2>3. held[u] \in DOMAIN object /\ object[held[u]].role = args[u].role
    BY <2>1 DEF Parts, HeldOK
  <2>4. CASE object'[held[u]] = object[held[u]]
    BY <2>1, <2>2, <2>4
  <2>5. ASSUME GrantAdd(t), held[u] = held[t],
               object'[held[u]].keys = object[held[u]].keys \cup {args[t].key}
        PROVE  object'[held'[u]].keys \subseteq seen'[u]
    <3>1. pc[t] = "grant add" /\ object[held[t]].role = args[t].role /\ live' = live
      BY <2>5 DEF GrantAdd, Parts, HeldOK
    <3>2. args[t].key \in live[args[t].role]
      BY <3>1 DEF OnlyLive, Granting
    <3> QED
      BY <1>3, <2>1, <2>2, <2>3, <2>5, <3>1, <3>2
  <2> QED
    BY <1>1, <2>3, <2>4, <2>5, ObjectsGrow
<1> QED
  BY <1>4, <1>5

\* Only AskGet and AskMember let a question through.
LEMMA AnswerTrue ==
  ASSUME answer \in [Thread -> BOOLEAN], NEW t \in Thread, StepOf(t), NEW u \in Thread, answer'[u]
  PROVE  \/ answer[u] /\ (u = t => (UNCHANGED <<pc, args>> \/ (pc[t] \in Granting /\ args' = args)))
         \/ u = t /\ AskGet(t) /\ Get(args[t].role) = Wildcard
         \/ u = t /\ AskMember(t) /\ args[t].key \in object[held[t]].keys
<1>1. ASSUME NEW role \in Role, NEW key \in Key, GrantBegin(t, role, key) \/ AskBegin(t, role, key)
      PROVE  answer[u] /\ u # t
  <2>1. answer' = [answer EXCEPT ![t] = FALSE]
    BY <1>1 DEF GrantBegin, AskBegin, Begin
  <2> QED
    BY <2>1, Zenon
<1>2. ASSUME NEW role \in Role, GrantAll(t, role) \/ Revoke(t, role)
      PROVE  answer[u] /\ UNCHANGED <<pc, args>>
  <2>1. answer' = answer /\ UNCHANGED <<pc, args>>
    BY <1>2 DEF GrantAll, Revoke
  <2> QED
    BY <2>1, Zenon
<1>3. CASE GrantGet(t) \/ GrantInstall(t) \/ GrantAdd(t)
  <2>1. answer' = answer /\ args' = args /\ pc[t] \in Granting
    BY <1>3 DEF GrantGet, GrantInstall, GrantAdd, Granting
  <2> QED
    BY <2>1, Zenon
<1>4. CASE AskGet(t)
  <2>1. answer' = [answer EXCEPT ![t] = Get(args[t].role) = Wildcard]
    BY <1>4 DEF AskGet
  <2>2. u # t => answer[u]
    BY <2>1, Zenon
  <2>3. u = t => Get(args[t].role) = Wildcard
    BY <2>1, Zenon
  <2> QED
    BY <1>4, <2>2, <2>3, Zenon
<1>5. CASE AskMember(t)
  <2>1. answer' = [answer EXCEPT ![t] = args[t].key \in object[held[t]].keys]
    BY <1>5 DEF AskMember
  <2>2. u # t => answer[u]
    BY <2>1, Zenon
  <2>3. u = t => args[t].key \in object[held[t]].keys
    BY <2>1, Zenon
  <2> QED
    BY <1>5, <2>2, <2>3, Zenon
<1> QED
  BY <1>1, <1>2, <1>3, <1>4, <1>5, Zenon DEF StepOf, Step

LEMMA NoGrantStep ==
  ASSUME Parts, answer \in [Thread -> BOOLEAN], seen \in [Thread -> SUBSET Key],
         OnlyLive, AskersSee, NoGrantOutlivesRevoke, Next
  PROVE  NoGrantOutlivesRevoke'
<1>1. PICK t \in Thread : StepOf(t)
  BY DEF Next, StepOf
<1>2. SUFFICES ASSUME NEW u \in Thread, answer'[u] PROVE args'[u].key \in seen'[u]
  BY DEF NoGrantOutlivesRevoke
<1> USE DEF Granting, Asking
<1>3. CASE answer[u] /\ u # t
  <2>1. args[u].key \in seen[u]
    BY <1>3, Zenon DEF NoGrantOutlivesRevoke
  <2>2. pc'[u] = pc[u] /\ args'[u] = args[u]
    BY <1>1, <1>3, OthersWait
  <2>3. seen[u] \subseteq seen'[u]
    BY <2>2, WitnessSees
  <2> QED
    BY <2>1, <2>2, <2>3
<1>4. CASE answer[u] /\ u = t /\ (UNCHANGED <<pc, args>> \/ (pc[t] \in Granting /\ args' = args))
  <2>1. args[u].key \in seen[u] /\ args' = args
    BY <1>4, Zenon DEF NoGrantOutlivesRevoke
  <2>2. pc[t] \in Granting => pc'[t] \notin Asking
    BY <1>1 DEF StepOf, Step, GrantBegin, AskBegin, Begin, GrantGet, GrantInstall, GrantAdd,
         AskGet, AskMember, GrantAll, Revoke, AfterGet, Parts, CallOK
  <2>3. seen[u] \subseteq seen'[u]
    BY <1>4, <2>2, WitnessSees
  <2> QED
    BY <2>1, <2>3
<1>5. CASE u = t /\ AskGet(t) /\ Get(args[t].role) = Wildcard
  <2>1. args' = args /\ pc'[t] = "idle" /\ seen'[t] = seen[t]
    BY <1>5, WitnessSees DEF AskGet, Parts, CallOK
  <2>2. live[args[t].role] = Key /\ live[args[t].role] \subseteq seen[t]
    BY <1>5 DEF AskGet, Get, OnlyLive, AskersSee, Parts, PolicyOK, CallOK
  <2> QED
    BY <1>5, <2>1, <2>2 DEF Parts, CallOK
<1>6. CASE u = t /\ AskMember(t) /\ args[t].key \in object[held[t]].keys
  <2>1. args' = args /\ seen'[t] = seen[t]
    BY <1>6, WitnessSees DEF AskMember, Parts, CallOK
  <2>2. object[held[t]].keys \subseteq seen[t]
    BY <1>6 DEF AskMember, AskersSee
  <2> QED
    BY <1>6, <2>1, <2>2
<1> QED
  BY <1>1, <1>2, <1>3, <1>4, <1>5, <1>6, AnswerTrue, Zenon
-----------------------------------------------------------------------------
\* Another thread's step cannot touch the role of a grant without racing it.
LEMMA Untouched ==
  ASSUME Parts, GrantsHold, NEW t \in Thread, NEW u \in Thread, u # t, StepOf(t),
         pc[u] \in Granting, ~raced'[u]
  PROVE  /\ ~raced[u]
         /\ Get(args[u].role)' = Get(args[u].role)
         /\ Granters(args[u].role)' = {u}
<1>1. /\ \A v \in Thread : v # t => pc'[v] = pc[v] /\ args'[v] = args[v]
      /\ args[u].role \in Role
  BY OthersWait DEF Parts, CallOK
<1>2. raced[u] => raced'[u]
  BY DEF StepOf, Step, GrantBegin, AskBegin, GrantGet, GrantInstall, GrantAdd, AskGet, AskMember,
         GrantAll, Revoke, Overlap, Parts, HistoryOK
<1>3. Granters(args[u].role) = {u}
  BY <1>2 DEF GrantsHold
<1>4. ASSUME NEW role \in Role, Overlap(t, role) PROVE role # args[u].role
  BY <1>3, <1>4 DEF Overlap
<1>5. ~(pc[t] \in Granting /\ args[t].role = args[u].role)
  BY <1>3 DEF Granters
<1>6. ~(pc'[t] \in Granting /\ args'[t].role = args[u].role)
  <2>1. ASSUME NEW role \in Role, NEW key \in Key, GrantBegin(t, role, key)
        PROVE  args'[t].role # args[u].role
    BY <1>4, <2>1 DEF GrantBegin, Begin, Parts, CallOK
  <2>2. ASSUME NEW role \in Role, NEW key \in Key, AskBegin(t, role, key)
        PROVE  pc'[t] \notin Granting
    BY <2>2 DEF AskBegin, Begin, Parts, CallOK, Granting
  <2>3. ASSUME NEW role \in Role, GrantAll(t, role) \/ Revoke(t, role)
        PROVE  pc'[t] \notin Granting
    BY <2>3 DEF GrantAll, Revoke, Granting
  <2>4. CASE GrantGet(t) \/ GrantInstall(t) \/ GrantAdd(t)
    BY <1>5, <2>4 DEF GrantGet, GrantInstall, GrantAdd, Granting
  <2>5. CASE AskGet(t) \/ AskMember(t)
    BY <2>5 DEF AskGet, AskMember, Parts, CallOK, Granting
  <2> QED
    BY <2>1, <2>2, <2>3, <2>4, <2>5 DEF StepOf, Step
<1>7. Granters(args[u].role)' = {u}
  BY <1>1, <1>3, <1>6 DEF Granters
<1>8. Get(args[u].role)' = Get(args[u].role)
  <2>1. CASE policy' = policy
    BY <1>1, <2>1 DEF Get
  <2>2. CASE GrantInstall(t)
    <3>1. args[t].role # args[u].role
      BY <1>5, <2>2 DEF GrantInstall, Granting
    <3> QED
      BY <1>1, <2>2, <3>1 DEF GrantInstall, With, Get
  <2>3. ASSUME NEW role \in Role, GrantAll(t, role)
        PROVE  Get(args[u].role)' = Get(args[u].role)
    <3>1. role # args[u].role
      BY <1>4, <2>3 DEF GrantAll
    <3> QED
      BY <1>1, <2>3, <3>1 DEF GrantAll, With, Get
  <2>4. ASSUME NEW role \in Role, Revoke(t, role)
        PROVE  Get(args[u].role)' = Get(args[u].role)
    <3>1. role # args[u].role
      BY <1>4, <2>4 DEF Revoke
    <3> QED
      BY <1>1, <2>4, <3>1 DEF Revoke, Get
  <2> QED
    BY <2>1, <2>2, <2>3, <2>4 DEF StepOf, Step, GrantBegin, AskBegin, Begin, GrantGet, GrantAdd,
         AskGet, AskMember
<1> QED
  BY <1>2, <1>7, <1>8

\* A grant that is about to install a set keeps its role free of debts.
LEMMA NothingOwed ==
  ASSUME Parts, GrantsHold, NEW t \in Thread, NEW u \in Thread, u # t, StepOf(t),
         pc[u] = "grant install"
  PROVE  owed'[args[u].role] = {}
<1>1. owed[args[u].role] = {} /\ args[u].role \in Role
  BY DEF GrantsHold, Parts, CallOK
<1>2. u \in Granters(args[u].role)
  BY DEF Granters, Granting
<1>3. ASSUME pc[t] \in Granting, Granted(t) PROVE owed'[args[u].role] = {}
  <2>1. CASE raced[t]
    BY <1>1, <1>3, <2>1 DEF Granted
  <2>2. CASE ~raced[t]
    <3>1. args[t].role # args[u].role
      <4>1. Granters(args[t].role) = {t}
        BY <1>3, <2>2, Zenon DEF GrantsHold
      <4> QED
        BY <1>2, <4>1
    <3> QED
      BY <1>1, <1>3, <2>2, <3>1 DEF Granted, Parts, HistoryOK
  <2> QED
    BY <2>1, <2>2
<1>4. CASE owed' = owed
  BY <1>1, <1>4
<1>5. CASE GrantGet(t) \/ GrantAdd(t)
  BY <1>3, <1>4, <1>5 DEF GrantGet, GrantAdd, Granting
<1>6. ASSUME NEW role \in Role, GrantAll(t, role) PROVE owed'[args[u].role] = {}
  BY <1>1, <1>2, <1>6 DEF GrantAll, Parts, HistoryOK
<1>7. ASSUME NEW role \in Role, Revoke(t, role) PROVE owed'[args[u].role] = {}
  BY <1>1, <1>7 DEF Revoke, Parts, HistoryOK
<1> QED
  BY <1>4, <1>5, <1>6, <1>7 DEF StepOf, Step, GrantBegin, AskBegin, GrantInstall, AskGet, AskMember

\* What the policy lets through it keeps, but for a revoke or a new set.
LEMMA AllowsKept ==
  ASSUME Parts, NEW t \in Thread, StepOf(t), NEW r \in Role, NEW key \in Key, Allows(r, key),
         ~(GrantInstall(t) /\ args[t].role = r), ~Revoke(t, r)
  PROVE  Allows(r, key)'
<1>1. /\ r \in DOMAIN policy
      /\ policy[r] # Wildcard => policy[r] \in DOMAIN object /\ key \in object[policy[r]].keys
  BY DEF Allows, Get, Parts, PolicyOK
<1>2. r \in DOMAIN policy' /\ policy'[r] \in {policy[r], Wildcard}
  <2>1. CASE GrantInstall(t)
    BY <1>1, <2>1 DEF GrantInstall, With
  <2>2. ASSUME NEW role \in Role, GrantAll(t, role) PROVE r \in DOMAIN policy' /\ policy'[r] \in {policy[r], Wildcard}
    BY <1>1, <2>2 DEF GrantAll, With
  <2>3. ASSUME NEW role \in Role, Revoke(t, role) PROVE r \in DOMAIN policy' /\ policy'[r] \in {policy[r], Wildcard}
    BY <1>1, <2>3 DEF Revoke
  <2>4. CASE policy' = policy
    BY <1>1, <2>4
  <2> QED
    BY <2>1, <2>2, <2>3, <2>4 DEF StepOf, Step, GrantBegin, AskBegin, Begin, GrantGet, GrantAdd,
         AskGet, AskMember
<1>3. policy[r] # Wildcard => key \in object'[policy[r]].keys
  BY <1>1, ObjectsGrow
<1>4. policy'[r] # None
  BY <1>1, <1>2 DEF Parts, PolicyOK
<1> QED
  BY <1>2, <1>3, <1>4 DEF Allows, Get

\* What becomes owed is let through at that moment.
LEMMA NewlyOwed ==
  ASSUME Parts, GrantsHold, NEW t \in Thread, StepOf(t), NEW r \in Role, NEW key \in Key,
         key \in owed'[r], key \notin owed[r]
  PROVE  Allows(r, key)'
<1>1. CASE owed' = owed
  BY <1>1
<1>2. ASSUME NEW role \in Role, GrantAll(t, role) PROVE Allows(r, key)'
  <2>1. r = role
    BY <1>2 DEF GrantAll, Parts, HistoryOK
  <2>2. Get(r)' = Wildcard
    BY <1>2, <2>1 DEF GrantAll, With, Get
  <2> QED
    BY <2>2 DEF Allows
<1>3. ASSUME NEW role \in Role, Revoke(t, role) PROVE FALSE
  BY <1>3 DEF Revoke, Parts, HistoryOK
<1>4. ASSUME Granted(t) PROVE ~raced[t] /\ r = args[t].role /\ key = args[t].key
  BY <1>4 DEF Granted, Parts, HistoryOK, CallOK
<1>5. CASE GrantGet(t)
  <2>1. CASE Get(args[t].role) = Wildcard
    <3>1. r = args[t].role /\ policy' = policy
      BY <1>4, <1>5, <2>1 DEF GrantGet
    <3> QED
      BY <2>1, <3>1 DEF Allows, Get
  <2>2. CASE Get(args[t].role) # Wildcard
    BY <1>1, <1>5, <2>2 DEF GrantGet
  <2> QED
    BY <2>1, <2>2
<1>6. CASE GrantAdd(t)
  <2>1. /\ ~raced[t] /\ r = args[t].role /\ key = args[t].key
        /\ pc[t] = "grant add" /\ policy' = policy
    BY <1>4, <1>6 DEF GrantAdd
  <2>2. Get(r) \in {held[t], Wildcard}
    BY <2>1 DEF GrantsHold
  <2>3. held[t] \in DOMAIN object /\ object \in Seq(SetObject)
    BY <2>1 DEF Parts, HeldOK, PolicyOK
  <2>4. key \in object'[held[t]].keys
    <3>1. args[t].key \in Key
      BY DEF Parts, CallOK
    <3>2. object'[held[t]].keys = object[held[t]].keys \cup {args[t].key}
      BY <1>6, <2>3, <3>1, AddKey DEF GrantAdd
    <3> QED
      BY <2>1, <3>2
  <2>5. Get(r)' = Get(r) /\ Get(r) # None
    <3>1. held[t] \in Nat
      BY <2>3
    <3>2. Get(r) # None
      BY <2>2, <3>1
    <3> QED
      BY <2>1, <3>2 DEF Get
  <2> QED
    BY <2>2, <2>4, <2>5 DEF Allows, Get
<1> QED
  BY <1>1, <1>2, <1>3, <1>5, <1>6 DEF StepOf, Step, GrantBegin, AskBegin, GrantInstall, AskGet, AskMember

LEMMA OwedStep ==
  ASSUME Parts, GrantsHold, LostGrantNeedsRace, HistoryOK', Next
  PROVE  LostGrantNeedsRace'
<1>1. PICK t \in Thread : StepOf(t)
  BY DEF Next, StepOf
<1>2. SUFFICES ASSUME NEW r \in Role, NEW key \in owed'[r] PROVE Allows(r, key)'
  BY DEF LostGrantNeedsRace
<1>3. key \in Key
  BY DEF HistoryOK
<1>4. CASE key \notin owed[r]
  BY <1>1, <1>3, <1>4, NewlyOwed
<1>5. CASE key \in owed[r]
  <2>1. Allows(r, key)
    BY <1>5 DEF LostGrantNeedsRace
  <2>2. ~(GrantInstall(t) /\ args[t].role = r)
    BY <1>5 DEF GrantInstall, GrantsHold
  <2>3. ~Revoke(t, r)
    BY DEF Revoke, Parts, HistoryOK
  <2> QED
    BY <1>1, <1>3, <2>1, <2>2, <2>3, AllowsKept
<1> QED
  BY <1>4, <1>5

LEMMA GrantsStep ==
  ASSUME Parts, GrantsHold, LostGrantNeedsRace, Next
  PROVE  GrantsHold'
<1>1. PICK t \in Thread : StepOf(t)
  BY DEF Next, StepOf
<1>2. SUFFICES ASSUME NEW u \in Thread, pc'[u] \in Granting
               PROVE  /\ pc'[u] = "grant install" => owed'[args'[u].role] = {}
                      /\ ~raced'[u] =>
                           /\ pc'[u] = "grant install" => Get(args[u].role)' = None
                           /\ pc'[u] = "grant add" => Get(args[u].role)' \in {held'[u], Wildcard}
                           /\ Granters(args[u].role)' = {u}
  BY DEF GrantsHold, Granting
\* Another thread has moved.
<1>3. CASE u # t
  <2>1. pc'[u] = pc[u] /\ args'[u] = args[u] /\ held'[u] = held[u]
    BY <1>1, <1>3, OthersWait
  <2>2. pc[u] = "grant install" => owed'[args[u].role] = {}
    BY <1>1, <1>3, NothingOwed
  <2>3. ~raced'[u] => /\ ~raced[u]
                      /\ Get(args[u].role)' = Get(args[u].role)
                      /\ Granters(args[u].role)' = {u}
    BY <1>1, <1>2, <1>3, <2>1, Untouched
  <2> QED
    BY <2>1, <2>2, <2>3 DEF GrantsHold
\* The grant itself has moved.
<1>4. CASE u = t
  <2>1. /\ \A v \in Thread : v # t => pc'[v] = pc[v] /\ args'[v] = args[v]
        /\ args[t].role \in Role
    BY <1>1, OthersWait DEF Parts, CallOK
  <2>2. ASSUME args' = args, raced' = raced, pc[t] \in Granting, ~raced'[t]
        PROVE  Granters(args[t].role)' = {t}
    <3>1. Granters(args[t].role) = {t}
      BY <2>2, Zenon DEF GrantsHold
    <3> QED
      BY <1>2, <1>4, <2>1, <2>2, <3>1 DEF Granters
  <2>3. ASSUME NEW role \in Role, NEW key \in Key, GrantBegin(t, role, key)
        PROVE  pc'[t] = "grant get" /\ (~raced'[t] => Granters(args[t].role)' = {t})
    <3>1. pc'[t] = "grant get" /\ args'[t].role = role /\ raced'[t] = (Granters(role) # {})
      BY <2>3 DEF GrantBegin, Begin, Overlap, Parts, CallOK, HistoryOK
    <3> QED
      BY <2>1, <3>1 DEF Granters, Granting
  <2>4. CASE GrantGet(t)
    <3>1. /\ UNCHANGED <<policy, args, raced>>
          /\ held'[t] = Get(args[t].role)
          /\ pc'[t] = AfterGet(Get(args[t].role))
          /\ pc[t] = "grant get"
      BY <2>4 DEF GrantGet, Parts, CallOK, HeldOK
    <3>2. Get(args[t].role)' = Get(args[t].role)
      BY <3>1 DEF Get
    <3>3. Get(args[t].role) # Wildcard
      BY <1>2, <1>4, <3>1 DEF AfterGet, Granting
    <3>4. owed' = owed
      BY <2>4, <3>3 DEF GrantGet
    <3>5. ASSUME pc'[t] = "grant install"
          PROVE  Get(args[t].role) = None /\ owed[args[t].role] = {}
      <4>1. Get(args[t].role) = None
        BY <3>1, <3>5 DEF AfterGet
      <4> QED
        BY <2>1, <4>1 DEF LostGrantNeedsRace, Allows
    <3> QED
      BY <1>4, <2>2, <3>1, <3>2, <3>4, <3>5 DEF Granting
  <2>5. CASE GrantInstall(t)
    <3>1. /\ UNCHANGED <<args, raced>>
          /\ held'[t] = Len(object) + 1
          /\ pc'[t] = "grant add"
          /\ pc[t] = "grant install"
      BY <2>5 DEF GrantInstall, Parts, CallOK, HeldOK
    <3>2. Get(args[t].role)' = Len(object) + 1
      BY <2>5, <3>1 DEF GrantInstall, With, Get
    <3> QED
      BY <1>4, <2>2, <3>1, <3>2 DEF Granting
  <2>6. CASE GrantAdd(t) \/ AskGet(t) \/ AskMember(t)
    BY <1>2, <1>4, <2>6 DEF GrantAdd, AskGet, AskMember, Parts, CallOK, Granting
  <2>7. ASSUME NEW role \in Role, GrantAll(t, role) \/ Revoke(t, role) PROVE FALSE
    BY <1>2, <1>4, <2>7 DEF GrantAll, Revoke, Granting
  <2>8. ASSUME NEW role \in Role, NEW key \in Key, AskBegin(t, role, key) PROVE FALSE
    BY <1>2, <1>4, <2>8 DEF AskBegin, Begin, Parts, CallOK, Granting
  <2> QED
    BY <1>1, <1>4, <2>3, <2>4, <2>5, <2>6, <2>7, <2>8 DEF StepOf, Step
<1> QED
  BY <1>3, <1>4
-----------------------------------------------------------------------------
LEMMA StepIInv == IInv /\ [Next]_vars => IInv'
<1> SUFFICES ASSUME IInv, [Next]_vars PROVE IInv'
  OBVIOUS
<1>1. TypeOK /\ TypeOK'
  BY TypeStep DEF IInv
<1>2. Parts /\ answer \in [Thread -> BOOLEAN] /\ seen \in [Thread -> SUBSET Key]
  BY <1>1, TypeParts
<1>3. Parts' /\ OnlyLive'
  BY <1>2, PartsStep, LiveStep DEF IInv
<1>4. CASE Next
  BY <1>1, <1>2, <1>3, <1>4, AskersStep, NoGrantStep, GrantsStep, OwedStep DEF IInv, Parts
<1>5. CASE UNCHANGED vars
  <2>1. UNCHANGED <<policy, object, pc, args, held, answer, live, seen, raced, owed>>
    BY <1>5 DEF vars, state
  <2>2. AskersSee' /\ NoGrantOutlivesRevoke'
    BY <2>1, Zenon DEF IInv, AskersSee, NoGrantOutlivesRevoke
  <2>3. GrantsHold' /\ LostGrantNeedsRace'
    BY <2>1 DEF IInv, GrantsHold, LostGrantNeedsRace, Get, Granters, Allows
  <2> QED
    BY <1>1, <1>3, <2>2, <2>3 DEF IInv
<1> QED
  BY <1>4, <1>5

LEMMA Invariance == Spec => []IInv
  BY InitIInv, StepIInv, PTL DEF Spec

(* Every variable of the policy and its callers keeps its type; a role's    *)
(* set, and the set a call holds, were made for that role.                  *)
THEOREM AccessTypes == Spec => []TypeOK
  BY Invariance, PTL DEF IInv

(* However grants, revokes and questions interleave, is_allowed answers yes *)
(* only to what was granted to the role while it was asked.                 *)
THEOREM AccessNoGrantOutlivesRevoke == Spec => []NoGrantOutlivesRevoke
  BY Invariance, PTL DEF IInv

(* A grant that no other write of its role overlapped stays in force until  *)
(* the role is revoked, with any number of threads.                         *)
THEOREM AccessLostGrantNeedsRace == Spec => []LostGrantNeedsRace
  BY Invariance, PTL DEF IInv
=============================================================================
