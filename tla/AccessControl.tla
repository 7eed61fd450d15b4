--------------------------- MODULE AccessControl ---------------------------
(***************************************************************************)
(* AccessControl of core/security.py under threads.  A pipeline is called  *)
(* from several threads (tests/test_concurrency.py) and nothing locks the  *)
(* policy: grant and is_allowed fetch a role's set from the dictionary in  *)
(* one step and use it in a later one, so the set they use may be one that *)
(* the policy no longer holds.  Sets are objects here, with an identity.   *)
(* SecureStore takes the same operations as atomic.                        *)
(***************************************************************************)
EXTENDS Naturals, Sequences

CONSTANTS
    Thread,      \* the threads that grant, revoke and ask
    Role,        \* roles
    Key,         \* chunk keys
    Wildcard,    \* AccessControl.WILDCARD
    None,        \* what _policy.get gives for an unknown role
    MaxCalls     \* bound: calls in a behaviour

ASSUME MaxCallsAssumption == MaxCalls \in Nat
ASSUME NoneAssumption == None \notin Nat /\ Wildcard \notin Nat /\ None # Wildcard
ASSUME DomainAssumption == Role # {} /\ Key # {}

VARIABLES
    policy,      \* _policy: role -> Wildcard or the number of a set object
    object,      \* the set objects made so far: the role they were made for, their keys
    pc,          \* where each thread is in its call
    args,        \* the role and key of its call
    held,        \* its local existing or allowed
    answer,      \* what its last is_allowed returned
    live,        \* history: keys granted to a role, or being granted, and not revoked since
    seen,        \* history: what live was during a thread's is_allowed
    raced,       \* history: another write of its role overlapped a thread's grant
    owed,        \* history: keys granted to a role by calls that nothing overlapped
    calls        \* calls begun so far

state == <<policy, object, pc, args, held, answer, calls>>
vars == <<state, live, seen, raced, owed>>

Granting == {"grant get", "grant install", "grant add"}
Asking == {"ask get", "ask member"}
Location == Granting \cup Asking \cup {"idle"}

With(role, value) ==
    [r \in DOMAIN policy \cup {role} |-> IF r = role THEN value ELSE policy[r]]

Get(role) == IF role \in DOMAIN policy THEN policy[role] ELSE None

\* What is_allowed would answer if it were atomic.
Allows(role, key) ==
    /\ Get(role) # None
    /\ Get(role) # Wildcard => key \in object[policy[role]].keys

Granters(role) == {t \in Thread : pc[t] \in Granting /\ args[t].role = role}

\* Every action ends with this: each is_allowed in progress sees live anew.
Witness ==
    seen' = [t \in Thread |->
        IF pc'[t] \in Asking
        THEN live'[args'[t].role] \cup (IF pc[t] \in Asking THEN seen[t] ELSE {})
        ELSE seen[t]]

Init ==
    /\ policy = <<>>
    /\ object = <<>>
    /\ pc = [t \in Thread |-> "idle"]
    /\ args \in [Thread -> [role : {CHOOSE r \in Role : TRUE}, key : {CHOOSE k \in Key : TRUE}]]
    /\ held = [t \in Thread |-> None]
    /\ answer = [t \in Thread |-> FALSE]
    /\ live = [role \in Role |-> {}]
    /\ seen = [t \in Thread |-> {}]
    /\ raced = [t \in Thread |-> FALSE]
    /\ owed = [role \in Role |-> {}]
    /\ calls = 0

Call == calls < MaxCalls /\ calls' = calls + 1

Begin(t, to, role, key) ==
    /\ Call
    /\ pc[t] = "idle"
    /\ pc' = [pc EXCEPT ![t] = to]
    /\ args' = [args EXCEPT ![t] = [role |-> role, key |-> key]]
    /\ held' = [held EXCEPT ![t] = None]
    /\ answer' = [answer EXCEPT ![t] = FALSE]
    /\ UNCHANGED <<policy, object>>

\* A write of role is noticed by the grants of that role in progress.
Overlap(t, role) ==
    raced' = [u \in Thread |->
        IF u = t THEN Granters(role) # {} ELSE raced[u] \/ u \in Granters(role)]
-----------------------------------------------------------------------------
GrantBegin(t, role, key) ==
    /\ Begin(t, "grant get", role, key)
    /\ live' = [live EXCEPT ![role] = @ \cup {key}]
    /\ Overlap(t, role)
    /\ UNCHANGED owed
    /\ Witness

\* A grant that nothing has overlapped is there to stay until a revoke.
Granted(t) ==
    owed' = IF raced[t] THEN owed ELSE [owed EXCEPT ![args[t].role] = @ \cup {args[t].key}]

AlwaysNewSetMutant(found) == IF found = Wildcard THEN "idle" ELSE "grant install"

\* A wildcard stays a wildcard; a set is made only for an unknown role.
AfterGet(found) ==
    CASE found = Wildcard -> "idle"
      [] found = None     -> "grant install"
      [] OTHER            -> "grant add"

\* existing = self._policy.get(role)
GrantGet(t) ==
    /\ pc[t] = "grant get"
    /\ held' = [held EXCEPT ![t] = Get(args[t].role)]
    /\ pc' = [pc EXCEPT ![t] = AfterGet(Get(args[t].role))]
    /\ IF Get(args[t].role) = Wildcard THEN Granted(t) ELSE UNCHANGED owed
    /\ UNCHANGED <<policy, object, args, answer, calls, live, raced>>
    /\ Witness

\* existing = set(); self._policy[role] = existing, whatever is there by now.
GrantInstall(t) ==
    /\ pc[t] = "grant install"
    /\ object' = Append(object, [role |-> args[t].role, keys |-> {}])
    /\ policy' = With(args[t].role, Len(object) + 1)
    /\ held' = [held EXCEPT ![t] = Len(object) + 1]
    /\ pc' = [pc EXCEPT ![t] = "grant add"]
    /\ UNCHANGED <<args, answer, calls, live, raced, owed>>
    /\ Witness

AddAndStoreMutant(t) ==
    /\ pc[t] = "grant add"
    /\ object' = [object EXCEPT ![held[t]].keys = @ \cup {args[t].key}]
    /\ policy' = With(args[t].role, held[t])
    /\ pc' = [pc EXCEPT ![t] = "idle"]
    /\ Granted(t)
    /\ UNCHANGED <<args, held, answer, calls, live, raced>>
    /\ Witness

\* existing.add(chunk_key), also when the policy has another set by now.
GrantAdd(t) ==
    /\ pc[t] = "grant add"
    /\ object' = [object EXCEPT ![held[t]].keys = @ \cup {args[t].key}]
    /\ pc' = [pc EXCEPT ![t] = "idle"]
    /\ Granted(t)
    /\ UNCHANGED <<policy, args, held, answer, calls, live, raced>>
    /\ Witness

\* grant without a key: one assignment.
GrantAll(t, role) ==
    /\ Call
    /\ pc[t] = "idle"
    /\ policy' = With(role, Wildcard)
    /\ live' = [live EXCEPT ![role] = Key]
    /\ owed' = IF Granters(role) = {} THEN [owed EXCEPT ![role] = Key] ELSE owed
    /\ Overlap(t, role)
    /\ UNCHANGED <<object, pc, args, held, answer>>
    /\ Witness

\* self._policy.pop(role, None); grants in progress may still take effect.
Revoke(t, role) ==
    /\ Call
    /\ pc[t] = "idle"
    /\ policy' = [r \in DOMAIN policy \ {role} |-> policy[r]]
    /\ live' = [live EXCEPT ![role] = {args[u].key : u \in Granters(role)}]
    /\ owed' = [owed EXCEPT ![role] = {}]
    /\ Overlap(t, role)
    /\ UNCHANGED <<object, pc, args, held, answer>>
    /\ Witness

AskBegin(t, role, key) ==
    /\ Begin(t, "ask get", role, key)
    /\ UNCHANGED <<live, raced, owed>>
    /\ Witness

\* allowed = self._policy.get(role): an unknown role is denied.
AskGet(t) ==
    /\ pc[t] = "ask get"
    /\ held' = [held EXCEPT ![t] = Get(args[t].role)]
    /\ answer' = [answer EXCEPT ![t] = Get(args[t].role) = Wildcard]
    /\ pc' = [pc EXCEPT ![t] = IF Get(args[t].role) \in {None, Wildcard}
                               THEN "idle" ELSE "ask member"]
    /\ UNCHANGED <<policy, object, args, calls, live, raced, owed>>
    /\ Witness

\* return chunk_key in allowed
AskMember(t) ==
    /\ pc[t] = "ask member"
    /\ answer' = [answer EXCEPT ![t] = args[t].key \in object[held[t]].keys]
    /\ pc' = [pc EXCEPT ![t] = "idle"]
    /\ UNCHANGED <<policy, object, args, held, calls, live, raced, owed>>
    /\ Witness

Step(t) ==
    \/ GrantGet(t)
    \/ GrantInstall(t)
    \/ GrantAdd(t)
    \/ AskGet(t)
    \/ AskMember(t)

Next ==
    \E t \in Thread :
        \/ Step(t)
        \/ \E role \in Role, key \in Key : GrantBegin(t, role, key) \/ AskBegin(t, role, key)
        \/ \E role \in Role : GrantAll(t, role) \/ Revoke(t, role)

Spec == Init /\ [][Next]_vars
-----------------------------------------------------------------------------
TypeOK ==
    /\ DOMAIN policy \subseteq Role
    /\ \A role \in DOMAIN policy :
          policy[role] # Wildcard => policy[role] \in DOMAIN object /\ object[policy[role]].role = role
    /\ object \in Seq([role : Role, keys : SUBSET Key])
    /\ pc \in [Thread -> Location]
    /\ args \in [Thread -> [role : Role, key : Key]]
    /\ held \in [Thread -> Nat \cup {None, Wildcard}]
    /\ \A t \in Thread : pc[t] \in {"grant add", "ask member"} =>
          held[t] \in DOMAIN object /\ object[held[t]].role = args[t].role
    /\ answer \in [Thread -> BOOLEAN]
    /\ live \in [Role -> SUBSET Key]
    /\ seen \in [Thread -> SUBSET Key]
    /\ raced \in [Thread -> BOOLEAN]
    /\ owed \in [Role -> SUBSET Key]
    /\ calls \in 0 .. MaxCalls

(* Fail-closed under any interleaving: what is_allowed lets through was     *)
(* granted to that role, by a call that had not returned before a revoke    *)
(* that had itself returned before the question was asked.  In particular a *)
(* set that revoke has thrown away never comes back.                        *)
NoGrantOutlivesRevoke ==
    \A t \in Thread : answer[t] => args[t].key \in seen[t]

(* grant loses a key only when another write of the same role overlaps it:  *)
(* two first grants of a role may each install a set, and a grant of a key  *)
(* may replace a wildcard given in between.  A grant that ran alone lasts   *)
(* until the role is revoked, whatever overlaps later.                      *)
LostGrantNeedsRace ==
    \A role \in Role : \A key \in owed[role] : Allows(role, key)
-----------------------------------------------------------------------------
\* No set holds, and no grant will add, what its role has not been granted.
OnlyLive ==
    /\ \A role \in DOMAIN policy :
          /\ policy[role] = Wildcard => live[role] = Key
          /\ policy[role] # Wildcard => object[policy[role]].keys \subseteq live[role]
    /\ \A t \in Thread : pc[t] \in Granting => args[t].key \in live[args[t].role]

\* A question in progress has seen all that its role was granted meanwhile,
\* which includes what has been added to the set it holds.
AskersSee ==
    \A t \in Thread :
        /\ pc[t] \in Asking => live[args[t].role] \subseteq seen[t]
        /\ pc[t] = "ask member" => object[held[t]].keys \subseteq seen[t]

\* While a grant is about to install a new set nothing is owed, and a grant
\* that nothing has overlapped holds the set that the policy holds.
GrantsHold ==
    \A t \in Thread :
        /\ pc[t] = "grant install" => owed[args[t].role] = {}
        /\ pc[t] = "grant install" /\ ~raced[t] => Get(args[t].role) = None
        /\ pc[t] = "grant add" /\ ~raced[t] => Get(args[t].role) \in {held[t], Wildcard}
        /\ pc[t] \in Granting /\ ~raced[t] => Granters(args[t].role) = {t}

IInv == TypeOK /\ OnlyLive /\ AskersSee /\ NoGrantOutlivesRevoke /\ GrantsHold /\ LostGrantNeedsRace
=============================================================================
