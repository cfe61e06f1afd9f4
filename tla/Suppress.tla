------------------------------ MODULE Suppress ------------------------------
(***************************************************************************)
(* Dependency suppression (alerting/suppress.rs) over the topology that    *)
(* the device API lets users build (api/targets.rs, db/targets.rs).        *)
(*                                                                         *)
(* A device has up to two direct ascendants, its declared parent and the   *)
(* agent that relays its probes.  Each alerting cycle reads the topology,  *)
(* knows which devices are down, and for every alert searches upwards,     *)
(* generation by generation, for the nearest ancestor that is down.        *)
(***************************************************************************)
EXTENDS Integers, Sequences, FiniteSets

CONSTANTS
  Targets,     \* device ids
  None,        \* Option::None
  Kinds,       \* kinds a user may choose: subset of {"agent", "snmp"}
  MaxDepth     \* MAX_DEPTH

ASSUME SuppressAssumption ==
  /\ IsFiniteSet(Targets)
  /\ None \notin Targets
  /\ Kinds \subseteq {"agent", "snmp"}
  /\ MaxDepth \in Nat \ {0}

VARIABLES
  known, kind, parent_id, via_agent,  \* the targets table
  pc, down, todo, culprit,            \* the cycle: suppressed_by, per device
  target, visited, generation, above, depth   \* the search in flight

table  == <<known, kind, parent_id, via_agent>>
search == <<target, visited, generation, above, depth>>
vars   == <<table, pc, down, todo, culprit, search>>

OptTarget == Targets \cup {None}

Members(s) == {s[i] : i \in DOMAIN s}

Init ==
  /\ known = {}
  /\ kind = [t \in Targets |-> "snmp"]
  /\ parent_id = [t \in Targets |-> None]
  /\ via_agent = [t \in Targets |-> None]
  /\ pc = "idle"
  /\ down = {}
  /\ todo = {}
  /\ culprit = [t \in Targets |-> None]
  /\ target = None
  /\ visited = {}
  /\ generation = <<>>
  /\ above = <<>>
  /\ depth = 0

-----------------------------------------------------------------------------
(* The device API.  A cycle works on what one SELECT read, so edits during *)
(* a cycle are edits between two cycles.                                   *)

\* validate: no device is its own parent or relay, an agent is not relayed.
Valid(t, k, p, r) ==
  /\ p # t
  /\ r # t
  /\ k = "agent" => r = None

\* check_parent, check_relay
ParentExists(p) == p # None => p \in known

RelayIsAgent(r) == r # None => r \in known /\ kind[r] = "agent"

CreateTarget(t, k, p, r) ==
  /\ pc = "idle" /\ t \notin known
  /\ Valid(t, k, p, r) /\ ParentExists(p) /\ RelayIsAgent(r)
  /\ known' = known \cup {t}
  /\ kind' = [kind EXCEPT ![t] = k]
  /\ parent_id' = [parent_id EXCEPT ![t] = p]
  /\ via_agent' = [via_agent EXCEPT ![t] = r]
  /\ UNCHANGED <<pc, down, todo, culprit, search>>

\* A payload without via_agent (keep) leaves the stored relay alone, and is
\* validated as if there were none.
UpdateTarget(t, k, p, r, keep) ==
  /\ pc = "idle" /\ t \in known
  /\ keep => r = None
  /\ Valid(t, k, p, r) /\ ParentExists(p) /\ RelayIsAgent(r)
  /\ kind' = [kind EXCEPT ![t] = k]
  /\ parent_id' = [parent_id EXCEPT ![t] = p]
  /\ via_agent' = IF keep THEN via_agent ELSE [via_agent EXCEPT ![t] = r]
  /\ UNCHANGED <<known, pc, down, todo, culprit, search>>

\* ON DELETE SET NULL, for both references.
DeleteTarget(t) ==
  /\ pc = "idle" /\ t \in known
  /\ known' = known \ {t}
  /\ kind' = [kind EXCEPT ![t] = "snmp"]
  /\ parent_id' = [u \in Targets |-> IF t \in {u, parent_id[u]} THEN None ELSE parent_id[u]]
  /\ via_agent' = [u \in Targets |-> IF t \in {u, via_agent[u]} THEN None ELSE via_agent[u]]
  /\ UNCHANGED <<pc, down, todo, culprit, search>>

-----------------------------------------------------------------------------
(* Topology and the search.                                                *)

\* Mutant: the relay is looked at before the declared parent.
UpRelayFirst(t) ==
  (IF via_agent[t] \in {None, parent_id[t]} THEN <<>> ELSE <<via_agent[t]>>)
    \o (IF parent_id[t] = None THEN <<>> ELSE <<parent_id[t]>>)

\* Mutant: the relay is not an ascendant.
UpParentOnly(t) == IF parent_id[t] = None THEN <<>> ELSE <<parent_id[t]>>

\* Mutant: a missing parent is pushed like another.
UpUnfiltered(t) == <<parent_id[t]>>

\* Topology::new: the declared parent first, the relay after it, no duplicate.
Up(t) ==
  (IF parent_id[t] = None THEN <<>> ELSE <<parent_id[t]>>)
    \o (IF via_agent[t] \in {None, parent_id[t]} THEN <<>> ELSE <<via_agent[t]>>)

\* Which devices are down: their host_down alert fires, or their probe says so.
BeginCycle ==
  /\ pc = "idle"
  /\ \E d \in SUBSET known : down' = d
  /\ todo' = known
  /\ culprit' = [t \in Targets |-> None]
  /\ pc' = "next"
  /\ UNCHANGED <<table, search>>

\* Mutant: the device may come back as its own ancestor.
StartUnmarked(t) ==
  /\ pc = "next" /\ t \in todo
  /\ target' = t /\ visited' = {} /\ generation' = Up(t)
  /\ above' = <<>> /\ depth' = 0 /\ pc' = "walk"
  /\ UNCHANGED <<table, down, todo, culprit>>

\* Mutant: the search begins at the device itself.
StartAtSelf(t) ==
  /\ pc = "next" /\ t \in todo
  /\ target' = t /\ visited' = {} /\ generation' = <<t>>
  /\ above' = <<>> /\ depth' = 0 /\ pc' = "walk"
  /\ UNCHANGED <<table, down, todo, culprit>>

StartSearch(t) ==
  /\ pc = "next" /\ t \in todo
  /\ target' = t
  /\ visited' = {t}
  /\ generation' = Up(t)
  /\ above' = <<>>
  /\ depth' = 0
  /\ pc' = "walk"
  /\ UNCHANGED <<table, down, todo, culprit>>

\* Every search leaves the variables of the next one clean.
Finish ==
  /\ todo' = todo \ {target}
  /\ pc' = "next"
  /\ target' = None /\ visited' = {}
  /\ generation' = <<>> /\ above' = <<>> /\ depth' = 0
  /\ UNCHANGED <<table, down>>

\* A cycle in the data, or a common ascendant: nothing new that way.
SkipVisited ==
  /\ pc = "walk" /\ generation # <<>>
  /\ Head(generation) \in visited
  /\ generation' = Tail(generation)
  /\ UNCHANGED <<table, pc, down, todo, culprit, target, visited, above, depth>>

FoundDown ==
  /\ pc = "walk" /\ generation # <<>>
  /\ Head(generation) \notin visited
  /\ Head(generation) \in down
  /\ culprit' = [culprit EXCEPT ![target] = Head(generation)]
  /\ Finish

VisitAncestor ==
  /\ pc = "walk" /\ generation # <<>>
  /\ Head(generation) \notin visited
  /\ Head(generation) \notin down
  /\ visited' = visited \cup {Head(generation)}
  /\ above' = above \o Up(Head(generation))
  /\ generation' = Tail(generation)
  /\ UNCHANGED <<table, pc, down, todo, culprit, target, depth>>

NextGeneration ==
  /\ pc = "walk" /\ generation = <<>>
  /\ above # <<>> /\ depth + 1 < MaxDepth
  /\ generation' = above
  /\ above' = <<>>
  /\ depth' = depth + 1
  /\ UNCHANGED <<table, pc, down, todo, culprit, target, visited>>

\* No generation left, or MAX_DEPTH of them explored.
GiveUp ==
  /\ pc = "walk" /\ generation = <<>>
  /\ above = <<>> \/ depth + 1 >= MaxDepth
  /\ UNCHANGED culprit
  /\ Finish

EndCycle ==
  /\ pc = "next" /\ todo = {}
  /\ pc' = "idle"
  /\ down' = {}
  /\ culprit' = [t \in Targets |-> None]
  /\ UNCHANGED <<table, todo, search>>

Api ==
  \/ \E t \in Targets, k \in Kinds, p, r \in OptTarget : CreateTarget(t, k, p, r)
  \/ \E t \in Targets, k \in Kinds, p, r \in OptTarget, keep \in BOOLEAN :
       UpdateTarget(t, k, p, r, keep)
  \/ \E t \in Targets : DeleteTarget(t)

Search ==
  \/ \E t \in todo : StartSearch(t)
  \/ SkipVisited \/ FoundDown \/ VisitAncestor \/ NextGeneration \/ GiveUp

Next == Api \/ BeginCycle \/ Search \/ EndCycle

Spec == Init /\ [][Next]_vars

-----------------------------------------------------------------------------
(* Properties.                                                             *)

\* The table holds device ids where ids are expected, and a search in flight
\* explores devices only: no None is ever pushed as an ascendant.
TypeOK ==
  /\ known \subseteq Targets
  /\ kind \in [Targets -> {"agent", "snmp"}]
  /\ parent_id \in [Targets -> OptTarget]
  /\ via_agent \in [Targets -> OptTarget]
  /\ pc \in {"idle", "next", "walk"}
  /\ down \subseteq Targets /\ todo \subseteq Targets
  /\ culprit \in [Targets -> OptTarget]
  /\ target \in OptTarget /\ (pc = "walk" => target \in todo)
  /\ visited \subseteq Targets
  /\ generation \in Seq(Targets) /\ above \in Seq(Targets)
  /\ depth \in Nat

Direct(t) == {parent_id[t], via_agent[t]} \ {None}

\* S holds the direct ascendants of t, and those of each of its members.
ClosedAbove(S, t) == Direct(t) \subseteq S /\ \A a \in S : Direct(a) \subseteq S

\* The strict ancestors of t: what every such set contains.
Ancestors(t) == {a \in Targets : \A S \in SUBSET Targets : ClosedAbove(S, t) => a \in S}

Searched == IF pc = "idle" THEN {} ELSE known \ todo

\* Whoever is named as the cause really is down, and really is above the device;
\* no device is ever the cause of its own suppression, cycles included.
BlamedIsDownAncestor ==
  \A t \in Searched :
    culprit[t] # None => culprit[t] \in (Ancestors(t) \cap down) \ {t}

\* An alert that is let through has no ancestor down: the bound on the depth
\* never cuts a search short when it is at least the number of devices.
LetThroughOnlyIfClear ==
  MaxDepth >= Cardinality(Targets) =>
    \A t \in Searched : culprit[t] = None => Ancestors(t) \cap down \subseteq {t}

\* The ancestors of t at 1 to n steps.
AncestorsWithin(t, n) ==
  LET upTo[k \in Nat] ==
        IF k = 0 THEN {}
        ELSE Direct(t) \cup UNION {Direct(a) : a \in upTo[k - 1]}
  IN upTo[n]

\* The cause named is the nearest ancestor that is down, the declared parent
\* before the relay; nothing is named only if none is down within MaxDepth steps.
NearestBlamed ==
  \A t \in Searched :
    LET near == (AncestorsWithin(t, MaxDepth) \cap down) \ {t}
    IN IF near = {} THEN culprit[t] = None
       ELSE LET n == CHOOSE k \in 1..MaxDepth :
                       /\ (AncestorsWithin(t, k) \cap down) \ {t} # {}
                       /\ (AncestorsWithin(t, k - 1) \cap down) \ {t} = {}
            IN /\ culprit[t] \in AncestorsWithin(t, n) \cap near
               /\ (n = 1 /\ parent_id[t] \in down) => culprit[t] = parent_id[t]

Acyclic == \A t \in known : t \notin Ancestors(t)

AllSearched == pc = "next" /\ todo = {}

\* A muted alert always has somebody above it that is down and does speak: a
\* failure is never announced by nobody.  A dependency cycle, which two updates of the
\* API can store, breaks it: its devices are muted by each other.
CauseSpeaks ==
  AllSearched =>
    \A t \in known :
      culprit[t] # None => \E a \in Ancestors(t) \cap down : culprit[a] = None

\* The same, for the topologies without a dependency cycle.
CauseSpeaksIfAcyclic == Acyclic => CauseSpeaks
=============================================================================
