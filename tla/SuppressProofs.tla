--------------------------- MODULE SuppressProofs ---------------------------
(***************************************************************************)
(* Proofs about Suppress, for every set of devices and every topology that *)
(* the API lets users build, dependency cycles included: the search names  *)
(* only real culprits and the nearest of them, an alert is let through     *)
(* only when nothing above its device is down, and without a dependency    *)
(* cycle somebody always speaks for a muted device.                        *)
(***************************************************************************)
EXTENDS Suppress, FiniteSetTheorems, WellFoundedInduction, TLAPS

-----------------------------------------------------------------------------
(* Sequences as sets of members.                                           *)

\* The members of a concatenation, of a tail and of a head.
LEMMA MembersOf ==
  ASSUME NEW s \in Seq(Targets)
  PROVE  /\ Members(s) \subseteq Targets
         /\ Members(<<>>) = {}
         /\ \A u \in Seq(Targets) : Members(s \o u) = Members(s) \cup Members(u)
         /\ s # <<>> => /\ Head(s) \in Targets /\ Tail(s) \in Seq(Targets)
                        /\ Members(s) = {Head(s)} \cup Members(Tail(s))
<1>1. Members(s) \subseteq Targets /\ Members(<<>>) = {}
  BY DEF Members
<1>2. ASSUME NEW u \in Seq(Targets)
      PROVE  Members(s \o u) = Members(s) \cup Members(u)
  <2>1. \A x : x \in Members(s \o u) => x \in Members(s) \cup Members(u)
    BY DEF Members
  <2>2. \A x : x \in Members(s) => x \in Members(s \o u)
    BY DEF Members
  <2>3. ASSUME NEW i \in DOMAIN u
        PROVE  u[i] \in Members(s \o u)
    <3>1. Len(s) + i \in DOMAIN (s \o u) /\ (s \o u)[Len(s) + i] = u[i]
      OBVIOUS
    <3> QED
      BY <3>1 DEF Members
  <2> QED
    BY <2>1, <2>2, <2>3 DEF Members
<1>3. ASSUME s # <<>>
      PROVE  /\ Head(s) \in Targets /\ Tail(s) \in Seq(Targets)
             /\ Members(s) = {Head(s)} \cup Members(Tail(s))
  <2>1. Head(s) \in Targets /\ Tail(s) \in Seq(Targets) /\ Head(s) = s[1]
    BY <1>3
  <2>2. ASSUME NEW i \in DOMAIN s
        PROVE  s[i] \in {Head(s)} \cup Members(Tail(s))
    <3>1. CASE i = 1
      BY <2>1, <3>1
    <3>2. CASE i # 1
      <4>1. i - 1 \in DOMAIN Tail(s) /\ Tail(s)[i - 1] = s[i]
        BY <1>3, <3>2
      <4> QED
        BY <4>1 DEF Members
    <3> QED
      BY <3>1, <3>2
  <2>3. ASSUME NEW i \in DOMAIN Tail(s)
        PROVE  Tail(s)[i] \in Members(s)
    <3>1. i + 1 \in DOMAIN s /\ Tail(s)[i] = s[i + 1]
      BY <1>3
    <3> QED
      BY <3>1 DEF Members
  <2>4. Head(s) \in Members(s)
    BY <1>3, <2>1 DEF Members
  <2> QED
    BY <2>1, <2>2, <2>3, <2>4 DEF Members
<1> QED
  BY <1>1, <1>2, <1>3

-----------------------------------------------------------------------------
(* Ancestors.                                                              *)

Table == parent_id \in [Targets -> OptTarget] /\ via_agent \in [Targets -> OptTarget]

\* Topology::new lists exactly the direct ascendants.
LEMMA UpIsDirect ==
  ASSUME Table, NEW t \in Targets
  PROVE  /\ Up(t) \in Seq(Targets)
         /\ Members(Up(t)) = Direct(t)
         /\ Direct(t) \subseteq Targets
<1> DEFINE p == IF parent_id[t] = None THEN <<>> ELSE <<parent_id[t]>>
           r == IF via_agent[t] \in {None, parent_id[t]} THEN <<>> ELSE <<via_agent[t]>>
<1>1. p \in Seq(Targets) /\ Members(p) = {parent_id[t]} \ {None}
  BY DEF Table, OptTarget, Members
<1>2. r \in Seq(Targets) /\ Members(r) = {via_agent[t]} \ {None, parent_id[t]}
  BY DEF Table, OptTarget, Members
<1>3. Up(t) = p \o r
  BY DEF Up
<1> HIDE DEF p, r
<1>4. Up(t) \in Seq(Targets) /\ Members(Up(t)) = Members(p) \cup Members(r)
  BY <1>1, <1>2, <1>3, MembersOf
<1> QED
  BY <1>1, <1>2, <1>4 DEF Direct, Table, OptTarget

\* Direct ascendants are ancestors, and so are those of an ancestor.
LEMMA AncestorsClosed ==
  ASSUME Table, NEW t \in Targets
  PROVE  /\ Direct(t) \subseteq Ancestors(t)
         /\ \A a \in Ancestors(t) : Direct(a) \subseteq Ancestors(t)
<1>1. \A a \in Targets : Direct(a) \subseteq Targets
  BY UpIsDirect
<1> QED
  BY <1>1 DEF Ancestors, ClosedAbove

\* A closed set that the search has explored contains every ancestor.
LEMMA ClosedHoldsAncestors ==
  ASSUME NEW t \in Targets, NEW S \in SUBSET Targets, ClosedAbove(S, t)
  PROVE  Ancestors(t) \subseteq S
  BY DEF Ancestors

\* A step that leaves the table alone leaves the ancestors alone.
LEMMA AncestorsStable ==
  ASSUME UNCHANGED <<parent_id, via_agent>>
  PROVE  /\ \A t : Direct(t)' = Direct(t)
         /\ \A t : Ancestors(t)' = Ancestors(t)
  BY DEF Ancestors, ClosedAbove, Direct

-----------------------------------------------------------------------------
(* The type invariant.                                                     *)

\* The initial state is well typed.
LEMMA TypeInit == Init => TypeOK
  BY SuppressAssumption DEF Init, TypeOK, OptTarget

\* Every API call and every step of a search keeps the types.
LEMMA TypeStep ==
  ASSUME TypeOK, [Next]_vars
  PROVE  TypeOK'
<1> USE DEF TypeOK, table, search
<1>1. Table
  BY DEF Table
<1>2. ASSUME NEW t \in Targets, NEW k \in Kinds, NEW p \in OptTarget, NEW r \in OptTarget,
             CreateTarget(t, k, p, r)
      PROVE  TypeOK'
  BY <1>2, SuppressAssumption DEF CreateTarget
<1>3. ASSUME NEW t \in Targets, NEW k \in Kinds, NEW p \in OptTarget, NEW r \in OptTarget,
             NEW keep \in BOOLEAN, UpdateTarget(t, k, p, r, keep)
      PROVE  TypeOK'
  BY <1>3, SuppressAssumption DEF UpdateTarget
<1>4. ASSUME NEW t \in Targets, DeleteTarget(t)
      PROVE  TypeOK'
  BY <1>4 DEF DeleteTarget, OptTarget
<1>5. CASE BeginCycle
  BY <1>5 DEF BeginCycle, OptTarget
<1>6. ASSUME NEW t \in todo, StartSearch(t)
      PROVE  TypeOK'
  <2>1. Up(t) \in Seq(Targets)
    BY <1>1, UpIsDirect
  <2> QED
    BY <1>6, <2>1 DEF StartSearch, OptTarget
<1>7. CASE SkipVisited
  BY <1>7, MembersOf DEF SkipVisited
<1>8. CASE FoundDown
  BY <1>8, MembersOf DEF FoundDown, Finish, OptTarget
<1>9. CASE VisitAncestor
  <2>1. Head(generation) \in Targets /\ Tail(generation) \in Seq(Targets)
    BY <1>9, MembersOf DEF VisitAncestor
  <2>2. Up(Head(generation)) \in Seq(Targets)
    BY <1>1, <2>1, UpIsDirect
  <2> QED
    BY <1>9, <2>1, <2>2 DEF VisitAncestor
<1>10. CASE NextGeneration
  BY <1>10 DEF NextGeneration
<1>11. CASE GiveUp
  BY <1>11 DEF GiveUp, Finish, OptTarget
<1>12. CASE EndCycle
  BY <1>12 DEF EndCycle, OptTarget
<1>13. CASE UNCHANGED vars
  BY <1>13 DEF vars
<1> QED
  BY <1>2, <1>3, <1>4, <1>5, <1>6, <1>7, <1>8, <1>9, <1>10, <1>11, <1>12, <1>13
  DEF Next, Api, Search

\* The search only ever handles devices, whatever the topology.
THEOREM TypeCorrect == Spec => []TypeOK
<1>1. TypeOK /\ [Next]_vars => TypeOK'
  BY TypeStep
<1> QED
  BY <1>1, TypeInit, PTL DEF Spec

-----------------------------------------------------------------------------
(* Soundness and completeness of the search.                               *)

\* Everything the search has met is above the device.
OnlyAncestors ==
  pc = "walk" =>
    Members(generation) \cup Members(above) \cup (visited \ {target}) \subseteq Ancestors(target)

\* The device is marked from the start, and nothing down was passed over.
PassedUp ==
  pc = "walk" => target \in visited /\ (visited \ {target}) \cap down = {}

\* Whatever stands above a visited device was visited or is still to be.
NothingDropped ==
  pc = "walk" =>
    \A v \in visited : Direct(v) \subseteq visited \cup Members(generation) \cup Members(above)

\* Each generation has visited one device at least.
DepthBounded ==
  pc = "walk" =>
    /\ Cardinality(visited) >= depth + 1
    /\ above # <<>> => Cardinality(visited) >= depth + 2

\* What BlamedIsDownAncestor says, for every device of a cycle.
BlameSound ==
  \A t \in Targets :
    culprit[t] # None =>
      pc # "idle" /\ culprit[t] \in (Ancestors(t) \cap down) \ {t}

\* What LetThroughOnlyIfClear says.
LetThroughSound ==
  MaxDepth >= Cardinality(Targets) /\ pc # "idle" =>
    \A t \in known \ todo : culprit[t] = None => Ancestors(t) \cap down \subseteq {t}

SearchInv ==
  /\ OnlyAncestors /\ PassedUp /\ NothingDropped /\ DepthBounded
  /\ BlameSound /\ LetThroughSound

\* The search invariant holds initially: no search is in flight.
LEMMA SearchInit == Init => SearchInv
  BY DEF Init, SearchInv, OnlyAncestors, PassedUp, NothingDropped, DepthBounded,
         BlameSound, LetThroughSound

\* When a search gives up, it has visited every ancestor: the bound on the
\* depth cannot have cut it short.
LEMMA GiveUpIsComplete ==
  ASSUME TypeOK, SearchInv, GiveUp, MaxDepth >= Cardinality(Targets)
  PROVE  Ancestors(target) \cap down \subseteq {target}
<1> USE DEF GiveUp, SearchInv
<1>1. target \in Targets /\ visited \subseteq Targets /\ depth \in Nat
  BY DEF TypeOK
<1>2. IsFiniteSet(Targets) /\ Cardinality(Targets) \in Nat /\ MaxDepth \in Nat
  BY SuppressAssumption, FS_CardinalityType
<1>3. Cardinality(visited) <= Cardinality(Targets) /\ Cardinality(visited) \in Nat
  BY <1>1, <1>2, FS_Subset, FS_CardinalityType
<1>4. above = <<>>
  BY <1>1, <1>2, <1>3 DEF DepthBounded
<1>5. Members(generation) = {} /\ Members(above) = {}
  BY <1>4 DEF Members
<1>6. ClosedAbove(visited, target)
  BY <1>5 DEF ClosedAbove, NothingDropped, PassedUp
<1>7. Ancestors(target) \subseteq visited
  BY <1>1, <1>6, ClosedHoldsAncestors
<1> QED
  BY <1>7 DEF PassedUp

\* Every step keeps the search invariant, one action at a time.
LEMMA SearchStep ==
  ASSUME TypeOK, SearchInv, [Next]_vars
  PROVE  SearchInv'
<1> USE DEF table, search
<1>1. Table
  BY DEF TypeOK, Table
<1>2. CASE Api
  \* Between two cycles there is no search and nobody is blamed.
  <2>1. pc = "idle" /\ pc' = "idle" /\ culprit' = culprit
    BY <1>2 DEF Api, CreateTarget, UpdateTarget, DeleteTarget
  <2> QED
    BY <2>1 DEF SearchInv, OnlyAncestors, PassedUp, NothingDropped, DepthBounded,
                BlameSound, LetThroughSound
<1>3. CASE BeginCycle \/ EndCycle
  <2>1. /\ \A t \in Targets : culprit'[t] = None
        /\ pc' # "walk"
        /\ pc' = "idle" \/ known' \ todo' = {}
    BY <1>3 DEF BeginCycle, EndCycle
  <2> QED
    BY <2>1 DEF SearchInv, OnlyAncestors, PassedUp, NothingDropped, DepthBounded,
                BlameSound, LetThroughSound
<1>4. ASSUME NEW t \in todo, StartSearch(t)
      PROVE  SearchInv'
  <2>1. /\ pc = "next" /\ pc' = "walk" /\ t \in Targets
        /\ target' = t /\ visited' = {t} /\ generation' = Up(t)
        /\ above' = <<>> /\ depth' = 0
        /\ UNCHANGED <<table, down, todo, culprit>>
    BY <1>4 DEF StartSearch, TypeOK
  <2>2. /\ \A u : Direct(u)' = Direct(u)
        /\ \A u : Ancestors(u)' = Ancestors(u)
    BY <2>1, AncestorsStable
  <2>3. Members(generation') = Direct(t) /\ Members(above') = {}
    BY <1>1, <2>1, UpIsDirect DEF Members
  <2>4. OnlyAncestors'
    BY <1>1, <2>1, <2>2, <2>3, AncestorsClosed DEF OnlyAncestors
  <2>5. PassedUp' /\ NothingDropped'
    BY <2>1, <2>2, <2>3 DEF PassedUp, NothingDropped
  <2>6. DepthBounded'
    <3>1. Cardinality(visited') = 1
      BY <2>1, FS_Singleton
    <3> QED
      BY <2>1, <3>1 DEF DepthBounded
  <2>7. BlameSound' /\ LetThroughSound'
    BY <2>1, <2>2 DEF SearchInv, BlameSound, LetThroughSound
  <2> QED
    BY <2>4, <2>5, <2>6, <2>7 DEF SearchInv
<1>5. CASE SkipVisited
  <2>1. /\ pc = "walk" /\ pc' = "walk" /\ Head(generation) \in visited
        /\ generation # <<>> /\ generation' = Tail(generation)
        /\ UNCHANGED <<table, down, todo, culprit, target, visited, above, depth>>
    BY <1>5 DEF SkipVisited
  <2>2. /\ \A u : Direct(u)' = Direct(u)
        /\ \A u : Ancestors(u)' = Ancestors(u)
    BY <2>1, AncestorsStable
  <2>3. Members(generation) = {Head(generation)} \cup Members(generation')
    BY <2>1, MembersOf DEF TypeOK
  <2>4. OnlyAncestors' /\ NothingDropped'
    BY <2>1, <2>2, <2>3 DEF SearchInv, OnlyAncestors, NothingDropped
  <2>5. PassedUp' /\ DepthBounded' /\ BlameSound' /\ LetThroughSound'
    BY <2>1, <2>2 DEF SearchInv, PassedUp, DepthBounded, BlameSound, LetThroughSound
  <2> QED
    BY <2>4, <2>5 DEF SearchInv
<1>6. CASE FoundDown
  <2> DEFINE h == Head(generation)
  <2>1. /\ pc = "walk" /\ pc' = "next" /\ generation # <<>> /\ h \notin visited /\ h \in down
        /\ culprit' = [culprit EXCEPT ![target] = h]
        /\ todo' = todo \ {target}
        /\ UNCHANGED <<table, down>>
    BY <1>6 DEF FoundDown, Finish
  <2>2. \A u : Ancestors(u)' = Ancestors(u)
    BY <2>1, AncestorsStable
  <2>3. target \in Targets /\ culprit \in [Targets -> OptTarget]
    BY <2>1 DEF TypeOK
  <2>4. h \in Targets /\ h \in Members(generation)
    BY <2>1, MembersOf DEF TypeOK
  <2>5. h \in Ancestors(target) /\ h # target
    BY <2>1, <2>4 DEF SearchInv, OnlyAncestors, PassedUp
  <2> HIDE DEF h
  <2>6. BlameSound'
    BY <2>1, <2>2, <2>3, <2>5 DEF SearchInv, BlameSound
  <2>7. LetThroughSound'
    BY <2>1, <2>2, <2>3, <2>4, SuppressAssumption DEF SearchInv, LetThroughSound
  <2> QED
    BY <2>1, <2>6, <2>7
    DEF SearchInv, OnlyAncestors, PassedUp, NothingDropped, DepthBounded
<1>7. CASE VisitAncestor
  <2> DEFINE h == Head(generation)
  <2>1. /\ pc = "walk" /\ pc' = "walk" /\ generation # <<>> /\ h \notin visited /\ h \notin down
        /\ visited' = visited \cup {h} /\ above' = above \o Up(h)
        /\ generation' = Tail(generation)
        /\ UNCHANGED <<table, down, todo, culprit, target, depth>>
    BY <1>7 DEF VisitAncestor
  <2>2. /\ \A u : Direct(u)' = Direct(u)
        /\ \A u : Ancestors(u)' = Ancestors(u)
    BY <2>1, AncestorsStable
  <2>3. h \in Targets /\ Members(generation) = {h} \cup Members(generation')
    BY <2>1, MembersOf DEF TypeOK
  <2>4. Members(above') = Members(above) \cup Direct(h)
    BY <1>1, <2>1, <2>3, UpIsDirect, MembersOf DEF TypeOK
  <2>5. target \in Targets /\ target \in visited
    BY <2>1 DEF TypeOK, SearchInv, PassedUp
  <2>6. h \in Ancestors(target) /\ Direct(h) \subseteq Ancestors(target)
    BY <1>1, <2>1, <2>3, <2>5, AncestorsClosed DEF SearchInv, OnlyAncestors
  <2>7. IsFiniteSet(visited) /\ Cardinality(visited') = Cardinality(visited) + 1
        /\ Cardinality(visited) \in Nat
    BY <2>1, SuppressAssumption, FS_Subset, FS_AddElement, FS_CardinalityType DEF TypeOK
  <2> HIDE DEF h
  <2>8. OnlyAncestors'
    BY <2>1, <2>2, <2>3, <2>4, <2>6 DEF SearchInv, OnlyAncestors
  <2>9. PassedUp'
    BY <2>1 DEF SearchInv, PassedUp
  <2>10. NothingDropped'
    BY <2>1, <2>2, <2>3, <2>4 DEF SearchInv, NothingDropped
  <2>11. DepthBounded'
    BY <2>1, <2>7 DEF SearchInv, DepthBounded, TypeOK
  <2>12. BlameSound' /\ LetThroughSound'
    BY <2>1, <2>2 DEF SearchInv, BlameSound, LetThroughSound
  <2> QED
    BY <2>8, <2>9, <2>10, <2>11, <2>12 DEF SearchInv
<1>8. CASE NextGeneration
  <2>1. /\ pc = "walk" /\ pc' = "walk" /\ generation = <<>> /\ above # <<>>
        /\ generation' = above /\ above' = <<>> /\ depth' = depth + 1
        /\ UNCHANGED <<table, down, todo, culprit, target, visited>>
    BY <1>8 DEF NextGeneration
  <2>2. /\ \A u : Direct(u)' = Direct(u)
        /\ \A u : Ancestors(u)' = Ancestors(u)
    BY <2>1, AncestorsStable
  <2>3. Members(generation) = {} /\ Members(above') = {} /\ Members(generation') = Members(above)
    BY <2>1 DEF Members
  <2>4. OnlyAncestors' /\ NothingDropped'
    BY <2>1, <2>2, <2>3 DEF SearchInv, OnlyAncestors, NothingDropped
  <2>5. DepthBounded'
    BY <2>1 DEF SearchInv, DepthBounded, TypeOK
  <2>6. PassedUp' /\ BlameSound' /\ LetThroughSound'
    BY <2>1, <2>2 DEF SearchInv, PassedUp, BlameSound, LetThroughSound
  <2> QED
    BY <2>4, <2>5, <2>6 DEF SearchInv
<1>9. CASE GiveUp
  <2>1. /\ pc = "walk" /\ pc' = "next" /\ todo' = todo \ {target}
        /\ UNCHANGED <<table, down, culprit>>
    BY <1>9 DEF GiveUp, Finish
  <2>2. \A u : Ancestors(u)' = Ancestors(u)
    BY <2>1, AncestorsStable
  <2>3. MaxDepth >= Cardinality(Targets) => Ancestors(target) \cap down \subseteq {target}
    BY <1>9, GiveUpIsComplete
  <2>4. BlameSound' /\ LetThroughSound'
    BY <2>1, <2>2, <2>3 DEF SearchInv, BlameSound, LetThroughSound
  <2> QED
    BY <2>1, <2>4 DEF SearchInv, OnlyAncestors, PassedUp, NothingDropped, DepthBounded
<1>10. CASE UNCHANGED vars
  <2>1. /\ \A u : Direct(u)' = Direct(u)
        /\ \A u : Ancestors(u)' = Ancestors(u)
    BY <1>10, AncestorsStable DEF vars
  <2> QED
    BY <1>10, <2>1 DEF vars, SearchInv, OnlyAncestors, PassedUp, NothingDropped,
                       DepthBounded, BlameSound, LetThroughSound
<1> QED
  BY <1>2, <1>3, <1>4, <1>5, <1>6, <1>7, <1>8, <1>9, <1>10 DEF Next, Search

\* The search invariant holds in every reachable state.
LEMMA SearchInvariant == Spec => []SearchInv
<1>1. TypeOK /\ SearchInv /\ [Next]_vars => SearchInv'
  BY SearchStep
<1> QED
  BY <1>1, SearchInit, TypeCorrect, PTL DEF Spec

\* Whoever suppression_for names is down and above the device, and is never the
\* device itself, in every topology.
THEOREM BlameIsSound == Spec => []BlamedIsDownAncestor
<1>1. TypeOK /\ SearchInv => BlamedIsDownAncestor
  BY DEF SearchInv, BlameSound, BlamedIsDownAncestor, Searched, TypeOK
<1> QED
  BY <1>1, SearchInvariant, TypeCorrect, PTL

\* An alert that is let through has nothing down above it, when MAX_DEPTH is at
\* least the number of devices.
THEOREM LetThroughIsSound == Spec => []LetThroughOnlyIfClear
<1>1. TypeOK /\ SearchInv => LetThroughOnlyIfClear
  BY DEF SearchInv, LetThroughSound, LetThroughOnlyIfClear, Searched, TypeOK
<1> QED
  BY <1>1, SearchInvariant, TypeCorrect, PTL

-----------------------------------------------------------------------------
(* Ancestors by the number of steps.                                       *)

\* A set of naturals that is not empty has a least member.
LEMMA LeastNatural ==
  ASSUME NEW S \in SUBSET Nat, S # {}
  PROVE  \E x \in S : \A y \in S : x <= y
<1> DEFINE R == OpToRel(<, Nat)
<1>1. IsWellFoundedOn(R, Nat)
  BY NatLessThanWellFounded
<1>2. \A x, y \in Nat : y < x => <<y, x>> \in R
  BY DEF OpToRel
<1> HIDE DEF R
<1>3. PICK x \in S : \A y \in S : ~(<<y, x>> \in R)
  BY <1>1, WFMin
<1>4. \A y \in S : ~(y < x)
  BY <1>2, <1>3
<1>5. \A y \in S : x <= y
  BY <1>4
<1> QED
  BY <1>5

\* A chain of n direct ascendants from t up to a.
Chain(path, t, a, n) ==
  /\ path \in [1..n -> Targets]
  /\ path[1] \in Direct(t) /\ path[n] = a
  /\ \A i \in 1..(n - 1) : path[i + 1] \in Direct(path[i])

ByChains(t) ==
  [k \in Nat |-> {a \in Targets : \E n \in 1..k : \E path \in [1..n -> Targets] : Chain(path, t, a, n)}]

\* Chains satisfy the recursion that AncestorsWithin is defined by: one step more
\* is one more device at the end of the chain.
LEMMA ChainsRecur ==
  ASSUME Table, NEW t \in Targets
  PROVE  ByChains(t) =
           [k \in Nat |-> IF k = 0 THEN {}
                          ELSE Direct(t) \cup UNION {Direct(a) : a \in ByChains(t)[k - 1]}]
<1>1. \A a \in Targets : Direct(a) \subseteq Targets
  BY UpIsDirect
<1>2. ASSUME NEW k \in Nat, k # 0, NEW b \in ByChains(t)[k]
      PROVE  b \in Direct(t) \cup UNION {Direct(a) : a \in ByChains(t)[k - 1]}
  <2>1. PICK n \in 1..k : \E path \in [1..n -> Targets] : Chain(path, t, b, n)
    BY <1>2 DEF ByChains
  <2>2. PICK path \in [1..n -> Targets] : Chain(path, t, b, n)
    BY <2>1
  <2>3. CASE n = 1
    BY <2>2, <2>3 DEF Chain
  <2>4. CASE n # 1
    <3> DEFINE q == [i \in 1..(n - 1) |-> path[i]]
    <3>1. n - 1 \in 1..(k - 1) /\ k - 1 \in Nat /\ path[n - 1] \in Targets
      BY <2>4
    <3>2. q \in [1..(n - 1) -> Targets] /\ Chain(q, t, path[n - 1], n - 1)
      BY <2>2, <2>4 DEF Chain
    <3>3. path[n - 1] \in ByChains(t)[k - 1]
      <4> HIDE DEF q
      <4> QED
        BY <3>1, <3>2 DEF ByChains
    <3>4. b \in Direct(path[n - 1])
      BY <2>2, <2>4 DEF Chain
    <3> QED
      BY <3>3, <3>4
  <2> QED
    BY <2>3, <2>4
<1>3. ASSUME NEW k \in Nat, k # 0, NEW b \in Direct(t)
      PROVE  b \in ByChains(t)[k]
  <2> DEFINE q == [i \in 1..1 |-> b]
  <2>1. b \in Targets /\ 1 \in 1..k
    BY <1>1, <1>3
  <2>2. q \in [1..1 -> Targets] /\ Chain(q, t, b, 1)
    BY <1>3, <2>1 DEF Chain
  <2> HIDE DEF q
  <2> QED
    BY <2>1, <2>2 DEF ByChains
<1>4. ASSUME NEW k \in Nat, k # 0, NEW a \in ByChains(t)[k - 1], NEW b \in Direct(a)
      PROVE  b \in ByChains(t)[k]
  <2>0. k - 1 \in Nat
    BY <1>4
  <2>1. a \in Targets /\ \E n \in 1..(k - 1) : \E path \in [1..n -> Targets] : Chain(path, t, a, n)
    BY <1>4, <2>0 DEF ByChains
  <2>2. PICK n \in 1..(k - 1) : \E path \in [1..n -> Targets] : Chain(path, t, a, n)
    BY <2>1
  <2>3. PICK path \in [1..n -> Targets] : Chain(path, t, a, n)
    BY <2>2
  <2> DEFINE q == [i \in 1..(n + 1) |-> IF i = n + 1 THEN b ELSE path[i]]
  <2>4. b \in Targets /\ n + 1 \in 1..k
    BY <1>1, <1>4, <2>1
  <2>5. q \in [1..(n + 1) -> Targets]
    BY <2>3, <2>4
  <2>6. q[1] \in Direct(t) /\ q[n + 1] = b
    BY <2>3 DEF Chain
  <2>7. ASSUME NEW i \in 1..((n + 1) - 1)
        PROVE  q[i + 1] \in Direct(q[i])
    <3>1. CASE i = n
      BY <1>4, <2>3, <3>1 DEF Chain
    <3>2. CASE i # n
      BY <2>3, <3>2 DEF Chain
    <3> QED
      BY <3>1, <3>2
  <2>8. Chain(q, t, b, n + 1)
    BY <2>5, <2>6, <2>7 DEF Chain
  <2> HIDE DEF q
  <2> QED
    BY <2>4, <2>5, <2>8 DEF ByChains
<1>5. ByChains(t)[0] = {}
  BY DEF ByChains
<1>6. ASSUME NEW k \in Nat, k # 0
      PROVE  ByChains(t)[k] = Direct(t) \cup UNION {Direct(a) : a \in ByChains(t)[k - 1]}
  BY <1>2, <1>3, <1>4, <1>6
<1>7. ByChains(t) = [k \in Nat |-> ByChains(t)[k]]
  BY DEF ByChains
<1> QED
  BY <1>5, <1>6, <1>7

\* The recursion of AncestorsWithin has a solution, so it is one: the ancestors
\* at n steps at most are the direct ones and those above the ones at n - 1.
LEMMA WithinRecurs ==
  ASSUME Table, NEW t \in Targets, NEW n \in Nat
  PROVE  AncestorsWithin(t, n) =
           IF n = 0 THEN {}
           ELSE Direct(t) \cup UNION {Direct(a) : a \in AncestorsWithin(t, n - 1)}
<1> DEFINE P(f) ==
      f = [k \in Nat |-> IF k = 0 THEN {} ELSE Direct(t) \cup UNION {Direct(a) : a \in f[k - 1]}]
    F == CHOOSE f : P(f)
<1>1. P(F)
  <2>1. P(ByChains(t))
    BY ChainsRecur
  <2> HIDE DEF P
  <2> QED
    BY <2>1, Zenon
<1>2. \A k : AncestorsWithin(t, k) = F[k]
  BY Zenon DEF AncestorsWithin
<1> HIDE DEF F
<1>3. F[n] = IF n = 0 THEN {} ELSE Direct(t) \cup UNION {Direct(a) : a \in F[n - 1]}
  BY <1>1
<1> QED
  BY <1>2, <1>3, Zenon

\* None at 0 steps, the direct ones from 1 step on, and one step up adds one.
LEMMA WithinSteps ==
  ASSUME Table, NEW t \in Targets
  PROVE  /\ AncestorsWithin(t, 0) = {}
         /\ \A n \in Nat : /\ Direct(t) \subseteq AncestorsWithin(t, n + 1)
                           /\ AncestorsWithin(t, n) \subseteq Targets
                           /\ \A a \in AncestorsWithin(t, n) : Direct(a) \subseteq AncestorsWithin(t, n + 1)
                           /\ \A b \in AncestorsWithin(t, n + 1) :
                                b \in Direct(t) \/ \E a \in AncestorsWithin(t, n) : b \in Direct(a)
<1>1. AncestorsWithin(t, 0) = {}
  BY WithinRecurs
<1>2. ASSUME NEW n \in Nat
      PROVE  AncestorsWithin(t, n + 1) = Direct(t) \cup UNION {Direct(a) : a \in AncestorsWithin(t, n)}
  BY WithinRecurs, n + 1 \in Nat, n + 1 # 0, (n + 1) - 1 = n
<1>3. \A a \in Targets : Direct(a) \subseteq Targets
  BY UpIsDirect
<1>4. \A n \in Nat : AncestorsWithin(t, n) \subseteq Targets
  <2> DEFINE W(n) == AncestorsWithin(t, n)
             S == {n \in Nat : ~(W(n) \subseteq Targets)}
  <2>1. SUFFICES ASSUME S # {} PROVE FALSE
    OBVIOUS
  <2>2. PICK n \in S : \A m \in S : n <= m
    BY <2>1, LeastNatural
  <2>3. n # 0 /\ n - 1 \in Nat /\ n - 1 \notin S
    BY <1>1, <2>2
  <2>4. W(n - 1) \subseteq Targets
    BY <2>3
  <2>5. W(n) = Direct(t) \cup UNION {Direct(a) : a \in W(n - 1)}
    BY <1>2, <2>3, n - 1 + 1 = n
  <2> QED
    BY <1>3, <2>2, <2>4, <2>5
<1> QED
  BY <1>1, <1>2, <1>4

\* More steps reach more ancestors.
LEMMA WithinMonotone ==
  ASSUME Table, NEW t \in Targets, NEW m \in Nat, NEW n \in Nat, m <= n
  PROVE  AncestorsWithin(t, m) \subseteq AncestorsWithin(t, n)
<1> DEFINE W(k) == AncestorsWithin(t, k)
<1>1. \A k \in Nat : W(k) \subseteq W(k + 1)
  <2> DEFINE S == {k \in Nat : ~(W(k) \subseteq W(k + 1))}
  <2>1. SUFFICES ASSUME S # {} PROVE FALSE
    OBVIOUS
  <2>2. PICK k \in S : \A j \in S : k <= j
    BY <2>1, LeastNatural
  <2>3. k # 0 /\ k - 1 \in Nat /\ k - 1 \notin S
    BY <2>2, WithinSteps
  <2>4. W(k - 1) \subseteq W(k)
    BY <2>3, k - 1 + 1 = k
  <2>5. ASSUME NEW b \in W(k)
        PROVE  b \in W(k + 1)
    <3>1. b \in Direct(t) \/ \E a \in W(k - 1) : b \in Direct(a)
      BY <2>3, <2>5, WithinSteps, k - 1 + 1 = k
    <3> QED
      BY <2>4, <3>1, WithinSteps, k \in Nat
  <2> QED
    BY <2>2, <2>5
<1>2. \A k \in Nat : m <= k => W(m) \subseteq W(k)
  <2> DEFINE S == {k \in Nat : m <= k /\ ~(W(m) \subseteq W(k))}
  <2>1. SUFFICES ASSUME S # {} PROVE FALSE
    OBVIOUS
  <2>2. PICK k \in S : \A j \in S : k <= j
    BY <2>1, LeastNatural
  <2>3. k # m
    BY <2>2
  <2>4. k - 1 \in Nat /\ m <= k - 1 /\ k - 1 \notin S
    BY <2>2, <2>3
  <2>5. W(m) \subseteq W(k - 1) /\ W(k - 1) \subseteq W(k)
    BY <1>1, <2>4, k - 1 + 1 = k
  <2> QED
    BY <2>2, <2>5
<1> QED
  BY <1>2

\* At any number of steps, ancestors are ancestors.
LEMMA WithinAncestors ==
  ASSUME Table, NEW t \in Targets, NEW n \in Nat
  PROVE  AncestorsWithin(t, n) \subseteq Ancestors(t)
<1> DEFINE W(k) == AncestorsWithin(t, k)
           S == {k \in Nat : ~(W(k) \subseteq Ancestors(t))}
<1>1. SUFFICES ASSUME S # {} PROVE FALSE
  OBVIOUS
<1>2. PICK k \in S : \A j \in S : k <= j
  BY <1>1, LeastNatural
<1>3. k # 0 /\ k - 1 \in Nat /\ k - 1 \notin S
  BY <1>2, WithinSteps
<1>4. W(k - 1) \subseteq Ancestors(t)
  BY <1>3
<1>5. \A b \in W(k) : b \in Direct(t) \/ \E a \in W(k - 1) : b \in Direct(a)
  BY <1>3, WithinSteps, k - 1 + 1 = k
<1>6. W(k) \subseteq Ancestors(t)
  BY <1>4, <1>5, AncestorsClosed
<1> QED
  BY <1>2, <1>6

\* A step that leaves the table alone leaves the ancestors at n steps alone.
LEMMA WithinStable ==
  ASSUME UNCHANGED <<parent_id, via_agent>>
  PROVE  \A t, n : AncestorsWithin(t, n)' = AncestorsWithin(t, n)
  BY SMT DEF AncestorsWithin, Direct

-----------------------------------------------------------------------------
(* The nearest culprit.                                                    *)

\* No device is its own parent: validate refuses it, and a deletion only clears.
NotOwnParent == \A t \in Targets : parent_id[t] # t

\* At depth d the search looks at the devices d + 1 steps away, having found
\* nothing down any nearer; those still to be looked at and those already
\* visited are all there is within d + 1 steps.
WalkByDistance ==
  pc = "walk" =>
    /\ depth + 1 <= MaxDepth
    /\ Members(generation) \cup (visited \ {target}) \subseteq AncestorsWithin(target, depth + 1)
    /\ AncestorsWithin(target, depth + 1) \subseteq visited \cup Members(generation)
    /\ Members(above) \subseteq AncestorsWithin(target, depth + 2)
    /\ AncestorsWithin(target, depth) \cap down \subseteq {target}

\* While the declared parent is down the first generation is as Topology::new listed it.
ParentFirst ==
  pc = "walk" /\ depth = 0 /\ parent_id[target] \in down =>
    generation = Up(target) /\ visited = {target}

\* c is down d steps above t, nothing is down nearer, and a parent goes first.
NearestAt(t, c, d) ==
  /\ c \in (AncestorsWithin(t, d) \cap down) \ {t}
  /\ AncestorsWithin(t, d - 1) \cap down \subseteq {t}
  /\ d = 1 /\ parent_id[t] \in down => c = parent_id[t]

NearestFound ==
  pc # "idle" =>
    \A t \in known \ todo :
      IF culprit[t] = None THEN AncestorsWithin(t, MaxDepth) \cap down \subseteq {t}
      ELSE \E d \in 1..MaxDepth : NearestAt(t, culprit[t], d)

\* Only devices of the table are down.
DownKnown == pc # "idle" => down \subseteq known

\* Nobody is blamed before the search for its device.
BlamedLate == \A t \in todo : culprit[t] = None

DistanceInv ==
  NotOwnParent /\ WalkByDistance /\ ParentFirst /\ NearestFound /\ DownKnown /\ BlamedLate

\* The distance invariant holds initially.
LEMMA DistanceInit == Init => DistanceInv
  BY SuppressAssumption
  DEF Init, DistanceInv, NotOwnParent, WalkByDistance, ParentFirst, NearestFound, DownKnown, BlamedLate

\* A search that gives up has looked at everything within MaxDepth steps.
LEMMA GiveUpIsFar ==
  ASSUME TypeOK, SearchInv, DistanceInv, GiveUp
  PROVE  AncestorsWithin(target, MaxDepth) \cap down \subseteq {target}
<1>1. Table /\ target \in Targets /\ depth \in Nat /\ MaxDepth \in Nat /\ pc = "walk"
  BY SuppressAssumption DEF TypeOK, Table, GiveUp
<1>2. Members(generation) = {}
  BY DEF GiveUp, Members
<1>3. CASE above = <<>>
  <2>1. Members(above) = {}
    BY <1>3 DEF Members
  <2>2. ClosedAbove(visited, target) /\ visited \in SUBSET Targets
    BY <1>1, <1>2, <2>1 DEF ClosedAbove, SearchInv, NothingDropped, PassedUp, TypeOK
  <2>3. Ancestors(target) \subseteq visited
    BY <1>1, <2>2, ClosedHoldsAncestors
  <2>4. AncestorsWithin(target, MaxDepth) \subseteq Ancestors(target)
    BY <1>1, WithinAncestors
  <2> QED
    BY <1>1, <2>3, <2>4 DEF SearchInv, PassedUp
<1>4. CASE above # <<>>
  <2>1. depth + 1 = MaxDepth
    BY <1>1, <1>4 DEF GiveUp, DistanceInv, WalkByDistance
  <2>2. AncestorsWithin(target, depth + 1) \subseteq visited
    BY <1>1, <1>2 DEF DistanceInv, WalkByDistance
  <2> QED
    BY <1>1, <2>1, <2>2 DEF SearchInv, PassedUp
<1> QED
  BY <1>3, <1>4

\* The first of a generation that is down and new is as near as any.
LEMMA FoundIsNearest ==
  ASSUME TypeOK, SearchInv, DistanceInv, FoundDown
  PROVE  \E d \in 1..MaxDepth : NearestAt(target, Head(generation), d)
<1> DEFINE h == Head(generation)
<1>1. Table /\ target \in Targets /\ depth \in Nat /\ MaxDepth \in Nat /\ pc = "walk"
  BY SuppressAssumption DEF TypeOK, Table, FoundDown
<1>2. h \in Members(generation) /\ h \in down /\ h \notin visited /\ generation # <<>>
  BY MembersOf DEF TypeOK, FoundDown
<1>3. h # target
  BY <1>1, <1>2 DEF SearchInv, PassedUp
<1>4. h \in AncestorsWithin(target, depth + 1)
  BY <1>1, <1>2 DEF DistanceInv, WalkByDistance
<1>5. ASSUME depth = 0, parent_id[target] \in down
      PROVE  h = parent_id[target]
  <2>1. generation = Up(target)
    BY <1>1, <1>5 DEF DistanceInv, ParentFirst
  <2>2. parent_id[target] # None
    BY <1>5, SuppressAssumption DEF TypeOK
  <2>3. Head(Up(target)) = parent_id[target]
    BY <2>2 DEF Up
  <2> QED
    BY <2>1, <2>3
<1>6. depth + 1 \in 1..MaxDepth /\ AncestorsWithin(target, (depth + 1) - 1) \cap down \subseteq {target}
  <2>1. (depth + 1) - 1 = depth
    BY <1>1
  <2> QED
    BY <1>1, <2>1 DEF DistanceInv, WalkByDistance
<1>7. NearestAt(target, h, depth + 1)
  <2>1. depth + 1 = 1 => depth = 0
    BY <1>1
  <2>2. (depth + 1 = 1 /\ parent_id[target] \in down) => h = parent_id[target]
    BY <1>5, <2>1
  <2>3. h \in (AncestorsWithin(target, depth + 1) \cap down) \ {target}
    BY <1>2, <1>3, <1>4
  <2>4. AncestorsWithin(target, (depth + 1) - 1) \cap down \subseteq {target}
    BY <1>6
  <2> HIDE DEF h
  <2> QED
    BY <2>2, <2>3, <2>4, Zenon DEF NearestAt
<1> QED
  BY <1>6, <1>7

\* NearestAt is about the table and the devices that are down.
LEMMA NearestStable ==
  ASSUME UNCHANGED <<parent_id, via_agent, down>>
  PROVE  \A t, c, d : NearestAt(t, c, d)' = NearestAt(t, c, d)
<1>1. \A t, n : AncestorsWithin(t, n)' = AncestorsWithin(t, n)
  BY WithinStable
<1> QED
  BY <1>1 DEF NearestAt

\* Every step keeps the distance invariant.
LEMMA DistanceStep ==
  ASSUME TypeOK, TypeOK', SearchInv, DistanceInv, [Next]_vars
  PROVE  DistanceInv'
<1> USE DEF table, search
<1>1. Table
  BY DEF TypeOK, Table
<1>2. CASE Api
  <2>1. pc = "idle" /\ pc' = "idle" /\ culprit' = culprit /\ todo' = todo
    BY <1>2 DEF Api, CreateTarget, UpdateTarget, DeleteTarget
  <2>2. NotOwnParent'
    BY <1>2, SuppressAssumption
    DEF Api, CreateTarget, UpdateTarget, DeleteTarget, Valid, DistanceInv, NotOwnParent, TypeOK
  <2> QED
    BY <2>1, <2>2 DEF DistanceInv, WalkByDistance, ParentFirst, NearestFound, DownKnown, BlamedLate
<1>3. CASE BeginCycle \/ EndCycle
  <2>1. /\ \A t \in Targets : culprit'[t] = None
        /\ pc' # "walk" /\ UNCHANGED table
        /\ pc' = "idle" \/ (known' \ todo' = {} /\ down' \subseteq known')
    BY <1>3 DEF BeginCycle, EndCycle
  <2> QED
    BY <2>1 DEF DistanceInv, NotOwnParent, WalkByDistance, ParentFirst, NearestFound,
                DownKnown, BlamedLate, TypeOK
<1>4. ASSUME NEW t \in todo, StartSearch(t)
      PROVE  DistanceInv'
  <2>1. /\ pc = "next" /\ pc' = "walk" /\ t \in Targets
        /\ target' = t /\ visited' = {t} /\ generation' = Up(t)
        /\ above' = <<>> /\ depth' = 0
        /\ UNCHANGED <<table, down, todo, culprit>>
    BY <1>4 DEF StartSearch, TypeOK
  <2>2. \A u, n : AncestorsWithin(u, n)' = AncestorsWithin(u, n)
    BY <2>1, WithinStable
  <2>3. Members(generation') = Direct(t) /\ Members(above') = {}
    BY <1>1, <2>1, UpIsDirect DEF Members
  <2>4. AncestorsWithin(t, 0) = {} /\ AncestorsWithin(t, 1) = Direct(t)
    <3>1. AncestorsWithin(t, 0) = {}
      BY <1>1, <2>1, WithinSteps
    <3>2. /\ Direct(t) \subseteq AncestorsWithin(t, 0 + 1)
          /\ \A b \in AncestorsWithin(t, 0 + 1) :
               b \in Direct(t) \/ \E a \in AncestorsWithin(t, 0) : b \in Direct(a)
      BY <1>1, <2>1, WithinSteps, 0 \in Nat
    <3>3. 0 + 1 = 1
      OBVIOUS
    <3> QED
      BY <3>1, <3>2, <3>3
  <2>5. WalkByDistance'
    BY <2>1, <2>2, <2>3, <2>4, SuppressAssumption DEF WalkByDistance
  <2>6. ParentFirst'
    BY <2>1 DEF ParentFirst, Up
  <2>7. NearestFound'
    BY <2>1, <2>2, NearestStable DEF DistanceInv, NearestFound
  <2> QED
    BY <2>1, <2>5, <2>6, <2>7 DEF DistanceInv, NotOwnParent, DownKnown, BlamedLate
<1>5. CASE SkipVisited
  <2>1. /\ pc = "walk" /\ pc' = "walk" /\ Head(generation) \in visited
        /\ generation # <<>> /\ generation' = Tail(generation)
        /\ UNCHANGED <<table, down, todo, culprit, target, visited, above, depth>>
    BY <1>5 DEF SkipVisited
  <2>2. \A u, n : AncestorsWithin(u, n)' = AncestorsWithin(u, n)
    BY <2>1, WithinStable
  <2>3. Members(generation) = {Head(generation)} \cup Members(generation')
    BY <2>1, MembersOf DEF TypeOK
  <2>4. WalkByDistance'
    BY <2>1, <2>2, <2>3 DEF DistanceInv, WalkByDistance
  <2>5. ParentFirst'
    <3>1. SUFFICES ASSUME depth = 0, parent_id[target] \in down PROVE FALSE
      BY <2>1 DEF ParentFirst
    <3>2. generation = Up(target) /\ visited = {target} /\ target \in Targets
      BY <2>1, <3>1 DEF DistanceInv, ParentFirst, TypeOK
    <3>3. parent_id[target] # None
      BY <3>1, SuppressAssumption DEF TypeOK
    <3>4. Head(Up(target)) = parent_id[target]
      BY <3>3 DEF Up
    <3> QED
      BY <2>1, <3>2, <3>4 DEF DistanceInv, NotOwnParent
  <2>6. NearestFound'
    BY <2>1, <2>2, NearestStable DEF DistanceInv, NearestFound
  <2> QED
    BY <2>1, <2>4, <2>5, <2>6 DEF DistanceInv, NotOwnParent, DownKnown, BlamedLate
<1>6. CASE FoundDown
  <2> DEFINE h == Head(generation)
  <2>1. /\ pc = "walk" /\ pc' = "next" /\ generation # <<>>
        /\ culprit' = [culprit EXCEPT ![target] = h]
        /\ todo' = todo \ {target}
        /\ UNCHANGED <<table, down>>
    BY <1>6 DEF FoundDown, Finish
  <2>2. \A u, n : AncestorsWithin(u, n)' = AncestorsWithin(u, n)
    BY <2>1, WithinStable
  <2>3. target \in Targets /\ culprit \in [Targets -> OptTarget] /\ h # None
        /\ todo \subseteq Targets /\ known \subseteq Targets
    BY <2>1, MembersOf, SuppressAssumption DEF TypeOK
  <2>4. \E d \in 1..MaxDepth : NearestAt(target, h, d)
    BY <1>6, FoundIsNearest
  <2> HIDE DEF h
  <2>5. NearestFound'
    BY <2>1, <2>2, <2>3, <2>4, NearestStable DEF DistanceInv, NearestFound
  <2> QED
    BY <2>1, <2>3, <2>5
    DEF DistanceInv, NotOwnParent, WalkByDistance, ParentFirst, DownKnown, BlamedLate
<1>7. CASE VisitAncestor
  <2> DEFINE h == Head(generation)
  <2>1. /\ pc = "walk" /\ pc' = "walk" /\ generation # <<>> /\ h \notin visited /\ h \notin down
        /\ visited' = visited \cup {h} /\ above' = above \o Up(h)
        /\ generation' = Tail(generation)
        /\ UNCHANGED <<table, down, todo, culprit, target, depth>>
    BY <1>7 DEF VisitAncestor
  <2>2. \A u, n : AncestorsWithin(u, n)' = AncestorsWithin(u, n)
    BY <2>1, WithinStable
  <2>3. h \in Targets /\ Members(generation) = {h} \cup Members(generation')
    BY <2>1, MembersOf DEF TypeOK
  <2>4. Members(above') = Members(above) \cup Direct(h)
    BY <1>1, <2>1, <2>3, UpIsDirect, MembersOf DEF TypeOK
  <2>5. target \in Targets /\ depth \in Nat
    BY <2>1 DEF TypeOK
  <2>6. h \in AncestorsWithin(target, depth + 1)
    BY <2>1, <2>3 DEF DistanceInv, WalkByDistance
  <2>7. Direct(h) \subseteq AncestorsWithin(target, depth + 2)
    <3>1. depth + 1 \in Nat /\ depth + 1 + 1 = depth + 2
      BY <2>5
    <3> QED
      BY <1>1, <2>5, <2>6, <3>1, WithinSteps
  <2>8. ParentFirst'
    <3>1. SUFFICES ASSUME depth = 0, parent_id[target] \in down PROVE FALSE
      BY <2>1 DEF ParentFirst
    <3>2. generation = Up(target)
      BY <2>1, <3>1 DEF DistanceInv, ParentFirst
    <3>3. parent_id[target] # None
      BY <3>1, SuppressAssumption DEF TypeOK
    <3>4. Head(Up(target)) = parent_id[target]
      BY <3>3 DEF Up
    <3> QED
      BY <2>1, <3>1, <3>2, <3>4
  <2> HIDE DEF h
  <2>9. WalkByDistance'
    BY <2>1, <2>2, <2>3, <2>4, <2>6, <2>7 DEF DistanceInv, WalkByDistance
  <2>10. NearestFound'
    BY <2>1, <2>2, NearestStable DEF DistanceInv, NearestFound
  <2> QED
    BY <2>1, <2>8, <2>9, <2>10 DEF DistanceInv, NotOwnParent, DownKnown, BlamedLate
<1>8. CASE NextGeneration
  <2>1. /\ pc = "walk" /\ pc' = "walk" /\ generation = <<>> /\ above # <<>>
        /\ depth + 1 < MaxDepth
        /\ generation' = above /\ above' = <<>> /\ depth' = depth + 1
        /\ UNCHANGED <<table, down, todo, culprit, target, visited>>
    BY <1>8 DEF NextGeneration
  <2>2. \A u, n : AncestorsWithin(u, n)' = AncestorsWithin(u, n)
    BY <2>1, WithinStable
  <2>3. Members(generation) = {} /\ Members(above') = {} /\ Members(generation') = Members(above)
    BY <2>1 DEF Members
  <2>4. target \in Targets /\ depth \in Nat /\ MaxDepth \in Nat /\ depth + 1 \in Nat
        /\ depth + 1 + 1 = depth + 2
    BY <2>1, SuppressAssumption DEF TypeOK
  <2> DEFINE W(n) == AncestorsWithin(target, n)
  <2>5. W(depth + 1) \subseteq visited /\ W(depth + 1) \subseteq W(depth + 2)
    <3>1. W(depth + 1) \subseteq W(depth + 2)
      BY <1>1, <2>4, WithinMonotone
    <3> QED
      BY <2>1, <2>3, <3>1 DEF DistanceInv, WalkByDistance
  <2>6. W(depth + 1) \cap down \subseteq {target}
    BY <2>1, <2>5 DEF SearchInv, PassedUp
  <2>7. ASSUME NEW b \in W(depth + 2)
        PROVE  b \in visited \cup Members(above)
    <3>1. b \in Direct(target) \/ \E a \in W(depth + 1) : b \in Direct(a)
      BY <1>1, <2>4, <2>7, WithinSteps
    <3>2. \A v \in visited : Direct(v) \subseteq visited \cup Members(above)
      BY <2>1, <2>3 DEF SearchInv, NothingDropped
    <3> QED
      BY <2>1, <2>5, <3>1, <3>2 DEF SearchInv, PassedUp
  <2>8. Members(above) \cup (visited \ {target}) \subseteq W(depth + 2)
    BY <2>1, <2>5 DEF DistanceInv, WalkByDistance
  <2> HIDE DEF W
  <2>9. WalkByDistance'
    <3>1. depth' + 1 = depth + 2 /\ depth' + 1 <= MaxDepth
      BY <2>1, <2>4
    <3> QED
      BY <2>1, <2>2, <2>3, <2>6, <2>7, <2>8, <3>1 DEF WalkByDistance, W
  <2>10. ParentFirst'
    BY <2>1, <2>4 DEF ParentFirst
  <2>11. NearestFound'
    BY <2>1, <2>2, NearestStable DEF DistanceInv, NearestFound
  <2> QED
    BY <2>1, <2>9, <2>10, <2>11 DEF DistanceInv, NotOwnParent, DownKnown, BlamedLate
<1>9. CASE GiveUp
  <2>1. /\ pc = "walk" /\ pc' = "next" /\ todo' = todo \ {target}
        /\ UNCHANGED <<table, down, culprit>>
    BY <1>9 DEF GiveUp, Finish
  <2>2. \A u, n : AncestorsWithin(u, n)' = AncestorsWithin(u, n)
    BY <2>1, WithinStable
  <2>3. AncestorsWithin(target, MaxDepth) \cap down \subseteq {target}
    BY <1>9, GiveUpIsFar
  <2>4. culprit[target] = None
    BY <2>1 DEF TypeOK, DistanceInv, BlamedLate
  <2>5. NearestFound'
    BY <2>1, <2>2, <2>3, <2>4, NearestStable DEF DistanceInv, NearestFound
  <2> QED
    BY <2>1, <2>5
    DEF DistanceInv, NotOwnParent, WalkByDistance, ParentFirst, DownKnown, BlamedLate
<1>10. CASE UNCHANGED vars
  <2>1. \A u, n : AncestorsWithin(u, n)' = AncestorsWithin(u, n)
    BY <1>10, WithinStable DEF vars
  <2>2. NearestFound'
    BY <1>10, <2>1, NearestStable DEF vars, DistanceInv, NearestFound
  <2>3. ParentFirst' /\ WalkByDistance'
    BY <1>10, <2>1 DEF vars, DistanceInv, ParentFirst, WalkByDistance, Up
  <2> QED
    BY <1>10, <2>2, <2>3 DEF vars, DistanceInv, NotOwnParent, DownKnown, BlamedLate
<1> QED
  BY <1>2, <1>3, <1>4, <1>5, <1>6, <1>7, <1>8, <1>9, <1>10 DEF Next, Search

\* The distance invariant holds in every reachable state.
LEMMA DistanceInvariant == Spec => []DistanceInv
<1>1. TypeOK /\ TypeOK' /\ SearchInv /\ DistanceInv /\ [Next]_vars => DistanceInv'
  BY DistanceStep
<1> QED
  BY <1>1, DistanceInit, SearchInvariant, TypeCorrect, PTL DEF Spec

\* The cause that suppression_for names is the nearest ancestor that is down,
\* whatever the topology: no device down is nearer, a declared parent that is down
\* is preferred to the relay, and nobody is named only if none within MAX_DEPTH
\* steps is down.
THEOREM NearestBlamedTheorem == Spec => []NearestBlamed
<1>1. ASSUME TypeOK, DistanceInv
      PROVE  NearestBlamed
  <2>1. Table /\ MaxDepth \in Nat
    BY <1>1, SuppressAssumption DEF TypeOK, Table
  <2>2. SUFFICES ASSUME NEW t \in Searched
                 PROVE  LET near == (AncestorsWithin(t, MaxDepth) \cap down) \ {t}
                        IN IF near = {} THEN culprit[t] = None
                           ELSE LET n == CHOOSE k \in 1..MaxDepth :
                                           /\ (AncestorsWithin(t, k) \cap down) \ {t} # {}
                                           /\ (AncestorsWithin(t, k - 1) \cap down) \ {t} = {}
                                IN /\ culprit[t] \in AncestorsWithin(t, n) \cap near
                                   /\ (n = 1 /\ parent_id[t] \in down) => culprit[t] = parent_id[t]
    BY DEF NearestBlamed
  <2> DEFINE W(k) == AncestorsWithin(t, k)
             near == (W(MaxDepth) \cap down) \ {t}
             First(k) == (W(k) \cap down) \ {t} # {} /\ (W(k - 1) \cap down) \ {t} = {}
             n == CHOOSE k \in 1..MaxDepth : First(k)
  <2>3. t \in Targets /\ t \in known \ todo /\ pc # "idle"
    BY <1>1 DEF Searched, TypeOK
  <2>4. \A i, j \in Nat : i <= j => W(i) \subseteq W(j)
    BY <2>1, <2>3, WithinMonotone
  <2>5. IF culprit[t] = None THEN W(MaxDepth) \cap down \subseteq {t}
        ELSE \E d \in 1..MaxDepth : NearestAt(t, culprit[t], d)
    BY <1>1, <2>3 DEF DistanceInv, NearestFound
  <2>6. CASE near = {}
    <3>1. SUFFICES ASSUME culprit[t] # None PROVE FALSE
      BY <2>6
    <3>2. PICK d \in 1..MaxDepth : NearestAt(t, culprit[t], d)
      BY <2>5, <3>1
    <3>3. culprit[t] \in (W(d) \cap down) \ {t} /\ W(d) \subseteq W(MaxDepth)
      BY <2>1, <2>4, <3>2 DEF NearestAt
    <3> QED
      BY <2>6, <3>3
  <2>7. CASE near # {}
    <3>1. PICK d \in 1..MaxDepth : NearestAt(t, culprit[t], d)
      BY <2>5, <2>7
    <3>2. d \in Nat /\ d - 1 \in Nat /\ d - 1 < d /\ d <= MaxDepth
      BY <2>1
    <3>3. /\ culprit[t] \in (W(d) \cap down) \ {t}
          /\ (W(d - 1) \cap down) \ {t} = {}
          /\ d = 1 /\ parent_id[t] \in down => culprit[t] = parent_id[t]
      BY <3>1 DEF NearestAt
    <3>4. n \in 1..MaxDepth /\ First(n)
      <4>1. First(d)
        BY <3>3
      <4> HIDE DEF First
      <4> QED
        BY <4>1
    <3>5. n = d
      <4> HIDE DEF n, W
      <4>1. n \in Nat /\ n - 1 \in Nat
        BY <2>1, <3>4
      <4>2. ~(n <= d - 1)
        BY <2>4, <3>2, <3>3, <3>4, <4>1
      <4>3. ~(d <= n - 1)
        BY <2>4, <3>2, <3>3, <3>4, <4>1
      <4> QED
        BY <3>2, <4>1, <4>2, <4>3
    <3>6. culprit[t] \in W(MaxDepth)
      BY <2>1, <2>4, <3>2, <3>3
    <3>7. culprit[t] \in W(n) \cap near /\ (n = 1 /\ parent_id[t] \in down => culprit[t] = parent_id[t])
      <4> HIDE DEF n, W
      <4> QED
        BY <3>3, <3>5, <3>6
    <3> QED
      BY <2>7, <3>7, Zenon
  <2> QED
    BY <2>6, <2>7
<1> QED
  BY <1>1, TypeCorrect, DistanceInvariant, PTL

\* An ancestor of an ancestor is an ancestor.
LEMMA AncestorsTransitive ==
  ASSUME Table, NEW t \in Targets, NEW a \in Ancestors(t)
  PROVE  a \in Targets /\ Ancestors(a) \subseteq Ancestors(t)
<1>1. a \in Targets /\ Ancestors(t) \in SUBSET Targets
  BY DEF Ancestors
<1>2. ClosedAbove(Ancestors(t), a)
  BY AncestorsClosed DEF ClosedAbove
<1> QED
  BY <1>1, <1>2, ClosedHoldsAncestors

\* In a topology without a dependency cycle a muted alert always has somebody
\* above it that is down and whose own alert is let through: of the ancestors
\* that are down, one that has the fewest ancestors cannot be muted itself.
THEOREM CauseSpeaksTheorem == Spec => []CauseSpeaksIfAcyclic
<1>1. ASSUME TypeOK, SearchInv, DistanceInv
      PROVE  CauseSpeaksIfAcyclic
  <2>1. Table
    BY <1>1 DEF TypeOK, Table
  <2>2. SUFFICES ASSUME Acyclic, AllSearched, NEW t \in known, culprit[t] # None
                 PROVE  \E a \in Ancestors(t) \cap down : culprit[a] = None
    BY DEF CauseSpeaksIfAcyclic, CauseSpeaks
  <2>3. t \in Targets /\ down \subseteq known /\ known \subseteq Targets
    BY <1>1, <2>2 DEF TypeOK, DistanceInv, DownKnown, AllSearched
  <2>4. \A u \in Targets : culprit[u] # None => culprit[u] \in Ancestors(u) \cap down
    BY <1>1 DEF SearchInv, BlameSound
  <2>5. \A u \in Targets : IsFiniteSet(Ancestors(u)) /\ Cardinality(Ancestors(u)) \in Nat
    <3>1. \A u \in Targets : Ancestors(u) \subseteq Targets
      BY DEF Ancestors
    <3> QED
      BY <3>1, SuppressAssumption, FS_Subset, FS_CardinalityType
  <2> DEFINE D == Ancestors(t) \cap down
             S == {Cardinality(Ancestors(a)) : a \in D}
  <2>6. culprit[t] \in D
    BY <2>2, <2>3, <2>4
  <2>7. D \subseteq Targets /\ S \in SUBSET Nat /\ S # {}
    BY <2>3, <2>5, <2>6
  <2>8. PICK m \in S : \A x \in S : m <= x
    <3> HIDE DEF S
    <3> QED
      BY <2>7, LeastNatural
  <2>9. PICK a \in D : m = Cardinality(Ancestors(a))
    BY <2>8
  <2>10. ASSUME culprit[a] # None
         PROVE  FALSE
    <3> DEFINE b == culprit[a]
    <3>1. b \in Ancestors(a) /\ b \in down /\ a \in Targets /\ b \in Targets
      BY <2>3, <2>4, <2>7, <2>9, <2>10
    <3>2. b \in D /\ Ancestors(b) \subseteq Ancestors(a)
      BY <2>1, <2>3, <2>9, <3>1, AncestorsTransitive
    <3>3. b \notin Ancestors(b)
      BY <2>2, <2>3, <3>1 DEF Acyclic
    <3>4. Cardinality(Ancestors(b)) < Cardinality(Ancestors(a))
      <4> HIDE DEF b
      <4>1. Ancestors(b) # Ancestors(a)
        BY <3>1, <3>3
      <4> QED
        BY <2>5, <3>1, <3>2, <4>1, FS_Subset
    <3>5. Cardinality(Ancestors(b)) \in S
      BY <3>2
    <3> HIDE DEF b
    <3> QED
      BY <2>5, <2>8, <2>9, <3>1, <3>4, <3>5
  <2> QED
    BY <2>9, <2>10
<1> QED
  BY <1>1, TypeCorrect, SearchInvariant, DistanceInvariant, PTL
=============================================================================
