------------------------- MODULE CommandQueueProofs -------------------------
(***************************************************************************)
(* Proofs about CommandQueue, for every set of users and containers, every *)
(* policy, age limit and cooldown, and any number of commands: the type    *)
(* invariant, the cooldown between automatic commands, and that a single   *)
(* fault never makes a command run twice.                                  *)
(***************************************************************************)
EXTENDS CommandQueue, FiniteSetTheorems, TLAPS

-----------------------------------------------------------------------------
(* The invariant, part by part.                                            *)

TableOK == clock \in Nat /\ cmds \in Seq(Command) /\ left \in Budget

Requests ==
  {NoRequest} \cup [op : {"insert"}, kind : Kinds, name : Containers]
  \cup [op : {"cancel"}, id : Ids]

RequestsOK == req \in [Users -> Requests]

Decision == [kind : Kinds, name : Containers]

PolicyState ==
  [ pc : {"idle", "run", "insert"}, now : Nat, todo : SUBSET Containers, queue : Seq(Decision) ]

CooldownOf(kind) == IF kind = "restart" THEN RestartCooldown ELSE UpdateCooldown

\* A decision that is still to be inserted is a cooldown after every automatic command of
\* its kind and container that is in the table.
DecisionsCooled ==
  \A m \in 1..Len(policy.queue) : \A i \in Ids :
    /\ cmds[i].by = "policy"
    /\ cmds[i].kind = policy.queue[m].kind /\ cmds[i].name = policy.queue[m].name
    => policy.now - cmds[i].created_at >= CooldownOf(policy.queue[m].kind)

\* The decisions of a pass about one container are of different kinds.
DecisionsDiffer ==
  \A m, n \in 1..Len(policy.queue) : m # n => policy.queue[m].kind # policy.queue[n].kind

PolicyOK ==
  /\ policy \in PolicyState /\ policy.now <= clock
  /\ policy.pc = "insert" => policy.queue # <<>>
  /\ DecisionsCooled /\ DecisionsDiffer
  /\ PolicyCooldown

AgentState ==
  [ pc : {"idle", "received", "deciding", "skipping", "announcing", "announced", "acting",
          "closing"},
    inbox : Seq(Ids), now : Nat, id : Ids \cup {0} ]

\* The report that the agent waits for is about the command it works on.
AwaitedIsCurrent ==
  /\ \A p \in posts : p.awaited => Reporting /\ p.id = agent.id
  /\ \A p, q \in posts : p.awaited /\ q.awaited => p = q

AgentOK ==
  /\ agent \in AgentState
  /\ agent.pc \in {"skipping", "announcing", "announced", "acting", "closing"} =>
       agent.id \in Ids
  /\ posts \subseteq PostType /\ \A p \in posts : p.id \in Ids
  /\ AwaitedIsCurrent
  /\ started \subseteq Ids /\ twice \subseteq started

IInv == TableOK /\ RequestsOK /\ PolicyOK /\ AgentOK

-----------------------------------------------------------------------------
(* What the statements do to the table.                                    *)

LEMMA IdsRange ==
  ASSUME TableOK
  PROVE  /\ Ids = 1..Len(cmds) /\ Len(cmds) \in Nat /\ 0 \notin Ids
         /\ \A i \in Ids : cmds[i] \in Command
  BY DEF TableOK, Ids

\* No row goes, and none changes but in its status; none is queued again.
RowsStay ==
  /\ cmds' \in Seq(Command) /\ Ids' = Ids
  /\ \A i \in Ids :
       /\ cmds'[i].kind = cmds[i].kind /\ cmds'[i].name = cmds[i].name
       /\ cmds'[i].by = cmds[i].by /\ cmds'[i].created_at = cmds[i].created_at
       /\ cmds'[i].status = "queued" => cmds[i].status = "queued"

\* One row more, at the end.
RowAdded(c) ==
  /\ cmds' \in Seq(Command) /\ Ids' = Ids \cup {Len(cmds) + 1}
  /\ Len(cmds) + 1 \notin Ids
  /\ \A i \in Ids : cmds'[i] = cmds[i] /\ i < Len(cmds) + 1
  /\ cmds'[Len(cmds) + 1] = c

LEMMA SameTable ==
  ASSUME TableOK, UNCHANGED cmds
  PROVE  RowsStay
  BY DEF TableOK, RowsStay, Ids

LEMMA InsertAdds ==
  ASSUME TableOK, NEW c \in Command, cmds' = Append(cmds, c)
  PROVE  RowAdded(c)
<1>1. Ids = 1..Len(cmds) /\ Len(cmds) \in Nat
  BY IdsRange
<1>2. cmds' \in Seq(Command) /\ Len(cmds') = Len(cmds) + 1
  BY DEF TableOK
<1>3. Ids' = 1..(Len(cmds) + 1)
  BY <1>2 DEF Ids
<1>4. \A i \in 1..Len(cmds) : cmds'[i] = cmds[i]
  BY DEF TableOK
<1>5. cmds'[Len(cmds) + 1] = c
  BY DEF TableOK
<1> QED
  BY <1>1, <1>2, <1>3, <1>4, <1>5 DEF RowAdded

LEMMA StatusStays ==
  ASSUME TableOK, NEW id \in Ids, NEW status \in (Waiting \cup Closed) \ {"queued"},
         cmds' = SetStatus(id, status)
  PROVE  RowsStay /\ cmds'[id].status = status
<1>1. Ids = 1..Len(cmds) /\ Len(cmds) \in Nat /\ \A i \in Ids : cmds[i] \in Command
  BY IdsRange
<1>2. \A i \in Ids : [cmds[i] EXCEPT !.status = status] \in Command
  BY <1>1 DEF Command
<1> DEFINE new == [cmds[id] EXCEPT !.status = status]
<1>3. cmds' = [cmds EXCEPT ![id] = new]
  BY DEF SetStatus
<1>4. new \in Command
  BY <1>2
<1> HIDE DEF new
<1>5. cmds' \in Seq(Command) /\ Ids' = Ids
  BY <1>3, <1>4 DEF Ids, TableOK
<1>6. \A i \in Ids : cmds'[i] = IF i = id THEN [cmds[i] EXCEPT !.status = status] ELSE cmds[i]
  BY <1>1, <1>3 DEF new, Ids
<1>7. cmds'[id].status = status
  BY <1>1, <1>6 DEF Command
<1> QED
  BY <1>1, <1>5, <1>6, <1>7 DEF RowsStay, Command

LEMMA ExpiryStays ==
  ASSUME TableOK, cmds' = ExpireStale
  PROVE  RowsStay
<1> DEFINE stale(i) == cmds[i].status = "queued" /\ cmds[i].created_at < clock - MaxAge
<1>1. Ids = 1..Len(cmds) /\ Len(cmds) \in Nat /\ \A i \in Ids : cmds[i] \in Command
  BY IdsRange
<1>2. \A i \in Ids : [cmds[i] EXCEPT !.status = "expired"] \in Command
  BY <1>1 DEF Command, Closed
<1>3. cmds' = [i \in Ids |-> IF stale(i) THEN [cmds[i] EXCEPT !.status = "expired"] ELSE cmds[i]]
  BY DEF ExpireStale
<1> HIDE DEF stale
<1>4. \A i \in Ids : cmds'[i] \in Command
  BY <1>1, <1>2, <1>3
<1>5. cmds' \in Seq(Command) /\ Ids' = Ids
  BY <1>1, <1>3, <1>4 DEF Ids
<1>6. \A i \in Ids : cmds'[i] = IF stale(i) THEN [cmds[i] EXCEPT !.status = "expired"] ELSE cmds[i]
  BY <1>3
<1> QED
  BY <1>1, <1>5, <1>6 DEF RowsStay, Command

LEMMA SpendTypes ==
  ASSUME TableOK, NEW kind \in {"commands", "cancels", "crashes", "lost"}, Spend(kind)
  PROVE  /\ left' \in Budget
         /\ kind = "lost" => left.lost > 0 /\ left'.lost = left.lost - 1
         /\ kind # "lost" => left'.lost = left.lost
         /\ kind = "crashes" => left.crashes > 0 /\ left'.crashes = left.crashes - 1
         /\ kind # "crashes" => left'.crashes = left.crashes
<1>0. left \in Budget
  BY DEF TableOK
<1>1. CASE kind = "commands"
  BY <1>0, <1>1, CommandAssumption DEF Spend, Budget
<1>2. CASE kind = "cancels"
  BY <1>0, <1>2 DEF Spend, Budget
<1>3. CASE kind = "crashes"
  BY <1>0, <1>3 DEF Spend, Budget
<1>4. CASE kind = "lost"
  BY <1>0, <1>4 DEF Spend, Budget
<1> QED
  BY <1>1, <1>2, <1>3, <1>4

-----------------------------------------------------------------------------
(* What a step leaves alone stays right, while the table grows.            *)

LEMMA InboxStays ==
  ASSUME NEW S, NEW T, S \subseteq T, NEW s \in Seq(S)
  PROVE  s \in Seq(T)
  OBVIOUS

LEMMA ElementsIn ==
  ASSUME NEW S, NEW s \in Seq(S)
  PROVE  \A m \in 1..Len(s) : s[m] \in S
  OBVIOUS

LEMMA RequestsFrame ==
  ASSUME RequestsOK, UNCHANGED req, Ids \subseteq Ids'
  PROVE  RequestsOK'
<1>1. Requests \subseteq Requests'
  BY DEF Requests
<1> QED
  BY <1>1 DEF RequestsOK

LEMMA PolicyFrame ==
  ASSUME TableOK, PolicyOK, UNCHANGED policy, clock' \in Nat, clock <= clock', RowsStay
  PROVE  PolicyOK'
<1>1. policy.now \in Nat /\ clock \in Nat
  BY DEF PolicyOK, PolicyState, TableOK
<1>2. DecisionsCooled'
  BY DEF PolicyOK, DecisionsCooled, RowsStay
<1>3. PolicyCooldown'
  BY DEF PolicyOK, PolicyCooldown, RowsStay
<1> QED
  BY <1>1, <1>2, <1>3 DEF PolicyOK, DecisionsDiffer, PolicyState

\* A command of a user does not count for the cooldown of the scheduler.
LEMMA UserRowFrame ==
  ASSUME PolicyOK, UNCHANGED <<policy, clock>>, NEW c, RowAdded(c), c.by # "policy"
  PROVE  PolicyOK'
<1>1. DecisionsCooled'
  BY DEF PolicyOK, DecisionsCooled, RowAdded
<1>2. PolicyCooldown'
  BY DEF PolicyOK, PolicyCooldown, RowAdded
<1> QED
  BY <1>1, <1>2 DEF PolicyOK, DecisionsDiffer, PolicyState

LEMMA AgentStateGrows ==
  ASSUME Ids \subseteq Ids', NEW a \in AgentState
  PROVE  a \in AgentState'
<1>1. a.inbox \in Seq(Ids')
  BY InboxStays DEF AgentState
<1> QED
  BY <1>1 DEF AgentState

LEMMA AgentFrame ==
  ASSUME AgentOK, UNCHANGED <<agent, posts, started, twice>>, Ids \subseteq Ids'
  PROVE  AgentOK'
<1>1. agent' \in AgentState'
  BY AgentStateGrows DEF AgentOK
<1> QED
  BY <1>1 DEF AgentOK, AwaitedIsCurrent, Reporting

-----------------------------------------------------------------------------
(* Users.                                                                  *)

LEMMA RequestKeeps ==
  ASSUME IInv, Request
  PROVE  IInv'
<1>1. PICK u \in Users, r \in Requests, kind \in {"commands", "cancels"} :
        /\ Spend(kind) /\ req' = [req EXCEPT ![u] = r]
        /\ UNCHANGED <<clock, cmds, policy, agent, posts, started, twice>>
  <2>1. ASSUME NEW u \in Users, NEW k \in Kinds, NEW n \in Containers, RequestCommand(u, k, n)
        PROVE  [op |-> "insert", kind |-> k, name |-> n] \in Requests
    BY DEF Requests
  <2>2. ASSUME NEW u \in Users, NEW i \in Ids, RequestCancel(u, i)
        PROVE  [op |-> "cancel", id |-> i] \in Requests
    BY DEF Requests
  <2>3. CASE \E u \in Users, k \in Kinds, n \in Containers : RequestCommand(u, k, n)
    <3>1. PICK u \in Users, k \in Kinds, n \in Containers : RequestCommand(u, k, n)
      BY <2>3
    <3> WITNESS u \in Users
    <3> DEFINE r == [op |-> "insert", kind |-> k, name |-> n]
    <3>2. r \in Requests
      BY <2>1, <3>1
    <3> WITNESS r \in Requests
    <3> WITNESS "commands" \in {"commands", "cancels"}
    <3> QED
      BY <3>1 DEF RequestCommand
  <2>4. CASE \E u \in Users, i \in Ids : RequestCancel(u, i)
    <3>1. PICK u \in Users, i \in Ids : RequestCancel(u, i)
      BY <2>4
    <3> WITNESS u \in Users
    <3> DEFINE r == [op |-> "cancel", id |-> i]
    <3>2. r \in Requests
      BY <2>2, <3>1
    <3> WITNESS r \in Requests
    <3> WITNESS "cancels" \in {"commands", "cancels"}
    <3> QED
      BY <3>1 DEF RequestCancel
  <2> QED
    BY <2>3, <2>4 DEF Request
<1>2. RowsStay /\ Ids' = Ids /\ Requests' = Requests
  BY <1>1, SameTable DEF IInv, Ids, Requests
<1>3. TableOK'
  BY <1>1, SpendTypes DEF IInv, TableOK
<1>4. RequestsOK'
  BY <1>1, <1>2 DEF IInv, RequestsOK
<1>5. PolicyOK'
  BY <1>1, <1>2, PolicyFrame DEF IInv, TableOK
<1>6. AgentOK'
  BY <1>1, <1>2, AgentFrame DEF IInv
<1> QED
  BY <1>3, <1>4, <1>5, <1>6 DEF IInv

LEMMA RespondKeeps ==
  ASSUME IInv, Respond
  PROVE  IInv'
<1>1. PICK u \in Users : InsertCommand(u) \/ CancelCommand(u)
  BY DEF Respond
<1>2. /\ UNCHANGED <<clock, policy, agent, posts, started, twice, left>>
      /\ req' = [req EXCEPT ![u] = NoRequest]
  BY <1>1 DEF InsertCommand, CancelCommand
<1>3. req[u] \in Requests
  BY DEF IInv, RequestsOK
<1>4. ASSUME Ids \subseteq Ids' PROVE RequestsOK' /\ AgentOK'
  <2>1. Requests \subseteq Requests' /\ NoRequest \in Requests'
    BY <1>4 DEF Requests
  <2>2. RequestsOK'
    BY <1>2, <2>1 DEF IInv, RequestsOK
  <2> QED
    BY <1>2, <1>4, <2>2, AgentFrame DEF IInv
<1>5. CASE InsertCommand(u)
  <2> DEFINE c == NewCommand(req[u].kind, req[u].name, u)
  <2>1. c \in Command /\ c.by # "policy"
    BY <1>3, <1>5, CommandAssumption
       DEF InsertCommand, Requests, NoRequest, NewCommand, Command, Waiting, IInv, TableOK
  <2>2. RowAdded(c)
    BY <1>5, <2>1, InsertAdds DEF InsertCommand, IInv
  <2> HIDE DEF c
  <2>3. TableOK' /\ Ids \subseteq Ids'
    BY <1>2, <2>2 DEF IInv, TableOK, RowAdded
  <2>4. PolicyOK'
    BY <1>2, <2>1, <2>2, UserRowFrame DEF IInv
  <2> QED
    BY <1>4, <2>3, <2>4 DEF IInv
<1>6. CASE CancelCommand(u)
  <2>1. req[u].id \in Ids
    BY <1>3, <1>6 DEF CancelCommand, Requests, NoRequest
  <2>2. RowsStay
    BY <1>6, <2>1, SameTable, StatusStays DEF CancelCommand, IInv, Waiting, Closed
  <2>3. TableOK' /\ Ids \subseteq Ids'
    BY <1>2, <2>2 DEF IInv, TableOK, RowsStay
  <2>4. PolicyOK'
    BY <1>2, <2>2, PolicyFrame DEF IInv, TableOK
  <2> QED
    BY <1>4, <2>3, <2>4 DEF IInv
<1> QED
  BY <1>1, <1>5, <1>6

-----------------------------------------------------------------------------
(* The policy scheduler.                                                   *)

\* decide: one decision of a kind at most, and each within its cooldown.
LEMMA DecisionsRight ==
  ASSUME TableOK, NEW n \in Containers, NEW up, NEW update_available, NEW in_maintenance
  PROVE  LET q == Decisions(n, up, update_available, in_maintenance)
         IN /\ q \in Seq(Decision)
            /\ \A m \in 1..Len(q) :
                 q[m].name = n /\ Cooled(q[m].kind, n, policy.now, CooldownOf(q[m].kind))
            /\ \A m, k \in 1..Len(q) : m # k => q[m].kind # q[k].kind
<1> DEFINE q == Decisions(n, up, update_available, in_maintenance)
           restart == [kind |-> "restart", name |-> n]
           update == [kind |-> "update", name |-> n]
           R == /\ Policy[n].auto_restart /\ ~up
                /\ Cooled("restart", n, policy.now, RestartCooldown)
           U == /\ Policy[n].auto_update /\ update_available
                /\ Policy[n].only_in_maintenance => in_maintenance
                /\ Cooled("update", n, policy.now, UpdateCooldown)
<1>1. /\ restart \in Decision /\ restart.kind = "restart" /\ restart.name = n
      /\ update \in Decision /\ update.kind = "update" /\ update.name = n
  BY DEF Decision, Kinds
<1>2. /\ R => Cooled("restart", n, policy.now, CooldownOf("restart"))
      /\ U => Cooled("update", n, policy.now, CooldownOf("update"))
  BY DEF CooldownOf
<1>3. \/ q = <<>>
      \/ q = <<restart>> /\ R
      \/ q = <<update>> /\ U
      \/ /\ R /\ U
         /\ q \in Seq(Decision) /\ Len(q) = 2 /\ q[1] = restart /\ q[2] = update
  <2>1. q = <<>> \/ q = (IF R THEN <<restart>> ELSE <<>>) \o (IF U THEN <<update>> ELSE <<>>)
    BY DEF Decisions
  <2> HIDE DEF q, R, U, restart, update
  <2>2. <<>> \o <<>> = <<>>
    OBVIOUS
  <2>3. <<restart>> \o <<>> = <<restart>>
    OBVIOUS
  <2>4. <<>> \o <<update>> = <<update>>
    OBVIOUS
  <2> DEFINE both == <<restart>> \o <<update>>
  <2>5. both \in Seq(Decision) /\ Len(both) = 2 /\ both[1] = restart /\ both[2] = update
    BY <1>1
  <2> HIDE DEF both
  <2> QED
    BY <2>1, <2>2, <2>3, <2>4, <2>5, Zenon DEF both
<1> HIDE DEF q, R, U, restart, update
<1>4. CASE q = <<>>
  BY <1>4 DEF q
<1>5. CASE q = <<restart>> /\ R
  <2>1. q \in Seq(Decision) /\ Len(q) = 1 /\ q[1] = restart
    BY <1>1, <1>5
  <2> QED
    BY <1>1, <1>2, <1>5, <2>1 DEF q
<1>6. CASE q = <<update>> /\ U
  <2>1. q \in Seq(Decision) /\ Len(q) = 1 /\ q[1] = update
    BY <1>1, <1>6
  <2> QED
    BY <1>1, <1>2, <1>6, <2>1 DEF q
<1>7. CASE /\ R /\ U
           /\ q \in Seq(Decision) /\ Len(q) = 2 /\ q[1] = restart /\ q[2] = update
  BY <1>1, <1>2, <1>7 DEF q
<1> QED
  BY <1>3, <1>4, <1>5, <1>6, <1>7

\* The decisions that are left after the first one.
LEMMA TailRight ==
  ASSUME PolicyOK, policy.queue # <<>>
  PROVE  /\ Tail(policy.queue) \in Seq(Decision)
         /\ Head(policy.queue) = policy.queue[1] /\ policy.queue[1] \in Decision
         /\ 1 \in 1..Len(policy.queue)
         /\ \A m \in 1..Len(Tail(policy.queue)) :
              /\ m + 1 \in 1..Len(policy.queue) /\ m + 1 # 1
              /\ Tail(policy.queue)[m] = policy.queue[m + 1]
<1>1. policy.queue \in Seq(Decision)
  BY DEF PolicyOK, PolicyState
<1> QED
  BY <1>1

\* What is left is as cooled and as different as what it was left from.
LEMMA QueueShrinks ==
  ASSUME PolicyOK, policy.queue # <<>>, policy' \in PolicyState, UNCHANGED <<clock, cmds>>,
         policy'.queue = Tail(policy.queue), policy'.now = policy.now, policy'.pc # "insert"
  PROVE  PolicyOK'
<1>1. Ids' = Ids /\ PolicyState' = PolicyState
  BY DEF Ids, PolicyState
<1>2. DecisionsCooled'
  BY <1>1, TailRight DEF PolicyOK, DecisionsCooled
<1>3. DecisionsDiffer'
  <2> SUFFICES ASSUME NEW m \in 1..Len(Tail(policy.queue)), NEW n \in 1..Len(Tail(policy.queue)),
                      m # n
               PROVE  Tail(policy.queue)[m].kind # Tail(policy.queue)[n].kind
    BY DEF DecisionsDiffer
  <2>1. m + 1 # n + 1
    OBVIOUS
  <2> QED
    BY <2>1, TailRight DEF PolicyOK, DecisionsDiffer
<1>4. PolicyCooldown'
  BY <1>1 DEF PolicyOK, PolicyCooldown
<1> QED
  BY <1>1, <1>2, <1>3, <1>4 DEF PolicyOK

LEMMA PolicyTickKeeps ==
  ASSUME IInv, PolicyTick
  PROVE  IInv'
<1>1. RowsStay
  BY ExpiryStays DEF IInv, PolicyTick
<1>2. UNCHANGED <<clock, req, agent, posts, started, twice, left>>
  BY DEF PolicyTick
<1>3. TableOK' /\ Ids' = Ids
  BY <1>1, <1>2 DEF IInv, TableOK, RowsStay
<1>4. policy' \in PolicyState /\ policy'.queue = <<>> /\ policy'.now = clock /\ policy'.pc = "run"
  BY DEF IInv, TableOK, PolicyTick, PolicyState, Automatic
<1>5. PolicyCooldown'
  BY <1>1 DEF IInv, PolicyOK, PolicyCooldown, RowsStay
<1>6. PolicyOK'
  <2>1. Len(policy'.queue) = 0
    BY <1>4
  <2>2. DecisionsCooled' /\ DecisionsDiffer'
    BY <2>1 DEF DecisionsCooled, DecisionsDiffer
  <2>3. clock' = clock /\ clock \in Nat
    BY <1>2 DEF IInv, TableOK
  <2> QED
    BY <1>4, <1>5, <2>2, <2>3 DEF PolicyOK, PolicyState
<1> QED
  BY <1>2, <1>3, <1>6, RequestsFrame, AgentFrame DEF IInv

\* The steps of the scheduler that leave the table alone.
LEMMA PolicyAlone ==
  ASSUME IInv, UNCHANGED <<clock, cmds, req, agent, posts, started, twice>>,
         left' \in Budget, PolicyOK'
  PROVE  IInv'
<1>1. TableOK' /\ Ids' = Ids
  BY DEF IInv, TableOK, Ids
<1> QED
  BY <1>1, RequestsFrame, AgentFrame DEF IInv

LEMMA PolicyDecideKeeps ==
  ASSUME IInv, NEW n \in Containers, PolicyDecide(n)
  PROVE  IInv'
<1>1. PICK up, update_available, in_maintenance \in BOOLEAN :
        policy' = [policy EXCEPT !.todo = @ \ {n},
                     !.queue = Decisions(n, up, update_available, in_maintenance)]
  BY DEF PolicyDecide
<1> DEFINE q == Decisions(n, up, update_available, in_maintenance)
<1>2. /\ q \in Seq(Decision)
      /\ \A m \in 1..Len(q) :
           q[m].name = n /\ Cooled(q[m].kind, n, policy.now, CooldownOf(q[m].kind))
      /\ \A m, k \in 1..Len(q) : m # k => q[m].kind # q[k].kind
  BY DecisionsRight DEF IInv
<1>3. policy \in PolicyState /\ policy.pc = "run"
  BY DEF IInv, PolicyOK, PolicyDecide
<1>4. policy' = [policy EXCEPT !.todo = @ \ {n}, !.queue = q]
  BY <1>1
<1> HIDE DEF q
<1>5. /\ policy' \in PolicyState /\ policy'.queue = q
      /\ policy'.now = policy.now /\ policy'.pc = "run"
  BY <1>2, <1>3, <1>4 DEF PolicyState
<1>6. UNCHANGED <<clock, cmds, req, agent, posts, started, twice, left>> /\ Ids' = Ids
  BY DEF PolicyDecide, Ids
<1>7. DecisionsCooled'
  BY <1>2, <1>5, <1>6 DEF DecisionsCooled, Cooled
<1>8. DecisionsDiffer'
  BY <1>2, <1>5 DEF DecisionsDiffer
<1>9. PolicyOK'
  BY <1>5, <1>6, <1>7, <1>8 DEF IInv, PolicyOK, PolicyState, PolicyCooldown
<1> QED
  BY <1>6, <1>9, PolicyAlone DEF IInv, TableOK

LEMMA PolicyCheckKeeps ==
  ASSUME IInv, PolicyCheck
  PROVE  IInv'
<1>1. UNCHANGED <<clock, cmds, req, agent, posts, started, twice>> /\ Ids' = Ids
  BY DEF PolicyCheck, Ids
<1>2. policy \in PolicyState /\ policy.queue # <<>>
  BY DEF IInv, PolicyOK, PolicyCheck
<1>3. CASE policy' = [policy EXCEPT !.queue = Tail(@)] /\ UNCHANGED left
  <2>1. Tail(policy.queue) \in Seq(Decision)
    BY <1>2, TailRight DEF IInv
  <2>2. /\ policy' \in PolicyState /\ policy'.queue = Tail(policy.queue)
        /\ policy'.now = policy.now /\ policy'.pc # "insert"
    BY <1>2, <1>3, <2>1 DEF PolicyState, PolicyCheck
  <2>3. PolicyOK'
    BY <1>1, <1>2, <2>2, QueueShrinks DEF IInv
  <2> QED
    BY <1>1, <1>3, <2>3, PolicyAlone DEF IInv, TableOK
<1>4. CASE policy' = [policy EXCEPT !.pc = "insert"] /\ Spend("commands")
  <2>1. /\ policy' \in PolicyState /\ policy'.queue = policy.queue /\ policy'.now = policy.now
    BY <1>2, <1>4 DEF PolicyState
  <2>2. PolicyOK'
    BY <1>1, <1>2, <2>1
       DEF IInv, PolicyOK, PolicyState, DecisionsCooled, DecisionsDiffer, PolicyCooldown
  <2>3. left' \in Budget
    BY <1>4, SpendTypes DEF IInv
  <2> QED
    BY <1>1, <2>2, <2>3, PolicyAlone
<1> QED
  BY <1>3, <1>4 DEF PolicyCheck

\* The row that is inserted is a cooldown after the automatic rows before it, and the
\* decisions that follow are of another kind.
LEMMA PolicyInsertKeeps ==
  ASSUME IInv, PolicyInsert
  PROVE  IInv'
<1> DEFINE d == Head(policy.queue)
           c == NewCommand(d.kind, d.name, "policy")
<1>1. UNCHANGED <<clock, req, agent, posts, started, twice, left>>
  BY DEF PolicyInsert
<1>2. policy \in PolicyState /\ policy.queue # <<>> /\ policy.now <= clock /\ clock \in Nat
  BY DEF IInv, PolicyOK, PolicyInsert, TableOK
<1>3. /\ Tail(policy.queue) \in Seq(Decision) /\ d = policy.queue[1] /\ d \in Decision
      /\ 1 \in 1..Len(policy.queue)
  BY <1>2, TailRight DEF IInv
<1>4. /\ c \in Command /\ c.by = "policy" /\ c.kind = d.kind /\ c.name = d.name
      /\ c.created_at = clock
  BY <1>2, <1>3 DEF NewCommand, Command, Decision, Waiting
<1>5. RowAdded(c)
  BY <1>4, InsertAdds DEF PolicyInsert, IInv
<1>6. /\ policy' \in PolicyState /\ policy'.queue = Tail(policy.queue)
      /\ policy'.now = policy.now /\ policy'.pc = "run"
  BY <1>2, <1>3 DEF PolicyState, PolicyInsert
<1> HIDE DEF c, d
<1> DEFINE last == Len(cmds) + 1
<1>7. /\ Ids' = Ids \cup {last} /\ last \notin Ids /\ cmds'[last] = c
      /\ \A i \in Ids : cmds'[i] = cmds[i] /\ i < last
      /\ Ids = 1..Len(cmds) /\ Len(cmds) \in Nat
  BY <1>5, IdsRange DEF RowAdded, IInv
<1> HIDE DEF last
<1>8. TableOK'
  BY <1>1, <1>5 DEF IInv, TableOK, RowAdded
<1>9. DecisionsCooled'
  <2> SUFFICES ASSUME NEW m \in 1..Len(Tail(policy.queue)), NEW i \in Ids',
                      cmds'[i].by = "policy",
                      cmds'[i].kind = Tail(policy.queue)[m].kind,
                      cmds'[i].name = Tail(policy.queue)[m].name
               PROVE  policy.now - cmds'[i].created_at >= CooldownOf(Tail(policy.queue)[m].kind)
    BY <1>6 DEF DecisionsCooled
  <2>1. m + 1 \in 1..Len(policy.queue) /\ m + 1 # 1 /\ Tail(policy.queue)[m] = policy.queue[m + 1]
    BY <1>2, TailRight DEF IInv
  <2>2. policy.queue[m + 1].kind # d.kind
    BY <1>3, <2>1 DEF IInv, PolicyOK, DecisionsDiffer
  <2>3. i \in Ids /\ cmds'[i] = cmds[i]
    BY <1>4, <1>7, <2>1, <2>2
  <2> QED
    BY <2>1, <2>3 DEF IInv, PolicyOK, DecisionsCooled
<1>10. DecisionsDiffer'
  <2> SUFFICES ASSUME NEW m \in 1..Len(Tail(policy.queue)), NEW n \in 1..Len(Tail(policy.queue)),
                      m # n
               PROVE  Tail(policy.queue)[m].kind # Tail(policy.queue)[n].kind
    BY <1>6 DEF DecisionsDiffer
  <2>1. m + 1 # n + 1
    OBVIOUS
  <2> QED
    BY <1>2, <2>1, TailRight DEF IInv, PolicyOK, DecisionsDiffer
<1>11. PolicyCooldown'
  <2> SUFFICES ASSUME NEW i \in Ids', NEW j \in Ids', i < j,
                      cmds'[i].kind = cmds'[j].kind, cmds'[i].name = cmds'[j].name,
                      cmds'[i].by = "policy", cmds'[j].by = "policy"
               PROVE  cmds'[j].created_at - cmds'[i].created_at >= CooldownOf(cmds'[j].kind)
    BY DEF PolicyCooldown, CooldownOf
  <2>1. CASE j \in Ids
    <3>1. i \in Ids
      BY <1>7, <2>1
    <3> QED
      BY <1>7, <2>1, <3>1 DEF IInv, PolicyOK, PolicyCooldown, CooldownOf
  <2>2. CASE j = last
    <3>1. i \in Ids /\ cmds'[i] = cmds[i] /\ cmds[i] \in Command
      BY <1>7, <2>2, IdsRange DEF IInv
    <3>2. policy.now - cmds[i].created_at >= CooldownOf(d.kind)
      BY <1>3, <1>4, <1>7, <2>2, <3>1 DEF IInv, PolicyOK, DecisionsCooled
    <3>3. cmds'[j].created_at = clock /\ cmds'[j].kind = d.kind
      BY <1>4, <1>7, <2>2
    <3>4. CooldownOf(d.kind) \in Nat /\ cmds[i].created_at \in Nat /\ policy.now \in Nat
      BY <1>2, <3>1, CommandAssumption DEF CooldownOf, Command, PolicyState
    <3> QED
      BY <1>2, <3>1, <3>2, <3>3, <3>4
  <2> QED
    BY <1>7, <2>1, <2>2
<1>12. PolicyOK'
  BY <1>1, <1>2, <1>6, <1>9, <1>10, <1>11 DEF PolicyOK, PolicyState
<1>13. Ids \subseteq Ids'
  BY <1>7
<1> QED
  BY <1>1, <1>8, <1>12, <1>13, RequestsFrame, AgentFrame DEF IInv

LEMMA PolicyDoneKeeps ==
  ASSUME IInv, PolicyDone
  PROVE  IInv'
<1>1. policy \in PolicyState /\ policy.queue = <<>>
  BY DEF IInv, PolicyOK, PolicyDone
<1>2. policy' = [policy EXCEPT !.pc = "idle", !.todo = {}]
  BY DEF PolicyDone
<1>3. /\ policy' \in PolicyState /\ policy'.queue = policy.queue
      /\ policy'.now = policy.now /\ policy'.pc = "idle"
  BY <1>1, <1>2 DEF PolicyState
<1>4. UNCHANGED <<clock, cmds, req, agent, posts, started, twice, left>> /\ Ids' = Ids
  BY DEF PolicyDone, Ids
<1>5. PolicyOK'
  BY <1>3, <1>4 DEF IInv, PolicyOK, PolicyState, DecisionsCooled, DecisionsDiffer, PolicyCooldown
<1> QED
  BY <1>4, <1>5, PolicyAlone DEF IInv, TableOK

LEMMA SchedulerKeeps ==
  ASSUME IInv, Scheduler
  PROVE  IInv'
  BY PolicyTickKeeps, PolicyDecideKeeps, PolicyCheckKeeps, PolicyInsertKeeps, PolicyDoneKeeps
     DEF Scheduler

-----------------------------------------------------------------------------
(* The agent and its reports.                                              *)

LEMMA AgentAlone ==
  ASSUME IInv, UNCHANGED <<clock, req, policy>>, RowsStay, left' \in Budget, AgentOK'
  PROVE  IInv'
<1>1. TableOK' /\ Ids' = Ids
  BY DEF IInv, TableOK, RowsStay
<1>2. RequestsOK'
  BY <1>1, RequestsFrame DEF IInv
<1>3. PolicyOK'
  BY PolicyFrame DEF IInv, TableOK
<1> QED
  BY <1>1, <1>2, <1>3 DEF IInv

\* The agent moves on between two reports.
LEMMA AgentMoves ==
  ASSUME IInv, UNCHANGED <<posts, left>>, UNCHANGED <<clock, req, policy>>, RowsStay,
         ~Reporting, agent' \in AgentState,
         agent'.pc \in {"skipping", "announcing", "announced", "acting", "closing"} =>
           agent'.id \in Ids,
         started' \subseteq Ids, twice' \subseteq started'
  PROVE  IInv'
<1>1. Ids' = Ids /\ AgentState' = AgentState
  BY DEF RowsStay, AgentState
<1>2. \A p \in posts : ~p.awaited
  BY DEF IInv, AgentOK, AwaitedIsCurrent
<1>3. AgentOK'
  BY <1>1, <1>2 DEF IInv, AgentOK, AwaitedIsCurrent
<1>4. left' \in Budget
  BY DEF IInv, TableOK
<1> QED
  BY <1>3, <1>4, AgentAlone

LEMMA IdleFits ==
  /\ IdleAgent \in AgentState /\ IdleAgent.pc = "idle" /\ IdleAgent.inbox = <<>>
  /\ IdleAgent.id = 0
<1>1. <<>> \in Seq(Ids)
  OBVIOUS
<1> QED
  BY <1>1 DEF IdleAgent, AgentState

LEMMA ListFits ==
  ASSUME TableOK, NEW inbox \in [1..Cardinality(QueuedIds) -> QueuedIds]
  PROVE  inbox \in Seq(Ids) /\ \A m \in 1..Len(inbox) : inbox[m] \in QueuedIds
<1>1. Ids = 1..Len(cmds) /\ Len(cmds) \in Nat
  BY IdsRange
<1>2. IsFiniteSet(Ids)
  BY <1>1, FS_Interval
<1>3. QueuedIds \subseteq Ids
  BY DEF QueuedIds
<1>4. Cardinality(QueuedIds) \in Nat
  BY <1>2, <1>3, FS_Subset, FS_CardinalityType
<1> DEFINE n == Cardinality(QueuedIds)
<1> HIDE DEF n
<1>5. inbox \in [1..n -> QueuedIds] /\ n \in Nat
  BY <1>4 DEF n
<1>6. inbox \in Seq(QueuedIds)
  BY <1>5
<1>7. inbox \in Seq(Ids)
  BY <1>3, <1>6, InboxStays
<1>8. \A m \in 1..Len(inbox) : inbox[m] \in QueuedIds
  BY <1>6, ElementsIn
<1> QED
  BY <1>7, <1>8

LEMMA PollKeeps ==
  ASSUME IInv, Poll
  PROVE  IInv'
<1>1. PICK inbox \in [1..Cardinality(QueuedIds) -> QueuedIds] :
        agent' = [agent EXCEPT !.pc = "received", !.inbox = inbox]
  BY DEF Poll
<1>2. agent \in AgentState /\ ~Reporting /\ inbox \in Seq(Ids)
  BY ListFits DEF IInv, AgentOK, Poll, Reporting
<1>3. agent' \in AgentState /\ agent'.pc = "received"
  BY <1>1, <1>2 DEF AgentState
<1>4. RowsStay
  BY ExpiryStays DEF IInv, Poll
<1> QED
  BY <1>2, <1>3, <1>4, AgentMoves DEF IInv, AgentOK, Poll

LEMMA PollUnansweredKeeps ==
  ASSUME IInv, PollUnanswered
  PROVE  IInv'
<1>1. \A p \in posts : ~p.awaited
  BY DEF IInv, AgentOK, AwaitedIsCurrent, PollUnanswered, Reporting
<1>2. RowsStay /\ Ids' = Ids /\ AgentState' = AgentState
  BY SameTable DEF IInv, PollUnanswered, Ids, AgentState
<1>3. AgentOK'
  BY <1>1, <1>2, IdleFits DEF IInv, AgentOK, AwaitedIsCurrent, PollUnanswered
<1>4. left' \in Budget
  BY SpendTypes DEF IInv, PollUnanswered
<1> QED
  BY <1>2, <1>3, <1>4, AgentAlone DEF PollUnanswered

\* A new report is the only one that the agent waits for.
LEMMA PostKeeps ==
  ASSUME IInv, UNCHANGED <<clock, cmds, req, policy, started, twice, left>>, ~Reporting,
         NEW id \in Ids, NEW status \in {"running", "done", "failed"}, Post(id, status),
         agent' \in AgentState, agent'.id = id, Reporting'
  PROVE  IInv'
<1> DEFINE new == [id |-> id, status |-> status, read |-> FALSE, awaited |-> TRUE]
<1>1. posts' = posts \cup {new}
  BY DEF Post
<1>2. new \in PostType /\ new.id = id
  BY IdsRange DEF PostType, IInv
<1> HIDE DEF new
<1>3. RowsStay /\ Ids' = Ids /\ AgentState' = AgentState
  BY SameTable DEF IInv, Ids, AgentState
<1>4. \A p \in posts : ~p.awaited
  BY DEF IInv, AgentOK, AwaitedIsCurrent
<1>5. AgentOK'
  BY <1>1, <1>2, <1>3, <1>4 DEF IInv, AgentOK, AwaitedIsCurrent
<1>6. left' \in Budget
  BY DEF IInv, TableOK
<1> QED
  BY <1>3, <1>5, <1>6, AgentAlone

LEMMA HeadFits ==
  ASSUME IInv, agent.inbox # <<>>
  PROVE  /\ Head(agent.inbox) \in Ids /\ Tail(agent.inbox) \in Seq(Ids)
         /\ 1 \in 1..Len(agent.inbox) /\ Head(agent.inbox) = agent.inbox[1]
         /\ \A m \in 1..Len(Tail(agent.inbox)) :
              m + 1 \in 1..Len(agent.inbox) /\ Tail(agent.inbox)[m] = agent.inbox[m + 1]
<1>1. agent.inbox \in Seq(Ids)
  BY DEF IInv, AgentOK, AgentState
<1> QED
  BY <1>1

LEMMA ExecutorKeeps ==
  ASSUME IInv, Executor
  PROVE  IInv'
<1>0. agent \in AgentState
  BY DEF IInv, AgentOK
<1>1. CASE Receive
  <2>1. agent' \in AgentState /\ agent'.pc = "deciding"
    <3>1. agent' = [agent EXCEPT !.pc = "deciding", !.now = clock] /\ clock \in Nat
      BY <1>1 DEF Receive, IInv, TableOK
    <3> QED
      BY <1>0, <3>1 DEF AgentState
  <2>2. RowsStay
    BY <1>1, SameTable DEF Receive, IInv
  <2> QED
    BY <1>1, <2>1, <2>2, AgentMoves DEF Receive, Reporting, IInv, AgentOK
<1>2. CASE SkipExpired
  <2> DEFINE id == Head(agent.inbox)
  <2>1. id \in Ids /\ Tail(agent.inbox) \in Seq(Ids)
    BY <1>2, HeadFits DEF SkipExpired
  <2>2. agent' = [agent EXCEPT !.pc = "skipping", !.id = id, !.inbox = Tail(agent.inbox)]
    BY <1>2, <1>0 DEF SkipExpired, AgentState
  <2>3. agent' \in AgentState /\ agent'.pc = "skipping" /\ agent'.id = id
    BY <1>0, <2>1, <2>2 DEF AgentState
  <2>4. Post(id, "failed")
    BY <1>2 DEF SkipExpired
  <2> HIDE DEF id
  <2> QED
    BY <1>2, <2>1, <2>3, <2>4, PostKeeps DEF SkipExpired, Reporting
<1>3. CASE NothingToDo
  <2>1. RowsStay
    BY <1>3, SameTable DEF NothingToDo, IInv
  <2> QED
    BY <1>3, <2>1, IdleFits, AgentMoves DEF NothingToDo, Reporting, IInv, AgentOK
<1>4. CASE Start
  <2> DEFINE id == Head(agent.inbox)
             refused == cmds[id].name \in Refused
             pc == IF refused THEN "closing" ELSE "announcing"
             status == IF refused THEN "failed" ELSE "running"
  <2>1. id \in Ids
    BY <1>4, HeadFits DEF Start
  <2>2. Post(id, status) /\ agent' = [IdleAgent EXCEPT !.pc = pc, !.id = id]
    BY <1>4 DEF Start
  <2>3. status \in {"running", "done", "failed"} /\ pc \in {"closing", "announcing"}
    OBVIOUS
  <2> HIDE DEF id, refused, pc, status
  <2>4. agent' \in AgentState /\ agent'.pc = pc /\ agent'.id = id
    BY <2>1, <2>2, <2>3, IdleFits DEF AgentState
  <2> QED
    BY <1>4, <2>1, <2>2, <2>3, <2>4, PostKeeps DEF Start, Reporting
<1>5. CASE BeginAction
  <2>1. agent' \in AgentState /\ agent'.pc = "acting" /\ agent'.id = agent.id
    BY <1>0, <1>5 DEF BeginAction, AgentState
  <2>2. agent.id \in Ids
    BY <1>5 DEF BeginAction, IInv, AgentOK
  <2>3. RowsStay
    BY <1>5, SameTable DEF BeginAction, IInv
  <2> QED
    BY <1>5, <2>1, <2>2, <2>3, AgentMoves DEF BeginAction, Reporting, IInv, AgentOK
<1>6. CASE EndAction
  <2>1. agent' \in AgentState /\ agent'.pc = "closing" /\ agent'.id = agent.id
    BY <1>0, <1>6 DEF EndAction, AgentState
  <2>2. agent.id \in Ids
    BY <1>6 DEF EndAction, IInv, AgentOK
  <2>3. PICK status \in Outcomes : Post(agent.id, status)
    BY <1>6 DEF EndAction
  <2> QED
    BY <1>6, <2>1, <2>2, <2>3, PostKeeps DEF EndAction, Reporting, Outcomes
<1> QED
  BY <1>1, <1>2, <1>3, <1>4, <1>5, <1>6 DEF Executor

LEMMA GoesOnFits ==
  ASSUME AgentOK, Reporting
  PROVE  /\ GoesOn \in AgentState
         /\ GoesOn.pc \in {"deciding", "announced", "idle"}
         /\ agent.pc = "announcing" => GoesOn.pc = "announced" /\ GoesOn.id = agent.id
         /\ agent.pc # "announcing" => GoesOn.pc # "announced"
         /\ GoesOn.inbox = agent.inbox \/ GoesOn.inbox = <<>>
<1>0. agent \in AgentState
  BY DEF AgentOK
<1>1. CASE agent.pc = "skipping"
  <2>1. GoesOn = [agent EXCEPT !.pc = "deciding", !.id = 0]
    BY <1>1 DEF GoesOn
  <2> QED
    BY <1>0, <1>1, <2>1 DEF AgentState
<1>2. CASE agent.pc = "announcing"
  <2>1. GoesOn = [agent EXCEPT !.pc = "announced"]
    BY <1>2 DEF GoesOn
  <2> QED
    BY <1>0, <1>2, <2>1 DEF AgentState
<1>3. CASE agent.pc = "closing"
  <2>1. GoesOn = IdleAgent
    BY <1>3 DEF GoesOn
  <2> QED
    BY <1>3, <2>1, IdleFits
<1> QED
  BY <1>1, <1>2, <1>3 DEF Reporting

\* A report that the server is done with; the agent goes on if it waited for this one.
LEMMA AnswerKeeps ==
  ASSUME IInv, NEW p \in posts, posts' = posts \ {p}, Answered(p),
         UNCHANGED <<clock, req, policy, started, twice, left>>, RowsStay
  PROVE  IInv'
<1>1. Ids' = Ids /\ AgentState' = AgentState
  BY DEF RowsStay, AgentState
<1>2. AgentOK'
  <2>1. CASE p.awaited
    <3>1. Reporting /\ agent' = GoesOn
      BY <2>1 DEF IInv, AgentOK, AwaitedIsCurrent, Answered
    <3>2. \A q \in posts' : ~q.awaited
      BY <2>1 DEF IInv, AgentOK, AwaitedIsCurrent
    <3>3. GoesOn \in AgentState /\ GoesOn.pc \in {"deciding", "announced", "idle"}
          /\ (GoesOn.pc = "announced" => GoesOn.id \in Ids)
      BY <3>1, GoesOnFits DEF IInv, AgentOK
    <3> QED
      BY <1>1, <3>1, <3>2, <3>3 DEF IInv, AgentOK, AwaitedIsCurrent
  <2>2. CASE ~p.awaited
    BY <1>1, <2>2 DEF IInv, AgentOK, AwaitedIsCurrent, Answered, Reporting
  <2> QED
    BY <2>1, <2>2
<1>3. left' \in Budget
  BY DEF IInv, TableOK
<1> QED
  BY <1>2, <1>3, AgentAlone

LEMMA ReadReportKeeps ==
  ASSUME IInv, NEW p \in posts, ReadReport(p)
  PROVE  IInv'
<1>1. UNCHANGED <<clock, cmds, req, policy, started, twice, left>>
  BY DEF ReadReport
<1>2. RowsStay /\ Ids' = Ids /\ AgentState' = AgentState
  BY <1>1, SameTable DEF IInv, Ids, AgentState
<1>3. CASE Ignored(p)
  BY <1>1, <1>2, <1>3, AnswerKeeps DEF ReadReport
<1>4. CASE ~Ignored(p)
  <2> DEFINE new == [p EXCEPT !.read = TRUE]
  <2>1. posts' = (posts \ {p}) \cup {new} /\ UNCHANGED agent
    BY <1>4 DEF ReadReport
  <2>2. p \in PostType /\ p.id \in Ids
    BY DEF IInv, AgentOK
  <2>3. new \in PostType /\ new.id = p.id /\ new.awaited = p.awaited
    BY <2>2 DEF PostType
  <2> HIDE DEF new
  <2>4. AwaitedIsCurrent'
    <3>1. Reporting' = Reporting
      BY <2>1 DEF Reporting
    <3> QED
      BY <2>1, <2>3, <3>1 DEF IInv, AgentOK, AwaitedIsCurrent
  <2>5. AgentOK'
    BY <1>1, <1>2, <2>1, <2>2, <2>3, <2>4 DEF IInv, AgentOK
  <2>6. left' \in Budget
    BY <1>1 DEF IInv, TableOK
  <2> QED
    BY <1>1, <1>2, <2>5, <2>6, AgentAlone
<1> QED
  BY <1>3, <1>4

LEMMA WriteReportKeeps ==
  ASSUME IInv, NEW p \in posts, WriteReport(p)
  PROVE  IInv'
<1>1. p.id \in Ids /\ p.status \in (Waiting \cup Closed) \ {"queued"}
  BY DEF IInv, AgentOK, PostType, Waiting, Closed
<1>2. RowsStay
  BY <1>1, StatusStays DEF WriteReport, IInv
<1> QED
  BY <1>2, AnswerKeeps DEF WriteReport

\* Nobody waits for the reports that are left.
LEMMA AbandonedFits ==
  ASSUME AgentOK, Abandoned
  PROVE  /\ posts' \subseteq PostType
         /\ \A p \in posts' : p.id \in Ids /\ ~p.awaited
<1>1. PICK late \in BOOLEAN :
        posts' = {p \in posts : ~p.awaited} \cup
                 {[p EXCEPT !.awaited = FALSE] : p \in {q \in posts : q.awaited /\ late}}
  BY DEF Abandoned
<1>2. \A p \in posts : LET q == [p EXCEPT !.awaited = FALSE]
                       IN q \in PostType /\ q.id = p.id /\ q.awaited = FALSE
  BY DEF AgentOK, PostType
<1> QED
  BY <1>1, <1>2 DEF AgentOK

LEMMA FaultKeeps ==
  ASSUME IInv, ReportUnanswered \/ AgentDies
  PROVE  IInv'
<1>1. UNCHANGED <<clock, cmds, req, policy, started, twice>> /\ Abandoned
  BY DEF ReportUnanswered, AgentDies
<1>2. RowsStay /\ Ids' = Ids /\ AgentState' = AgentState
  BY <1>1, SameTable DEF IInv, Ids, AgentState
<1>3. posts' \subseteq PostType /\ \A p \in posts' : p.id \in Ids /\ ~p.awaited
  BY <1>1, AbandonedFits DEF IInv
<1>4. /\ agent' \in AgentState
      /\ agent'.pc \in {"skipping", "announcing", "announced", "acting", "closing"} =>
           agent'.id \in Ids
  <2>1. CASE ReportUnanswered
    BY <2>1, GoesOnFits DEF ReportUnanswered, IInv, AgentOK
  <2>2. CASE AgentDies
    BY <2>2, IdleFits DEF AgentDies
  <2> QED
    BY <2>1, <2>2
<1>5. AgentOK'
  BY <1>1, <1>2, <1>3, <1>4 DEF IInv, AgentOK, AwaitedIsCurrent
<1>6. left' \in Budget
  BY SpendTypes DEF IInv, ReportUnanswered, AgentDies
<1> QED
  BY <1>1, <1>2, <1>5, <1>6, AgentAlone

LEMMA TickKeeps ==
  ASSUME IInv, Tick
  PROVE  IInv'
<1>1. clock \in Nat /\ clock' = clock + 1
      /\ UNCHANGED <<cmds, req, policy, agent, posts, started, twice, left>>
  BY DEF IInv, TableOK, Tick
<1>2. RowsStay /\ Ids' = Ids
  BY <1>1, SameTable DEF IInv, Ids
<1>3. TableOK'
  BY <1>1 DEF IInv, TableOK
<1>4. PolicyOK'
  BY <1>1, <1>2, PolicyFrame DEF IInv
<1> QED
  BY <1>1, <1>2, <1>3, <1>4, RequestsFrame, AgentFrame DEF IInv

LEMMA InitHolds == Init => IInv
<1> SUFFICES ASSUME Init PROVE IInv
  OBVIOUS
<1>1. cmds \in Seq(Command) /\ Ids = {} /\ Len(cmds) = 0
  BY DEF Init, Ids
<1>2. TableOK
  BY <1>1, CommandAssumption DEF Init, TableOK
<1>3. RequestsOK
  BY DEF Init, RequestsOK, Requests
<1>4. PolicyOK
  <2>1. <<>> \in Seq(Decision)
    OBVIOUS
  <2>2. policy \in PolicyState /\ policy.queue = <<>> /\ policy.now = 0 /\ policy.pc = "idle"
    BY <2>1 DEF Init, IdlePolicy, PolicyState
  <2> QED
    BY <1>1, <2>2 DEF Init, PolicyOK, DecisionsCooled, DecisionsDiffer, PolicyCooldown
<1>5. AgentOK
  BY <1>1, IdleFits DEF Init, AgentOK, AwaitedIsCurrent
<1> QED
  BY <1>2, <1>3, <1>4, <1>5 DEF IInv

LEMMA StepKeeps == IInv /\ [Next]_vars => IInv'
<1> SUFFICES ASSUME IInv, [Next]_vars PROVE IInv'
  OBVIOUS
<1>1. CASE UNCHANGED vars
  <2>1. UNCHANGED <<clock, cmds, req, policy, agent, posts, started, twice, left>>
    BY <1>1 DEF vars
  <2>2. RowsStay /\ Ids' = Ids
    BY <2>1, SameTable DEF IInv, Ids
  <2>3. AgentOK'
    BY <2>1, <2>2, AgentFrame DEF IInv
  <2> QED
    BY <2>1, <2>2, <2>3, AgentAlone DEF IInv, TableOK
<1>2. CASE Reports
  BY <1>2, ReadReportKeeps, WriteReportKeeps DEF Reports
<1> QED
  BY <1>1, <1>2, RequestKeeps, RespondKeeps, SchedulerKeeps, PollKeeps, ExecutorKeeps,
     PollUnansweredKeeps, FaultKeeps, TickKeeps DEF Next

LEMMA AlwaysIInv == Spec => []IInv
  BY InitHolds, StepKeeps, PTL DEF Spec

-----------------------------------------------------------------------------
(* The theorems.                                                           *)

\* Every variable keeps its type, and ids never dangle: a cancellation, a report or the
\* agent always refers to a row of the table (agent/commands.rs, policy.rs).
THEOREM TypeCorrect == Spec => []TypeOK
<1>1. ASSUME IInv PROVE TypeOK
  <2>1. Ids = 1..Len(cmds) /\ Len(cmds) \in Nat /\ 0 \notin Ids
    BY <1>1, IdsRange DEF IInv
  <2>2. \A u \in Users :
          \/ req[u] = NoRequest
          \/ req[u] \in [op : {"insert"}, kind : Kinds, name : Containers]
          \/ req[u] \in [op : {"cancel"}, id : Ids]
    BY <1>1 DEF IInv, RequestsOK, Requests
  <2>3. /\ policy.pc \in {"idle", "run", "insert"} /\ policy.now \in Nat
        /\ policy.todo \subseteq Containers
        /\ policy.queue \in Seq([kind : Kinds, name : Containers])
        /\ policy.pc = "insert" => policy.queue # <<>>
    BY <1>1 DEF IInv, PolicyOK, PolicyState, Decision
  <2>4. /\ agent.pc \in {"idle", "received", "deciding", "skipping", "announcing", "announced",
                         "acting", "closing"}
        /\ agent.inbox \in Seq(Ids) /\ agent.now \in Nat /\ agent.id \in Ids \cup {0}
        /\ agent.pc \in {"skipping", "announcing", "announced", "acting", "closing"} => agent.id # 0
    BY <1>1, <2>1 DEF IInv, AgentOK, AgentState
  <2> QED
    BY <1>1, <2>2, <2>3, <2>4 DEF TypeOK, IInv, TableOK, AgentOK, AwaitedIsCurrent
<1> QED
  BY <1>1, AlwaysIInv, PTL

\* Two automatic commands of a kind for a container are a cooldown apart, though decide and
\* enqueue are separate reads and writes that users may come between (policy.rs run_once).
THEOREM CooldownKept == Spec => []PolicyCooldown
<1>1. IInv => PolicyCooldown
  BY DEF IInv, PolicyOK
<1> QED
  BY <1>1, AlwaysIInv, PTL

-----------------------------------------------------------------------------
(* Started at most once.                                                   *)

\* Either no exchange gets lost, and the agent may die as often as it likes; or one gets
\* lost and the agent does not die.  Anything more does make a command run twice: an
\* announcement that is lost, then the death of the agent or the loss of its last report.
SingleFault == \A b \in Budgets : b.lost = 0 \/ (b.lost = 1 /\ b.crashes = 0)

Spent == left.lost = 0 /\ left.crashes = 0

\* What the agent is about to start was not started, and what was started is not handed out
\* again: it is queued no more, or the agent still works on it and nothing can go wrong.
OnceInv ==
  /\ left.lost = 0 \/ (left.lost = 1 /\ left.crashes = 0)
  /\ twice = {}
  /\ \A m \in 1..Len(agent.inbox) : agent.inbox[m] \notin started
  /\ agent.pc \in {"announcing", "announced"} => agent.id \notin started
  /\ agent.pc \in {"announcing", "announced", "acting", "closing"} => agent.inbox = <<>>
  /\ \A i \in started :
       cmds[i].status = "queued" => agent.id = i /\ agent.pc \in {"acting", "closing"} /\ Spent
  /\ agent.pc = "announced" /\ cmds[agent.id].status = "queued" => Spent

\* Rows may be closed or added.
NoneQueuedAgain ==
  \A i \in Ids : cmds'[i].status = "queued" => cmds[i].status = "queued"

LEMMA OnceFrame ==
  ASSUME IInv, OnceInv, UNCHANGED <<agent, started, twice>>, NoneQueuedAgain,
         left'.lost = left.lost, left'.crashes = left.crashes
  PROVE  OnceInv'
<1>1. started \subseteq Ids /\ (agent.pc = "announced" => agent.id \in Ids)
  BY DEF IInv, AgentOK
<1> QED
  BY <1>1 DEF OnceInv, NoneQueuedAgain, Spent

LEMMA OthersOnce ==
  ASSUME IInv, OnceInv, Request \/ Respond \/ Scheduler \/ Tick
  PROVE  OnceInv'
<1>1. UNCHANGED <<agent, started, twice>>
  BY DEF Request, RequestCommand, RequestCancel, Respond, InsertCommand, CancelCommand,
         Scheduler, PolicyTick, PolicyDecide, PolicyCheck, PolicyInsert, PolicyDone, Tick
<1>2. left'.lost = left.lost /\ left'.crashes = left.crashes
  <2>1. UNCHANGED left \/ Spend("commands") \/ Spend("cancels")
    BY DEF Request, RequestCommand, RequestCancel, Respond, InsertCommand, CancelCommand,
           Scheduler, PolicyTick, PolicyDecide, PolicyCheck, PolicyInsert, PolicyDone, Tick
  <2> QED
    BY <2>1, SpendTypes DEF IInv
<1>3. NoneQueuedAgain
  <2>1. CASE UNCHANGED cmds
    BY <2>1 DEF NoneQueuedAgain
  <2>2. CASE cmds' = ExpireStale
    BY <2>2, ExpiryStays DEF NoneQueuedAgain, RowsStay, IInv
  <2>3. ASSUME NEW u \in Users, InsertCommand(u) PROVE NoneQueuedAgain
    BY <2>3, IdsRange DEF InsertCommand, NoneQueuedAgain, IInv, TableOK
  <2>4. ASSUME NEW u \in Users, CancelCommand(u) PROVE NoneQueuedAgain
    <3>1. req[u].id \in Ids
      <4>1. req[u] \in Requests
        BY DEF IInv, RequestsOK
      <4> QED
        BY <2>4, <4>1 DEF CancelCommand, Requests, NoRequest
    <3>2. RowsStay
      BY <2>4, <3>1, SameTable, StatusStays DEF CancelCommand, IInv, Waiting, Closed
    <3> QED
      BY <3>2 DEF NoneQueuedAgain, RowsStay
  <2>5. CASE PolicyInsert
    BY <2>5, IdsRange DEF PolicyInsert, NoneQueuedAgain, IInv, TableOK
  <2>6. CASE Request \/ Tick
    <3>1. UNCHANGED cmds
      BY <2>6 DEF Request, RequestCommand, RequestCancel, Tick
    <3> QED
      BY <2>1, <3>1
  <2>7. CASE Respond
    BY <2>3, <2>4, <2>7 DEF Respond
  <2>8. CASE Scheduler
    BY <2>1, <2>2, <2>5, <2>8 DEF Scheduler, PolicyTick, PolicyDecide, PolicyCheck, PolicyDone
  <2> QED
    BY <2>6, <2>7, <2>8
<1> QED
  BY <1>1, <1>2, <1>3, OnceFrame

\* What is handed out is queued, so it was not started: the agent is idle.
LEMMA PollOnce ==
  ASSUME IInv, OnceInv, Poll
  PROVE  OnceInv'
<1>1. PICK inbox \in [1..Cardinality(QueuedIds) -> QueuedIds] :
        agent' = [agent EXCEPT !.pc = "received", !.inbox = inbox]
  BY DEF Poll
<1>2. \A m \in 1..Len(inbox) : inbox[m] \in QueuedIds
  BY ListFits DEF IInv
<1>3. agent'.pc = "received" /\ agent'.inbox = inbox
  BY <1>1 DEF IInv, AgentOK, AgentState
<1>4. RowsStay
  BY ExpiryStays DEF IInv, Poll
<1>5. \A i \in started : cmds[i].status # "queued" /\ i \in Ids
  BY DEF OnceInv, Poll, IInv, AgentOK
<1>6. \A i \in QueuedIds : i \notin started
  <2>1. \A i \in QueuedIds : cmds'[i].status = "queued" /\ i \in Ids
    BY DEF QueuedIds, Poll
  <2> QED
    BY <1>4, <1>5, <2>1 DEF RowsStay
<1>7. \A m \in 1..Len(inbox) : inbox[m] \notin started
  BY <1>2, <1>6
<1>8. \A i \in started : cmds'[i].status # "queued"
  BY <1>4, <1>5 DEF RowsStay
<1> QED
  BY <1>3, <1>7, <1>8 DEF OnceInv, Poll, Spent

LEMMA ExecutorOnce ==
  ASSUME IInv, OnceInv, Executor
  PROVE  OnceInv'
<1>0. agent \in AgentState /\ UNCHANGED <<cmds, left>> /\ Spent' = Spent
  BY DEF IInv, AgentOK, Spent, Executor, Receive, SkipExpired, NothingToDo, Start, BeginAction,
         EndAction
<1>1. CASE Receive
  <2>1. agent' = [agent EXCEPT !.pc = "deciding", !.now = clock]
    BY <1>1 DEF Receive
  <2>2. agent'.pc = "deciding" /\ agent'.inbox = agent.inbox
    BY <1>0, <2>1 DEF AgentState
  <2> QED
    BY <1>0, <1>1, <2>2 DEF OnceInv, Receive
<1>2. CASE SkipExpired
  <2>1. /\ \A m \in 1..Len(Tail(agent.inbox)) :
             m + 1 \in 1..Len(agent.inbox) /\ Tail(agent.inbox)[m] = agent.inbox[m + 1]
    BY <1>2, HeadFits DEF SkipExpired
  <2>2. agent' = [agent EXCEPT !.pc = "skipping", !.id = Head(agent.inbox),
                               !.inbox = Tail(agent.inbox)]
    BY <1>0, <1>2 DEF SkipExpired, AgentState
  <2>3. agent'.pc = "skipping" /\ agent'.inbox = Tail(agent.inbox)
    BY <1>0, <2>2 DEF AgentState
  <2>4. \A m \in 1..Len(Tail(agent.inbox)) : Tail(agent.inbox)[m] \notin started
    BY <2>1 DEF OnceInv
  <2> QED
    BY <1>0, <1>2, <2>3, <2>4 DEF OnceInv, SkipExpired
<1>3. CASE NothingToDo
  <2>1. agent'.pc = "idle" /\ agent'.inbox = <<>> /\ Len(<<>>) = 0
    BY <1>3, IdleFits DEF NothingToDo
  <2> QED
    BY <1>0, <1>3, <2>1 DEF OnceInv, NothingToDo
<1>4. CASE Start
  <2> DEFINE id == Head(agent.inbox)
             pc == IF cmds[id].name \in Refused THEN "closing" ELSE "announcing"
  <2>1. id \notin started
    BY <1>4, HeadFits DEF Start, OnceInv
  <2>2. agent' = [IdleAgent EXCEPT !.pc = pc, !.id = id] /\ pc \in {"closing", "announcing"}
    BY <1>4 DEF Start
  <2> HIDE DEF id, pc
  <2>3. agent'.pc = pc /\ agent'.id = id /\ agent'.inbox = <<>> /\ Len(<<>>) = 0
    BY <2>2, IdleFits DEF AgentState
  <2> QED
    BY <1>0, <1>4, <2>1, <2>2, <2>3 DEF OnceInv, Start
<1>5. CASE BeginAction
  <2>1. agent'.pc = "acting" /\ agent'.id = agent.id /\ agent'.inbox = agent.inbox
    BY <1>0, <1>5 DEF BeginAction, AgentState
  <2>2. agent.inbox = <<>> /\ Len(<<>>) = 0 /\ agent.id \notin started
    BY <1>5 DEF BeginAction, OnceInv
  <2>3. started' = started \cup {agent.id} /\ twice' = {}
    BY <1>5, <2>2 DEF BeginAction, OnceInv
  <2> QED
    BY <1>0, <1>5, <2>1, <2>2, <2>3 DEF OnceInv, BeginAction
<1>6. CASE EndAction
  <2>1. agent'.pc = "closing" /\ agent'.id = agent.id /\ agent'.inbox = agent.inbox
    BY <1>0, <1>6 DEF EndAction, AgentState
  <2> QED
    BY <1>0, <1>6, <2>1 DEF OnceInv, EndAction
<1> QED
  BY <1>1, <1>2, <1>3, <1>4, <1>5, <1>6 DEF Executor

\* Once the server has dealt with the report, the command is queued no more.
LEMMA AnswerOnce ==
  ASSUME IInv, OnceInv, NEW p \in posts, Answered(p), RowsStay, cmds'[p.id].status # "queued",
         UNCHANGED <<started, twice, left>>
  PROVE  OnceInv'
<1>1. Spent' = Spent
  BY DEF Spent
<1>2. CASE ~p.awaited
  <2>1. UNCHANGED agent
    BY <1>2 DEF Answered
  <2> QED
    BY <2>1, OnceFrame DEF NoneQueuedAgain, RowsStay
<1>3. CASE p.awaited
  <2>1. Reporting /\ agent' = GoesOn /\ p.id = agent.id
    BY <1>3 DEF IInv, AgentOK, AwaitedIsCurrent, Answered
  <2>2. /\ agent'.pc \in {"deciding", "announced", "idle"}
        /\ agent.pc = "announcing" => agent'.pc = "announced" /\ agent'.id = agent.id
        /\ agent.pc # "announcing" => agent'.pc # "announced"
        /\ agent'.inbox = agent.inbox \/ agent'.inbox = <<>>
    BY <2>1, GoesOnFits DEF IInv
  <2>3. \A i \in started : cmds'[i].status # "queued"
    <3>1. \A i \in started : cmds'[i].status = "queued" => i = agent.id
      BY DEF OnceInv, RowsStay, IInv, AgentOK
    <3> QED
      BY <2>1, <3>1
  <2>4. \A m \in 1..Len(agent'.inbox) : agent'.inbox[m] \notin started
    <3>1. Len(<<>>) = 0
      OBVIOUS
    <3> QED
      BY <2>2, <3>1 DEF OnceInv
  <2> QED
    BY <1>1, <2>1, <2>2, <2>3, <2>4 DEF OnceInv
<1> QED
  BY <1>2, <1>3

LEMMA ReportsOnce ==
  ASSUME IInv, OnceInv, Reports
  PROVE  OnceInv'
<1>1. PICK p \in posts : ReadReport(p) \/ WriteReport(p)
  BY DEF Reports
<1>2. p.id \in Ids /\ p.status \in (Waiting \cup Closed) \ {"queued"}
  BY DEF IInv, AgentOK, PostType, Waiting, Closed
<1>3. CASE ReadReport(p) /\ Ignored(p)
  <2>1. RowsStay
    BY <1>3, SameTable DEF ReadReport, IInv
  <2>2. cmds'[p.id].status # "queued"
    BY <1>3 DEF ReadReport, Ignored, Closed
  <2> QED
    BY <1>3, <2>1, <2>2, AnswerOnce DEF ReadReport
<1>4. CASE ReadReport(p) /\ ~Ignored(p)
  BY <1>4, OnceFrame DEF ReadReport, NoneQueuedAgain
<1>5. CASE WriteReport(p)
  <2>1. RowsStay /\ cmds'[p.id].status = p.status
    BY <1>2, <1>5, StatusStays DEF WriteReport, IInv
  <2> QED
    BY <1>2, <1>5, <2>1, AnswerOnce DEF WriteReport
<1> QED
  BY <1>1, <1>3, <1>4, <1>5

LEMMA FaultOnce ==
  ASSUME IInv, OnceInv, PollUnanswered \/ ReportUnanswered \/ AgentDies
  PROVE  OnceInv'
<1>0. /\ UNCHANGED <<cmds, started, twice>> /\ left.lost \in Nat /\ left.crashes \in Nat
      /\ Len(<<>>) = 0
  BY DEF IInv, TableOK, Budget, PollUnanswered, ReportUnanswered, AgentDies
<1>1. ~Spent /\ \A i \in started : cmds[i].status # "queued"
  <2>1. left.lost > 0 \/ left.crashes > 0
    BY SpendTypes DEF IInv, PollUnanswered, ReportUnanswered, AgentDies
  <2> QED
    BY <1>0, <2>1 DEF OnceInv, Spent
<1>2. CASE AgentDies
  <2>1. left'.lost = left.lost /\ left'.crashes = left.crashes - 1 /\ left.crashes > 0
    BY <1>2, SpendTypes DEF AgentDies, IInv
  <2>2. left'.lost = 0
    BY <2>1 DEF OnceInv
  <2>3. agent'.pc = "idle" /\ agent'.inbox = <<>>
    BY <1>2, IdleFits DEF AgentDies
  <2> QED
    BY <1>0, <1>1, <2>2, <2>3 DEF OnceInv
<1>3. CASE PollUnanswered \/ ReportUnanswered
  <2>1. left'.lost = left.lost - 1 /\ left'.crashes = left.crashes /\ left.lost > 0
    BY <1>3, SpendTypes DEF PollUnanswered, ReportUnanswered, IInv
  <2>2. Spent'
    BY <1>0, <2>1 DEF OnceInv, Spent
  <2>3. CASE PollUnanswered
    <3>1. agent'.pc = "idle" /\ agent'.inbox = <<>>
      BY <2>3, IdleFits DEF PollUnanswered
    <3> QED
      BY <1>0, <1>1, <2>2, <3>1 DEF OnceInv, Spent
  <2>4. CASE ReportUnanswered
    <3>1. Reporting /\ agent' = GoesOn
      BY <2>4 DEF ReportUnanswered
    <3>2. /\ agent'.pc \in {"deciding", "announced", "idle"}
          /\ agent.pc = "announcing" => agent'.pc = "announced" /\ agent'.id = agent.id
          /\ agent.pc # "announcing" => agent'.pc # "announced"
          /\ agent'.inbox = agent.inbox \/ agent'.inbox = <<>>
      BY <3>1, GoesOnFits DEF IInv
    <3>3. \A m \in 1..Len(agent'.inbox) : agent'.inbox[m] \notin started
      BY <1>0, <3>2 DEF OnceInv
    <3> QED
      BY <1>0, <1>1, <2>2, <3>2, <3>3 DEF OnceInv, Spent
  <2> QED
    BY <1>3, <2>3, <2>4
<1> QED
  BY <1>2, <1>3

\* However requests, cancellations, expiry and reports interleave, no command is started on
\* the machine a second time, as long as a single exchange is lost, or none and the agent
\* dies at will: a command that was announced is never handed out again
\* (agent/src/commands.rs execute, agent/commands.rs pending_for_target, report).
THEOREM StartedOnce == SingleFault => (Spec => []AtMostOnce)
<1> SUFFICES ASSUME SingleFault PROVE Spec => []AtMostOnce
  OBVIOUS
<1>1. Init => OnceInv
  <2> SUFFICES ASSUME Init PROVE OnceInv
    OBVIOUS
  <2>1. agent.pc = "idle" /\ agent.inbox = <<>> /\ Len(<<>>) = 0
    BY IdleFits DEF Init
  <2>2. left.lost = 0 \/ (left.lost = 1 /\ left.crashes = 0)
    BY DEF Init, SingleFault
  <2> QED
    BY <2>1, <2>2 DEF Init, OnceInv
<1>2. IInv /\ OnceInv /\ [Next]_vars => OnceInv'
  <2> SUFFICES ASSUME IInv, OnceInv, [Next]_vars PROVE OnceInv'
    OBVIOUS
  <2>1. CASE UNCHANGED vars
    BY <2>1, OnceFrame DEF vars, NoneQueuedAgain
  <2> QED
    BY <2>1, OthersOnce, PollOnce, ExecutorOnce, ReportsOnce, FaultOnce DEF Next
<1>3. OnceInv => AtMostOnce
  BY DEF OnceInv, AtMostOnce
<1> QED
  BY <1>1, <1>2, <1>3, AlwaysIInv, PTL DEF Spec
=============================================================================
