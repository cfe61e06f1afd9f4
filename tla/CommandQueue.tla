---------------------------- MODULE CommandQueue ----------------------------
(***************************************************************************)
(* Container actions: the command queue of one machine.  Users and the     *)
(* policy scheduler put commands into the table agent_commands             *)
(* (collectors/agent/commands.rs, policy.rs, api/agent_commands.rs); the   *)
(* agent of the machine polls for them, runs them one at a time and        *)
(* reports (agent/src/commands.rs).                                        *)
(*                                                                         *)
(* Handlers are sequences of separate SQL statements without a             *)
(* transaction, so each statement that another actor may come between is a *)
(* step of its own.  A report is an HTTP request that may be lost, or      *)
(* processed after the agent has stopped waiting for it.                   *)
(***************************************************************************)
EXTENDS Integers, Sequences, FiniteSets

CONSTANTS
  Users,             \* interface sessions that act at the same time
  Containers,        \* containers of the machine
  Refused,           \* those the agent refuses by its own list, of its own version
  Policy,            \* [Containers -> ContainerPolicy]
  MaxAge,            \* COMMAND_MAX_AGE_SECS in ticks of the clock
  RestartCooldown,   \* RESTART_COOLDOWN
  UpdateCooldown,    \* UPDATE_COOLDOWN
  MaxClock,          \* bound: the clock saturates here
  Horizon,           \* bound: nothing is requested after this instant
  MaxCommands,       \* bound: commands ever inserted, of any budget
  Budgets            \* bounds of a behaviour: commands inserted, cancellations, deaths of the
                     \* agent, its requests without an answer

Kinds == {"restart", "update"}

ContainerPolicy ==
  [auto_restart : BOOLEAN, auto_update : BOOLEAN, only_in_maintenance : BOOLEAN]

Budget == [commands : 0..MaxCommands, cancels : Nat, crashes : Nat, lost : Nat]

ASSUME CommandAssumption ==
  /\ "policy" \notin Users
  /\ Refused \subseteq Containers
  /\ Policy \in [Containers -> ContainerPolicy]
  /\ MaxAge \in Nat /\ RestartCooldown \in Nat /\ UpdateCooldown \in Nat
  /\ MaxClock \in Nat /\ Horizon \in Nat /\ MaxCommands \in Nat
  /\ Budgets \subseteq Budget

VARIABLES
  clock,
  cmds,     \* the table, in the order of its ids
  req,      \* per user, the request between its two statements
  policy,   \* the pass of the policy scheduler
  agent,    \* the agent's main loop and its executor
  posts,    \* reports that the server has not finished with
  started,  \* observer: the commands that were started on the machine ...
  twice,    \* ... and those that were started again
  left      \* remaining budget of each bounded event

vars == <<clock, cmds, req, policy, agent, posts, started, twice, left>>

Ids == DOMAIN cmds

Closed == {"done", "failed", "cancelled", "expired"}

Waiting == {"queued", "running"}

NoRequest == [op |-> "none"]

IdlePolicy == [pc |-> "idle", now |-> 0, todo |-> {}, queue |-> <<>>]

IdleAgent == [pc |-> "idle", inbox |-> <<>>, now |-> 0, id |-> 0]

Init ==
  /\ clock = 1
  /\ cmds = <<>>
  /\ req = [u \in Users |-> NoRequest]
  /\ policy = IdlePolicy
  /\ agent = IdleAgent
  /\ posts = {}
  /\ started = {} /\ twice = {}
  /\ left \in Budgets

Spend(kind) == left[kind] > 0 /\ left' = [left EXCEPT ![kind] = @ - 1]

-----------------------------------------------------------------------------
(* The table.                                                              *)

HasPending(kind, name) ==
  \E i \in Ids : /\ cmds[i].kind = kind /\ cmds[i].name = name
                 /\ cmds[i].status \in Waiting

NewCommand(kind, name, by) ==
  [ kind |-> kind, name |-> name, status |-> "queued", by |-> by,
    created_at |-> clock ]

\* Mutant: nothing expires.
ExpireStaleNever == cmds

\* expire_stale
ExpireStale ==
  [i \in Ids |-> IF cmds[i].status = "queued" /\ cmds[i].created_at < clock - MaxAge
                 THEN [cmds[i] EXCEPT !.status = "expired"] ELSE cmds[i]]

SetStatus(id, status) == [cmds EXCEPT ![id].status = status]

\* Mutant: the rate limiter looks at live commands only.
CooledIfClosed(kind, name, now, cooldown) ==
  \A i \in Ids : cmds[i].kind = kind /\ cmds[i].name = name /\ cmds[i].status \in Waiting
                 => now - cmds[i].created_at >= cooldown

\* last_command_at against a cooldown: closed commands count as well, and ids
\* follow the clock, so the last one is the most recent.
Cooled(kind, name, now, cooldown) ==
  \A i \in Ids : cmds[i].kind = kind /\ cmds[i].name = name
                 => now - cmds[i].created_at >= cooldown

-----------------------------------------------------------------------------
(* Users: each request is a read, then a write.                            *)

\* enqueue, first statement: the duplicate is refused.
RequestCommand(u, kind, name) ==
  /\ req[u] = NoRequest /\ clock <= Horizon
  /\ ~HasPending(kind, name)
  /\ Spend("commands")
  /\ req' = [req EXCEPT ![u] = [op |-> "insert", kind |-> kind, name |-> name]]
  /\ UNCHANGED <<clock, cmds, policy, agent, posts, started, twice>>

\* enqueue, second statement.
InsertCommand(u) ==
  /\ req[u].op = "insert"
  /\ cmds' = Append(cmds, NewCommand(req[u].kind, req[u].name, u))
  /\ req' = [req EXCEPT ![u] = NoRequest]
  /\ UNCHANGED <<clock, policy, agent, posts, started, twice, left>>

\* cancel, first statement: only a queued command may be cancelled.
RequestCancel(u, id) ==
  /\ req[u] = NoRequest
  /\ cmds[id].status = "queued"
  /\ Spend("cancels")
  /\ req' = [req EXCEPT ![u] = [op |-> "cancel", id |-> id]]
  /\ UNCHANGED <<clock, cmds, policy, agent, posts, started, twice>>

\* cancel, second statement: UPDATE ... WHERE id = ? AND status = 'queued'.
CancelCommand(u) ==
  /\ req[u].op = "cancel"
  /\ cmds' = IF cmds[req[u].id].status = "queued"
             THEN SetStatus(req[u].id, "cancelled") ELSE cmds
  /\ req' = [req EXCEPT ![u] = NoRequest]
  /\ UNCHANGED <<clock, policy, agent, posts, started, twice, left>>

-----------------------------------------------------------------------------
(* The policy scheduler, once a minute.                                    *)

Automatic == {n \in Containers : Policy[n].auto_restart \/ Policy[n].auto_update}

PolicyTick ==
  /\ policy.pc = "idle"
  /\ clock > policy.now
  /\ cmds' = ExpireStale
  /\ policy' = [pc |-> "run", now |-> clock, queue |-> <<>>, todo |-> Automatic]
  /\ UNCHANGED <<clock, req, agent, posts, started, twice, left>>

\* decide: nothing while a command waits, restart what is down, update what may
\* be, each within its cooldown.
Decisions(n, up, update_available, in_maintenance) ==
  IF \E k \in Kinds : HasPending(k, n) THEN <<>>
  ELSE (IF /\ Policy[n].auto_restart /\ ~up
           /\ Cooled("restart", n, policy.now, RestartCooldown)
        THEN <<[kind |-> "restart", name |-> n]>> ELSE <<>>)
       \o
       (IF /\ Policy[n].auto_update /\ update_available
           /\ Policy[n].only_in_maintenance => in_maintenance
           /\ Cooled("update", n, policy.now, UpdateCooldown)
        THEN <<[kind |-> "update", name |-> n]>> ELSE <<>>)

\* decide sees what four SELECTs (policy.rs) read one after the other.  They are one step
\* here: what changes between them shows as a later command, hence a longer cooldown, or
\* as one that no longer waits, which enqueue checks again.
PolicyDecide(n) ==
  /\ policy.pc = "run" /\ policy.queue = <<>> /\ n \in policy.todo
  /\ clock <= Horizon
  /\ \E up, update_available, in_maintenance \in BOOLEAN :
       policy' = [policy EXCEPT !.todo = @ \ {n},
                    !.queue = Decisions(n, up, update_available, in_maintenance)]
  /\ UNCHANGED <<clock, cmds, req, agent, posts, started, twice, left>>

\* enqueue, first statement: a conflict or a failure (here, the bound on the
\* table) is logged, and the next decision follows.
PolicyCheck ==
  /\ policy.pc = "run" /\ policy.queue # <<>>
  /\ IF HasPending(Head(policy.queue).kind, Head(policy.queue).name) \/ left.commands = 0
     THEN policy' = [policy EXCEPT !.queue = Tail(@)] /\ UNCHANGED left
     ELSE policy' = [policy EXCEPT !.pc = "insert"] /\ Spend("commands")
  /\ UNCHANGED <<clock, cmds, req, agent, posts, started, twice>>

PolicyInsert ==
  /\ policy.pc = "insert"
  /\ cmds' = Append(cmds, NewCommand(Head(policy.queue).kind, Head(policy.queue).name, "policy"))
  /\ policy' = [policy EXCEPT !.pc = "run", !.queue = Tail(@)]
  /\ UNCHANGED <<clock, req, agent, posts, started, twice, left>>

\* The pass is over: every policy was looked at, or observe found nothing.
PolicyDone ==
  /\ policy.pc = "run" /\ policy.queue = <<>>
  /\ policy.todo = {} \/ clock > Horizon
  /\ policy' = [policy EXCEPT !.pc = "idle", !.todo = {}]
  /\ UNCHANGED <<clock, cmds, req, agent, posts, started, twice, left>>

-----------------------------------------------------------------------------
(* The agent: poll, then the executor.  It is busy from Start to the end   *)
(* of the last report, and does not poll meanwhile.                        *)

QueuedIds == {i \in Ids : ExpireStale[i].status = "queued"}

\* ORDER BY id
Ascending(s) == \A i, j \in DOMAIN s : i < j => s[i] < s[j]

\* GET /api/agent/commands: pending_for_target expires first, then lists what is
\* queued; the status of what it hands out does not change.
Poll ==
  /\ agent.pc = "idle"
  /\ cmds' = ExpireStale
  /\ \E inbox \in [1..Cardinality(QueuedIds) -> QueuedIds] :
       Ascending(inbox) /\ agent' = [agent EXCEPT !.pc = "received", !.inbox = inbox]
  /\ UNCHANGED <<clock, req, policy, posts, started, twice, left>>

\* The list never arrives: the agent tries again after its next batch.
PollUnanswered ==
  /\ agent.pc = "received"
  /\ Spend("lost")
  /\ agent' = IdleAgent
  /\ UNCHANGED <<clock, cmds, req, policy, posts, started, twice>>

\* The answer arrives; the agent reads its clock once for the whole list.
Receive ==
  /\ agent.pc = "received"
  /\ agent' = [agent EXCEPT !.pc = "deciding", !.now = clock]
  /\ UNCHANGED <<clock, cmds, req, policy, posts, started, twice, left>>

IsExpired(id) == agent.now - cmds[id].created_at > MaxAge

\* POST /api/agent/commands/{id}: the agent waits for the answer.
Post(id, status) ==
  posts' = posts \cup {[id |-> id, status |-> status, read |-> FALSE, awaited |-> TRUE]}

\* A command that got too old on the way is refused, and the next one looked at.
SkipExpired ==
  /\ agent.pc = "deciding" /\ agent.inbox # <<>>
  /\ IsExpired(Head(agent.inbox))
  /\ Post(Head(agent.inbox), "failed")
  /\ agent' = [agent EXCEPT !.pc = "skipping", !.id = Head(agent.inbox),
                            !.inbox = Tail(@)]
  /\ UNCHANGED <<clock, cmds, req, policy, started, twice, left>>

NothingToDo ==
  /\ agent.pc = "deciding" /\ agent.inbox = <<>>
  /\ agent' = IdleAgent
  /\ UNCHANGED <<clock, cmds, req, policy, posts, started, twice, left>>

\* Mutant: the executor acts at once and reports the end only.
StartSilently ==
  /\ agent.pc = "deciding" /\ agent.inbox # <<>>
  /\ ~IsExpired(Head(agent.inbox))
  /\ agent' = [IdleAgent EXCEPT !.pc = "announced", !.id = Head(agent.inbox)]
  /\ UNCHANGED <<clock, cmds, req, policy, posts, started, twice, left>>

\* The first command that can run is handed to the executor, which announces it.
Start ==
  /\ agent.pc = "deciding" /\ agent.inbox # <<>>
  /\ ~IsExpired(Head(agent.inbox))
  /\ LET id == Head(agent.inbox)
         refused == cmds[id].name \in Refused
     IN /\ Post(id, IF refused THEN "failed" ELSE "running")
        /\ agent' = [IdleAgent EXCEPT !.pc = IF refused THEN "closing" ELSE "announcing",
                                      !.id = id]
  /\ UNCHANGED <<clock, cmds, req, policy, started, twice, left>>

\* restart or update begins on the machine ...
BeginAction ==
  /\ agent.pc = "announced"
  /\ started' = started \cup {agent.id}
  /\ twice' = twice \cup (started \cap {agent.id})
  /\ agent' = [agent EXCEPT !.pc = "acting"]
  /\ UNCHANGED <<clock, cmds, req, policy, posts, left>>

\* Mutant: a status that the server does not know.
OutcomesUnknown == {"done", "error"}

Outcomes == {"done", "failed"}

\* ... and ends, well or badly.
EndAction ==
  /\ agent.pc = "acting"
  /\ \E status \in Outcomes : Post(agent.id, status)
  /\ agent' = [agent EXCEPT !.pc = "closing"]
  /\ UNCHANGED <<clock, cmds, req, policy, started, twice, left>>

\* The agent goes on once its report is answered, or given up on.
GoesOn ==
  CASE agent.pc = "skipping"   -> [agent EXCEPT !.pc = "deciding", !.id = 0]
    [] agent.pc = "announcing" -> [agent EXCEPT !.pc = "announced"]
    [] agent.pc = "closing"    -> IdleAgent

Reporting == agent.pc \in {"skipping", "announcing", "closing"}

Answered(p) == agent' = IF p.awaited THEN GoesOn ELSE agent

\* The agent no longer waits: its request is lost, or will be served later.
Abandoned ==
  \E late \in BOOLEAN :
    posts' = {p \in posts : ~p.awaited} \cup
             {[p EXCEPT !.awaited = FALSE] : p \in {q \in posts : q.awaited /\ late}}

\* A closed command is not reopened: the report is answered and ignored.
Ignored(p) == cmds[p.id].status \in Closed

\* report, first statement.
ReadReport(p) ==
  /\ ~p.read
  /\ IF Ignored(p)
     THEN posts' = posts \ {p} /\ Answered(p)
     ELSE posts' = (posts \ {p}) \cup {[p EXCEPT !.read = TRUE]} /\ UNCHANGED agent
  /\ UNCHANGED <<clock, cmds, req, policy, started, twice, left>>

\* report, second statement: UPDATE ... WHERE id = ?
WriteReport(p) ==
  /\ p.read
  /\ cmds' = SetStatus(p.id, p.status)
  /\ posts' = posts \ {p}
  /\ Answered(p)
  /\ UNCHANGED <<clock, req, policy, started, twice, left>>

\* The agent gets no answer: the request never arrives, or is served later.
ReportUnanswered ==
  /\ Reporting
  /\ Spend("lost")
  /\ Abandoned
  /\ agent' = GoesOn
  /\ UNCHANGED <<clock, cmds, req, policy, started, twice>>

\* The agent dies and is started again; its requests may still be served.
AgentDies ==
  /\ agent.pc # "idle"
  /\ Spend("crashes")
  /\ agent' = IdleAgent
  /\ Abandoned
  /\ UNCHANGED <<clock, cmds, req, policy, started, twice>>

\* Nothing is on its way into the table.
NoInsertPending ==
  /\ \A u \in Users : req[u].op # "insert"
  /\ policy.queue = <<>>

\* Past the horizon nothing is inserted any more, so that the clock can outlast
\* the age limit of every command.
Tick ==
  /\ clock < MaxClock
  /\ clock >= Horizon => NoInsertPending
  /\ clock' = clock + 1
  /\ UNCHANGED <<cmds, req, policy, agent, posts, started, twice, left>>

-----------------------------------------------------------------------------
Request ==
  \/ \E u \in Users, k \in Kinds, n \in Containers : RequestCommand(u, k, n)
  \/ \E u \in Users, i \in Ids : RequestCancel(u, i)

Respond == \E u \in Users : InsertCommand(u) \/ CancelCommand(u)

Scheduler ==
  \/ PolicyTick \/ PolicyCheck \/ PolicyInsert \/ PolicyDone
  \/ \E n \in Containers : PolicyDecide(n)

Executor == Receive \/ SkipExpired \/ NothingToDo \/ Start \/ BeginAction \/ EndAction

Reports == \E p \in posts : ReadReport(p) \/ WriteReport(p)

Next ==
  \/ Request \/ Respond \/ Scheduler \/ Poll \/ Executor \/ Reports
  \/ PollUnanswered \/ ReportUnanswered \/ AgentDies \/ Tick

Spec == Init /\ [][Next]_vars

\* Handlers and tasks that have begun go on, the scheduler ticks, time passes.
\* Nobody guarantees that the agent polls: that is PollingSpec.
FairSpec ==
  /\ Spec
  /\ WF_vars(Respond) /\ WF_vars(Scheduler) /\ WF_vars(Executor)
  /\ WF_vars(Reports) /\ WF_vars(Tick)

PollingSpec == FairSpec /\ SF_vars(Poll)

-----------------------------------------------------------------------------
(* Properties.                                                             *)

Command ==
  [ kind : Kinds, name : Containers, status : Waiting \cup Closed,
    by : Users \cup {"policy"}, created_at : Nat ]

PostType ==
  [ id : Nat, status : {"running", "done", "failed"}, read : BOOLEAN, awaited : BOOLEAN ]

\* Every variable has its type, and whatever a request, a report or the agent
\* refers to is a command of the table: ids are never dangling.
TypeOK ==
  /\ clock \in Nat
  /\ cmds \in Seq(Command)
  /\ \A u \in Users :
       \/ req[u] = NoRequest
       \/ req[u] \in [op : {"insert"}, kind : Kinds, name : Containers]
       \/ req[u] \in [op : {"cancel"}, id : Ids]
  /\ policy.pc \in {"idle", "run", "insert"} /\ policy.now \in Nat
  /\ policy.todo \subseteq Containers
  /\ policy.queue \in Seq([kind : Kinds, name : Containers])
  /\ policy.pc = "insert" => policy.queue # <<>>
  /\ agent.pc \in {"idle", "received", "deciding", "skipping", "announcing", "announced",
                   "acting", "closing"}
  /\ agent.inbox \in Seq(Ids) /\ agent.now \in Nat /\ agent.id \in Ids \cup {0}
  /\ agent.pc \in {"skipping", "announcing", "announced", "acting", "closing"} => agent.id # 0
  /\ \A p \in posts : p \in PostType /\ p.id \in Ids /\ (p.awaited => Reporting)
  /\ started \subseteq Ids /\ twice \subseteq started
  /\ left \in Budget

\* A command is started on the machine at most once, whatever requests run side
\* by side, and whether the agent dies or an answer is lost: "ne doit pas remplacer
\* deux fois le conteneur".  (One fault: an announcement that is lost, followed by the
\* death of the agent that acts on it, leaves the command queued.)
AtMostOnce == twice = {}

\* Two automatic commands of a kind for a container are a cooldown apart, however
\* the first one ended and whatever users queue or cancel between the scheduler's
\* reads and its insertion: "pas plus d'un redemarrage automatique par dix minutes".
PolicyCooldown ==
  \A i, j \in Ids :
    /\ i < j /\ cmds[i].kind = cmds[j].kind /\ cmds[i].name = cmds[j].name
    /\ cmds[i].by = "policy" /\ cmds[j].by = "policy"
    => cmds[j].created_at - cmds[i].created_at >=
         IF cmds[j].kind = "restart" THEN RestartCooldown ELSE UpdateCooldown

\* No command stays queued for ever, even if its agent never comes.
QueuedLeaves ==
  \A i \in 1..MaxCommands :
    (i \in Ids /\ cmds[i].status = "queued") ~> (i \in Ids /\ cmds[i].status # "queued")

\* Every command is closed in the end, so that none blocks the next request for
\* its container.
EveryCommandCloses ==
  \A i \in 1..MaxCommands :
    (i \in Ids) ~> (i \in Ids /\ cmds[i].status \in Closed)

\* At most one command of a kind waits or runs per container, as the comment of enqueue has
\* it: "Refuse le doublon [...] un << mise a jour >> clique deux fois ne doit pas remplacer
\* deux fois le conteneur".
OnePending ==
  \A i, j \in Ids :
    /\ cmds[i].kind = cmds[j].kind /\ cmds[i].name = cmds[j].name
    /\ cmds[i].status \in Waiting /\ cmds[j].status \in Waiting
    => i = j
=============================================================================
