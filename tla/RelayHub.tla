------------------------------ MODULE RelayHub ------------------------------
(***************************************************************************)
(* Probes delegated to relay agents (server/src/collectors/relay.rs,       *)
(* api/relay.rs, agent/src/relay.rs).                                      *)
(*                                                                         *)
(* The hub keeps its jobs in memory under one mutex, so each operation on  *)
(* it is one step; what follows outside the mutex (settling a job) is      *)
(* another.  The relay fetches jobs by long polling and posts one report   *)
(* for each; either exchange may fail without a trace, and a relay that    *)
(* dies takes its tasks along.  When a deadline has passed is a choice:    *)
(* any job may be found overdue.                                           *)
(*                                                                         *)
(* Job ids come from a counter that starts again with the server.  An id   *)
(* is used here again once nothing refers to its last use any more, which  *)
(* nobody can tell from a fresh one; references from an earlier life of    *)
(* the server do not count, because the counter knows nothing of them.     *)
(***************************************************************************)
EXTENDS Integers, FiniteSets

CONSTANTS
  Devices,      \* targets that are not agents
  Agents,       \* relay agents
  MaxIds        \* bound: jobs referred to at the same time

ASSUME HubAssumption == MaxIds \in Nat

VARIABLES
  life,         \* how often the server was started again
  queued,       \* jobs that wait for their agent
  in_flight,    \* jobs in the hands of their agent
  settling,     \* jobs taken out of the hub, whose result is being recorded
  hands,        \* tasks of the relays, until their report arrives or is lost
  mistaken      \* observer: a report was taken for that of a job it is not about

hubVars == <<life, queued, in_flight, settling, hands, mistaken>>

Ids == 1..MaxIds

Job ==
  [ id : Ids, agent : Agents, device : Devices, discover : BOOLEAN ]

\* A task of a relay, which ends in a report.
Task ==
  [ id : Ids, agent : Agents, device : Devices, discover : BOOLEAN, life : Nat ]

Jobs == queued \cup in_flight

Results == {"done", "expired"}

HubInit ==
  /\ life = 0
  /\ queued = {} /\ in_flight = {} /\ settling = {}
  /\ hands = {}
  /\ mistaken = FALSE

\* Mutant: ids are those of the positions in the queue.
UsedQueued == {j.id : j \in queued}

Used ==
  {j.id : j \in Jobs} \cup {s.job.id : s \in settling} \cup
  {t.id : t \in {u \in hands : u.life = life}}

Free == Ids \ Used

Same(j, device, discover) == j.device = device /\ j.discover = discover

\* Mutant: the jobs the relay has taken are forgotten.
BusyQueueOnly(agent, device, discover) ==
  \E j \in queued : j.agent = agent /\ Same(j, device, discover)

\* The queue of this agent, and everything in flight.
Busy(agent, device, discover) ==
  \/ \E j \in queued : j.agent = agent /\ Same(j, device, discover)
  \/ \E j \in in_flight : Same(j, device, discover)

NewJob(id, agent, device, discover) ==
  [id |-> id, agent |-> agent, device |-> device, discover |-> discover]

\* enqueue, when it is not refused.
Enqueue(agent, device, discover) ==
  /\ \E id \in Free :
       /\ \A k \in Free : id <= k
       /\ queued' = queued \cup {NewJob(id, agent, device, discover)}
  /\ UNCHANGED <<life, in_flight, settling, hands, mistaken>>

TaskOf(j) ==
  [id |-> j.id, agent |-> j.agent, device |-> j.device, discover |-> j.discover, life |-> life]

\* take: everything that waits for the agent is handed over; the answer may get lost.
Take(a) ==
  LET taken == {j \in queued : j.agent = a}
  IN /\ taken # {}
     /\ queued' = queued \ taken
     /\ in_flight' = in_flight \cup taken
     /\ \E received \in BOOLEAN :
          hands' = IF received THEN hands \cup {TaskOf(j) : j \in taken} ELSE hands
     /\ UNCHANGED <<life, settling, mistaken>>

\* The relay dies, or its report does not arrive, which it only logs.
LoseReport(t) ==
  /\ t \in hands
  /\ hands' = hands \ {t}
  /\ UNCHANGED <<life, queued, in_flight, settling, mistaken>>

\* complete: the job the server knows under this id, if it is this agent's.
Reported(t) == {j \in in_flight : j.id = t.id /\ j.agent = t.agent}

\* Mutant: the job stays until its deadline.
CompletedStays(t) == in_flight

Completed(t) == in_flight \ Reported(t)

\* The task has executed its probe and posts the outcome, POST /api/agent/relay/{id}:
\* complete, or 404 when the job is no longer there.
Complete(t) ==
  /\ t \in hands
  /\ hands' = hands \ {t}
  /\ in_flight' = Completed(t)
  /\ settling' = settling \cup {[job |-> j, result |-> "done"] : j \in Reported(t)}
  /\ mistaken' = (mistaken \/ \E j \in Reported(t) : ~Same(j, t.device, t.discover))
  /\ UNCHANGED <<life, queued>>

\* Mutant: a job in the hands of an agent never expires.
ExpirableWaiting == queued

Expirable == queued \cup in_flight

\* expire: the deadline of these jobs has passed.
Expire(late) ==
  /\ queued' = queued \ late
  /\ in_flight' = in_flight \ late
  /\ settling' = settling \cup {[job |-> j, result |-> "expired"] : j \in late}
  /\ UNCHANGED <<life, hands, mistaken>>

\* settle: samples and verdict are recorded, whoever waits is told.
Settle(s) ==
  /\ s \in settling
  /\ settling' = settling \ {s}
  /\ UNCHANGED <<life, queued, in_flight, hands, mistaken>>

\* The server starts again with an empty hub; the relays go on.
HubRestarts ==
  /\ life' = life + 1
  /\ queued' = {} /\ in_flight' = {} /\ settling' = {}
  /\ UNCHANGED <<hands, mistaken>>
=============================================================================
