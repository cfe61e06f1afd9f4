----------------------------- MODULE Scheduler -----------------------------
(***************************************************************************)
(* The loop that probes every enabled device (server/src/scheduler.rs): a  *)
(* round reloads the list of targets and of relays from time to time,      *)
(* settles the delegated probes that expired, and goes through what is     *)
(* due.  It delegates through the hub, or waits for a permit and spawns a  *)
(* probe of its own.  Users edit devices, and discover or probe them at    *)
(* once (api/targets.rs).                                                  *)
(*                                                                         *)
(* Time is a choice: when a round begins, any job of the hub may have      *)
(* passed its deadline, and any target may be due.                         *)
(***************************************************************************)
EXTENDS RelayHub

CONSTANTS
  NoAgent,      \* a device without relay
  Routes,       \* [Devices -> SUBSET (Agents \cup {NoAgent})]: devices of a pack have no relay
  Permits,      \* max_concurrent_probes
  MaxEvents     \* bound: edits, requests of users, failed statements and crashes

ASSUME SchedulerAssumption ==
  /\ NoAgent \notin Agents /\ IsFiniteSet(Devices)
  /\ Routes \in [Devices -> (SUBSET (Agents \cup {NoAgent})) \ {{}}]
  /\ Permits \in Nat \ {0} /\ MaxEvents \in Nat

VARIABLES
  enabled,      \* targets.enabled
  via,          \* targets.via_agent
  sched,        \* the round: pc, the devices still to visit, the one that waits for a permit
  loaded,       \* the scheduler's list of targets ...
  relays,       \* ... and its map of relays
  running,      \* per device, the probes of the server in flight
  ask,          \* a user's request, between reading the relay and queueing the job
  pulse,        \* observer: changes with every verdict recorded for a device
  left          \* remaining events

schedVars == <<enabled, via, sched, loaded, relays, running, ask, pulse, left>>

vars == <<hubVars, schedVars>>

NoAsk == [device |-> "none"]

\* Between two rounds.
Asleep == [pc |-> "visit", todo |-> {}, device |-> "none"]

Init ==
  /\ HubInit
  /\ enabled = Devices
  /\ via \in [Devices -> Agents \cup {NoAgent}] /\ \A d \in Devices : via[d] \in Routes[d]
  /\ sched = Asleep
  /\ loaded = {} /\ relays = [d \in Devices |-> NoAgent]
  /\ running = [d \in Devices |-> 0]
  /\ ask = NoAsk
  /\ pulse = [d \in Devices |-> FALSE]
  /\ left = MaxEvents

Event == left > 0 /\ left' = left - 1

\* record_probe; a failure is only logged.
Records(d) ==
  \/ pulse' = [pulse EXCEPT ![d] = ~@] /\ UNCHANGED left
  \/ Event /\ UNCHANGED pulse

-----------------------------------------------------------------------------
(* A round.                                                                *)

\* The loop wakes up and its lists are older than RELOAD_EVERY.  The list of targets is
\* replaced, unless it cannot be read ...
ReloadTargets ==
  /\ sched = Asleep
  /\ \/ loaded' = enabled /\ UNCHANGED left
     \/ Event /\ UNCHANGED loaded
  /\ sched' = [sched EXCEPT !.pc = "relays"]
  /\ UNCHANGED <<hubVars, enabled, via, relays, running, ask, pulse>>

\* What expired leaves the hub, at each round.
ExpireJobs ==
  /\ \E late \in SUBSET Expirable : Expire(late)
  /\ sched' = [Asleep EXCEPT !.pc = "settle"]

\* ... then the map of relays, by a statement of its own; the old one stays on an error.
ReloadRelays ==
  /\ sched.pc = "relays"
  /\ \/ relays' = via /\ UNCHANGED left
     \/ Event /\ UNCHANGED relays
  /\ ExpireJobs
  /\ UNCHANGED <<enabled, via, loaded, running, ask, pulse>>

\* The lists are still young.
KeepLists ==
  /\ sched = Asleep
  /\ ExpireJobs
  /\ UNCHANGED <<enabled, via, loaded, relays, running, ask, pulse, left>>

Expired == {s \in settling : s.result = "expired"}

\* Mutant: only what a relay reports is a verdict.
SettleJobReported(s) ==
  /\ Settle(s)
  /\ IF s.job.discover \/ s.result = "expired" THEN UNCHANGED <<pulse, left>>
     ELSE Records(s.job.device)
  /\ UNCHANGED <<enabled, via, sched, loaded, relays, running, ask>>

\* A discovery leaves no verdict on the device.
SettleJob(s) ==
  /\ Settle(s)
  /\ IF s.job.discover THEN UNCHANGED <<pulse, left>> ELSE Records(s.job.device)
  /\ UNCHANGED <<enabled, via, sched, loaded, relays, running, ask>>

SettleExpired == sched.pc = "settle" /\ \E s \in Expired : SettleJob(s)

\* What is due at this instant, a target seen for the first time after its initial offset.
BeginVisits ==
  /\ sched.pc = "settle" /\ Expired = {}
  /\ \E due \in SUBSET loaded : sched' = [sched EXCEPT !.pc = "visit", !.todo = due]
  /\ UNCHANGED <<hubVars, enabled, via, loaded, relays, running, ask, pulse, left>>

\* delegate: a job of the device that is still under way is not doubled.
Delegate(d) ==
  /\ sched.pc = "visit" /\ d \in sched.todo /\ relays[d] # NoAgent
  /\ IF Busy(relays[d], d, FALSE) THEN UNCHANGED hubVars ELSE Enqueue(relays[d], d, FALSE)
  /\ sched' = [sched EXCEPT !.todo = @ \ {d}]
  /\ UNCHANGED <<enabled, via, loaded, relays, running, ask, pulse, left>>

\* The loop waits here, and with it everything it does, until a permit is free.
AwaitPermit(d) ==
  /\ sched.pc = "visit" /\ d \in sched.todo /\ relays[d] = NoAgent
  /\ sched' = [sched EXCEPT !.pc = "permit", !.device = d, !.todo = @ \ {d}]
  /\ UNCHANGED <<hubVars, enabled, via, loaded, relays, running, ask, pulse, left>>

Taken == {p \in Devices \X (1..Permits) : p[2] <= running[p[1]]}

SpawnProbe ==
  /\ sched.pc = "permit" /\ Cardinality(Taken) < Permits
  /\ running' = [running EXCEPT ![sched.device] = @ + 1]
  /\ sched' = [sched EXCEPT !.pc = "visit", !.device = "none"]
  /\ UNCHANGED <<hubVars, enabled, via, loaded, relays, ask, pulse, left>>

\* The permit goes with the task.
Released(d) == running' = [running EXCEPT ![d] = @ - 1]

\* probe_once ends, at the latest by its timeout: verdict, then the permit.
ProbeEnds(d) ==
  /\ running[d] > 0
  /\ Records(d)
  /\ Released(d)
  /\ UNCHANGED <<hubVars, enabled, via, sched, loaded, relays, ask>>

-----------------------------------------------------------------------------
(* Users, relays, time and faults.                                         *)

\* probe_now or discover: the relay of the device is read ...
AskRelay(d, discover) ==
  /\ ask = NoAsk /\ via[d] # NoAgent
  /\ Event
  /\ ask' = [device |-> d, agent |-> via[d], discover |-> discover]
  /\ UNCHANGED <<hubVars, enabled, via, sched, loaded, relays, running, pulse>>

\* ... then the job is queued, or refused; the user waits for its result or its timeout.
EnqueueAsk ==
  /\ ask # NoAsk
  /\ IF Busy(ask.agent, ask.device, ask.discover) THEN UNCHANGED hubVars
     ELSE Enqueue(ask.agent, ask.device, ask.discover)
  /\ ask' = NoAsk
  /\ UNCHANGED <<enabled, via, sched, loaded, relays, running, pulse, left>>

EditDevice(d) ==
  /\ Event
  /\ \/ \E a \in Routes[d] : via' = [via EXCEPT ![d] = a] /\ UNCHANGED enabled
     \/ enabled' = (enabled \ {d}) \cup ({d} \ enabled) /\ UNCHANGED via
  /\ UNCHANGED <<hubVars, sched, loaded, relays, running, ask, pulse>>

Restart ==
  /\ Event
  /\ HubRestarts
  /\ sched' = Asleep /\ loaded' = {} /\ relays' = [d \in Devices |-> NoAgent]
  /\ running' = [d \in Devices |-> 0] /\ ask' = NoAsk
  /\ UNCHANGED <<enabled, via, pulse>>

Round ==
  \/ ReloadTargets \/ ReloadRelays \/ KeepLists \/ SettleExpired \/ BeginVisits \/ SpawnProbe
  \/ \E d \in Devices : Delegate(d) \/ AwaitPermit(d)

\* A report that was accepted is recorded by its own handler.
SettleReported(i) == \E s \in settling \ Expired : s.job.id = i /\ SettleJob(s)

Relay ==
  /\ (\E a \in Agents : Take(a)) \/ (\E t \in hands : Complete(t))
  /\ UNCHANGED schedVars

TaskEnds(i) == (\E t \in hands : t.id = i /\ LoseReport(t)) /\ UNCHANGED schedVars

Next ==
  \/ Round \/ Relay \/ EnqueueAsk \/ Restart
  \/ \E i \in Ids : SettleReported(i) \/ TaskEnds(i)
  \/ \E d \in Devices : ProbeEnds(d) \/ EditDevice(d)
  \/ \E d \in Devices, discover \in BOOLEAN : AskRelay(d, discover)

Spec == Init /\ [][Next]_vars

Expires(i) ==
  /\ ReloadRelays \/ KeepLists
  /\ \E s \in settling' \ settling : s.job.id = i

FallsDue(d) == BeginVisits /\ d \in sched'.todo

\* The loop runs, its lists age, tasks end, time passes.  No relay ever has to fetch a job,
\* to answer in time, or to be heard.
FairSpec ==
  /\ Spec
  /\ WF_vars(Round) /\ WF_vars(EnqueueAsk) /\ SF_vars(ReloadTargets)
  /\ \A i \in Ids : WF_vars(SettleReported(i)) /\ WF_vars(TaskEnds(i)) /\ SF_vars(Expires(i))
  /\ \A d \in Devices : WF_vars(ProbeEnds(d)) /\ SF_vars(FallsDue(d))

-----------------------------------------------------------------------------
(* Properties.                                                             *)

\* Every variable has its type, and a job of the hub is in one place only, under an id of
\* its own.
TypeOK ==
  /\ life \in Nat /\ mistaken \in BOOLEAN
  /\ queued \subseteq Job /\ in_flight \subseteq Job
  /\ settling \subseteq [job : Job, result : Results]
  /\ \A j, k \in Jobs : j.id = k.id => j = k
  /\ queued \cap in_flight = {}
  /\ hands \subseteq Task
  /\ enabled \subseteq Devices /\ loaded \subseteq Devices
  /\ via \in [Devices -> Agents \cup {NoAgent}] /\ relays \in [Devices -> Agents \cup {NoAgent}]
  /\ sched.pc \in {"relays", "settle", "visit", "permit"}
  /\ sched.todo \subseteq Devices /\ (sched.pc = "permit" => sched.device \in Devices)
  /\ running \in [Devices -> 0..Permits] /\ Cardinality(Taken) <= Permits
  /\ ask = NoAsk \/ ask \in [device : Devices, agent : Agents, discover : BOOLEAN]
  /\ pulse \in [Devices -> BOOLEAN] /\ left \in Nat

\* A job is settled once, by its report or by its deadline, however the two race: one
\* verdict, one answer to whoever waits; and until the server is started again, a report
\* settles the job it is about.
SettledOnce ==
  /\ \A i \in Ids :
       Cardinality({s \in settling : s.job.id = i}) + Cardinality({j \in Jobs : j.id = i}) <= 1
  /\ life = 0 => ~mistaken

\* The hub holds at most one job per device and agent, queued or in flight, even if a user
\* probes the device while the scheduler delegates ("Une sonde encore en vol n'est pas
\* doublee").  It is about the hub's jobs: a task of the relay whose job expired may still
\* be executing while the next job is in flight.
NotDoubled ==
  \A j, k \in Jobs :
    j.agent = k.agent /\ j.device = k.device /\ j.discover = k.discover => j = k

\* Every job is settled in the end, and its device free for the next one, though the relay
\* may never come, and though the loop that notices expiry may be waiting for a permit.
EveryJobSettles ==
  \A i \in Ids : (\E j \in Jobs : j.id = i) ~> (\A j \in Jobs : j.id # i)

\* Every enabled device gets verdict after verdict, with or without a living relay: no
\* device is starved by the permits that others hold.
EveryDeviceHeard ==
  \A d \in Devices : <>[](d \in enabled) => []<>pulse[d] /\ []<>~pulse[d]

\* "un relais ne peut pas ecrire dans les series d'une autre cible": what is recorded for a
\* device was reported for that device.
OwnReport == ~mistaken
=============================================================================
