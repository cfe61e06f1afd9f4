-------------------------- MODULE SchedulerProofs ---------------------------
(***************************************************************************)
(* Proofs about Scheduler and its RelayHub, for every set of devices and   *)
(* relays, every number of permits, jobs and events: the type invariant,   *)
(* one verdict per job, and no probe twice at a time.                      *)
(***************************************************************************)
EXTENDS Scheduler, FiniteSetTheorems, TLAPS

-----------------------------------------------------------------------------
(* The hub alone.                                                          *)

\* The types of the hub.
HubTypes ==
  /\ life \in Nat /\ mistaken \in BOOLEAN
  /\ queued \subseteq Job /\ in_flight \subseteq Job
  /\ settling \subseteq [job : Job, result : Results]
  /\ hands \subseteq Task

\* An id names one job, whether it waits, is in the hands of its relay or is being settled.
OneJobPerId ==
  /\ queued \cap in_flight = {}
  /\ \A j, k \in Jobs : j.id = k.id => j = k
  /\ \A s, t \in settling : s.job.id = t.job.id => s = t
  /\ \A s \in settling : \A j \in Jobs : s.job.id # j.id

\* A task of this life of the server holds its id: no other job has it.
TasksOwnIds ==
  \A t \in hands :
    /\ t.life <= life
    /\ t.life = life => \A j \in Jobs : j.id = t.id => Same(j, t.device, t.discover)

\* A report can only be mistaken when it comes from an earlier life of the server.
MistakenLater == life = 0 => ~mistaken

HubInv == HubTypes /\ OneJobPerId /\ TasksOwnIds /\ MistakenLater /\ NotDoubled

\* A new job has an id that nothing refers to, and is none of the jobs there are.
LEMMA EnqueueKeeps ==
  ASSUME HubInv, NEW a \in Agents, NEW d \in Devices, NEW discover \in BOOLEAN,
         ~Busy(a, d, discover), Enqueue(a, d, discover)
  PROVE  HubInv'
<1>1. PICK id \in Free : queued' = queued \cup {NewJob(id, a, d, discover)}
  BY DEF Enqueue
<1> DEFINE new == NewJob(id, a, d, discover)
<1>2. UNCHANGED <<life, in_flight, settling, hands, mistaken>>
  BY DEF Enqueue
<1>3. new \in Job /\ new.id = id /\ Same(new, d, discover) /\ new.agent = a
  BY DEF NewJob, Job, Same, Free
<1>4. /\ \A j \in Jobs : j.id # id
      /\ \A s \in settling : s.job.id # id
      /\ \A t \in hands : t.life = life => t.id # id
  BY DEF Free, Used
<1>5. Jobs' = Jobs \cup {new}
  BY <1>1, <1>2 DEF Jobs
<1> HIDE DEF new
<1>6. HubTypes'
  BY <1>1, <1>2, <1>3 DEF HubInv, HubTypes, new
<1>7. OneJobPerId'
  BY <1>1, <1>2, <1>3, <1>4, <1>5 DEF HubInv, OneJobPerId, Jobs, new
<1>8. TasksOwnIds'
  BY <1>2, <1>3, <1>4, <1>5 DEF HubInv, TasksOwnIds
<1>9. NotDoubled'
  BY <1>3, <1>5 DEF HubInv, NotDoubled, Jobs, Busy, Same
<1> QED
  BY <1>2, <1>6, <1>7, <1>8, <1>9 DEF HubInv, MistakenLater

\* Handing the queue of an agent over renames no job and loses none.
LEMMA TakeKeeps ==
  ASSUME HubInv, NEW a \in Agents, Take(a)
  PROVE  HubInv'
<1> DEFINE taken == {j \in queued : j.agent = a}
<1>1. /\ queued' = queued \ taken /\ in_flight' = in_flight \cup taken
      /\ UNCHANGED <<life, settling, mistaken>>
  BY DEF Take
<1>2. PICK received \in BOOLEAN :
        hands' = IF received THEN hands \cup {TaskOf(j) : j \in taken} ELSE hands
  BY DEF Take
<1>3. Jobs' = Jobs
  BY <1>1 DEF Jobs
<1>4. \A j \in Job : /\ TaskOf(j) \in Task /\ TaskOf(j).id = j.id /\ TaskOf(j).life = life
                     /\ Same(j, TaskOf(j).device, TaskOf(j).discover)
  BY DEF TaskOf, Task, Job, Same, HubInv, HubTypes
<1>5. HubTypes'
  BY <1>1, <1>2, <1>4 DEF HubInv, HubTypes
<1>6. OneJobPerId'
  BY <1>1, <1>3 DEF HubInv, OneJobPerId
<1>7. TasksOwnIds'
  <2>1. \A t \in hands' : t.life <= life
    BY <1>2, <1>4 DEF HubInv, HubTypes, TasksOwnIds
  <2>2. ASSUME NEW t \in hands', NEW j \in Jobs, t.life = life, j.id = t.id
        PROVE  Same(j, t.device, t.discover)
    BY <1>2, <1>4, <2>2 DEF HubInv, HubTypes, TasksOwnIds, OneJobPerId, Jobs
  <2> QED
    BY <1>1, <1>3, <2>1, <2>2 DEF TasksOwnIds, Same
<1>8. NotDoubled'
  BY <1>3 DEF HubInv, NotDoubled
<1> QED
  BY <1>1, <1>5, <1>6, <1>7, <1>8 DEF HubInv, MistakenLater

\* What leaves the hub for settling leaves it for good: jobs disappear from the queue and
\* from the hands of the relays, under ids that were theirs alone.
LEMMA DepartureKeeps ==
  ASSUME HubInv, NEW gone, gone \subseteq Jobs, NEW result \in Results,
         queued' = queued \ gone, in_flight' = in_flight \ gone,
         settling' = settling \cup {[job |-> j, result |-> result] : j \in gone},
         hands' \subseteq hands, life' = life,
         mistaken' \in BOOLEAN, life = 0 => ~mistaken'
  PROVE  HubInv'
<1>1. Jobs' = Jobs \ gone
  BY DEF Jobs
<1>2. HubTypes'
  BY DEF HubInv, HubTypes, Jobs
<1>3. OneJobPerId'
  BY <1>1 DEF HubInv, OneJobPerId, Jobs
<1>4. TasksOwnIds'
  BY <1>1 DEF HubInv, TasksOwnIds
<1>5. NotDoubled'
  BY <1>1 DEF HubInv, NotDoubled
<1> QED
  BY <1>2, <1>3, <1>4, <1>5 DEF HubInv, MistakenLater

\* A report of this life settles the job it is about, or none.
LEMMA CompleteKeeps ==
  ASSUME HubInv, NEW t \in hands, Complete(t)
  PROVE  HubInv'
<1> DEFINE gone == Reported(t)
<1>1. gone \subseteq in_flight /\ gone \subseteq Jobs
  BY DEF Reported, Jobs
<1>2. queued' = queued \ gone
  BY <1>1 DEF Complete, HubInv, OneJobPerId
<1>3. /\ in_flight' = in_flight \ gone
      /\ settling' = settling \cup {[job |-> j, result |-> "done"] : j \in gone}
      /\ hands' \subseteq hands /\ life' = life
  BY DEF Complete, Completed
<1>4. mistaken' \in BOOLEAN /\ (life = 0 => ~mistaken')
  <2>1. mistaken' = (mistaken \/ \E j \in gone : ~Same(j, t.device, t.discover))
    BY DEF Complete
  <2>2. mistaken' \in BOOLEAN
    BY <2>1, Zenon
  <2>3. life = 0 => \A j \in gone : Same(j, t.device, t.discover)
    BY <1>1 DEF HubInv, HubTypes, TasksOwnIds, Task, Reported
  <2> QED
    BY <2>1, <2>2, <2>3 DEF HubInv, MistakenLater
<1> HIDE DEF gone
<1> QED
  BY <1>1, <1>2, <1>3, <1>4, DepartureKeeps DEF Results

LEMMA ExpireKeeps ==
  ASSUME HubInv, NEW late \in SUBSET Expirable, Expire(late)
  PROVE  HubInv'
  BY DepartureKeeps DEF Expire, Expirable, Jobs, Results, HubInv, HubTypes, MistakenLater

LEMMA SettleKeeps ==
  ASSUME HubInv, NEW s, Settle(s)
  PROVE  HubInv'
<1>1. Jobs' = Jobs
  BY DEF Settle, Jobs
<1> QED
  BY <1>1 DEF Settle, HubInv, HubTypes, OneJobPerId, TasksOwnIds, MistakenLater, NotDoubled

LEMMA LoseReportKeeps ==
  ASSUME HubInv, NEW t, LoseReport(t)
  PROVE  HubInv'
<1>1. Jobs' = Jobs
  BY DEF LoseReport, Jobs
<1> QED
  BY <1>1 DEF LoseReport, HubInv, HubTypes, OneJobPerId, TasksOwnIds, MistakenLater, NotDoubled

\* A restart forgets every job; the tasks that go on belong to an earlier life.
LEMMA HubRestartKeeps ==
  ASSUME HubInv, HubRestarts
  PROVE  HubInv'
<1>1. Jobs' = {}
  BY DEF HubRestarts, Jobs
<1>2. \A t \in hands : t.life \in Nat
  BY DEF HubInv, HubTypes, Task
<1> QED
  BY <1>1, <1>2 DEF HubRestarts, HubInv, HubTypes, OneJobPerId, TasksOwnIds, MistakenLater,
                    NotDoubled

LEMMA HubStutters ==
  ASSUME HubInv, UNCHANGED hubVars
  PROVE  HubInv'
<1>1. Jobs' = Jobs
  BY DEF hubVars, Jobs
<1> QED
  BY <1>1 DEF hubVars, HubInv, HubTypes, OneJobPerId, TasksOwnIds, MistakenLater, NotDoubled

-----------------------------------------------------------------------------
(* The scheduler.                                                          *)

\* What the round of the scheduler may be.
RoundState ==
  [ pc : {"relays", "settle", "visit", "permit"}, todo : SUBSET Devices,
    device : Devices \cup {"none"} ]

\* The types of the scheduler's own variables; a permit is held by each running probe.
SchedTypes ==
  /\ enabled \subseteq Devices /\ loaded \subseteq Devices
  /\ via \in [Devices -> Agents \cup {NoAgent}]
  /\ relays \in [Devices -> Agents \cup {NoAgent}]
  /\ sched \in RoundState
  /\ sched.pc = "permit" => sched.device \in Devices
  /\ running \in [Devices -> 0..Permits]
  /\ ask = NoAsk \/ ask \in [device : Devices, agent : Agents, discover : BOOLEAN]
  /\ pulse \in [Devices -> BOOLEAN] /\ left \in Nat

PermitsHold == IsFiniteSet(Taken) /\ Cardinality(Taken) <= Permits

IInv == HubInv /\ SchedTypes /\ PermitsHold

LEMMA InitHolds == Init => IInv
<1> SUFFICES ASSUME Init PROVE IInv
  OBVIOUS
<1>1. HubInv
  BY DEF Init, HubInit, HubInv, HubTypes, OneJobPerId, TasksOwnIds, MistakenLater, NotDoubled,
         Jobs
<1>2. SchedTypes
  BY SchedulerAssumption DEF Init, SchedTypes, RoundState, Asleep
<1>3. Taken = {}
  BY DEF Init, Taken
<1> QED
  BY <1>1, <1>2, <1>3, FS_EmptySet, SchedulerAssumption DEF IInv, PermitsHold

\* The probes of one device are as many permits as the counter of the device says.
LEMMA ProbesOfOne ==
  ASSUME SchedTypes, PermitsHold, NEW d \in Devices
  PROVE  running[d] <= Cardinality(Taken)
<1> DEFINE own == {d} \X (1..running[d])
<1>1. running[d] \in Nat /\ running[d] <= Permits
  BY SchedulerAssumption DEF SchedTypes
<1>2. own \subseteq Taken
  BY <1>1, SchedulerAssumption DEF Taken
<1>3. Cardinality(own) = running[d]
  <2>1. IsFiniteSet({d}) /\ Cardinality({d}) = 1
    BY FS_Singleton
  <2>2. IsFiniteSet(1..running[d]) /\ Cardinality(1..running[d]) = running[d]
    BY <1>1, FS_Interval
  <2>3. Cardinality(own) = Cardinality({d}) * Cardinality(1..running[d])
    BY <2>1, <2>2, FS_Product, Zenon
  <2> QED
    BY <1>1, <2>1, <2>2, <2>3
<1>4. Cardinality(own) <= Cardinality(Taken)
  BY <1>2, FS_Subset DEF PermitsHold
<1> QED
  BY <1>3, <1>4

\* A probe of the server takes a permit that was free ...
LEMMA SpawnTakesOne ==
  ASSUME SchedTypes, PermitsHold, SpawnProbe
  PROVE  SchedTypes' /\ PermitsHold'
<1> DEFINE d == sched.device
           n == running[d] + 1
<1>1. d \in Devices /\ Cardinality(Taken) < Permits
  BY DEF SpawnProbe, SchedTypes
<1>2. /\ running' = [running EXCEPT ![d] = n]
      /\ sched' = [sched EXCEPT !.pc = "visit", !.device = "none"]
      /\ UNCHANGED <<enabled, via, loaded, relays, ask, pulse, left>>
  BY DEF SpawnProbe
<1>3. Cardinality(Taken) \in Nat
  BY FS_CardinalityType DEF PermitsHold
<1>4. n \in 1..Permits
  BY <1>1, <1>3, ProbesOfOne, SchedulerAssumption DEF SchedTypes
<1>5. Taken' = Taken \cup {<<d, n>>}
  BY <1>1, <1>2, <1>4, SchedulerAssumption DEF Taken, SchedTypes
<1>6. IsFiniteSet(Taken') /\ Cardinality(Taken') <= Cardinality(Taken) + 1
  BY <1>3, <1>5, FS_AddElement DEF PermitsHold
<1>7. PermitsHold'
  BY <1>1, <1>3, <1>6, FS_CardinalityType, SchedulerAssumption DEF PermitsHold
<1>8. sched' \in RoundState /\ sched'.pc = "visit"
  <2>1. sched \in RoundState
    BY DEF SchedTypes
  <2> QED
    BY <1>2, <2>1 DEF RoundState
<1>9. running' \in [Devices -> 0..Permits]
  BY <1>1, <1>2, <1>4 DEF SchedTypes
<1>10. SchedTypes'
  BY <1>2, <1>8, <1>9 DEF SchedTypes
<1> QED
  BY <1>7, <1>10

\* ... and gives it back.
LEMMA FewerProbes ==
  ASSUME SchedTypes, PermitsHold, running' \in [Devices -> 0..Permits],
         \A d \in Devices : running'[d] <= running[d]
  PROVE  PermitsHold'
<1>1. Taken' \subseteq Taken
  BY SchedulerAssumption DEF Taken, SchedTypes
<1>2. IsFiniteSet(Taken') /\ Cardinality(Taken') <= Cardinality(Taken)
  BY <1>1, FS_Subset DEF PermitsHold
<1> QED
  BY <1>2, FS_CardinalityType, SchedulerAssumption DEF PermitsHold

-----------------------------------------------------------------------------
(* The steps.                                                              *)

\* Steps of the scheduler and its users that leave the hub and the permits alone: the
\* permits are told by the running probes.
LEMMA PermitsStay ==
  ASSUME PermitsHold, UNCHANGED running
  PROVE  PermitsHold'
  BY DEF PermitsHold, Taken

\* A verdict changes only what its observer sees, or costs an event.
LEMMA RecordsTypes ==
  ASSUME SchedTypes, NEW d \in Devices, Records(d)
  PROVE  pulse' \in [Devices -> BOOLEAN] /\ left' \in Nat
<1>1. pulse \in [Devices -> BOOLEAN] /\ left \in Nat
  BY DEF SchedTypes
<1>2. CASE pulse' = [pulse EXCEPT ![d] = ~@] /\ UNCHANGED left
  <2>1. (~pulse[d]) \in BOOLEAN
    BY Zenon
  <2> QED
    BY <1>1, <1>2, <2>1
<1>3. CASE Event /\ UNCHANGED pulse
  BY <1>1, <1>3 DEF Event
<1> QED
  BY <1>2, <1>3 DEF Records

LEMMA SettleJobKeeps ==
  ASSUME IInv, NEW s \in settling, SettleJob(s)
  PROVE  IInv'
<1>1. HubInv'
  BY SettleKeeps DEF IInv, SettleJob
<1>2. PermitsHold'
  BY PermitsStay DEF IInv, SettleJob
<1>3. s.job.device \in Devices
  BY DEF IInv, HubInv, HubTypes, Job
<1>4. pulse' \in [Devices -> BOOLEAN] /\ left' \in Nat
  BY <1>3, RecordsTypes DEF IInv, SettleJob, SchedTypes
<1>5. SchedTypes'
  BY <1>4 DEF IInv, SettleJob, SchedTypes
<1> QED
  BY <1>1, <1>2, <1>5 DEF IInv

\* What expires is out of the hub; the round goes on to settle it.
LEMMA ExpireJobsKeeps ==
  ASSUME HubInv, ExpireJobs
  PROVE  HubInv' /\ sched' \in RoundState /\ sched'.pc = "settle"
<1>1. HubInv'
  BY ExpireKeeps DEF ExpireJobs
<1>2. sched' \in RoundState /\ sched'.pc = "settle"
  BY DEF ExpireJobs, Asleep, RoundState
<1> QED
  BY <1>1, <1>2

LEMMA RoundKeeps ==
  ASSUME IInv, Round
  PROVE  IInv'
<1> USE DEF IInv
<1>0. sched \in RoundState /\ left \in Nat
  BY DEF SchedTypes
<1>1. CASE ReloadTargets
  <2>1. HubInv' /\ PermitsHold'
    BY <1>1, HubStutters, PermitsStay DEF ReloadTargets
  <2>2. sched' \in RoundState /\ sched'.pc = "relays"
    BY <1>0, <1>1 DEF ReloadTargets, RoundState
  <2>3. left' \in Nat /\ loaded' \subseteq Devices
    BY <1>0, <1>1 DEF ReloadTargets, Event, SchedTypes
  <2> QED
    BY <1>1, <2>1, <2>2, <2>3 DEF ReloadTargets, SchedTypes
<1>2. CASE ReloadRelays
  <2>1. HubInv' /\ sched' \in RoundState /\ sched'.pc = "settle" /\ PermitsHold'
    BY <1>2, ExpireJobsKeeps, PermitsStay DEF ReloadRelays
  <2>2. left' \in Nat /\ relays' \in [Devices -> Agents \cup {NoAgent}]
    BY <1>0, <1>2 DEF ReloadRelays, Event, SchedTypes
  <2> QED
    BY <1>2, <2>1, <2>2 DEF ReloadRelays, SchedTypes
<1>3. CASE KeepLists
  <2>1. HubInv' /\ sched' \in RoundState /\ sched'.pc = "settle" /\ PermitsHold'
    BY <1>3, ExpireJobsKeeps, PermitsStay DEF KeepLists
  <2> QED
    BY <1>3, <2>1 DEF KeepLists, SchedTypes
<1>4. CASE SettleExpired
  BY <1>4, SettleJobKeeps DEF SettleExpired, Expired
<1>5. CASE BeginVisits
  <2>1. HubInv' /\ PermitsHold'
    BY <1>5, HubStutters, PermitsStay DEF BeginVisits
  <2>2. PICK due \in SUBSET loaded : sched' = [sched EXCEPT !.pc = "visit", !.todo = due]
    BY <1>5 DEF BeginVisits
  <2>3. sched' \in RoundState /\ sched'.pc = "visit"
    BY <1>0, <2>2 DEF RoundState, SchedTypes
  <2> QED
    BY <1>5, <2>1, <2>3 DEF BeginVisits, SchedTypes
<1>6. CASE SpawnProbe
  BY <1>6, HubStutters, SpawnTakesOne DEF SpawnProbe
<1>7. ASSUME NEW d \in Devices, Delegate(d)
      PROVE  IInv'
  <2>1. relays[d] \in Agents
    BY <1>7 DEF Delegate, SchedTypes
  <2>2. HubInv'
    BY <1>7, <2>1, HubStutters, EnqueueKeeps DEF Delegate
  <2>3. sched' \in RoundState /\ sched'.pc = sched.pc /\ sched'.device = sched.device
    BY <1>0, <1>7 DEF Delegate, RoundState
  <2>4. PermitsHold'
    BY <1>7, PermitsStay DEF Delegate
  <2> QED
    BY <1>7, <2>2, <2>3, <2>4 DEF Delegate, SchedTypes
<1>8. ASSUME NEW d \in Devices, AwaitPermit(d)
      PROVE  IInv'
  <2>1. HubInv' /\ PermitsHold'
    BY <1>8, HubStutters, PermitsStay DEF AwaitPermit
  <2>2. sched' = [sched EXCEPT !.pc = "permit", !.device = d, !.todo = @ \ {d}]
    BY <1>8 DEF AwaitPermit
  <2>3. sched' \in RoundState /\ sched'.device = d
    BY <1>0, <2>2 DEF RoundState
  <2> QED
    BY <1>8, <2>1, <2>3 DEF AwaitPermit, SchedTypes
<1> QED
  BY <1>1, <1>2, <1>3, <1>4, <1>5, <1>6, <1>7, <1>8 DEF Round

LEMMA RelayKeeps ==
  ASSUME IInv, UNCHANGED schedVars,
         \/ \E a \in Agents : Take(a)
         \/ \E t \in hands : Complete(t) \/ LoseReport(t)
  PROVE  IInv'
<1>1. HubInv'
  BY TakeKeeps, CompleteKeeps, LoseReportKeeps DEF IInv
<1>2. PermitsHold' /\ SchedTypes'
  BY PermitsStay DEF IInv, schedVars, SchedTypes
<1> QED
  BY <1>1, <1>2 DEF IInv

LEMMA UsersKeep ==
  ASSUME IInv, NEW d \in Devices, NEW discover \in BOOLEAN,
         ProbeEnds(d) \/ EditDevice(d) \/ AskRelay(d, discover) \/ EnqueueAsk
  PROVE  IInv'
<1> USE DEF IInv
<1>1. CASE ProbeEnds(d)
  <2>1. HubInv'
    BY <1>1, HubStutters DEF ProbeEnds
  <2>2. pulse' \in [Devices -> BOOLEAN] /\ left' \in Nat
    BY <1>1, RecordsTypes DEF ProbeEnds
  <2>3. /\ running' \in [Devices -> 0..Permits]
        /\ \A e \in Devices : running'[e] <= running[e]
    BY <1>1, SchedulerAssumption DEF ProbeEnds, Released, SchedTypes
  <2>4. PermitsHold'
    BY <2>3, FewerProbes
  <2> QED
    BY <1>1, <2>1, <2>2, <2>3, <2>4 DEF ProbeEnds, SchedTypes
<1>2. CASE EditDevice(d)
  <2>1. HubInv' /\ PermitsHold'
    BY <1>2, HubStutters, PermitsStay DEF EditDevice
  <2>2. Routes[d] \subseteq Agents \cup {NoAgent}
    BY SchedulerAssumption
  <2>3. via' \in [Devices -> Agents \cup {NoAgent}] /\ enabled' \subseteq Devices
    BY <1>2, <2>2 DEF EditDevice, SchedTypes
  <2> QED
    BY <1>2, <2>1, <2>3 DEF EditDevice, Event, SchedTypes
<1>3. CASE AskRelay(d, discover)
  <2>1. HubInv' /\ PermitsHold'
    BY <1>3, HubStutters, PermitsStay DEF AskRelay
  <2> QED
    BY <1>3, <2>1 DEF AskRelay, Event, SchedTypes
<1>4. CASE EnqueueAsk
  <2>1. ask \in [device : Devices, agent : Agents, discover : BOOLEAN]
    BY <1>4 DEF EnqueueAsk, SchedTypes
  <2>2. HubInv'
    BY <1>4, <2>1, HubStutters, EnqueueKeeps DEF EnqueueAsk
  <2>3. PermitsHold'
    BY <1>4, PermitsStay DEF EnqueueAsk
  <2> QED
    BY <1>4, <2>2, <2>3 DEF EnqueueAsk, SchedTypes
<1> QED
  BY <1>1, <1>2, <1>3, <1>4

LEMMA RestartKeeps ==
  ASSUME IInv, Restart
  PROVE  IInv'
<1>1. HubInv'
  BY HubRestartKeeps DEF IInv, Restart
<1>2. SchedTypes'
  BY SchedulerAssumption DEF IInv, Restart, Event, SchedTypes, RoundState, Asleep
<1>3. PermitsHold'
  BY <1>2, FewerProbes, SchedulerAssumption DEF IInv, Restart, SchedTypes
<1> QED
  BY <1>1, <1>2, <1>3 DEF IInv

LEMMA StepKeeps == IInv /\ [Next]_vars => IInv'
<1> SUFFICES ASSUME IInv, [Next]_vars PROVE IInv'
  OBVIOUS
<1>1. CASE UNCHANGED vars
  BY <1>1, HubStutters, PermitsStay DEF IInv, vars, schedVars, SchedTypes
<1>2. CASE Round
  BY <1>2, RoundKeeps
<1>3. CASE Relay \/ \E i \in Ids : TaskEnds(i)
  BY <1>3, RelayKeeps DEF Relay, TaskEnds
<1>4. CASE \E i \in Ids : SettleReported(i)
  BY <1>4, SettleJobKeeps DEF SettleReported
<1>5. CASE \E d \in Devices : ProbeEnds(d) \/ EditDevice(d)
  BY <1>5, UsersKeep
<1>6. CASE \E d \in Devices, discover \in BOOLEAN : AskRelay(d, discover)
  BY <1>6, UsersKeep
<1>7. CASE EnqueueAsk
  <2>1. ask.device \in Devices
    BY <1>7 DEF EnqueueAsk, IInv, SchedTypes
  <2> QED
    BY <1>7, <2>1, UsersKeep
<1>8. CASE Restart
  BY <1>8, RestartKeeps
<1> QED
  BY <1>1, <1>2, <1>3, <1>4, <1>5, <1>6, <1>7, <1>8 DEF Next

LEMMA AlwaysIInv == Spec => []IInv
  BY InitHolds, StepKeeps, PTL DEF Spec

-----------------------------------------------------------------------------
(* The theorems.                                                           *)

\* Every variable of the scheduler and of its hub keeps its type; the hub keeps its jobs in
\* one place, under ids of their own; the probes of the server never hold more permits than
\* there are (scheduler.rs, relay.rs).
THEOREM TypeCorrect == Spec => []TypeOK
<1>1. IInv => TypeOK
  BY DEF IInv, HubInv, HubTypes, OneJobPerId, SchedTypes, RoundState, PermitsHold, TypeOK
<1> QED
  BY <1>1, AlwaysIInv, PTL

\* A set whose members are all equal has at most one.
LEMMA AtMostOne ==
  ASSUME NEW S, \A x, y \in S : x = y
  PROVE  (S = {} /\ Cardinality(S) = 0) \/ (S # {} /\ Cardinality(S) = 1)
<1>1. CASE S = {}
  BY <1>1, FS_EmptySet
<1>2. CASE S # {}
  <2>1. PICK x : S = {x}
    BY <1>2
  <2> QED
    BY <1>2, <2>1, FS_Singleton
<1> QED
  BY <1>1, <1>2

\* However the report of a relay, the deadline of the job and the requests of users race, a
\* job is settled once: an id is that of one job, which waits, is in the hands of its relay
\* or is being settled.  Until the server is started again, a report settles the job that
\* it is about (relay.rs complete, expire).
THEOREM JobsSettleOnce == Spec => []SettledOnce
<1>1. ASSUME IInv PROVE SettledOnce
  <2>1. ASSUME NEW i \in Ids
        PROVE  Cardinality({s \in settling : s.job.id = i})
                 + Cardinality({j \in Jobs : j.id = i}) <= 1
    <3> DEFINE S == {s \in settling : s.job.id = i}
               J == {j \in Jobs : j.id = i}
    <3>1. (S = {} /\ Cardinality(S) = 0) \/ (S # {} /\ Cardinality(S) = 1)
      <4>1. \A x, y \in S : x = y
        BY <1>1 DEF IInv, HubInv, OneJobPerId
      <4> QED
        BY <4>1, AtMostOne, Zenon
    <3>2. (J = {} /\ Cardinality(J) = 0) \/ (J # {} /\ Cardinality(J) = 1)
      <4>1. \A x, y \in J : x = y
        BY <1>1 DEF IInv, HubInv, OneJobPerId
      <4> QED
        BY <4>1, AtMostOne, Zenon
    <3>3. S = {} \/ J = {}
      BY <1>1 DEF IInv, HubInv, OneJobPerId
    <3> HIDE DEF S, J
    <3>4. Cardinality(S) + Cardinality(J) <= 1
      BY <3>1, <3>2, <3>3
    <3> QED
      BY <3>4 DEF S, J
  <2> QED
    BY <1>1, <2>1 DEF SettledOnce, IInv, HubInv, MistakenLater
<1> QED
  BY <1>1, AlwaysIInv, PTL

\* A device is never probed twice at a time through one agent, though the scheduler and the
\* users queue jobs independently (relay.rs busy, enqueue).
THEOREM ProbesNotDoubled == Spec => []NotDoubled
<1>1. IInv => NotDoubled
  BY DEF IInv, HubInv
<1> QED
  BY <1>1, AlwaysIInv, PTL
=============================================================================
