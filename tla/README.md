# A TLA+ verification of DumbMonit

DumbMonit is a self-hosted monitoring server with optional agents. This directory
models the part of it that has to be right when nobody is looking: who is told of
which alert, which container action runs on a machine, what becomes of a measurement
on its way into the time series, which device is probed and by whom, and when silences and
reports fall due. Comments of the code are
quoted in their language (French); documents in English.

## 1. The system

A server process (`crates/server`) keeps its state in one SQLite database, asks devices
for measurements (`crates/collectors`, `crates/pack`), stores them in VictoriaMetrics,
evaluates alert rules every thirty seconds and notifies channels. An agent
(`crates/agent`) pushes the measurements of its machine, polls for commands and may
probe devices of its network for the server. `crates/proto` holds the messages.

| Component | State | Operations | What is hard | What makes it correct |
|---|---|---|---|---|
| Alert state machine (`alerting/machine.rs`, `group.rs`) | one row per alert: phase, dates, ack, notification count | `advance`, `decide`, `effective_severity` | dates and counts must agree with the phase over long sequences | every announcement once, reminders on time, nothing said while muted |
| Evaluation cycle (`alerting/engine.rs`, `cycle.rs`) | locals of one cycle; tables `alert_state`, `notify_*` | load, evaluate, save, touch, plan, apply, send, record, mark, purge | ten separate transactions and network calls, users writing the same rows in between, errors and crashes | no user decision is undone, no firing row lost, channels hear the truth |
| Notification policy (`alerting/notify_policy.rs`, `notify/policy_store.rs`) | queue, ledger of sent lines, ledger of messages, flap holds | `plan` (intake, flap, route, handoff, flush), `apply_plan`, `record_sent`, `requeue`, `purge` | lines that wait meet resolutions, acks, holds, caps and failed sends | no unfounded all-clear, nothing waits for ever, the cap holds |
| Alert tables (`db/alerts.rs`) | SQLite | `save_states`, `touch_states`, `mark_notified`, `purge_states`, `set_ack`, `forget_target` | writes of values read earlier | acks survive, paused devices stay quiet |
| Dependency suppression (`alerting/suppress.rs`) | topology of a cycle | `Topology::new`, `first_ancestor_down`, `suppression_for` | cycles, two kinds of links, depth bound | the nearest down ancestor and nobody else is blamed, somebody speaks |
| Device API (`api/targets.rs`) | table `targets` | create, update, delete, pause, resume | checks see one device at a time | topologies the search can handle |
| Command queue (`collectors/agent/commands.rs`, `api/agent_commands.rs`) | table `agent_commands` | enqueue, cancel, poll, report, expire | read and write are separate statements; reports get lost | at most one execution, every command ends |
| Policy scheduler (`collectors/agent/policy.rs`) | decisions of one tick | decide, enqueue | facts are read once per tick | cooldowns hold |
| Agent command runner (`agent/src/commands.rs`) | inbox, running command | poll, skip, run, report, finish | death between announcing and acting | never twice |
| Agent push (`agent/src/run.rs`, `buffer.rs`, `binding.rs`, `client.rs`) | bounded buffer, batch in flight, binding secret in memory and on disk | collect, flush, restore, adopt, forget | lost answers, overflow, a secret that travels once, restarts | nothing vanishes untold, order is kept, no lock-out |
| Enrolment and ingestion (`collectors/agent/receive.rs`, `store.rs`) | tables `agent_tokens`, `agent_hosts`, `targets` | register, claim, bind, ingest, revoke, allow re-enrolment | ten statements without a transaction, two requests for one machine | one installation speaks for a machine |
| Sample writer (`tsdb/writer.rs`) | channel and buffer | send, receive, tick, flush | both are bounded and nobody may wait | memory stays bounded, what is dropped is known |
| Relay hub (`collectors/relay.rs`, `api/relay.rs`, `agent/src/relay.rs`) | queued and in-flight jobs under a mutex | enqueue, take, complete, expire, settle | late reports against expiry, a relay that never comes, a restart | one verdict per job, every job ends |
| Probe scheduler (`scheduler.rs`) | due times, two cached lists, permits | reload, expire, visit, delegate, spawn | it waits for a permit inside its loop | every enabled device is heard of again and again |
| Silences (`alerting/silence.rs`) | none (calendar arithmetic) | `covers`, `window_containing` | midnight, several days, changes of the clocks | a window covers its duration and nothing else |
| Scheduled reports (`reports/*`, `api/reports.rs`) | table `report_schedules` | find due, claim, deliver, update, delete | two servers, edits between read and claim, changes of the clocks | each slot once, none passed over |

Components interact through the database and through calls: the engine reads what the
API and the prober write (`targets`, acks, silences, probe verdicts) and both write
`alert_state` and `notify_queue`; users, the policy scheduler, the agent's poll and the
agent's reports all write `agent_commands`; pushed batches, administrators and deletions
write `agent_tokens`, `agent_hosts` and `targets`. Measurements of agents, of relays and of
the scheduler's own probes meet in the channel of the sample writer. Nothing but SQLite's own statement and
transaction atomicity protects those tables, so the models take one statement or one
transaction as one step. `PROJECT.json` lists every component, also those left out, and
under `hazards` each place where this goes wrong easily.

## 2. Modules

| Module | Models |
|---|---|
| `AlertMachine` | the row of one alert, `advance`, `decide`, escalation of severity, the ack merge of `save_states` |
| `NotifyPolicy` | `notify_policy::plan` as a function of ledger, items, enabled channels and time |
| `AlertEngine` | the evaluation cycle, the API handlers on its tables, faults and the environment; EXTENDS the two above |
| `Announcement` | abstract specification: what a channel heard follows the truth |
| `Suppress` | the device table, the topology and the breadth-first search, step by step |
| `CommandQueue` | commands of one machine: users, scheduler, server handlers, agent |
| `SampleWriter` | the sink, the bounded channel and the write task |
| `Enrolment` | tokens, hosts and their secrets, the handler of a batch statement by statement, administrators |
| `AgentPush` | the agent's buffer and loop, lost answers, restarts; composes the two above |
| `RelayHub` | the jobs of the hub and the tasks of the relays |
| `Scheduler` | the probing loop, its permits and lists, users; composes `RelayHub` |
| `WallClock` | instants, dates and wall clocks of a zone with summer time |
| `Silences` | maintenance windows as operators, and a reference definition of them |
| `Reports` | one report schedule, the servers that work on it, the handlers that edit it |
| `Calendar` | schedules and windows under one clock; composes the two above |
| `AlertEngineProofs`, `SuppressProofs`, `CommandQueueProofs`, `SchedulerProofs`, `CalendarProofs` | theorems about the module of that name |
| `DeliveryProofs` | theorems about what `AlertEngine` sends and counts; EXTENDS `AlertEngineProofs` |
| `AgentPushProofs` | theorems about samples and queues of `AgentPush` |
| `BindingProofs` | theorems about secrets and speakers of `AgentPush`; EXTENDS `AgentPushProofs` |
| `MCAlertEngine`, `MCSuppress`, `MCCommandQueue`, `MCAgentPush`, `MCScheduler`, `MCCalendar` | constants of the instances |

### AlertEngine

Variables are the tables (`row`, `queue`, `log`, `flap`, `messages`, and of `targets` the
set `enabled`) and the locals of the cycle in flight (`pc`, `now`, `rules`, `seen`,
`prev`, `items`, `carried`, `plan`, `sending`). Three further variables are
observers or bookkeeping: `told` (what each channel last heard), `knows` (what the
cycle had read when it planned) and `left` (budgets of bounded events); no action that
models code has a guard on `told` or `knows`.

`BeginCycle`, `LoadTargets`, `LoadStates`, `EvaluateAndSave`, `TouchStates`,
`PlanNotifications`, `ApplyPlan`, `Deliver` or `DeliverFails`, `RecordSent` or
`Requeue`, `MarkNotified`, `PurgeStates`, `Maintenance` follow `evaluate_once` and `run`.
`plan_cycle` is a pure function of what was loaded, hence part of one step with
`save_states`: nobody else reads its result in between. A query answers `true`,
`false`, `learning`, `gone` (the series vanished) or `failed`; the instances allow any
answer that agrees with the truth, and a failed query always. Faults: a database error
at every `?` of `evaluate_once`, a record or requeue that fails and is only logged,
maintenance that fails half way, a crash anywhere. Users ack, unack, pause, delete and resume at the
points of the cycle a configuration names.

The ancestors of a device are a constant here: which topologies exist, and whether the
search finds the right ancestor, is the question of `Suppress`. What ties the two is
`Suppressed`, which uses exactly what `Suppress` proves of `first_ancestor_down` (some
other device above is down), beside the code's other case: the device itself is down and
the alert is not the one that says so.

Left out: texts, values, scores, history rows, delivery reports, baselines, the order of
lines in a message, changes of settings while a cycle runs.

### Suppress

`known`, `kind`, `parent_id`, `via_agent` are the device table. `CreateTarget`,
`UpdateTarget`, `DeleteTarget` have the checks of the handlers (`Valid`, `ParentExists`,
`RelayIsAgent`) and nothing more, so every stored topology is reached by a sequence of
accepted requests. `BeginCycle` picks the devices that are down; then each device is
searched with the loop variables of the code (`generation`, `above`, `visited`,
`depth`), one iteration per step.

### CommandQueue

`cmds` is the table in order of ids. Every handler whose check and write are two
statements is two actions (`RequestCommand`/`InsertCommand`,
`RequestCancel`/`CancelCommand`, `PolicyCheck`/`PolicyInsert`,
`ReadReport`/`WriteReport`). The agent receives a list, skips what is too old, announces
one command, acts, and reports; each report is a request that may be answered, lost, or
served after the agent has given up or died. `started` and `twice` observe which commands the
agent has begun to act on, and which of them again. A behaviour begins
with one of the `Budgets`, which say how many commands, cancellations, deaths of the agent and
lost requests it may contain.

### AgentPush, Enrolment, SampleWriter

A batch is a record in `requests` that the server moves from stage to stage, one SQL statement
at a time, as `ingest` and `register` do: `FindActiveToken`, `FindHost`, `CheckEnrolment`,
`LookUpTarget`, `CreateTarget`, `InsertHost`, `ConsumeEnrolment` or `BindHost`, `Deliver`,
`RecordBatch`. Two requests interleave at each stage; a handler may fail at each; an agent
that gave up or died leaves its request behind, and the server may work on it all the same.
Statements that only refresh dates and descriptions are folded into the step they follow.
The agent is a record (`buffer`, `batch`, `secret`, `file`): its loop is sequential, so it
either collects or waits for an answer. `Deliver` hands the samples to the writer in the same
step, as `sink.send` does, which never waits. Samples are numbered pairs; filtering of unusable
ones is a choice. `lost`, `refused` and `evicted` remember where a sample was given up;
`upset` and `reopened` remember which machines something or somebody interfered with; no action
that models code depends on them.

Two installations may present one identity key (`KeyOf`), as clones of a machine do.

### RelayHub, Scheduler

Every operation of the hub is one step because the code holds one mutex across it; `settle`,
outside of it, is a step of its own. A relay's `Take` may lose its answer, a task may lose its
report. Instants are not counted: at each round any set of jobs may have passed its deadline
and any set of loaded devices may be due; fairness says that time passes. A job id is the
smallest that nothing in the present life of the server refers to, which keeps the state space
finite and cannot be told from a counter, except after `HubRestarts`, where the counter of the
code forgets as well.

A round is `ReloadTargets`, `ReloadRelays` (or `KeepLists`), `SettleExpired`, `BeginVisits`, and
per due device `Delegate` or `AwaitPermit` and `SpawnProbe`: the loop stands still while it
waits for a permit. `pulse` toggles with each verdict recorded for a device.

### WallClock, Silences, Reports, Calendar

Time is counted in ticks of UTC; a zone has a base offset and an interval of summer time, so an
hour of the wall clock may be missing or come twice, as `from_local_datetime` reports. Months
have equal length. `Silences` translates `duration`, `selects`, `instant_at` and
`window_containing`; beside it stands a reference that enumerates occurrences by counting
weekdays and days, and that opens a window at the first instant at which the wall clock shows its
time or a later one (`Opening`), as the documents have it. `Disputed` describes exactly the instants
on which code and documents differ (section 6). `Reports` takes one schedule through passes of several processes
(`BeginPass`, `Claim`, `Deliver`, `Crash`), the two statements of an update (`ReadRow`,
`UpdateRow`) and the deletion. `Calendar` puts a set of `Windows` beside it: a window has no state,
so whether it is open is asked at every instant the clock of `Reports` reaches.

## 3. Runs

| Run | Question | Bounds |
|---|---|---|
| `restarts` | Does any interleaving of users, errors and one crash corrupt rows, undo an ack, drop a firing alert or send a false all-clear? | 1 alert, 1 channel, 2 acks or unacks and 1 pause at any point, 1 fault, 1 failed send, all five answers, rules and channels switched on and off, silence, prober verdict; clock to 4, changes and requests to 2 |
| `escalation` | Are announcements, escalations, the hand-off and reminders each sent once and on time, and silenced by acks, pauses and flap holds? | 1 alert, 2 channels (one on call, picky, with quiet hours), 1 ack, 2 pauses or resumes, 1 failed send; clock to 8 |
| `topology` | Does suppression only postpone? Does the cap hold, and the queue drain under it? | 2 devices, one behind the other, 1 message per hour (2 ticks); clock to 10 |
| `promise` | Does the engine implement `Announcement`, liveness included? | 1 alert, batching, reminders, 2 failed sends; clock to 9 |
| `suppress` | Is the search right on every topology? | 3 devices, both kinds, both links, cycles; depth 3 |
| `commands` | Is a command run at most once, are cooldowns kept, does every queued command leave the queue though the agent need not poll? | 2 containers (one refused by the agent); 2 commands and 1 cancellation, or 1 command, 1 cancellation and 1 fault; clock to 3 |
| `push` | Does a sample ever vanish untold, get out of order, or settle never? Can a machine be locked out, or a second installation speak for it? | 4 situations: a new machine with 3 samples and 1 mishap, with 1 sample and 2 mishaps, an old agent on a machine registered before binding existed, two clones that enrol at once; buffer 2, batches of 1, channel 1, writer buffer 1 |
| `relay` | Is every delegated probe settled once, never doubled, and every device heard of for ever? | a device that may be relayed and one that may not, 1 relay, 1 permit, 2 jobs alive, 1 event (edit, request of a user, failed statement, restart) |
| `calendar` | Is each report sent once and none passed over, and does a window cover exactly its duration? | 2 servers, 4 timings, days of 4 hours of 3 ticks, weeks of 3 days, months of 7, summer time begun and ended within 44 ticks; 1 edit, 1 fault; 37 windows at every instant, among them some that begin with the missing hour and within it |
| `refire`, `command_stuck`, `relay_restart` | three statements of the comments and documents that the code does not keep, see section 6 | |

Why the bounds are enough for the questions: a cycle of the engine takes one tick at least,
and each mechanism involved (for-duration, escalation, repeat, cooldown, window, flap
hold) is one to four ticks, so the horizons leave room for a firing, its resolution, a second
firing and every timer in between. Three devices are the smallest number with a cycle, a
chain, and a device with both a parent and a relay. Two commands are the smallest number
for duplicates and cooldowns. A buffer of two and batches of one are the smallest where a
retry meets a newer sample and an overflow; a clone needs a second agent, everything else one.
Two devices with one permit are the smallest where one can starve the other. The days of the
calendar are long enough for a slot before midnight, a slot in the missing hour and one in the
doubled hour, and 44 ticks hold more than three of them. Ticks of the calendar are coarse, but the
arithmetic only compares and divides, and the boundaries of hours, days and of the grace all
lie within the horizon.

Clocks saturate at `MaxClock`; conditions and requests change only up to `Horizon`, so that
what must eventually happen has time to. After saturation cycles go on at the same
instant; `MaxLag` lets the clock run ahead of a cycle by one tick, so a cycle works with
a `now` that is already past. No property is about the saturated instant: `QueueDrains`
says so in its premise.

Each property of a passing run has a mutant: a definition that models code, changed as a
plausible bug would, under which TLC finds the property violated.

### Fairness

`AlertEngine!FairSpec`: the loop goes on (`tokio::time::interval`; an error is logged and the
loop continues; a crashed server is restarted by its supervisor), time passes, and the
clearing of a paused device that has begun ends. Deliveries fail only as often as the
budget says, so a retry is eventually answered; nothing else is assumed about the
environment or the users.

`CommandQueue!FairSpec`: handlers that began end, the scheduler ticks every minute, the
executor goes on, time passes. It does **not** say that the agent polls: `QueuedLeaves`
holds without. `PollingSpec` adds that it does, infinitely often, and is used only to show that
even then a command can stay open.

`AgentPush!FairSpec`: an agent's loop goes on and retries, a handler that began ends, the write
task runs; and, for a machine that is refused because its secret is not the one on record, an
administrator answers it by opening the window ("Allow re-enrolment"), as the message of the
refusal asks. The last is an assumption about people: `EverySampleSettles` says that nothing
more is needed.

`Scheduler!FairSpec`: the loop runs, spawned probes end (each has a timeout), handlers that began
end. Strong fairness on `ReloadTargets`, `Expires` and `FallsDue` says that lists age and that
time passes: a list older than `RELOAD_EVERY` is reloaded, a deadline passes, a device falls due
again and again. Tasks of relays end, with or without a report; no relay ever has to come, to
answer in time, or to be heard.

`Reports!Spec` is about safety. That some server begins a pass every `MaxLag` ticks and claims at
once is in the guard of `Tick`; the loop ticks every minute and the grace is hours.

## 4. Proofs

TLAPS checks the eight proof modules. Nothing is assumed but the named `ASSUME`s about
constants: types of the settings and bounds, that pseudo-values (the intake channel, `None`,
`NoAgent`) are not channels, devices or agents, that devices (`Suppress`, `Scheduler`) are finite,
that no user is called `policy` (the author the scheduler writes into its commands), that days are
whole hours. TLC evaluates each of them in the runs. Six theorems have a hypothesis of their own
about constants, which the run of the same property satisfies: `SingleFault`, `OneMessageEach`,
`AcksBetweenCycles` and `ForgetsBetweenCycles`, without which the property fails, and two about
calendars, `InTime /\ EndsWithinDate(Here) /\ SeesGrace` and `RegularZones`; see below.

Each safety invariant is proved from an inductive invariant that holds in the initial states
and is kept by every action, one lemma per action. The inductive invariants were checked with
TLC on the instances of the runs before they were proved.

`AlertEngineProofs`, for every number of alerts, channels, devices, every settings and every bound:

* `TypeCorrect`: `Spec => []TypeOK`. The weight is in the lemmas about `plan`: what it
  enqueues, merges and sends are rows of the tables.
* `RowsStayCoherent`: `Spec => []RowsCoherent`. `RowsCoherent` is not inductive: a cycle
  writes rows computed from an older read and counts notifications of alerts it decided on
  several transactions ago. `Coherence` adds that the rows read are coherent
  (`PrevCoherent`), that an alert still to be counted as told has not left the phases
  Firing and Resolved (`SpeakersActive`), and that nothing is left to count outside the
  notification stages (`NothingHandled`).
* `AcksAreKept`, `UnacksAreKept`: the action properties `AckKept` and `UnackKept`, from the
  merge in `save_states`.
* `FiringRowsKept`: `Spec => FiringRowsSurvive`, without a hypothesis. A purge drops the rows that are
  dated before its cycle. `RowsDated` says, of each stage of the cycle, which rows bear
  its date by then: those evaluated with the save, those carried over after a failed
  query with `touch_states`. The rows of a rule or a device the cycle did not read as enabled go on
  purpose, hence the condition on the purge in the property.

`DeliveryProofs`, in the same generality. `Lines` is all that waits or is about to leave: the
queue, the rows and messages of the plan, the message being sent. Two lemmas carry the rest:
`LinesStep`, no step but `plan` makes a line (a retry only dates it otherwise), and `PlanStep`,
what a line made by `plan` says follows from an item of the cycle, the ledger and what waited.

* `AnnouncementKept`: `Spec => AnnouncementSafety`, the refinement of `Announcement`. A delivery is
  `Digest` of its channel, a change of a condition is itself, every other step stutters. `Founded` says
  that an all-clear that waits answers something its channel heard (`ClearsFounded`), that what the
  ledger says of a channel was heard by it (`LogFounded`, `SentFounded` between the delivery and its
  record), and that the ledger is not ahead of the clock (`Clocks`), so that its latest line exists.
* `FlapHoldKept`: `Spec => FlapHoldSilence`. `HoldKept` says of all lines what the property says of those
  sent. It is kept by the transaction that writes a hold because the plan already knows it: its
  own lines are notices, the others are in its purge list (`HoldPlanned`).
* `MutedUncounted`: `Spec => MutedNotCounted`. An alert that speaks, or is still to be counted, is not
  muted in the table (`SpeakersUnmuted`).
* `CapKept`: `OneMessageEach => (Spec => []HourlyCap)`. What is about to leave still has room
  (`CapRoom`), and a channel has one message on its way (`OneLeaving`). An on-call channel gets a message
  per device after one look at the cap, hence the hypothesis: such a channel hears of one device.
* `AckQuiet`: `AcksBetweenCycles => (Spec => AckSilencesQueue)`. No line speaks of a problem that is
  acknowledged in the table or was when the cycle read it (`AckInv`), through crashes, failed
  deliveries and lost records. The hypothesis leaves out acks that arrive between
  `load_states` and the last delivery: the cycle then requeues, or enqueues, what it decided before.
* `ForgottenQuiet`: `ForgetsBetweenCycles => (Spec => ForgottenStaysQuiet)`. No line, item or
  device seen belongs to a forgotten device (`ForgetInv`). A failure of `forget_target` is only logged, and
  a cycle in flight writes back what it holds; the hypothesis leaves out both.

* `RemindersKept`: `Spec => []RemindersOnTime`, without a hypothesis. `RemindInv` follows an alert that nags
  (`Nagging`) through the cycle: once the rows are saved it was told lately or speaks, once the plan is made it is
  in `handled` or its hand-off is late (`HandoffLate`), until `mark_notified` dates it; what users and faults
  do to the row in between leaves its dates alone (`SameHistory`). What the cycle carried over after a failed
  query, muted, or read as acknowledged is outside the property.

`SuppressProofs`, for every finite set of devices, every topology and every depth:

* `TypeCorrect`, `BlameIsSound` (`[]BlamedIsDownAncestor`), `LetThroughIsSound`
  (`[]LetThroughOnlyIfClear`). Ancestors are defined as the least set closed under direct
  ascendants, so the invariant is that of a breadth-first search: only ancestors are met
  (`OnlyAncestors`), nothing down was passed over (`PassedUp`), whatever is above a visited
  device was visited or waits (`NothingDropped`), and each generation visits a new device
  (`DepthBounded`), which is why a depth of the number of devices never cuts a search short.
* `NearestBlamedTheorem` (`[]NearestBlamed`), `CauseSpeaksTheorem` (`[]CauseSpeaksIfAcyclic`), for every depth and
  without a hypothesis. `AncestorsWithin` is a recursive function of the number of steps. The set of
  what chains of at most n links reach solves its recursion (`ChainsRecur`), so the function does too
  (`WithinRecurs`) and no induction over data is needed. `DistanceInv` says that a search that is d
  generations up has met exactly the ancestors within d + 1 steps and nothing down within d
  (`WalkByDistance`), that a parent that is down comes first (`ParentFirst`), and so that whoever is blamed is the
  nearest (`NearestFound`). For the second theorem, take the down ancestors of a muted device: without
  a cycle, the one with the fewest ancestors has none that is down, so nobody mutes it.

`CommandQueueProofs`, for every set of containers and users, every budget and every cooldown:

* `TypeCorrect` (`[]TypeOK`) and `CooldownKept` (`[]PolicyCooldown`). The invariant has four parts:
  the table (`TableOK`), the requests between two statements (`RequestsOK`), the scheduler's tick
  (`PolicyOK`: between the check and the insertion what it decided on is still a cooldown away
  from every automatic command, because only the scheduler inserts those and one tick inserts
  each kind once per container) and the agent (`AgentOK`).
* `StartedOnce`: `SingleFault => (Spec => []AtMostOnce)`. `SingleFault` says that a behaviour may
  contain any number of deaths of the agent, or one lost answer, not both: section 5 shows
  what happens otherwise. `OnceInv` says that nothing the agent is about to start was started, and that a command it
  started is no longer `queued` in the table, unless the one loss has been spent on its
  announcement: then no fault is left, and the agent still works on it.

`SchedulerProofs`, for every finite set of devices, any number of relays, permits and events:

* `TypeCorrect` (`[]TypeOK`), `JobsSettleOnce` (`[]SettledOnce`), `ProbesNotDoubled`
  (`[]NotDoubled`). `SettledOnce` needs that ids are unique among queued, in-flight and settling
  jobs (`OneJobPerId`), that a task of this life of the server has the id of the job it was given
  or of none (`TasksOwnIds`), and that a mistaken report comes only after a restart
  (`MistakenLater`). `PermitsHold` counts permits for the type invariant.

`CalendarProofs`, for every calendar, zone, timing, window and number of servers:

* `TypeCorrect` (`[]TypeOK`), `NeverSentTwice` (`[]SentOnce`). What is sent was claimed
  (`ClaimedBefore`: no slot sent is younger than `last_sent`), and two passes never deliver the same slot
  (`OneSender`); lemmas about `WallClock` say that slots are instants.
* `NeverMissed`: `InTime /\ EndsWithinDate(Here) /\ SeesGrace => (Spec => []NoSlotMissed)`. The calendar half is
  `LatestSlotFound`: within its grace a slot is the one `latest_slot` finds, or a later one is,
  because dates never go back (`DatesInOrder`), a slot falls on its date also in the gap of a change
  of clocks (`SlotFallsOnDate`), and the search looks back further than the grace (`SeesGrace`). The half about the
  loops is `LoopInv`: as long as a slot waits, either no pass has begun since it was due
  and the faults met so far (`Ahead`), or a pass that began in time holds it, and if a later pass came too late
  to replace that one, it holds the slot too (`InHand`): one fault never takes both. `InTime` says that
  the grace has room for a pass per fault and two more: a minute each against hours, so it bounds
  only how often a server may die within the grace of one slot. `EndsWithinDate` says that the hour that
  comes twice does not straddle midnight (a zone that turns its clocks back at 00:01 does not satisfy it).
* `WindowsCoverTheirTime`: `RegularZones => (Spec => []WindowsComplete)`. `WindowExact` holds for one window and any
  instant. `CodeOpens` and `ReferenceOpens` compute the opening by the code and by the reference: they are the
  same but for a window that begins within the missing hour, not with it, and there the code is late by
  what it begins `Behind` that hour; so the two agree on every instant that is not `Disputed` (`SameTime`).
  `SearchReaches`: the date of a window that is open lies within the days
  `window_containing` visits, unless the window is `OnTheEdge`; the arithmetic is the exact condition of that
  definition. `SelectsFalls`: selecting dates by division and remainder is the same as counting weekdays of the
  month (`SistersCounted`, by a bijection with an interval; `LastSister` for "the last"). `RegularZones`:
  clocks are within a day of UTC (the code clamps fixed offsets to fourteen hours) and satisfy `EndsWithinDate`.

`AgentPushProofs`, for any number of agents, machines, tokens and mishaps, every capacity and batch size:

* `TypeCorrect` (`[]TypeOK`): `ExchangeOf` relates agents and requests: an agent waits for at most
  one request, and that request has its batch.
* `QueuesBounded` (`[]QueuesFit`): batch and buffer of an agent, one after the other, are an ascending line
  that fits the buffer (`Good`), which is why `restore` has room.
* `SamplesTraced` (`[]NoSilentLoss`): `NoSilentLoss` is not inductive, since an acknowledgement makes the
  agent forget its batch. `Traces` says of each agent that what it collected is in its hands or
  settled, `Deliveries` that a batch whose handler got as far as `record` is settled before the
  acknowledgement leaves.

`BindingProofs`, in the same generality, from `BInv`, which holds together with that invariant:

* `OneVoiceKept` (`[]OneVoice`) and `BindingKept` (`[]BindingHolds`). `Secrets`: a secret other than
  none is known (in memory, on disk, or in a request) to one installation only, because each is issued
  once, to one request. `Voice`, of machines no administrator reopened: a request gets as far as the samples only
  with the secret in the row, so whoever spoke is the only one who may know it. `Bond`, of
  machines nothing interfered with: memory and file agree, a secret an agent holds or a request carries
  is the one in the row, and a request that carries a valid secret is never answered `forbidden`, so nobody
  forgets it.

Only model-checked: all liveness (`UnblockedProblemTold`, `QueueDrains`, `AnnouncementSpec`,
`QueuedLeaves`, `EverySampleSettles`,
`EveryJobSettles`, `EveryDeviceHeard`), because fairness and ENABLED are beyond the prover; and
`OncePerEpisode`, which holds in the instance of its run and not for every value of the constants: a line
that waited while resolutions are muted or filtered joins the next episode, and a record that fails after
a delivery repeats one. Every other invariant and action property a passing run checks is proved.

## 5. Where the checked statements stop

Some properties hold only for the events a run allows. Changing one line of its
configuration shows the rest:

* `AckSilencesQueue` with `AckPoints <- AnyPoint`: a cycle that planned before the ack still sends
  (`db/alerts.rs`, `set_ack`, empties the queue but cannot recall a plan).
* `ForgottenStaysQuiet` with `PausePoints <- AnyPoint`: a cycle that read the device as live
  queues lines about it after `forget_target` ran; with `MaxFaults = 1` the deletion itself
  may fail, which `forget_alerts` only logs, and the lines leave later.
* `HourlyCap` on a channel that is on call, with two devices: `flush` counts before it splits
  the lines by device, and may send several messages at once.
* Quiet hours: a line that joined a batch before the quiet hours began leaves during them,
  because only lines routed during the hours are held (`HoldFor`).
* The flapping notice: with a batching window it waits in the queue like any line, and the
  next purge of the alert's lines may remove it before it left.
* The hand-off to the second channel is dated from the oldest firing-like message of the
  ledger, which may belong to an earlier firing of the same alert; it then comes early. When the
  ack lasts longer than the ledger remembers, it waits for ever and takes the alert out of
  `handled` in every cycle.
* `AnnouncementSpec` with a crash: a server that dies after the resolution is saved and before
  it is announced settles the row on restart, and the all-clear is never sent.
* `AtMostOnce` with a lost announcement and an agent that dies (`Of(1, 0, 1, 1)` in the budgets):
  the command is still queued and the next poll hands it out again.
* A report that was read before a cancellation and is written after it reopens the command
  (`report` updates without a condition on the status); a cancelled command that was already
  handed out still runs.
* `EveryCommandCloses` holds under `PollingSpec` without losses and crashes.
* Enrolment: `enrolment_allowed` and `consume_enrolment` are several statements apart, so two
  machines that enrol at once both use a token meant for one (`store.rs`, `TokenPolicy`). Two requests
  that read the same open window both bind, and the second secret wins. A machine whose
  single-use token is spent is refused although a window is open, unless it was never bound:
  hence the premise on `CanEnrol` in `EverySampleSettles`. A handler that fails after
  `insert_host` loses the secret it issued; only an administrator helps then.
* `BindingHolds` is not claimed of a machine whose answer got lost, whose secret could not be
  written to its file, or whose window somebody opened: that is what `upset` collects. Failure to
  remove a refused secret's file is not modelled.
* What `NoSilentLoss` calls a trace: `samples_dropped` for a full channel, a log line for an
  eviction of the writer and for an overflow of the agent's buffer, `accepted` in the
  acknowledgement for samples that were filtered. `restore` never overflows, because the agent does
  not collect while it sends (`QueuesFit`).
* Relays: when `via_agent` is changed while a job waits for the old agent, that job and one for the
  new agent may both exist; `NotDoubled` is therefore about one agent. It is also about the hub's jobs
  only: a task of the relay whose job expired may still execute while the next job is in flight. `settle` runs outside the
  mutex, so verdicts of two jobs may be recorded in the other order. The server's own probes of a
  device may overlap when one takes longer than the interval; a user's immediate probe of a
  device without relay is not modelled.
* Reports: a pass that read the schedule before an edit still sends the slot of the old timing;
  a crash after the claim loses the report, by design ("jamais envoyé deux fois"); with a single
  server a delivery longer than the grace would make the next slot late. A slot of 23:00 in a
  missing hour before midnight becomes 00:00 of the same date (`hour % 24` in `slot_on`), a day
  early. In a zone whose clocks go back from just after midnight, the date itself goes back: until
  midnight comes again, `latest_slot` and `window_containing` do not see what began on the new date
  (`EndsWithinDate` in `CalendarProofs` leaves such zones out).
* Silences: `window_containing` goes back by the whole days of the duration plus one. A window
  whose start and remainder, with one hour of summer time, exceed two days ends later than that
  reaches: its last minutes are not covered on the night the clocks go forward. `OnTheEdge`
  describes these windows and `WindowsComplete` leaves them out, as it does the instants on which the
  code contradicts its documents (`Disputed`, section 6). `next_start`, shown to users
  only, is not modelled.

## 6. Disagreements between the code and what is said of it

* `refire` (`EveryProblemTold`): a condition that falls for one cycle and returns goes from
  Resolved to Firing with its old notification count; the comment in `machine.rs` and the
  user guide say it notifies like a new alert.
* `command_stuck` (`EveryCommandCloses`): a `running` command whose last report is lost is
  never closed; the agent's comment says the server will expire it.
* `relay_restart` (`OwnReport`): job ids start again with the server, and a relay's task that
  outlives it reports to whichever job has its id now; the comments say that a relay cannot write
  into the series of another target and that such a report is ignored.

Four more are shown by a change of a configuration:

* `promise.cfg` with `MaxAcks = 1`, `MaxSendFailures = 0`, `Hour = 2`, `AckDurations = {5}`,
  `Horizon = 9` and `PROPERTY EveryResolutionTold`: the resolution of an alert acknowledged for
  longer than the ledger window is withheld, though the documents say it is still notified.
* `suppress.cfg` with `INVARIANT CauseSpeaks`: only a device that is its own parent is refused; two
  devices that are each other's parents mute each other when both are down.
* `calendar.cfg` with `INVARIANT OpensAsClockResumes`: `instant_at` (`silence.rs:103-105`) adds whole
  hours to an opening time that does not exist. A window that begins with the missing hour
  (02:00) opens when the clock resumes, at 03:00; one that begins at 02:30 opens at 03:30, and closes
  half an hour later too. The comment of `instant_at` (`silence.rs:89-91`, "ouvre la fenêtre dès que
  l'horloge repart") and the guide (`docs/alerting/maintenance.md:70-71`, "the window opens as soon as the
  clock resumes") say otherwise. In the instance the clock resumes at tick 15, and the windows that
  begin one tick into the gap open at 16. The reference of `WindowsComplete` opens them at 15 and the
  property leaves out exactly the instants in dispute.
* `commands.cfg` with `Users <- TwoUsers`, `Policy <- AllManual`, `Budgets <- NoFault` and `INVARIANT OnePending`: the
  duplicate check and the insertion of a command are two statements; two requests that both
  check first queue two commands of a kind for one container, and the agent executes both. The comment
  of `enqueue` (`collectors/agent/commands.rs:92-94`) says that a duplicate is refused and that an update
  clicked twice must not replace the container twice.

## 7. Plan

Done: alerting core, suppression, command queue, the way of a measurement (agent, enrolment,
writer), relays and scheduler, silences and reports; their runs, and the theorems above. Next, in
this order:

1. Proofs: hypotheses on rules, routes and faults under which `OncePerEpisode` holds in general.
2. What is left of partly modelled components: `set_policy`, changes of settings during a cycle,
   silences bound to the engine's `SilenceChoices`, `next_start`.

### Not modelled

The repository counts some 190 000 lines of implementation. Most of them are fifty collectors and
their parsers, the catalogue of rules and packs, rendering, HTTP handlers that read and list, and
the web interface: protocols, formats and data without shared state or control that a model
checker could explore. The modules cover the code that keeps state between steps and has to share
it: of the files they translate, nearly half of the lines outside tests; of the whole, a few
percent. Left out, and `PROJECT.json` gives the reason for each: collectors and packs (protocol
parsing without shared state), notification channels (rendering and one exchange each),
baselines (floating-point statistics), sessions and second factors (secrets and their comparison),
backup formats, push heartbeats, web change detection, status pages, the security score, the MCP
adapter, the demo, music and update features, and the web interface.
