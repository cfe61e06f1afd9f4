---------------------------- MODULE AlertEngine -----------------------------
(***************************************************************************)
(* The alerting engine (alerting/engine.rs, evaluate_once): a loop whose   *)
(* cycle is a sequence of separate SQLite transactions and network calls,  *)
(* interleaved with the API handlers that write the same tables, and cut   *)
(* short by database errors and crashes.                                   *)
(*                                                                         *)
(* Tables: row (alert_state), queue (notify_queue), log (notify_log), flap *)
(* (notify_flap), messages (notify_messages), enabled (targets.enabled).   *)
(* The locals of the cycle in flight are pc, now, rules, seen, prev,       *)
(* items, carried, plan and sending; a crash loses them.                   *)
(***************************************************************************)
EXTENDS NotifyPolicy

CONSTANTS
  Ancestors,        \* [Targets -> SUBSET Targets]: strict ancestors
  Observations,     \* what a query may answer about a series
  RuleChoices,      \* sets of rules that may be enabled when a cycle begins
  ChannelChoices,   \* sets of channels that may be enabled
  SilenceChoices,   \* sets of fingerprints that silences may cover
  DownChoices,      \* sets of targets the prober may have flagged unreachable
  AckDurations,     \* durations a user may acknowledge for
  AckPoints,        \* points of the cycle at which users ack or unack
  PausePoints,      \* points of the cycle at which targets are paused
  MaxClock,         \* bound: the clock saturates here
  Horizon,          \* bound: conditions change only up to this instant
  MaxLag,           \* bound: the clock runs at most this far ahead of a cycle
  MaxAcks,          \* bound: acks and unacks
  MaxPauses,        \* bound: targets paused, resumed or deleted
  MaxFaults,        \* bound: crashes and database errors
  MaxSendFailures   \* bound: failed deliveries

ASSUME EngineAssumption ==
  /\ Ancestors \in [Targets -> SUBSET Targets]
  /\ Observations \subseteq {"true", "false", "learning", "gone", "failed"}
  /\ RuleChoices \subseteq SUBSET Fps
  /\ ChannelChoices \subseteq SUBSET Channels
  /\ SilenceChoices \subseteq SUBSET Fps
  /\ DownChoices \subseteq SUBSET Targets
  /\ AckDurations \subseteq Nat \ {0}
  /\ MaxClock \in Nat /\ Horizon \in Nat /\ MaxLag \in Nat
  /\ MaxAcks \in Nat /\ MaxPauses \in Nat
  /\ MaxFaults \in Nat /\ MaxSendFailures \in Nat

VARIABLES
  clock,       \* wall clock
  problem,     \* fingerprints whose condition really holds
  enabled,     \* targets that exist and are not paused
  forgetting,  \* targets paused or deleted, forget_target still to run
  row, queue, log, flap, messages,
  last_maintenance,  \* when this process last purged the ledger
  pc, now, rules, seen, prev, items, carried, plan, sending,
  told,        \* observer: what each channel last heard of each alert
  knows,       \* observer: what the cycle in flight has read (see NoKnowledge)
  left         \* remaining budget of each bounded event

world == <<clock, problem, enabled, forgetting>>
db    == <<row, queue, log, flap, messages>>
cycle == <<pc, now, rules, seen, prev, items, carried, plan, sending,
           knows>>
vars  == <<world, db, last_maintenance, cycle, told, left>>

NoPlan ==
  [ outgoing |-> {}, enqueue |-> {}, dequeue |-> {}, flap_holds |-> {},
    intake |-> {}, handled |-> {} ]

NoRows == [f \in {} |-> DefaultState]

NoItems == [f \in {} |-> [reason |-> "Firing", severity |-> 0]]

\* The alerts the cycle read as acknowledged, and the targets whose pause or
\* deletion was complete when it read the targets.
NoKnowledge == [acked |-> {}, forgotten |-> {}]

NoMessage == [channel |-> Intake, rows |-> {}]

Init ==
  /\ clock = 1
  /\ problem = {}
  /\ enabled = Targets
  /\ forgetting = {}
  /\ row = NoRows
  /\ queue = {}
  /\ log = {}
  /\ flap = [f \in Fps |-> NoTime]
  /\ messages = {}
  /\ last_maintenance = 0
  /\ pc = "idle"
  /\ now = 0
  /\ rules = {}
  /\ seen = {}
  /\ prev = NoRows
  /\ items = NoItems
  /\ carried = {}
  /\ plan = NoPlan
  /\ sending = NoMessage
  /\ told = [p \in Channels \X Fps |-> "nothing"]
  /\ knows = NoKnowledge
  /\ left = [acks |-> MaxAcks, pauses |-> MaxPauses, faults |-> MaxFaults,
             sends |-> MaxSendFailures]

Spend(kind) == left[kind] > 0 /\ left' = [left EXCEPT ![kind] = @ - 1]

-----------------------------------------------------------------------------
(* The cycle, transaction by transaction.                                  *)

MaintenanceDue == now - last_maintenance >= Hour

\* ticker.tick(), Utc::now(), list_enabled_rules; no rule, no cycle.
BeginCycle ==
  /\ pc = "idle" /\ ~MaintenanceDue
  /\ clock > now \/ clock = MaxClock
  /\ now' = clock
  /\ \E on \in RuleChoices :
       /\ rules' = on
       /\ pc' = IF on = {} THEN "idle" ELSE "targets"
  /\ UNCHANGED <<world, db, last_maintenance, seen, prev, items, carried, plan,
                 sending, knows, told, left>>

\* list_target_nodes
LoadTargets ==
  /\ pc = "targets"
  /\ seen' = enabled
  /\ knows' = [knows EXCEPT !.forgotten = Targets \ (enabled \cup forgetting)]
  /\ pc' = "states"
  /\ UNCHANGED <<world, db, last_maintenance, now, rules, prev, items, carried,
                 plan, sending, told, left>>

\* load_states
LoadStates ==
  /\ pc = "states"
  /\ prev' = row
  /\ knows' = [knows EXCEPT !.acked = {f \in DOMAIN row : IsAcked(row[f], now)}]
  /\ pc' = "evaluate"
  /\ UNCHANGED <<world, db, last_maintenance, now, rules, seen, items, carried,
                 plan, sending, told, left>>

-----------------------------------------------------------------------------
(* plan_cycle, then save_states.                                           *)

Live(f) == TargetOf[f] \in seen

\* The stored state, with the overlays of the previous cycle removed.
Before(f) ==
  IF f \in DOMAIN prev
  THEN [prev[f] EXCEPT !.suppressed = FALSE, !.silenced = FALSE]
  ELSE DefaultState

Observed(f, o) == o \in {"true", "false", "learning"}

\* What one evaluation makes of a fingerprint, before the overlays.
Advanced(f, o) ==
  LET next == Advance(Before(f), o \in {"true", "learning"}, now, Rule[f].for)
  IN IF Observed(f, o) THEN [next EXCEPT !.learning = (o = "learning")] ELSE next

\* A series that vanished is evaluated as false, unless it was already at rest.
Vanished(f, o) == o = "gone" /\ f \in DOMAIN prev /\ prev[f].phase # "Ok"

EvaluatedFps(obs) ==
  {f \in rules : Live(f) /\ (Observed(f, obs[f]) \/ Vanished(f, obs[f]))}

\* A rule whose query failed freezes its rows.
CarriedOver(obs) ==
  {f \in rules \cap DOMAIN prev : Live(f) /\ obs[f] = "failed"}

\* The devices down at this cycle; a paused one keeps a verdict that is stale.
DownTargets(obs, flagged) ==
  {TargetOf[f] : f \in {g \in EvaluatedFps(obs) :
                          /\ Rule[g].host_down
                          /\ Advanced(g, obs[g]).phase = "Firing"}}
    \cup (flagged \cap seen)

\* Mutant: the suppression of the previous cycle leaks into this one.
SuppressedSticky(f, down) ==
  \/ Ancestors[TargetOf[f]] \cap down # {}
  \/ f \in DOMAIN prev /\ prev[f].suppressed

\* suppression_for: an ancestor is down, or the device itself is and this alert
\* is not the one that says so.
Suppressed(f, down) ==
  \/ Ancestors[TargetOf[f]] \cap down # {}
  \/ ~Rule[f].host_down /\ TargetOf[f] \in down

Outcome(obs, flagged, silences) ==
  LET down == DownTargets(obs, flagged) IN
  [f \in EvaluatedFps(obs) |->
     [Advanced(f, obs[f]) EXCEPT !.suppressed = Suppressed(f, down),
                                 !.silenced = (f \in silences)]]

DecideSettings(f) ==
  [ escalate_after |-> Rule[f].escalate_after, repeat |-> Rule[f].repeat,
    unacked_after |-> UnackedAfter ]

\* group(): the alerts that speak at this cycle.
GroupItems(outcome) ==
  [f \in {g \in DOMAIN outcome :
            Decide(outcome[g], now, DecideSettings(g)) # "None"} |->
     [ reason   |-> Decide(outcome[f], now, DecideSettings(f)),
       severity |-> EffectiveSeverity(outcome[f], now, Rule[f].severity,
                                      Rule[f].escalate_after) ]]

SaveStates(stored, outcome) ==
  [f \in DOMAIN stored \cup DOMAIN outcome |->
     IF f \notin DOMAIN outcome THEN stored[f]
     ELSE IF f \in DOMAIN stored THEN MergeAck(stored[f], outcome[f])
     ELSE outcome[f]]

\* A query tells the truth about the condition, or fails.
TruthfulObservations ==
  {o \in [rules -> Observations] :
     \A f \in rules : o[f] # "failed" =>
        ((f \in problem) <=> (o[f] \in {"true", "learning"}))}

\* The queries, plan_cycle and save_states: the locals computed before the
\* transaction read nothing that another actor writes.
EvaluateAndSave ==
  /\ pc = "evaluate"
  /\ \E obs \in TruthfulObservations, flagged \in DownChoices,
        silences \in SilenceChoices :
       LET outcome == Outcome(obs, flagged, silences) IN
       /\ row' = SaveStates(row, outcome)
       /\ items' = GroupItems(outcome)
       /\ carried' = CarriedOver(obs)
  /\ prev' = NoRows
  /\ pc' = "touch"
  /\ UNCHANGED <<world, queue, log, flap, messages, last_maintenance, now,
                 rules, seen, plan, sending, knows, told, left>>

\* Mutant: frozen rows keep the date of their last real evaluation.
TouchedNone == row

Touched ==
  [f \in DOMAIN row |->
     IF f \in carried THEN [row[f] EXCEPT !.last_eval_at = now] ELSE row[f]]

\* touch_states, save_baselines
TouchStates ==
  /\ pc = "touch"
  /\ row' = Touched
  /\ pc' = "policy"
  /\ UNCHANGED <<world, queue, log, flap, messages, last_maintenance, now,
                 rules, seen, prev, items, carried, plan, sending, knows, told,
                 left>>

-----------------------------------------------------------------------------
(* The notification policy and the deliveries.                             *)

\* load_ledger: the log is cut to the lookback window.
Ledger ==
  [ queue    |-> queue,
    log      |-> {e \in log : e.at > now - Lookback},
    flap     |-> flap,
    messages |-> messages ]

\* list_channels, load_channel_policies, load_ledger, plan
PlanNotifications ==
  /\ pc = "policy"
  /\ \E on \in ChannelChoices : plan' = Plan(Ledger, items, on, now)
  /\ items' = NoItems
  /\ pc' = "apply"
  /\ UNCHANGED <<world, db, last_maintenance, now, rules, seen, prev, carried,
                 sending, knows, told, left>>

\* apply_plan: one transaction.
ApplyPlan ==
  /\ pc = "apply"
  /\ queue' = Upsert({q \in queue : Key(q) \notin plan.dequeue}, plan.enqueue)
  /\ flap' = [f \in Fps |-> IF f \in plan.flap_holds
                            THEN now + Global.flap_hold ELSE flap[f]]
  /\ log' = log \cup plan.intake
  /\ plan' = [NoPlan EXCEPT !.outgoing = plan.outgoing, !.handled = plan.handled]
  /\ pc' = "send"
  /\ UNCHANGED <<world, row, messages, last_maintenance, now, rules, seen,
                 prev, items, carried, sending, knows, told, left>>

\* What channel c has heard of alert f once message m has reached it.  A line
\* resolved while it waited is a mention: it clears a problem the channel was
\* told of, and announces none.
Heard(m, c, f) ==
  LET lines == {q \in m.rows : q.channel = c /\ q.fp = f} IN
  IF lines = {} THEN told[<<c, f>>]
  ELSE IF \E q \in lines : q.reason = "Flapping" THEN "flapping"
  ELSE IF \E q \in lines : FiringLike(q.reason) THEN "problem"
  ELSE IF \E q \in lines : q.resolved_meanwhile
  THEN IF told[<<c, f>>] = "nothing" THEN "nothing" ELSE "clear"
  ELSE "clear"

\* deliver_stored succeeds: the message is out, nothing is recorded yet.
Deliver(m) ==
  /\ pc = "send" /\ m \in plan.outgoing
  /\ told' = [p \in Channels \X Fps |-> Heard(m, p[1], p[2])]
  /\ sending' = m
  /\ plan' = [plan EXCEPT !.outgoing = @ \ {m}]
  /\ pc' = "record"
  /\ UNCHANGED <<world, db, last_maintenance, now, rules, seen, prev, items,
                 carried, knows, left>>

\* deliver_stored fails.
DeliverFails(m) ==
  /\ pc = "send" /\ m \in plan.outgoing
  /\ Spend("sends")
  /\ sending' = m
  /\ plan' = [plan EXCEPT !.outgoing = @ \ {m}]
  /\ pc' = "requeue"
  /\ UNCHANGED <<world, db, last_maintenance, now, rules, seen, prev, items,
                 carried, knows, told>>

\* Mutant: lines that were sent stay in the queue.
UnsentStays == queue

Unsent == {q \in queue : Key(q) \notin Keys(sending.rows)}

\* record_sent: one transaction.
RecordSent ==
  /\ pc = "record"
  /\ queue' = Unsent
  /\ messages' = messages \cup
       {[channel |-> sending.channel, fps |-> {q.fp : q \in sending.rows}, at |-> now]}
  /\ log' = log \cup
       {[channel |-> q.channel, fp |-> q.fp, reason |-> q.reason, at |-> now] :
          q \in sending.rows}
  /\ sending' = NoMessage
  /\ pc' = "send"
  /\ UNCHANGED <<world, row, flap, last_maintenance, now, rules, seen, prev,
                 items, carried, plan, knows, told, left>>

EarlierOf(a, b) == IF a <= b THEN a ELSE b

\* Mutant: a failed delivery is forgotten.
RetryNothing == {}

\* The lines go back dated so that the next cycle finds them ripe.
Retry ==
  {[q EXCEPT !.queued_at = EarlierOf(@, clock - Global.window)] :
     q \in sending.rows}

\* requeue: one transaction.
Requeue ==
  /\ pc = "requeue"
  /\ queue' = Upsert(queue, Retry)
  /\ sending' = NoMessage
  /\ pc' = "send"
  /\ UNCHANGED <<world, row, log, flap, messages, last_maintenance, now, rules,
                 seen, prev, items, carried, plan, knows, told, left>>

\* The bookkeeping of a delivery fails: logged, and the loop goes on.
BookkeepingFails ==
  /\ pc \in {"record", "requeue"}
  /\ Spend("faults")
  /\ sending' = NoMessage
  /\ pc' = "send"
  /\ UNCHANGED <<world, db, last_maintenance, now, rules, seen, prev, items,
                 carried, plan, knows, told>>

\* record_history, mark_notified
MarkNotified ==
  /\ pc = "send" /\ plan.outgoing = {}
  /\ row' = [f \in DOMAIN row |->
               IF f \in plan.handled THEN Noted(row[f], now) ELSE row[f]]
  /\ plan' = NoPlan
  /\ pc' = "purge"
  /\ UNCHANGED <<world, queue, log, flap, messages, last_maintenance, now,
                 rules, seen, prev, items, carried, sending, knows, told,
                 left>>

\* purge_states: rows this cycle neither evaluated nor froze.
PurgeStates ==
  /\ pc = "purge"
  /\ row' = [f \in {g \in DOMAIN row : row[g].last_eval_at >= now} |-> row[f]]
  /\ rules' = {} /\ seen' = {} /\ carried' = {} /\ knows' = NoKnowledge
  /\ pc' = "idle"
  /\ UNCHANGED <<world, queue, log, flap, messages, last_maintenance, now,
                 prev, items, plan, sending, told, left>>

\* policy_store::purge, hourly.
Maintenance ==
  /\ pc = "idle" /\ MaintenanceDue
  /\ last_maintenance' = now
  /\ log' = {e \in log : e.at >= now - Lookback}
  /\ messages' = {m \in messages : m.at >= now - Hour}
  /\ flap' = [f \in Fps |-> IF flap[f] < now THEN NoTime ELSE flap[f]]
  /\ UNCHANGED <<world, row, queue, cycle, told, left>>

\* One of its statements fails: what came before it stays done, what comes after
\* waits for the next hour.
MaintenanceFails ==
  /\ pc = "idle" /\ MaintenanceDue
  /\ Spend("faults")
  /\ last_maintenance' = now
  /\ \/ UNCHANGED <<log, messages>>
     \/ /\ log' = {e \in log : e.at >= now - Lookback}
        /\ messages' \in {messages, {m \in messages : m.at >= now - Hour}}
  /\ UNCHANGED <<world, row, queue, flap, cycle, told>>

\* The locals of a cycle that ends before its last transaction.
CycleLost ==
  /\ pc' = "idle"
  /\ rules' = {} /\ seen' = {} /\ prev' = NoRows /\ items' = NoItems
  /\ carried' = {} /\ plan' = NoPlan /\ sending' = NoMessage
  /\ knows' = NoKnowledge

\* evaluate_once returns an error: the loop logs it and waits for its next tick.
DatabaseError ==
  /\ \/ pc \in {"targets", "states", "evaluate", "touch", "policy", "apply", "purge"}
     \/ pc = "send" /\ plan.outgoing = {}
  /\ Spend("faults")
  /\ CycleLost
  /\ UNCHANGED <<world, db, last_maintenance, now, told>>

\* The process dies anywhere and is started again.
Crash ==
  /\ pc # "idle" \/ forgetting # {}
  /\ Spend("faults")
  /\ CycleLost
  /\ forgetting' = {}
  /\ last_maintenance' = clock
  /\ UNCHANGED <<clock, problem, enabled, db, now, told>>

-----------------------------------------------------------------------------
(* The API handlers.                                                       *)

\* Mutant: an ack leaves the queue alone.
QueueAfterAckUntouched(f) == queue

QueueAfterAck(f) == {q \in queue : q.fp # f \/ q.resolved_meanwhile}

\* set_ack(Some): only on an active row; what waits for this alert is dropped,
\* the mention of a resolution excepted.
Ack(f, duration) ==
  /\ pc \in AckPoints
  /\ f \in DOMAIN row /\ row[f].phase \in ActivePhases
  /\ Spend("acks")
  /\ row' = [row EXCEPT ![f].acked_until = clock + duration]
  /\ queue' = QueueAfterAck(f)
  /\ UNCHANGED <<world, log, flap, messages, last_maintenance, cycle, told>>

\* set_ack(None)
Unack(f) ==
  /\ pc \in AckPoints
  /\ f \in DOMAIN row /\ row[f].phase \in ActivePhases
  /\ Spend("acks")
  /\ row' = [row EXCEPT ![f].acked_until = NoTime]
  /\ UNCHANGED <<world, queue, log, flap, messages, last_maintenance, cycle,
                 told>>

\* A target is paused or deleted: first its own row ...
PauseTarget(t) ==
  /\ pc \in PausePoints
  /\ t \in enabled
  /\ Spend("pauses")
  /\ enabled' = enabled \ {t}
  /\ forgetting' = forgetting \cup {t}
  /\ UNCHANGED <<clock, problem, db, last_maintenance, cycle, told>>

\* Mutant: forgetting a target leaves the queue alone.
QueueAfterForgetUntouched(t) == queue

QueueAfterForget(t) == {q \in queue : TargetOf[q.fp] # t}

\* ... then, in another transaction, its alerts and what waits about them.
ForgetTarget(t) ==
  /\ pc \in PausePoints
  /\ t \in forgetting
  /\ forgetting' = forgetting \ {t}
  /\ row' = [f \in {g \in DOMAIN row : TargetOf[g] # t} |-> row[f]]
  /\ queue' = QueueAfterForget(t)
  /\ UNCHANGED <<clock, problem, enabled, log, flap, messages,
                 last_maintenance, cycle, told, left>>

\* forget_alerts: an error is logged and the request succeeds all the same.
ForgetFails(t) ==
  /\ pc \in PausePoints
  /\ t \in forgetting
  /\ Spend("faults")
  /\ forgetting' = forgetting \ {t}
  /\ UNCHANGED <<clock, problem, enabled, db, last_maintenance, cycle, told>>

\* The target is enabled again.
ResumeTarget(t) ==
  /\ t \notin enabled
  /\ Spend("pauses")
  /\ enabled' = enabled \cup {t}
  /\ UNCHANGED <<clock, problem, forgetting, db, last_maintenance, cycle,
                 told>>

-----------------------------------------------------------------------------
(* The environment.  A condition is read by EvaluateAndSave only, so it    *)
(* changes between cycles without loss of generality.                      *)

ConditionChanges(f) ==
  /\ pc = "idle" /\ clock <= Horizon
  /\ problem' = IF f \in problem THEN problem \ {f} ELSE problem \cup {f}
  /\ UNCHANGED <<clock, enabled, forgetting, db, last_maintenance, cycle, told,
                 left>>

Tick ==
  /\ clock < MaxClock
  /\ clock - now < MaxLag
  /\ clock' = clock + 1
  /\ UNCHANGED <<problem, enabled, forgetting, db, last_maintenance, cycle,
                 told, left>>

Send == \E m \in plan.outgoing : Deliver(m) \/ DeliverFails(m)

Engine ==
  \/ BeginCycle \/ LoadTargets \/ LoadStates \/ EvaluateAndSave \/ TouchStates
  \/ PlanNotifications \/ ApplyPlan \/ Send \/ RecordSent \/ Requeue
  \/ MarkNotified \/ PurgeStates \/ Maintenance

Api ==
  \/ \E f \in Fps, d \in AckDurations : Ack(f, d)
  \/ \E f \in Fps : Unack(f)
  \/ \E t \in Targets :
       PauseTarget(t) \/ ForgetTarget(t) \/ ForgetFails(t) \/ ResumeTarget(t)

Environment == Tick \/ \E f \in Fps : ConditionChanges(f)

Faults == BookkeepingFails \/ DatabaseError \/ MaintenanceFails \/ Crash

Next == Engine \/ Faults \/ Api \/ Environment

Spec == Init /\ [][Next]_vars

\* The loop never stops (tokio's interval ticks for ever, a crashed server is
\* restarted), time passes, and a request that was accepted runs to its end.
FairSpec ==
  /\ Spec
  /\ WF_vars(Engine)
  /\ WF_vars(Tick)
  /\ \A t \in Targets : WF_vars(ForgetTarget(t))

-----------------------------------------------------------------------------
(* Properties.                                                             *)

PcValues ==
  {"idle", "targets", "states", "evaluate", "touch", "policy", "apply", "send",
   "record", "requeue", "purge"}

IsRows(r) == DOMAIN r \subseteq Fps /\ \A f \in DOMAIN r : r[f] \in AlertState

IsItems(i) == DOMAIN i \subseteq Fps /\ \A f \in DOMAIN i : i[f] \in Item

Message == [channel : Channels, rows : SUBSET QueueRow]

IsPlan(p) ==
  /\ DOMAIN p = {"outgoing", "enqueue", "dequeue", "flap_holds", "intake", "handled"}
  /\ p.outgoing \subseteq Message
  /\ p.enqueue \subseteq QueueRow
  /\ p.dequeue \subseteq Channels \X Fps
  /\ p.flap_holds \subseteq Fps
  /\ p.intake \subseteq LogEntry
  /\ p.handled \subseteq Fps

\* Every variable has its type, in every state of every interleaving.
TypeOK ==
  /\ clock \in Nat /\ now \in Nat /\ last_maintenance \in Nat
  /\ problem \subseteq Fps
  /\ enabled \subseteq Targets /\ forgetting \subseteq Targets
  /\ IsRows(row) /\ IsRows(prev)
  /\ queue \subseteq QueueRow
  /\ log \subseteq LogEntry
  /\ flap \in [Fps -> OptTime]
  /\ messages \subseteq SentMessage
  /\ pc \in PcValues
  /\ rules \subseteq Fps /\ carried \subseteq Fps
  /\ knows \in [acked : SUBSET Fps, forgotten : SUBSET Targets]
  /\ seen \subseteq Targets
  /\ IsItems(items) /\ IsPlan(plan)
  /\ sending \in IF pc \in {"record", "requeue"} THEN Message ELSE {NoMessage}
  /\ told \in [Channels \X Fps -> {"nothing", "problem", "flapping", "clear"}]
  /\ left \in [{"acks", "pauses", "faults", "sends"} -> Nat]

\* The timestamps of a state agree with its phase: only a settled alert has no
\* notification history, an active condition is dated, and an alert that was
\* announced has the date decide needs to remind, escalate or resolve it.
StateShape(s) ==
  /\ s.phase = "Ok" => /\ s.condition_since = NoTime /\ s.firing_since = NoTime
                       /\ s.resolved_at = NoTime /\ s.notify_count = 0
  /\ s.phase \in ActivePhases => s.condition_since # NoTime
  /\ s.phase = "Firing" => s.firing_since # NoTime /\ s.resolved_at = NoTime
  /\ s.phase = "Resolved" => /\ s.condition_since = NoTime
                             /\ s.firing_since # NoTime /\ s.resolved_at # NoTime
  /\ (s.notify_count = 0) <=> (s.last_notified_at = NoTime)
  /\ s.acked_until # NoTime => s.phase \in ActivePhases

\* Every stored row keeps that agreement, whatever the API handlers, errors and
\* crashes do between the transactions of a cycle: no row is left in a state
\* where decide's `?` silently mutes it, and no ack outlives its alert.
RowsCoherent == \A f \in DOMAIN row : StateShape(row[f])

AckUndisturbed ==
  \A f \in DOMAIN row \cap DOMAIN row' :
    /\ row[f].phase \in ActivePhases /\ row'[f].phase \in ActivePhases
    /\ row[f].acked_until > now /\ left'.acks = left.acks
    => row'[f].acked_until = row[f].acked_until

UnackUndisturbed ==
  \A f \in DOMAIN row \cap DOMAIN row' :
    row[f].acked_until = NoTime /\ row'[f].acked_until # NoTime
    => left'.acks < left.acks

\* save_states works from rows read earlier, yet never undoes what a user did in
\* between: as long as the alert stays active and the ack has not expired, only
\* a user's ack or unack changes it.
AckKept == [][AckUndisturbed]_vars

\* A cycle never resurrects an acknowledgement the user lifted while it ran.
UnackKept == [][UnackUndisturbed]_vars

\* The row of an alert that is firing for good reason is never dropped by the
\* end-of-cycle purge, whatever queries fail, whatever cycles are cut short and
\* whatever is paused and resumed while one runs.  (For a rule and a device that
\* the cycle read as enabled: the others lose their rows on purpose.)
FiringRowsSurvive ==
  [][\A f \in DOMAIN row :
       /\ row[f].phase = "Firing" /\ f \in problem /\ forgetting = {}
       /\ pc = "purge" => f \in rules /\ TargetOf[f] \in seen
       => f \in DOMAIN row']_vars

\* A cycle that knows the alert acknowledged sends nothing about the problem,
\* not even what waited in the queue: "le resume n'a pas a le lui repeter".
\* (A flapping notice may follow an ack: it answers the alert's resolution.)
AckSilencesQueue ==
  [][pc = "send" /\ pc' = "record" =>
       \A q \in sending'.rows :
         q.reason \notin {"Resolved", "Flapping"} => q.fp \notin knows.acked]_vars

\* During a flap hold only the flapping notice itself leaves.
FlapHoldSilence ==
  [][pc = "send" /\ pc' = "record" =>
       \A q \in sending'.rows : flap[q.fp] > now => q.reason = "Flapping"]_vars

\* No channel receives more than max_per_hour messages within an hour.
HourlyCap ==
  Global.max_per_hour > 0 =>
    \A c \in Channels :
      Cardinality({m \in messages : m.channel = c /\ m.at > now - Hour})
        <= Global.max_per_hour

\* Without failures, each channel hears of a firing, and of the escalation of
\* that firing, once.
OncePerEpisode ==
  \A f \in DOMAIN row : \A c \in Channels : \A reason \in {"Firing", "Unacked", "Escalation"} :
    row[f].phase = "Firing" =>
      Cardinality({e \in log : /\ e.channel = c /\ e.fp = f
                               /\ e.reason = reason
                               /\ e.at >= row[f].firing_since}) <= 1

\* A cycle that mutes an alert (a parent is down, a maintenance window, a
\* baseline still learning) does not count it as notified, so that what is said
\* when the mute ends is a first announcement.
MutedNotCounted ==
  [][pc = "send" /\ pc' = "purge" =>
       \A f \in DOMAIN row :
         /\ row[f].last_eval_at = now
         /\ row[f].suppressed \/ row[f].silenced \/ row[f].learning
         => row'[f].notify_count = row[f].notify_count]_vars

\* A cycle that read the target as paused or deleted, its alerts forgotten,
\* sends nothing about it: "Sans notification".
ForgottenStaysQuiet ==
  [][pc = "send" /\ pc' = "record" =>
       \A q \in sending'.rows : TargetOf[q.fp] \notin knows.forgotten]_vars

\* Once a complete cycle has evaluated a firing alert that nobody has acknowledged
\* and nothing mutes, its last notification is younger than the rule's repeat
\* interval: acks, unacks, expired acks, mutes that end and failed sends do not
\* stop the reminders for good.  (Except while its hand-off to the on-call channel
\* is due and waits for a first message to have left.)
RemindersOnTime ==
  pc = "purge" =>
    \A f \in DOMAIN row :
      /\ row[f].phase = "Firing" /\ f \in rules \ carried /\ TargetOf[f] \in seen
      /\ f \notin knows.acked /\ Rule[f].repeat > 0
      /\ ~(row[f].suppressed \/ row[f].silenced \/ row[f].learning)
      /\ ~Crossed(row[f], now, UnackedAfter)
      => now - row[f].last_notified_at < Rule[f].repeat

\* The pipeline implements Announcement: what channels hear follows the truth.
Promise == INSTANCE Announcement WITH heard <- told

\* No all-clear reaches a channel that was not told of the problem, and only
\* one channel hears a message, whatever is lost, repeated or interrupted.
AnnouncementSafety == Promise!Safety

\* In addition, a lasting problem is told, and its end is told to whoever heard.
AnnouncementSpec == Promise!Spec

\* A problem that lasts is told on every channel.
EveryProblemTold ==
  \A f \in Fps, c \in Channels :
    (f \in problem) ~> (f \notin problem \/ told[<<c, f>>] \in {"problem", "flapping"})

\* Alert f has a device above it that is really down.
Blocked(f) ==
  \E g \in problem : Rule[g].host_down /\ TargetOf[g] \in Ancestors[TargetOf[f]]

\* Suppression postpones and never loses: once nothing above the device is down,
\* a problem that lasts is told.
UnblockedProblemTold ==
  \A f \in Fps, c \in Channels :
    (f \in problem /\ ~Blocked(f))
      ~> (f \notin problem \/ Blocked(f) \/ told[<<c, f>>] \in {"problem", "flapping"})

\* A channel that was told of a problem hears when it is over.
EveryResolutionTold ==
  \A f \in Fps, c \in Channels :
    (told[<<c, f>>] = "problem" /\ f \notin problem)
      ~> (f \in problem \/ told[<<c, f>>] = "clear")

\* No line waits in the queue for ever, whatever the cap on messages, the
\* reminders that join it and the alerts that resolve meanwhile.  (For lines
\* queued while the saturating clock can still leave the hour of the cap.)
QueueDrains ==
  \A f \in Fps, c \in Channels :
    (\E q \in queue : Key(q) = <<c, f>> /\ q.queued_at + Hour < MaxClock)
      ~> (<<c, f>> \notin Keys(queue))
=============================================================================
