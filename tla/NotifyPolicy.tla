---------------------------- MODULE NotifyPolicy ----------------------------
(***************************************************************************)
(* The notification policy (alerting/notify_policy.rs): given the alerts   *)
(* that want to speak at this cycle and the ledger read from the database, *)
(* which queue rows appear or disappear, which messages leave, and which   *)
(* alerts count as handled.                                                *)
(*                                                                         *)
(* The in-memory queue of plan() is a set of rows, at most one per channel *)
(* and fingerprint (the table's UNIQUE constraint).  An item touches only  *)
(* the rows of its own fingerprint, so the loop over groups and items is a *)
(* union over fingerprints, and only flush looks across them.              *)
(***************************************************************************)
EXTENDS AlertMachine, FiniteSets

CONSTANTS
  Fps,            \* fingerprints: one rule on one series of one target
  Channels,       \* notification channels
  Targets,        \* monitored devices
  TargetOf,       \* [Fps -> Targets]
  Rule,           \* [Fps -> the rule's settings, see RuleType]
  Policy,         \* [Channels -> the channel's policy, see PolicyType]
  Global,         \* the global policy, see GlobalType
  Hour            \* LEDGER_HOUR_SECS in ticks of the clock

\* The pipeline's own entries of notify_log (channel_id = 0 in the code).
Intake == "intake"

ASSUME IntakeAssumption == Intake \notin Channels

RuleType ==
  [ for : Nat, severity : 0..2, repeat : OptTime, escalate_after : OptTime,
    channels : SUBSET Channels, host_down : BOOLEAN ]

PolicyType ==
  [ min_severity : 0..2, notify_resolved : BOOLEAN, min_interval : Nat,
    quiet : SUBSET Time, accepts : SUBSET Fps, oncall : BOOLEAN ]

GlobalType ==
  [ window : Nat, max_per_hour : Nat, flap_events : Nat, flap_window : Nat,
    flap_hold : Nat, escalate_after : Nat,
    escalate_channel : Channels \cup {"none"} ]

ASSUME PolicyAssumption ==
  /\ TargetOf \in [Fps -> Targets]
  /\ Rule \in [Fps -> RuleType]
  /\ Policy \in [Channels -> PolicyType]
  /\ Global \in GlobalType
  /\ Hour \in Nat \ {0}

Item == [reason : Reasons, severity : 0..2]

QueueRow ==
  [ channel : Channels, fp : Fps, reason : Reasons, severity : 0..2,
    hold : {"Batch", "Quiet"}, resolved_meanwhile : BOOLEAN,
    queued_at : Int ]

LogEntry ==
  [channel : Channels \cup {Intake}, fp : Fps, reason : Reasons, at : Time]

\* A row of notify_messages; the fingerprints tell apart the messages that an
\* on-call channel receives at the same instant, one per device.
SentMessage == [channel : Channels, fps : SUBSET Fps, at : Time]

Key(q) == <<q.channel, q.fp>>

Keys(rows) == {Key(q) : q \in rows}

\* INSERT ... ON CONFLICT(channel_id, fingerprint) DO UPDATE, for a set of rows.
Upsert(queue, rows) == {q \in queue : Key(q) \notin Keys(rows)} \cup rows

EscalationOn == Global.escalate_after > 0 /\ Global.escalate_channel # "none"

\* unacked_after, handed to decide with each alert of the cycle.
UnackedAfter == IF EscalationOn THEN Global.escalate_after ELSE NoTime

-----------------------------------------------------------------------------
(* Flap detection.                                                         *)

StateChange(reason) == reason \in {"Firing", "Resolved"}

IntakeEntries(items, now) ==
  {[channel |-> Intake, fp |-> f, reason |-> items[f].reason, at |-> now] :
     f \in {g \in DOMAIN items : StateChange(items[g].reason)}}

Held(L, f, now) == L.flap[f] > now

Changes(L, items, f, now) ==
  Cardinality({e \in L.log \cup IntakeEntries(items, now) :
                 /\ e.channel = Intake
                 /\ e.fp = f
                 /\ e.at > now - Global.flap_window})

Trips(L, items, f, now) ==
  /\ ~Held(L, f, now)
  /\ Global.flap_events > 0
  /\ StateChange(items[f].reason)
  /\ Changes(L, items, f, now) >= Global.flap_events

Flapping(L, items, now) ==
  {f \in DOMAIN items : Held(L, f, now) \/ Trips(L, items, f, now)}

\* purge_fingerprint: what a flapping alert had waiting, on every channel.
Purged(L, items, now) == {q \in L.queue : q.fp \in Flapping(L, items, now)}

EffectiveItem(L, items, f, now) ==
  IF Trips(L, items, f, now)
  THEN [items[f] EXCEPT !.reason = "Flapping"]
  ELSE items[f]

-----------------------------------------------------------------------------
(* Routing of one item to one channel.                                     *)

InQuietHours(c, now) == now \in Policy[c].quiet

SentOn(L, c, f) == {e \in L.log : e.channel = c /\ e.fp = f}

LastSent(L, c, f) ==
  CHOOSE e \in SentOn(L, c, f) : \A d \in SentOn(L, c, f) : d.at <= e.at

AnnouncedOn(L, c, f) ==
  SentOn(L, c, f) # {} /\ FiringLike(LastSent(L, c, f).reason)

Cooldown(L, c, f, now) ==
  /\ Policy[c].min_interval > 0
  /\ SentOn(L, c, f) # {}
  /\ now - LastSent(L, c, f).at < Policy[c].min_interval

\* Mutant: a resolution is announced without asking who heard of the firing.
RejectedBlindly(L, waiting, c, f, item, now) ==
  \/ /\ item.reason # "Unacked"
     /\ item.severity < Policy[c].min_severity \/ f \notin Policy[c].accepts
  \/ item.reason = "Resolved" /\ ~Policy[c].notify_resolved
  \/ /\ item.reason \notin {"Resolved", "Unacked", "Flapping"}
     /\ Cooldown(L, c, f, now)

\* The early returns of route: nothing is queued and the queue is untouched.
Rejected(L, waiting, c, f, item, now) ==
  \/ /\ item.reason # "Unacked"
     /\ item.severity < Policy[c].min_severity \/ f \notin Policy[c].accepts
  \/ /\ item.reason = "Resolved"
     /\ \/ ~Policy[c].notify_resolved
        \/ waiting = {} /\ ~AnnouncedOn(L, c, f)
  \/ /\ item.reason \notin {"Resolved", "Unacked", "Flapping"}
     /\ Cooldown(L, c, f, now)

HoldFor(c, item, now) ==
  IF /\ item.reason # "Unacked"
     /\ InQuietHours(c, now)
     /\ item.severity < 2
  THEN "Quiet"
  ELSE "Batch"

NewRow(c, f, item, now) ==
  [ channel |-> c, fp |-> f, reason |-> item.reason,
    severity |-> item.severity, hold |-> HoldFor(c, item, now),
    resolved_meanwhile |-> FALSE, queued_at |-> now ]

\* A resolution that catches up with its own waiting firing becomes a mention;
\* anything else takes the row over, and a reminder never demotes a firing.
MergedRow(q, item, now) ==
  IF item.reason = "Resolved"
  THEN [q EXCEPT !.reason = "Resolved", !.severity = item.severity,
                 !.resolved_meanwhile = @ \/ FiringLike(q.reason)]
  ELSE [q EXCEPT !.reason = IF q.reason = "Firing" /\ item.reason = "Reminder"
                            THEN "Firing" ELSE item.reason,
                 !.severity = item.severity,
                 !.hold = HoldFor(q.channel, item, now),
                 !.resolved_meanwhile = FALSE]

\* The row the item leaves on the channel: none when it is rejected.
Route(L, queue, c, f, item, now) ==
  LET waiting == {q \in queue : q.channel = c /\ q.fp = f} IN
  IF Rejected(L, waiting, c, f, item, now) THEN {}
  ELSE IF waiting = {} THEN {NewRow(c, f, item, now)}
  ELSE {MergedRow(q, item, now) : q \in waiting}

-----------------------------------------------------------------------------
(* Recipients of an item.                                                  *)

\* A group is a target; one rule that names no channel broadcasts the group,
\* otherwise the group goes to the union of the channels its rules name.
GroupRecipients(items, f, on) ==
  LET group == {g \in DOMAIN items : TargetOf[g] = TargetOf[f]} IN
  IF \E g \in group : Rule[g].channels = {}
  THEN on
  ELSE on \cap UNION {Rule[g].channels : g \in group}

\* First message about the problem that really left, on any channel.
FirstSent(L, f) ==
  {e \in L.log : e.channel # Intake /\ e.fp = f /\ FiringLike(e.reason)}

HandoffDue(L, f, now) ==
  \E e \in FirstSent(L, f) : now >= e.at + Global.escalate_after

\* Mutant: a flap hold is recorded but not honoured.
SpeaksWhileHeld(L, items, f, on, now) == GroupRecipients(items, f, on) # {}

\* The item reaches routing: it is not held, and its group has a recipient.
Speaks(L, items, f, on, now) ==
  ~Held(L, f, now) /\ GroupRecipients(items, f, on) # {}

\* handoff's early returns that take the alert back out of `handled`.
HandoffWaits(L, items, on, now) ==
  {f \in DOMAIN items :
     /\ items[f].reason = "Unacked"
     /\ Speaks(L, items, f, on, now)
     /\ EscalationOn
     /\ ~HandoffDue(L, f, now)}

Recipients(L, items, f, on, now) ==
  IF ~Speaks(L, items, f, on, now) THEN {}
  ELSE IF items[f].reason # "Unacked" THEN GroupRecipients(items, f, on)
  ELSE IF EscalationOn /\ HandoffDue(L, f, now)
  THEN on \cap {Global.escalate_channel}
  ELSE {}

Routed(L, items, on, now) ==
  LET queue == L.queue \ Purged(L, items, now) IN
  UNION {UNION {Route(L, queue, c, f, EffectiveItem(L, items, f, now), now) :
                  c \in Recipients(L, items, f, on, now)} : f \in DOMAIN items}

-----------------------------------------------------------------------------
(* flush: what is ripe in a channel's queue.                               *)

Window(c) == IF Policy[c].oncall THEN 0 ELSE Global.window

MessagesInHour(L, c, now) ==
  Cardinality({m \in L.messages : m.channel = c /\ m.at > now - Hour})

\* Mutant: off by one.
CappedLate(L, c, now) ==
  /\ Global.max_per_hour > 0
  /\ MessagesInHour(L, c, now) > Global.max_per_hour

Capped(L, c, now) ==
  /\ Global.max_per_hour > 0
  /\ MessagesInHour(L, c, now) >= Global.max_per_hour

TakeQuiet(mine, c, now) ==
  (\E q \in mine : q.hold = "Quiet") /\ ~InQuietHours(c, now)

TakeBatch(mine, c, now) ==
  \/ \E q \in mine : q.hold = "Batch" /\ now - q.queued_at >= Window(c)
  \/ TakeQuiet(mine, c, now)

Ready(L, queue, c, now) ==
  LET mine == {q \in queue : q.channel = c} IN
  IF Capped(L, c, now) THEN {}
  ELSE {q \in mine : \/ q.hold = "Batch" /\ TakeBatch(mine, c, now)
                     \/ q.hold = "Quiet" /\ TakeQuiet(mine, c, now)}

\* One message per channel, or one per device on an on-call channel.
Messages(L, queue, on, now) ==
  LET messagesOf(c) ==
        LET ready == Ready(L, queue, c, now) IN
        IF Policy[c].oncall
        THEN {[channel |-> c, rows |-> {q \in ready : TargetOf[q.fp] = t}] :
                t \in {TargetOf[q.fp] : q \in ready}}
        ELSE {[channel |-> c, rows |-> ready]}
  IN {m \in UNION {messagesOf(c) : c \in on} : m.rows # {}}

-----------------------------------------------------------------------------
\* plan(): everything the engine applies.  L is the ledger, items maps the
\* fingerprints that speak to their item, on is the set of enabled channels.
Plan(L, items, on, now) ==
  LET purged   == Purged(L, items, now)
      routed   == Routed(L, items, on, now)
      queue    == Upsert(L.queue \ purged, routed)
      outgoing == Messages(L, queue, on, now)
      leaving  == UNION {m.rows : m \in outgoing}
  IN [ outgoing   |-> outgoing,
       enqueue    |-> routed \ leaving,
       dequeue    |-> Keys(purged),
       flap_holds |-> {f \in DOMAIN items : Trips(L, items, f, now)},
       intake     |-> IntakeEntries(items, now),
       handled    |-> DOMAIN items \ HandoffWaits(L, items, on, now) ]

\* lookback: the window of notify_log that a decision may need.
Lookback ==
  LET windows == {Hour, Global.flap_window, Global.escalate_after + Hour}
                   \cup {Policy[c].min_interval : c \in Channels}
  IN CHOOSE w \in windows : \A v \in windows : v <= w
=============================================================================
