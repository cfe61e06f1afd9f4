---------------------------- MODULE AlertMachine ----------------------------
(***************************************************************************)
(* The life of one alert, as pure operators: the state machine of          *)
(* alerting/machine.rs (one record per fingerprint and the function that   *)
(* moves it by one evaluation), the decision of alerting/group.rs to speak *)
(* or not at this cycle, and the ack-preserving upsert of db/alerts.rs.    *)
(*                                                                         *)
(* An Option<DateTime> is a natural number or NoTime.  Values, scores,     *)
(* names and notes are left out: no decision modelled here reads them.     *)
(***************************************************************************)
EXTENDS Integers

NoTime == -1

Time == Nat

OptTime == Time \cup {NoTime}

Phases == {"Ok", "Pending", "Firing", "Resolved"}

\* Reasons a line of a message can carry (NotifyReason); "None" is decide's None.
Reasons == {"Firing", "Reminder", "Escalation", "Unacked", "Flapping", "Resolved"}

FiringLike(reason) == reason # "Resolved"

AlertState ==
  [ phase            : Phases,
    condition_since  : OptTime,
    firing_since     : OptTime,
    resolved_at      : OptTime,
    last_eval_at     : OptTime,
    last_notified_at : OptTime,
    notify_count     : Nat,
    suppressed       : BOOLEAN,
    silenced         : BOOLEAN,
    learning         : BOOLEAN,
    acked_until      : OptTime ]

DefaultState ==
  [ phase            |-> "Ok",
    condition_since  |-> NoTime,
    firing_since     |-> NoTime,
    resolved_at      |-> NoTime,
    last_eval_at     |-> NoTime,
    last_notified_at |-> NoTime,
    notify_count     |-> 0,
    suppressed       |-> FALSE,
    silenced         |-> FALSE,
    learning         |-> FALSE,
    acked_until      |-> NoTime ]

ActivePhases == {"Pending", "Firing"}

IsAcked(s, now) ==
  /\ s.phase \in ActivePhases
  /\ s.acked_until # NoTime
  /\ s.acked_until > now

-----------------------------------------------------------------------------
(* advance: one evaluation of the condition.                               *)

\* Mutant: an alert back to Ok keeps its notification history.
ConditionFallsUnsettled(s, now) ==
  [s EXCEPT !.phase = IF s.phase = "Firing" THEN "Resolved" ELSE "Ok",
            !.condition_since = NoTime, !.last_eval_at = now,
            !.acked_until = NoTime,
            !.resolved_at = IF s.phase = "Firing" THEN now ELSE NoTime,
            !.firing_since = IF s.phase = "Firing" THEN @ ELSE NoTime]

\* The condition is false: a firing alert resolves, anything else is Ok, and
\* leaving a phase other than Ok for Ok settles the notification history.
ConditionFalls(s, now) ==
  LET settled == s.phase \in {"Pending", "Resolved"} IN
  IF s.phase = "Firing"
  THEN [s EXCEPT !.phase = "Resolved", !.condition_since = NoTime,
                 !.resolved_at = now, !.last_eval_at = now,
                 !.acked_until = NoTime]
  ELSE [s EXCEPT !.phase = "Ok", !.condition_since = NoTime,
                 !.resolved_at = NoTime, !.firing_since = NoTime,
                 !.last_eval_at = now, !.acked_until = NoTime,
                 !.last_notified_at = IF settled THEN NoTime ELSE @,
                 !.notify_count = IF settled THEN 0 ELSE @]

\* When the condition that holds now began.
Since(s, now) ==
  IF s.phase \in ActivePhases /\ s.condition_since # NoTime
  THEN s.condition_since
  ELSE now

\* The condition is true: pending until it has held for `for`, then firing.
\* The difference is signed, so a clock that goes back never fires early.
ConditionHolds(s, now, for) ==
  LET since == Since(s, now) IN
  IF s.phase = "Firing"
  THEN [s EXCEPT !.condition_since = since, !.last_eval_at = now]
  ELSE IF now - since >= for
  THEN [s EXCEPT !.phase = "Firing", !.condition_since = since,
                 !.firing_since = now, !.resolved_at = NoTime,
                 !.last_eval_at = now]
  ELSE [s EXCEPT !.phase = "Pending", !.condition_since = since,
                 !.last_eval_at = now]

Advance(s, condition, now, for) ==
  IF condition THEN ConditionHolds(s, now, for) ELSE ConditionFalls(s, now)

-----------------------------------------------------------------------------
(* decide: whether an evaluated alert speaks at this cycle, and why.       *)

\* Mutant: nothing says that the crossing was already announced.
CrossedAgain(s, now, delay) ==
  /\ delay # NoTime
  /\ s.firing_since # NoTime
  /\ s.firing_since + delay <= now

\* A delay counted from firing_since has just been crossed: it is over, and
\* the last notification went out before it was.
Crossed(s, now, delay) ==
  /\ delay # NoTime
  /\ s.firing_since # NoTime
  /\ s.last_notified_at < s.firing_since + delay
  /\ s.firing_since + delay <= now

\* Mutant: the reminder is one evaluation late.
DecideFiringLate(s, now, rule) ==
  IF IsAcked(s, now) THEN "None"
  ELSE IF s.notify_count = 0 THEN "Firing"
  ELSE IF s.last_notified_at = NoTime THEN "None"
  ELSE IF Crossed(s, now, rule.escalate_after) THEN "Escalation"
  ELSE IF Crossed(s, now, rule.unacked_after) THEN "Unacked"
  ELSE IF rule.repeat # NoTime /\ now - s.last_notified_at > rule.repeat
  THEN "Reminder"
  ELSE "None"

DecideFiring(s, now, rule) ==
  IF IsAcked(s, now) THEN "None"
  ELSE IF s.notify_count = 0 THEN "Firing"
  ELSE IF s.last_notified_at = NoTime THEN "None"
  ELSE IF Crossed(s, now, rule.escalate_after) THEN "Escalation"
  ELSE IF Crossed(s, now, rule.unacked_after) THEN "Unacked"
  ELSE IF rule.repeat # NoTime /\ now - s.last_notified_at >= rule.repeat
  THEN "Reminder"
  ELSE "None"

DecideResolved(s) ==
  IF /\ s.notify_count > 0
     /\ s.resolved_at # NoTime
     /\ s.last_notified_at # NoTime
     /\ s.last_notified_at < s.resolved_at
  THEN "Resolved"
  ELSE "None"

\* Mutant: no overlay mutes.
DecideWhileMuted(s, now, rule) ==
  IF s.phase = "Firing" THEN DecideFiring(s, now, rule)
  ELSE IF s.phase = "Resolved" THEN DecideResolved(s)
  ELSE "None"

\* rule: [escalate_after, unacked_after, repeat], each a delay or NoTime.
Decide(s, now, rule) ==
  IF s.suppressed \/ s.silenced \/ s.learning THEN "None"
  ELSE IF s.phase = "Firing" THEN DecideFiring(s, now, rule)
  ELSE IF s.phase = "Resolved" THEN DecideResolved(s)
  ELSE "None"

\* Mutant: no rung is the last one.
EscalatedUnbounded(severity) == severity + 1

\* Severities are 0 (info), 1 (warning), 2 (critical).
Escalated(severity) == IF severity = 2 THEN 2 ELSE severity + 1

EffectiveSeverity(s, now, severity, escalate_after) ==
  IF /\ escalate_after # NoTime
     /\ s.firing_since # NoTime
     /\ s.firing_since + escalate_after <= now
  THEN Escalated(severity)
  ELSE severity

-----------------------------------------------------------------------------
(* save_states: the upsert of an evaluated state over the stored row.  The *)
(* acknowledgement is the one column the row keeps, as long as it still    *)
(* has an object: the alert is active and the ack outlives this cycle.     *)

\* Mutant: the row takes what the cycle read before the user acted.
MergeAckOverwrites(stored, evaluated) == evaluated

\* Mutant: an ack the cycle still remembers fills an empty column.
MergeAckCoalesces(stored, evaluated) ==
  IF stored.acked_until = NoTime THEN evaluated
  ELSE [evaluated EXCEPT !.acked_until = stored.acked_until]

MergeAck(stored, evaluated) ==
  IF /\ evaluated.phase \in ActivePhases
     /\ stored.acked_until # NoTime
     /\ stored.acked_until > evaluated.last_eval_at
  THEN [evaluated EXCEPT !.acked_until = stored.acked_until]
  ELSE [evaluated EXCEPT !.acked_until = NoTime]

\* mark_notified: the alert counts as told at this cycle.
Noted(s, now) == [s EXCEPT !.last_notified_at = now, !.notify_count = @ + 1]
=============================================================================
