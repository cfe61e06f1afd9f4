------------------------- MODULE AlertEngineProofs --------------------------
(***************************************************************************)
(* Proofs about AlertEngine, for every set of alerts, channels and devices,*)
(* every policy and every bound: the type invariant, the coherence of the  *)
(* stored rows, and the survival of acknowledgements.                      *)
(***************************************************************************)
EXTENDS AlertEngine, TLAPS

-----------------------------------------------------------------------------
(* The state machine of one alert.                                         *)

\* One evaluation turns a state into a state, dated by the cycle.
LEMMA AdvanceType ==
  ASSUME NEW s \in AlertState, NEW condition \in BOOLEAN, NEW t \in Nat,
         NEW for \in Nat
  PROVE  /\ Advance(s, condition, t, for) \in AlertState
         /\ Advance(s, condition, t, for).last_eval_at = t
<1>1. ConditionFalls(s, t) \in AlertState /\ ConditionFalls(s, t).last_eval_at = t
  BY DEF ConditionFalls, AlertState, OptTime, Time, NoTime, Phases
<1>2. /\ ConditionHolds(s, t, for) \in AlertState
      /\ ConditionHolds(s, t, for).last_eval_at = t
  BY DEF ConditionHolds, Since, AlertState, OptTime, Time, NoTime, Phases, ActivePhases
<1> QED
  BY <1>1, <1>2 DEF Advance

\* advance keeps the timestamps of a state in agreement with its phase, even
\* when the clock goes back.
LEMMA AdvanceShape ==
  ASSUME NEW s \in AlertState, NEW condition \in BOOLEAN, NEW t \in Nat,
         NEW for \in Nat, StateShape(s)
  PROVE  StateShape(Advance(s, condition, t, for))
<1>1. StateShape(ConditionFalls(s, t))
  BY DEF StateShape, ConditionFalls, AlertState, OptTime, Time, NoTime, Phases, ActivePhases
<1>2. StateShape(ConditionHolds(s, t, for))
  BY DEF StateShape, ConditionHolds, Since, AlertState, OptTime, Time, NoTime, Phases,
         ActivePhases
<1> QED
  BY <1>1, <1>2 DEF Advance

\* AlertState::default() is a well-formed state at rest.
LEMMA DefaultStateOK == DefaultState \in AlertState /\ StateShape(DefaultState)
  BY DEF DefaultState, AlertState, StateShape, OptTime, Time, NoTime, Phases, ActivePhases

\* The upsert of save_states changes nothing but the acknowledgement.
LEMMA MergeAckOK ==
  ASSUME NEW stored \in AlertState, NEW evaluated \in AlertState
  PROVE  /\ MergeAck(stored, evaluated) \in AlertState
         /\ StateShape(evaluated) => StateShape(MergeAck(stored, evaluated))
         /\ MergeAck(stored, evaluated).phase = evaluated.phase
  BY DEF MergeAck, AlertState, StateShape, OptTime, Time, NoTime, Phases, ActivePhases

\* An alert that speaks may be counted as told.
LEMMA NotedOK ==
  ASSUME NEW s \in AlertState, NEW t \in Nat
  PROVE  /\ Noted(s, t) \in AlertState
         /\ StateShape(s) /\ s.phase \in {"Firing", "Resolved"} => StateShape(Noted(s, t))
         /\ Noted(s, t).phase = s.phase
<1> DEFINE count == s.notify_count + 1
<1>1. count \in Nat /\ count # 0
  BY DEF AlertState
<1>2. Noted(s, t) = [s EXCEPT !.last_notified_at = t, !.notify_count = count]
  BY DEF Noted
<1> HIDE DEF count
<1>3. Noted(s, t) \in AlertState
  BY <1>1, <1>2 DEF AlertState, OptTime, Time
<1>4. /\ Noted(s, t).last_notified_at # NoTime
      /\ Noted(s, t).notify_count # 0
  BY <1>1, <1>2 DEF AlertState, NoTime
<1>5. /\ Noted(s, t).phase = s.phase
      /\ Noted(s, t).condition_since = s.condition_since
      /\ Noted(s, t).firing_since = s.firing_since
      /\ Noted(s, t).resolved_at = s.resolved_at
      /\ Noted(s, t).acked_until = s.acked_until
  BY <1>2 DEF AlertState
<1>6. StateShape(s) /\ s.phase \in {"Firing", "Resolved"} => StateShape(Noted(s, t))
  BY <1>4, <1>5 DEF StateShape
<1> QED
  BY <1>3, <1>5, <1>6

\* Only a firing or a resolved alert speaks.
LEMMA DecidePhase ==
  ASSUME NEW s \in AlertState, NEW t, NEW rule, Decide(s, t, rule) # "None"
  PROVE  /\ s.phase \in {"Firing", "Resolved"}
         /\ Decide(s, t, rule) \in Reasons
<1>1. DecideFiring(s, t, rule) \in Reasons \cup {"None"}
  BY DEF DecideFiring, Reasons
<1>2. DecideResolved(s) \in Reasons \cup {"None"}
  BY DEF DecideResolved, Reasons
<1> QED
  BY <1>1, <1>2 DEF Decide

-----------------------------------------------------------------------------
(* The notification policy.                                                *)

\* What load_ledger returns.
IsLedger(L) ==
  /\ L.queue \subseteq QueueRow
  /\ L.log \subseteq LogEntry
  /\ L.flap \in [Fps -> OptTime]
  /\ L.messages \subseteq SentMessage

\* The rows that route builds or rewrites are rows of the queue table.
LEMMA RowTypes ==
  ASSUME NEW c \in Channels, NEW f \in Fps, NEW item \in Item, NEW t \in Nat
  PROVE  /\ NewRow(c, f, item, t) \in QueueRow
         /\ \A q \in QueueRow : MergedRow(q, item, t) \in QueueRow
<1>1. \A d : HoldFor(d, item, t) \in {"Batch", "Quiet"}
  BY DEF HoldFor
<1>2. NewRow(c, f, item, t) \in QueueRow
  BY <1>1 DEF NewRow, QueueRow, Item
<1>3. ASSUME NEW q \in QueueRow
      PROVE  MergedRow(q, item, t) \in QueueRow
  <2> DEFINE mention == q.resolved_meanwhile \/ FiringLike(q.reason)
  <2>1. mention \in BOOLEAN
    BY Zenon
  <2>2. CASE item.reason = "Resolved"
    <3> HIDE DEF mention
    <3>1. MergedRow(q, item, t) =
            [q EXCEPT !.reason = "Resolved", !.severity = item.severity,
                      !.resolved_meanwhile = mention]
      BY <2>2, Zenon DEF MergedRow, mention
    <3> QED
      BY <2>1, <3>1 DEF QueueRow, Item, Reasons
  <2>3. CASE item.reason # "Resolved"
    BY <1>1, <2>3 DEF MergedRow, QueueRow, Item, Reasons
  <2> QED
    BY <2>2, <2>3
<1> QED
  BY <1>2, <1>3

\* An item keeps its type when flap detection rewrites its reason.
LEMMA EffectiveItemType ==
  ASSUME NEW L, NEW is, IsItems(is), NEW f \in DOMAIN is, NEW t
  PROVE  EffectiveItem(L, is, f, t) \in Item
  BY DEF EffectiveItem, IsItems, Item, Reasons

\* Whatever the policy routes is a queue row of an enabled channel.
LEMMA RoutedType ==
  ASSUME NEW L, IsLedger(L), NEW is, IsItems(is), NEW on \in SUBSET Channels,
         NEW t \in Nat
  PROVE  Routed(L, is, on, t) \subseteq QueueRow
<1> DEFINE Q == L.queue \ Purged(L, is, t)
<1>1. Q \subseteq QueueRow
  BY DEF IsLedger
<1>2. ASSUME NEW f \in DOMAIN is, NEW c \in Recipients(L, is, f, on, t)
      PROVE  Route(L, Q, c, f, EffectiveItem(L, is, f, t), t) \subseteq QueueRow
  <2>1. f \in Fps /\ EffectiveItem(L, is, f, t) \in Item
    BY EffectiveItemType DEF IsItems
  <2>2. c \in Channels
    BY <1>2 DEF Recipients, GroupRecipients
  <2> QED
    BY <1>1, <2>1, <2>2, RowTypes DEF Route
<1>3. ASSUME NEW q \in Routed(L, is, on, t)
      PROVE  q \in QueueRow
  <2>1. PICK f \in DOMAIN is :
          q \in UNION {Route(L, Q, c, f, EffectiveItem(L, is, f, t), t) :
                        c \in Recipients(L, is, f, on, t)}
    BY Zenon DEF Routed
  <2>2. PICK c \in Recipients(L, is, f, on, t) :
          q \in Route(L, Q, c, f, EffectiveItem(L, is, f, t), t)
    BY <2>1, Zenon
  <2> QED
    BY <1>2, <2>2, Zenon
<1> QED
  BY <1>3

\* flush only makes messages of queue rows.
LEMMA MessagesType ==
  ASSUME NEW L, NEW Q \in SUBSET QueueRow, NEW on \in SUBSET Channels, NEW t
  PROVE  Messages(L, Q, on, t) \subseteq Message
<1>1. \A c \in on : Ready(L, Q, c, t) \subseteq QueueRow
  BY DEF Ready
<1> QED
  BY <1>1 DEF Messages, Message

\* plan() returns a plan over the alerts it was given.
LEMMA PlanType ==
  ASSUME NEW L, IsLedger(L), NEW is, IsItems(is), NEW on \in SUBSET Channels,
         NEW t \in Nat
  PROVE  /\ IsPlan(Plan(L, is, on, t))
         /\ Plan(L, is, on, t).handled \subseteq DOMAIN is
<1> DEFINE P == Plan(L, is, on, t)
           purged == Purged(L, is, t)
           routed == Routed(L, is, on, t)
           Q == Upsert(L.queue \ purged, routed)
<1>1. purged \subseteq QueueRow
  BY DEF Purged, IsLedger
<1>2. routed \subseteq QueueRow
  BY RoutedType
<1>3. Q \in SUBSET QueueRow
  BY <1>2 DEF Upsert, IsLedger
<1>4. P.outgoing \subseteq Message
  BY <1>3, MessagesType DEF Plan
<1>5. P.enqueue \subseteq QueueRow
  BY <1>2 DEF Plan
<1>6. P.dequeue \subseteq Channels \X Fps
  BY <1>1 DEF Plan, Keys, Key, QueueRow
<1>7. P.flap_holds \subseteq Fps
  BY DEF Plan, IsItems
<1>8. P.intake \subseteq LogEntry
  BY DEF Plan, IntakeEntries, LogEntry, IsItems, Item, Time
<1>9. P.handled \subseteq DOMAIN is /\ P.handled \subseteq Fps
  BY DEF Plan, IsItems
<1>10. DOMAIN P = {"outgoing", "enqueue", "dequeue", "flap_holds", "intake", "handled"}
  BY DEF Plan
<1> QED
  BY <1>4, <1>5, <1>6, <1>7, <1>8, <1>9, <1>10 DEF IsPlan

-----------------------------------------------------------------------------
(* plan_cycle.                                                             *)

\* An evaluation gives typed rows dated by the cycle, coherent if those it
\* started from were.
LEMMA OutcomeOK ==
  ASSUME TypeOK, NEW obs \in TruthfulObservations, NEW flagged, NEW silences
  PROVE  /\ IsRows(Outcome(obs, flagged, silences))
         /\ \A f \in DOMAIN Outcome(obs, flagged, silences) :
              /\ Outcome(obs, flagged, silences)[f].last_eval_at = now
              /\ (\A g \in DOMAIN prev : StateShape(prev[g]))
                   => StateShape(Outcome(obs, flagged, silences)[f])
<1> DEFINE down == DownTargets(obs, flagged)
           O == Outcome(obs, flagged, silences)
<1>1. DOMAIN O = EvaluatedFps(obs) /\ DOMAIN O \subseteq Fps
  BY DEF Outcome, EvaluatedFps, TypeOK
<1>2. ASSUME NEW f \in EvaluatedFps(obs)
      PROVE  /\ O[f] \in AlertState
             /\ O[f].last_eval_at = now
             /\ (\A g \in DOMAIN prev : StateShape(prev[g])) => StateShape(O[f])
  <2> DEFINE b == Before(f)
             cond == obs[f] \in {"true", "learning"}
             next == Advance(b, cond, now, Rule[f].for)
             adv == Advanced(f, obs[f])
             sup == Suppressed(f, down)
             sil == f \in silences
             learn == obs[f] = "learning"
  <2>1. f \in Fps /\ Rule[f].for \in Nat
    BY PolicyAssumption DEF EvaluatedFps, TypeOK, RuleType
  <2>2. b \in AlertState
    BY DefaultStateOK DEF Before, TypeOK, IsRows, AlertState
  <2>3. (\A g \in DOMAIN prev : StateShape(prev[g])) => StateShape(b)
    BY DefaultStateOK DEF Before, TypeOK, IsRows, AlertState, StateShape
  <2>4. cond \in BOOLEAN /\ sup \in BOOLEAN /\ sil \in BOOLEAN /\ learn \in BOOLEAN
    <3>1. cond \in BOOLEAN
      OBVIOUS
    <3>2. sup \in BOOLEAN
      BY DEF Suppressed
    <3>3. sil \in BOOLEAN
      OBVIOUS
    <3>4. learn \in BOOLEAN
      OBVIOUS
    <3> HIDE DEF cond, sup, sil, learn
    <3> QED
      BY <3>1, <3>2, <3>3, <3>4
  <2>5. now \in Nat
    BY DEF TypeOK
  <2> HIDE DEF b, cond, sup, sil, learn
  <2>6. next \in AlertState /\ next.last_eval_at = now
    <3>1. \A s \in AlertState, condition \in BOOLEAN, t, for \in Nat :
            /\ Advance(s, condition, t, for) \in AlertState
            /\ Advance(s, condition, t, for).last_eval_at = t
      BY AdvanceType
    <3>2. cond \in BOOLEAN /\ Rule[f].for \in Nat
      BY <2>1, <2>4
    <3> QED
      BY <2>2, <2>5, <3>1, <3>2
  <2>7. (\A g \in DOMAIN prev : StateShape(prev[g])) => StateShape(next)
    <3>1. \A s \in AlertState, condition \in BOOLEAN, t, for \in Nat :
            StateShape(s) => StateShape(Advance(s, condition, t, for))
      BY AdvanceShape
    <3>2. cond \in BOOLEAN /\ Rule[f].for \in Nat
      BY <2>1, <2>4
    <3> QED
      BY <2>2, <2>3, <2>5, <3>1, <3>2
  <2> HIDE DEF next
  <2>8. adv = IF Observed(f, obs[f]) THEN [next EXCEPT !.learning = learn] ELSE next
    BY Zenon DEF Advanced, next, b, cond, learn
  <2>9. /\ adv \in AlertState /\ adv.last_eval_at = now
        /\ (\A g \in DOMAIN prev : StateShape(prev[g])) => StateShape(adv)
    BY <2>4, <2>6, <2>7, <2>8 DEF AlertState, StateShape
  <2> HIDE DEF adv
  <2>10. O[f] = [adv EXCEPT !.suppressed = sup, !.silenced = sil]
    BY DEF Outcome, adv, sup, sil
  <2> QED
    BY <2>4, <2>9, <2>10 DEF AlertState, StateShape
<1> QED
  BY <1>1, <1>2 DEF IsRows

\* group() yields one typed item per alert that speaks.
LEMMA GroupItemsType ==
  ASSUME TypeOK, NEW O, IsRows(O)
  PROVE  /\ IsItems(GroupItems(O))
         /\ \A f \in DOMAIN GroupItems(O) :
              f \in DOMAIN O /\ O[f].phase \in {"Firing", "Resolved"}
<1> DEFINE G == GroupItems(O)
<1>1. \A f \in DOMAIN G :
        /\ f \in DOMAIN O
        /\ Decide(O[f], now, DecideSettings(f)) # "None"
        /\ G[f] = [reason |-> Decide(O[f], now, DecideSettings(f)),
                   severity |-> EffectiveSeverity(O[f], now, Rule[f].severity,
                                                  Rule[f].escalate_after)]
  BY DEF GroupItems
<1>2. ASSUME NEW f \in DOMAIN G
      PROVE  /\ f \in Fps /\ G[f] \in Item
             /\ O[f].phase \in {"Firing", "Resolved"}
  <2>1. f \in Fps /\ O[f] \in AlertState
    BY <1>1 DEF IsRows
  <2>2. /\ Decide(O[f], now, DecideSettings(f)) \in Reasons
        /\ O[f].phase \in {"Firing", "Resolved"}
    BY <1>1, <2>1, DecidePhase
  <2>3. Rule[f].severity \in 0..2
    BY <2>1, PolicyAssumption DEF RuleType
  <2>4. EffectiveSeverity(O[f], now, Rule[f].severity, Rule[f].escalate_after) \in 0..2
    BY <2>3 DEF EffectiveSeverity, Escalated
  <2> QED
    BY <1>1, <2>1, <2>2, <2>4 DEF Item
<1> QED
  BY <1>1, <1>2 DEF IsItems

\* save_states keeps every row typed, and coherent if both sides were.
LEMMA SaveStatesType ==
  ASSUME NEW stored, IsRows(stored), NEW O, IsRows(O)
  PROVE  /\ IsRows(SaveStates(stored, O))
         /\ \A f \in DOMAIN O : SaveStates(stored, O)[f].phase = O[f].phase
         /\ /\ \A f \in DOMAIN stored : StateShape(stored[f])
            /\ \A f \in DOMAIN O : StateShape(O[f])
            => \A f \in DOMAIN SaveStates(stored, O) : StateShape(SaveStates(stored, O)[f])
  BY MergeAckOK DEF SaveStates, IsRows

-----------------------------------------------------------------------------
(* The type invariant.                                                     *)

\* What load_ledger reads is a ledger.
LEMMA LedgerType ==
  ASSUME TypeOK
  PROVE  IsLedger(Ledger)
  BY DEF IsLedger, Ledger, TypeOK

\* The values a cycle starts from, and falls back to, are well typed.
LEMMA InitialValues ==
  /\ IsRows(NoRows) /\ IsItems(NoItems) /\ IsPlan(NoPlan)
  /\ DOMAIN NoRows = {} /\ DOMAIN NoItems = {} /\ NoPlan.handled = {}
  /\ NoKnowledge \in [acked : SUBSET Fps, forgotten : SUBSET Targets]
  BY DEF IsRows, IsItems, IsPlan, NoRows, NoItems, NoPlan, NoKnowledge

\* The budgets stay natural numbers.
LEMMA SpendType ==
  ASSUME NEW kind \in {"acks", "pauses", "faults", "sends"},
         left \in [{"acks", "pauses", "faults", "sends"} -> Nat], Spend(kind)
  PROVE  left' \in [{"acks", "pauses", "faults", "sends"} -> Nat]
  BY DEF Spend

\* A plan stays a plan when a message leaves it, or when it has been applied.
LEMMA PlanUpdates ==
  ASSUME NEW p, IsPlan(p), NEW S, S \subseteq p.outgoing
  PROVE  /\ IsPlan([p EXCEPT !.outgoing = S])
         /\ [p EXCEPT !.outgoing = S].handled = p.handled
         /\ IsPlan([NoPlan EXCEPT !.outgoing = p.outgoing, !.handled = p.handled])
         /\ [NoPlan EXCEPT !.outgoing = p.outgoing, !.handled = p.handled].handled = p.handled
  BY DEF IsPlan, NoPlan

\* A delivered message leaves something a channel can have heard.
LEMMA HeardType ==
  ASSUME TypeOK, NEW m, NEW c \in Channels, NEW f \in Fps
  PROVE  Heard(m, c, f) \in {"nothing", "problem", "flapping", "clear"}
  BY DEF Heard, TypeOK

\* The initial state is well typed.
LEMMA TypeInit == Init => TypeOK
  BY InitialValues, EngineAssumption
  DEF Init, TypeOK, PcValues, OptTime, Time

\* Every step of the engine, of the API and of the environment keeps the types.
LEMMA TypeStep ==
  ASSUME TypeOK, [Next]_vars
  PROVE  TypeOK'
<1> USE DEF TypeOK, world, db, cycle
<1>1. CASE BeginCycle
  BY <1>1, EngineAssumption DEF BeginCycle, PcValues
<1>2. CASE LoadTargets
  BY <1>2 DEF LoadTargets, PcValues
<1>3. CASE LoadStates
  <2>1. {f \in DOMAIN row : IsAcked(row[f], now)} \subseteq Fps
    BY DEF IsRows
  <2> QED
    BY <1>3, <2>1 DEF LoadStates, PcValues
<1>4. CASE EvaluateAndSave
  <2>1. PICK obs \in TruthfulObservations, flagged \in DownChoices,
             silences \in SilenceChoices :
          LET outcome == Outcome(obs, flagged, silences) IN
          /\ row' = SaveStates(row, outcome)
          /\ items' = GroupItems(outcome)
          /\ carried' = CarriedOver(obs)
    BY <1>4 DEF EvaluateAndSave
  <2> DEFINE O == Outcome(obs, flagged, silences)
  <2>2. IsRows(O)
    BY OutcomeOK
  <2> HIDE DEF O
  <2>3. IsRows(row') /\ IsItems(items')
    BY <2>1, <2>2, SaveStatesType, GroupItemsType DEF O
  <2>4. carried' \subseteq Fps
    BY <2>1 DEF CarriedOver
  <2> QED
    BY <1>4, <2>3, <2>4, InitialValues DEF EvaluateAndSave, PcValues
<1>5. CASE TouchStates
  <2>1. IsRows(row')
    BY <1>5 DEF TouchStates, Touched, IsRows, AlertState, OptTime, Time
  <2> QED
    BY <1>5, <2>1 DEF TouchStates, PcValues
<1>6. CASE PlanNotifications
  <2>1. IsPlan(plan')
    <3>1. PICK on \in ChannelChoices : plan' = Plan(Ledger, items, on, now)
      BY <1>6 DEF PlanNotifications
    <3>2. on \in SUBSET Channels
      BY EngineAssumption
    <3> QED
      BY <3>1, <3>2, LedgerType, PlanType
  <2> QED
    BY <1>6, <2>1, InitialValues DEF PlanNotifications, PcValues
<1>7. CASE ApplyPlan
  <2>1. queue' \subseteq QueueRow
    BY <1>7 DEF ApplyPlan, Upsert, IsPlan
  <2>2. flap' \in [Fps -> OptTime]
    BY <1>7, PolicyAssumption DEF ApplyPlan, OptTime, Time, GlobalType
  <2>3. log' \subseteq LogEntry
    BY <1>7 DEF ApplyPlan, IsPlan
  <2>4. IsPlan(plan')
    BY <1>7, PlanUpdates DEF ApplyPlan
  <2> QED
    BY <1>7, <2>1, <2>2, <2>3, <2>4 DEF ApplyPlan, PcValues
<1>8. ASSUME NEW m \in plan.outgoing, Deliver(m) \/ DeliverFails(m)
      PROVE  TypeOK'
  <2>1. m \in Message
    BY DEF IsPlan
  <2>2. IsPlan([plan EXCEPT !.outgoing = plan.outgoing \ {m}])
    BY PlanUpdates
  <2>3. CASE Deliver(m)
    <3>1. told' \in [Channels \X Fps -> {"nothing", "problem", "flapping", "clear"}]
      BY <2>3, HeardType DEF Deliver
    <3> QED
      BY <2>1, <2>2, <2>3, <3>1 DEF Deliver, PcValues
  <2>4. CASE DeliverFails(m)
    <3>1. left' \in [{"acks", "pauses", "faults", "sends"} -> Nat]
      BY <2>4, SpendType DEF DeliverFails
    <3> QED
      BY <2>1, <2>2, <2>4, <3>1 DEF DeliverFails, PcValues
  <2> QED
    BY <1>8, <2>3, <2>4
<1>9. CASE RecordSent
  <2>1. sending \in Message
    BY <1>9 DEF RecordSent
  <2>2. queue' \subseteq QueueRow
    BY <1>9 DEF RecordSent, Unsent
  <2>3. messages' \subseteq SentMessage
    BY <1>9, <2>1 DEF RecordSent, SentMessage, Message, QueueRow, Time
  <2>4. log' \subseteq LogEntry
    BY <1>9, <2>1 DEF RecordSent, LogEntry, Message, QueueRow, Time
  <2> QED
    BY <1>9, <2>2, <2>3, <2>4 DEF RecordSent, PcValues
<1>10. CASE Requeue
  <2>1. Retry \subseteq QueueRow
    <3>1. sending.rows \subseteq QueueRow
      BY <1>10 DEF Requeue, Message
    <3>2. Global.window \in Nat
      BY PolicyAssumption DEF GlobalType
    <3> QED
      BY <3>1, <3>2 DEF Retry, QueueRow, EarlierOf
  <2> QED
    BY <1>10, <2>1 DEF Requeue, Upsert, PcValues
<1>11. CASE MarkNotified
  <2>1. IsRows(row')
    BY <1>11, NotedOK DEF MarkNotified, IsRows
  <2> QED
    BY <1>11, <2>1, InitialValues DEF MarkNotified, PcValues
<1>12. CASE PurgeStates
  <2>1. IsRows(row')
    BY <1>12 DEF PurgeStates, IsRows
  <2> QED
    BY <1>12, <2>1, InitialValues DEF PurgeStates, PcValues
<1>13. CASE Maintenance
  <2>1. flap' \in [Fps -> OptTime]
    BY <1>13 DEF Maintenance, OptTime
  <2> QED
    BY <1>13, <2>1 DEF Maintenance
<1>14. CASE BookkeepingFails \/ MaintenanceFails
  BY <1>14, SpendType DEF BookkeepingFails, MaintenanceFails, PcValues
<1>15. CASE DatabaseError \/ Crash
  BY <1>15, SpendType, InitialValues DEF DatabaseError, Crash, CycleLost, PcValues
<1>16. ASSUME NEW f \in Fps, NEW d \in AckDurations, Ack(f, d)
       PROVE  TypeOK'
  <2>1. clock + d \in OptTime
    BY EngineAssumption DEF OptTime, Time
  <2>2. IsRows(row')
    BY <1>16, <2>1 DEF Ack, IsRows, AlertState
  <2>3. left' \in [{"acks", "pauses", "faults", "sends"} -> Nat]
    BY <1>16, SpendType DEF Ack
  <2> QED
    BY <1>16, <2>2, <2>3 DEF Ack, QueueAfterAck
<1>17. ASSUME NEW f \in Fps, Unack(f)
       PROVE  TypeOK'
  <2>1. NoTime \in OptTime
    BY DEF OptTime
  <2>2. IsRows(row')
    BY <1>17, <2>1 DEF Unack, IsRows, AlertState
  <2>3. left' \in [{"acks", "pauses", "faults", "sends"} -> Nat]
    BY <1>17, SpendType DEF Unack
  <2> QED
    BY <1>17, <2>2, <2>3 DEF Unack
<1>18. ASSUME NEW t \in Targets,
              PauseTarget(t) \/ ForgetTarget(t) \/ ForgetFails(t) \/ ResumeTarget(t)
       PROVE  TypeOK'
  <2>1. CASE PauseTarget(t)
    BY <2>1, SpendType DEF PauseTarget
  <2>2. CASE ForgetTarget(t)
    <3>1. IsRows(row')
      BY <2>2 DEF ForgetTarget, IsRows
    <3> QED
      BY <2>2, <3>1 DEF ForgetTarget, QueueAfterForget
  <2>3. CASE ForgetFails(t)
    BY <2>3, SpendType DEF ForgetFails
  <2>4. CASE ResumeTarget(t)
    BY <2>4, SpendType DEF ResumeTarget
  <2> QED
    BY <1>18, <2>1, <2>2, <2>3, <2>4
<1>19. CASE Environment
  BY <1>19 DEF Environment, Tick, ConditionChanges
<1>20. CASE UNCHANGED vars
  BY <1>20 DEF vars
<1> QED
  BY <1>1, <1>2, <1>3, <1>4, <1>5, <1>6, <1>7, <1>8, <1>9, <1>10, <1>11, <1>12,
     <1>13, <1>14, <1>15, <1>16, <1>17, <1>18, <1>19, <1>20
  DEF Next, Engine, Send, Faults, Api

\* Every variable keeps its type, for every instance of the engine.
THEOREM TypeCorrect == Spec => []TypeOK
<1>1. TypeOK /\ [Next]_vars => TypeOK'
  BY TypeStep
<1> QED
  BY <1>1, TypeInit, PTL DEF Spec

-----------------------------------------------------------------------------
(* Coherence of the stored rows.  By itself it is not inductive: a cycle   *)
(* evaluates rows it read earlier (prev), and counts as told alerts that   *)
(* it decided upon several transactions ago (items, then plan.handled).    *)

\* The rows the cycle read are as coherent as those of the table.
PrevCoherent == \A f \in DOMAIN prev : StateShape(prev[f])

\* Until mark_notified runs, no transaction of anybody else takes an alert that
\* speaks out of the phases in which it may be counted as told.
SpeakersActive ==
  \A f \in DOMAIN row :
    f \in DOMAIN items \cup plan.handled => row[f].phase \in {"Firing", "Resolved"}

\* Between two notification stages nothing is left to count.
NothingHandled ==
  pc \notin {"apply", "send", "record", "requeue"} => plan.handled = {}

Coherence == RowsCoherent /\ PrevCoherent /\ SpeakersActive /\ NothingHandled

\* The strengthened invariant holds initially: there is no row.
LEMMA CoherenceInit == Init => Coherence
  BY InitialValues
  DEF Init, Coherence, RowsCoherent, PrevCoherent, SpeakersActive, NothingHandled

\* The steps that leave the rows, the decisions of the cycle and the plan alone,
\* or only drop some of them.
LEMMA CoherenceDrops ==
  ASSUME Coherence,
         DOMAIN row' \subseteq DOMAIN row, \A f \in DOMAIN row' : row'[f] = row[f],
         prev' = prev \/ prev' = NoRows \/ prev' = row,
         items' = items \/ items' = NoItems,
         plan'.handled = plan.handled \/ plan'.handled = {},
         NothingHandled'
  PROVE  Coherence'
<1> USE DEF Coherence
<1>1. RowsCoherent'
  BY DEF RowsCoherent
<1>2. PrevCoherent'
  BY InitialValues DEF PrevCoherent, RowsCoherent
<1>3. SpeakersActive'
  BY InitialValues DEF SpeakersActive
<1> QED
  BY <1>1, <1>2, <1>3

\* Every step keeps the strengthened invariant, one action at a time.
LEMMA CoherenceStep ==
  ASSUME TypeOK, Coherence, [Next]_vars
  PROVE  Coherence'
<1> USE DEF world, db, cycle
<1>1. CASE BeginCycle \/ LoadTargets \/ LoadStates
  BY <1>1, CoherenceDrops DEF BeginCycle, LoadTargets, LoadStates, Coherence, NothingHandled
<1>2. CASE EvaluateAndSave
  <2>1. PICK obs \in TruthfulObservations, flagged \in DownChoices,
             silences \in SilenceChoices :
          LET outcome == Outcome(obs, flagged, silences) IN
          /\ row' = SaveStates(row, outcome)
          /\ items' = GroupItems(outcome)
          /\ carried' = CarriedOver(obs)
    BY <1>2 DEF EvaluateAndSave
  <2> DEFINE O == Outcome(obs, flagged, silences)
  <2>2. IsRows(O) /\ \A f \in DOMAIN O : StateShape(O[f])
    BY OutcomeOK DEF Coherence, PrevCoherent
  <2> HIDE DEF O
  <2>3. row' = SaveStates(row, O) /\ items' = GroupItems(O)
    BY <2>1 DEF O
  <2>4. RowsCoherent'
    BY <2>2, <2>3, SaveStatesType DEF Coherence, RowsCoherent, TypeOK
  <2>5. plan'.handled = {} /\ NothingHandled'
    BY <1>2 DEF EvaluateAndSave, Coherence, NothingHandled
  <2>6. SpeakersActive'
    <3>1. \A f \in DOMAIN items' : f \in DOMAIN O /\ O[f].phase \in {"Firing", "Resolved"}
      BY <2>2, <2>3, GroupItemsType
    <3>2. \A f \in DOMAIN O : row'[f].phase = O[f].phase
      BY <2>2, <2>3, SaveStatesType DEF TypeOK
    <3> QED
      BY <2>5, <3>1, <3>2 DEF SpeakersActive
  <2>7. PrevCoherent'
    BY <1>2, InitialValues DEF EvaluateAndSave, PrevCoherent
  <2> QED
    BY <2>4, <2>5, <2>6, <2>7 DEF Coherence
<1>3. CASE TouchStates
  <2>1. /\ DOMAIN row' = DOMAIN row
        /\ \A f \in DOMAIN row :
             row'[f] = row[f] \/ row'[f] = [row[f] EXCEPT !.last_eval_at = now]
    BY <1>3 DEF TouchStates, Touched
  <2>2. \A f \in DOMAIN row : row[f] \in AlertState
    BY DEF TypeOK, IsRows
  <2>3. RowsCoherent'
    BY <2>1, <2>2 DEF Coherence, RowsCoherent, StateShape, AlertState
  <2>4. SpeakersActive'
    BY <1>3, <2>1, <2>2 DEF TouchStates, Coherence, SpeakersActive, AlertState
  <2> QED
    BY <1>3, <2>3, <2>4 DEF TouchStates, Coherence, PrevCoherent, NothingHandled
<1>4. CASE PlanNotifications
  <2>1. PICK on \in ChannelChoices : plan' = Plan(Ledger, items, on, now)
    BY <1>4 DEF PlanNotifications
  <2>2. plan'.handled \subseteq DOMAIN items
    BY <2>1, LedgerType, PlanType, EngineAssumption DEF TypeOK
  <2>3. SpeakersActive'
    BY <1>4, <2>2, InitialValues DEF PlanNotifications, Coherence, SpeakersActive
  <2> QED
    BY <1>4, <2>3 DEF PlanNotifications, Coherence, RowsCoherent, PrevCoherent, NothingHandled
<1>5. CASE ApplyPlan
  <2>1. plan'.handled = plan.handled
    BY <1>5, PlanUpdates DEF ApplyPlan, TypeOK
  <2> QED
    BY <1>5, <2>1, CoherenceDrops DEF ApplyPlan, NothingHandled
<1>6. ASSUME NEW m \in plan.outgoing, Deliver(m) \/ DeliverFails(m)
      PROVE  Coherence'
  <2>1. plan'.handled = plan.handled
    BY <1>6, PlanUpdates DEF Deliver, DeliverFails, TypeOK
  <2> QED
    BY <1>6, <2>1, CoherenceDrops DEF Deliver, DeliverFails, NothingHandled
<1>7. CASE RecordSent \/ Requeue \/ BookkeepingFails
  BY <1>7, CoherenceDrops DEF RecordSent, Requeue, BookkeepingFails, NothingHandled
<1>8. CASE MarkNotified
  <2>1. /\ DOMAIN row' = DOMAIN row
        /\ \A f \in DOMAIN row :
             row'[f] = IF f \in plan.handled THEN Noted(row[f], now) ELSE row[f]
    BY <1>8 DEF MarkNotified
  <2>2. \A f \in DOMAIN row :
          /\ row[f] \in AlertState /\ StateShape(row[f])
          /\ f \in DOMAIN items \cup plan.handled => row[f].phase \in {"Firing", "Resolved"}
    BY DEF TypeOK, IsRows, Coherence, RowsCoherent, SpeakersActive
  <2>3. now \in Nat
    BY DEF TypeOK
  <2>4. RowsCoherent'
    BY <2>1, <2>2, <2>3, NotedOK DEF RowsCoherent
  <2>5. plan'.handled = {}
    BY <1>8, InitialValues DEF MarkNotified
  <2>6. SpeakersActive'
    BY <1>8, <2>1, <2>2, <2>3, <2>5, NotedOK DEF MarkNotified, SpeakersActive
  <2> QED
    BY <1>8, <2>4, <2>5, <2>6 DEF MarkNotified, Coherence, PrevCoherent, NothingHandled
<1>9. CASE PurgeStates
  BY <1>9, CoherenceDrops DEF PurgeStates, Coherence, NothingHandled
<1>10. CASE Maintenance \/ MaintenanceFails
  BY <1>10, CoherenceDrops DEF Maintenance, MaintenanceFails, Coherence, NothingHandled
<1>11. CASE DatabaseError \/ Crash
  BY <1>11, CoherenceDrops, InitialValues DEF DatabaseError, Crash, CycleLost, NothingHandled
<1>12. ASSUME NEW f \in Fps, NEW until \in OptTime,
              f \in DOMAIN row, row[f].phase \in ActivePhases,
              row' = [row EXCEPT ![f].acked_until = until], UNCHANGED cycle
       PROVE  Coherence'
  <2>1. /\ DOMAIN row' = DOMAIN row
        /\ \A g \in DOMAIN row : row[g] \in AlertState
        /\ \A g \in DOMAIN row :
             row'[g] = row[g] \/ /\ row'[g] = [row[g] EXCEPT !.acked_until = until]
                                 /\ row[g].phase \in ActivePhases
    BY <1>12 DEF TypeOK, IsRows
  <2>2. RowsCoherent'
    BY <2>1 DEF Coherence, RowsCoherent, StateShape, AlertState
  <2>3. SpeakersActive'
    BY <1>12, <2>1 DEF Coherence, SpeakersActive, AlertState
  <2> QED
    BY <1>12, <2>2, <2>3 DEF Coherence, PrevCoherent, NothingHandled
<1>13. ASSUME NEW f \in Fps, NEW d \in AckDurations, Ack(f, d)
       PROVE  Coherence'
  <2>1. clock + d \in OptTime
    BY EngineAssumption DEF TypeOK, OptTime, Time
  <2> QED
    BY <1>12, <1>13, <2>1 DEF Ack
<1>14. ASSUME NEW f \in Fps, Unack(f)
       PROVE  Coherence'
  <2>1. NoTime \in OptTime
    BY DEF OptTime
  <2> QED
    BY <1>12, <1>14, <2>1 DEF Unack
<1>15. ASSUME NEW t \in Targets,
              PauseTarget(t) \/ ForgetTarget(t) \/ ForgetFails(t) \/ ResumeTarget(t)
       PROVE  Coherence'
  BY <1>15, CoherenceDrops
  DEF PauseTarget, ForgetTarget, ForgetFails, ResumeTarget, Coherence, NothingHandled
<1>16. CASE Environment
  BY <1>16, CoherenceDrops DEF Environment, Tick, ConditionChanges, Coherence, NothingHandled
<1>17. CASE UNCHANGED vars
  BY <1>17, CoherenceDrops DEF vars, Coherence, NothingHandled
<1> QED
  BY <1>1, <1>2, <1>3, <1>4, <1>5, <1>6, <1>7, <1>8, <1>9, <1>10, <1>11, <1>13,
     <1>14, <1>15, <1>16, <1>17
  DEF Next, Engine, Send, Faults, Api

\* Whatever is interleaved, interrupted or lost, every stored row agrees with
\* its phase: decide is never silenced by a missing date.
THEOREM RowsStayCoherent == Spec => []RowsCoherent
<1>1. TypeOK /\ Coherence /\ [Next]_vars => Coherence'
  BY CoherenceStep
<1>2. Coherence => RowsCoherent
  BY DEF Coherence
<1> QED
  BY <1>1, <1>2, CoherenceInit, TypeCorrect, PTL DEF Spec

-----------------------------------------------------------------------------
(* Acknowledgements.  A cycle evaluates what it read before the user acted *)
(* and writes it back afterwards; the upsert is what keeps the two apart.  *)

\* A user's ack or unack is the only step that spends an ack.
LEMMA SpendAcks ==
  ASSUME TypeOK, Spend("acks")
  PROVE  left'.acks < left.acks
  BY DEF Spend, TypeOK

\* The upsert of a cycle keeps an ack that outlives the cycle, and revives none.
LEMMA SaveStatesKeepsAcks ==
  ASSUME TypeOK, EvaluateAndSave, NEW f \in DOMAIN row, f \in DOMAIN row'
  PROVE  /\ row[f].acked_until = NoTime => row'[f].acked_until = NoTime
         /\ row'[f].phase \in ActivePhases /\ row[f].acked_until > now
              => row'[f].acked_until = row[f].acked_until
<1>1. PICK obs \in TruthfulObservations, flagged \in DownChoices,
           silences \in SilenceChoices :
        row' = SaveStates(row, Outcome(obs, flagged, silences))
  BY DEF EvaluateAndSave
<1> DEFINE O == Outcome(obs, flagged, silences)
<1>2. IsRows(O) /\ \A g \in DOMAIN O : O[g].last_eval_at = now
  BY OutcomeOK
<1> HIDE DEF O
<1>3. row'[f] = IF f \in DOMAIN O THEN MergeAck(row[f], O[f]) ELSE row[f]
  BY <1>1 DEF SaveStates, O
<1>4. row[f] \in AlertState /\ now \in Nat
  BY DEF TypeOK, IsRows
<1>5. CASE f \in DOMAIN O
  <2>1. O[f] \in AlertState /\ O[f].last_eval_at = now
    BY <1>2, <1>5 DEF IsRows
  <2> QED
    BY <1>3, <1>4, <1>5, <2>1 DEF MergeAck, AlertState, NoTime
<1>6. CASE f \notin DOMAIN O
  BY <1>3, <1>6
<1> QED
  BY <1>5, <1>6

\* No step but Ack and Unack disturbs an acknowledgement, in either direction.
LEMMA AckStep ==
  ASSUME TypeOK, [Next]_vars
  PROVE  [AckUndisturbed /\ UnackUndisturbed]_vars
<1> USE DEF world, db, cycle
<1> DEFINE Same ==
      \A f \in DOMAIN row \cap DOMAIN row' : row'[f].acked_until = row[f].acked_until
<1>1. Same => AckUndisturbed /\ UnackUndisturbed
  BY DEF AckUndisturbed, UnackUndisturbed
<1>2. \A f \in DOMAIN row : row[f] \in AlertState
  BY DEF TypeOK, IsRows
<1>3. CASE EvaluateAndSave
  BY <1>3, SaveStatesKeepsAcks DEF AckUndisturbed, UnackUndisturbed
<1>4. CASE TouchStates
  <2>1. \A f \in DOMAIN row :
          row'[f] = row[f] \/ row'[f] = [row[f] EXCEPT !.last_eval_at = now]
    BY <1>4 DEF TouchStates, Touched
  <2>2. Same
    BY <1>2, <2>1 DEF AlertState
  <2> QED
    BY <1>1, <2>2
<1>5. CASE MarkNotified
  <2>1. \A f \in DOMAIN row : row'[f] = row[f] \/ row'[f] = Noted(row[f], now)
    BY <1>5 DEF MarkNotified
  <2>2. Same
    BY <1>2, <2>1 DEF Noted, AlertState
  <2> QED
    BY <1>1, <2>2
<1>6. CASE PurgeStates
  BY <1>1, <1>6 DEF PurgeStates
<1>7. ASSUME NEW f \in Fps, Unack(f) \/ \E d \in AckDurations : Ack(f, d)
      PROVE  AckUndisturbed /\ UnackUndisturbed
  <2>1. left'.acks < left.acks
    BY <1>7, SpendAcks DEF Ack, Unack
  <2>2. left'.acks # left.acks
    BY <1>7 DEF Ack, Unack, Spend, TypeOK
  <2> QED
    BY <2>1, <2>2 DEF AckUndisturbed, UnackUndisturbed
<1>8. ASSUME NEW t \in Targets, ForgetTarget(t)
      PROVE  AckUndisturbed /\ UnackUndisturbed
  BY <1>1, <1>8 DEF ForgetTarget
<1>9. ASSUME row' = row
      PROVE  AckUndisturbed /\ UnackUndisturbed
  BY <1>9 DEF AckUndisturbed, UnackUndisturbed
<1>10. CASE BeginCycle \/ LoadTargets \/ LoadStates \/ PlanNotifications \/ ApplyPlan
             \/ Send \/ RecordSent \/ Requeue \/ Maintenance
  BY <1>9, <1>10
  DEF BeginCycle, LoadTargets, LoadStates, PlanNotifications, ApplyPlan, Send, Deliver,
      DeliverFails, RecordSent, Requeue, Maintenance
<1>11. CASE Faults \/ Environment
  BY <1>9, <1>11
  DEF Faults, BookkeepingFails, DatabaseError, MaintenanceFails, Crash, Environment,
      Tick, ConditionChanges
<1>12. ASSUME NEW t \in Targets, PauseTarget(t) \/ ForgetFails(t) \/ ResumeTarget(t)
       PROVE  AckUndisturbed /\ UnackUndisturbed
  BY <1>9, <1>12 DEF PauseTarget, ForgetFails, ResumeTarget
<1> QED
  BY <1>3, <1>4, <1>5, <1>6, <1>7, <1>8, <1>10, <1>11, <1>12 DEF Next, Engine, Faults, Api

\* No cycle overwrites an ack that a user gave while it ran.
THEOREM AcksAreKept == Spec => AckKept
<1>1. TypeOK /\ [Next]_vars => [AckUndisturbed]_vars
  BY AckStep
<1> QED
  BY <1>1, TypeCorrect, PTL DEF Spec, AckKept

\* No cycle revives an ack that a user lifted while it ran.
THEOREM UnacksAreKept == Spec => UnackKept
<1>1. TypeOK /\ [Next]_vars => [UnackUndisturbed]_vars
  BY AckStep
<1> QED
  BY <1>1, TypeCorrect, PTL DEF Spec, UnackKept

-----------------------------------------------------------------------------
(* Rows of problems that last.  A row is purged when the cycle neither     *)
(* evaluated nor froze it: on purpose for a rule that is disabled and for  *)
(* a device that is not monitored, and for no other.                       *)

\* The condition of f holds, and the cycle read its rule and its device.
Followed(f) == f \in problem /\ f \in rules /\ TargetOf[f] \in seen

\* Until the rows are saved the cycle knows of every row; then every row it
\* follows is dated by the cycle, or frozen and about to be.
RowsDated ==
  /\ pc = "evaluate" => DOMAIN row \subseteq DOMAIN prev
  /\ pc = "touch" =>
       \A f \in DOMAIN row : Followed(f) => row[f].last_eval_at = now \/ f \in carried
  /\ pc \in {"policy", "apply", "send", "record", "requeue", "purge"} =>
       \A f \in DOMAIN row : Followed(f) => row[f].last_eval_at = now

\* Initially there is no row.
LEMMA RowsDatedInit == Init => RowsDated
  BY DEF Init, RowsDated

\* A step that keeps the stage or ends the cycle, opens no row and leaves the
\* dates of the rows alone.
LEMMA DatesKept ==
  ASSUME RowsDated,
         \/ pc' \in {"idle", pc}
         \/ {pc, pc'} \subseteq {"policy", "apply", "send", "record", "requeue", "purge"},
         pc' = "idle" \/ UNCHANGED <<problem, now, rules, seen, prev, carried>>,
         DOMAIN row' \subseteq DOMAIN row,
         \A f \in DOMAIN row' : row'[f].last_eval_at = row[f].last_eval_at
  PROVE  RowsDated'
  BY DEF RowsDated, Followed

\* Saving the rows dates every row of a lasting problem, unless its query failed
\* and the row is carried over.
LEMMA SavedDated ==
  ASSUME TypeOK, RowsDated, EvaluateAndSave
  PROVE  \A f \in DOMAIN row' : Followed(f) => row'[f].last_eval_at = now \/ f \in carried'
<1>1. PICK obs \in TruthfulObservations, flagged \in DownChoices, silences \in SilenceChoices :
        /\ row' = SaveStates(row, Outcome(obs, flagged, silences))
        /\ carried' = CarriedOver(obs)
  BY DEF EvaluateAndSave
<1> DEFINE O == Outcome(obs, flagged, silences)
<1>2. DOMAIN O = EvaluatedFps(obs)
  BY DEF Outcome
<1>3. IsRows(O) /\ \A f \in DOMAIN O : O[f].last_eval_at = now
  BY OutcomeOK
<1> HIDE DEF O
<1>4. SUFFICES ASSUME NEW f \in DOMAIN row', Followed(f)
               PROVE  row'[f].last_eval_at = now \/ f \in carried'
  OBVIOUS
<1>5. f \in problem /\ f \in rules /\ TargetOf[f] \in seen
  BY <1>4 DEF Followed
<1>6. obs[f] \in {"true", "learning", "failed"}
  BY <1>4, <1>5 DEF TruthfulObservations
<1>7. CASE obs[f] = "failed"
  <2>1. ~Observed(f, obs[f]) /\ ~Vanished(f, obs[f])
    BY <1>7 DEF Observed, Vanished
  <2>2. f \notin DOMAIN O
    BY <1>2, <2>1 DEF EvaluatedFps
  <2>3. f \in DOMAIN row
    BY <1>1, <1>4, <2>2 DEF SaveStates, O
  <2>4. f \in DOMAIN prev
    BY <2>3 DEF RowsDated, EvaluateAndSave
  <2> QED
    BY <1>1, <1>5, <1>7, <2>4 DEF CarriedOver, Live
<1>8. CASE obs[f] # "failed"
  <2>1. f \in DOMAIN O
    BY <1>2, <1>5, <1>6, <1>8 DEF EvaluatedFps, Live, Observed
  <2>2. row'[f] = IF f \in DOMAIN row THEN MergeAck(row[f], O[f]) ELSE O[f]
    BY <1>1, <1>4, <2>1 DEF SaveStates, O
  <2>3. O[f] \in AlertState /\ O[f].last_eval_at = now
    BY <1>3, <2>1 DEF IsRows
  <2>4. MergeAck(row[f], O[f]).last_eval_at = now
    BY <2>3 DEF MergeAck, AlertState
  <2> QED
    BY <2>2, <2>3, <2>4
<1> QED
  BY <1>7, <1>8

\* Every step keeps the rows of lasting problems dated.
LEMMA RowsDatedStep ==
  ASSUME TypeOK, RowsDated, [Next]_vars
  PROVE  RowsDated'
<1> USE DEF world, db, cycle
<1>1. CASE BeginCycle \/ LoadTargets \/ LoadStates
  BY <1>1 DEF BeginCycle, LoadTargets, LoadStates, RowsDated
<1>2. CASE EvaluateAndSave
  <2>1. pc' = "touch" /\ UNCHANGED <<problem, rules, seen, now>>
    BY <1>2 DEF EvaluateAndSave
  <2> QED
    BY <1>2, <2>1, SavedDated DEF RowsDated, Followed
<1>3. CASE TouchStates
  <2>1. /\ pc = "touch" /\ pc' = "policy" /\ UNCHANGED <<problem, rules, seen, now>>
        /\ row' = Touched
    BY <1>3 DEF TouchStates
  <2>2. ASSUME NEW f \in DOMAIN row', Followed(f)
        PROVE  row'[f].last_eval_at = now
    <3>1. f \in DOMAIN row /\ row[f] \in AlertState
      BY <2>1, <2>2 DEF Touched, TypeOK, IsRows
    <3>2. f \in carried => row'[f] = [row[f] EXCEPT !.last_eval_at = now]
      BY <2>1, <3>1 DEF Touched
    <3>3. f \notin carried => row'[f] = row[f]
      BY <2>1, <3>1 DEF Touched
    <3> QED
      BY <2>1, <2>2, <3>1, <3>2, <3>3 DEF RowsDated, AlertState
  <2> QED
    BY <2>1, <2>2 DEF RowsDated, Followed
<1>4. CASE PlanNotifications \/ ApplyPlan \/ RecordSent \/ Requeue \/ PurgeStates \/ Maintenance
  <2>1. /\ pc' = "idle" \/ UNCHANGED <<problem, now, rules, seen, prev, carried>>
        /\ DOMAIN row' \subseteq DOMAIN row /\ \A f \in DOMAIN row' : row'[f] = row[f]
        /\ \/ pc' \in {"idle", pc}
           \/ {pc, pc'} \subseteq {"policy", "apply", "send", "record", "requeue", "purge"}
    BY <1>4 DEF PlanNotifications, ApplyPlan, RecordSent, Requeue, PurgeStates, Maintenance
  <2> QED
    BY <2>1, DatesKept
<1>5. CASE Send
  <2>1. /\ UNCHANGED <<problem, now, rules, seen, prev, carried, row>>
        /\ pc = "send" /\ pc' \in {"record", "requeue"}
    BY <1>5 DEF Send, Deliver, DeliverFails
  <2> QED
    BY <2>1, DatesKept
<1>6. CASE MarkNotified
  <2>1. /\ UNCHANGED <<problem, now, rules, seen, prev, carried>> /\ pc = "send" /\ pc' = "purge"
        /\ row' = [f \in DOMAIN row |-> IF f \in plan.handled THEN Noted(row[f], now) ELSE row[f]]
    BY <1>6 DEF MarkNotified
  <2>2. \A f \in DOMAIN row' : f \in DOMAIN row /\ row'[f].last_eval_at = row[f].last_eval_at
    BY <2>1 DEF Noted, TypeOK, IsRows, AlertState
  <2> QED
    BY <2>1, <2>2, DatesKept
<1>7. CASE Faults
  <2>1. /\ row' = row
        /\ \/ pc' = "idle"
           \/ /\ pc \in {"record", "requeue"} /\ pc' = "send"
              /\ UNCHANGED <<problem, now, rules, seen, prev, carried>>
    BY <1>7 DEF Faults, BookkeepingFails, DatabaseError, MaintenanceFails, Crash, CycleLost
  <2> QED
    BY <2>1, DatesKept
<1>8. ASSUME NEW f \in Fps, (\E d \in AckDurations : Ack(f, d)) \/ Unack(f)
      PROVE  RowsDated'
  <2>1. /\ UNCHANGED <<problem, now, rules, seen, prev, carried, pc>>
        /\ \E u : row' = [row EXCEPT ![f].acked_until = u]
    BY <1>8 DEF Ack, Unack
  <2>2. \A g \in DOMAIN row' : g \in DOMAIN row /\ row'[g].last_eval_at = row[g].last_eval_at
    BY <2>1 DEF TypeOK, IsRows, AlertState
  <2> QED
    BY <2>1, <2>2, DatesKept
<1>9. ASSUME NEW t \in Targets,
             PauseTarget(t) \/ ResumeTarget(t) \/ ForgetTarget(t) \/ ForgetFails(t)
      PROVE  RowsDated'
  <2>1. /\ UNCHANGED <<problem, now, rules, seen, prev, carried, pc>>
        /\ DOMAIN row' \subseteq DOMAIN row /\ \A f \in DOMAIN row' : row'[f] = row[f]
    BY <1>9 DEF PauseTarget, ResumeTarget, ForgetTarget, ForgetFails
  <2> QED
    BY <2>1, DatesKept
<1>10. CASE Environment \/ UNCHANGED vars
  <2>1. /\ UNCHANGED <<row, now, rules, seen, prev, carried, pc>>
        /\ pc = "idle" \/ UNCHANGED problem
    BY <1>10 DEF Environment, Tick, ConditionChanges, vars
  <2> QED
    BY <2>1 DEF RowsDated, Followed
<1> QED
  BY <1>1, <1>2, <1>3, <1>4, <1>5, <1>6, <1>7, <1>8, <1>9, <1>10 DEF Next, Engine, Api

\* The row of an alert that fires for good reason survives every step: a failed
\* query freezes it, a cycle that is cut short purges nothing, and the purge of a
\* complete cycle finds it dated.
THEOREM FiringRowsKept == Spec => FiringRowsSurvive
<1>1. TypeOK /\ RowsDated /\ [Next]_vars => RowsDated'
  BY RowsDatedStep
<1>2. ASSUME TypeOK, RowsDated, [Next]_vars, forgetting = {}, NEW f \in DOMAIN row,
             f \in problem, pc = "purge" => f \in rules /\ TargetOf[f] \in seen
      PROVE  f \in DOMAIN row'
  <2> USE DEF world, db, cycle
  <2>1. CASE PurgeStates
    <3>1. row[f].last_eval_at = now /\ now \in Nat
      BY <1>2, <2>1 DEF PurgeStates, RowsDated, Followed, TypeOK
    <3> QED
      BY <2>1, <3>1 DEF PurgeStates
  <2>2. CASE Engine /\ ~PurgeStates
    BY <2>2 DEF Engine, BeginCycle, LoadTargets, LoadStates, EvaluateAndSave, SaveStates,
       TouchStates, Touched, PlanNotifications, ApplyPlan, Send, Deliver, DeliverFails,
       RecordSent, Requeue, MarkNotified, Maintenance
  <2>3. CASE Faults
    BY <2>3 DEF Faults, BookkeepingFails, DatabaseError, MaintenanceFails, Crash
  <2>4. CASE Api
    BY <1>2, <2>4 DEF Api, Ack, Unack, PauseTarget, ForgetTarget, ForgetFails, ResumeTarget
  <2>5. CASE Environment \/ UNCHANGED vars
    BY <2>5 DEF Environment, Tick, ConditionChanges, vars
  <2> QED
    BY <1>2, <2>1, <2>2, <2>3, <2>4, <2>5 DEF Next
<1>3. TypeOK /\ RowsDated /\ [Next]_vars
      => [\A f \in DOMAIN row :
            /\ row[f].phase = "Firing" /\ f \in problem /\ forgetting = {}
            /\ pc = "purge" => f \in rules /\ TargetOf[f] \in seen
            => f \in DOMAIN row']_vars
  BY <1>2
<1> QED
  BY <1>1, <1>3, RowsDatedInit, TypeCorrect, PTL DEF Spec, FiringRowsSurvive
=============================================================================
