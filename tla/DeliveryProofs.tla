--------------------------- MODULE DeliveryProofs ---------------------------
(***************************************************************************)
(* Proofs about what leaves the alerting engine, for every set of alerts,  *)
(* channels and devices and every policy: the engine implements the safety *)
(* part of Announcement, and what waits or is sent respects flap holds,    *)
(* acknowledgements, forgotten devices, mutes and the hourly cap.          *)
(***************************************************************************)
EXTENDS AlertEngineProofs, FiniteSetTheorems, WellFoundedInduction

-----------------------------------------------------------------------------
(* The lines that wait or are about to leave.                              *)

RowsOf(messagesOut) == UNION {m.rows : m \in messagesOut}

Lines == queue \cup plan.enqueue \cup RowsOf(plan.outgoing) \cup sending.rows

\* What every statement about a line reads.
SameLine(p, q) ==
  /\ q.channel = p.channel /\ q.fp = p.fp /\ q.reason = p.reason
  /\ q.resolved_meanwhile = p.resolved_meanwhile

\* What route leaves of an item on channel c, given the rows Q that wait.
LineOf(q, L, Q, c, f, item) ==
  /\ q.channel = c /\ q.fp = f
  /\ item.reason # "Resolved" =>
       /\ q.resolved_meanwhile = FALSE
       /\ \/ q.reason = item.reason
          \/ q.reason = "Firing" /\ item.reason = "Reminder"
  /\ item.reason = "Resolved" =>
       /\ q.reason = "Resolved"
       /\ \/ AnnouncedOn(L, c, f)
          \/ q.resolved_meanwhile = TRUE
          \/ \E p \in Q : SameLine(p, q)

\* What route leaves speaks for the item, and an all-clear has a reason.
LEMMA RouteLine ==
  ASSUME NEW L, NEW Q \in SUBSET QueueRow, NEW c, NEW f, NEW item \in Item, NEW t,
         NEW q \in Route(L, Q, c, f, item, t)
  PROVE  LineOf(q, L, Q, c, f, item)
<1> DEFINE waiting == {p \in Q : p.channel = c /\ p.fp = f}
<1>1. ~Rejected(L, waiting, c, f, item, t)
  BY DEF Route
<1>2. CASE waiting = {}
  <2>1. q = NewRow(c, f, item, t)
    BY <1>1, <1>2 DEF Route
  <2>2. /\ q.channel = c /\ q.fp = f /\ q.reason = item.reason
        /\ q.resolved_meanwhile = FALSE
    BY <2>1 DEF NewRow
  <2>3. item.reason = "Resolved" => AnnouncedOn(L, c, f)
    BY <1>1, <1>2 DEF Rejected
  <2> QED
    BY <2>2, <2>3 DEF LineOf
<1>3. CASE waiting # {}
  <2>1. PICK p \in waiting : q = MergedRow(p, item, t)
    BY <1>1, <1>3 DEF Route
  <2>2. p \in QueueRow /\ p \in Q /\ p.channel = c /\ p.fp = f
    BY <2>1
  <2>3. CASE item.reason = "Resolved"
    <3> DEFINE mention == p.resolved_meanwhile \/ FiringLike(p.reason)
    <3>1. q = [p EXCEPT !.reason = "Resolved", !.severity = item.severity,
                        !.resolved_meanwhile = mention]
      BY <2>1, <2>3, Zenon DEF MergedRow
    <3>2. mention \in BOOLEAN /\ (p.reason # "Resolved" => mention)
          /\ (p.reason = "Resolved" => mention = p.resolved_meanwhile)
      <4>1. p.resolved_meanwhile \in BOOLEAN
        BY <2>2 DEF QueueRow
      <4> QED
        BY <4>1, Zenon DEF FiringLike
    <3> HIDE DEF mention
    <3>3. q.channel = c /\ q.fp = f /\ q.reason = "Resolved" /\ q.resolved_meanwhile = mention
      BY <2>2, <3>1 DEF QueueRow
    <3>4. CASE p.reason = "Resolved"
      BY <2>2, <2>3, <3>2, <3>3, <3>4 DEF LineOf, SameLine
    <3>5. CASE p.reason # "Resolved"
      BY <2>2, <2>3, <3>2, <3>3, <3>5 DEF LineOf
    <3> QED
      BY <3>4, <3>5
  <2>4. CASE item.reason # "Resolved"
    <3>1. /\ q.channel = c /\ q.fp = f /\ q.resolved_meanwhile = FALSE
          /\ q.reason = IF p.reason = "Firing" /\ item.reason = "Reminder"
                        THEN "Firing" ELSE item.reason
      BY <2>1, <2>2, <2>4 DEF MergedRow, QueueRow
    <3> QED
      BY <2>4, <3>1 DEF LineOf
  <2> QED
    BY <2>3, <2>4
<1> QED
  BY <1>2, <1>3

\* A line that plan makes of alert f.
Planned(q, L, is, t) ==
  \E f \in DOMAIN is : \E c \in Channels :
    /\ ~Held(L, f, t)
    /\ LineOf(q, L, L.queue \ Purged(L, is, t), c, f, EffectiveItem(L, is, f, t))

\* So does all that the plan routes, and none of it is of a held alert.
LEMMA RoutedLine ==
  ASSUME NEW L, IsLedger(L), NEW is, IsItems(is), NEW on \in SUBSET Channels, NEW t,
         NEW q \in Routed(L, is, on, t)
  PROVE  Planned(q, L, is, t)
<1> DEFINE Q == L.queue \ Purged(L, is, t)
<1>1. Q \in SUBSET QueueRow
  BY DEF IsLedger
<1>2. PICK f \in DOMAIN is :
        q \in UNION {Route(L, Q, c, f, EffectiveItem(L, is, f, t), t) :
                      c \in Recipients(L, is, f, on, t)}
  BY Zenon DEF Routed
<1>3. PICK c \in Recipients(L, is, f, on, t) :
        q \in Route(L, Q, c, f, EffectiveItem(L, is, f, t), t)
  BY <1>2, Zenon
<1>4. ~Held(L, f, t) /\ c \in Channels
  BY <1>3 DEF Recipients, GroupRecipients, Speaks
<1>5. EffectiveItem(L, is, f, t) \in Item
  BY EffectiveItemType
<1> HIDE DEF Q
<1>6. LineOf(q, L, Q, c, f, EffectiveItem(L, is, f, t))
  BY <1>1, <1>3, <1>5, RouteLine
<1> QED
  BY <1>4, <1>6 DEF Planned, Q

\* Messages carry ripe lines, each on its own channel.
LEMMA MessageLines ==
  ASSUME NEW L, NEW Q, NEW on, NEW t, NEW m \in Messages(L, Q, on, t)
  PROVE  m.channel \in on /\ \A q \in m.rows : q \in Q /\ q.channel = m.channel
<1>1. \A c : \A q \in Ready(L, Q, c, t) : q \in Q /\ q.channel = c
  BY DEF Ready
<1> QED
  BY <1>1 DEF Messages

\* The lines of a plan waited, and were not purged, or are made of its items.
PlanSound(p, L, is, t) ==
  /\ \A q \in p.enqueue \cup RowsOf(p.outgoing) :
       (q \in L.queue /\ q \notin Purged(L, is, t)) \/ Planned(q, L, is, t)
  /\ \A m \in p.outgoing : m.channel \in Channels /\ \A q \in m.rows : q.channel = m.channel

\* The lines of a plan waited, or were made of its items.
LEMMA PlanLines ==
  ASSUME NEW L, IsLedger(L), NEW is, IsItems(is), NEW on \in SUBSET Channels, NEW t \in Nat
  PROVE  PlanSound(Plan(L, is, on, t), L, is, t)
<1> DEFINE purged == Purged(L, is, t)
           routed == Routed(L, is, on, t)
           Q == Upsert(L.queue \ purged, routed)
           p == Plan(L, is, on, t)
<1>1. \A q \in routed : Planned(q, L, is, t)
  BY RoutedLine
<1>2. \A q \in Q : (q \in L.queue /\ q \notin purged) \/ q \in routed
  BY DEF Upsert
<1> HIDE DEF purged, routed, Q
<1>3. p.outgoing = Messages(L, Q, on, t) /\ p.enqueue \subseteq routed
  BY DEF Plan, purged, routed, Q
<1> HIDE DEF p
<1>4. \A m \in p.outgoing : m.channel \in on /\ \A q \in m.rows : q \in Q /\ q.channel = m.channel
  BY <1>3, MessageLines
<1>5. \A q \in RowsOf(p.outgoing) : q \in Q
  BY <1>4 DEF RowsOf
<1> QED
  BY <1>1, <1>2, <1>3, <1>4, <1>5 DEF PlanSound, p, purged

-----------------------------------------------------------------------------
(* Where the lines after a step come from.                                 *)

\* A line that did not change is the same line.
LEMMA SameLineRefl == \A q : SameLine(q, q)
  BY DEF SameLine

\* An empty plan and no message hold no line.
LEMMA NoLines == NoPlan.enqueue = {} /\ NoPlan.outgoing = {} /\ NoMessage.rows = {}
                 /\ NoPlan.intake = {} /\ NoPlan.flap_holds = {}
  BY DEF NoPlan, NoMessage

\* A retry only changes the date of a line.
LEMMA RetriedLine ==
  ASSUME TypeOK, pc = "requeue", NEW q \in Retry
  PROVE  \E p \in sending.rows : SameLine(p, q)
<1>1. PICK p \in sending.rows :
        q = [p EXCEPT !.queued_at = EarlierOf(@, clock - Global.window)]
  BY DEF Retry
<1>2. p \in QueueRow
  BY DEF TypeOK, Message
<1> QED
  BY <1>1, <1>2 DEF SameLine, QueueRow

\* Every line that waits or is about to leave was there before, at most dated
\* otherwise, and no message is added.
LinesKept ==
  /\ \A q \in Lines' : \E p \in Lines : SameLine(p, q)
  /\ plan'.outgoing \subseteq plan.outgoing
  /\ plan'.intake \subseteq plan.intake
  /\ sending'.rows \subseteq sending.rows \cup RowsOf(plan.outgoing)

\* Only plan makes lines.
LEMMA LinesStep ==
  ASSUME TypeOK, [Next]_vars, ~PlanNotifications
  PROVE  LinesKept
<1> USE DEF world, db, cycle
<1>1. ASSUME queue' \subseteq queue \cup plan.enqueue, plan'.enqueue \subseteq plan.enqueue,
             plan'.outgoing \subseteq plan.outgoing, plan'.intake \subseteq plan.intake,
             sending'.rows \subseteq sending.rows \cup RowsOf(plan.outgoing)
      PROVE  LinesKept
  <2>1. RowsOf(plan'.outgoing) \subseteq RowsOf(plan.outgoing)
    BY <1>1 DEF RowsOf
  <2>2. Lines' \subseteq Lines
    BY <1>1, <2>1 DEF Lines, RowsOf
  <2> QED
    BY <1>1, <2>2, SameLineRefl DEF LinesKept
<1>2. CASE UNCHANGED <<queue, plan, sending>>
  BY <1>1, <1>2
<1>3. CASE ApplyPlan
  <2>1. /\ queue' \subseteq queue \cup plan.enqueue /\ sending' = sending
        /\ plan'.outgoing = plan.outgoing /\ plan'.enqueue = {} /\ plan'.intake = {}
    BY <1>3 DEF ApplyPlan, Upsert, NoPlan
  <2> QED
    BY <1>1, <2>1
<1>4. ASSUME NEW m \in plan.outgoing, Deliver(m) \/ DeliverFails(m)
      PROVE  LinesKept
  <2>1. /\ queue' = queue /\ sending' = m /\ plan'.outgoing \subseteq plan.outgoing
        /\ plan'.enqueue = plan.enqueue /\ plan'.intake = plan.intake
    BY <1>4 DEF Deliver, DeliverFails, TypeOK, IsPlan
  <2>2. m.rows \subseteq RowsOf(plan.outgoing)
    BY DEF RowsOf
  <2> QED
    BY <1>1, <2>1, <2>2
<1>5. CASE RecordSent \/ BookkeepingFails
  <2>1. queue' \subseteq queue /\ sending' = NoMessage /\ plan' = plan
    BY <1>5 DEF RecordSent, BookkeepingFails, Unsent
  <2> QED
    BY <1>1, <2>1, NoLines
<1>6. CASE Requeue
  <2>1. /\ pc = "requeue" /\ queue' \subseteq queue \cup Retry /\ sending' = NoMessage
        /\ plan' = plan
    BY <1>6 DEF Requeue, Upsert
  <2>2. ASSUME NEW q \in Lines'
        PROVE  \E p \in Lines : SameLine(p, q)
    <3>1. CASE q \in Retry
      BY <2>1, <3>1, RetriedLine DEF Lines
    <3>2. CASE q \notin Retry
      <4>1. q \in Lines
        BY <2>1, <3>2, NoLines DEF Lines
      <4> QED
        BY <4>1, SameLineRefl
    <3> QED
      BY <3>1, <3>2
  <2> QED
    BY <2>1, <2>2, NoLines DEF LinesKept
<1>7. CASE MarkNotified
  BY <1>1, <1>7, NoLines DEF MarkNotified
<1>8. CASE DatabaseError \/ Crash
  BY <1>1, <1>8, NoLines DEF DatabaseError, Crash, CycleLost
<1>9. ASSUME queue' \subseteq queue, UNCHANGED <<plan, sending>>
      PROVE  LinesKept
  BY <1>1, <1>9
<1>10. ASSUME NEW f \in Fps, NEW d \in AckDurations, Ack(f, d)
       PROVE  LinesKept
  BY <1>9, <1>10 DEF Ack, QueueAfterAck
<1>11. ASSUME NEW t \in Targets, ForgetTarget(t)
       PROVE  LinesKept
  BY <1>9, <1>11 DEF ForgetTarget, QueueAfterForget
<1>12. CASE BeginCycle \/ LoadTargets \/ LoadStates \/ EvaluateAndSave \/ TouchStates
            \/ PurgeStates \/ Maintenance \/ MaintenanceFails \/ Environment
  BY <1>2, <1>12 DEF BeginCycle, LoadTargets, LoadStates, EvaluateAndSave, TouchStates,
     PurgeStates, Maintenance, MaintenanceFails, Environment, Tick, ConditionChanges
<1>13. ASSUME NEW t \in Targets, PauseTarget(t) \/ ForgetFails(t) \/ ResumeTarget(t)
       PROVE  LinesKept
  BY <1>2, <1>13 DEF PauseTarget, ForgetFails, ResumeTarget
<1>14. ASSUME NEW f \in Fps, Unack(f)
       PROVE  LinesKept
  BY <1>2, <1>14 DEF Unack
<1>15. CASE UNCHANGED vars
  BY <1>2, <1>15 DEF vars
<1>16. CASE Api
  BY <1>10, <1>11, <1>13, <1>14, <1>16 DEF Api
<1>17. CASE Engine \/ Faults
  BY <1>3, <1>4, <1>5, <1>6, <1>7, <1>8, <1>12, <1>17 DEF Engine, Send, Faults
<1> QED
  BY <1>12, <1>15, <1>16, <1>17 DEF Next

\* A delivery sends lines of the plan.
LEMMA DeliveredLines ==
  ASSUME TypeOK, [Next]_vars, pc = "send", pc' = "record"
  PROVE  sending'.rows \subseteq Lines
<1>1. ~PlanNotifications
  BY DEF PlanNotifications
<1>2. sending.rows = {}
  BY NoLines DEF TypeOK
<1> QED
  BY <1>1, <1>2, LinesStep DEF LinesKept, Lines

\* What plan adds: lines of the alerts that speak at this cycle.
LEMMA PlanStep ==
  ASSUME TypeOK, PlanNotifications
  PROVE  /\ pc = "policy" /\ UNCHANGED <<queue, sending, now, log, flap, messages, told, knows>>
         /\ sending = NoMessage
         /\ \A q \in plan'.enqueue \cup RowsOf(plan'.outgoing) :
              (q \in queue /\ q \notin Purged(Ledger, items, now))
              \/ Planned(q, Ledger, items, now)
         /\ \A q \in Lines' : q \in queue \/ Planned(q, Ledger, items, now)
         /\ \A m \in plan'.outgoing : m.channel \in Channels
                                      /\ \A q \in m.rows : q.channel = m.channel
         /\ plan'.intake = IntakeEntries(items, now)
         /\ plan'.dequeue = Keys(Purged(Ledger, items, now))
         /\ plan'.flap_holds = {f \in DOMAIN items : Trips(Ledger, items, f, now)}
<1>1. PICK on \in ChannelChoices : plan' = Plan(Ledger, items, on, now)
  BY DEF PlanNotifications
<1>2. IsLedger(Ledger) /\ IsItems(items) /\ on \in SUBSET Channels /\ now \in Nat
  BY LedgerType, EngineAssumption DEF TypeOK
<1>3. Ledger.queue = queue
  BY DEF Ledger
<1>4. /\ pc = "policy" /\ UNCHANGED <<queue, sending, now, log, flap, messages, told, knows>>
      /\ sending = NoMessage
  BY DEF PlanNotifications, db, TypeOK
<1>5. /\ \A q \in plan'.enqueue \cup RowsOf(plan'.outgoing) :
           (q \in queue /\ q \notin Purged(Ledger, items, now))
           \/ Planned(q, Ledger, items, now)
      /\ \A m \in plan'.outgoing : m.channel \in Channels
                                   /\ \A q \in m.rows : q.channel = m.channel
  <2>1. PlanSound(Plan(Ledger, items, on, now), Ledger, items, now)
    BY <1>2, PlanLines
  <2> QED
    BY <1>1, <1>3, <2>1 DEF PlanSound
<1>6. \A q \in Lines' : q \in queue \/ Planned(q, Ledger, items, now)
  BY <1>4, <1>5, NoLines DEF Lines
<1>7. /\ plan'.intake = IntakeEntries(items, now)
      /\ plan'.dequeue = Keys(Purged(Ledger, items, now))
      /\ plan'.flap_holds = {f \in DOMAIN items : Trips(Ledger, items, f, now)}
  BY <1>1 DEF Plan
<1> QED
  BY <1>4, <1>5, <1>6, <1>7

-----------------------------------------------------------------------------
(* The ledger: its latest entry.                                           *)

\* A bounded set of naturals has a largest element.
LEMMA LargestNatural ==
  ASSUME NEW S \in SUBSET Nat, S # {}, NEW n \in Nat, \A x \in S : x <= n
  PROVE  \E x \in S : \A y \in S : y <= x
<1> DEFINE R == OpToRel(<, Nat)
           T == {n - x : x \in S}
<1>1. T \subseteq Nat /\ T # {}
  <2>1. \A x \in S : n - x \in Nat
    OBVIOUS
  <2>2. PICK x \in S : TRUE
    OBVIOUS
  <2>3. n - x \in T
    BY <2>2
  <2> QED
    BY <2>1, <2>3
<1>2. IsWellFoundedOn(R, Nat)
  BY NatLessThanWellFounded
<1>3. \A x, y \in Nat : y < x => <<y, x>> \in R
  BY DEF OpToRel
<1> HIDE DEF R, T
<1>4. PICK z \in T : \A y \in T : ~(<<y, z>> \in R)
  BY <1>1, <1>2, WFMin
<1>5. PICK x \in S : z = n - x
  BY <1>4 DEF T
<1>6. ASSUME NEW y \in S
      PROVE  y <= x
  <2>1. n - y \in T /\ n - y \in Nat /\ z \in Nat
    BY <1>1, <1>4 DEF T
  <2>2. ~(n - y < z)
    BY <1>3, <1>4, <2>1
  <2> QED
    BY <1>5, <2>1, <2>2
<1> QED
  BY <1>6

\* Time does not go back, and the ledger is about the past.
Clocks == now <= clock /\ \A e \in log : e.at <= now

\* The clock starts at the first cycle, with an empty ledger.
LEMMA ClocksInit == Init => Clocks
  BY DEF Init, Clocks

\* Every step keeps the ledger in the past, and a cycle keeps its date.
LEMMA ClocksStep ==
  ASSUME TypeOK, Clocks, [Next]_vars, \A e \in plan.intake : e.at = now
  PROVE  Clocks' /\ (now' = now \/ (BeginCycle /\ now <= now'))
<1> USE DEF world, db, cycle
<1>1. clock \in Nat /\ now \in Nat /\ \A e \in log : e.at \in Nat
  BY DEF TypeOK, LogEntry, Time
<1>2. CASE BeginCycle
  BY <1>1, <1>2 DEF BeginCycle, Clocks
<1>3. CASE ApplyPlan
  BY <1>1, <1>3 DEF ApplyPlan, Clocks
<1>4. CASE RecordSent
  BY <1>1, <1>4 DEF RecordSent, Clocks
<1>5. ASSUME now' = now, log' \subseteq log, clock' = clock \/ clock' = clock + 1
      PROVE  Clocks'
  BY <1>1, <1>5 DEF Clocks
<1>6. CASE LoadTargets \/ LoadStates \/ EvaluateAndSave \/ TouchStates \/ PlanNotifications
           \/ Requeue \/ MarkNotified \/ PurgeStates \/ Maintenance \/ Environment \/ Faults
  BY <1>5, <1>6 DEF LoadTargets, LoadStates, EvaluateAndSave, TouchStates, PlanNotifications,
     Requeue, MarkNotified, PurgeStates, Maintenance, Environment, Tick, ConditionChanges,
     Faults, BookkeepingFails, DatabaseError, MaintenanceFails, Crash
<1>7. CASE Send
  BY <1>5, <1>7 DEF Send, Deliver, DeliverFails
<1>8. CASE Api
  BY <1>5, <1>8 DEF Api, Ack, Unack, PauseTarget, ForgetTarget, ForgetFails, ResumeTarget
<1>9. CASE UNCHANGED vars
  BY <1>5, <1>9 DEF vars
<1> QED
  BY <1>2, <1>3, <1>4, <1>6, <1>7, <1>8, <1>9 DEF Next, Engine

\* The last line that left on a channel about an alert is an entry of the log.
LEMMA LastSentEntry ==
  ASSUME TypeOK, Clocks, NEW c, NEW f, SentOn(Ledger, c, f) # {}
  PROVE  LastSent(Ledger, c, f) \in SentOn(Ledger, c, f)
<1> DEFINE E == SentOn(Ledger, c, f)
           S == {e.at : e \in E}
<1>1. \A e \in E : e \in log /\ e.at \in Nat /\ e.at <= now
  BY DEF SentOn, Ledger, TypeOK, LogEntry, Time, Clocks
<1>2. S \in SUBSET Nat /\ S # {} /\ now \in Nat /\ \A x \in S : x <= now
  BY <1>1 DEF TypeOK
<1> HIDE DEF S
<1>3. PICK x \in S : \A y \in S : y <= x
  BY <1>2, LargestNatural
<1>4. \E e \in E : \A d \in E : d.at <= e.at
  BY <1>3 DEF S
<1> QED
  BY <1>4 DEF LastSent

\* A channel to which an alert counts as announced has a line about it in the log.
LEMMA Announced ==
  ASSUME TypeOK, Clocks, NEW c, NEW f, AnnouncedOn(Ledger, c, f)
  PROVE  \E e \in log : e.channel = c /\ e.fp = f /\ e.reason # "Resolved"
<1>1. LastSent(Ledger, c, f) \in SentOn(Ledger, c, f)
  BY LastSentEntry DEF AnnouncedOn
<1> QED
  BY <1>1 DEF AnnouncedOn, SentOn, Ledger, FiringLike
-----------------------------------------------------------------------------
(* The engine implements the safety part of Announcement.                  *)

HasHeard(c, f) == told[<<c, f>>] # "nothing"

\* An all-clear that waits answers a problem its channel was told of.
ClearsFounded ==
  \A q \in Lines :
    q.reason = "Resolved" /\ q.resolved_meanwhile = FALSE => HasHeard(q.channel, q.fp)

\* What the log says of a channel, the channel has heard.
LogFounded ==
  \A e \in log : e.channel \in Channels /\ e.reason # "Resolved" => HasHeard(e.channel, e.fp)

SentFounded ==
  pc = "record" => \A q \in sending.rows : q.reason # "Resolved" => HasHeard(q.channel, q.fp)

OwnChannel == \A m \in plan.outgoing : \A q \in m.rows : q.channel = m.channel

IntakeOnly == \A e \in plan.intake : e.channel = Intake /\ e.at = now

\* Outside "apply" there is no intake left to write.
IntakeDone == pc # "apply" => plan.intake = {}

Founded ==
  /\ ClearsFounded /\ LogFounded /\ SentFounded
  /\ OwnChannel /\ IntakeOnly /\ IntakeDone /\ Clocks

\* Initially nothing waits and nothing was heard.
LEMMA FoundedInit == Init => Founded
<1> SUFFICES ASSUME Init
             PROVE  Founded
  OBVIOUS
<1>1. Lines = {} /\ plan.outgoing = {} /\ plan.intake = {} /\ pc = "idle" /\ log = {}
  BY NoLines DEF Init, Lines, RowsOf
<1> QED
  BY <1>1, ClocksInit DEF Founded, ClearsFounded, LogFounded, SentFounded, OwnChannel,
     IntakeOnly, IntakeDone

\* What a message does to what a channel has heard.
LEMMA DeliverTells ==
  ASSUME TypeOK, Founded, NEW m \in plan.outgoing, Deliver(m)
  PROVE  /\ told' \in [Channels \X Fps -> Promise!Heard]
         /\ \A p \in Channels \X Fps :
              /\ Promise!MayFollow(told[p], told'[p])
              /\ p[1] # m.channel => told'[p] = told[p]
              /\ told[p] # "nothing" => told'[p] # "nothing"
         /\ \A q \in m.rows : q.reason # "Resolved" => told'[<<q.channel, q.fp>>] # "nothing"
<1> DEFINE Values == {"nothing", "problem", "flapping", "clear"}
<1>1. told' = [p \in Channels \X Fps |-> Heard(m, p[1], p[2])]
  BY DEF Deliver
<1>2. \A q \in m.rows : q \in Lines /\ q.channel = m.channel /\ q \in QueueRow
  BY DEF Founded, OwnChannel, Lines, RowsOf, TypeOK, IsPlan, Message
<1>3. ASSUME NEW c \in Channels, NEW f \in Fps
      PROVE  /\ Heard(m, c, f) \in Values
             /\ Promise!MayFollow(told[<<c, f>>], Heard(m, c, f))
             /\ c # m.channel => Heard(m, c, f) = told[<<c, f>>]
             /\ told[<<c, f>>] # "nothing" => Heard(m, c, f) # "nothing"
             /\ (\E q \in m.rows : q.channel = c /\ q.fp = f /\ q.reason # "Resolved")
                => Heard(m, c, f) # "nothing"
  <2> DEFINE lines == {q \in m.rows : q.channel = c /\ q.fp = f}
  <2>1. told[<<c, f>>] \in Values
    BY DEF TypeOK
  <2>2. CASE lines = {}
    <3>1. Heard(m, c, f) = told[<<c, f>>]
      BY <2>2 DEF Heard
    <3> QED
      BY <2>1, <2>2, <3>1 DEF Promise!MayFollow
  <2>3. CASE lines # {}
    <3>1. c = m.channel
      BY <1>2, <2>3
    <3>2. CASE \E q \in lines : q.reason # "Resolved"
      <4>1. Heard(m, c, f) \in {"problem", "flapping"}
        BY <2>3, <3>2 DEF Heard, FiringLike
      <4> QED
        BY <3>1, <4>1 DEF Promise!MayFollow, Promise!Told
    <3>3. CASE \A q \in lines : q.reason = "Resolved"
      <4>1. Heard(m, c, f) = IF \E q \in lines : q.resolved_meanwhile
                             THEN IF told[<<c, f>>] = "nothing" THEN "nothing" ELSE "clear"
                             ELSE "clear"
        BY <2>3, <3>3, Zenon DEF Heard, FiringLike
      <4>2. CASE \E q \in lines : q.resolved_meanwhile
        <5>1. Heard(m, c, f) = IF told[<<c, f>>] = "nothing" THEN "nothing" ELSE "clear"
          BY <4>1, <4>2, Zenon
        <5> QED
          BY <2>1, <3>1, <3>3, <5>1 DEF Promise!MayFollow, Promise!Told
      <4>3. CASE ~\E q \in lines : q.resolved_meanwhile
        <5>1. Heard(m, c, f) = "clear"
          BY <4>1, <4>3, Zenon
        <5>2. PICK q \in lines : TRUE
          BY <2>3
        <5>3. q.resolved_meanwhile = FALSE
          <6>1. q.resolved_meanwhile \in BOOLEAN
            BY <1>2, <5>2 DEF QueueRow
          <6>2. ~q.resolved_meanwhile
            BY <4>3, <5>2, Zenon
          <6> QED
            BY <6>1, <6>2, Zenon
        <5>4. told[<<c, f>>] # "nothing"
          BY <1>2, <3>3, <5>2, <5>3 DEF Founded, ClearsFounded, HasHeard
        <5> QED
          BY <2>1, <3>1, <3>3, <5>1, <5>4 DEF Promise!MayFollow, Promise!Told
      <4> QED
        BY <4>2, <4>3
    <3> QED
      BY <3>2, <3>3
  <2> QED
    BY <2>2, <2>3
<1>4. \A c \in Channels, f \in Fps : told'[<<c, f>>] = Heard(m, c, f)
  BY <1>1
<1>5. told' \in [Channels \X Fps -> Promise!Heard]
  <2>1. \A p \in Channels \X Fps : Heard(m, p[1], p[2]) \in Promise!Heard
    BY <1>3 DEF Promise!Heard, Promise!Told
  <2> QED
    BY <1>1, <2>1
<1>6. \A q \in m.rows : q.channel \in Channels /\ q.fp \in Fps
  BY <1>2 DEF QueueRow
<1> QED
  BY <1>3, <1>4, <1>5, <1>6
\* Nothing is heard, then forgotten.
HeardKept == \A p \in Channels \X Fps : told[p] # "nothing" => told'[p] # "nothing"

\* Every step keeps what was heard.
LEMMA HeardStep ==
  ASSUME TypeOK, Founded, [Next]_vars
  PROVE  HeardKept
<1> USE DEF world, db, cycle
<1>1. ASSUME told' = told
      PROVE  HeardKept
  BY <1>1 DEF HeardKept
<1>2. ASSUME NEW m \in plan.outgoing, Deliver(m)
      PROVE  HeardKept
  BY <1>2, DeliverTells DEF HeardKept
<1>3. ASSUME NEW m \in plan.outgoing, DeliverFails(m)
      PROVE  HeardKept
  BY <1>1, <1>3 DEF DeliverFails
<1>4. CASE BeginCycle \/ LoadTargets \/ LoadStates \/ EvaluateAndSave \/ TouchStates
           \/ PlanNotifications \/ ApplyPlan \/ RecordSent \/ Requeue
           \/ MarkNotified \/ PurgeStates \/ Maintenance
  BY <1>1, <1>4 DEF BeginCycle, LoadTargets, LoadStates, EvaluateAndSave, TouchStates,
     PlanNotifications, ApplyPlan, RecordSent, Requeue, MarkNotified, PurgeStates, Maintenance
<1>5. CASE Faults \/ Environment
  BY <1>1, <1>5 DEF Faults, BookkeepingFails, DatabaseError, MaintenanceFails, Crash,
     Environment, Tick, ConditionChanges
<1>6. CASE Api
  BY <1>1, <1>6 DEF Api, Ack, Unack, PauseTarget, ForgetTarget, ForgetFails, ResumeTarget
<1>7. CASE UNCHANGED vars
  BY <1>1, <1>7 DEF vars
<1> QED
  BY <1>2, <1>3, <1>4, <1>5, <1>6, <1>7 DEF Next, Engine, Send

\* Lines carry over what is known of their channel and alert.
LEMMA LineTypes ==
  ASSUME TypeOK
  PROVE  Lines \subseteq QueueRow
  BY NoLines DEF TypeOK, IsPlan, Message, Lines, RowsOf

\* The part of the invariant about lines, in a step that makes none.
LEMMA ClearsStep ==
  ASSUME TypeOK, Founded, LinesKept, HeardKept
  PROVE  ClearsFounded'
<1> SUFFICES ASSUME NEW q \in Lines', q.reason = "Resolved", q.resolved_meanwhile = FALSE
             PROVE  told'[<<q.channel, q.fp>>] # "nothing"
  BY DEF ClearsFounded, HasHeard
<1>1. PICK p \in Lines : SameLine(p, q)
  BY DEF LinesKept
<1>2. p \in QueueRow
  BY LineTypes
<1>3. told[<<p.channel, p.fp>>] # "nothing"
  BY <1>1 DEF SameLine, Founded, ClearsFounded, HasHeard
<1> QED
  BY <1>1, <1>2, <1>3 DEF SameLine, HeardKept, QueueRow

\* The lines of a plan: an all-clear is only made of an announced problem.
LEMMA ClearsPlanned ==
  ASSUME TypeOK, Founded, PlanNotifications
  PROVE  ClearsFounded'
<1> SUFFICES ASSUME NEW q \in Lines', q.reason = "Resolved", q.resolved_meanwhile = FALSE
             PROVE  told[<<q.channel, q.fp>>] # "nothing"
  BY PlanStep DEF ClearsFounded, HasHeard
<1>1. \A p \in queue : p.reason = "Resolved" /\ p.resolved_meanwhile = FALSE
                         => told[<<p.channel, p.fp>>] # "nothing"
  BY DEF Founded, ClearsFounded, HasHeard, Lines
<1>2. CASE q \in queue
  BY <1>1, <1>2
<1>3. CASE Planned(q, Ledger, items, now)
  <2>1. PICK f \in DOMAIN items, c \in Channels :
          LineOf(q, Ledger, Ledger.queue \ Purged(Ledger, items, now), c, f,
                 EffectiveItem(Ledger, items, f, now))
    BY <1>3 DEF Planned
  <2> DEFINE item == EffectiveItem(Ledger, items, f, now)
             Q == Ledger.queue \ Purged(Ledger, items, now)
  <2>2. Q \subseteq queue
    BY DEF Ledger
  <2> HIDE DEF item, Q
  <2>3. LineOf(q, Ledger, Q, c, f, item)
    BY <2>1 DEF item, Q
  <2>4. q.channel = c /\ q.fp = f
    BY <2>3 DEF LineOf
  <2>5. item.reason = "Resolved"
    BY <2>3 DEF LineOf
  <2>6. CASE AnnouncedOn(Ledger, c, f)
    <3>1. PICK e \in log : e.channel = c /\ e.fp = f /\ e.reason # "Resolved"
      BY <2>6, Announced DEF Founded
    <3> QED
      BY <2>4, <3>1 DEF Founded, LogFounded, HasHeard
  <2>7. CASE \E p \in Q : SameLine(p, q)
    BY <1>1, <2>2, <2>7 DEF SameLine
  <2> QED
    BY <2>3, <2>5, <2>6, <2>7 DEF LineOf
<1> QED
  BY <1>2, <1>3, PlanStep

\* Every step keeps the invariant behind Announcement.
LEMMA FoundedStep ==
  ASSUME TypeOK, Founded, [Next]_vars
  PROVE  Founded'
<1> USE DEF world, db, cycle
<1>1. HeardKept
  BY HeardStep
<1>2. Clocks' /\ (now' = now \/ (BeginCycle /\ now <= now'))
  BY ClocksStep DEF Founded, IntakeOnly
<1>3. ClearsFounded'
  <2>1. CASE PlanNotifications
    BY <2>1, ClearsPlanned
  <2>2. CASE ~PlanNotifications
    BY <1>1, <2>2, LinesStep, ClearsStep
  <2> QED
    BY <2>1, <2>2
<1>4. OwnChannel'
  <2>1. CASE PlanNotifications
    BY <2>1, PlanStep DEF OwnChannel
  <2>2. CASE ~PlanNotifications
    BY <2>2, LinesStep DEF Founded, OwnChannel, LinesKept
  <2> QED
    BY <2>1, <2>2
<1>5. IntakeOnly' /\ IntakeDone'
  <2>1. CASE PlanNotifications
    BY <2>1, PlanStep DEF IntakeOnly, IntakeDone, IntakeEntries, PlanNotifications
  <2>2. CASE ~PlanNotifications
    <3>1. plan'.intake \subseteq plan.intake
      BY <2>2, LinesStep DEF LinesKept
    <3>2. CASE pc = "apply"
      <4>1. now' = now
        BY <1>2, <3>2 DEF BeginCycle
      <4>2. pc' = "apply" \/ plan'.intake = {}
        BY <2>2, <3>2, NoLines DEF Next, Engine, BeginCycle, LoadTargets, LoadStates,
           EvaluateAndSave, TouchStates, ApplyPlan, Send, Deliver, DeliverFails, RecordSent,
           Requeue, MarkNotified, PurgeStates, Maintenance, Faults, BookkeepingFails,
           DatabaseError, MaintenanceFails, Crash, CycleLost, Api, Ack, Unack, PauseTarget,
           ForgetTarget, ForgetFails, ResumeTarget, Environment, Tick, ConditionChanges, vars,
           NoPlan
      <4> QED
        BY <3>1, <4>1, <4>2 DEF Founded, IntakeOnly, IntakeDone
    <3>3. CASE pc # "apply"
      BY <3>1, <3>3 DEF Founded, IntakeOnly, IntakeDone
    <3> QED
      BY <3>2, <3>3
  <2> QED
    BY <2>1, <2>2
<1>6. LogFounded' /\ SentFounded'
  <2>1. \A e \in log : e.channel \in Channels /\ e.reason # "Resolved"
                         => told'[<<e.channel, e.fp>>] # "nothing"
    <3>1. \A e \in log : e.fp \in Fps
      BY DEF TypeOK, LogEntry
    <3> QED
      BY <1>1, <3>1 DEF Founded, LogFounded, HasHeard, HeardKept
  <2>2. ASSUME NEW e \in log', e \notin log
        PROVE  \/ e.channel = Intake
               \/ pc = "record" /\ told' = told
                  /\ \E q \in sending.rows : e.channel = q.channel /\ e.fp = q.fp
                                             /\ e.reason = q.reason
    <3>1. CASE ApplyPlan
      BY <2>2, <3>1 DEF ApplyPlan, Founded, IntakeOnly
    <3>2. CASE RecordSent
      BY <2>2, <3>2 DEF RecordSent
    <3> QED
      BY <2>2, <3>1, <3>2 DEF Next, Engine, BeginCycle, LoadTargets, LoadStates,
         EvaluateAndSave, TouchStates, PlanNotifications, Send, Deliver, DeliverFails,
         Requeue, MarkNotified, PurgeStates, Maintenance, Faults, BookkeepingFails,
         DatabaseError, MaintenanceFails, Crash, Api, Ack, Unack, PauseTarget,
         ForgetTarget, ForgetFails, ResumeTarget, Environment, Tick, ConditionChanges, vars
  <2>3. LogFounded'
    BY <2>1, <2>2, IntakeAssumption DEF Founded, LogFounded, SentFounded, HasHeard
  <2>4. SentFounded'
    <3>1. CASE Send
      BY <3>1, DeliverTells DEF Send, Deliver, DeliverFails, SentFounded, HasHeard
    <3>2. CASE ~Send
      <4>1. pc' = "record" => pc = "record" /\ sending' = sending
        BY <3>2 DEF Next, Engine, BeginCycle, LoadTargets, LoadStates,
           EvaluateAndSave, TouchStates, PlanNotifications, ApplyPlan, RecordSent,
           Requeue, MarkNotified, PurgeStates, Maintenance, Faults, BookkeepingFails,
           DatabaseError, MaintenanceFails, Crash, CycleLost, Api, Ack, Unack, PauseTarget,
           ForgetTarget, ForgetFails, ResumeTarget, Environment, Tick, ConditionChanges, vars
      <4>2. \A q \in sending.rows : q \in QueueRow
        BY LineTypes DEF Lines
      <4> QED
        BY <1>1, <4>1, <4>2 DEF Founded, SentFounded, HasHeard, HeardKept, QueueRow
    <3> QED
      BY <3>1, <3>2
  <2> QED
    BY <2>3, <2>4
<1> QED
  BY <1>2, <1>3, <1>4, <1>5, <1>6 DEF Founded

\* A step of the engine is a message to one channel, a change of a condition, or
\* nothing that the people behind the channels could notice.
LEMMA AnnouncementStep ==
  ASSUME TypeOK, Founded, [Next]_vars
  PROVE  [Promise!Next]_<<problem, told>>
<1> USE DEF world, db, cycle
<1>1. ASSUME UNCHANGED <<problem, told>>
      PROVE  [Promise!Next]_<<problem, told>>
  BY <1>1
<1>2. ASSUME NEW m \in plan.outgoing, Deliver(m)
      PROVE  [Promise!Next]_<<problem, told>>
  <2>1. m.channel \in Channels /\ problem' = problem
    BY <1>2 DEF TypeOK, IsPlan, Message, Deliver
  <2>2. Promise!Digest(m.channel)
    BY <1>2, <2>1, DeliverTells DEF Promise!Digest
  <2> QED
    BY <2>1, <2>2 DEF Promise!Next
<1>3. ASSUME NEW m \in plan.outgoing, DeliverFails(m)
      PROVE  [Promise!Next]_<<problem, told>>
  BY <1>1, <1>3 DEF DeliverFails
<1>4. ASSUME NEW f \in Fps, ConditionChanges(f)
      PROVE  [Promise!Next]_<<problem, told>>
  BY <1>4 DEF ConditionChanges, Promise!Next, Promise!ConditionChanges
<1>5. CASE BeginCycle \/ LoadTargets \/ LoadStates \/ EvaluateAndSave \/ TouchStates
           \/ PlanNotifications \/ ApplyPlan \/ RecordSent \/ Requeue
           \/ MarkNotified \/ PurgeStates \/ Maintenance
  BY <1>1, <1>5 DEF BeginCycle, LoadTargets, LoadStates, EvaluateAndSave, TouchStates,
     PlanNotifications, ApplyPlan, RecordSent, Requeue, MarkNotified, PurgeStates, Maintenance
<1>6. CASE Faults \/ Tick
  BY <1>1, <1>6 DEF Faults, BookkeepingFails, DatabaseError, MaintenanceFails, Crash, Tick
<1>7. CASE Api
  BY <1>1, <1>7 DEF Api, Ack, Unack, PauseTarget, ForgetTarget, ForgetFails, ResumeTarget
<1>8. CASE UNCHANGED vars
  BY <1>1, <1>8 DEF vars
<1> QED
  BY <1>2, <1>3, <1>4, <1>5, <1>6, <1>7, <1>8 DEF Next, Engine, Send, Environment

\* What is known of the lines and of the log holds in every reachable state.
LEMMA FoundedAlways == Spec => []Founded
<1>1. Init => Founded
  BY FoundedInit
<1>2. TypeOK /\ Founded /\ [Next]_vars => Founded'
  BY FoundedStep
<1> QED
  BY <1>1, <1>2, TypeCorrect, PTL DEF Spec

\* The engine implements the safety part of Announcement, whatever is lost,
\* repeated or interrupted: no all-clear reaches a channel that was not told of
\* the problem, and a message changes what one channel knows.
THEOREM AnnouncementKept == Spec => AnnouncementSafety
<1>1. Init => Promise!Init
  BY DEF Init, Promise!Init
<1>2. TypeOK /\ Founded /\ [Next]_vars => [Promise!Next]_<<problem, told>>
  BY AnnouncementStep
<1> QED
  BY <1>1, <1>2, TypeCorrect, FoundedAlways, PTL DEF Spec, AnnouncementSafety, Promise!Safety
-----------------------------------------------------------------------------
(* Flap holds.  The plan that trips one purges what waited, and the hold   *)
(* is written with that purge.                                             *)

\* What waits or is about to leave during a hold is the notice of the flapping.
HoldKept == \A q \in Lines : flap[q.fp] > now => q.reason = "Flapping"

\* The hold that apply_plan will write already silences the plan's own lines,
\* and purges the others.
HoldPlanned ==
  /\ \A q \in plan.enqueue \cup RowsOf(plan.outgoing) :
       q.fp \in plan.flap_holds => q.reason = "Flapping"
  /\ \A q \in queue : q.fp \in plan.flap_holds => Key(q) \in plan.dequeue

HoldsDone == pc # "apply" => plan.flap_holds = {}

HoldInv == HoldKept /\ HoldPlanned /\ HoldsDone

\* Initially nothing is held.
LEMMA HoldInit == Init => HoldInv
<1> SUFFICES ASSUME Init
             PROVE  HoldInv
  OBVIOUS
<1>1. Lines = {} /\ plan.flap_holds = {}
  BY NoLines DEF Init, Lines, RowsOf
<1> QED
  BY <1>1 DEF HoldInv, HoldKept, HoldPlanned, HoldsDone

\* A line of an alert the plan finds flapping is the notice itself.
LEMMA PlannedHold ==
  ASSUME TypeOK, HoldInv, PlanNotifications,
         NEW q \in plan'.enqueue \cup RowsOf(plan'.outgoing),
         q.fp \in plan'.flap_holds \/ flap[q.fp] > now
  PROVE  q.reason = "Flapping"
<1>1. CASE q \in queue /\ q \notin Purged(Ledger, items, now)
  <2>1. q.fp \notin plan'.flap_holds
    BY <1>1, PlanStep DEF Purged, Flapping, Ledger
  <2> QED
    BY <1>1, <2>1 DEF HoldInv, HoldKept, Lines
<1>2. CASE Planned(q, Ledger, items, now)
  <2>1. PICK f \in DOMAIN items, c \in Channels :
          /\ ~Held(Ledger, f, now)
          /\ LineOf(q, Ledger, Ledger.queue \ Purged(Ledger, items, now), c, f,
                    EffectiveItem(Ledger, items, f, now))
    BY <1>2 DEF Planned
  <2> DEFINE item == EffectiveItem(Ledger, items, f, now)
             Q == Ledger.queue \ Purged(Ledger, items, now)
  <2> HIDE DEF item, Q
  <2>2. LineOf(q, Ledger, Q, c, f, item) /\ q.fp = f
    BY <2>1 DEF item, Q, LineOf
  <2>3. ~(flap[f] > now)
    BY <2>1 DEF Held, Ledger
  <2>4. Trips(Ledger, items, f, now)
    BY <2>2, <2>3, PlanStep
  <2>5. item.reason = "Flapping"
    BY <2>4 DEF item, EffectiveItem, TypeOK, IsItems, Item
  <2> QED
    BY <2>2, <2>5 DEF LineOf
<1> QED
  BY <1>1, <1>2, PlanStep

\* A plan that trips a hold silences what it leaves.
LEMMA HoldPlanStep ==
  ASSUME TypeOK, HoldInv, PlanNotifications
  PROVE  HoldInv'
<1>1. HoldPlanned' /\ HoldsDone'
  <2>1. \A q \in queue' : q.fp \in plan'.flap_holds => Key(q) \in plan'.dequeue
    BY PlanStep DEF Purged, Flapping, Ledger, Keys
  <2> QED
    BY <2>1, PlannedHold DEF HoldPlanned, HoldsDone, PlanNotifications
<1>2. HoldKept'
  <2>1. ASSUME NEW q \in Lines', flap[q.fp] > now
        PROVE  q.reason = "Flapping"
    <3>1. CASE q \in queue
      BY <2>1, <3>1 DEF HoldInv, HoldKept, Lines
    <3>2. CASE q \in plan'.enqueue \cup RowsOf(plan'.outgoing)
      BY <2>1, <3>2, PlannedHold
    <3> QED
      BY <3>1, <3>2, PlanStep, NoLines DEF Lines
  <2> QED
    BY <2>1, PlanStep DEF HoldKept
<1> QED
  BY <1>1, <1>2 DEF HoldInv

\* Every other step keeps the silence of the holds.
LEMMA HoldOtherStep ==
  ASSUME TypeOK, Founded, HoldInv, [Next]_vars, ~PlanNotifications
  PROVE  HoldInv'
<1> USE DEF world, db, cycle
<1>1. flap \in [Fps -> Int] /\ now \in Nat /\ Lines \subseteq QueueRow
  BY LineTypes DEF TypeOK, OptTime, NoTime, Time
<1>2. now' = now \/ (BeginCycle /\ now <= now')
  BY ClocksStep DEF Founded, IntakeOnly
<1>4. CASE ApplyPlan
  <2>1. /\ queue' = {q \in queue : Key(q) \notin plan.dequeue /\ Key(q) \notin Keys(plan.enqueue)}
                      \cup plan.enqueue
        /\ sending' = sending /\ sending = NoMessage /\ now' = now
        /\ plan'.outgoing = plan.outgoing /\ plan'.enqueue = {} /\ plan'.flap_holds = {}
    BY <1>4 DEF ApplyPlan, Upsert, NoPlan, TypeOK
  <2>2. \A f \in Fps : flap'[f] = IF f \in plan.flap_holds THEN now + Global.flap_hold ELSE flap[f]
    BY <1>4 DEF ApplyPlan
  <2>3. \A q \in Lines' : q \in Lines /\ (q.fp \in plan.flap_holds => q.reason = "Flapping")
    BY <2>1, NoLines DEF Lines, HoldInv, HoldPlanned
  <2>4. HoldKept'
    BY <1>1, <2>1, <2>2, <2>3 DEF HoldKept, HoldInv, QueueRow
  <2> QED
    BY <2>1, <2>4 DEF HoldInv, HoldPlanned, HoldsDone
<1>5. ASSUME \A f \in Fps : flap'[f] <= flap[f],
             plan'.flap_holds \subseteq plan.flap_holds, pc = "apply" => queue' \subseteq queue,
             plan'.dequeue = plan.dequeue \/ plan'.flap_holds = {},
             plan'.enqueue \subseteq plan.enqueue,
             pc' # "apply" => plan'.flap_holds = {},
             flap' \in [Fps -> Int]
      PROVE  HoldInv'
  <2>1. LinesKept
    BY LinesStep
  <2>2. HoldKept'
    <3>1. ASSUME NEW q \in Lines', flap'[q.fp] > now'
          PROVE  q.reason = "Flapping"
      <4>1. PICK p \in Lines : SameLine(p, q)
        BY <2>1 DEF LinesKept
      <4>2. p.fp \in Fps /\ q.fp = p.fp /\ q.reason = p.reason
        BY <1>1, <4>1 DEF SameLine, QueueRow
      <4>3. now' >= now /\ now' \in Int
        BY <1>1, <1>2 DEF BeginCycle, TypeOK
      <4>4. flap[p.fp] > now
        BY <1>1, <1>5, <3>1, <4>2, <4>3
      <4> QED
        BY <4>2, <4>4 DEF HoldInv, HoldKept
    <3> QED
      BY <3>1 DEF HoldKept
  <2>3. HoldPlanned'
    <3>1. CASE plan'.flap_holds = {}
      BY <3>1 DEF HoldPlanned
    <3>2. CASE plan'.flap_holds # {}
      <4>1. pc = "apply"
        BY <1>5, <3>2 DEF HoldInv, HoldsDone
      <4>2. RowsOf(plan'.outgoing) \subseteq RowsOf(plan.outgoing)
        BY <2>1 DEF LinesKept, RowsOf
      <4> QED
        BY <1>5, <3>2, <4>1, <4>2 DEF HoldInv, HoldPlanned
    <3> QED
      BY <3>1, <3>2
  <2> QED
    BY <1>5, <2>2, <2>3 DEF HoldInv, HoldsDone
<1>6. flap' = flap => flap' \in [Fps -> Int] /\ \A f \in Fps : flap'[f] <= flap[f]
  BY <1>1
<1>7. CASE UNCHANGED <<flap, plan, pc>> /\ queue' \subseteq queue
  BY <1>5, <1>6, <1>7 DEF HoldInv, HoldsDone
<1>8. CASE BeginCycle \/ LoadTargets \/ LoadStates \/ EvaluateAndSave \/ TouchStates
           \/ PurgeStates
  BY <1>5, <1>6, <1>8 DEF BeginCycle, LoadTargets, LoadStates, EvaluateAndSave, TouchStates,
     PurgeStates, HoldInv, HoldsDone
<1>9. CASE Maintenance
  <2>1. flap' \in [Fps -> Int] /\ \A f \in Fps : flap'[f] <= flap[f]
    BY <1>1, <1>9 DEF Maintenance, NoTime, OptTime, TypeOK, Time
  <2> QED
    BY <1>5, <1>9, <2>1 DEF Maintenance, HoldInv, HoldsDone
<1>10. ASSUME NEW m \in plan.outgoing, Deliver(m) \/ DeliverFails(m)
       PROVE  HoldInv'
  <2>1. /\ plan'.enqueue = plan.enqueue /\ plan'.flap_holds = plan.flap_holds
        /\ plan'.dequeue = plan.dequeue
    BY <1>10 DEF Deliver, DeliverFails, TypeOK, IsPlan
  <2> QED
    BY <1>5, <1>6, <1>10, <2>1 DEF Deliver, DeliverFails,
       HoldInv, HoldsDone
<1>11. CASE RecordSent \/ Requeue \/ BookkeepingFails
  BY <1>5, <1>6, <1>11 DEF RecordSent, Requeue, BookkeepingFails,
     HoldInv, HoldsDone
<1>12. CASE MarkNotified
  BY <1>5, <1>6, <1>12, NoLines DEF MarkNotified, HoldInv, HoldsDone
<1>13. CASE MaintenanceFails
  BY <1>7, <1>13 DEF MaintenanceFails
<1>14. CASE DatabaseError \/ Crash
  BY <1>5, <1>6, <1>14, NoLines DEF DatabaseError, Crash, CycleLost
<1>15. CASE Api
  BY <1>7, <1>15 DEF Api, Ack, QueueAfterAck, Unack, PauseTarget, ForgetTarget,
     QueueAfterForget, ForgetFails, ResumeTarget
<1>16. CASE Environment
  BY <1>7, <1>16 DEF Environment, Tick, ConditionChanges
<1>17. CASE UNCHANGED vars
  BY <1>7, <1>17 DEF vars
<1> QED
  BY <1>4, <1>8, <1>9, <1>10, <1>11, <1>12, <1>13, <1>14, <1>15, <1>16, <1>17
  DEF Next, Engine, Send, Faults

\* During a flap hold only the flapping notice leaves, whatever waited before,
\* was requeued meanwhile, or was interrupted.
THEOREM FlapHoldKept == Spec => FlapHoldSilence
<1>1. Init => HoldInv
  BY HoldInit
<1>2. TypeOK /\ Founded /\ HoldInv /\ [Next]_vars => HoldInv'
  BY HoldPlanStep, HoldOtherStep
<1>3. ASSUME TypeOK, HoldInv, [Next]_vars, pc = "send", pc' = "record"
      PROVE  \A q \in sending'.rows : flap[q.fp] > now => q.reason = "Flapping"
  BY <1>3, DeliveredLines DEF HoldInv, HoldKept
<1>4. TypeOK /\ HoldInv /\ [Next]_vars
      => [pc = "send" /\ pc' = "record" =>
            \A q \in sending'.rows : flap[q.fp] > now => q.reason = "Flapping"]_vars
  BY <1>3
<1> QED
  BY <1>1, <1>2, <1>4, TypeCorrect, FoundedAlways, PTL DEF Spec, FlapHoldSilence
-----------------------------------------------------------------------------
(* Mutes.  An overlay that mutes an alert is set by the evaluation that    *)
(* also decides who speaks, and no later transaction of the cycle sets it. *)

Muted(s) == s.suppressed = TRUE \/ s.silenced = TRUE \/ s.learning = TRUE

SpeakersUnmuted ==
  \A f \in DOMAIN row : f \in DOMAIN items \cup plan.handled => ~Muted(row[f])

\* Initially nobody speaks.
LEMMA UnmutedInit == Init => SpeakersUnmuted
  BY InitialValues DEF Init, SpeakersUnmuted

\* save_states writes the mutes it was given.
LEMMA SavedMutes ==
  ASSUME NEW stored, IsRows(stored), NEW O, IsRows(O), NEW f \in DOMAIN O
  PROVE  Muted(SaveStates(stored, O)[f]) <=> Muted(O[f])
<1>1. O[f] \in AlertState
  BY DEF IsRows
<1>2. \/ SaveStates(stored, O)[f] = O[f]
      \/ \E u : SaveStates(stored, O)[f] = [O[f] EXCEPT !.acked_until = u]
  BY DEF SaveStates, MergeAck
<1> QED
  BY <1>1, <1>2 DEF Muted, AlertState

\* group() lets no muted alert speak.
LEMMA SpeakerUnmuted ==
  ASSUME NEW O, IsRows(O), NEW f \in DOMAIN GroupItems(O)
  PROVE  f \in DOMAIN O /\ ~Muted(O[f])
<1>1. f \in DOMAIN O /\ Decide(O[f], now, DecideSettings(f)) # "None"
  BY DEF GroupItems
<1>2. ~(O[f].suppressed \/ O[f].silenced \/ O[f].learning)
  BY <1>1, Zenon DEF Decide
<1>3. O[f].suppressed # TRUE /\ O[f].silenced # TRUE /\ O[f].learning # TRUE
  BY <1>2, Zenon
<1> QED
  BY <1>1, <1>3 DEF Muted

\* No step mutes an alert that is about to be counted as told.
LEMMA UnmutedStep ==
  ASSUME TypeOK, Coherence, SpeakersUnmuted, [Next]_vars
  PROVE  SpeakersUnmuted'
<1> USE DEF world, db, cycle
<1>1. \A f \in DOMAIN row : row[f] \in AlertState
  BY DEF TypeOK, IsRows
<1>2. ASSUME DOMAIN row' \subseteq DOMAIN row,
             \A f \in DOMAIN row' : Muted(row'[f]) <=> Muted(row[f]),
             DOMAIN items' \cup plan'.handled \subseteq DOMAIN items \cup plan.handled
      PROVE  SpeakersUnmuted'
  BY <1>2 DEF SpeakersUnmuted
<1>3. CASE EvaluateAndSave
  <2>1. PICK obs \in TruthfulObservations, flagged \in DownChoices,
             silences \in SilenceChoices :
          LET outcome == Outcome(obs, flagged, silences) IN
          /\ row' = SaveStates(row, outcome)
          /\ items' = GroupItems(outcome)
          /\ carried' = CarriedOver(obs)
    BY <1>3 DEF EvaluateAndSave
  <2> DEFINE O == Outcome(obs, flagged, silences)
  <2>2. IsRows(O)
    BY OutcomeOK DEF Coherence, PrevCoherent
  <2> HIDE DEF O
  <2>3. row' = SaveStates(row, O) /\ items' = GroupItems(O)
    BY <2>1 DEF O
  <2>4. plan'.handled = {}
    BY <1>3 DEF EvaluateAndSave, Coherence, NothingHandled
  <2>5. \A f \in DOMAIN items' : ~Muted(row'[f])
    BY <2>2, <2>3, SpeakerUnmuted, SavedMutes DEF TypeOK
  <2> QED
    BY <2>4, <2>5 DEF SpeakersUnmuted
<1>4. CASE TouchStates
  <2>1. \A f \in DOMAIN row : Muted(Touched[f]) <=> Muted(row[f])
    BY <1>1 DEF Touched, Muted, AlertState
  <2> QED
    BY <1>2, <1>4, <2>1 DEF TouchStates, Touched
<1>5. CASE PlanNotifications
  <2>1. PICK on \in ChannelChoices : plan' = Plan(Ledger, items, on, now)
    BY <1>5 DEF PlanNotifications
  <2>2. plan'.handled \subseteq DOMAIN items
    BY <2>1, LedgerType, PlanType, EngineAssumption DEF TypeOK
  <2> QED
    BY <1>2, <1>5, <2>2, InitialValues DEF PlanNotifications
<1>6. CASE ApplyPlan
  BY <1>2, <1>6, PlanUpdates DEF ApplyPlan, TypeOK
<1>7. CASE Send
  BY <1>2, <1>7, PlanUpdates DEF Send, Deliver, DeliverFails, TypeOK
<1>8. CASE MarkNotified
  <2>1. \A f \in DOMAIN row' : Muted(row'[f]) <=> Muted(row[f])
    BY <1>1, <1>8 DEF MarkNotified, Noted, Muted, AlertState
  <2> QED
    BY <1>2, <1>8, <2>1, InitialValues DEF MarkNotified
<1>9. CASE RecordSent \/ Requeue \/ BookkeepingFails \/ BeginCycle \/ LoadTargets \/ LoadStates
           \/ Maintenance \/ MaintenanceFails \/ Environment
  BY <1>2, <1>9 DEF RecordSent, Requeue, BookkeepingFails, BeginCycle, LoadTargets, LoadStates,
     Maintenance, MaintenanceFails, Environment, Tick, ConditionChanges
<1>10. CASE PurgeStates
  BY <1>2, <1>10 DEF PurgeStates
<1>11. CASE DatabaseError \/ Crash
  BY <1>2, <1>11, InitialValues DEF DatabaseError, Crash, CycleLost
<1>12. ASSUME NEW f \in Fps, NEW u, row' = [row EXCEPT ![f].acked_until = u],
              UNCHANGED <<items, plan>>
       PROVE  SpeakersUnmuted'
  <2>1. \A g \in DOMAIN row' : Muted(row'[g]) <=> Muted(row[g])
    BY <1>1, <1>12 DEF Muted, AlertState
  <2> QED
    BY <1>2, <1>12, <2>1
<1>13. CASE Api
  BY <1>2, <1>12, <1>13 DEF Api, Ack, Unack, PauseTarget, ForgetTarget, ForgetFails, ResumeTarget
<1>14. CASE UNCHANGED vars
  BY <1>2, <1>14 DEF vars
<1> QED
  BY <1>3, <1>4, <1>5, <1>6, <1>7, <1>8, <1>9, <1>10, <1>11, <1>13, <1>14
  DEF Next, Engine, Faults

\* A muted alert is never counted as told, however the cycle that mutes it is
\* interleaved with users: what is said when the mute ends is an announcement.
THEOREM MutedUncounted == Spec => MutedNotCounted
<1>1. TypeOK /\ Coherence /\ [Next]_vars => Coherence'
  BY CoherenceStep
<1>2. TypeOK /\ Coherence /\ SpeakersUnmuted /\ [Next]_vars => SpeakersUnmuted'
  BY UnmutedStep
<1>3. ASSUME TypeOK, SpeakersUnmuted, [Next]_vars, pc = "send", pc' = "purge",
             NEW f \in DOMAIN row,
             row[f].suppressed \/ row[f].silenced \/ row[f].learning
      PROVE  row'[f].notify_count = row[f].notify_count
  <2>1. MarkNotified
    BY <1>3 DEF Next, Engine, BeginCycle, LoadTargets, LoadStates,
       EvaluateAndSave, TouchStates, PlanNotifications, ApplyPlan, Send, Deliver, DeliverFails,
       RecordSent, Requeue, PurgeStates, Maintenance, Faults, BookkeepingFails,
       DatabaseError, MaintenanceFails, Crash, CycleLost, Api, Ack, Unack, PauseTarget,
       ForgetTarget, ForgetFails, ResumeTarget, Environment, Tick, ConditionChanges, vars,
       cycle
  <2>2. row[f].suppressed \in BOOLEAN /\ row[f].silenced \in BOOLEAN /\ row[f].learning \in BOOLEAN
    BY <1>3 DEF TypeOK, IsRows, AlertState
  <2>3. Muted(row[f])
    BY <1>3, <2>2, Zenon DEF Muted
  <2>4. f \notin plan.handled
    BY <1>3, <2>3 DEF SpeakersUnmuted
  <2> QED
    BY <1>3, <2>1, <2>4 DEF MarkNotified
<1>4. TypeOK /\ SpeakersUnmuted /\ [Next]_vars
      => [pc = "send" /\ pc' = "purge" =>
            \A f \in DOMAIN row :
              /\ row[f].last_eval_at = now
              /\ row[f].suppressed \/ row[f].silenced \/ row[f].learning
              => row'[f].notify_count = row[f].notify_count]_vars
  BY <1>3, Zenon
<1> QED
  BY <1>1, <1>2, <1>4, UnmutedInit, CoherenceInit, TypeCorrect, PTL DEF Spec, MutedNotCounted
-----------------------------------------------------------------------------
(* The hourly cap.  flush asks for it once per channel and cycle, so it    *)
(* holds where a channel gets at most one message per cycle: everywhere    *)
(* but on an on-call channel that hears of several devices.                *)

OneMessageEach ==
  \A c \in Channels : Policy[c].oncall => \A f, g \in Fps : TargetOf[f] = TargetOf[g]

Recent(c) == {m \in messages : m.channel = c /\ m.at > now - Hour}

\* A message for this channel is planned, or out and not recorded.
Leaving(c) ==
  \/ \E m \in plan.outgoing : m.channel = c
  \/ pc = "record" /\ sending.channel = c

\* What is about to leave still has room.
CapRoom ==
  Global.max_per_hour > 0 =>
    \A c \in Channels :
      /\ Cardinality(Recent(c)) <= Global.max_per_hour
      /\ Leaving(c) => Cardinality(Recent(c)) < Global.max_per_hour

\* A channel has at most one message planned or out.
OneLeaving ==
  /\ \A m, n \in plan.outgoing : m.channel = n.channel => m = n
  /\ pc = "record" => \A m \in plan.outgoing : m.channel # sending.channel

CapInv == IsFiniteSet(messages) /\ CapRoom /\ OneLeaving

\* Initially nothing was sent.
LEMMA CapInit == Init => CapInv
<1> SUFFICES ASSUME Init
             PROVE  CapInv
  OBVIOUS
<1>1. messages = {} /\ plan.outgoing = {} /\ pc = "idle"
  BY NoLines DEF Init
<1>2. \A c \in Channels : Recent(c) = {} /\ ~Leaving(c)
  BY <1>1 DEF Recent, Leaving
<1>3. Cardinality({}) = 0 /\ IsFiniteSet({}) /\ Global.max_per_hour \in Nat
  BY FS_EmptySet, PolicyAssumption DEF GlobalType
<1> QED
  BY <1>1, <1>2, <1>3 DEF CapInv, CapRoom, OneLeaving

\* The messages of one channel are one, and are made below the cap.
LEMMA MessagesCapped ==
  ASSUME OneMessageEach, NEW L, NEW Q \in SUBSET QueueRow, NEW on \in SUBSET Channels, NEW t
  PROVE  /\ \A m \in Messages(L, Q, on, t) : m.channel \in on /\ ~Capped(L, m.channel, t)
         /\ \A m, n \in Messages(L, Q, on, t) : m.channel = n.channel => m = n
<1> DEFINE ready(c) == Ready(L, Q, c, t)
           single(c) == [channel |-> c, rows |-> ready(c)]
<1>1. \A c \in on : \A q \in ready(c) : q.fp \in Fps /\ ~Capped(L, c, t)
  BY DEF Ready, QueueRow
<1>2. ASSUME NEW c \in on, Policy[c].oncall, NEW u \in {TargetOf[q.fp] : q \in ready(c)}
      PROVE  {q \in ready(c) : TargetOf[q.fp] = u} = ready(c)
  <2>1. PICK p \in ready(c) : u = TargetOf[p.fp]
    BY <1>2
  <2>2. \A q \in ready(c) : TargetOf[q.fp] = u
    BY <1>1, <1>2, <2>1, Zenon DEF OneMessageEach
  <2> HIDE DEF ready
  <2> QED
    BY <2>2
<1> HIDE DEF ready
<1>3. ASSUME NEW m \in Messages(L, Q, on, t)
      PROVE  \E c \in on : m = single(c) /\ m.rows # {}
  <2>1. PICK c \in on :
          /\ m.rows # {}
          /\ m \in IF Policy[c].oncall
                   THEN {[channel |-> c, rows |-> {q \in ready(c) : TargetOf[q.fp] = u}] :
                           u \in {TargetOf[q.fp] : q \in ready(c)}}
                   ELSE {single(c)}
    BY Zenon DEF Messages, ready
  <2>2. CASE Policy[c].oncall
    <3>1. PICK u \in {TargetOf[q.fp] : q \in ready(c)} :
            m = [channel |-> c, rows |-> {q \in ready(c) : TargetOf[q.fp] = u}]
      BY <2>1, <2>2, Zenon
    <3> QED
      BY <1>2, <2>1, <2>2, <3>1
  <2>3. CASE ~Policy[c].oncall
    BY <2>1, <2>3
  <2> QED
    BY <2>2, <2>3
<1>4. \A c : single(c).channel = c /\ single(c).rows = ready(c)
  OBVIOUS
<1> HIDE DEF single
<1>5. ASSUME NEW m \in Messages(L, Q, on, t)
      PROVE  m.channel \in on /\ m = single(m.channel) /\ ~Capped(L, m.channel, t)
  BY <1>1, <1>3, <1>4
<1> QED
  BY <1>5

\* Nothing new is sent or recorded: the cap keeps its room.
CapSame ==
  /\ \A c \in Channels : Recent(c)' \subseteq Recent(c) /\ (Leaving(c)' => Leaving(c))
  /\ messages' \subseteq messages

\* Steps that send nothing keep the room below the cap.
LEMMA CapDrops ==
  ASSUME TypeOK, CapInv, CapSame, OneLeaving'
  PROVE  CapInv'
<1>1. IsFiniteSet(messages')
  BY FS_Subset DEF CapInv, CapSame
<1>2. ASSUME NEW c \in Channels
      PROVE  /\ Cardinality(Recent(c)') \in Nat /\ Cardinality(Recent(c)) \in Nat
             /\ Cardinality(Recent(c)') <= Cardinality(Recent(c))
  <2>1. Recent(c) \in SUBSET messages /\ Recent(c)' \in SUBSET Recent(c)
    BY DEF CapSame, Recent
  <2>2. IsFiniteSet(Recent(c))
    BY <2>1, FS_Subset DEF CapInv
  <2> QED
    BY <2>1, <2>2, FS_Subset, FS_CardinalityType
<1>3. CapRoom'
  <2>1. Global.max_per_hour \in Nat
    BY PolicyAssumption DEF GlobalType
  <2> QED
    BY <1>2, <2>1 DEF CapInv, CapRoom, CapSame
<1> QED
  BY <1>1, <1>3 DEF CapInv

\* record_sent uses up the room that its message had.
LEMMA CapRecords ==
  ASSUME TypeOK, CapInv, RecordSent
  PROVE  CapInv'
<1> DEFINE x == [channel |-> sending.channel, fps |-> {q.fp : q \in sending.rows}, at |-> now]
<1>1. /\ pc = "record" /\ pc' = "send" /\ plan' = plan /\ now' = now
      /\ messages' = messages \cup {x}
  BY DEF RecordSent
<1>2. x.channel = sending.channel
  OBVIOUS
<1> HIDE DEF x
<1>3. IsFiniteSet(messages')
  BY <1>1, FS_AddElement DEF CapInv
<1>4. OneLeaving'
  BY <1>1 DEF CapInv, OneLeaving
<1>5. ASSUME NEW c \in Channels, Global.max_per_hour > 0
      PROVE  /\ Cardinality(Recent(c)') <= Global.max_per_hour
             /\ Leaving(c)' => Cardinality(Recent(c)') < Global.max_per_hour
  <2>1. IsFiniteSet(Recent(c)) /\ Cardinality(Recent(c)) \in Nat
    <3>1. Recent(c) \in SUBSET messages
      BY DEF Recent
    <3> QED
      BY <3>1, FS_Subset, FS_CardinalityType DEF CapInv
  <2>2. Global.max_per_hour \in Nat
    BY PolicyAssumption DEF GlobalType
  <2>3. CASE c = sending.channel
    <3>1. Recent(c)' \in SUBSET (Recent(c) \cup {x})
      BY <1>1 DEF Recent
    <3>2. Cardinality(Recent(c) \cup {x}) <= Cardinality(Recent(c)) + 1
          /\ IsFiniteSet(Recent(c) \cup {x}) /\ Cardinality(Recent(c) \cup {x}) \in Nat
      BY <2>1, FS_AddElement, FS_CardinalityType
    <3>3. /\ Cardinality(Recent(c)') <= Cardinality(Recent(c) \cup {x})
          /\ Cardinality(Recent(c)') \in Nat
      BY <3>1, <3>2, FS_Subset, FS_CardinalityType
    <3>4. Cardinality(Recent(c)) < Global.max_per_hour
      BY <1>1, <1>5, <2>3 DEF CapInv, CapRoom, Leaving
    <3>5. ~Leaving(c)'
      BY <1>1, <2>3 DEF Leaving, CapInv, OneLeaving
    <3> QED
      BY <2>1, <2>2, <3>2, <3>3, <3>4, <3>5
  <2>4. CASE c # sending.channel
    <3>1. Recent(c)' = Recent(c)
      BY <1>1, <1>2, <2>4 DEF Recent
    <3>2. Leaving(c)' => Leaving(c)
      BY <1>1 DEF Leaving
    <3> QED
      BY <1>5, <3>1, <3>2 DEF CapInv, CapRoom
  <2> QED
    BY <2>3, <2>4
<1> QED
  BY <1>3, <1>4, <1>5 DEF CapInv, CapRoom

\* plan makes a message only where there is room for it.
LEMMA CapPlans ==
  ASSUME OneMessageEach, TypeOK, CapInv, PlanNotifications
  PROVE  CapInv'
<1>1. PICK on \in ChannelChoices : plan' = Plan(Ledger, items, on, now)
  BY DEF PlanNotifications
<1>2. IsLedger(Ledger) /\ IsItems(items) /\ on \in SUBSET Channels /\ now \in Nat
  BY LedgerType, EngineAssumption DEF TypeOK
<1> DEFINE Q == Upsert(Ledger.queue \ Purged(Ledger, items, now), Routed(Ledger, items, on, now))
<1>3. Q \in SUBSET QueueRow
  BY <1>2, RoutedType DEF Upsert, IsLedger
<1>4. plan'.outgoing = Messages(Ledger, Q, on, now)
  BY <1>1 DEF Plan
<1> HIDE DEF Q
<1>5. /\ \A m \in plan'.outgoing : m.channel \in Channels /\ ~Capped(Ledger, m.channel, now)
      /\ \A m, n \in plan'.outgoing : m.channel = n.channel => m = n
  BY <1>2, <1>3, <1>4, MessagesCapped
<1>6. pc' = "apply" /\ messages' = messages /\ now' = now
  BY DEF PlanNotifications, db
<1>7. \A c : Recent(c)' = Recent(c) /\ MessagesInHour(Ledger, c, now) = Cardinality(Recent(c))
  BY <1>6 DEF Recent, MessagesInHour, Ledger
<1>8. ASSUME NEW c \in Channels, Global.max_per_hour > 0, Leaving(c)'
      PROVE  Cardinality(Recent(c)) < Global.max_per_hour
  <2>1. ~Capped(Ledger, c, now)
    BY <1>5, <1>6, <1>8 DEF Leaving
  <2>2. Cardinality(Recent(c)) \in Nat /\ Global.max_per_hour \in Nat
    <3>1. Recent(c) \in SUBSET messages
      BY DEF Recent
    <3> QED
      BY <3>1, FS_Subset, FS_CardinalityType, PolicyAssumption DEF CapInv, GlobalType
  <2> QED
    BY <1>7, <1>8, <2>1, <2>2 DEF Capped
<1>9. CapRoom'
  BY <1>7, <1>8 DEF CapInv, CapRoom
<1>10. OneLeaving'
  BY <1>5, <1>6 DEF OneLeaving
<1> QED
  BY <1>6, <1>9, <1>10 DEF CapInv

\* Every step keeps the room below the cap.
LEMMA CapStep ==
  ASSUME OneMessageEach, TypeOK, Founded, CapInv, [Next]_vars
  PROVE  CapInv'
<1> USE DEF world, db, cycle
<1>1. CASE PlanNotifications
  BY <1>1, CapPlans
<1>2. CASE RecordSent
  BY <1>2, CapRecords
<1>3. ASSUME messages' \subseteq messages, pc' = "record" => pc = "record" /\ sending' = sending,
             plan'.outgoing \subseteq plan.outgoing
      PROVE  CapInv'
  <2>1. now' >= now /\ now' \in Int /\ now \in Int /\ Hour \in Int
    <3>1. now' = now \/ (BeginCycle /\ now <= now')
      BY ClocksStep DEF Founded, IntakeOnly
    <3> QED
      BY <3>1, PolicyAssumption DEF BeginCycle, TypeOK
  <2>2. \A m \in messages : m.at \in Int
    BY DEF TypeOK, SentMessage, Time
  <2>3. CapSame
    BY <1>3, <2>1, <2>2 DEF CapSame, Recent, Leaving
  <2>4. OneLeaving'
    BY <1>3 DEF CapInv, OneLeaving
  <2> QED
    BY <2>3, <2>4, CapDrops
<1>4. ASSUME NEW m \in plan.outgoing, Deliver(m)
      PROVE  CapInv'
  <2>1. /\ sending' = m /\ pc' = "record" /\ pc = "send" /\ UNCHANGED <<messages, now>>
        /\ plan'.outgoing = plan.outgoing \ {m}
    BY <1>4 DEF Deliver, TypeOK, IsPlan
  <2>2. OneLeaving'
    BY <2>1 DEF CapInv, OneLeaving
  <2>3. CapSame
    BY <2>1 DEF CapSame, Recent, Leaving
  <2> QED
    BY <2>2, <2>3, CapDrops
<1>5. ASSUME NEW m \in plan.outgoing, DeliverFails(m)
      PROVE  CapInv'
  <2>1. plan'.outgoing = plan.outgoing \ {m} /\ pc' = "requeue" /\ messages' = messages
    BY <1>5 DEF DeliverFails, TypeOK, IsPlan
  <2> QED
    BY <1>3, <2>1
<1>6. CASE ApplyPlan
  <2>1. plan'.outgoing = plan.outgoing /\ pc' = "send" /\ messages' = messages
    BY <1>6 DEF ApplyPlan, NoPlan
  <2> QED
    BY <1>3, <2>1
<1>7. CASE BeginCycle \/ LoadTargets \/ LoadStates \/ EvaluateAndSave \/ TouchStates
           \/ Requeue \/ MarkNotified \/ PurgeStates \/ Maintenance
  BY <1>3, <1>7, NoLines DEF BeginCycle, LoadTargets, LoadStates, EvaluateAndSave, TouchStates,
     Requeue, MarkNotified, PurgeStates, Maintenance
<1>8. CASE Faults \/ Environment
  BY <1>3, <1>8, NoLines DEF Faults, BookkeepingFails, DatabaseError, MaintenanceFails, Crash,
     CycleLost, Environment, Tick, ConditionChanges
<1>9. CASE Api
  BY <1>3, <1>9 DEF Api, Ack, Unack, PauseTarget, ForgetTarget, ForgetFails, ResumeTarget
<1>10. CASE UNCHANGED vars
  BY <1>3, <1>10 DEF vars
<1> QED
  BY <1>1, <1>2, <1>4, <1>5, <1>6, <1>7, <1>8, <1>9, <1>10 DEF Next, Engine, Send

\* No channel receives more than max_per_hour messages within an hour, as long
\* as on-call channels, which get a message per device, hear of one device only.
THEOREM CapKept == OneMessageEach => (Spec => []HourlyCap)
<1> SUFFICES ASSUME OneMessageEach PROVE Spec => []HourlyCap
  OBVIOUS
<1>1. TypeOK /\ Founded /\ CapInv /\ [Next]_vars => CapInv'
  BY CapStep
<1>2. CapInv => HourlyCap
  BY DEF CapInv, CapRoom, HourlyCap, Recent
<1> QED
  BY <1>1, <1>2, CapInit, TypeCorrect, FoundedAlways, PTL DEF Spec
-----------------------------------------------------------------------------
(* Acknowledgements and the queue.  set_ack empties the queue of what is   *)
(* said of the alert; what a cycle had already taken out of the queue, or  *)
(* decided, comes back behind the user's back, so the theorem is about     *)
(* acks given before the cycle reads the states or after it is done.       *)

AcksBetweenCycles ==
  AckPoints \cap {"evaluate", "touch", "policy", "apply", "send", "record", "requeue"} = {}

Speaking(x) == x.reason \notin {"Resolved", "Flapping"}

\* Nothing that waits or is about to leave speaks of the problem of f.
Silent(f) == \A q \in Lines : q.fp = f => ~Speaking(q)

\* The alerts acknowledged in the table, and among what the cycle read.
AckedNow == {f \in DOMAIN row : IsAcked(row[f], now)}

AckedRead == {f \in DOMAIN prev : IsAcked(prev[f], now)}

Mentions == \A q \in Lines : q.resolved_meanwhile = TRUE => q.reason = "Resolved"

\* The locals of a cycle live from the stage that sets them to the one that
\* uses them.
Stages ==
  /\ pc \notin {"touch", "policy"} => DOMAIN items = {}
  /\ pc \notin {"apply", "send", "record", "requeue"}
       => plan.enqueue = {} /\ plan.outgoing = {}

ReadAcks == pc = "evaluate" => AckedRead = knows.acked /\ AckedNow \subseteq knows.acked

AckInv ==
  /\ \A f \in AckedNow \cup knows.acked : Silent(f)
  /\ \A f \in DOMAIN items : Speaking(items[f]) => f \notin AckedNow \cup knows.acked
  /\ Mentions /\ ReadAcks

\* Initially nothing is acknowledged and nothing waits.
LEMMA AckInvInit == Init => AckInv /\ Stages
<1> SUFFICES ASSUME Init
             PROVE  AckInv /\ Stages
  OBVIOUS
<1>1. /\ Lines = {} /\ plan.outgoing = {} /\ plan.enqueue = {} /\ DOMAIN items = {}
      /\ pc = "idle"
  BY NoLines, InitialValues DEF Init, Lines, RowsOf
<1> QED
  BY <1>1 DEF AckInv, Stages, Silent, Mentions, ReadAcks

\* Every step keeps the locals to their stages.
LEMMA StagesStep ==
  ASSUME TypeOK, Stages, [Next]_vars
  PROVE  Stages'
<1> USE DEF world, db, cycle, Stages
<1>1. CASE BeginCycle \/ LoadTargets \/ LoadStates \/ EvaluateAndSave \/ TouchStates
           \/ PurgeStates \/ Maintenance
  BY <1>1 DEF BeginCycle, LoadTargets, LoadStates, EvaluateAndSave, TouchStates, PurgeStates,
     Maintenance
<1>2. CASE PlanNotifications \/ ApplyPlan \/ Send \/ RecordSent \/ Requeue \/ MarkNotified
  BY <1>2, InitialValues, NoLines DEF PlanNotifications, ApplyPlan, Send, Deliver, DeliverFails,
     RecordSent, Requeue, MarkNotified
<1>3. CASE Faults
  BY <1>3, InitialValues, NoLines DEF Faults, BookkeepingFails, DatabaseError, MaintenanceFails,
     Crash, CycleLost
<1>4. CASE Api
  BY <1>4 DEF Api, Ack, Unack, PauseTarget, ForgetTarget, ForgetFails, ResumeTarget
<1>5. CASE Environment
  BY <1>5 DEF Environment, Tick, ConditionChanges
<1>6. CASE UNCHANGED vars
  BY <1>6 DEF vars
<1> QED
  BY <1>1, <1>2, <1>3, <1>4, <1>5, <1>6 DEF Next, Engine

\* Steps that make no line, acknowledge nothing and decide nothing.
LEMMA AckQuietDrops ==
  ASSUME AckInv, LinesKept,
         AckedNow' \cup knows'.acked \subseteq AckedNow \cup knows.acked,
         items' = items \/ DOMAIN items' = {}, ReadAcks'
  PROVE  AckInv'
<1>1. \A f : Silent(f) => Silent(f)'
  BY DEF Silent, LinesKept, SameLine, Speaking
<1>2. Mentions'
  BY DEF AckInv, Mentions, LinesKept, SameLine
<1>3. \A f \in AckedNow' \cup knows'.acked : Silent(f)'
  BY <1>1 DEF AckInv
<1> QED
  BY <1>2, <1>3 DEF AckInv

\* An evaluation carries the acknowledgement of an active alert over.
LEMMA OutcomeAcks ==
  ASSUME TypeOK, NEW obs \in TruthfulObservations, NEW flagged, NEW silences,
         NEW f \in DOMAIN Outcome(obs, flagged, silences),
         Outcome(obs, flagged, silences)[f].phase \in ActivePhases
  PROVE  Outcome(obs, flagged, silences)[f].acked_until = Before(f).acked_until
<1> DEFINE O == Outcome(obs, flagged, silences)
           adv == Advanced(f, obs[f])
           b == Before(f)
           next == Advance(b, obs[f] \in {"true", "learning"}, now, Rule[f].for)
<1>1. b \in AlertState
  BY DefaultStateOK DEF Before, TypeOK, IsRows, AlertState
<1> HIDE DEF b
<1>2. next \in AlertState
      /\ (next.phase \in ActivePhases => next.acked_until = b.acked_until)
  <2>1. f \in Fps /\ Rule[f].for \in Nat /\ now \in Nat
    BY PolicyAssumption DEF Outcome, EvaluatedFps, TypeOK, RuleType
  <2>2. next \in AlertState
    <3>1. (obs[f] \in {"true", "learning"}) \in BOOLEAN
      OBVIOUS
    <3>2. \A s \in AlertState, condition \in BOOLEAN, t \in Nat, for \in Nat :
            Advance(s, condition, t, for) \in AlertState
      BY AdvanceType
    <3> QED
      BY <1>1, <2>1, <3>1, <3>2
  <2>3. next = ConditionHolds(b, now, Rule[f].for) \/ next = ConditionFalls(b, now)
    BY DEF Advance
  <2>4. ConditionHolds(b, now, Rule[f].for).acked_until = b.acked_until
    BY <1>1 DEF ConditionHolds, AlertState
  <2>5. ConditionFalls(b, now).phase \notin ActivePhases
    BY <1>1 DEF ConditionFalls, AlertState, ActivePhases
  <2> QED
    BY <2>2, <2>3, <2>4, <2>5
<1> HIDE DEF next
<1>3. adv = next \/ \E v : adv = [next EXCEPT !.learning = v]
  BY DEF Advanced, next, b
<1>4. adv.phase = next.phase /\ adv.acked_until = next.acked_until
      /\ DOMAIN adv = DOMAIN next
  BY <1>2, <1>3 DEF AlertState
<1> HIDE DEF adv
<1>5. \E u, v : O[f] = [adv EXCEPT !.suppressed = u, !.silenced = v]
  BY DEF Outcome, adv
<1>6. O[f].phase = adv.phase /\ O[f].acked_until = adv.acked_until
  BY <1>2, <1>4, <1>5 DEF AlertState
<1> QED
  BY <1>2, <1>4, <1>6 DEF b

\* decide speaks of no problem that is acknowledged.
LEMMA DecideAcked ==
  ASSUME NEW s \in AlertState, NEW t, NEW rule, IsAcked(s, t)
  PROVE  Decide(s, t, rule) = "None"
<1>1. s.phase # "Resolved"
  BY DEF IsAcked, ActivePhases
<1> QED
  BY <1>1 DEF Decide, DecideFiring

\* Only a firing alert is spoken of as a problem.
LEMMA DecideSpeaks ==
  ASSUME NEW s \in AlertState, NEW t, NEW rule,
         Decide(s, t, rule) \notin {"None", "Resolved"}
  PROVE  s.phase = "Firing"
  BY DEF Decide, DecideResolved

\* An evaluation decides to speak of no alert it read as acknowledged.
LEMMA AckEvaluates ==
  ASSUME TypeOK, Coherence, AckInv, EvaluateAndSave
  PROVE  AckInv'
<1> USE DEF world, db, cycle
<1>1. PICK obs \in TruthfulObservations, flagged \in DownChoices,
           silences \in SilenceChoices :
        LET outcome == Outcome(obs, flagged, silences) IN
        /\ row' = SaveStates(row, outcome)
        /\ items' = GroupItems(outcome)
        /\ carried' = CarriedOver(obs)
  BY DEF EvaluateAndSave
<1> DEFINE O == Outcome(obs, flagged, silences)
<1>2. IsRows(O) /\ \A f \in DOMAIN O : O[f].last_eval_at = now
  BY OutcomeOK
<1>3. \A f \in DOMAIN O : O[f].phase \in ActivePhases => O[f].acked_until = Before(f).acked_until
  BY OutcomeAcks
<1> HIDE DEF O
<1>4. row' = SaveStates(row, O) /\ items' = GroupItems(O)
  BY <1>1 DEF O
<1>5. /\ pc = "evaluate" /\ pc' = "touch" /\ Lines' = Lines /\ knows' = knows /\ now' = now
      /\ AckedRead = knows.acked /\ AckedNow \subseteq knows.acked
  BY DEF EvaluateAndSave, Lines, AckInv, ReadAcks
<1>6. ASSUME NEW f \in DOMAIN O
      PROVE  IsAcked(O[f], now) => f \in AckedRead
  <2>1. \A g \in DOMAIN prev : prev[g] \in AlertState /\ StateShape(prev[g])
    BY DEF TypeOK, IsRows, Coherence, PrevCoherent
  <2>2. CASE f \in DOMAIN prev
    <3>1. Before(f).acked_until = prev[f].acked_until
      BY <2>1, <2>2 DEF Before, AlertState
    <3> QED
      BY <1>3, <2>1, <2>2, <3>1 DEF IsAcked, StateShape, AckedRead
  <2>3. CASE f \notin DOMAIN prev
    <3>1. Before(f).acked_until = NoTime
      BY <2>3 DEF Before, DefaultState
    <3> QED
      BY <1>3, <3>1 DEF IsAcked
  <2> QED
    BY <2>2, <2>3
<1>7. AckedNow' \subseteq knows.acked
  <2> SUFFICES ASSUME NEW f \in DOMAIN row', IsAcked(row'[f], now)
               PROVE  f \in knows.acked
    BY <1>5 DEF AckedNow
  <2>1. CASE f \notin DOMAIN O
    <3>1. f \in DOMAIN row /\ row'[f] = row[f]
      BY <1>4, <2>1 DEF SaveStates
    <3> QED
      BY <1>5, <3>1 DEF AckedNow
  <2>2. CASE f \in DOMAIN O /\ f \in DOMAIN row
    <3>1. row'[f] = MergeAck(row[f], O[f])
      BY <1>4, <2>2 DEF SaveStates
    <3>2. /\ O[f] \in AlertState /\ row[f] \in AlertState /\ StateShape(row[f])
          /\ O[f].last_eval_at = now
      BY <1>2, <2>2 DEF IsRows, TypeOK, Coherence, RowsCoherent
    <3>3. row[f].acked_until # NoTime /\ row[f].acked_until > now
      BY <3>1, <3>2 DEF MergeAck, IsAcked, AlertState
    <3>4. f \in AckedNow
      BY <2>2, <3>2, <3>3 DEF AckedNow, IsAcked, StateShape
    <3> QED
      BY <1>5, <3>4
  <2>3. CASE f \in DOMAIN O /\ f \notin DOMAIN row
    <3>1. row'[f] = O[f]
      BY <1>4, <2>3 DEF SaveStates
    <3> QED
      BY <1>5, <1>6, <2>3, <3>1
  <2> QED
    BY <2>1, <2>2, <2>3
<1>8. ASSUME NEW f \in DOMAIN items', Speaking(items'[f])
      PROVE  f \notin knows.acked
  <2>1. /\ f \in DOMAIN O /\ Decide(O[f], now, DecideSettings(f)) # "None"
        /\ items'[f].reason = Decide(O[f], now, DecideSettings(f))
    BY <1>4 DEF GroupItems
  <2>2. O[f] \in AlertState
    BY <1>2, <2>1 DEF IsRows
  <2>3. O[f].phase = "Firing"
    BY <1>8, <2>1, <2>2, DecideSpeaks DEF Speaking
  <2>4. ~IsAcked(O[f], now)
    BY <2>1, <2>2, DecideAcked
  <2>5. f \notin AckedRead
    <3>1. SUFFICES ASSUME f \in AckedRead PROVE FALSE
      OBVIOUS
    <3>2. f \in DOMAIN prev /\ prev[f].acked_until # NoTime /\ prev[f].acked_until > now
      BY <3>1 DEF AckedRead, IsAcked
    <3>3. Before(f).acked_until = prev[f].acked_until
      BY <3>2 DEF Before, TypeOK, IsRows, AlertState
    <3> QED
      BY <1>3, <2>1, <2>3, <2>4, <3>2, <3>3 DEF IsAcked, ActivePhases
  <2> QED
    BY <1>5, <2>5
<1>9. \A f \in knows.acked : Silent(f)'
  BY <1>5 DEF AckInv, Silent
<1>10. Mentions' /\ ReadAcks'
  BY <1>5 DEF AckInv, Mentions, ReadAcks
<1> QED
  BY <1>5, <1>7, <1>8, <1>9, <1>10 DEF AckInv

\* A plan makes no line about an acknowledged problem.
LEMMA AckPlans ==
  ASSUME TypeOK, AckInv, PlanNotifications
  PROVE  AckInv'
<1>1. /\ pc = "policy" /\ pc' = "apply" /\ UNCHANGED <<row, now, knows>> /\ DOMAIN items' = {}
  BY InitialValues DEF PlanNotifications, db
<1>2. AckedNow' = AckedNow
  BY <1>1 DEF AckedNow
<1>3. ASSUME NEW q \in Lines'
      PROVE  /\ q.resolved_meanwhile = TRUE => q.reason = "Resolved"
             /\ Speaking(q) => q.fp \notin AckedNow \cup knows.acked
  <2>1. CASE q \in queue
    BY <2>1 DEF AckInv, Mentions, Silent, Lines
  <2>2. CASE Planned(q, Ledger, items, now)
    <3>1. PICK f \in DOMAIN items, c \in Channels :
            LineOf(q, Ledger, Ledger.queue \ Purged(Ledger, items, now), c, f,
                   EffectiveItem(Ledger, items, f, now))
      BY <2>2 DEF Planned
    <3> DEFINE item == EffectiveItem(Ledger, items, f, now)
               Q == Ledger.queue \ Purged(Ledger, items, now)
    <3>2. item.reason = "Flapping" \/ item = items[f]
      BY DEF EffectiveItem, TypeOK, IsItems, Item
    <3> HIDE DEF item, Q
    <3>3. LineOf(q, Ledger, Q, c, f, item)
      BY <3>1 DEF item, Q
    <3>4. q.resolved_meanwhile = TRUE => q.reason = "Resolved"
      BY <3>3 DEF LineOf
    <3>5. Speaking(q) => q.fp = f /\ item = items[f] /\ Speaking(items[f])
      BY <3>2, <3>3 DEF LineOf, Speaking
    <3> QED
      BY <3>4, <3>5 DEF AckInv
  <2> QED
    BY <2>1, <2>2, PlanStep
<1>4. Mentions' /\ \A f \in AckedNow \cup knows.acked : Silent(f)'
  BY <1>3 DEF Mentions, Silent
<1> QED
  BY <1>1, <1>2, <1>4 DEF AckInv, ReadAcks
\* A user's ack takes what speaks of the problem out of the queue.
LEMMA AckAcks ==
  ASSUME AcksBetweenCycles, TypeOK, AckInv, Stages, NEW f \in Fps, NEW d \in AckDurations,
         Ack(f, d)
  PROVE  AckInv'
<1>1. /\ pc \notin {"evaluate", "touch", "policy", "apply", "send", "record", "requeue"}
      /\ queue' = {q \in queue : q.fp # f \/ q.resolved_meanwhile}
      /\ UNCHANGED <<pc, now, prev, items, plan, sending, knows>>
  BY DEF Ack, AcksBetweenCycles, QueueAfterAck, cycle
<1>2. Lines = queue /\ Lines' = queue' /\ DOMAIN items' = {}
  <2>1. sending = NoMessage
    BY <1>1 DEF TypeOK
  <2> QED
    BY <1>1, <2>1, NoLines DEF Stages, Lines, RowsOf
<1>3. \A g \in AckedNow' : g = f \/ g \in AckedNow
  BY <1>1 DEF Ack, AckedNow
<1>4. \A q \in queue : q.resolved_meanwhile => q.reason = "Resolved"
  <2>1. \A q \in queue : q.resolved_meanwhile \in BOOLEAN
    BY DEF TypeOK, QueueRow
  <2>2. \A q \in queue : q.resolved_meanwhile => q.resolved_meanwhile = TRUE
    BY <2>1, Zenon
  <2> QED
    BY <1>2, <2>2, Zenon DEF AckInv, Mentions
<1>5. \A q \in queue' : q \in queue /\ (q.fp = f => q.reason = "Resolved")
  BY <1>1, <1>4, Zenon
<1>6. Silent(f)'
  BY <1>2, <1>5 DEF Silent, Speaking
<1>7. \A g \in AckedNow \cup knows.acked : Silent(g)'
  BY <1>2, <1>5 DEF AckInv, Silent
<1>8. Mentions'
  BY <1>2, <1>5 DEF AckInv, Mentions
<1> QED
  BY <1>1, <1>2, <1>3, <1>6, <1>7, <1>8 DEF AckInv, ReadAcks

\* Acknowledgements the table does not gain.
LEMMA AckedDrops ==
  ASSUME TypeOK, now' >= now, now' \in Nat, DOMAIN row' \subseteq DOMAIN row,
         \A f \in DOMAIN row' : \/ row'[f].acked_until = NoTime
                                \/ /\ row'[f].acked_until = row[f].acked_until
                                   /\ row'[f].phase = row[f].phase
  PROVE  AckedNow' \subseteq AckedNow
<1>1. \A f \in DOMAIN row : row[f].acked_until \in Int
  BY DEF TypeOK, IsRows, AlertState, OptTime, Time, NoTime
<1>2. now \in Nat
  BY DEF TypeOK
<1>3. ASSUME NEW f \in DOMAIN row', IsAcked(row'[f], now')
      PROVE  f \in AckedNow
  BY <1>1, <1>2, <1>3 DEF IsAcked, AckedNow
<1> QED
  BY <1>3 DEF AckedNow

\* Every step keeps acknowledged problems silent.
LEMMA AckInvStep ==
  ASSUME AcksBetweenCycles, TypeOK, Coherence, Founded, Stages, AckInv, [Next]_vars
  PROVE  AckInv'
<1> USE DEF world, db, cycle
<1>1. now' >= now /\ now' \in Nat
  <2>1. now' = now \/ (BeginCycle /\ now <= now')
    BY ClocksStep DEF Founded, IntakeOnly
  <2> QED
    BY <2>1 DEF BeginCycle, TypeOK
<1>2. \A f \in DOMAIN row : row[f] \in AlertState
  BY DEF TypeOK, IsRows
<1>3. CASE EvaluateAndSave
  BY <1>3, AckEvaluates
<1>4. CASE PlanNotifications
  BY <1>4, AckPlans
<1>5. ASSUME NEW f \in Fps, NEW d \in AckDurations, Ack(f, d)
      PROVE  AckInv'
  BY <1>5, AckAcks
<1>6. row' = row => AckedNow' \subseteq AckedNow
  BY <1>1, AckedDrops
<1>7. ASSUME ~PlanNotifications, AckedNow' \subseteq AckedNow, knows'.acked \subseteq knows.acked,
             items' = items \/ DOMAIN items' = {},
             pc' # "evaluate" \/ UNCHANGED <<pc, prev, now, knows>>
      PROVE  AckInv'
  <2>1. ReadAcks'
    BY <1>7 DEF AckInv, ReadAcks, AckedRead
  <2> QED
    BY <1>7, <2>1, LinesStep, AckQuietDrops
<1>8. ASSUME ~PlanNotifications, LoadStates
      PROVE  AckInv'
  <2>1. /\ knows'.acked = AckedNow /\ UNCHANGED <<now, row, items>>
        /\ prev' = row /\ pc' = "evaluate"
    BY <1>8 DEF LoadStates, AckedNow, TypeOK
  <2>2. ReadAcks' /\ AckedNow' = AckedNow
    BY <2>1 DEF ReadAcks, AckedRead, AckedNow
  <2> QED
    BY <1>8, <2>1, <2>2, LinesStep, AckQuietDrops
<1>9. CASE ~PlanNotifications /\ (BeginCycle \/ LoadTargets)
  <2>1. knows'.acked = knows.acked /\ row' = row /\ items' = items /\ pc' # "evaluate"
    BY <1>9 DEF BeginCycle, LoadTargets, TypeOK
  <2> QED
    BY <1>6, <1>7, <1>9, <2>1
<1>10. CASE ~PlanNotifications /\ TouchStates
  <2>1. DOMAIN row' = DOMAIN row /\ \A f \in DOMAIN row :
          row'[f].acked_until = row[f].acked_until /\ row'[f].phase = row[f].phase
    BY <1>2, <1>10 DEF TouchStates, Touched, AlertState
  <2>2. AckedNow' \subseteq AckedNow
    BY <1>1, <2>1, AckedDrops
  <2>3. knows' = knows /\ items' = items /\ pc' = "policy"
    BY <1>10 DEF TouchStates
  <2> QED
    BY <1>7, <1>10, <2>2, <2>3
<1>11. CASE ~PlanNotifications /\ MarkNotified
  <2>1. DOMAIN row' = DOMAIN row /\ \A f \in DOMAIN row :
          row'[f].acked_until = row[f].acked_until /\ row'[f].phase = row[f].phase
    BY <1>2, <1>11 DEF MarkNotified, Noted, AlertState
  <2>2. AckedNow' \subseteq AckedNow
    BY <1>1, <2>1, AckedDrops
  <2>3. knows' = knows /\ items' = items /\ pc' = "purge"
    BY <1>11 DEF MarkNotified
  <2> QED
    BY <1>7, <1>11, <2>2, <2>3
<1>12. CASE ~PlanNotifications /\ PurgeStates
  <2>1. DOMAIN row' \subseteq DOMAIN row /\ \A f \in DOMAIN row' : row'[f] = row[f]
    BY <1>12 DEF PurgeStates
  <2>2. AckedNow' \subseteq AckedNow
    BY <1>1, <2>1, AckedDrops
  <2>3. knows'.acked = {} /\ items' = items /\ pc' = "idle"
    BY <1>12 DEF PurgeStates, NoKnowledge
  <2> QED
    BY <1>7, <1>12, <2>2, <2>3
<1>13. CASE ~PlanNotifications /\ (ApplyPlan \/ Send \/ RecordSent \/ Requeue \/ Maintenance)
  <2>1. row' = row /\ knows' = knows /\ items' = items /\ pc' # "evaluate"
    BY <1>13 DEF ApplyPlan, Send, Deliver, DeliverFails, RecordSent, Requeue, Maintenance
  <2> QED
    BY <1>6, <1>7, <1>13, <2>1
<1>14. CASE ~PlanNotifications /\ (BookkeepingFails \/ MaintenanceFails)
  <2>1. row' = row /\ knows' = knows /\ items' = items /\ pc' # "evaluate"
    BY <1>14 DEF BookkeepingFails, MaintenanceFails
  <2> QED
    BY <1>6, <1>7, <1>14, <2>1
<1>15. CASE ~PlanNotifications /\ (DatabaseError \/ Crash)
  <2>1. row' = row /\ knows'.acked = {} /\ DOMAIN items' = {} /\ pc' = "idle"
    BY <1>15, InitialValues DEF DatabaseError, Crash, CycleLost, NoKnowledge
  <2> QED
    BY <1>6, <1>7, <1>15, <2>1
<1>16. ASSUME ~PlanNotifications, NEW f \in Fps, Unack(f)
       PROVE  AckInv'
  <2>1. DOMAIN row' = DOMAIN row /\ \A g \in DOMAIN row :
          row'[g].acked_until = NoTime \/ row'[g] = row[g]
    BY <1>2, <1>16 DEF Unack, AlertState
  <2>2. AckedNow' \subseteq AckedNow
    BY <1>1, <2>1, AckedDrops
  <2> QED
    BY <1>7, <1>16, <2>2 DEF Unack
<1>17. ASSUME ~PlanNotifications, NEW t \in Targets,
              PauseTarget(t) \/ ForgetTarget(t) \/ ForgetFails(t) \/ ResumeTarget(t)
       PROVE  AckInv'
  <2>1. DOMAIN row' \subseteq DOMAIN row /\ \A f \in DOMAIN row' : row'[f] = row[f]
    BY <1>17 DEF PauseTarget, ForgetTarget, ForgetFails, ResumeTarget
  <2>2. AckedNow' \subseteq AckedNow
    BY <1>1, <2>1, AckedDrops
  <2>3. UNCHANGED <<pc, prev, now, knows, items>>
    BY <1>17 DEF PauseTarget, ForgetTarget, ForgetFails, ResumeTarget
  <2> QED
    BY <1>7, <1>17, <2>2, <2>3
<1>18. CASE ~PlanNotifications /\ (Environment \/ UNCHANGED vars)
  <2>1. UNCHANGED <<row, pc, prev, now, knows, items>>
    BY <1>18 DEF Environment, Tick, ConditionChanges, vars
  <2> QED
    BY <1>6, <1>7, <1>18, <2>1
<1> QED
  BY <1>3, <1>4, <1>5, <1>8, <1>9, <1>10, <1>11, <1>12, <1>13, <1>14, <1>15, <1>16, <1>17, <1>18
  DEF Next, Engine, Faults, Api

\* A cycle that read the alert as acknowledged says nothing of its problem, not
\* even what waited, was sent without success or was cut short by a crash, for
\* acks given between the cycles.
THEOREM AckQuiet == AcksBetweenCycles => (Spec => AckSilencesQueue)
<1> SUFFICES ASSUME AcksBetweenCycles PROVE Spec => AckSilencesQueue
  OBVIOUS
<1>1. TypeOK /\ Coherence /\ [Next]_vars => Coherence'
  BY CoherenceStep
<1>2. TypeOK /\ Stages /\ [Next]_vars => Stages'
  BY StagesStep
<1>3. TypeOK /\ Coherence /\ Founded /\ Stages /\ AckInv /\ [Next]_vars => AckInv'
  BY AckInvStep
<1>4. Init => AckInv /\ Stages
  BY AckInvInit
<1>5. ASSUME TypeOK, AckInv, [Next]_vars, pc = "send", pc' = "record", NEW q \in sending'.rows,
             q.reason \notin {"Resolved", "Flapping"}
      PROVE  q.fp \notin knows.acked
  <2>1. q \in Lines
    BY <1>5, DeliveredLines
  <2> QED
    BY <1>5, <2>1 DEF AckInv, Silent, Speaking
<1>6. TypeOK /\ AckInv /\ [Next]_vars
      => [pc = "send" /\ pc' = "record" =>
            \A q \in sending'.rows :
              q.reason \notin {"Resolved", "Flapping"} => q.fp \notin knows.acked]_vars
  BY <1>5, Zenon
<1> QED
  BY <1>1, <1>2, <1>3, <1>4, <1>6, CoherenceInit, TypeCorrect, FoundedAlways, PTL
  DEF Spec, AckSilencesQueue
-----------------------------------------------------------------------------
(* Forgotten devices.  forget_target empties the queue of what is said of  *)
(* a device; a failure of it is only logged, and a cycle in flight brings  *)
(* back what it holds, so the theorem is about requests that neither fail  *)
(* nor run between a cycle's reading of the targets and its deliveries.    *)

ForgetsBetweenCycles ==
  /\ MaxFaults = 0
  /\ PausePoints \cap {"states", "evaluate", "touch", "policy", "apply", "send", "record",
                       "requeue"} = {}

\* The devices that are paused or deleted, their alerts forgotten.
Gone == Targets \ (enabled \cup forgetting)

ForgetInv ==
  /\ left.faults = 0
  /\ \A q \in Lines : TargetOf[q.fp] \notin Gone \cup knows.forgotten
  /\ \A f \in DOMAIN items : TargetOf[f] \notin Gone \cup knows.forgotten
  /\ pc \in {"states", "evaluate"} => \A t \in seen : t \notin Gone \cup knows.forgotten

\* Initially no device is forgotten.
LEMMA ForgetInvInit ==
  ASSUME ForgetsBetweenCycles, Init
  PROVE  ForgetInv
<1>1. Lines = {} /\ DOMAIN items = {} /\ pc = "idle" /\ left.faults = 0
  BY NoLines, InitialValues DEF Init, Lines, RowsOf, ForgetsBetweenCycles
<1> QED
  BY <1>1 DEF ForgetInv

\* Without a fault left, none happens.
LEMMA NoFaults ==
  ASSUME ForgetInv
  PROVE  ~Faults /\ \A t : ~ForgetFails(t)
<1>1. ~Spend("faults")
  BY DEF ForgetInv, Spend
<1> QED
  BY <1>1 DEF Faults, BookkeepingFails, DatabaseError, MaintenanceFails, Crash, ForgetFails

\* The other budgets leave that of the faults alone.
LEMMA OtherBudgets ==
  ASSUME TypeOK, NEW kind \in {"acks", "pauses", "sends"}, Spend(kind)
  PROVE  left'.faults = left.faults
  BY DEF Spend, TypeOK

\* Every step keeps forgotten devices silent.
LEMMA ForgetInvStep ==
  ASSUME ForgetsBetweenCycles, TypeOK, Stages, ForgetInv, [Next]_vars
  PROVE  ForgetInv'
<1> USE DEF world, db, cycle
<1>1. Lines \subseteq QueueRow
  BY LineTypes
<1>2. ASSUME ~PlanNotifications, left'.faults = 0,
             Gone' \cup knows'.forgotten \subseteq Gone \cup knows.forgotten,
             items' = items \/ DOMAIN items' = {},
             pc' \in {"states", "evaluate"} => pc \in {"states", "evaluate"} /\ seen' = seen
      PROVE  ForgetInv'
  <2>1. \A q \in Lines' : TargetOf[q.fp] \notin Gone' \cup knows'.forgotten
    BY <1>2, LinesStep DEF LinesKept, SameLine, ForgetInv
  <2> QED
    BY <1>2, <2>1 DEF ForgetInv
<1>3. CASE PlanNotifications
  <2>1. /\ UNCHANGED <<enabled, forgetting, knows, left>> /\ pc' = "apply" /\ DOMAIN items' = {}
    BY <1>3, InitialValues DEF PlanNotifications
  <2>2. ASSUME NEW q \in Lines'
        PROVE  TargetOf[q.fp] \notin Gone \cup knows.forgotten
    <3>1. CASE q \in queue
      BY <3>1 DEF ForgetInv, Lines
    <3>2. CASE Planned(q, Ledger, items, now)
      <4>1. q.fp \in DOMAIN items
        BY <3>2 DEF Planned, LineOf
      <4> QED
        BY <4>1 DEF ForgetInv
    <3> QED
      BY <1>3, <3>1, <3>2, PlanStep
  <2> QED
    BY <2>1, <2>2 DEF ForgetInv, Gone
<1>4. ASSUME ~PlanNotifications, LoadTargets
      PROVE  ForgetInv'
  <2>1. /\ knows'.forgotten = Gone /\ seen' = enabled
        /\ UNCHANGED <<enabled, forgetting, left, items>> /\ pc' = "states"
    BY <1>4 DEF LoadTargets, Gone, TypeOK
  <2>2. Gone' = Gone /\ \A t \in enabled : t \notin Gone
    BY <2>1 DEF Gone
  <2>3. \A q \in Lines' : TargetOf[q.fp] \notin Gone
    BY <1>4, LinesStep DEF LinesKept, SameLine, ForgetInv
  <2> QED
    BY <2>1, <2>2, <2>3 DEF ForgetInv
<1>5. ASSUME ~PlanNotifications, EvaluateAndSave
      PROVE  ForgetInv'
  <2>1. PICK obs \in TruthfulObservations, flagged \in DownChoices,
             silences \in SilenceChoices :
          items' = GroupItems(Outcome(obs, flagged, silences))
    BY <1>5 DEF EvaluateAndSave
  <2>2. \A f \in DOMAIN items' : TargetOf[f] \in seen
    BY <2>1 DEF GroupItems, Outcome, EvaluatedFps, Live
  <2>3. /\ pc = "evaluate" /\ pc' = "touch" /\ UNCHANGED <<enabled, forgetting, left, knows>>
        /\ Lines' = Lines
    BY <1>5 DEF EvaluateAndSave, Lines
  <2> QED
    BY <2>2, <2>3 DEF ForgetInv, Gone
<1>6. ASSUME ~PlanNotifications, NEW t \in Targets, ForgetTarget(t)
      PROVE  ForgetInv'
  <2>1. /\ pc \notin {"states", "evaluate", "touch", "policy", "apply", "send", "record", "requeue"}
        /\ queue' = {q \in queue : TargetOf[q.fp] # t}
        /\ UNCHANGED <<pc, items, plan, sending, knows, enabled, left>>
        /\ forgetting' = forgetting \ {t}
    BY <1>6 DEF ForgetTarget, ForgetsBetweenCycles, QueueAfterForget
  <2>2. Lines = queue /\ Lines' = queue' /\ DOMAIN items' = {}
    <3>1. sending = NoMessage
      BY <2>1 DEF TypeOK
    <3> QED
      BY <2>1, <3>1, NoLines DEF Stages, Lines, RowsOf
  <2>3. \A u \in Gone' : u = t \/ u \in Gone
    BY <2>1 DEF Gone
  <2>4. \A q \in Lines' : TargetOf[q.fp] # t /\ q \in Lines
    BY <2>1, <2>2
  <2> QED
    BY <2>1, <2>2, <2>3, <2>4 DEF ForgetInv
<1>7. CASE ~PlanNotifications /\ (BeginCycle \/ LoadStates \/ TouchStates \/ PurgeStates)
  <2>1. /\ UNCHANGED <<enabled, forgetting, left, items>>
        /\ knows'.forgotten \subseteq knows.forgotten
        /\ pc' \in {"states", "evaluate"} => pc \in {"states", "evaluate"} /\ seen' = seen
    BY <1>7 DEF BeginCycle, LoadStates, TouchStates, PurgeStates, NoKnowledge, TypeOK
  <2> QED
    BY <1>2, <1>7, <2>1 DEF Gone, ForgetInv
<1>8. CASE ~PlanNotifications /\ (ApplyPlan \/ RecordSent \/ Requeue \/ MarkNotified \/ Maintenance)
  <2>1. /\ UNCHANGED <<enabled, forgetting, left, items, knows>>
        /\ pc' \notin {"states", "evaluate"}
    BY <1>8 DEF ApplyPlan, RecordSent, Requeue, MarkNotified, Maintenance
  <2> QED
    BY <1>2, <1>8, <2>1 DEF Gone, ForgetInv
<1>9. CASE ~PlanNotifications /\ Send
  <2>1. /\ UNCHANGED <<enabled, forgetting, items, knows>> /\ pc' \notin {"states", "evaluate"}
        /\ left' = left \/ Spend("sends")
    BY <1>9 DEF Send, Deliver, DeliverFails
  <2> QED
    BY <1>2, <1>9, <2>1, OtherBudgets DEF Gone, ForgetInv
<1>10. ASSUME ~PlanNotifications,
              \/ \E f \in Fps, d \in AckDurations : Ack(f, d)
              \/ \E f \in Fps : Unack(f)
       PROVE  ForgetInv'
  <2>1. UNCHANGED <<enabled, forgetting, items, knows, pc, seen>> /\ Spend("acks")
    BY <1>10 DEF Ack, Unack
  <2> QED
    BY <1>2, <1>10, <2>1, OtherBudgets DEF Gone, ForgetInv
<1>11. ASSUME ~PlanNotifications, NEW t \in Targets, PauseTarget(t) \/ ResumeTarget(t)
       PROVE  ForgetInv'
  <2>1. UNCHANGED <<items, knows, pc, seen>> /\ Spend("pauses") /\ Gone' \subseteq Gone
    BY <1>11 DEF PauseTarget, ResumeTarget, Gone
  <2> QED
    BY <1>2, <1>11, <2>1, OtherBudgets DEF ForgetInv
<1>12. CASE ~PlanNotifications /\ (Environment \/ UNCHANGED vars)
  <2>1. UNCHANGED <<enabled, forgetting, left, items, knows, pc, seen>>
    BY <1>12 DEF Environment, Tick, ConditionChanges, vars
  <2> QED
    BY <1>2, <1>12, <2>1 DEF Gone, ForgetInv
<1> QED
  BY <1>3, <1>4, <1>5, <1>6, <1>7, <1>8, <1>9, <1>10, <1>11, <1>12, NoFaults
  DEF Next, Engine, Api

\* A cycle that read a device as paused or deleted, its alerts forgotten, sends
\* nothing about it, whatever waited, was requeued, or is resumed meanwhile.
THEOREM ForgottenQuiet == ForgetsBetweenCycles => (Spec => ForgottenStaysQuiet)
<1> SUFFICES ASSUME ForgetsBetweenCycles PROVE Spec => ForgottenStaysQuiet
  OBVIOUS
<1>1. Init => ForgetInv /\ Stages
  BY ForgetInvInit, AckInvInit
<1>2. TypeOK /\ Stages /\ [Next]_vars => Stages'
  BY StagesStep
<1>3. TypeOK /\ Stages /\ ForgetInv /\ [Next]_vars => ForgetInv'
  BY ForgetInvStep
<1>4. ASSUME TypeOK, ForgetInv, [Next]_vars, pc = "send", pc' = "record", NEW q \in sending'.rows
      PROVE  TargetOf[q.fp] \notin knows.forgotten
  BY <1>4, DeliveredLines DEF ForgetInv
<1>5. TypeOK /\ ForgetInv /\ [Next]_vars
      => [pc = "send" /\ pc' = "record" =>
            \A q \in sending'.rows : TargetOf[q.fp] \notin knows.forgotten]_vars
  BY <1>4
<1> QED
  BY <1>1, <1>2, <1>3, <1>5, TypeCorrect, PTL DEF Spec, ForgottenStaysQuiet

-----------------------------------------------------------------------------
(* Reminders.  decide looks at what the cycle read, mark_notified dates    *)
(* what the cycle decided several transactions later; in between the row   *)
(* only changes in ways that leave the decision right.                     *)

\* A firing alert that this cycle evaluated, that was not acknowledged when the
\* cycle read it, and whose rule repeats.
Nagging(f) ==
  /\ f \in DOMAIN row /\ row[f].phase = "Firing"
  /\ f \in rules \ carried /\ TargetOf[f] \in seen
  /\ f \notin knows.acked /\ Rule[f].repeat > 0 /\ ~Muted(row[f])

ToldLately(f) == now - row[f].last_notified_at < Rule[f].repeat

HandoffLate(f) == Crossed(row[f], now, UnackedAfter)

\* Before the rows are saved, the cycle has read their phases and their acks; then
\* an alert that nags was told lately, or speaks, until it has been dated.
RemindInv ==
  /\ pc = "evaluate" =>
       /\ knows.acked = AckedRead
       /\ \A f \in DOMAIN row : f \in DOMAIN prev /\ row[f].phase = prev[f].phase
  /\ pc \in {"touch", "policy"} =>
       \A f \in DOMAIN row : Nagging(f) =>
         \/ ToldLately(f)
         \/ f \in DOMAIN items /\ (items[f].reason = "Unacked" => HandoffLate(f))
  /\ pc \in {"apply", "send", "record", "requeue"} =>
       \A f \in DOMAIN row : Nagging(f) =>
         ToldLately(f) \/ HandoffLate(f) \/ f \in plan.handled
  /\ pc = "purge" =>
       \A f \in DOMAIN row : Nagging(f) => ToldLately(f) \/ HandoffLate(f)

\* Initially there is no row.
LEMMA RemindInit == Init => RemindInv
  BY DEF Init, RemindInv

\* decide leaves a firing alert that nothing mutes alone only if it is
\* acknowledged or was told lately.
LEMMA DecideReminds ==
  ASSUME NEW s \in AlertState, NEW t \in Nat, NEW rule, rule.repeat \in Nat,
         StateShape(s), s.phase = "Firing", ~Muted(s), ~IsAcked(s, t)
  PROVE  /\ Decide(s, t, rule) = "None" => t - s.last_notified_at < rule.repeat
         /\ Decide(s, t, rule) = "Unacked" => Crossed(s, t, rule.unacked_after)
<1>1. s.suppressed \in BOOLEAN /\ s.silenced \in BOOLEAN /\ s.learning \in BOOLEAN
  BY DEF AlertState
<1>2. ~(s.suppressed \/ s.silenced \/ s.learning)
  BY <1>1, Zenon DEF Muted
<1>3. Decide(s, t, rule) = DecideFiring(s, t, rule)
  BY <1>2, Zenon DEF Decide
<1>4. s.notify_count # 0 => s.last_notified_at # NoTime
  BY DEF StateShape
<1>5. s.last_notified_at \in Int /\ rule.repeat # NoTime
  BY DEF AlertState, OptTime, Time, NoTime
<1>6. DecideFiring(s, t, rule) = "None" => ~(t - s.last_notified_at >= rule.repeat)
  BY <1>4, <1>5 DEF DecideFiring
<1>7. DecideFiring(s, t, rule) = "Unacked" => Crossed(s, t, rule.unacked_after)
  BY DEF DecideFiring
<1> QED
  BY <1>3, <1>5, <1>6, <1>7

\* What a step keeps of a row as far as reminders are concerned.
SameHistory(f) ==
  /\ f \in DOMAIN row
  /\ row'[f].phase = row[f].phase
  /\ row'[f].firing_since = row[f].firing_since
  /\ row'[f].last_notified_at = row[f].last_notified_at
  /\ Muted(row'[f]) <=> Muted(row[f])

\* A row with the same history nags, was told lately and has a late hand-off as before.
LEMMA SameHistorySame ==
  ASSUME NEW f, SameHistory(f), f \in DOMAIN row', UNCHANGED <<rules, carried, seen, knows, now>>
  PROVE  /\ Nagging(f)' <=> Nagging(f)
         /\ ToldLately(f)' <=> ToldLately(f)
         /\ HandoffLate(f)' <=> HandoffLate(f)
<1>1. Nagging(f)' <=> Nagging(f)
  BY DEF SameHistory, Nagging, Muted
<1>2. ToldLately(f)' <=> ToldLately(f)
  BY DEF SameHistory, ToldLately
<1>3. HandoffLate(f)' <=> HandoffLate(f)
  BY DEF SameHistory, HandoffLate, Crossed, UnackedAfter
<1> QED
  BY <1>1, <1>2, <1>3

\* Steps that keep the stage, or go from one delivery to the next, and the
\* history of the rows.
LEMMA RemindKept ==
  ASSUME RemindInv,
         pc' = "idle" \/ UNCHANGED <<rules, carried, seen, knows, now, prev, items>>,
         \/ pc' \in {"idle", pc}
         \/ {pc, pc'} \subseteq {"touch", "policy"}
         \/ {pc, pc'} \subseteq {"apply", "send", "record", "requeue"},
         pc' = "idle" \/ plan'.handled = plan.handled,
         \A f \in DOMAIN row' : SameHistory(f)
  PROVE  RemindInv'
<1>1. CASE pc' = "idle"
  BY <1>1 DEF RemindInv
<1>2. CASE pc' # "idle"
  <2>1. UNCHANGED <<rules, carried, seen, knows, now, prev, items>> /\ plan'.handled = plan.handled
    BY <1>2
  <2>2. \A f \in DOMAIN row' : /\ f \in DOMAIN row
                               /\ row'[f].phase = row[f].phase
                               /\ Nagging(f)' <=> Nagging(f)
                               /\ ToldLately(f)' <=> ToldLately(f)
                               /\ HandoffLate(f)' <=> HandoffLate(f)
    BY <2>1, SameHistorySame DEF SameHistory
  <2>3. AckedRead' = AckedRead
    BY <2>1 DEF AckedRead, IsAcked
  <2> QED
    BY <1>2, <2>1, <2>2, <2>3 DEF RemindInv
<1> QED
  BY <1>1, <1>2

\* Saving the rows and deciding who speaks go together: an alert that nags from
\* then on was told lately, or has just been decided upon.
LEMMA RemindSaved ==
  ASSUME TypeOK, Coherence, RemindInv, EvaluateAndSave, NEW f \in DOMAIN row', Nagging(f)'
  PROVE  \/ ToldLately(f)'
         \/ f \in DOMAIN items' /\ (items'[f].reason = "Unacked" => HandoffLate(f)')
<1> USE DEF world, db, cycle
<1>1. PICK obs \in TruthfulObservations, flagged \in DownChoices, silences \in SilenceChoices :
        /\ row' = SaveStates(row, Outcome(obs, flagged, silences))
        /\ items' = GroupItems(Outcome(obs, flagged, silences))
        /\ carried' = CarriedOver(obs)
  BY DEF EvaluateAndSave
<1> DEFINE O == Outcome(obs, flagged, silences)
           D == Decide(O[f], now, DecideSettings(f))
<1>2. DOMAIN O = EvaluatedFps(obs)
  BY DEF Outcome
<1>3. IsRows(O) /\ \A g \in DOMAIN O : StateShape(O[g])
  BY OutcomeOK DEF Coherence, PrevCoherent
<1>4. /\ pc = "evaluate" /\ UNCHANGED <<rules, seen, now, knows>>
      /\ f \in rules /\ TargetOf[f] \in seen /\ f \notin CarriedOver(obs)
      /\ f \notin knows.acked /\ Rule[f].repeat > 0 /\ row'[f].phase = "Firing" /\ ~Muted(row'[f])
  BY <1>1 DEF EvaluateAndSave, Nagging, Muted
<1>5. f \in DOMAIN O
  <2>1. SUFFICES ASSUME f \notin DOMAIN O PROVE FALSE
    OBVIOUS
  <2>2. f \in DOMAIN row /\ row'[f] = row[f]
    BY <1>1, <2>1 DEF SaveStates
  <2>3. f \in DOMAIN prev /\ prev[f].phase = "Firing"
    BY <1>4, <2>2 DEF RemindInv
  <2>4. obs[f] \in {"true", "false", "learning", "gone", "failed"}
    BY <1>4, EngineAssumption DEF TruthfulObservations
  <2>5. Observed(f, obs[f]) \/ Vanished(f, obs[f]) \/ obs[f] = "failed"
    BY <2>3, <2>4 DEF Observed, Vanished
  <2> QED
    BY <1>2, <1>4, <2>1, <2>3, <2>5 DEF EvaluatedFps, CarriedOver, Live
<1>6. /\ O[f] \in AlertState /\ StateShape(O[f]) /\ now \in Nat /\ f \in Fps
      /\ row' = SaveStates(row, O) /\ IsRows(row)
  BY <1>1, <1>3, <1>5 DEF IsRows, TypeOK
<1>7. O[f].phase = "Firing" => O[f].acked_until = Before(f).acked_until
  BY <1>5, OutcomeAcks DEF ActivePhases
<1>8. items' = GroupItems(O)
  BY <1>1
<1> HIDE DEF O
<1>9. /\ row'[f].phase = O[f].phase /\ row'[f].firing_since = O[f].firing_since
      /\ row'[f].last_notified_at = O[f].last_notified_at
  <2>1. row'[f] = O[f] \/ \E u : row'[f] = [O[f] EXCEPT !.acked_until = u]
    BY <1>5, <1>6 DEF SaveStates, MergeAck
  <2> QED
    BY <1>6, <2>1 DEF AlertState
<1>10. ~Muted(O[f]) /\ O[f].phase = "Firing"
  BY <1>3, <1>4, <1>5, <1>6, <1>9, SavedMutes
<1>11. ~IsAcked(O[f], now)
  <2>1. SUFFICES ASSUME O[f].acked_until # NoTime, O[f].acked_until > now PROVE FALSE
    BY DEF IsAcked
  <2>2. Before(f).acked_until # NoTime /\ Before(f).acked_until > now
    BY <1>7, <1>10, <2>1
  <2>3. f \in DOMAIN prev /\ prev[f].acked_until = Before(f).acked_until
    <3>1. f \in DOMAIN prev
      BY <2>2 DEF Before, DefaultState
    <3> QED
      BY <3>1 DEF Before, TypeOK, IsRows, AlertState
  <2>4. prev[f].phase \in ActivePhases
    BY <2>2, <2>3 DEF Coherence, PrevCoherent, StateShape
  <2>5. f \in AckedRead
    BY <2>2, <2>3, <2>4 DEF AckedRead, IsAcked
  <2> QED
    BY <1>4, <2>5 DEF RemindInv
<1>12. /\ DecideSettings(f).repeat = Rule[f].repeat /\ Rule[f].repeat \in Nat
       /\ DecideSettings(f).unacked_after = UnackedAfter
  <2>1. Rule[f].repeat \in Nat
    BY <1>4, <1>6, PolicyAssumption DEF RuleType, OptTime, Time, NoTime
  <2> QED
    BY <2>1 DEF DecideSettings
<1>13. /\ D = "None" => now - O[f].last_notified_at < Rule[f].repeat
       /\ D = "Unacked" => Crossed(O[f], now, UnackedAfter)
  BY <1>6, <1>10, <1>11, <1>12, DecideReminds
<1> HIDE DEF D
<1>14. CASE D = "None"
  BY <1>4, <1>9, <1>13, <1>14 DEF ToldLately
<1>15. CASE D # "None"
  <2>1. f \in DOMAIN items' /\ items'[f].reason = D
    BY <1>5, <1>8, <1>15 DEF GroupItems, D
  <2>2. D = "Unacked" => HandoffLate(f)'
    BY <1>4, <1>9, <1>13 DEF HandoffLate, Crossed, UnackedAfter
  <2> QED
    BY <2>1, <2>2
<1> QED
  BY <1>14, <1>15

\* Every step keeps the reminders due, one action at a time.
LEMMA RemindStep ==
  ASSUME TypeOK, Coherence, RemindInv, [Next]_vars
  PROVE  RemindInv'
<1> USE DEF world, db, cycle
<1>1. \A f \in DOMAIN row : row[f] \in AlertState
  BY DEF TypeOK, IsRows
<1>2. CASE BeginCycle \/ LoadTargets
  BY <1>2 DEF BeginCycle, LoadTargets, RemindInv
<1>3. CASE LoadStates
  <2>1. /\ pc' = "evaluate" /\ prev' = row /\ row' = row
        /\ knows'.acked = {f \in DOMAIN row : IsAcked(row[f], now)} /\ now' = now
    BY <1>3 DEF LoadStates, TypeOK
  <2>2. knows'.acked = AckedRead'
    BY <2>1 DEF AckedRead, IsAcked
  <2> QED
    BY <2>1, <2>2 DEF RemindInv
<1>4. CASE EvaluateAndSave
  <2>1. pc' = "touch"
    BY <1>4 DEF EvaluateAndSave
  <2> QED
    BY <1>4, <2>1, RemindSaved DEF RemindInv
<1>5. CASE TouchStates
  <2>1. \A f \in DOMAIN row' : SameHistory(f)
    BY <1>1, <1>5 DEF TouchStates, Touched, SameHistory, Muted, AlertState
  <2>2. /\ pc = "touch" /\ pc' = "policy" /\ plan' = plan
        /\ UNCHANGED <<rules, carried, seen, knows, now, prev, items>>
    BY <1>5 DEF TouchStates
  <2> QED
    BY <2>1, <2>2, RemindKept
<1>6. CASE PlanNotifications
  <2>1. PICK on \in ChannelChoices : plan' = Plan(Ledger, items, on, now)
    BY <1>6 DEF PlanNotifications
  <2>2. plan'.handled = DOMAIN items \ HandoffWaits(Ledger, items, on, now)
    BY <2>1 DEF Plan
  <2>3. /\ pc = "policy" /\ pc' = "apply" /\ row' = row
        /\ UNCHANGED <<rules, carried, seen, knows, now>>
    BY <1>6 DEF PlanNotifications
  <2>4. \A f \in DOMAIN row' : SameHistory(f)
    BY <2>3 DEF SameHistory, Muted
  <2>5. \A f \in DOMAIN row : f \in DOMAIN items =>
          f \in plan'.handled \/ items[f].reason = "Unacked"
    BY <2>2 DEF HandoffWaits
  <2>6. ASSUME NEW f \in DOMAIN row', Nagging(f)'
        PROVE  (ToldLately(f) \/ HandoffLate(f))' \/ f \in plan'.handled
    <3>1. /\ Nagging(f) /\ f \in DOMAIN row
          /\ ToldLately(f)' <=> ToldLately(f)
          /\ HandoffLate(f)' <=> HandoffLate(f)
      BY <2>3, <2>4, <2>6, SameHistorySame
    <3> QED
      BY <2>3, <2>5, <3>1 DEF RemindInv
  <2> QED
    BY <2>3, <2>6 DEF RemindInv
<1>7. CASE ApplyPlan
  <2>1. /\ pc = "apply" /\ pc' = "send" /\ row' = row
        /\ UNCHANGED <<rules, carried, seen, knows, now, prev, items>>
        /\ plan'.handled = plan.handled
    BY <1>7, PlanUpdates DEF ApplyPlan, TypeOK
  <2> QED
    BY <2>1, RemindKept DEF SameHistory
<1>8. CASE Send
  <2>1. /\ pc = "send" /\ pc' \in {"record", "requeue"} /\ row' = row
        /\ UNCHANGED <<rules, carried, seen, knows, now, prev, items>>
        /\ plan'.handled = plan.handled
    BY <1>8, PlanUpdates DEF Send, Deliver, DeliverFails, TypeOK
  <2> QED
    BY <2>1, RemindKept DEF SameHistory
<1>9. CASE RecordSent \/ Requeue \/ BookkeepingFails
  <2>1. /\ pc \in {"record", "requeue"} /\ pc' = "send" /\ row' = row
        /\ UNCHANGED <<rules, carried, seen, knows, now, prev, items, plan>>
    BY <1>9 DEF RecordSent, Requeue, BookkeepingFails
  <2> QED
    BY <2>1, RemindKept DEF SameHistory
<1>10. CASE MarkNotified
  <2>1. /\ pc = "send" /\ pc' = "purge" /\ UNCHANGED <<rules, carried, seen, knows, now>>
        /\ row' = [f \in DOMAIN row |-> IF f \in plan.handled THEN Noted(row[f], now) ELSE row[f]]
    BY <1>10 DEF MarkNotified
  <2>2. ASSUME NEW f \in DOMAIN row', Nagging(f)'
        PROVE  (ToldLately(f) \/ HandoffLate(f))'
    <3>1. f \in DOMAIN row /\ row[f] \in AlertState
      BY <1>1, <2>1
    <3>2. CASE f \in plan.handled
      <4>1. row'[f].last_notified_at = now
        BY <2>1, <3>1, <3>2 DEF Noted, AlertState
      <4>2. now' = now /\ now \in Nat /\ Rule[f].repeat > 0 /\ Rule[f].repeat \in Int
        BY <2>1, <2>2, <3>1, PolicyAssumption
        DEF Nagging, TypeOK, IsRows, RuleType, OptTime, Time, NoTime
      <4> QED
        BY <4>1, <4>2 DEF ToldLately
    <3>3. CASE f \notin plan.handled
      <4>1. SameHistory(f)
        BY <2>1, <3>1, <3>3 DEF SameHistory
      <4>2. /\ Nagging(f)
            /\ ToldLately(f)' <=> ToldLately(f)
            /\ HandoffLate(f)' <=> HandoffLate(f)
        BY <2>1, <2>2, <4>1, SameHistorySame
      <4> QED
        BY <2>1, <3>1, <3>3, <4>2 DEF RemindInv
    <3> QED
      BY <3>2, <3>3
  <2> QED
    BY <2>1, <2>2 DEF RemindInv
<1>11. CASE PurgeStates \/ Maintenance \/ DatabaseError \/ MaintenanceFails \/ Crash
  <2>1. pc' = "idle"
    BY <1>11 DEF PurgeStates, Maintenance, DatabaseError, MaintenanceFails, Crash, CycleLost
  <2> QED
    BY <2>1 DEF RemindInv
<1>12. ASSUME NEW f \in Fps, (\E d \in AckDurations : Ack(f, d)) \/ Unack(f)
       PROVE  RemindInv'
  <2>1. /\ UNCHANGED <<rules, carried, seen, knows, now, prev, items, plan, pc>>
        /\ \E u : row' = [row EXCEPT ![f].acked_until = u]
    BY <1>12 DEF Ack, Unack
  <2>2. \A g \in DOMAIN row' : SameHistory(g)
    BY <1>1, <2>1 DEF SameHistory, Muted, AlertState
  <2> QED
    BY <2>1, <2>2, RemindKept
<1>13. ASSUME NEW t \in Targets,
              PauseTarget(t) \/ ResumeTarget(t) \/ ForgetTarget(t) \/ ForgetFails(t)
       PROVE  RemindInv'
  <2>1. /\ UNCHANGED <<rules, carried, seen, knows, now, prev, items, plan, pc>>
        /\ DOMAIN row' \subseteq DOMAIN row /\ \A f \in DOMAIN row' : row'[f] = row[f]
    BY <1>13 DEF PauseTarget, ResumeTarget, ForgetTarget, ForgetFails
  <2> QED
    BY <2>1, RemindKept DEF SameHistory
<1>14. CASE Environment \/ UNCHANGED vars
  <2>1. UNCHANGED <<rules, carried, seen, knows, now, prev, items, plan, pc, row>>
    BY <1>14 DEF Environment, Tick, ConditionChanges, vars
  <2> QED
    BY <2>1, RemindKept DEF SameHistory
<1> QED
  BY <1>2, <1>3, <1>4, <1>5, <1>6, <1>7, <1>8, <1>9, <1>10, <1>11, <1>12, <1>13, <1>14
  DEF Next, Engine, Faults, Api

\* A firing alert that a complete cycle evaluated, that nobody acknowledged and
\* nothing mutes has been notified within its repeat interval, whatever users,
\* failures and the end of a mute did before.
THEOREM RemindersKept == Spec => []RemindersOnTime
<1>1. TypeOK /\ Coherence /\ [Next]_vars => Coherence'
  BY CoherenceStep
<1>2. TypeOK /\ Coherence /\ RemindInv /\ [Next]_vars => RemindInv'
  BY RemindStep
<1>3. ASSUME TypeOK, RemindInv, pc = "purge", NEW f \in DOMAIN row,
             row[f].phase = "Firing", f \in rules \ carried, TargetOf[f] \in seen,
             f \notin knows.acked, Rule[f].repeat > 0,
             ~(row[f].suppressed \/ row[f].silenced \/ row[f].learning),
             ~Crossed(row[f], now, UnackedAfter)
      PROVE  now - row[f].last_notified_at < Rule[f].repeat
  <2>1. ~Muted(row[f])
    BY <1>3, Zenon DEF Muted
  <2>2. Nagging(f)
    BY <1>3, <2>1 DEF Nagging
  <2> QED
    BY <1>3, <2>2 DEF RemindInv, ToldLately, HandoffLate
<1>4. TypeOK /\ RemindInv => RemindersOnTime
  BY <1>3, Zenon DEF RemindersOnTime
<1> QED
  BY <1>1, <1>2, <1>4, RemindInit, CoherenceInit, TypeCorrect, PTL DEF Spec
=============================================================================
