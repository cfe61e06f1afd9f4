------------------------------ MODULE Reports ------------------------------
(***************************************************************************)
(* Scheduled reports (server/src/reports): one schedule, the loops of one  *)
(* or more server processes on the same database, and the handlers that    *)
(* edit it.  A pass reads the schedule and its clock, claims the slot that *)
(* is due with a conditional UPDATE, and sends; another process, an edit   *)
(* or a crash may come between.                                            *)
(***************************************************************************)
EXTENDS WallClock

CONSTANTS
  Processes,    \* servers on the database
  Here,         \* the time zone of the schedule
  Timings,      \* what users choose from
  Grace,        \* GRACE
  LookBack,     \* days latest_slot goes back
  MaxLag,       \* ticks between the beginnings of two passes
  MaxNow,       \* bound: the clock stops here
  MaxEdits,     \* bound: requests of users
  MaxFaults     \* bound: crashes and failed deliveries

Timing ==
  [frequency : {"daily", "weekly", "monthly"}, weekday : 0..(Week - 1), day_of_month : 1..Month,
   hour : 0..(Day \div Hour - 1)]

ASSUME ReportsAssumption ==
  /\ Here \in Zone /\ Timings \subseteq Timing
  /\ Grace \in Nat /\ LookBack \in Nat /\ MaxLag \in Nat
  /\ MaxNow \in Nat /\ MaxEdits \in Nat /\ MaxFaults \in Nat

VARIABLES
  now,      \* the clock
  row,      \* the schedule in the table
  pass,     \* per process, the pass in flight
  edit,     \* the row an update has read
  begun,    \* when a pass last began
  sent,     \* observer: the slots that were sent ...
  again,    \* ... and those that were sent again
  left      \* remaining edits and faults

vars == <<now, row, pass, edit, begun, sent, again, left>>

NoPass == [pc |-> "idle"]

NoEdit == [pc |-> "idle"]

-----------------------------------------------------------------------------
(* Slots.                                                                  *)

Matches(t, date) ==
  CASE t.frequency = "daily"   -> TRUE
    [] t.frequency = "weekly"  -> Weekday(date) = t.weekday
    [] t.frequency = "monthly" -> DayOfMonth(date) = t.day_of_month

\* slot_on: in the gap of a change of clocks, the following hour (of the same date).
SlotOn(t, date) ==
  LET at(h) == Earliest(Instants(Here, date * Day + ((h * Hour) % Day)))
  IN IF at(t.hour) # {} THEN at(t.hour) ELSE at(t.hour + 1)

Latest(S) == {t \in S : \A u \in S : u <= t}

\* Mutant: the slot of today, whatever the time of the day.
DatesBegunByDate(t, at) ==
  {d \in (DateOf(Here, at) - LookBack)..DateOf(Here, at) : Matches(t, d) /\ SlotOn(t, d) # {}}

\* The dates whose slot has begun.
DatesBegun(t, at) ==
  {d \in (DateOf(Here, at) - LookBack)..DateOf(Here, at) :
     Matches(t, d) /\ \E slot \in SlotOn(t, d) : slot <= at}

\* Mutant: the slots of today only.
LatestSlotToday(t, at) ==
  UNION {SlotOn(t, d) : d \in DatesBegun(t, at) \cap {DateOf(Here, at)}}

\* latest_slot: dates and their slots have the same order.
LatestSlot(t, at) == UNION {SlotOn(t, d) : d \in Latest(DatesBegun(t, at))}

\* due_slot
DueSlot(r, at) ==
  {slot \in LatestSlot(r.timing, at) :
     slot > r.armed_at /\ at - slot <= Grace /\ r.last_sent < slot}

-----------------------------------------------------------------------------
NewRow(timing, enabled) ==
  [exists |-> TRUE, enabled |-> enabled, timing |-> timing, armed_at |-> now, last_sent |-> -1]

\* The schedule has just been created.
Init ==
  /\ now = 0
  /\ row \in {NewRow(t, TRUE) : t \in Timings}
  /\ pass = [p \in Processes |-> NoPass] /\ edit = NoEdit
  /\ begun = 0
  /\ sent = {} /\ again = {}
  /\ left = [edits |-> MaxEdits, faults |-> MaxFaults]

Spend(kind) == left[kind] > 0 /\ left' = [left EXCEPT ![kind] = @ - 1]

Due == IF row.exists /\ row.enabled THEN DueSlot(row, now) ELSE {}

\* run_due reads the list.
BeginPass(p) ==
  /\ pass[p] = NoPass
  /\ begun' = now
  /\ \/ Due = {} /\ UNCHANGED pass
     \/ \E slot \in Due :
          pass' = [pass EXCEPT ![p] = [pc |-> "claim", at |-> now, slot |-> slot]]
  /\ UNCHANGED <<now, row, edit, sent, again, left>>

\* Mutant: the caller has checked already.
ClaimableIfEnabled(slot) == row.exists /\ row.enabled

\* UPDATE ... WHERE id = ? AND enabled = 1 AND (last_sent_at IS NULL OR last_sent_at < ?)
Claimable(slot) == row.exists /\ row.enabled /\ row.last_sent < slot

Claim(p) ==
  /\ pass[p].pc = "claim"
  /\ IF Claimable(pass[p].slot)
     THEN /\ row' = [row EXCEPT !.last_sent = pass[p].at]
          /\ pass' = [pass EXCEPT ![p] = [pc |-> "deliver", slot |-> @.slot]]
     ELSE pass' = [pass EXCEPT ![p] = NoPass] /\ UNCHANGED row
  /\ UNCHANGED <<now, edit, begun, sent, again, left>>

\* deliver: the mail leaves, or the error is shown and nothing is tried again.
Deliver(p) ==
  /\ pass[p].pc = "deliver"
  /\ \/ /\ sent' = sent \cup {pass[p].slot}
        /\ again' = again \cup (sent \cap {pass[p].slot})
        /\ UNCHANGED left
     \/ Spend("faults") /\ UNCHANGED <<sent, again>>
  /\ pass' = [pass EXCEPT ![p] = NoPass]
  /\ UNCHANGED <<now, row, edit, begun>>

Crash(p) ==
  /\ pass[p] # NoPass
  /\ Spend("faults")
  /\ pass' = [pass EXCEPT ![p] = NoPass]
  /\ UNCHANGED <<now, row, edit, begun, sent, again>>

\* update: the handler reads the row ...
ReadRow ==
  /\ edit = NoEdit /\ row.exists
  /\ Spend("edits")
  /\ edit' = [pc |-> "read", timing |-> row.timing, enabled |-> row.enabled,
              armed_at |-> row.armed_at]
  /\ UNCHANGED <<now, row, pass, begun, sent, again>>

\* ... and writes all columns but the date of the last report; a new timing, or a schedule
\* that is switched on again, is armed from now on.
UpdateRow(timing, enabled) ==
  /\ edit.pc = "read"
  /\ LET retimed == edit.timing # timing \/ (~edit.enabled /\ enabled)
     IN row' = [row EXCEPT !.timing = timing, !.enabled = enabled,
                           !.armed_at = IF retimed THEN now ELSE edit.armed_at]
  /\ edit' = NoEdit
  /\ UNCHANGED <<now, pass, begun, sent, again, left>>

RemoveRow ==
  /\ row.exists
  /\ Spend("edits")
  /\ row' = [row EXCEPT !.exists = FALSE]
  /\ UNCHANGED <<now, pass, edit, begun, sent, again>>

\* The loop ticks every minute: some server begins a pass at least once in MaxLag ticks, and
\* a pass claims at once.  A delivery may take as long as it likes.
Tick ==
  /\ now < MaxNow
  /\ now - begun < MaxLag
  /\ \A p \in Processes : pass[p].pc = "claim" => now - pass[p].at < MaxLag
  /\ now' = now + 1
  /\ UNCHANGED <<row, pass, edit, begun, sent, again, left>>

Next ==
  \/ \E p \in Processes : BeginPass(p) \/ Claim(p) \/ Deliver(p) \/ Crash(p)
  \/ ReadRow \/ RemoveRow
  \/ \E timing \in Timings, enabled \in BOOLEAN : UpdateRow(timing, enabled)
  \/ Tick

Spec == Init /\ [][Next]_vars

-----------------------------------------------------------------------------
(* Properties.                                                             *)

Row ==
  [exists : BOOLEAN, enabled : BOOLEAN, timing : Timings, armed_at : Nat, last_sent : Int]

\* Every variable has its type, and what a process is about to send or claim is a slot that
\* had begun when it read the clock.
TypeOK ==
  /\ now \in 0..MaxNow /\ begun \in 0..now
  /\ row \in Row /\ row.armed_at <= now /\ row.last_sent <= now
  /\ \A p \in Processes :
       \/ pass[p] = NoPass
       \/ /\ pass[p] \in [pc : {"claim"}, at : 0..now, slot : 0..now]
          /\ pass[p].slot <= pass[p].at /\ pass[p].at - pass[p].slot <= Grace
       \/ pass[p] \in [pc : {"deliver"}, slot : 0..now] /\ pass[p].slot <= row.last_sent
  /\ edit = NoEdit
     \/ edit \in [pc : {"read"}, timing : Timings, enabled : BOOLEAN, armed_at : 0..now]
  /\ sent \subseteq 0..now /\ again \subseteq sent
  /\ left \in [edits : Nat, faults : Nat]

\* No slot is sent twice, whichever processes work on the table and whatever is edited,
\* fails or crashes meanwhile: "jamais envoye deux fois".
SentOnce == again = {}

\* Every slot of a timing up to the bound of the clock.
Slots(t) == UNION {SlotOn(t, d) : d \in {d \in -2..(MaxNow \div Day + 2) : Matches(t, d)}}

\* No slot is passed over: once its time of grace is over, each slot since the schedule was
\* armed was claimed, through changes of the clocks, past midnight and after a crash.
NoSlotMissed ==
  row.exists /\ row.enabled =>
    \A slot \in Slots(row.timing) :
      slot > row.armed_at /\ now - slot > Grace => row.last_sent >= slot
=============================================================================
