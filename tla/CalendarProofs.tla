--------------------------- MODULE CalendarProofs ---------------------------
(***************************************************************************)
(* Proofs about report schedules and maintenance windows, for every        *)
(* calendar, time zone, choice of timings and windows, and number of       *)
(* servers, edits and faults: the type invariant, that no slot is sent     *)
(* twice, that none is passed over, and that a window covers its time.     *)
(***************************************************************************)
EXTENDS Calendar, FiniteSetTheorems, TLAPS

-----------------------------------------------------------------------------
(* Slots.                                                                  *)

\* A wall clock time is met at most once for the first time, at an instant.
LEMMA EarliestInstant ==
  ASSUME NEW z \in Zone, NEW wall \in Int
  PROVE  /\ Earliest(Instants(z, wall)) \subseteq Int
         /\ \A t, u \in Earliest(Instants(z, wall)) : t = u
<1>1. z.base \in Int /\ Hour \in Int
  BY ClockAssumption DEF Zone
<1>2. Instants(z, wall) \subseteq Int
  BY <1>1 DEF Instants
<1> HIDE DEF Instants
<1> QED
  BY <1>2 DEF Earliest

\* A date has at most one slot.
LEMMA SlotOnDate ==
  ASSUME NEW t \in Timing, NEW date \in Int
  PROVE  SlotOn(t, date) \subseteq Int /\ \A u, v \in SlotOn(t, date) : u = v
<1> DEFINE at(h) == Earliest(Instants(Here, date * Day + ((h * Hour) % Day)))
<1>1. ASSUME NEW h \in Int
      PROVE  at(h) \subseteq Int /\ \A u, v \in at(h) : u = v
  <2>1. Day \in Nat \ {0} /\ Hour \in Nat
    BY ClockAssumption
  <2>2. h * Hour \in Int
    BY <2>1
  <2>3. (h * Hour) % Day \in Int
    BY <2>1, <2>2
  <2>4. date * Day + ((h * Hour) % Day) \in Int
    BY <2>1, <2>3
  <2> QED
    BY <2>4, EarliestInstant, ReportsAssumption
<1>2. t.hour \in Int
  BY ClockAssumption DEF Timing
<1>3. SlotOn(t, date) = IF at(t.hour) # {} THEN at(t.hour) ELSE at(t.hour + 1)
  BY DEF SlotOn
<1> HIDE DEF at
<1> QED
  BY <1>1, <1>2, <1>3

\* The latest slot has begun.
LEMMA LatestSlotBegun ==
  ASSUME NEW t \in Timing, NEW at \in Int, NEW slot \in LatestSlot(t, at)
  PROVE  slot \in Int /\ slot <= at
<1>1. PICK d \in Latest(DatesBegun(t, at)) : slot \in SlotOn(t, d)
  BY DEF LatestSlot
<1>2. DateOf(Here, at) \in Int
  <2>1. Offset(Here, at) \in Int
    BY ReportsAssumption, ClockAssumption DEF Offset, Zone
  <2>2. Local(Here, at) \in Int
    BY <2>1 DEF Local
  <2> QED
    BY <2>2, ClockAssumption DEF DateOf
<1>3. d \in Int /\ \E u \in SlotOn(t, d) : u <= at
  BY <1>1, <1>2, ReportsAssumption DEF Latest, DatesBegun
<1> QED
  BY <1>1, <1>3, SlotOnDate

-----------------------------------------------------------------------------
(* Dates and their slots.                                                  *)

\* What division yields.
LEMMA Quotient ==
  ASSUME NEW x \in Int, NEW m \in Nat \ {0}
  PROVE  /\ x \div m \in Int
         /\ (x \div m) * m <= x /\ x < (x \div m) * m + m
         /\ x % m \in Int /\ 0 <= x % m /\ x % m < m
         /\ x = (x \div m) * m + (x % m)
  OBVIOUS

LEMMA QuotientIs ==
  ASSUME NEW x \in Int, NEW d \in Int, NEW m \in Nat \ {0}, d * m <= x, x < d * m + m
  PROVE  x \div m = d
  OBVIOUS

LEMMA QuotientBound ==
  ASSUME NEW a \in Int, NEW b \in Int, NEW n \in Nat, NEW m \in Nat \ {0},
         a * m < b * m + m + n * m
  PROVE  a <= b + n
  OBVIOUS

\* Days, and months, pass in order, and not faster than the instants.
LEMMA QuotientSteps ==
  ASSUME NEW x \in Int, NEW y \in Int, NEW m \in Nat \ {0}
  PROVE  /\ x <= y => x \div m <= y \div m
         /\ \A n \in Nat : y <= x + n * m => y \div m <= (x \div m) + n
<1> DEFINE a == y \div m
           b == x \div m
<1>1. /\ a \in Int /\ b \in Int
      /\ a * m <= y /\ b * m <= x /\ x < b * m + m /\ y < a * m + m
  BY Quotient
<1> HIDE DEF a, b
<1>2. ASSUME NEW n \in Nat, y <= x + n * m
      PROVE  a <= b + n
  <2>1. n * m \in Int /\ a * m \in Int /\ b * m \in Int
    BY <1>1
  <2>2. a * m < b * m + m + n * m
    BY <1>1, <1>2, <2>1
  <2> QED
    BY <1>1, <2>2, QuotientBound
<1>3. ASSUME x <= y
      PROVE  b <= a
  <2>1. b * m < a * m + m + 0 * m
    BY <1>1, <1>3
  <2>2. b <= a + 0
    BY <1>1, <2>1, QuotientBound
  <2> QED
    BY <1>1, <2>2
<1> QED
  BY <1>2, <1>3 DEF a, b

\* Summer time, if there is one, ends within a date: the hour that comes twice does
\* not take the wall clock back over midnight.
EndsWithinDate(z) == z.from < z.to => DateOf(z, z.to - 1) = DateOf(z, z.to)

\* The wall clock runs with the instants but for the hour of summer time.
LEMMA LocalBounds ==
  ASSUME NEW z \in Zone, NEW t \in Int
  PROVE  /\ Local(z, t) \in Int
         /\ t + z.base <= Local(z, t) /\ Local(z, t) <= t + z.base + Hour
         /\ DateOf(z, t) \in Int
<1>1. z.base \in Int /\ Hour \in Nat
  BY ClockAssumption DEF Zone
<1>2. Offset(z, t) = z.base \/ Offset(z, t) = z.base + Hour
  BY <1>1 DEF Offset
<1>3. /\ Local(z, t) \in Int
      /\ t + z.base <= Local(z, t) /\ Local(z, t) <= t + z.base + Hour
  BY <1>1, <1>2 DEF Local
<1> QED
  BY <1>3, Quotient, ClockAssumption DEF DateOf

\* Dates never go back.
LEMMA DatesInOrder ==
  ASSUME NEW z \in Zone, EndsWithinDate(z), NEW t \in Int, NEW u \in Int, t <= u
  PROVE  DateOf(z, t) <= DateOf(z, u)
<1>1. z.base \in Int /\ z.from \in Int /\ z.to \in Int /\ Hour \in Nat
  BY ClockAssumption DEF Zone
<1>2. \A v, w \in Int : Local(z, v) <= Local(z, w) => DateOf(z, v) <= DateOf(z, w)
  BY LocalBounds, QuotientSteps, ClockAssumption DEF DateOf
<1>3. \A v, w \in Int : DateOf(z, v) \in Int
  BY LocalBounds
<1>4. CASE z.from <= t /\ t < z.to /\ z.to <= u
  <2>1. z.from < z.to /\ z.to - 1 \in Int /\ t <= z.to - 1 /\ z.from <= z.to - 1
    BY <1>1, <1>4
  <2>2. Local(z, t) = t + z.base + Hour
    BY <1>1, <1>4 DEF Local, Offset
  <2>3. Local(z, z.to - 1) = (z.to - 1) + z.base + Hour
    BY <1>1, <2>1 DEF Local, Offset
  <2>4. Local(z, z.to) = z.to + z.base /\ Local(z, u) = u + z.base
    BY <1>1, <1>4 DEF Local, Offset
  <2>5. DateOf(z, t) <= DateOf(z, z.to - 1)
    BY <1>1, <1>2, <2>1, <2>2, <2>3
  <2>6. DateOf(z, z.to) <= DateOf(z, u)
    BY <1>1, <1>2, <1>4, <2>4
  <2> QED
    BY <1>1, <1>3, <2>1, <2>5, <2>6 DEF EndsWithinDate
<1>5. CASE ~(z.from <= t /\ t < z.to /\ z.to <= u)
  <2>1. Offset(z, t) <= Offset(z, u) /\ Offset(z, t) \in Int /\ Offset(z, u) \in Int
    BY <1>1, <1>5 DEF Offset
  <2>2. Local(z, t) <= Local(z, u)
    BY <2>1 DEF Local
  <2> QED
    BY <1>2, <2>2
<1> QED
  BY <1>4, <1>5

\* The slot of a date falls on that date, in the gap of a change of clocks too.
LEMMA SlotFallsOnDate ==
  ASSUME NEW t \in Timing, NEW d \in Int, NEW slot \in SlotOn(t, d)
  PROVE  slot \in Int /\ DateOf(Here, slot) = d
<1> DEFINE wall(h) == d * Day + ((h * Hour) % Day)
<1>1. PICK h \in Int : slot \in Earliest(Instants(Here, wall(h)))
  <2>1. t.hour \in Int /\ t.hour + 1 \in Int
    BY ClockAssumption DEF Timing
  <2> QED
    BY <2>1 DEF SlotOn
<1>2. Local(Here, slot) = wall(h)
  BY <1>1 DEF Earliest, Instants
<1>3. /\ d * Day \in Int /\ (h * Hour) % Day \in Int
      /\ 0 <= (h * Hour) % Day /\ (h * Hour) % Day < Day /\ Day \in Nat
  <2>1. h * Hour \in Int /\ Day \in Nat
    BY ClockAssumption
  <2> QED
    BY <2>1, Quotient, ClockAssumption
<1>4. wall(h) \in Int /\ d * Day <= wall(h) /\ wall(h) < d * Day + Day
  BY <1>3
<1>5. slot \in Int
  BY SlotOnDate
<1> HIDE DEF wall
<1> QED
  BY <1>2, <1>4, <1>5, QuotientIs, ClockAssumption DEF DateOf

\* An interval of dates that is not empty has a latest one.
LEMMA LatestExists ==
  ASSUME NEW n \in Int, NEW S \in SUBSET Int, \A x \in S : x <= n, S # {}
  PROVE  Latest(S) # {}
<1> DEFINE R == OpToRel(<, Nat)
           T == {n - x : x \in S}
<1>1. T \subseteq Nat /\ T # {}
  <2>1. \A x \in S : n - x \in Nat
    OBVIOUS
  <2>2. PICK x \in S : TRUE
    OBVIOUS
  <2>3. n - x \in T
    BY <2>2
  <2> QED
    BY <2>1, <2>3
<1>2. IsWellFoundedOn(R, Nat)
  BY NatLessThanWellFounded
<1>3. \A x, y \in Nat : y < x => <<y, x>> \in R
  BY DEF OpToRel
<1> HIDE DEF R, T
<1>4. PICK z \in T : \A y \in T : ~(<<y, z>> \in R)
  BY <1>1, <1>2, WFMin
<1>5. PICK x \in S : z = n - x
  BY <1>4 DEF T
<1>6. ASSUME NEW y \in S
      PROVE  y <= x
  <2>1. n - y \in T /\ n - y \in Nat /\ z \in Nat
    BY <1>1, <1>4 DEF T
  <2>2. ~(n - y < z)
    BY <1>3, <1>4, <2>1
  <2> QED
    BY <1>5, <2>1, <2>2
<1> QED
  BY <1>6 DEF Latest

\* The days latest_slot goes back are more than the time of grace.
SeesGrace == Grace + Hour <= LookBack * Day

\* Within its time of grace a slot is the latest one, or a later one is.
LEMMA LatestSlotFound ==
  ASSUME EndsWithinDate(Here), SeesGrace, NEW t \in Timing, NEW s \in Slots(t), NEW at \in Int,
         s <= at, at <= s + Grace
  PROVE  /\ LatestSlot(t, at) # {}
         /\ \A slot \in LatestSlot(t, at) : slot \in Int /\ s <= slot /\ slot <= at
<1>1. PICK d \in Int : Matches(t, d) /\ s \in SlotOn(t, d)
  <2>1. MaxNow \div Day \in Int
    BY ClockAssumption, ReportsAssumption
  <2> QED
    BY <2>1 DEF Slots
<1>2. s \in Int /\ DateOf(Here, s) = d
  BY <1>1, SlotFallsOnDate
<1>3. DateOf(Here, at) \in Int /\ d <= DateOf(Here, at)
  BY <1>2, LocalBounds, DatesInOrder, ReportsAssumption
<1>4. DateOf(Here, at) <= d + LookBack
  <2>1. /\ Local(Here, s) \in Int /\ Local(Here, at) \in Int
        /\ s + Here.base <= Local(Here, s) /\ Local(Here, at) <= at + Here.base + Hour
    BY <1>2, LocalBounds, ReportsAssumption
  <2>2. /\ LookBack * Day \in Int /\ LookBack \in Nat
        /\ Here.base \in Int /\ Hour \in Int /\ Grace \in Int
    BY ReportsAssumption, ClockAssumption DEF Zone
  <2>3. Local(Here, at) <= Local(Here, s) + LookBack * Day
    BY <1>2, <2>1, <2>2 DEF SeesGrace
  <2>4. Local(Here, at) \div Day <= (Local(Here, s) \div Day) + LookBack
    BY <2>1, <2>2, <2>3, QuotientSteps, ClockAssumption
  <2> QED
    BY <1>2, <2>4 DEF DateOf
<1> DEFINE B == DatesBegun(t, at)
<1>5. d \in B
  <2>1. DateOf(Here, at) - LookBack <= d /\ DateOf(Here, at) - LookBack \in Int
    BY <1>3, <1>4, ReportsAssumption
  <2>2. d \in (DateOf(Here, at) - LookBack)..DateOf(Here, at)
    BY <1>3, <2>1
  <2> QED
    BY <1>1, <2>2 DEF DatesBegun
<1>6. B \in SUBSET Int /\ \A x \in B : x <= DateOf(Here, at)
  BY <1>3, ReportsAssumption DEF DatesBegun
<1>7. \A x \in B : \E slot \in SlotOn(t, x) : slot <= at
  BY DEF DatesBegun
<1> HIDE DEF B
<1>8. PICK x \in Latest(B) : TRUE
  BY <1>3, <1>5, <1>6, LatestExists
<1>9. x \in B /\ d <= x
  BY <1>5, <1>8 DEF Latest
<1>10. LatestSlot(t, at) # {}
  <2>1. PICK slot \in SlotOn(t, x) : slot <= at
    BY <1>7, <1>9
  <2> QED
    BY <1>8, <2>1 DEF LatestSlot, B
<1>11. ASSUME NEW slot \in LatestSlot(t, at)
       PROVE  slot \in Int /\ s <= slot /\ slot <= at
  <2>1. PICK e \in Latest(B) : slot \in SlotOn(t, e)
    BY DEF LatestSlot, B
  <2>2. e \in Int /\ d <= e
    BY <1>5, <1>6, <2>1 DEF Latest
  <2>3. slot \in Int /\ DateOf(Here, slot) = e
    BY <2>1, <2>2, SlotFallsOnDate
  <2>4. slot <= at
    BY <1>11, LatestSlotBegun
  <2>5. CASE e = d
    BY <1>1, <1>2, <2>1, <2>3, <2>4, <2>5, SlotOnDate
  <2>6. CASE e # d
    <3>1. ~(slot <= s)
      BY <1>2, <2>2, <2>3, <2>6, DatesInOrder, ReportsAssumption
    <3> QED
      BY <1>2, <2>3, <2>4, <3>1
  <2> QED
    BY <2>5, <2>6
<1> QED
  BY <1>10, <1>11

-----------------------------------------------------------------------------
(* The invariant.                                                          *)

\* A pass that is about to claim a slot, and one that is about to send it.
Claiming ==
  [pc : {"claim"}, at : Nat, slot : Nat]

Delivering ==
  [pc : {"deliver"}, slot : Nat]

\* The types, with the whole of every record, and what the clock bounds.
Types ==
  /\ now \in Nat /\ now <= MaxNow /\ begun \in Nat /\ begun <= now
  /\ row \in Row /\ row.armed_at <= now /\ row.last_sent <= now
  /\ pass \in [Processes -> {NoPass} \cup Claiming \cup Delivering]
  /\ edit = NoEdit
     \/ edit \in [pc : {"read"}, timing : Timings, enabled : BOOLEAN, armed_at : 0..now]
  /\ left \in [edits : Nat, faults : Nat]

\* What a process claims had begun when it read the clock.
ClaimsBegun ==
  \A p \in Processes :
    pass[p] \in Claiming =>
      pass[p].at <= now /\ pass[p].slot <= pass[p].at /\ pass[p].at - pass[p].slot <= Grace

\* Whatever was sent or is about to be sent was claimed: the row remembers a later instant.
\* So a slot that can still be claimed is none of these.
ClaimedBefore ==
  /\ sent \subseteq Nat
  /\ \A slot \in sent : slot <= row.last_sent
  /\ \A p \in Processes :
       pass[p] \in Delivering => pass[p].slot <= row.last_sent /\ pass[p].slot \notin sent

\* A slot is in the hands of one process at most.
OneSender ==
  \A p, q \in Processes :
    /\ pass[p] \in Delivering /\ pass[q] \in Delivering
    /\ pass[p].slot = pass[q].slot
    => p = q

IInv == Types /\ ClaimsBegun /\ ClaimedBefore /\ OneSender /\ again = {}

\* The shapes of a pass exclude each other.
LEMMA PassShapes ==
  /\ \A x \in Claiming : x.pc = "claim" /\ x # NoPass /\ x \notin Delivering
  /\ \A x \in Delivering : x.pc = "deliver" /\ x # NoPass /\ x \notin Claiming
  /\ NoPass.pc = "idle" /\ NoPass \notin Claiming /\ NoPass \notin Delivering
  BY DEF Claiming, Delivering, NoPass

LEMMA InitHolds == Init => IInv
<1> SUFFICES ASSUME Init PROVE IInv
  OBVIOUS
<1>1. Types
  <2>1. PICK t \in Timings : row = NewRow(t, TRUE)
    BY DEF Init
  <2>2. row \in Row /\ row.armed_at = 0 /\ row.last_sent = -1
    BY <2>1 DEF Init, NewRow, Row
  <2> QED
    BY <2>2, ReportsAssumption DEF Init, Types
<1>2. \A p \in Processes : pass[p] = NoPass
  BY DEF Init
<1> QED
  BY <1>1, <1>2, PassShapes DEF Init, IInv, ClaimsBegun, ClaimedBefore, OneSender

LEMMA SpendTypes ==
  ASSUME left \in [edits : Nat, faults : Nat], NEW kind \in {"edits", "faults"}, Spend(kind)
  PROVE  left' \in [edits : Nat, faults : Nat]
<1>1. CASE kind = "edits"
  BY <1>1 DEF Spend
<1>2. CASE kind = "faults"
  BY <1>2 DEF Spend
<1> QED
  BY <1>1, <1>2

-----------------------------------------------------------------------------
(* The steps.                                                              *)

\* A process that goes back to sleep leaves the others alone.
LEMMA RestKeeps ==
  ASSUME IInv, NEW p \in Processes, pass' = [pass EXCEPT ![p] = NoPass],
         UNCHANGED <<now, row, sent>>
  PROVE  /\ pass' \in [Processes -> {NoPass} \cup Claiming \cup Delivering]
         /\ ClaimsBegun' /\ ClaimedBefore' /\ OneSender'
<1>1. /\ pass'[p] = NoPass /\ \A q \in Processes : q # p => pass'[q] = pass[q]
      /\ pass' \in [Processes -> {NoPass} \cup Claiming \cup Delivering]
  BY DEF IInv, Types
<1> QED
  BY <1>1, PassShapes DEF IInv, ClaimsBegun, ClaimedBefore, OneSender

LEMMA BeginPassKeeps ==
  ASSUME IInv, NEW p \in Processes, BeginPass(p)
  PROVE  IInv'
<1>1. /\ UNCHANGED <<now, row, edit, sent, again, left>> /\ begun' = now
  BY DEF BeginPass
<1>2. CASE UNCHANGED pass
  BY <1>1, <1>2 DEF IInv, Types, ClaimsBegun, ClaimedBefore, OneSender
<1>3. ASSUME NEW slot \in Due,
             pass' = [pass EXCEPT ![p] = [pc |-> "claim", at |-> now, slot |-> slot]]
      PROVE  IInv'
  <2> DEFINE new == [pc |-> "claim", at |-> now, slot |-> slot]
  <2>1. /\ row.timing \in Timing /\ row.armed_at \in Nat /\ now \in Int
    BY ReportsAssumption DEF IInv, Types, Row
  <2>2. /\ slot \in LatestSlot(row.timing, now)
        /\ slot > row.armed_at /\ now - slot <= Grace
    BY DEF Due, DueSlot
  <2>3. slot \in Nat /\ slot <= now
    BY <2>1, <2>2, LatestSlotBegun
  <2>4. new \in Claiming /\ new.at = now /\ new.slot = slot
    BY <2>3 DEF Claiming, IInv, Types
  <2>5. /\ pass'[p] = new /\ \A q \in Processes : q # p => pass'[q] = pass[q]
        /\ pass' \in [Processes -> {NoPass} \cup Claiming \cup Delivering]
    BY <1>3, <2>4 DEF IInv, Types
  <2> HIDE DEF new
  <2>6. Types'
    BY <1>1, <2>5 DEF IInv, Types
  <2>7. ClaimsBegun'
    <3>1. now' = now
      BY <1>1
    <3>2. new.at <= now /\ new.slot <= new.at /\ new.at - new.slot <= Grace
      BY <2>1, <2>2, <2>3, <2>4
    <3> QED
      BY <2>5, <3>1, <3>2 DEF IInv, ClaimsBegun
  <2>8. ClaimedBefore' /\ OneSender'
    BY <1>1, <2>4, <2>5, PassShapes DEF IInv, ClaimedBefore, OneSender
  <2> QED
    BY <1>1, <2>6, <2>7, <2>8 DEF IInv
<1> QED
  BY <1>2, <1>3 DEF BeginPass

\* The slot that is claimed is later than anything sent or being sent, and the row moves on
\* past it.
LEMMA ClaimKeeps ==
  ASSUME IInv, NEW p \in Processes, Claim(p)
  PROVE  IInv'
<1>1. UNCHANGED <<now, edit, begun, sent, again, left>>
  BY DEF Claim
<1>2. pass[p] \in Claiming
  BY PassShapes DEF Claim, IInv, Types
<1>3. CASE Claimable(pass[p].slot)
  <2> DEFINE slot == pass[p].slot
             at == pass[p].at
             new == [pc |-> "deliver", slot |-> slot]
  <2>1. row' = [row EXCEPT !.last_sent = at] /\ pass' = [pass EXCEPT ![p] = new]
    BY <1>3 DEF Claim
  <2>2. slot \in Nat /\ at \in Nat /\ at <= now /\ slot <= at
    BY <1>2 DEF IInv, ClaimsBegun, Claiming
  <2>3. row.last_sent \in Int /\ row.last_sent < slot
    BY <1>3 DEF Claimable, IInv, Types, Row
  <2>4. new \in Delivering /\ new.slot = slot
    BY <2>2 DEF Delivering
  <2>5. /\ pass'[p] = new /\ \A q \in Processes : q # p => pass'[q] = pass[q]
        /\ pass' \in [Processes -> {NoPass} \cup Claiming \cup Delivering]
    BY <2>1, <2>4 DEF IInv, Types
  <2>6. row' \in Row /\ row'.armed_at = row.armed_at /\ row'.last_sent = at
    BY <2>1, <2>2 DEF IInv, Types, Row
  <2> HIDE DEF new, at, slot
  <2>7. Types'
    BY <1>1, <2>2, <2>5, <2>6 DEF IInv, Types
  <2>8. ClaimsBegun'
    BY <1>1, <2>4, <2>5, PassShapes DEF IInv, ClaimsBegun
  <2>9. slot \notin sent
    BY <2>2, <2>3 DEF IInv, ClaimedBefore
  <2>10. ClaimedBefore'
    <3>1. \A s \in sent : s <= at
      BY <2>2, <2>3 DEF IInv, ClaimedBefore
    <3>2. ASSUME NEW q \in Processes, pass'[q] \in Delivering
          PROVE  pass'[q].slot <= at /\ pass'[q].slot \notin sent
      <4>1. CASE q = p
        BY <2>2, <2>4, <2>5, <2>9, <4>1
      <4>2. CASE q # p
        BY <2>2, <2>3, <2>5, <3>2, <4>2 DEF IInv, ClaimedBefore, Delivering
      <4> QED
        BY <4>1, <4>2
    <3> QED
      BY <1>1, <2>6, <3>1, <3>2 DEF IInv, ClaimedBefore
  <2>11. OneSender'
    <3>1. ASSUME NEW q \in Processes, q # p, pass[q] \in Delivering
          PROVE  pass[q].slot # slot
      BY <2>2, <2>3, <3>1 DEF IInv, ClaimedBefore, Delivering
    <3> QED
      BY <2>4, <2>5, <3>1 DEF IInv, OneSender
  <2> QED
    BY <1>1, <2>7, <2>8, <2>10, <2>11 DEF IInv
<1>4. CASE ~Claimable(pass[p].slot)
  <2>1. pass' = [pass EXCEPT ![p] = NoPass] /\ UNCHANGED row
    BY <1>4 DEF Claim
  <2> QED
    BY <1>1, <2>1, RestKeeps DEF IInv, Types
<1> QED
  BY <1>3, <1>4

LEMMA DeliverKeeps ==
  ASSUME IInv, NEW p \in Processes, Deliver(p)
  PROVE  IInv'
<1>1. UNCHANGED <<now, row, edit, begun>> /\ pass' = [pass EXCEPT ![p] = NoPass]
  BY DEF Deliver
<1>2. pass[p] \in Delivering
  BY PassShapes DEF Deliver, IInv, Types
<1>3. CASE /\ sent' = sent \cup {pass[p].slot}
           /\ again' = again \cup (sent \cap {pass[p].slot})
           /\ UNCHANGED left
  <2>1. /\ pass'[p] = NoPass /\ \A q \in Processes : q # p => pass'[q] = pass[q]
        /\ pass' \in [Processes -> {NoPass} \cup Claiming \cup Delivering]
    BY <1>1 DEF IInv, Types
  <2>2. Types' /\ ClaimsBegun' /\ OneSender'
    BY <1>1, <1>3, <2>1, PassShapes DEF IInv, Types, ClaimsBegun, OneSender
  <2>3. pass[p].slot \in Nat /\ pass[p].slot \notin sent
    BY <1>2 DEF IInv, ClaimedBefore, Delivering
  <2>4. again' = {}
    BY <1>3, <2>3 DEF IInv
  <2>5. ASSUME NEW q \in Processes, pass'[q] \in Delivering
        PROVE  pass'[q].slot <= row.last_sent /\ pass'[q].slot \notin sent'
    BY <1>2, <1>3, <2>1, <2>5, PassShapes DEF IInv, ClaimedBefore, OneSender
  <2>6. ClaimedBefore'
    BY <1>1, <1>2, <1>3, <2>3, <2>5 DEF IInv, ClaimedBefore
  <2> QED
    BY <2>2, <2>4, <2>6 DEF IInv
<1>4. CASE Spend("faults") /\ UNCHANGED <<sent, again>>
  <2>1. left' \in [edits : Nat, faults : Nat]
    BY <1>4, SpendTypes DEF IInv, Types
  <2> QED
    BY <1>1, <1>4, <2>1, RestKeeps DEF IInv, Types
<1> QED
  BY <1>3, <1>4 DEF Deliver

LEMMA CrashKeeps ==
  ASSUME IInv, NEW p \in Processes, Crash(p)
  PROVE  IInv'
<1>1. left' \in [edits : Nat, faults : Nat]
  BY SpendTypes DEF IInv, Types, Crash
<1> QED
  BY <1>1, RestKeeps DEF IInv, Types, Crash

\* An edit may arm the schedule anew, but does not touch the date of the last report.
LEMMA EditKeeps ==
  ASSUME IInv, now' = now, UNCHANGED <<pass, begun, sent, again>>,
         left' \in [edits : Nat, faults : Nat],
         row' \in Row, row'.armed_at <= now, row'.last_sent = row.last_sent,
         \/ edit' = NoEdit
         \/ edit' \in [pc : {"read"}, timing : Timings, enabled : BOOLEAN, armed_at : 0..now]
  PROVE  IInv'
  BY DEF IInv, Types, ClaimsBegun, ClaimedBefore, OneSender

LEMMA ReadRowKeeps ==
  ASSUME IInv, ReadRow
  PROVE  IInv'
<1>1. left' \in [edits : Nat, faults : Nat]
  BY SpendTypes DEF IInv, Types, ReadRow
<1>2. /\ row \in Row /\ row.armed_at <= now /\ now \in Nat
  BY DEF IInv, Types
<1>3. edit' \in [pc : {"read"}, timing : Timings, enabled : BOOLEAN, armed_at : 0..now]
  BY <1>2 DEF ReadRow, Row
<1> QED
  BY <1>1, <1>2, <1>3, EditKeeps DEF ReadRow

LEMMA UpdateRowKeeps ==
  ASSUME IInv, NEW timing \in Timings, NEW enabled \in BOOLEAN, UpdateRow(timing, enabled)
  PROVE  IInv'
<1> DEFINE retimed == edit.timing # timing \/ (~edit.enabled /\ enabled)
           armed == IF retimed THEN now ELSE edit.armed_at
<1>1. edit \in [pc : {"read"}, timing : Timings, enabled : BOOLEAN, armed_at : 0..now]
  BY DEF IInv, Types, UpdateRow, NoEdit
<1>2. armed \in Nat /\ armed <= now
  BY <1>1 DEF IInv, Types
<1>3. row' = [row EXCEPT !.timing = timing, !.enabled = enabled, !.armed_at = armed]
  BY DEF UpdateRow
<1> HIDE DEF armed
<1>4. row \in Row
  BY DEF IInv, Types
<1>5. row' \in Row /\ row'.armed_at = armed /\ row'.last_sent = row.last_sent
  BY <1>2, <1>3, <1>4 DEF Row
<1>6. UNCHANGED <<now, pass, begun, sent, again, left>> /\ edit' = NoEdit
  BY DEF UpdateRow
<1>7. left' \in [edits : Nat, faults : Nat]
  BY <1>6 DEF IInv, Types
<1> QED
  BY <1>2, <1>5, <1>6, <1>7, EditKeeps

LEMMA RemoveRowKeeps ==
  ASSUME IInv, RemoveRow
  PROVE  IInv'
<1>1. left' \in [edits : Nat, faults : Nat]
  BY SpendTypes DEF IInv, Types, RemoveRow
<1>2. row \in Row
  BY DEF IInv, Types
<1>3. row' \in Row /\ row'.armed_at = row.armed_at /\ row'.last_sent = row.last_sent
  BY <1>2 DEF RemoveRow, Row
<1> QED
  BY <1>1, <1>3, EditKeeps DEF IInv, Types, RemoveRow

LEMMA TickKeeps ==
  ASSUME IInv, Tick
  PROVE  IInv'
<1>1. now' = now + 1 /\ now < MaxNow /\ UNCHANGED <<row, pass, edit, begun, sent, again, left>>
  BY DEF Tick
<1>2. now \in Nat /\ row \in Row
  BY DEF IInv, Types
<1>3. Types'
  BY <1>1, <1>2, ReportsAssumption DEF IInv, Types, Row
<1>4. ClaimsBegun'
  BY <1>1, <1>2 DEF IInv, ClaimsBegun, Claiming
<1> QED
  BY <1>1, <1>3, <1>4 DEF IInv, ClaimedBefore, OneSender

LEMMA StepKeeps == IInv /\ [Next]_vars => IInv'
<1> SUFFICES ASSUME IInv, [Next]_vars PROVE IInv'
  OBVIOUS
<1>1. CASE UNCHANGED vars
  BY <1>1 DEF vars, IInv, Types, ClaimsBegun, ClaimedBefore, OneSender
<1>2. ASSUME NEW p \in Processes, BeginPass(p) \/ Claim(p) \/ Deliver(p) \/ Crash(p)
      PROVE  IInv'
  BY <1>2, BeginPassKeeps, ClaimKeeps, DeliverKeeps, CrashKeeps
<1>3. CASE ReadRow \/ RemoveRow \/ Tick
  BY <1>3, ReadRowKeeps, RemoveRowKeeps, TickKeeps
<1>4. ASSUME NEW timing \in Timings, NEW enabled \in BOOLEAN, UpdateRow(timing, enabled)
      PROVE  IInv'
  BY <1>4, UpdateRowKeeps
<1> QED
  BY <1>1, <1>2, <1>3, <1>4 DEF Next

LEMMA AlwaysIInv == Spec => []IInv
  BY InitHolds, StepKeeps, PTL DEF Spec

-----------------------------------------------------------------------------
(* No slot is passed over.                                                 *)

\* Every fault may cost a pass: the time of grace has room for all of them, and for the pass
\* that claims.
InTime == (MaxFaults + 2) * MaxLag <= Grace

\* How late the n-th pass after the faults met so far may begin.
By(s, n) == s + ((MaxFaults - left.faults) + n) * MaxLag

\* A slot that is to be claimed.
Waiting(s) ==
  /\ row.exists /\ row.enabled
  /\ s \in Slots(row.timing) /\ row.armed_at < s /\ s <= now /\ row.last_sent < s

\* Claiming the slot of this pass does for s.
Serves(p, s) == pass[p] \in Claiming /\ s <= pass[p].slot

\* The pass for the slot has yet to begin ...
Ahead(s) == begun <= By(s, 0)

\* ... or a pass that began in time holds it; if another began too late to replace that one
\* after a fault, that other pass holds it as well.
InHand(s) ==
  \E p \in Processes :
    /\ Serves(p, s) /\ pass[p].at <= By(s, 1)
    /\ begun <= By(s, 1) \/ \E q \in Processes : Serves(q, s) /\ pass[q].at = begun

\* The loops keep their pace, and an edit knows the row it writes.
Paced ==
  /\ left.faults <= MaxFaults
  /\ now <= begun + MaxLag
  /\ \A p \in Processes : pass[p] \in Claiming => now <= pass[p].at + MaxLag
  /\ edit # NoEdit =>
       edit.timing = row.timing /\ edit.enabled = row.enabled /\ edit.armed_at = row.armed_at

Looked == \A s \in Int : Waiting(s) => Ahead(s) \/ InHand(s)

LoopInv == Paced /\ Looked

\* The arithmetic of By.
LEMMA ByBounds ==
  ASSUME Types, Paced, NEW s \in Int
  PROVE  /\ By(s, 0) \in Int /\ By(s, 1) \in Int /\ By(s, 2) \in Int
         /\ s <= By(s, 0) /\ By(s, 1) = By(s, 0) + MaxLag /\ By(s, 2) = By(s, 1) + MaxLag
         /\ InTime => By(s, 2) <= s + Grace
<1> DEFINE k == MaxFaults - left.faults
<1>1. k \in Nat /\ MaxLag \in Nat /\ Grace \in Nat /\ MaxFaults \in Nat /\ k <= MaxFaults
  BY ReportsAssumption DEF Types, Paced
<1> HIDE DEF k
<1>2. /\ (k + 0) * MaxLag \in Nat /\ (k + 1) * MaxLag = (k + 0) * MaxLag + MaxLag
      /\ (k + 2) * MaxLag = (k + 1) * MaxLag + MaxLag
      /\ (k + 2) * MaxLag <= (MaxFaults + 2) * MaxLag
      /\ (MaxFaults + 2) * MaxLag \in Nat
  BY <1>1
<1>3. /\ By(s, 0) = s + (k + 0) * MaxLag /\ By(s, 1) = s + (k + 1) * MaxLag
      /\ By(s, 2) = s + (k + 2) * MaxLag
  BY DEF By, k
<1> QED
  BY <1>1, <1>2, <1>3 DEF InTime

LEMMA BySame ==
  ASSUME left' = left, NEW s \in Int, NEW n \in Nat
  PROVE  By(s, n)' = By(s, n)
  BY DEF By

\* A fault gives every slot one pass more.
LEMMA BySpent ==
  ASSUME Types, Paced, Spend("faults"), NEW s \in Int
  PROVE  By(s, 0)' = By(s, 1) /\ By(s, 1)' = By(s, 2) /\ left'.faults <= MaxFaults
<1>1. /\ left.faults \in Nat /\ left'.faults = left.faults - 1
      /\ left.faults <= MaxFaults /\ MaxFaults \in Nat
  BY ReportsAssumption DEF Types, Paced, Spend
<1>2. /\ (MaxFaults - left'.faults) + 0 = (MaxFaults - left.faults) + 1
      /\ (MaxFaults - left'.faults) + 1 = (MaxFaults - left.faults) + 2
  BY <1>1
<1> QED
  BY <1>1, <1>2 DEF By

\* A slot that waits is within its time of grace: the loops come by in time.
LEMMA StillTime ==
  ASSUME Types, LoopInv, NEW s \in Int, Waiting(s)
  PROVE  now <= By(s, 2) /\ (Ahead(s) => now <= By(s, 1))
<1>1. now \in Int /\ begun \in Int /\ MaxLag \in Nat /\ now <= begun + MaxLag
  BY ReportsAssumption DEF Types, LoopInv, Paced
<1>2. CASE Ahead(s)
  BY <1>1, <1>2, ByBounds DEF Ahead, LoopInv
<1>3. CASE InHand(s)
  <2>1. PICK p \in Processes : Serves(p, s) /\ pass[p].at <= By(s, 1)
    BY <1>3 DEF InHand
  <2>2. pass[p].at \in Int /\ now <= pass[p].at + MaxLag
    BY <2>1 DEF Serves, Claiming, LoopInv, Paced
  <2>3. now <= By(s, 2)
    BY <1>1, <2>1, <2>2, ByBounds DEF LoopInv
  <2> QED
    BY <1>2, <2>3
<1> QED
  BY <1>2, <1>3 DEF LoopInv, Looked

-----------------------------------------------------------------------------
(* The steps of the loops.                                                 *)

LEMMA LoopInit == Init => LoopInv
<1> SUFFICES ASSUME Init PROVE LoopInv
  OBVIOUS
<1>1. Types
  BY InitHolds DEF IInv
<1>2. \A p \in Processes : pass[p] = NoPass
  BY DEF Init
<1>3. Paced
  BY <1>2, PassShapes, ReportsAssumption DEF Init, Paced
<1>4. ASSUME NEW s \in Int, Waiting(s)
      PROVE  Ahead(s)
  <2>1. 0 <= s
    BY <1>1, <1>4 DEF Waiting, Types, Row
  <2>2. begun = 0
    BY DEF Init
  <2> QED
    BY <1>1, <1>3, <2>1, <2>2, ByBounds DEF Ahead
<1> QED
  BY <1>3, <1>4 DEF LoopInv, Looked

\* The slots that wait, where the row stays.
LEMMA WaitingSame ==
  ASSUME UNCHANGED <<now, row>>, NEW s \in Int
  PROVE  Waiting(s)' <=> Waiting(s)
  BY DEF Waiting

\* A pass that begins takes a slot that waits, or a later one.
LEMMA BeginTakes ==
  ASSUME InTime, EndsWithinDate(Here), SeesGrace, IInv, LoopInv,
         NEW p \in Processes, BeginPass(p), NEW s \in Int, Waiting(s)
  PROVE  /\ Serves(p, s)' /\ pass'[p].at = now
         /\ \A q \in Processes : q # p => pass'[q] = pass[q]
<1>1. /\ now \in Int /\ row \in Row /\ row.timing \in Timing /\ row.armed_at \in Nat
      /\ row.last_sent \in Int
  BY ReportsAssumption DEF IInv, Types, Row
<1>2. s \in Slots(row.timing) /\ row.armed_at < s /\ s <= now /\ row.last_sent < s
  BY DEF Waiting
<1>3. now <= s + Grace /\ Grace \in Nat
  BY <1>1, StillTime, ByBounds, ReportsAssumption DEF IInv, LoopInv
<1>4. /\ LatestSlot(row.timing, now) # {}
      /\ \A slot \in LatestSlot(row.timing, now) : slot \in Int /\ s <= slot /\ slot <= now
  BY <1>1, <1>2, <1>3, LatestSlotFound
<1>5. Due = DueSlot(row, now)
  BY DEF Due, Waiting
<1>6. Due # {} /\ \A slot \in Due : slot \in Nat /\ s <= slot
  <2>1. ASSUME NEW slot \in LatestSlot(row.timing, now)
        PROVE  slot > row.armed_at /\ now - slot <= Grace /\ row.last_sent < slot /\ slot \in Nat
    BY <1>1, <1>2, <1>3, <1>4
  <2> QED
    BY <1>4, <1>5, <2>1 DEF DueSlot
<1>7. PICK slot \in Due :
        pass' = [pass EXCEPT ![p] = [pc |-> "claim", at |-> now, slot |-> slot]]
  BY <1>6 DEF BeginPass
<1> DEFINE new == [pc |-> "claim", at |-> now, slot |-> slot]
<1>8. new \in Claiming /\ new.at = now /\ s <= new.slot
  BY <1>6 DEF Claiming, IInv, Types
<1>9. pass'[p] = new /\ \A q \in Processes : q # p => pass'[q] = pass[q]
  BY <1>7 DEF IInv, Types
<1> HIDE DEF new
<1> QED
  BY <1>8, <1>9 DEF Serves

LEMMA BeginPassPaced ==
  ASSUME IInv, LoopInv, NEW p \in Processes, BeginPass(p)
  PROVE  Paced'
<1>1. UNCHANGED <<now, row, edit, left>> /\ begun' = now /\ now \in Nat /\ MaxLag \in Nat
  BY ReportsAssumption DEF BeginPass, IInv, Types
<1>2. ASSUME NEW q \in Processes, pass'[q] \in Claiming
      PROVE  now <= pass'[q].at + MaxLag
  <2>1. CASE pass'[q] = pass[q]
    BY <1>2, <2>1 DEF LoopInv, Paced
  <2>2. CASE pass'[q] # pass[q]
    <3>1. PICK slot \in Due :
            pass' = [pass EXCEPT ![p] = [pc |-> "claim", at |-> now, slot |-> slot]]
      BY <2>2 DEF BeginPass
    <3>2. pass'[q].at = now
      BY <2>2, <3>1 DEF IInv, Types
    <3> QED
      BY <1>1, <3>2
  <2> QED
    BY <2>1, <2>2
<1> QED
  BY <1>1, <1>2 DEF LoopInv, Paced

LEMMA BeginPassLooks ==
  ASSUME InTime, EndsWithinDate(Here), SeesGrace, IInv, LoopInv,
         NEW p \in Processes, BeginPass(p)
  PROVE  LoopInv'
<1>1. UNCHANGED <<now, row, edit, left>> /\ begun' = now /\ pass[p] = NoPass /\ now \in Nat
  BY DEF BeginPass, IInv, Types
<1>2. ASSUME NEW s \in Int, Waiting(s)'
      PROVE  InHand(s)'
  <2>1. Waiting(s)
    BY <1>1, <1>2, WaitingSame
  <2>2. /\ Serves(p, s)' /\ pass'[p].at = now
        /\ \A q \in Processes : q # p => pass'[q] = pass[q]
    BY <2>1, BeginTakes
  <2>3. By(s, 1)' = By(s, 1)
    BY <1>1, BySame
  <2>4. CASE Ahead(s)
    <3>1. now <= By(s, 1)
      BY <2>1, <2>4, StillTime DEF IInv
    <3> QED
      BY <1>1, <2>2, <2>3, <3>1 DEF InHand
  <2>5. CASE InHand(s)
    <3>1. PICK r \in Processes : Serves(r, s) /\ pass[r].at <= By(s, 1)
      BY <2>5 DEF InHand
    <3>2. r # p /\ pass'[r] = pass[r]
      BY <1>1, <2>2, <3>1, PassShapes DEF Serves
    <3>3. Serves(r, s)' /\ pass'[r].at <= By(s, 1)'
      BY <2>3, <3>1, <3>2 DEF Serves
    <3> QED
      BY <1>1, <2>2, <3>3 DEF InHand
  <2> QED
    BY <2>1, <2>4, <2>5 DEF LoopInv, Looked
<1> QED
  BY <1>2, BeginPassPaced DEF LoopInv, Looked

\* A pass leaves: those that remain are as they were.
LEMMA LeavingPaced ==
  ASSUME IInv, LoopInv, NEW p \in Processes, pass'[p] \notin Claiming,
         \A q \in Processes : q # p => pass'[q] = pass[q],
         UNCHANGED <<now, begun, edit>>, left'.faults <= MaxFaults,
         row'.timing = row.timing, row'.enabled = row.enabled, row'.armed_at = row.armed_at
  PROVE  Paced'
  BY DEF LoopInv, Paced

\* Whoever claims a slot that waits, or a later one, moves the row past it.
LEMMA ClaimLooks ==
  ASSUME IInv, LoopInv, NEW p \in Processes, Claim(p)
  PROVE  LoopInv'
<1>1. UNCHANGED <<now, edit, begun, left>>
  BY DEF Claim
<1>2. /\ pass[p] \in Claiming /\ pass[p].slot \in Nat /\ pass[p].at \in Nat
      /\ pass[p].slot <= pass[p].at
  <2>1. pass[p] \in Claiming
    BY PassShapes DEF Claim, IInv, Types
  <2> QED
    BY <2>1 DEF Claiming, IInv, ClaimsBegun
<1>3. /\ row \in Row /\ row'.timing = row.timing /\ row'.enabled = row.enabled
      /\ row'.armed_at = row.armed_at /\ row'.exists = row.exists
      /\ row'.last_sent = IF Claimable(pass[p].slot) THEN pass[p].at ELSE row.last_sent
  BY DEF Claim, IInv, Types, Row
<1>4. pass'[p] \notin Claiming /\ \A q \in Processes : q # p => pass'[q] = pass[q]
  BY PassShapes DEF Claim, IInv, Types, Claiming
<1>5. Paced'
  <2>1. left'.faults <= MaxFaults
    BY <1>1 DEF LoopInv, Paced
  <2> QED
    BY <1>1, <1>3, <1>4, <2>1, LeavingPaced
<1>6. ASSUME NEW s \in Int, Waiting(s)'
      PROVE  Waiting(s) /\ ~Serves(p, s)
  <2>1. /\ row.exists /\ row.enabled /\ s \in Slots(row.timing) /\ row.armed_at < s /\ s <= now
        /\ row'.last_sent < s
    BY <1>1, <1>3, <1>6 DEF Waiting
  <2>2. row.last_sent \in Int
    BY <1>3 DEF Row
  <2>3. CASE Claimable(pass[p].slot)
    <3>1. row'.last_sent = pass[p].at /\ row.last_sent < pass[p].slot
      BY <1>3, <2>3 DEF Claimable
    <3> QED
      BY <1>2, <2>1, <2>2, <3>1 DEF Waiting, Serves
  <2>4. CASE ~Claimable(pass[p].slot)
    <3>1. row.last_sent < s /\ ~(row.last_sent < pass[p].slot)
      BY <1>3, <2>1, <2>4 DEF Claimable
    <3> QED
      BY <1>2, <2>1, <2>2, <3>1 DEF Waiting, Serves
  <2> QED
    BY <2>3, <2>4
<1>7. ASSUME NEW s \in Int, Waiting(s)'
      PROVE  Ahead(s)' \/ InHand(s)'
  <2>1. Waiting(s) /\ ~Serves(p, s)
    BY <1>6, <1>7
  <2>2. By(s, 0)' = By(s, 0) /\ By(s, 1)' = By(s, 1)
    BY <1>1, BySame
  <2>3. \A q \in Processes : Serves(q, s) => Serves(q, s)' /\ pass'[q] = pass[q]
    BY <1>4, <2>1 DEF Serves
  <2> QED
    BY <1>1, <2>1, <2>2, <2>3 DEF LoopInv, Looked, Ahead, InHand
<1> QED
  BY <1>5, <1>7 DEF LoopInv, Looked

\* A fault, in any phase of a pass: the next pass replaces it.
LEMMA FaultLooks ==
  ASSUME IInv, LoopInv, NEW p \in Processes, pass' = [pass EXCEPT ![p] = NoPass],
         Spend("faults"), UNCHANGED <<now, row, edit, begun>>
  PROVE  LoopInv'
<1>1. pass'[p] = NoPass /\ \A q \in Processes : q # p => pass'[q] = pass[q]
  BY DEF IInv, Types
<1>2. Types /\ Paced /\ now \in Int /\ begun \in Int /\ begun <= now /\ MaxLag \in Nat
  BY ReportsAssumption DEF IInv, Types, LoopInv
<1>3. Paced'
  BY <1>1, <1>2, BySpent, LeavingPaced, PassShapes
<1>4. ASSUME NEW s \in Int, Waiting(s)'
      PROVE  Ahead(s)' \/ InHand(s)'
  <2>1. Waiting(s)
    BY <1>4, WaitingSame
  <2>2. /\ By(s, 0)' = By(s, 1) /\ By(s, 1)' = By(s, 2) /\ By(s, 0) \in Int /\ By(s, 1) \in Int
        /\ By(s, 0) <= By(s, 1) /\ By(s, 1) <= By(s, 2) /\ By(s, 2) \in Int
    BY <1>2, BySpent, ByBounds
  <2>3. begun <= By(s, 2)
    BY <1>2, <2>1, <2>2, StillTime
  <2>4. CASE begun <= By(s, 1)
    BY <2>2, <2>4 DEF Ahead
  <2>5. CASE ~(begun <= By(s, 1))
    <3>1. InHand(s)
      BY <1>2, <2>1, <2>2, <2>5 DEF LoopInv, Looked, Ahead
    <3>2. PICK r \in Processes, q \in Processes :
            Serves(r, s) /\ pass[r].at <= By(s, 1) /\ Serves(q, s) /\ pass[q].at = begun
      BY <2>5, <3>1 DEF InHand
    <3>3. r # q
      BY <2>5, <3>2
    <3>4. PICK x \in {r, q} : x # p
      BY <3>3
    <3>5. Serves(x, s)' /\ pass'[x] = pass[x]
      BY <1>1, <3>2, <3>4 DEF Serves
    <3>6. pass[x].at <= By(s, 2)
      <4>1. pass[r].at \in Nat
        BY <3>2 DEF Serves, Claiming
      <4> QED
        BY <2>2, <2>3, <3>2, <3>4, <4>1
    <3> QED
      BY <2>2, <2>3, <3>5, <3>6 DEF InHand
  <2> QED
    BY <2>4, <2>5
<1> QED
  BY <1>3, <1>4 DEF LoopInv, Looked

LEMMA DeliverLooks ==
  ASSUME IInv, LoopInv, NEW p \in Processes, Deliver(p)
  PROVE  LoopInv'
<1>1. UNCHANGED <<now, row, edit, begun>> /\ pass' = [pass EXCEPT ![p] = NoPass]
  BY DEF Deliver
<1>2. CASE Spend("faults")
  BY <1>1, <1>2, FaultLooks
<1>3. CASE UNCHANGED left
  <2>1. pass'[p] = NoPass /\ \A q \in Processes : q # p => pass'[q] = pass[q]
    BY <1>1 DEF IInv, Types
  <2>2. pass[p] \notin Claiming
    BY PassShapes DEF Deliver
  <2>3. Paced'
    BY <1>1, <1>3, <2>1, LeavingPaced, PassShapes DEF LoopInv, Paced
  <2>4. ASSUME NEW s \in Int, Waiting(s)'
        PROVE  Ahead(s)' \/ InHand(s)'
    <3>1. Waiting(s) /\ By(s, 0)' = By(s, 0) /\ By(s, 1)' = By(s, 1)
      BY <1>1, <1>3, <2>4, WaitingSame, BySame
    <3>2. \A q \in Processes : Serves(q, s) => Serves(q, s)' /\ pass'[q] = pass[q]
      BY <2>1, <2>2 DEF Serves
    <3> QED
      BY <1>1, <3>1, <3>2 DEF LoopInv, Looked, Ahead, InHand
  <2> QED
    BY <2>3, <2>4 DEF LoopInv, Looked
<1> QED
  BY <1>2, <1>3 DEF Deliver

\* The slot of the tick that comes has its pass ahead.
LEMMA TickLooks ==
  ASSUME IInv, LoopInv, Tick
  PROVE  LoopInv'
<1>1. /\ now' = now + 1 /\ UNCHANGED <<row, pass, edit, begun, left>>
      /\ now - begun < MaxLag
      /\ \A p \in Processes : pass[p].pc = "claim" => now - pass[p].at < MaxLag
  BY DEF Tick
<1>2. Types /\ Paced /\ now \in Nat /\ begun \in Nat /\ begun <= now /\ MaxLag \in Nat
  BY ReportsAssumption DEF IInv, Types, LoopInv
<1>3. Paced'
  <2>1. ASSUME NEW p \in Processes, pass[p] \in Claiming
        PROVE  now + 1 <= pass[p].at + MaxLag
    <3>1. pass[p].pc = "claim" /\ pass[p].at \in Nat
      BY <2>1 DEF Claiming
    <3> QED
      BY <1>1, <1>2, <3>1
  <2>2. now + 1 <= begun + MaxLag
    BY <1>1, <1>2
  <2> QED
    BY <1>1, <1>2, <2>1, <2>2 DEF Paced
<1>4. ASSUME NEW s \in Int, Waiting(s)'
      PROVE  Ahead(s)' \/ InHand(s)'
  <2>1. /\ row.exists /\ row.enabled /\ s \in Slots(row.timing) /\ row.armed_at < s
        /\ s <= now + 1 /\ row.last_sent < s
    BY <1>1, <1>4 DEF Waiting
  <2>2. By(s, 0)' = By(s, 0) /\ By(s, 1)' = By(s, 1)
    BY <1>1, BySame
  <2>3. CASE s <= now
    <3>1. Waiting(s)
      BY <2>1, <2>3 DEF Waiting
    <3>2. \A q \in Processes : Serves(q, s)' <=> Serves(q, s)
      BY <1>1 DEF Serves
    <3> QED
      BY <1>1, <2>2, <3>1, <3>2 DEF LoopInv, Looked, Ahead, InHand
  <2>4. CASE ~(s <= now)
    <3>1. begun <= By(s, 0)
      BY <1>2, <2>4, ByBounds
    <3> QED
      BY <1>1, <2>2, <3>1 DEF Ahead
  <2> QED
    BY <2>3, <2>4
<1> QED
  BY <1>3, <1>4 DEF LoopInv, Looked

-----------------------------------------------------------------------------
(* The edits.                                                              *)

\* A step of the users adds no slot that waits.
LEMMA EditLooks ==
  ASSUME IInv, LoopInv, UNCHANGED <<now, pass, begun>>, left'.faults = left.faults,
         edit' # NoEdit =>
           edit'.timing = row'.timing /\ edit'.enabled = row'.enabled
           /\ edit'.armed_at = row'.armed_at,
         \A s \in Int : Waiting(s)' => Waiting(s)
  PROVE  LoopInv'
<1>1. Paced'
  BY DEF LoopInv, Paced
<1>2. ASSUME NEW s \in Int
      PROVE  (Ahead(s)' <=> Ahead(s)) /\ (InHand(s)' <=> InHand(s))
  <2>1. By(s, 0)' = By(s, 0) /\ By(s, 1)' = By(s, 1)
    BY DEF By
  <2>2. \A q \in Processes : Serves(q, s)' <=> Serves(q, s)
    BY DEF Serves
  <2> QED
    BY <2>1, <2>2 DEF Ahead, InHand
<1> QED
  BY <1>1, <1>2 DEF LoopInv, Looked

LEMMA ReadRowLooks ==
  ASSUME IInv, LoopInv, ReadRow
  PROVE  LoopInv'
<1>1. UNCHANGED <<now, row, pass, begun>> /\ left'.faults = left.faults
  BY DEF ReadRow, Spend, IInv, Types
<1>2. edit'.timing = row.timing /\ edit'.enabled = row.enabled /\ edit'.armed_at = row.armed_at
  BY DEF ReadRow
<1> QED
  BY <1>1, <1>2, EditLooks, WaitingSame

LEMMA RemoveRowLooks ==
  ASSUME IInv, LoopInv, RemoveRow
  PROVE  LoopInv'
<1>1. UNCHANGED <<now, edit, pass, begun>> /\ left'.faults = left.faults
  BY DEF RemoveRow, Spend, IInv, Types
<1>2. /\ row'.exists = FALSE /\ row'.timing = row.timing /\ row'.enabled = row.enabled
      /\ row'.armed_at = row.armed_at
  BY DEF RemoveRow, IInv, Types, Row
<1>3. \A s \in Int : ~Waiting(s)'
  BY <1>2 DEF Waiting
<1> QED
  BY <1>1, <1>2, <1>3, EditLooks DEF LoopInv, Paced

\* What is armed anew has no slot behind it.
LEMMA UpdateRowLooks ==
  ASSUME IInv, LoopInv, NEW timing \in Timings, NEW enabled \in BOOLEAN,
         UpdateRow(timing, enabled)
  PROVE  LoopInv'
<1> DEFINE retimed == edit.timing # timing \/ (~edit.enabled /\ enabled)
           armed == IF retimed THEN now ELSE edit.armed_at
<1>1. /\ UNCHANGED <<now, pass, begun, left>> /\ edit' = NoEdit /\ edit # NoEdit
      /\ row' = [row EXCEPT !.timing = timing, !.enabled = enabled, !.armed_at = armed]
  BY DEF UpdateRow, NoEdit
<1>2. /\ edit.timing = row.timing /\ edit.enabled = row.enabled /\ edit.armed_at = row.armed_at
  BY <1>1 DEF LoopInv, Paced
<1> HIDE DEF armed
<1>3. /\ row'.timing = timing /\ row'.enabled = enabled /\ row'.armed_at = armed
      /\ row'.exists = row.exists /\ row'.last_sent = row.last_sent
  BY <1>1 DEF IInv, Types, Row
<1>4. ASSUME NEW s \in Int, Waiting(s)'
      PROVE  Waiting(s)
  <2>1. /\ row.exists /\ enabled /\ s \in Slots(timing) /\ armed < s /\ s <= now
        /\ row.last_sent < s
    BY <1>1, <1>3, <1>4 DEF Waiting
  <2>2. now \in Nat
    BY DEF IInv, Types
  <2>3. armed # now
    BY <2>1, <2>2
  <2>4. ~retimed /\ armed = edit.armed_at
    BY <2>3 DEF armed
  <2> QED
    BY <1>2, <2>1, <2>4 DEF Waiting
<1> QED
  BY <1>1, <1>4, EditLooks

-----------------------------------------------------------------------------
LEMMA LoopStep ==
  ASSUME InTime, EndsWithinDate(Here), SeesGrace, IInv, LoopInv, [Next]_vars
  PROVE  LoopInv'
<1>1. CASE UNCHANGED vars
  <2>1. UNCHANGED <<now, row, pass, begun, edit, left>>
    BY <1>1 DEF vars
  <2> QED
    BY <2>1, EditLooks, WaitingSame DEF LoopInv, Paced
<1>2. ASSUME NEW p \in Processes, BeginPass(p) \/ Claim(p) \/ Deliver(p) \/ Crash(p)
      PROVE  LoopInv'
  <2>1. CASE Crash(p)
    BY <2>1, FaultLooks DEF Crash
  <2> QED
    BY <1>2, <2>1, BeginPassLooks, ClaimLooks, DeliverLooks
<1>3. CASE ReadRow \/ RemoveRow \/ Tick
  BY <1>3, ReadRowLooks, RemoveRowLooks, TickLooks
<1>4. ASSUME NEW timing \in Timings, NEW enabled \in BOOLEAN, UpdateRow(timing, enabled)
      PROVE  LoopInv'
  BY <1>4, UpdateRowLooks
<1> QED
  BY <1>1, <1>2, <1>3, <1>4 DEF Next

-----------------------------------------------------------------------------
(* Where a maintenance window opens.                                       *)

\* Of two instants at most, one is the earliest.
LEMMA EarliestOfTwo ==
  ASSUME NEW a \in Int, NEW b \in Int, NEW S \in SUBSET {a, b}, S # {}
  PROVE  Earliest(S) # {}
<1>1. PICK x \in S : \A y \in S : x <= y
  <2>1. CASE a \in S /\ b \in S
    BY <2>1
  <2>2. CASE a \notin S
    <3>1. S = {b}
      BY <2>2
    <3> QED
      BY <3>1
  <2>3. CASE b \notin S
    <3>1. S = {a}
      BY <2>3
    <3> QED
      BY <3>1
  <2> QED
    BY <2>1, <2>2, <2>3
<1> QED
  BY <1>1 DEF Earliest

LEMMA EarliestFound ==
  ASSUME NEW z \in Zone, NEW wall \in Int, Instants(z, wall) # {}
  PROVE  Earliest(Instants(z, wall)) # {}
<1>1. wall - z.base \in Int /\ wall - z.base - Hour \in Int
  BY ClockAssumption DEF Zone
<1>2. Instants(z, wall) \in SUBSET {wall - z.base, wall - z.base - Hour}
  BY DEF Instants
<1> QED
  BY <1>1, <1>2, EarliestOfTwo

\* Where the code opens a window: at its time by the summer clock, if that runs then, else
\* at its time by the winter clock, which in the missing hour is not when the clock goes on.
Start(z, W) ==
  IF z.from <= W - (z.base + Hour) /\ W - (z.base + Hour) < z.to
  THEN W - (z.base + Hour) ELSE W - z.base

LEMMA InstantIs ==
  ASSUME NEW z \in Zone, NEW W \in Int
  PROVE  /\ z.base \in Int /\ z.from \in Int /\ z.to \in Int /\ Hour \in Nat /\ Hour > 0
         /\ Instants(z, W) \subseteq {W - z.base, W - (z.base + Hour)}
         /\ W - z.base \in Instants(z, W) <=> ~(z.from <= W - z.base /\ W - z.base < z.to)
         /\ W - (z.base + Hour) \in Instants(z, W)
              <=> z.from <= W - (z.base + Hour) /\ W - (z.base + Hour) < z.to
<1>1. z.base \in Int /\ z.from \in Int /\ z.to \in Int /\ Hour \in Nat /\ Hour > 0
  BY ClockAssumption DEF Zone
<1>2. (W - z.base) - Hour = W - (z.base + Hour)
  BY <1>1
<1>3. Instants(z, W) = {t \in {W - z.base, W - (z.base + Hour)} : Local(z, t) = W}
  BY <1>2 DEF Instants
<1>4. Local(z, W - z.base) = W <=> ~(z.from <= W - z.base /\ W - z.base < z.to)
  BY <1>1 DEF Local, Offset
<1>5. Local(z, W - (z.base + Hour)) = W
        <=> z.from <= W - (z.base + Hour) /\ W - (z.base + Hour) < z.to
  BY <1>1 DEF Local, Offset
<1> QED
  BY <1>1, <1>3, <1>4, <1>5

LEMMA CodeOpens ==
  ASSUME NEW z \in Zone, NEW date \in Int, NEW minute \in Int
  PROVE  InstantAt(z, date, minute) = {Start(z, date * Day + minute)}
<1> DEFINE W == date * Day + minute
           at(h) == Earliest(Instants(z, date * Day + minute + h * Hour))
           found == {h \in 0..4 : at(h) # {}}
<1>1. /\ z.base \in Int /\ z.from \in Int /\ z.to \in Int
      /\ Hour \in Nat /\ Hour > 0 /\ Day \in Nat /\ W \in Int /\ W + Hour \in Int
  BY ClockAssumption DEF Zone
<1>2. at(0) = Earliest(Instants(z, W)) /\ at(1) = Earliest(Instants(z, W + Hour))
  <2>1. date * Day + minute + 0 * Hour = W /\ date * Day + minute + 1 * Hour = W + Hour
    BY <1>1
  <2> QED
    BY <2>1
<1>3. InstantAt(z, date, minute) = UNION {at(h) : h \in Earliest(found)}
  BY DEF InstantAt
<1> HIDE DEF W, at
<1>4. CASE Instants(z, W) # {}
  <2>1. at(0) # {}
    BY <1>1, <1>2, <1>4, EarliestFound
  <2>2. Earliest(found) = {0}
    BY <2>1 DEF Earliest
  <2>3. InstantAt(z, date, minute) = at(0)
    BY <1>3, <2>2
  <2>4. \A x \in at(0) : x = Start(z, W)
    <3>1. ASSUME NEW x \in at(0) PROVE x = Start(z, W)
      <4>1. x \in Instants(z, W) /\ \A y \in Instants(z, W) : x <= y
        BY <1>2 DEF Earliest
      <4> QED
        BY <1>1, <4>1, InstantIs DEF Start
    <3> QED
      BY <3>1
  <2> QED
    BY <2>1, <2>3, <2>4 DEF W
<1>5. CASE Instants(z, W) = {}
  <2>1. at(0) = {}
    BY <1>2, <1>5 DEF Earliest
  <2>2. /\ z.from <= W - z.base /\ W - z.base < z.to
        /\ ~(z.from <= W - (z.base + Hour) /\ W - (z.base + Hour) < z.to)
    BY <1>1, <1>5, InstantIs
  <2>3. (W + Hour) - (z.base + Hour) = W - z.base
    BY <1>1
  <2>4. W - z.base \in Instants(z, W + Hour)
    BY <1>1, <2>2, <2>3, InstantIs
  <2>5. at(1) # {}
    BY <1>1, <1>2, <2>4, EarliestFound
  <2>6. Earliest(found) = {1}
    BY <2>1, <2>5 DEF Earliest
  <2>7. InstantAt(z, date, minute) = at(1)
    BY <1>3, <2>6
  <2>8. \A x \in at(1) : x = W - z.base
    <3>1. ASSUME NEW x \in at(1) PROVE x = W - z.base
      <4>1. x \in Instants(z, W + Hour) /\ x <= W - z.base
        BY <1>2, <2>4 DEF Earliest
      <4>2. x \in {(W + Hour) - z.base, W - z.base}
        BY <1>1, <2>3, <4>1, InstantIs
      <4> QED
        BY <1>1, <4>1, <4>2
    <3> QED
      BY <3>1
  <2> QED
    BY <1>1, <2>2, <2>5, <2>7, <2>8 DEF Start, W
<1> QED
  BY <1>4, <1>5

\* The wall clock shows the hour of a window when it opens, or the next one in the gap of a
\* change of clocks; no offset but the winter one puts it later.
LEMMA OpensAt ==
  ASSUME NEW z \in Zone, NEW date \in Int, NEW minute \in Int,
         NEW start \in InstantAt(z, date, minute)
  PROVE  /\ start \in Int /\ start + z.base <= date * Day + minute
         /\ date * Day + minute <= Local(z, start)
<1> DEFINE W == date * Day + minute
<1>1. /\ z.base \in Int /\ z.from \in Int /\ z.to \in Int
      /\ Hour \in Nat /\ Hour > 0 /\ W \in Int
  BY ClockAssumption DEF Zone
<1>2. start = Start(z, W)
  BY CodeOpens
<1> HIDE DEF W
<1>3. start \in Int /\ start + z.base <= W /\ W <= Local(z, start)
  BY <1>1, <1>2 DEF Start, Local, Offset
<1> QED
  BY <1>3 DEF W

LEMMA LeastIs ==
  ASSUME NEW S, \A y \in S : y \in Int, NEW x \in S, \A y \in S : x <= y
  PROVE  Earliest(S) = {x}
<1>1. \A y \in Earliest(S) : y = x
  BY DEF Earliest
<1>2. x \in Earliest(S)
  BY DEF Earliest
<1> QED
  BY <1>1, <1>2

\* The reference opens a window in the missing hour when the clock goes on, any other one
\* where the code does.
LEMMA ReferenceOpens ==
  ASSUME NEW z \in Zone, NEW W \in Int
  PROVE  /\ Opening(z, W) = IF Skipped(z, W) THEN {z.from} ELSE {Start(z, W)}
         /\ Skipped(z, W) => /\ Behind(z, W) \in Nat
                             /\ Start(z, W) = z.from + Behind(z, W)
<1> DEFINE S == {t \in (W - z.base - Hour)..(W - z.base) : Local(z, t) >= W}
<1>1. /\ z.base \in Int /\ z.from \in Int /\ z.to \in Int
      /\ Hour \in Nat /\ Hour > 0
  BY ClockAssumption DEF Zone
<1>2. Skipped(z, W) <=> /\ z.from < z.to /\ z.from + z.base < W
                        /\ W < z.from + z.base + Hour
  BY <1>1 DEF Skipped, Behind
<1>3. \A t : t \in S <=> /\ t \in Int /\ W <= t + z.base + Hour /\ t + z.base <= W
                         /\ Local(z, t) >= W
  BY <1>1
<1> HIDE DEF S
<1>4. CASE Skipped(z, W)
  <2>1. z.from \in S
    BY <1>1, <1>2, <1>3, <1>4 DEF Local, Offset
  <2>2. \A t \in S : z.from <= t
    BY <1>1, <1>2, <1>3, <1>4 DEF Local, Offset
  <2>3. Earliest(S) = {z.from}
    BY <1>1, <1>3, <2>1, <2>2, LeastIs
  <2>4. Behind(z, W) \in Nat /\ Start(z, W) = z.from + Behind(z, W)
    BY <1>1, <1>2, <1>4 DEF Behind, Start
  <2> QED
    BY <1>4, <2>3, <2>4 DEF Opening, S
<1>5. CASE ~Skipped(z, W)
  <2>1. Start(z, W) \in S
    BY <1>1, <1>3 DEF Start, Local, Offset
  <2>2. \A t \in S : Start(z, W) <= t
    BY <1>1, <1>2, <1>3, <1>5 DEF Start, Local, Offset
  <2>3. Start(z, W) \in Int
    BY <1>1 DEF Start
  <2>4. Earliest(S) = {Start(z, W)}
    BY <1>3, <2>1, <2>2, <2>3, LeastIs
  <2> QED
    BY <1>5, <2>4 DEF Opening, S
<1> QED
  BY <1>4, <1>5

Recurring == Weekly \cup Monthly

LEMMA DurationPositive ==
  ASSUME NEW w \in Recurring
  PROVE  /\ Duration(w) \in Nat /\ Duration(w) > 0
         /\ w.kind # "once" /\ w.zone \in Zone /\ w.start \in Nat
<1>1. Day \in Nat
  BY ClockAssumption
<1>2. CASE w \in Weekly
  <2>1. /\ w.kind = "weekly" /\ w.zone \in Zone
        /\ w.start \in 0..(Day - 1) /\ w.end \in 0..(Day - 1)
    BY <1>2 DEF Weekly
  <2> QED
    BY <1>1, <2>1 DEF Duration
<1>3. CASE w \in Monthly
  <2>1. /\ w.kind = "monthly" /\ w.zone \in Zone /\ w.start \in 0..(Day - 1) /\ w.duration \in Nat
    BY <1>3 DEF Monthly
  <2> QED
    BY <1>1, <2>1 DEF Duration
<1> QED
  BY <1>2, <1>3 DEF Recurring

\* The search goes back far enough to find the date of a window that is open, and need not
\* look ahead.
LEMMA SearchReaches ==
  ASSUME NEW w \in Recurring, ~OnTheEdge(w), EndsWithinDate(w.zone), NEW date \in Int,
         NEW start \in InstantAt(w.zone, date, w.start), NEW t \in Int,
         start <= t, t < start + Duration(w)
  PROVE  date \in (DateOf(w.zone, t) - Back(w))..DateOf(w.zone, t) /\ Back(w) \in Nat
<1> DEFINE z == w.zone
           D == Duration(w)
           q == D \div Day
           r == D % Day
           today == DateOf(z, t)
<1>1. z \in Zone /\ D \in Nat /\ w.start \in Nat /\ w.kind # "once"
  BY DurationPositive
<1>2. Day \in Nat \ {0} /\ Hour \in Nat /\ z.base \in Int
  BY <1>1, ClockAssumption DEF Zone
<1>3. q \in Int /\ r \in Int /\ D = q * Day + r /\ 0 <= r /\ r < Day
  BY <1>1, <1>2, Quotient
<1>4. /\ start \in Int /\ start + z.base <= date * Day + w.start
      /\ date * Day + w.start <= Local(z, start)
  BY <1>1, OpensAt
<1>5. w.start + r + Hour <= 2 * Day
  <2>1. ~(w.start + r + Hour > 2 * Day)
    BY <1>1, Zenon DEF OnTheEdge
  <2>2. r \in Int /\ w.start \in Int /\ Hour \in Int /\ Day \in Int
    BY <1>1, <1>2, <1>3
  <2> HIDE DEF r
  <2> QED
    BY <2>1, <2>2
<1>6. Back(w) = q + 1
  BY DEF Back
<1>7. /\ Local(z, t) \in Int /\ Local(z, t) <= t + z.base + Hour /\ today \in Int
      /\ Local(z, start) \in Int /\ DateOf(z, start) \in Int
  BY <1>1, <1>4, LocalBounds
<1>8. DateOf(z, start) <= today
  BY <1>1, <1>4, DatesInOrder
<1>9. /\ today * Day <= Local(z, t)
      /\ Local(z, start) < DateOf(z, start) * Day + Day
  BY <1>2, <1>7, Quotient DEF DateOf
<1>10. t < start + D
  OBVIOUS
<1> HIDE DEF z, D, q, r, today
<1>11. q \in Nat
  BY <1>1, <1>2, <1>3
<1>12. date <= DateOf(z, start)
  <2>1. date * Day \in Int /\ DateOf(z, start) * Day \in Int /\ 0 * Day = 0
    BY <1>2, <1>7
  <2>2. date * Day < DateOf(z, start) * Day + Day + 0 * Day
    BY <1>1, <1>2, <1>4, <1>7, <1>9, <2>1
  <2>3. date <= DateOf(z, start) + 0
    BY <1>2, <1>7, <2>2, QuotientBound
  <2> QED
    BY <1>7, <2>3
<1>13. today <= date + (q + 1)
  <2>1. date * Day \in Int /\ q * Day \in Int /\ today * Day \in Int
        /\ (q + 1) * Day = q * Day + Day
    BY <1>2, <1>7, <1>11
  <2>2. Local(z, t) < start + D + z.base + Hour
    BY <1>1, <1>2, <1>4, <1>7, <1>10
  <2>3. today * Day < date * Day + w.start + q * Day + r + Hour
    BY <1>1, <1>2, <1>3, <1>4, <1>7, <1>9, <2>1, <2>2
  <2>4. today * Day < date * Day + Day + (q + 1) * Day
    BY <1>1, <1>2, <1>3, <1>5, <2>1, <2>3
  <2>5. q + 1 \in Nat
    BY <1>11
  <2> QED
    BY <1>2, <1>7, <2>4, <2>5, QuotientBound
<1>14. today - Back(w) <= date /\ date <= today
  BY <1>6, <1>7, <1>8, <1>11, <1>12, <1>13
<1> QED
  BY <1>6, <1>7, <1>11, <1>14 DEF z, today

-----------------------------------------------------------------------------
(* Which dates a window opens on.                                          *)

\* A multiple more leaves the remainder.
LEMMA RemainderShift ==
  ASSUME NEW x \in Int, NEW y \in Int, NEW m \in Nat \ {0}, NEW k \in Int, x - y = k * m
  PROVE  x % m = y % m /\ (x - y) % m = 0
<1>1. x % m = y % m
  <2> DEFINE a == y \div m
             r == y % m
  <2>1. a \in Int /\ r \in Int /\ y = a * m + r /\ 0 <= r /\ r < m
    BY Quotient
  <2> HIDE DEF a, r
  <2>2. a * m \in Int /\ k * m \in Int /\ (a + k) * m = a * m + k * m /\ a + k \in Int
    BY <2>1
  <2>3. x = (a + k) * m + r
    BY <2>1, <2>2
  <2>4. x \div m = a + k
    BY <2>1, <2>2, <2>3, QuotientIs
  <2>5. x % m = r
    BY <2>1, <2>2, <2>3, <2>4, Quotient
  <2> QED
    BY <2>5 DEF r
<1>2. (x - y) % m = 0
  <2> DEFINE e == x - y
  <2>1. e \in Int /\ e = k * m
    OBVIOUS
  <2> HIDE DEF e
  <2>2. e \div m = k
    BY <2>1, QuotientIs
  <2>3. e % m = 0
    BY <2>1, <2>2, Quotient
  <2> QED
    BY <2>3 DEF e
<1> QED
  BY <1>1, <1>2

\* Equal remainders.
LEMMA SameRemainder ==
  ASSUME NEW x \in Int, NEW y \in Int, NEW m \in Nat \ {0}
  PROVE  /\ x % m = y % m => \E k \in Int : x - y = k * m
         /\ x % m = y % m <=> (x - y) % m = 0
<1>1. ASSUME x % m = y % m
      PROVE  \E k \in Int : x - y = k * m
  <2> DEFINE a == x \div m
             b == y \div m
             r == y % m
  <2>1. a \in Int /\ b \in Int /\ r \in Int /\ x = a * m + r /\ y = b * m + r
    BY <1>1, Quotient
  <2> HIDE DEF a, b, r
  <2>2. x - y = (a - b) * m /\ a - b \in Int
    BY <2>1
  <2> QED
    BY <2>2
<1>2. ASSUME (x - y) % m = 0
      PROVE  x % m = y % m
  <2> DEFINE e == x - y
             k == e \div m
  <2>1. e \in Int /\ e % m = 0
    BY <1>2
  <2>2. k \in Int /\ e = k * m + 0
    BY <2>1, Quotient
  <2> HIDE DEF k
  <2>3. x - y = k * m
    BY <2>2
  <2> QED
    BY <2>2, <2>3, RemainderShift
<1>3. ASSUME x % m = y % m
      PROVE  (x - y) % m = 0
  <2>1. PICK k \in Int : x - y = k * m
    BY <1>1, <1>3
  <2> QED
    BY <2>1, RemainderShift
<1> QED
  BY <1>1, <1>2, <1>3

\* The same date of the week within one month, counted from date backwards.
LEMMA SistersBefore ==
  ASSUME NEW date \in Int
  PROVE  {d \in Sisters(date) : d <= date}
           = {date - k * Week : k \in 0..((date % Month) \div Week)}
<1> DEFINE m == date \div Month
           r == date % Month
           j == r \div Week
<1>1. Week \in Nat \ {0} /\ Month \in Nat \ {0}
  BY ClockAssumption
<1>2. m \in Int /\ r \in Int /\ date = m * Month + r /\ 0 <= r /\ r < Month
  BY <1>1, Quotient
<1>3. j \in Int /\ j * Week <= r /\ r < j * Week + Week
  BY <1>1, <1>2, Quotient
<1>4. \A d : d \in Sisters(date) <=>
         d \in (date - Month)..(date + Month) /\ d \div Month = m /\ d % Week = date % Week
  BY DEF Sisters, MonthOf, Weekday
<1> HIDE DEF m, r, j
<1>5. m * Month \in Int
  BY <1>1, <1>2
<1>6. ASSUME NEW k \in 0..j
      PROVE  date - k * Week \in Sisters(date) /\ date - k * Week <= date
  <2>1. k \in Nat /\ k * Week \in Nat /\ k * Week <= j * Week
    BY <1>1, <1>3
  <2> DEFINE d == date - k * Week
  <2>2. d \in Int /\ m * Month <= d /\ d <= date /\ d < m * Month + Month
    BY <1>1, <1>2, <1>3, <1>5, <2>1
  <2>3. d \div Month = m
    BY <1>1, <1>2, <2>2, QuotientIs
  <2>4. date - d = k * Week
    BY <2>1
  <2> HIDE DEF d
  <2>5. date % Week = d % Week
    <3>1. k \in Int
      OBVIOUS
    <3> QED
      BY <1>1, <2>2, <2>4, <3>1, RemainderShift, Zenon
  <2>6. d \in (date - Month)..(date + Month)
    BY <1>1, <1>2, <1>5, <2>2
  <2> QED
    BY <1>4, <2>2, <2>3, <2>5, <2>6 DEF d
<1>7. ASSUME NEW d \in Sisters(date), d <= date
      PROVE  \E k \in 0..j : d = date - k * Week
  <2>1. d \in Int /\ d \div Month = m /\ date % Week = d % Week
    BY <1>1, <1>4
  <2>2. PICK k \in Int : date - d = k * Week
    BY <1>1, <2>1, SameRemainder
  <2>3. m * Month <= d
    BY <1>1, <2>1, Quotient
  <2>4. 0 <= k * Week /\ k * Week <= r /\ k * Week \in Int
    BY <1>1, <1>2, <1>5, <1>7, <2>1, <2>2, <2>3
  <2>5. 0 <= k
    BY <1>1, <2>4
  <2>6. k <= j
    <3>1. j * Week \in Int /\ 0 * Week = 0
      BY <1>1, <1>3
    <3>2. k * Week < j * Week + Week + 0 * Week
      BY <1>1, <1>2, <1>3, <2>4, <3>1
    <3>3. k <= j + 0
      BY <1>1, <1>3, <3>2, QuotientBound
    <3> QED
      BY <1>3, <3>3
  <2>7. d = date - k * Week
    BY <2>1, <2>2, <2>4
  <2> QED
    BY <1>3, <2>5, <2>6, <2>7
<1>8. {d \in Sisters(date) : d <= date} = {date - k * Week : k \in 0..j}
  BY <1>6, <1>7
<1> QED
  BY <1>8 DEF j, r

\* Counting them is dividing.
LEMMA SistersCounted ==
  ASSUME NEW date \in Int
  PROVE  Cardinality({d \in Sisters(date) : d <= date}) = ((DayOfMonth(date) - 1) \div Week) + 1
<1> DEFINE j == (date % Month) \div Week
           S == 0..j
           T == {date - k * Week : k \in S}
           f == [k \in S |-> date - k * Week]
<1>1. Week \in Nat \ {0} /\ Month \in Nat \ {0}
  BY ClockAssumption
<1>2. date % Month \in Int /\ 0 <= date % Month
  BY <1>1, Quotient
<1>3. j \in Nat
  <2>1. 0 <= date % Month => 0 \div Week <= (date % Month) \div Week
    BY <1>1, <1>2, QuotientSteps
  <2>2. 0 \div Week = 0
    BY <1>1, QuotientIs
  <2>3. j \in Int
    BY <1>1, <1>2, Quotient
  <2> QED
    BY <1>2, <2>1, <2>2, <2>3
<1>4. DayOfMonth(date) - 1 = date % Month
  BY <1>2 DEF DayOfMonth
<1> HIDE DEF j
<1>5. \A k, l \in S : date - k * Week = date - l * Week => k = l
  BY <1>1, <1>3
<1>6. f \in Bijection(S, T)
  <2>1. f \in [S -> T] /\ \A k \in S : f[k] = date - k * Week
    OBVIOUS
  <2>2. \A k, l \in S : f[k] = f[l] => k = l
    BY <1>5, <2>1
  <2>3. \A x \in T : \E k \in S : f[k] = x
    BY <2>1
  <2> HIDE DEF f, T
  <2> QED
    BY <2>1, <2>2, <2>3 DEF Bijection, Injection, Surjection, IsInjective
<1>7. ExistsBijection(S, T)
  BY <1>6 DEF ExistsBijection
<1>8. IsFiniteSet(S) /\ Cardinality(S) = j + 1
  BY <1>3, FS_Interval
<1>9. Cardinality(T) = j + 1
  BY <1>7, <1>8, FS_Bijection
<1>10. {d \in Sisters(date) : d <= date} = T
  BY SistersBefore DEF j
<1> QED
  BY <1>4, <1>9, <1>10 DEF j

\* A date is the last of its kind in its month if a week later it is another month.
LEMMA LastSister ==
  ASSUME NEW date \in Int
  PROVE  (\A d \in Sisters(date) : d <= date) <=> MonthOf(date + Week) # MonthOf(date)
<1>1. Week \in Nat \ {0} /\ Month \in Nat \ {0} /\ date + Week \in Int
  BY ClockAssumption
<1>2. ASSUME MonthOf(date + Week) = MonthOf(date)
      PROVE  date + Week \in Sisters(date) /\ ~(date + Week <= date)
  <2> DEFINE m == date \div Month
  <2>1. /\ m \in Int /\ m * Month \in Int /\ m * Month <= date /\ date + Week < m * Month + Month
    <3>1. m \in Int /\ m * Month <= date
      BY <1>1, Quotient
    <3>2. (date + Week) \div Month = m
      BY <1>2 DEF MonthOf
    <3>3. date + Week < m * Month + Month
      BY <1>1, <3>2, Quotient
    <3> QED
      BY <1>1, <3>1, <3>3
  <2> HIDE DEF m
  <2>2. date + Week \in (date - Month)..(date + Month)
    BY <1>1, <2>1
  <2>3. (date + Week) - date = 1 * Week
    BY <1>1
  <2>4. (date + Week) % Week = date % Week
    <3>1. 1 \in Int
      OBVIOUS
    <3> QED
      BY <1>1, <2>3, <3>1, RemainderShift, Zenon
  <2> QED
    BY <1>1, <1>2, <2>2, <2>4 DEF Sisters, Weekday
<1>3. ASSUME NEW d \in Sisters(date), ~(d <= date)
      PROVE  MonthOf(date + Week) = MonthOf(date)
  <2>1. d \in Int /\ MonthOf(d) = MonthOf(date) /\ d % Week = date % Week
    BY <1>1 DEF Sisters, Weekday
  <2>2. PICK k \in Int : d - date = k * Week
    BY <1>1, <2>1, SameRemainder
  <2>3. 0 < k * Week
    BY <1>3, <2>1, <2>2
  <2>4. k >= 1
    BY <1>1, <2>3
  <2>5. Week <= k * Week
    BY <1>1, <2>4
  <2>6. date <= date + Week /\ date + Week <= d
    BY <1>1, <2>1, <2>2, <2>5
  <2>7. /\ date \div Month \in Int /\ d \div Month \in Int /\ (date + Week) \div Month \in Int
    BY <1>1, <2>1, Quotient
  <2>8. date \div Month <= (date + Week) \div Month /\ (date + Week) \div Month <= d \div Month
    BY <1>1, <2>1, <2>6, QuotientSteps
  <2> QED
    BY <2>1, <2>7, <2>8 DEF MonthOf
<1> QED
  BY <1>2, <1>3

\* The two ways to read a recurrence agree.
LEMMA SelectsFalls ==
  ASSUME NEW w \in Recurring, NEW date \in Int
  PROVE  Selects(w, date) <=> Falls(w, date)
<1>1. Week \in Nat \ {0} /\ Month \in Nat \ {0}
  BY ClockAssumption
<1>2. CASE w \in Weekly
  <2>1. w.kind = "weekly" /\ w.days \in SUBSET (0..(Week - 1))
    BY <1>2 DEF Weekly
  <2>2. ASSUME NEW d \in w.days
        PROVE  date % Week = d <=> (date - d) % Week = 0
    <3>1. d \in Int /\ 0 <= d /\ d < Week /\ 0 * Week = 0
      BY <1>1, <2>1
    <3>2. d \div Week = 0
      BY <1>1, <3>1, QuotientIs
    <3>3. d % Week = d
      BY <1>1, <3>1, <3>2, Quotient
    <3>4. date % Week = d % Week <=> (date - d) % Week = 0
      BY <1>1, <3>1, SameRemainder, Zenon
    <3> QED
      BY <3>3, <3>4, Zenon
  <2> QED
    BY <2>1, <2>2 DEF Selects, Falls, Weekday
<1>3. CASE w \in Monthly
  <2>1. w.kind = "monthly" /\ w.days \in SUBSET (1..Month) /\ w.nths \in SUBSET NthWeekday
    BY <1>3 DEF Monthly
  <2>2. ASSUME NEW d \in w.days
        PROVE  DayOfMonth(date) = d <=> (date + 1 - d) % Month = 0
    <3> DEFINE e == d - 1
    <3>1. d \in Int /\ e \in Int /\ 0 <= e /\ e < Month /\ 0 * Month = 0
      BY <1>1, <2>1
    <3>2. e \div Month = 0
      BY <1>1, <3>1, QuotientIs
    <3>3. e % Month = e
      BY <1>1, <3>1, <3>2, Quotient
    <3>4. date % Month = e <=> (date - e) % Month = 0
      <4>1. date % Month = e % Month <=> (date - e) % Month = 0
        BY <1>1, <3>1, SameRemainder, Zenon
      <4> QED
        BY <3>3, <4>1, Zenon
    <3>5. date - e = date + 1 - d
      BY <3>1
    <3>6. date % Month \in Int
      BY <1>1, Quotient
    <3>7. DayOfMonth(date) = d <=> date % Month = e
      BY <3>1, <3>6 DEF DayOfMonth
    <3> QED
      BY <3>4, <3>5, <3>7
  <2>3. ASSUME NEW n \in w.nths
        PROVE  NthMatches(date, n) <=> IsNth(date, n)
    BY SistersCounted, LastSister DEF NthMatches, IsNth
  <2> QED
    BY <2>1, <2>2, <2>3 DEF Selects, Falls
<1> QED
  BY <1>2, <1>3 DEF Recurring

-----------------------------------------------------------------------------
(* Windows.                                                                *)

\* Clocks are within a day of UTC (offset_minutes.clamp keeps them within fourteen hours).
NearUTC(z) == -Day <= z.base /\ z.base + Hour <= Day

\* The dates the reference looks at are enough.
LEMMA ReferenceReaches ==
  ASSUME NEW z \in Zone, NearUTC(z), NEW t \in Int
  PROVE  /\ t \div Day \in Int /\ DateOf(z, t) \in Int
         /\ (t \div Day) - 1 <= DateOf(z, t) /\ DateOf(z, t) <= (t \div Day) + 1
<1>1. Day \in Nat \ {0} /\ z.base \in Int /\ Hour \in Nat /\ 1 * Day = Day
  BY ClockAssumption DEF Zone
<1>2. /\ Local(z, t) \in Int /\ t + z.base <= Local(z, t) /\ Local(z, t) <= t + z.base + Hour
      /\ DateOf(z, t) \in Int
  BY LocalBounds
<1>3. t <= Local(z, t) + 1 * Day /\ Local(z, t) <= t + 1 * Day
  BY <1>1, <1>2 DEF NearUTC
<1>4. /\ t \div Day <= (Local(z, t) \div Day) + 1
      /\ Local(z, t) \div Day <= (t \div Day) + 1
  BY <1>1, <1>2, <1>3, QuotientSteps
<1>5. t \div Day \in Int
  BY <1>1, Quotient
<1> QED
  BY <1>2, <1>4, <1>5 DEF DateOf

\* What the code's opening and the reference's contain is the same, but for what is disputed.
LEMMA SameTime ==
  ASSUME NEW w \in Recurring, NEW t \in Int, ~Disputed(w, t),
         NEW date \in Around(w, t), date \in Int, Falls(w, date)
  PROVE  (\E start \in InstantAt(w.zone, date, w.start) : start <= t /\ t < start + Duration(w))
           <=> (\E o \in Openings(w, date) : t \in o..(o + Duration(w) - 1))
<1> DEFINE z == w.zone
           D == Duration(w)
           W == date * Day + w.start
<1>1. z \in Zone /\ D \in Nat /\ w.start \in Nat /\ w.kind # "once"
  BY DurationPositive
<1>2. z.base \in Int /\ z.from \in Int /\ Hour \in Nat /\ Day \in Nat /\ W \in Int
  BY <1>1, ClockAssumption DEF Zone
<1>3. InstantAt(z, date, w.start) = {Start(z, W)} /\ Start(z, W) \in Int
  BY <1>1, <1>2, CodeOpens DEF Start
<1>4. Openings(w, date) = Opening(z, W)
  BY DEF Openings
<1>5. /\ Opening(z, W) = IF Skipped(z, W) THEN {z.from} ELSE {Start(z, W)}
      /\ Skipped(z, W) => Behind(z, W) \in Nat /\ Start(z, W) = z.from + Behind(z, W)
  BY <1>1, <1>2, ReferenceOpens
<1>6. Skipped(z, W) => \A o \in Openings(w, date) :
          /\ ~(t - o \in 0..(Behind(z, W) - 1))
          /\ ~(t - (o + D) \in 0..(Behind(z, W) - 1))
  BY <1>1 DEF Disputed
<1> HIDE DEF z, D, W
<1>7. CASE Skipped(z, W)
  <2> DEFINE late == Behind(z, W)
  <2>1. late \in Nat /\ Start(z, W) = z.from + late /\ Openings(w, date) = {z.from}
    BY <1>4, <1>5, <1>7
  <2>2. ~(t - z.from \in 0..(late - 1)) /\ ~(t - (z.from + D) \in 0..(late - 1))
    BY <1>6, <1>7, <2>1
  <2> HIDE DEF late
  <2>3. (z.from + late <= t /\ t < z.from + late + D) <=> t \in z.from..(z.from + D - 1)
    BY <1>1, <1>2, <2>1, <2>2
  <2> QED
    BY <1>3, <2>1, <2>3 DEF z, D
<1>8. CASE ~Skipped(z, W)
  <2>1. Openings(w, date) = {Start(z, W)}
    BY <1>4, <1>5, <1>8
  <2>2. (Start(z, W) <= t /\ t < Start(z, W) + D) <=> t \in Start(z, W)..(Start(z, W) + D - 1)
    BY <1>1, <1>3
  <2> QED
    BY <1>3, <2>1, <2>2 DEF z, D
<1> QED
  BY <1>7, <1>8

LEMMA WindowExact ==
  ASSUME NEW w \in Once \cup Weekly \cup Monthly, ~OnTheEdge(w),
         w.kind # "once" => EndsWithinDate(w.zone) /\ NearUTC(w.zone),
         NEW t \in Int, ~Disputed(w, t)
  PROVE  Covers(w, t) <=> Open(w, t)
<1>1. CASE w \in Once
  BY <1>1 DEF Once, Covers, Open
<1>2. CASE w \in Recurring
  <2> DEFINE z == w.zone
             D == Duration(w)
             today == DateOf(z, t)
  <2>1. z \in Zone /\ D \in Nat /\ w.start \in Nat /\ w.kind # "once"
    BY <1>2, DurationPositive
  <2>2. /\ t \div Day \in Int /\ today \in Int
        /\ (t \div Day) - 1 <= today /\ today <= (t \div Day) + 1
    BY <2>1, ReferenceReaches
  <2>3. D \div Day \in Int
    BY <2>1, Quotient, ClockAssumption
  <2>4. Covers(w, t) <=>
          \E date \in (today - Back(w))..today : Selects(w, date)
            /\ \E start \in InstantAt(z, date, w.start) : start <= t /\ t < start + D
    BY <2>1 DEF Covers, Covering
  <2>5. Open(w, t) <=>
          \E date \in Around(w, t) : \E o \in Openings(w, date) : t \in o..(o + D - 1)
    BY <2>1 DEF Open
  <2>6. Back(w) = D \div Day + 1 /\ Back(w) \in Int /\ Around(w, t) \subseteq Int
    BY <2>2, <2>3 DEF Back, Around
  <2>7. ASSUME NEW date \in (today - Back(w))..today
        PROVE  date \in Around(w, t)
    <3>1. /\ date \in Int /\ today - Back(w) <= date /\ date <= today
      BY <2>2, <2>6
    <3> QED
      BY <2>2, <2>3, <2>6, <3>1 DEF Around
  <2>8. ASSUME NEW date \in Int, NEW start \in InstantAt(z, date, w.start),
               start <= t, t < start + D
        PROVE  date \in (today - Back(w))..today
    BY <1>2, <2>1, <2>8, SearchReaches
  <2>9. ASSUME NEW date \in Around(w, t), date \in Int, Falls(w, date)
        PROVE  (\E start \in InstantAt(z, date, w.start) : start <= t /\ t < start + D)
                 <=> (\E o \in Openings(w, date) : t \in o..(o + D - 1))
    BY <1>2, <2>9, SameTime
  <2> HIDE DEF z, D, today
  <2>10. ASSUME NEW date \in (today - Back(w))..today, Selects(w, date),
                \E start \in InstantAt(z, date, w.start) : start <= t /\ t < start + D
         PROVE  Open(w, t)
    <3>1. date \in Int /\ date \in Around(w, t)
      BY <2>2, <2>6, <2>7
    <3>2. Falls(w, date)
      BY <1>2, <2>10, <3>1, SelectsFalls
    <3> QED
      BY <2>5, <2>9, <2>10, <3>1, <3>2
  <2>11. ASSUME NEW date \in Around(w, t), \E o \in Openings(w, date) : t \in o..(o + D - 1)
         PROVE  Covers(w, t)
    <3>1. date \in Int
      BY <2>6
    <3>2. Falls(w, date)
      BY <2>11 DEF Openings
    <3>3. Selects(w, date)
      BY <1>2, <3>1, <3>2, SelectsFalls
    <3>4. PICK start \in InstantAt(z, date, w.start) : start <= t /\ t < start + D
      BY <2>9, <2>11, <3>1, <3>2
    <3>5. date \in (today - Back(w))..today
      BY <2>8, <3>1, <3>4
    <3> QED
      BY <2>4, <3>3, <3>4, <3>5
  <2> QED
    BY <2>4, <2>5, <2>10, <2>11
<1> QED
  BY <1>1, <1>2 DEF Recurring

-----------------------------------------------------------------------------
(* The theorems.                                                           *)

\* Every variable keeps its type; a process only ever claims a slot that had begun when it
\* read the clock and was within the time of grace, and only sends one that the row says
\* was claimed (reports/schedule.rs due_slot, reports/store.rs claim).
THEOREM TypeCorrect == Spec => []TypeOK
<1>1. ASSUME IInv PROVE TypeOK
  <2>1. ASSUME NEW p \in Processes
        PROVE  \/ pass[p] = NoPass
               \/ /\ pass[p] \in [pc : {"claim"}, at : 0..now, slot : 0..now]
                  /\ pass[p].slot <= pass[p].at /\ pass[p].at - pass[p].slot <= Grace
               \/ pass[p] \in [pc : {"deliver"}, slot : 0..now] /\ pass[p].slot <= row.last_sent
    <3>1. pass[p] = NoPass \/ pass[p] \in Claiming \/ pass[p] \in Delivering
      BY <1>1 DEF IInv, Types
    <3>2. CASE pass[p] \in Claiming
      BY <1>1, <3>2 DEF IInv, Types, ClaimsBegun, Claiming
    <3>3. CASE pass[p] \in Delivering
      BY <1>1, <3>3 DEF IInv, Types, ClaimedBefore, Delivering, Row
    <3> QED
      BY <3>1, <3>2, <3>3
  <2>2. sent \subseteq 0..now /\ again \subseteq sent
    BY <1>1 DEF IInv, Types, ClaimedBefore, Row
  <2> QED
    BY <1>1, <2>1, <2>2, ReportsAssumption DEF IInv, Types, TypeOK
<1> QED
  BY <1>1, AlwaysIInv, PTL

\* No slot of a schedule is sent twice, by however many servers on one database, and
\* whatever is edited, fails or crashes: the conditional UPDATE of claim moves the date of
\* the last report past everything that was sent or is being sent.
THEOREM NeverSentTwice == Spec => []SentOnce
<1>1. IInv => SentOnce
  BY DEF IInv, SentOnce
<1> QED
  BY <1>1, AlwaysIInv, PTL

\* No slot of a schedule is passed over: by the end of its time of grace it was claimed,
\* whatever the zone and the timing, past midnight and through changes of the clocks, with
\* however many servers, and whatever is edited or crashes meanwhile (reports/schedule.rs
\* latest_slot and due_slot, reports/store.rs claim).  It takes three facts about the
\* constants: the time of grace has room for a pass per fault, latest_slot goes back
\* further than the time of grace, and summer time does not end around midnight.
THEOREM NeverMissed ==
  InTime /\ EndsWithinDate(Here) /\ SeesGrace => (Spec => []NoSlotMissed)
<1> SUFFICES ASSUME InTime, EndsWithinDate(Here), SeesGrace PROVE Spec => []NoSlotMissed
  OBVIOUS
<1>1. ASSUME IInv, LoopInv
      PROVE  NoSlotMissed
  <2>1. SUFFICES ASSUME row.exists, row.enabled, NEW s \in Slots(row.timing),
                        s > row.armed_at, now - s > Grace
                 PROVE  row.last_sent >= s
    BY DEF NoSlotMissed
  <2>2. /\ row.timing \in Timing /\ now \in Nat /\ row.last_sent \in Int /\ Grace \in Nat
    BY <1>1, ReportsAssumption DEF IInv, Types, Row
  <2>3. s \in Int
    <3>1. MaxNow \div Day \in Int
      BY ClockAssumption, ReportsAssumption
    <3> QED
      BY <2>2, <3>1, SlotOnDate DEF Slots
  <2>4. ~Waiting(s)
    BY <1>1, <2>1, <2>2, <2>3, StillTime, ByBounds DEF IInv, LoopInv
  <2> QED
    BY <2>1, <2>2, <2>3, <2>4 DEF Waiting
<1>2. IInv /\ LoopInv /\ [Next]_vars => LoopInv'
  BY LoopStep
<1> QED
  BY <1>1, <1>2, LoopInit, AlwaysIInv, PTL DEF Spec

\* The clocks of the windows users have set.
RegularZones ==
  \A w \in Windows : w.kind # "once" => EndsWithinDate(w.zone) /\ NearUTC(w.zone)

\* A maintenance window covers the time from its opening to the end of its duration and
\* nothing else, for every window and every calendar, over midnight and through changes of
\* the clocks (alerting/silence.rs window_containing, selects, instant_at).  Clocks are
\* within a day of UTC and do not go back over midnight; the windows OnTheEdge are left out,
\* and so are, of a window that begins within the missing hour, the instants by which the
\* code opens and closes it later than its documents say.
THEOREM WindowsCoverTheirTime == RegularZones => (Spec => []WindowsComplete)
<1> SUFFICES ASSUME RegularZones PROVE Spec => []WindowsComplete
  OBVIOUS
<1>1. ASSUME IInv PROVE WindowsComplete
  <2>1. now \in 0..MaxNow /\ now \in Int
    BY <1>1, ReportsAssumption DEF IInv, Types
  <2>2. ASSUME NEW w \in Windows
        PROVE  OnTheEdge(w) \/ Disputed(w, now) \/ (Covers(w, now) <=> Open(w, now))
    BY <2>1, WindowsAssumption, WindowExact DEF RegularZones
  <2> DEFINE good(t) == \A w \in Windows :
                         OnTheEdge(w) \/ Disputed(w, t) \/ (Covers(w, t) <=> Open(w, t))
  <2>3. good(now) = TRUE
    BY <2>2
  <2>4. Agreement = {<<t, good(t)>> : t \in 0..MaxNow}
    BY DEF Agreement
  <2>5. <<now, good(now)>> \in Agreement
    BY <2>1, <2>4
  <2> HIDE DEF good
  <2> QED
    BY <2>3, <2>5 DEF WindowsComplete
<1> QED
  BY <1>1, AlwaysIInv, PTL
=============================================================================
