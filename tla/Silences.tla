------------------------------ MODULE Silences ------------------------------
(***************************************************************************)
(* The recurring windows of server/src/alerting/silence.rs: a date that    *)
(* the recurrence selects, a wall clock time at which the window opens,    *)
(* and a duration that elapses in absolute time.                           *)
(***************************************************************************)
EXTENDS WallClock

Once == [kind : {"once"}, starts_at : Int, ends_at : Int]

Weekly ==
  [kind : {"weekly"}, days : SUBSET (0..(Week - 1)), start : 0..(Day - 1), end : 0..(Day - 1),
   zone : Zone]

NthWeekday == [nth : Int, weekday : 0..(Week - 1)]

Monthly ==
  [kind : {"monthly"}, days : SUBSET (1..Month), nths : SUBSET NthWeekday,
   start : 0..(Day - 1), duration : Nat, zone : Zone]

Duration(s) ==
  CASE s.kind = "once"    -> s.ends_at - s.starts_at
    [] s.kind = "weekly"  -> IF s.end > s.start THEN s.end - s.start ELSE Day - s.start + s.end
    [] s.kind = "monthly" -> IF s.duration = 0 THEN 1 ELSE s.duration

\* Mutant: a week of the month begins on the weekday of its first day.
NthMatchesRounded(date, n) ==
  Weekday(date) = n.weekday /\ DayOfMonth(date) \div Week + 1 = n.nth

\* The n-th such weekday of its month, or the last one.
NthMatches(date, n) ==
  /\ Weekday(date) = n.weekday
  /\ IF n.nth > 0 THEN (DayOfMonth(date) - 1) \div Week + 1 = n.nth
     ELSE MonthOf(date + Week) # MonthOf(date)

Selects(s, date) ==
  CASE s.kind = "weekly"  -> Weekday(date) \in s.days
    [] s.kind = "monthly" -> \/ DayOfMonth(date) \in s.days
                             \/ \E n \in s.nths : NthMatches(date, n)

\* instant_at: to a time that does not exist whole hours are added until it does.  Only a
\* window that begins with the missing hour thus opens when the clock goes on.
InstantAt(z, date, minute) ==
  LET at(h) == Earliest(Instants(z, date * Day + minute + h * Hour))
      found == {h \in 0..4 : at(h) # {}}
  IN UNION {at(h) : h \in Earliest(found)}

\* How many days ago a window that is still open may have begun.
Back(s) == Duration(s) \div Day + 1

\* window_containing, for the recurring windows.
Covering(s, t) ==
  LET today == DateOf(s.zone, t)
  IN {start \in UNION {InstantAt(s.zone, date, s.start) :
                         date \in {d \in (today - Back(s))..today : Selects(s, d)}} :
        start <= t /\ t < start + Duration(s)}

\* covers
Covers(s, t) ==
  IF s.kind = "once" THEN s.starts_at <= t /\ t < s.ends_at ELSE Covering(s, t) # {}

-----------------------------------------------------------------------------
(* The reference: every occurrence there is, by counting.                  *)

Sisters(date) == {d \in (date - Month)..(date + Month) :
                    MonthOf(d) = MonthOf(date) /\ Weekday(d) = Weekday(date)}

IsNth(date, n) ==
  /\ Weekday(date) = n.weekday
  /\ IF n.nth > 0 THEN Cardinality({d \in Sisters(date) : d <= date}) = n.nth
     ELSE \A d \in Sisters(date) : d <= date

Falls(s, date) ==
  CASE s.kind = "weekly"  -> \E d \in s.days : (date - d) % Week = 0
    [] s.kind = "monthly" -> \/ \E d \in s.days : (date + 1 - d) % Month = 0
                             \/ \E n \in s.nths : IsNth(date, n)

\* The first instant at which the wall clock shows this time, or a later one.
Opening(z, wall) == Earliest({t \in (wall - z.base - Hour)..(wall - z.base) : Local(z, t) >= wall})

\* More dates than a window that is open may have begun on.
Around(s, t) == (t \div Day - Duration(s) \div Day - 4)..(t \div Day + 2)

Openings(s, date) == IF Falls(s, date) THEN Opening(s.zone, date * Day + s.start) ELSE {}

\* The window opened at its wall clock time and its duration has not elapsed.
Open(s, t) ==
  IF s.kind = "once" THEN t \in s.starts_at..(s.ends_at - 1)
  ELSE \E date \in Around(s, t) : \E o \in Openings(s, date) : t \in o..(o + Duration(s) - 1)

\* How far a wall clock time lies behind the first minute of the missing hour, and whether
\* it is within that hour.
Behind(z, wall) == wall - (z.from + z.base)

Skipped(z, wall) == z.from < z.to /\ Behind(z, wall) \in 1..(Hour - 1)

\* The instants for which the code and its documents disagree: a window that begins within
\* the missing hour, not with it, opens and closes that much later than the documents say.
Disputed(s, t) ==
  /\ s.kind # "once"
  /\ \E date \in Around(s, t) :
       LET wall == date * Day + s.start
           late == 0..(Behind(s.zone, wall) - 1)
       IN /\ Skipped(s.zone, wall)
          /\ \E o \in Openings(s, date) : t - o \in late \/ t - (o + Duration(s)) \in late

\* A window that opens late in a day and lasts nearly a whole number of days ends two
\* midnights later than window_containing expects, when summer time begins while it is open:
\* the search does not go back far enough to see its last minutes.
OnTheEdge(s) ==
  s.kind # "once" /\ s.start + (Duration(s) % Day) + Hour > 2 * Day
=============================================================================
