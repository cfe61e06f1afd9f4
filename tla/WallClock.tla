----------------------------- MODULE WallClock -----------------------------
(***************************************************************************)
(* Wall clocks, as maintenance windows (server/src/alerting/silence.rs)    *)
(* and report schedules (server/src/reports/schedule.rs) use them: a time  *)
(* zone is an offset from UTC that is an hour larger during summer time.   *)
(* An instant is a tick of UTC.  When summer time begins an hour of the    *)
(* wall clock does not exist; when it ends, one exists twice.              *)
(*                                                                         *)
(* Months all have the same length.  A partial function yields a set of    *)
(* at most one value.                                                      *)
(***************************************************************************)
EXTENDS Integers, FiniteSets

CONSTANTS
  Hour,     \* ticks of an hour
  Day,      \* ticks of a day
  Week,     \* days of a week
  Month     \* days of a month

ASSUME ClockAssumption ==
  /\ Hour \in Nat \ {0} /\ Day \in Nat \ {0} /\ Day % Hour = 0
  /\ Week \in Nat \ {0} /\ Month \in Nat \ {0}

\* Summer time lasts from one instant to another; a fixed offset has none.
Zone == [base : Int, from : Int, to : Int]

Offset(z, t) == z.base + (IF z.from <= t /\ t < z.to THEN Hour ELSE 0)

Local(z, t) == t + Offset(z, t)

DateOf(z, t) == Local(z, t) \div Day

\* from_local_datetime: no, one or two instants; and the earliest of them.
Instants(z, wall) == {t \in {wall - z.base, wall - z.base - Hour} : Local(z, t) = wall}

Earliest(S) == {t \in S : \A u \in S : t <= u}

Weekday(date) == date % Week

DayOfMonth(date) == (date % Month) + 1

MonthOf(date) == date \div Month
=============================================================================
