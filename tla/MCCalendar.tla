----------------------------- MODULE MCCalendar -----------------------------
(* Days of four hours, weeks of three days, months of seven; summer time    *)
(* begins on the second day and ends on the third.                          *)
EXTENDS Calendar, TLC

Summer == [base |-> 0, from |-> 15, to |-> 32]
Winter == [base |-> Hour, from |-> 0, to |-> 0]
Alike == Permutations(Processes)

At(frequency, hour) ==
  [frequency |-> frequency, weekday |-> 1, day_of_month |-> 3, hour |-> hour]

Choices == {At("daily", 1), At("daily", 3), At("weekly", 1), At("monthly", 3)}

Maintenances ==
  {[kind |-> "once", starts_at |-> 10, ends_at |-> 20]}
  \cup
  {[kind |-> "weekly", days |-> {1}, start |-> from, end |-> to, zone |-> z] :
     from \in {0, 3, 4, Day - 1}, to \in {0, 5, Day - 2}, z \in {Summer, Winter}}
  \cup
  {[kind |-> "monthly", days |-> {3}, nths |-> {[nth |-> n, weekday |-> 1]}, start |-> from,
    duration |-> length, zone |-> Summer] :
     n \in {-1, 2}, from \in {3, 4}, length \in {2, Day, 2 * Day + 7}}
=============================================================================
