\* Reports of two servers on one table, and maintenance windows, while the clocks change.
SPECIFICATION Spec
CONSTANTS
  Hour = 3
  Day = 12
  Week = 3
  Month = 7
  a = a
  b = b
  Processes = {a, b}
  Here <- Summer
  Timings <- Choices
  Windows <- Maintenances
  Grace = 6
  LookBack = 8
  MaxLag = 2
  MaxNow = 44
  MaxEdits = 1
  MaxFaults = 1
SYMMETRY Alike
INVARIANTS TypeOK SentOnce NoSlotMissed WindowsComplete
CHECK_DEADLOCK FALSE
