---------------------------- MODULE MCScheduler ----------------------------
(* A device that may be relayed, and one of a pack, which may not.          *)
EXTENDS Scheduler

OneRelayed == {"nas", "pack"}
TwoRelayed == {"nas", "tor"}
OneRelay == {"relay"}
NasOnly == [d \in Devices |-> IF d = "pack" THEN {NoAgent} ELSE {NoAgent} \cup Agents]
=============================================================================
