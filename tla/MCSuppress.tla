----------------------------- MODULE MCSuppress -----------------------------
(* Small topologies for TLC.                                               *)
EXTENDS Suppress

ThreeTargets == {"t1", "t2", "t3"}
BothKinds == {"agent", "snmp"}
=============================================================================
