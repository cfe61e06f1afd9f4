---------------------------- MODULE Announcement ----------------------------
(***************************************************************************)
(* What the alerting pipeline promises to the person behind a channel,     *)
(* without rules, queues, ledgers or cycles: what a channel has last heard *)
(* of an alert follows the truth, an all-clear only ever answers a problem *)
(* the channel was told of, a problem that lasts is told and a calm that   *)
(* lasts is told to whoever heard of the problem.                          *)
(***************************************************************************)
CONSTANTS Fps, Channels

VARIABLES
  problem,  \* alerts whose condition holds
  heard     \* what each channel last heard of each alert

Told == {"problem", "flapping"}

Heard == {"nothing", "clear"} \cup Told

Init ==
  /\ problem = {}
  /\ heard = [p \in Channels \X Fps |-> "nothing"]

\* What one message may do to what a channel knows of an alert.
MayFollow(old, new) ==
  \/ new = old
  \/ new \in Told
  \/ old \in Told /\ new = "clear"

\* A message reaches one channel, and may speak of several alerts.
Digest(c) ==
  /\ heard' \in [Channels \X Fps -> Heard]
  /\ \A p \in Channels \X Fps :
       /\ MayFollow(heard[p], heard'[p])
       /\ p[1] # c => heard'[p] = heard[p]
  /\ UNCHANGED problem

ConditionChanges(f) ==
  /\ problem' = IF f \in problem THEN problem \ {f} ELSE problem \cup {f}
  /\ UNCHANGED heard

Next ==
  \/ \E c \in Channels : Digest(c)
  \/ \E f \in Fps : ConditionChanges(f)

\* The two messages that must not be withheld for ever.
TellProblem(c, f) ==
  /\ f \in problem /\ heard[<<c, f>>] \notin Told
  /\ heard' = [heard EXCEPT ![<<c, f>>] = "problem"]
  /\ UNCHANGED problem

TellClear(c, f) ==
  /\ f \notin problem /\ heard[<<c, f>>] \in Told
  /\ heard' = [heard EXCEPT ![<<c, f>>] = "clear"]
  /\ UNCHANGED problem

Safety == Init /\ [][Next]_<<problem, heard>>

Spec ==
  /\ Safety
  /\ \A c \in Channels, f \in Fps :
       WF_<<problem, heard>>(TellProblem(c, f)) /\ WF_<<problem, heard>>(TellClear(c, f))
=============================================================================
