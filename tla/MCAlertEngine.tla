--------------------------- MODULE MCAlertEngine ----------------------------
(***************************************************************************)
(* Small instances of AlertEngine for TLC.  A tick of the clock is a cycle *)
(* of the engine (30 s by default); delays are scaled down to a few ticks. *)
(***************************************************************************)
EXTENDS AlertEngine

\* One alert on one device, or one alert on each of two devices, one of which
\* may stand behind the other.
OneFp == {"disk"}
OneTarget == {"nas"}
NasOnly == [f \in OneFp |-> "nas"]
NoAncestors == [t \in OneTarget |-> {}]

TwoFps == {"disk", "load"}
TwoTargets == {"nas", "router"}
TwoDevices == [f \in TwoFps |-> IF f = "disk" THEN "nas" ELSE "router"]
BehindRouter == [t \in TwoTargets |-> IF t = "nas" THEN {"router"} ELSE {}]

\* "mail" hears everything, "phone" is the second one.
OneChannel == {"mail"}
TwoChannels == {"mail", "phone"}

-----------------------------------------------------------------------------
(* What may happen around and during a cycle.                              *)

AllRules == {Fps}
RulesOnOff == {Fps, {}}
AllChannels == {Channels}
ChannelsOnOff == {Channels, {}}
NoSilence == {{}}
DiskSilenced == {{}, {"disk"}}
NothingFlagged == {{}}
NasFlagged == {{}, {"nas"}}

AnyPoint == PcValues
IdleOnly == {"idle"}

PlainAnswers == {"true", "false"}
AllAnswers == {"true", "false", "learning", "gone", "failed"}

-----------------------------------------------------------------------------
(* Rules.                                                                  *)

PlainRule ==
  [ for |-> 0, severity |-> 1, repeat |-> NoTime, escalate_after |-> NoTime,
    channels |-> {}, host_down |-> FALSE ]

ImmediateRules == [f \in Fps |-> PlainRule]

RemindingRules == [f \in Fps |-> [PlainRule EXCEPT !.repeat = 2]]

EscalatingRules ==
  [f \in Fps |-> [PlainRule EXCEPT !.escalate_after = 1, !.repeat = 4]]

\* Pending for one tick, already at the last rung of the severities.
CriticalRules ==
  [f \in Fps |-> [PlainRule EXCEPT !.for = 1, !.severity = 2, !.escalate_after = 1]]

\* The router has the rule "device unreachable".
HostRules ==
  [f \in Fps |-> [PlainRule EXCEPT !.repeat = 2, !.host_down = (f = "load"),
                                   !.severity = IF f = "load" THEN 2 ELSE 1]]

-----------------------------------------------------------------------------
(* Policies.                                                               *)

PlainPolicy ==
  [ min_severity |-> 0, notify_resolved |-> TRUE, min_interval |-> 0,
    quiet |-> {}, accepts |-> Fps, oncall |-> FALSE ]

PlainPolicies == [c \in Channels |-> PlainPolicy]

\* The phone is picky: severity floor, quiet hours, cooldown, on call.
PickyPolicies ==
  [c \in Channels |->
     IF c = "mail" THEN PlainPolicy
     ELSE [PlainPolicy EXCEPT !.min_severity = 2, !.min_interval = 2,
                              !.quiet = {4}, !.oncall = TRUE]]

PlainGlobal ==
  [ window |-> 0, max_per_hour |-> 0, flap_events |-> 0, flap_window |-> 0,
    flap_hold |-> 0, escalate_after |-> 0, escalate_channel |-> "none" ]

BatchGlobal == [PlainGlobal EXCEPT !.window = 1]

CapGlobal == [PlainGlobal EXCEPT !.max_per_hour = 1]

\* Three changes within the window are a flap; after two ticks without an ack
\* the phone is told.
EscalateFlapGlobal ==
  [PlainGlobal EXCEPT !.flap_events = 3, !.flap_window = 8, !.flap_hold = 3,
                      !.escalate_after = 2, !.escalate_channel = "phone"]
=============================================================================
