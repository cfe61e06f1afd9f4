---------------------------- MODULE MCAgentPush ----------------------------
(* One machine, its agent with a fleet token, and perhaps a second installation with the same  *)
(* key and a token that enrols once.                                                           *)
EXTENDS AgentPush

OneMachine == {"nas"}
TwoTokens == {"fleet", "once"}
OnlyFleet == {"fleet"}
OnceEach == [t \in Tokens |-> 1]
AgentAndTwin == {"agent", "twin"}
SameKey == [a \in Agents |-> "nas"]
TwinHasOnce == [a \in Agents |-> IF a = "agent" THEN "fleet" ELSE "once"]

Fresh ==
  [ installed |-> {"agent"}, outdated |-> {}, declared |-> {}, legacy |-> {},
    token |-> "fleet", samples |-> 3, mishaps |-> 1 ]

\* Two things go wrong, one after the other.
Unlucky == [Fresh EXCEPT !.samples = 1, !.mishaps = 2]

Old == [Unlucky EXCEPT !.outdated = {"agent"}, !.legacy = {"nas"}, !.mishaps = 1]

Cloned ==
  [ Fresh EXCEPT !.installed = {"agent", "twin"}, !.declared = {"nas"}, !.samples = 1,
                 !.mishaps = 1 ]

Situations == {Fresh, Unlucky, Old, Cloned}
=============================================================================
