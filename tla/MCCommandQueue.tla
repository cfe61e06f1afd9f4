--------------------------- MODULE MCCommandQueue ---------------------------
(* One machine with one or two containers, and one or two sessions.        *)
EXTENDS CommandQueue

OneUser == {"ann"}
TwoUsers == {"ann", "bob"}
OneContainer == {"web"}
WithReserved == {"web", "dumbmonit"}
Reserved == {"dumbmonit"}
Nothing == {}

Manual == [auto_restart |-> FALSE, auto_update |-> FALSE, only_in_maintenance |-> TRUE]

AllManual == [n \in Containers |-> Manual]

WebAutomatic ==
  [n \in Containers |->
     [Manual EXCEPT !.auto_restart = (n = "web"), !.auto_update = (n = "web")]]

\* Commands, cancellations, crashes, lost answers.
Of(c, n, d, l) == [commands |-> c, cancels |-> n, crashes |-> d, lost |-> l]

LostAnswer == {Of(1, 0, 0, 1)}
NoFault == {Of(2, 0, 0, 0)}
OneFault == {Of(2, 1, 0, 0), Of(1, 1, 1, 0), Of(1, 1, 0, 1)}
=============================================================================
