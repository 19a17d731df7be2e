--------------------------- MODULE MCSharedFolder ---------------------------
(* Instances of SharedFolder for TLC: who shares the folder.               *)
EXTENDS SharedFolder

Two == {1, 2}
LimitTwo == [h \in Handlers |-> 2]

\* The third period has the name of the first, and the second sorts before it.
Weekdays == <<2, 1, 2>>

\* What the theorems about SharedFolder assume, this folder satisfies.
ASSUME LimitIsRoomy == Roomy
=============================================================================
