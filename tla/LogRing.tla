------------------------------ MODULE LogRing ------------------------------
(***************************************************************************)
(* What a rotating log folder promises its reader: the folder holds a      *)
(* suffix of what was written.  Messages are numbered in the order they    *)
(* were written; data is given up only from the old end, never as a whole, *)
(* unless the handler is told to start afresh.                             *)
(***************************************************************************)
EXTENDS Integers

CONSTANT Messages       \* message numbers, a set of naturals

VARIABLES
    written,    \* messages written since the last fresh start
    retained    \* those a reader still finds in the folder

vars == <<written, retained>>

Init == written = {} /\ retained = {}

Append ==
    \E m \in Messages :
        /\ \A x \in written : x < m
        /\ written' = written \cup {m}
        /\ retained' = retained \cup {m}

\* Everything up to some message is dropped; the newest stays.
Expire ==
    \E m \in retained :
        /\ retained' = {x \in retained : x >= m}
        /\ UNCHANGED written

FreshStart == written' = {} /\ retained' = {}

Next == Append \/ Expire \/ FreshStart

Spec == Init /\ [][Next]_vars

-----------------------------------------------------------------------------
\* The folder holds a suffix of what was written, with the newest message.
Suffix ==
    /\ retained \subseteq written
    /\ \A x \in retained, y \in written : x < y => y \in retained
    /\ written # {} => retained # {}
=============================================================================
