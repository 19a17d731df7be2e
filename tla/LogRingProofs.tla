--------------------------- MODULE LogRingProofs ---------------------------
(* What LogRing promises holds for every set of messages: Suffix is        *)
(* inductive once the messages are known to be numbers.                    *)
EXTENDS LogRing, TLAPS

IInv == written \subseteq Messages /\ Suffix

\* A ring holds a suffix of what was written since the last fresh start, with
\* its newest message: what RotatingFile's folder inherits as an implementation.
THEOREM SuffixAlways ==
    ASSUME Messages \subseteq Nat
    PROVE  Spec => []Suffix
<1>1. Init => IInv
  BY DEF Init, IInv, Suffix
<1>2. ASSUME IInv, [Next]_vars PROVE IInv'
  <2>1. CASE Append
    <3>1. PICK m \in Messages :
              /\ \A x \in written : x < m
              /\ written' = written \cup {m}
              /\ retained' = retained \cup {m}
      BY <2>1 DEF Append
    <3>2. \A x \in written' : x \in Nat /\ x <= m
      BY <1>2, <3>1 DEF IInv
    <3>3. QED
      BY <1>2, <3>1, <3>2 DEF IInv, Suffix
  <2>2. CASE Expire
    <3>1. PICK m \in retained : retained' = {x \in retained : x >= m} /\ written' = written
      BY <2>2 DEF Expire
    <3>2. written \subseteq Nat /\ retained \subseteq Nat /\ m \in retained'
      BY <1>2, <3>1 DEF IInv, Suffix
    <3>3. \A x \in retained', y \in written' : x < y => y \in retained /\ y >= m
      BY <1>2, <3>1, <3>2 DEF IInv, Suffix
    <3>4. QED
      BY <1>2, <3>1, <3>2, <3>3 DEF IInv, Suffix
  <2>3. CASE FreshStart
    BY <2>3 DEF FreshStart, IInv, Suffix
  <2>4. CASE UNCHANGED vars
    BY <1>2, <2>4 DEF vars, IInv, Suffix
  <2>5. QED
    BY <1>2, <2>1, <2>2, <2>3, <2>4 DEF Next
<1>3. IInv => Suffix
  BY DEF IInv
<1>4. QED
  BY <1>1, <1>2, <1>3, PTL DEF Spec
=============================================================================
