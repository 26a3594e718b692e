------------------------------ MODULE MCCalls ------------------------------
(* Conduit calling Junction, on small instances.                           *)
EXTENDS Calls, TLC

CONSTANTS c1, c2, c3, k1, x1, x2

TwoCalls == {c1, c2}
ThreeCalls == {c1, c2, c3}
OneKey == {k1}
OneKeyed == [c \in Call |-> IF c = c1 THEN k1 ELSE Null]
SharedKey == [c \in Call |-> IF c \in {c1, c2} THEN k1 ELSE Null]
Declared(n, m) == [threshold |-> n, cap |-> m]
Guarded == Declared(1, 2)
Off == Declared(0, 1)
BothTerms == {Guarded, Off}
Hasty == {c1}

\* Nothing that is checked, and no fairness, tells one copy from another.
AnyCopy == Permutations(Copy)
=============================================================================
