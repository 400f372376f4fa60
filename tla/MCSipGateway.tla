----------------------------- MODULE MCSipGateway -----------------------------
(* Instances of SipGateway for TLC: interchangeable connections and calls.   *)
EXTENDS SipGateway, TLC

CONSTANTS k1, k2, c1, c2, c3

Conns1 == {k1}
Conns2 == {k1, k2}
Calls2 == {c1, c2}
Calls3 == {c1, c2, c3}

BestDB == {TRUE}
AnyDB == BOOLEAN
Long == {1}

Symmetry2 == Permutations(Conns2) \cup Permutations(Calls2)
SymmetryC2 == Permutations(Calls2)
SymmetryC3 == Permutations(Calls3)
===============================================================================
