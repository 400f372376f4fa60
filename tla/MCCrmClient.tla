----------------------------- MODULE MCCrmClient -----------------------------
(* Instances of CrmClient for TLC.                                          *)
EXTENDS CrmClient, TLC

CONSTANTS a1, a2, r1, r2, r3, c1, c2

Symmetry == Permutations({a1, a2}) \cup Permutations({r1, r2, r3})
Symmetry2 == Permutations({a1, a2}) \cup Permutations({r1, r2})

Agents2 == {a1, a2}
Requests2 == {r1, r2}
Requests3 == {r1, r2, r3}
Customers1 == {c1}
Customers2 == {c1, c2}
===============================================================================
