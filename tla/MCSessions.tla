----------------------------- MODULE MCSessions -----------------------------
(* One name, so that it is given to one account after the other, and two   *)
(* requests at a time.                                                     *)
EXTENDS Sessions

CONSTANTS n1, p1, p2, r1, r2

MCNames == {n1}
MCPasswords == {p1, p2}
MCCallers == {r1, r2}
MCSymmetry == Permutations(MCPasswords) \cup Permutations(MCCallers)
=============================================================================
