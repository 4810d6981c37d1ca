---------------------------- MODULE MCGetVector ----------------------------
(* Small instances of GetVector.                                           *)
EXTENDS GetVector, TLC

CONSTANTS t1, t2, m1, m2, a1, a2, open

MCTask == {t1, t2}
MCOne == {t1}
MCCall == {open}
MCVector == {Zero, {open}}
MCSymmetry == Permutations(MCTask) \cup Permutations({a1, a2})
MCModSymmetry == MCSymmetry \cup Permutations({m1, m2})
=============================================================================
