------------------------------ MODULE MCRouter ------------------------------
(* Small instances of Router.                                              *)
EXTENDS Router, TLC

CONSTANTS t1, t2, t3, m1, m2, a1, a2, a3, open, close

(* Three processes of which two issue SETs; the third is forked or cloned. *)
MCTask == {t1, t2, t3}
MCPair == {t1, t2}
MCSetter == {t1, t2}
MCOneSetter == {t1}
MCCall == {open, close}
MCOneCall == {open}
MCVector == {Zero, {open}}
MCSymmetry == Permutations({m1, m2}) \cup Permutations({a1, a2, a3})
MCAddrSymmetry == Permutations({a1, a2})
=============================================================================
