---------------------------- MODULE MCModuleList ----------------------------
(* Small instances of ModuleList.                                          *)
EXTENDS ModuleList, TLC

CONSTANTS m1, m2, m3, r1, n1, n2, n3

MCModules == {m1, m2, m3}
MCPair == {m1, m2}
MCSymmetry == Permutations({n1, n2, n3}) \cup Permutations({m1, m2, m3})
MCPairSymmetry == Permutations({n1, n2, n3}) \cup Permutations({m1, m2})
MCTwoNodeSymmetry == Permutations({n1, n2}) \cup Permutations({m1, m2})
=============================================================================
