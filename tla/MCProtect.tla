----------------------------- MODULE MCProtect -----------------------------
(* Instances of Protect for TLC.                                           *)
EXTENDS Protect, TLC

CONSTANTS t1, t2, a, b, x, i1, i2

MCTask == {t1, t2}
MCPlain == {a, b}
MCProtected == {x}
MCInode == {i1, i2}

MCSymmetry == Permutations(MCTask) \cup Permutations(MCPlain) \cup Permutations(MCInode)

(* The properties say nothing once a name has been swapped, and a swap is  *)
(* never taken back: no state after one need be visited.                   *)
MCUnswapped == ~swapped
=============================================================================
