---------------------------- MODULE MCTapRouter -----------------------------
(* Small instances of TapRouter for TLC.                                   *)
EXTENDS TapRouter, TLC

CONSTANTS k1, k2, c1, c2, c3

RouterSymmetry == Permutations({k1, k2}) \union Permutations({c1, c2, c3})
=============================================================================
