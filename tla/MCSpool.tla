------------------------------ MODULE MCSpool -------------------------------
(* Small instances of Spool for TLC.                                       *)
EXTENDS SpoolInvariant, TLC

CONSTANTS w1, w2

\* Two calls that end in the order they are recorded in, and two that do not.
InOrder == <<1, 2>>
Overtaken == <<2, 1>>

WorkerSymmetry == Permutations({w1, w2})
=============================================================================
