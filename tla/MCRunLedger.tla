---------------------------- MODULE MCRunLedger ----------------------------
(***************************************************************************)
(* Small instances of RunLedger.                                           *)
(***************************************************************************)
EXTENDS RunLedger, TLC

CONSTANTS p1, p2, c1

TwoPrograms == {p1, p2}
OneChild == {c1}
Symmetry == Permutations(TwoPrograms)
=============================================================================
