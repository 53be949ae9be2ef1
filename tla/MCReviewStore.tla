---------------------------- MODULE MCReviewStore ----------------------------
(* Small instances of ReviewStore. *)
EXTENDS ReviewStore, TLC

CONSTANTS r1, r2, m1, f1, f2

Symmetry == Permutations(Reviews) \cup Permutations(Findings)
=============================================================================
