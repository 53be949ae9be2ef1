--------------------------- MODULE MCPluginManager ---------------------------
(* Small instances of PluginManager. *)
EXTENDS PluginManager, TLC

CONSTANTS p1, p2, b, x, y

Symmetry == Permutations(Programs) \cup Permutations(External)
=============================================================================
