--------------------------- MODULE MCSessionStore ---------------------------
(* Values for checking SessionStore with TLC.                             *)
EXTENDS SessionStore

\* Nothing tells one session id from another.
Symmetry == Permutations(Sessions)
=============================================================================
