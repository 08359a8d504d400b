----------------------------- MODULE MCReviews -----------------------------
(***************************************************************************)
(* Two dashboards and one finding whose code changes.                      *)
(***************************************************************************)
EXTENDS Reviews, TLC

CONSTANTS w1, w2, f1, f2, p1, p2

Symmetry == Permutations(Writers) \cup Permutations(Findings) \cup Permutations(Prints)
=============================================================================
