-------------------------------- MODULE MCVault --------------------------------
(* Two servers on one project; two files, two texts of a note. *)
EXTENDS Vault, TLC

CONSTANTS s1, s2, q1, q2, t1, t2

Symmetry == Permutations(Processes) \cup Permutations(Paths) \cup Permutations(Texts)
================================================================================
