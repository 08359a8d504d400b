------------------------------ MODULE MCIndexer -----------------------------
(***************************************************************************)
(* Two directories with a file each, of the same name, so that either may  *)
(* be the old end of a rename into the other.                              *)
(***************************************************************************)
EXTENDS Indexer, TLC

CONSTANTS x1, x2, d1, d2, h1, h2

MCDirOf   == (x1 :> d1) @@ (x2 :> d2)
MCNameOf  == (x1 :> "x") @@ (x2 :> "x")
MCBatches == {{x1}, {x2}, {x1, x2}, {d1, d2}}
MCReports == {{x1, x2}, {d1, d2}}
Symmetry  == Permutations(Hashes)

=============================================================================
