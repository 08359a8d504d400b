----------------------------- MODULE MCWatcher -----------------------------
(***************************************************************************)
(* Two files.  A batch of both is already past MAX_INCREMENTAL_PATHS.      *)
(***************************************************************************)
EXTENDS Watcher

CONSTANTS f, g
=============================================================================
