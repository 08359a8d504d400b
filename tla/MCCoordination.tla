--------------------------- MODULE MCCoordination ---------------------------
(***************************************************************************)
(* Three clients: one binary of the previous release and two of the        *)
(* current one.  The database is new, of the previous release, current, or *)
(* of a release newer than any of them.                                    *)
(***************************************************************************)
EXTENDS Coordination

CONSTANTS old, new1, new2

MCClients == {old, new1, new2}
MCLatest  == [c \in MCClients |-> IF c = old THEN 1 ELSE 2]
MCSchemas == 0 .. 3
=============================================================================
