---------------------------- MODULE Coordination ----------------------------
(***************************************************************************)
(* Cooperative ownership of one index database, after                      *)
(* crates/mct-index/src/coordination.rs and the openers of lib.rs.         *)
(*                                                                         *)
(* Two persistent lock files stand beside the database.  `.access.lock' is *)
(* held shared for as long as a connection lives and exclusive only while  *)
(* a schema migration runs; `.writer.lock' is held for one write           *)
(* operation.  The operating system has no atomic downgrade, so a client   *)
(* that finds an old schema gives everything back, takes the exclusive     *)
(* lock, migrates, gives that back too and starts over: the schema may     *)
(* change in each of the gaps, by another client or another binary.        *)
(*                                                                         *)
(* Schemas are numbered by `user_version'; 0 is a database not yet made.   *)
(* A client is one process with one handle; its binary knows Latest[c].    *)
(***************************************************************************)
EXTENDS Naturals

CONSTANTS
    Clients,    \* processes that open this database (CLI, MCP servers, dashboard)
    Latest,     \* Latest[c]: the schema version the binary of c migrates to
    Schemas     \* schema versions the database may be found at

ASSUME LatestAssumption  == Latest \in [Clients -> Nat \ {0}]
ASSUME SchemasAssumption == Schemas \subseteq Nat

VARIABLES
    pc,         \* where each client stands in opening, using or closing
    mode,       \* "rw": Index::open; "ro": Index::open_existing_read_only
    attempt,    \* iteration of the loop of open_with_setup
    shared,     \* holders of .access.lock, shared
    exclusive,  \* holders of .access.lock, exclusive
    writer,     \* holders of .writer.lock
    connected,  \* clients with a live SQLite connection
    schema      \* user_version of the database file

locks == <<shared, exclusive, writer>>
vars  == <<pc, mode, attempt, shared, exclusive, writer, connected, schema>>

MaxAttempts == 3

Stations == {"closed", "share", "queue", "preflight", "release", "exclude",
             "migrate", "migrated", "open", "writing", "closing"}

TypeOK ==
    /\ pc        \in [Clients -> Stations]
    /\ mode      \in [Clients -> {"rw", "ro"}]
    /\ attempt   \in [Clients -> 1 .. MaxAttempts]
    /\ shared    \subseteq Clients
    /\ exclusive \subseteq Clients
    /\ writer    \subseteq Clients
    /\ connected \subseteq Clients
    /\ schema    \in Nat

Init ==
    /\ pc        = [c \in Clients |-> "closed"]
    /\ mode      = [c \in Clients |-> "rw"]
    /\ attempt   = [c \in Clients |-> 1]
    /\ shared    = {}
    /\ exclusive = {}
    /\ writer    = {}
    /\ connected = {}
    /\ schema    \in Schemas

-----------------------------------------------------------------------------
(* try_lock_shared and try_lock on a fresh handle of the lock file.        *)

CanShare   == exclusive = {}
CanExclude == exclusive = {} /\ shared = {}
CanWrite   == writer = {}

Goto(c, station) == pc' = [pc EXCEPT ![c] = station]

\* Every guard and the connection of c are gone and its call has returned.
Drop(c) ==
    /\ Goto(c, "closed")
    /\ shared'    = shared \ {c}
    /\ exclusive' = exclusive \ {c}
    /\ writer'    = writer \ {c}
    /\ connected' = connected \ {c}
    /\ mode'      = [mode EXCEPT ![c] = "rw"]
    /\ attempt'   = [attempt EXCEPT ![c] = 1]
    /\ UNCHANGED schema

-----------------------------------------------------------------------------
(* Opening.                                                                *)

\* Mutant: attempts counted from zero.
OpenFromZero(c, m) ==
    /\ pc[c] = "closed"
    /\ Goto(c, "share")
    /\ mode' = [mode EXCEPT ![c] = m]
    /\ attempt' = [attempt EXCEPT ![c] = 0]
    /\ UNCHANGED <<locks, connected, schema>>

Open(c, m) ==
    /\ pc[c] = "closed"
    /\ Goto(c, "share")
    /\ mode' = [mode EXCEPT ![c] = m]
    /\ UNCHANGED <<attempt, locks, connected, schema>>

\* A reader connects as soon as it has shared access; a writer queues for the
\* writer lock first.
TakeShared(c) ==
    /\ pc[c] = "share"
    /\ CanShare
    /\ shared' = shared \union {c}
    /\ \/ /\ mode[c] = "ro"
          /\ Goto(c, "preflight")
          /\ connected' = connected \union {c}
       \/ /\ mode[c] = "rw"
          /\ Goto(c, "queue")
          /\ UNCHANGED connected
    /\ UNCHANGED <<mode, attempt, exclusive, writer, schema>>

TakeWriter(c) ==
    /\ pc[c] = "queue"
    /\ CanWrite
    /\ writer'    = writer \union {c}
    /\ connected' = connected \union {c}
    /\ Goto(c, "preflight")
    /\ UNCHANGED <<mode, attempt, shared, exclusive, schema>>

\* Mutant: a client waits for exclusive access without a deadline.
TimeOutShared(c) ==
    /\ \/ pc[c] = "share"   /\ ~CanShare
       \/ pc[c] = "queue"   /\ ~CanWrite
    /\ Drop(c)

\* The polling loop of `acquire' ran out: the error unwinds every guard held.
TimeOut(c) ==
    /\ \/ pc[c] = "share"   /\ ~CanShare
       \/ pc[c] = "queue"   /\ ~CanWrite
       \/ pc[c] = "exclude" /\ ~CanExclude
    /\ Drop(c)

\* No migration is pending: keep shared access, give the writer lock back.
Admit(c) ==
    /\ pc[c] = "preflight"
    /\ schema = Latest[c]
    /\ writer' = writer \ {c}
    /\ Goto(c, "open")
    /\ UNCHANGED <<mode, attempt, shared, exclusive, connected, schema>>

\* A reader never migrates: IncompatibleReadOnlySchema.
Refuse(c) ==
    /\ pc[c] = "preflight"
    /\ mode[c] = "ro"
    /\ schema # Latest[c]
    /\ Drop(c)

\* drop(conn); drop(writer) -- and then, in a step of its own, drop(access).
Retreat(c) ==
    /\ pc[c] = "preflight"
    /\ mode[c] = "rw"
    /\ schema # Latest[c]
    /\ connected' = connected \ {c}
    /\ writer'    = writer \ {c}
    /\ Goto(c, "release")
    /\ UNCHANGED <<mode, attempt, shared, exclusive, schema>>

ReleaseAccess(c) ==
    /\ pc[c] = "release"
    /\ shared' = shared \ {c}
    /\ Goto(c, "exclude")
    /\ UNCHANGED <<mode, attempt, exclusive, writer, connected, schema>>

\* Mutant: exclusive access waits for other migrations only, not for readers.
TakeExclusiveEagerly(c) ==
    /\ pc[c] = "exclude"
    /\ exclusive = {}
    /\ exclusive' = exclusive \union {c}
    /\ connected' = connected \union {c}
    /\ Goto(c, "migrate")
    /\ UNCHANGED <<mode, attempt, shared, writer, schema>>

TakeExclusive(c) ==
    /\ pc[c] = "exclude"
    /\ CanExclude
    /\ exclusive' = exclusive \union {c}
    /\ connected' = connected \union {c}
    /\ Goto(c, "migrate")
    /\ UNCHANGED <<mode, attempt, shared, writer, schema>>

\* Mutants: one migration per call; a newer database is taken back.
MigrateOneVersion(c) ==
    /\ pc[c] = "migrate"
    /\ schema <= Latest[c]
    /\ schema'    = IF schema < Latest[c] THEN schema + 1 ELSE schema
    /\ connected' = connected \ {c}
    /\ Goto(c, "migrated")
    /\ UNCHANGED <<mode, attempt, locks>>
MigrateToOwn(c) ==
    /\ pc[c] = "migrate"
    /\ schema'    = Latest[c]
    /\ connected' = connected \ {c}
    /\ Goto(c, "migrated")
    /\ UNCHANGED <<mode, attempt, locks>>

\* to_latest: one transaction from the version found to Latest[c].  It finds
\* nothing to do when another client migrated while c waited.
Migrate(c) ==
    /\ pc[c] = "migrate"
    /\ schema <= Latest[c]
    /\ schema'    = Latest[c]
    /\ connected' = connected \ {c}
    /\ Goto(c, "migrated")
    /\ UNCHANGED <<mode, attempt, locks>>

\* to_latest refuses a database of a newer binary; it may fail on any other.
MigrateFails(c) ==
    /\ pc[c] = "migrate"
    /\ Drop(c)

\* drop(maintenance), then the next iteration of the loop, or the bail after it.
Recheck(c) ==
    /\ pc[c] = "migrated"
    /\ IF attempt[c] < MaxAttempts
       THEN /\ exclusive' = exclusive \ {c}
            /\ attempt'   = [attempt EXCEPT ![c] = @ + 1]
            /\ Goto(c, "share")
            /\ UNCHANGED <<mode, shared, writer, connected, schema>>
       ELSE Drop(c)

-----------------------------------------------------------------------------
(* Using and closing.                                                      *)

\* Mutant: the writer lock is not tried.
BeginWriteUnlocked(c) ==
    /\ pc[c] = "open"
    /\ mode[c] = "rw"
    /\ writer' = writer \union {c}
    /\ Goto(c, "writing")
    /\ UNCHANGED <<mode, attempt, shared, exclusive, connected, schema>>

\* writer_guard: one attempt, no waiting.  On contention the call fails and
\* changes nothing.
BeginWrite(c) ==
    /\ pc[c] = "open"
    /\ mode[c] = "rw"
    /\ CanWrite
    /\ writer' = writer \union {c}
    /\ Goto(c, "writing")
    /\ UNCHANGED <<mode, attempt, shared, exclusive, connected, schema>>

EndWrite(c) ==
    /\ pc[c] = "writing"
    /\ writer' = writer \ {c}
    /\ Goto(c, "open")
    /\ UNCHANGED <<mode, attempt, shared, exclusive, connected, schema>>

\* Mutant: the access guard is declared before the connection and drops first.
CloseAccessFirst(c) ==
    /\ pc[c] = "open"
    /\ shared' = shared \ {c}
    /\ Goto(c, "closing")
    /\ UNCHANGED <<mode, attempt, exclusive, writer, connected, schema>>

\* Fields drop in declaration order: the connection, then the access guard.
Close(c) ==
    /\ pc[c] = "open"
    /\ connected' = connected \ {c}
    /\ Goto(c, "closing")
    /\ UNCHANGED <<mode, attempt, locks, schema>>

Closed(c) ==
    /\ pc[c] = "closing"
    /\ Drop(c)

\* The process dies: the system closes its handles, SQLite rolls back.
Crash(c) ==
    /\ pc[c] # "closed"
    /\ Drop(c)

-----------------------------------------------------------------------------
\* The steps a client that called open takes on its own.
OpenStep(c) ==
    \/ TakeShared(c)
    \/ TakeWriter(c)
    \/ TimeOut(c)
    \/ Admit(c)
    \/ Refuse(c)
    \/ Retreat(c)
    \/ ReleaseAccess(c)
    \/ TakeExclusive(c)
    \/ Migrate(c)
    \/ MigrateFails(c)
    \/ Recheck(c)
    \/ Closed(c)

Next ==
    \E c \in Clients :
        \/ \E m \in {"rw", "ro"} : Open(c, m)
        \/ OpenStep(c)
        \/ BeginWrite(c)
        \/ EndWrite(c)
        \/ Close(c)
        \/ Crash(c)

Spec == Init /\ [][Next]_vars

\* A thread inside open keeps running: its waits are bounded by a timeout.
FairSpec == Spec /\ \A c \in Clients : WF_vars(OpenStep(c))

-----------------------------------------------------------------------------
(* Properties.                                                             *)

InUse(c) == pc[c] \in {"open", "writing"}

\* A client that holds an opened index (open, open_existing_read_only) talks to
\* exactly the schema its binary was compiled for, however many other binaries
\* opened, migrated, timed out or crashed since.
OpenedAtItsSchema ==
    \A c \in Clients : InUse(c) => schema = Latest[c]

\* While to_latest runs, no other connection of any kind is open: not a reader
\* inside its preflight, not one whose Index is being dropped.
MigrationRunsAlone ==
    \A c \in Clients : pc[c] = "migrate" => connected = {c}

\* At most one client is inside an operation that writes: the preflight of a
\* writable open, which sets the journal mode, or an indexing or embedding run.
Writes(c) == pc[c] = "writing" \/ (pc[c] = "preflight" /\ mode[c] = "rw")

WritersExclude ==
    \A a, b \in Clients : Writes(a) /\ Writes(b) => a = b

\* Binaries of different versions share the file and none of them takes the
\* schema back or moves it under a live connection.
SchemaOnlyAdvancesAlone ==
    [][schema' > schema /\ \E c \in Clients : connected = {c}]_schema

\* The third iteration of open_with_setup is never needed to migrate, so its
\* "schema changed repeatedly" error is never returned: after one migration of
\* its own a client either finds its schema or a newer one, which to_latest
\* refuses.
NeverGivesUp ==
    \A c \in Clients : pc[c] = "migrated" => attempt[c] = 1

\* Every call of open returns, an index or an error, although two clients that
\* both found an old schema wait for each other to leave.
OpenReturns ==
    \A c \in Clients : pc[c] \notin {"closed", "open", "writing"}
                          ~> pc[c] \in {"closed", "open"}
=============================================================================
