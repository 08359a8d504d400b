------------------------- MODULE Coordination_proofs -------------------------
(***************************************************************************)
(* Safety of the database coordination protocol, for any set of clients,   *)
(* any mix of binaries and any schema the database is found at.            *)
(*                                                                         *)
(* The properties speak of what clients do; they follow from the locks     *)
(* only because the position of a client and the locks it holds agree      *)
(* (HoldersInv), because the two modes of the access lock exclude each     *)
(* other (ModesInv), and because schemas only grow, so what a client saw   *)
(* in one iteration of open bounds what it can find in the next            *)
(* (AttemptInv).                                                           *)
(***************************************************************************)
EXTENDS Coordination, TLAPS

\* Where a client stands says which locks and which connection it holds.
HoldersInv ==
    \A c \in Clients :
        /\ c \in shared    <=> pc[c] \in {"queue", "preflight", "release", "open",
                                          "writing", "closing"}
        /\ c \in exclusive <=> pc[c] \in {"migrate", "migrated"}
        /\ c \in writer    <=> Writes(c)
        /\ c \in connected <=> pc[c] \in {"preflight", "migrate", "open", "writing"}
        /\ pc[c] \in {"queue", "release", "exclude", "migrate", "migrated", "writing"}
              => mode[c] = "rw"

\* The access lock is shared by many or exclusive to one, never both; the
\* writer lock has one holder.
ModesInv ==
    /\ exclusive # {} => shared = {}
    /\ \A a, b \in exclusive : a = b
    /\ \A a, b \in writer : a = b

\* A second iteration starts at a schema no older than the client's own; it
\* leaves the fast path only when that schema is newer.
AttemptInv ==
    \A c \in Clients :
        /\ attempt[c] \in {1, 2}
        /\ attempt[c] = 2 => schema >= Latest[c]
        /\ attempt[c] = 2 /\ pc[c] \in {"release", "exclude", "migrate"}
              => schema > Latest[c]
        /\ pc[c] = "migrated" => attempt[c] = 1 /\ schema >= Latest[c]

IInv ==
    /\ TypeOK
    /\ HoldersInv
    /\ ModesInv
    /\ OpenedAtItsSchema
    /\ AttemptInv

-----------------------------------------------------------------------------
\* Every client starts closed, holding nothing.
LEMMA InitIInv == Init => IInv
  BY LatestAssumption, SchemasAssumption
     DEF Init, IInv, TypeOK, HoldersInv, ModesInv, OpenedAtItsSchema, AttemptInv,
         Stations, MaxAttempts, Writes, InUse

\* Dropping every guard of one client keeps the invariant, whatever it held.
LEMMA DropKeepsIInv ==
  ASSUME NEW c \in Clients, IInv, Drop(c)
  PROVE  IInv'
  BY LatestAssumption
     DEF Drop, Goto, IInv, TypeOK, HoldersInv, ModesInv, OpenedAtItsSchema,
         AttemptInv, Stations, MaxAttempts, Writes, InUse

\* Every step of every client keeps the invariant.
LEMMA StepKeepsIInv == IInv /\ [Next]_vars => IInv'
  <1> SUFFICES ASSUME IInv, [Next]_vars PROVE IInv'
    OBVIOUS
  <1> USE LatestAssumption DEF Goto, locks, CanShare, CanExclude, CanWrite
  <1>1. ASSUME NEW c \in Clients, NEW m \in {"rw", "ro"}, Open(c, m) PROVE IInv'
    BY <1>1 DEF Open, IInv, TypeOK, HoldersInv, ModesInv, OpenedAtItsSchema,
                AttemptInv, Stations, MaxAttempts, Writes, InUse
  <1>2. ASSUME NEW c \in Clients, TakeShared(c) PROVE IInv'
    BY <1>2 DEF TakeShared, IInv, TypeOK, HoldersInv, ModesInv, OpenedAtItsSchema,
                AttemptInv, Stations, MaxAttempts, Writes, InUse
  <1>3. ASSUME NEW c \in Clients, TakeWriter(c) PROVE IInv'
    BY <1>3 DEF TakeWriter, IInv, TypeOK, HoldersInv, ModesInv, OpenedAtItsSchema,
                AttemptInv, Stations, MaxAttempts, Writes, InUse
  <1>4. ASSUME NEW c \in Clients, TimeOut(c) PROVE IInv'
    BY <1>4, DropKeepsIInv DEF TimeOut
  <1>5. ASSUME NEW c \in Clients, Admit(c) PROVE IInv'
    BY <1>5 DEF Admit, IInv, TypeOK, HoldersInv, ModesInv, OpenedAtItsSchema,
                AttemptInv, Stations, MaxAttempts, Writes, InUse
  <1>6. ASSUME NEW c \in Clients, Refuse(c) PROVE IInv'
    BY <1>6, DropKeepsIInv DEF Refuse
  <1>7. ASSUME NEW c \in Clients, Retreat(c) PROVE IInv'
    BY <1>7 DEF Retreat, IInv, TypeOK, HoldersInv, ModesInv, OpenedAtItsSchema,
                AttemptInv, Stations, MaxAttempts, Writes, InUse
  <1>8. ASSUME NEW c \in Clients, ReleaseAccess(c) PROVE IInv'
    BY <1>8 DEF ReleaseAccess, IInv, TypeOK, HoldersInv, ModesInv,
                OpenedAtItsSchema, AttemptInv, Stations, MaxAttempts, Writes, InUse
  <1>9. ASSUME NEW c \in Clients, TakeExclusive(c) PROVE IInv'
    BY <1>9 DEF TakeExclusive, IInv, TypeOK, HoldersInv, ModesInv,
                OpenedAtItsSchema, AttemptInv, Stations, MaxAttempts, Writes, InUse
  <1>10. ASSUME NEW c \in Clients, Migrate(c) PROVE IInv'
    <2>1. shared = {} /\ exclusive = {c}
      BY <1>10 DEF Migrate, IInv, HoldersInv, ModesInv, TypeOK
    <2>2. \A d \in Clients : ~InUse(d)
      BY <2>1 DEF IInv, HoldersInv, InUse
    <2>3. TypeOK' /\ OpenedAtItsSchema'
      BY <1>10, <2>2 DEF Migrate, IInv, TypeOK, OpenedAtItsSchema, InUse, Stations
    <2>4. HoldersInv' /\ ModesInv'
      BY <1>10 DEF Migrate, IInv, TypeOK, HoldersInv, ModesInv, Writes, Stations
    <2>5. AttemptInv'
      BY <1>10 DEF Migrate, IInv, TypeOK, AttemptInv, Stations, MaxAttempts
    <2>6. QED
      BY <2>3, <2>4, <2>5 DEF IInv
  <1>11. ASSUME NEW c \in Clients, MigrateFails(c) PROVE IInv'
    BY <1>11, DropKeepsIInv DEF MigrateFails
  <1>12. ASSUME NEW c \in Clients, Recheck(c) PROVE IInv'
    <2>1. CASE attempt[c] < MaxAttempts
      BY <1>12, <2>1 DEF Recheck, IInv, TypeOK, HoldersInv, ModesInv,
         OpenedAtItsSchema, AttemptInv, Stations, MaxAttempts, Writes, InUse
    <2>2. CASE ~(attempt[c] < MaxAttempts)
      BY <1>12, <2>2, DropKeepsIInv DEF Recheck
    <2>3. QED
      BY <2>1, <2>2
  <1>13. ASSUME NEW c \in Clients, BeginWrite(c) PROVE IInv'
    BY <1>13 DEF BeginWrite, IInv, TypeOK, HoldersInv, ModesInv,
                 OpenedAtItsSchema, AttemptInv, Stations, MaxAttempts, Writes, InUse
  <1>14. ASSUME NEW c \in Clients, EndWrite(c) PROVE IInv'
    BY <1>14 DEF EndWrite, IInv, TypeOK, HoldersInv, ModesInv, OpenedAtItsSchema,
                 AttemptInv, Stations, MaxAttempts, Writes, InUse
  <1>15. ASSUME NEW c \in Clients, Close(c) PROVE IInv'
    BY <1>15 DEF Close, IInv, TypeOK, HoldersInv, ModesInv, OpenedAtItsSchema,
                 AttemptInv, Stations, MaxAttempts, Writes, InUse
  <1>16. ASSUME NEW c \in Clients, Closed(c) PROVE IInv'
    BY <1>16, DropKeepsIInv DEF Closed
  <1>17. ASSUME NEW c \in Clients, Crash(c) PROVE IInv'
    BY <1>17, DropKeepsIInv DEF Crash
  <1>18. CASE UNCHANGED vars
    BY <1>18 DEF vars, IInv, TypeOK, HoldersInv, ModesInv, OpenedAtItsSchema,
                 AttemptInv, Writes, InUse
  <1>19. QED
    BY <1>1, <1>2, <1>3, <1>4, <1>5, <1>6, <1>7, <1>8, <1>9, <1>10, <1>11, <1>12,
       <1>13, <1>14, <1>15, <1>16, <1>17, <1>18 DEF Next, OpenStep

\* The inductive invariant holds throughout.
THEOREM Invariance == Spec => []IInv
  BY InitIInv, StepKeepsIInv, PTL DEF Spec

-----------------------------------------------------------------------------
\* Type correctness of the whole protocol (coordination.rs).
THEOREM TypeCorrect == Spec => []TypeOK
  <1>1. IInv => TypeOK
    BY DEF IInv
  <1>2. QED
    BY <1>1, Invariance, PTL

\* An opened index, writable or read-only, always sees the schema its binary
\* expects: nobody migrates under a live connection (DatabaseAccess::open).
THEOREM OpenedSchemaStable == Spec => []OpenedAtItsSchema
  <1>1. IInv => OpenedAtItsSchema
    BY DEF IInv
  <1>2. QED
    BY <1>1, Invariance, PTL

\* to_latest runs with no other connection open (DatabaseAccess::maintenance).
THEOREM MigrationExclusive == Spec => []MigrationRunsAlone
  <1>1. IInv => MigrationRunsAlone
    <2> SUFFICES ASSUME IInv, NEW c \in Clients, pc[c] = "migrate"
                 PROVE  connected = {c}
      BY DEF MigrationRunsAlone
    <2>1. exclusive = {c} /\ shared = {} /\ c \in connected
      BY DEF IInv, HoldersInv, ModesInv, TypeOK
    <2>2. \A d \in connected : d = c
      BY <2>1 DEF IInv, HoldersInv, TypeOK
    <2>3. QED
      BY <2>1, <2>2
  <1>2. QED
    BY <1>1, Invariance, PTL

\* One write operation at a time over every process (DatabaseAccess::writer).
THEOREM WriterExclusion == Spec => []WritersExclude
  <1>1. IInv => WritersExclude
    BY DEF IInv, HoldersInv, ModesInv, WritersExclude
  <1>2. QED
    BY <1>1, Invariance, PTL

\* The "schema changed repeatedly" error of open_with_setup is unreachable.
THEOREM OpenNeverGivesUp == Spec => []NeverGivesUp
  <1>1. IInv => NeverGivesUp
    BY DEF IInv, AttemptInv, NeverGivesUp
  <1>2. QED
    BY <1>1, Invariance, PTL

\* The schema changes only upwards and only while its migrator is the one
\* connection of the database.
THEOREM SchemaAdvances == Spec => SchemaOnlyAdvancesAlone
  <1>1. IInv /\ [Next]_vars =>
           [schema' > schema /\ \E c \in Clients : connected = {c}]_schema
    <2> SUFFICES ASSUME IInv, [Next]_vars, schema' # schema
                 PROVE  schema' > schema /\ \E c \in Clients : connected = {c}
      OBVIOUS
    <2>1. PICK c \in Clients : Migrate(c)
      BY DEF Next, vars, locks, OpenStep, Open, TakeShared, TakeWriter, TimeOut, Admit, Refuse,
             Retreat, ReleaseAccess, TakeExclusive, MigrateFails, Recheck,
             BeginWrite, EndWrite, Close, Closed, Crash, Drop
    <2>2. exclusive = {c} /\ shared = {} /\ c \in connected
      BY <2>1 DEF Migrate, IInv, HoldersInv, ModesInv, TypeOK
    <2>3. connected = {c}
      BY <2>2 DEF IInv, HoldersInv, TypeOK
    <2>4. schema' > schema
      BY <2>1, LatestAssumption DEF Migrate, IInv, TypeOK
    <2>5. QED
      BY <2>3, <2>4
  <1>2. QED
    BY <1>1, Invariance, PTL DEF Spec, SchemaOnlyAdvancesAlone
=============================================================================
