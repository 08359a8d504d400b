SPECIFICATION FairSpec
CONSTANTS
    old = old
    new1 = new1
    new2 = new2
    Clients <- MCClients
    Latest <- MCLatest
    Schemas <- MCSchemas
INVARIANTS
    TypeOK
    OpenedAtItsSchema
    MigrationRunsAlone
    WritersExclude
    NeverGivesUp
PROPERTIES
    SchemaOnlyAdvancesAlone
    OpenReturns
