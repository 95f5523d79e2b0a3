\* Three pushes: a rollback, a run after it, and a migration that outlives its run.
CONSTANTS
    MaxCommits = 3
    TokenSecret = TRUE
    MaxFiles = 2
    Statements = 2
SPECIFICATION ReleaseSpec
INVARIANTS TypeOK SchemaReady RollbackTarget RecordedApplied ServedSchema
PROPERTIES RollbackRestores ImplementsDeploy
CHECK_DEADLOCK FALSE
