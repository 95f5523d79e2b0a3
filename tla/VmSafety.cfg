\* One commit, two commands of the operator, no token in the secrets.
CONSTANTS
    MaxCommits = 1
    TokenSecret = FALSE
    MaxCommands = 2
SPECIFICATION VmSpec
INVARIANTS OnlyWanted
CHECK_DEADLOCK FALSE
