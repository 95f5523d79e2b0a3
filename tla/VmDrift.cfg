\* Two pushes, no operator.
CONSTANTS
    MaxCommits = 2
    TokenSecret = FALSE
    MaxCommands = 0
SPECIFICATION VmSpec
PROPERTIES DriftVisible
CHECK_DEADLOCK FALSE
