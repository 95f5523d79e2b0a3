\* Three commands of the operator, no token in the secrets.
CONSTANTS
    MaxCommits = 1
    TokenSecret = FALSE
    MaxCommands = 3
SPECIFICATION ExposureFairSpec
PROPERTIES Contained QuickReturns
CHECK_DEADLOCK FALSE
