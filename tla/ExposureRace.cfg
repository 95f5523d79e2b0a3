\* No token: a quick tunnel, opened and taken down.
CONSTANTS
    MaxCommits = 1
    TokenSecret = FALSE
    MaxCommands = 2
SPECIFICATION ExposureSpec
PROPERTIES DownStaysDown
CHECK_DEADLOCK FALSE
