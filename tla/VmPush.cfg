\* Two pushes, no operator; no symmetry: the property is temporal.
CONSTANTS
    MaxCommits = 2
    TokenSecret = FALSE
    MaxCommands = 0
SPECIFICATION VmFairSpec
PROPERTIES PushTaken
CHECK_DEADLOCK FALSE
