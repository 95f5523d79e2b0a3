\* One client that keeps trying while it is locked.
CONSTANTS
    Handlers = {h1}
    Ips = {ip1}
    Users = {alice}
    MaxAttempts = 2
    Window = 1
    MaxLogins = 6
    MaxTime = 3
SPECIFICATION Spec
SYMMETRY Symmetry
INVARIANTS LockEnds
\* MaxLogins bounds the behaviour.
CHECK_DEADLOCK FALSE
