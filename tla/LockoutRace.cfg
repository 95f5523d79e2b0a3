\* Two overlapping handlers, two accounts tried from two addresses.
CONSTANTS
    Handlers = {h1, h2}
    Ips = {ip1, ip2}
    Users = {alice, bob}
    MaxAttempts = 2
    Window = 1
    MaxLogins = 4
    MaxTime = 2
SPECIFICATION Spec
SYMMETRY Symmetry
INVARIANTS BoundedGuesses LockEngages
\* MaxLogins bounds the behaviour.
CHECK_DEADLOCK FALSE
