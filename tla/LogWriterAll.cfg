\* Two request threads, a queue and a batch of two, two worker processes; no
\* symmetry: some of the properties are temporal.
CONSTANTS
    Threads = {t1, t2}
    QueueSize = 2
    BatchSize = 2
    FlushInterval = 2
    MaxTries = 2
    MaxRows = 3
    MaxLives = 2
SPECIFICATION FairSpec
INVARIANTS TypeOK InsertOrder Accounted
PROPERTIES DrainedExit ImplementsLog Delivered StopEnds
\* The site may be taken down: no worker runs after the last life.
CHECK_DEADLOCK FALSE
