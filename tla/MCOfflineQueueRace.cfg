\* The run daemon drains while a scan command enqueues; every write completes.
CONSTANTS
    Names <- MCNames
    Events <- MCEvents
    Drainers = {d1, d2}
    MaxClock = 3
    TornWrites = FALSE
    NoFile = NoFile
    None = None
SPECIFICATION Spec
INVARIANT EnqueuedNotLost
