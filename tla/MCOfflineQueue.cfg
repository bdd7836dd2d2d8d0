\* Two drainers (the run daemon and a queue-drain invocation) beside scan
\* commands that enqueue at any time; writes may be torn by a crash.
CONSTANTS
    Names <- MCNames
    Events <- MCEvents
    Drainers = {d1, d2}
    MaxClock = 3
    TornWrites = TRUE
    NoFile = NoFile
    None = None
SPECIFICATION Spec
INVARIANT TypeOK
