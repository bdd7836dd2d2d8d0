CONSTANTS
    SubmitEvs = {}
    ScanEvs = {e1, e2}
    Daemon = Daemon
    QDrain = QDrain
    MaxKeys = 2
    Crashes = TRUE
    NoReply = TRUE
    Broken = Broken
    Unsigned = Unsigned
    None = None
SPECIFICATION AgentSpec
INVARIANT AtLeastOnce
