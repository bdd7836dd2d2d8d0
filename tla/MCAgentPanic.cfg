CONSTANTS
    SubmitEvs = {}
    ScanEvs = {e1, e2}
    Daemon = Daemon
    QDrain = QDrain
    MaxKeys = 2
    Crashes = TRUE
    NoReply = FALSE
    Broken = Broken
    Unsigned = Unsigned
    None = None
SPECIFICATION AgentFairSpec
PROPERTY QueuedEventuallySent
