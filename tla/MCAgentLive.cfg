CONSTANTS
    SubmitEvs = {s1}
    ScanEvs = {e1, e2}
    Daemon = Daemon
    QDrain = QDrain
    MaxKeys = 2
    Crashes = FALSE
    NoReply = FALSE
    Broken = Broken
    Unsigned = Unsigned
    None = None
SPECIFICATION AgentFairSpec
PROPERTY QueuedEventuallySent
