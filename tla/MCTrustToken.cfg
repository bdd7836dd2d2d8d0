\* The run daemon with --hb 1h, whose heartbeat await may run an hour past
\* hb_next, beside one command process.  The server issues tokens whose
\* claims segment decodes and tokens whose claims segment does not.
CONSTANTS
    Cmds = {c1}
    Daemon = run
    Threshold = 2
    HB = 1
    MaxLate = 1
    Lifetimes = {3, 5}
    ClaimsLens = {6, 7}
    EmptyTok = EmptyTok
    None = None
SPECIFICATION TokSpec
INVARIANT ReadableRenewedBeforeExpiry
