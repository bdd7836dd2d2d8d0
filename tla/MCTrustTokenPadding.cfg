\* As MCTrustToken.cfg: tokens whose claims are 6 or 7 bytes long, and the
\* second kind does not decode.
CONSTANTS
    Cmds = {c1}
    Daemon = run
    Threshold = 2
    HB = 1
    MaxLate = 1
    Lifetimes = {3, 5}
    ClaimsLens = {6, 7}
    EmptyTok = EmptyTok
    None = None
SPECIFICATION TokSpec
INVARIANT RenewedBeforeExpiry
