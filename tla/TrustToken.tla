------------------------------ MODULE TrustToken ------------------------------
(***************************************************************************)
(* The trust token of pea-agent: provisioning (provision.rs, the          *)
(* provision command of main.rs) and renewal (maybe_renew_token,           *)
(* parse_jwt_exp in main.rs) as the commands and the `run` daemon use it.  *)
(*                                                                         *)
(* Time is counted in whole units (one unit = one hour) and kept relative: *)
(* a token records `left` = exp - now (0 once it has expired), so a tick   *)
(* of the clock decrements it.  A token also records the byte length of   *)
(* its JSON claims, which decides whether parse_jwt_exp can decode it.     *)
(* The token store is what load_trust_ack returns (the two backends and    *)
(* their disagreements are the Vault module's business).                  *)
(*                                                                         *)
(* Every network call but the heartbeat has a timeout of 10-30 seconds,   *)
(* far below one unit, so no time passes while a process awaits one.  The *)
(* heartbeat's send has none: time passes while the daemon awaits it, and *)
(* that await can outlast hb_next by MaxLate units.  Between the entries  *)
(* of a drain, and while the daemon sleeps, time passes too.             *)
(***************************************************************************)
EXTENDS Naturals

CONSTANTS
    Cmds,        \* processes running a command that renews before its request
    Daemon,      \* the `run` daemon
    Threshold,   \* maybe_renew_token renews when exp - now <= Threshold (2 h)
    HB,          \* the run loop's heartbeat interval (--hb)
    MaxLate,     \* bound on the time a heartbeat await runs past hb_next
    Lifetimes,   \* exp - now of the tokens the server issues
    ClaimsLens,  \* byte lengths of the JSON claims of the tokens issued
    EmptyTok,    \* the empty string provision returns without a trust_ack
    None         \* no token

Procs == Cmds \cup {Daemon}

\* A JWT as the agent sees it: the time it has left and its claims length.
Tok == [left : Nat, clen : ClaimsLens]

ASSUME TokenAssumption ==
    /\ Threshold \in Nat
    /\ HB \in Nat \ {0}
    /\ MaxLate \in Nat
    /\ Lifetimes \subseteq Nat \ {0}
    /\ ClaimsLens \subseteq Nat
    /\ Daemon \notin Cmds
    /\ None # EmptyTok /\ None \notin Nat
    /\ None \notin Tok /\ EmptyTok \notin Tok

VARIABLES
    stored,       \* the token load_trust_ack returns, EmptyTok or None
    hbWait,       \* time until the run loop's hb_next
    late,         \* time the daemon's current heartbeat await ran past hb_next
    pc,           \* pc[p]: "idle", "renewing" (awaiting the renew call),
                  \*   "sending" (about to send its authenticated request) or,
                  \*   for the daemon, "beating" (awaiting send_heartbeat)
    held,         \* held[p]: the bearer of p's renew request
    mode,         \* what the daemon is doing: "beat" or "drain"
    drainTok,     \* the token the daemon's drain callback read (main.rs:409)
    renewFailed   \* a renewal was due since the stored token was saved and
                  \*   failed (history variable)

vars == <<stored, hbWait, late, pc, held, mode, drainTok, renewFailed>>

NoTok == {EmptyTok, None}

TokTypeOK ==
    /\ stored \in Tok \cup NoTok
    /\ hbWait \in 0..HB
    /\ late \in 0..MaxLate
    /\ pc \in [Procs -> {"idle", "renewing", "sending", "beating"}]
    /\ held \in [Procs -> Tok \cup NoTok]
    /\ mode \in {"beat", "drain"}
    /\ drainTok \in Tok \cup NoTok
    /\ renewFailed \in BOOLEAN

TokInit ==
    /\ stored = None
    /\ hbWait = 0
    /\ late = 0
    /\ pc = [p \in Procs |-> "idle"]
    /\ held = [p \in Procs |-> None]
    /\ mode = "beat"
    /\ drainTok = None
    /\ renewFailed = FALSE

-----------------------------------------------------------------------------
(* parse_jwt_exp: split on '.', map the base64url alphabet to the standard *)
(* one and decode with general_purpose::STANDARD, which requires canonical *)
(* padding.  The claims segment is unpadded, B64Len(n) characters for n    *)
(* bytes, so it decodes only when that length is a multiple of 4.  The     *)
(* result is given relative to now: exp - now.                             *)
B64Len(n) == (4 * n + 2) \div 3

ParseJwtExp(t) ==
    IF t \notin NoTok /\ B64Len(t.clen) % 4 = 0 THEN t.left ELSE None

\* Mutant: the threshold compared with < instead of <=.
DueStrict(t) == ParseJwtExp(t) # None /\ ParseJwtExp(t) < Threshold

\* maybe_renew_token's condition: a token parses and exp - now <= 2 h.
Due(t) == ParseJwtExp(t) # None /\ ParseJwtExp(t) <= Threshold

\* maybe_renew_token up to its await: load, parse, and post the renewal
\* with the current token as bearer, or return at once.
MaybeRenew(p) ==
    \/ /\ Due(stored)
       /\ pc' = [pc EXCEPT ![p] = "renewing"]
       /\ held' = [held EXCEPT ![p] = stored]
    \/ /\ ~Due(stored)
       /\ pc' = [pc EXCEPT ![p] = "sending"]
       /\ UNCHANGED held

\* submit, scanner-sim, scan-*, heartbeat and the queue-drain callback
\* call maybe_renew_token before building their request.
CmdStart(c) ==
    /\ pc[c] = "idle"
    /\ MaybeRenew(c)
    /\ UNCHANGED <<stored, hbWait, late, mode, drainTok, renewFailed>>

\* The renew call returns.  On a success status with a trust_ack the new
\* token is saved (save_trust_ack's error is ignored: a failed save leaves
\* the old token); on an error, a timeout, another status or no trust_ack
\* nothing changes.
RenewReply(p) ==
    /\ pc[p] = "renewing"
    /\ pc' = [pc EXCEPT ![p] = "sending"]
    /\ held' = [held EXCEPT ![p] = None]
    /\ \/ /\ \E l \in Lifetimes, n \in ClaimsLens :
                stored' = [left |-> l, clen |-> n]
          /\ renewFailed' = FALSE
       \/ /\ renewFailed' = TRUE
          /\ UNCHANGED stored
    /\ UNCHANGED <<hbWait, late, mode, drainTok>>

\* The token the request of p carries: what load_trust_ack returns when the
\* request is built, except in the run loop's drain callback, which read it
\* before calling maybe_renew_token.
Bearer(p) == IF p = Daemon /\ mode = "drain" THEN drainTok ELSE stored

\* A command sends its request.
CmdSend(c) ==
    /\ pc[c] = "sending"
    /\ pc' = [pc EXCEPT ![c] = "idle"]
    /\ UNCHANGED <<stored, hbWait, late, held, mode, drainTok, renewFailed>>

\* provision (and the provisioning step of reset): register; on success
\* save the trust_ack, or "" when the response has none.  A failed request
\* or a failed save changes nothing.
Provision(c) ==
    /\ pc[c] = "idle"
    /\ \/ \E l \in Lifetimes, n \in ClaimsLens :
             stored' = [left |-> l, clen |-> n]
       \/ stored' = EmptyTok
    /\ renewFailed' = FALSE
    /\ UNCHANGED <<hbWait, late, pc, held, mode, drainTok>>

-----------------------------------------------------------------------------
(* The run loop: when hb_next has come, renew and send a heartbeat, then   *)
(* set hb_next = now + hb; otherwise, when qd_next has come, drain, with a *)
(* callback per queued entry that reads the token, renews, and posts.      *)

\* hb_next = now + hb, with the now read when the iteration began, so the
\* next beat is due HB units after this one starts, however long it takes.
DaemonBeat ==
    /\ pc[Daemon] = "idle"
    /\ hbWait = 0
    /\ mode' = "beat"
    /\ hbWait' = HB
    /\ late' = 0
    /\ MaybeRenew(Daemon)
    /\ UNCHANGED <<stored, drainTok, renewFailed>>

\* send_heartbeat builds its request (its own load_trust_token) and
\* awaits req.send(), which has no timeout.
HeartbeatSend ==
    /\ pc[Daemon] = "sending"
    /\ mode = "beat"
    /\ pc' = [pc EXCEPT ![Daemon] = "beating"]
    /\ UNCHANGED <<stored, hbWait, late, held, mode, drainTok, renewFailed>>

\* The bus answers the heartbeat (or the connection fails).
HeartbeatReply ==
    /\ pc[Daemon] = "beating"
    /\ pc' = [pc EXCEPT ![Daemon] = "idle"]
    /\ UNCHANGED <<stored, hbWait, late, held, mode, drainTok, renewFailed>>

DaemonDrainEntry ==
    /\ pc[Daemon] = "idle"
    /\ hbWait > 0
    /\ mode' = "drain"
    /\ drainTok' = stored
    /\ MaybeRenew(Daemon)
    /\ UNCHANGED <<stored, hbWait, late, renewFailed>>

DrainSend ==
    /\ pc[Daemon] = "sending"
    /\ mode = "drain"
    /\ pc' = [pc EXCEPT ![Daemon] = "idle"]
    /\ drainTok' = None
    /\ UNCHANGED <<stored, hbWait, late, held, mode, renewFailed>>

\* One unit of time passes while no process awaits a call with a timeout:
\* the commands are not running, and the daemon sleeps, is between two
\* drain entries or awaits its heartbeat.  Past hb_next only that await
\* keeps the daemon from its next beat, and only for MaxLate units.
Age(t) == IF t \in NoTok THEN t ELSE [t EXCEPT !.left = IF @ > 0 THEN @ - 1 ELSE 0]

Tick ==
    /\ \A c \in Cmds : pc[c] = "idle"
    /\ pc[Daemon] \in {"idle", "beating"}
    /\ \/ /\ hbWait > 0
          /\ hbWait' = hbWait - 1
          /\ UNCHANGED late
       \/ /\ hbWait = 0
          /\ pc[Daemon] = "beating"
          /\ late < MaxLate
          /\ late' = late + 1
          /\ UNCHANGED hbWait
    /\ stored' = Age(stored)
    /\ UNCHANGED <<pc, held, mode, drainTok, renewFailed>>

TokNext ==
    \/ \E c \in Cmds : CmdStart(c) \/ CmdSend(c) \/ Provision(c)
    \/ \E p \in Procs : RenewReply(p)
    \/ DaemonBeat \/ HeartbeatSend \/ HeartbeatReply
    \/ DaemonDrainEntry \/ DrainSend
    \/ Tick

TokSpec == TokInit /\ [][TokNext]_vars

-----------------------------------------------------------------------------
(* Properties                                                             *)

\* Spec 4.4(b): the held token is renewed before it expires; it expires
\* only when renewal was never attempted or failed.  With the daemon
\* running, a stored JWT has expired only if a renewal that was due has
\* failed since it was saved.
RenewedBeforeExpiry ==
    stored \notin NoTok /\ stored.left = 0 => renewFailed

\* The same for the tokens maybe_renew_token can read: with the daemon
\* running, a stored JWT whose claims parse_jwt_exp decodes has expired
\* only if a renewal that was due has failed since it was saved.  This is
\* the timing of hb_next, the threshold and the heartbeat's await; the
\* tokens it cannot read are RenewedBeforeExpiry's business.
ReadableRenewedBeforeExpiry ==
    stored \notin NoTok /\ B64Len(stored.clen) % 4 = 0 /\ stored.left = 0 =>
        renewFailed

\* Spec 2 and 4.5: queued events are re-delivered using fresh tokens.  So
\* every request carries the token stored when it is sent.
FreshBearer ==
    [][\A p \in Procs : pc[p] = "sending" /\ pc'[p] # "sending" =>
          Bearer(p) = stored]_vars

\* Spec 3: a trust token is JWT-shaped (three dot-separated segments).  So
\* the agent never stores one that is not.
TokenWellFormed == stored # EmptyTok

-----------------------------------------------------------------------------
(* The strengthening that makes ReadableRenewedBeforeExpiry inductive when *)
(* a heartbeat period, overrun included, is at most the threshold and      *)
(* every token issued lives longer than one.  A stored token that parses  *)
(* and whose renewals have not failed outlives the time left until the    *)
(* daemon's next beat (hbWait, then at most MaxLate - late more), except  *)
(* while the beat's own renewal is pending, when it has not expired.      *)

Parses(t) == t \notin NoTok /\ B64Len(t.clen) % 4 = 0

\* The longest the stored token may have to last before a beat looks at it.
Horizon ==
    IF pc[Daemon] = "renewing" /\ mode = "beat" THEN 0 ELSE hbWait + MaxLate - late

OutlivesBeat == Parses(stored) /\ ~renewFailed => stored.left > Horizon

TokIInv == TokTypeOK /\ OutlivesBeat

=============================================================================
