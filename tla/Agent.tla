-------------------------------- MODULE Agent --------------------------------
(***************************************************************************)
(* Event delivery in pea-agent (main.rs): the commands that scan and      *)
(* submit an event, the `run` daemon's loop of heartbeats and queue       *)
(* drains, the one-shot `queue-drain` command, and `reset` changing the   *)
(* device key underneath them.                                             *)
(*                                                                         *)
(* Each event is handled by one command invocation and queued under its  *)
(* own product code, so entries are named by events; overwriting one name *)
(* is the OfflineQueue module's business.  Token renewal is the           *)
(* TrustToken module's: here a renewal is only the await it adds before  *)
(* a request.  A request's fate is one of four outcomes: "ok" (stored,   *)
(* 2xx), "status" (refused with another status), "lost" (stored, but the *)
(* reply timed out or the connection broke) and "down" (never reached    *)
(* the server).                                                            *)
(***************************************************************************)
EXTENDS Naturals

CONSTANTS
    SubmitEvs,   \* events of `submit` invocations
    ScanEvs,     \* events of scanner-sim, scan-serial and scan-hid
    Daemon,      \* the `run` daemon
    QDrain,      \* `queue-drain` invocations, one after another
    MaxKeys,     \* bound on the device keys reset may generate
    Crashes,     \* TRUE: a crash or I/O error may interrupt fs::write
    NoReply,     \* TRUE: the bus may accept a connection and never answer
    Broken,      \* the device key after reset left an unloadable keyring key
    Unsigned,    \* the signature of a request sent without one
    None

Events == SubmitEvs \cup ScanEvs
Drainers == {Daemon, QDrain}
Outcomes == {"ok", "status", "lost", "down"}
Keys == 1..MaxKeys

ASSUME AgentAssumption ==
    /\ SubmitEvs \cap ScanEvs = {}
    /\ MaxKeys \in Nat \ {0}
    /\ Crashes \in BOOLEAN /\ NoReply \in BOOLEAN
    /\ Daemon # QDrain
    /\ Broken \notin Nat /\ Unsigned \notin Nat /\ Broken # Unsigned
    /\ None \notin Events

VARIABLES
    key,        \* the device key load_or_generate_keypair returns now
    dKey,       \* kp, loaded once when the daemon started (main.rs:396)
    cpc,        \* cpc[e]: where the command handling e is
    disk,       \* disk[e]: the queue entry of e: "none", "sealed", "corrupt"
                \*   (fails to decrypt) or "short" (under 12 bytes)
    delivered,  \* events the bus has stored
    dpc,        \* dpc[d]: where drainer d is
    todo,       \* todo[d]: entries of d's read_dir not yet visited
    dcur        \* dcur[d]: the entry d's callback is submitting

vars == <<key, dKey, cpc, disk, delivered, dpc, todo, dcur>>

CmdStates == {"idle", "sending", "finished", "crashed", "nokey"}
DrainStates == {"top", "hb", "hung", "drain", "sub", "dead", "idle"}

AgentTypeOK ==
    /\ key \in Keys \cup {Broken}
    /\ dKey \in Keys
    /\ cpc \in [Events -> CmdStates]
    /\ disk \in [Events -> {"none", "sealed", "corrupt", "short"}]
    /\ delivered \subseteq Events
    /\ dpc \in [Drainers -> DrainStates]
    /\ todo \in [Drainers -> SUBSET Events]
    /\ dcur \in [Drainers -> Events \cup {None}]

\* The daemon is running with the key it loaded; no command has run yet.
AgentInit ==
    /\ key = 1
    /\ dKey = key
    /\ cpc = [e \in Events |-> "idle"]
    /\ disk = [e \in Events |-> "none"]
    /\ delivered = {}
    /\ dpc = [d \in Drainers |-> IF d = Daemon THEN "top" ELSE "idle"]
    /\ todo = [d \in Drainers |-> {}]
    /\ dcur = [d \in Drainers |-> None]

\* Where a drainer goes when its drain returns, and when it panics: the
\* daemon goes on looping or is gone for good; a queue-drain invocation
\* exits and the next one starts afresh.
Home(d) == IF d = Daemon THEN "top" ELSE "idle"
Died(d) == IF d = Daemon THEN "dead" ELSE "idle"

\* The bus has the event after a request with outcome o.
Stored(o) == o \in {"ok", "lost"}

-----------------------------------------------------------------------------
(* The commands.  Each loads the keypair (failing at once if the keyring  *)
(* holds a key of the wrong length), signs, and awaits maybe_renew_token *)
(* before sending.                                                        *)

CmdStart(e) ==
    /\ cpc[e] = "idle"
    /\ cpc' = [cpc EXCEPT ![e] = IF key = Broken THEN "nokey" ELSE "sending"]
    /\ UNCHANGED <<key, dKey, disk, delivered, dpc, todo, dcur>>

\* submit: `req.send().await?` returns the transport error, and any status
\* is printed and answered with Ok.  Nothing is enqueued.
SubmitSend(e) ==
    /\ e \in SubmitEvs
    /\ cpc[e] = "sending"
    /\ \E o \in Outcomes :
          delivered' = IF Stored(o) THEN delivered \cup {e} ELSE delivered
    /\ cpc' = [cpc EXCEPT ![e] = "finished"]
    /\ UNCHANGED <<key, dKey, disk, dpc, todo, dcur>>

\* Mutant: any response taken for a success, its status unchecked.
ScanSucceededAnyResponse(o) == o \in {"ok", "status"}

\* The scan commands' `Ok(r) if r.status().is_success()` arm.
ScanSucceeded(o) == o = "ok"

\* queue::enqueue(code, payload)?: fs::write truncates and writes, so a
\* crash or an error in between leaves a short or unauthenticated file and
\* the command dies or returns the error.
EnqueueEv(e) ==
    \/ /\ disk' = [disk EXCEPT ![e] = "sealed"]
       /\ cpc' = [cpc EXCEPT ![e] = "finished"]
    \/ /\ Crashes
       /\ \E k \in {"corrupt", "short"} : disk' = [disk EXCEPT ![e] = k]
       /\ cpc' = [cpc EXCEPT ![e] = "crashed"]

\* scanner-sim, scan-serial, scan-hid: send, and on any failure enqueue.
ScanSend(e) ==
    /\ e \in ScanEvs
    /\ cpc[e] = "sending"
    /\ \E o \in Outcomes :
          /\ delivered' = IF Stored(o) THEN delivered \cup {e} ELSE delivered
          /\ \/ /\ ScanSucceeded(o)
                /\ cpc' = [cpc EXCEPT ![e] = "finished"]
                /\ UNCHANGED disk
             \/ /\ ~ScanSucceeded(o)
                /\ EnqueueEv(e)
    /\ UNCHANGED <<key, dKey, dpc, todo, dcur>>

\* reset: delete the key on both backends, generate one and re-provision.
\* With the keyring usable the deleted key reads back as empty bytes and
\* the key is unloadable from then on (see Vault); on the file backend a
\* new key is generated.
Reset ==
    /\ key \in Keys
    /\ \/ key < MaxKeys /\ key' = key + 1
       \/ key' = Broken
    /\ UNCHANGED <<dKey, cpc, disk, delivered, dpc, todo, dcur>>

-----------------------------------------------------------------------------
(* The run loop: when hb_next has come, renew and send a heartbeat signed *)
(* with kp; when qd_next has come, drain.                                 *)

BeatStart ==
    /\ dpc[Daemon] = "top"
    /\ dpc' = [dpc EXCEPT ![Daemon] = "hb"]
    /\ UNCHANGED <<key, dKey, cpc, disk, delivered, todo, dcur>>

\* send_heartbeat returns (its error is logged), then hb_next = now + hb.
HeartbeatReply ==
    /\ dpc[Daemon] = "hb"
    /\ dpc' = [dpc EXCEPT ![Daemon] = "top"]
    /\ UNCHANGED <<key, dKey, cpc, disk, delivered, todo, dcur>>

\* send_heartbeat's request has no timeout: if the bus never answers, the
\* await never returns.
HeartbeatStall ==
    /\ NoReply
    /\ dpc[Daemon] = "hb"
    /\ dpc' = [dpc EXCEPT ![Daemon] = "hung"]
    /\ UNCHANGED <<key, dKey, cpc, disk, delivered, todo, dcur>>

-----------------------------------------------------------------------------
(* queue::drain, by the daemon and by queue-drain: read_dir, then for each *)
(* entry read, split_at(12), decrypt, await the callback, remove on Ok.   *)

DrainStart(d) ==
    /\ dpc[d] = Home(d)
    /\ dpc' = [dpc EXCEPT ![d] = "drain"]
    /\ todo' = [todo EXCEPT ![d] = {e \in Events : disk[e] # "none"}]
    /\ UNCHANGED <<key, dKey, cpc, disk, delivered, dcur>>

\* fs::read(&path)? on an entry removed since read_dir ends the drain with
\* Err (the daemon logs it, queue-drain exits with it); a file under 12
\* bytes makes split_at(12) panic and kills the process; one that fails to
\* decrypt is skipped.
DrainRead(d, e) ==
    /\ dpc[d] = "drain"
    /\ e \in todo[d]
    /\ \/ /\ disk[e] = "none"
          /\ dpc' = [dpc EXCEPT ![d] = Home(d)]
          /\ todo' = [todo EXCEPT ![d] = {}]
          /\ UNCHANGED dcur
       \/ /\ disk[e] = "short"
          /\ dpc' = [dpc EXCEPT ![d] = Died(d)]
          /\ todo' = [todo EXCEPT ![d] = {}]
          /\ UNCHANGED dcur
       \/ /\ disk[e] = "corrupt"
          /\ todo' = [todo EXCEPT ![d] = @ \ {e}]
          /\ UNCHANGED <<dpc, dcur>>
       \/ /\ disk[e] = "sealed"
          /\ dpc' = [dpc EXCEPT ![d] = "sub"]
          /\ todo' = [todo EXCEPT ![d] = @ \ {e}]
          /\ dcur' = [dcur EXCEPT ![d] = e]
    /\ UNCHANGED <<key, dKey, cpc, disk, delivered>>

\* The callback's result: Err on a transport error and, by the explicit
\* check, on a status other than success.
CallbackOk(o) == o = "ok"

\* Whether d's callback sends a request: queue-drain's first reloads the
\* keypair with `?`, which fails once the key is unloadable.
Sends(d) == d = Daemon \/ key # Broken

\* Mutant: the callback's Err propagated with `?`, ending the drain.
DrainReplyStopsOnErr(d, o) ==
    /\ dpc[d] = "sub"
    /\ Sends(d) \/ o = "down"
    /\ delivered' = IF Sends(d) /\ Stored(o) THEN delivered \cup {dcur[d]}
                                             ELSE delivered
    /\ disk' = IF Sends(d) /\ CallbackOk(o) THEN [disk EXCEPT ![dcur[d]] = "none"]
                                            ELSE disk
    /\ dpc' = [dpc EXCEPT ![d] = IF Sends(d) /\ CallbackOk(o) THEN "drain"
                                                               ELSE Home(d)]
    /\ todo' = [todo EXCEPT ![d] = IF Sends(d) /\ CallbackOk(o) THEN @ ELSE {}]
    /\ dcur' = [dcur EXCEPT ![d] = None]
    /\ UNCHANGED <<key, dKey, cpc>>

\* The callback returns with outcome o: Ok removes the file (its error
\* ignored); Err sleeps two seconds and the drain goes on.
DrainReplyWith(d, o) ==
    /\ dpc[d] = "sub"
    /\ Sends(d) \/ o = "down"
    /\ delivered' = IF Sends(d) /\ Stored(o) THEN delivered \cup {dcur[d]}
                                             ELSE delivered
    /\ disk' = IF Sends(d) /\ CallbackOk(o) THEN [disk EXCEPT ![dcur[d]] = "none"]
                                            ELSE disk
    /\ dpc' = [dpc EXCEPT ![d] = "drain"]
    /\ dcur' = [dcur EXCEPT ![d] = None]
    /\ UNCHANGED <<key, dKey, cpc, todo>>

DrainReply(d) == \E o \in Outcomes : DrainReplyWith(d, o)

DrainEnd(d) ==
    /\ dpc[d] = "drain"
    /\ todo[d] = {}
    /\ dpc' = [dpc EXCEPT ![d] = Home(d)]
    /\ UNCHANGED <<key, dKey, cpc, disk, delivered, todo, dcur>>

-----------------------------------------------------------------------------

DaemonStep ==
    \/ BeatStart \/ HeartbeatReply \/ HeartbeatStall
    \/ DrainStart(Daemon)
    \/ \E e \in Events : DrainRead(Daemon, e)
    \/ DrainReply(Daemon)
    \/ DrainEnd(Daemon)

QDrainStep ==
    \/ DrainStart(QDrain)
    \/ \E e \in Events : DrainRead(QDrain, e)
    \/ DrainReply(QDrain)
    \/ DrainEnd(QDrain)

AgentNext ==
    \/ \E e \in Events : CmdStart(e) \/ SubmitSend(e) \/ ScanSend(e)
    \/ Reset
    \/ DaemonStep
    \/ QDrainStep

AgentSpec == AgentInit /\ [][AgentNext]_vars

(* The daemon is one task on its own runtime: while it can step it does   *)
(* (weak fairness).  qd_next = now + qd comes round every qd seconds      *)
(* whatever heartbeats are sent, so a drain that can start infinitely     *)
(* often does start (strong fairness).  Nothing is assumed of the bus:   *)
(* it may fail every request.  Commands, resets and queue-drain are run  *)
(* by a user and get no fairness.                                          *)
AgentFairness ==
    /\ WF_vars(DaemonStep)
    /\ SF_vars(DrainStart(Daemon))

AgentFairSpec == AgentSpec /\ AgentFairness

-----------------------------------------------------------------------------
(* Properties                                                             *)

\* Spec 4.5 and 7: on any transport or non-success-status failure the
\* event is handed to the offline queue.  So an event whose command ran to
\* its end, and did not die writing the queue, is stored by the bus or is
\* sealed in the queue.
AtLeastOnce ==
    \A e \in Events :
        cpc[e] = "finished" => e \in delivered \/ disk[e] = "sealed"

\* Spec 1 and 4.3: queued events survive outages and are re-delivered by
\* the run daemon's periodic drain.  So, whatever the bus answers, every
\* event sealed in the queue is eventually submitted by the daemon's drain
\* callback (or leaves the queue another way): an entry the drain meets
\* before it must not stop the drain from reaching it.
QueuedEventuallySent ==
    \A e \in Events : disk[e] = "sealed" ~> (disk[e] # "sealed" \/ dcur[Daemon] = e)

\* Spec 3 and 4.2: the device key is regenerated only on reset, and the
\* keypair signs for the process.  So every heartbeat the daemon sends is
\* signed with the device's current key.
DaemonKeyCurrent ==
    [][dpc[Daemon] = "hb" /\ dpc'[Daemon] # "hb" => dKey = key]_vars

\* The signature a drainer's callback puts on the request it sends.
DrainSignature(d) == IF d = Daemon THEN Unsigned ELSE key

\* Spec 4.5: draining re-invokes the signing step at drain time with the
\* persisted keypair.  So every queued event a drain sends is signed with
\* the device's current key.
DrainSigned ==
    [][\A d \in Drainers :
          dpc[d] = "sub" /\ dpc'[d] = "drain" /\ Sends(d) => DrainSignature(d) = key]_vars

=============================================================================
