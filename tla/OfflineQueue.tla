---------------------------- MODULE OfflineQueue ----------------------------
(***************************************************************************)
(* The durable offline queue of pea-agent (src/pea-agent/src/queue.rs) and *)
(* the drain loop that re-delivers it.  The queue directory is a function  *)
(* from entry names to blobs; a blob records the event it was written for  *)
(* and whether it is a complete AEAD blob ("sealed"), a blob of at least   *)
(* 12 bytes that fails authentication ("corrupt"), or one shorter than the *)
(* 12-byte nonce ("short").  The key derivation and the cipher are         *)
(* abstracted to that three-way outcome of decrypting.                     *)
(*                                                                         *)
(* Several processes share the directory without locking: the `run`       *)
(* daemon and `queue-drain` invocations drain it (the Drainers), and the   *)
(* scan commands enqueue into it.  A drain is a sequence of steps with an  *)
(* await on the network between reading an entry and removing it, so      *)
(* other processes run in between.  Any process may crash at any point.   *)
(***************************************************************************)
EXTENDS Naturals, FiniteSets

CONSTANTS
    Names,       \* entry names (the product codes events are queued under)
    Events,      \* event payloads (plaintexts)
    Drainers,    \* processes that run queue::drain
    MaxClock,    \* bound on the number of writes to the queue directory
    TornWrites,  \* TRUE: a crash or an I/O error may interrupt fs::write
    NoFile,      \* the value of disk[n] when there is no file n.bin
    None         \* no event held / acknowledged

Kinds == {"sealed", "corrupt", "short"}

\* A blob on disk: the event it was written for, the outcome of decrypting
\* it, and its modification time (the logical clock of the write).
Blob == [ev : Events, kind : Kinds, mtime : 0..MaxClock]

ASSUME ConstAssumption ==
    /\ MaxClock \in Nat
    /\ TornWrites \in BOOLEAN
    /\ NoFile \notin Blob
    /\ None \notin Events
    /\ None \notin Names

VARIABLES
    disk,       \* disk[n]: the file queue/n.bin, or NoFile
    clock,      \* logical time: number of writes so far (file mtimes)
    dpc,        \* dpc[d]: where drainer d is in queue::drain
    todo,       \* todo[d]: entries of d's read_dir not yet visited
    cur,        \* cur[d]: the entry d is submitting
    held,       \* held[d]: the plaintext d decrypted from cur[d]
    delivered,  \* events the server has accepted
    acked       \* acked[n]: the event of the last enqueue(n, _) that
                \*   returned Ok and has not been pruned (history variable)

vars == <<disk, clock, dpc, todo, cur, held, delivered, acked>>

TypeOK ==
    /\ disk \in [Names -> Blob \cup {NoFile}]
    /\ clock \in 0..MaxClock
    /\ dpc \in [Drainers -> {"idle", "reading", "submitting"}]
    /\ todo \in [Drainers -> SUBSET Names]
    /\ cur \in [Drainers -> Names \cup {None}]
    /\ held \in [Drainers -> Events \cup {None}]
    /\ delivered \in SUBSET Events
    /\ acked \in [Names -> Events \cup {None}]

Init ==
    /\ disk = [n \in Names |-> NoFile]
    /\ clock = 0
    /\ dpc = [d \in Drainers |-> "idle"]
    /\ todo = [d \in Drainers |-> {}]
    /\ cur = [d \in Drainers |-> None]
    /\ held = [d \in Drainers |-> None]
    /\ delivered = {}
    /\ acked = [n \in Names |-> None]

\* What reading and decrypting queue/n.bin gives: "absent" if there is no file.
KindOf(n) == IF disk[n] = NoFile THEN "absent" ELSE disk[n].kind

-----------------------------------------------------------------------------
(* enqueue(name, data): fs::write of nonce || ciphertext to name.bin.      *)
(* It replaces whatever file had that name.                                *)

Enqueue(n, e) ==
    /\ clock < MaxClock
    /\ disk' = [disk EXCEPT ![n] = [ev |-> e, kind |-> "sealed", mtime |-> clock]]
    /\ clock' = clock + 1
    /\ acked' = [acked EXCEPT ![n] = e]
    /\ UNCHANGED <<dpc, todo, cur, held, delivered>>

(* fs::write truncates the file and then writes it: a crash or an I/O     *)
(* error in between leaves an empty or partial file, and enqueue does not *)
(* return Ok.  The entry an earlier enqueue(n, _) wrote is gone, and     *)
(* acked[n] still names its event: nothing has replaced it by a write     *)
(* that succeeded.                                                        *)
EnqueueTorn(n, e) ==
    /\ TornWrites
    /\ clock < MaxClock
    /\ \E k \in {"corrupt", "short"} :
          disk' = [disk EXCEPT ![n] = [ev |-> e, kind |-> k, mtime |-> clock]]
    /\ clock' = clock + 1
    /\ UNCHANGED <<dpc, todo, cur, held, delivered, acked>>

-----------------------------------------------------------------------------
(* drain(submit): read_dir, then for every .bin entry read, decrypt,       *)
(* await submit(pt), and remove the file if submit returned Ok.            *)

DrainStart(d) ==
    /\ dpc[d] = "idle"
    /\ dpc' = [dpc EXCEPT ![d] = "reading"]
    /\ todo' = [todo EXCEPT ![d] = {n \in Names : disk[n] # NoFile}]
    /\ UNCHANGED <<disk, clock, cur, held, delivered, acked>>

\* Visiting entry n.  fs::read(&path)? on an entry another process has
\* removed since read_dir returns Err and ends the whole drain; a file
\* shorter than 12 bytes makes data.split_at(12) panic, which kills the
\* process; a decrypt failure skips the entry and leaves it on disk.
DrainRead(d, n) ==
    /\ dpc[d] = "reading"
    /\ n \in todo[d]
    /\ \/ /\ KindOf(n) \in {"absent", "short"}
          /\ dpc' = [dpc EXCEPT ![d] = "idle"]
          /\ todo' = [todo EXCEPT ![d] = {}]
          /\ UNCHANGED <<cur, held>>
       \/ /\ KindOf(n) = "corrupt"
          /\ todo' = [todo EXCEPT ![d] = @ \ {n}]
          /\ UNCHANGED <<dpc, cur, held>>
       \/ /\ KindOf(n) = "sealed"
          /\ dpc' = [dpc EXCEPT ![d] = "submitting"]
          /\ todo' = [todo EXCEPT ![d] = @ \ {n}]
          /\ cur' = [cur EXCEPT ![d] = n]
          /\ held' = [held EXCEPT ![d] = disk[n].ev]
    /\ UNCHANGED <<disk, clock, delivered, acked>>

\* Mutant: the entry's name handed to submit instead of its plaintext.
DrainSubmitOkPath(d) ==
    /\ dpc[d] = "submitting"
    /\ delivered' = delivered \cup {cur[d]}
    /\ disk' = [disk EXCEPT ![cur[d]] = NoFile]
    /\ dpc' = [dpc EXCEPT ![d] = "reading"]
    /\ cur' = [cur EXCEPT ![d] = None]
    /\ held' = [held EXCEPT ![d] = None]
    /\ UNCHANGED <<clock, todo, acked>>

\* submit(pt) returned Ok: the server has the event; remove_file(&path),
\* whose error is ignored, removes whatever file has that name now.
DrainSubmitOk(d) ==
    /\ dpc[d] = "submitting"
    /\ delivered' = delivered \cup {held[d]}
    /\ disk' = [disk EXCEPT ![cur[d]] = NoFile]
    /\ dpc' = [dpc EXCEPT ![d] = "reading"]
    /\ cur' = [cur EXCEPT ![d] = None]
    /\ held' = [held EXCEPT ![d] = None]
    /\ UNCHANGED <<clock, todo, acked>>

\* submit(pt) returned Err: sleep two seconds and continue with the next
\* entry; the file stays for the next drain.
DrainSubmitFail(d) ==
    /\ dpc[d] = "submitting"
    /\ dpc' = [dpc EXCEPT ![d] = "reading"]
    /\ cur' = [cur EXCEPT ![d] = None]
    /\ held' = [held EXCEPT ![d] = None]
    /\ UNCHANGED <<disk, clock, todo, delivered, acked>>

DrainFinish(d) ==
    /\ dpc[d] = "reading"
    /\ todo[d] = {}
    /\ dpc' = [dpc EXCEPT ![d] = "idle"]
    /\ UNCHANGED <<disk, clock, todo, cur, held, delivered, acked>>

\* The drainer process dies (killed, or a panic elsewhere); its in-memory
\* state is lost and the files stay.  A restarted process starts idle.
DrainerCrash(d) ==
    /\ dpc[d] # "idle"
    /\ dpc' = [dpc EXCEPT ![d] = "idle"]
    /\ todo' = [todo EXCEPT ![d] = {}]
    /\ cur' = [cur EXCEPT ![d] = None]
    /\ held' = [held EXCEPT ![d] = None]
    /\ UNCHANGED <<disk, clock, delivered, acked>>

-----------------------------------------------------------------------------
(* prune_by_age(days): remove every .bin file modified before             *)
(* now - days.  Whatever days is, the removed files are those with an      *)
(* mtime before some cutoff c: c = clock + 1 is days = 0, c = 0 a days     *)
(* larger than the queue's age.                                           *)
PruneByAge(c) ==
    /\ LET old == {n \in Names : disk[n] # NoFile /\ disk[n].mtime < c}
       IN  /\ disk' = [n \in Names |-> IF n \in old THEN NoFile ELSE disk[n]]
           /\ acked' = [n \in Names |-> IF n \in old THEN None ELSE acked[n]]
    /\ UNCHANGED <<clock, dpc, todo, cur, held, delivered>>

Next ==
    \/ \E n \in Names, e \in Events : Enqueue(n, e) \/ EnqueueTorn(n, e)
    \/ \E d \in Drainers :
          \/ DrainStart(d)
          \/ \E n \in Names : DrainRead(d, n)
          \/ DrainSubmitOk(d)
          \/ DrainSubmitFail(d)
          \/ DrainFinish(d)
          \/ DrainerCrash(d)
    \/ \E c \in 0..clock + 1 : PruneByAge(c)

Spec == Init /\ [][Next]_vars

-----------------------------------------------------------------------------
(* Properties                                                             *)

\* The spec (4.3): enqueue must not lose data already durably written by a
\* prior successful enqueue; overwrite by name and pruning are allowed.
\* A write is all-or-nothing, so one that fails must leave the old entry.
\* So the event of the last successful enqueue under a name is still on
\* disk under that name, or has been delivered.
EnqueuedNotLost ==
    \A n \in Names :
        acked[n] # None =>
            \/ KindOf(n) = "sealed" /\ disk[n].ev = acked[n]
            \/ acked[n] \in delivered

-----------------------------------------------------------------------------
\* A drainer between its read and its remove holds an entry and an event.
SubmittingWF ==
    \A d \in Drainers :
        dpc[d] = "submitting" => cur[d] \in Names /\ held[d] \in Events

=============================================================================
