# Formal models of pea-agent (KPM-cursor)

This directory holds TLA+ models of the edge agent `pea-agent` (`src/pea-agent/src`) and of the
Kaspa broadcaster (`src/kaspa_broadcaster`). They cover the agent's secret vault with backend
failover, its durable offline queue, its trust-token provisioning and renewal, its event submission
paths with the `run` daemon, and the broadcaster's transaction building and funds check. Each model has TLC configurations that check it on small instances,
and TLAPS proofs for the results that matter most.

## 1. Inventory

### Components, their state and operations

| Component | Source | Persistent / shared state | Operations that change state |
|---|---|---|---|
| OfflineQueue | `queue.rs` | the directory `queue/` holds one `name.bin` per entry, each `nonce ‖ AES-GCM(ct)`; the file mtime | `enqueue(name, data)` (one `fs::write`), `drain(submit)` (a `read_dir` loop; per entry: read, split at 12, decrypt, await `submit`, then `remove_file` on Ok, or a 2 s sleep and `continue` on Err), `prune_by_age(days)`. `stats()` is read-only. |
| SecretStore (Vault) | `vault.rs` | the OS keyring entry (service, account) holding base64; the file `account.bin` holding `nonce ‖ ct` | `store_secret`, `load_secret`, `delete_secret` (keyring: `set_password("")`; file: remove), `load_or_store_secret_auto` (failover) |
| DeviceIdentity | `main.rs` 51–87 | the ed25519 secret key in account `device-ed25519-sk`; `device_id()` = lowercase host-user | `load_or_generate_keypair` (vault failover plus a 32-byte length check); `reset` and `uninstall` delete the key |
| TrustTokenManager | `provision.rs`, `main.rs` 20–26, 89–131 | the token in account `trust-ack-jwt` | `provision` (HMAC over `stable_stringify(body)|nonce|ts`), `save_trust_ack` (keyring, else file), `load_trust_ack` (keyring, else file), `parse_jwt_exp`, `maybe_renew_token` (renew if `exp - now <= 2h`) |
| EventSubmitter | `main.rs` 169–425 | none of its own; it uses the queue, the vault and the network | `submit` (no enqueue on failure), `scanner-sim` / `scan-serial` / `scan-hid` (enqueue under the product code on any failure), `queue-drain` (the drain callback re-signs at drain time), and the `run` loop (heartbeat and drain on timers; its drain callback sends the payload **unsigned**, with a token read before renewal) |
| Heartbeat | `heartbeat.rs` | none | `send_heartbeat`: reads `stats()` and the token, then signs and posts |
| Kaspa broadcaster | `kaspa_broadcaster/src/main.rs` | the sender wallet's UTXOs on the node; the node's mempool | `--supply-chain` and `--funding`: fetch the sender's UTXOs, sum them in u64, compute the fee, check funds, build, sign and submit a transaction spending all of them |
| Scanner, TPM | `scanner.rs`, `tpm.rs` | none | hardware polling and a stub |

### How the components interact

- Processes share the filesystem and the keyring, with no locking. Each CLI command is its own
  process. The `run` daemon is long-lived.
- So a scan command can enqueue while the daemon drains. A `queue-drain` can run beside the daemon's
  drain. A `reset` can replace the key that the daemon holds in memory.
- Inside one process everything is sequential async code. The awaits are network calls: submit,
  renew and provision. While a process is suspended at an await, other processes change the shared
  files.
- The Vault is called by key loading in every command, by `save_trust_ack`, and by `load_trust_ack`.
  `load_trust_ack` is used by every request and by the heartbeat.

### What is hard

- **Interleaving.** Drain reads an entry, awaits the network, then removes the file by name.
- **Crashes.** A crash can land between delivery and removal. `fs::write` is not atomic, so a crash
  can also tear a write.
- **Failover state.** Backend availability changes over time, and the keyring and the file can
  disagree about the key or the token.
- **Time.** Renewal depends on a threshold, is triggered only by side effects, and drops failures.

### Properties that make each component correct

- **OfflineQueue.** No successfully enqueued event is lost unless it is overwritten by name or
  pruned; a write is all-or-nothing. An entry whose submit fails stays. Every sealed entry is
  eventually submitted again by the daemon's drain.
- **Vault / DeviceIdentity.**
  - A returned key is persisted.
  - A key is always available unless both backends are unusable.
  - The key stays the same between resets.
- **TrustToken.**
  - `load_trust_ack` returns the last token saved.
  - Renewal is attempted if and only if `exp - now <= threshold`.
  - A held token is renewed before it expires whenever the renewal calls succeed.
- **EventSubmitter.**
  - Every event is delivered or queued (at-least-once).
  - Every delivered event carries a signature made with the current device key.
  - Requests carry the freshest token.

## 2. Modules and how they map to the code

| Module | Models | Proofs in |
|---|---|---|
| `OfflineQueue` | `queue.rs`: enqueue, drain by several drainers, prune | `OfflineQueueProofs` |
| `Vault` | `vault.rs` and key/token loading in `main.rs` | `VaultProofs` |
| `TrustToken` | `provision.rs`, `parse_jwt_exp`, `maybe_renew_token`, the run loop's use of the token | `TrustTokenProofs` |
| `Agent` | the submission commands, `queue-drain`, the `run` loop, `reset`'s key change | `AgentProofs` |
| `Broadcaster` | `kaspa_broadcaster/src/main.rs` | none (it uses `FiniteSetsExt`, which is recursive) |

`MC*.tla` modules only give TLC the values of constants that a `.cfg` cannot write.
`PROJECT.json` maps every definition to the lines it translates.

### OfflineQueue (`queue.rs`)

State:
- `disk[n]`: the file `n.bin`, or `NoFile`. A blob records the event it was written for, its mtime,
  and what decrypting gives: `sealed`, `corrupt` (at least 12 bytes that fail authentication), or
  `short` (under 12 bytes, so `split_at(12)` panics).
- `clock`: counts writes, for mtimes.
- Per drainer `d`: `dpc[d]`, `todo[d]` (the `read_dir` snapshot), `cur[d]` and `held[d]`.
- `delivered`: what the server accepted; `acked[n]`: the event of the last `enqueue(n, _)` that
  returned Ok (a history variable).

Actions: `Enqueue` and `EnqueueTorn` (a write is complete or, when the constant `TornWrites` is
TRUE, torn by a crash or an I/O error between `fs::write`'s truncate and its write; the old entry is
then gone and `acked` still names its event); `DrainStart`,
`DrainRead` (a missing file aborts, a short one panics, a corrupt one is skipped), `DrainSubmitOk`,
`DrainSubmitFail`, `DrainFinish`; `DrainerCrash`; `PruneByAge(c)` for any cutoff. `read_dir` is a
snapshot taken when the drain starts, and entries are visited in any order.

There is no lock around the directory, so `Enqueue` may happen at any point of a drain: between
a drainer's read and its `remove_file` included.

### Vault (`vault.rs`, `main.rs`)

State: `store[b][a]` for the two backends and two accounts (key k is the k-th key generated, 0 the
empty string the keyring's delete leaves), `up[b]`, and the history variables `identity`, `lastKey`,
`saved`. Actions: `LoadOrGenerateKeypair` (`PrimaryFrom ∨ FallbackFrom`, then the length check),
`Reset`, `Uninstall`, `SaveTrustAck`, and the environment's `BackendChange(b)`.

### TrustToken (`provision.rs`, `main.rs` 97–127, 395–425)

Time is relative and counted in whole units: a token is `[left, clen]`, the time it has left and
the byte length of its JSON claims. `ParseJwtExp` decodes the claims only when their unpadded
base64 length `B64Len(n) = (4n+2) div 3` is a multiple of 4, because the STANDARD engine requires
padding. `MaybeRenew` is `maybe_renew_token` up to its await; `RenewReply` saves a new token or
leaves the old one. The daemon alternates `DaemonBeat`/`HeartbeatSend`/`HeartbeatReply` and
`DaemonDrainEntry`/`DrainSend`. `Tick` lets one unit pass while every command is idle and the
daemon is asleep or awaiting its heartbeat (`req.send()` at `heartbeat.rs:53` has no timeout):
`hbWait` counts down to the next beat, and once it is 0, `late` counts the units the outstanding
heartbeat has overrun it, up to the bound `MaxLate`. `renewFailed`
is a history variable: a due renewal failed since the stored token was saved.

### Agent (`main.rs` 169–441, `queue.rs`, `heartbeat.rs`)

Each event is handled by one command invocation and queued under its own name (overwrites are
OfflineQueue's business). A request ends in one of four outcomes: `ok` (stored, 2xx), `status`
(refused), `lost` (stored, reply lost or timed out) and `down` (never reached the bus).

- Commands: `CmdStart` (the key load fails once `reset` has left an unloadable key), `SubmitSend`
  (`submit`: any status is success, a transport error is returned, nothing is enqueued), `ScanSend`
  (the scan commands: on anything but a 2xx, `EnqueueEv`, which may crash mid-write and leave a
  corrupt or short file).
- `Reset` generates a new key, or leaves the keyring's `""` (`Broken`).
- The daemon: `BeatStart`, `HeartbeatReply`, `HeartbeatStall` (no timeout: it may hang forever when
  `NoReply`), and the drain `DrainStart`, `DrainRead`, `DrainReplyWith`, `DrainEnd`. `queue-drain`
  (`QDrain`) runs the same drain, with a callback that reloads the keypair and fails when it is
  unloadable (`Sends`).
- `dKey` is the key the daemon loaded at start (`main.rs:396`); `DrainSignature` is what each
  callback signs with: nothing for the daemon, the current key for `queue-drain`.

Fairness (`AgentFairness`): the daemon is one task on its own runtime, so it gets weak fairness.
`qd_next` comes round every `qd` seconds regardless of heartbeats, so a drain start enabled
infinitely often happens (strong fairness). Nothing is assumed of the bus: it may fail every request. Commands, resets and
`queue-drain` are started by a user and get no fairness.

### Broadcaster (`kaspa_broadcaster/src/main.rs`)

An invocation chooses its amount (`Amounts`: 0.5 KAS for `--supply-chain`, the saturating cast
`SompisOf` of `amount_kas * 1e8` for `--funding`), then `Fetch`es the sender's confirmed UTXOs
(none, or a failed call, ends it), then `Submit` does the rest of `submit_transaction`: the u64 sum,
the fee (`Fee(n)`, the relay fee of a transaction with n inputs), the funds check `Insufficient`,
the change output, and the submission. u64 is a `Width`-bit word: a debug build panics on overflow,
a release build wraps (`Wrap`). The node (`NodeAccepts`) accepts a transaction whose inputs are
confirmed and not spent in its mempool, whose outputs do not exceed its inputs and whose fee is
enough; its reply may be lost. `Confirm` moves a mempool transaction into the UTXO set. Both flows
are drawn from one sender wallet, and several invocations may run at once (the message bus starts
one per event).

## 3. Runs

| Run | Config | Result | Shows |
|---|---|---|---|
| queue_model | `MCOfflineQueue.cfg` | pass, 92k states | two drainers, crashes, torn writes and prunes keep the queue state well formed; every queue action fires |
| queue_enqueue_drain_race | `MCOfflineQueueRace.cfg` | violation | with every write completing (`TornWrites = FALSE`): a drain reads `n1`, a scan command enqueues a new event under `n1`, the drain's submit succeeds and removes `n1`: the new event is gone |
| vault_persistence | `MCVault.cfg` | pass, 3k states | a key returned by load_or_generate_keypair is always stored on some backend |
| vault_reset_key | `MCVaultKeyAvailable.cfg` | violation | `reset` with a usable keyring leaves `""` there; every later key load fails with "bad key len" |
| token_renewal | `MCTrustToken.cfg` | pass, 810 states | with the daemon running and heartbeats outstanding for up to `MaxLate = 1` unit, a stored token whose claims decode expires only after a due renewal failed (`ReadableRenewedBeforeExpiry`) |
| token_padding | `MCTrustTokenPadding.cfg` | violation | `RenewedBeforeExpiry`, for every token: claims whose base64 length is not a multiple of 4 never parse, so the token is never renewed and expires |
| agent_delivery | `MCAgent.cfg` | pass, 10k states | with scan commands, crashes mid-write, resets and queue-drain racing the daemon, every finished event is stored or sealed |
| agent_liveness | `MCAgentLive.cfg` | pass, 13k states | under the daemon's fairness alone, every sealed entry is eventually submitted by the daemon's drain or leaves the queue (`QueuedEventuallySent`) |
| agent_short_entry_panic | `MCAgentPanic.cfg` | violation | a short queue file kills the daemon at `split_at(12)`, and a sealed entry queued later is never submitted |
| kaspa_funds_debug | `MCBroadcaster.cfg` | pass, 1.5k states | in a debug build a transaction reaches the node exactly when the UTXOs fetched cover amount and fee |
| kaspa_funds_release | `MCBroadcasterRelease.cfg` | violation | in a release build, with a 7-sompi wallet, the request `30` saturates to the word's maximum 15, `15 + 2` wraps to 1, the check passes and the node rejects |
| kaspa_utxo_race | `MCBroadcasterRace.cfg` | violation | a second invocation before the first confirms spends the same UTXOs and is rejected though funded |

Further disagreements are stated as properties in the modules and are violated by the code in a
few steps, but are not among the runs above:
- `Vault!IdentityStable` (`vault.rs:120`): a key stored on the file while the keyring is down is
  replaced by a new one when the keyring comes back.
- `Vault!TokenFresh` (`main.rs:91`): the two backends can hold different tokens, and
  load_trust_ack returns the keyring's older one.
- `TrustToken!FreshBearer` (`main.rs:409`): the run loop's drain callback sends the token it read
  before renewing.
- `TrustToken!TokenWellFormed` (`provision.rs:49`): provision saves `""` when the response has no
  trust_ack.
- `Agent!AtLeastOnce` with a `submit` event (`main.rs:201`): `submit` loses its event on a
  transport error or a refusal.
- `OfflineQueue!EnqueuedNotLost` with `TornWrites` (`queue.rs:30`): `fs::write` truncates before it
  writes, so a write that fails removes the entry an earlier successful enqueue left; spec 4.3 asks
  for all-or-nothing writes. TLC finds it in three states.
- `Agent!QueuedEventuallySent` with `NoReply` (`heartbeat.rs:53`): an unanswered heartbeat
  has no timeout and stops the daemon for good.
- `TrustToken!ReadableRenewedBeforeExpiry` when a heartbeat may stay outstanding longer than
  `Threshold - HB` (`MaxLate = 2` in `MCTrustToken.cfg`): the same missing timeout lets the token
  expire while the daemon waits, with no renewal attempted.
- Delivery (`Agent!QueuedEventuallyDelivered` in earlier versions): the daemon's drain callback
  (`main.rs:413`) sends queued events with no device signature, which spec 6 and 7 say the bus
  refuses, so no fairness of the bus can be assumed to store them; `QueuedEventuallySent` states
  what the agent itself guarantees.
- `Agent!DaemonKeyCurrent` (`main.rs:396`): after `reset` the daemon signs heartbeats with the
  key it loaded at start.
- `Agent!DrainSigned` (`main.rs:413`): the daemon's drain sends queued events without a signature.

Every property of a passing run has a mutant in `PROJECT.json` (a plausible bug in a mapped
definition) that TLC finds violating it.

Bounds:
- **Token.** `HB = 1`, `MaxLate = 1`, `Threshold = 2` make `HB + MaxLate = Threshold`, the
  boundary of the proved theorem; lifetimes 3 and 5 and claims of 6 and 7 bytes (a decodable and an
  undecodable segment).
- **Queue.** Two names allow an overwrite and an unrelated entry; two events make an overwrite
  visible; two drainers show the double drain; three writes allow an enqueue, an overwrite and a
  torn write in one behaviour.
- **Vault.** `MaxKeys = 4` allows a fallback generation plus a regeneration; both backends start in
  every combination of usable and unusable.
- **Agent.** Two scan events (and one `submit` event) let one event be in the queue while another
  is being sent; `MaxKeys = 2` allows one reset to a new key and one to `Broken`.
- **Broadcaster.** A 4-bit word; the wallet holds 7 or 13 sompis, within the word as every real
  balance (below `MAX_SOMPI`) is within a u64; amounts 3,
  0 (a negative request), 5 and 15 (a saturated one); two invocations; `MaxId = 8` lets both
  invocations' transactions and their outputs exist.

Deadlock is not checked in the Broadcaster runs: every invocation ends, and the system stops when
all have ended and the mempool is empty.

## 4. Proofs (TLAPS)

- **`OfflineQueueProofs`.** `TypeCorrect: Spec => []TypeOK`, through `TypeInv = TypeOK ∧
  SubmittingWF` (a submitting drainer holds a name and an event), for every set of names, events
  and drainers, with or without torn writes. No theorem about `EnqueuedNotLost` is claimed: the
  code violates it (the race run, and torn writes).
- **`VaultProofs`.** `KeyPersistedInvariant: VaultSpec => [](VaultTypeOK ∧ KeyPersisted)`,
  strengthened by `KeyStore` and `TokStore` (every stored key or token is `""` or one generated so
  far); the lemma `LoadStep` covers the five outcomes of `load_or_store_secret_auto` once.
  `VaultTypeCorrect` follows.
- **`TrustTokenProofs`.** `TokTypeCorrect`, and `RenewalBeforeExpiry: TokSpec =>
  []ReadableRenewedBeforeExpiry` for every number of commands, lifetimes and claims lengths, when
  `HB + MaxLate <= Threshold` and every issued token outlives `HB + MaxLate`. Time passes while the
  heartbeat is outstanding. The strengthening is `OutlivesBeat`: a token that parses and whose
  renewals have not failed has more time left than `Horizon`, the time until the daemon next calls
  `maybe_renew_token` at the latest (`hbWait + MaxLate - late`, or 0 while a beat's renewal is
  outstanding). Each `Tick` lowers both by one; a beat finds the token not due (so it has more than
  `Threshold >= HB + MaxLate` left) or renews it. The lemma `HorizonBound` keeps `Horizon` within
  `0..HB + MaxLate`.
- **`AgentProofs`.** `ScanAtLeastOnce`: with scan commands only, `AgentSpec => []AtLeastOnce` for
  any events, drainers and key bound. The invariant adds `SubHeld` (a drainer awaiting its callback
  holds the entry it read), which the callback's reply needs to know which event it stores.
  `AgentTypeCorrect`: `AgentSpec => [](AgentTypeOK ∧ SubHeld)` with `submit` events too.

Each proof has one step per action, and one sub-step per conjunct the action can disturb.

What stays with TLC: the violations; the liveness property `QueuedEventuallySent` (TLAPS does
not reason about fairness and ENABLED); the Broadcaster, whose `MapThenSumSet` comes from a module
that declares RECURSIVE operators.

## 5. Not modelled, and why

- The cryptography (AES-GCM, ed25519, HMAC, Schnorr, SHA-256) is modelled by its outcomes only.
- `device_id`, payload formatting, headers and logging are not modelled.
- The scanner hardware backends (`scanner.rs`) are pure I/O: they only produce a product code,
  which the models take as an event.
- The TPM stub (`tpm.rs`) always returns an error and nothing calls it.
- `op_return_tx.rs` only builds and prints an example transaction; `query_transaction_status`
  only connects; the broadcaster's test generators are unused.
- `stats()` and the heartbeat payload are read-only; `heartbeat-loop` repeats the same call.
- The fee of a Kaspa transaction depends on its mass; the model takes one base fee plus one per
  input, which keeps the order of fee against amount that the check compares.
