-------------------------------- MODULE Vault --------------------------------
(***************************************************************************)
(* The secret store of pea-agent (src/pea-agent/src/vault.rs) and its two  *)
(* callers in main.rs: the device signing key (account device-ed25519-sk)  *)
(* loaded by load_or_generate_keypair through load_or_store_secret_auto,   *)
(* and the trust token (account trust-ack-jwt) written by save_trust_ack   *)
(* and read by load_trust_ack, plus the reset and uninstall commands.      *)
(*                                                                         *)
(* Each backend (the OS keyring, the encrypted file) is a function from    *)
(* accounts to what it stores.  A backend is usable or not (no secret      *)
(* service on a headless host, a locked keyring, no data directory), and   *)
(* that changes over time by steps of the environment; an unusable backend *)
(* fails every load and store.  Secrets are numbers: key k is the k-th key *)
(* the generator produced, token t the t-th token the server issued, and   *)
(* 0 is the empty byte string.  Base64 and AES-GCM round-trip exactly and  *)
(* are left out.                                                           *)
(***************************************************************************)
EXTENDS Naturals

CONSTANTS
    Pref,       \* select_backend(): the preferred backend (PEA_VAULT_BACKEND)
    MaxKeys,    \* bound on the number of keys the generator produces
    MaxTokens,  \* bound on the number of tokens the server issues
    NoRecord,   \* nothing stored under this account
    Err,        \* a call returned an error
    None        \* no value yet

Backends == {"OsKeyring", "File"}
SK == "device-ed25519-sk"
JWT == "trust-ack-jwt"
Accounts == {SK, JWT}
EmptyBytes == 0

Other(b) == IF b = "OsKeyring" THEN "File" ELSE "OsKeyring"

ASSUME VaultAssumption ==
    /\ Pref \in Backends
    /\ MaxKeys \in Nat /\ MaxTokens \in Nat
    /\ NoRecord \notin Nat /\ Err \notin Nat /\ None \notin Nat
    /\ NoRecord # Err /\ None # Err /\ None # NoRecord

VARIABLES
    store,     \* store[b][a]: what backend b holds for account a
    up,        \* up[b]: backend b is usable
    keyGen,    \* number of keys generated so far (the last fresh key)
    tokGen,    \* number of tokens issued so far
    identity,  \* the key the last successful load_or_generate_keypair returned
    lastKey,   \* the result of the last load_or_generate_keypair: a key or Err
    saved      \* the token of the last save_trust_ack that returned Ok

vaultVars == <<store, up, keyGen, tokGen, identity, lastKey, saved>>

Value == Nat \cup {NoRecord}

VaultTypeOK ==
    /\ store \in [Backends -> [Accounts -> Value]]
    /\ up \in [Backends -> BOOLEAN]
    /\ keyGen \in 0..MaxKeys
    /\ tokGen \in 0..MaxTokens
    /\ identity \in (1..MaxKeys) \cup {None}
    /\ lastKey \in (1..MaxKeys) \cup {None, Err}
    /\ saved \in (1..MaxTokens) \cup {None}

VaultInit ==
    /\ store = [b \in Backends |-> [a \in Accounts |-> NoRecord]]
    /\ up \in [Backends -> BOOLEAN]
    /\ keyGen = 0
    /\ tokGen = 0
    /\ identity = None
    /\ lastKey = None
    /\ saved = None

-----------------------------------------------------------------------------
(* Vault::load_secret on backend b: Err when the backend is unusable or    *)
(* holds nothing for a.  The keyring's delete_secret stores "", which      *)
(* load_secret decodes to the empty byte string, not to an error.          *)
LoadFrom(st, b, a) == IF up[b] /\ st[b][a] # NoRecord THEN st[b][a] ELSE Err

LoadSecret(b, a) == LoadFrom(store, b, a)

\* Vault::store_secret on backend b succeeds exactly when b is usable.
StoreSecret(b, a, v) ==
    /\ up[b]
    /\ store' = [store EXCEPT ![b][a] = v]

\* Vault::delete_secret: the keyring overwrites with "", the file backend
\* removes the file; both ignore errors.
DeleteSecret(st, b, a) ==
    IF ~up[b] THEN st
    ELSE [st EXCEPT ![b][a] = IF b = "OsKeyring" THEN EmptyBytes ELSE NoRecord]

\* Mutant: the length check dropped.
AcceptKeyNoLenCheck(v) ==
    /\ lastKey' = v
    /\ identity' = v

\* What load_or_generate_keypair returns for the bytes v it got: the key,
\* or Err when secret_bytes.len() != SECRET_KEY_LENGTH (the empty bytes).
AcceptKey(v) ==
    /\ lastKey' = IF v = EmptyBytes THEN Err ELSE v
    /\ identity' = IF v = EmptyBytes THEN identity ELSE v

(* load_or_store_secret_auto on the preferred backend P, from the store   *)
(* st: load; on Err generate and store.  A store that fails falls through *)
(* to the other backend (FallbackFrom).                                   *)
PrimaryFrom(st) ==
    \/ /\ LoadFrom(st, Pref, SK) # Err
       /\ store' = st
       /\ keyGen' = keyGen
       /\ AcceptKey(LoadFrom(st, Pref, SK))
    \/ /\ LoadFrom(st, Pref, SK) = Err
       /\ up[Pref]
       /\ keyGen < MaxKeys
       /\ keyGen' = keyGen + 1
       /\ store' = [st EXCEPT ![Pref][SK] = keyGen + 1]
       /\ AcceptKey(keyGen + 1)

\* Mutant: alt.store_secret(&bytes) without `?`, returning the generated
\* bytes whether or not they were stored.
FallbackIgnoresStoreError(st) ==
    LET A == Other(Pref) IN
    /\ LoadFrom(st, Pref, SK) = Err
    /\ ~up[Pref]
    /\ keyGen + 2 <= MaxKeys
    /\ \/ /\ LoadFrom(st, A, SK) # Err
          /\ keyGen' = keyGen + 1
          /\ store' = st
          /\ AcceptKey(LoadFrom(st, A, SK))
       \/ /\ LoadFrom(st, A, SK) = Err
          /\ keyGen' = keyGen + 2
          /\ store' = IF up[A] THEN [st EXCEPT ![A][SK] = keyGen + 2] ELSE st
          /\ AcceptKey(keyGen + 2)

(* The generator has run for P (its bytes are dropped: the store failed). *)
(* Load from the other backend A; on Err generate again and store there,  *)
(* returning Err if that store fails.                                     *)
FallbackFrom(st) ==
    LET A == Other(Pref) IN
    /\ LoadFrom(st, Pref, SK) = Err
    /\ ~up[Pref]
    /\ keyGen + 2 <= MaxKeys
    /\ \/ /\ LoadFrom(st, A, SK) # Err
          /\ keyGen' = keyGen + 1
          /\ store' = st
          /\ AcceptKey(LoadFrom(st, A, SK))
       \/ /\ LoadFrom(st, A, SK) = Err
          /\ up[A]
          /\ keyGen' = keyGen + 2
          /\ store' = [st EXCEPT ![A][SK] = keyGen + 2]
          /\ AcceptKey(keyGen + 2)
       \/ /\ LoadFrom(st, A, SK) = Err
          /\ ~up[A]
          /\ keyGen' = keyGen + 2
          /\ store' = st
          /\ lastKey' = Err
          /\ identity' = identity

\* load_or_generate_keypair starting from the store st.
LoadOrGenerateFrom(st) == PrimaryFrom(st) \/ FallbackFrom(st)

\* Any command that loads the device key (status, submit, provision,
\* scanner-sim, scan-*, heartbeat, run).
LoadOrGenerateKeypair ==
    /\ LoadOrGenerateFrom(store)
    /\ UNCHANGED <<up, tokGen, saved>>

\* reset: delete the key on both backends, then load_or_generate_keypair
\* (provisioning the new key with the server follows; see TrustToken).
Reset ==
    /\ LoadOrGenerateFrom(DeleteSecret(DeleteSecret(store, "OsKeyring", SK), "File", SK))
    /\ UNCHANGED <<up, tokGen, saved>>

\* uninstall: delete the key on both backends (the queue is wiped too; the
\* trust token is left in place).
Uninstall ==
    /\ store' = DeleteSecret(DeleteSecret(store, "OsKeyring", SK), "File", SK)
    /\ identity' = None
    /\ lastKey' = None
    /\ UNCHANGED <<up, keyGen, tokGen, saved>>

(* save_trust_ack(token) with a token the server has just issued (by       *)
(* provisioning or renewal): store on the keyring, else on the file.       *)
SaveTrustAck ==
    /\ tokGen < MaxTokens
    /\ tokGen' = tokGen + 1
    /\ \/ /\ StoreSecret("OsKeyring", JWT, tokGen + 1)
          /\ saved' = tokGen + 1
       \/ /\ ~up["OsKeyring"]
          /\ StoreSecret("File", JWT, tokGen + 1)
          /\ saved' = tokGen + 1
       \/ /\ ~up["OsKeyring"] /\ ~up["File"]
          /\ UNCHANGED <<store, saved>>
    /\ UNCHANGED <<up, keyGen, identity, lastKey>>

\* load_trust_ack: the first backend, keyring then file, that loads.
LoadTrustAck ==
    IF LoadSecret("OsKeyring", JWT) # Err THEN LoadSecret("OsKeyring", JWT)
    ELSE IF LoadSecret("File", JWT) # Err THEN LoadSecret("File", JWT)
    ELSE None

\* The environment: a backend becomes usable or unusable.
BackendChange(b) ==
    /\ up' = [up EXCEPT ![b] = ~@]
    /\ UNCHANGED <<store, keyGen, tokGen, identity, lastKey, saved>>

VaultNext ==
    \/ LoadOrGenerateKeypair
    \/ Reset
    \/ Uninstall
    \/ SaveTrustAck
    \/ \E b \in Backends : BackendChange(b)

VaultSpec == VaultInit /\ [][VaultNext]_vaultVars

-----------------------------------------------------------------------------
(* Properties                                                             *)

\* The key a successful load_or_generate_keypair returned is persisted on
\* some backend, so the process that signs with it and the next process
\* to load agree on it until the next reset or uninstall.
KeyPersisted ==
    lastKey \in Nat => \E b \in Backends : store[b][SK] = lastKey

\* Spec 4.1: load_or_generate gives usable secret bytes unless both
\* backends are unusable.  Checked on every call of load_or_generate_keypair,
\* including the one reset makes right after deleting the key.
KeyAvailable ==
    [][(LoadOrGenerateKeypair \/ Reset) =>
          (lastKey' = Err => \A b \in Backends : ~up[b])]_vaultVars

\* Spec 3: the device key is created once and persisted; it is regenerated
\* only by reset or uninstall.  So a load_or_generate_keypair after a
\* successful one returns the same key (or fails).
IdentityStable ==
    [][LoadOrGenerateKeypair /\ identity # None /\ lastKey' # Err =>
          lastKey' = identity]_vaultVars

\* Spec 4.4(b): a renewed token is persisted, overwriting the old one.  So
\* load_trust_ack, when it finds a token, finds the last one saved.
TokenFresh ==
    saved # None /\ LoadTrustAck # None => LoadTrustAck = saved

=============================================================================
