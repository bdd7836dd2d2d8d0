----------------------------- MODULE VaultProofs -----------------------------
(***************************************************************************)
(* Proofs about Vault for every preferred backend and every bound on keys *)
(* and tokens.                                                             *)
(***************************************************************************)
EXTENDS Vault, TLAPS

USE VaultAssumption

StoreType(st) == st \in [Backends -> [Accounts -> Value]]

\* Every key on a backend is the empty string or one the generator made.
KeyStore(st, g) == \A b \in Backends : st[b][SK] \in (0..g) \cup {NoRecord}

\* Every token on a backend is one the server issued.
TokStore(st, g) == \A b \in Backends : st[b][JWT] \in (1..g) \cup {NoRecord}

\* The inductive invariant: the type, what the backends can hold, and
\* KeyPersisted.
VInv ==
    /\ VaultTypeOK
    /\ KeyStore(store, keyGen)
    /\ TokStore(store, tokGen)
    /\ KeyPersisted

LEMMA InitVInv == VaultInit => VInv
  BY DEF VaultInit, VInv, VaultTypeOK, Value, KeyStore, TokStore,
         KeyPersisted, Backends, Accounts

\* What one call of load_or_generate_keypair from a store st does: it
\* keeps the store and the key bounds well typed, leaves the token alone,
\* and persists the key it returns.
LEMMA LoadStep ==
    ASSUME VaultTypeOK, NEW st, StoreType(st), KeyStore(st, keyGen),
           LoadOrGenerateFrom(st)
    PROVE  /\ StoreType(store')
           /\ KeyStore(store', keyGen')
           /\ \A b \in Backends : store'[b][JWT] = st[b][JWT]
           /\ keyGen' \in 0..MaxKeys
           /\ identity' \in (1..MaxKeys) \cup {None}
           /\ lastKey' \in (1..MaxKeys) \cup {None, Err}
           /\ lastKey' \in Nat => \E b \in Backends : store'[b][SK] = lastKey'
<1> DEFINE A == Other(Pref)
<1>0. /\ A \in Backends /\ Pref \in Backends /\ A # Pref
      /\ SK \in Accounts /\ JWT \in Accounts /\ SK # JWT
  BY DEF Other, Backends, Accounts, SK, JWT
<1> USE <1>0 DEF StoreType, KeyStore, VaultTypeOK, Value
\* A load that succeeds returns what the backend holds: the empty string
\* or a key made so far.
<1>1. ASSUME NEW b \in Backends, LoadFrom(st, b, SK) # Err
      PROVE  /\ LoadFrom(st, b, SK) = st[b][SK]
             /\ LoadFrom(st, b, SK) \in 0..keyGen
  BY <1>1 DEF LoadFrom
<1>2. CASE /\ LoadFrom(st, Pref, SK) # Err
           /\ store' = st
           /\ keyGen' = keyGen
           /\ AcceptKey(LoadFrom(st, Pref, SK))
  BY <1>1, <1>2 DEF AcceptKey, EmptyBytes
<1>3. CASE /\ LoadFrom(st, Pref, SK) = Err
           /\ up[Pref]
           /\ keyGen < MaxKeys
           /\ keyGen' = keyGen + 1
           /\ store' = [st EXCEPT ![Pref][SK] = keyGen + 1]
           /\ AcceptKey(keyGen + 1)
  BY <1>3 DEF AcceptKey, EmptyBytes
<1>4. CASE /\ LoadFrom(st, Pref, SK) = Err
           /\ ~up[Pref]
           /\ keyGen + 2 <= MaxKeys
           /\ LoadFrom(st, A, SK) # Err
           /\ keyGen' = keyGen + 1
           /\ store' = st
           /\ AcceptKey(LoadFrom(st, A, SK))
  BY <1>1, <1>4 DEF AcceptKey, EmptyBytes
<1>5. CASE /\ LoadFrom(st, Pref, SK) = Err
           /\ ~up[Pref]
           /\ keyGen + 2 <= MaxKeys
           /\ LoadFrom(st, A, SK) = Err
           /\ up[A]
           /\ keyGen' = keyGen + 2
           /\ store' = [st EXCEPT ![A][SK] = keyGen + 2]
           /\ AcceptKey(keyGen + 2)
  BY <1>5 DEF AcceptKey, EmptyBytes
<1>6. CASE /\ LoadFrom(st, Pref, SK) = Err
           /\ ~up[Pref]
           /\ keyGen + 2 <= MaxKeys
           /\ LoadFrom(st, A, SK) = Err
           /\ ~up[A]
           /\ keyGen' = keyGen + 2
           /\ store' = st
           /\ lastKey' = Err
           /\ identity' = identity
  BY <1>6
<1>7. QED
  BY <1>2, <1>3, <1>4, <1>5, <1>6 DEF LoadOrGenerateFrom, PrimaryFrom, FallbackFrom

\* Deleting the key keeps the store well typed and bounded.
LEMMA DeleteStep ==
    ASSUME keyGen \in Nat, NEW st, StoreType(st), KeyStore(st, keyGen),
           NEW b \in Backends
    PROVE  /\ StoreType(DeleteSecret(st, b, SK))
           /\ KeyStore(DeleteSecret(st, b, SK), keyGen)
           /\ \A c \in Backends : DeleteSecret(st, b, SK)[c][JWT] = st[c][JWT]
<1>0. SK \in Accounts /\ JWT \in Accounts /\ SK # JWT
  BY DEF SK, JWT, Accounts
<1>1. CASE ~up[b]
  BY <1>1 DEF DeleteSecret
<1>2. CASE up[b] /\ b = "OsKeyring"
  BY <1>0, <1>2 DEF DeleteSecret, StoreType, KeyStore, Value, EmptyBytes
<1>3. CASE up[b] /\ b # "OsKeyring"
  BY <1>0, <1>3 DEF DeleteSecret, StoreType, KeyStore, Value
<1>4. QED
  BY <1>1, <1>2, <1>3

LEMMA NextVInv == VInv /\ [VaultNext]_vaultVars => VInv'
<1> SUFFICES ASSUME VInv, [VaultNext]_vaultVars PROVE VInv'
  OBVIOUS
<1> USE DEF VInv
<1>1. CASE LoadOrGenerateKeypair
  <2>1. StoreType(store) /\ KeyStore(store, keyGen)
    BY DEF VaultTypeOK, StoreType
  <2>2. QED
    BY <1>1, <2>1, LoadStep DEF LoadOrGenerateKeypair, VaultTypeOK, StoreType,
                                TokStore, KeyPersisted
<1>2. CASE Reset
  <2> DEFINE st1 == DeleteSecret(store, "OsKeyring", SK)
             st2 == DeleteSecret(st1, "File", SK)
  <2>1. StoreType(st1) /\ KeyStore(st1, keyGen)
        /\ \A c \in Backends : st1[c][JWT] = store[c][JWT]
    BY DeleteStep DEF VaultTypeOK, StoreType, Backends
  <2>2. StoreType(st2) /\ KeyStore(st2, keyGen)
        /\ \A c \in Backends : st2[c][JWT] = store[c][JWT]
    BY <2>1, DeleteStep DEF Backends, VaultTypeOK
  <2>3. QED
    BY <1>2, <2>2, LoadStep DEF Reset, VaultTypeOK, StoreType, TokStore,
                                KeyPersisted
<1>3. CASE Uninstall
  <2> DEFINE st1 == DeleteSecret(store, "OsKeyring", SK)
             st2 == DeleteSecret(st1, "File", SK)
  <2>1. StoreType(st1) /\ KeyStore(st1, keyGen)
        /\ \A c \in Backends : st1[c][JWT] = store[c][JWT]
    BY DeleteStep DEF VaultTypeOK, StoreType, Backends
  <2>2. StoreType(st2) /\ KeyStore(st2, keyGen)
        /\ \A c \in Backends : st2[c][JWT] = store[c][JWT]
    BY <2>1, DeleteStep DEF Backends, VaultTypeOK
  <2>3. QED
    BY <1>3, <2>2 DEF Uninstall, VaultTypeOK, StoreType, TokStore, KeyPersisted
<1>4. CASE SaveTrustAck
  <2>1. SK # JWT /\ SK \in Accounts /\ JWT \in Accounts
    BY DEF SK, JWT, Accounts
  <2> USE <2>1, <1>4 DEF SaveTrustAck, VaultTypeOK, Value, KeyStore, TokStore,
                         KeyPersisted, Backends
  <2>2. CASE StoreSecret("OsKeyring", JWT, tokGen + 1) /\ saved' = tokGen + 1
    BY <2>2 DEF StoreSecret
  <2>3. CASE ~up["OsKeyring"] /\ StoreSecret("File", JWT, tokGen + 1)
             /\ saved' = tokGen + 1
    BY <2>3 DEF StoreSecret
  <2>4. CASE UNCHANGED <<store, saved>>
    BY <2>4
  <2>5. QED
    BY <2>2, <2>3, <2>4
<1>5. ASSUME NEW b \in Backends, BackendChange(b) PROVE VInv'
  BY <1>5 DEF BackendChange, VaultTypeOK, KeyStore, TokStore, KeyPersisted
<1>6. CASE UNCHANGED vaultVars
  BY <1>6 DEF vaultVars, VaultTypeOK, KeyStore, TokStore, KeyPersisted
<1>7. QED
  BY <1>1, <1>2, <1>3, <1>4, <1>5, <1>6 DEF VaultNext

\* The vault's state is always well typed, and a key load_or_generate_keypair
\* returned is always stored on some backend, for every preferred backend,
\* however backends come and go and whatever reset and uninstall do.
THEOREM KeyPersistedInvariant == VaultSpec => [](VaultTypeOK /\ KeyPersisted)
<1>1. VaultSpec => []VInv
  BY InitVInv, NextVInv, PTL DEF VaultSpec
<1>2. QED
  BY <1>1, PTL DEF VInv

\* Every reachable state of the vault (both backends' contents, the key
\* counter, the identity and the last token saved) is well typed.
THEOREM VaultTypeCorrect == VaultSpec => []VaultTypeOK
  BY KeyPersistedInvariant, PTL

=============================================================================
