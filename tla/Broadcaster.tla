----------------------------- MODULE Broadcaster -----------------------------
(***************************************************************************)
(* The Kaspa broadcaster (kaspa_broadcaster/src/main.rs): each invocation *)
(* of the binary anchors one supply-chain event (a fixed amount from the  *)
(* company wallet) or sends a funding amount, by fetching the sender's    *)
(* UTXOs, computing the fee, checking funds, signing a transaction that   *)
(* spends every UTXO fetched, and submitting it to the node.  The message *)
(* bus may start invocations back to back or concurrently.                *)
(*                                                                         *)
(* The node is modelled by what it checks of a submitted transaction:     *)
(* inputs in the confirmed UTXO set and not spent by a transaction in its *)
(* mempool (allow_orphan is false), outputs not above inputs (checked     *)
(* arithmetic), and a fee of at least the relay fee of the transaction's  *)
(* mass.  The UTXO index the broadcaster queries reflects confirmed       *)
(* transactions only.  Amounts are scaled down and u64 is a Width-bit     *)
(* word: release builds wrap, debug builds panic on overflow.             *)
(***************************************************************************)
EXTENDS Integers, FiniteSets, FiniteSetsExt

CONSTANTS
    Procs,          \* invocations of the binary
    Width,          \* bits of a u64 in the model
    Release,        \* TRUE: a release build (wrapping), FALSE: debug (panics)
    SupplyAmount,   \* the 0.5 KAS of a supply-chain event, in sompis
    FundingReqs,    \* amount_kas * 1e8 of --funding requests, as computed in f64
    FeeBase,        \* relay fee of a transaction's fixed mass and payload
    FeePerInput,    \* relay fee of one more signed input
    InitLedgers,    \* possible confirmed UTXO sets of the sender at start
    MaxId           \* bound on UTXO ids

Word == 2^Width
Owners == {"sender", "recipient"}
Utxo == [id : 1..MaxId, owner : Owners, amt : Nat]

ASSUME BroadcasterAssumption ==
    /\ Width \in Nat \ {0}
    /\ Release \in BOOLEAN
    /\ SupplyAmount \in 0..Word - 1
    /\ FundingReqs \subseteq Int
    /\ FeeBase \in Nat /\ FeePerInput \in Nat
    /\ InitLedgers \subseteq SUBSET Utxo
    /\ MaxId \in Nat

VARIABLES
    ledger,    \* the confirmed UTXOs
    mempool,   \* transactions the node accepted and has not yet confirmed
    nextId,    \* the id of the next output to be created
    ppc,       \* ppc[p]: where invocation p is, or how it ended
    send,      \* send[p]: the send_amount of p
    snap       \* snap[p]: the UTXOs get_utxos_by_addresses returned to p

vars == <<ledger, mempool, nextId, ppc, send, snap>>

Tx == [ins : SUBSET (1..MaxId), outs : SUBSET Utxo]
Ends == {"ok", "rejected", "insufficient", "panicked", "failed"}

BroadcasterTypeOK ==
    /\ ledger \subseteq Utxo
    /\ mempool \subseteq Tx
    /\ nextId \in 1..MaxId + 1
    /\ ppc \in [Procs -> {"idle", "fetched"} \cup Ends]
    /\ send \in [Procs -> 0..Word - 1]
    /\ snap \in [Procs -> SUBSET Utxo]

BroadcasterInit ==
    /\ ledger \in InitLedgers
    /\ mempool = {}
    /\ nextId = 1 + Max({u.id : u \in UNION InitLedgers} \cup {0})
    /\ ppc = [p \in Procs |-> "idle"]
    /\ send = [p \in Procs |-> 0]
    /\ snap = [p \in Procs |-> {}]

Amt(u) == u.amt

\* The value of a set of UTXOs, in integers.
Value(S) == MapThenSumSet(Amt, S)

\* (amount_kas * 100_000_000.0) as u64: a float-to-integer cast saturates.
SompisOf(x) == IF x < 0 THEN 0 ELSE IF x >= Word THEN Word - 1 ELSE x

\* calc_minimum_required_transaction_relay_fee of the compute mass of a
\* transaction with n inputs, two outputs and the payload.
Fee(n) == FeeBase + FeePerInput * n

\* u64 arithmetic: the result when it fits, else the wrapped value in a
\* release build; Overflows says a debug build panics instead.
Wrap(x) == x % Word
Overflows(x) == x < 0 \/ x >= Word

\* The send_amount of an invocation: 0.5 KAS for --supply-chain, the cast
\* amount for --funding.
Amounts == {SupplyAmount} \cup {SompisOf(r) : r \in FundingReqs}

-----------------------------------------------------------------------------
(* An invocation up to its first await's result: the amount is fixed      *)
(* (submit_supply_chain_event or submit_funding_transaction), the client  *)
(* connects and fetches the sender's UTXOs.  No UTXOs, or a failed        *)
(* connection or call, ends it with Err.                                  *)

Fetch(p) ==
    /\ ppc[p] = "idle"
    /\ \E a \in Amounts :
          send' = [send EXCEPT ![p] = a]
    /\ LET mine == {u \in ledger : u.owner = "sender"}
       IN  \/ /\ mine # {}
              /\ ppc' = [ppc EXCEPT ![p] = "fetched"]
              /\ snap' = [snap EXCEPT ![p] = mine]
           \/ /\ ppc' = [ppc EXCEPT ![p] = "failed"]
              /\ UNCHANGED snap
    /\ UNCHANGED <<ledger, mempool, nextId>>

\* Mutant: the funds check without the fee.
InsufficientNoFee(total, s, f) == s > total

\* `send_amount + calculated_fee > total_balance`, in u64.
Insufficient(total, s, f) == Wrap(s + f) > total

\* What the node accepts into its mempool.
NodeAccepts(tx) ==
    LET spentInPool == UNION {t.ins : t \in mempool}
        inputs == {u \in ledger : u.id \in tx.ins}
    IN  /\ tx.ins \subseteq {u.id : u \in ledger}
        /\ tx.ins \cap spentInPool = {}
        /\ Value(tx.outs) <= Value(inputs)
        /\ Value(inputs) - Value(tx.outs) >= Fee(Cardinality(tx.ins))

(* The rest of submit_transaction: sum the balance, compute the fee from  *)
(* the mass, check funds, build the final outputs, sign every input and   *)
(* submit.  The node's answer may be lost on the way back, and the call   *)
(* then fails although the transaction is in the mempool.                *)
Submit(p) ==
    /\ ppc[p] = "fetched"
    /\ nextId + 1 <= MaxId
    /\ LET real   == Value(snap[p])
           total  == Wrap(real)
           fee    == Fee(Cardinality(snap[p]))
           change == Wrap(total - send[p] - fee)
           tx     == [ins  |-> {u.id : u \in snap[p]},
                      outs |-> {[id |-> nextId, owner |-> "recipient", amt |-> send[p]],
                                [id |-> nextId + 1, owner |-> "sender", amt |-> change]}]
       IN  \/ /\ ~Release
              /\ Overflows(real) \/ Overflows(send[p] + fee)
              /\ ppc' = [ppc EXCEPT ![p] = "panicked"]
              /\ UNCHANGED <<mempool, nextId>>
           \/ /\ Release \/ (~Overflows(real) /\ ~Overflows(send[p] + fee))
              /\ Insufficient(total, send[p], fee)
              /\ ppc' = [ppc EXCEPT ![p] = "insufficient"]
              /\ UNCHANGED <<mempool, nextId>>
           \/ /\ Release \/ (~Overflows(real) /\ ~Overflows(send[p] + fee))
              /\ ~Insufficient(total, send[p], fee)
              /\ \/ /\ NodeAccepts(tx)
                    /\ mempool' = mempool \cup {tx}
                    /\ nextId' = nextId + 2
                    /\ \E r \in {"ok", "failed"} : ppc' = [ppc EXCEPT ![p] = r]
                 \/ /\ ~NodeAccepts(tx)
                    /\ ppc' = [ppc EXCEPT ![p] = "rejected"]
                    /\ UNCHANGED <<mempool, nextId>>
                 \/ /\ ppc' = [ppc EXCEPT ![p] = "failed"]
                    /\ UNCHANGED <<mempool, nextId>>
    /\ UNCHANGED <<ledger, send, snap>>

\* A block confirms a mempool transaction: its inputs are spent and its
\* outputs become UTXOs the index returns.
Confirm(tx) ==
    /\ tx \in mempool
    /\ ledger' = {u \in ledger : u.id \notin tx.ins} \cup tx.outs
    /\ mempool' = mempool \ {tx}
    /\ UNCHANGED <<nextId, ppc, send, snap>>

BroadcasterNext ==
    \/ \E p \in Procs : Fetch(p) \/ Submit(p)
    \/ \E tx \in mempool : Confirm(tx)

BroadcasterSpec == BroadcasterInit /\ [][BroadcasterNext]_vars

-----------------------------------------------------------------------------
(* Properties                                                             *)

\* The funds check guards what the node sees: an invocation's transaction
\* reaches the node only if the UTXOs fetched are worth its amount and fee,
\* and "INSUFFICIENT FUNDS" is reported only if they are not.
FundsCheckExact ==
    [][\A p \in Procs :
          ppc[p] = "fetched" /\ ppc'[p] # "fetched" =>
             LET enough == send[p] + Fee(Cardinality(snap[p])) <= Value(snap[p])
             IN  /\ ppc'[p] \in {"ok", "rejected"} => enough
                 /\ ppc'[p] = "insufficient" => ~enough]_vars

\* The message bus anchors each event by one invocation: an invocation
\* whose sender holds enough for its amount and fee is not rejected by the
\* node.
FundedNotRejected ==
    [][\A p \in Procs :
          ppc[p] = "fetched" /\ ppc'[p] = "rejected" =>
             send[p] + Fee(Cardinality(snap[p])) > Value(snap[p])]_vars

=============================================================================
