--------------------------- MODULE TrustTokenProofs ---------------------------
(***************************************************************************)
(* Proofs about TrustToken for every set of commands, every threshold,    *)
(* heartbeat interval, token lifetimes and claims lengths.                 *)
(***************************************************************************)
EXTENDS TrustToken, TLAPS

USE TokenAssumption

LEMMA AgeTyped ==
    ASSUME NEW t \in Tok \cup NoTok
    PROVE  /\ Age(t) \in Tok \cup NoTok
           /\ t \in Tok => Age(t).clen = t.clen
           /\ t \in Tok /\ t.left > 0 => Age(t).left = t.left - 1
  BY DEF Age, Tok, NoTok

LEMMA InitTokIInv == TokInit => TokIInv
<1> SUFFICES ASSUME TokInit PROVE TokIInv
  OBVIOUS
<1>1. TokTypeOK
  <2>1. stored \in Tok \cup NoTok /\ drainTok \in Tok \cup NoTok
    BY DEF TokInit, NoTok
  <2>2. held \in [Procs -> Tok \cup NoTok]
    BY DEF TokInit, NoTok
  <2>3. pc \in [Procs -> {"idle", "renewing", "sending", "beating"}]
    BY DEF TokInit
  <2>4. hbWait \in 0..HB /\ late \in 0..MaxLate
    BY DEF TokInit
  <2>5. mode \in {"beat", "drain"} /\ renewFailed \in BOOLEAN
    BY DEF TokInit
  <2>6. QED
    BY <2>1, <2>2, <2>3, <2>4, <2>5 DEF TokTypeOK
<1>2. ~Parses(stored)
  BY DEF TokInit, Parses, NoTok
<1>3. QED
  BY <1>1, <1>2 DEF TokIInv, OutlivesBeat

\* What is left of a heartbeat period when some of its lateness is spent
\* stays within the period.
LEMMA SlackBound ==
    ASSUME NEW h \in Nat, NEW m \in Nat, NEW w \in 0..h, NEW l \in 0..m
    PROVE  w + m - l \in 0..(h + m)
  OBVIOUS

\* The horizon is never negative and never more than a whole period.
LEMMA HorizonBound ==
    ASSUME TokTypeOK PROVE Horizon \in 0..(HB + MaxLate)
  BY DEF TokTypeOK, Horizon

\* A token the server issues is well typed, and, when every lifetime is
\* longer than a period, outlives any horizon.
LEMMA FreshTok ==
    ASSUME NEW l \in Lifetimes, NEW n \in ClaimsLens,
           \A m \in Lifetimes : m > HB + MaxLate, NEW w \in 0..(HB + MaxLate)
    PROVE  /\ [left |-> l, clen |-> n] \in Tok
           /\ [left |-> l, clen |-> n].left > w
  BY DEF Tok

LEMMA IssuedTok ==
    \A l \in Lifetimes, n \in ClaimsLens : [left |-> l, clen |-> n] \in Tok
  BY DEF Tok

LEMMA NextTokTypeOK == TokTypeOK /\ [TokNext]_vars => TokTypeOK'
<1> SUFFICES ASSUME TokTypeOK, [TokNext]_vars PROVE TokTypeOK'
  OBVIOUS
<1> USE DEF TokTypeOK, Procs
<1>1. ASSUME NEW p \in Procs, MaybeRenew(p) PROVE pc' \in [Procs -> {"idle", "renewing", "sending", "beating"}]
                                                /\ held' \in [Procs -> Tok \cup NoTok]
  BY <1>1 DEF MaybeRenew
<1>2. ASSUME NEW c \in Cmds, CmdStart(c) PROVE TokTypeOK'
  BY <1>1, <1>2 DEF CmdStart
<1>3. ASSUME NEW c \in Cmds, CmdSend(c) PROVE TokTypeOK'
  BY <1>3 DEF CmdSend
<1>4. ASSUME NEW c \in Cmds, Provision(c) PROVE TokTypeOK'
  <2>1. stored' \in Tok \cup NoTok
    <3>1. CASE \E l \in Lifetimes, n \in ClaimsLens : stored' = [left |-> l, clen |-> n]
      BY <3>1, IssuedTok
    <3>2. CASE stored' = EmptyTok
      BY <3>2 DEF NoTok
    <3>3. QED
      BY <1>4, <3>1, <3>2 DEF Provision
  <2>2. QED
    BY <1>4, <2>1 DEF Provision
<1>5. ASSUME NEW p \in Procs, RenewReply(p) PROVE TokTypeOK'
  <2>1. stored' \in Tok \cup NoTok
    BY <1>5, IssuedTok DEF RenewReply
  <2>2. held' \in [Procs -> Tok \cup NoTok]
    BY <1>5 DEF RenewReply, NoTok
  <2>3. QED
    BY <1>5, <2>1, <2>2 DEF RenewReply
<1>6. CASE DaemonBeat
  BY <1>1, <1>6 DEF DaemonBeat
<1>7. CASE HeartbeatSend \/ HeartbeatReply
  BY <1>7 DEF HeartbeatSend, HeartbeatReply
<1>8. CASE DaemonDrainEntry
  BY <1>1, <1>8 DEF DaemonDrainEntry
<1>9. CASE DrainSend
  BY <1>9 DEF DrainSend, NoTok
<1>10. CASE Tick
  BY <1>10, AgeTyped DEF Tick
<1>11. CASE UNCHANGED vars
  BY <1>11 DEF vars
<1>12. QED
  BY <1>2, <1>3, <1>4, <1>5, <1>6, <1>7, <1>8, <1>9, <1>10, <1>11 DEF TokNext

\* Every state of provisioning, renewal and the run loop is well typed.
THEOREM TokTypeCorrect == TokSpec => []TokTypeOK
<1>1. TokInit => TokTypeOK
  BY InitTokIInv DEF TokIInv
<1>2. QED
  BY <1>1, NextTokTypeOK, PTL DEF TokSpec

LEMMA NextTokIInv ==
    ASSUME HB + MaxLate <= Threshold,
           \A m \in Lifetimes : m > HB + MaxLate,
           TokIInv, [TokNext]_vars
    PROVE  TokIInv'
<1>0. TokTypeOK'
  BY NextTokTypeOK DEF TokIInv
<1> USE DEF TokIInv, TokTypeOK, Procs
<1>h. Horizon \in 0..(HB + MaxLate) /\ Horizon' \in 0..(HB + MaxLate)
  <2>1. Horizon \in 0..(HB + MaxLate)
    BY DEF Horizon
  <2>2. Horizon' \in 0..(HB + MaxLate)
    <3>1. hbWait' \in 0..HB /\ late' \in 0..MaxLate
      BY <1>0
    <3>2. Horizon' = IF pc'[Daemon] = "renewing" /\ mode' = "beat"
                     THEN 0 ELSE hbWait' + MaxLate - late'
      BY DEF Horizon
    <3>3. hbWait' + MaxLate - late' \in 0..(HB + MaxLate)
      BY <3>1, TokenAssumption, SlackBound DEF TokenAssumption
    <3>4. QED
      BY <3>2, <3>3, TokenAssumption DEF TokenAssumption
  <2>3. QED
    BY <2>1, <2>2
<1> SUFFICES OutlivesBeat'
  BY <1>0
\* Steps that leave the token, the failure flag and the horizon alone.
<1>s. ASSUME UNCHANGED <<stored, renewFailed>>, Horizon' = Horizon
      PROVE  OutlivesBeat'
  BY <1>s DEF OutlivesBeat, Parses
\* Steps that store a fresh token and clear the failure flag, or set it.
<1>f. ASSUME \/ /\ \E l \in Lifetimes, n \in ClaimsLens : stored' = [left |-> l, clen |-> n]
                 /\ renewFailed' = FALSE
              \/ renewFailed' = TRUE
              \/ stored' = EmptyTok
      PROVE  OutlivesBeat'
  <2>1. CASE \E l \in Lifetimes, n \in ClaimsLens : stored' = [left |-> l, clen |-> n]
    <3>1. PICK l \in Lifetimes, n \in ClaimsLens : stored' = [left |-> l, clen |-> n]
      BY <2>1
    <3>2. stored'.left > Horizon'
      BY <1>h, <3>1, FreshTok
    <3>3. QED
      BY <3>2 DEF OutlivesBeat
  <2>2. CASE renewFailed' = TRUE
    BY <2>2 DEF OutlivesBeat
  <2>3. CASE stored' = EmptyTok
    BY <2>3 DEF OutlivesBeat, Parses, NoTok
  <2>4. QED
    BY <1>f, <2>1, <2>2, <2>3
<1>1. ASSUME NEW c \in Cmds, CmdStart(c) PROVE OutlivesBeat'
  <2>1. c # Daemon
    OBVIOUS
  <2>2. Horizon' = Horizon
    BY <1>1, <2>1 DEF CmdStart, MaybeRenew, Horizon
  <2>3. QED
    BY <1>1, <1>s, <2>2 DEF CmdStart
<1>2. ASSUME NEW c \in Cmds, CmdSend(c) PROVE OutlivesBeat'
  <2>1. c # Daemon
    OBVIOUS
  <2>2. Horizon' = Horizon
    BY <1>2, <2>1 DEF CmdSend, Horizon
  <2>3. QED
    BY <1>2, <1>s, <2>2 DEF CmdSend
<1>3. ASSUME NEW c \in Cmds, Provision(c) PROVE OutlivesBeat'
  BY <1>3, <1>f DEF Provision
<1>4. ASSUME NEW p \in Procs, RenewReply(p) PROVE OutlivesBeat'
  BY <1>4, <1>f DEF RenewReply
<1>5. CASE DaemonBeat
  <2>1. pc[Daemon] = "idle" /\ hbWait = 0
    BY <1>5 DEF DaemonBeat
  <2>2. Parses(stored) /\ ~renewFailed => stored.left > 0
    BY <1>h, <2>1 DEF OutlivesBeat, Horizon, Parses, Tok
  <2>3. CASE Due(stored)
    <3>1. pc'[Daemon] = "renewing" /\ mode' = "beat"
          /\ UNCHANGED <<stored, renewFailed>>
      BY <1>5, <2>3 DEF DaemonBeat, MaybeRenew
    <3>2. Horizon' = 0
      BY <3>1 DEF Horizon
    <3>3. QED
      BY <2>2, <3>1, <3>2 DEF OutlivesBeat, Parses
  <2>4. CASE ~Due(stored)
    <3>1. Parses(stored) => stored.left > Threshold
      <4>1. Parses(stored) => ParseJwtExp(stored) = stored.left /\ stored.left \in Nat
        BY DEF ParseJwtExp, Parses, Tok
      <4>2. QED
        BY <2>4, <4>1 DEF Due
    <3>2. /\ pc'[Daemon] = "sending" /\ hbWait' = HB /\ late' = 0
          /\ UNCHANGED <<stored, renewFailed>>
      BY <1>5, <2>4 DEF DaemonBeat, MaybeRenew
    <3>3. Horizon' = HB + MaxLate
      BY <3>2 DEF Horizon
    <3>4. Parses(stored) => stored.left > HB + MaxLate
      <4>1. Parses(stored) => stored \in Tok
        BY DEF Parses
      <4>2. QED
        BY <3>1, <4>1 DEF Tok
    <3>5. QED
      BY <3>2, <3>3, <3>4 DEF OutlivesBeat, Parses
  <2>5. QED
    BY <2>3, <2>4
<1>6. CASE HeartbeatSend \/ HeartbeatReply
  <2>1. Horizon' = Horizon
    BY <1>6 DEF HeartbeatSend, HeartbeatReply, Horizon
  <2>2. QED
    BY <1>6, <1>s, <2>1 DEF HeartbeatSend, HeartbeatReply
<1>7. CASE DaemonDrainEntry
  <2>1. Horizon' = Horizon
    BY <1>7 DEF DaemonDrainEntry, MaybeRenew, Horizon
  <2>2. QED
    BY <1>7, <1>s, <2>1 DEF DaemonDrainEntry
<1>8. CASE DrainSend
  <2>1. Horizon' = Horizon
    BY <1>8 DEF DrainSend, Horizon
  <2>2. QED
    BY <1>8, <1>s, <2>1 DEF DrainSend
<1>9. CASE Tick
  <2>1. /\ Horizon = hbWait + MaxLate - late
        /\ Horizon' = hbWait' + MaxLate - late'
        /\ Horizon' = Horizon - 1
        /\ renewFailed' = renewFailed /\ stored' = Age(stored)
    BY <1>9 DEF Tick, Horizon
  <2>2. CASE stored \in NoTok
    <3>1. stored' = stored
      BY <2>1, <2>2 DEF Age
    <3>2. QED
      BY <2>1, <2>2, <3>1 DEF OutlivesBeat, Parses
  <2>3. CASE stored \in Tok
    <3>0. Age(stored) \in Tok /\ Age(stored).clen = stored.clen
      BY <2>3 DEF Age, Tok, NoTok
    <3>1. Parses(stored') <=> Parses(stored)
      <4>1. stored \notin NoTok /\ stored' \notin NoTok
        BY <2>1, <2>3, <3>0 DEF NoTok, Tok
      <4>2. QED
        BY <2>1, <3>0, <4>1 DEF Parses
    <3>2. Parses(stored) /\ ~renewFailed => stored'.left > Horizon'
      <4>1. SUFFICES ASSUME Parses(stored), ~renewFailed PROVE stored'.left > Horizon'
        OBVIOUS
      <4>2. stored.left > Horizon /\ Horizon >= 1
        BY <1>h, <2>1, <4>1 DEF OutlivesBeat
      <4>3. stored'.left = stored.left - 1
        BY <2>1, <2>3, <4>2, AgeTyped DEF Tok
      <4>4. QED
        BY <1>h, <2>1, <2>3, <4>2, <4>3 DEF Tok
    <3>3. QED
      BY <2>1, <3>1, <3>2 DEF OutlivesBeat
  <2>4. QED
    BY <2>2, <2>3
<1>10. CASE UNCHANGED vars
  BY <1>10, <1>s DEF vars, Horizon
<1>11. QED
  BY <1>1, <1>2, <1>3, <1>4, <1>5, <1>6, <1>7, <1>8, <1>9, <1>10 DEF TokNext

\* For every threshold, heartbeat interval, overrun bound, set of lifetimes
\* and set of claims lengths: when a heartbeat period (the interval plus
\* the time the heartbeat's await may run past hb_next) is at most the
\* renewal threshold and every token issued outlives a period, a stored
\* token that parse_jwt_exp can read expires only after a renewal that was
\* due has failed.  The run loop's beat always finds it within the
\* threshold before it expires, however commands, provisioning, drains and
\* renewals of other processes interleave and time passes during the
\* heartbeat's await.
THEOREM RenewalBeforeExpiry ==
    ASSUME HB + MaxLate <= Threshold,
           \A m \in Lifetimes : m > HB + MaxLate
    PROVE  TokSpec => []ReadableRenewedBeforeExpiry
<1>1. TokIInv => ReadableRenewedBeforeExpiry
  <2> SUFFICES ASSUME TokIInv, stored \notin NoTok, B64Len(stored.clen) % 4 = 0,
                      stored.left = 0
               PROVE  renewFailed
    BY DEF ReadableRenewedBeforeExpiry
  <2>1. Parses(stored) /\ Horizon \in 0..(HB + MaxLate)
    BY HorizonBound DEF TokIInv, Parses
  <2>2. QED
    BY <2>1 DEF TokIInv, OutlivesBeat
<1>2. TokIInv /\ [TokNext]_vars => TokIInv'
  BY NextTokIInv
<1>3. QED
  BY InitTokIInv, <1>1, <1>2, PTL DEF TokSpec

=============================================================================
