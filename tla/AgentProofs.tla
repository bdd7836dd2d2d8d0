----------------------------- MODULE AgentProofs -----------------------------
(***************************************************************************)
(* Proofs about Agent for every set of events, drainers and key bound.    *)
(***************************************************************************)
EXTENDS Agent, TLAPS

USE AgentAssumption

\* A drainer awaiting its callback holds the entry it read.
SubHeld == \A d \in Drainers : dpc[d] = "sub" => dcur[d] \in Events

\* AtLeastOnce is inductive together with the type and SubHeld: the bus
\* never forgets an event, and a sealed entry disappears only when a
\* callback that sent it returned Ok, which means the bus stored it.
AInv == AgentTypeOK /\ SubHeld /\ AtLeastOnce

\* The type and SubHeld hold together, whatever commands run.
TInv == AgentTypeOK /\ SubHeld

LEMMA NextTInv ==
    ASSUME TInv, [AgentNext]_vars
    PROVE  TInv'
<1> USE DEF TInv, AgentTypeOK, SubHeld
<1>1. ASSUME NEW e \in Events, CmdStart(e) PROVE TInv'
  BY <1>1 DEF CmdStart, CmdStates
<1>2. ASSUME NEW e \in Events, SubmitSend(e) PROVE TInv'
  BY <1>2 DEF SubmitSend, CmdStates
<1>3. ASSUME NEW e \in Events, ScanSend(e) PROVE TInv'
  <2>1. PICK o \in Outcomes :
          /\ delivered' = IF Stored(o) THEN delivered \cup {e} ELSE delivered
          /\ \/ ScanSucceeded(o) /\ cpc' = [cpc EXCEPT ![e] = "finished"] /\ UNCHANGED disk
             \/ ~ScanSucceeded(o) /\ EnqueueEv(e)
    BY <1>3 DEF ScanSend
  <2>2. delivered' \subseteq Events
    BY <2>1
  <2>3. /\ cpc' \in [Events -> CmdStates]
        /\ disk' \in [Events -> {"none", "sealed", "corrupt", "short"}]
    BY <2>1 DEF EnqueueEv, CmdStates
  <2>4. QED
    BY <1>3, <2>2, <2>3 DEF ScanSend
<1>4. CASE Reset
  BY <1>4 DEF Reset, Keys
<1>5. CASE BeatStart \/ HeartbeatReply \/ HeartbeatStall
  BY <1>5 DEF BeatStart, HeartbeatReply, HeartbeatStall, DrainStates
<1>6. ASSUME NEW d \in Drainers, DrainStart(d) PROVE TInv'
  BY <1>6 DEF DrainStart, Home, DrainStates
<1>7. ASSUME NEW d \in Drainers, NEW e \in Events, DrainRead(d, e) PROVE TInv'
  BY <1>7 DEF DrainRead, Home, Died, DrainStates
<1>8. ASSUME NEW d \in Drainers, DrainReply(d) PROVE TInv'
  <2>1. PICK o \in Outcomes : DrainReplyWith(d, o)
    BY <1>8 DEF DrainReply
  <2>2. dcur[d] \in Events
    BY <2>1 DEF DrainReplyWith
  <2>3. QED
    BY <2>1, <2>2 DEF DrainReplyWith, DrainStates
<1>9. ASSUME NEW d \in Drainers, DrainEnd(d) PROVE TInv'
  BY <1>9 DEF DrainEnd, Home, DrainStates
<1>10. CASE UNCHANGED vars
  BY <1>10 DEF vars
<1>11. Daemon \in Drainers /\ QDrain \in Drainers
  BY DEF Drainers
<1>12. CASE DaemonStep
  BY <1>5, <1>6, <1>7, <1>8, <1>9, <1>11, <1>12 DEF DaemonStep
<1>13. CASE QDrainStep
  BY <1>6, <1>7, <1>8, <1>9, <1>11, <1>13 DEF QDrainStep
<1>14. QED
  BY <1>1, <1>2, <1>3, <1>4, <1>10, <1>12, <1>13 DEF AgentNext

LEMMA InitAInv == AgentInit => AInv
<1> SUFFICES ASSUME AgentInit PROVE AInv
  OBVIOUS
<1>1. key \in Keys /\ dKey \in Keys
  BY DEF AgentInit, Keys
<1>2. cpc \in [Events -> CmdStates] /\ disk \in [Events -> {"none", "sealed", "corrupt", "short"}]
  BY DEF AgentInit, CmdStates
<1>3. dpc \in [Drainers -> DrainStates]
  BY DEF AgentInit, DrainStates
<1>4. todo \in [Drainers -> SUBSET Events] /\ dcur \in [Drainers -> Events \cup {None}]
  BY DEF AgentInit
<1>5. delivered \subseteq Events
  BY DEF AgentInit
<1>6. AtLeastOnce /\ SubHeld
  BY DEF AgentInit, AtLeastOnce, SubHeld
<1>7. QED
  BY <1>1, <1>2, <1>3, <1>4, <1>5, <1>6 DEF AInv, AgentTypeOK

LEMMA NextAInv ==
    ASSUME SubmitEvs = {}, AInv, [AgentNext]_vars
    PROVE  AInv'
<1> USE DEF AInv, AgentTypeOK, SubHeld
<1>1. ASSUME NEW e \in Events, CmdStart(e) PROVE AInv'
  BY <1>1 DEF CmdStart, CmdStates, AtLeastOnce
<1>2. ASSUME NEW e \in Events, SubmitSend(e) PROVE AInv'
  BY <1>2 DEF SubmitSend
<1>3. ASSUME NEW e \in Events, ScanSend(e) PROVE AInv'
  <2>1. PICK o \in Outcomes :
          /\ delivered' = IF Stored(o) THEN delivered \cup {e} ELSE delivered
          /\ \/ ScanSucceeded(o) /\ cpc' = [cpc EXCEPT ![e] = "finished"] /\ UNCHANGED disk
             \/ ~ScanSucceeded(o) /\ EnqueueEv(e)
    BY <1>3 DEF ScanSend
  <2>2. delivered \subseteq delivered' /\ delivered' \subseteq Events
    BY <2>1
  <2>3. CASE ScanSucceeded(o) /\ cpc' = [cpc EXCEPT ![e] = "finished"] /\ UNCHANGED disk
    <3>1. e \in delivered'
      BY <2>1, <2>3 DEF ScanSucceeded, Stored
    <3>2. QED
      BY <1>3, <2>2, <2>3, <3>1 DEF ScanSend, CmdStates, AtLeastOnce
  <2>4. CASE ~ScanSucceeded(o) /\ EnqueueEv(e)
    <3>1. CASE disk' = [disk EXCEPT ![e] = "sealed"] /\ cpc' = [cpc EXCEPT ![e] = "finished"]
      BY <1>3, <2>2, <3>1 DEF ScanSend, CmdStates, AtLeastOnce
    <3>2. CASE \E k \in {"corrupt", "short"} : disk' = [disk EXCEPT ![e] = k] /\ cpc' = [cpc EXCEPT ![e] = "crashed"]
      BY <1>3, <2>2, <3>2 DEF ScanSend, CmdStates, AtLeastOnce
    <3>3. QED
      BY <2>4, <3>1, <3>2 DEF EnqueueEv
  <2>5. QED
    BY <2>1, <2>3, <2>4
<1>4. CASE Reset
  BY <1>4 DEF Reset, Keys, AtLeastOnce
<1>5. CASE BeatStart \/ HeartbeatReply \/ HeartbeatStall
  BY <1>5 DEF BeatStart, HeartbeatReply, HeartbeatStall, DrainStates, AtLeastOnce
<1>6. ASSUME NEW d \in Drainers, DrainStart(d) PROVE AInv'
  BY <1>6 DEF DrainStart, Home, DrainStates, AtLeastOnce
<1>7. ASSUME NEW d \in Drainers, NEW e \in Events, DrainRead(d, e) PROVE AInv'
  BY <1>7 DEF DrainRead, Home, Died, DrainStates, AtLeastOnce
<1>8. ASSUME NEW d \in Drainers, NEW o \in Outcomes, DrainReplyWith(d, o) PROVE AInv'
  <2>1. dcur[d] \in Events
    BY <1>8 DEF DrainReplyWith, SubHeld
  <2>2. QED
    BY <1>8, <2>1 DEF DrainReplyWith, Sends, CallbackOk, Stored, DrainStates, AtLeastOnce
<1>9. ASSUME NEW d \in Drainers, DrainEnd(d) PROVE AInv'
  BY <1>9 DEF DrainEnd, Home, DrainStates, AtLeastOnce
<1>10. CASE UNCHANGED vars
  BY <1>10 DEF vars, AtLeastOnce
<1>11. ASSUME NEW d \in Drainers, DrainReply(d) PROVE AInv'
  BY <1>8, <1>11 DEF DrainReply
<1>12. Daemon \in Drainers /\ QDrain \in Drainers
  BY DEF Drainers
<1>13. CASE DaemonStep
  BY <1>5, <1>6, <1>7, <1>9, <1>11, <1>12, <1>13 DEF DaemonStep
<1>14. CASE QDrainStep
  BY <1>6, <1>7, <1>9, <1>11, <1>12, <1>14 DEF QDrainStep
<1>15. QED
  BY <1>1, <1>2, <1>3, <1>4, <1>10, <1>13, <1>14 DEF AgentNext

\* With only scan commands (scanner-sim, scan-serial, scan-hid), every
\* event whose command ran to its end is stored by the bus or sealed in
\* the queue, for any number of events and drains, whatever the bus
\* answers, however writes crash, resets happen and queue-drain races the
\* daemon.
THEOREM ScanAtLeastOnce ==
    ASSUME SubmitEvs = {}
    PROVE  AgentSpec => []AtLeastOnce
<1>1. AInv /\ [AgentNext]_vars => AInv'
  BY NextAInv
<1>2. QED
  BY InitAInv, <1>1, PTL DEF AgentSpec, AInv


\* For every set of events (submit and scan), drainers and key bound, every
\* reachable state of the commands, the run loop and queue-drain is well
\* typed, and a drainer awaiting its callback holds the entry it read.
THEOREM AgentTypeCorrect ==
    AgentSpec => [](AgentTypeOK /\ SubHeld)
<1>1. AgentInit => TInv
  BY InitAInv DEF AInv, TInv
<1>2. QED
  BY <1>1, NextTInv, PTL DEF AgentSpec, TInv

=============================================================================
