------------------------- MODULE OfflineQueueProofs -------------------------
(***************************************************************************)
(* Proofs about OfflineQueue, for every set of names, events and drainers *)
(* and every bound on the number of writes.                                *)
(***************************************************************************)
EXTENDS OfflineQueue, TLAPS

\* TypeOK is not inductive by itself: DrainSubmitOk adds held[d] to
\* delivered, which needs held[d] to be an event while d is submitting.
TypeInv == TypeOK /\ SubmittingWF

LEMMA InitTypeInv == Init => TypeInv
  BY ConstAssumption DEF Init, TypeInv, TypeOK, SubmittingWF

LEMMA NextTypeInv == TypeInv /\ [Next]_vars => TypeInv'
<1> SUFFICES ASSUME TypeInv, [Next]_vars PROVE TypeInv'
  OBVIOUS
<1> USE ConstAssumption DEF TypeInv, TypeOK, SubmittingWF, KindOf, Blob
<1>1. ASSUME NEW n \in Names, NEW e \in Events, Enqueue(n, e) PROVE TypeInv'
  <2>1. [ev |-> e, kind |-> "sealed", mtime |-> clock] \in Blob
    BY <1>1 DEF Enqueue, Kinds
  <2>2. QED
    BY <1>1, <2>1 DEF Enqueue
<1>2. ASSUME NEW n \in Names, NEW e \in Events, EnqueueTorn(n, e) PROVE TypeInv'
  <2>1. PICK k \in {"corrupt", "short"} :
            disk' = [disk EXCEPT ![n] = [ev |-> e, kind |-> k, mtime |-> clock]]
    BY <1>2 DEF EnqueueTorn
  <2>2. [ev |-> e, kind |-> k, mtime |-> clock] \in Blob
    BY <1>2 DEF EnqueueTorn, Kinds
  <2>3. QED
    BY <1>2, <2>1, <2>2 DEF EnqueueTorn
<1>3. ASSUME NEW d \in Drainers, DrainStart(d) PROVE TypeInv'
  BY <1>3 DEF DrainStart
<1>4. ASSUME NEW d \in Drainers, NEW n \in Names, DrainRead(d, n) PROVE TypeInv'
  BY <1>4 DEF DrainRead
<1>5. ASSUME NEW d \in Drainers, DrainSubmitOk(d) PROVE TypeInv'
  BY <1>5 DEF DrainSubmitOk
<1>6. ASSUME NEW d \in Drainers, DrainSubmitFail(d) PROVE TypeInv'
  BY <1>6 DEF DrainSubmitFail
<1>7. ASSUME NEW d \in Drainers, DrainFinish(d) PROVE TypeInv'
  BY <1>7 DEF DrainFinish
<1>8. ASSUME NEW d \in Drainers, DrainerCrash(d) PROVE TypeInv'
  BY <1>8 DEF DrainerCrash
<1>9. ASSUME NEW c \in 0..clock + 1, PruneByAge(c) PROVE TypeInv'
  BY <1>9 DEF PruneByAge
<1>10. CASE UNCHANGED vars
  BY <1>10 DEF vars
<1>11. QED
  BY <1>1, <1>2, <1>3, <1>4, <1>5, <1>6, <1>7, <1>8, <1>9, <1>10 DEF Next

\* Every state the queue and its drainers reach is well typed.
THEOREM TypeCorrect == Spec => []TypeOK
<1>1. Spec => []TypeInv
  BY InitTypeInv, NextTypeInv, PTL DEF Spec
<1>2. QED
  BY <1>1, PTL DEF TypeInv

=============================================================================
