-------------------------- MODULE SlaMonitorProofs --------------------------
(***************************************************************************)
(* Proofs about module SlaMonitor: no flag without its audit event, for    *)
(* any number of scanners and requests.                                    *)
(***************************************************************************)
EXTENDS SlaMonitor, TLAPS

\* A scanner inside the loop holds a request, and the insert that was refused
\* was refused because the row is there.
LoopHolds ==
  \A r \in Replicas :
    /\ spc[r] # "idle" => sreq[r] \in Requests
    /\ spc[r] = "rejected" => sreq[r] \in slaProofs

SlaInv == SlaTypeOK /\ LoopHolds /\ ViolationHasProof

LEMMA ContinueWithTypes ==
  ASSUME SlaTypeOK, NEW r \in Replicas, NEW rest \in SUBSET Requests, ContinueWith(r, rest)
  PROVE  /\ spc' \in [Replicas -> ScanPositions]
         /\ slist' \in [Replicas -> SUBSET Requests]
         /\ sreq' \in [Replicas -> Requests \cup {NoRequest}]
         /\ spc'[r] \in {"idle", "flip"}
         /\ spc'[r] # "idle" => sreq'[r] \in Requests
         /\ \A other \in Replicas \ {r} : spc'[other] = spc[other] /\ sreq'[other] = sreq[other]
<1>1. CASE rest = {}
  BY <1>1 DEF ContinueWith, SlaTypeOK, ScanPositions
<1>2. CASE rest # {}
  <2>1. PICK q \in rest :
          /\ spc' = [spc EXCEPT ![r] = "flip"]
          /\ slist' = [slist EXCEPT ![r] = rest \ {q}]
          /\ sreq' = [sreq EXCEPT ![r] = q]
    BY <1>2 DEF ContinueWith
  <2> QED
    BY <2>1 DEF SlaTypeOK, ScanPositions
<1> QED
  BY <1>1, <1>2

LEMMA SlaInitInv == Init => SlaInv
BY DEF Init, SlaInit, SlaInv, SlaTypeOK, LoopHolds, ViolationHasProof, ScanPositions,
       NoRow, RequestStatus

LEMMA SlaNextInv == SlaInv /\ [Next]_slaVars => SlaInv'
<1> SUFFICES ASSUME SlaInv, [Next]_slaVars
             PROVE  SlaInv'
  OBVIOUS
<1> USE DEF SlaInv, LoopHolds, ViolationHasProof, ProofUnderWay
<1>1. ASSUME NEW q \in Requests, GrowsLate(q)
      PROVE  SlaInv'
  BY <1>1 DEF GrowsLate, SlaTypeOK
<1>2. ASSUME NEW r \in Replicas, Scan(r)
      PROVE  SlaInv'
  <2>1. ContinueWith(r, {q \in Requests : Stuck(q)})
    BY <1>2 DEF Scan
  <2>2. UNCHANGED <<status, late, slaProofs>> /\ spc[r] = "idle"
    BY <1>2 DEF Scan
  <2> QED
    BY <2>1, <2>2, ContinueWithTypes DEF SlaTypeOK
<1>3. ASSUME NEW r \in Replicas, Flip(r)
      PROVE  SlaInv'
  <2>1. SlaTypeOK'
    BY <1>3 DEF Flip, SlaTypeOK, ScanPositions, RequestStatus
  <2>2. LoopHolds'
    BY <1>3 DEF Flip, SlaTypeOK
  <2>3. ASSUME NEW q \in Requests, status'[q] = "SLA_VIOLATED"
        PROVE  q \in slaProofs' \/ ProofUnderWay(q)'
    <3>1. CASE q = sreq[r]
      BY <1>3, <3>1 DEF Flip, SlaTypeOK
    <3>2. CASE q # sreq[r]
      BY <1>3, <2>3, <3>2 DEF Flip, SlaTypeOK
    <3> QED
      BY <3>1, <3>2
  <2> QED
    BY <2>1, <2>2, <2>3
<1>4. ASSUME NEW r \in Replicas, LookUpProof(r)
      PROVE  SlaInv'
  <2>1. CASE sreq[r] \in slaProofs
    <3>1. ContinueWith(r, slist[r]) /\ UNCHANGED <<status, late, slaProofs>> /\ spc[r] = "look"
      BY <1>4, <2>1 DEF LookUpProof
    <3>2. slist[r] \in SUBSET Requests
      BY DEF SlaTypeOK
    <3> QED
      BY <2>1, <3>1, <3>2, ContinueWithTypes DEF SlaTypeOK
  <2>2. CASE sreq[r] \notin slaProofs
    BY <1>4, <2>2 DEF LookUpProof, SlaTypeOK, ScanPositions
  <2> QED
    BY <2>1, <2>2
<1>5. ASSUME NEW r \in Replicas, SaveProof(r)
      PROVE  SlaInv'
  <2>1. CASE sreq[r] \in slaProofs
    BY <1>5, <2>1 DEF SaveProof, SlaTypeOK, ScanPositions
  <2>2. CASE sreq[r] \notin slaProofs
    <3>1. /\ ContinueWith(r, slist[r]) /\ UNCHANGED <<status, late>>
          /\ slaProofs' = slaProofs \cup {sreq[r]}
          /\ spc[r] = "save"
      BY <1>5, <2>2 DEF SaveProof
    <3>2. slist[r] \in SUBSET Requests
      BY DEF SlaTypeOK
    <3> QED
      BY <3>1, <3>2, ContinueWithTypes DEF SlaTypeOK
  <2> QED
    BY <2>1, <2>2
<1>6. ASSUME NEW r \in Replicas, Restart(r)
      PROVE  SlaInv'
  BY <1>6 DEF Restart, StopScan, SlaTypeOK, ScanPositions
<1>7. ASSUME NEW q \in Requests, CoordinatorWrites(q)
      PROVE  SlaInv'
  BY <1>7 DEF CoordinatorWrites, scanner, SlaTypeOK, RequestStatus
<1>8. CASE UNCHANGED slaVars
  BY <1>8 DEF slaVars, SlaTypeOK
<1> QED
  BY <1>1, <1>2, <1>3, <1>4, <1>5, <1>6, <1>7, <1>8 DEF Next, SlaStep, ScanRun

\* Every variable of the scanners keeps its type.
THEOREM SlaTypes == Spec => []SlaTypeOK
<1>1. SlaInv => SlaTypeOK
  BY DEF SlaInv
<1> QED
  BY SlaInitInv, SlaNextInv, <1>1, PTL DEF Spec

\* A request is not shown as SLA_VIOLATED without its audit event stored or
\* being written, however many scanners race for it and whatever the
\* coordinator writes meanwhile.
THEOREM FlagsAreAudited == Spec => []ViolationHasProof
<1>1. SlaInv => ViolationHasProof
  BY DEF SlaInv
<1> QED
  BY SlaInitInv, SlaNextInv, <1>1, PTL DEF Spec
=============================================================================
