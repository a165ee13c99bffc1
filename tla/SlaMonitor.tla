------------------------------ MODULE SlaMonitor ------------------------------
(***************************************************************************)
(* sla-monitor.service.ts: every replica of the backend scans the table    *)
(* deletion_requests once a minute.  The scan lists the stuck requests     *)
(* once, then works through the list: three awaits per request and no      *)
(* transaction around them, while the coordinator goes on writing the same *)
(* rows and the other replica's scan runs at its own pace.                 *)
(***************************************************************************)
EXTENDS DeletionTypes

CONSTANTS
  Requests,     \* deletion requests
  Replicas,     \* backend replicas, one scanner each
  NoRequest     \* what an idle scanner holds

VARIABLES
  status,       \* deletion_requests.status
  late,         \* requests older than SLA_THRESHOLD_MINUTES
  slaProofs,    \* requests with a proof row sla-violated-<id>
  spc, slist, sreq   \* per replica: position, rows still to do, current row

scanner == <<late, slaProofs, spc, slist, sreq>>
slaVars == <<status, late, slaProofs, spc, slist, sreq>>

ScanPositions == {"idle", "flip", "look", "save", "rejected"}

SlaTypeOK ==
  /\ status \in [Requests -> RequestStatus \cup {NoRow}]
  /\ late \subseteq Requests
  /\ slaProofs \subseteq Requests
  /\ spc \in [Replicas -> ScanPositions]
  /\ slist \in [Replicas -> SUBSET Requests]
  /\ sreq \in [Replicas -> Requests \cup {NoRequest}]

SlaInit ==
  /\ late = {}
  /\ slaProofs = {}
  /\ spc = [r \in Replicas |-> "idle"]
  /\ slist = [r \in Replicas |-> {}]
  /\ sreq = [r \in Replicas |-> NoRequest]

\* Mutant: the scan takes PARTIAL_COMPLETED for the end of a request.
Stuck_NoPartial(q) == q \in late /\ status[q] \in {"PENDING", "RUNNING"}

Stuck(q) == q \in late /\ status[q] \in {"PENDING", "RUNNING", "PARTIAL_COMPLETED"}

\* The loop goes on with some row of what is left of the list, or the scan ends.
ContinueWith(r, rest) ==
  IF rest = {}
  THEN /\ spc' = [spc EXCEPT ![r] = "idle"]
       /\ slist' = [slist EXCEPT ![r] = {}]
       /\ sreq' = [sreq EXCEPT ![r] = NoRequest]
  ELSE \E q \in rest :
       /\ spc' = [spc EXCEPT ![r] = "flip"]
       /\ slist' = [slist EXCEPT ![r] = rest \ {q}]
       /\ sreq' = [sreq EXCEPT ![r] = q]

GrowsLate(q) ==
  /\ status[q] # NoRow
  /\ q \notin late
  /\ late' = late \cup {q}
  /\ UNCHANGED <<status, slaProofs, spc, slist, sreq>>

\* The timer fires and the query runs.  setInterval does not wait for the
\* previous tick; a scan that outlasts the minute is left out.
Scan(r) ==
  /\ spc[r] = "idle"
  /\ \E q \in Requests : Stuck(q)
  /\ ContinueWith(r, {q \in Requests : Stuck(q)})
  /\ UNCHANGED <<status, late, slaProofs>>

\* Mutant: a status the enum does not have.
Flip_OtherName(r) ==
  /\ spc[r] = "flip"
  /\ status' = [status EXCEPT ![sreq[r]] = "LATE"]
  /\ spc' = [spc EXCEPT ![r] = "look"]
  /\ UNCHANGED <<late, slaProofs, slist, sreq>>

\* UPDATE by id alone: the status the row has by now is not looked at.
Flip(r) ==
  /\ spc[r] = "flip"
  /\ status' = [status EXCEPT ![sreq[r]] = "SLA_VIOLATED"]
  /\ spc' = [spc EXCEPT ![r] = "look"]
  /\ UNCHANGED <<late, slaProofs, slist, sreq>>

\* Mutant: the dedupe key without the request id.
LookUpProof_AnyRequest(r) ==
  /\ spc[r] = "look"
  /\ IF slaProofs # {}
     THEN ContinueWith(r, slist[r])
     ELSE spc' = [spc EXCEPT ![r] = "save"] /\ UNCHANGED <<slist, sreq>>
  /\ UNCHANGED <<status, late, slaProofs>>

LookUpProof(r) ==
  /\ spc[r] = "look"
  /\ IF sreq[r] \in slaProofs
     THEN ContinueWith(r, slist[r])
     ELSE spc' = [spc EXCEPT ![r] = "save"] /\ UNCHANGED <<slist, sreq>>
  /\ UNCHANGED <<status, late, slaProofs>>

\* The unique index on dedupe_key rejects a second row; nothing catches it.
SaveProof(r) ==
  /\ spc[r] = "save"
  /\ IF sreq[r] \in slaProofs
     THEN /\ spc' = [spc EXCEPT ![r] = "rejected"]
          /\ UNCHANGED <<slaProofs, slist, sreq>>
     ELSE /\ slaProofs' = slaProofs \cup {sreq[r]}
          /\ ContinueWith(r, slist[r])
  /\ UNCHANGED <<status, late>>

\* The process ends wherever its scan is: no transaction, so what was written
\* stays.  Deaths other than Restart's are EraseGraph's CrashReplica.
StopScan(r) ==
  /\ spc' = [spc EXCEPT ![r] = "idle"]
  /\ slist' = [slist EXCEPT ![r] = {}]
  /\ sreq' = [sreq EXCEPT ![r] = NoRequest]
  /\ UNCHANGED <<status, late, slaProofs>>

\* The rejection nobody handles ends the process, which is started again.
Restart(r) == spc[r] = "rejected" /\ StopScan(r)

ScanRun(r) == Scan(r) \/ Flip(r) \/ LookUpProof(r) \/ SaveProof(r) \/ Restart(r)

SlaStep ==
  \/ \E q \in Requests : GrowsLate(q)
  \/ \E r \in Replicas : ScanRun(r)

-----------------------------------------------------------------------------
(***************************************************************************)
(* The scanners by themselves: the coordinator writes what it may.         *)
(***************************************************************************)
Init == SlaInit /\ status = [q \in Requests |-> NoRow]

CoordinatorWrites(q) ==
  \/ /\ status[q] = NoRow
     /\ status' = [status EXCEPT ![q] = "PENDING"]
     /\ UNCHANGED scanner
  \/ /\ status[q] # NoRow
     /\ \E st \in {"PARTIAL_COMPLETED", "COMPLETED", "FAILED"} :
          status' = [status EXCEPT ![q] = st]
     /\ UNCHANGED scanner

Next == SlaStep \/ \E q \in Requests : CoordinatorWrites(q)

Spec == Init /\ [][Next]_slaVars
FairSpec == Spec /\ \A r \in Replicas : WF_slaVars(ScanRun(r))

-----------------------------------------------------------------------------
(***************************************************************************)
(* What the SLA monitor promises.                                          *)
(***************************************************************************)
\* Some scanner still has q's proof row to look up or write.
ProofUnderWay(q) ==
  \E r \in Replicas : sreq[r] = q /\ spc[r] \in {"look", "save", "rejected"}

\* A request shown as SLA_VIOLATED has its audit event, or a scanner is about
\* to write it.  With two scanners on one request the one whose insert is
\* refused dies, and the other's row is there.
ViolationHasProof ==
  \A q \in Requests :
    status[q] = "SLA_VIOLATED" => q \in slaProofs \/ ProofUnderWay(q)

\* As long as no replica dies in the middle of a scan for another reason, every
\* request that is flagged gets its audit event in the end, even when one of
\* two scanners is restarted by the other's insert.
AuditedAtLast ==
  \A q \in Requests : (status[q] = "SLA_VIOLATED") ~> (q \in slaProofs)

\* A late request is not overlooked: it is settled by the coordinator or flagged
\* by one of the scanners, whatever else is on their lists.
LateIsNoticed ==
  \A q \in Requests :
    (q \in late) ~> (status[q] \in {"COMPLETED", "FAILED", "SLA_VIOLATED"})
=============================================================================
