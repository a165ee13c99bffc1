------------------------------ MODULE EraseGraph ------------------------------
(***************************************************************************)
(* The deletion workflow end to end: the backend's coordinator, the cleanup*)
(* workers, the SLA scanners and the notification service, over one        *)
(* Postgres database and the queues of erasegraph.events.  The components  *)
(* share the variables their services share as tables and queues; every    *)
(* step of the system is a step of one component.                          *)
(***************************************************************************)
EXTENDS Naturals, Sequences, DeletionTypes

CONSTANTS
  Requests, Replicas, FastSteps, Analytics, Cache, NoMessage, NoRequest,
  Faults,             \* "crash", "throw", "fail", as in the components
  Slow,               \* requests that may outlive the SLA threshold
  Breaker,            \* what Redis may hold at first: "closed" or "any"
  MAX_RETRIES, CIRCUIT_THRESHOLD,
  MaxCopies, MaxQueue, MaxLifecycle

Steps == FastSteps \cup {Analytics}
Workers == Steps \ {Cache}

\* What each worker publishes; only the cache worker retries, skips and
\* answers duplicates.
Vocabulary ==
  [s \in Steps |-> IF s = Cache THEN EventTypes
                   ELSE {"DeletionStepSucceeded", "DeletionStepFailed"}]

ASSUME EraseGraphAssumption ==
  /\ Cache \in FastSteps /\ Analytics \notin FastSteps
  /\ NoMessage \notin [req : Requests, step : Steps, type : EventTypes]
  /\ NoRequest \notin Requests
  /\ MAX_RETRIES \in Nat \ {0} /\ CIRCUIT_THRESHOLD \in Nat \ {0}
  /\ MaxCopies \in Nat /\ MaxQueue \in Nat /\ MaxLifecycle \in Nat

VARIABLES
  creation, status, completedAt, steps, results, reported, proofs, lifecycle,
  pc, msg, before, snap,
  erased, acked, wpc, wreq,
  claimed, retries, dlq, cpc, creq, retry, circuit, failureCount, openUntil,
  late, slaProofs, spc, slist, sreq,
  notified, npc

coordinatorOwn == <<proofs, completedAt, pc, msg, before, snap>>
stepWorkerOwn  == <<wpc, wreq>>
workersShared  == <<erased, acked>>
cacheOwn       == <<claimed, retries, dlq, cpc, creq, retry, circuit,
                    failureCount, openUntil>>
scannerOwn     == <<late, slaProofs, spc, slist, sreq>>
notifierOwn    == <<notified, npc>>

vars == <<creation, status, steps, results, reported, lifecycle, coordinatorOwn,
          workersShared, stepWorkerOwn, cacheOwn, scannerOwn, notifierOwn>>

\* Two scanners on one request can end a process (see SlaMonitor), so a replica
\* may die wherever requests may be late.
BackendFaults ==
  (Faults \cap {"crash", "throw"}) \cup (IF Slow = {} THEN {} ELSE {"crash"})

Coord  == INSTANCE Coordinator WITH Repeats <- TRUE, Faults <- BackendFaults
Work   == INSTANCE StepWorker
Clean  == INSTANCE CacheWorker
Sla    == INSTANCE SlaMonitor
Notify == INSTANCE Notification

TypeOK ==
  /\ Coord!TypeOK /\ Work!WorkerTypeOK /\ Clean!CacheTypeOK
  /\ Sla!SlaTypeOK /\ Notify!NotificationTypeOK
  /\ erased \in [Requests -> SUBSET Steps]
  /\ acked \in [Steps -> SUBSET Requests]

Init ==
  /\ Coord!Init
  /\ erased = [q \in Requests |-> {}]
  /\ acked = [s \in Steps |-> {}]
  /\ Work!WorkerInit
  /\ Clean!CacheInit
  /\ IF Breaker = "any" THEN Clean!BreakerAny ELSE Clean!BreakerClosed
  /\ Sla!SlaInit
  /\ Notify!NotificationInit

-----------------------------------------------------------------------------
OutsideBackend == UNCHANGED <<workersShared, stepWorkerOwn, cacheOwn, notifierOwn>>

CreateStep(q) == Coord!Create(q) /\ OutsideBackend /\ UNCHANGED scannerOwn

\* Consumer and scanner are one process: a rejection in one ends both.
HandlerStep(r) ==
  /\ spc[r] # "rejected"
  /\ (Coord!Handler(r) \/ Coord!HandlerThrows(r))
  /\ OutsideBackend
  /\ UNCHANGED scannerOwn

ScanStep(r) ==
  /\ spc[r] # "rejected"
  /\ Sla!ScanRun(r)
  /\ OutsideBackend
  /\ UNCHANGED <<creation, steps, results, reported, lifecycle, coordinatorOwn>>

GrowLate(q) ==
  /\ q \in Slow
  /\ Sla!GrowsLate(q)
  /\ OutsideBackend
  /\ UNCHANGED <<creation, steps, results, reported, lifecycle, coordinatorOwn>>

\* A replica dies, for a reason of its own or of its scanner's.
CrashReplica(r) ==
  /\ "crash" \in Faults \/ spc[r] = "rejected"
  /\ pc[r] # "idle" \/ spc[r] # "idle"
  /\ Sla!StopScan(r)
  /\ IF pc[r] = "idle"
     THEN UNCHANGED <<creation, steps, results, reported, lifecycle, coordinatorOwn>>
     ELSE Coord!CrashConsumer(r)
  /\ OutsideBackend

WorkerStep(s) ==
  /\ Work!WorkerStep(s)
  /\ UNCHANGED <<status, lifecycle, coordinatorOwn, cacheOwn, scannerOwn, notifierOwn>>

CacheStep ==
  /\ Clean!CacheStep
  /\ UNCHANGED <<status, steps, lifecycle, coordinatorOwn, stepWorkerOwn,
                 scannerOwn, notifierOwn>>

NotifyStep ==
  /\ Notify!NotificationStep
  /\ UNCHANGED <<creation, status, steps, results, reported, coordinatorOwn,
                 workersShared, stepWorkerOwn, cacheOwn, scannerOwn>>

Next ==
  \/ \E q \in Requests : CreateStep(q) \/ GrowLate(q)
  \/ \E r \in Replicas : HandlerStep(r) \/ ScanStep(r) \/ CrashReplica(r)
  \/ \E s \in Workers : WorkerStep(s)
  \/ CacheStep
  \/ NotifyStep

Spec == Init /\ [][Next]_vars

\* Services that are up make progress, and a process that ended is started again
\* (restart: unless-stopped); clients, faults and the clock promise nothing.
FairSpec ==
  /\ Spec
  /\ \A q \in Requests : WF_vars(CreateStep(q) /\ creation[q] # "none")
  /\ \A r \in Replicas : WF_vars(HandlerStep(r)) /\ WF_vars(ScanStep(r))
                          /\ WF_vars(CrashReplica(r) /\ spc[r] = "rejected")
  /\ \A s \in Workers : WF_vars(WorkerStep(s) /\ Work!WorkerRun(s))
  /\ WF_vars(CacheStep /\ Clean!CacheRun)
  /\ WF_vars(NotifyStep /\ Notify!NotificationRun)

-----------------------------------------------------------------------------
(***************************************************************************)
(* What EraseGraph promises.                                               *)
(***************************************************************************)
\* COMPLETED means that every store has really been erased: end to end, through
\* retries, restarts, two replicas and the scanner's writes.
CompletedMeansErased ==
  \A q \in Requests : status[q] = "COMPLETED" => erased[q] = Steps

\* The data subject is told of a completion only when every store is erased,
\* the cache excepted when its circuit was open; of a failure only when a
\* worker reported one.
NotifiedTruthfully ==
  \A q \in Requests :
    /\ notified[q] = "DELETION_COMPLETE" =>
         /\ Workers \subseteq erased[q]
         /\ Cache \in erased[q] \/ Coord!Told(q, Cache, "CIRCUIT_OPEN_SKIP")
    /\ notified[q] = "DELETION_FAILED" =>
         \E s \in Steps : Coord!Told(q, s, "DeletionStepFailed")

\* A crash of any service loses no proof event of a settled step (Coordinator).
SettledStepsProved == Coord!SettledStepsProved

\* Nothing is on its way: no creation, delivery, retry or message.
Quiet ==
  /\ \A q \in Requests : creation[q] \in {"none", "published", "abandoned"}
  /\ \A s \in Steps, q \in Requests : creation[q] = "published" => q \in acked[s]
  /\ \A q \in Requests : ~Clean!InRetry(q)
  /\ cpc = "idle" /\ npc = "idle"
  /\ \A s \in Workers : wpc[s] = "idle"
  /\ \A r \in Replicas : pc[r] = "idle" /\ spc[r] = "idle"
  /\ results = <<>> /\ lifecycle = <<>>

\* When all is quiet the request row says what the step rows say, it is dated,
\* and the notification says the same.  A request the breaker skipped may keep
\* the intermediate PARTIAL_COMPLETED, undated, because its final status is that
\* very word (the early return of updateRequestStatusIfNeeded).
QuietAgreement ==
  Quiet => \A q \in Requests : creation[q] = "published" =>
    /\ status[q] = Coord!Outcome(steps[q])
    /\ completedAt[q] \/ status[q] = "PARTIAL_COMPLETED"
    /\ completedAt[q] =>
         notified[q] = IF status[q] = "FAILED" THEN "DELETION_FAILED" ELSE "DELETION_COMPLETE"

\* When all is quiet every announced request has its completed_at, even where
\* two replicas decided on it at once, a scanner flagged it in between or a
\* refused insert took a handler down: whoever reads the rows last reads them all.
DecidedWhenQuiet ==
  Quiet => \A q \in Requests : creation[q] = "published" => completedAt[q]

\* "All steps terminal with no failures -> status becomes COMPLETED,
\* completed_at set, and a simulated GDPR notification row is written".
AllSucceededCompletes ==
  Quiet => \A q \in Requests :
    (\A s \in Steps : steps[q][s] = "SUCCEEDED") =>
      status[q] = "COMPLETED" /\ completedAt[q] /\ notified[q] = "DELETION_COMPLETE"

\* A request is decided when it has its completed_at.
Promise == INSTANCE Erasure WITH
  Stores <- Steps, Skippable <- Cache, told <- notified,
  outcome <- [q \in Requests |-> IF creation[q] = "none" THEN "none"
                                 ELSE IF completedAt[q] THEN status[q] ELSE "open"]

\* With one replica that stays up and no late requests, the whole workflow,
\* retries and failing cleanups included, implements the promise: one outcome,
\* decided once, backed by what was erased, and told to the subject as decided.
ErasurePromise == Promise!Spec

\* Every accepted request is finished, and its subject is told.
EveryRequestFinishes ==
  \A q \in Requests : creation[q] = "published" ~> (completedAt[q] /\ notified[q] # NoRow)

\* Every accepted request is decided, even when a scanner's refused insert takes
\* its replica, and the delivery the replica was handling, down with it.
EveryRequestDecided ==
  \A q \in Requests : creation[q] = "published" ~> completedAt[q]

\* The real workers, scanners and notification service do to the coordinator
\* nothing that its environment may not do: what is proved of Coordinator!Spec
\* holds of the whole system.
CoordinatorSpec == Coord!Spec
=============================================================================
