--------------------------- MODULE EraseGraphTruth ---------------------------
(***************************************************************************)
(* What the whole system inherits from the coordinator.  The theorems of   *)
(* CoordinatorProofs hold of any environment that keeps to the actions of  *)
(* Environment, and SystemIsCoordinated shows that the real services do; so*)
(* they are theorems of EraseGraph.  Together with what the workers have   *)
(* erased by the time they report success, a COMPLETED request is erased.  *)
(***************************************************************************)
EXTENDS EraseGraphProofs

Covered == INSTANCE CoordinatorProofs WITH Repeats <- TRUE, Faults <- BackendFaults

\* The system's constants are constants the coordinator's proofs allow.
LEMMA ConstantsFit ==
  /\ Analytics \notin FastSteps
  /\ Vocabulary \in [Covered!Steps -> SUBSET Covered!EventTypes]
  /\ TRUE \in BOOLEAN
  /\ NoMessage \notin Covered!Message
  /\ BackendFaults \subseteq {"crash", "throw"}
  /\ MaxQueue \in Nat /\ MaxLifecycle \in Nat
BY EraseGraphAssumption
DEF Covered!Steps, Steps, Vocabulary, Covered!EventTypes, EventTypes, Covered!Message, BackendFaults

\* The coordinator of EraseGraph and the one the proofs are about are the same.
LEMMA SameCoordinator == CoordinatorSpec => Covered!Spec
<1>1. Coord!Init => Covered!Init
  BY DEF Coord!Init, Covered!Init, Coord!NoSteps, Covered!NoSteps, Coord!Steps, Covered!Steps,
         Coord!NoRow, Covered!NoRow
<1>2. [Coord!Next]_(Coord!vars) => [Covered!Next]_(Covered!vars)
  BY Zenon DEF
    Coord!SaveRequest, Coord!SaveSteps, Coord!PublishRequested, Coord!AbandonCreate, Coord!Goto,
    Coord!ForgetReads, Coord!Deliver, Coord!UpdateStep, Coord!ReadRequest, Coord!AllCompleted,
    Coord!FastDone, Coord!Outcome, Coord!Decision, Coord!ReadSteps, Coord!WritePartial, Coord!WriteOutcome,
    Coord!PublishLifecycle, Coord!RecordProof, Coord!Ack, Coord!HandlerThrows, Coord!CrashConsumer,
    Coord!Handler, Coord!Report, Coord!AnalyticsRunning, Coord!FlagSla, Coord!LifecycleTaken,
    Coord!Environment, Coord!Create, Coord!Next, Coord!vars, Coord!Steps, Coord!Message, Coord!created,
    Coord!consumer, Coord!NoSteps, Coord!EventTypes, Coord!NoRow, Coord!Terminal, Coord!StatusOf,
    Coord!WritesStep, Covered!SaveRequest, Covered!SaveSteps, Covered!PublishRequested,
    Covered!AbandonCreate, Covered!Goto, Covered!ForgetReads, Covered!Deliver, Covered!UpdateStep,
    Covered!ReadRequest, Covered!AllCompleted, Covered!FastDone, Covered!Outcome, Covered!Decision,
    Covered!ReadSteps, Covered!WritePartial, Covered!WriteOutcome, Covered!PublishLifecycle,
    Covered!RecordProof, Covered!Ack, Covered!HandlerThrows, Covered!CrashConsumer, Covered!Handler,
    Covered!Report, Covered!AnalyticsRunning, Covered!FlagSla, Covered!LifecycleTaken, Covered!Environment,
    Covered!Create, Covered!Next, Covered!vars, Covered!Steps, Covered!Message, Covered!created,
    Covered!consumer, Covered!NoSteps, Covered!EventTypes, Covered!NoRow, Covered!Terminal, Covered!StatusOf,
    Covered!WritesStep
<1> QED
  BY <1>1, <1>2, PTL DEF CoordinatorSpec, Coord!Spec, Covered!Spec

LEMMA JustifiedTogether == Spec => []Coord!StatusJustified
<1>1. Covered!Spec => []Covered!StatusJustified
  BY Covered!StatusTruth, ConstantsFit
<1>2. Covered!StatusJustified => Coord!StatusJustified
  BY DEF
    Coord!StatusJustified, Coord!Justified, Coord!Told, Coord!ToldTerminal, Coord!Steps, Coord!EventTypes,
    Coord!Terminal, Coord!StatusOf, Coord!WritesStep, Covered!StatusJustified, Covered!Justified,
    Covered!Told, Covered!ToldTerminal, Covered!Steps, Covered!EventTypes, Covered!Terminal,
    Covered!StatusOf, Covered!WritesStep
<1> QED
  BY SystemIsCoordinated, SameCoordinator, <1>1, <1>2, PTL

\* With two replicas, real workers and scanners, and any service crashing at any
\* point, the proof event of a settled step is there or still to come, as long
\* as no handler throws.
THEOREM SystemKeepsProofs ==
  ASSUME "throw" \notin Faults
  PROVE  Spec => []SettledStepsProved
<1>1. "throw" \notin BackendFaults
  BY DEF BackendFaults
<1>2. Covered!Spec => []Covered!SettledStepsProved
  BY <1>1, Covered!CrashKeepsProofs, ConstantsFit
<1>3. Covered!SettledStepsProved => SettledStepsProved
  BY DEF SettledStepsProved, Coord!SettledStepsProved, Covered!SettledStepsProved, Coord!ResultOf,
         Covered!ResultOf, Coord!Steps, Covered!Steps, Coord!Terminal, Covered!Terminal
<1> QED
  BY SystemIsCoordinated, SameCoordinator, <1>2, <1>3, PTL

-----------------------------------------------------------------------------
(***************************************************************************)
(* A worker that reports success has erased its store: what it is about to *)
(* report, and what has ever been reported, stands in `erased`.            *)
(***************************************************************************)
StoreTruth ==
  /\ erased \in [Requests -> SUBSET Steps]
  /\ \A m \in reported : m.type = "DeletionStepSucceeded" => m.step \in erased[m.req]
  /\ \A s \in Workers : wpc[s] = "erased" => s \in erased[wreq[s]]
  /\ cpc \in {"close", "zero", "unset", "succeeded"} => Cache \in erased[creq]

LEMMA StoreKept ==
  ASSUME StoreTruth, UNCHANGED <<erased, reported, wpc, wreq, cpc, creq>>
  PROVE  StoreTruth'
BY DEF StoreTruth

\* What one store's erasure does to what is erased.
LEMMA EraseGrows ==
  ASSUME StoreTruth, NEW q \in Requests, NEW s \in Steps,
         erased' = [erased EXCEPT ![q] = @ \cup {s}]
  PROVE  /\ erased' \in [Requests -> SUBSET Steps] /\ s \in erased'[q]
         /\ \A p \in Requests : erased[p] \subseteq erased'[p]
BY DEF StoreTruth

LEMMA WorkersTell ==
  ASSUME GraphInv, StoreTruth, NEW s \in Workers, WorkerStep(s)
  PROVE  StoreTruth'
<1> USE DEF WorkerStep, Work!WorkerStep, Work!WorkerRun, Work!Move, cacheOwn, Workers
<1>1. /\ \A t \in Workers : wpc[t] # "idle" => wreq[t] \in Requests
      /\ cpc # "idle" => creq \in Requests
      /\ \A m \in reported : m.req \in Requests
      /\ wpc \in [Workers -> Work!WorkerPositions]
  BY DEF GraphInv, WorkInv, CacheInv, CoordInv, ResultsAnnounced, Announced
<1>2. UNCHANGED <<cpc, creq>>
  OBVIOUS
<1>3. CASE Work!Erase(s)
  <2>1. /\ wreq[s] \in Requests /\ s \in Steps /\ UNCHANGED <<reported, wreq>>
        /\ wpc' = [wpc EXCEPT ![s] = "erased"] /\ erased' = [erased EXCEPT ![wreq[s]] = @ \cup {s}]
    BY <1>1, <1>3 DEF Work!Erase
  <2>2. /\ erased' \in [Requests -> SUBSET Steps] /\ s \in erased'[wreq[s]]
        /\ \A p \in Requests : erased[p] \subseteq erased'[p]
    BY <2>1, EraseGrows
  <2>3. \A m \in reported' : m.type = "DeletionStepSucceeded" => m.step \in erased'[m.req]
    BY <1>1, <2>1, <2>2 DEF StoreTruth
  <2>4. ASSUME NEW t \in Workers, wpc'[t] = "erased"
        PROVE  t \in erased'[wreq'[t]]
    <3>1. CASE t = s
      BY <2>1, <2>2, <3>1
    <3>2. CASE t # s
      <4>1. wpc[t] = "erased" /\ wreq[t] \in Requests
        BY <1>1, <2>1, <2>4, <3>2
      <4> QED
        BY <2>1, <2>2, <4>1 DEF StoreTruth
    <3> QED
      BY <3>1, <3>2
  <2>5. cpc' \in {"close", "zero", "unset", "succeeded"} => Cache \in erased'[creq']
    BY <1>1, <1>2, <2>2 DEF StoreTruth
  <2> QED
    BY <2>2, <2>3, <2>4, <2>5 DEF StoreTruth
<1>4. CASE Work!PublishResult(s)
  <2> DEFINE m == [req |-> wreq[s], step |-> s,
                   type |-> IF wpc[s] = "erased" THEN "DeletionStepSucceeded" ELSE "DeletionStepFailed"]
  <2>1. UNCHANGED <<erased, wreq>> /\ reported' = reported \cup {m} /\ wpc' = [wpc EXCEPT ![s] = "published"]
    BY <1>4 DEF Work!PublishResult
  <2>2. m.type = "DeletionStepSucceeded" => m.step \in erased[m.req]
    BY DEF StoreTruth
  <2> HIDE DEF m
  <2>3. \A t \in Workers : wpc'[t] = "erased" => wpc[t] = "erased"
    BY <1>1, <2>1
  <2> QED
    BY <1>2, <2>1, <2>2, <2>3 DEF StoreTruth
<1>5. CASE \/ \E q \in Requests : Work!Take(s, q)
           \/ Work!MarkRunning(s) \/ Work!AckRequest(s)
           \/ Work!EraseFails(s) \/ Work!WorkerThrows(s) \/ Work!CrashWorker(s)
  <2>1. /\ UNCHANGED <<erased, reported>>
        /\ \E next \in {"starting", "erasing", "idle", "failed"} : wpc' = [wpc EXCEPT ![s] = next]
        /\ wreq' = wreq \/ \E q : wreq' = [wreq EXCEPT ![s] = q]
    BY <1>5 DEF Work!Take, Work!MarkRunning, Work!AckRequest, Work!EraseFails, Work!WorkerThrows, Work!CrashWorker
  <2>2. \A t \in Workers : wpc'[t] = "erased" => wpc[t] = "erased" /\ t # s
    BY <1>1, <2>1
  <2>3. \A t \in Workers : t # s => wreq'[t] = wreq[t]
    BY <2>1 DEF GraphInv, WorkInv
  <2> QED
    BY <1>2, <2>1, <2>2, <2>3 DEF StoreTruth
<1> QED
  BY <1>3, <1>4, <1>5

LEMMA CacheTells ==
  ASSUME GraphInv, StoreTruth, CacheStep
  PROVE  StoreTruth'
<1> USE DEF CacheStep, Clean!NoTell, stepWorkerOwn
<1> DEFINE done == {"close", "zero", "unset", "succeeded"}
<1>1. /\ \A t \in Workers : wpc[t] # "idle" => wreq[t] \in Requests
      /\ cpc # "idle" => creq \in Requests
      /\ \A m \in reported : m.req \in Requests
  BY DEF GraphInv, WorkInv, CacheInv, CoordInv, ResultsAnnounced, Announced
<1>2. UNCHANGED <<wpc, wreq>>
  OBVIOUS
<1>3. CASE Clean!DeleteCacheKeys
  <2>1. /\ creq \in Requests /\ Cache \in Steps /\ UNCHANGED <<reported, creq>>
        /\ erased' = [erased EXCEPT ![creq] = @ \cup {Cache}]
    BY <1>1, <1>3, EraseGraphAssumption DEF Clean!DeleteCacheKeys, Steps
  <2>2. /\ erased' \in [Requests -> SUBSET Steps] /\ Cache \in erased'[creq]
        /\ \A p \in Requests : erased[p] \subseteq erased'[p]
    BY <2>1, EraseGrows
  <2>3. \A m \in reported' : m.type = "DeletionStepSucceeded" => m.step \in erased'[m.req]
    BY <1>1, <2>1, <2>2 DEF StoreTruth
  <2>4. \A t \in Workers : wpc'[t] = "erased" => t \in erased'[wreq'[t]]
    BY <1>1, <1>2, <2>2 DEF StoreTruth
  <2> QED
    BY <2>1, <2>2, <2>3, <2>4 DEF StoreTruth
<1>4. CASE ~Clean!DeleteCacheKeys
  <2>1. UNCHANGED erased
    BY <1>4 DEF
       Clean!CacheStep, Clean!CacheRun, Clean!CacheTake, Clean!TakeFirst, Clean!TakeRetry, Clean!SkipOpen,
       Clean!Admit, Clean!ClaimNew, Clean!IgnoreDuplicate, Clean!DeleteCacheKeys, Clean!RecordSuccess,
       Clean!TellSucceeded, Clean!RecordFailure, Clean!TellRetrying, Clean!PublishToRetryQueue,
       Clean!TellFailed, Clean!PublishToDlq, Clean!AckCache, Clean!CleanupFails, Clean!CacheThrows,
       Clean!CrashCache, Clean!WindowExpires, Clean!Settle
  <2>2. cpc' \in done => cpc \in done /\ creq' = creq
    BY <1>4 DEF
       Clean!CacheStep, Clean!CacheRun, Clean!CacheTake, Clean!TakeFirst, Clean!TakeRetry, Clean!SkipOpen,
       Clean!Admit, Clean!ClaimNew, Clean!IgnoreDuplicate, Clean!DeleteCacheKeys, Clean!RecordSuccess,
       Clean!TellSucceeded, Clean!RecordFailure, Clean!TellRetrying, Clean!PublishToRetryQueue,
       Clean!TellFailed, Clean!PublishToDlq, Clean!AckCache, Clean!CleanupFails, Clean!CacheThrows,
       Clean!CrashCache, Clean!WindowExpires, Clean!Settle
  <2>3. CASE UNCHANGED reported
    BY <1>2, <2>1, <2>2, <2>3 DEF StoreTruth
  <2>4. CASE \E type \in Coord!EventTypes :
               Clean!Tell(type) /\ (type = "DeletionStepSucceeded" => cpc = "succeeded")
    <3>1. PICK type \in Coord!EventTypes :
            Clean!Tell(type) /\ (type = "DeletionStepSucceeded" => cpc = "succeeded")
      BY <2>4
    <3>2. reported' = reported \cup {[req |-> creq, step |-> Cache, type |-> type]}
      BY <3>1 DEF Clean!Tell
    <3>3. \A m \in reported' : m.type = "DeletionStepSucceeded" => m.step \in erased[m.req]
      BY <3>1, <3>2 DEF StoreTruth
    <3> QED
      BY <1>2, <2>1, <2>2, <3>3 DEF StoreTruth
  <2> QED
    BY <1>4, <2>3, <2>4 DEF Coord!EventTypes,
       Clean!CacheStep, Clean!CacheRun, Clean!CacheTake, Clean!TakeFirst, Clean!TakeRetry, Clean!SkipOpen,
       Clean!Admit, Clean!ClaimNew, Clean!IgnoreDuplicate, Clean!DeleteCacheKeys, Clean!RecordSuccess,
       Clean!TellSucceeded, Clean!RecordFailure, Clean!TellRetrying, Clean!PublishToRetryQueue,
       Clean!TellFailed, Clean!PublishToDlq, Clean!AckCache, Clean!CleanupFails, Clean!CacheThrows,
       Clean!CrashCache, Clean!WindowExpires, Clean!Settle
<1> QED
  BY <1>3, <1>4

LEMMA StoreStep ==
  ASSUME GraphInv, StoreTruth, [Next]_vars
  PROVE  StoreTruth'
<1>1. CASE \E s \in Workers : WorkerStep(s)
  BY <1>1, WorkersTell
<1>2. CASE CacheStep
  BY <1>2, CacheTells
<1>3. CASE \E q \in Requests : CreateStep(q)
  BY <1>3, StoreKept
  DEF CreateStep, OutsideBackend, workersShared, stepWorkerOwn, cacheOwn, Coord!Create, Coord!SaveRequest,
      Coord!SaveSteps, Coord!PublishRequested, Coord!AbandonCreate
<1>4. CASE \E r \in Replicas : HandlerStep(r)
  BY <1>4, StoreKept
  DEF HandlerStep, OutsideBackend, workersShared, stepWorkerOwn, cacheOwn, Coord!Handler, Coord!Deliver,
      Coord!UpdateStep, Coord!ReadRequest, Coord!ReadSteps, Coord!WritePartial, Coord!WriteOutcome,
      Coord!PublishLifecycle, Coord!RecordProof, Coord!Ack, Coord!HandlerThrows
<1>5. CASE \E r \in Replicas : CrashReplica(r)
  BY <1>5, StoreKept
  DEF CrashReplica, OutsideBackend, workersShared, stepWorkerOwn, cacheOwn, Coord!CrashConsumer
<1>6. CASE \/ \E q \in Requests : GrowLate(q)
           \/ \E r \in Replicas : ScanStep(r)
  BY <1>6, StoreKept DEF GrowLate, ScanStep, OutsideBackend, workersShared, stepWorkerOwn, cacheOwn
<1>7. CASE NotifyStep
  BY <1>7, StoreKept DEF NotifyStep, workersShared, stepWorkerOwn, cacheOwn
<1>8. CASE UNCHANGED vars
  BY <1>8, StoreKept DEF vars, workersShared, stepWorkerOwn, cacheOwn
<1> QED
  BY <1>1, <1>2, <1>3, <1>4, <1>5, <1>6, <1>7, <1>8 DEF Next

LEMMA InitStore == Init => StoreTruth
BY DEF Init, StoreTruth, Coord!Init, Work!WorkerInit, Clean!CacheInit

\* COMPLETED means erased, end to end: for any stores, requests and replicas,
\* through retries, restarts, dropped messages, failing cleanups and whatever
\* the scanners write.
THEOREM CompletionsAreErased == Spec => []CompletedMeansErased
<1>1. GraphInv /\ StoreTruth /\ Coord!StatusJustified => CompletedMeansErased
  <2> SUFFICES ASSUME StoreTruth, Coord!StatusJustified, NEW q \in Requests, status[q] = "COMPLETED"
               PROVE  erased[q] = Steps
    BY DEF CompletedMeansErased
  <2>1. \A s \in Steps : [req |-> q, step |-> s, type |-> "DeletionStepSucceeded"] \in reported
    BY DEF Coord!StatusJustified, Coord!Justified, Coord!Told, Coord!Steps, Steps
  <2>2. \A s \in Steps : s \in erased[q]
    BY <2>1 DEF StoreTruth
  <2> QED
    BY <2>2 DEF StoreTruth
<1> QED
  BY InitGraph, GraphStep, InitStore, StoreStep, JustifiedTogether, <1>1, PTL DEF Spec

-----------------------------------------------------------------------------
(***************************************************************************)
(* What the data subject was told.  A row of deletion_notifications is made*)
(* of the message at the queue's head, and the message of what the workers *)
(* had said; by the time it is read they can only have said more.          *)
(***************************************************************************)
BackedTogether == Covered!LifecycleBacked /\ Covered!InVocabulary

LEMMA SystemIsBacked == Spec => []BackedTogether
<1>1. Covered!Spec => [](Covered!LifecycleBacked /\ Covered!InVocabulary)
  BY Covered!LifecycleFullyBacked, ConstantsFit
<1> QED
  BY SystemIsCoordinated, SameCoordinator, <1>1, PTL DEF BackedTogether

NotifiedBacked ==
  /\ notified \in [Requests -> {NoRow, "DELETION_COMPLETE", "DELETION_FAILED"}]
  /\ \A q \in Requests :
       /\ notified[q] = "DELETION_COMPLETE" => Covered!Backed(q, "COMPLETED")
       /\ notified[q] = "DELETION_FAILED" => Covered!Backed(q, "FAILED")

LEMMA NotifiedKept ==
  ASSUME NotifiedBacked, UNCHANGED notified, reported \subseteq reported'
  PROVE  NotifiedBacked'
BY DEF NotifiedBacked, Covered!Backed, Covered!Told

\* Results are only ever added to the history.
LEMMA HistoryGrows == [Next]_vars => reported \subseteq reported'
<1>1. CASE \E s \in Workers : WorkerStep(s)
  BY <1>1 DEF WorkerStep, Work!WorkerStep, Work!WorkerRun, Work!Take, Work!MarkRunning, Work!Erase,
              Work!PublishResult, Work!AckRequest, Work!EraseFails, Work!WorkerThrows, Work!CrashWorker
<1>2. CASE CacheStep
  BY <1>2 DEF CacheStep, Clean!NoTell, Clean!Tell,
       Clean!CacheStep, Clean!CacheRun, Clean!CacheTake, Clean!TakeFirst, Clean!TakeRetry, Clean!SkipOpen,
       Clean!Admit, Clean!ClaimNew, Clean!IgnoreDuplicate, Clean!DeleteCacheKeys, Clean!RecordSuccess,
       Clean!TellSucceeded, Clean!RecordFailure, Clean!TellRetrying, Clean!PublishToRetryQueue,
       Clean!TellFailed, Clean!PublishToDlq, Clean!AckCache, Clean!CleanupFails, Clean!CacheThrows,
       Clean!CrashCache, Clean!WindowExpires
<1>3. CASE \E q \in Requests : CreateStep(q) \/ GrowLate(q)
  BY <1>3 DEF CreateStep, GrowLate, Coord!Create, Coord!SaveRequest, Coord!SaveSteps, Coord!PublishRequested,
              Coord!AbandonCreate
<1>4. CASE \E r \in Replicas : HandlerStep(r) \/ ScanStep(r) \/ CrashReplica(r)
  BY <1>4 DEF HandlerStep, ScanStep, CrashReplica, Coord!Handler, Coord!Deliver, Coord!UpdateStep,
              Coord!ReadRequest, Coord!ReadSteps, Coord!WritePartial, Coord!WriteOutcome,
              Coord!PublishLifecycle, Coord!RecordProof, Coord!Ack, Coord!HandlerThrows, Coord!CrashConsumer
<1>5. CASE NotifyStep \/ UNCHANGED vars
  BY <1>5 DEF NotifyStep, vars
<1> QED
  BY <1>1, <1>2, <1>3, <1>4, <1>5 DEF Next

LEMMA NotifierStores ==
  ASSUME GraphInv, NotifiedBacked, BackedTogether, NotifyStep
  PROVE  NotifiedBacked'
<1> USE DEF NotifyStep, Notify!NotificationStep, Notify!NotificationRun
<1>1. UNCHANGED reported
  OBVIOUS
<1>2. CASE Notify!StoreNotification
  <2> DEFINE m == Head(lifecycle)
  <2>1. /\ lifecycle \in Seq(Coord!Lifecycle) /\ lifecycle # <<>>
        /\ notified' = [notified EXCEPT ![m.req] =
                          IF m.status = "FAILED" THEN "DELETION_FAILED" ELSE "DELETION_COMPLETE"]
    BY <1>2 DEF Notify!StoreNotification, GraphInv, CoordInv
  <2>2. m = lifecycle[1] /\ 1 \in 1 .. Len(lifecycle) /\ m \in Coord!Lifecycle
    BY <2>1
  <2>3. Covered!Backed(m.req, m.status)
    BY <2>2 DEF BackedTogether, Covered!LifecycleBacked
  <2>4. m.status # "FAILED" => Covered!Backed(m.req, "COMPLETED")
    BY <2>3 DEF Covered!Backed
  <2>5. m.req \in Requests
    BY <2>2 DEF Coord!Lifecycle
  <2> HIDE DEF m
  <2>6. \A q, st : Covered!Backed(q, st) => Covered!Backed(q, st)'
    BY <1>1 DEF Covered!Backed, Covered!Told
  <2> QED
    BY <2>1, <2>3, <2>4, <2>5, <2>6 DEF NotifiedBacked
<1>3. CASE Notify!AckLifecycle \/ Notify!NotificationThrows \/ Notify!CrashNotification
  BY <1>1, <1>3, NotifiedKept DEF Notify!AckLifecycle, Notify!NotificationThrows, Notify!CrashNotification
<1> QED
  BY <1>2, <1>3

LEMMA NotifiedStep ==
  ASSUME GraphInv, NotifiedBacked, BackedTogether, [Next]_vars
  PROVE  NotifiedBacked'
<1>1. CASE NotifyStep
  BY <1>1, NotifierStores
<1>2. CASE ~NotifyStep
  <2>1. UNCHANGED notified
    BY <1>2 DEF Next, vars, notifierOwn, OutsideBackend, CreateStep, GrowLate, HandlerStep, ScanStep,
                CrashReplica, WorkerStep, CacheStep
  <2> QED
    BY <2>1, HistoryGrows, NotifiedKept
<1> QED
  BY <1>1, <1>2

LEMMA InitNotified == Init => NotifiedBacked
BY DEF Init, Notify!NotificationInit, NotifiedBacked, Notify!NoRow, NoRow

\* The data subject is told of a completion only when every store is erased, the
\* cache excepted when its worker skipped it, and of a failure only when a worker
\* reported one: for any stores, requests and replicas, and through every crash,
\* redelivery, retry and dropped message of the services between.
THEOREM SubjectIsToldTheTruth == Spec => []NotifiedTruthfully
<1>1. NotifiedBacked /\ BackedTogether /\ StoreTruth => NotifiedTruthfully
  <2> SUFFICES ASSUME NotifiedBacked, BackedTogether, StoreTruth, NEW q \in Requests
               PROVE  /\ notified[q] = "DELETION_COMPLETE" =>
                           /\ Workers \subseteq erased[q]
                           /\ Cache \in erased[q] \/ Coord!Told(q, Cache, "CIRCUIT_OPEN_SKIP")
                      /\ notified[q] = "DELETION_FAILED" =>
                           \E s \in Steps : Coord!Told(q, s, "DeletionStepFailed")
    BY DEF NotifiedTruthfully
  <2> USE DEF Covered!Told, Coord!Told, Covered!Steps, Steps
  <2>1. ASSUME NEW s \in Steps, Coord!Told(q, s, "DeletionStepSucceeded")
        PROVE  s \in erased[q]
    BY <2>1 DEF StoreTruth
  <2>2. ASSUME NEW s \in Steps, Coord!Told(q, s, "CIRCUIT_OPEN_SKIP")
        PROVE  s = Cache
    BY <2>2 DEF BackedTogether, Covered!InVocabulary, Vocabulary
  <2>3. ASSUME notified[q] = "DELETION_COMPLETE", NEW s \in Steps
        PROVE  s \in erased[q] \/ (s = Cache /\ Coord!Told(q, s, "CIRCUIT_OPEN_SKIP"))
    <3>1. Coord!Told(q, s, "DeletionStepSucceeded") \/ Coord!Told(q, s, "CIRCUIT_OPEN_SKIP")
      BY <2>3 DEF NotifiedBacked, Covered!Backed
    <3> QED
      BY <3>1, <2>1, <2>2
  <2>4. notified[q] = "DELETION_FAILED" => \E s \in Steps : Coord!Told(q, s, "DeletionStepFailed")
    BY DEF NotifiedBacked, Covered!Backed
  <2>5. Cache \in Steps /\ Workers \subseteq Steps /\ Cache \notin Workers
    BY EraseGraphAssumption DEF Workers
  <2> QED
    BY <2>3, <2>4, <2>5
<1> QED
  BY InitGraph, GraphStep, InitStore, StoreStep, InitNotified, NotifiedStep, SystemIsBacked, <1>1, PTL DEF Spec

-----------------------------------------------------------------------------
(***************************************************************************)
(* The promise kept.  With one replica that stays up and no request that   *)
(* outlives its deadline, the system implements Erasure: each step of it   *)
(* is a step of the promise or leaves the promise's state alone.  Cleanups *)
(* may fail, retries and the breaker do what they do, and requests come in *)
(* any number.  The theorems above say what is true of an outcome; that it *)
(* is decided once needs the order of the queue: a worker's final word is  *)
(* the last it says, so no message follows it that could move a row back.  *)
(***************************************************************************)
Steady ==
  /\ Faults \subseteq {"fail"}
  /\ Slow = {}
  /\ \A r, p \in Replicas : r = p

Words == INSTANCE CacheAdminProofs WITH
  Endpoints <- {}, apc <- "idle", rleft <- 0, rreq <- NoRequest, sawOpen <- "CLOSED",
  sawWindow <- FALSE, wasOpen <- FALSE, dropped <- {}, calm <- TRUE

LEMMA SystemTruth == Spec => []Covered!IInv
BY SystemIsCoordinated, SameCoordinator, Covered!SpecTruth, ConstantsFit, PTL

LEMMA SteadyBackend ==
  ASSUME Steady
  PROVE  BackendFaults = {}
BY DEF Steady, BackendFaults

\* No request is late, so no scanner ever starts.
Undisturbed == late = {} /\ \A r \in Replicas : spc[r] = "idle"

\* What the two instances of the coordinator do is the same.
LEMMA SameCreate ==
  ASSUME NEW q \in Requests, Coord!Create(q)
  PROVE  Covered!Create(q)
BY Zenon DEF Coord!SaveRequest, Coord!SaveSteps, Coord!PublishRequested, Coord!AbandonCreate, Coord!Create,
     Coord!Steps, Coord!consumer, Covered!SaveRequest, Covered!SaveSteps, Covered!PublishRequested,
     Covered!AbandonCreate, Covered!Create, Covered!Steps, Covered!consumer

LEMMA SameHandler ==
  ASSUME NEW r \in Replicas, Coord!Handler(r)
  PROVE  Covered!Handler(r)
BY Zenon DEF Coord!Goto, Coord!ForgetReads, Coord!Deliver, Coord!UpdateStep, Coord!ReadRequest,
     Coord!AllCompleted, Coord!FastDone, Coord!Outcome, Coord!Decision, Coord!ReadSteps,
     Coord!WritePartial, Coord!WriteOutcome, Coord!PublishLifecycle, Coord!RecordProof, Coord!Ack,
     Coord!Handler, Coord!Steps, Coord!created, Coord!consumer, Coord!NoSteps, Coord!NoRow,
     Coord!Terminal, Coord!StatusOf, Coord!WritesStep, Covered!Goto, Covered!ForgetReads,
     Covered!Deliver, Covered!UpdateStep, Covered!ReadRequest, Covered!AllCompleted, Covered!FastDone,
     Covered!Outcome, Covered!Decision, Covered!ReadSteps, Covered!WritePartial, Covered!WriteOutcome,
     Covered!PublishLifecycle, Covered!RecordProof, Covered!Ack, Covered!Handler, Covered!Steps,
     Covered!created, Covered!consumer, Covered!NoSteps, Covered!NoRow, Covered!Terminal,
     Covered!StatusOf, Covered!WritesStep

\* What is left of the system's steps.
LEMMA SteadySteps ==
  ASSUME Steady, Undisturbed, [Next]_vars
  PROVE  /\ Undisturbed'
         /\ \/ \E q \in Requests : Covered!Create(q) /\ OutsideBackend
            \/ \E r \in Replicas : Covered!Handler(r) /\ OutsideBackend
            \/ \E s \in Workers : WorkerStep(s) /\ (Work!WorkerRun(s) \/ Work!EraseFails(s))
            \/ CacheStep /\ (Clean!CacheRun \/ Clean!CleanupFails \/ Clean!WindowExpires)
            \/ NotifyStep /\ Notify!NotificationRun
            \/ UNCHANGED vars
<1> USE DEF Undisturbed
<1>1. ASSUME NEW q \in Requests, CreateStep(q)
      PROVE  Undisturbed' /\ Covered!Create(q) /\ OutsideBackend
  BY <1>1, SameCreate DEF CreateStep, scannerOwn
<1>2. ASSUME NEW r \in Replicas, HandlerStep(r)
      PROVE  Undisturbed' /\ Covered!Handler(r) /\ OutsideBackend
  <2>1. ~Coord!HandlerThrows(r)
    BY SteadyBackend DEF Coord!HandlerThrows
  <2> QED
    BY <1>2, <2>1, SameHandler DEF HandlerStep, scannerOwn
<1>3. ~\E q \in Requests : GrowLate(q)
  BY DEF GrowLate, Steady
<1>4. ~\E r \in Replicas : ScanStep(r)
  BY DEF ScanStep, Sla!ScanRun, Sla!Scan, Sla!Stuck, Sla!Flip, Sla!LookUpProof, Sla!SaveProof, Sla!Restart
<1>5. ~\E r \in Replicas : CrashReplica(r)
  BY DEF CrashReplica, Steady
<1>6. ASSUME NEW s \in Workers, WorkerStep(s)
      PROVE  Undisturbed' /\ (Work!WorkerRun(s) \/ Work!EraseFails(s))
  BY <1>6 DEF WorkerStep, Work!WorkerStep, Work!WorkerThrows, Work!CrashWorker, Steady, scannerOwn
<1>7. CASE CacheStep
  <2>1. Undisturbed' /\ (Clean!CacheRun \/ Clean!CleanupFails \/ Clean!WindowExpires)
    BY <1>7 DEF CacheStep, Clean!CacheStep, Clean!CacheThrows, Clean!CrashCache, Steady, scannerOwn
  <2> QED
    BY <1>7, <2>1
<1>8. CASE NotifyStep
  <2>1. Undisturbed' /\ Notify!NotificationRun
    BY <1>8 DEF NotifyStep, Notify!NotificationStep, Notify!NotificationThrows, Notify!CrashNotification,
                Steady, scannerOwn
  <2> QED
    BY <1>8, <2>1
<1>9. CASE UNCHANGED vars
  BY <1>9 DEF vars, scannerOwn
<1> QED
  BY <1>1, <1>2, <1>3, <1>4, <1>5, <1>6, <1>7, <1>8, <1>9 DEF Next

-----------------------------------------------------------------------------
(***************************************************************************)
(* Nobody speaks after a final word: a worker without retries speaks once, *)
(* the cache worker has one final word (WordOf).                           *)
(***************************************************************************)
Final == {"DeletionStepSucceeded", "DeletionStepFailed", "CIRCUIT_OPEN_SKIP"}

FinalTold(q, s) == \E type \in Final : Covered!Told(q, s, type)

Spoken(q, s) == \E type \in EventTypes : Covered!Told(q, s, type)

WorkersOnce ==
  /\ acked \in [Steps -> SUBSET Requests]
  /\ \A s \in Workers :
       /\ wpc[s] # "idle" => wreq[s] \notin acked[s]
       /\ \A q \in Requests : Spoken(q, s) => q \in acked[s] \/ (wpc[s] = "published" /\ wreq[s] = q)

CacheOnce == Words!WordTypes /\ \A q \in Requests : Words!WordOf(q)

\* What a step of a worker says, if it says anything.
Says(m) ==
  /\ m \in Covered!Message
  /\ results' = Append(results, m)
  /\ reported' = reported \cup {m}

LEMMA WorkersSpeakOnce ==
  ASSUME GraphInv, WorkersOnce, NEW s \in Workers, WorkerStep(s), Work!WorkerRun(s) \/ Work!EraseFails(s)
  PROVE  /\ WorkersOnce'
         /\ UNCHANGED <<results, reported>> \/ \E m : Says(m) /\ ~FinalTold(m.req, m.step)
<1> USE DEF Work!WorkerRun, Work!Move
<1>1. /\ wpc \in [Workers -> Work!WorkerPositions] /\ wreq \in [Workers -> Requests \cup {NoRequest}]
      /\ \A t \in Workers : wpc[t] # "idle" => wreq[t] \in Requests
      /\ Workers \subseteq Steps
  BY DEF GraphInv, WorkInv, Announced, Workers
<1>2. CASE Work!PublishResult(s)
  <2> DEFINE m == [req |-> wreq[s], step |-> s,
                   type |-> IF wpc[s] = "erased" THEN "DeletionStepSucceeded" ELSE "DeletionStepFailed"]
  <2>1. /\ wpc[s] \in {"erased", "failed"} /\ UNCHANGED <<acked, wreq>>
        /\ results' = Append(results, m) /\ reported' = reported \cup {m}
        /\ wpc' = [wpc EXCEPT ![s] = "published"]
    BY <1>2 DEF Work!PublishResult
  <2>2. wreq[s] \in Requests /\ s \in Steps
    BY <1>1, <2>1
  <2>3. m \in Covered!Message
    BY <2>2 DEF Covered!Message, Covered!Steps, Steps, Covered!EventTypes
  <2>4. ~Spoken(wreq[s], s)
    BY <2>1, <2>2 DEF WorkersOnce
  <2>5. Says(m) /\ ~FinalTold(m.req, m.step)
    BY <2>1, <2>3, <2>4 DEF Says, FinalTold, Spoken, Final, EventTypes
  <2>6. ASSUME NEW t \in Workers, NEW q \in Requests, Spoken(q, t)', ~Spoken(q, t)
        PROVE  t = s /\ q = wreq[s]
    BY <2>1, <2>6 DEF Spoken, Covered!Told
  <2>7. WorkersOnce'
    <3>1. wpc'[s] = "published" /\ \A t \in Workers : t # s => wpc'[t] = wpc[t]
      BY <1>1, <2>1
    <3> QED
      BY <2>1, <2>6, <3>1 DEF WorkersOnce
  <2> QED
    BY <2>5, <2>7
<1>3. CASE ~Work!PublishResult(s)
  <2>1. UNCHANGED <<results, reported>>
    BY <1>3 DEF Work!Take, Work!MarkRunning, Work!Erase, Work!AckRequest, Work!EraseFails
  <2>2. \A q, t : Spoken(q, t)' <=> Spoken(q, t)
    BY <2>1 DEF Spoken, Covered!Told
  <2>3. CASE \E q \in Requests : Work!Take(s, q)
    <3>1. PICK q \in Requests : Work!Take(s, q)
      BY <2>3
    <3>2. /\ wpc[s] = "idle" /\ wreq'[s] = q /\ q \notin acked[s] /\ UNCHANGED acked
          /\ \A t \in Workers : t # s => wpc'[t] = wpc[t] /\ wreq'[t] = wreq[t]
      BY <1>1, <3>1 DEF Work!Take
    <3> QED
      BY <2>1, <2>2, <3>2 DEF WorkersOnce
  <2>4. CASE Work!MarkRunning(s) \/ Work!Erase(s) \/ Work!EraseFails(s)
    <3>1. /\ wpc[s] \notin {"idle", "published"} /\ UNCHANGED <<acked, wreq>>
          /\ \A t \in Workers : t # s => wpc'[t] = wpc[t]
      BY <1>1, <2>4 DEF Work!MarkRunning, Work!Erase, Work!EraseFails
    <3> QED
      BY <2>1, <2>2, <3>1 DEF WorkersOnce
  <2>5. CASE Work!AckRequest(s)
    <3>1. /\ wpc[s] = "published" /\ acked' = [acked EXCEPT ![s] = @ \cup {wreq[s]}]
          /\ wpc'[s] = "idle" /\ \A t \in Workers : t # s => wpc'[t] = wpc[t] /\ wreq'[t] = wreq[t]
      BY <1>1, <2>5 DEF Work!AckRequest
    <3>2. /\ acked' \in [Steps -> SUBSET Requests] /\ acked'[s] = acked[s] \cup {wreq[s]}
          /\ \A t \in Workers : t # s => acked'[t] = acked[t]
      BY <1>1, <3>1 DEF WorkersOnce
    <3> QED
      BY <2>1, <2>2, <3>1, <3>2 DEF WorkersOnce
  <2> QED
    BY <1>3, <2>3, <2>4, <2>5
<1> QED
  BY <1>2, <1>3

\* The cache worker of EraseGraph and the one the proofs are about are the same.
LEMMA SameCacheWorker ==
  ASSUME Clean!CacheRun \/ Clean!CleanupFails \/ Clean!WindowExpires
  PROVE  Words!CacheRun \/ Words!CleanupFails \/ Words!WindowExpires
BY Zenon DEF
   Clean!CacheRun, Clean!CacheTake, Clean!TakeFirst, Clean!TakeRetry, Clean!SkipOpen, Clean!Admit,
   Clean!ClaimNew, Clean!IgnoreDuplicate, Clean!DeleteCacheKeys, Clean!RecordSuccess, Clean!TellSucceeded,
   Clean!RecordFailure, Clean!TellRetrying, Clean!PublishToRetryQueue, Clean!TellFailed, Clean!PublishToDlq,
   Clean!AckCache, Clean!Settle, Clean!CleanupFails, Clean!WindowExpires, Clean!Tell, Clean!NoTell, Clean!breaker,
   Words!CacheRun, Words!CacheTake, Words!TakeFirst, Words!TakeRetry, Words!SkipOpen, Words!Admit,
   Words!ClaimNew, Words!IgnoreDuplicate, Words!DeleteCacheKeys, Words!RecordSuccess, Words!TellSucceeded,
   Words!RecordFailure, Words!TellRetrying, Words!PublishToRetryQueue, Words!TellFailed, Words!PublishToDlq,
   Words!AckCache, Words!Settle, Words!CleanupFails, Words!WindowExpires, Words!Tell, Words!NoTell, Words!breaker

LEMMA CacheFits ==
  /\ MAX_RETRIES \in Nat \ {0} /\ CIRCUIT_THRESHOLD \in Nat \ {0}
  /\ MaxCopies \in Nat /\ MaxQueue \in Nat
  /\ NoRequest \notin Requests
BY EraseGraphAssumption

LEMMA CacheFinals ==
  ASSUME NEW q, FinalTold(q, Cache)
  PROVE  Words!HasFinalWord(q)
BY DEF FinalTold, Final, Covered!Told, Words!HasFinalWord, Words!EventTypes, Words!WritesStep,
       Words!Terminal, Words!StatusOf, Words!Said

LEMMA CacheSpeaksLast ==
  ASSUME GraphInv, WorkersOnce, CacheOnce, CacheStep,
         Clean!CacheRun \/ Clean!CleanupFails \/ Clean!WindowExpires
  PROVE  /\ WorkersOnce' /\ CacheOnce'
         /\ UNCHANGED <<results, reported>> \/ \E m : Says(m) /\ ~FinalTold(m.req, m.step)
<1>1. Words!CacheRun \/ Words!CleanupFails \/ Words!WindowExpires
  BY SameCacheWorker
<1>2. CacheOnce'
  <2>1. Words!WordTypes'
    BY <1>1, Words!WorkerKeepsTypes, CacheFits DEF CacheOnce
  <2>2. \A q \in Requests : Words!WordOf(q)'
    BY <1>1, Words!WorkerKeepsWord, CacheFits DEF CacheOnce
  <2> QED
    BY <2>1, <2>2 DEF CacheOnce
<1>3. UNCHANGED <<results, reported>> \/ \E m : Says(m) /\ m.step = Cache /\ ~FinalTold(m.req, m.step)
  <2>1. CASE Words!SkipOpen \/ Words!IgnoreDuplicate \/ Words!TellSucceeded \/ Words!TellRetrying \/ Words!TellFailed
    <3>1. PICK type \in EventTypes : Words!Tell(type) /\ cpc \in {"check", "claim", "succeeded", "report"}
      BY <2>1, Zenon DEF Words!SkipOpen, Words!IgnoreDuplicate, Words!TellSucceeded, Words!TellRetrying,
           Words!TellFailed, EventTypes
    <3> DEFINE m == [req |-> creq, step |-> Cache, type |-> type]
    <3>2. creq \in Requests
      BY <3>1 DEF GraphInv, CacheInv, Announced
    <3>3. Says(m)
      BY <3>1, <3>2, EraseGraphAssumption
      DEF Words!Tell, Says, Covered!Message, Covered!Steps, Covered!EventTypes, EventTypes
    <3>4. Words!WordOf(creq)
      BY <3>2 DEF CacheOnce
    <3>5. ~Words!HasFinalWord(creq)
      BY <3>1, <3>4 DEF Words!WordOf, Words!Tried, Words!Busy
    <3> QED
      BY <3>3, <3>5, CacheFinals
  <2>2. CASE ~(Words!SkipOpen \/ Words!IgnoreDuplicate \/ Words!TellSucceeded \/ Words!TellRetrying \/ Words!TellFailed)
    BY <1>1, <2>2 DEF Words!CacheRun, Words!CacheTake, Words!TakeFirst, Words!TakeRetry, Words!Admit,
       Words!ClaimNew, Words!DeleteCacheKeys, Words!RecordSuccess, Words!RecordFailure, Words!PublishToRetryQueue,
       Words!PublishToDlq, Words!AckCache, Words!CleanupFails, Words!WindowExpires, Words!NoTell
  <2> QED
    BY <2>1, <2>2
<1>4. WorkersOnce'
  <2>1. \/ acked' = acked
        \/ acked' = [acked EXCEPT ![Cache] = @ \cup {creq}] /\ creq \in Requests
    BY <1>1 DEF GraphInv, CacheInv, Announced,
       Words!CacheRun, Words!CacheTake, Words!TakeFirst, Words!TakeRetry, Words!SkipOpen, Words!Admit,
       Words!ClaimNew, Words!IgnoreDuplicate, Words!DeleteCacheKeys, Words!RecordSuccess, Words!TellSucceeded,
       Words!RecordFailure, Words!TellRetrying, Words!PublishToRetryQueue, Words!TellFailed, Words!PublishToDlq,
       Words!AckCache, Words!Settle, Words!CleanupFails, Words!WindowExpires
  <2>2. acked' \in [Steps -> SUBSET Requests] /\ \A s \in Workers : acked'[s] = acked[s]
    BY <2>1 DEF WorkersOnce, Workers
  <2>3. \A q \in Requests, s \in Workers : Spoken(q, s)' => Spoken(q, s)
    <3>1. CASE UNCHANGED reported
      BY <3>1 DEF Spoken, Covered!Told
    <3>2. CASE \E m : Says(m) /\ m.step = Cache
      BY <3>2 DEF Says, Spoken, Covered!Told, Workers
    <3> QED
      BY <1>3, <3>1, <3>2
  <2>4. UNCHANGED <<wpc, wreq>>
    BY DEF CacheStep, stepWorkerOwn
  <2> QED
    BY <2>2, <2>3, <2>4 DEF WorkersOnce
<1> QED
  BY <1>2, <1>3, <1>4

-----------------------------------------------------------------------------
(***************************************************************************)
(* The order of the queue.  Results are handled one at a time and in the   *)
(* order they were published; so when a row has its final status, no       *)
(* message is left that would write it again.                              *)
(***************************************************************************)
Last(m) == m.type \in Final

Same(m, n) == m.req = n.req /\ m.step = n.step

QueueInOrder ==
  /\ \A i, j \in 1 .. Len(results) : i < j /\ Same(results[i], results[j]) => ~Last(results[i])
  /\ \A r \in Replicas, i \in 1 .. Len(results) :
       pc[r] = "update" /\ Same(msg[r], results[i]) => ~Last(msg[r])

Settled(q, s) ==
  /\ \A i \in 1 .. Len(results) : ~(results[i].req = q /\ results[i].step = s)
  /\ \A r \in Replicas : pc[r] = "update" => ~(msg[r].req = q /\ msg[r].step = s)

RowsSettled ==
  \A q \in Requests, s \in Steps : Covered!Terminal(steps[q][s]) => Settled(q, s)

LEMMA LastIsFinal ==
  ASSUME NEW m \in Covered!Message, m \in reported, Last(m)
  PROVE  FinalTold(m.req, m.step)
BY DEF Covered!Message, Last, FinalTold, Covered!Told

LEMMA TerminalIsFinal ==
  ASSUME Covered!IInv, NEW q \in Requests, NEW s \in Steps, Covered!Terminal(steps[q][s])
  PROVE  FinalTold(q, s)
BY DEF Covered!IInv, Covered!RowsReported, Covered!Reported, Covered!Terminal, Covered!ResultOf, FinalTold,
       Final, Covered!Steps, Steps

\* What every copy of a result is, wherever it is.
LEMMA CopiesAreReported ==
  ASSUME Covered!IInv
  PROVE  /\ results \in Seq(Covered!Message)
         /\ \A i \in 1 .. Len(results) : results[i] \in reported /\ results[i] \in Covered!Message
         /\ \A r \in Replicas : pc[r] # "idle" => msg[r] \in reported /\ msg[r] \in Covered!Message
BY DEF Covered!IInv, Covered!Safe, Covered!TypeOK, Covered!HeldReported, Covered!QueueReported

LEMMA SaidInOrder ==
  ASSUME Covered!IInv, QueueInOrder, RowsSettled, NEW m, Says(m), ~FinalTold(m.req, m.step),
         UNCHANGED <<pc, msg>>,
         \A q \in Requests, s \in Steps : Covered!Terminal(steps'[q][s]) => Covered!Terminal(steps[q][s])
  PROVE  QueueInOrder' /\ RowsSettled'
<1> DEFINE n == Len(results) + 1
<1>1. /\ results \in Seq(Covered!Message) /\ m \in Covered!Message
      /\ results' = Append(results, m)
      /\ \A i \in 1 .. Len(results) : results[i] \in reported /\ results[i] \in Covered!Message
      /\ \A r \in Replicas : pc[r] = "update" => msg[r] \in reported /\ msg[r] \in Covered!Message
  BY CopiesAreReported DEF Says
<1>2. /\ Len(results') = n /\ results'[n] = m /\ n \in Nat
      /\ \A i \in 1 .. Len(results) : results'[i] = results[i]
      /\ \A i \in 1 .. n : i = n \/ i \in 1 .. Len(results)
  BY <1>1
<1>3. \A i \in 1 .. Len(results) : Same(results[i], m) => ~Last(results[i])
  BY <1>1, LastIsFinal DEF Same
<1>4. \A r \in Replicas : pc[r] = "update" /\ Same(msg[r], m) => ~Last(msg[r])
  BY <1>1, LastIsFinal DEF Same
<1>5. \A q \in Requests, s \in Steps : Covered!Terminal(steps[q][s]) => ~(m.req = q /\ m.step = s)
  BY TerminalIsFinal
<1> HIDE DEF n
<1>6. ASSUME NEW i \in 1 .. n, NEW j \in 1 .. n, i < j, Same(results'[i], results'[j])
      PROVE  ~Last(results'[i])
  <2>1. i \in 1 .. Len(results) /\ results'[i] = results[i]
    BY <1>2, <1>6 DEF n
  <2>2. CASE j = n
    BY <1>2, <1>3, <1>6, <2>1, <2>2
  <2>3. CASE j # n
    BY <1>2, <1>6, <2>1, <2>3 DEF QueueInOrder
  <2> QED
    BY <2>2, <2>3
<1>7. ASSUME NEW r \in Replicas, NEW i \in 1 .. n, pc[r] = "update", Same(msg[r], results'[i])
      PROVE  ~Last(msg[r])
  <2>1. CASE i = n
    BY <1>2, <1>4, <1>7, <2>1
  <2>2. CASE i # n
    BY <1>2, <1>7, <2>2 DEF QueueInOrder
  <2> QED
    BY <2>1, <2>2
<1>8. ASSUME NEW q \in Requests, NEW s \in Steps, Covered!Terminal(steps'[q][s])
      PROVE  Settled(q, s)'
  <2>1. Settled(q, s) /\ ~(m.req = q /\ m.step = s)
    BY <1>5, <1>8 DEF RowsSettled
  <2> QED
    BY <1>2, <2>1 DEF Settled
<1>9. QueueInOrder'
  BY <1>2, <1>6, <1>7 DEF QueueInOrder, Last, Same
<1> QED
  BY <1>8, <1>9 DEF RowsSettled

\* The queue, and who is about to write what, stay as they are.
LEMMA OrderKept ==
  ASSUME QueueInOrder, RowsSettled, UNCHANGED results,
         \A r \in Replicas : pc'[r] = "update" => pc[r] = "update" /\ msg'[r] = msg[r],
         \A q \in Requests, s \in Steps : Covered!Terminal(steps'[q][s]) => Covered!Terminal(steps[q][s])
  PROVE  QueueInOrder' /\ RowsSettled'
<1>1. QueueInOrder'
  BY DEF QueueInOrder, Same, Last
<1>2. RowsSettled'
  BY DEF RowsSettled, Settled
<1> QED
  BY <1>1, <1>2

LEMMA DeliveredInOrder ==
  ASSUME Steady, Covered!IInv, QueueInOrder, RowsSettled, NEW r \in Replicas, Covered!Deliver(r)
  PROVE  QueueInOrder' /\ RowsSettled'
<1>1. /\ results \in Seq(Covered!Message) /\ results # <<>> /\ results' = Tail(results) /\ UNCHANGED steps
      /\ msg \in [Replicas -> Covered!Message \cup {NoMessage}] /\ msg' = [msg EXCEPT ![r] = Head(results)]
      /\ \A p \in Replicas : p = r
  BY CopiesAreReported DEF Covered!Deliver, Covered!created, Covered!IInv, Covered!Safe, Covered!TypeOK, Steady
<1>2. /\ Len(results') = Len(results) - 1 /\ Len(results) \in Nat /\ Len(results) > 0
      /\ \A i \in 1 .. Len(results') : results'[i] = results[i + 1] /\ i + 1 \in 1 .. Len(results)
      /\ Head(results) = results[1] /\ 1 \in 1 .. Len(results)
  BY <1>1
<1>3. \A p \in Replicas : msg'[p] = results[1]
  BY <1>1, <1>2
<1>4. ASSUME NEW i \in 1 .. Len(results'), NEW j \in 1 .. Len(results'), i < j, Same(results'[i], results'[j])
      PROVE  ~Last(results'[i])
  <2>1. i + 1 < j + 1
    BY <1>2, <1>4
  <2> QED
    BY <1>2, <1>4, <2>1 DEF QueueInOrder
<1>5. ASSUME NEW i \in 1 .. Len(results'), Same(results[1], results'[i])
      PROVE  ~Last(results[1])
  <2>1. 1 < i + 1
    BY <1>2
  <2> QED
    BY <1>2, <1>5, <2>1 DEF QueueInOrder
<1>6. QueueInOrder'
  BY <1>3, <1>4, <1>5 DEF QueueInOrder, Same, Last
<1>7. RowsSettled'
  BY <1>1, <1>2, <1>3 DEF RowsSettled, Settled
<1> QED
  BY <1>6, <1>7

LEMMA UpdatedInOrder ==
  ASSUME Steady, Covered!IInv, QueueInOrder, RowsSettled, NEW r \in Replicas, Covered!UpdateStep(r)
  PROVE  QueueInOrder' /\ RowsSettled'
<1> DEFINE q == msg[r].req
           s == msg[r].step
<1>1. /\ pc[r] = "update" /\ UNCHANGED <<results, msg>>
      /\ pc \in [Replicas -> Covered!Positions] /\ pc' = [pc EXCEPT ![r] = "request"]
      /\ \A p \in Replicas : p = r
  BY DEF Covered!UpdateStep, Covered!Goto, Covered!IInv, Covered!Safe, Covered!TypeOK, Steady
<1>2. \A p \in Replicas : pc'[p] # "update"
  BY <1>1
<1>3. QueueInOrder'
  BY <1>1, <1>2 DEF QueueInOrder, Same, Last
<1>4. /\ msg[r] \in Covered!Message /\ Covered!WritesStep(msg[r].type)
      /\ steps \in [Requests -> [Steps -> Covered!StepStatus \cup {Covered!NoRow}]]
      /\ steps' = [steps EXCEPT ![q][s] = Covered!StatusOf(msg[r].type)]
      /\ q \in Requests /\ s \in Steps
  BY <1>1, CopiesAreReported
  DEF Covered!UpdateStep, Covered!IInv, Covered!Safe, Covered!TypeOK, Covered!HeldReported, Covered!Message,
      Covered!Steps, Steps
<1>5. \A p \in Requests, t \in Steps : ~(p = q /\ t = s) => steps'[p][t] = steps[p][t]
  BY <1>4
<1>6. steps'[q][s] = Covered!StatusOf(msg[r].type)
  BY <1>4
<1>7. Covered!Terminal(steps'[q][s]) => Last(msg[r])
  BY <1>4, <1>6 DEF Covered!Terminal, Covered!StatusOf, Covered!WritesStep, Last, Final, Covered!Message,
                    Covered!EventTypes
<1>8. ASSUME NEW p \in Requests, NEW t \in Steps, Covered!Terminal(steps'[p][t])
      PROVE  Settled(p, t)'
  <2>1. CASE p = q /\ t = s
    BY <1>1, <1>2, <1>7, <1>8, <2>1 DEF QueueInOrder, Settled, Same
  <2>2. CASE ~(p = q /\ t = s)
    <3>1. Settled(p, t)
      BY <1>5, <1>8, <2>2 DEF RowsSettled
    <3> QED
      BY <1>1, <1>2, <3>1 DEF Settled
  <2> QED
    BY <2>1, <2>2
<1> QED
  BY <1>3, <1>8 DEF RowsSettled

-----------------------------------------------------------------------------
(***************************************************************************)
(* An outcome is decided once.  What the only handler read of the request  *)
(* and its rows is still so when it writes, and rows that are all settled  *)
(* stay as they were when the outcome was taken from them.                 *)
(***************************************************************************)
OutcomeStands ==
  \A q \in Requests : completedAt[q] =>
    Covered!AllCompleted(steps[q]) /\ status[q] = Covered!Outcome(steps[q])

ReadsAreFresh ==
  \A r \in Replicas :
    /\ pc[r] = "steps" => before[r] = status[msg[r].req]
    /\ pc[r] \in {"partial", "outcome"} => ~completedAt[msg[r].req]
    /\ pc[r] \in {"outcome", "publish"} => snap[r] = steps[msg[r].req]

AnnouncedAsDecided ==
  \A i \in 1 .. Len(lifecycle) :
    completedAt[lifecycle[i].req] /\ status[lifecycle[i].req] = lifecycle[i].status

DecidedOnce == OutcomeStands /\ ReadsAreFresh /\ AnnouncedAsDecided

\* The types of the coordinator's tables, from its own invariant.
LEMMA Tables ==
  ASSUME Covered!IInv
  PROVE  /\ creation \in [Requests -> {"none", "request", "steps", "published", "abandoned"}]
         /\ status \in [Requests -> RequestStatus \cup {NoRow}]
         /\ completedAt \in [Requests -> BOOLEAN]
         /\ steps \in [Requests -> [Steps -> StepStatus \cup {NoRow}]]
         /\ lifecycle \in Seq(Covered!Lifecycle)
         /\ pc \in [Replicas -> Covered!Positions]
         /\ msg \in [Replicas -> Covered!Message \cup {NoMessage}]
         /\ before \in [Replicas -> RequestStatus \cup {NoRow}]
         /\ snap \in [Replicas -> [Steps -> StepStatus \cup {NoRow}]]
         /\ \A r \in Replicas : pc[r] # "idle" => msg[r].req \in Requests /\ msg[r].step \in Steps
<1>1. Covered!TypeOK
  BY DEF Covered!IInv, Covered!Safe
<1>2. /\ Covered!RequestStatus = RequestStatus /\ Covered!StepStatus = StepStatus
      /\ Covered!NoRow = NoRow /\ Covered!Steps = Steps
  BY DEF Covered!RequestStatus, RequestStatus, Covered!StepStatus, StepStatus,
         Covered!NoRow, NoRow, Covered!Steps, Steps
<1>3. \A r \in Replicas : pc[r] # "idle" => msg[r].req \in Requests /\ msg[r].step \in Steps
  BY <1>2, CopiesAreReported DEF Covered!Message
<1> QED
  BY <1>1, <1>2, <1>3 DEF Covered!TypeOK

\* Lifecycle messages are about requests.
LEMMA Announcements ==
  ASSUME Covered!IInv
  PROVE  \A i \in 1 .. Len(lifecycle) :
           lifecycle[i].req \in Requests /\ lifecycle[i].status \in {"COMPLETED", "PARTIAL_COMPLETED", "FAILED"}
<1>1. lifecycle \in Seq(Covered!Lifecycle)
  BY Tables
<1>2. \A i \in 1 .. Len(lifecycle) : lifecycle[i] \in Covered!Lifecycle
  BY <1>1
<1> QED
  BY <1>2 DEF Covered!Lifecycle

LEMMA DecidedKept ==
  ASSUME Covered!IInv, DecidedOnce, UNCHANGED <<status, completedAt, steps, lifecycle>>,
         UNCHANGED <<pc, msg, before, snap>>
  PROVE  DecidedOnce'
BY DEF DecidedOnce, OutcomeStands, ReadsAreFresh, AnnouncedAsDecided

LEMMA HandlerDecides ==
  ASSUME Steady, Covered!IInv, RowsSettled, DecidedOnce, NEW r \in Replicas, Covered!Handler(r)
  PROVE  DecidedOnce'
<1> DEFINE q == msg[r].req
<1> USE DEF Covered!Goto, Covered!created
<1>0. \A p \in Replicas : p = r
  BY DEF Steady
<1>t. /\ status \in [Requests -> RequestStatus \cup {NoRow}]
      /\ completedAt \in [Requests -> BOOLEAN]
      /\ steps \in [Requests -> [Steps -> StepStatus \cup {NoRow}]]
      /\ lifecycle \in Seq(Covered!Lifecycle)
      /\ pc \in [Replicas -> Covered!Positions]
      /\ msg \in [Replicas -> Covered!Message \cup {NoMessage}]
      /\ before \in [Replicas -> RequestStatus \cup {NoRow}]
      /\ snap \in [Replicas -> [Steps -> StepStatus \cup {NoRow}]]
      /\ pc[r] # "idle" => q \in Requests /\ msg[r].step \in Steps
  BY Tables
<1>tables. UNCHANGED <<status, completedAt, steps>> => OutcomeStands'
  BY DEF DecidedOnce, OutcomeStands
<1>life. UNCHANGED <<status, completedAt, lifecycle>> => AnnouncedAsDecided'
  BY DEF DecidedOnce, AnnouncedAsDecided
<1>1. CASE Covered!Deliver(r)
  <2>1. pc'[r] \in {"update", "proof"}
    BY <1>1, <1>t DEF Covered!Deliver
  <2>2. ReadsAreFresh'
    BY <1>0, <2>1 DEF ReadsAreFresh
  <2> QED
    BY <1>1, <2>2, <1>tables, <1>life DEF Covered!Deliver, DecidedOnce
<1>2. CASE Covered!UpdateStep(r)
  <2>1. /\ pc[r] = "update" /\ pc'[r] = "request" /\ UNCHANGED <<status, completedAt, lifecycle>>
        /\ steps' = [steps EXCEPT ![q][msg[r].step] = Covered!StatusOf(msg[r].type)]
    BY <1>2, <1>t DEF Covered!UpdateStep
  <2>2. ~completedAt[q]
    <3>1. completedAt[q] => Covered!Terminal(steps[q][msg[r].step])
      BY <1>t, <2>1 DEF DecidedOnce, OutcomeStands, Covered!AllCompleted, Covered!Steps, Steps
    <3> QED
      BY <1>t, <2>1, <3>1 DEF RowsSettled, Settled
  <2>3. \A p \in Requests : p # q => steps'[p] = steps[p]
    BY <1>t, <2>1
  <2>4. OutcomeStands'
    BY <2>1, <2>2, <2>3 DEF DecidedOnce, OutcomeStands
  <2>5. ReadsAreFresh'
    BY <1>0, <2>1 DEF ReadsAreFresh
  <2> QED
    BY <2>1, <2>4, <2>5, <1>life DEF DecidedOnce
<1>3. CASE Covered!ReadRequest(r)
  <2>1. /\ pc'[r] = "steps" /\ before'[r] = status[q] /\ UNCHANGED <<status, completedAt, steps, lifecycle, msg>>
    BY <1>3, <1>t DEF Covered!ReadRequest
  <2>2. ReadsAreFresh'
    BY <1>0, <2>1 DEF ReadsAreFresh
  <2> QED
    BY <2>1, <2>2, <1>tables, <1>life DEF DecidedOnce
<1>4. CASE Covered!ReadSteps(r)
  <2> DEFINE next == Covered!Decision(before[r], steps[q])
  <2>1. /\ pc[r] = "steps" /\ pc'[r] = next /\ UNCHANGED <<status, completedAt, steps, lifecycle, msg>>
        /\ next # "proof" => snap'[r] = steps[q]
    BY <1>4, <1>t DEF Covered!ReadSteps
  <2>2. before[r] = status[q] /\ q \in Requests
    BY <1>t, <2>1 DEF DecidedOnce, ReadsAreFresh
  <2>3. next \in {"proof", "outcome", "partial"}
    BY DEF Covered!Decision
  <2>4. completedAt[q] => next = "proof"
    BY <2>2 DEF DecidedOnce, OutcomeStands, Covered!Decision
  <2> HIDE DEF next
  <2>5. ReadsAreFresh'
    BY <1>0, <1>t, <2>1, <2>2, <2>3, <2>4 DEF ReadsAreFresh
  <2> QED
    BY <2>1, <2>5, <1>tables, <1>life DEF DecidedOnce
<1>5. CASE Covered!WritePartial(r)
  <2>1. /\ pc[r] = "partial" /\ pc'[r] = "proof" /\ UNCHANGED <<completedAt, steps, lifecycle>>
        /\ status' = [status EXCEPT ![q] = "PARTIAL_COMPLETED"]
    BY <1>5, <1>t DEF Covered!WritePartial
  <2>2. ~completedAt[q]
    BY <2>1 DEF DecidedOnce, ReadsAreFresh
  <2>3. OutcomeStands'
    BY <1>t, <2>1, <2>2 DEF DecidedOnce, OutcomeStands
  <2>4. AnnouncedAsDecided'
    BY <1>t, <2>1, <2>2, Announcements DEF DecidedOnce, AnnouncedAsDecided
  <2>5. ReadsAreFresh'
    BY <1>0, <2>1 DEF ReadsAreFresh
  <2> QED
    BY <2>3, <2>4, <2>5 DEF DecidedOnce
<1>6. CASE Covered!WriteOutcome(r)
  <2>1. /\ pc[r] = "outcome" /\ pc'[r] = "publish" /\ UNCHANGED <<steps, lifecycle, msg, snap>>
        /\ status' = [status EXCEPT ![q] = Covered!Outcome(snap[r])]
        /\ completedAt' = [completedAt EXCEPT ![q] = TRUE]
    BY <1>6, <1>t DEF Covered!WriteOutcome
  <2>2. ~completedAt[q] /\ snap[r] = steps[q] /\ q \in Requests /\ Covered!AllCompleted(snap[r])
    BY <1>t, <2>1 DEF DecidedOnce, ReadsAreFresh, Covered!IInv, Covered!CopiesReported
  <2>3. OutcomeStands'
    BY <1>t, <2>1, <2>2 DEF DecidedOnce, OutcomeStands
  <2>4. AnnouncedAsDecided'
    BY <1>t, <2>1, <2>2, Announcements DEF DecidedOnce, AnnouncedAsDecided
  <2>5. ReadsAreFresh'
    BY <1>0, <2>1, <2>2 DEF ReadsAreFresh
  <2> QED
    BY <2>3, <2>4, <2>5 DEF DecidedOnce
<1>7. CASE Covered!PublishLifecycle(r)
  <2> DEFINE m == [req |-> q, status |-> Covered!Outcome(snap[r])]
  <2>1. /\ pc[r] = "publish" /\ pc'[r] = "proof" /\ UNCHANGED <<status, completedAt, steps>>
        /\ lifecycle' = Append(lifecycle, m)
    BY <1>7, <1>t DEF Covered!PublishLifecycle
  <2>2. completedAt[q] /\ status[q] = Covered!Outcome(snap[r])
    BY <1>t, <2>1 DEF DecidedOnce, ReadsAreFresh, OutcomeStands, Covered!IInv, Covered!CopiesReported
  <2>3. completedAt[m.req] /\ status[m.req] = m.status
    BY <2>2
  <2> HIDE DEF m
  <2>4. AnnouncedAsDecided'
    BY <1>t, <2>1, <2>3 DEF DecidedOnce, AnnouncedAsDecided
  <2>5. ReadsAreFresh'
    BY <1>0, <2>1 DEF ReadsAreFresh
  <2> QED
    BY <2>1, <2>4, <2>5, <1>tables DEF DecidedOnce
<1>8. CASE Covered!RecordProof(r) \/ Covered!Ack(r)
  <2>1. pc'[r] \in {"ack", "idle"} /\ UNCHANGED <<status, completedAt, steps, lifecycle>>
    BY <1>8, <1>t DEF Covered!RecordProof, Covered!Ack
  <2>2. ReadsAreFresh'
    BY <1>0, <2>1 DEF ReadsAreFresh
  <2> QED
    BY <2>1, <2>2, <1>tables, <1>life DEF DecidedOnce
<1> QED
  BY <1>1, <1>2, <1>3, <1>4, <1>5, <1>6, <1>7, <1>8 DEF Covered!Handler

-----------------------------------------------------------------------------
(***************************************************************************)
(* The invariant of the steady system, component by component.             *)
(***************************************************************************)
SteadyInv == Undisturbed /\ WorkersOnce /\ CacheOnce /\ QueueInOrder /\ RowsSettled /\ DecidedOnce

\* The cache worker's words, when somebody else takes a step.
LEMMA CacheWordsKept ==
  ASSUME CacheOnce, UNCHANGED <<retries, dlq, cpc, creq, retry>>,
         acked'[Cache] = acked[Cache], DOMAIN acked' = DOMAIN acked,
         \A q, type : Words!Said(q, type)' <=> Words!Said(q, type)
  PROVE  CacheOnce'
<1>1. Words!WordTypes'
  BY DEF CacheOnce, Words!WordTypes
<1>2. \A q : /\ Words!HasFinalWord(q)' <=> Words!HasFinalWord(q)
             /\ Words!InRetry(q)' <=> Words!InRetry(q)
  BY DEF Words!HasFinalWord, Words!InRetry
<1>3. \A q \in Requests : Words!WordOf(q)'
  BY <1>2 DEF CacheOnce, Words!WordOf, Words!OneCopy, Words!OneWord, Words!Waiting, Words!Tried, Words!Busy,
              Words!Speechless
<1> QED
  BY <1>1, <1>3 DEF CacheOnce

LEMMA BackendSpeaksNot ==
  ASSUME WorkersOnce, CacheOnce, OutsideBackend, UNCHANGED reported
  PROVE  WorkersOnce' /\ CacheOnce'
<1> USE DEF OutsideBackend, workersShared, stepWorkerOwn, cacheOwn
<1>1. \A q, type : Words!Said(q, type)' <=> Words!Said(q, type)
  BY DEF Words!Said
<1>2. CacheOnce'
  BY <1>1, CacheWordsKept
<1>3. WorkersOnce'
  BY DEF WorkersOnce, Spoken, Covered!Told
<1> QED
  BY <1>2, <1>3

\* What has an outcome was announced to the workers.
LEMMA DecidedAreAnnounced ==
  ASSUME GraphInv, Covered!IInv, NEW q \in Requests, completedAt[q]
  PROVE  creation[q] = "published"
<1>1. Covered!ToldTerminal(q, Cache)
  BY EraseGraphAssumption
  DEF Covered!IInv, Covered!Truth, Covered!FinishedMeansAllReported, Covered!Steps
<1>2. \E m \in reported : m.req = q
  BY <1>1 DEF Covered!ToldTerminal, Covered!Told
<1> QED
  BY <1>2 DEF GraphInv, CoordInv, ResultsAnnounced, Announced

LEMMA HandlerSteady ==
  ASSUME Steady, Covered!IInv, SteadyInv, NEW r \in Replicas, Covered!Handler(r), OutsideBackend
  PROVE  WorkersOnce' /\ CacheOnce' /\ QueueInOrder' /\ RowsSettled' /\ DecidedOnce'
<1> USE DEF SteadyInv
<1>1. DecidedOnce'
  BY HandlerDecides
<1>2. WorkersOnce' /\ CacheOnce'
  <2>1. UNCHANGED reported
    BY DEF Covered!Handler, Covered!Deliver, Covered!UpdateStep, Covered!ReadRequest, Covered!ReadSteps,
           Covered!WritePartial, Covered!WriteOutcome, Covered!PublishLifecycle, Covered!RecordProof, Covered!Ack
  <2> QED
    BY <2>1, BackendSpeaksNot
<1>3. QueueInOrder' /\ RowsSettled'
  <2>1. CASE Covered!Deliver(r)
    BY <2>1, DeliveredInOrder
  <2>2. CASE Covered!UpdateStep(r)
    BY <2>2, UpdatedInOrder
  <2>3. CASE \/ Covered!ReadRequest(r) \/ Covered!ReadSteps(r) \/ Covered!WritePartial(r)
             \/ Covered!WriteOutcome(r) \/ Covered!PublishLifecycle(r) \/ Covered!RecordProof(r) \/ Covered!Ack(r)
    <3>1. /\ UNCHANGED <<results, steps>> /\ \E next \in Covered!Positions \ {"update"} : pc' = [pc EXCEPT ![r] = next]
      <4>1. Covered!Decision(before[r], steps[msg[r].req]) \in Covered!Positions \ {"update"}
        BY DEF Covered!Decision, Covered!Positions
      <4> QED
        BY <2>3, <4>1
        DEF Covered!ReadRequest, Covered!ReadSteps, Covered!WritePartial, Covered!WriteOutcome,
            Covered!PublishLifecycle, Covered!RecordProof, Covered!Ack, Covered!Goto, Covered!created,
            Covered!Positions
    <3>2. pc'[r] # "update" /\ \A p \in Replicas : p = r
      BY <3>1, Tables DEF Steady
    <3> QED
      BY <3>1, <3>2, OrderKept
  <2> QED
    BY <2>1, <2>2, <2>3 DEF Covered!Handler
<1> QED
  BY <1>1, <1>2, <1>3

LEMMA CreateSteady ==
  ASSUME Steady, GraphInv, Covered!IInv, SteadyInv, NEW q \in Requests, Covered!Create(q), OutsideBackend
  PROVE  WorkersOnce' /\ CacheOnce' /\ QueueInOrder' /\ RowsSettled' /\ DecidedOnce'
<1> USE DEF SteadyInv, Covered!Create, Covered!SaveRequest, Covered!SaveSteps, Covered!PublishRequested,
            Covered!AbandonCreate, Covered!consumer
<1>1. WorkersOnce' /\ CacheOnce'
  BY BackendSpeaksNot
<1>2. /\ UNCHANGED <<results, reported, lifecycle, completedAt, pc, msg, before, snap>>
      /\ creation[q] # "published"
      /\ UNCHANGED status \/ status' = [status EXCEPT ![q] = "PENDING"]
      /\ UNCHANGED steps \/ steps' = [steps EXCEPT ![q] = [s \in Covered!Steps |-> "PENDING"]]
  OBVIOUS
<1>3. /\ \A p \in Requests : p # q => steps'[p] = steps[p] /\ status'[p] = status[p]
      /\ \A s \in Steps : steps'[q][s] \in {steps[q][s], "PENDING"}
  BY <1>2, Tables DEF Covered!Steps, Steps
<1>4. QueueInOrder' /\ RowsSettled'
  <2>1. \A p \in Requests, s \in Steps : Covered!Terminal(steps'[p][s]) => Covered!Terminal(steps[p][s])
    BY <1>3 DEF Covered!Terminal
  <2> QED
    BY <1>2, <2>1, OrderKept
<1>5. ~completedAt[q]
  BY <1>2, DecidedAreAnnounced
<1>6. OutcomeStands'
  BY <1>2, <1>3, <1>5 DEF DecidedOnce, OutcomeStands
<1>7. AnnouncedAsDecided'
  BY <1>2, <1>3, <1>5, Announcements DEF DecidedOnce, AnnouncedAsDecided
<1>8. ReadsAreFresh'
  <2>1. \A r \in Replicas : pc[r] # "idle" => msg[r].req \in Requests /\ msg[r].req # q
    BY <1>2, Tables DEF GraphInv, CoordInv, ResultsAnnounced, Announced
  <2> QED
    BY <1>2, <1>3, <2>1 DEF DecidedOnce, ReadsAreFresh
<1> QED
  BY <1>1, <1>4, <1>6, <1>7, <1>8 DEF DecidedOnce

\* Only analytics writes a row, and not one that has its final status.
LEMMA WorkerMarks ==
  ASSUME GraphInv, WorkersOnce, NEW s \in Workers, Work!WorkerRun(s) \/ Work!EraseFails(s)
  PROVE  \/ UNCHANGED steps
         \/ /\ wreq[s] \in Requests /\ s \in Steps /\ ~FinalTold(wreq[s], s)
            /\ steps' = [steps EXCEPT ![wreq[s]][s] = "RUNNING"]
<1>1. \/ UNCHANGED steps
      \/ /\ wpc[s] = "starting" /\ wreq[s] \in Requests
         /\ steps' = [steps EXCEPT ![wreq[s]][s] = "RUNNING"]
  BY DEF Work!WorkerRun, Work!Take, Work!MarkRunning, Work!Erase, Work!PublishResult, Work!AckRequest,
         Work!EraseFails, GraphInv, WorkInv, Announced
<1> QED
  BY <1>1 DEF WorkersOnce, Workers, FinalTold, Spoken, Final, EventTypes

\* A step of another worker says nothing for the cache.
LEMMA WorkerLeavesCache ==
  ASSUME WorkersOnce, CacheOnce, NEW s \in Workers, WorkerStep(s), Work!WorkerRun(s) \/ Work!EraseFails(s)
  PROVE  CacheOnce'
<1>0. UNCHANGED <<retries, dlq, cpc, creq, retry>>
  BY DEF WorkerStep, cacheOwn
<1>1. acked' = acked \/ acked' = [acked EXCEPT ![s] = @ \cup {wreq[s]}]
  BY DEF Work!WorkerRun, Work!Take, Work!MarkRunning, Work!Erase, Work!PublishResult, Work!AckRequest,
         Work!EraseFails
<1>2. acked'[Cache] = acked[Cache] /\ DOMAIN acked' = DOMAIN acked
  <2>1. acked \in [Steps -> SUBSET Requests] /\ s # Cache /\ Cache \in Steps
    BY EraseGraphAssumption DEF WorkersOnce, Workers, Steps
  <2> QED
    BY <1>1, <2>1
<1>3. \A q, type : Words!Said(q, type)' <=> Words!Said(q, type)
  <2>1. CASE Work!PublishResult(s)
    BY <2>1 DEF Work!PublishResult, Words!Said, Workers
  <2>2. CASE ~Work!PublishResult(s)
    BY <2>2 DEF Work!WorkerRun, Work!Take, Work!MarkRunning, Work!Erase, Work!AckRequest,
                Work!EraseFails, Words!Said
  <2> QED
    BY <2>1, <2>2
<1> QED
  BY <1>0, <1>2, <1>3, CacheWordsKept

LEMMA WorkerSteady ==
  ASSUME Steady, GraphInv, Covered!IInv, SteadyInv, NEW s \in Workers, WorkerStep(s),
         Work!WorkerRun(s) \/ Work!EraseFails(s)
  PROVE  WorkersOnce' /\ CacheOnce' /\ QueueInOrder' /\ RowsSettled' /\ DecidedOnce'
<1> USE DEF SteadyInv
<1>1. /\ WorkersOnce'
      /\ UNCHANGED <<results, reported>> \/ \E m : Says(m) /\ ~FinalTold(m.req, m.step)
  BY WorkersSpeakOnce
<1>2. UNCHANGED <<status, completedAt, lifecycle, pc, msg, before, snap, retries, dlq, cpc, creq, retry>>
  BY DEF WorkerStep, coordinatorOwn, cacheOwn
<1>3. CacheOnce'
  BY WorkerLeavesCache
<1>5. \/ UNCHANGED steps
      \/ /\ wreq[s] \in Requests /\ s \in Steps /\ ~FinalTold(wreq[s], s)
         /\ steps' = [steps EXCEPT ![wreq[s]][s] = "RUNNING"]
  BY WorkerMarks
<1>6. \A p \in Requests, t \in Steps : Covered!Terminal(steps'[p][t]) => Covered!Terminal(steps[p][t])
  <2>1. CASE UNCHANGED steps
    BY <2>1
  <2>2. CASE wreq[s] \in Requests /\ s \in Steps /\ steps' = [steps EXCEPT ![wreq[s]][s] = "RUNNING"]
    <3>1. \A p \in Requests, t \in Steps : steps'[p][t] = steps[p][t] \/ steps'[p][t] = "RUNNING"
      BY <2>2, Tables
    <3> QED
      BY <3>1 DEF Covered!Terminal
  <2> QED
    BY <1>5, <2>1, <2>2
<1>7. QueueInOrder' /\ RowsSettled'
  <2>1. CASE UNCHANGED results
    BY <1>2, <1>6, <2>1, OrderKept
  <2>2. CASE \E m : Says(m) /\ ~FinalTold(m.req, m.step)
    BY <1>2, <1>6, <2>2, SaidInOrder
  <2> QED
    BY <1>1, <2>1, <2>2
<1>8. DecidedOnce'
  <2>1. CASE UNCHANGED steps
    BY <1>2, <2>1, DecidedKept
  <2>2. CASE /\ wreq[s] \in Requests /\ s \in Steps /\ ~FinalTold(wreq[s], s)
             /\ steps' = [steps EXCEPT ![wreq[s]][s] = "RUNNING"]
    <3>1. \A p \in Requests : p # wreq[s] => steps'[p] = steps[p]
      BY <2>2, Tables
    <3>2. ~Covered!Terminal(steps[wreq[s]][s])
      BY <2>2, TerminalIsFinal
    <3>3. ~completedAt[wreq[s]]
      BY <2>2, <3>2 DEF DecidedOnce, OutcomeStands, Covered!AllCompleted, Covered!Steps, Steps
    <3>4. \A r \in Replicas : pc[r] \in {"outcome", "publish"} => msg[r].req # wreq[s]
      <4>1. ASSUME NEW r \in Replicas, pc[r] \in {"outcome", "publish"}, msg[r].req = wreq[s]
            PROVE  FALSE
        <5>1. Covered!Reported(wreq[s], snap[r]) /\ Covered!Terminal(snap[r][s])
          BY <2>2, <4>1 DEF Covered!IInv, Covered!CopiesReported, Covered!AllCompleted, Covered!Steps, Steps
        <5>2. FinalTold(wreq[s], s)
          BY <2>2, <5>1 DEF Covered!Reported, Covered!ResultOf, FinalTold, Final, Covered!Steps, Steps
        <5> QED
          BY <2>2, <5>2
      <4> QED
        BY <4>1
    <3>5. \A r \in Replicas : pc[r] \in {"outcome", "publish"} => msg[r].req \in Requests
      BY Tables
    <3> QED
      BY <1>2, <3>1, <3>3, <3>4, <3>5 DEF DecidedOnce, OutcomeStands, ReadsAreFresh, AnnouncedAsDecided
  <2> QED
    BY <1>5, <2>1, <2>2
<1> QED
  BY <1>1, <1>3, <1>7, <1>8

LEMMA CacheSteady ==
  ASSUME GraphInv, Covered!IInv, SteadyInv, CacheStep,
         Clean!CacheRun \/ Clean!CleanupFails \/ Clean!WindowExpires
  PROVE  WorkersOnce' /\ CacheOnce' /\ QueueInOrder' /\ RowsSettled' /\ DecidedOnce'
<1> USE DEF SteadyInv
<1>1. /\ WorkersOnce' /\ CacheOnce'
      /\ UNCHANGED <<results, reported>> \/ \E m : Says(m) /\ ~FinalTold(m.req, m.step)
  BY CacheSpeaksLast
<1>2. UNCHANGED <<status, completedAt, steps, lifecycle, pc, msg, before, snap>>
  BY DEF CacheStep, coordinatorOwn
<1>3. QueueInOrder' /\ RowsSettled'
  <2>1. CASE UNCHANGED results
    BY <1>2, <2>1, OrderKept
  <2>2. CASE \E m : Says(m) /\ ~FinalTold(m.req, m.step)
    BY <1>2, <2>2, SaidInOrder
  <2> QED
    BY <1>1, <2>1, <2>2
<1>4. DecidedOnce'
  BY <1>2, DecidedKept
<1> QED
  BY <1>1, <1>3, <1>4

LEMMA NotifierSteady ==
  ASSUME GraphInv, Covered!IInv, SteadyInv, NotifyStep
  PROVE  WorkersOnce' /\ CacheOnce' /\ QueueInOrder' /\ RowsSettled' /\ DecidedOnce'
<1> USE DEF SteadyInv, NotifyStep
<1>1. UNCHANGED <<status, completedAt, steps, results, reported, pc, msg, before, snap>>
  BY DEF coordinatorOwn
<1>2. WorkersOnce' /\ CacheOnce'
  <2>1. \A q, type : Words!Said(q, type)' <=> Words!Said(q, type)
    BY <1>1 DEF Words!Said
  <2>2. UNCHANGED <<acked, wpc, wreq, retries, dlq, cpc, creq, retry>>
    BY DEF workersShared, stepWorkerOwn, cacheOwn
  <2>3. CacheOnce'
    BY <2>1, <2>2, CacheWordsKept
  <2>4. WorkersOnce'
    BY <1>1, <2>2 DEF WorkersOnce, Spoken, Covered!Told
  <2> QED
    BY <2>3, <2>4
<1>3. QueueInOrder' /\ RowsSettled'
  BY <1>1, OrderKept
<1>4. AnnouncedAsDecided'
  <2>1. lifecycle' = lifecycle \/ (lifecycle # <<>> /\ lifecycle' = Tail(lifecycle))
    BY DEF Notify!NotificationStep, Notify!NotificationRun, Notify!StoreNotification, Notify!AckLifecycle,
           Notify!NotificationThrows, Notify!CrashNotification, GraphInv, MessageHeld
  <2>2. CASE lifecycle' = lifecycle
    BY <1>1, <2>2 DEF DecidedOnce, AnnouncedAsDecided
  <2>3. CASE lifecycle # <<>> /\ lifecycle' = Tail(lifecycle)
    <3>1. lifecycle \in Seq(Covered!Lifecycle)
      BY Tables
    <3>2. \A i \in 1 .. Len(lifecycle') : lifecycle'[i] = lifecycle[i + 1] /\ i + 1 \in 1 .. Len(lifecycle)
      BY <2>3, <3>1
    <3> QED
      BY <1>1, <3>2 DEF DecidedOnce, AnnouncedAsDecided
  <2> QED
    BY <2>1, <2>2, <2>3
<1>5. DecidedOnce'
  BY <1>1, <1>4 DEF DecidedOnce, OutcomeStands, ReadsAreFresh
<1> QED
  BY <1>2, <1>3, <1>5

LEMMA SteadyKept ==
  ASSUME Steady, GraphInv, Covered!IInv, SteadyInv, [Next]_vars
  PROVE  SteadyInv'
<1>1. Undisturbed'
  BY SteadySteps DEF SteadyInv
<1>2. WorkersOnce' /\ CacheOnce' /\ QueueInOrder' /\ RowsSettled' /\ DecidedOnce'
  <2>1. CASE UNCHANGED vars
    <3>1. /\ UNCHANGED <<creation, status, completedAt, steps, results, reported, lifecycle, pc, msg, before, snap>>
          /\ OutsideBackend
      BY <2>1 DEF vars, coordinatorOwn, OutsideBackend
    <3>2. WorkersOnce' /\ CacheOnce'
      BY <3>1, BackendSpeaksNot DEF SteadyInv
    <3> QED
      BY <3>1, <3>2, OrderKept, DecidedKept DEF SteadyInv
  <2> QED
    BY <2>1, SteadySteps, CreateSteady, HandlerSteady, WorkerSteady, CacheSteady, NotifierSteady DEF SteadyInv
<1> QED
  BY <1>1, <1>2 DEF SteadyInv

LEMMA InitSteady == Init => SteadyInv
<1> SUFFICES ASSUME Init
             PROVE  SteadyInv
  OBVIOUS
<1> USE DEF Init, Coord!Init, Work!WorkerInit, Clean!CacheInit, Sla!SlaInit
<1>1. Undisturbed
  BY DEF Undisturbed
<1>2. WorkersOnce
  BY DEF WorkersOnce, Spoken, Covered!Told, Workers
<1>3. CacheOnce
  <2>1. Words!WordTypes
    BY EraseGraphAssumption DEF Words!WordTypes, Steps
  <2>2. \A q, type : ~Words!Said(q, type)
    BY DEF Words!Said
  <2>3. \A q \in Requests : ~Words!HasFinalWord(q) /\ ~Words!InRetry(q) /\ ~Words!Busy(q) /\ Words!Speechless(q)
    BY <2>2 DEF Words!HasFinalWord, Words!InRetry, Words!Busy, Words!Speechless
  <2>4. \A q \in Requests : Words!WordOf(q)
    BY <2>2, <2>3 DEF Words!WordOf, Words!OneCopy, Words!OneWord, Words!Waiting, Words!Tried
  <2> QED
    BY <2>1, <2>4 DEF CacheOnce
<1>4. QueueInOrder
  BY DEF QueueInOrder
<1>5. RowsSettled
  BY DEF RowsSettled, Covered!Terminal, Coord!NoSteps, Coord!Steps, Steps, Coord!NoRow
<1>6. DecidedOnce
  BY DEF DecidedOnce, OutcomeStands, ReadsAreFresh, AnnouncedAsDecided
<1> QED
  BY <1>1, <1>2, <1>3, <1>4, <1>5, <1>6 DEF SteadyInv

-----------------------------------------------------------------------------
(***************************************************************************)
(* Each step as the promise sees it.                                       *)
(***************************************************************************)
PromiseInv == GraphInv /\ Covered!IInv /\ StoreTruth /\ BackedTogether /\ SteadyInv

\* The promise's view of the request rows.
Decided == [q \in Requests |-> IF creation[q] = "none" THEN "none"
                               ELSE IF completedAt[q] THEN status[q] ELSE "open"]

LEMMA DecidedChanges ==
  ASSUME NEW q \in Requests, NEW o, Decided'[q] = o,
         \A p \in Requests : p # q => Decided'[p] = Decided[p]
  PROVE  Decided' = [Decided EXCEPT ![q] = o]
BY DEF Decided

LEMMA DecidedStays ==
  ASSUME \A p \in Requests : Decided'[p] = Decided[p]
  PROVE  Decided' = Decided
BY DEF Decided

LEMMA RowsSeen ==
  ASSUME UNCHANGED <<creation, status, completedAt>>
  PROVE  Decided' = Decided
BY DEF Decided

\* What the handlers of the backend leave to the promise's other two variables.
LEMMA BackendStutters ==
  ASSUME Decided' = Decided, UNCHANGED <<erased, notified>>
  PROVE  UNCHANGED Promise!abstract
BY DEF Decided, Promise!abstract

LEMMA CreateKeepsPromise ==
  ASSUME PromiseInv, NEW q \in Requests, Covered!Create(q), OutsideBackend
  PROVE  [Promise!Next]_(Promise!abstract)
<1>1. /\ UNCHANGED <<erased, notified, completedAt>>
      /\ completedAt[q] => creation[q] = "published"
      /\ creation \in [Requests -> {"none", "request", "steps", "published", "abandoned"}]
      /\ status \in [Requests -> RequestStatus \cup {NoRow}]
  BY Tables, DecidedAreAnnounced
  DEF PromiseInv, OutsideBackend, workersShared, notifierOwn, Covered!Create, Covered!SaveRequest,
      Covered!SaveSteps, Covered!PublishRequested, Covered!AbandonCreate
<1>2. CASE Covered!SaveRequest(q)
  <2>1. /\ creation[q] = "none" /\ ~completedAt[q]
        /\ creation' = [creation EXCEPT ![q] = "request"] /\ status' = [status EXCEPT ![q] = "PENDING"]
    BY <1>1, <1>2 DEF Covered!SaveRequest
  <2>2. Decided[q] = "none" /\ Decided'[q] = "open" /\ \A p \in Requests : p # q => Decided'[p] = Decided[p]
    BY <1>1, <2>1 DEF Decided
  <2>3. Decided' = [Decided EXCEPT ![q] = "open"]
    BY <2>2, DecidedChanges
  <2>4. Promise!Accept(q)
    BY <1>1, <2>2, <2>3 DEF Promise!Accept, Decided
  <2> QED
    BY <2>4 DEF Promise!Next
<1>3. CASE Covered!SaveSteps(q) \/ Covered!PublishRequested(q) \/ Covered!AbandonCreate(q)
  <2>1. /\ creation[q] # "none" /\ UNCHANGED status
        /\ \E next \in {"steps", "published", "abandoned"} : creation' = [creation EXCEPT ![q] = next]
    BY <1>3 DEF Covered!SaveSteps, Covered!PublishRequested, Covered!AbandonCreate
  <2>2. \A p \in Requests : Decided'[p] = Decided[p]
    BY <1>1, <2>1 DEF Decided
  <2> QED
    BY <1>1, <2>2, DecidedStays, BackendStutters
<1> QED
  BY <1>2, <1>3 DEF Covered!Create

\* The outcome is decided once, and the stores it counts on are erased.
LEMMA OutcomeKeepsPromise ==
  ASSUME PromiseInv, NEW r \in Replicas, Covered!WriteOutcome(r), OutsideBackend
  PROVE  Promise!Next
<1> DEFINE q == msg[r].req
           o == Covered!Outcome(snap[r])
<1>1. /\ pc[r] = "outcome" /\ q \in Requests /\ UNCHANGED <<creation, erased, notified>>
      /\ creation[q] = "published" /\ ~completedAt[q]
      /\ status' = [status EXCEPT ![q] = o] /\ completedAt' = [completedAt EXCEPT ![q] = TRUE]
  BY Tables
  DEF PromiseInv, GraphInv, CoordInv, ResultsAnnounced, Announced, SteadyInv, DecidedOnce, ReadsAreFresh,
      Covered!WriteOutcome, OutsideBackend, workersShared, notifierOwn
<1>2. /\ status \in [Requests -> RequestStatus \cup {NoRow}]
      /\ completedAt \in [Requests -> BOOLEAN]
  BY Tables DEF PromiseInv
<1>3. Covered!Backed(q, o) /\ o \in {"COMPLETED", "PARTIAL_COMPLETED", "FAILED"}
  BY <1>1, ConstantsFit, Covered!OutcomeBacked, Covered!OutcomeType DEF PromiseInv, Covered!IInv, Covered!CopiesReported
<1>4. Covered!Reported(q, snap[r]) /\ Covered!AllCompleted(snap[r])
  BY <1>1 DEF PromiseInv, Covered!IInv, Covered!CopiesReported
<1>5. ASSUME NEW s \in Steps, Covered!Told(q, s, "DeletionStepSucceeded")
      PROVE  s \in erased[q]
  BY <1>5 DEF Covered!Told, PromiseInv, StoreTruth
<1>6. o = "COMPLETED" => erased[q] = Steps
  <2>1. o = "COMPLETED" => \A s \in Steps : snap[r][s] = "SUCCEEDED"
    BY <1>4 DEF Covered!Outcome, Covered!AllCompleted, Covered!Terminal, Covered!Steps, Steps
  <2>2. o = "COMPLETED" => \A s \in Steps : s \in erased[q]
    BY <1>4, <1>5, <2>1 DEF Covered!Reported, Covered!Terminal, Covered!ResultOf, Covered!Steps, Steps
  <2>3. erased[q] \subseteq Steps
    BY <1>1 DEF PromiseInv, StoreTruth
  <2> QED
    BY <2>2, <2>3
<1>7. o = "PARTIAL_COMPLETED" => Steps \ {Cache} \subseteq erased[q]
  <2>1. ASSUME NEW s \in Steps, Covered!Told(q, s, "CIRCUIT_OPEN_SKIP")
        PROVE  s = Cache
    BY <2>1 DEF PromiseInv, BackedTogether, Covered!InVocabulary, Vocabulary, Covered!Told
  <2>2. o = "PARTIAL_COMPLETED" => \A s \in Steps : snap[r][s] \in {"SUCCEEDED", "SKIPPED_CIRCUIT_OPEN"}
    BY <1>4 DEF Covered!Outcome, Covered!AllCompleted, Covered!Terminal, Covered!Steps, Steps
  <2>3. o = "PARTIAL_COMPLETED" => \A s \in Steps : s \in erased[q] \/ s = Cache
    BY <1>4, <1>5, <2>1, <2>2 DEF Covered!Reported, Covered!Terminal, Covered!ResultOf, Covered!Steps, Steps
  <2> QED
    BY <2>3
<1> HIDE DEF o, q
<1>8. Decided[q] = "open" /\ Decided'[q] = o /\ \A p \in Requests : p # q => Decided'[p] = Decided[p]
  BY <1>1, <1>2 DEF Decided
<1>9. Decided' = [Decided EXCEPT ![q] = o]
  BY <1>1, <1>8, DecidedChanges
<1>10. \A p \in Requests : \A v : p = q /\ v = o => Promise!Decide(p, v)
  BY <1>1, <1>6, <1>7, <1>8, <1>9 DEF Promise!Decide, Decided
<1> QED
  BY <1>1, <1>3, <1>10 DEF Promise!Next

LEMMA HandlerKeepsPromise ==
  ASSUME PromiseInv, NEW r \in Replicas, Covered!Handler(r), OutsideBackend
  PROVE  [Promise!Next]_(Promise!abstract)
<1>1. UNCHANGED <<erased, notified>>
  BY DEF OutsideBackend, workersShared, notifierOwn
<1>2. CASE Covered!WriteOutcome(r)
  BY <1>2, OutcomeKeepsPromise
<1>3. CASE Covered!WritePartial(r)
  <2>1. /\ pc[r] = "partial" /\ msg[r].req \in Requests /\ ~completedAt[msg[r].req]
        /\ status \in [Requests -> RequestStatus \cup {NoRow}]
        /\ status' = [status EXCEPT ![msg[r].req] = "PARTIAL_COMPLETED"] /\ UNCHANGED <<creation, completedAt>>
    BY <1>3, Tables DEF PromiseInv, SteadyInv, DecidedOnce, ReadsAreFresh, Covered!WritePartial
  <2>2. \A p \in Requests : Decided'[p] = Decided[p]
    BY <2>1 DEF Decided
  <2> QED
    BY <1>1, <2>2, DecidedStays, BackendStutters
<1>4. CASE \/ Covered!Deliver(r) \/ Covered!UpdateStep(r) \/ Covered!ReadRequest(r) \/ Covered!ReadSteps(r)
           \/ Covered!PublishLifecycle(r) \/ Covered!RecordProof(r) \/ Covered!Ack(r)
  <2>1. UNCHANGED <<creation, status, completedAt>>
    BY <1>4 DEF Covered!Deliver, Covered!UpdateStep, Covered!ReadRequest, Covered!ReadSteps,
                Covered!PublishLifecycle, Covered!RecordProof, Covered!Ack, Covered!created
  <2> QED
    BY <1>1, <2>1, RowsSeen, BackendStutters
<1> QED
  BY <1>2, <1>3, <1>4 DEF Covered!Handler

\* A store is erased for a request that was accepted.
LEMMA ErasureKeepsPromise ==
  ASSUME Covered!IInv, NEW q \in Requests, NEW s \in Steps, creation[q] = "published",
         erased' = [erased EXCEPT ![q] = @ \cup {s}],
         UNCHANGED <<creation, status, completedAt, notified>>
  PROVE  Promise!Next
<1>1. Decided' = Decided /\ status[q] \in RequestStatus \cup {NoRow}
  BY RowsSeen, Tables
<1>2. Decided[q] # "none"
  BY <1>1 DEF Decided, RequestStatus, NoRow
<1>3. Promise!EraseStore(q, s)
  BY <1>1, <1>2 DEF Promise!EraseStore, Decided
<1> QED
  BY <1>3 DEF Promise!Next

LEMMA WorkerKeepsPromise ==
  ASSUME PromiseInv, NEW s \in Workers, WorkerStep(s), Work!WorkerRun(s) \/ Work!EraseFails(s)
  PROVE  [Promise!Next]_(Promise!abstract)
<1>1. UNCHANGED <<creation, status, completedAt, notified>>
  BY DEF WorkerStep, coordinatorOwn, notifierOwn, Work!WorkerRun, Work!Take, Work!MarkRunning, Work!Erase,
         Work!PublishResult, Work!AckRequest, Work!EraseFails
<1>2. CASE Work!Erase(s)
  <2>1. wreq[s] \in Requests /\ creation[wreq[s]] = "published" /\ s \in Steps
    BY <1>2 DEF PromiseInv, GraphInv, WorkInv, Announced, Work!Erase, Workers
  <2> QED
    BY <1>1, <1>2, <2>1, ErasureKeepsPromise DEF Work!Erase, PromiseInv
<1>3. CASE ~Work!Erase(s)
  <2>1. UNCHANGED erased
    BY <1>3 DEF Work!WorkerRun, Work!Take, Work!MarkRunning, Work!PublishResult, Work!AckRequest,
                Work!EraseFails
  <2> QED
    BY <1>1, <2>1, RowsSeen, BackendStutters
<1> QED
  BY <1>2, <1>3

LEMMA CacheKeepsPromise ==
  ASSUME PromiseInv, CacheStep, Clean!CacheRun \/ Clean!CleanupFails \/ Clean!WindowExpires
  PROVE  [Promise!Next]_(Promise!abstract)
<1> USE DEF Clean!CacheRun, Clean!CacheTake, Clean!TakeFirst, Clean!TakeRetry, Clean!SkipOpen, Clean!Admit,
            Clean!ClaimNew, Clean!IgnoreDuplicate, Clean!DeleteCacheKeys, Clean!RecordSuccess,
            Clean!TellSucceeded, Clean!RecordFailure, Clean!TellRetrying, Clean!PublishToRetryQueue,
            Clean!TellFailed, Clean!PublishToDlq, Clean!AckCache, Clean!CleanupFails, Clean!WindowExpires
<1>1. UNCHANGED <<creation, status, completedAt, notified>>
  BY DEF CacheStep, coordinatorOwn, notifierOwn
<1>2. CASE Clean!DeleteCacheKeys
  <2>1. creq \in Requests /\ creation[creq] = "published" /\ Cache \in Steps
    BY <1>2, EraseGraphAssumption DEF PromiseInv, GraphInv, CacheInv, Announced, Steps
  <2> QED
    BY <1>1, <1>2, <2>1, ErasureKeepsPromise DEF PromiseInv
<1>3. CASE ~Clean!DeleteCacheKeys
  <2>1. UNCHANGED erased
    BY <1>3
  <2> QED
    BY <1>1, <2>1, RowsSeen, BackendStutters
<1> QED
  BY <1>2, <1>3

\* The subject is told what stands in the request row.
LEMMA NotifierKeepsPromise ==
  ASSUME PromiseInv, NotifyStep, Notify!NotificationRun
  PROVE  [Promise!Next]_(Promise!abstract)
<1>1. UNCHANGED <<creation, status, completedAt, erased>>
  BY DEF NotifyStep, coordinatorOwn, workersShared
<1>2. CASE Notify!StoreNotification
  <2> DEFINE m == Head(lifecycle)
  <2>1. /\ lifecycle \in Seq(Covered!Lifecycle) /\ lifecycle # <<>>
        /\ notified' = [notified EXCEPT ![m.req] =
                          IF m.status = "FAILED" THEN "DELETION_FAILED" ELSE "DELETION_COMPLETE"]
    BY <1>2, Tables DEF PromiseInv, Notify!StoreNotification
  <2>2. m = lifecycle[1] /\ 1 \in 1 .. Len(lifecycle)
    BY <2>1
  <2>3. m.req \in Requests /\ m.status \in {"COMPLETED", "PARTIAL_COMPLETED", "FAILED"}
    BY <2>2, Announcements DEF PromiseInv
  <2>4. completedAt[m.req] /\ status[m.req] = m.status
    BY <2>2 DEF PromiseInv, SteadyInv, DecidedOnce, AnnouncedAsDecided
  <2>5. creation[m.req] = "published"
    BY <2>3, <2>4, DecidedAreAnnounced DEF PromiseInv
  <2> HIDE DEF m
  <2>6. Decided[m.req] = m.status
    BY <2>3, <2>4, <2>5 DEF Decided
  <2>7. Promise!TellSubject(m.req)
    BY <1>1, <2>1, <2>3, <2>6, RowsSeen DEF Promise!TellSubject, Decided
  <2> QED
    BY <2>3, <2>7 DEF Promise!Next
<1>3. CASE Notify!AckLifecycle
  BY <1>1, <1>3, RowsSeen, BackendStutters DEF Notify!AckLifecycle
<1> QED
  BY <1>2, <1>3 DEF Notify!NotificationRun

LEMMA StepKeepsPromise ==
  ASSUME Steady, PromiseInv, [Next]_vars
  PROVE  [Promise!Next]_(Promise!abstract)
<1>1. CASE UNCHANGED vars
  <2>1. UNCHANGED <<creation, status, completedAt, erased, notified>>
    BY <1>1 DEF vars, coordinatorOwn, workersShared, notifierOwn
  <2> QED
    BY <2>1, RowsSeen, BackendStutters
<1> QED
  BY <1>1, SteadySteps, CreateKeepsPromise, HandlerKeepsPromise, WorkerKeepsPromise, CacheKeepsPromise,
     NotifierKeepsPromise DEF PromiseInv, SteadyInv

LEMMA InitPromise == Init => Promise!Init
BY DEF Init, Coord!Init, Notify!NotificationInit, Notify!NoRow, Promise!Init

\* The steady system keeps its promise, for any requests, stores, bounds and
\* retry limit, and whatever earlier requests left in the breaker: one outcome
\* per request, decided once, backed by what was erased, and told as decided.
THEOREM PromiseIsKept ==
  ASSUME Steady
  PROVE  Spec => ErasurePromise
<1>1. GraphInv /\ Covered!IInv /\ SteadyInv /\ [Next]_vars => SteadyInv'
  BY SteadyKept
<1>2. GraphInv /\ Covered!IInv /\ StoreTruth /\ BackedTogether /\ SteadyInv /\ [Next]_vars
        => [Promise!Next]_(Promise!abstract)
  BY StepKeepsPromise DEF PromiseInv
<1> QED
  BY InitGraph, GraphStep, InitStore, StoreStep, SystemTruth, SystemIsBacked, InitSteady, <1>1, <1>2,
     InitPromise, PTL DEF Spec, ErasurePromise, Promise!Spec

-----------------------------------------------------------------------------
(***************************************************************************)
(* What is left when nothing is on its way.  A request that was announced  *)
(* has its final words; a final word is in its row or on the way there; a  *)
(* request whose rows are all settled has its outcome or is looked at;*)
(* and an outcome is announced, or about to be.                            *)
(***************************************************************************)
WorkersSpoke ==
  \A s \in Workers :
    /\ wpc[s] = "published" => FinalTold(wreq[s], s)
    /\ \A q \in acked[s] : FinalTold(q, s)

CacheAnswers == \A q \in Requests : Words!NotForgotten(q)

FinalsArrive ==
  \A q \in Requests, s \in Steps : FinalTold(q, s) =>
    \/ Covered!Terminal(steps[q][s])
    \/ \E i \in 1 .. Len(results) : results[i].req = q /\ results[i].step = s /\ Last(results[i])
    \/ \E r \in Replicas : pc[r] = "update" /\ msg[r].req = q /\ msg[r].step = s /\ Last(msg[r])

Agreed(q) ==
  status[q] = Covered!Outcome(steps[q]) /\ (completedAt[q] \/ status[q] = "PARTIAL_COMPLETED")

LookedAt(q) == \E r \in Replicas : msg[r].req = q /\ pc[r] \in {"request", "steps", "outcome"}

Concluded ==
  /\ \A q \in Requests : Covered!AllCompleted(steps[q]) => Agreed(q) \/ LookedAt(q)
  /\ \A r \in Replicas : pc[r] = "partial" => ~Covered!AllCompleted(steps[msg[r].req])
  /\ \A q \in Requests : status[q] \in {"COMPLETED", "FAILED"} => completedAt[q]

ToldAsDecided(q) ==
  notified[q] = IF status[q] = "FAILED" THEN "DELETION_FAILED" ELSE "DELETION_COMPLETE"

SubjectFollows ==
  /\ \A q \in Requests : completedAt[q] =>
       \/ ToldAsDecided(q)
       \/ \E i \in 1 .. Len(lifecycle) : lifecycle[i].req = q
       \/ \E r \in Replicas : pc[r] = "publish" /\ msg[r].req = q
  /\ npc = "stored" => ToldAsDecided(lifecycle[1].req)

NothingLost == WorkersSpoke /\ CacheAnswers /\ FinalsArrive /\ Concluded /\ SubjectFollows

LEMMA SpeechKept ==
  ASSUME WorkersSpoke, CacheAnswers, UNCHANGED reported,
         UNCHANGED <<acked, wpc, wreq, claimed, retries, cpc, creq>>
  PROVE  WorkersSpoke' /\ CacheAnswers'
<1>1. WorkersSpoke'
  BY DEF WorkersSpoke, FinalTold, Covered!Told
<1>2. \A q : /\ Words!HasFinalWord(q)' <=> Words!HasFinalWord(q)
             /\ Words!InRetry(q)' <=> Words!InRetry(q)
             /\ Words!Busy(q)' <=> Words!Busy(q)
  BY DEF Words!HasFinalWord, Words!Said, Words!InRetry, Words!Busy
<1>3. CacheAnswers'
  BY <1>2 DEF CacheAnswers, Words!NotForgotten
<1> QED
  BY <1>1, <1>3

LEMMA ArrivalsKept ==
  ASSUME FinalsArrive, UNCHANGED <<results, reported>>,
         \A r \in Replicas : pc[r] = "update" => pc'[r] = "update" /\ msg'[r] = msg[r],
         \A q \in Requests, s \in Steps : Covered!Terminal(steps[q][s]) => Covered!Terminal(steps'[q][s])
  PROVE  FinalsArrive'
<1>1. \A q, s : FinalTold(q, s)' <=> FinalTold(q, s)
  BY DEF FinalTold, Covered!Told
<1> QED
  BY <1>1 DEF FinalsArrive, Last

LEMMA ArrivalsSaid ==
  ASSUME Covered!IInv, FinalsArrive, NEW m, Says(m), UNCHANGED <<pc, msg>>,
         \A q \in Requests, s \in Steps : Covered!Terminal(steps[q][s]) => Covered!Terminal(steps'[q][s])
  PROVE  FinalsArrive'
<1>1. /\ results \in Seq(Covered!Message) /\ m \in Covered!Message
      /\ results' = Append(results, m) /\ reported' = reported \cup {m}
  BY CopiesAreReported DEF Says
<1>2. /\ \A i \in 1 .. Len(results) : i \in 1 .. Len(results') /\ results'[i] = results[i]
      /\ Len(results') \in 1 .. Len(results') /\ results'[Len(results')] = m
  BY <1>1
<1>3. ASSUME NEW q, NEW s, FinalTold(q, s)', ~FinalTold(q, s)
      PROVE  m.req = q /\ m.step = s /\ Last(m)
  BY <1>1, <1>3 DEF FinalTold, Covered!Told, Last
<1>4. ASSUME NEW q \in Requests, NEW s \in Steps, FinalTold(q, s)'
      PROVE  \/ Covered!Terminal(steps'[q][s])
             \/ \E i \in 1 .. Len(results') : results'[i].req = q /\ results'[i].step = s /\ Last(results'[i])
             \/ \E r \in Replicas : pc[r] = "update" /\ msg[r].req = q /\ msg[r].step = s /\ Last(msg[r])
  <2>1. CASE FinalTold(q, s)
    BY <1>2, <2>1 DEF FinalsArrive
  <2>2. CASE ~FinalTold(q, s)
    BY <1>2, <1>3, <1>4, <2>2
  <2> QED
    BY <2>1, <2>2
<1> QED
  BY <1>4 DEF FinalsArrive, Last

LEMMA ArrivalsDelivered ==
  ASSUME Steady, Covered!IInv, FinalsArrive, NEW r \in Replicas, Covered!Deliver(r)
  PROVE  FinalsArrive'
<1>1. /\ results \in Seq(Covered!Message) /\ results # <<>> /\ results' = Tail(results)
      /\ UNCHANGED <<steps, reported>>
      /\ pc[r] = "idle" /\ msg \in [Replicas -> Covered!Message \cup {NoMessage}]
      /\ pc \in [Replicas -> Covered!Positions]
      /\ msg' = [msg EXCEPT ![r] = Head(results)]
      /\ pc' = [pc EXCEPT ![r] = IF Covered!WritesStep(Head(results).type) THEN "update" ELSE "proof"]
      /\ \A p \in Replicas : p = r
  BY CopiesAreReported, Tables DEF Covered!Deliver, Covered!Goto, Covered!created, Steady
<1>2. /\ Len(results) \in Nat /\ Len(results') = Len(results) - 1
      /\ \A i \in 1 .. Len(results') : results'[i] = results[i + 1]
      /\ Head(results) = results[1]
      /\ \A i \in 1 .. Len(results) : i = 1 \/ i - 1 \in 1 .. Len(results')
      /\ \A i \in 1 .. Len(results) : i # 1 => results'[i - 1] = results[i]
  BY <1>1
<1>3. msg'[r] = results[1] /\ (Last(results[1]) => pc'[r] = "update")
  BY <1>1, <1>2 DEF Last, Final, Covered!WritesStep
<1>4. \A q, s : FinalTold(q, s)' <=> FinalTold(q, s)
  BY <1>1 DEF FinalTold, Covered!Told
<1>5. ASSUME NEW q \in Requests, NEW s \in Steps, FinalTold(q, s), ~Covered!Terminal(steps[q][s])
      PROVE  \/ \E i \in 1 .. Len(results') : results'[i].req = q /\ results'[i].step = s /\ Last(results'[i])
             \/ \E p \in Replicas : pc'[p] = "update" /\ msg'[p].req = q /\ msg'[p].step = s /\ Last(msg'[p])
  <2>1. PICK i \in 1 .. Len(results) : results[i].req = q /\ results[i].step = s /\ Last(results[i])
    BY <1>1, <1>5 DEF FinalsArrive
  <2>2. CASE i = 1
    BY <1>3, <2>1, <2>2
  <2>3. CASE i # 1
    BY <1>2, <2>1, <2>3
  <2> QED
    BY <2>2, <2>3
<1> QED
  BY <1>1, <1>4, <1>5 DEF FinalsArrive, Last

LEMMA ArrivalsWritten ==
  ASSUME Steady, Covered!IInv, FinalsArrive, RowsSettled, NEW r \in Replicas, Covered!UpdateStep(r)
  PROVE  FinalsArrive'
<1> DEFINE p == msg[r].req
           t == msg[r].step
<1>1. /\ pc[r] = "update" /\ UNCHANGED <<results, msg, reported>>
      /\ p \in Requests /\ t \in Steps
      /\ steps \in [Requests -> [Steps -> StepStatus \cup {NoRow}]]
      /\ steps' = [steps EXCEPT ![p][t] = Covered!StatusOf(msg[r].type)]
      /\ \A other \in Replicas : other = r
  BY Tables DEF Covered!UpdateStep, Steady
<1>2. \A q \in Requests, s \in Steps : ~(q = p /\ s = t) => steps'[q][s] = steps[q][s]
  BY <1>1
<1>3. steps'[p][t] = Covered!StatusOf(msg[r].type)
  BY <1>1
<1>4. Last(msg[r]) => Covered!Terminal(steps'[p][t])
  BY <1>3 DEF Last, Final, Covered!Terminal, Covered!StatusOf
<1>5. ~Covered!Terminal(steps[p][t])
  BY <1>1 DEF RowsSettled, Settled
<1>6. \A q, s : FinalTold(q, s)' <=> FinalTold(q, s)
  BY <1>1 DEF FinalTold, Covered!Told
<1> HIDE DEF p, t
<1>7. ASSUME NEW q \in Requests, NEW s \in Steps, FinalTold(q, s)
      PROVE  \/ Covered!Terminal(steps'[q][s])
             \/ \E i \in 1 .. Len(results) : results[i].req = q /\ results[i].step = s /\ Last(results[i])
  <2>1. CASE Covered!Terminal(steps[q][s])
    BY <1>2, <1>5, <2>1
  <2>2. CASE \E o \in Replicas : pc[o] = "update" /\ msg[o].req = q /\ msg[o].step = s /\ Last(msg[o])
    <3>1. q = p /\ s = t /\ Last(msg[r])
      BY <1>1, <2>2 DEF p, t
    <3> QED
      BY <1>4, <3>1
  <2> QED
    BY <1>7, <2>1, <2>2 DEF FinalsArrive
<1> QED
  BY <1>1, <1>6, <1>7 DEF FinalsArrive, Last

\* A settled row stays settled, whoever writes.
LEMMA ConclusionsKept ==
  ASSUME Concluded, UNCHANGED <<status, completedAt, pc, msg>>,
         \A q \in Requests : steps'[q] = steps[q] \/ ~Covered!AllCompleted(steps'[q]),
         \A r \in Replicas : pc[r] = "partial" => msg[r].req \in Requests
  PROVE  Concluded'
BY DEF Concluded, Agreed, LookedAt

LEMMA FollowsKept ==
  ASSUME SubjectFollows, AnnouncedAsDecided, MessageHeld, Covered!IInv, UNCHANGED <<lifecycle, notified, npc>>,
         \A q \in Requests : completedAt'[q] => completedAt[q],
         \A q \in Requests : completedAt[q] => status'[q] = status[q],
         \A r \in Replicas : pc[r] = "publish" => pc'[r] = "publish" /\ msg'[r] = msg[r]
  PROVE  SubjectFollows'
<1>1. npc = "stored" => lifecycle[1].req \in Requests /\ completedAt[lifecycle[1].req]
  <2>1. lifecycle \in Seq(Covered!Lifecycle)
    BY Tables
  <2>2. npc = "stored" => 1 \in 1 .. Len(lifecycle)
    BY <2>1 DEF MessageHeld
  <2> QED
    BY <2>2, Announcements DEF AnnouncedAsDecided
<1>2. \A q \in Requests : completedAt[q] => (ToldAsDecided(q)' <=> ToldAsDecided(q))
  BY DEF ToldAsDecided
<1>3. npc' = "stored" => ToldAsDecided(lifecycle[1].req)'
  BY <1>1, <1>2 DEF SubjectFollows, ToldAsDecided
<1> QED
  BY <1>2, <1>3 DEF SubjectFollows

LEMMA HandlerLosesNothing ==
  ASSUME Steady, GraphInv, Covered!IInv, SteadyInv, NothingLost, NEW r \in Replicas, Covered!Handler(r), OutsideBackend
  PROVE  NothingLost'
<1> DEFINE q == msg[r].req
<1> USE DEF Covered!Goto, Covered!created, NothingLost, SteadyInv
<1>0. \A p \in Replicas : p = r
  BY DEF Steady
<1>t. /\ status \in [Requests -> RequestStatus \cup {NoRow}]
      /\ completedAt \in [Requests -> BOOLEAN]
      /\ steps \in [Requests -> [Steps -> StepStatus \cup {NoRow}]]
      /\ lifecycle \in Seq(Covered!Lifecycle)
      /\ pc \in [Replicas -> Covered!Positions]
      /\ msg \in [Replicas -> Covered!Message \cup {NoMessage}]
      /\ before \in [Replicas -> RequestStatus \cup {NoRow}]
      /\ pc[r] # "idle" => q \in Requests /\ msg[r].step \in Steps
  BY Tables
<1>s. WorkersSpoke' /\ CacheAnswers'
  <2>1. UNCHANGED reported
    BY DEF Covered!Handler, Covered!Deliver, Covered!UpdateStep, Covered!ReadRequest, Covered!ReadSteps,
           Covered!WritePartial, Covered!WriteOutcome, Covered!PublishLifecycle, Covered!RecordProof, Covered!Ack
  <2> QED
    BY <2>1, SpeechKept DEF OutsideBackend, workersShared, stepWorkerOwn, cacheOwn
<1>n. UNCHANGED <<notified, npc>> /\ MessageHeld
  BY DEF OutsideBackend, notifierOwn, GraphInv
<1>a. UNCHANGED <<results, reported, steps>> /\ pc[r] # "update" => FinalsArrive'
  BY <1>0, ArrivalsKept
<1>f. UNCHANGED <<lifecycle, status, completedAt>> /\ pc[r] # "publish" => SubjectFollows'
  BY <1>0, <1>n, FollowsKept DEF DecidedOnce
\* The request in hand is looked at no more; what stands there is agreed.
<1>c. ASSUME UNCHANGED <<status, completedAt, steps>>, pc'[r] \notin {"partial"},
             \A p \in Requests : Covered!AllCompleted(steps[p]) /\ LookedAt(p) => Agreed(p) \/ LookedAt(p)'
      PROVE  Concluded'
  <2>1. \A p \in Requests : Covered!AllCompleted(steps[p]) => Agreed(p) \/ LookedAt(p)'
    BY <1>c DEF Concluded
  <2>2. \A p : Agreed(p)' <=> Agreed(p)
    BY <1>c DEF Agreed
  <2> QED
    BY <1>c, <1>0, <2>1, <2>2 DEF Concluded
<1>1. CASE Covered!Deliver(r)
  <2>1. pc[r] = "idle" /\ pc'[r] \in {"update", "proof"} /\ UNCHANGED <<status, completedAt, steps, lifecycle>>
    BY <1>1, <1>t DEF Covered!Deliver
  <2>2. \A p : ~LookedAt(p)
    BY <1>0, <2>1 DEF LookedAt
  <2> QED
    BY <1>1, <1>s, <1>c, <1>f, <2>1, <2>2, ArrivalsDelivered
<1>2. CASE Covered!UpdateStep(r)
  <2>1. /\ pc[r] = "update" /\ pc'[r] = "request" /\ UNCHANGED <<status, completedAt, lifecycle, msg>>
        /\ steps' = [steps EXCEPT ![q][msg[r].step] = Covered!StatusOf(msg[r].type)]
    BY <1>2, <1>t DEF Covered!UpdateStep
  <2>2. \A p \in Requests : p # q => steps'[p] = steps[p] /\ ~LookedAt(p)
    BY <1>0, <1>t, <2>1 DEF LookedAt
  <2>3. \A p : p = q => LookedAt(p)'
    BY <2>1 DEF LookedAt
  <2>4. ASSUME NEW p \in Requests, Covered!AllCompleted(steps'[p])
        PROVE  Agreed(p)' \/ LookedAt(p)'
    <3>1. CASE p = q
      BY <2>3, <3>1
    <3>2. CASE p # q
      BY <2>1, <2>2, <2>4, <3>2 DEF Concluded, Agreed
    <3> QED
      BY <3>1, <3>2
  <2>5. Concluded'
    BY <1>0, <2>1, <2>4 DEF Concluded
  <2> QED
    BY <1>2, <1>s, <1>f, <2>1, <2>5, ArrivalsWritten
<1>3. CASE Covered!ReadRequest(r)
  <2>1. /\ pc[r] = "request" /\ pc'[r] = "steps"
        /\ UNCHANGED <<status, completedAt, steps, lifecycle, results, reported, msg>>
    BY <1>3, <1>t DEF Covered!ReadRequest
  <2>2. \A p : LookedAt(p) => LookedAt(p)'
    BY <1>0, <2>1 DEF LookedAt
  <2> QED
    BY <1>s, <1>a, <1>c, <1>f, <2>1, <2>2
<1>4. CASE Covered!ReadSteps(r)
  <2> DEFINE next == Covered!Decision(before[r], steps[q])
  <2>1. /\ pc[r] = "steps" /\ pc'[r] = next
        /\ UNCHANGED <<status, completedAt, steps, lifecycle, results, reported, msg>>
    BY <1>4, <1>t DEF Covered!ReadSteps
  <2>2. before[r] = status[q] /\ q \in Requests
    BY <1>t, <2>1 DEF DecidedOnce, ReadsAreFresh
  <2>3. next = "partial" => ~Covered!AllCompleted(steps[q])
    BY DEF Covered!Decision
  <2>4. Covered!AllCompleted(steps[q]) => next = "outcome" \/ status[q] = Covered!Outcome(steps[q])
    BY <2>2 DEF Covered!Decision
  <2>5. status[q] = Covered!Outcome(steps[q]) => Agreed(q)
    BY <2>2, ConstantsFit, Covered!OutcomeType DEF Concluded, Agreed
  <2> HIDE DEF next
  <2>6. \A p \in Requests : Covered!AllCompleted(steps[p]) => Agreed(p) \/ LookedAt(p)'
    <3>1. \A p \in Requests : p # q => ~LookedAt(p)
      BY <1>0 DEF LookedAt
    <3>2. \A p : p = q /\ next = "outcome" => LookedAt(p)'
      BY <2>1 DEF LookedAt
    <3> QED
      BY <2>4, <2>5, <3>1, <3>2 DEF Concluded
  <2>7. Concluded'
    BY <1>0, <2>1, <2>3, <2>6 DEF Concluded, Agreed
  <2> QED
    BY <1>s, <1>a, <1>f, <2>1, <2>7
<1>5. CASE Covered!WritePartial(r)
  <2>1. /\ pc[r] = "partial" /\ pc'[r] = "proof" /\ UNCHANGED <<completedAt, steps, lifecycle, results, reported>>
        /\ status' = [status EXCEPT ![q] = "PARTIAL_COMPLETED"]
    BY <1>5, <1>t DEF Covered!WritePartial
  <2>2. ~completedAt[q] /\ ~Covered!AllCompleted(steps[q]) /\ q \in Requests
    BY <1>t, <2>1 DEF DecidedOnce, ReadsAreFresh, Concluded
  <2>3. \A p \in Requests : ~LookedAt(p) /\ (p # q => status'[p] = status[p])
    BY <1>0, <1>t, <2>1 DEF LookedAt
  <2>4. status'[q] = "PARTIAL_COMPLETED"
    BY <1>t, <2>1, <2>2
  <2>5. Concluded'
    BY <1>0, <2>1, <2>2, <2>3, <2>4 DEF Concluded, Agreed
  <2>6. SubjectFollows'
    BY <1>0, <1>n, <2>1, <2>2, <2>3, FollowsKept DEF DecidedOnce
  <2> QED
    BY <1>s, <1>a, <2>1, <2>5, <2>6
<1>6. CASE Covered!WriteOutcome(r)
  <2>1. /\ pc[r] = "outcome" /\ pc'[r] = "publish" /\ UNCHANGED <<steps, lifecycle, results, reported, msg>>
        /\ status' = [status EXCEPT ![q] = Covered!Outcome(snap[r])]
        /\ completedAt' = [completedAt EXCEPT ![q] = TRUE]
    BY <1>6, <1>t DEF Covered!WriteOutcome
  <2>2. ~completedAt[q] /\ snap[r] = steps[q] /\ q \in Requests
    BY <1>t, <2>1 DEF DecidedOnce, ReadsAreFresh
  <2>3. /\ status'[q] = Covered!Outcome(steps[q]) /\ completedAt'[q]
        /\ \A p \in Requests : p # q => status'[p] = status[p] /\ completedAt'[p] = completedAt[p] /\ ~LookedAt(p)
    BY <1>0, <1>t, <2>1, <2>2 DEF LookedAt
  <2>4. Concluded'
    BY <1>0, <2>1, <2>3 DEF Concluded, Agreed
  <2>5. npc = "stored" => lifecycle[1].req \in Requests /\ lifecycle[1].req # q
    <3>1. npc = "stored" => 1 \in 1 .. Len(lifecycle)
      BY <1>t, <1>n DEF MessageHeld
    <3> QED
      BY <2>2, <3>1, Announcements DEF DecidedOnce, AnnouncedAsDecided
  <2>6. \A p \in Requests : p # q => (ToldAsDecided(p)' <=> ToldAsDecided(p))
    BY <1>n, <2>3 DEF ToldAsDecided
  <2>7. SubjectFollows'
    <3>1. npc' = "stored" => ToldAsDecided(lifecycle[1].req)'
      BY <1>n, <2>1, <2>3, <2>5 DEF SubjectFollows, ToldAsDecided
    <3>2. ASSUME NEW p \in Requests, completedAt'[p], p # q, ~ToldAsDecided(p)'
          PROVE  \E i \in 1 .. Len(lifecycle) : lifecycle[i].req = p
      BY <1>0, <2>1, <2>3, <2>6, <3>2 DEF SubjectFollows
    <3> QED
      BY <2>1, <3>1, <3>2 DEF SubjectFollows
  <2> QED
    BY <1>s, <1>a, <2>1, <2>4, <2>7
<1>7. CASE Covered!PublishLifecycle(r)
  <2> DEFINE m == [req |-> q, status |-> Covered!Outcome(snap[r])]
  <2>1. /\ pc[r] = "publish" /\ pc'[r] = "proof" /\ UNCHANGED <<status, completedAt, steps, results, reported>>
        /\ lifecycle' = Append(lifecycle, m)
    BY <1>7, <1>t DEF Covered!PublishLifecycle
  <2>2. m \in Covered!Lifecycle /\ m.req = q
    BY <1>t, <2>1, ConstantsFit, Covered!OutcomeType DEF Covered!Lifecycle
  <2> HIDE DEF m
  <2>3. /\ \A i \in 1 .. Len(lifecycle) : i \in 1 .. Len(lifecycle') /\ lifecycle'[i] = lifecycle[i]
        /\ Len(lifecycle') \in 1 .. Len(lifecycle') /\ lifecycle'[Len(lifecycle')].req = q
    BY <1>t, <2>1, <2>2
  <2>4. \A p : LookedAt(p) => FALSE
    BY <1>0, <2>1 DEF LookedAt
  <2>5. SubjectFollows'
    <3>1. npc = "stored" => 1 \in 1 .. Len(lifecycle)
      BY <1>t, <1>n DEF MessageHeld
    <3>2. npc' = "stored" => ToldAsDecided(lifecycle[1].req)'
      BY <1>n, <2>1, <2>3, <3>1 DEF SubjectFollows, ToldAsDecided
    <3>3. ASSUME NEW p \in Requests, completedAt'[p], ~ToldAsDecided(p)'
          PROVE  \E i \in 1 .. Len(lifecycle') : lifecycle'[i].req = p
      <4>1. ~ToldAsDecided(p)
        BY <1>n, <2>1, <3>3 DEF ToldAsDecided
      <4>2. (\E i \in 1 .. Len(lifecycle) : lifecycle[i].req = p) \/ p = q
        BY <1>0, <2>1, <3>3, <4>1 DEF SubjectFollows
      <4> QED
        BY <2>3, <4>2
    <3> QED
      BY <3>2, <3>3 DEF SubjectFollows, ToldAsDecided
  <2> QED
    BY <1>s, <1>a, <1>c, <2>1, <2>4, <2>5
<1>8. CASE Covered!RecordProof(r) \/ Covered!Ack(r)
  <2>1. /\ pc[r] \in {"proof", "ack"} /\ pc'[r] \in {"ack", "idle"}
        /\ UNCHANGED <<status, completedAt, steps, lifecycle, results, reported>>
    BY <1>8, <1>t DEF Covered!RecordProof, Covered!Ack
  <2>2. \A p : ~LookedAt(p)
    BY <1>0, <2>1 DEF LookedAt
  <2> QED
    BY <1>s, <1>a, <1>c, <1>f, <2>1, <2>2
<1> QED
  BY <1>1, <1>2, <1>3, <1>4, <1>5, <1>6, <1>7, <1>8 DEF Covered!Handler

LEMMA CreateLosesNothing ==
  ASSUME Steady, GraphInv, Covered!IInv, SteadyInv, NothingLost, NEW q \in Requests, Covered!Create(q), OutsideBackend
  PROVE  NothingLost'
<1> USE DEF NothingLost, SteadyInv, Covered!consumer
<1>1. /\ UNCHANGED <<results, reported, lifecycle, completedAt, pc, msg, notified, npc>>
      /\ creation[q] # "published"
      /\ UNCHANGED status \/ status' = [status EXCEPT ![q] = "PENDING"]
      /\ UNCHANGED steps \/ steps' = [steps EXCEPT ![q] = [s \in Covered!Steps |-> "PENDING"]]
  BY DEF Covered!Create, Covered!SaveRequest, Covered!SaveSteps, Covered!PublishRequested,
         Covered!AbandonCreate, OutsideBackend, notifierOwn
<1>2. /\ \A p \in Requests : p # q => steps'[p] = steps[p] /\ status'[p] = status[p]
      /\ \A s \in Steps : steps'[q][s] \in {steps[q][s], "PENDING"}
      /\ status'[q] \in {status[q], "PENDING"}
  BY <1>1, Tables DEF Covered!Steps, Steps
<1>3. \A s \in Steps : ~FinalTold(q, s)
  BY <1>1 DEF FinalTold, Covered!Told, GraphInv, CoordInv, ResultsAnnounced, Announced
<1>4. \A s \in Steps : ~Covered!Terminal(steps[q][s]) /\ ~Covered!Terminal(steps'[q][s])
  BY <1>2, <1>3, TerminalIsFinal DEF Covered!Terminal
<1>5. ~Covered!AllCompleted(steps[q]) /\ ~Covered!AllCompleted(steps'[q])
  BY <1>4 DEF Covered!AllCompleted, Covered!Steps, Steps
<1>6. WorkersSpoke' /\ CacheAnswers'
  BY <1>1, SpeechKept DEF OutsideBackend, workersShared, stepWorkerOwn, cacheOwn
<1>7. FinalsArrive'
  BY <1>1, <1>2, <1>4, ArrivalsKept
<1>8. ~completedAt[q]
  BY <1>1, DecidedAreAnnounced
<1>9. Concluded'
  <2>1. \A r \in Replicas : pc[r] = "partial" => msg[r].req \in Requests /\ msg[r].req # q
    BY <1>1, Tables DEF GraphInv, CoordInv, ResultsAnnounced, Announced
  <2>2. ASSUME NEW p \in Requests, Covered!AllCompleted(steps'[p])
        PROVE  Agreed(p)' \/ LookedAt(p)'
    BY <1>1, <1>2, <1>5, <2>2 DEF Concluded, Agreed, LookedAt
  <2>3. \A p \in Requests : status'[p] \in {"COMPLETED", "FAILED"} => completedAt'[p]
    BY <1>1, <1>2 DEF Concluded
  <2> QED
    BY <1>1, <1>2, <2>1, <2>2, <2>3 DEF Concluded
<1>10. SubjectFollows'
  BY <1>1, <1>2, <1>8, FollowsKept DEF DecidedOnce, GraphInv
<1> QED
  BY <1>6, <1>7, <1>9, <1>10

LEMMA WorkerLosesNothing ==
  ASSUME Steady, GraphInv, Covered!IInv, SteadyInv, NothingLost, NEW s \in Workers, WorkerStep(s),
         Work!WorkerRun(s) \/ Work!EraseFails(s)
  PROVE  NothingLost'
<1> USE DEF NothingLost, SteadyInv
<1>1. UNCHANGED <<status, completedAt, lifecycle, pc, msg, notified, npc, claimed, retries, cpc, creq>>
  BY DEF WorkerStep, coordinatorOwn, cacheOwn, notifierOwn
<1>2. /\ wpc \in [Workers -> Work!WorkerPositions] /\ wreq \in [Workers -> Requests \cup {NoRequest}]
      /\ acked \in [Steps -> SUBSET Requests]
      /\ \A t \in Workers : wpc[t] # "idle" => wreq[t] \in Requests
      /\ Workers \subseteq Steps /\ s # Cache /\ Cache \in Steps
  BY EraseGraphAssumption DEF GraphInv, WorkInv, Announced, WorkersOnce, Workers, Steps
<1>3. WorkersSpoke' /\ acked'[Cache] = acked[Cache] /\ (\A q, type : Words!Said(q, type)' <=> Words!Said(q, type))
  <2>1. CASE Work!PublishResult(s)
    <3> DEFINE m == [req |-> wreq[s], step |-> s,
                     type |-> IF wpc[s] = "erased" THEN "DeletionStepSucceeded" ELSE "DeletionStepFailed"]
    <3>1. UNCHANGED <<acked, wreq>> /\ reported' = reported \cup {m} /\ wpc' = [wpc EXCEPT ![s] = "published"]
      BY <2>1 DEF Work!PublishResult, Work!Move
    <3>2. m.req = wreq[s] /\ m.step = s /\ m.type \in Final
      BY DEF Final
    <3>3. m = [req |-> wreq[s], step |-> s, type |-> m.type]
      OBVIOUS
    <3> HIDE DEF m
    <3>4. \A q : q = wreq[s] => FinalTold(q, s)'
      BY <3>1, <3>2, <3>3 DEF FinalTold, Covered!Told
    <3>5. \A q, t : FinalTold(q, t) => FinalTold(q, t)'
      BY <3>1 DEF FinalTold, Covered!Told
    <3>6. wpc'[s] = "published" /\ \A t \in Workers : t # s => wpc'[t] = wpc[t]
      BY <1>2, <3>1
    <3>7. \A q, type : Words!Said(q, type)' <=> Words!Said(q, type)
      BY <1>2, <3>1, <3>2 DEF Words!Said
    <3> QED
      BY <3>1, <3>4, <3>5, <3>6, <3>7 DEF WorkersSpoke
  <2>2. CASE ~Work!PublishResult(s)
    <3>1. UNCHANGED reported
      BY <2>2 DEF Work!WorkerRun, Work!Take, Work!MarkRunning, Work!Erase, Work!AckRequest, Work!EraseFails
    <3>2. \A q, t : FinalTold(q, t)' <=> FinalTold(q, t)
      BY <3>1 DEF FinalTold, Covered!Told
    <3>3. \A t \in Workers : t # s => wpc'[t] = wpc[t] /\ wreq'[t] = wreq[t]
      BY <1>2, <2>2 DEF Work!WorkerRun, Work!Take, Work!MarkRunning, Work!Erase, Work!AckRequest,
                        Work!EraseFails, Work!Move
    <3>4. wpc'[s] # "published"
      BY <1>2, <2>2 DEF Work!WorkerRun, Work!Take, Work!MarkRunning, Work!Erase, Work!AckRequest,
                        Work!EraseFails, Work!Move
    <3>5. \/ acked' = acked
          \/ wpc[s] = "published" /\ acked' = [acked EXCEPT ![s] = @ \cup {wreq[s]}]
      BY <2>2 DEF Work!WorkerRun, Work!Take, Work!MarkRunning, Work!Erase, Work!AckRequest, Work!EraseFails
    <3>6. \A t \in Workers : \A q \in acked'[t] : FinalTold(q, t)
      BY <1>2, <3>5 DEF WorkersSpoke
    <3>7. acked'[Cache] = acked[Cache]
      BY <1>2, <3>5
    <3> QED
      BY <3>1, <3>2, <3>3, <3>4, <3>6, <3>7 DEF WorkersSpoke, Words!Said
  <2> QED
    BY <2>1, <2>2
<1>4. CacheAnswers'
  <2>1. \A q : /\ Words!HasFinalWord(q)' <=> Words!HasFinalWord(q)
               /\ Words!InRetry(q)' <=> Words!InRetry(q)
               /\ Words!Busy(q)' <=> Words!Busy(q)
    BY <1>1, <1>3 DEF Words!HasFinalWord, Words!InRetry, Words!Busy
  <2> QED
    BY <1>1, <1>3, <2>1 DEF CacheAnswers, Words!NotForgotten
<1>5. /\ \A q \in Requests, t \in Steps : Covered!Terminal(steps[q][t]) => Covered!Terminal(steps'[q][t])
      /\ \A q \in Requests : steps'[q] = steps[q] \/ ~Covered!AllCompleted(steps'[q])
  <2>1. CASE UNCHANGED steps
    BY <2>1
  <2>2. CASE /\ wreq[s] \in Requests /\ s \in Steps /\ ~FinalTold(wreq[s], s)
             /\ steps' = [steps EXCEPT ![wreq[s]][s] = "RUNNING"]
    <3>1. ~Covered!Terminal(steps[wreq[s]][s])
      BY <2>2, TerminalIsFinal
    <3>2. /\ \A q \in Requests, t \in Steps : ~(q = wreq[s] /\ t = s) => steps'[q][t] = steps[q][t]
          /\ \A q \in Requests : q # wreq[s] => steps'[q] = steps[q]
          /\ steps'[wreq[s]][s] = "RUNNING"
      BY <2>2, Tables
    <3>3. ~Covered!AllCompleted(steps'[wreq[s]])
      BY <2>2, <3>2 DEF Covered!AllCompleted, Covered!Terminal, Covered!Steps, Steps
    <3> QED
      BY <3>1, <3>2, <3>3
  <2> QED
    BY <2>1, <2>2, WorkerMarks
<1>6. FinalsArrive'
  <2>1. CASE UNCHANGED <<results, reported>>
    BY <1>1, <1>5, <2>1, ArrivalsKept
  <2>2. CASE \E m : Says(m) /\ ~FinalTold(m.req, m.step)
    BY <1>1, <1>5, <2>2, ArrivalsSaid
  <2> QED
    BY <2>1, <2>2, WorkersSpeakOnce
<1>7. Concluded'
  BY <1>1, <1>5, Tables, ConclusionsKept
<1>8. SubjectFollows'
  BY <1>1, FollowsKept DEF DecidedOnce, GraphInv
<1> QED
  BY <1>3, <1>4, <1>6, <1>7, <1>8

LEMMA CacheLosesNothing ==
  ASSUME GraphInv, Covered!IInv, SteadyInv, NothingLost, CacheStep,
         Clean!CacheRun \/ Clean!CleanupFails \/ Clean!WindowExpires
  PROVE  NothingLost'
<1> USE DEF NothingLost, SteadyInv
<1>1. UNCHANGED <<status, completedAt, steps, lifecycle, pc, msg, notified, npc, wpc, wreq>>
  BY DEF CacheStep, coordinatorOwn, stepWorkerOwn, notifierOwn
<1>2. Words!CacheRun \/ Words!CleanupFails \/ Words!WindowExpires
  BY SameCacheWorker
<1>3. CacheAnswers'
  BY <1>2, Words!WorkerForgetsNone, CacheFits DEF CacheAnswers, CacheOnce
<1>4. WorkersSpoke'
  <2>1. \/ acked' = acked
        \/ acked' = [acked EXCEPT ![Cache] = @ \cup {creq}]
    BY <1>2 DEF
       Words!CacheRun, Words!CacheTake, Words!TakeFirst, Words!TakeRetry, Words!SkipOpen, Words!Admit,
       Words!ClaimNew, Words!IgnoreDuplicate, Words!DeleteCacheKeys, Words!RecordSuccess, Words!TellSucceeded,
       Words!RecordFailure, Words!TellRetrying, Words!PublishToRetryQueue, Words!TellFailed, Words!PublishToDlq,
       Words!AckCache, Words!Settle, Words!CleanupFails, Words!WindowExpires
  <2>2. \A s \in Workers : acked'[s] = acked[s]
    BY <2>1 DEF WorkersOnce, Workers
  <2>3. reported \subseteq reported'
    BY CacheSpeaksLast DEF Says
  <2>4. \A q, t : FinalTold(q, t) => FinalTold(q, t)'
    BY <2>3 DEF FinalTold, Covered!Told
  <2> QED
    BY <1>1, <2>2, <2>4 DEF WorkersSpoke
<1>5. FinalsArrive'
  <2>1. CASE UNCHANGED <<results, reported>>
    BY <1>1, <2>1, ArrivalsKept
  <2>2. CASE \E m : Says(m) /\ ~FinalTold(m.req, m.step)
    BY <1>1, <2>2, ArrivalsSaid
  <2> QED
    BY <2>1, <2>2, CacheSpeaksLast
<1>6. Concluded'
  BY <1>1, Tables, ConclusionsKept
<1>7. SubjectFollows'
  BY <1>1, FollowsKept DEF DecidedOnce, GraphInv
<1> QED
  BY <1>3, <1>4, <1>5, <1>6, <1>7

LEMMA NotifierLosesNothing ==
  ASSUME GraphInv, Covered!IInv, SteadyInv, NotifiedBacked, NothingLost, NotifyStep, Notify!NotificationRun
  PROVE  NothingLost'
<1> USE DEF NothingLost, SteadyInv, NotifyStep
<1>1. UNCHANGED <<status, completedAt, steps, results, reported, pc, msg>>
  BY DEF coordinatorOwn
<1>2. WorkersSpoke' /\ CacheAnswers'
  BY <1>1, SpeechKept DEF workersShared, stepWorkerOwn, cacheOwn
<1>3. FinalsArrive' /\ Concluded'
  BY <1>1, Tables, ArrivalsKept, ConclusionsKept
<1>4. lifecycle \in Seq(Covered!Lifecycle)
  BY Tables
<1>5. CASE Notify!StoreNotification
  <2> DEFINE m == Head(lifecycle)
  <2>1. /\ lifecycle # <<>> /\ UNCHANGED lifecycle
        /\ notified' = [notified EXCEPT ![m.req] =
                          IF m.status = "FAILED" THEN "DELETION_FAILED" ELSE "DELETION_COMPLETE"]
    BY <1>5 DEF Notify!StoreNotification
  <2>2. m = lifecycle[1] /\ 1 \in 1 .. Len(lifecycle)
    BY <1>4, <2>1
  <2>3. m.req \in Requests /\ status[m.req] = m.status
    BY <2>2, Announcements DEF DecidedOnce, AnnouncedAsDecided
  <2>4. \A q \in Requests : ToldAsDecided(q)' <=> ToldAsDecided(q) \/ q = m.req
    <3>1. notified \in [Requests -> {NoRow, "DELETION_COMPLETE", "DELETION_FAILED"}]
      BY DEF NotifiedBacked
    <3> QED
      BY <1>1, <2>1, <2>3, <3>1 DEF ToldAsDecided
  <2> HIDE DEF m
  <2>5. ToldAsDecided(lifecycle[1].req)'
    BY <2>1, <2>2, <2>3, <2>4
  <2>6. SubjectFollows'
    BY <1>1, <2>1, <2>4, <2>5 DEF SubjectFollows
  <2> QED
    BY <1>2, <1>3, <2>6
<1>6. CASE Notify!AckLifecycle
  <2>1. npc = "stored" /\ npc' = "idle" /\ lifecycle # <<>> /\ lifecycle' = Tail(lifecycle) /\ UNCHANGED notified
    BY <1>6 DEF Notify!AckLifecycle, GraphInv, MessageHeld
  <2>2. /\ \A i \in 1 .. Len(lifecycle) : i = 1 \/ i - 1 \in 1 .. Len(lifecycle')
        /\ \A i \in 1 .. Len(lifecycle) : i # 1 => lifecycle'[i - 1] = lifecycle[i]
    BY <1>4, <2>1
  <2>3. ASSUME NEW q \in Requests, completedAt[q], ~ToldAsDecided(q)
        PROVE  \/ \E i \in 1 .. Len(lifecycle') : lifecycle'[i].req = q
               \/ \E r \in Replicas : pc[r] = "publish" /\ msg[r].req = q
    BY <2>1, <2>2, <2>3 DEF SubjectFollows
  <2>4. SubjectFollows'
    BY <1>1, <2>1, <2>3 DEF SubjectFollows, ToldAsDecided
  <2> QED
    BY <1>2, <1>3, <2>4
<1> QED
  BY <1>5, <1>6 DEF Notify!NotificationRun

LEMMA StepLosesNothing ==
  ASSUME Steady, GraphInv, Covered!IInv, SteadyInv, NotifiedBacked, NothingLost, [Next]_vars
  PROVE  NothingLost'
<1>1. CASE UNCHANGED vars
  <2>1. UNCHANGED <<status, completedAt, steps, results, reported, lifecycle, pc, msg, acked, wpc, wreq,
                    claimed, retries, cpc, creq, notified, npc>>
    BY <1>1 DEF vars, coordinatorOwn, workersShared, stepWorkerOwn, cacheOwn, notifierOwn
  <2>2. WorkersSpoke' /\ CacheAnswers' /\ FinalsArrive' /\ Concluded'
    BY <2>1, SpeechKept, ArrivalsKept, ConclusionsKept, Tables DEF NothingLost
  <2>3. SubjectFollows'
    BY <2>1, FollowsKept DEF NothingLost, SteadyInv, DecidedOnce, GraphInv
  <2> QED
    BY <2>2, <2>3 DEF NothingLost
<1> QED
  BY <1>1, SteadySteps, CreateLosesNothing, HandlerLosesNothing, WorkerLosesNothing, CacheLosesNothing,
     NotifierLosesNothing DEF SteadyInv

LEMMA InitLosesNothing == Init => NothingLost
<1> SUFFICES ASSUME Init
             PROVE  NothingLost
  OBVIOUS
<1> USE DEF Init, Coord!Init, Work!WorkerInit, Clean!CacheInit, Notify!NotificationInit
<1>1. \A q, s : ~FinalTold(q, s)
  BY DEF FinalTold, Covered!Told
<1>2. \A q \in Requests : ~Covered!AllCompleted(steps[q])
  BY DEF Covered!AllCompleted, Covered!Terminal, Coord!NoSteps, Coord!NoRow, Coord!Steps, Covered!Steps
<1>3. WorkersSpoke /\ FinalsArrive
  BY <1>1 DEF WorkersSpoke, FinalsArrive, Workers
<1>4. CacheAnswers
  BY EraseGraphAssumption DEF CacheAnswers, Words!NotForgotten, Words!Busy, Steps
<1>5. Concluded /\ SubjectFollows
  BY <1>2 DEF Concluded, SubjectFollows, Coord!NoRow
<1> QED
  BY <1>3, <1>4, <1>5 DEF NothingLost

\* When nothing is on its way in the steady system, every announced request has
\* the status its rows justify, is dated unless the intermediate status is also
\* its final one, and its subject was told: no result, retry or lifecycle
\* message was lost or overtaken, for any number of requests at once.
THEOREM QuietMeansAgreed ==
  ASSUME Steady
  PROVE  Spec => []QuietAgreement
<1>1. ASSUME GraphInv, Covered!IInv, SteadyInv, NothingLost
      PROVE  QuietAgreement
  <2> SUFFICES ASSUME Quiet, NEW q \in Requests, creation[q] = "published"
               PROVE  /\ status[q] = Coord!Outcome(steps[q])
                      /\ completedAt[q] \/ status[q] = "PARTIAL_COMPLETED"
                      /\ completedAt[q] =>
                           notified[q] = IF status[q] = "FAILED" THEN "DELETION_FAILED" ELSE "DELETION_COMPLETE"
    BY DEF QuietAgreement
  <2> USE <1>1 DEF NothingLost
  <2>1. /\ \A s \in Steps : q \in acked[s]
        /\ results = <<>> /\ lifecycle = <<>> /\ cpc = "idle"
        /\ \A r \in Replicas : pc[r] = "idle"
        /\ ~Clean!InRetry(q)
    BY DEF Quiet
  <2>2. FinalTold(q, Cache)
    <3>1. Words!HasFinalWord(q)
      BY <2>1, EraseGraphAssumption
      DEF CacheAnswers, Words!NotForgotten, Words!Busy, Words!InRetry, Clean!InRetry, Steps
    <3> QED
      BY <3>1 DEF Words!HasFinalWord, Words!Said, Words!EventTypes, Words!WritesStep, Words!Terminal,
                  Words!StatusOf, FinalTold, Final, Covered!Told
  <2>3. \A s \in Steps : FinalTold(q, s)
    BY <2>1, <2>2 DEF WorkersSpoke, Workers
  <2>4. \A s \in Steps : Covered!Terminal(steps[q][s])
    BY <2>1, <2>3 DEF FinalsArrive
  <2>5. Covered!AllCompleted(steps[q])
    BY <2>4 DEF Covered!AllCompleted, Covered!Steps, Steps
  <2>6. Agreed(q)
    BY <2>1, <2>5 DEF Concluded, LookedAt
  <2>7. completedAt[q] => ToldAsDecided(q)
    BY <2>1 DEF SubjectFollows
  <2>8. Covered!Outcome(steps[q]) = Coord!Outcome(steps[q])
    BY DEF Covered!Outcome, Coord!Outcome, Covered!Steps, Coord!Steps
  <2> QED
    BY <2>6, <2>7, <2>8 DEF Agreed, ToldAsDecided
<1>2. GraphInv /\ Covered!IInv /\ SteadyInv /\ [Next]_vars => SteadyInv'
  BY SteadyKept
<1>3. GraphInv /\ Covered!IInv /\ SteadyInv /\ NotifiedBacked /\ NothingLost /\ [Next]_vars => NothingLost'
  BY StepLosesNothing
<1> QED
  BY InitGraph, GraphStep, SystemTruth, SystemIsBacked, InitNotified, NotifiedStep, InitSteady, InitLosesNothing,
     <1>1, <1>2, <1>3, PTL DEF Spec

\* What the documentation promises of a request whose steps all succeeded holds
\* of the steady system, for any number of requests: it is completed, dated and
\* its subject told.  The second replica of the deployment is what breaks it
\* (two results decided on at once, each on rows read before the other's).
THEOREM OneReplicaCompletes ==
  ASSUME Steady
  PROVE  Spec => []AllSucceededCompletes
<1>1. ASSUME NothingLost
      PROVE  AllSucceededCompletes
  <2> SUFFICES ASSUME Quiet, NEW q \in Requests, \A s \in Steps : steps[q][s] = "SUCCEEDED"
               PROVE  status[q] = "COMPLETED" /\ completedAt[q] /\ notified[q] = "DELETION_COMPLETE"
    BY DEF AllSucceededCompletes
  <2> USE <1>1 DEF NothingLost
  <2>1. Covered!AllCompleted(steps[q]) /\ Covered!Outcome(steps[q]) = "COMPLETED"
    BY DEF Covered!AllCompleted, Covered!Terminal, Covered!Outcome, Covered!Steps, Steps
  <2>2. /\ lifecycle = <<>>
        /\ \A r \in Replicas : pc[r] = "idle"
    BY DEF Quiet
  <2>3. status[q] = "COMPLETED" /\ completedAt[q]
    BY <2>1, <2>2 DEF Concluded, Agreed, LookedAt
  <2>4. ToldAsDecided(q)
    BY <2>2, <2>3 DEF SubjectFollows
  <2> QED
    BY <2>3, <2>4 DEF ToldAsDecided
<1>2. GraphInv /\ Covered!IInv /\ SteadyInv /\ [Next]_vars => SteadyInv'
  BY SteadyKept
<1>3. GraphInv /\ Covered!IInv /\ SteadyInv /\ NotifiedBacked /\ NothingLost /\ [Next]_vars => NothingLost'
  BY StepLosesNothing
<1> QED
  BY InitGraph, GraphStep, SystemTruth, SystemIsBacked, InitNotified, NotifiedStep, InitSteady, InitLosesNothing,
     <1>1, <1>2, <1>3, PTL DEF Spec

-----------------------------------------------------------------------------
(***************************************************************************)
(* Every request is dated.  Here any number of replicas reorder results,   *)
(* scanners flag what the others decide, and a refused insert kills the    *)
(* handler beside it; only the services themselves do not fail, and the    *)
(* breaker is closed.  Then nobody says anything but success, so a row     *)
(* that succeeded stays so, and whoever reads the rows of a request after  *)
(* the last of them was written finds all of them settled.                 *)
(***************************************************************************)
Healthy == Faults = {} /\ Breaker = "closed"

Success(q, s) == [req |-> q, step |-> s, type |-> "DeletionStepSucceeded"]

Done(q, s) == Success(q, s) \in reported

OnlySuccesses ==
  \A m \in reported : m.type \in {"DeletionStepSucceeded", "DUPLICATE_EVENT_IGNORED"}

AtWork == {"work", "close", "zero", "unset", "succeeded"}

StoresDo ==
  /\ \A s \in Steps : \A q \in acked[s] : Done(q, s)
  /\ \A s \in Workers : wpc[s] # "failed" /\ (wpc[s] = "published" => Done(wreq[s], s))
  /\ circuit = "CLOSED"
  /\ cpc \in {"idle", "check", "claim", "ack"} \cup AtWork
  /\ cpc = "ack" => Done(creq, Cache)
  /\ \A q \in Requests : ~Words!InRetry(q)
  /\ \A q \in claimed : Done(q, Cache) \/ (creq = q /\ cpc \in AtWork)

SuccessesArrive ==
  \A q \in Requests, s \in Steps : Done(q, s) =>
    \/ steps[q][s] = "SUCCEEDED"
    \/ \E i \in 1 .. Len(results) : results[i] = Success(q, s)
    \/ \E r \in Replicas : pc[r] = "update" /\ msg[r] = Success(q, s)

\* A handler is still to read all of the rows of q, or has read and will write.
Pending(q) ==
  \/ \E i \in 1 .. Len(results) : results[i].req = q /\ Covered!WritesStep(results[i].type)
  \/ \E r \in Replicas : msg[r].req = q /\ pc[r] \in {"update", "request", "steps", "outcome"}

Dated ==
  /\ \A q \in Requests : Covered!AllCompleted(steps[q]) => completedAt[q] \/ Pending(q)
  /\ \A q \in Requests : status[q] = "COMPLETED" => completedAt[q]
  /\ \A r \in Replicas : pc[r] = "steps" /\ before[r] = "COMPLETED" => completedAt[msg[r].req]

HealthyInv == WorkersOnce /\ CacheOnce /\ OnlySuccesses /\ StoresDo /\ SuccessesArrive /\ Dated

\* Rows that are settled while everybody succeeds have succeeded.
LEMMA AllSucceed ==
  ASSUME OnlySuccesses, NEW q, NEW rows, Covered!Reported(q, rows), Covered!AllCompleted(rows)
  PROVE  Covered!Outcome(rows) = "COMPLETED"
<1>1. ASSUME NEW s \in Steps, rows[s] \in {"FAILED", "SKIPPED_CIRCUIT_OPEN"}
      PROVE  FALSE
  <2>1. Covered!ResultOf(rows[s]) \in {"DeletionStepFailed", "CIRCUIT_OPEN_SKIP"} /\ Covered!Terminal(rows[s])
    BY <1>1 DEF Covered!ResultOf, Covered!Terminal
  <2>2. [req |-> q, step |-> s, type |-> Covered!ResultOf(rows[s])] \in reported
    BY <2>1 DEF Covered!Reported, Covered!Told, Covered!Steps, Steps
  <2> QED
    BY <2>1, <2>2 DEF OnlySuccesses
<1> QED
  BY <1>1 DEF Covered!Outcome, Covered!Steps, Steps

\* Who is not a handler only publishes, flags, and writes rows of a request
\* whose step has not succeeded yet.
LEMMA DatesKept ==
  ASSUME Covered!IInv, SuccessesArrive, Dated, UNCHANGED <<completedAt, pc, msg, before>>,
         \A q \in Requests : status'[q] = "COMPLETED" => status[q] = "COMPLETED",
         UNCHANGED <<results, reported>> \/ \E m : Says(m),
         \A q \in Requests, s \in Steps :
           steps'[q][s] = steps[q][s] \/ (~Covered!Terminal(steps'[q][s]) /\ ~Done(q, s)')
  PROVE  SuccessesArrive' /\ Dated'
<1>1. /\ \A i \in 1 .. Len(results) : i \in 1 .. Len(results') /\ results'[i] = results[i]
      /\ \A m \in reported' \ reported : \E i \in 1 .. Len(results') : results'[i] = m
  <2>1. CASE UNCHANGED <<results, reported>>
    BY <2>1
  <2>2. ASSUME NEW m, Says(m)
        PROVE  /\ \A i \in 1 .. Len(results) : i \in 1 .. Len(results') /\ results'[i] = results[i]
               /\ \A o \in reported' \ reported : \E i \in 1 .. Len(results') : results'[i] = o
    <3>1. /\ results \in Seq(Covered!Message) /\ m \in Covered!Message
          /\ results' = Append(results, m) /\ reported' = reported \cup {m}
      BY <2>2, CopiesAreReported DEF Says
    <3>2. /\ Len(results') \in 1 .. Len(results') /\ results'[Len(results')] = m
          /\ \A i \in 1 .. Len(results) : i \in 1 .. Len(results') /\ results'[i] = results[i]
      BY <3>1
    <3> QED
      BY <3>1, <3>2
  <2> QED
    BY <2>1, <2>2
<1>2. \A q : Pending(q) => Pending(q)'
  BY <1>1 DEF Pending
<1>3. ASSUME NEW q \in Requests, NEW s \in Steps, Done(q, s)'
      PROVE  \/ steps'[q][s] = "SUCCEEDED"
             \/ \E i \in 1 .. Len(results') : results'[i] = Success(q, s)
             \/ \E r \in Replicas : pc[r] = "update" /\ msg[r] = Success(q, s)
  <2>1. CASE Done(q, s)
    <3>1. steps'[q][s] = steps[q][s]
      BY <1>3
    <3> QED
      BY <1>1, <2>1, <3>1 DEF SuccessesArrive
  <2>2. CASE ~Done(q, s)
    BY <1>1, <1>3, <2>2 DEF Done
  <2> QED
    BY <2>1, <2>2
<1>4. SuccessesArrive'
  BY <1>3 DEF SuccessesArrive, Success
<1>5. ASSUME NEW q \in Requests, Covered!AllCompleted(steps'[q])
      PROVE  Covered!AllCompleted(steps[q])
  BY <1>5 DEF Covered!AllCompleted, Covered!Steps, Steps
<1> QED
  BY <1>2, <1>4, <1>5 DEF Dated

\* A replica dies: the message it held is in front of the queue.
LEMMA DatesSurvive ==
  ASSUME Covered!IInv, SuccessesArrive, Dated, NEW r \in Replicas, Coord!CrashConsumer(r)
  PROVE  SuccessesArrive' /\ Dated'
<1>1. /\ UNCHANGED <<status, completedAt, steps, reported>> /\ pc[r] # "idle"
      /\ results' = <<msg[r]>> \o results
      /\ pc'[r] = "idle"
      /\ \A p \in Replicas : p # r => pc'[p] = pc[p] /\ msg'[p] = msg[p] /\ before'[p] = before[p]
  BY Tables DEF Coord!CrashConsumer, Coord!Goto, Coord!ForgetReads, Coord!created
<1>2. results \in Seq(Covered!Message) /\ msg[r] \in Covered!Message
  BY <1>1, CopiesAreReported
<1>3. /\ 1 \in 1 .. Len(results') /\ results'[1] = msg[r]
      /\ \A i \in 1 .. Len(results) : i + 1 \in 1 .. Len(results') /\ results'[i + 1] = results[i]
  BY <1>1, <1>2
<1>4. pc[r] \in {"update", "request", "steps", "outcome"} => Covered!WritesStep(msg[r].type)
  BY DEF Covered!IInv, Covered!Safe, Covered!HeldReported
<1>5. ASSUME NEW q, Pending(q)
      PROVE  Pending(q)'
  <2>1. ASSUME NEW i \in 1 .. Len(results), results[i].req = q, Covered!WritesStep(results[i].type)
        PROVE  Pending(q)'
    BY <1>3, <2>1 DEF Pending
  <2>2. ASSUME NEW p \in Replicas, msg[p].req = q, pc[p] \in {"update", "request", "steps", "outcome"}
        PROVE  Pending(q)'
    <3>1. CASE p = r
      <4>1. results'[1].req = q /\ Covered!WritesStep(results'[1].type)
        BY <1>3, <1>4, <2>2, <3>1
      <4> QED
        BY <1>3, <4>1 DEF Pending
    <3>2. CASE p # r
      BY <1>1, <2>2, <3>2 DEF Pending
    <3> QED
      BY <3>1, <3>2
  <2> QED
    BY <1>5, <2>1, <2>2 DEF Pending
<1>6. ASSUME NEW q \in Requests, NEW s \in Steps, Done(q, s)'
      PROVE  \/ steps'[q][s] = "SUCCEEDED"
             \/ \E i \in 1 .. Len(results') : results'[i] = Success(q, s)
             \/ \E p \in Replicas : pc'[p] = "update" /\ msg'[p] = Success(q, s)
  <2>1. Done(q, s)
    BY <1>1, <1>6 DEF Done, Success
  <2>2. CASE steps[q][s] = "SUCCEEDED"
    BY <1>1, <2>2
  <2>3. ASSUME NEW i \in 1 .. Len(results), results[i] = Success(q, s)
        PROVE  \E j \in 1 .. Len(results') : results'[j] = Success(q, s)
    BY <1>3, <2>3
  <2>4. ASSUME NEW p \in Replicas, pc[p] = "update", msg[p] = Success(q, s)
        PROVE  \/ \E j \in 1 .. Len(results') : results'[j] = Success(q, s)
               \/ pc'[p] = "update" /\ msg'[p] = Success(q, s)
    BY <1>1, <1>3, <2>4
  <2> QED
    BY <2>1, <2>2, <2>3, <2>4 DEF SuccessesArrive
<1>7. SuccessesArrive'
  BY <1>6 DEF SuccessesArrive, Success
<1> QED
  BY <1>1, <1>5, <1>7 DEF Dated

\* A handler that writes a row reads all of them afterwards.
LEMMA HandlerDates ==
  ASSUME Covered!IInv, OnlySuccesses, SuccessesArrive, Dated, NEW r \in Replicas, Covered!Handler(r)
  PROVE  SuccessesArrive' /\ Dated'
<1> DEFINE q == msg[r].req
<1> USE DEF Covered!Goto, Covered!ForgetReads, Covered!created
<1>t. /\ status \in [Requests -> RequestStatus \cup {NoRow}]
      /\ completedAt \in [Requests -> BOOLEAN]
      /\ steps \in [Requests -> [Steps -> StepStatus \cup {NoRow}]]
      /\ pc \in [Replicas -> Covered!Positions]
      /\ msg \in [Replicas -> Covered!Message \cup {NoMessage}]
      /\ before \in [Replicas -> RequestStatus \cup {NoRow}]
      /\ results \in Seq(Covered!Message)
      /\ pc[r] # "idle" => q \in Requests /\ msg[r].step \in Steps
  BY Tables, CopiesAreReported
<1>h. pc[r] = "update" =>
        msg[r] \in Covered!Message /\ msg[r].type = "DeletionStepSucceeded"
  <2>1. pc[r] = "update" => msg[r] \in reported /\ Covered!WritesStep(msg[r].type)
    BY DEF Covered!IInv, Covered!Safe, Covered!HeldReported
  <2> QED
    BY <2>1, CopiesAreReported DEF OnlySuccesses, Covered!WritesStep
<1>o. /\ UNCHANGED reported
      /\ \A p \in Replicas : p # r => pc'[p] = pc[p] /\ msg'[p] = msg[p] /\ before'[p] = before[p]
  BY <1>t DEF Covered!Handler, Covered!Deliver, Covered!UpdateStep, Covered!ReadRequest, Covered!ReadSteps,
     Covered!WritePartial, Covered!WriteOutcome, Covered!PublishLifecycle, Covered!RecordProof, Covered!Ack
<1>d. \A p, s : Done(p, s)' <=> Done(p, s)
  BY <1>o DEF Done, Success
<1>a. ASSUME UNCHANGED <<results, steps>>, pc[r] # "update"
      PROVE  SuccessesArrive'
  <2>1. ASSUME NEW p \in Requests, NEW s \in Steps, Done(p, s)
        PROVE  \/ steps[p][s] = "SUCCEEDED"
               \/ \E i \in 1 .. Len(results) : results[i] = Success(p, s)
               \/ \E v \in Replicas : pc'[v] = "update" /\ msg'[v] = Success(p, s)
    BY <1>o, <1>a, <2>1 DEF SuccessesArrive
  <2> QED
    BY <1>d, <1>a, <2>1 DEF SuccessesArrive, Success
<1>p. UNCHANGED results => \A p : p # q /\ Pending(p) => Pending(p)'
  BY <1>o DEF Pending
<1>1. CASE Covered!Deliver(r)
  <2>1. /\ pc[r] = "idle" /\ results # <<>> /\ results' = Tail(results) /\ msg'[r] = Head(results)
        /\ pc'[r] = IF Covered!WritesStep(Head(results).type) THEN "update" ELSE "proof"
        /\ UNCHANGED <<status, completedAt, steps>>
    BY <1>1, <1>t DEF Covered!Deliver
  <2>2. /\ Head(results) = results[1]
        /\ \A i \in 1 .. Len(results) : i = 1 \/ (i - 1 \in 1 .. Len(results') /\ results'[i - 1] = results[i])
    BY <1>t, <2>1
  <2>3. \A p : Pending(p) => Pending(p)'
    BY <1>o, <2>1, <2>2 DEF Pending
  <2>4. ASSUME NEW p \in Requests, NEW s \in Steps, Done(p, s)
        PROVE  \/ steps[p][s] = "SUCCEEDED"
               \/ \E i \in 1 .. Len(results') : results'[i] = Success(p, s)
               \/ \E v \in Replicas : pc'[v] = "update" /\ msg'[v] = Success(p, s)
    <3>1. CASE \E i \in 1 .. Len(results) : i # 1 /\ results[i] = Success(p, s)
      BY <2>2, <3>1
    <3>2. CASE results[1] = Success(p, s)
      <4>1. pc'[r] = "update" /\ msg'[r] = Success(p, s)
        BY <2>1, <2>2, <3>2 DEF Success, Covered!WritesStep
      <4> QED
        BY <4>1
    <3>3. CASE \E v \in Replicas : pc[v] = "update" /\ msg[v] = Success(p, s)
      BY <1>o, <2>1, <3>3
    <3> QED
      BY <2>4, <3>1, <3>2, <3>3 DEF SuccessesArrive
  <2>5. SuccessesArrive'
    BY <1>d, <2>1, <2>4 DEF SuccessesArrive, Success
  <2> QED
    BY <1>o, <2>1, <2>3, <2>5 DEF Dated
<1>2. CASE Covered!UpdateStep(r)
  <2>1. /\ pc[r] = "update" /\ pc'[r] = "request" /\ UNCHANGED <<status, completedAt, results, msg>>
        /\ steps' = [steps EXCEPT ![q][msg[r].step] = Covered!StatusOf(msg[r].type)]
    BY <1>2, <1>t DEF Covered!UpdateStep
  <2>2. /\ steps'[q][msg[r].step] = "SUCCEEDED"
        /\ \A p \in Requests, s \in Steps : ~(p = q /\ s = msg[r].step) => steps'[p][s] = steps[p][s]
        /\ \A p \in Requests : p # q => steps'[p] = steps[p]
    BY <1>t, <1>h, <2>1 DEF Covered!StatusOf
  <2>3. ASSUME NEW p \in Requests, NEW s \in Steps, Done(p, s)
        PROVE  \/ steps'[p][s] = "SUCCEEDED"
               \/ \E i \in 1 .. Len(results) : results[i] = Success(p, s)
               \/ \E v \in Replicas : pc'[v] = "update" /\ msg[v] = Success(p, s)
    <3>1. CASE p = q /\ s = msg[r].step
      BY <2>2, <3>1
    <3>2. CASE ~(p = q /\ s = msg[r].step)
      <4>1. msg[r] # Success(p, s)
        BY <3>2 DEF Success
      <4> QED
        BY <1>o, <2>2, <2>3, <3>2, <4>1 DEF SuccessesArrive
    <3> QED
      BY <3>1, <3>2
  <2>4. SuccessesArrive'
    BY <1>d, <2>1, <2>3 DEF SuccessesArrive, Success
  <2>5. Pending(q)'
    BY <2>1 DEF Pending
  <2> QED
    BY <1>o, <1>p, <2>1, <2>2, <2>4, <2>5 DEF Dated
<1>3. CASE Covered!ReadRequest(r)
  <2>1. /\ pc[r] = "request" /\ pc'[r] = "steps" /\ before'[r] = status[q]
        /\ UNCHANGED <<status, completedAt, steps, results, msg>>
    BY <1>3, <1>t DEF Covered!ReadRequest
  <2>2. Pending(q)'
    BY <2>1 DEF Pending
  <2> QED
    BY <1>t, <1>o, <1>a, <1>p, <2>1, <2>2 DEF Dated
<1>4. CASE Covered!ReadSteps(r)
  <2> DEFINE next == Covered!Decision(before[r], steps[q])
  <2>1. /\ pc[r] = "steps" /\ pc'[r] = next /\ UNCHANGED <<status, completedAt, steps, results, msg>>
    BY <1>4, <1>t DEF Covered!ReadSteps
  <2>2. next \in {"partial", "outcome", "proof"}
    BY DEF Covered!Decision
  <2>3. Covered!AllCompleted(steps[q]) => before[r] = "COMPLETED" \/ next = "outcome"
    <3>1. Covered!Reported(q, steps[q])
      BY <1>t, <2>1 DEF Covered!IInv, Covered!RowsReported
    <3> QED
      BY <3>1, AllSucceed DEF Covered!Decision
  <2> HIDE DEF next
  <2>4. Covered!AllCompleted(steps[q]) => completedAt[q] \/ Pending(q)'
    BY <2>1, <2>3 DEF Dated, Pending
  <2> QED
    BY <1>o, <1>a, <1>p, <2>1, <2>2, <2>4 DEF Dated
<1>5. CASE Covered!WritePartial(r)
  <2>1. /\ pc[r] = "partial" /\ pc'[r] = "proof" /\ UNCHANGED <<completedAt, steps, results, msg>>
        /\ status' = [status EXCEPT ![q] = "PARTIAL_COMPLETED"]
    BY <1>5, <1>t DEF Covered!WritePartial
  <2>2. \A p : Pending(p) => Pending(p)'
    BY <1>o, <2>1 DEF Pending
  <2>3. \A p \in Requests : status'[p] = "COMPLETED" => completedAt[p]
    BY <1>t, <2>1 DEF Dated
  <2> QED
    BY <1>o, <1>a, <2>1, <2>2, <2>3 DEF Dated
<1>6. CASE Covered!WriteOutcome(r)
  <2>1. /\ pc[r] = "outcome" /\ pc'[r] = "publish" /\ UNCHANGED <<steps, results, msg>>
        /\ status' = [status EXCEPT ![q] = Covered!Outcome(snap[r])]
        /\ completedAt' = [completedAt EXCEPT ![q] = TRUE]
    BY <1>6, <1>t DEF Covered!WriteOutcome
  <2>2. /\ completedAt'[q]
        /\ \A p \in Requests : p # q => completedAt'[p] = completedAt[p] /\ status'[p] = status[p]
    BY <1>t, <2>1
  <2>3. \A p \in Replicas : pc[p] = "steps" => msg[p].req \in Requests
    BY Tables
  <2> QED
    BY <1>t, <1>o, <1>a, <1>p, <2>1, <2>2, <2>3 DEF Dated
<1>7. CASE Covered!PublishLifecycle(r) \/ Covered!RecordProof(r) \/ Covered!Ack(r)
  <2>1. /\ pc[r] \in {"publish", "proof", "ack"} /\ pc'[r] \in {"proof", "ack", "idle"}
        /\ UNCHANGED <<status, completedAt, steps, results>>
    BY <1>7, <1>t DEF Covered!PublishLifecycle, Covered!RecordProof, Covered!Ack
  <2>2. \A p : Pending(p) => Pending(p)'
    BY <1>o, <2>1 DEF Pending
  <2> QED
    BY <1>o, <1>a, <2>1, <2>2 DEF Dated
<1> QED
  BY <1>1, <1>2, <1>3, <1>4, <1>5, <1>6, <1>7 DEF Covered!Handler

\* The steps of who is not a worker leave the workers' words alone.
WorkersStand == UNCHANGED <<acked, wpc, wreq, claimed, retries, dlq, cpc, creq, retry, circuit, reported>>

\* Scanners may flag a request, and whoever else is left touches none of it.
Aside ==
  /\ WorkersStand
  /\ UNCHANGED <<completedAt, steps, results, pc, msg, before>>
  /\ \A q \in Requests : status'[q] = "COMPLETED" => status[q] = "COMPLETED"

LEMMA HealthySteps ==
  ASSUME Healthy, Covered!IInv, [Next]_vars
  PROVE  \/ \E q \in Requests : Covered!Create(q) /\ WorkersStand
         \/ \E r \in Replicas : (Covered!Handler(r) \/ Coord!CrashConsumer(r)) /\ WorkersStand
         \/ Aside
         \/ \E s \in Workers : WorkerStep(s) /\ Work!WorkerRun(s)
         \/ CacheStep /\ (Clean!CacheRun \/ Clean!WindowExpires)
<1>o. OutsideBackend /\ UNCHANGED reported => WorkersStand
  BY DEF OutsideBackend, WorkersStand, workersShared, stepWorkerOwn, cacheOwn
<1>1. ASSUME NEW q \in Requests, CreateStep(q)
      PROVE  Covered!Create(q) /\ WorkersStand
  <2>1. UNCHANGED reported
    BY <1>1 DEF CreateStep, Coord!Create, Coord!SaveRequest, Coord!SaveSteps, Coord!PublishRequested,
                Coord!AbandonCreate
  <2> QED
    BY <1>1, <1>o, <2>1, SameCreate DEF CreateStep
<1>2. ASSUME NEW r \in Replicas, HandlerStep(r)
      PROVE  Covered!Handler(r) /\ WorkersStand
  <2>1. ~Coord!HandlerThrows(r)
    BY DEF Coord!HandlerThrows, BackendFaults, Healthy
  <2>2. Coord!Handler(r) /\ OutsideBackend
    BY <1>2, <2>1 DEF HandlerStep
  <2>3. UNCHANGED reported
    BY <2>2 DEF Coord!Handler, Coord!Deliver, Coord!UpdateStep, Coord!ReadRequest, Coord!ReadSteps,
       Coord!WritePartial, Coord!WriteOutcome, Coord!PublishLifecycle, Coord!RecordProof, Coord!Ack
  <2> QED
    BY <1>o, <2>2, <2>3, SameHandler
<1>3. ASSUME NEW q \in Requests, GrowLate(q)
      PROVE  Aside
  BY <1>3, <1>o DEF GrowLate, Sla!GrowsLate, Aside, coordinatorOwn
<1>4. ASSUME NEW r \in Replicas, ScanStep(r)
      PROVE  Aside
  <2>1. OutsideBackend /\ UNCHANGED <<completedAt, steps, results, reported, pc, msg, before>>
    BY <1>4 DEF ScanStep, coordinatorOwn
  <2>2. status' = status \/ \E q : status' = [status EXCEPT ![q] = "SLA_VIOLATED"]
    BY <1>4 DEF ScanStep, Sla!ScanRun, Sla!Scan, Sla!Flip, Sla!LookUpProof, Sla!SaveProof, Sla!Restart, Sla!StopScan
  <2>3. status \in [Requests -> RequestStatus \cup {NoRow}]
    BY Tables
  <2>4. \A q \in Requests : status'[q] = "COMPLETED" => status[q] = "COMPLETED"
    BY <2>2, <2>3
  <2> QED
    BY <1>o, <2>1, <2>4 DEF Aside
<1>5. ASSUME NEW r \in Replicas, CrashReplica(r)
      PROVE  Aside \/ (Coord!CrashConsumer(r) /\ WorkersStand)
  <2>1. OutsideBackend
    BY <1>5 DEF CrashReplica
  <2>2. CASE pc[r] = "idle"
    BY <1>5, <1>o, <2>1, <2>2 DEF CrashReplica, Sla!StopScan, Aside, coordinatorOwn
  <2>3. CASE pc[r] # "idle"
    <3>1. Coord!CrashConsumer(r)
      BY <1>5, <2>3 DEF CrashReplica
    <3> QED
      BY <1>o, <2>1, <3>1 DEF Coord!CrashConsumer
  <2> QED
    BY <2>2, <2>3
<1>6. ASSUME NEW s \in Workers, WorkerStep(s)
      PROVE  Work!WorkerRun(s)
  BY <1>6 DEF WorkerStep, Work!WorkerStep, Work!EraseFails, Work!WorkerThrows, Work!CrashWorker, Healthy
<1>7. ASSUME CacheStep
      PROVE  Clean!CacheRun \/ Clean!WindowExpires
  BY <1>7 DEF CacheStep, Clean!CacheStep, Clean!CleanupFails, Clean!CacheThrows, Clean!CrashCache, Healthy
<1>8. ASSUME NotifyStep
      PROVE  Aside
  BY <1>8 DEF NotifyStep, Aside, WorkersStand, coordinatorOwn, workersShared, stepWorkerOwn, cacheOwn
<1>9. CASE UNCHANGED vars
  BY <1>9 DEF vars, Aside, WorkersStand, coordinatorOwn, workersShared, stepWorkerOwn, cacheOwn
<1> QED
  BY <1>1, <1>2, <1>3, <1>4, <1>5, <1>6, <1>7, <1>8, <1>9 DEF Next

LEMMA WordsStand ==
  ASSUME WorkersOnce, CacheOnce, OnlySuccesses, StoresDo, WorkersStand
  PROVE  WorkersOnce' /\ CacheOnce' /\ OnlySuccesses' /\ StoresDo'
<1> USE DEF WorkersStand
<1>1. \A q, type : Words!Said(q, type)' <=> Words!Said(q, type)
  BY DEF Words!Said
<1>2. CacheOnce'
  BY <1>1, CacheWordsKept
<1>3. WorkersOnce'
  BY DEF WorkersOnce, Spoken, Covered!Told
<1>4. OnlySuccesses'
  BY DEF OnlySuccesses
<1>5. /\ \A q, s : Done(q, s)' <=> Done(q, s)
      /\ \A q : Words!InRetry(q)' <=> Words!InRetry(q)
  BY DEF Done, Success, Words!InRetry
<1>6. StoresDo'
  BY <1>5 DEF StoresDo
<1> QED
  BY <1>2, <1>3, <1>4, <1>6

\* A worker that does not fail has done what it acknowledges.
LEMMA WorkersDo ==
  ASSUME GraphInv, WorkersOnce, OnlySuccesses, StoresDo, NEW s \in Workers, WorkerStep(s), Work!WorkerRun(s)
  PROVE  OnlySuccesses' /\ StoresDo'
<1> USE DEF Work!Move
<1>1. UNCHANGED <<claimed, retries, cpc, creq, circuit>>
  BY DEF WorkerStep, cacheOwn
<1>2. /\ wpc \in [Workers -> Work!WorkerPositions] /\ wreq \in [Workers -> Requests \cup {NoRequest}]
      /\ acked \in [Steps -> SUBSET Requests]
      /\ Workers \subseteq Steps
  BY DEF GraphInv, WorkInv, WorkersOnce, Workers
<1>3. \A q : Words!InRetry(q)' <=> Words!InRetry(q)
  BY <1>1 DEF Words!InRetry
<1>4. /\ reported \subseteq reported' /\ OnlySuccesses'
      /\ Work!PublishResult(s) => Done(wreq[s], s)'
  <2>1. CASE Work!PublishResult(s)
    <3>1. wpc[s] = "erased"
      BY <2>1 DEF Work!PublishResult, StoresDo
    <3>2. reported' = reported \cup {Success(wreq[s], s)}
      BY <2>1, <3>1 DEF Work!PublishResult, Success
    <3>3. Done(wreq[s], s)'
      <4>1. Success(wreq[s], s) \in reported' /\ UNCHANGED wreq
        BY <2>1, <3>2 DEF Work!PublishResult
      <4> QED
        BY <4>1 DEF Done, Success
    <3> QED
      BY <3>2, <3>3 DEF OnlySuccesses, Success
  <2>2. CASE ~Work!PublishResult(s)
    BY <2>2 DEF Work!WorkerRun, Work!Take, Work!MarkRunning, Work!Erase, Work!AckRequest, OnlySuccesses
  <2> QED
    BY <2>1, <2>2
<1>5. \A q, t : Done(q, t) => Done(q, t)'
  BY <1>4 DEF Done, Success
<1>6. /\ wpc'[s] # "failed" /\ (wpc'[s] = "published" => Work!PublishResult(s) /\ UNCHANGED wreq)
      /\ \A t \in Workers : t # s => wpc'[t] = wpc[t] /\ wreq'[t] = wreq[t]
  BY <1>2 DEF Work!WorkerRun, Work!Take, Work!MarkRunning, Work!Erase, Work!PublishResult, Work!AckRequest
<1>7. \A t \in Workers : wpc'[t] # "failed" /\ (wpc'[t] = "published" => Done(wreq[t], t)' /\ wreq'[t] = wreq[t])
  <2>1. wpc'[s] = "published" => Done(wreq[s], s)' /\ wreq'[s] = wreq[s]
    BY <1>4, <1>6
  <2>2. \A t \in Workers : t # s /\ wpc[t] = "published" => Done(wreq[t], t)'
    <3>1. \A t \in Workers : t # s => wreq'[t] = wreq[t]
      BY <1>6
    <3> QED
      BY <1>4, <3>1 DEF StoresDo, Done, Success
  <2> QED
    BY <1>6, <2>1, <2>2 DEF StoresDo
<1>8. \A t \in Steps : \A q \in acked'[t] : q \in acked[t] \/ (t = s /\ q = wreq[s] /\ wpc[s] = "published")
  BY <1>2 DEF Work!WorkerRun, Work!Take, Work!MarkRunning, Work!Erase, Work!PublishResult, Work!AckRequest
<1>9. \A t \in Steps : \A q \in acked'[t] : Done(q, t)'
  BY <1>5, <1>8 DEF StoresDo
<1>10. StoresDo'
  BY <1>1, <1>3, <1>5, <1>7, <1>9 DEF StoresDo, Done, Success
<1> QED
  BY <1>4, <1>10

\* The cache worker finds its circuit closed, nothing claimed but what it did,
\* and nothing to try again.
LEMMA CacheDoes ==
  ASSUME GraphInv, WorkersOnce, OnlySuccesses, StoresDo, CacheStep, Clean!CacheRun \/ Clean!WindowExpires
  PROVE  OnlySuccesses' /\ StoresDo'
<1> USE DEF Clean!breaker, Clean!NoTell
<1>1. UNCHANGED <<wpc, wreq>>
  BY DEF CacheStep, stepWorkerOwn
<1>2. /\ acked \in [Steps -> SUBSET Requests] /\ Cache \in Steps
      /\ cpc # "idle" => creq \in Requests
      /\ \A q \in Requests, n \in 1 .. MAX_RETRIES : ~(retries[q][n] > 0)
  BY EraseGraphAssumption DEF WorkersOnce, GraphInv, CacheInv, Announced, Steps, StoresDo, Words!InRetry
<1>3. \/ /\ UNCHANGED reported /\ ~Clean!TellSucceeded
      \/ /\ ~Clean!TellSucceeded
         /\ reported' = reported \cup {[req |-> creq, step |-> Cache, type |-> "DUPLICATE_EVENT_IGNORED"]}
      \/ /\ Clean!TellSucceeded
         /\ reported' = reported \cup {Success(creq, Cache)}
  BY <1>2 DEF StoresDo, AtWork, Success, Clean!Tell, Clean!CacheRun, Clean!CacheTake, Clean!TakeFirst, Clean!TakeRetry,
     Clean!SkipOpen, Clean!Admit, Clean!ClaimNew, Clean!IgnoreDuplicate, Clean!DeleteCacheKeys, Clean!RecordSuccess,
     Clean!TellSucceeded, Clean!RecordFailure, Clean!TellRetrying, Clean!PublishToRetryQueue, Clean!TellFailed,
     Clean!PublishToDlq, Clean!AckCache, Clean!WindowExpires
<1>4. OnlySuccesses' /\ reported \subseteq reported'
  BY <1>3 DEF OnlySuccesses, Success
<1>5. /\ \A q, t : Done(q, t) => Done(q, t)'
      /\ Clean!TellSucceeded => \A q : q = creq => Done(q, Cache)'
  <2>1. \A q, t : Done(q, t) => Done(q, t)'
    BY <1>4 DEF Done, Success
  <2>2. Clean!TellSucceeded => \A q : q = creq => Done(q, Cache)'
    BY <1>3 DEF Done, Success
  <2> QED
    BY <2>1, <2>2
<1>6. /\ circuit' = "CLOSED" /\ UNCHANGED retries
      /\ cpc' \in {"idle", "check", "claim", "ack"} \cup AtWork
      /\ cpc' = "ack" => creq' = creq /\ (Clean!TellSucceeded \/ cpc = "ack" \/ (cpc = "claim" /\ creq \in claimed))
      /\ \/ acked' = acked
         \/ cpc = "ack" /\ acked' = [acked EXCEPT ![Cache] = @ \cup {creq}]
      /\ \A q \in claimed' : q \in claimed \/ (creq' = q /\ cpc' \in AtWork)
      /\ cpc \in AtWork => creq' = creq /\ (cpc' \in AtWork \/ Clean!TellSucceeded)
  <2> USE DEF AtWork
  <2>1. CASE Clean!CacheTake
    BY <1>2, <2>1 DEF StoresDo, Clean!CacheTake, Clean!TakeFirst, Clean!TakeRetry
  <2>2. CASE Clean!SkipOpen \/ Clean!Admit \/ Clean!ClaimNew \/ Clean!IgnoreDuplicate
    BY <2>2 DEF StoresDo, Clean!SkipOpen, Clean!Admit, Clean!ClaimNew, Clean!IgnoreDuplicate
  <2>3. CASE Clean!DeleteCacheKeys \/ Clean!RecordSuccess
    BY <2>3 DEF StoresDo, Clean!DeleteCacheKeys, Clean!RecordSuccess
  <2>4. CASE Clean!TellSucceeded
    BY <2>4 DEF StoresDo, Clean!TellSucceeded
  <2>5. CASE \/ Clean!RecordFailure \/ Clean!TellRetrying \/ Clean!PublishToRetryQueue
             \/ Clean!TellFailed \/ Clean!PublishToDlq
    BY <2>5 DEF StoresDo, Clean!RecordFailure, Clean!TellRetrying, Clean!PublishToRetryQueue, Clean!TellFailed,
                Clean!PublishToDlq
  <2>6. CASE Clean!AckCache
    BY <2>6 DEF StoresDo, Clean!AckCache, Clean!Settle
  <2>7. CASE Clean!WindowExpires
    BY <2>7 DEF StoresDo, Clean!WindowExpires
  <2> QED
    BY <2>1, <2>2, <2>3, <2>4, <2>5, <2>6, <2>7 DEF Clean!CacheRun
<1>7. \A q \in claimed' : Done(q, Cache)' \/ (creq' = q /\ cpc' \in AtWork)
  BY <1>5, <1>6 DEF StoresDo
<1>8. cpc' = "ack" => \A q : q = creq' => Done(q, Cache)'
  BY <1>5, <1>6 DEF StoresDo, AtWork
<1>9. \A t \in Steps : \A q \in acked'[t] : Done(q, t)'
  <2>1. \A t \in Steps : \A q \in acked'[t] : q \in acked[t] \/ (t = Cache /\ q = creq /\ cpc = "ack")
    BY <1>2, <1>6
  <2> QED
    BY <1>5, <2>1 DEF StoresDo
<1>10. \A s \in Workers : wpc'[s] # "failed" /\ \A q : q = wreq'[s] /\ wpc'[s] = "published" => Done(q, s)'
  BY <1>1, <1>5 DEF StoresDo
<1>11. \A q \in Requests : ~Words!InRetry(q)'
  BY <1>6 DEF StoresDo, Words!InRetry
<1> QED
  BY <1>4, <1>6, <1>7, <1>8, <1>9, <1>10, <1>11 DEF StoresDo, Done, Success

LEMMA HealthyKept ==
  ASSUME Healthy, GraphInv, Covered!IInv, HealthyInv, [Next]_vars
  PROVE  HealthyInv'
<1> USE DEF HealthyInv
<1>1. ASSUME NEW q \in Requests, Covered!Create(q), WorkersStand
      PROVE  HealthyInv'
  <2>1. /\ UNCHANGED <<results, reported, completedAt, pc, msg, before>>
        /\ creation[q] # "published"
        /\ UNCHANGED status \/ status' = [status EXCEPT ![q] = "PENDING"]
        /\ UNCHANGED steps \/ steps' = [steps EXCEPT ![q] = [s \in Covered!Steps |-> "PENDING"]]
    BY <1>1 DEF Covered!Create, Covered!SaveRequest, Covered!SaveSteps, Covered!PublishRequested,
                Covered!AbandonCreate, Covered!consumer
  <2>2. \A s \in Steps : ~Done(q, s)'
    BY <2>1 DEF Done, Success, GraphInv, CoordInv, ResultsAnnounced, Announced
  <2>3. \A p \in Requests, s \in Steps :
          steps'[p][s] = steps[p][s] \/ (~Covered!Terminal(steps'[p][s]) /\ ~Done(p, s)')
    <3>1. \A p \in Requests, s \in Steps : steps'[p][s] = steps[p][s] \/ (p = q /\ steps'[p][s] = "PENDING")
      BY <2>1, Tables DEF Covered!Steps, Steps
    <3> QED
      BY <2>2, <3>1 DEF Covered!Terminal
  <2>4. \A p \in Requests : status'[p] = "COMPLETED" => status[p] = "COMPLETED"
    BY <2>1, Tables
  <2> QED
    BY <1>1, <2>1, <2>3, <2>4, WordsStand, DatesKept
<1>2. ASSUME NEW r \in Replicas, Covered!Handler(r) \/ Coord!CrashConsumer(r), WorkersStand
      PROVE  HealthyInv'
  BY <1>2, WordsStand, HandlerDates, DatesSurvive
<1>3. CASE Aside
  BY <1>3, WordsStand, DatesKept DEF Aside, WorkersStand
<1>4. ASSUME NEW s \in Workers, WorkerStep(s), Work!WorkerRun(s)
      PROVE  HealthyInv'
  <2>1. WorkersOnce' /\ CacheOnce' /\ OnlySuccesses' /\ StoresDo'
    BY <1>4, WorkersSpeakOnce, WorkerLeavesCache, WorkersDo
  <2>2. UNCHANGED <<status, completedAt, pc, msg, before>>
    BY <1>4 DEF WorkerStep, coordinatorOwn
  <2>3. UNCHANGED <<results, reported>> \/ \E m : Says(m)
    BY <1>4, WorkersSpeakOnce
  <2>4. \A q \in Requests, t \in Steps :
          steps'[q][t] = steps[q][t] \/ (~Covered!Terminal(steps'[q][t]) /\ ~Done(q, t)')
    <3>1. CASE UNCHANGED steps
      BY <3>1
    <3>2. CASE ~UNCHANGED steps
      <4>1. /\ UNCHANGED reported
            /\ wreq[s] \in Requests /\ s \in Steps /\ ~FinalTold(wreq[s], s)
            /\ steps' = [steps EXCEPT ![wreq[s]][s] = "RUNNING"]
        BY <1>4, <3>2, WorkerMarks DEF Work!WorkerRun, Work!Take, Work!MarkRunning, Work!Erase,
                                       Work!PublishResult, Work!AckRequest
      <4>2. ~Done(wreq[s], s)
        BY <4>1 DEF FinalTold, Final, Covered!Told, Done, Success
      <4>3. \A q, t : Done(q, t)' <=> Done(q, t)
        BY <4>1 DEF Done, Success
      <4>4. \A q \in Requests, t \in Steps :
              steps'[q][t] = steps[q][t] \/ (q = wreq[s] /\ t = s /\ steps'[q][t] = "RUNNING")
        BY <4>1, Tables
      <4> QED
        BY <4>2, <4>3, <4>4 DEF Covered!Terminal
    <3> QED
      BY <3>1, <3>2
  <2> QED
    BY <2>1, <2>2, <2>3, <2>4, DatesKept
<1>5. CASE CacheStep /\ (Clean!CacheRun \/ Clean!WindowExpires)
  <2>1. WorkersOnce' /\ CacheOnce' /\ OnlySuccesses' /\ StoresDo'
    BY <1>5, CacheSpeaksLast, CacheDoes
  <2>2. UNCHANGED <<status, completedAt, steps, pc, msg, before>>
    BY <1>5 DEF CacheStep, coordinatorOwn
  <2>3. UNCHANGED <<results, reported>> \/ \E m : Says(m)
    BY <1>5, CacheSpeaksLast
  <2> QED
    BY <2>1, <2>2, <2>3, DatesKept
<1> QED
  BY <1>1, <1>2, <1>3, <1>4, <1>5, HealthySteps

LEMMA InitHealthy ==
  ASSUME Healthy, Init
  PROVE  HealthyInv
<1> USE DEF Init, Coord!Init, Work!WorkerInit, Clean!CacheInit
<1>1. WorkersOnce /\ CacheOnce
  BY InitSteady DEF SteadyInv
<1>2. \A q, s : ~Done(q, s)
  BY DEF Done
<1>3. circuit = "CLOSED"
  BY DEF Healthy, Clean!BreakerClosed
<1>4. OnlySuccesses /\ StoresDo
  BY <1>3 DEF OnlySuccesses, StoresDo, Workers, Words!InRetry
<1>5. \A q \in Requests : ~Covered!AllCompleted(steps[q])
  BY DEF Covered!AllCompleted, Covered!Terminal, Coord!NoSteps, Coord!NoRow, Coord!Steps, Covered!Steps
<1>6. SuccessesArrive /\ Dated
  BY <1>2, <1>5 DEF SuccessesArrive, Dated, Coord!NoRow
<1> QED
  BY <1>1, <1>4, <1>6 DEF HealthyInv

\* When all is quiet and no service failed, every announced request is decided:
\* with any number of replicas whose results overtake each other, with scanners
\* that overwrite what the handlers decide, and with replicas that a scanner's
\* refused insert takes down in the middle of a handler.
THEOREM AllAreDecided ==
  ASSUME Healthy
  PROVE  Spec => []DecidedWhenQuiet
<1>1. ASSUME HealthyInv
      PROVE  DecidedWhenQuiet
  <2> SUFFICES ASSUME Quiet, NEW q \in Requests, creation[q] = "published"
               PROVE  completedAt[q]
    BY DEF DecidedWhenQuiet
  <2> USE <1>1 DEF HealthyInv
  <2>1. /\ \A s \in Steps : q \in acked[s]
        /\ results = <<>> /\ \A r \in Replicas : pc[r] = "idle"
    BY DEF Quiet
  <2>2. \A s \in Steps : Done(q, s)
    BY <2>1 DEF StoresDo
  <2>3. \A s \in Steps : steps[q][s] = "SUCCEEDED"
    BY <2>1, <2>2 DEF SuccessesArrive
  <2>4. Covered!AllCompleted(steps[q])
    BY <2>3 DEF Covered!AllCompleted, Covered!Terminal, Covered!Steps, Steps
  <2>5. ~Pending(q)
    BY <2>1 DEF Pending
  <2> QED
    BY <2>4, <2>5 DEF Dated
<1>2. Init => HealthyInv
  BY InitHealthy
<1>3. GraphInv /\ Covered!IInv /\ HealthyInv /\ [Next]_vars => HealthyInv'
  BY HealthyKept
<1> QED
  BY InitGraph, GraphStep, SystemTruth, <1>1, <1>2, <1>3, PTL DEF Spec

-----------------------------------------------------------------------------
(***************************************************************************)
(* Types.  Every component's are kept under every fault; a busy worker or  *)
(* scanner holds a request, and what it acknowledges or files is that one. *)
(***************************************************************************)
LEMMA SameCacheSteps ==
  ASSUME Clean!CacheStep
  PROVE  Words!CacheStep
<1>1. CASE Clean!CacheThrows \/ Clean!CrashCache
  BY <1>1, Zenon DEF Clean!CacheThrows, Clean!CrashCache, Clean!Settle, Clean!NoTell, Clean!breaker,
       Words!CacheThrows, Words!CrashCache, Words!Settle, Words!NoTell, Words!breaker, Words!CacheStep
<1> QED
  BY <1>1, SameCacheWorker DEF Clean!CacheStep, Words!CacheStep

ScanTypes ==
  /\ late \subseteq Requests
  /\ slaProofs \subseteq Requests
  /\ \A r \in Replicas : spc[r] # "idle" => sreq[r] \in Requests

OwnTypes ==
  /\ acked \in [Steps -> SUBSET Requests]
  /\ Words!WorkerState
  /\ ScanTypes
  /\ npc \in {"idle", "stored"}

\* The loop takes up a request of what is left of the list, or ends.
LEMMA LoopTypes ==
  ASSUME ScanInv, ScanTypes, NEW r \in Replicas, NEW rest \in SUBSET Requests, Sla!ContinueWith(r, rest)
  PROVE  \A p \in Replicas : spc'[p] # "idle" => sreq'[p] \in Requests
<1>1. CASE rest = {}
  BY <1>1 DEF Sla!ContinueWith, ScanInv, ScanTypes
<1>2. CASE rest # {}
  <2>1. PICK q \in rest : spc' = [spc EXCEPT ![r] = "flip"] /\ sreq' = [sreq EXCEPT ![r] = q]
    BY <1>2 DEF Sla!ContinueWith
  <2> QED
    BY <2>1 DEF ScanInv, ScanTypes
<1> QED
  BY <1>1, <1>2

LEMMA ScanKeepsTypes ==
  ASSUME ScanInv, ScanTypes,
         \/ \E q \in Requests : Sla!GrowsLate(q)
         \/ \E r \in Replicas : Sla!ScanRun(r) \/ Sla!StopScan(r)
  PROVE  ScanTypes'
<1>1. ASSUME NEW q \in Requests, Sla!GrowsLate(q)
      PROVE  ScanTypes'
  BY <1>1 DEF Sla!GrowsLate, ScanTypes
<1>2. ASSUME NEW r \in Replicas, Sla!Scan(r)
      PROVE  ScanTypes'
  <2> DEFINE stuck == {q \in Requests : Sla!Stuck(q)}
  <2>1. Sla!ContinueWith(r, stuck) /\ UNCHANGED <<late, slaProofs>>
    BY <1>2 DEF Sla!Scan
  <2>2. stuck \in SUBSET Requests
    OBVIOUS
  <2> HIDE DEF stuck
  <2>3. \A p \in Replicas : spc'[p] # "idle" => sreq'[p] \in Requests
    BY <2>1, <2>2, LoopTypes
  <2> QED
    BY <2>1, <2>3 DEF ScanTypes
<1>3. ASSUME NEW r \in Replicas, Sla!Flip(r)
      PROVE  ScanTypes'
  BY <1>3 DEF Sla!Flip, ScanTypes, ScanInv
<1>4. ASSUME NEW r \in Replicas, Sla!LookUpProof(r) \/ Sla!SaveProof(r)
      PROVE  ScanTypes'
  <2>1. sreq[r] \in Requests /\ slist[r] \in SUBSET Requests
    BY <1>4 DEF Sla!LookUpProof, Sla!SaveProof, ScanTypes, ScanInv
  <2>2. UNCHANGED late /\ slaProofs' \subseteq Requests
    BY <1>4, <2>1 DEF Sla!LookUpProof, Sla!SaveProof, ScanTypes
  <2>3. CASE Sla!ContinueWith(r, slist[r])
    BY <2>1, <2>2, <2>3, LoopTypes DEF ScanTypes
  <2>4. CASE UNCHANGED sreq /\ \E next \in {"save", "rejected"} : spc' = [spc EXCEPT ![r] = next]
    BY <2>1, <2>2, <2>4 DEF ScanTypes, ScanInv
  <2> QED
    BY <1>4, <2>3, <2>4 DEF Sla!LookUpProof, Sla!SaveProof
<1>5. ASSUME NEW r \in Replicas, Sla!StopScan(r)
      PROVE  ScanTypes'
  BY <1>5 DEF Sla!StopScan, ScanTypes, ScanInv
<1> QED
  BY <1>1, <1>2, <1>3, <1>4, <1>5 DEF Sla!ScanRun, Sla!Restart

\* Only a worker's acknowledgement, or its refusal, takes a request off its queue.
LEMMA AcksKept ==
  ASSUME GraphInv, acked \in [Steps -> SUBSET Requests], [Next]_vars
  PROVE  acked' \in [Steps -> SUBSET Requests]
<1>1. CASE \E s \in Workers : WorkerStep(s)
  <2>1. PICK s \in Workers : WorkerStep(s)
    BY <1>1
  <2>2. s \in Steps
    BY DEF Workers
  <2>3. CASE Work!AckRequest(s) \/ Work!WorkerThrows(s)
    <3>1. wreq[s] \in Requests /\ acked' = [acked EXCEPT ![s] = @ \cup {wreq[s]}]
      BY <2>3 DEF Work!AckRequest, Work!WorkerThrows, GraphInv, WorkInv, Announced
    <3> QED
      BY <2>2, <3>1
  <2>4. CASE UNCHANGED acked
    BY <2>4
  <2> QED
    BY <2>1, <2>3, <2>4 DEF WorkerStep, Work!WorkerStep, Work!WorkerRun, Work!Take, Work!MarkRunning,
       Work!Erase, Work!PublishResult, Work!EraseFails, Work!CrashWorker
<1>2. CASE CacheStep
  <2>1. CASE Clean!AckCache \/ Clean!CacheThrows
    <3>1. creq \in Requests /\ Cache \in Steps
      BY <2>1, EraseGraphAssumption DEF Clean!AckCache, Clean!CacheThrows, GraphInv, CacheInv, Announced, Steps
    <3>2. acked' = acked \/ acked' = [acked EXCEPT ![Cache] = @ \cup {creq}]
      BY <2>1 DEF Clean!AckCache, Clean!CacheThrows, Clean!Settle
    <3> QED
      BY <3>1, <3>2
  <2>2. CASE UNCHANGED acked
    BY <2>2
  <2> QED
    BY <1>2, <2>1, <2>2
    DEF CacheStep, Clean!CacheStep, Clean!CacheRun, Clean!CacheTake, Clean!TakeFirst, Clean!TakeRetry, Clean!SkipOpen,
        Clean!Admit, Clean!ClaimNew, Clean!IgnoreDuplicate, Clean!DeleteCacheKeys, Clean!RecordSuccess,
        Clean!TellSucceeded, Clean!RecordFailure, Clean!TellRetrying, Clean!PublishToRetryQueue,
        Clean!TellFailed, Clean!PublishToDlq, Clean!CleanupFails, Clean!CrashCache, Clean!WindowExpires
<1>3. CASE ~CacheStep /\ ~\E s \in Workers : WorkerStep(s)
  <2>1. UNCHANGED acked
    BY <1>3 DEF Next, vars, workersShared, OutsideBackend, CreateStep, GrowLate, HandlerStep, ScanStep,
                CrashReplica, NotifyStep
  <2> QED
    BY <2>1
<1> QED
  BY <1>1, <1>2, <1>3

LEMMA OwnTypesKept ==
  ASSUME GraphInv, OwnTypes, [Next]_vars
  PROVE  OwnTypes'
<1> USE DEF OwnTypes
<1>1. acked' \in [Steps -> SUBSET Requests]
  BY AcksKept
<1>2. Words!WorkerState'
  <2>1. CASE CacheStep
    BY <2>1, SameCacheSteps, Words!WorkerStateKept, CacheFits DEF CacheStep
  <2>2. CASE ~CacheStep
    <3>1. UNCHANGED <<claimed, retries, dlq, cpc, creq, retry, circuit, failureCount, openUntil>>
      BY <2>2 DEF Next, vars, cacheOwn, OutsideBackend, CreateStep, GrowLate, HandlerStep, ScanStep,
                  CrashReplica, WorkerStep, NotifyStep
    <3> QED
      BY <3>1 DEF Words!WorkerState
  <2> QED
    BY <2>1, <2>2
<1>3. ScanTypes'
  <2>1. CASE \/ \E q \in Requests : GrowLate(q)
             \/ \E r \in Replicas : ScanStep(r) \/ CrashReplica(r)
    BY <2>1, ScanKeepsTypes DEF GrowLate, ScanStep, CrashReplica, GraphInv
  <2>2. CASE UNCHANGED scannerOwn
    BY <2>2 DEF scannerOwn, ScanTypes
  <2> QED
    BY <2>1, <2>2 DEF Next, vars, CreateStep, HandlerStep, WorkerStep, CacheStep, NotifyStep
<1>4. npc' \in {"idle", "stored"}
  BY DEF Next, vars, notifierOwn, OutsideBackend, CreateStep, GrowLate, HandlerStep, ScanStep, CrashReplica,
         WorkerStep, CacheStep, NotifyStep, Notify!NotificationStep, Notify!NotificationRun,
         Notify!StoreNotification, Notify!AckLifecycle, Notify!NotificationThrows, Notify!CrashNotification
<1> QED
  BY <1>1, <1>2, <1>3, <1>4

LEMMA InitOwnTypes == Init => OwnTypes
<1> SUFFICES ASSUME Init
             PROVE  OwnTypes
  OBVIOUS
<1> USE EraseGraphAssumption DEF Init, Work!WorkerInit, Clean!CacheInit, Sla!SlaInit, Notify!NotificationInit
<1>1. /\ circuit \in {"CLOSED", "OPEN", "HALF_OPEN"}
      /\ failureCount \in 0 .. CIRCUIT_THRESHOLD
      /\ openUntil \in BOOLEAN
  <2>1. 0 \in 0 .. CIRCUIT_THRESHOLD /\ CIRCUIT_THRESHOLD \in 0 .. CIRCUIT_THRESHOLD
    OBVIOUS
  <2>2. CASE Clean!BreakerClosed
    BY ONLY <2>1, <2>2 DEF Clean!BreakerClosed
  <2>3. CASE circuit = "OPEN" /\ failureCount = CIRCUIT_THRESHOLD /\ openUntil \in BOOLEAN
    BY ONLY <2>1, <2>3
  <2> QED
    BY <2>2, <2>3 DEF Clean!BreakerAny
<1>2. Words!WorkerState
  BY <1>1 DEF Words!WorkerState, Words!CachePositions
<1>3. acked \in [Steps -> SUBSET Requests] /\ ScanTypes /\ npc = "idle"
  BY DEF ScanTypes
<1> QED
  BY <1>2, <1>3 DEF OwnTypes

\* Every variable of the system keeps its type, whatever fails: tables, queues,
\* the positions of every process and what each holds.
THEOREM SystemTypes == Spec => []TypeOK
<1>1. ASSUME GraphInv, Covered!IInv, StoreTruth, NotifiedBacked, OwnTypes
      PROVE  TypeOK
  <2> USE <1>1 DEF OwnTypes
  <2>1. Coord!TypeOK
    <3>1. Covered!TypeOK
      BY DEF Covered!IInv, Covered!Safe
    <3> QED
      BY <3>1, Zenon DEF Covered!TypeOK, Covered!RequestStatus, Covered!StepStatus, Covered!NoRow, Covered!Steps,
         Covered!Message, Covered!EventTypes, Covered!Lifecycle, Covered!Positions,
         Coord!TypeOK, Coord!RequestStatus, Coord!StepStatus, Coord!NoRow, Coord!Steps,
         Coord!Message, Coord!EventTypes, Coord!Lifecycle, Coord!Positions
  <2>2. Work!WorkerTypeOK
    BY DEF GraphInv, WorkInv, Work!WorkerTypeOK
  <2>3. Clean!CacheTypeOK
    <3>1. Cache \in Steps
      BY EraseGraphAssumption DEF Steps
    <3> QED
      BY <3>1 DEF Words!WorkerState, Words!CachePositions, Clean!CacheTypeOK, Clean!CachePositions
  <2>4. Sla!SlaTypeOK
    <3>1. status \in [Requests -> RequestStatus \cup {NoRow}]
      BY Tables
    <3> QED
      BY <3>1 DEF Sla!SlaTypeOK, ScanTypes, GraphInv, ScanInv, RequestStatus, NoRow, Sla!RequestStatus, Sla!NoRow
  <2>5. Notify!NotificationTypeOK
    BY DEF NotifiedBacked, Notify!NotificationTypeOK, NoRow, Notify!NoRow
  <2> QED
    BY <2>1, <2>2, <2>3, <2>4, <2>5 DEF TypeOK, StoreTruth
<1> QED
  BY InitGraph, GraphStep, SystemTruth, InitStore, StoreStep, SystemIsBacked, InitNotified, NotifiedStep,
     InitOwnTypes, OwnTypesKept, <1>1, PTL DEF Spec

=============================================================================
