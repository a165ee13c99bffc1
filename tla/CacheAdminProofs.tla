-------------------------- MODULE CacheAdminProofs --------------------------
(***************************************************************************)
(* Proofs about modules CacheWorker and CacheAdmin: what the cache worker  *)
(* says, its breaker and its dead letters, with an operator beside it, for *)
(* any requests, retries, threshold and faults.                            *)
(***************************************************************************)
EXTENDS CacheAdmin, FiniteSetTheorems, TLAPS

-----------------------------------------------------------------------------
(***************************************************************************)
(* Types.  A busy worker holds a request; a replay holds one while it      *)
(* publishes it and acknowledges it.                                       *)
(***************************************************************************)
Holding == {"republish", "ackDead"}

CacheSafe ==
  /\ CacheTypeOK
  /\ acked \in [{Cache} -> SUBSET Requests]
  /\ erased \in [Requests -> SUBSET {Cache}]
  /\ cpc # "idle" => creq \in Requests
  /\ cpc = "requeue" => retry < MAX_RETRIES
  /\ IF apc \in Holding THEN rreq \in Requests ELSE rreq = NoRequest

LEMMA InitCacheSafe == AdminInit => CacheSafe
<1> SUFFICES ASSUME AdminInit
             PROVE  CacheSafe
  OBVIOUS
<1> USE CacheAssumption DEF AdminInit, Init, CacheInit
<1>1. retries \in [Requests -> [1..MAX_RETRIES -> Nat]] /\ dlq \in [Requests -> Nat]
  OBVIOUS
<1>2. acked \in [{Cache} -> SUBSET Requests] /\ acked[Cache] \subseteq Requests
  OBVIOUS
<1>3. /\ circuit \in {"CLOSED", "OPEN", "HALF_OPEN"}
      /\ failureCount \in 0..CIRCUIT_THRESHOLD
      /\ openUntil \in BOOLEAN
  <2>1. 0 \in 0..CIRCUIT_THRESHOLD /\ CIRCUIT_THRESHOLD \in 0..CIRCUIT_THRESHOLD
    OBVIOUS
  <2>2. CASE BreakerClosed
    BY <2>1, <2>2 DEF BreakerClosed
  <2>3. CASE circuit = "OPEN" /\ failureCount = CIRCUIT_THRESHOLD /\ openUntil \in BOOLEAN
    BY <2>1, <2>3
  <2> QED
    BY <2>2, <2>3 DEF BreakerAny
<1>4. erased \in [Requests -> SUBSET {Cache}] /\ claimed \subseteq Requests
  OBVIOUS
<1>5. cpc = "idle" /\ creq = NoRequest /\ retry \in 0..MAX_RETRIES
      /\ apc = "idle" /\ rreq = NoRequest
  OBVIOUS
<1> QED
  BY ONLY <1>1, <1>2, <1>3, <1>4, <1>5 DEF CacheSafe, CacheTypeOK, CachePositions, Holding

\* What the worker keeps for itself: a busy one holds a request, and has a
\* retry left when it is about to use one.
WorkerState ==
  /\ claimed \subseteq Requests
  /\ retries \in [Requests -> [1..MAX_RETRIES -> Nat]]
  /\ dlq \in [Requests -> Nat]
  /\ cpc \in CachePositions
  /\ creq \in Requests \cup {NoRequest}
  /\ retry \in 0..MAX_RETRIES
  /\ circuit \in {"CLOSED", "OPEN", "HALF_OPEN"}
  /\ failureCount \in 0..CIRCUIT_THRESHOLD
  /\ openUntil \in BOOLEAN
  /\ cpc # "idle" => creq \in Requests
  /\ cpc = "requeue" => retry < MAX_RETRIES

LEMMA WorkerStateKept ==
  ASSUME WorkerState, CacheStep
  PROVE  WorkerState'
<1> USE CacheAssumption DEF WorkerState
<1>1. ASSUME NEW q \in Requests, TakeFirst(q)
      PROVE  WorkerState'
  BY <1>1 DEF TakeFirst, breaker, CachePositions
<1>2. ASSUME NEW q \in Requests, NEW n \in 1..MAX_RETRIES, TakeRetry(q, n)
      PROVE  WorkerState'
  <2>1. retries' \in [Requests -> [1..MAX_RETRIES -> Nat]]
    <3>1. retries[q][n] \in Nat /\ retries[q][n] > 0
      BY <1>2 DEF TakeRetry
    <3>2. retries[q][n] - 1 \in Nat
      BY <3>1
    <3> QED
      BY <1>2, <3>2 DEF TakeRetry
  <2>2. n \in 0..MAX_RETRIES
    OBVIOUS
  <2> QED
    BY <1>2, <2>1, <2>2 DEF TakeRetry, breaker, CachePositions
<1>3. CASE SkipOpen \/ Admit \/ ClaimNew \/ IgnoreDuplicate
  BY <1>3 DEF SkipOpen, Admit, ClaimNew, IgnoreDuplicate, breaker, CachePositions
<1>4. CASE TellSucceeded \/ TellRetrying \/ TellFailed \/ CleanupFails
  BY <1>4 DEF TellSucceeded, TellRetrying, TellFailed, CleanupFails, breaker, CachePositions
<1>12. CASE DeleteCacheKeys
  BY <1>12 DEF DeleteCacheKeys, breaker, CachePositions
<1>5. CASE RecordSuccess
  <2>1. /\ failureCount' \in 0..CIRCUIT_THRESHOLD
        /\ circuit' \in {"CLOSED", "OPEN", "HALF_OPEN"}
    BY <1>5 DEF RecordSuccess
  <2>2. openUntil' \in BOOLEAN
    BY <1>5 DEF RecordSuccess
  <2> QED
    BY <1>5, <2>1, <2>2 DEF RecordSuccess, CachePositions
<1>6. CASE RecordFailure
  <2>1. failureCount' \in 0..CIRCUIT_THRESHOLD
    BY <1>6 DEF RecordFailure
  <2> QED
    BY <1>6, <2>1 DEF RecordFailure, CachePositions
<1>7. CASE PublishToRetryQueue
  <2>1. retries' \in [Requests -> [1..MAX_RETRIES -> Nat]]
    BY <1>7 DEF PublishToRetryQueue
  <2> QED
    BY <1>7, <2>1 DEF PublishToRetryQueue, breaker, CachePositions
<1>8. CASE PublishToDlq
  BY <1>8 DEF PublishToDlq, breaker, CachePositions
<1>9. CASE AckCache \/ CacheThrows
  BY <1>9 DEF AckCache, CacheThrows, Settle, breaker, CachePositions
<1>10. CASE CrashCache
  <2>1. retries' \in [Requests -> [1..MAX_RETRIES -> Nat]]
    <3>1. CASE retry = 0
      BY <1>10, <3>1 DEF CrashCache
    <3>2. CASE retry # 0
      <4>1. retry \in 1..MAX_RETRIES /\ creq \in Requests
        BY <1>10, <3>2 DEF CrashCache
      <4>2. retries[creq][retry] + 1 \in Nat
        BY <4>1
      <4> QED
        BY <1>10, <3>2, <4>1, <4>2 DEF CrashCache
    <3> QED
      BY <3>1, <3>2
  <2> QED
    BY <1>10, <2>1 DEF CrashCache, breaker, CachePositions
<1>11. CASE WindowExpires
  BY <1>11 DEF WindowExpires
<1> QED
  BY <1>1, <1>2, <1>3, <1>4, <1>5, <1>6, <1>7, <1>8, <1>9, <1>10, <1>11, <1>12
     DEF CacheStep, CacheRun, CacheTake

\* The worker's steps, and what they leave alone.
LEMMA WorkerSafe ==
  ASSUME CacheSafe, CacheStep, UNCHANGED callVars
  PROVE  CacheSafe'
<1>1. WorkerState'
  BY WorkerStateKept DEF CacheSafe, CacheTypeOK, WorkerState
<1>2. acked' \in [{Cache} -> SUBSET Requests]
  <2>1. CASE AckCache \/ CacheThrows
    BY <2>1 DEF AckCache, CacheThrows, Settle, CacheSafe
  <2>2. CASE UNCHANGED acked
    BY <2>2 DEF CacheSafe
  <2> QED
    BY <2>1, <2>2
       DEF CacheStep, CacheRun, CacheTake, TakeFirst, TakeRetry, SkipOpen, Admit, ClaimNew, IgnoreDuplicate,
           DeleteCacheKeys, RecordSuccess, TellSucceeded, RecordFailure, TellRetrying, PublishToRetryQueue,
           TellFailed, PublishToDlq, CleanupFails, CrashCache, WindowExpires
<1>3. erased' \in [Requests -> SUBSET {Cache}]
  <2>1. CASE DeleteCacheKeys
    BY <2>1 DEF DeleteCacheKeys, CacheSafe
  <2>2. CASE UNCHANGED erased
    BY <2>2 DEF CacheSafe
  <2> QED
    BY <2>1, <2>2
       DEF CacheStep, CacheRun, CacheTake, TakeFirst, TakeRetry, SkipOpen, Admit, ClaimNew, IgnoreDuplicate,
           RecordSuccess, TellSucceeded, RecordFailure, TellRetrying, PublishToRetryQueue,
           TellFailed, PublishToDlq, AckCache, CacheThrows, CleanupFails, CrashCache, WindowExpires
<1> QED
  BY <1>1, <1>2, <1>3 DEF CacheSafe, CacheTypeOK, WorkerState, callVars

\* The operator's.
CallStep == ReplayStart \/ Replay \/ ReplayDies \/ ReadCircuit \/ ReadFails

LEMMA CallSafe ==
  ASSUME CacheSafe, CallStep
  PROVE  CacheSafe'
<1> USE CacheAssumption DEF CacheSafe, CacheTypeOK
<1>1. CASE ReplayStart \/ ReplayAck \/ ReplayEnd \/ ReadCircuit \/ ReadFails
  BY <1>1 DEF ReplayStart, ReplayAck, ReplayEnd, ReadCircuit, ReadFails, cacheVars, Holding
<1>2. ASSUME NEW q \in Requests, ReplayGet(q)
      PROVE  CacheSafe'
  <2>1. dlq' \in [Requests -> Nat]
    BY <1>2 DEF ReplayGet
  <2> QED
    BY <1>2, <2>1 DEF ReplayGet, breaker, Holding
<1>3. CASE ReplayPublish
  <2>1. rreq \in Requests /\ MAX_RETRIES \in 1..MAX_RETRIES
    BY <1>3 DEF ReplayPublish, Holding
  <2>2. retries[rreq][MAX_RETRIES] + 1 \in Nat
    BY <2>1
  <2>3. retries' \in [Requests -> [1..MAX_RETRIES -> Nat]]
    BY <1>3, <2>1, <2>2 DEF ReplayPublish
  <2> QED
    BY <1>3, <2>1, <2>3 DEF ReplayPublish, breaker, Holding
<1>4. CASE ReplayDies
  <2>1. dlq' \in [Requests -> Nat]
    <3>1. CASE rreq \in Requests
      BY <1>4, <3>1 DEF ReplayDies
    <3>2. CASE rreq \notin Requests
      <4>1. [dlq EXCEPT ![rreq] = @ + 1] = dlq
        BY <3>2
      <4> QED
        BY <1>4, <4>1 DEF ReplayDies
    <3> QED
      BY <3>1, <3>2
  <2> QED
    BY <1>4, <2>1 DEF ReplayDies, breaker, Holding
<1> QED
  BY <1>1, <1>2, <1>3, <1>4 DEF CallStep, Replay

LEMMA StepCases ==
  ASSUME [AdminNext]_adminVars
  PROVE  \/ CacheStep /\ UNCHANGED callVars
         \/ CallStep
         \/ UNCHANGED <<callVars, acked, claimed, erased, retries, dlq, cpc, creq, retry, breaker, reported>>
BY DEF AdminNext, Beside, Call, Revive, WorkerCrashes, WorkerDrops, CallStep, CacheStep,
       Announce, TakeResult, adminVars, cacheVars, callVars, breaker

LEMMA NextCacheSafe == CacheSafe /\ [AdminNext]_adminVars => CacheSafe'
<1> SUFFICES ASSUME CacheSafe, [AdminNext]_adminVars
             PROVE  CacheSafe'
  OBVIOUS
<1>1. CASE UNCHANGED <<callVars, acked, claimed, erased, retries, dlq, cpc, creq, retry, breaker, reported>>
  BY <1>1 DEF CacheSafe, CacheTypeOK, callVars, breaker
<1> QED
  BY <1>1, StepCases, WorkerSafe, CallSafe

\* Every variable of the cache worker keeps its type while an operator replays
\* its dead letters.
THEOREM CacheTypes == AdminSpec => []CacheTypeOK
<1>1. CacheSafe => CacheTypeOK
  BY DEF CacheSafe
<1> QED
  BY InitCacheSafe, NextCacheSafe, <1>1, PTL DEF AdminSpec

\* A replay counts down from the number of messages it found, of which there
\* are finitely many, and holds one only while it has some to take.
CallTyped ==
  /\ apc \in {"idle", "take", "republish", "ackDead", "readWindow", "readCount", "answered"}
  /\ rleft \in Nat
  /\ apc \in Holding => rleft > 0

LEMMA FinitelyManyDead ==
  ASSUME IsFiniteSet(Requests), CacheTypeOK
  PROVE  Cardinality(DeadLetters) \in Nat
<1> DEFINE copies == {{q} \X (1 .. dlq[q]) : q \in Requests}
<1>1. IsFiniteSet(copies)
  <2> DEFINE f == [q \in Requests |-> {q} \X (1 .. dlq[q])]
  <2>1. f \in Surjection(Requests, copies)
    BY DEF Surjection
  <2> HIDE DEF f, copies
  <2> QED
    BY <2>1, FS_Surjection
<1>2. ASSUME NEW T \in copies
      PROVE  IsFiniteSet(T)
  <2>1. PICK q \in Requests : T = {q} \X (1 .. dlq[q])
    OBVIOUS
  <2>2. dlq[q] \in Nat
    BY DEF CacheTypeOK
  <2>3. IsFiniteSet(1 .. dlq[q])
    <3>1. 1 \in Int /\ dlq[q] \in Int
      BY <2>2
    <3> QED
      BY <3>1, FS_Interval
  <2>4. IsFiniteSet({q})
    BY FS_Singleton
  <2> QED
    BY <2>1, <2>3, <2>4, FS_Product
<1> HIDE DEF copies
<1>3. IsFiniteSet(UNION copies)
  BY <1>1, <1>2, FS_UNION
<1> QED
  BY <1>3, FS_CardinalityType DEF DeadLetters, copies

LEMMA CallTypedKept ==
  ASSUME IsFiniteSet(Requests), CacheSafe, CallTyped, [AdminNext]_adminVars
  PROVE  CallTyped'
<1> USE DEF CallTyped, Holding
<1>1. CASE UNCHANGED callVars
  BY <1>1 DEF callVars
<1>2. CASE ReplayStart
  BY <1>2, FinitelyManyDead DEF ReplayStart, CacheSafe
<1>3. CASE (\E q \in Requests : ReplayGet(q)) \/ ReplayPublish
  BY <1>3 DEF ReplayGet, ReplayPublish
<1>4. CASE ReplayAck
  BY <1>4 DEF ReplayAck
<1>5. CASE ReplayEnd \/ ReplayDies
  BY <1>5 DEF ReplayEnd, ReplayDies
<1>6. CASE ReadCircuit \/ ReadFails
  BY <1>6 DEF ReadCircuit, ReadFails
<1> QED
  BY <1>1, <1>2, <1>3, <1>4, <1>5, <1>6, StepCases DEF CallStep, Replay

\* The worker, the replay and the status call keep their types, and a replay
\* holds a message only between taking and acknowledging it, with that one still
\* to count, for any finite set of requests.
THEOREM AdminTypes ==
  ASSUME IsFiniteSet(Requests)
  PROVE  AdminSpec => []AdminTypeOK
<1>1. AdminInit => CallTyped
  BY DEF AdminInit, CallTyped, Holding
<1>2. CacheSafe /\ CallTyped /\ [AdminNext]_adminVars => CallTyped'
  BY CallTypedKept
<1>3. CacheSafe /\ CallTyped => AdminTypeOK
  BY CacheAssumption DEF CacheSafe, CallTyped, AdminTypeOK, Holding
<1> QED
  BY InitCacheSafe, NextCacheSafe, <1>1, <1>2, <1>3, PTL DEF AdminSpec

-----------------------------------------------------------------------------
(***************************************************************************)
(* Success and breaker.  What the worker is about to say or write is true  *)
(* at its position, and nobody but the worker writes these keys.           *)
(***************************************************************************)
ErasedFirst == cpc \in {"close", "zero", "unset", "succeeded"} => Cache \in erased[creq]

BreakerOrder ==
  /\ cpc = "zero" => circuit = "CLOSED"
  /\ cpc = "trip" => failureCount = CIRCUIT_THRESHOLD
  /\ cpc = "window" => circuit = "OPEN"

CacheTruth == SucceededMeansErased /\ ErasedFirst /\ BreakerHasCause /\ BreakerOrder

LEMMA InitCacheTruth == AdminInit => CacheTruth
BY DEF AdminInit, Init, CacheInit, BreakerAny, BreakerClosed, CacheTruth, SucceededMeansErased,
       ErasedFirst, BreakerHasCause, BreakerOrder, Said

\* What is said of a request after the worker has spoken.
LEMMA TellSays ==
  ASSUME NEW type, NEW q, NEW other, Tell(type), Said(q, other)'
  PROVE  Said(q, other) \/ (q = creq /\ other = type)
BY DEF Tell, Said

LEMMA WorkerTruth ==
  ASSUME CacheSafe, CacheTruth, CacheStep
  PROVE  CacheTruth'
<1>1. SucceededMeansErased' /\ ErasedFirst'
  <2> USE DEF CacheTruth, SucceededMeansErased, ErasedFirst, CacheSafe
  <2>1. CASE TellSucceeded
    BY <2>1, TellSays DEF TellSucceeded
  <2>2. CASE SkipOpen \/ IgnoreDuplicate
    BY <2>2, TellSays DEF SkipOpen, IgnoreDuplicate
  <2>3. CASE TellRetrying \/ TellFailed
    BY <2>3, TellSays DEF TellRetrying, TellFailed
  <2>4. CASE DeleteCacheKeys
    BY <2>4 DEF DeleteCacheKeys, NoTell, Said
  <2>5. CASE CacheTake \/ Admit \/ ClaimNew
    BY <2>5 DEF CacheTake, TakeFirst, TakeRetry, Admit, ClaimNew, NoTell, Said
  <2>6. CASE RecordSuccess \/ RecordFailure \/ CleanupFails
    BY <2>6 DEF RecordSuccess, RecordFailure, CleanupFails, NoTell, Said
  <2>7. CASE PublishToRetryQueue \/ PublishToDlq
    BY <2>7 DEF PublishToRetryQueue, PublishToDlq, NoTell, Said
  <2>8. CASE AckCache \/ CacheThrows \/ CrashCache
    BY <2>8 DEF AckCache, CacheThrows, CrashCache, Settle, NoTell, Said
  <2>9. CASE WindowExpires
    BY <2>9 DEF WindowExpires, Said
  <2> QED
    BY <2>1, <2>2, <2>3, <2>4, <2>5, <2>6, <2>7, <2>8, <2>9 DEF CacheStep, CacheRun
<1>2. BreakerHasCause' /\ BreakerOrder'
  <2> USE CacheAssumption DEF CacheTruth, BreakerHasCause, BreakerOrder, breaker
  <2>1. CASE RecordFailure
    <3>1. failureCount \in 0..CIRCUIT_THRESHOLD
      BY DEF CacheSafe, CacheTypeOK
    <3> QED
      BY <2>1, <3>1 DEF RecordFailure
  <2>2. CASE RecordSuccess \/ Admit
    BY <2>2 DEF RecordSuccess, Admit
  <2>3. CASE CacheTake \/ SkipOpen \/ ClaimNew \/ IgnoreDuplicate \/ DeleteCacheKeys \/ TellSucceeded
    BY <2>3 DEF CacheTake, TakeFirst, TakeRetry, SkipOpen, ClaimNew, IgnoreDuplicate,
                DeleteCacheKeys, TellSucceeded
  <2>4. CASE TellRetrying \/ TellFailed \/ PublishToRetryQueue \/ PublishToDlq \/ CleanupFails
    BY <2>4 DEF TellRetrying, TellFailed, PublishToRetryQueue, PublishToDlq, CleanupFails
  <2>5. CASE AckCache \/ CacheThrows \/ CrashCache
    BY <2>5 DEF AckCache, CacheThrows, CrashCache, Settle
  <2>6. CASE WindowExpires
    BY <2>6 DEF WindowExpires
  <2> QED
    BY <2>1, <2>2, <2>3, <2>4, <2>5, <2>6 DEF CacheStep, CacheRun
<1> QED
  BY <1>1, <1>2 DEF CacheTruth

\* An operator's call writes neither what was said nor the breaker.
LEMMA CallKeeps ==
  ASSUME CallStep
  PROVE  UNCHANGED <<reported, erased, claimed, cpc, creq, retry, breaker>>
BY DEF CallStep, ReplayStart, Replay, ReplayGet, ReplayPublish, ReplayAck, ReplayEnd, ReplayDies,
       ReadCircuit, ReadFails, cacheVars, breaker

LEMMA NextCacheTruth == CacheSafe /\ CacheTruth /\ [AdminNext]_adminVars => CacheTruth'
<1> SUFFICES ASSUME CacheSafe, CacheTruth, [AdminNext]_adminVars
             PROVE  CacheTruth'
  OBVIOUS
<1>1. CASE UNCHANGED <<reported, erased, cpc, creq, breaker>>
  BY <1>1 DEF CacheTruth, SucceededMeansErased, ErasedFirst, BreakerHasCause, BreakerOrder,
              Said, breaker
<1> QED
  BY <1>1, StepCases, WorkerTruth, CallKeeps

\* Success is never reported of keys that are still there, whatever crashes,
\* retries and replays come before it.
THEOREM SuccessIsTrue == AdminSpec => []SucceededMeansErased
<1>1. CacheTruth => SucceededMeansErased
  BY DEF CacheTruth
<1> QED
  BY InitCacheSafe, NextCacheSafe, InitCacheTruth, NextCacheTruth, <1>1, PTL DEF AdminSpec

\* The breaker is open or half open with the failures of its threshold behind
\* it, wherever among its three writes the worker dies.
THEOREM BreakerNeedsCause == AdminSpec => []BreakerHasCause
<1>1. CacheTruth => BreakerHasCause
  BY DEF CacheTruth
<1> QED
  BY InitCacheSafe, NextCacheSafe, InitCacheTruth, NextCacheTruth, <1>1, PTL DEF AdminSpec

-----------------------------------------------------------------------------
(***************************************************************************)
(* Dead letters.  Of all the copies of a request only the one that is a    *)
(* dead letter, waits to be retried, is being tried, or is held by a replay*)
(* that has not published it yet, will be heard of again.  A first delivery*)
(* is tried only if its event id was claimed by nobody, hence before any   *)
(* copy exists.                                                            *)
(***************************************************************************)
Carrying == cpc \in {"work", "close", "zero", "unset", "succeeded", "failed", "trip", "window",
                     "untrip", "report", "requeue", "bury"}

Live(q) ==
  \/ dlq[q] > 0
  \/ InRetry(q)
  \/ apc = "republish" /\ rreq = q
  \/ Carrying /\ creq = q

ClaimedFirst ==
  \A q \in Requests :
    \/ Said(q, "DeletionStepFailed")
    \/ Live(q)
    \/ apc \in Holding /\ rreq = q
    \/ cpc # "idle" /\ retry # 0 /\ creq = q
    => q \in claimed

FirstTry == Carrying /\ retry = 0 => ~Said(creq, "DeletionStepFailed")

LiveOrDone ==
  \A q \in Requests : Said(q, "DeletionStepFailed") =>
    Live(q) \/ Said(q, "DeletionStepSucceeded") \/ q \in dropped

DeadLetterInv == ClaimedFirst /\ FirstTry /\ LiveOrDone

LEMMA InitDeadLetter == AdminInit => DeadLetterInv
BY DEF AdminInit, Init, CacheInit, DeadLetterInv, ClaimedFirst, FirstTry, LiveOrDone, Live,
       InRetry, Carrying, Said, Holding

\* The steps of the worker, by what becomes of `dropped`.
LEMMA DropCases ==
  ASSUME [AdminNext]_adminVars
  PROVE  \/ (CacheRun \/ CleanupFails \/ CrashCache \/ WindowExpires) /\ UNCHANGED <<callVars, dropped>>
         \/ CacheThrows /\ dropped' = dropped \cup {creq} /\ UNCHANGED callVars
         \/ CallStep /\ UNCHANGED dropped
         \/ UNCHANGED <<callVars, dropped, claimed, retries, dlq, cpc, creq, retry, reported>>
BY DEF AdminNext, Beside, Call, Revive, WorkerCrashes, WorkerDrops, CallStep,
       Announce, TakeResult, adminVars, cacheVars, callVars, breaker

\* Only what is said and where the copies are matters.
LEMMA NothingMoves ==
  ASSUME DeadLetterInv, UNCHANGED <<callVars, dropped, claimed, retries, dlq, creq, retry, reported>>,
         Carrying' = Carrying, (cpc' = "idle") = (cpc = "idle")
  PROVE  DeadLetterInv'
BY DEF DeadLetterInv, ClaimedFirst, FirstTry, LiveOrDone, Live, InRetry, Said, callVars

LEMMA NextDeadLetter == CacheSafe /\ DeadLetterInv /\ [AdminNext]_adminVars => DeadLetterInv'
<1> SUFFICES ASSUME CacheSafe, DeadLetterInv, [AdminNext]_adminVars
             PROVE  DeadLetterInv'
  OBVIOUS
<1> USE CacheAssumption
<1>1. ASSUME UNCHANGED <<callVars, dropped>>, CacheRun \/ CleanupFails \/ CrashCache \/ WindowExpires
      PROVE  DeadLetterInv'
  <2> USE <1>1 DEF callVars
  <2>1. ASSUME NEW q \in Requests, TakeFirst(q)
        PROVE  DeadLetterInv'
    BY <2>1 DEF TakeFirst, NoTell, DeadLetterInv, ClaimedFirst, FirstTry, LiveOrDone, Live, InRetry,
                Said, Carrying
  <2>2. ASSUME NEW q \in Requests, NEW n \in 1..MAX_RETRIES, TakeRetry(q, n)
        PROVE  DeadLetterInv'
    <3>1. /\ retries \in [Requests -> [1..MAX_RETRIES -> Nat]]
          /\ retries' = [retries EXCEPT ![q][n] = @ - 1]
          /\ cpc = "idle" /\ cpc' = "work" /\ creq' = q /\ retry' = n
          /\ UNCHANGED <<reported, claimed, dlq>> /\ retries[q][n] > 0
      BY <2>2 DEF TakeRetry, NoTell, CacheSafe, CacheTypeOK
    <3>2. \A p \in Requests \ {q} : InRetry(p)' <=> InRetry(p)
      BY <3>1 DEF InRetry
    <3>3. InRetry(q) /\ q \in claimed
      BY <3>1 DEF InRetry, DeadLetterInv, ClaimedFirst, Live
    <3>4. Live(q)' /\ \A p \in Requests : Live(p)' <=> Live(p)
      BY <3>1, <3>2, <3>3 DEF Live, Carrying
    <3> QED
      BY <3>1, <3>3, <3>4 DEF DeadLetterInv, ClaimedFirst, FirstTry, LiveOrDone, Said
  <2>3. CASE SkipOpen \/ IgnoreDuplicate
    <3>1. \A q : /\ Said(q, "DeletionStepFailed")' <=> Said(q, "DeletionStepFailed")
                 /\ Said(q, "DeletionStepSucceeded") => Said(q, "DeletionStepSucceeded")'
      BY <2>3, TellSays DEF SkipOpen, IgnoreDuplicate, Tell, Said
    <3> QED
      BY <2>3, <3>1 DEF SkipOpen, IgnoreDuplicate, DeadLetterInv, ClaimedFirst, FirstTry,
                        LiveOrDone, Live, InRetry, Carrying
  <2>4. CASE ClaimNew
    BY <2>4 DEF ClaimNew, NoTell, DeadLetterInv, ClaimedFirst, FirstTry, LiveOrDone, Live,
                InRetry, Said, Carrying, CacheSafe
  <2>5. CASE Admit \/ WindowExpires
    BY <2>5, NothingMoves DEF Admit, WindowExpires, NoTell, Carrying
  <2>6. CASE DeleteCacheKeys \/ RecordSuccess \/ RecordFailure \/ CleanupFails
    BY <2>6, NothingMoves DEF DeleteCacheKeys, RecordSuccess, RecordFailure, CleanupFails, NoTell, Carrying
  <2>7. CASE TellSucceeded
    <3>1. /\ \A q : /\ Said(q, "DeletionStepFailed")' <=> Said(q, "DeletionStepFailed")
                    /\ Said(q, "DeletionStepSucceeded") => Said(q, "DeletionStepSucceeded")'
          /\ Said(creq, "DeletionStepSucceeded")'
      BY <2>7, TellSays DEF TellSucceeded, Tell, Said
    <3> QED
      BY <2>7, <3>1 DEF TellSucceeded, DeadLetterInv, ClaimedFirst, FirstTry, LiveOrDone, Live,
                        InRetry, Carrying
  <2>8. CASE TellRetrying
    <3>1. \A q : /\ Said(q, "DeletionStepFailed")' <=> Said(q, "DeletionStepFailed")
                 /\ Said(q, "DeletionStepSucceeded") => Said(q, "DeletionStepSucceeded")'
      BY <2>8, TellSays DEF TellRetrying, Tell, Said
    <3> QED
      BY <2>8, <3>1 DEF TellRetrying, DeadLetterInv, ClaimedFirst, FirstTry, LiveOrDone, Live,
                        InRetry, Carrying
  <2>9. CASE PublishToRetryQueue
    <3>1. /\ creq \in Requests /\ retry + 1 \in 1..MAX_RETRIES
          /\ retries \in [Requests -> [1..MAX_RETRIES -> Nat]]
          /\ retries' = [retries EXCEPT ![creq][retry + 1] = @ + 1]
          /\ cpc = "requeue" /\ cpc' = "ack"
          /\ UNCHANGED <<reported, claimed, dlq, creq, retry>>
      BY <2>9 DEF PublishToRetryQueue, NoTell, CacheSafe, CacheTypeOK
    <3>2. retries'[creq][retry + 1] > 0
      BY <3>1
    <3>3. InRetry(creq)'
      BY <3>1, <3>2 DEF InRetry
    <3>4. \A p \in Requests \ {creq} : InRetry(p)' <=> InRetry(p)
      BY <3>1 DEF InRetry
    <3>5. \A p \in Requests : Live(p)' <=> Live(p)
      BY <3>1, <3>3, <3>4 DEF Live, Carrying
    <3> QED
      BY <3>1, <3>5 DEF DeadLetterInv, ClaimedFirst, FirstTry, LiveOrDone, Said, Carrying
  <2>10. CASE TellFailed
    <3>1. /\ \A q : /\ Said(q, "DeletionStepFailed")' => Said(q, "DeletionStepFailed") \/ q = creq
                    /\ Said(q, "DeletionStepSucceeded") => Said(q, "DeletionStepSucceeded")'
      BY <2>10, TellSays DEF TellFailed, Tell, Said
    <3>2. retry # 0 /\ cpc = "report" /\ cpc' = "bury" /\ creq \in Requests
          /\ UNCHANGED <<claimed, retries, dlq, creq, retry>>
      BY <2>10 DEF TellFailed, CacheSafe
    <3>3. \A q : Live(q)' <=> Live(q)
      BY <3>2 DEF Live, InRetry, Carrying
    <3>4. Live(creq)
      BY <3>2 DEF Live, Carrying
    <3> QED
      BY <3>1, <3>2, <3>3, <3>4 DEF DeadLetterInv, ClaimedFirst, FirstTry, LiveOrDone
  <2>11. CASE PublishToDlq
    <3>1. /\ creq \in Requests /\ dlq \in [Requests -> Nat]
          /\ dlq' = [dlq EXCEPT ![creq] = @ + 1]
          /\ cpc = "bury" /\ cpc' = "ack"
          /\ UNCHANGED <<reported, claimed, retries, creq, retry>>
      BY <2>11 DEF PublishToDlq, NoTell, CacheSafe, CacheTypeOK
    <3>2. dlq'[creq] > 0 /\ \A p \in Requests \ {creq} : dlq'[p] = dlq[p]
      BY <3>1
    <3>3. \A p \in Requests : Live(p)' <=> Live(p)
      BY <3>1, <3>2 DEF Live, InRetry, Carrying
    <3> QED
      BY <3>1, <3>3 DEF DeadLetterInv, ClaimedFirst, FirstTry, LiveOrDone, Said, Carrying
  <2>12. CASE AckCache
    BY <2>12 DEF AckCache, Settle, NoTell, DeadLetterInv, ClaimedFirst, FirstTry, LiveOrDone,
                 Live, InRetry, Said, Carrying
  <2>13. CASE CrashCache
    <3>1. CASE retry = 0
      BY <2>13, <3>1 DEF CrashCache, NoTell, DeadLetterInv, ClaimedFirst, FirstTry, LiveOrDone,
                 Live, InRetry, Said, Carrying
    <3>2. CASE retry # 0
      <4>1. /\ creq \in Requests /\ retry \in 1..MAX_RETRIES
            /\ retries \in [Requests -> [1..MAX_RETRIES -> Nat]]
            /\ retries' = [retries EXCEPT ![creq][retry] = @ + 1]
            /\ cpc' = "idle"
            /\ UNCHANGED <<reported, claimed, dlq>>
        BY <2>13, <3>2 DEF CrashCache, NoTell, CacheSafe, CacheTypeOK
      <4>2. retries'[creq][retry] > 0
        BY <4>1
      <4>3. \A p \in Requests : p = creq => InRetry(p)'
        BY <4>1, <4>2 DEF InRetry
      <4>4. \A p \in Requests \ {creq} : InRetry(p)' <=> InRetry(p)
        BY <4>1 DEF InRetry
      <4>5. creq \in claimed /\ \A p \in Requests : Live(p) => Live(p)'
        BY <2>13, <3>2, <4>1, <4>3, <4>4 DEF CrashCache, DeadLetterInv, ClaimedFirst, Live, Carrying
      <4> QED
        BY <4>1, <4>4, <4>5 DEF DeadLetterInv, ClaimedFirst, FirstTry, LiveOrDone, Live, Said, Carrying
    <3> QED
      BY <3>1, <3>2
  <2> QED
    BY <1>1, <2>1, <2>2, <2>3, <2>4, <2>5, <2>6, <2>7, <2>8, <2>9, <2>10, <2>11, <2>12, <2>13
       DEF CacheRun, CacheTake
<1>2. ASSUME CacheThrows, dropped' = dropped \cup {creq}, UNCHANGED callVars
      PROVE  DeadLetterInv'
  BY <1>2 DEF CacheThrows, Settle, NoTell, DeadLetterInv, ClaimedFirst, FirstTry, LiveOrDone,
              Live, InRetry, Said, Carrying, callVars
<1>3. ASSUME CallStep, UNCHANGED dropped
      PROVE  DeadLetterInv'
  <2>1. CASE ReplayStart \/ ReplayEnd \/ ReadCircuit \/ ReadFails
    BY <1>3, <2>1 DEF ReplayStart, ReplayEnd, ReadCircuit, ReadFails, cacheVars, DeadLetterInv,
                      ClaimedFirst, FirstTry, LiveOrDone, Live, InRetry, Said, Carrying, Holding
  <2>2. ASSUME NEW q \in Requests, ReplayGet(q)
        PROVE  DeadLetterInv'
    <3>1. /\ dlq \in [Requests -> Nat] /\ dlq[q] > 0 /\ dlq' = [dlq EXCEPT ![q] = @ - 1]
          /\ apc = "take" /\ apc' = "republish" /\ rreq' = q
          /\ UNCHANGED <<reported, claimed, retries, cpc, creq, retry>>
      BY <2>2 DEF ReplayGet, CacheSafe, CacheTypeOK
    <3>2. \A p \in Requests \ {q} : dlq'[p] = dlq[p]
      BY <3>1
    <3>3. \A p \in Requests : Live(p)' <=> Live(p)
      BY <3>1, <3>2 DEF Live, InRetry, Carrying
    <3>4. q \in claimed
      BY <3>1 DEF DeadLetterInv, ClaimedFirst, Live
    <3> QED
      BY <1>3, <3>1, <3>3, <3>4 DEF DeadLetterInv, ClaimedFirst, FirstTry, LiveOrDone, Said, Carrying, Holding
  <2>3. CASE ReplayPublish
    <3>1. /\ rreq \in Requests /\ MAX_RETRIES \in 1..MAX_RETRIES
          /\ retries \in [Requests -> [1..MAX_RETRIES -> Nat]]
          /\ retries' = [retries EXCEPT ![rreq][MAX_RETRIES] = @ + 1]
          /\ apc = "republish" /\ apc' = "ackDead"
          /\ UNCHANGED <<reported, claimed, dlq, cpc, creq, retry, rreq>>
      BY <2>3 DEF ReplayPublish, CacheSafe, CacheTypeOK, Holding
    <3>2. retries'[rreq][MAX_RETRIES] > 0
      BY <3>1
    <3>3. \A p \in Requests : p = rreq => InRetry(p)'
      BY <3>1, <3>2 DEF InRetry
    <3>4. \A p \in Requests \ {rreq} : InRetry(p)' <=> InRetry(p)
      BY <3>1 DEF InRetry
    <3>5. \A p \in Requests : Live(p)' <=> Live(p)
      BY <3>1, <3>3, <3>4 DEF Live, Carrying
    <3> QED
      BY <1>3, <3>1, <3>5 DEF DeadLetterInv, ClaimedFirst, FirstTry, LiveOrDone, Said, Carrying, Holding
  <2>4. CASE ReplayAck
    BY <1>3, <2>4 DEF ReplayAck, cacheVars, DeadLetterInv,
                      ClaimedFirst, FirstTry, LiveOrDone, Live, InRetry, Said, Carrying, Holding
  <2>5. CASE ReplayDies
    <3>1. /\ dlq \in [Requests -> Nat]
          /\ dlq' = IF rreq = NoRequest THEN dlq ELSE [dlq EXCEPT ![rreq] = @ + 1]
          /\ apc' = "idle"
          /\ UNCHANGED <<reported, claimed, retries, cpc, creq, retry>>
      BY <2>5 DEF ReplayDies, CacheSafe, CacheTypeOK
    <3>2. CASE apc \in Holding
      <4>1. /\ rreq \in Requests /\ dlq' = [dlq EXCEPT ![rreq] = @ + 1]
            /\ dlq'[rreq] > 0 /\ \A p \in Requests \ {rreq} : dlq'[p] = dlq[p]
        BY <3>1, <3>2, CacheAssumption DEF CacheSafe
      <4>2. \A p \in Requests : p # rreq => (Live(p)' <=> Live(p))
        BY <3>1, <4>1 DEF Live, InRetry, Carrying
      <4>3. \A p \in Requests : p = rreq => Live(p)' /\ p \in claimed
        BY <3>2, <4>1 DEF Live, DeadLetterInv, ClaimedFirst
      <4> QED
        BY <1>3, <3>1, <4>2, <4>3 DEF DeadLetterInv, ClaimedFirst, FirstTry, LiveOrDone, Said, Carrying, Holding
    <3>3. CASE apc \notin Holding
      BY <1>3, <3>1, <3>3 DEF CacheSafe, DeadLetterInv, ClaimedFirst, FirstTry, LiveOrDone, Live,
                              InRetry, Said, Carrying, Holding
    <3> QED
      BY <3>2, <3>3
  <2> QED
    BY <1>3, <2>1, <2>2, <2>3, <2>4, <2>5 DEF CallStep, Replay
<1>4. ASSUME UNCHANGED <<callVars, dropped, claimed, retries, dlq, cpc, creq, retry, reported>>
      PROVE  DeadLetterInv'
  BY <1>4, NothingMoves DEF Carrying
<1> QED
  BY <1>1, <1>2, <1>3, <1>4, DropCases

\* A request told FAILED after its retries is not forgotten, whatever worker,
\* replay and their crashes do to its copies; only an outage in the worker's
\* catch block loses it.
THEOREM DeadLettersAreKept == AdminSpec => []DeadLetterKept
<1>1. DeadLetterInv => DeadLetterKept
  BY DEF DeadLetterInv, LiveOrDone, Live, DeadLetterKept
<1> QED
  BY InitCacheSafe, NextCacheSafe, InitDeadLetter, NextDeadLetter, <1>1, PTL DEF AdminSpec

-----------------------------------------------------------------------------
(***************************************************************************)
(* The circuit status.  The window's key appears only while the circuit is *)
(* OPEN; so if it was missing when the call read OPEN and is there when    *)
(* the call reads it, the breaker was opened in between.                   *)
(***************************************************************************)
Witnessed ==
  /\ apc = "readWindow" /\ sawOpen = "OPEN" /\ openUntil => wasOpen
  /\ apc \in {"readCount", "answered"} /\ sawOpen = "OPEN" /\ sawWindow => wasOpen

LEMMA WindowOpens ==
  ASSUME CacheTruth, CacheStep, openUntil'
  PROVE  openUntil \/ circuit' = "OPEN"
<1> USE DEF CacheTruth, BreakerOrder, breaker
<1>1. CASE RecordFailure \/ RecordSuccess
  BY <1>1 DEF RecordFailure, RecordSuccess
<1>2. CASE CacheTake \/ SkipOpen \/ Admit \/ ClaimNew \/ IgnoreDuplicate \/ DeleteCacheKeys \/ TellSucceeded
  BY <1>2 DEF CacheTake, TakeFirst, TakeRetry, SkipOpen, Admit, ClaimNew, IgnoreDuplicate,
              DeleteCacheKeys, TellSucceeded
<1>3. CASE TellRetrying \/ TellFailed \/ PublishToRetryQueue \/ PublishToDlq \/ CleanupFails
  BY <1>3 DEF TellRetrying, TellFailed, PublishToRetryQueue, PublishToDlq, CleanupFails
<1>4. CASE AckCache \/ CacheThrows \/ CrashCache \/ WindowExpires
  BY <1>4 DEF AckCache, CacheThrows, CrashCache, WindowExpires
<1> QED
  BY <1>1, <1>2, <1>3, <1>4 DEF CacheStep, CacheRun

LEMMA NextWitnessed == CacheTruth /\ Witnessed /\ [AdminNext]_adminVars => Witnessed'
<1> SUFFICES ASSUME CacheTruth, Witnessed, [AdminNext]_adminVars
             PROVE  Witnessed'
  OBVIOUS
<1> USE DEF Witnessed
<1>0. CASE UNCHANGED adminVars
  BY <1>0 DEF adminVars, cacheVars, callVars
<1>1. ASSUME CacheStep, UNCHANGED callVars, Watch
      PROVE  Witnessed'
  <2>1. CASE apc = "readWindow" /\ openUntil'
    BY <1>1, <2>1, WindowOpens DEF Watch, BreakerOpen, callVars
  <2>2. CASE ~(apc = "readWindow" /\ openUntil')
    BY <1>1, <2>2 DEF Watch, callVars
  <2> QED
    BY <2>1, <2>2
<1>2. ASSUME UNCHANGED <<callVars, breaker>>, Watch
      PROVE  Witnessed'
  <2>1. /\ apc' = apc /\ sawOpen' = sawOpen /\ sawWindow' = sawWindow /\ openUntil' = openUntil
        /\ apc \in {"readWindow", "readCount", "answered"} /\ wasOpen => wasOpen'
    BY <1>2 DEF Watch, callVars, breaker
  <2> QED
    BY <2>1
<1>3. ASSUME ReadCircuit, Watch
      PROVE  Witnessed'
  <2>0. openUntil' = openUntil
    BY <1>3 DEF ReadCircuit, cacheVars
  <2>1. CASE apc = "idle" /\ apc' = "readWindow" /\ sawOpen' = circuit
    <3>1. circuit = "OPEN" /\ openUntil => wasOpen'
      BY <1>3, <2>1 DEF Watch, BreakerOpen
    <3> QED
      BY <2>0, <2>1, <3>1
  <2>2. CASE apc = "readWindow" /\ apc' = "readCount" /\ sawWindow' = openUntil /\ sawOpen' = sawOpen
    <3>1. wasOpen => wasOpen'
      BY <1>3, <2>2 DEF Watch
    <3> QED
      BY <2>2, <3>1
  <2>3. CASE apc = "readCount" /\ apc' = "answered" /\ UNCHANGED <<sawOpen, sawWindow>>
    <3>1. wasOpen' = wasOpen
      BY <1>3, <2>3 DEF Watch
    <3> QED
      BY <2>3, <3>1
  <2>4. CASE apc' = "idle"
    BY <2>4
  <2> QED
    BY <1>3, <2>1, <2>2, <2>3, <2>4 DEF ReadCircuit
<1>4. ASSUME ReplayStart \/ Replay \/ ReplayDies \/ ReadFails
      PROVE  Witnessed'
  BY <1>4 DEF ReplayStart, Replay, ReplayGet, ReplayPublish, ReplayAck, ReplayEnd, ReplayDies, ReadFails
<1> QED
  BY <1>0, <1>1, <1>2, <1>3, <1>4
     DEF AdminNext, Beside, Call, Revive, WorkerCrashes, WorkerDrops, CacheStep,
         Announce, TakeResult, breaker

LEMMA InitWitnessed == AdminInit => Witnessed
BY DEF AdminInit, Witnessed

\* A circuit shown OPEN was open at some moment of the call, although worker
\* and call access its keys one at a time.
THEOREM OpenIsWitnessed == AdminSpec => []OpenShownWasOpen
<1>1. Witnessed => OpenShownWasOpen
  BY DEF Witnessed, OpenShownWasOpen, CircuitState
<1> QED
  BY InitCacheSafe, NextCacheSafe, InitCacheTruth, NextCacheTruth, InitWitnessed, NextWitnessed,
     <1>1, PTL DEF AdminSpec

-----------------------------------------------------------------------------
(***************************************************************************)
(* One final word.  As long as nothing disturbs the worker a request has   *)
(* one copy, and what was said of it tells where that copy is: nothing     *)
(* before its first delivery, no final word while it is tried or waits, one*)
(* final word when it is gone.                                             *)
(***************************************************************************)
Busy(q) == cpc # "idle" /\ creq = q

Speechless(q) == \A type \in EventTypes : ~Said(q, type)

OneCopy(q) ==
  /\ \A n, m \in 1..MAX_RETRIES : retries[q][n] > 0 /\ retries[q][m] > 0 => n = m
  /\ \A n \in 1..MAX_RETRIES : retries[q][n] <= 1
  /\ dlq[q] <= 1
  /\ InRetry(q) => ~HasFinalWord(q) /\ dlq[q] = 0

OneWord(q) ==
  /\ ~(Said(q, "DeletionStepSucceeded") /\ Said(q, "DeletionStepFailed"))
  /\ Said(q, "CIRCUIT_OPEN_SKIP") =>
       \A type \in EventTypes \ {"CIRCUIT_OPEN_SKIP"} : ~Said(q, type)

Waiting(q) == q \notin acked[Cache] /\ ~Busy(q) => Speechless(q) /\ ~InRetry(q) /\ dlq[q] = 0

Tried(q) ==
  Busy(q) =>
    /\ retry = 0 <=> q \notin acked[Cache]
    /\ cpc \in {"check", "claim"} => retry = 0 /\ Speechless(q)
    /\ cpc # "ack" => ~InRetry(q) /\ dlq[q] = 0
    /\ cpc \notin {"ack", "bury"} => ~HasFinalWord(q)

WordOf(q) == OneCopy(q) /\ OneWord(q) /\ Waiting(q) /\ Tried(q)

WordTypes ==
  /\ retries \in [Requests -> [1..MAX_RETRIES -> Nat]]
  /\ dlq \in [Requests -> Nat]
  /\ cpc # "idle" => creq \in Requests
  /\ cpc = "requeue" => retry < MAX_RETRIES
  /\ retry \in 0..MAX_RETRIES
  /\ Cache \in DOMAIN acked

LEMMA FinalWords ==
  ASSUME NEW q
  PROVE  /\ HasFinalWord(q) <=> \/ Said(q, "DeletionStepSucceeded") \/ Said(q, "DeletionStepFailed")
                                \/ Said(q, "CIRCUIT_OPEN_SKIP")
         /\ HasFinalWord(q)' <=> \/ Said(q, "DeletionStepSucceeded")' \/ Said(q, "DeletionStepFailed")'
                                 \/ Said(q, "CIRCUIT_OPEN_SKIP")'
BY DEF HasFinalWord, EventTypes, WritesStep, Terminal, StatusOf

LEMMA TellAdds ==
  ASSUME NEW type, Tell(type)
  PROVE  \A q, other : Said(q, other)' <=> Said(q, other) \/ (q = creq /\ other = type)
BY DEF Tell, Said

\* A request the step is not about.
LEMMA OthersKept ==
  ASSUME NEW q \in Requests, WordOf(q), ~Busy(q), ~Busy(q)', retries'[q] = retries[q], dlq'[q] = dlq[q],
         \A type : Said(q, type)' <=> Said(q, type), q \in acked'[Cache] <=> q \in acked[Cache]
  PROVE  WordOf(q)'
<1>1. HasFinalWord(q)' <=> HasFinalWord(q)
  BY FinalWords
<1>2. InRetry(q)' <=> InRetry(q)
  BY DEF InRetry
<1> QED
  BY <1>1, <1>2 DEF WordOf, OneCopy, OneWord, Waiting, Tried, Speechless

\* A request in the worker's hands of which nothing new is said, and of which
\* no copy is made or taken.
LEMMA MovesOn ==
  ASSUME NEW q \in Requests, WordOf(q), Busy(q), cpc' # "idle", UNCHANGED <<creq, retry, acked, retries, dlq>>,
         \A type : Said(q, type)' <=> Said(q, type),
         cpc' \in {"check", "claim"} => cpc \in {"check", "claim"},
         cpc \notin {"ack", "bury"}, cpc' \notin {"ack", "bury"}
  PROVE  WordOf(q)'
<1>1. HasFinalWord(q)' <=> HasFinalWord(q)
  BY FinalWords
<1>2. InRetry(q)' <=> InRetry(q)
  BY DEF InRetry
<1> QED
  BY <1>1, <1>2 DEF WordOf, OneCopy, OneWord, Waiting, Tried, Speechless, Busy

LEMMA WorkerKeepsWord ==
  ASSUME WordTypes, \A q \in Requests : WordOf(q), CacheRun \/ CleanupFails \/ WindowExpires,
         NEW q \in Requests
  PROVE  WordOf(q)'
<1> USE DEF WordTypes
<1>0. WordOf(q)
  OBVIOUS
<1>1. ASSUME NEW p \in Requests, TakeFirst(p)
      PROVE  WordOf(q)'
  <2>1. /\ cpc = "idle" /\ cpc' = "check" /\ creq' = p /\ retry' = 0 /\ p \notin acked[Cache]
        /\ UNCHANGED <<retries, dlq, acked>> /\ \A other, type : Said(other, type)' <=> Said(other, type)
    BY <1>1 DEF TakeFirst, NoTell, Said
  <2>2. CASE q = p
    <3>1. /\ HasFinalWord(q)' <=> HasFinalWord(q)
          /\ InRetry(q)' <=> InRetry(q)
      BY <2>1, FinalWords DEF InRetry
    <3>2. Speechless(q) => ~HasFinalWord(q)
      BY FinalWords DEF Speechless, EventTypes
    <3> QED
      BY <1>0, <2>1, <2>2, <3>1, <3>2
      DEF WordOf, OneCopy, OneWord, Waiting, Tried, Speechless, Busy
  <2>3. CASE q # p
    BY <1>0, <2>1, <2>3, OthersKept DEF Busy
  <2> QED
    BY <2>2, <2>3
<1>2. ASSUME NEW p \in Requests, NEW n \in 1..MAX_RETRIES, TakeRetry(p, n)
      PROVE  WordOf(q)'
  <2>1. /\ cpc = "idle" /\ cpc' = "work" /\ creq' = p /\ retry' = n /\ retries[p][n] > 0
        /\ retries' = [retries EXCEPT ![p][n] = @ - 1] /\ UNCHANGED <<dlq, acked>>
        /\ \A other, type : Said(other, type)' <=> Said(other, type)
    BY <1>2 DEF TakeRetry, NoTell, Said
  <2>2. CASE q = p
    <3>1. InRetry(q)
      BY <2>1, <2>2 DEF InRetry
    <3>2. /\ ~HasFinalWord(q)' /\ dlq'[q] = 0 /\ q \in acked'[Cache]
      BY <1>0, <2>1, <3>1, FinalWords DEF WordOf, OneCopy, Waiting, Busy
    <3>c. \A m \in 1..MAX_RETRIES : retries[q][m] \in Nat
      OBVIOUS
    <3>3. retries[q][n] = 1 /\ \A m \in 1..MAX_RETRIES : m # n => retries[q][m] = 0
      BY <1>0, <2>1, <2>2, <3>c DEF WordOf, OneCopy
    <3>4. \A m \in 1..MAX_RETRIES : retries'[q][m] = 0
      <4>1. retries'[q] = [retries[q] EXCEPT ![n] = retries[q][n] - 1]
        BY <2>1, <2>2
      <4>2. DOMAIN retries[q] = 1..MAX_RETRIES
        OBVIOUS
      <4> QED
        BY <3>3, <4>1, <4>2
    <3>5. ~InRetry(q)' /\ n # 0
      BY <3>4 DEF InRetry
    <3> QED
      BY <1>0, <2>1, <2>2, <3>2, <3>4, <3>5
      DEF WordOf, OneCopy, OneWord, Waiting, Tried, Busy
  <2>3. CASE q # p
    <3>1. retries'[q] = retries[q]
      BY <2>1, <2>3
    <3> QED
      BY <1>0, <2>1, <2>3, <3>1, OthersKept DEF Busy
  <2> QED
    BY <2>2, <2>3
<1>3. CASE SkipOpen \/ IgnoreDuplicate \/ TellSucceeded \/ TellRetrying \/ TellFailed
  <2>1. PICK type \in EventTypes :
          /\ Tell(type)
          /\ type \in {"CIRCUIT_OPEN_SKIP", "DUPLICATE_EVENT_IGNORED"} => cpc \in {"check", "claim"} /\ cpc' = "ack"
          /\ type = "DeletionStepSucceeded" => cpc = "succeeded" /\ cpc' = "ack"
          /\ type = "DeletionStepFailed" => cpc = "report" /\ cpc' = "bury"
          /\ type = "DeletionStepRetrying" => cpc = "report" /\ cpc' = "requeue"
    BY <1>3, Zenon DEF SkipOpen, IgnoreDuplicate, TellSucceeded, TellRetrying, TellFailed, EventTypes
  <2>2. UNCHANGED <<creq, retry, acked, retries, dlq>>
    BY <1>3 DEF SkipOpen, IgnoreDuplicate, TellSucceeded, TellRetrying, TellFailed
  <2>3. \A p, other : Said(p, other)' <=> Said(p, other) \/ (p = creq /\ other = type)
    BY <2>1, TellAdds
  <2>4. cpc \in {"check", "claim", "succeeded", "report"} /\ cpc' \in {"ack", "bury", "requeue"}
    BY <2>1 DEF EventTypes
  <2>5. CASE q = creq
    <3>1. Busy(q) /\ Busy(q)'
      BY <2>2, <2>4, <2>5 DEF Busy
    <3>2. InRetry(q)' <=> InRetry(q)
      BY <2>2 DEF InRetry
    <3>3. ~InRetry(q) /\ dlq[q] = 0 /\ ~HasFinalWord(q) /\ (retry = 0 <=> q \notin acked[Cache])
      BY <1>0, <2>4, <3>1 DEF WordOf, Tried
    <3>4. /\ ~Said(q, "DeletionStepSucceeded") /\ ~Said(q, "DeletionStepFailed")
          /\ ~Said(q, "CIRCUIT_OPEN_SKIP")
      BY <3>3, FinalWords
    <3>5. type = "CIRCUIT_OPEN_SKIP" => Speechless(q)
      BY <1>0, <2>1, <3>1 DEF WordOf, Tried
    <3>6. OneWord(q)'
      BY <2>3, <3>4, <3>5 DEF OneWord, Speechless
    <3>7. cpc' = "requeue" => ~HasFinalWord(q)'
      BY <2>1, <2>3, <3>4, FinalWords DEF EventTypes
    <3> QED
      BY <1>0, <2>2, <2>4, <3>1, <3>2, <3>3, <3>6, <3>7 DEF WordOf, OneCopy, Waiting, Tried
  <2>6. CASE q # creq
    BY <1>0, <2>2, <2>3, <2>6, OthersKept DEF Busy
  <2> QED
    BY <2>5, <2>6
<1>4. CASE Admit \/ ClaimNew \/ DeleteCacheKeys \/ RecordSuccess \/ RecordFailure \/ CleanupFails
  <2>1. /\ UNCHANGED <<creq, retry, acked, retries, dlq>> /\ \A other, type : Said(other, type)' <=> Said(other, type)
    BY <1>4 DEF Admit, ClaimNew, DeleteCacheKeys, RecordSuccess, RecordFailure, CleanupFails, NoTell, Said
  <2>2. /\ cpc \notin {"idle", "ack", "bury"} /\ cpc' \notin {"idle", "ack", "bury"}
        /\ cpc' \in {"check", "claim"} => cpc \in {"check", "claim"}
    BY <1>4 DEF Admit, ClaimNew, DeleteCacheKeys, RecordSuccess, RecordFailure, CleanupFails
  <2>3. CASE q = creq
    BY <1>0, <2>1, <2>2, <2>3, MovesOn DEF Busy
  <2>4. CASE q # creq
    BY <1>0, <2>1, <2>4, OthersKept DEF Busy
  <2> QED
    BY <2>3, <2>4
<1>5. CASE PublishToRetryQueue
  <2>1. /\ cpc = "requeue" /\ cpc' = "ack" /\ retries' = [retries EXCEPT ![creq][retry + 1] = @ + 1]
        /\ UNCHANGED <<creq, retry, acked, dlq>> /\ \A other, type : Said(other, type)' <=> Said(other, type)
    BY <1>5 DEF PublishToRetryQueue, NoTell, Said
  <2>2. CASE q = creq
    <3>1. ~InRetry(q) /\ dlq[q] = 0 /\ ~HasFinalWord(q)' /\ (retry = 0 <=> q \notin acked[Cache])
      BY <1>0, <2>1, <2>2, FinalWords DEF WordOf, Tried, Busy
    <3>c. \A n \in 1..MAX_RETRIES : retries[q][n] \in Nat
      OBVIOUS
    <3>2. \A n \in 1..MAX_RETRIES : retries[q][n] = 0
      BY <3>1, <3>c DEF InRetry
    <3>3. \A n \in 1..MAX_RETRIES : retries'[q][n] = IF n = retry + 1 THEN 1 ELSE 0
      <4>1. retries'[q] = [retries[q] EXCEPT ![retry + 1] = retries[q][retry + 1] + 1]
        BY <2>1, <2>2
      <4>2. DOMAIN retries[q] = 1..MAX_RETRIES
        OBVIOUS
      <4> QED
        BY <3>2, <4>1, <4>2
    <3> QED
      BY <1>0, <2>1, <2>2, <3>1, <3>3 DEF WordOf, OneCopy, OneWord, Waiting, Tried, Busy
  <2>3. CASE q # creq
    <3>1. retries'[q] = retries[q]
      BY <2>1, <2>3
    <3> QED
      BY <1>0, <2>1, <2>3, <3>1, OthersKept DEF Busy
  <2> QED
    BY <2>2, <2>3
<1>6. CASE PublishToDlq
  <2>1. /\ cpc = "bury" /\ cpc' = "ack" /\ dlq' = [dlq EXCEPT ![creq] = @ + 1]
        /\ UNCHANGED <<creq, retry, acked, retries>> /\ \A other, type : Said(other, type)' <=> Said(other, type)
    BY <1>6 DEF PublishToDlq, NoTell, Said
  <2>2. CASE q = creq
    <3>1. ~InRetry(q)' /\ dlq[q] = 0 /\ (retry = 0 <=> q \notin acked[Cache])
      BY <1>0, <2>1, <2>2 DEF WordOf, Tried, Busy, InRetry
    <3>2. dlq'[q] = 1
      BY <2>1, <2>2, <3>1
    <3> QED
      BY <1>0, <2>1, <2>2, <3>1, <3>2 DEF WordOf, OneCopy, OneWord, Waiting, Tried, Busy
  <2>3. CASE q # creq
    BY <1>0, <2>1, <2>3, OthersKept DEF Busy
  <2> QED
    BY <2>2, <2>3
<1>7. CASE AckCache
  <2>1. /\ cpc = "ack" /\ cpc' = "idle" /\ UNCHANGED <<retries, dlq>>
        /\ acked' = IF retry = 0 THEN [acked EXCEPT ![Cache] = @ \cup {creq}] ELSE acked
        /\ \A other, type : Said(other, type)' <=> Said(other, type)
    BY <1>7 DEF AckCache, Settle, NoTell, Said
  <2>2. acked'[Cache] = IF retry = 0 THEN acked[Cache] \cup {creq} ELSE acked[Cache]
    BY <2>1
  <2>3. CASE q = creq
    <3>1. /\ HasFinalWord(q)' <=> HasFinalWord(q)
          /\ InRetry(q)' <=> InRetry(q)
      BY <2>1, FinalWords DEF InRetry
    <3>2. q \in acked'[Cache]
      BY <1>0, <2>1, <2>2, <2>3 DEF WordOf, Tried, Busy
    <3> QED
      BY <1>0, <2>1, <3>1, <3>2 DEF WordOf, OneCopy, OneWord, Waiting, Tried, Busy
  <2>4. CASE q # creq
    BY <1>0, <2>1, <2>2, <2>4, OthersKept DEF Busy
  <2> QED
    BY <2>3, <2>4
<1>8. CASE WindowExpires
  <2>1. /\ UNCHANGED <<cpc, creq, retry, acked, retries, dlq>>
        /\ \A other, type : Said(other, type)' <=> Said(other, type)
    BY <1>8 DEF WindowExpires, Said
  <2>2. /\ HasFinalWord(q)' <=> HasFinalWord(q)
        /\ InRetry(q)' <=> InRetry(q)
    BY <2>1, FinalWords DEF InRetry
  <2> QED
    BY <1>0, <2>1, <2>2 DEF WordOf, OneCopy, OneWord, Waiting, Tried, Busy, Speechless
<1> QED
  BY <1>1, <1>2, <1>3, <1>4, <1>5, <1>6, <1>7, <1>8 DEF CacheRun, CacheTake

\* Nor does the worker forget a request: one it acknowledged has a copy waiting
\* or its final word, and what it claimed it has not left unanswered.
NotForgotten(q) ==
  /\ q \in acked[Cache] /\ ~Busy(q) => InRetry(q) \/ HasFinalWord(q)
  /\ Busy(q) /\ cpc \in {"bury", "ack"} => InRetry(q) \/ HasFinalWord(q)
  /\ q \in claimed => q \in acked[Cache] \/ (Busy(q) /\ cpc \notin {"check", "claim"})

LEMMA WorkerForgetsNone ==
  ASSUME WordTypes, NEW q \in Requests, WordOf(q), NotForgotten(q), CacheRun \/ CleanupFails \/ WindowExpires
  PROVE  NotForgotten(q)'
<1> USE DEF WordTypes
<1>1. ASSUME NEW p \in Requests, TakeFirst(p)
      PROVE  NotForgotten(q)'
  <2>1. /\ cpc = "idle" /\ cpc' = "check" /\ creq' = p /\ p \notin acked[Cache]
        /\ UNCHANGED <<retries, acked, claimed>> /\ \A type : Said(q, type)' <=> Said(q, type)
    BY <1>1 DEF TakeFirst, NoTell, Said
  <2>2. /\ HasFinalWord(q)' <=> HasFinalWord(q)
        /\ InRetry(q)' <=> InRetry(q)
    BY <2>1, FinalWords DEF InRetry
  <2> QED
    BY <2>1, <2>2 DEF NotForgotten, Busy
<1>2. ASSUME NEW p \in Requests, NEW n \in 1..MAX_RETRIES, TakeRetry(p, n)
      PROVE  NotForgotten(q)'
  <2>1. /\ cpc = "idle" /\ cpc' = "work" /\ creq' = p /\ retries' = [retries EXCEPT ![p][n] = @ - 1]
        /\ UNCHANGED <<acked, claimed>> /\ \A type : Said(q, type)' <=> Said(q, type)
    BY <1>2 DEF TakeRetry, NoTell, Said
  <2>2. CASE q = p
    BY <2>1, <2>2 DEF NotForgotten, Busy
  <2>3. CASE q # p
    <3>1. retries'[q] = retries[q]
      BY <2>1, <2>3
    <3>2. /\ HasFinalWord(q)' <=> HasFinalWord(q)
          /\ InRetry(q)' <=> InRetry(q)
      BY <2>1, <3>1, FinalWords DEF InRetry
    <3> QED
      BY <2>1, <2>3, <3>2 DEF NotForgotten, Busy
  <2> QED
    BY <2>2, <2>3
<1>3. CASE SkipOpen \/ IgnoreDuplicate \/ TellSucceeded \/ TellRetrying \/ TellFailed
  <2>1. PICK type \in EventTypes :
          /\ Tell(type)
          /\ type = "DUPLICATE_EVENT_IGNORED" => cpc = "claim" /\ creq \in claimed
          /\ type = "DeletionStepRetrying" => cpc' = "requeue"
    BY <1>3, Zenon DEF SkipOpen, IgnoreDuplicate, TellSucceeded, TellRetrying, TellFailed, EventTypes
  <2>2. /\ UNCHANGED <<creq, retry, acked, retries, claimed>>
        /\ cpc # "idle" /\ cpc' \in {"ack", "bury", "requeue"}
    BY <1>3 DEF SkipOpen, IgnoreDuplicate, TellSucceeded, TellRetrying, TellFailed
  <2>3. \A p, other : Said(p, other)' <=> Said(p, other) \/ (p = creq /\ other = type)
    BY <2>1, TellAdds
  <2>4. /\ HasFinalWord(q) => HasFinalWord(q)'
        /\ InRetry(q)' <=> InRetry(q)
    BY <2>2, <2>3, FinalWords DEF InRetry
  <2>5. CASE q = creq
    <3>1. Busy(q) /\ Busy(q)'
      BY <2>2, <2>5 DEF Busy
    <3>2. type # "DUPLICATE_EVENT_IGNORED"
      BY <2>1, <2>5, <3>1 DEF WordOf, Tried, NotForgotten
    <3>3. cpc' # "requeue" => HasFinalWord(q)'
      BY <2>1, <2>3, <2>5, <3>2, FinalWords DEF EventTypes
    <3> QED
      BY <2>2, <3>1, <3>3 DEF NotForgotten
  <2>6. CASE q # creq
    BY <2>2, <2>4, <2>6 DEF NotForgotten, Busy
  <2> QED
    BY <2>5, <2>6
<1>4. CASE Admit \/ ClaimNew \/ DeleteCacheKeys \/ RecordSuccess \/ RecordFailure \/ CleanupFails
  <2>1. /\ UNCHANGED <<creq, acked, retries>> /\ \A type : Said(q, type)' <=> Said(q, type)
        /\ claimed' = claimed \/ (claimed' = claimed \cup {creq} /\ cpc' = "work")
    BY <1>4 DEF Admit, ClaimNew, DeleteCacheKeys, RecordSuccess, RecordFailure, CleanupFails, NoTell, Said
  <2>2. /\ cpc # "idle" /\ cpc' \notin {"idle", "ack", "bury"}
        /\ cpc' \in {"check", "claim"} => cpc \in {"check", "claim"}
    BY <1>4 DEF Admit, ClaimNew, DeleteCacheKeys, RecordSuccess, RecordFailure, CleanupFails
  <2>3. /\ HasFinalWord(q)' <=> HasFinalWord(q)
        /\ InRetry(q)' <=> InRetry(q)
    BY <2>1, FinalWords DEF InRetry
  <2> QED
    BY <2>1, <2>2, <2>3 DEF NotForgotten, Busy
<1>5. CASE PublishToRetryQueue
  <2>1. /\ cpc = "requeue" /\ cpc' = "ack" /\ retries' = [retries EXCEPT ![creq][retry + 1] = @ + 1]
        /\ UNCHANGED <<creq, acked, claimed>> /\ \A type : Said(q, type)' <=> Said(q, type)
    BY <1>5 DEF PublishToRetryQueue, NoTell, Said
  <2>2. HasFinalWord(q)' <=> HasFinalWord(q)
    BY <2>1, FinalWords
  <2>3. CASE q = creq
    <3>1. retry + 1 \in 1..MAX_RETRIES /\ retries[q][retry + 1] \in Nat
      BY <2>1, CacheAssumption
    <3>2. retries'[q] = [retries[q] EXCEPT ![retry + 1] = retries[q][retry + 1] + 1]
      BY <2>1, <2>3
    <3>3. DOMAIN retries[q] = 1..MAX_RETRIES
      OBVIOUS
    <3>4. retries'[q][retry + 1] > 0
      BY <3>1, <3>2, <3>3
    <3>5. InRetry(q)'
      BY <3>1, <3>4 DEF InRetry
    <3> QED
      BY <2>1, <2>3, <3>5 DEF NotForgotten, Busy
  <2>4. CASE q # creq
    <3>1. InRetry(q)' <=> InRetry(q)
      BY <2>1, <2>4 DEF InRetry
    <3> QED
      BY <2>1, <2>2, <2>4, <3>1 DEF NotForgotten, Busy
  <2> QED
    BY <2>3, <2>4
<1>6. CASE PublishToDlq \/ WindowExpires
  <2>1. /\ UNCHANGED <<creq, acked, retries, claimed>> /\ \A type : Said(q, type)' <=> Said(q, type)
        /\ cpc' = cpc \/ (cpc = "bury" /\ cpc' = "ack")
    BY <1>6 DEF PublishToDlq, WindowExpires, NoTell, Said
  <2>2. /\ HasFinalWord(q)' <=> HasFinalWord(q)
        /\ InRetry(q)' <=> InRetry(q)
    BY <2>1, FinalWords DEF InRetry
  <2> QED
    BY <2>1, <2>2 DEF NotForgotten, Busy
<1>7. CASE AckCache
  <2>1. /\ cpc = "ack" /\ cpc' = "idle" /\ UNCHANGED <<retries, claimed>>
        /\ acked' = IF retry = 0 THEN [acked EXCEPT ![Cache] = @ \cup {creq}] ELSE acked
        /\ \A type : Said(q, type)' <=> Said(q, type)
    BY <1>7 DEF AckCache, Settle, NoTell, Said
  <2>2. acked'[Cache] = IF retry = 0 THEN acked[Cache] \cup {creq} ELSE acked[Cache]
    BY <2>1
  <2>3. /\ HasFinalWord(q)' <=> HasFinalWord(q)
        /\ InRetry(q)' <=> InRetry(q)
    BY <2>1, FinalWords DEF InRetry
  <2>4. Busy(q) => q \in acked'[Cache]
    BY <2>2 DEF WordOf, Tried, Busy
  <2>5. Busy(q) <=> q = creq
    BY <2>1 DEF Busy
  <2> QED
    BY <2>1, <2>2, <2>3, <2>4, <2>5 DEF NotForgotten, Busy
<1> QED
  BY <1>1, <1>2, <1>3, <1>4, <1>5, <1>6, <1>7 DEF CacheRun, CacheTake

IdleHoldsNone == cpc = "idle" => creq = NoRequest

LEMMA WorkerIdles ==
  ASSUME IdleHoldsNone, CacheRun \/ CleanupFails \/ WindowExpires
  PROVE  IdleHoldsNone'
BY DEF IdleHoldsNone, CacheRun, CacheTake, TakeFirst, TakeRetry, SkipOpen, Admit, ClaimNew, IgnoreDuplicate,
       DeleteCacheKeys, RecordSuccess, TellSucceeded, RecordFailure, TellRetrying, PublishToRetryQueue,
       TellFailed, PublishToDlq, AckCache, Settle, CleanupFails, WindowExpires

LEMMA WorkerKeepsTypes ==
  ASSUME WordTypes, CacheRun \/ CleanupFails \/ WindowExpires
  PROVE  WordTypes'
<1> USE CacheAssumption DEF WordTypes
<1>1. ASSUME NEW q \in Requests, NEW n \in 1..MAX_RETRIES, TakeRetry(q, n)
      PROVE  WordTypes'
  <2>1. retries[q][n] - 1 \in Nat
    <3>1. retries[q][n] \in Nat /\ retries[q][n] > 0
      BY <1>1 DEF TakeRetry
    <3> QED
      BY <3>1
  <2>2. retries' \in [Requests -> [1..MAX_RETRIES -> Nat]]
    BY <1>1, <2>1 DEF TakeRetry
  <2> QED
    BY <1>1, <2>2 DEF TakeRetry
<1>2. CASE PublishToRetryQueue
  <2>1. creq \in Requests /\ retry + 1 \in 1..MAX_RETRIES /\ retries[creq][retry + 1] + 1 \in Nat
    BY <1>2 DEF PublishToRetryQueue
  <2>2. retries' \in [Requests -> [1..MAX_RETRIES -> Nat]]
    BY <1>2, <2>1 DEF PublishToRetryQueue
  <2> QED
    BY <1>2, <2>2 DEF PublishToRetryQueue
<1>3. CASE AckCache
  BY <1>3 DEF AckCache, Settle
<1>4. CASE PublishToDlq
  BY <1>4 DEF PublishToDlq
<1>5. CASE \/ \E q \in Requests : TakeFirst(q)
           \/ SkipOpen \/ Admit \/ ClaimNew \/ IgnoreDuplicate \/ DeleteCacheKeys
           \/ RecordSuccess \/ TellSucceeded \/ RecordFailure \/ TellRetrying \/ TellFailed
           \/ CleanupFails \/ WindowExpires
  <2>1. UNCHANGED <<retries, dlq, acked>>
    BY <1>5 DEF TakeFirst, SkipOpen, Admit, ClaimNew, IgnoreDuplicate, DeleteCacheKeys, RecordSuccess,
                TellSucceeded, RecordFailure, TellRetrying, TellFailed, CleanupFails, WindowExpires
  <2>2. cpc' # "idle" => creq' \in Requests
    BY <1>5 DEF TakeFirst, SkipOpen, Admit, ClaimNew, IgnoreDuplicate, DeleteCacheKeys, RecordSuccess,
                TellSucceeded, RecordFailure, TellRetrying, TellFailed, CleanupFails, WindowExpires
  <2>3. retry' \in 0..MAX_RETRIES /\ (cpc' = "requeue" => retry' < MAX_RETRIES)
    BY <1>5 DEF TakeFirst, SkipOpen, Admit, ClaimNew, IgnoreDuplicate, DeleteCacheKeys, RecordSuccess,
                TellSucceeded, RecordFailure, TellRetrying, TellFailed, CleanupFails, WindowExpires
  <2> QED
    BY <2>1, <2>2, <2>3
<1> QED
  BY <1>1, <1>2, <1>3, <1>4, <1>5 DEF CacheRun, CacheTake

\* A replay is the end of the calm, and so is a crash or an outage.
CalmWords ==
  calm => /\ apc \notin {"take", "republish", "ackDead"}
          /\ IdleHoldsNone
          /\ \A q \in Requests : WordOf(q)

LEMMA InitCalmWords == AdminInit => CalmWords
BY FinalWords
DEF AdminInit, Init, CacheInit, CalmWords, WordOf, OneCopy, OneWord, Waiting, Tried, Busy, Speechless,
    InRetry, Said, IdleHoldsNone

LEMMA NextCalmWords == CacheSafe /\ CalmWords /\ [AdminNext]_adminVars => CalmWords'
<1> SUFFICES ASSUME CacheSafe, CalmWords, [AdminNext]_adminVars, calm'
             PROVE  /\ apc' \notin {"take", "republish", "ackDead"}
                    /\ IdleHoldsNone'
                    /\ \A q \in Requests : WordOf(q)'
  BY DEF CalmWords
<1>1. CASE (CacheRun \/ CleanupFails \/ WindowExpires) /\ UNCHANGED <<callVars, calm>>
  <2>1. WordTypes
    BY CacheAssumption DEF CacheSafe, CacheTypeOK, WordTypes
  <2> QED
    BY <1>1, <2>1, WorkerKeepsWord, WorkerIdles DEF CalmWords, callVars
<1>2. CASE /\ UNCHANGED <<acked, retries, dlq, cpc, creq, retry, reported, calm>>
           /\ apc' \in {"take", "republish", "ackDead"} => apc \in {"take", "republish", "ackDead"}
  <2>1. \A q, type : Said(q, type)' <=> Said(q, type)
    BY <1>2 DEF Said
  <2>2. \A q : /\ HasFinalWord(q)' <=> HasFinalWord(q)
               /\ InRetry(q)' <=> InRetry(q)
    BY <1>2, <2>1, FinalWords DEF InRetry
  <2> QED
    BY <1>2, <2>1, <2>2
    DEF CalmWords, WordOf, OneCopy, OneWord, Waiting, Tried, Busy, Speechless, IdleHoldsNone
<1>3. CASE (Replay \/ ReplayDies) /\ UNCHANGED calm
  BY <1>3 DEF Replay, ReplayGet, ReplayPublish, ReplayAck, ReplayEnd, ReplayDies, CalmWords
<1> QED
  BY <1>1, <1>2, <1>3
  DEF AdminNext, Beside, Call, Revive, WorkerCrashes, WorkerDrops, ReadCircuit, ReadFails,
      Announce, TakeResult, adminVars, cacheVars, callVars

\* One final word for every request until a crash, an outage or a replay: never
\* both a success and a failure, never two copies or two dead letters, whatever
\* fails, however many retries there are, and whatever the breaker does.
THEOREM FinalWordIsOne == AdminSpec => []CalmOneFinalWord
<1>1. CacheSafe /\ CalmWords => CalmOneFinalWord
  <2> SUFFICES ASSUME CacheSafe, calm, IdleHoldsNone, \A q \in Requests : WordOf(q), NEW q \in Requests
               PROVE  /\ ~(Said(q, "DeletionStepSucceeded") /\ Said(q, "DeletionStepFailed"))
                      /\ ~(Said(q, "CIRCUIT_OPEN_SKIP") /\ Said(q, "DeletionStepRetrying"))
                      /\ dlq[q] <= 1
                      /\ \A n \in 1..MAX_RETRIES : retries[q][n] <= 1
                      /\ InRetry(q) => ~HasFinalWord(q) /\ (creq = q => cpc = "ack")
    BY DEF CalmOneFinalWord, OneFinalWord, CalmWords
  <2> QED
    <3>1. creq = q => cpc # "idle"
      BY CacheAssumption DEF IdleHoldsNone
    <3> QED
      BY <3>1 DEF WordOf, OneCopy, OneWord, Tried, Busy, EventTypes
<1> QED
  BY InitCacheSafe, NextCacheSafe, InitCalmWords, NextCalmWords, <1>1, PTL DEF AdminSpec

\* Nor, while calm, is a request forgotten.
CalmCare == calm => \A q \in Requests : NotForgotten(q)

LEMMA NextCalmCare == CacheSafe /\ CalmWords /\ CalmCare /\ [AdminNext]_adminVars => CalmCare'
<1> SUFFICES ASSUME CacheSafe, CalmWords, CalmCare, [AdminNext]_adminVars, calm', NEW q \in Requests
             PROVE  NotForgotten(q)'
  BY DEF CalmCare
<1>1. CASE (CacheRun \/ CleanupFails \/ WindowExpires) /\ UNCHANGED <<callVars, calm>>
  <2>1. WordTypes
    BY CacheAssumption DEF CacheSafe, CacheTypeOK, WordTypes
  <2> QED
    BY <1>1, <2>1, WorkerForgetsNone DEF CalmWords, CalmCare
<1>2. CASE UNCHANGED <<acked, retries, claimed, cpc, creq, reported, calm>>
  <2>1. \A type : Said(q, type)' <=> Said(q, type)
    BY <1>2 DEF Said
  <2>2. /\ HasFinalWord(q)' <=> HasFinalWord(q)
        /\ InRetry(q)' <=> InRetry(q)
    BY <1>2, <2>1, FinalWords DEF InRetry
  <2> QED
    BY <1>2, <2>2 DEF CalmCare, NotForgotten, Busy
<1>3. CASE (Replay \/ ReplayDies) /\ UNCHANGED calm
  BY <1>3 DEF Replay, ReplayGet, ReplayPublish, ReplayAck, ReplayEnd, ReplayDies, CalmWords
<1> QED
  BY <1>1, <1>2, <1>3
  DEF AdminNext, Beside, Call, Revive, WorkerCrashes, WorkerDrops, ReadCircuit, ReadFails,
      Announce, TakeResult, adminVars, cacheVars, callVars

\* Until a crash, an outage or a replay no request leaves the worker's hands
\* without a final word or a retry that waits for it.
THEOREM NoneIsForgotten == AdminSpec => []CalmNoneForgotten
<1>1. AdminInit => CalmCare
  BY DEF AdminInit, Init, CacheInit, CalmCare, NotForgotten, Busy
<1>2. CacheSafe /\ CalmCare => CalmNoneForgotten
  <2> SUFFICES ASSUME CacheSafe, CalmCare, calm, NEW q \in acked[Cache], creq # q
               PROVE  HasFinalWord(q) \/ InRetry(q)
    BY DEF CalmNoneForgotten
  <2>1. q \in Requests
    BY DEF CacheSafe, CacheTypeOK
  <2> QED
    BY <2>1 DEF CalmCare, NotForgotten, Busy
<1> QED
  BY InitCacheSafe, NextCacheSafe, InitCalmWords, NextCalmWords, NextCalmCare, <1>1, <1>2, PTL DEF AdminSpec

=============================================================================
