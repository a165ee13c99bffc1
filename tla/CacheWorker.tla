----------------------------- MODULE CacheWorker -----------------------------
(***************************************************************************)
(* cache-cleanup-service: the one worker with a circuit breaker in Redis,  *)
(* a claim on the event id in Postgres, three delayed retries and a dead   *)
(* letter queue.  A message is a request and its retry-count header; copies*)
(* waiting in a retry queue or back in the main queue are counted together,*)
(* the TTL between them being only time.  Each Redis write of the breaker  *)
(* is an await of its own, so a crash can fall between two of them.        *)
(***************************************************************************)
EXTENDS Naturals, Sequences, DeletionTypes

CONSTANTS
  Requests,     \* deletion requests
  Cache,        \* the step this worker serves
  NoRequest,    \* what an idle worker holds
  Faults,       \* "crash", "throw" (Redis or Postgres rejects), "fail" (the cleanup)
  MAX_RETRIES,        \* 3
  CIRCUIT_THRESHOLD,  \* 3
  MaxCopies,    \* no crash while a retry has this many copies
  MaxQueue      \* bound on the results waiting in the queue

ASSUME CacheAssumption ==
  /\ MAX_RETRIES \in Nat \ {0} /\ CIRCUIT_THRESHOLD \in Nat \ {0}
  /\ MaxCopies \in Nat /\ MaxQueue \in Nat
  /\ NoRequest \notin Requests

VARIABLES
  creation,     \* a request is in the worker's queue once published
  results,      \* the queue erasegraph.step-results
  reported,     \* history: every step result ever published
  erased,       \* the cache keys were deleted for the request
  acked,        \* requests whose first delivery was acknowledged
  claimed,      \* processed_events: event ids this service inserted
  retries,      \* copies waiting, per request and retry-count
  dlq,          \* copies in erasegraph.dlq.cache-cleanup
  cpc, creq, retry,                   \* position, request, retry-count header
  circuit, failureCount, openUntil    \* the breaker's three Redis keys

breaker == <<circuit, failureCount, openUntil>>
cacheVars == <<creation, results, reported, erased, acked, claimed, retries,
               dlq, cpc, creq, retry, circuit, failureCount, openUntil>>

CachePositions ==
  {"idle", "check", "claim", "work", "close", "zero", "unset", "succeeded",
   "failed", "trip", "window", "untrip", "report", "requeue", "bury", "ack"}

CacheTypeOK ==
  /\ acked[Cache] \subseteq Requests
  /\ claimed \subseteq Requests
  /\ retries \in [Requests -> [1..MAX_RETRIES -> Nat]]
  /\ dlq \in [Requests -> Nat]
  /\ cpc \in CachePositions
  /\ creq \in Requests \cup {NoRequest}
  /\ retry \in 0..MAX_RETRIES
  /\ circuit \in {"CLOSED", "OPEN", "HALF_OPEN"}
  /\ failureCount \in 0..CIRCUIT_THRESHOLD
  /\ openUntil \in BOOLEAN

CacheInit ==
  /\ claimed = {}
  /\ retries = [q \in Requests |-> [n \in 1..MAX_RETRIES |-> 0]]
  /\ dlq = [q \in Requests |-> 0]
  /\ cpc = "idle"
  /\ creq = NoRequest
  /\ retry = 0

BreakerClosed == circuit = "CLOSED" /\ failureCount = 0 /\ openUntil = FALSE

\* What earlier requests may have left in Redis.
BreakerAny ==
  \/ BreakerClosed
  \/ circuit = "OPEN" /\ failureCount = CIRCUIT_THRESHOLD /\ openUntil \in BOOLEAN

Tell(type) ==
  LET m == [req |-> creq, step |-> Cache, type |-> type]
  IN  /\ Len(results) < MaxQueue
      /\ results' = Append(results, m)
      /\ reported' = reported \cup {m}

NoTell == UNCHANGED <<results, reported>>

-----------------------------------------------------------------------------
TakeFirst(q) ==
  /\ cpc = "idle"
  /\ creation[q] = "published"
  /\ q \notin acked[Cache]
  /\ creq' = q /\ retry' = 0 /\ cpc' = "check"
  /\ NoTell
  /\ UNCHANGED <<creation, erased, acked, claimed, retries, dlq, breaker>>

\* Mutant: the header is incremented on receipt too.
TakeRetry_CountsTwice(q, n) ==
  /\ cpc = "idle"
  /\ retries[q][n] > 0
  /\ retries' = [retries EXCEPT ![q][n] = @ - 1]
  /\ creq' = q /\ retry' = n + 1 /\ cpc' = "work"
  /\ NoTell
  /\ UNCHANGED <<creation, erased, acked, claimed, dlq, breaker>>

\* With a retry-count above 0, canProcess and tryClaimOriginalEvent let the
\* message through without looking at Redis or Postgres.
TakeRetry(q, n) ==
  /\ cpc = "idle"
  /\ retries[q][n] > 0
  /\ retries' = [retries EXCEPT ![q][n] = @ - 1]
  /\ creq' = q /\ retry' = n /\ cpc' = "work"
  /\ NoTell
  /\ UNCHANGED <<creation, erased, acked, claimed, dlq, breaker>>

\* canProcess: the window is over when open_until is past, or has expired
\* with its own TTL, or was never written.
SkipOpen ==
  /\ cpc = "check"
  /\ circuit = "OPEN" /\ openUntil
  /\ Tell("CIRCUIT_OPEN_SKIP")
  /\ cpc' = "ack"
  /\ UNCHANGED <<creation, erased, acked, claimed, retries, dlq, creq, retry, breaker>>

Admit ==
  /\ cpc = "check"
  /\ ~(circuit = "OPEN" /\ openUntil)
  /\ circuit' = IF circuit = "OPEN" THEN "HALF_OPEN" ELSE circuit
  /\ cpc' = "claim"
  /\ NoTell
  /\ UNCHANGED <<creation, erased, acked, claimed, retries, dlq, creq, retry,
                 failureCount, openUntil>>

\* INSERT ... ON CONFLICT DO NOTHING, in a commit of its own.
ClaimNew ==
  /\ cpc = "claim"
  /\ creq \notin claimed
  /\ claimed' = claimed \cup {creq}
  /\ cpc' = "work"
  /\ NoTell
  /\ UNCHANGED <<creation, erased, acked, retries, dlq, creq, retry, breaker>>

\* Mutant: a duplicate is answered as if the first delivery had succeeded.
IgnoreDuplicate_Succeeds ==
  /\ cpc = "claim"
  /\ creq \in claimed
  /\ Tell("DeletionStepSucceeded")
  /\ cpc' = "ack"
  /\ UNCHANGED <<creation, erased, acked, claimed, retries, dlq, creq, retry, breaker>>

IgnoreDuplicate ==
  /\ cpc = "claim"
  /\ creq \in claimed
  /\ Tell("DUPLICATE_EVENT_IGNORED")
  /\ cpc' = "ack"
  /\ UNCHANGED <<creation, erased, acked, claimed, retries, dlq, creq, retry, breaker>>

DeleteCacheKeys ==
  /\ cpc = "work"
  /\ erased' = [erased EXCEPT ![creq] = @ \cup {Cache}]
  /\ cpc' = "close"
  /\ NoTell
  /\ UNCHANGED <<creation, acked, claimed, retries, dlq, creq, retry, breaker>>

\* Mutant: the counter is reset before the circuit is closed.
RecordSuccess_CounterFirst ==
  /\ \/ /\ cpc = "close" /\ cpc' = "zero"
        /\ failureCount' = 0 /\ UNCHANGED <<circuit, openUntil>>
     \/ /\ cpc = "zero" /\ cpc' = "unset"
        /\ circuit' = "CLOSED" /\ UNCHANGED <<failureCount, openUntil>>
     \/ /\ cpc = "unset" /\ cpc' = "succeeded"
        /\ openUntil' = FALSE /\ UNCHANGED <<circuit, failureCount>>
  /\ NoTell
  /\ UNCHANGED <<creation, erased, acked, claimed, retries, dlq, creq, retry>>

\* recordCircuitSuccess: three writes.
RecordSuccess ==
  /\ \/ /\ cpc = "close" /\ cpc' = "zero"
        /\ circuit' = "CLOSED" /\ UNCHANGED <<failureCount, openUntil>>
     \/ /\ cpc = "zero" /\ cpc' = "unset"
        /\ failureCount' = 0 /\ UNCHANGED <<circuit, openUntil>>
     \/ /\ cpc = "unset" /\ cpc' = "succeeded"
        /\ openUntil' = FALSE /\ UNCHANGED <<circuit, failureCount>>
  /\ NoTell
  /\ UNCHANGED <<creation, erased, acked, claimed, retries, dlq, creq, retry>>

TellSucceeded ==
  /\ cpc = "succeeded"
  /\ Tell("DeletionStepSucceeded")
  /\ cpc' = "ack"
  /\ UNCHANGED <<creation, erased, acked, claimed, retries, dlq, creq, retry, breaker>>

\* Mutant: a failure after the success was published is treated like one before.
CleanupFails_AfterPublish ==
  /\ "fail" \in Faults
  /\ cpc \in {"work", "close", "zero", "unset", "succeeded", "ack"}
  /\ cpc' = "failed"
  /\ NoTell
  /\ UNCHANGED <<creation, erased, acked, claimed, retries, dlq, creq, retry, breaker>>

\* The cleanup, or a Redis write after it, fails: the catch block.
CleanupFails ==
  /\ "fail" \in Faults
  /\ cpc \in {"work", "close", "zero", "unset", "succeeded"}
  /\ cpc' = "failed"
  /\ NoTell
  /\ UNCHANGED <<creation, erased, acked, claimed, retries, dlq, creq, retry, breaker>>

\* recordCircuitFailure: INCR, then OPEN and its window, or CLOSED.  The
\* counter is followed up to the threshold, beyond which nothing depends on it.
RecordFailure ==
  /\ \/ /\ cpc = "failed"
        /\ failureCount' = IF failureCount < CIRCUIT_THRESHOLD
                           THEN failureCount + 1 ELSE failureCount
        /\ cpc' = IF failureCount' = CIRCUIT_THRESHOLD THEN "trip" ELSE "untrip"
        /\ UNCHANGED <<circuit, openUntil>>
     \/ /\ cpc = "trip" /\ cpc' = "window"
        /\ circuit' = "OPEN" /\ UNCHANGED <<failureCount, openUntil>>
     \/ /\ cpc = "window" /\ cpc' = "report"
        /\ openUntil' = TRUE /\ UNCHANGED <<circuit, failureCount>>
     \/ /\ cpc = "untrip" /\ cpc' = "report"
        /\ circuit' = "CLOSED" /\ UNCHANGED <<failureCount, openUntil>>
  /\ NoTell
  /\ UNCHANGED <<creation, erased, acked, claimed, retries, dlq, creq, retry>>

TellRetrying ==
  /\ cpc = "report"
  /\ retry < MAX_RETRIES
  /\ Tell("DeletionStepRetrying")
  /\ cpc' = "requeue"
  /\ UNCHANGED <<creation, erased, acked, claimed, retries, dlq, creq, retry, breaker>>

\* Mutant: no retry queue is bound to the routing key.
PublishToRetryQueue_Unroutable ==
  /\ cpc = "requeue"
  /\ cpc' = "ack"
  /\ NoTell
  /\ UNCHANGED <<creation, erased, acked, claimed, retries, dlq, creq, retry, breaker>>

PublishToRetryQueue ==
  /\ cpc = "requeue"
  /\ retries' = [retries EXCEPT ![creq][retry + 1] = @ + 1]
  /\ cpc' = "ack"
  /\ NoTell
  /\ UNCHANGED <<creation, erased, acked, claimed, dlq, creq, retry, breaker>>

\* Mutant: the last failure goes to the dead letter queue only.
TellFailed_Silent ==
  /\ cpc = "report"
  /\ retry = MAX_RETRIES
  /\ cpc' = "bury"
  /\ NoTell
  /\ UNCHANGED <<creation, erased, acked, claimed, retries, dlq, creq, retry, breaker>>

TellFailed ==
  /\ cpc = "report"
  /\ retry = MAX_RETRIES
  /\ Tell("DeletionStepFailed")
  /\ cpc' = "bury"
  /\ UNCHANGED <<creation, erased, acked, claimed, retries, dlq, creq, retry, breaker>>

PublishToDlq ==
  /\ cpc = "bury"
  /\ dlq' = [dlq EXCEPT ![creq] = @ + 1]
  /\ cpc' = "ack"
  /\ NoTell
  /\ UNCHANGED <<creation, erased, acked, claimed, retries, creq, retry, breaker>>

\* The delivery leaves the main queue for good.
Settle ==
  /\ cpc' = "idle" /\ creq' = NoRequest /\ retry' = 0
  /\ acked' = IF retry = 0 THEN [acked EXCEPT ![Cache] = @ \cup {creq}] ELSE acked

AckCache ==
  /\ cpc = "ack"
  /\ Settle
  /\ NoTell
  /\ UNCHANGED <<creation, erased, claimed, retries, dlq, breaker>>

\* An await outside the try block rejects, or one inside its catch block does:
\* nack without requeue.
CacheThrows ==
  /\ "throw" \in Faults
  /\ cpc \in {"check", "claim", "failed", "trip", "window", "untrip", "report"}
  /\ Settle
  /\ NoTell
  /\ UNCHANGED <<creation, erased, claimed, retries, dlq, breaker>>

\* The unacknowledged delivery returns to the queue.
CrashCache ==
  /\ "crash" \in Faults
  /\ cpc # "idle"
  /\ \A n \in 1..MAX_RETRIES : retries[creq][n] < MaxCopies
  /\ dlq[creq] < MaxCopies
  /\ retries' = IF retry = 0 THEN retries ELSE [retries EXCEPT ![creq][retry] = @ + 1]
  /\ cpc' = "idle" /\ creq' = NoRequest /\ retry' = 0
  /\ NoTell
  /\ UNCHANGED <<creation, erased, acked, claimed, dlq, breaker>>

\* 30 seconds after it opened.
WindowExpires ==
  /\ openUntil
  /\ openUntil' = FALSE
  /\ UNCHANGED <<creation, results, reported, erased, acked, claimed, retries,
                 dlq, cpc, creq, retry, circuit, failureCount>>

CacheTake == \E q \in Requests : TakeFirst(q) \/ \E n \in 1..MAX_RETRIES : TakeRetry(q, n)

CacheRun ==
  \/ CacheTake
  \/ SkipOpen \/ Admit \/ ClaimNew \/ IgnoreDuplicate
  \/ DeleteCacheKeys \/ RecordSuccess \/ TellSucceeded
  \/ RecordFailure \/ TellRetrying \/ PublishToRetryQueue
  \/ TellFailed \/ PublishToDlq \/ AckCache

CacheStep == CacheRun \/ CleanupFails \/ CacheThrows \/ CrashCache \/ WindowExpires

-----------------------------------------------------------------------------
(***************************************************************************)
(* The worker by itself: the backend announces requests, and somebody      *)
(* drains erasegraph.step-results.                                         *)
(***************************************************************************)
Init ==
  /\ creation = [q \in Requests |-> "none"]
  /\ results = <<>>
  /\ reported = {}
  /\ erased = [q \in Requests |-> {}]
  /\ acked = [s \in {Cache} |-> {}]
  /\ CacheInit
  /\ BreakerAny

Announce(q) ==
  /\ creation[q] = "none"
  /\ creation' = [creation EXCEPT ![q] = "published"]
  /\ UNCHANGED <<results, reported, erased, acked, claimed, retries, dlq,
                 cpc, creq, retry, breaker>>

TakeResult ==
  /\ results # <<>>
  /\ results' = Tail(results)
  /\ UNCHANGED <<creation, reported, erased, acked, claimed, retries, dlq,
                 cpc, creq, retry, breaker>>

-----------------------------------------------------------------------------
(***************************************************************************)
(* What the cache worker promises.                                         *)
(***************************************************************************)
Said(q, type) == [req |-> q, step |-> Cache, type |-> type] \in reported

HasFinalWord(q) == \E type \in EventTypes :
  WritesStep(type) /\ Terminal(StatusOf(type)) /\ Said(q, type)

InRetry(q) == \E n \in 1..MAX_RETRIES : retries[q][n] > 0

\* Success is reported only for a request whose keys were deleted, whichever
\* delivery, retry or restart deleted them: publishSucceeded comes last.
SucceededMeansErased ==
  \A q \in Requests : Said(q, "DeletionStepSucceeded") => Cache \in erased[q]

\* The breaker is never OPEN or HALF_OPEN with fewer failures than the
\* threshold behind it, so that a failed half-open test opens it again
\* (recordCircuitFailure would otherwise write CLOSED).  It rests on the order
\* of the Redis writes: recordCircuitSuccess writes CLOSED before it resets
\* the counter, and a crash may fall between the two.
BreakerHasCause == circuit # "CLOSED" => failureCount = CIRCUIT_THRESHOLD

\* Without crashes a request has one live copy at most, and one final word:
\* never both a success and a failure, never a second dead letter.
OneFinalWord ==
  \A q \in Requests :
    /\ ~(Said(q, "DeletionStepSucceeded") /\ Said(q, "DeletionStepFailed"))
    /\ ~(Said(q, "CIRCUIT_OPEN_SKIP") /\ Said(q, "DeletionStepRetrying"))
    /\ dlq[q] <= 1
    /\ \A n \in 1..MAX_RETRIES : retries[q][n] <= 1
    /\ InRetry(q) => ~HasFinalWord(q) /\ (creq = q => cpc = "ack")
=============================================================================
