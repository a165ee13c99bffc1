----------------------------- MODULE CacheAdmin -----------------------------
(***************************************************************************)
(* The admin endpoints that touch what the cache worker works with: the    *)
(* replay of its dead letter queue, and the circuit status assembled from  *)
(* three reads of Redis.  Neither knows of the worker, which goes on       *)
(* between any two of their awaits.  The operator makes one call at a time;*)
(* the two endpoints share nothing, so that they need not overlap.         *)
(***************************************************************************)
EXTENDS CacheWorker, FiniteSets

CONSTANT Endpoints   \* those in use, of "replay" and "circuits"

VARIABLES
  apc,                  \* position of the call, "idle" between calls
  rleft, rreq,          \* replay: messages still to take, the one held
  sawOpen, sawWindow,   \* circuits: what the reads so far returned
  wasOpen,              \* history: the breaker was open at a moment of the call
  dropped,              \* history: requests whose delivery the worker nacked
  calm                  \* history: no crash, no outage and no replay so far

callVars == <<apc, rleft, rreq, sawOpen, sawWindow>>
adminVars == <<cacheVars, callVars, wasOpen, dropped, calm>>

BreakerOpen == circuit = "OPEN" /\ openUntil

AdminTypeOK ==
  /\ CacheTypeOK
  /\ apc \in {"idle", "take", "republish", "ackDead", "readWindow", "readCount", "answered"}
  /\ rleft \in Nat
  /\ rreq \in Requests \cup {NoRequest}
  /\ rreq # NoRequest <=> apc \in {"republish", "ackDead"}
  /\ rreq # NoRequest => rleft > 0

AdminInit ==
  /\ Init
  /\ apc = "idle" /\ rleft = 0 /\ rreq = NoRequest
  /\ sawOpen = "CLOSED" /\ sawWindow = FALSE
  /\ wasOpen = FALSE /\ dropped = {} /\ calm = TRUE

-----------------------------------------------------------------------------
(***************************************************************************)
(* POST /admin/dlq/cache-cleanup/replay.                                   *)
(***************************************************************************)
\* The messages in the queue, those of one request told apart.
DeadLetters == UNION {{q} \X (1 .. dlq[q]) : q \in Requests}

\* assertQueue answers with the number of messages there are now.
ReplayStart ==
  /\ "replay" \in Endpoints
  /\ apc = "idle"
  /\ rleft' = Cardinality(DeadLetters)
  /\ apc' = "take"
  /\ UNCHANGED <<rreq, sawOpen, sawWindow, cacheVars>>

ReplayGet(q) ==
  /\ apc = "take"
  /\ rleft > 0
  /\ dlq[q] > 0
  /\ dlq' = [dlq EXCEPT ![q] = @ - 1]
  /\ rreq' = q /\ apc' = "republish"
  /\ UNCHANGED <<rleft, sawOpen, sawWindow, creation, results, reported, erased,
                 acked, claimed, retries, cpc, creq, retry, breaker>>

\* Mutant: acknowledged before it is published.
ReplayPublish_AckedFirst ==
  /\ apc = "republish"
  /\ rreq' = NoRequest /\ rleft' = rleft - 1 /\ apc' = "take"
  /\ \/ /\ retries' = [retries EXCEPT ![rreq][MAX_RETRIES] = @ + 1]
     \/ /\ "crash" \in Faults /\ UNCHANGED retries
  /\ UNCHANGED <<sawOpen, sawWindow, creation, results, reported, erased, acked,
                 claimed, dlq, cpc, creq, retry, breaker>>

\* The headers are kept: the copy comes back as the last retry it was, past
\* the breaker and the claim, and if it fails again it is a dead letter again.
ReplayPublish ==
  /\ apc = "republish"
  /\ retries' = [retries EXCEPT ![rreq][MAX_RETRIES] = @ + 1]
  /\ apc' = "ackDead"
  /\ UNCHANGED <<rleft, rreq, sawOpen, sawWindow, creation, results, reported,
                 erased, acked, claimed, dlq, cpc, creq, retry, breaker>>

\* Mutant: the loop goes on until the queue is empty.
ReplayAck_UntilEmpty ==
  /\ apc = "ackDead"
  /\ rreq' = NoRequest
  /\ apc' = "take"
  /\ UNCHANGED <<rleft, sawOpen, sawWindow, cacheVars>>

ReplayAck ==
  /\ apc = "ackDead"
  /\ rreq' = NoRequest /\ rleft' = rleft - 1
  /\ apc' = "take"
  /\ UNCHANGED <<sawOpen, sawWindow, cacheVars>>

\* All were replayed, or channel.get found nothing.
ReplayEnd ==
  /\ apc = "take"
  /\ rleft = 0 \/ \A q \in Requests : dlq[q] = 0
  /\ rleft' = 0 /\ apc' = "idle"
  /\ UNCHANGED <<rreq, sawOpen, sawWindow, cacheVars>>

\* The backend dies or loses its connection: what it held is back in the queue.
ReplayDies ==
  /\ "crash" \in Faults
  /\ apc \in {"take", "republish", "ackDead"}
  /\ rreq # NoRequest => /\ dlq[rreq] < MaxCopies
                         /\ \A n \in 1..MAX_RETRIES : retries[rreq][n] <= MaxCopies
  /\ dlq' = IF rreq = NoRequest THEN dlq ELSE [dlq EXCEPT ![rreq] = @ + 1]
  /\ rreq' = NoRequest /\ rleft' = 0 /\ apc' = "idle"
  /\ UNCHANGED <<sawOpen, sawWindow, creation, results, reported, erased, acked,
                 claimed, retries, cpc, creq, retry, breaker>>

Replay ==
  (\E q \in Requests : ReplayGet(q)) \/ ReplayPublish \/ ReplayAck \/ ReplayEnd

-----------------------------------------------------------------------------
(***************************************************************************)
(* GET /admin/circuits: state, open_until and failure_count, one           *)
(* connection to Redis each.                                               *)
(***************************************************************************)
\* Mutant: open_until is read first.
ReadCircuit_WindowFirst ==
  /\ \/ /\ "circuits" \in Endpoints /\ apc = "idle" /\ apc' = "readWindow"
        /\ sawWindow' = openUntil /\ UNCHANGED sawOpen
     \/ /\ apc = "readWindow" /\ apc' = "readCount"
        /\ sawOpen' = circuit /\ UNCHANGED sawWindow
     \/ /\ apc = "readCount" /\ apc' = "answered"
        /\ UNCHANGED <<sawOpen, sawWindow>>
     \/ /\ apc = "answered" /\ apc' = "idle"
        /\ sawOpen' = "CLOSED" /\ sawWindow' = FALSE
  /\ UNCHANGED <<rleft, rreq, cacheVars>>

\* The third read is the failure count, which decides nothing.
ReadCircuit ==
  /\ \/ /\ "circuits" \in Endpoints /\ apc = "idle" /\ apc' = "readWindow"
        /\ sawOpen' = circuit /\ UNCHANGED sawWindow
     \/ /\ apc = "readWindow" /\ apc' = "readCount"
        /\ sawWindow' = openUntil /\ UNCHANGED sawOpen
     \/ /\ apc = "readCount" /\ apc' = "answered"
        /\ UNCHANGED <<sawOpen, sawWindow>>
     \/ /\ apc = "answered" /\ apc' = "idle"
        /\ sawOpen' = "CLOSED" /\ sawWindow' = FALSE
  /\ UNCHANGED <<rleft, rreq, cacheVars>>

\* An OPEN circuit whose window is over, or not written yet, is answered as
\* HALF_OPEN, which the worker writes only when it admits the next request.
CircuitState == IF sawOpen = "OPEN" /\ ~sawWindow THEN "HALF_OPEN" ELSE sawOpen

\* A Redis command times out after 2 s, or its socket fails.
ReadFails ==
  /\ "throw" \in Faults
  /\ apc \in {"readWindow", "readCount"}
  /\ apc' = "idle" /\ sawOpen' = "CLOSED" /\ sawWindow' = FALSE
  /\ UNCHANGED <<rleft, rreq, cacheVars>>

-----------------------------------------------------------------------------
\* History: whether the breaker was open since the call read its first key.
Watch ==
  wasOpen' = CASE apc' \in {"readWindow", "readCount"} -> wasOpen \/ BreakerOpen \/ BreakerOpen'
               [] apc' = "answered" -> wasOpen
               [] OTHER -> FALSE

Beside(workerStep) == workerStep /\ UNCHANGED <<callVars, dropped, calm>> /\ Watch

WorkerCrashes == CrashCache /\ calm' = FALSE /\ UNCHANGED <<callVars, dropped>> /\ Watch

WorkerDrops ==
  /\ CacheThrows
  /\ dropped' = dropped \cup {creq} /\ calm' = FALSE
  /\ UNCHANGED callVars
  /\ Watch

Call(step) == step /\ UNCHANGED <<dropped, calm>> /\ Watch

Revive == ReplayStart /\ calm' = FALSE /\ UNCHANGED dropped /\ Watch

AdminNext ==
  \/ Beside(\E q \in Requests : Announce(q)) \/ Beside(TakeResult)
  \/ Beside(CacheRun) \/ Beside(CleanupFails) \/ Beside(WindowExpires)
  \/ WorkerCrashes \/ WorkerDrops
  \/ Revive \/ Call(Replay) \/ Call(ReplayDies)
  \/ Call(ReadCircuit) \/ Call(ReadFails)

AdminSpec == AdminInit /\ [][AdminNext]_adminVars

\* The worker and the coordinator go on, and so does a replay that was begun.
AdminFairSpec ==
  /\ AdminSpec
  /\ WF_adminVars(Beside(CacheRun))
  /\ WF_adminVars(Beside(TakeResult))
  /\ WF_adminVars(Call(Replay))

-----------------------------------------------------------------------------
\* The worker's promises hold until a crash, an outage or a replay disturbs it:
\* one final word for each request, and an answer to every request in the end.
CalmOneFinalWord == calm => OneFinalWord
CalmAnswered ==
  \A q \in Requests : creation[q] = "published" ~> (HasFinalWord(q) \/ ~calm)

\* While calm the worker forgets no request: what it took off its queue for good
\* was given a final word, has a retry waiting, or is in its hands.
CalmNoneForgotten ==
  calm => \A q \in acked[Cache] : HasFinalWord(q) \/ InRetry(q) \/ creq = q

\* A request that was told FAILED after its retries is not forgotten: its copy
\* is in the dead letter queue, or in the hands of a replay or of the worker,
\* until a replay has it SUCCEEDED, however often worker and replay die.  Only
\* a Redis or Postgres outage inside the worker's catch block loses it.
DeadLetterKept ==
  \A q \in Requests : Said(q, "DeletionStepFailed") =>
    \/ dlq[q] > 0 \/ rreq = q \/ InRetry(q) \/ creq = q
    \/ Said(q, "DeletionStepSucceeded")
    \/ q \in dropped

\* A replay comes to an end even while what it puts back fails again and
\* returns to the queue it empties ("messages that fail again and return to
\* the DLQ during replay are not replayed again in the same request").
ReplayTerminates == (apc \in {"take", "republish", "ackDead"}) ~> (apc = "idle")

\* A circuit is shown OPEN only if it was open, window included, at some moment
\* of the call, although its keys are read one by one while the worker writes
\* them one by one.
OpenShownWasOpen == apc = "answered" /\ CircuitState = "OPEN" => wasOpen
=============================================================================
