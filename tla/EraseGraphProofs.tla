-------------------------- MODULE EraseGraphProofs --------------------------
(***************************************************************************)
(* Proofs about the composed system: the real workers, scanners and the    *)
(* notification service do to the coordinator only what its environment    *)
(* may do, so that what is proved of the coordinator holds of the system,  *)
(* for any requests, replicas, steps, faults and bounds.                   *)
(***************************************************************************)
EXTENDS EraseGraph, Integers, TLAPS

-----------------------------------------------------------------------------
(***************************************************************************)
(* Whoever works for a request has been told of it: a worker, a retry, a   *)
(* result anywhere on its way belong to a published request, and a scanner *)
(* has found the row it is about to flag.                                  *)
(***************************************************************************)
Announced(q) == q \in Requests /\ creation[q] = "published"

RowsCreated == \A q \in Requests : creation[q] = "none" => status[q] = NoRow

ResultsAnnounced ==
  /\ \A m \in reported : Announced(m.req)
  /\ \A i \in 1 .. Len(results) : results[i] \in reported
  /\ \A r \in Replicas : pc[r] # "idle" => msg[r] \in reported

CoordInv ==
  /\ creation \in [Requests -> {"none", "request", "steps", "published", "abandoned"}]
  /\ status \in [Requests -> RequestStatus \cup {NoRow}]
  /\ results \in Seq(Coord!Message) /\ reported \subseteq Coord!Message
  /\ lifecycle \in Seq(Coord!Lifecycle)
  /\ pc \in [Replicas -> Coord!Positions]
  /\ msg \in [Replicas -> Coord!Message \cup {NoMessage}]
  /\ RowsCreated /\ ResultsAnnounced

WorkInv ==
  /\ wpc \in [Workers -> Work!WorkerPositions]
  /\ wreq \in [Workers -> Requests \cup {NoRequest}]
  /\ \A s \in Workers : wpc[s] # "idle" => Announced(wreq[s]) /\ (wpc[s] = "starting" => s = Analytics)

CacheInv ==
  /\ retries \in [Requests -> [1 .. MAX_RETRIES -> Int]]
  /\ cpc # "idle" => Announced(creq)
  /\ \A q \in Requests, n \in 1 .. MAX_RETRIES : retries[q][n] > 0 => Announced(q)

ScanInv ==
  /\ spc \in [Replicas -> Sla!ScanPositions]
  /\ slist \in [Replicas -> SUBSET Requests]
  /\ sreq \in [Replicas -> Requests \cup {NoRequest}]
  /\ \A r \in Replicas :
       /\ spc[r] = "flip" => sreq[r] \in Requests /\ creation[sreq[r]] # "none"
       /\ \A q \in slist[r] : creation[q] # "none"

MessageHeld == npc = "stored" => lifecycle # <<>>

GraphInv == CoordInv /\ WorkInv /\ CacheInv /\ ScanInv /\ MessageHeld

LEMMA InitGraph == Init => GraphInv
<1> SUFFICES ASSUME Init
             PROVE  GraphInv
  OBVIOUS
<1> USE DEF Init, Coord!Init, Work!WorkerInit, Clean!CacheInit, Sla!SlaInit, Notify!NotificationInit
<1> USE DEF NoRow, Coord!NoRow
<1>1. CoordInv
  BY DEF CoordInv, RowsCreated, ResultsAnnounced, Coord!Positions
<1>2. WorkInv
  BY DEF WorkInv, Work!WorkerPositions
<1>3. CacheInv
  BY DEF CacheInv
<1>4. ScanInv
  BY DEF ScanInv, Sla!ScanPositions
<1>5. MessageHeld
  BY DEF MessageHeld
<1> QED
  BY <1>1, <1>2, <1>3, <1>4, <1>5 DEF GraphInv

-----------------------------------------------------------------------------
(***************************************************************************)
(* The coordinator's steps, its environment's included.                    *)
(***************************************************************************)
\* A request that was announced stays announced, a row that is there stays.
Grows ==
  \A q \in Requests :
    /\ creation[q] = "published" => creation'[q] = "published"
    /\ creation[q] # "none" => creation'[q] # "none"

\* What a step that creates no row leaves to be shown.
LEMMA CoordKept ==
  ASSUME CoordInv, UNCHANGED creation,
         status' \in [Requests -> RequestStatus \cup {NoRow}],
         \A q \in Requests : creation[q] = "none" => status'[q] = status[q],
         results' \in Seq(Coord!Message), reported \subseteq reported', reported' \subseteq Coord!Message,
         \A m \in reported' \ reported : Announced(m.req),
         \A i \in 1 .. Len(results') : results'[i] \in reported',
         lifecycle' \in Seq(Coord!Lifecycle),
         pc' \in [Replicas -> Coord!Positions],
         msg' \in [Replicas -> Coord!Message \cup {NoMessage}],
         \A r \in Replicas : pc'[r] # "idle" => msg'[r] \in reported'
  PROVE  CoordInv' /\ Grows
<1>1. \A m \in reported' : m \in reported \/ Announced(m.req)
  OBVIOUS
<1>2. RowsCreated' /\ ResultsAnnounced'
  BY <1>1 DEF CoordInv, RowsCreated, ResultsAnnounced, Announced
<1> QED
  BY <1>2 DEF CoordInv, Grows

LEMMA CoordCreates ==
  ASSUME CoordInv, NEW q \in Requests, Coord!Create(q)
  PROVE  CoordInv' /\ Grows
<1> USE DEF Coord!Create, Coord!SaveRequest, Coord!SaveSteps, Coord!PublishRequested, Coord!AbandonCreate,
            Coord!consumer
<1>1. PICK next \in {"request", "steps", "published", "abandoned"} : creation' = [creation EXCEPT ![q] = next]
  OBVIOUS
<1>2. creation[q] # "published" /\ UNCHANGED <<results, reported, lifecycle, pc, msg>>
  OBVIOUS
<1>3. status' = status \/ status' = [status EXCEPT ![q] = "PENDING"]
  OBVIOUS
<1>4. /\ creation' \in [Requests -> {"none", "request", "steps", "published", "abandoned"}]
      /\ status' \in [Requests -> RequestStatus \cup {NoRow}]
  BY <1>1, <1>3 DEF CoordInv, RequestStatus
<1>5. Grows /\ \A p \in Requests : creation'[p] = "none" => p # q /\ creation[p] = "none"
  BY <1>1, <1>2 DEF CoordInv, Grows
<1>6. RowsCreated'
  BY <1>3, <1>5 DEF CoordInv, RowsCreated
<1>7. ResultsAnnounced'
  BY <1>2, <1>5 DEF CoordInv, ResultsAnnounced, Announced, Grows
<1> QED
  BY <1>2, <1>4, <1>5, <1>6, <1>7 DEF CoordInv

LEMMA Held ==
  ASSUME CoordInv, NEW r \in Replicas, pc[r] # "idle"
  PROVE  msg[r] \in reported /\ msg[r] \in Coord!Message /\ Announced(msg[r].req)
BY DEF CoordInv, ResultsAnnounced

LEMMA CoordDelivers ==
  ASSUME CoordInv, NEW r \in Replicas, Coord!Deliver(r)
  PROVE  CoordInv' /\ Grows
<1> USE DEF Coord!Deliver, Coord!created, Coord!Goto
<1>1. /\ results \in Seq(Coord!Message) /\ results # <<>>
      /\ \A i \in 1 .. Len(results) : results[i] \in reported
  BY DEF CoordInv, ResultsAnnounced
<1>2. /\ Head(results) = results[1] /\ 1 \in 1 .. Len(results)
      /\ results' \in Seq(Coord!Message) /\ Len(results') = Len(results) - 1 /\ Len(results) \in Nat
      /\ \A i \in 1 .. Len(results') : results'[i] = results[i + 1] /\ i + 1 \in 1 .. Len(results)
  BY <1>1
<1>3. \A i \in 1 .. Len(results') : results'[i] \in reported
  BY <1>1, <1>2
<1>4. Head(results) \in reported /\ Head(results) \in Coord!Message
  BY <1>1, <1>2
<1>5. PICK next \in Coord!Positions : pc' = [pc EXCEPT ![r] = next]
  BY DEF Coord!Positions
<1>6. pc' \in [Replicas -> Coord!Positions] /\ msg' \in [Replicas -> Coord!Message \cup {NoMessage}]
  BY <1>4, <1>5 DEF CoordInv
<1>7. \A p \in Replicas : pc'[p] # "idle" => msg'[p] \in reported
  BY <1>4, <1>5 DEF CoordInv, ResultsAnnounced
<1> QED
  BY <1>2, <1>3, <1>6, <1>7, CoordKept DEF CoordInv

LEMMA CoordHandles ==
  ASSUME CoordInv, NEW r \in Replicas,
         \/ Coord!UpdateStep(r) \/ Coord!ReadRequest(r) \/ Coord!ReadSteps(r)
         \/ Coord!WritePartial(r) \/ Coord!WriteOutcome(r) \/ Coord!PublishLifecycle(r) \/ Coord!RecordProof(r)
  PROVE  CoordInv' /\ Grows
<1> USE DEF Coord!UpdateStep, Coord!ReadRequest, Coord!ReadSteps, Coord!WritePartial, Coord!WriteOutcome,
            Coord!PublishLifecycle, Coord!RecordProof, Coord!Goto, Coord!created
<1> DEFINE q == msg[r].req
<1>1. pc[r] # "idle" /\ UNCHANGED <<creation, results, reported, msg>>
  OBVIOUS
<1>2. msg[r] \in reported /\ q \in Requests /\ creation[q] = "published"
  BY <1>1, Held DEF Announced
<1>3. PICK next \in Coord!Positions : pc' = [pc EXCEPT ![r] = next]
  BY DEF Coord!Positions, Coord!Decision
<1>4. Coord!Outcome(snap[r]) \in {"COMPLETED", "PARTIAL_COMPLETED", "FAILED"}
  BY DEF Coord!Outcome
<1>5. status' = status \/ \E st \in {"COMPLETED", "PARTIAL_COMPLETED", "FAILED"} : status' = [status EXCEPT ![q] = st]
  BY <1>4
<1>6. status' \in [Requests -> RequestStatus \cup {NoRow}] /\ \A p \in Requests : p # q => status'[p] = status[p]
  BY <1>5 DEF CoordInv, RequestStatus
<1>7. lifecycle' \in Seq(Coord!Lifecycle)
  <2>1. CASE lifecycle' = lifecycle
    BY <2>1 DEF CoordInv
  <2>2. CASE lifecycle' = Append(lifecycle, [req |-> q, status |-> Coord!Outcome(snap[r])])
    <3>1. [req |-> q, status |-> Coord!Outcome(snap[r])] \in Coord!Lifecycle
      BY <1>2, <1>4 DEF Coord!Lifecycle
    <3> QED
      BY <2>2, <3>1 DEF CoordInv
  <2> QED
    BY <2>1, <2>2
<1>8. pc' \in [Replicas -> Coord!Positions] /\ \A p \in Replicas : pc'[p] # "idle" => msg'[p] \in reported
  BY <1>1, <1>2, <1>3 DEF CoordInv, ResultsAnnounced
<1>9. \A p \in Requests : creation[p] = "none" => status'[p] = status[p]
  BY <1>2, <1>6
<1> QED
  BY <1>1, <1>6, <1>7, <1>8, <1>9, CoordKept DEF CoordInv, ResultsAnnounced

LEMMA CoordLets ==
  ASSUME CoordInv, NEW r \in Replicas, Coord!Ack(r) \/ Coord!HandlerThrows(r) \/ Coord!CrashConsumer(r)
  PROVE  CoordInv' /\ Grows
<1> USE DEF Coord!Ack, Coord!HandlerThrows, Coord!CrashConsumer, Coord!Goto, Coord!created
<1>1. /\ pc[r] # "idle" /\ pc' = [pc EXCEPT ![r] = "idle"] /\ msg' = [msg EXCEPT ![r] = NoMessage]
      /\ UNCHANGED <<creation, status, reported, lifecycle>>
  OBVIOUS
<1>2. msg[r] \in reported /\ msg[r] \in Coord!Message
  BY <1>1, Held
<1>3. /\ results \in Seq(Coord!Message) /\ \A i \in 1 .. Len(results) : results[i] \in reported
  BY DEF CoordInv, ResultsAnnounced
<1>4. results' \in Seq(Coord!Message) /\ \A i \in 1 .. Len(results') : results'[i] \in reported
  <2>1. CASE results' = results
    BY <1>3, <2>1
  <2>2. CASE results' = <<msg[r]>> \o results
    <3>1. /\ results' \in Seq(Coord!Message) /\ Len(results') = Len(results) + 1 /\ results'[1] = msg[r]
          /\ \A i \in 1 .. Len(results') : i # 1 => results'[i] = results[i - 1]
      BY <1>2, <1>3, <2>2
    <3>2. ASSUME NEW i \in 1 .. Len(results'), i # 1
          PROVE  i - 1 \in 1 .. Len(results)
      BY <1>3, <3>1, <3>2
    <3> QED
      BY <1>2, <1>3, <3>1, <3>2
  <2> QED
    BY <2>1, <2>2
<1>5. /\ pc' \in [Replicas -> Coord!Positions] /\ msg' \in [Replicas -> Coord!Message \cup {NoMessage}]
      /\ \A p \in Replicas : pc'[p] # "idle" => msg'[p] \in reported
  BY <1>1 DEF CoordInv, ResultsAnnounced, Coord!Positions
<1> QED
  BY <1>1, <1>4, <1>5, CoordKept DEF CoordInv

LEMMA CoordServed ==
  ASSUME CoordInv, Coord!Environment
  PROVE  CoordInv' /\ Grows
<1>1. CASE \E m \in Coord!Message : Coord!Report(m)
  <2> USE DEF Coord!Report, Coord!created, Coord!consumer
  <2>1. PICK m \in Coord!Message : Coord!Report(m)
    BY <1>1
  <2>2. Announced(m.req)
    BY <2>1 DEF Announced, Coord!Message
  <2>3. results \in Seq(Coord!Message) /\ \A i \in 1 .. Len(results) : results[i] \in reported
    BY DEF CoordInv, ResultsAnnounced
  <2>4. /\ results' \in Seq(Coord!Message) /\ Len(results') = Len(results) + 1 /\ results'[Len(results) + 1] = m
        /\ \A i \in 1 .. Len(results) : results'[i] = results[i]
    BY <2>1, <2>3
  <2>5. ASSUME NEW i \in 1 .. Len(results')
        PROVE  i \in 1 .. Len(results) \/ i = Len(results) + 1
    BY <2>3, <2>4
  <2>6. \A i \in 1 .. Len(results') : results'[i] \in reported'
    BY <2>1, <2>3, <2>4, <2>5
  <2>7. UNCHANGED <<creation, status, lifecycle, pc, msg>> /\ reported' = reported \cup {m}
    BY <2>1
  <2> QED
    BY <2>2, <2>4, <2>6, <2>7, CoordKept DEF CoordInv, ResultsAnnounced
<1>2. CASE \E q \in Requests : Coord!AnalyticsRunning(q)
  BY <1>2, CoordKept DEF CoordInv, ResultsAnnounced, Coord!AnalyticsRunning, Coord!consumer
<1>3. CASE \E q \in Requests : Coord!FlagSla(q)
  <2>1. PICK q \in Requests : Coord!FlagSla(q)
    BY <1>3
  <2>2. UNCHANGED <<creation, results, reported, lifecycle, pc, msg>>
        /\ creation[q] # "none" /\ status' = [status EXCEPT ![q] = "SLA_VIOLATED"]
    BY <2>1 DEF Coord!FlagSla, Coord!consumer
  <2>3. /\ status' \in [Requests -> RequestStatus \cup {NoRow}]
        /\ \A p \in Requests : creation[p] = "none" => status'[p] = status[p]
    BY <2>2 DEF CoordInv, RequestStatus
  <2> QED
    BY <2>2, <2>3, CoordKept DEF CoordInv, ResultsAnnounced
<1>4. CASE Coord!LifecycleTaken
  <2>1. lifecycle' \in Seq(Coord!Lifecycle) /\ UNCHANGED <<creation, status, results, reported, pc, msg>>
    BY <1>4 DEF CoordInv, Coord!LifecycleTaken, Coord!created, Coord!consumer
  <2> QED
    BY <2>1, CoordKept DEF CoordInv, ResultsAnnounced
<1> QED
  BY <1>1, <1>2, <1>3, <1>4 DEF Coord!Environment

LEMMA CoordSteps ==
  ASSUME CoordInv, [Coord!Next]_(Coord!vars)
  PROVE  CoordInv' /\ Grows
<1>1. CASE UNCHANGED Coord!vars
  BY <1>1, CoordKept DEF Coord!vars, CoordInv, ResultsAnnounced
<1> QED
  BY <1>1, CoordCreates, CoordDelivers, CoordHandles, CoordLets, CoordServed DEF Coord!Next, Coord!Handler

-----------------------------------------------------------------------------
(***************************************************************************)
(* What the other services do to the coordinator is something Environment  *)
(* may do, or nothing; and they keep knowing whom they work for.           *)
(***************************************************************************)
Outside == Coord!Environment \/ UNCHANGED Coord!vars

\* The other components' knowledge only depends on what has been created.
LEMMA KnowledgeKept ==
  ASSUME Grows
  PROVE  /\ WorkInv /\ UNCHANGED stepWorkerOwn => WorkInv'
         /\ CacheInv /\ UNCHANGED cacheOwn => CacheInv'
         /\ ScanInv /\ UNCHANGED scannerOwn => ScanInv'
<1>1. ASSUME WorkInv, UNCHANGED stepWorkerOwn
      PROVE  WorkInv'
  BY <1>1 DEF WorkInv, stepWorkerOwn, Grows, Announced
<1>2. ASSUME CacheInv, UNCHANGED cacheOwn
      PROVE  CacheInv'
  BY <1>2 DEF CacheInv, cacheOwn, Grows, Announced
<1>3. ASSUME ScanInv, UNCHANGED scannerOwn
      PROVE  ScanInv'
  BY <1>3 DEF ScanInv, scannerOwn, Grows
<1> QED
  BY <1>1, <1>2, <1>3

LEMMA WorkersOutside ==
  ASSUME CoordInv, WorkInv, NEW s \in Workers, WorkerStep(s)
  PROVE  Outside /\ WorkInv'
<1> USE DEF WorkerStep, Work!WorkerStep, Work!WorkerRun, Work!Move, coordinatorOwn, Coord!vars, Outside
<1>1. \A t \in Workers : wpc[t] # "idle" => Announced(wreq[t]) /\ (wpc[t] = "starting" => t = Analytics)
  BY DEF WorkInv
<1>2. CASE \E q \in Requests : Work!Take(s, q)
  <2>1. PICK q \in Requests : Work!Take(s, q)
    BY <1>2
  <2>2. Announced(q) /\ UNCHANGED creation
    BY <2>1 DEF Work!Take, Announced
  <2>3. PICK next \in {"starting", "erasing"} :
          wpc' = [wpc EXCEPT ![s] = next] /\ (next = "starting" => s = Analytics)
    BY <2>1 DEF Work!Take
  <2>4. wreq' = [wreq EXCEPT ![s] = q]
    BY <2>1 DEF Work!Take
  <2>5. WorkInv'
    BY <1>1, <2>2, <2>3, <2>4 DEF WorkInv, Announced, Work!WorkerPositions
  <2> QED
    BY <2>1, <2>5 DEF Work!Take
<1>3. CASE Work!MarkRunning(s)
  <2>1. Coord!AnalyticsRunning(wreq[s]) /\ wreq[s] \in Requests
    BY <1>1, <1>3 DEF Work!MarkRunning, Announced, Coord!AnalyticsRunning, Coord!consumer
  <2>2. WorkInv'
    BY <1>1, <1>3 DEF Work!MarkRunning, WorkInv, Announced, Work!WorkerPositions
  <2> QED
    BY <2>1, <2>2 DEF Coord!Environment
<1>4. CASE Work!PublishResult(s)
  <2> DEFINE m == [req |-> wreq[s], step |-> s,
                   type |-> IF wpc[s] = "erased" THEN "DeletionStepSucceeded" ELSE "DeletionStepFailed"]
  <2>1. m.req = wreq[s] /\ m.step = s /\ m.type \in {"DeletionStepSucceeded", "DeletionStepFailed"}
    OBVIOUS
  <2>2. s \in Steps /\ s # Cache /\ s \in Coord!Steps
    BY DEF Workers, Steps, Coord!Steps
  <2>3. Announced(wreq[s])
    BY <1>1, <1>4 DEF Work!PublishResult
  <2>4. m \in Coord!Message
    BY <2>2, <2>3 DEF Coord!Message, Announced, Coord!EventTypes
  <2>5. m.type \in Vocabulary[m.step]
    BY <2>1, <2>2 DEF Vocabulary
  <2>6. /\ Len(results) < MaxQueue /\ results' = Append(results, m) /\ reported' = reported \cup {m}
        /\ UNCHANGED <<creation, steps>> /\ wpc' = [wpc EXCEPT ![s] = "published"] /\ UNCHANGED wreq
    BY <1>4 DEF Work!PublishResult
  <2>7. Coord!Report(m)
    BY <2>1, <2>3, <2>5, <2>6 DEF Coord!Report, Coord!created, Coord!consumer, Announced
  <2>8. WorkInv'
    BY <1>1, <2>3, <2>6 DEF WorkInv, Announced, Work!WorkerPositions
  <2> QED
    BY <2>4, <2>7, <2>8 DEF Coord!Environment
<1>5. CASE Work!Erase(s) \/ Work!AckRequest(s) \/ Work!EraseFails(s) \/ Work!WorkerThrows(s) \/ Work!CrashWorker(s)
  <2>1. UNCHANGED <<creation, steps, results, reported>>
    BY <1>5 DEF Work!Erase, Work!AckRequest, Work!EraseFails, Work!WorkerThrows, Work!CrashWorker
  <2>2. \/ UNCHANGED wreq /\ wpc[s] # "idle"
           /\ \E next \in {"erased", "failed"} : wpc' = [wpc EXCEPT ![s] = next]
        \/ wreq' = [wreq EXCEPT ![s] = NoRequest] /\ wpc' = [wpc EXCEPT ![s] = "idle"]
    BY <1>5 DEF Work!Erase, Work!AckRequest, Work!EraseFails, Work!WorkerThrows, Work!CrashWorker
  <2>3. WorkInv'
    BY <1>1, <2>1, <2>2 DEF WorkInv, Announced, Work!WorkerPositions
  <2> QED
    BY <2>1, <2>3
<1> QED
  BY <1>2, <1>3, <1>4, <1>5

\* What writing one count does to the counts of waiting copies.
LEMMA OneCount ==
  ASSUME CacheInv, NEW q \in Requests, NEW n, NEW c,
         n \in 1 .. MAX_RETRIES => c \in Int,
         retries' = [retries EXCEPT ![q][n] = c]
  PROVE  /\ retries' \in [Requests -> [1 .. MAX_RETRIES -> Int]]
         /\ \A p \in Requests : p # q => retries'[p] = retries[p]
<1> DEFINE row == [retries[q] EXCEPT ![n] = c]
<1>1. retries \in [Requests -> [1 .. MAX_RETRIES -> Int]]
  BY DEF CacheInv
<1>2. row \in [1 .. MAX_RETRIES -> Int]
  BY <1>1
<1>3. retries' = [retries EXCEPT ![q] = row]
  OBVIOUS
<1> HIDE DEF row
<1> QED
  BY <1>1, <1>2, <1>3

LEMMA CountIsInt ==
  ASSUME CacheInv, NEW q \in Requests, NEW n \in 1 .. MAX_RETRIES
  PROVE  retries[q][n] + 1 \in Int /\ retries[q][n] - 1 \in Int
<1>1. retries[q] \in [1 .. MAX_RETRIES -> Int]
  BY DEF CacheInv
<1>2. retries[q][n] \in Int
  BY <1>1
<1> QED
  BY <1>2

LEMMA CacheKept ==
  ASSUME CacheInv, UNCHANGED creation, NEW q, Announced(q),
         retries' \in [Requests -> [1 .. MAX_RETRIES -> Int]],
         \A p \in Requests : p # q => retries'[p] = retries[p],
         cpc' # "idle" => creq' = q \/ (cpc # "idle" /\ creq' = creq)
  PROVE  CacheInv'
<1>1. cpc' # "idle" => Announced(creq)'
  BY DEF CacheInv, Announced
<1>2. ASSUME NEW p \in Requests, NEW n \in 1 .. MAX_RETRIES, retries'[p][n] > 0
      PROVE  Announced(p)'
  <2>1. CASE p = q
    BY <2>1 DEF Announced
  <2>2. CASE p # q
    <3>1. retries[p][n] > 0
      BY <1>2, <2>2
    <3> QED
      BY <3>1 DEF CacheInv, Announced
  <2> QED
    BY <2>1, <2>2
<1> QED
  BY <1>1, <1>2 DEF CacheInv

LEMMA CacheOutside ==
  ASSUME CoordInv, CacheInv, CacheStep
  PROVE  Outside /\ CacheInv'
<1> USE DEF CacheStep, coordinatorOwn, Coord!vars, Outside, Clean!NoTell
<1>1. UNCHANGED creation /\ (cpc # "idle" => Announced(creq))
      /\ \A q \in Requests, n \in 1 .. MAX_RETRIES : retries[q][n] > 0 => Announced(q)
  BY DEF CacheInv, Clean!CacheStep, Clean!CacheRun, Clean!CacheTake, Clean!TakeFirst, Clean!TakeRetry,
         Clean!SkipOpen, Clean!Admit, Clean!ClaimNew, Clean!IgnoreDuplicate, Clean!DeleteCacheKeys,
         Clean!RecordSuccess, Clean!TellSucceeded, Clean!RecordFailure, Clean!TellRetrying,
         Clean!PublishToRetryQueue, Clean!TellFailed, Clean!PublishToDlq, Clean!AckCache, Clean!CleanupFails,
         Clean!CacheThrows, Clean!CrashCache, Clean!WindowExpires
\* What is said.
<1>2. ASSUME NEW type \in Coord!EventTypes, Clean!Tell(type), cpc # "idle"
      PROVE  Outside
  <2> DEFINE m == [req |-> creq, step |-> Cache, type |-> type]
  <2>1. Cache \in Steps /\ Cache \in Coord!Steps /\ Coord!EventTypes = EventTypes
    BY EraseGraphAssumption DEF Steps, Coord!Steps, EventTypes, Coord!EventTypes
  <2>2. m \in Coord!Message /\ Announced(m.req)
    BY <1>1, <1>2, <2>1 DEF Coord!Message, Announced
  <2>3. m.type \in Vocabulary[m.step]
    BY <2>1 DEF Vocabulary
  <2>4. Len(results) < MaxQueue /\ results' = Append(results, m) /\ reported' = reported \cup {m}
    BY <1>2 DEF Clean!Tell
  <2>5. Coord!Report(m)
    BY <1>1, <2>2, <2>3, <2>4 DEF Coord!Report, Coord!created, Coord!consumer, Announced
  <2> QED
    BY <2>2, <2>5 DEF Coord!Environment
<1>3. Outside
  <2>1. CASE UNCHANGED <<results, reported>>
    BY <1>1, <2>1
  <2>2. CASE \E type \in Coord!EventTypes : Clean!Tell(type) /\ cpc # "idle"
    BY <1>2, <2>2
  <2> QED
    BY <2>1, <2>2
    DEF Coord!EventTypes, Clean!CacheStep, Clean!CacheRun, Clean!CacheTake, Clean!TakeFirst, Clean!TakeRetry,
        Clean!SkipOpen, Clean!Admit, Clean!ClaimNew, Clean!IgnoreDuplicate, Clean!DeleteCacheKeys,
        Clean!RecordSuccess, Clean!TellSucceeded, Clean!RecordFailure, Clean!TellRetrying,
        Clean!PublishToRetryQueue, Clean!TellFailed, Clean!PublishToDlq, Clean!AckCache, Clean!CleanupFails,
        Clean!CacheThrows, Clean!CrashCache, Clean!WindowExpires
\* Whom it works for.
<1>4. CASE Clean!CacheTake
  <2>1. CASE \E q \in Requests : Clean!TakeFirst(q)
    BY <1>1, <1>3, <2>1 DEF Clean!TakeFirst, CacheInv, Announced
  <2>2. CASE \E q \in Requests, n \in 1 .. MAX_RETRIES : Clean!TakeRetry(q, n)
    <3>1. PICK q \in Requests, n \in 1 .. MAX_RETRIES : Clean!TakeRetry(q, n)
      BY <2>2
    <3>2. retries' = [retries EXCEPT ![q][n] = @ - 1] /\ retries[q][n] > 0 /\ creq' = q
      BY <3>1 DEF Clean!TakeRetry
    <3>3. Announced(q)
      BY <1>1, <3>2
    <3>4. retries[q][n] - 1 \in Int
      BY CountIsInt
    <3>5. retries' = [retries EXCEPT ![q][n] = retries[q][n] - 1]
      BY <3>2
    <3> QED
      BY <1>1, <1>3, <3>2, <3>3, <3>4, <3>5, OneCount, CacheKept
  <2> QED
    BY <1>4, <2>1, <2>2 DEF Clean!CacheTake
<1>5. CASE Clean!PublishToRetryQueue \/ Clean!CrashCache
  <2>1. cpc # "idle" /\ Announced(creq)
    BY <1>1, <1>5 DEF Clean!PublishToRetryQueue, Clean!CrashCache
  <2>2. retries \in [Requests -> [1 .. MAX_RETRIES -> Int]] /\ creq \in Requests
    BY <2>1 DEF CacheInv, Announced
  <2>3. /\ retries' \in [Requests -> [1 .. MAX_RETRIES -> Int]]
        /\ \A p \in Requests : p # creq => retries'[p] = retries[p]
    <3>1. CASE retries' = retries
      BY <2>2, <3>1
    <3>2. CASE \E n : retries' = [retries EXCEPT ![creq][n] = retries[creq][n] + 1]
      <4>1. PICK n : retries' = [retries EXCEPT ![creq][n] = retries[creq][n] + 1]
        BY <3>2
      <4>2. n \in 1 .. MAX_RETRIES => retries[creq][n] + 1 \in Int
        BY <2>2, CountIsInt
      <4> QED
        BY <2>2, <4>1, <4>2, OneCount
    <3>3. CASE Clean!PublishToRetryQueue
      BY <3>2, <3>3 DEF Clean!PublishToRetryQueue
    <3>4. CASE Clean!CrashCache
      BY <3>1, <3>2, <3>4 DEF Clean!CrashCache
    <3> QED
      BY <1>5, <3>3, <3>4
  <2>4. cpc' = "idle" \/ creq' = creq
    BY <1>5 DEF Clean!PublishToRetryQueue, Clean!CrashCache
  <2> QED
    BY <1>1, <1>3, <2>1, <2>3, <2>4, CacheKept
<1>6. CASE ~Clean!CacheTake /\ ~Clean!PublishToRetryQueue /\ ~Clean!CrashCache
  <2>1. UNCHANGED retries
    BY <1>6
    DEF Clean!CacheStep, Clean!CacheRun, Clean!Settle,
        Clean!SkipOpen, Clean!Admit, Clean!ClaimNew, Clean!IgnoreDuplicate, Clean!DeleteCacheKeys,
        Clean!RecordSuccess, Clean!TellSucceeded, Clean!RecordFailure, Clean!TellRetrying,
        Clean!TellFailed, Clean!PublishToDlq, Clean!AckCache, Clean!CleanupFails, Clean!CacheThrows,
        Clean!WindowExpires
  <2>2. cpc' = "idle" \/ (cpc # "idle" /\ creq' = creq)
    BY <1>6
    DEF Clean!CacheStep, Clean!CacheRun, Clean!Settle,
        Clean!SkipOpen, Clean!Admit, Clean!ClaimNew, Clean!IgnoreDuplicate, Clean!DeleteCacheKeys,
        Clean!RecordSuccess, Clean!TellSucceeded, Clean!RecordFailure, Clean!TellRetrying,
        Clean!TellFailed, Clean!PublishToDlq, Clean!AckCache, Clean!CleanupFails, Clean!CacheThrows,
        Clean!WindowExpires
  <2>3. cpc' # "idle" => Announced(creq)'
    BY <1>1, <2>2 DEF Announced
  <2>4. retries' \in [Requests -> [1 .. MAX_RETRIES -> Int]]
    BY <2>1 DEF CacheInv
  <2>5. \A q \in Requests, n \in 1 .. MAX_RETRIES : (retries[q][n] > 0 => Announced(q))'
    BY <1>1, <2>1 DEF Announced
  <2> QED
    BY <1>3, <2>3, <2>4, <2>5 DEF CacheInv
<1> QED
  BY <1>3, <1>4, <1>5, <1>6

\* The loop only takes up rows of a list whose rows are all there.
LEMMA ScanContinues ==
  ASSUME ScanInv, UNCHANGED creation, NEW r \in Replicas, NEW rest \in SUBSET Requests,
         \A q \in rest : creation[q] # "none", Sla!ContinueWith(r, rest)
  PROVE  ScanInv'
<1>1. CASE rest = {}
  BY <1>1 DEF Sla!ContinueWith, ScanInv, Sla!ScanPositions
<1>2. CASE rest # {}
  <2>1. PICK q \in rest : /\ spc' = [spc EXCEPT ![r] = "flip"]
                          /\ slist' = [slist EXCEPT ![r] = rest \ {q}]
                          /\ sreq' = [sreq EXCEPT ![r] = q]
    BY <1>2 DEF Sla!ContinueWith
  <2>2. q \in Requests /\ creation[q] # "none" /\ rest \ {q} \in SUBSET Requests
    OBVIOUS
  <2>3. /\ spc' \in [Replicas -> Sla!ScanPositions]
        /\ slist' \in [Replicas -> SUBSET Requests]
        /\ sreq' \in [Replicas -> Requests \cup {NoRequest}]
    BY <2>1, <2>2 DEF ScanInv, Sla!ScanPositions
  <2>4. ASSUME NEW p \in Replicas
        PROVE  /\ spc'[p] = "flip" => sreq'[p] \in Requests /\ creation'[sreq'[p]] # "none"
               /\ \A k \in slist'[p] : creation'[k] # "none"
    BY <2>1, <2>2 DEF ScanInv
  <2> QED
    BY <2>3, <2>4 DEF ScanInv
<1> QED
  BY <1>1, <1>2

LEMMA ScanOutside ==
  ASSUME CoordInv, ScanInv, NEW r \in Replicas, ScanStep(r)
  PROVE  Outside /\ ScanInv'
<1> USE DEF ScanStep, coordinatorOwn, Coord!vars, Outside
<1>1. UNCHANGED creation
  OBVIOUS
<1>2. CASE Sla!Scan(r)
  <2> DEFINE stuck == {q \in Requests : Sla!Stuck(q)}
  <2>1. \A q \in stuck : creation[q] # "none"
    BY DEF Sla!Stuck, CoordInv, RowsCreated, NoRow
  <2>2. Sla!ContinueWith(r, stuck) /\ UNCHANGED status
    BY <1>2 DEF Sla!Scan
  <2>3. stuck \in SUBSET Requests
    OBVIOUS
  <2> HIDE DEF stuck
  <2> QED
    BY <1>1, <2>1, <2>2, <2>3, ScanContinues
<1>3. CASE Sla!Flip(r)
  <2>1. sreq[r] \in Requests /\ creation[sreq[r]] # "none"
    BY <1>3 DEF Sla!Flip, ScanInv
  <2>2. Coord!FlagSla(sreq[r])
    BY <1>3, <2>1 DEF Sla!Flip, Coord!FlagSla, Coord!consumer
  <2>3. ScanInv'
    BY <1>1, <1>3 DEF Sla!Flip, ScanInv, Sla!ScanPositions
  <2> QED
    BY <2>1, <2>2, <2>3 DEF Coord!Environment
<1>4. CASE Sla!LookUpProof(r) \/ Sla!SaveProof(r)
  <2>1. UNCHANGED status
    BY <1>4 DEF Sla!LookUpProof, Sla!SaveProof
  <2>2. slist[r] \in SUBSET Requests /\ \A q \in slist[r] : creation[q] # "none"
    BY DEF ScanInv
  <2>3. CASE Sla!ContinueWith(r, slist[r])
    BY <1>1, <2>1, <2>2, <2>3, ScanContinues
  <2>4. CASE UNCHANGED <<slist, sreq>> /\ \E next \in {"save", "rejected"} : spc' = [spc EXCEPT ![r] = next]
    BY <1>1, <2>1, <2>4 DEF ScanInv, Sla!ScanPositions
  <2> QED
    BY <1>4, <2>3, <2>4 DEF Sla!LookUpProof, Sla!SaveProof
<1>5. CASE Sla!Restart(r)
  <2>1. UNCHANGED status /\ ScanInv'
    BY <1>1, <1>5 DEF Sla!Restart, Sla!StopScan, ScanInv, Sla!ScanPositions
  <2> QED
    BY <2>1
<1> QED
  BY <1>2, <1>3, <1>4, <1>5 DEF Sla!ScanRun

LEMMA LateOutside ==
  ASSUME ScanInv, NEW q \in Requests, GrowLate(q)
  PROVE  Outside /\ ScanInv'
<1>1. UNCHANGED Coord!vars
  BY DEF GrowLate, Sla!GrowsLate, coordinatorOwn, Coord!vars
<1>2. ScanInv'
  BY DEF GrowLate, Sla!GrowsLate, ScanInv
<1> QED
  BY <1>1, <1>2 DEF Outside

LEMMA NotifierOutside ==
  ASSUME MessageHeld, NotifyStep
  PROVE  Outside /\ MessageHeld'
<1> USE DEF NotifyStep, coordinatorOwn, Coord!vars, Outside, MessageHeld
<1>1. CASE Notify!AckLifecycle \/ Notify!NotificationThrows
  <2>1. Coord!LifecycleTaken
    BY <1>1 DEF Notify!AckLifecycle, Notify!NotificationThrows, Coord!LifecycleTaken, Coord!created, Coord!consumer
  <2>2. npc' # "stored"
    BY <1>1 DEF Notify!AckLifecycle, Notify!NotificationThrows
  <2> QED
    BY <2>1, <2>2 DEF Coord!Environment
<1>2. CASE Notify!StoreNotification \/ Notify!CrashNotification
  BY <1>2 DEF Notify!StoreNotification, Notify!CrashNotification
<1> QED
  BY <1>1, <1>2 DEF Notify!NotificationStep, Notify!NotificationRun

-----------------------------------------------------------------------------
(***************************************************************************)
(* The steps of the backend itself are the coordinator's, a death of its   *)
(* process included.                                                       *)
(***************************************************************************)
\* Only the notification service takes a message off the lifecycle queue.
LEMMA BackendHolds ==
  ASSUME CoordInv, MessageHeld, UNCHANGED npc,
         \/ \E q \in Requests : Coord!Create(q)
         \/ \E r \in Replicas : Coord!Handler(r) \/ Coord!HandlerThrows(r) \/ Coord!CrashConsumer(r)
         \/ UNCHANGED lifecycle
  PROVE  MessageHeld'
<1>1. lifecycle' = lifecycle \/ \E m : lifecycle' = Append(lifecycle, m)
  BY DEF Coord!Create, Coord!SaveRequest, Coord!SaveSteps, Coord!PublishRequested, Coord!AbandonCreate,
         Coord!Handler, Coord!Deliver, Coord!UpdateStep, Coord!ReadRequest, Coord!ReadSteps,
         Coord!WritePartial, Coord!WriteOutcome, Coord!PublishLifecycle, Coord!RecordProof, Coord!Ack,
         Coord!HandlerThrows, Coord!CrashConsumer
<1>2. CASE lifecycle' = lifecycle
  BY <1>2 DEF MessageHeld
<1>3. CASE \E m : lifecycle' = Append(lifecycle, m)
  <2>1. lifecycle' # <<>>
    BY <1>3 DEF CoordInv
  <2> QED
    BY <2>1 DEF MessageHeld
<1> QED
  BY <1>1, <1>2, <1>3

LEMMA ReplicaDies ==
  ASSUME ScanInv, NEW r \in Replicas, CrashReplica(r)
  PROVE  (Coord!CrashConsumer(r) \/ UNCHANGED Coord!vars) /\ UNCHANGED npc
         /\ (UNCHANGED creation => ScanInv')
<1>1. Coord!CrashConsumer(r) \/ UNCHANGED Coord!vars
  BY DEF CrashReplica, Sla!StopScan, coordinatorOwn, Coord!vars
<1>2. UNCHANGED npc
  BY DEF CrashReplica, OutsideBackend, notifierOwn
<1>3. UNCHANGED creation => ScanInv'
  BY DEF CrashReplica, Sla!StopScan, ScanInv, Sla!ScanPositions
<1> QED
  BY <1>1, <1>2, <1>3

-----------------------------------------------------------------------------
\* What is left of a step once the coordinator's side and the moving service's
\* own knowledge are known.
LEMMA Assembled ==
  ASSUME GraphInv, [Coord!Next]_(Coord!vars), MessageHeld',
         WorkInv' \/ UNCHANGED stepWorkerOwn,
         CacheInv' \/ UNCHANGED cacheOwn,
         ScanInv' \/ UNCHANGED scannerOwn
  PROVE  GraphInv'
BY CoordSteps, KnowledgeKept DEF GraphInv

LEMMA GraphStep ==
  ASSUME GraphInv, [Next]_vars
  PROVE  GraphInv' /\ [Coord!Next]_(Coord!vars)
<1> USE DEF GraphInv
<1>1. CASE \E q \in Requests : CreateStep(q)
  <2>1. PICK q \in Requests : CreateStep(q)
    BY <1>1
  <2>2. Coord!Create(q) /\ UNCHANGED <<stepWorkerOwn, cacheOwn, scannerOwn, npc>>
    BY <2>1 DEF CreateStep, OutsideBackend, notifierOwn
  <2>3. Coord!Next
    BY <2>2 DEF Coord!Next
  <2> QED
    BY <2>2, <2>3, BackendHolds, Assembled
<1>2. CASE \E q \in Requests : GrowLate(q)
  <2>1. PICK q \in Requests : GrowLate(q)
    BY <1>2
  <2>2. [Coord!Next]_(Coord!vars) /\ ScanInv'
    BY <2>1, LateOutside DEF Outside, Coord!Next
  <2>3. UNCHANGED <<stepWorkerOwn, cacheOwn, npc, lifecycle>>
    BY <2>1 DEF GrowLate, OutsideBackend, notifierOwn
  <2> QED
    BY <2>2, <2>3, BackendHolds, Assembled
<1>3. CASE \E r \in Replicas : HandlerStep(r)
  <2>1. PICK r \in Replicas : HandlerStep(r)
    BY <1>3
  <2>2. (Coord!Handler(r) \/ Coord!HandlerThrows(r)) /\ UNCHANGED <<stepWorkerOwn, cacheOwn, scannerOwn, npc>>
    BY <2>1 DEF HandlerStep, OutsideBackend, notifierOwn
  <2>3. Coord!Next
    BY <2>2 DEF Coord!Next
  <2> QED
    BY <2>2, <2>3, BackendHolds, Assembled
<1>4. CASE \E r \in Replicas : ScanStep(r)
  <2>1. PICK r \in Replicas : ScanStep(r)
    BY <1>4
  <2>2. [Coord!Next]_(Coord!vars) /\ ScanInv'
    BY <2>1, ScanOutside DEF Outside, Coord!Next
  <2>3. UNCHANGED <<stepWorkerOwn, cacheOwn, npc, lifecycle>>
    BY <2>1 DEF ScanStep, OutsideBackend, notifierOwn
  <2> QED
    BY <2>2, <2>3, BackendHolds, Assembled
<1>5. CASE \E r \in Replicas : CrashReplica(r)
  <2>1. PICK r \in Replicas : CrashReplica(r)
    BY <1>5
  <2>2. /\ Coord!CrashConsumer(r) \/ UNCHANGED Coord!vars
        /\ UNCHANGED npc /\ (UNCHANGED creation => ScanInv')
    BY <2>1, ReplicaDies
  <2>3. [Coord!Next]_(Coord!vars)
    BY <2>2 DEF Coord!Next
  <2>4. UNCHANGED creation /\ (Coord!CrashConsumer(r) \/ UNCHANGED lifecycle)
    BY <2>2 DEF Coord!CrashConsumer, Coord!created, Coord!vars
  <2>5. UNCHANGED <<stepWorkerOwn, cacheOwn>>
    BY <2>1 DEF CrashReplica, OutsideBackend
  <2> QED
    BY <2>2, <2>3, <2>4, <2>5, BackendHolds, Assembled
<1>6. CASE \E s \in Workers : WorkerStep(s)
  <2>1. PICK s \in Workers : WorkerStep(s)
    BY <1>6
  <2>2. [Coord!Next]_(Coord!vars) /\ WorkInv'
    BY <2>1, WorkersOutside DEF Outside, Coord!Next
  <2>3. UNCHANGED <<cacheOwn, scannerOwn, npc, lifecycle>>
    BY <2>1 DEF WorkerStep, notifierOwn
  <2> QED
    BY <2>2, <2>3, BackendHolds, Assembled
<1>7. CASE CacheStep
  <2>1. [Coord!Next]_(Coord!vars) /\ CacheInv'
    BY <1>7, CacheOutside DEF Outside, Coord!Next
  <2>2. UNCHANGED <<stepWorkerOwn, scannerOwn, npc, lifecycle>>
    BY <1>7 DEF CacheStep, notifierOwn
  <2> QED
    BY <2>1, <2>2, BackendHolds, Assembled
<1>8. CASE NotifyStep
  <2>1. [Coord!Next]_(Coord!vars) /\ MessageHeld'
    BY <1>8, NotifierOutside DEF Outside, Coord!Next
  <2>2. UNCHANGED <<stepWorkerOwn, cacheOwn, scannerOwn>>
    BY <1>8 DEF NotifyStep
  <2> QED
    BY <2>1, <2>2, Assembled
<1>9. CASE UNCHANGED vars
  <2>1. UNCHANGED <<stepWorkerOwn, cacheOwn, scannerOwn, npc, lifecycle>> /\ UNCHANGED Coord!vars
    BY <1>9 DEF vars, notifierOwn, coordinatorOwn, Coord!vars
  <2> QED
    BY <2>1, BackendHolds, Assembled
<1> QED
  BY <1>1, <1>2, <1>3, <1>4, <1>5, <1>6, <1>7, <1>8, <1>9 DEF Next

\* The whole system implements the coordinator over its environment: every step
\* of a real worker, scanner or notification service is, for the coordinator,
\* one that Environment allows, or none.
THEOREM SystemIsCoordinated == Spec => CoordinatorSpec
<1>1. Init => Coord!Init
  BY DEF Init
<1> QED
  BY InitGraph, GraphStep, <1>1, PTL DEF Spec, CoordinatorSpec, Coord!Spec
=============================================================================
