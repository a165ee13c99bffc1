----------------------------- MODULE Coordinator -----------------------------
(***************************************************************************)
(* The backend's coordinator: the API handler that creates a deletion      *)
(* request, and the consumer of erasegraph.step-results that turns the     *)
(* workers' results into the rows of deletion_steps and deletion_requests  *)
(* and into lifecycle messages.  The backend runs as several replicas; each*)
(* has one consumer with prefetch(1), every database call of a handler is  *)
(* an await, and between two awaits any other replica may run.  So one     *)
(* handler is one action per await, and what it read earlier is kept in    *)
(* `before` and `snap` until it is used.                                   *)
(*                                                                         *)
(* The workers, the SLA scanner and the notification service are the       *)
(* environment: the five actions of Environment are all they may do to the *)
(* coordinator's state.  Module EraseGraph puts the real ones there.       *)
(***************************************************************************)
EXTENDS Naturals, Sequences, DeletionTypes

CONSTANTS
  Requests,       \* deletion requests
  Replicas,       \* backend replicas
  FastSteps,      \* primary_data, cache, search_cleanup, backup
  Analytics,      \* analytics_cleanup, the delayed step
  Vocabulary,     \* the types of result each step's worker publishes
  Repeats,        \* whether a worker may publish the same result again
  NoMessage,      \* what an idle consumer holds
  Faults,         \* the kinds of fault that may happen: "crash", "throw"
  MaxQueue,       \* bound on the results waiting in the queue
  MaxLifecycle    \* bound on the lifecycle messages waiting

Steps == FastSteps \cup {Analytics}

Message == [req : Requests, step : Steps, type : EventTypes]
Lifecycle == [req : Requests,
              status : {"COMPLETED", "PARTIAL_COMPLETED", "FAILED"}]

ASSUME CoordinatorAssumption ==
  /\ Analytics \notin FastSteps
  /\ Vocabulary \in [Steps -> SUBSET EventTypes]
  /\ Repeats \in BOOLEAN
  /\ NoMessage \notin Message
  /\ Faults \subseteq {"crash", "throw"}
  /\ MaxQueue \in Nat /\ MaxLifecycle \in Nat

VARIABLES
  creation,     \* how far createDeletionRequest got, per request
  status,       \* deletion_requests.status
  completedAt,  \* deletion_requests.completed_at is not null
  steps,        \* deletion_steps.status
  results,      \* the queue erasegraph.step-results
  reported,     \* history: every step result ever published
  proofs,       \* proof events the coordinator appended
  lifecycle,    \* deletion.completed / deletion.failed messages not consumed
  pc, msg,      \* per replica: the consumer's position and unacked message
  before, snap  \* per replica: what the handler read of the request, the steps

created  == <<creation, status, completedAt, steps>>
consumer == <<pc, msg, before, snap>>
vars == <<creation, status, completedAt, steps, results, reported, proofs,
          lifecycle, pc, msg, before, snap>>

Positions == {"idle", "update", "request", "steps", "partial", "outcome",
              "publish", "proof", "ack"}

NoSteps == [s \in Steps |-> NoRow]

TypeOK ==
  /\ creation \in [Requests -> {"none", "request", "steps", "published", "abandoned"}]
  /\ status \in [Requests -> RequestStatus \cup {NoRow}]
  /\ completedAt \in [Requests -> BOOLEAN]
  /\ steps \in [Requests -> [Steps -> StepStatus \cup {NoRow}]]
  /\ results \in Seq(Message)
  /\ reported \subseteq Message
  /\ proofs \subseteq Message
  /\ lifecycle \in Seq(Lifecycle)
  /\ pc \in [Replicas -> Positions]
  /\ msg \in [Replicas -> Message \cup {NoMessage}]
  /\ before \in [Replicas -> RequestStatus \cup {NoRow}]
  /\ snap \in [Replicas -> [Steps -> StepStatus \cup {NoRow}]]

Init ==
  /\ creation = [q \in Requests |-> "none"]
  /\ status = [q \in Requests |-> NoRow]
  /\ completedAt = [q \in Requests |-> FALSE]
  /\ steps = [q \in Requests |-> NoSteps]
  /\ results = <<>>
  /\ reported = {}
  /\ proofs = {}
  /\ lifecycle = <<>>
  /\ pc = [r \in Replicas |-> "idle"]
  /\ msg = [r \in Replicas |-> NoMessage]
  /\ before = [r \in Replicas |-> NoRow]
  /\ snap = [r \in Replicas |-> NoSteps]

-----------------------------------------------------------------------------
(***************************************************************************)
(* createDeletionRequest: three awaits, no transaction around them.        *)
(***************************************************************************)
SaveRequest(q) ==
  /\ creation[q] = "none"
  /\ creation' = [creation EXCEPT ![q] = "request"]
  /\ status' = [status EXCEPT ![q] = "PENDING"]
  /\ UNCHANGED <<completedAt, steps, results, reported, proofs, lifecycle, consumer>>

SaveSteps(q) ==
  /\ creation[q] = "request"
  /\ creation' = [creation EXCEPT ![q] = "steps"]
  /\ steps' = [steps EXCEPT ![q] = [s \in Steps |-> "PENDING"]]
  /\ UNCHANGED <<status, completedAt, results, reported, proofs, lifecycle, consumer>>

\* DeletionRequested reaches the queue of every worker at once.
PublishRequested(q) ==
  /\ creation[q] = "steps"
  /\ creation' = [creation EXCEPT ![q] = "published"]
  /\ UNCHANGED <<status, completedAt, steps, results, reported, proofs, lifecycle, consumer>>

\* The replica dies, the database refuses the insert or the broker the publish:
\* the rows written so far stay and nobody resumes.
AbandonCreate(q) ==
  /\ Faults # {}
  /\ creation[q] \in {"request", "steps"}
  /\ creation' = [creation EXCEPT ![q] = "abandoned"]
  /\ UNCHANGED <<status, completedAt, steps, results, reported, proofs, lifecycle, consumer>>

-----------------------------------------------------------------------------
(***************************************************************************)
(* The consumer of erasegraph.step-results.                                *)
(***************************************************************************)
Goto(r, position) == pc' = [pc EXCEPT ![r] = position]

\* The local variables of updateRequestStatusIfNeeded go out of scope.
ForgetReads(r) ==
  /\ before' = [before EXCEPT ![r] = NoRow]
  /\ snap' = [snap EXCEPT ![r] = NoSteps]

Deliver(r) ==
  /\ pc[r] = "idle"
  /\ results # <<>>
  /\ msg' = [msg EXCEPT ![r] = Head(results)]
  /\ results' = Tail(results)
  /\ Goto(r, IF WritesStep(Head(results).type) THEN "update" ELSE "proof")
  /\ UNCHANGED <<created, reported, proofs, lifecycle, before, snap>>

\* updateStepStatus writes whatever the message says: the row's current
\* status is not looked at.
UpdateStep(r) ==
  /\ pc[r] = "update"
  /\ steps' = [steps EXCEPT ![msg[r].req][msg[r].step] = StatusOf(msg[r].type)]
  /\ Goto(r, "request")
  /\ UNCHANGED <<creation, status, completedAt, results, reported, proofs,
                 lifecycle, msg, before, snap>>

\* updateRequestStatusIfNeeded: first read, the request row.
ReadRequest(r) ==
  /\ pc[r] = "request"
  /\ before' = [before EXCEPT ![r] = status[msg[r].req]]
  /\ Goto(r, "steps")
  /\ UNCHANGED <<created, results, reported, proofs, lifecycle, msg, snap>>

\* Mutant: the delayed step forgotten.
AllCompleted_FastOnly(rows) == \A s \in FastSteps : Terminal(rows[s])

AllCompleted(rows) == \A s \in Steps : Terminal(rows[s])
FastDone(rows)     == \A s \in FastSteps : Terminal(rows[s])

Outcome(rows) ==
  IF \E s \in Steps : rows[s] = "FAILED" THEN "FAILED"
  ELSE IF \E s \in Steps : rows[s] = "SKIPPED_CIRCUIT_OPEN" THEN "PARTIAL_COMPLETED"
  ELSE "COMPLETED"

\* Mutants: the outcome published without its write; a flagged request taken
\* for one that has ended.
Decision_PublishOnly(was, rows) ==
  IF AllCompleted(rows) THEN "publish"
  ELSE IF FastDone(rows) /\ ~Terminal(rows[Analytics]) /\ was # "PARTIAL_COMPLETED"
       THEN "partial" ELSE "proof"
Decision_FlaggedIsOver(was, rows) ==
  IF AllCompleted(rows)
  THEN IF was \in {Outcome(rows), "SLA_VIOLATED"} THEN "proof" ELSE "outcome"
  ELSE IF FastDone(rows) /\ ~Terminal(rows[Analytics]) /\ was # "PARTIAL_COMPLETED"
       THEN "partial" ELSE "proof"

\* What the handler does once it has read the request (was) and the rows.
Decision(was, rows) ==
  IF AllCompleted(rows)
  THEN IF was = Outcome(rows) THEN "proof" ELSE "outcome"
  ELSE IF FastDone(rows) /\ ~Terminal(rows[Analytics]) /\ was # "PARTIAL_COMPLETED"
       THEN "partial"
       ELSE "proof"

\* Second read, the step rows; the decision is taken without another await.
ReadSteps(r) ==
  LET rows == steps[msg[r].req]
      next == Decision(before[r], rows)
  IN  /\ pc[r] = "steps"
      /\ Goto(r, next)
      /\ IF next = "proof"
         THEN ForgetReads(r)
         ELSE snap' = [snap EXCEPT ![r] = rows] /\ UNCHANGED before
      /\ UNCHANGED <<created, results, reported, proofs, lifecycle, msg>>

\* Mutant: the intermediate status is dated like a final one.
WritePartial_Dated(r) ==
  /\ pc[r] = "partial"
  /\ status' = [status EXCEPT ![msg[r].req] = "PARTIAL_COMPLETED"]
  /\ completedAt' = [completedAt EXCEPT ![msg[r].req] = TRUE]
  /\ Goto(r, "proof")
  /\ ForgetReads(r)
  /\ UNCHANGED <<creation, steps, results, reported, proofs, lifecycle, msg>>

\* The fast steps are done and analytics is not.
WritePartial(r) ==
  /\ pc[r] = "partial"
  /\ status' = [status EXCEPT ![msg[r].req] = "PARTIAL_COMPLETED"]
  /\ Goto(r, "proof")
  /\ ForgetReads(r)
  /\ UNCHANGED <<creation, completedAt, steps, results, reported, proofs, lifecycle, msg>>

\* Mutant: completed_at is not set.
WriteOutcome_Undated(r) ==
  /\ pc[r] = "outcome"
  /\ status' = [status EXCEPT ![msg[r].req] = Outcome(snap[r])]
  /\ Goto(r, "publish")
  /\ UNCHANGED <<creation, completedAt, steps, results, reported, proofs,
                 lifecycle, msg, before, snap>>

\* Every step is terminal and the request row said something else.
WriteOutcome(r) ==
  /\ pc[r] = "outcome"
  /\ status' = [status EXCEPT ![msg[r].req] = Outcome(snap[r])]
  /\ completedAt' = [completedAt EXCEPT ![msg[r].req] = TRUE]
  /\ Goto(r, "publish")
  /\ UNCHANGED <<creation, steps, results, reported, proofs, lifecycle, msg, before, snap>>

PublishLifecycle(r) ==
  /\ pc[r] = "publish"
  /\ Len(lifecycle) < MaxLifecycle
  /\ lifecycle' = Append(lifecycle, [req |-> msg[r].req, status |-> Outcome(snap[r])])
  /\ Goto(r, "proof")
  /\ ForgetReads(r)
  /\ UNCHANGED <<created, results, reported, proofs, msg>>

\* saveProofEvent.  The dedupe key is the message's, timestamp included, so a
\* redelivered message adds no row; rows that differ only in their timestamp
\* are one element here.
RecordProof(r) ==
  /\ pc[r] = "proof"
  /\ proofs' = proofs \cup {msg[r]}
  /\ Goto(r, "ack")
  /\ UNCHANGED <<created, results, reported, lifecycle, msg, before, snap>>

Ack(r) ==
  /\ pc[r] = "ack"
  /\ Goto(r, "idle")
  /\ msg' = [msg EXCEPT ![r] = NoMessage]
  /\ UNCHANGED <<created, results, reported, proofs, lifecycle, before, snap>>

\* Any await of the handler may reject (the database, or publishBuffer with no
\* channel): the message is nacked without requeue and is gone.
HandlerThrows(r) ==
  /\ "throw" \in Faults
  /\ pc[r] \notin {"idle", "ack"}
  /\ Goto(r, "idle")
  /\ msg' = [msg EXCEPT ![r] = NoMessage]
  /\ ForgetReads(r)
  /\ UNCHANGED <<created, results, reported, proofs, lifecycle>>

\* Mutant: messages acknowledged on delivery.
CrashConsumer_AutoAck(r) ==
  /\ "crash" \in Faults
  /\ pc[r] # "idle"
  /\ Goto(r, "idle")
  /\ msg' = [msg EXCEPT ![r] = NoMessage]
  /\ ForgetReads(r)
  /\ UNCHANGED <<created, results, reported, proofs, lifecycle>>

\* The replica dies: RabbitMQ returns the unacked message to the queue's head.
CrashConsumer(r) ==
  /\ "crash" \in Faults
  /\ pc[r] # "idle"
  /\ results' = <<msg[r]>> \o results
  /\ Goto(r, "idle")
  /\ msg' = [msg EXCEPT ![r] = NoMessage]
  /\ ForgetReads(r)
  /\ UNCHANGED <<created, reported, proofs, lifecycle>>

Handler(r) ==
  \/ Deliver(r) \/ UpdateStep(r) \/ ReadRequest(r) \/ ReadSteps(r)
  \/ WritePartial(r) \/ WriteOutcome(r) \/ PublishLifecycle(r)
  \/ RecordProof(r) \/ Ack(r)

-----------------------------------------------------------------------------
(***************************************************************************)
(* The environment.                                                        *)
(***************************************************************************)
\* A worker publishes a result for a request it has been told of.
Report(m) ==
  /\ creation[m.req] = "published"
  /\ m.type \in Vocabulary[m.step]
  /\ Repeats \/ m \notin reported
  /\ Len(results) < MaxQueue
  /\ results' = Append(results, m)
  /\ reported' = reported \cup {m}
  /\ UNCHANGED <<created, proofs, lifecycle, consumer>>

\* The analytics worker writes its own step row before its delay.
AnalyticsRunning(q) ==
  /\ creation[q] = "published"
  /\ steps' = [steps EXCEPT ![q][Analytics] = "RUNNING"]
  /\ UNCHANGED <<creation, status, completedAt, results, reported, proofs,
                 lifecycle, consumer>>

\* The SLA scanner writes the status of a request it found stuck earlier on.
FlagSla(q) ==
  /\ creation[q] # "none"
  /\ status' = [status EXCEPT ![q] = "SLA_VIOLATED"]
  /\ UNCHANGED <<creation, completedAt, steps, results, reported, proofs,
                 lifecycle, consumer>>

\* The notification service acknowledges a lifecycle message.
LifecycleTaken ==
  /\ lifecycle # <<>>
  /\ lifecycle' = Tail(lifecycle)
  /\ UNCHANGED <<created, results, reported, proofs, consumer>>

Environment ==
  \/ \E m \in Message : Report(m)
  \/ \E q \in Requests : AnalyticsRunning(q) \/ FlagSla(q)
  \/ LifecycleTaken

Create(q) == SaveRequest(q) \/ SaveSteps(q) \/ PublishRequested(q) \/ AbandonCreate(q)

Next ==
  \/ \E q \in Requests : Create(q)
  \/ \E r \in Replicas : Handler(r) \/ HandlerThrows(r) \/ CrashConsumer(r)
  \/ Environment

Spec == Init /\ [][Next]_vars

-----------------------------------------------------------------------------
(***************************************************************************)
(* What the coordinator promises.                                          *)
(***************************************************************************)
Told(q, s, type) == [req |-> q, step |-> s, type |-> type] \in reported

ToldTerminal(q, s) ==
  \E type \in EventTypes :
    WritesStep(type) /\ Terminal(StatusOf(type)) /\ Told(q, s, type)

\* What the worker of every step, or of some step, must have said before a
\* request may be given the outcome st.
Justified(q, st) ==
  /\ st = "COMPLETED" => \A s \in Steps : Told(q, s, "DeletionStepSucceeded")
  /\ st = "FAILED"    => \E s \in Steps : Told(q, s, "DeletionStepFailed")
  /\ st = "PARTIAL_COMPLETED" => \A s \in FastSteps : ToldTerminal(q, s)

\* The status of a request is never better or worse than what its workers
\* said: COMPLETED only if all of them reported success, FAILED only if one
\* reported failure, PARTIAL_COMPLETED only if every fast one is done.  It must
\* survive stale reads on two replicas, redeliveries, dropped messages, step
\* rows that move backwards and the SLA scanner's writes.
StatusJustified == \A q \in Requests : Justified(q, status[q])

\* completed_at is set only when every step had a final word from its worker,
\* even if the row it was read from has moved back since.
FinishedMeansAllReported ==
  \A q \in Requests : completedAt[q] => \A s \in Steps : ToldTerminal(q, s)

\* A lifecycle message, and so the notification made from it, announces only
\* an outcome the workers' results justify, and only after the request row was
\* given its completed_at: updateRequestStatusIfNeeded writes, then publishes.
LifecycleTruthful ==
  \A i \in 1..Len(lifecycle) :
    LET m == lifecycle[i]
    IN  completedAt[m.req] /\ Justified(m.req, m.status)

\* A request as the console and its progress stream see it.
ShownRow(q) ==
  [st    |-> IF status[q] \in ShownStatus THEN status[q] ELSE "PARTIAL_COMPLETED",
   steps |-> IF \A s \in Steps : Terminal(steps[q][s]) THEN "settled"
             ELSE IF \A s \in Steps : ToldTerminal(q, s) THEN "reported" ELSE "open",
   dated |-> completedAt[q]]

\* What the console is explored over is what the coordinator does: whatever the
\* order of reads, writes, redeliveries and flags, a row moves as RowMoves
\* allows, so that it settles, and is dated, only after every service has
\* reported its end, and a date is never taken back.
RowsMoveAsShown ==
  [][\A q \in Requests : creation[q] # "none" =>
       ShownRow(q)' = ShownRow(q) \/ RowMoves(ShownRow(q), ShownRow(q)')]_vars

\* The result a terminal step row came from.
ResultOf(st) ==
  CASE st = "SUCCEEDED" -> "DeletionStepSucceeded"
    [] st = "FAILED"    -> "DeletionStepFailed"
    [] OTHER            -> "CIRCUIT_OPEN_SKIP"

\* As long as no handler throws, a crash never loses the proof event of a step
\* that reached its final status: the handler writes the row first and the
\* proof last, so the message must come back for the rest.
SettledStepsProved ==
  \A q \in Requests, s \in Steps :
    Terminal(steps[q][s]) =>
      LET m == [req |-> q, step |-> s, type |-> ResultOf(steps[q][s])]
      IN  \/ m \in proofs
          \/ \E r \in Replicas : msg[r] = m
          \/ \E i \in 1..Len(results) : results[i] = m
=============================================================================
