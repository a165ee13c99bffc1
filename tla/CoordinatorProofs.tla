-------------------------- MODULE CoordinatorProofs --------------------------
(***************************************************************************)
(* Proofs about module Coordinator: its type invariant and the truth of    *)
(* what it says, for any requests, replicas, steps, faults and bounds.     *)
(***************************************************************************)
EXTENDS Coordinator, TLAPS

\* A consumer that is not idle holds a published result, and it is on its way
\* to a step row only if the result writes one.
HeldReported ==
  \A r \in Replicas : pc[r] # "idle" =>
    /\ msg[r] \in reported
    /\ pc[r] \notin {"proof", "ack"} => WritesStep(msg[r].type)

QueueReported == \A i \in 1..Len(results) : results[i] \in reported

Safe == TypeOK /\ HeldReported /\ QueueReported

LEMMA StatusOfType ==
  ASSUME NEW type \in EventTypes
  PROVE  StatusOf(type) \in StepStatus
BY DEF StatusOf, EventTypes, StepStatus

LEMMA DecisionType ==
  ASSUME NEW was, NEW rows
  PROVE  Decision(was, rows) \in {"proof", "outcome", "partial"}
BY DEF Decision

LEMMA OutcomeType ==
  ASSUME NEW rows
  PROVE  Outcome(rows) \in {"COMPLETED", "PARTIAL_COMPLETED", "FAILED"}
BY DEF Outcome

LEMMA NoStepsType == NoSteps \in [Steps -> StepStatus \cup {NoRow}]
BY DEF NoSteps

LEMMA InitSafe == Init => Safe
BY NoStepsType DEF Init, Safe, TypeOK, HeldReported, QueueReported, Positions, NoRow

LEMMA NextSafe == Safe /\ [Next]_vars => Safe'
<1> SUFFICES ASSUME Safe, [Next]_vars
             PROVE  Safe'
  OBVIOUS
<1> USE DEF Safe, TypeOK, HeldReported, QueueReported
<1>1. ASSUME NEW q \in Requests, Create(q)
      PROVE  Safe'
  BY <1>1 DEF Create, SaveRequest, SaveSteps, PublishRequested, AbandonCreate,
              consumer, RequestStatus, StepStatus
<1>2. ASSUME NEW r \in Replicas, Deliver(r)
      PROVE  Safe'
  BY <1>2 DEF Deliver, Goto, created, Positions
<1>3. ASSUME NEW r \in Replicas, UpdateStep(r)
      PROVE  Safe'
  BY <1>3, StatusOfType DEF UpdateStep, Goto, Positions, Message
<1>4. ASSUME NEW r \in Replicas, ReadRequest(r)
      PROVE  Safe'
  BY <1>4 DEF ReadRequest, Goto, created, Positions, Message
<1>5. ASSUME NEW r \in Replicas, ReadSteps(r)
      PROVE  Safe'
  BY <1>5, DecisionType, NoStepsType DEF ReadSteps, Goto, ForgetReads, created, Positions, Message
<1>6. ASSUME NEW r \in Replicas, WritePartial(r)
      PROVE  Safe'
  BY <1>6, NoStepsType DEF WritePartial, Goto, ForgetReads, Positions, Message, RequestStatus
<1>7. ASSUME NEW r \in Replicas, WriteOutcome(r)
      PROVE  Safe'
  BY <1>7, OutcomeType DEF WriteOutcome, Goto, Positions, Message, RequestStatus
<1>8. ASSUME NEW r \in Replicas, PublishLifecycle(r)
      PROVE  Safe'
  BY <1>8, OutcomeType, NoStepsType DEF PublishLifecycle, Goto, ForgetReads, created, Positions, Message, Lifecycle
<1>9. ASSUME NEW r \in Replicas, RecordProof(r) \/ Ack(r)
      PROVE  Safe'
  BY <1>9 DEF RecordProof, Ack, Goto, created, Positions
<1>10. ASSUME NEW r \in Replicas, HandlerThrows(r)
      PROVE  Safe'
  BY <1>10, NoStepsType DEF HandlerThrows, Goto, ForgetReads, created, Positions
<1>11. ASSUME NEW r \in Replicas, CrashConsumer(r)
      PROVE  Safe'
  BY <1>11, NoStepsType DEF CrashConsumer, Goto, ForgetReads, created, Positions
<1>12. ASSUME Environment
      PROVE  Safe'
  <2>1. ASSUME NEW m \in Message, Report(m)
        PROVE  Safe'
    BY <2>1 DEF Report, created, consumer
  <2>2. ASSUME NEW q \in Requests, AnalyticsRunning(q)
        PROVE  Safe'
    BY <2>2 DEF AnalyticsRunning, consumer, StepStatus
  <2>3. ASSUME NEW q \in Requests, FlagSla(q)
        PROVE  Safe'
    BY <2>3 DEF FlagSla, consumer, RequestStatus
  <2>4. CASE LifecycleTaken
    BY <2>4 DEF LifecycleTaken, created, consumer
  <2> QED
    BY <1>12, <2>1, <2>2, <2>3, <2>4 DEF Environment
<1>13. CASE UNCHANGED vars
  BY <1>13 DEF vars
<1> QED
  BY <1>1, <1>2, <1>3, <1>4, <1>5, <1>6, <1>7, <1>8, <1>9, <1>10, <1>11, <1>12, <1>13
     DEF Next, Handler

\* Every variable of the coordinator keeps its type, whatever its environment
\* does.
THEOREM CoordinatorTypes == Spec => []TypeOK
<1>1. Safe => TypeOK
  BY DEF Safe
<1> QED
  BY InitSafe, NextSafe, <1>1, PTL DEF Spec

-----------------------------------------------------------------------------
(***************************************************************************)
(* Why no outcome is invented.  The statuses alone are not inductive: what *)
(* a handler is about to write comes from rows it read earlier, so the     *)
(* invariant has to speak of the rows and of every copy of them a handler  *)
(* holds, and trace each terminal entry to a published result.             *)
(***************************************************************************)
Reported(q, rows) ==
  \A s \in Steps : Terminal(rows[s]) => Told(q, s, ResultOf(rows[s]))

RowsReported == \A q \in Requests : Reported(q, steps[q])

\* A handler holding a copy of the rows decided on it, and publishes only
\* after completed_at was written.
CopiesReported ==
  \A r \in Replicas :
    /\ pc[r] \in {"partial", "outcome", "publish"} =>
         Reported(msg[r].req, snap[r])
    /\ pc[r] = "partial" => FastDone(snap[r])
    /\ pc[r] \in {"outcome", "publish"} => AllCompleted(snap[r])
    /\ pc[r] = "publish" => completedAt[msg[r].req]

Truth == StatusJustified /\ FinishedMeansAllReported /\ LifecycleTruthful

IInv == Safe /\ RowsReported /\ CopiesReported /\ Truth

LEMMA ResultOfStatus ==
  ASSUME NEW type \in EventTypes, WritesStep(type), Terminal(StatusOf(type))
  PROVE  ResultOf(StatusOf(type)) = type
BY DEF EventTypes, WritesStep, StatusOf, Terminal, ResultOf

LEMMA ToldTerminalResult ==
  ASSUME NEW q, NEW s, NEW st, Terminal(st), Told(q, s, ResultOf(st))
  PROVE  ToldTerminal(q, s)
<1>1. /\ ResultOf(st) \in EventTypes
      /\ WritesStep(ResultOf(st))
      /\ Terminal(StatusOf(ResultOf(st)))
  BY DEF Terminal, ResultOf, EventTypes, WritesStep, StatusOf
<1> QED
  BY <1>1 DEF ToldTerminal

\* What a handler decides to write is justified by the rows it decided on.
LEMMA OutcomeJustified ==
  ASSUME NEW q, NEW rows, Reported(q, rows), AllCompleted(rows)
  PROVE  /\ Justified(q, Outcome(rows))
         /\ \A s \in Steps : ToldTerminal(q, s)
<1>1. \A s \in Steps : ToldTerminal(q, s)
  BY ToldTerminalResult DEF Reported, AllCompleted
<1>2. Outcome(rows) = "COMPLETED" => \A s \in Steps : rows[s] = "SUCCEEDED"
  BY DEF Outcome, AllCompleted, Terminal
<1>3. Outcome(rows) = "FAILED" => \E s \in Steps : rows[s] = "FAILED"
  BY DEF Outcome
<1>4. Outcome(rows) = "COMPLETED" => \A s \in Steps : Told(q, s, "DeletionStepSucceeded")
  BY <1>2 DEF Reported, AllCompleted, ResultOf
<1>5. Outcome(rows) = "FAILED" => \E s \in Steps : Told(q, s, "DeletionStepFailed")
  BY <1>3 DEF Reported, AllCompleted, ResultOf
<1> QED
  BY <1>1, <1>4, <1>5 DEF Justified, Steps

LEMMA PartialJustified ==
  ASSUME NEW q, NEW rows, Reported(q, rows), FastDone(rows)
  PROVE  Justified(q, "PARTIAL_COMPLETED")
BY ToldTerminalResult DEF Reported, FastDone, Justified, Steps

\* Results are only ever added to the history.
LEMMA ReportedGrows == [Next]_vars => reported \subseteq reported'
BY DEF Next, vars, Create, SaveRequest, SaveSteps, PublishRequested, AbandonCreate,
       Handler, Deliver, UpdateStep, ReadRequest, ReadSteps, WritePartial,
       WriteOutcome, PublishLifecycle, RecordProof, Ack, HandlerThrows,
       CrashConsumer, Environment, Report, AnalyticsRunning, FlagSla, LifecycleTaken

LEMMA JustifiedStays ==
  ASSUME reported \subseteq reported', NEW q, NEW st, Justified(q, st)
  PROVE  Justified(q, st)'
BY DEF Justified, Told, ToldTerminal

LEMMA ReportedStays ==
  ASSUME reported \subseteq reported', NEW q, NEW rows, Reported(q, rows)
  PROVE  Reported(q, rows)'
BY DEF Reported, Told

LEMMA AllToldStays ==
  ASSUME reported \subseteq reported', NEW q, \A s \in Steps : ToldTerminal(q, s)
  PROVE  (\A s \in Steps : ToldTerminal(q, s))'
BY DEF Told, ToldTerminal

LEMMA InitTruth == Init => IInv
BY InitSafe DEF IInv, Init, RowsReported, CopiesReported, Truth, Reported, NoSteps,
   Terminal, NoRow, StatusJustified, Justified, FinishedMeansAllReported, LifecycleTruthful

LEMMA NextTruth == IInv /\ [Next]_vars => IInv'
<1> SUFFICES ASSUME IInv, [Next]_vars
             PROVE  IInv'
  OBVIOUS
<1> USE DEF IInv, Truth
<1>0. Safe' /\ reported \subseteq reported'
  BY NextSafe, ReportedGrows
<1> DEFINE Kept == /\ RowsReported' /\ CopiesReported' /\ Truth'
<1> SUFFICES Kept
  BY <1>0
\* What is left alone stays true.
<1>rows. UNCHANGED steps => RowsReported'
  BY <1>0, ReportedStays DEF RowsReported
<1>copies. UNCHANGED <<pc, msg, snap, completedAt>> => CopiesReported'
  BY <1>0, ReportedStays DEF CopiesReported
<1>status. UNCHANGED status => StatusJustified'
  BY <1>0, JustifiedStays DEF StatusJustified
<1>done. UNCHANGED completedAt => FinishedMeansAllReported'
  BY <1>0, AllToldStays DEF FinishedMeansAllReported
<1>life. UNCHANGED <<lifecycle, completedAt>> => LifecycleTruthful'
  BY <1>0, JustifiedStays DEF LifecycleTruthful
<1>1. ASSUME NEW q \in Requests, Create(q)
      PROVE  Kept
  <2>1. UNCHANGED <<pc, msg, snap, completedAt, lifecycle>>
    BY <1>1 DEF Create, SaveRequest, SaveSteps, PublishRequested, AbandonCreate, consumer
  <2>2. RowsReported'
    <3>1. CASE SaveSteps(q)
      BY <1>0, <3>1, ReportedStays
         DEF SaveSteps, RowsReported, Reported, Terminal, Told, Safe, TypeOK
    <3>2. CASE ~SaveSteps(q)
      BY <1>1, <1>rows, <3>2 DEF Create, SaveRequest, PublishRequested, AbandonCreate
    <3> QED
      BY <3>1, <3>2
  <2>3. StatusJustified'
    BY <1>0, <1>1, <1>status, JustifiedStays
       DEF Create, SaveRequest, SaveSteps, PublishRequested, AbandonCreate,
           StatusJustified, Justified, Safe, TypeOK
  <2> QED
    BY <2>1, <2>2, <2>3, <1>copies, <1>done, <1>life
<1>2. ASSUME NEW r \in Replicas, Deliver(r)
      PROVE  Kept
  <2>1. CopiesReported'
    BY <1>0, <1>2, ReportedStays DEF Deliver, Goto, created, CopiesReported, Safe, TypeOK
  <2> QED
    BY <1>2, <2>1, <1>rows, <1>status, <1>done, <1>life DEF Deliver, created
<1>3. ASSUME NEW r \in Replicas, UpdateStep(r)
      PROVE  Kept
  <2> DEFINE q == msg[r].req
             s == msg[r].step
             new == StatusOf(msg[r].type)
  <2>1. /\ msg[r] \in reported /\ msg[r] \in Message
        /\ WritesStep(msg[r].type)
    BY <1>3 DEF UpdateStep, Safe, TypeOK, HeldReported
  <2>2. Terminal(new) => Told(q, s, ResultOf(new))
    BY <2>1, ResultOfStatus DEF Told, Message
  <2>3. RowsReported'
    BY <1>0, <1>3, <2>1, <2>2 DEF UpdateStep, RowsReported, Reported, Told, Message, Safe, TypeOK
  <2>4. CopiesReported'
    BY <1>0, <1>3, ReportedStays DEF UpdateStep, Goto, CopiesReported, Safe, TypeOK
  <2> QED
    BY <1>3, <2>3, <2>4, <1>status, <1>done, <1>life DEF UpdateStep
<1>4. ASSUME NEW r \in Replicas, ReadRequest(r)
      PROVE  Kept
  <2>1. CopiesReported'
    BY <1>0, <1>4, ReportedStays DEF ReadRequest, Goto, created, CopiesReported, Safe, TypeOK
  <2> QED
    BY <1>4, <2>1, <1>rows, <1>status, <1>done, <1>life DEF ReadRequest, created
<1>5. ASSUME NEW r \in Replicas, ReadSteps(r)
      PROVE  Kept
  <2> DEFINE q == msg[r].req
             next == Decision(before[r], steps[q])
  <2>1. q \in Requests
    BY <1>5 DEF ReadSteps, Safe, TypeOK, HeldReported, Message
  <2>2. /\ next = "partial" => FastDone(steps[q])
        /\ next = "outcome" => AllCompleted(steps[q])
        /\ next \in {"proof", "outcome", "partial"}
    BY DecisionType DEF Decision
  <2>3. Reported(q, steps[q])'
    BY <1>0, <1>5, <2>1, ReportedStays DEF ReadSteps, created, RowsReported
  <2>4. CopiesReported'
    BY <1>0, <1>5, <2>1, <2>2, <2>3, ReportedStays
       DEF ReadSteps, Goto, ForgetReads, created, CopiesReported, Safe, TypeOK
  <2> QED
    BY <1>5, <2>4, <1>rows, <1>status, <1>done, <1>life DEF ReadSteps, created
<1>6. ASSUME NEW r \in Replicas, WritePartial(r)
      PROVE  Kept
  <2> DEFINE q == msg[r].req
  <2>1. Justified(q, "PARTIAL_COMPLETED")
    BY <1>6, PartialJustified DEF WritePartial, CopiesReported
  <2>2. StatusJustified'
    BY <1>0, <1>6, <2>1, JustifiedStays DEF WritePartial, StatusJustified, Safe, TypeOK
  <2>3. CopiesReported'
    BY <1>0, <1>6, ReportedStays DEF WritePartial, Goto, ForgetReads, CopiesReported, Safe, TypeOK
  <2> QED
    BY <1>6, <2>2, <2>3, <1>rows, <1>done, <1>life DEF WritePartial
<1>7. ASSUME NEW r \in Replicas, WriteOutcome(r)
      PROVE  Kept
  <2> DEFINE q == msg[r].req
  <2>1. /\ Justified(q, Outcome(snap[r]))
        /\ \A s \in Steps : ToldTerminal(q, s)
    BY <1>7, OutcomeJustified DEF WriteOutcome, CopiesReported
  <2>2. StatusJustified'
    BY <1>0, <1>7, <2>1, JustifiedStays DEF WriteOutcome, StatusJustified, Safe, TypeOK
  <2>3. FinishedMeansAllReported'
    BY <1>0, <1>7, <2>1, AllToldStays DEF WriteOutcome, FinishedMeansAllReported, Safe, TypeOK
  <2>4. LifecycleTruthful'
    BY <1>0, <1>7, JustifiedStays DEF WriteOutcome, LifecycleTruthful, Safe, TypeOK, Lifecycle
  <2>5. CopiesReported'
    BY <1>0, <1>7, ReportedStays
       DEF WriteOutcome, Goto, CopiesReported, Safe, TypeOK, HeldReported, Message
  <2> QED
    BY <1>7, <2>2, <2>3, <2>4, <2>5, <1>rows DEF WriteOutcome
<1>8. ASSUME NEW r \in Replicas, PublishLifecycle(r)
      PROVE  Kept
  <2> DEFINE q == msg[r].req
  <2>1. Justified(q, Outcome(snap[r])) /\ completedAt[q]
    BY <1>8, OutcomeJustified DEF PublishLifecycle, CopiesReported
  <2>2. LifecycleTruthful'
    BY <1>0, <1>8, <2>1, JustifiedStays DEF PublishLifecycle, created, LifecycleTruthful, Safe, TypeOK
  <2>3. CopiesReported'
    BY <1>0, <1>8, ReportedStays
       DEF PublishLifecycle, Goto, ForgetReads, created, CopiesReported, Safe, TypeOK
  <2> QED
    BY <1>8, <2>2, <2>3, <1>rows, <1>status, <1>done DEF PublishLifecycle, created
<1>9. ASSUME NEW r \in Replicas, RecordProof(r) \/ Ack(r) \/ HandlerThrows(r) \/ CrashConsumer(r)
      PROVE  Kept
  <2>1. CopiesReported'
    BY <1>0, <1>9, ReportedStays
       DEF RecordProof, Ack, HandlerThrows, CrashConsumer, Goto, ForgetReads, created,
           CopiesReported, Safe, TypeOK
  <2>2. UNCHANGED <<steps, status, completedAt, lifecycle>>
    BY <1>9 DEF RecordProof, Ack, HandlerThrows, CrashConsumer, created
  <2> QED
    BY <2>1, <2>2, <1>rows, <1>status, <1>done, <1>life
<1>10. ASSUME NEW m \in Message, Report(m)
      PROVE  Kept
  BY <1>10, <1>rows, <1>copies, <1>status, <1>done, <1>life DEF Report, created, consumer
<1>11. ASSUME NEW q \in Requests, AnalyticsRunning(q)
      PROVE  Kept
  <2>1. RowsReported'
    BY <1>0, <1>11, ReportedStays
       DEF AnalyticsRunning, RowsReported, Reported, Told, Terminal, Safe, TypeOK
  <2> QED
    BY <1>11, <2>1, <1>copies, <1>status, <1>done, <1>life DEF AnalyticsRunning, consumer
<1>12. ASSUME NEW q \in Requests, FlagSla(q)
      PROVE  Kept
  <2>1. StatusJustified'
    BY <1>0, <1>12, JustifiedStays DEF FlagSla, StatusJustified, Justified, Safe, TypeOK
  <2> QED
    BY <1>12, <2>1, <1>rows, <1>copies, <1>done, <1>life DEF FlagSla, consumer
<1>13. CASE LifecycleTaken
  <2>1. LifecycleTruthful'
    BY <1>0, <1>13, JustifiedStays DEF LifecycleTaken, created, LifecycleTruthful, Safe, TypeOK
  <2> QED
    BY <1>13, <2>1, <1>rows, <1>copies, <1>status, <1>done DEF LifecycleTaken, created, consumer
<1>14. CASE UNCHANGED vars
  BY <1>14, <1>rows, <1>copies, <1>status, <1>done, <1>life DEF vars
<1> QED
  BY <1>1, <1>2, <1>3, <1>4, <1>5, <1>6, <1>7, <1>8, <1>9, <1>10, <1>11, <1>12, <1>13, <1>14
     DEF Next, Handler, Environment

LEMMA SpecTruth == Spec => []IInv
BY InitTruth, NextTruth, PTL DEF Spec

\* The status of a request is what its workers' results justify, whatever
\* interleaving of replicas, crash, lost message or stale read led to it.
THEOREM StatusTruth == Spec => []StatusJustified
<1>1. IInv => StatusJustified
  BY DEF IInv, Truth
<1> QED
  BY SpecTruth, <1>1, PTL

\* completed_at is set only after the last word of every worker.
THEOREM FinishedTruth == Spec => []FinishedMeansAllReported
<1>1. IInv => FinishedMeansAllReported
  BY DEF IInv, Truth
<1> QED
  BY SpecTruth, <1>1, PTL

\* What is announced to the notification service is true and already written.
THEOREM LifecycleTruth == Spec => []LifecycleTruthful
<1>1. IInv => LifecycleTruthful
  BY DEF IInv, Truth
<1> QED
  BY SpecTruth, <1>1, PTL

-----------------------------------------------------------------------------
(***************************************************************************)
(* What a lifecycle message stands on, in full: Justified says less of a   *)
(* PARTIAL_COMPLETED one, because a request row may have that status before*)
(* its last step is done; a message has it only after.                     *)
(***************************************************************************)
Backed(q, st) ==
  IF st = "FAILED"
  THEN \E s \in Steps : Told(q, s, "DeletionStepFailed")
  ELSE \A s \in Steps : Told(q, s, "DeletionStepSucceeded") \/ Told(q, s, "CIRCUIT_OPEN_SKIP")

LifecycleBacked == \A i \in 1..Len(lifecycle) : Backed(lifecycle[i].req, lifecycle[i].status)

\* No worker says what is not in its vocabulary.
InVocabulary == \A m \in reported : m.type \in Vocabulary[m.step]

LEMMA OutcomeBacked ==
  ASSUME NEW q, NEW rows, Reported(q, rows), AllCompleted(rows)
  PROVE  Backed(q, Outcome(rows))
<1>1. CASE Outcome(rows) = "FAILED"
  <2>1. PICK s \in Steps : rows[s] = "FAILED"
    BY <1>1 DEF Outcome
  <2>2. Told(q, s, "DeletionStepFailed")
    BY <2>1 DEF Reported, Terminal, ResultOf
  <2> QED
    BY <1>1, <2>2 DEF Backed
<1>2. CASE Outcome(rows) # "FAILED"
  <2> SUFFICES ASSUME NEW s \in Steps
               PROVE  Told(q, s, "DeletionStepSucceeded") \/ Told(q, s, "CIRCUIT_OPEN_SKIP")
    BY <1>2 DEF Backed
  <2>1. rows[s] # "FAILED" /\ Terminal(rows[s])
    BY <1>2 DEF Outcome, AllCompleted
  <2> QED
    BY <2>1 DEF Reported, Terminal, ResultOf
<1> QED
  BY <1>1, <1>2

LEMMA BackedStays ==
  ASSUME reported \subseteq reported', NEW q, NEW st, Backed(q, st)
  PROVE  Backed(q, st)'
BY DEF Backed, Told

LEMMA NextBacked == IInv /\ LifecycleBacked /\ [Next]_vars => LifecycleBacked'
<1> SUFFICES ASSUME IInv, LifecycleBacked, [Next]_vars
             PROVE  LifecycleBacked'
  OBVIOUS
<1> USE DEF LifecycleBacked
<1>0. /\ reported \subseteq reported'
      /\ lifecycle \in Seq(Lifecycle)
  BY ReportedGrows DEF IInv, Safe, TypeOK
<1>1. ASSUME NEW r \in Replicas, PublishLifecycle(r)
      PROVE  LifecycleBacked'
  <2>1. Backed(msg[r].req, Outcome(snap[r]))
    BY <1>1, OutcomeBacked DEF PublishLifecycle, IInv, CopiesReported
  <2>2. lifecycle' = Append(lifecycle, [req |-> msg[r].req, status |-> Outcome(snap[r])])
    BY <1>1 DEF PublishLifecycle
  <2> QED
    BY <1>0, <2>1, <2>2, BackedStays
<1>2. CASE LifecycleTaken
  BY <1>0, <1>2, BackedStays DEF LifecycleTaken
<1>3. CASE UNCHANGED lifecycle
  BY <1>0, <1>3, BackedStays
<1> QED
  BY <1>1, <1>2, <1>3
  DEF Next, vars, Create, SaveRequest, SaveSteps, PublishRequested, AbandonCreate,
      Handler, Deliver, UpdateStep, ReadRequest, ReadSteps, WritePartial, WriteOutcome,
      RecordProof, Ack, HandlerThrows, CrashConsumer, Environment, Report,
      AnalyticsRunning, FlagSla

LEMMA NextVocabulary == InVocabulary /\ [Next]_vars => InVocabulary'
BY DEF InVocabulary, Next, vars, Create, SaveRequest, SaveSteps, PublishRequested, AbandonCreate,
       Handler, Deliver, UpdateStep, ReadRequest, ReadSteps, WritePartial,
       WriteOutcome, PublishLifecycle, RecordProof, Ack, HandlerThrows,
       CrashConsumer, Environment, Report, AnalyticsRunning, FlagSla, LifecycleTaken

\* A lifecycle message announces what every worker said: a failure one of them
\* reported, or else that each succeeded or skipped; in no worker's words but
\* its own.
THEOREM LifecycleFullyBacked == Spec => [](LifecycleBacked /\ InVocabulary)
<1>1. Init => LifecycleBacked /\ InVocabulary
  BY DEF Init, LifecycleBacked, InVocabulary
<1> QED
  BY InitTruth, NextTruth, NextBacked, NextVocabulary, <1>1, PTL DEF Spec

-----------------------------------------------------------------------------
(***************************************************************************)
(* Crashes lose no proof event.  A message leaves the queue only into a    *)
(* consumer, and a consumer only to the queue's head (crash) or, acked,    *)
(* after its proof event was written.                                      *)
(***************************************************************************)
Queued(m) == \E i \in 1..Len(results) : results[i] = m

\* Where a message that was published and not lost can be.
Accounted(m) ==
  \/ m \in proofs
  \/ \E r \in Replicas : msg[r] = m
  \/ Queued(m)

AckedProved ==
  \A r \in Replicas :
    /\ pc[r] = "ack" => msg[r] \in proofs
    /\ pc[r] = "idle" => msg[r] = NoMessage

LEMMA DequeueAccounts ==
  ASSUME results \in Seq(Message), results # <<>>, results' = Tail(results),
         NEW m, Queued(m)
  PROVE  m = Head(results) \/ Queued(m)'
<1>1. PICK i \in 1..Len(results) : results[i] = m
  BY DEF Queued
<1>2. CASE i = 1
  BY <1>1, <1>2
<1>3. CASE i # 1
  <2>1. i - 1 \in 1..Len(Tail(results)) /\ Tail(results)[i - 1] = m
    BY <1>1, <1>3
  <2> QED
    BY <2>1 DEF Queued
<1> QED
  BY <1>2, <1>3

LEMMA EnqueueAccounts ==
  ASSUME results \in Seq(Message), NEW x \in Message,
         results' = Append(results, x), NEW m, Queued(m)
  PROVE  Queued(m)'
BY DEF Queued

LEMMA RequeueAccounts ==
  ASSUME results \in Seq(Message), NEW x \in Message,
         results' = <<x>> \o results, NEW m, Queued(m) \/ m = x
  PROVE  Queued(m)'
<1>1. CASE m = x
  BY <1>1 DEF Queued
<1>2. CASE Queued(m)
  <2>1. PICK i \in 1..Len(results) : results[i] = m
    BY <1>2 DEF Queued
  <2>2. i + 1 \in 1..Len(results') /\ results'[i + 1] = m
    BY <2>1
  <2> QED
    BY <2>2 DEF Queued
<1> QED
  BY <1>1, <1>2

\* A message that is accounted for stays so, as long as no handler throws.
LEMMA AccountedStays ==
  ASSUME "throw" \notin Faults, Safe, AckedProved, [Next]_vars,
         NEW m \in Message, Accounted(m)
  PROVE  Accounted(m)'
<1> USE DEF Safe, TypeOK
<1>1. ASSUME NEW r \in Replicas, Deliver(r)
      PROVE  Accounted(m)'
  <2>1. m = Head(results) => msg'[r] = m
    BY <1>1 DEF Deliver
  <2>2. msg[r] # m
    BY <1>1, CoordinatorAssumption DEF Deliver, AckedProved
  <2>3. ASSUME NEW p \in Replicas, msg[p] = m
        PROVE  msg'[p] = m
    BY <1>1, <2>2, <2>3 DEF Deliver
  <2> QED
    BY <1>1, <2>1, <2>3, DequeueAccounts DEF Deliver, Accounted
<1>2. ASSUME NEW r \in Replicas,
             UpdateStep(r) \/ ReadRequest(r) \/ ReadSteps(r) \/ WritePartial(r)
               \/ WriteOutcome(r) \/ PublishLifecycle(r) \/ RecordProof(r)
      PROVE  Accounted(m)'
  BY <1>2 DEF UpdateStep, ReadRequest, ReadSteps, WritePartial, WriteOutcome,
              PublishLifecycle, RecordProof, created, Accounted, Queued
<1>3. ASSUME NEW r \in Replicas, Ack(r)
      PROVE  Accounted(m)'
  BY <1>3 DEF Ack, created, Accounted, Queued, AckedProved
<1>4. ASSUME NEW r \in Replicas, CrashConsumer(r)
      PROVE  Accounted(m)'
  <2>1. msg[r] \in Message
    BY <1>4 DEF CrashConsumer, HeldReported
  <2>2. msg[r] = m => Queued(m)'
    BY <1>4, <2>1, RequeueAccounts DEF CrashConsumer
  <2>3. ASSUME NEW p \in Replicas, p # r, msg[p] = m
        PROVE  msg'[p] = m
    BY <1>4, <2>3 DEF CrashConsumer
  <2> QED
    BY <1>4, <2>1, <2>2, <2>3, RequeueAccounts DEF CrashConsumer, Accounted
<1>5. ASSUME NEW q \in Requests, Create(q) \/ AnalyticsRunning(q) \/ FlagSla(q)
      PROVE  Accounted(m)'
  BY <1>5 DEF Create, SaveRequest, SaveSteps, PublishRequested, AbandonCreate,
              AnalyticsRunning, FlagSla, consumer, Accounted, Queued
<1>6. ASSUME NEW x \in Message, Report(x)
      PROVE  Accounted(m)'
  BY <1>6, EnqueueAccounts DEF Report, consumer, Accounted
<1>7. CASE LifecycleTaken \/ UNCHANGED vars
  BY <1>7 DEF LifecycleTaken, vars, consumer, Accounted, Queued
<1> QED
  BY <1>1, <1>2, <1>3, <1>4, <1>5, <1>6, <1>7
     DEF Next, Handler, HandlerThrows, Environment

ProofInv == Safe /\ AckedProved /\ SettledStepsProved

LEMMA SettledAccounted ==
  SettledStepsProved <=>
    \A q \in Requests, s \in Steps :
      Terminal(steps[q][s]) =>
        Accounted([req |-> q, step |-> s, type |-> ResultOf(steps[q][s])])
BY DEF SettledStepsProved, Accounted, Queued

LEMMA InitProofInv == Init => ProofInv
BY InitSafe DEF Init, ProofInv, AckedProved, SettledStepsProved, NoSteps, NoRow, Terminal

LEMMA NextAckedProved == Safe /\ AckedProved /\ [Next]_vars => AckedProved'
<1> SUFFICES ASSUME Safe, AckedProved, [Next]_vars
             PROVE  AckedProved'
  OBVIOUS
<1> USE DEF Safe, TypeOK, AckedProved
<1>1. ASSUME NEW r \in Replicas, ReadSteps(r)
      PROVE  AckedProved'
  BY <1>1, DecisionType DEF ReadSteps, Goto
<1>2. ASSUME NEW r \in Replicas,
             Deliver(r) \/ UpdateStep(r) \/ ReadRequest(r) \/ WritePartial(r)
               \/ WriteOutcome(r) \/ PublishLifecycle(r)
      PROVE  AckedProved'
  BY <1>2 DEF Deliver, UpdateStep, ReadRequest, WritePartial, WriteOutcome,
              PublishLifecycle, Goto
<1>3. ASSUME NEW r \in Replicas,
             RecordProof(r) \/ Ack(r) \/ HandlerThrows(r) \/ CrashConsumer(r)
      PROVE  AckedProved'
  BY <1>3 DEF RecordProof, Ack, HandlerThrows, CrashConsumer, Goto
<1>4. ASSUME NEW q \in Requests, Create(q) \/ AnalyticsRunning(q) \/ FlagSla(q)
      PROVE  AckedProved'
  BY <1>4 DEF Create, SaveRequest, SaveSteps, PublishRequested, AbandonCreate,
              AnalyticsRunning, FlagSla, consumer
<1>5. ASSUME NEW x \in Message, Report(x)
      PROVE  AckedProved'
  BY <1>5 DEF Report, consumer
<1>6. CASE LifecycleTaken \/ UNCHANGED vars
  BY <1>6 DEF LifecycleTaken, vars, consumer
<1> QED
  BY <1>1, <1>2, <1>3, <1>4, <1>5, <1>6 DEF Next, Handler, Environment

LEMMA NextProofInv ==
  ASSUME "throw" \notin Faults
  PROVE  ProofInv /\ [Next]_vars => ProofInv'
<1> SUFFICES ASSUME ProofInv, [Next]_vars
             PROVE  ProofInv'
  OBVIOUS
<1>0. Safe' /\ AckedProved'
  BY NextSafe, NextAckedProved DEF ProofInv
<1> SUFFICES ASSUME NEW q \in Requests, NEW s \in Steps,
                    NEW st, st = steps'[q][s], Terminal(st)
             PROVE  Accounted([req |-> q, step |-> s, type |-> ResultOf(st)])'
  BY <1>0 DEF ProofInv, SettledStepsProved, Accounted, Queued
<1> DEFINE m == [req |-> q, step |-> s, type |-> ResultOf(st)]
<1>1. m \in Message
  BY DEF Message, ResultOf, EventTypes
\* A row that does not change, or stops being terminal, was accounted for.
<1>2. CASE steps'[q][s] = steps[q][s]
  <2>1. Accounted(m)
    BY <1>2, SettledAccounted DEF ProofInv
  <2> QED
    BY <1>1, <2>1, AccountedStays DEF ProofInv
\* A row becomes terminal only by the handler that holds the result.
<1>3. CASE steps'[q][s] # steps[q][s]
  <2>1. PICK r \in Replicas : UpdateStep(r)
    <3>1. ASSUME NEW p \in Requests, SaveSteps(p) \/ AnalyticsRunning(p)
          PROVE  FALSE
      BY <1>3, <3>1 DEF SaveSteps, AnalyticsRunning, ProofInv, Safe, TypeOK, Terminal
    <3> QED
      BY <1>3, <3>1
         DEF Next, vars, Create, SaveRequest, PublishRequested, AbandonCreate,
             Handler, Deliver, ReadRequest, ReadSteps, WritePartial, WriteOutcome,
             PublishLifecycle, RecordProof, Ack, HandlerThrows, CrashConsumer,
             Environment, Report, FlagSla, LifecycleTaken, created
  <2>2. /\ msg[r] \in Message /\ WritesStep(msg[r].type)
        /\ msg'[r] = msg[r]
    BY <2>1 DEF UpdateStep, ProofInv, Safe, TypeOK, HeldReported
  <2>3. /\ msg[r].req = q /\ msg[r].step = s
        /\ steps'[q][s] = StatusOf(msg[r].type)
    BY <1>3, <2>1, <2>2 DEF UpdateStep, ProofInv, Safe, TypeOK, Message
  <2>4. msg[r] = m
    BY <2>2, <2>3, ResultOfStatus DEF Message
  <2> QED
    BY <2>2, <2>4 DEF Accounted
<1> QED
  BY <1>2, <1>3

\* Where a handler's database calls never fail, no crash or redelivery loses
\* the proof event of a step that reached its final status.
THEOREM CrashKeepsProofs ==
  ASSUME "throw" \notin Faults
  PROVE  Spec => []SettledStepsProved
<1>1. ProofInv /\ [Next]_vars => ProofInv'
  BY NextProofInv
<1>2. ProofInv => SettledStepsProved
  BY DEF ProofInv
<1> QED
  BY InitProofInv, <1>1, <1>2, PTL DEF Spec

-----------------------------------------------------------------------------
(***************************************************************************)
(* The rows as the console sees them.  Step rows and results never change  *)
(* in one action, so that no row settles before the last result is there;  *)
(* after it, they may settle and reopen as they like.                      *)
(***************************************************************************)
AllTold(q) == \A s \in Steps : ToldTerminal(q, s)
Settled(q) == \A s \in Steps : Terminal(steps[q][s])
ShownSteps(q) == IF Settled(q) THEN "settled" ELSE IF AllTold(q) THEN "reported" ELSE "open"
ShownSt(q) == IF status[q] \in ShownStatus THEN status[q] ELSE "PARTIAL_COMPLETED"

LEMMA ResultOfTerminal ==
  ASSUME NEW st, Terminal(st)
  PROVE  ResultOf(st) \in EventTypes /\ WritesStep(ResultOf(st)) /\ Terminal(StatusOf(ResultOf(st)))
BY DEF Terminal, ResultOf, EventTypes, WritesStep, StatusOf

\* What a step does to the status and the date of a request that exists.
LEMMA StatusMoves ==
  ASSUME IInv, [Next]_vars, NEW q \in Requests, creation[q] # "none"
  PROVE  \/ /\ status'[q] = status[q] /\ completedAt'[q] = completedAt[q]
         \/ /\ status'[q] \in {"PARTIAL_COMPLETED", "SLA_VIOLATED"} /\ completedAt'[q] = completedAt[q]
            /\ UNCHANGED <<steps, reported>>
         \/ /\ status'[q] \in Outcomes /\ completedAt'[q] = TRUE /\ AllTold(q)
            /\ UNCHANGED <<steps, reported>>
<1> DEFINE Same == status'[q] = status[q] /\ completedAt'[q] = completedAt[q]
<1> USE DEF IInv, Safe, TypeOK
<1>1. ASSUME NEW p \in Requests, Create(p)
      PROVE  Same
  BY <1>1 DEF Create, SaveRequest, SaveSteps, PublishRequested, AbandonCreate
<1>2. ASSUME NEW r \in Replicas, WriteOutcome(r), msg[r].req = q
      PROVE  /\ status'[q] \in Outcomes /\ completedAt'[q] = TRUE /\ AllTold(q)
             /\ UNCHANGED <<steps, reported>>
  BY <1>2, OutcomeType, OutcomeJustified DEF WriteOutcome, CopiesReported, AllTold, Outcomes
<1>3. ASSUME NEW r \in Replicas, WriteOutcome(r), msg[r].req # q
      PROVE  Same
  BY <1>3 DEF WriteOutcome
<1>4. ASSUME NEW r \in Replicas, WritePartial(r)
      PROVE  /\ Same \/ (status'[q] = "PARTIAL_COMPLETED" /\ completedAt'[q] = completedAt[q])
             /\ UNCHANGED <<steps, reported>>
  BY <1>4 DEF WritePartial
<1>5. ASSUME NEW p \in Requests, FlagSla(p)
      PROVE  /\ Same \/ (status'[q] = "SLA_VIOLATED" /\ completedAt'[q] = completedAt[q])
             /\ UNCHANGED <<steps, reported>>
  BY <1>5 DEF FlagSla
<1> QED
  BY <1>1, <1>2, <1>3, <1>4, <1>5
     DEF Next, vars, Handler, Deliver, UpdateStep, ReadRequest, ReadSteps, PublishLifecycle,
         RecordProof, Ack, HandlerThrows, CrashConsumer, Environment, Report,
         AnalyticsRunning, LifecycleTaken, created

LEMMA StepsMove ==
  ASSUME IInv, [Next]_vars, NEW q \in Requests
  PROVE  /\ ShownSteps(q) = "open" => ShownSteps(q)' \in {"open", "reported"}
         /\ ShownSteps(q) # "open" => ShownSteps(q)' \in {"reported", "settled"}
<1>1. IInv' /\ reported \subseteq reported'
  BY NextTruth, ReportedGrows
<1>2. (Settled(q) => AllTold(q)) /\ (Settled(q)' => AllTold(q)')
  BY <1>1, ResultOfTerminal DEF IInv, RowsReported, Reported, Settled, AllTold, Told, ToldTerminal
<1>3. AllTold(q) => AllTold(q)'
  BY <1>1, AllToldStays DEF AllTold
<1>4. UNCHANGED steps \/ UNCHANGED reported
  BY DEF Next, vars, Create, SaveRequest, SaveSteps, PublishRequested, AbandonCreate,
         Handler, Deliver, UpdateStep, ReadRequest, ReadSteps, WritePartial,
         WriteOutcome, PublishLifecycle, RecordProof, Ack, HandlerThrows,
         CrashConsumer, Environment, Report, AnalyticsRunning, FlagSla, LifecycleTaken, created
<1>5. UNCHANGED steps => (Settled(q)' <=> Settled(q))
  BY DEF Settled
<1>6. UNCHANGED reported => (AllTold(q)' <=> AllTold(q))
  BY DEF AllTold, ToldTerminal, Told
<1> QED
  BY <1>2, <1>3, <1>4, <1>5, <1>6 DEF ShownSteps

LEMMA MovesByField ==
  ASSUME NEW st, NEW at, NEW dated, NEW st1, NEW at1, NEW dated1,
         \/ st1 = st /\ dated1 = dated /\ at = "open" /\ at1 = "reported"
         \/ st1 = st /\ dated1 = dated /\ at # "open" /\ at1 \in {"reported", "settled"}
         \/ at1 = at /\ at # "open" /\ st1 \in Outcomes /\ dated1 = TRUE
         \/ at1 = at /\ dated1 = dated /\ st1 = "PARTIAL_COMPLETED"
  PROVE  RowMoves([st |-> st, steps |-> at, dated |-> dated],
                  [st |-> st1, steps |-> at1, dated |-> dated1])
<1> DEFINE row == [st |-> st, steps |-> at, dated |-> dated]
           new == [st |-> st1, steps |-> at1, dated |-> dated1]
<1>1. CASE st1 = st /\ dated1 = dated /\ at = "open" /\ at1 = "reported"
  <2>1. row.steps = "open" /\ new = [row EXCEPT !.steps = "reported"]
    BY <1>1
  <2> QED
    BY <2>1 DEF RowMoves
<1>2. CASE st1 = st /\ dated1 = dated /\ at # "open" /\ at1 \in {"reported", "settled"}
  <2>1. row.steps # "open" /\ new = [row EXCEPT !.steps = at1]
    BY <1>2
  <2> QED
    BY <1>2, <2>1 DEF RowMoves
<1>3. CASE at1 = at /\ at # "open" /\ st1 \in Outcomes /\ dated1 = TRUE
  <2>1. row.steps # "open" /\ new = [st |-> st1, steps |-> row.steps, dated |-> TRUE]
    BY <1>3
  <2> QED
    BY <1>3, <2>1 DEF RowMoves
<1>4. CASE at1 = at /\ dated1 = dated /\ st1 = "PARTIAL_COMPLETED"
  <2>1. new = [row EXCEPT !.st = "PARTIAL_COMPLETED"]
    BY <1>4
  <2> QED
    BY <2>1 DEF RowMoves
<1> QED
  BY <1>1, <1>2, <1>3, <1>4

LEMMA ShownMoves ==
  ASSUME IInv, [Next]_vars, NEW q \in Requests, creation[q] # "none"
  PROVE  ShownRow(q)' = ShownRow(q) \/ RowMoves(ShownRow(q), ShownRow(q)')
<1>1. /\ ShownRow(q) = [st |-> ShownSt(q), steps |-> ShownSteps(q), dated |-> completedAt[q]]
      /\ ShownRow(q)' = [st |-> ShownSt(q)', steps |-> ShownSteps(q)', dated |-> completedAt'[q]]
  BY DEF ShownRow, ShownSt, ShownSteps, Settled, AllTold
<1>2. ShownSteps(q) \in {"open", "reported", "settled"}
  BY DEF ShownSteps
<1>3. CASE status'[q] = status[q] /\ completedAt'[q] = completedAt[q]
  <2>1. ShownSt(q)' = ShownSt(q)
    BY <1>3 DEF ShownSt
  <2>3. /\ ShownSteps(q) = "open" => ShownSteps(q)' \in {"open", "reported"}
        /\ ShownSteps(q) # "open" => ShownSteps(q)' \in {"reported", "settled"}
    BY StepsMove
  <2>4. ShownSteps(q)' = ShownSteps(q) => ShownRow(q)' = ShownRow(q)
    BY <1>1, <1>3, <2>1
  <2> QED
    BY <1>1, <1>2, <1>3, <2>1, <2>3, <2>4, MovesByField
<1>4. ASSUME UNCHANGED <<steps, reported>>
      PROVE  ShownSteps(q)' = ShownSteps(q)
  BY <1>4 DEF ShownSteps, Settled, AllTold, ToldTerminal, Told
<1>5. CASE /\ status'[q] \in {"PARTIAL_COMPLETED", "SLA_VIOLATED"} /\ completedAt'[q] = completedAt[q]
           /\ UNCHANGED <<steps, reported>>
  <2>1. ShownSt(q)' = "PARTIAL_COMPLETED"
    BY <1>5 DEF ShownSt, ShownStatus
  <2> QED
    BY <1>1, <1>4, <1>5, <2>1, MovesByField
<1>6. CASE /\ status'[q] \in Outcomes /\ completedAt'[q] = TRUE /\ AllTold(q)
           /\ UNCHANGED <<steps, reported>>
  <2>1. ShownSt(q)' = status'[q]
    BY <1>6 DEF ShownSt, ShownStatus, Outcomes
  <2>2. ShownSteps(q) # "open"
    BY <1>6 DEF ShownSteps
  <2> QED
    BY <1>1, <1>4, <1>6, <2>1, <2>2, MovesByField
<1> QED
  BY <1>3, <1>5, <1>6, StatusMoves

\* A row that the console reads moves only as RowMoves allows, for any replicas,
\* redeliveries, late results and flags: what is explored and proved of the pages
\* over such rows is about the rows the coordinator writes.
THEOREM RowsAreAsShown == Spec => RowsMoveAsShown
<1>1. IInv /\ [Next]_vars =>
        [\A q \in Requests : creation[q] # "none" =>
           ShownRow(q)' = ShownRow(q) \/ RowMoves(ShownRow(q), ShownRow(q)')]_vars
  BY ShownMoves
<1> QED
  BY SpecTruth, <1>1, PTL DEF Spec, RowsMoveAsShown
=============================================================================
