---------------------------- MODULE DeletionTypes ----------------------------
(***************************************************************************)
(* The vocabulary EraseGraph's services share: the values of the status    *)
(* columns in Postgres and of the eventType field of the step results on   *)
(* the exchange erasegraph.events.                                         *)
(***************************************************************************)

\* What a row that has not been inserted yet reads as.
NoRow == "NONE"

\* deletion_requests.status.  RUNNING is declared by the entity, read by the
\* SLA scanner, and written by nobody.
RequestStatus == {"PENDING", "RUNNING", "PARTIAL_COMPLETED", "COMPLETED",
                  "FAILED", "SLA_VIOLATED"}

\* deletion_steps.status
StepStatus == {"PENDING", "RUNNING", "SUCCEEDED", "FAILED", "RETRYING",
               "SKIPPED_CIRCUIT_OPEN"}

\* The step results routed to the queue erasegraph.step-results.
EventTypes == {"DeletionStepSucceeded", "DeletionStepFailed",
               "DeletionStepRetrying", "CIRCUIT_OPEN_SKIP",
               "DUPLICATE_EVENT_IGNORED"}

\* The status a step result makes its handler write; a duplicate only leaves
\* a proof event and writes no step.
WritesStep(type) == type # "DUPLICATE_EVENT_IGNORED"

\* Mutant: the event type stored as it is, without its conversion.
StatusOf_Unconverted(type) == type

StatusOf(type) ==
  CASE type = "DeletionStepSucceeded" -> "SUCCEEDED"
    [] type = "DeletionStepFailed"    -> "FAILED"
    [] type = "DeletionStepRetrying"  -> "RETRYING"
    [] OTHER                          -> "SKIPPED_CIRCUIT_OPEN"

\* The step statuses after which the worker has nothing more to say.
Terminal(st) == st \in {"SUCCEEDED", "FAILED", "SKIPPED_CIRCUIT_OPEN"}

-----------------------------------------------------------------------------
(***************************************************************************)
(* A request as the readers of its rows see it: the status; whether every  *)
(* step row is terminal ("settled"), or only every service has "reported"  *)
(* its end, or neither; and whether it is over, which is to be dated.  The *)
(* readers take SLA_VIOLATED for one more status that ends nothing, and    *)
(* PARTIAL_COMPLETED stands for both.                                      *)
(***************************************************************************)
ShownStatus == {"PENDING", "PARTIAL_COMPLETED", "COMPLETED", "FAILED"}
Outcomes == {"PARTIAL_COMPLETED", "COMPLETED", "FAILED"}

RequestRow == [st : ShownStatus, steps : {"open", "reported", "settled"}, dated : BOOLEAN]

NewRow == [st |-> "PENDING", steps |-> "open", dated |-> FALSE]

\* What a write may make of a row, by a handler that read it at any time before.
\* Once every service has reported, the step rows settle, and open up again when
\* a late RETRYING or the RUNNING of a redelivered request lands on them; an
\* outcome dates the request.  The intermediate PARTIAL_COMPLETED and the
\* scanner's flag land on any status and date nothing.
RowMoves(row, new) ==
  \/ row.steps = "open" /\ new = [row EXCEPT !.steps = "reported"]
  \/ row.steps # "open" /\ \E steps \in {"reported", "settled"} : new = [row EXCEPT !.steps = steps]
  \/ row.steps # "open" /\ \E st \in Outcomes : new = [st |-> st, steps |-> row.steps, dated |-> TRUE]
  \/ new = [row EXCEPT !.st = "PARTIAL_COMPLETED"]
=============================================================================
