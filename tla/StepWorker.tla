------------------------------ MODULE StepWorker ------------------------------
(***************************************************************************)
(* The cleanup workers without retries: primary-data-service,              *)
(* search-cleanup-service, backup-service and analytics-cleanup-service.   *)
(* Each consumes its own queue bound to deletion.requested with            *)
(* prefetch(1), erases its store, publishes one result, and acknowledges.  *)
(* A queue is the set of published requests the worker has not             *)
(* acknowledged, so a worker that dies before its ack finds the request    *)
(* again; the order of different requests is left open.                    *)
(***************************************************************************)
EXTENDS Naturals, Sequences, DeletionTypes

CONSTANTS
  Requests,     \* deletion requests
  Workers,      \* the steps these workers serve
  Analytics,    \* the one that marks its row RUNNING and waits
  NoRequest,    \* what an idle worker holds
  Faults,       \* "crash": a worker may die; "fail": its store may refuse;
                \* "throw": it may lose the channel it publishes on
  MaxQueue      \* bound on the results waiting in the queue

VARIABLES
  creation,     \* a request is in every worker's queue once published
  steps,        \* deletion_steps.status, written directly by analytics only
  results,      \* the queue erasegraph.step-results
  reported,     \* history: every step result ever published
  erased,       \* the store's delete has run for the request
  acked,        \* requests each worker has acknowledged
  wpc, wreq     \* each worker's position and the request it holds

own == <<acked, wpc, wreq>>

WorkerPositions == {"idle", "starting", "erasing", "erased", "failed", "published"}

WorkerTypeOK ==
  /\ wpc \in [Workers -> WorkerPositions]
  /\ wreq \in [Workers -> Requests \cup {NoRequest}]

WorkerInit ==
  /\ wpc = [s \in Workers |-> "idle"]
  /\ wreq = [s \in Workers |-> NoRequest]

Move(s, position) == wpc' = [wpc EXCEPT ![s] = position]

Take(s, q) ==
  /\ wpc[s] = "idle"
  /\ creation[q] = "published"
  /\ q \notin acked[s]
  /\ wreq' = [wreq EXCEPT ![s] = q]
  /\ Move(s, IF s = Analytics THEN "starting" ELSE "erasing")
  /\ UNCHANGED <<creation, steps, results, reported, erased, acked>>

\* analytics-cleanup writes its row in the coordinator's table, without a
\* look at its status, then sleeps.
MarkRunning(s) ==
  /\ wpc[s] = "starting"
  /\ steps' = [steps EXCEPT ![wreq[s]][s] = "RUNNING"]
  /\ Move(s, "erasing")
  /\ UNCHANGED <<creation, results, reported, erased, acked, wreq>>

\* The delete runs; a store that holds nothing for the subject counts as done.
Erase(s) ==
  /\ wpc[s] = "erasing"
  /\ erased' = [erased EXCEPT ![wreq[s]] = @ \cup {s}]
  /\ Move(s, "erased")
  /\ UNCHANGED <<creation, steps, results, reported, acked, wreq>>

\* Mutant: the worker writes its failure into the row as well.
EraseFails_WritesRow(s) ==
  /\ "fail" \in Faults
  /\ wpc[s] \in {"starting", "erasing"}
  /\ steps' = [steps EXCEPT ![wreq[s]][s] = "FAILED"]
  /\ Move(s, "failed")
  /\ UNCHANGED <<creation, results, reported, erased, acked, wreq>>

\* A query of processDeletion rejects.
EraseFails(s) ==
  /\ "fail" \in Faults
  /\ wpc[s] \in {"starting", "erasing"}
  /\ Move(s, "failed")
  /\ UNCHANGED <<creation, steps, results, reported, erased, acked, wreq>>

\* Mutant: success is published before the delete has run.
PublishResult_Early(s) ==
  LET m == [req  |-> wreq[s], step |-> s,
            type |-> IF wpc[s] = "failed" THEN "DeletionStepFailed"
                                          ELSE "DeletionStepSucceeded"]
  IN  /\ wpc[s] \in {"erasing", "erased", "failed"}
      /\ Len(results) < MaxQueue
      /\ results' = Append(results, m)
      /\ reported' = reported \cup {m}
      /\ Move(s, "published")
      /\ UNCHANGED <<creation, steps, erased, acked, wreq>>

PublishResult(s) ==
  LET m == [req  |-> wreq[s], step |-> s,
            type |-> IF wpc[s] = "erased" THEN "DeletionStepSucceeded"
                                          ELSE "DeletionStepFailed"]
  IN  /\ wpc[s] \in {"erased", "failed"}
      /\ Len(results) < MaxQueue
      /\ results' = Append(results, m)
      /\ reported' = reported \cup {m}
      /\ Move(s, "published")
      /\ UNCHANGED <<creation, steps, erased, acked, wreq>>

AckRequest(s) ==
  /\ wpc[s] = "published"
  /\ acked' = [acked EXCEPT ![s] = @ \cup {wreq[s]}]
  /\ wreq' = [wreq EXCEPT ![s] = NoRequest]
  /\ Move(s, "idle")
  /\ UNCHANGED <<creation, steps, results, reported, erased>>

\* Publishing the result rejects, and so does publishing a failure in its place:
\* the request is nacked without requeue and nobody hears of it.
WorkerThrows(s) ==
  /\ "throw" \in Faults
  /\ wpc[s] \in {"erased", "failed"}
  /\ acked' = [acked EXCEPT ![s] = @ \cup {wreq[s]}]
  /\ wreq' = [wreq EXCEPT ![s] = NoRequest]
  /\ Move(s, "idle")
  /\ UNCHANGED <<creation, steps, results, reported, erased>>

CrashWorker(s) ==
  /\ "crash" \in Faults
  /\ wpc[s] # "idle"
  /\ wreq' = [wreq EXCEPT ![s] = NoRequest]
  /\ Move(s, "idle")
  /\ UNCHANGED <<creation, steps, results, reported, erased, acked>>

WorkerRun(s) ==
  \/ \E q \in Requests : Take(s, q)
  \/ MarkRunning(s) \/ Erase(s) \/ PublishResult(s) \/ AckRequest(s)

WorkerStep(s) == WorkerRun(s) \/ EraseFails(s) \/ WorkerThrows(s) \/ CrashWorker(s)
=============================================================================
