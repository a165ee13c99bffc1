------------------------------- MODULE Erasure -------------------------------
(***************************************************************************)
(* What EraseGraph promises to a client, with all of its services, queues  *)
(* and retries left out: an accepted request has one outcome, decided once;*)
(* COMPLETED is decided only when every store has been erased, a partial   *)
(* completion only when all but the skippable one have; and the data       *)
(* subject is told what was decided.                                       *)
(***************************************************************************)
CONSTANTS
  Requests,
  Stores,       \* what has to be erased for a request
  Skippable     \* the store whose circuit breaker may skip it

VARIABLES outcome, erased, told

abstract == <<outcome, erased, told>>

Init ==
  /\ outcome = [q \in Requests |-> "none"]
  /\ erased = [q \in Requests |-> {}]
  /\ told = [q \in Requests |-> "NONE"]

Accept(q) ==
  /\ outcome[q] = "none"
  /\ outcome' = [outcome EXCEPT ![q] = "open"]
  /\ UNCHANGED <<erased, told>>

EraseStore(q, s) ==
  /\ outcome[q] # "none"
  /\ erased' = [erased EXCEPT ![q] = @ \cup {s}]
  /\ UNCHANGED <<outcome, told>>

Decide(q, o) ==
  /\ outcome[q] = "open"
  /\ o = "COMPLETED" => erased[q] = Stores
  /\ o = "PARTIAL_COMPLETED" => Stores \ {Skippable} \subseteq erased[q]
  /\ outcome' = [outcome EXCEPT ![q] = o]
  /\ UNCHANGED <<erased, told>>

TellSubject(q) ==
  /\ outcome[q] \notin {"none", "open"}
  /\ told' = [told EXCEPT ![q] =
       IF outcome[q] = "FAILED" THEN "DELETION_FAILED" ELSE "DELETION_COMPLETE"]
  /\ UNCHANGED <<outcome, erased>>

Next == \E q \in Requests :
  \/ Accept(q)
  \/ \E s \in Stores : EraseStore(q, s)
  \/ \E o \in {"COMPLETED", "PARTIAL_COMPLETED", "FAILED"} : Decide(q, o)
  \/ TellSubject(q)

Spec == Init /\ [][Next]_abstract
=============================================================================
