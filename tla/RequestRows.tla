---------------------------- MODULE RequestRows ----------------------------
(***************************************************************************)
(* The request rows as the pages of the console see them.  What the        *)
(* coordinator may do to a row is RowMoves; that it does nothing else is a *)
(* property of module Coordinator (RowsMoveAsShown).                       *)
(***************************************************************************)
EXTENDS Naturals, Sequences, FiniteSets, DeletionTypes

CONSTANTS
  Requests,     \* numbers for the ids the backend gives to requests
  None,         \* no request, no page, no answer
  Faults        \* "fail": a call to the backend may be answered with an error

ASSUME RowsAssumption ==
  /\ Requests \subseteq Nat \ {0} /\ IsFiniteSet(Requests)
  /\ None \notin Requests \cup {0}

VARIABLE db     \* deletion_requests, with the steps of each

Absent == [st |-> None, steps |-> None, dated |-> FALSE]

\* What getDeletionRequest returns: who has reported is not in the rows.
Row == [st : ShownStatus, steps : {"open", "settled"}]
Read(q) == [st |-> db[q].st, steps |-> IF db[q].steps = "settled" THEN "settled" ELSE "open"]
NoRead == [st |-> None, steps |-> None]

\* The two statuses the progress stream ends on; PARTIAL_COMPLETED as an outcome
\* is not one of them.
EndsStream(row) == row.st \in {"COMPLETED", "FAILED"}

Exists(q) == db[q] # Absent

RowsInit == db = [q \in Requests |-> Absent]

\* Ids are numbered in the order of creation.
Created(q) ==
  /\ ~Exists(q)
  /\ \A p \in Requests : p < q => Exists(p)
  /\ db' = [db EXCEPT ![q] = NewRow]

\* One write of the coordinator, a worker or a scanner.
Progress(q) ==
  /\ Exists(q)
  /\ \E row \in RequestRow : RowMoves(db[q], row) /\ db' = [db EXCEPT ![q] = row]

\* All of them, from the first to the outcome.
Completes(q) ==
  /\ db[q] = NewRow
  /\ db' = [db EXCEPT ![q] = [st |-> "COMPLETED", steps |-> "settled", dated |-> TRUE]]
=============================================================================
