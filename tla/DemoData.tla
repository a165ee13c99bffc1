------------------------------ MODULE DemoData ------------------------------
(***************************************************************************)
(* The demo users: the endpoint that puts them back into the four stores   *)
(* one statement at a time, the pages that call it, and the workers that   *)
(* erase subjects meanwhile.                                               *)
(*                                                                         *)
(* A user has one document and one event here; the copies of them are      *)
(* counted up to two.  A restore is interleaved with others and with       *)
(* erasures between any two of its statements.                             *)
(***************************************************************************)
EXTENDS Naturals, Sequences, FiniteSets

CONSTANTS
  Users,        \* numbers of the demo users
  Callers,      \* pages that may restore
  MaxErasures,  \* bound on the erasures
  DemoFaults    \* "fail": a statement may be refused, or the cache unreachable

ASSUME DemoAssumption ==
  /\ IsFiniteSet(Users) /\ Users # {} /\ Users = 1 .. Cardinality(Users)
  /\ MaxErasures \in Nat

VARIABLES
  copies,       \* per store and user
  restore,      \* per page: the restore it waits for
  erasures

demoVars == <<copies, restore, erasures>>

Stores == {"users", "search", "analytics", "cache"}
Stages == <<"users", "clear search", "search", "clear analytics", "analytics", "cache", "list">>

\* alone: history, no other restore has run since this one began;
\* erased: history, what workers have erased since then.
Idle == [at |-> 0, next |-> 1, alone |-> TRUE, erased |-> {}]

DemoTypeOK ==
  /\ copies \in [Stores -> [Users -> 0 .. 2]]
  /\ \A t \in Callers :
       /\ restore[t].at \in 0 .. Len(Stages) /\ restore[t].next \in Users
       /\ restore[t].erased \subseteq Stores \X Users
  /\ erasures \in 0 .. MaxErasures

DemoInit ==
  /\ copies = [s \in Stores |-> [u \in Users |-> 1]]
  /\ restore = [t \in Callers |-> Idle]
  /\ erasures = 0

Twice(n) == IF n = 2 THEN 2 ELSE n + 1
LastUser == CHOOSE u \in Users : \A v \in Users : v <= u

-----------------------------------------------------------------------------
\* Workers

Erase ==
  /\ erasures < MaxErasures
  /\ \E s \in Stores, u \in Users :
       /\ copies[s][u] > 0
       /\ copies' = [copies EXCEPT ![s][u] = 0]
       /\ restore' = [t \in Callers |->
            IF restore[t].at = 0 THEN Idle ELSE [restore[t] EXCEPT !.erased = @ \cup {<<s, u>>}]]
  /\ erasures' = erasures + 1

-----------------------------------------------------------------------------
\* restoreDemoUsers

\* handleRestore; the button is disabled until the answer.
Restore(t) ==
  /\ restore[t].at = 0
  /\ LET others == {v \in Callers \ {t} : restore[v].at > 0}
     IN  restore' = [v \in Callers |->
           IF v = t THEN [Idle EXCEPT !.at = 1, !.alone = (others = {})]
           ELSE IF v \in others THEN [restore[v] EXCEPT !.alone = FALSE]
           ELSE restore[v]]
  /\ UNCHANGED <<copies, erasures>>

At(t, stage) == restore[t].at > 0 /\ Stages[restore[t].at] = stage
NextStage(t) == restore' = [restore EXCEPT ![t].at = @ + 1, ![t].next = 1]
NextUser(t) ==
  IF restore[t].next = LastUser THEN NextStage(t)
  ELSE restore' = [restore EXCEPT ![t].next = @ + 1]

\* The upsert: one statement.
UpsertUsers(t) ==
  /\ At(t, "users")
  /\ copies' = [copies EXCEPT !["users"] = [u \in Users |-> 1]]
  /\ NextStage(t)
  /\ UNCHANGED erasures

\* Mutant: the rows of the last restore stay.
ClearRows_Kept(t) ==
  /\ At(t, "clear search") \/ At(t, "clear analytics")
  /\ UNCHANGED copies
  /\ NextStage(t)
  /\ UNCHANGED erasures

\* DELETE ... WHERE subject_id = ANY
ClearRows(t) ==
  /\ At(t, "clear search") \/ At(t, "clear analytics")
  /\ copies' = [copies EXCEPT ![Stages[restore[t].at + 1]] = [u \in Users |-> 0]]
  /\ NextStage(t)
  /\ UNCHANGED erasures

\* INSERT, a row at a time
InsertRow(t) ==
  /\ At(t, "search") \/ At(t, "analytics")
  /\ copies' = [copies EXCEPT ![Stages[restore[t].at]][restore[t].next] = Twice(@)]
  /\ NextUser(t)
  /\ UNCHANGED erasures

\* Its six keys are one value here.
SetCacheKeys(t) ==
  /\ At(t, "cache")
  /\ copies' = [copies EXCEPT !["cache"][restore[t].next] = 1]
  /\ NextUser(t)
  /\ UNCHANGED erasures

\* listUsers, and the answer.
Restored(t) ==
  /\ At(t, "list")
  /\ restore' = [restore EXCEPT ![t] = Idle]
  /\ UNCHANGED <<copies, erasures>>

\* What was written stays.
RestoreFails(t) ==
  /\ "fail" \in DemoFaults
  /\ restore[t].at > 0
  /\ restore' = [restore EXCEPT ![t] = Idle]
  /\ UNCHANGED <<copies, erasures>>

RestoreRuns(t) ==
  UpsertUsers(t) \/ ClearRows(t) \/ InsertRow(t) \/ SetCacheKeys(t) \/ Restored(t)

-----------------------------------------------------------------------------
DemoNext ==
  \/ Erase
  \/ \E t \in Callers : Restore(t) \/ RestoreRuns(t) \/ RestoreFails(t)

-----------------------------------------------------------------------------
\* A restore that answers and ran alone has left every user exactly once in
\* every store, unless a worker has erased the user there since it began; what
\* an earlier restore left behind when it failed, or overlapped, is gone.
RestoredWhole ==
  \A t \in Callers :
    At(t, "list") /\ restore[t].alone =>
      \A s \in Stores, u \in Users : <<s, u>> \in restore[t].erased \/ copies[s][u] = 1
=============================================================================
