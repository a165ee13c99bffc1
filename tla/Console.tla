------------------------------ MODULE Console ------------------------------
(***************************************************************************)
(* The pages of the web console, one of which is mounted.                  *)
(*                                                                         *)
(* The pages share nothing but the rows of the backend: leaving a page     *)
(* drops its state and whatever answers are still on their way to it.  So  *)
(* each page is explored from its mount on, while other clients create     *)
(* requests and the coordinator moves them at any time.  The listings only *)
(* need to see rows appear and change their status; the page that follows  *)
(* one request sees every step of it.                                      *)
(***************************************************************************)
EXTENDS SubmitPage, Dashboard, Intake, DemoData

CONSTANT Pages  \* the routes that are explored

VARIABLE page   \* the route

vars == <<page, db, submitVars, homeVars, intakeVars, demoVars>>

ConsoleTypeOK ==
  /\ page \in Pages
  /\ SubmitTypeOK /\ HomeTypeOK /\ IntakeTypeOK /\ DemoTypeOK

Init ==
  /\ page \in Pages
  /\ RowsInit /\ SubmitInit /\ HomeInit(page \in {"home", "history"}) /\ IntakeInit /\ DemoInit

\* What a page's step leaves alone.
OnSubmit == page = "submit" /\ UNCHANGED <<page, homeVars, intakeVars, demoVars>>
OnListing(p) == page = p /\ UNCHANGED <<page, submitVars, intakeVars, demoVars>>
OnBulk == page = "bulk" /\ UNCHANGED <<page, submitVars, homeVars, demoVars>>
OnUsers == page = "users" /\ UNCHANGED <<page, db, submitVars, homeVars, intakeVars>>

\* The coordinator, step by step, under the page that follows a request; the
\* rows no stream reads, or is about to read, are left as they are.
RowsProgress ==
  OnSubmit /\ UNCHANGED submitVars /\ \E q \in {created, posting} \cap Requests : Progress(q)

\* Other clients and the coordinator, as the listings see them.
RowsMove ==
  /\ OnListing("home") \/ OnListing("history")
  /\ UNCHANGED homeVars
  /\ \E q \in Requests : Created(q) \/ Completes(q)

Next ==
  \/ OnSubmit /\ SubmitNext
  \/ OnListing("home") /\ HomeNext
  \/ OnListing("history") /\ HistoryNext
  \/ OnBulk /\ IntakeNext
  \/ OnUsers /\ DemoNext
  \/ RowsProgress \/ RowsMove

\* Calls are answered and the server's ticks go on; users, other clients and
\* faults owe nothing.
Fairness ==
  /\ WF_vars(OnSubmit /\ CreateAnswered)
  /\ \A q \in Requests :
       /\ WF_vars(OnSubmit /\ TickReads(q))
       /\ WF_vars(OnSubmit /\ TickAnswered(q))
       /\ WF_vars(OnSubmit /\ (OnMessage(q) \/ OnDone(q)))
  /\ WF_vars((OnListing("home") \/ OnListing("history")) /\ ListReads)
  /\ WF_vars((OnListing("home") /\ HomeListAnswered) \/ (OnListing("history") /\ HistoryListAnswered))
  /\ WF_vars(OnListing("home") /\ PanelAnswered)
  /\ WF_vars(OnListing("home") /\ LateLoadAttestation)

Spec == Init /\ [][Next]_vars
FairSpec == Spec /\ Fairness
=============================================================================
