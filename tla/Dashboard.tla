----------------------------- MODULE Dashboard -----------------------------
(***************************************************************************)
(* The two pages that list the requests: the dashboard, which also shows   *)
(* the proof of the selected one, and the history.                         *)
(*                                                                         *)
(* Every fetch is a call, a read by the backend and an answer.  A React    *)
(* effect runs in the step that changes what it depends on; the one it     *)
(* replaces is told so (isActive), and what it still does when its calls   *)
(* are answered is part of the model.  An effect whose later steps all     *)
(* look at isActive is forgotten when it is replaced.                      *)
(***************************************************************************)
EXTENDS RequestRows, SequencesExt

CONSTANTS
  Filters,      \* [search: requests the term matches, status: a status or None]
  MaxLate       \* bound on the replaced proof effects that are still running

ASSUME DashboardAssumption ==
  /\ \E f \in Filters : f.search = Requests /\ f.status = None
  /\ None \notin ShownStatus \cup {"effect", "retry"}
  /\ None \notin [id : Requests, st : ShownStatus]
  /\ MaxLate \in Nat

VARIABLES
  filter,       \* search and status
  listed,       \* requests: [id, st], newest first
  listCall,     \* the current list effect's call; the page says "Loading" until it is answered
  listError,
  selected,     \* selectedRequest: an element of listed, or None
  proofCall,    \* what the current proof effect waits for; "Loading proof events" until nothing
  late,         \* replaced proof effects that have not reached loadAttestation
  proof, proofVerify, notification,   \* whose they are
  attestation,  \* whose it is, and which call brought it
  isAttestationLoading, attestationError,
  retryCall     \* retryAttestation: for whom, until it is answered

listVars == <<filter, listed, listCall, listError>>
panel == <<proof, proofVerify, notification>>
attVars == <<attestation, isAttestationLoading, attestationError>>
homeVars == <<listVars, selected, proofCall, late, panel, attVars, retryCall>>

Item == [id : Requests, st : ShownStatus]
NoCall == [phase |-> "none", items |-> <<>>]
Sent == [phase |-> "sent", items |-> <<>>]
NoAtt == [of |-> None, by |-> None]
Selected == IF selected = None THEN None ELSE selected.id

HomeTypeOK ==
  /\ filter \in Filters
  /\ Range(listed) \subseteq Item
  /\ listCall.phase \in {"none", "sent", "answered"}
  /\ selected = None \/ selected \in Range(listed)
  /\ proofCall \in {"none", "proof", "verify", "notification", "attestation"}
  /\ proofCall # "none" => selected # None
  /\ late \in 0 .. MaxLate
  /\ {proof, proofVerify, notification, attestation.of, retryCall} \subseteq Requests \cup {None}
  /\ ~(isAttestationLoading /\ (attestationError \/ attestation # NoAtt))

\* The first render of a listing page, and the effects that run after it.
HomeInit(mounted) ==
  /\ filter = CHOOSE f \in Filters : f.search = Requests /\ f.status = None
  /\ listed = <<>> /\ listCall = (IF mounted THEN Sent ELSE NoCall) /\ listError = FALSE
  /\ selected = None /\ proofCall = "none" /\ late = 0
  /\ proof = None /\ proofVerify = None /\ notification = None
  /\ attestation = NoAtt /\ isAttestationLoading = FALSE /\ attestationError = FALSE
  /\ retryCall = None

-----------------------------------------------------------------------------
\* GET /deletions
Matching == {q \in Requests : Exists(q) /\ q \in filter.search /\ filter.status \in {None, db[q].st}}

\* Newest first; there are fewer of them than the limit.
Listing ==
  {items \in [1 .. Cardinality(Matching) -> {[id |-> q, st |-> db[q].st] : q \in Matching}] :
     \A i, j \in DOMAIN items : i < j => items[i].id > items[j].id}

ListReads ==
  /\ listCall.phase = "sent"
  /\ \E items \in Listing : listCall' = [phase |-> "answered", items |-> items]
  /\ UNCHANGED <<db, filter, listed, listError, selected, proofCall, late, panel, attVars, retryCall>>

\* Both pages: the old rows stay beside the error.
ListFails ==
  /\ "fail" \in Faults
  /\ listCall.phase # "none"
  /\ listCall' = NoCall /\ listError' = TRUE
  /\ UNCHANGED <<db, filter, listed, selected, proofCall, late, panel, attVars, retryCall>>

\* Both pages: typing, choosing a status, and the two ways to clear them.
SetFilter ==
  /\ \E f \in Filters \ {filter} : filter' = f
  /\ listCall' = Sent /\ listError' = FALSE
  /\ UNCHANGED <<db, listed, selected, proofCall, late, panel, attVars, retryCall>>

-----------------------------------------------------------------------------
\* Replaced before loadAttestation, the old effect will get there.
Replaced == IF proofCall \in {"none", "attestation"} THEN 0 ELSE 1

\* Mutant: the last verification stays until the next one is answered.
ProofEffect_KeepsVerify(sel) ==
  /\ late + Replaced <= MaxLate /\ late' = late + Replaced
  /\ IF sel = None
     THEN proofCall' = "none" /\ proof' = None /\ proofVerify' = None /\ notification' = None
          /\ attestation' = NoAtt /\ isAttestationLoading' = FALSE /\ attestationError' = FALSE
     ELSE proofCall' = "proof" /\ notification' = None
          /\ UNCHANGED <<proof, proofVerify, attVars>>

\* The proof effect, after selectedRequest became another object.
ProofEffect(sel) ==
  /\ late + Replaced <= MaxLate /\ late' = late + Replaced
  /\ IF sel = None
     THEN proofCall' = "none" /\ proof' = None /\ proofVerify' = None /\ notification' = None
          /\ attestation' = NoAtt /\ isAttestationLoading' = FALSE /\ attestationError' = FALSE
     ELSE proofCall' = "proof" /\ proofVerify' = None /\ notification' = None
          /\ UNCHANGED <<proof, attVars>>

\* Mutant: the list effect depends on the selected object, not on its id.
ListEffect_OfObject(sel) == listCall' = IF sel # None THEN Sent ELSE NoCall

\* The list effect depends on the id of the selected request.
ListEffect(sel) ==
  listCall' = IF (IF sel = None THEN None ELSE sel.id) # Selected THEN Sent ELSE NoCall

StillSelected(items) ==
  IF \E it \in Range(items) : it.id = Selected
  THEN CHOOSE it \in Range(items) : it.id = Selected
  ELSE IF items = <<>> THEN None ELSE Head(items)

\* The answer to the dashboard: every object in it is new.
HomeListAnswered ==
  /\ listCall.phase = "answered"
  /\ listed' = listCall.items
  /\ LET sel == StillSelected(listCall.items)
     IN  /\ selected' = sel
         /\ ListEffect(sel)
         /\ IF sel = None /\ selected = None
            THEN UNCHANGED <<proofCall, late, panel, attVars>>
            ELSE ProofEffect(sel)
  /\ listError' = FALSE
  /\ UNCHANGED <<db, filter, retryCall>>

\* A click on a row of the list; the row that is selected is the same object.
SelectRequest ==
  /\ \E it \in Range(listed) :
       it # selected /\ selected' = it /\ ProofEffect(it) /\ ListEffect(it)
  /\ listError' = FALSE
  /\ UNCHANGED <<db, filter, listed, retryCall>>

-----------------------------------------------------------------------------
\* The calls of the current proof effect, one after the other.
ProofAnswered ==
  /\ proofCall = "proof"
  /\ proof' = Selected /\ proofCall' = "verify"
  /\ UNCHANGED <<db, listVars, selected, late, proofVerify, notification, attVars, retryCall>>

ProofFails ==
  /\ "fail" \in Faults
  /\ proofCall = "proof"
  /\ proofCall' = "none"
  /\ proof' = None /\ proofVerify' = None /\ notification' = None
  /\ attestation' = NoAtt /\ isAttestationLoading' = FALSE /\ attestationError' = FALSE
  /\ UNCHANGED <<db, listVars, selected, late, retryCall>>

VerifyAnswered ==
  /\ proofCall = "verify"
  /\ \/ proofVerify' = Selected
     \/ "fail" \in Faults /\ proofVerify' = None
  /\ proofCall' = "notification"
  /\ UNCHANGED <<db, listVars, selected, late, proof, notification, attVars, retryCall>>

LoadingAttestation ==
  isAttestationLoading' = TRUE /\ attestationError' = FALSE /\ attestation' = NoAtt

\* There may be none yet (404).  loadAttestation starts.
NotificationAnswered ==
  /\ proofCall = "notification"
  /\ \E n \in {Selected, None} : notification' = n
  /\ proofCall' = "attestation"
  /\ LoadingAttestation
  /\ UNCHANGED <<db, listVars, selected, late, proof, proofVerify, retryCall>>

AttestationOf(q, by) ==
  /\ \/ attestation' = [of |-> q, by |-> by] /\ UNCHANGED attestationError
     \/ "fail" \in Faults /\ attestationError' = TRUE /\ attestation' = NoAtt
  /\ isAttestationLoading' = FALSE

AttestationAnswered ==
  /\ proofCall = "attestation"
  /\ proofCall' = "none"
  /\ AttestationOf(Selected, "effect")
  /\ UNCHANGED <<db, listVars, selected, late, panel, retryCall>>

\* A replaced effect reaches loadAttestation: the start is not guarded by
\* isActive, what follows the call is.
LateLoadAttestation ==
  /\ late > 0
  /\ late' = late - 1
  /\ LoadingAttestation
  /\ UNCHANGED <<db, listVars, selected, proofCall, panel, retryCall>>

\* ... or its getDeletionProof was refused.
LateProofFails ==
  /\ "fail" \in Faults
  /\ late > 0
  /\ late' = late - 1
  /\ UNCHANGED <<db, listVars, selected, proofCall, panel, attVars, retryCall>>

\* The button beside the error; one such call at a time is explored.
RetryAttestation ==
  /\ selected # None /\ attestationError /\ ~isAttestationLoading
  /\ retryCall = None
  /\ retryCall' = Selected
  /\ LoadingAttestation
  /\ UNCHANGED <<db, listVars, selected, proofCall, late, panel>>

\* No isActive here: whatever is selected by now.
RetryAnswered ==
  /\ retryCall # None
  /\ retryCall' = None
  /\ AttestationOf(retryCall, "retry")
  /\ UNCHANGED <<db, listVars, selected, proofCall, late, panel>>

PanelAnswered == ProofAnswered \/ VerifyAnswered \/ NotificationAnswered \/ AttestationAnswered

HomeNext ==
  \/ ListReads \/ ListFails \/ SetFilter \/ HomeListAnswered \/ SelectRequest
  \/ PanelAnswered \/ ProofFails \/ LateLoadAttestation \/ LateProofFails
  \/ RetryAttestation \/ RetryAnswered

-----------------------------------------------------------------------------
\* The history: the same listing, and nothing is selected.
HistoryListAnswered ==
  /\ listCall.phase = "answered"
  /\ listed' = listCall.items /\ listCall' = NoCall /\ listError' = FALSE
  /\ UNCHANGED <<db, filter, selected, proofCall, late, panel, attVars, retryCall>>

HistoryNext == ListReads \/ ListFails \/ SetFilter \/ HistoryListAnswered

-----------------------------------------------------------------------------
\* What is on the screen belongs together, whatever was clicked and typed while
\* answers were on their way: a settled list answers the filter beside it and
\* holds the selected row; the verification and the notification are those of
\* the selected request, and so are, once its own calls have begun to be
\* answered, the proof and any attestation the page asked for by itself.
ScreenConsistent ==
  /\ listCall = NoCall /\ ~listError =>
       \A it \in Range(listed) : it.id \in filter.search /\ filter.status \in {None, it.st}
  /\ selected # None => selected \in Range(listed)
  /\ {proofVerify, notification} \subseteq {None, Selected}
  /\ proofCall # "proof" => proof \in {None, Selected}
  /\ proofCall \in {"none", "attestation"} /\ attestation.by = "effect" => attestation.of = Selected

Settled == listCall.phase = "none" /\ proofCall = "none"
UserActs == filter' # filter \/ Selected' # Selected

\* Unless the user keeps typing and clicking, the page comes to rest: no list
\* and no proof is loading, whatever its effects make each other do again.
ScreenSettles == []<><<UserActs>>_homeVars \/ <>[]Settled

\* Once nothing is on its way any more, the panel of a request whose proof was
\* loaded shows its signed attestation, or says why there is none.
AttestationShown ==
  Settled /\ late = 0 /\ retryCall = None /\ selected # None /\ proof = Selected
    => attestation.of = Selected \/ attestationError
=============================================================================
