----------------------------- MODULE Attestation -----------------------------
(***************************************************************************)
(* The readers of the proof chain: the signed attestation of a request, and*)
(* the dashboard's proof panel, which does the same with two requests.     *)
(* Both load the request, its steps and its events first, and then have    *)
(* verifyProofChain read the events again, while the writers go on.        *)
(*                                                                         *)
(* The answer, YES or NO, adds the status and the steps loaded with the    *)
(* events, which the handler of a result writes before its proof event: a  *)
(* YES may precede the last event, which EveryResultProved has on its way. *)
(***************************************************************************)
EXTENDS ProofChain

VARIABLES
  apc,          \* "idle", "loaded", or "answered" while a reader has a
                \* report that says the chain is verified
  seen          \* the events loaded, as the report lists them

report == <<apc, seen>>
attestVars == <<vars, report>>

AttestInit ==
  /\ Init
  /\ apc = "idle" /\ seen = {}

\* One findOne, with its relations.
Load ==
  /\ apc = "idle" /\ apc' = "loaded"
  /\ seen' = rows
  /\ UNCHANGED vars

\* Mutant: the report lists the events as the verification found them, read
\* once more after it.
Verify_ThenLoad ==
  /\ apc = "loaded" /\ apc' = "answered"
  /\ VerifyProofChain(seen)
  /\ seen' = rows
  /\ UNCHANGED vars

\* verifyProofChain and, in the same step, the report that is signed from the
\* verdict and what was loaded before it.  No event at all is a valid chain.
Verify ==
  /\ apc = "loaded" /\ apc' = "answered"
  /\ VerifyProofChain(rows)
  /\ UNCHANGED <<vars, seen>>

\* Otherwise the report says NO, and claims nothing.
Refute ==
  /\ apc = "loaded" /\ apc' = "idle"
  /\ ~VerifyProofChain(rows)
  /\ seen' = {}
  /\ UNCHANGED vars

NextReport ==
  /\ apc = "answered" /\ apc' = "idle"
  /\ seen' = {}
  /\ UNCHANGED vars

AttestNext == (Next /\ UNCHANGED report) \/ Load \/ Verify \/ Refute \/ NextReport

AttestSpec == AttestInit /\ [][AttestNext]_attestVars

-----------------------------------------------------------------------------
\* A report that says "verified" can be checked by who has nothing but the
\* report: the events it lists link up by themselves, from genesis on, although
\* the verdict was given on rows read later, with any writers in between.
ReportStandsAlone ==
  apc = "answered" => VerifyProofChain(seen)
=============================================================================
