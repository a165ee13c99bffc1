------------------------------ MODULE ProofChain ------------------------------
(***************************************************************************)
(* The proof events of one request and the chain of hashes over them.      *)
(* Three services write rows of proof_events: the backend's consumer, in a *)
(* transaction under an advisory lock of the request; proof-service, from  *)
(* its own queue of the same step results, with a read and an insert; and  *)
(* the SLA scanner, with an insert that has no hashes.  verifyProofChain   *)
(* reads the rows in the order of created_at.                              *)
(*                                                                         *)
(* A dedupe key is unique (see SchemaBootstrapService), so the key of a row*)
(* stands for its hash.  Every clock reading is distinct; the ties that the*)
(* random row id decides are left out.                                     *)
(***************************************************************************)
EXTENDS Naturals

CONSTANTS
  Keys,         \* step results, by their dedupe key
  ProofKeys,    \* those proof-service stores too: successes and failures
  Bare,         \* those whose payload has a property that is undefined
  SlaKey,       \* sla-violated-<id>
  Late,         \* whether the SLA scanner may flag the request
  Replicas,     \* backend replicas
  NoKey,        \* what an idle writer holds
  Genesis,      \* genesisHashForRequest
  NoHash,       \* a hash column that is null
  Free,         \* the advisory lock when nobody holds it
  Faults,       \* "crash": a writer may die
  MaxClock      \* no crash after this many clock readings

ASSUME ProofChainAssumption ==
  /\ ProofKeys \subseteq Keys /\ Bare \subseteq Keys
  /\ {SlaKey, NoKey, Genesis, NoHash} \cap Keys = {}
  /\ SlaKey \notin {Genesis, NoHash, NoKey} /\ Genesis # NoHash
  /\ Free \notin Replicas
  /\ Late \in BOOLEAN /\ MaxClock \in Nat

VARIABLES
  clock,        \* the last reading of the clock
  stamp,        \* the timestamp the worker put into the result, 0 before
  rows,         \* the table proof_events
  todo, ptodo,  \* the backend's queue and proof-service's
  lock,         \* pg_advisory_xact_lock on the request
  bpc, bkey, bstart, bprev,   \* per replica: position, message, transaction
                              \* start, previous_hash
  ppc, pkey, pprev            \* the same for proof-service

backend == <<todo, lock, bpc, bkey, bstart, bprev>>
service == <<ptodo, ppc, pkey, pprev>>
vars == <<clock, stamp, rows, todo, ptodo, lock, bpc, bkey, bstart, bprev,
          ppc, pkey, pprev>>

Hash == Keys \cup {Genesis, NoHash}

ProofTypeOK ==
  /\ clock \in Nat
  /\ stamp \in [Keys -> Nat]
  /\ rows \subseteq [key : Keys \cup {SlaKey}, at : Nat, prev : Hash,
                    by : Replicas \cup {Free}]
  /\ todo \subseteq Keys /\ ptodo \subseteq ProofKeys
  /\ lock \in Replicas \cup {Free}
  /\ bpc \in [Replicas -> {"idle", "wait", "read", "save", "ack"}]
  /\ bkey \in [Replicas -> Keys \cup {NoKey}]
  /\ bstart \in [Replicas -> Nat]
  /\ bprev \in [Replicas -> Hash]
  /\ ppc \in {"idle", "save", "ack"}
  /\ pkey \in Keys \cup {NoKey}
  /\ pprev \in Hash

Init ==
  /\ clock = 0
  /\ stamp = [k \in Keys |-> 0]
  /\ rows = {}
  /\ todo = {} /\ ptodo = {}
  /\ lock = Free
  /\ bpc = [r \in Replicas |-> "idle"]
  /\ bkey = [r \in Replicas |-> NoKey]
  /\ bstart = [r \in Replicas |-> 0]
  /\ bprev = [r \in Replicas |-> NoHash]
  /\ ppc = "idle" /\ pkey = NoKey /\ pprev = NoHash

-----------------------------------------------------------------------------
\* Mutant: the scanner's row is taken to have a hash.
HashOf_AnyRow(row) == row.key

\* event_hash of a row; the scanner's row has none.
HashOf(row) == IF row.key = SlaKey THEN NoHash ELSE row.key

Earlier(table, row) == {e \in table : e.at < row.at}

Newest(table) == CHOOSE e \in table : \A f \in table : f.at <= e.at

\* Mutants: genesis whatever the table holds; a null hash passed on.
NextPrevious_Genesis(table) == Genesis
NextPrevious_Null(table) == IF table = {} THEN Genesis ELSE HashOf(Newest(table))

\* previous_hash of the next row: the last row's event_hash, or genesis when
\* there is no row or the last one has no hash.
NextPrevious(table) ==
  IF table = {} THEN Genesis
  ELSE IF HashOf(Newest(table)) = NoHash THEN Genesis ELSE HashOf(Newest(table))

Stored(key) == \E e \in rows : e.key = key

\* A repeated dedupe key is rejected by the unique index and swallowed.  by is
\* history: the replica that wrote the row, Free when it was another service.
Insert(key, at, prev, by) ==
  rows' = IF Stored(key) THEN rows
          ELSE rows \cup {[key |-> key, at |-> at, prev |-> prev, by |-> by]}

\* A worker publishes a result, which reaches both queues.
Emit(k) ==
  /\ stamp[k] = 0
  /\ clock' = clock + 1
  /\ stamp' = [stamp EXCEPT ![k] = clock']
  /\ todo' = todo \cup {k}
  /\ ptodo' = IF k \in ProofKeys THEN ptodo \cup {k} ELSE ptodo
  /\ UNCHANGED <<rows, lock, bpc, bkey, bstart, bprev, ppc, pkey, pprev>>

Step(r, from, to) == bpc[r] = from /\ bpc' = [bpc EXCEPT ![r] = to]

\* appendEvent: created_at defaults to now(), the start of the transaction.
StartTransaction(r) ==
  /\ Step(r, "idle", "wait")
  /\ \E k \in todo :
       /\ todo' = todo \ {k}
       /\ bkey' = [bkey EXCEPT ![r] = k]
  /\ clock' = clock + 1
  /\ bstart' = [bstart EXCEPT ![r] = clock']
  /\ UNCHANGED <<stamp, rows, lock, bprev, service>>

TakeLock(r) ==
  /\ Step(r, "wait", "read")
  /\ lock = Free
  /\ lock' = r
  /\ UNCHANGED <<clock, stamp, rows, todo, bkey, bstart, bprev, service>>

ReadLast(r) ==
  /\ Step(r, "read", "save")
  /\ bprev' = [bprev EXCEPT ![r] = NextPrevious(rows)]
  /\ UNCHANGED <<clock, stamp, rows, todo, lock, bkey, bstart, service>>

EndTransaction(r) ==
  /\ lock' = IF lock = r THEN Free ELSE lock
  /\ bstart' = [bstart EXCEPT ![r] = 0]
  /\ bprev' = [bprev EXCEPT ![r] = NoHash]

\* The row appears, and the lock goes, with the commit.
Commit(r) ==
  /\ Step(r, "save", "ack")
  /\ Insert(bkey[r], bstart[r], bprev[r], r)
  /\ EndTransaction(r)
  /\ UNCHANGED <<clock, stamp, todo, bkey, service>>

Ack(r) ==
  /\ Step(r, "ack", "idle")
  /\ bkey' = [bkey EXCEPT ![r] = NoKey]
  /\ UNCHANGED <<clock, stamp, rows, todo, lock, bstart, bprev, service>>

\* Mutant: the message is acknowledged before it is handled.
CrashBackend_AutoAck(r) ==
  /\ "crash" \in Faults
  /\ clock < MaxClock
  /\ bpc[r] # "idle"
  /\ bpc' = [bpc EXCEPT ![r] = "idle"]
  /\ bkey' = [bkey EXCEPT ![r] = NoKey]
  /\ EndTransaction(r)
  /\ UNCHANGED <<clock, stamp, rows, todo, service>>

\* The transaction is rolled back and the message returns.
CrashBackend(r) ==
  /\ "crash" \in Faults
  /\ clock < MaxClock
  /\ bpc[r] # "idle"
  /\ bpc' = [bpc EXCEPT ![r] = "idle"]
  /\ todo' = todo \cup {bkey[r]}
  /\ bkey' = [bkey EXCEPT ![r] = NoKey]
  /\ EndTransaction(r)
  /\ UNCHANGED <<clock, stamp, rows, service>>

-----------------------------------------------------------------------------
\* storeProofEvent: read, then insert, without the lock.
ServiceRead ==
  /\ ppc = "idle" /\ ppc' = "save"
  /\ \E k \in ptodo :
       /\ ptodo' = ptodo \ {k}
       /\ pkey' = k
  /\ pprev' = NextPrevious(rows)
  /\ UNCHANGED <<clock, stamp, rows, backend>>

\* created_at is the worker's timestamp.
ServiceSave ==
  /\ ppc = "save" /\ ppc' = "ack"
  /\ Insert(pkey, stamp[pkey], pprev, Free)
  /\ pprev' = NoHash
  /\ UNCHANGED <<clock, stamp, ptodo, pkey, backend>>

ServiceAck ==
  /\ ppc = "ack" /\ ppc' = "idle"
  /\ pkey' = NoKey
  /\ UNCHANGED <<clock, stamp, rows, ptodo, pprev, backend>>

CrashService ==
  /\ "crash" \in Faults
  /\ clock < MaxClock
  /\ ppc # "idle" /\ ppc' = "idle"
  /\ ptodo' = ptodo \cup {pkey}
  /\ pkey' = NoKey /\ pprev' = NoHash
  /\ UNCHANGED <<clock, stamp, rows, backend>>

\* checkSlaViolations: neither hash column is set.
ScannerSave ==
  /\ Late
  /\ ~Stored(SlaKey)
  /\ clock' = clock + 1
  /\ Insert(SlaKey, clock', NoHash, Free)
  /\ UNCHANGED <<stamp, backend, service>>

BackendStep(r) ==
  StartTransaction(r) \/ TakeLock(r) \/ ReadLast(r) \/ Commit(r) \/ Ack(r)

Next ==
  \/ \E k \in Keys : Emit(k)
  \/ \E r \in Replicas : BackendStep(r) \/ CrashBackend(r)
  \/ ServiceRead \/ ServiceSave \/ ServiceAck \/ CrashService
  \/ ScannerSave

Spec == Init /\ [][Next]_vars

-----------------------------------------------------------------------------
(***************************************************************************)
(* What verifyProofChain answers, and what holds of the rows.              *)
(***************************************************************************)
\* The hash the loop expects in a row's previous_hash.  A row without hashes
\* has already ended the loop.
Expected(table, row) ==
  LET before == Earlier(table, row)
  IN  IF before = {} THEN Genesis ELSE HashOf(Newest(before))

\* A property that was undefined went into the hash and not into the jsonb
\* column, so the hash of what is read back is another one.
RowVerifies(table, row) ==
  /\ row.prev # NoHash /\ HashOf(row) # NoHash
  /\ row.prev = Expected(table, row)
  /\ row.key \notin Bare

VerifyProofChain(table) == \A row \in table : RowVerifies(table, row)

\* "tamper-evident hash chain on proof_events: integrity is verifiable after
\* the fact": nobody tampered, so the answer is valid.  It holds while all the
\* rows are one replica's, whatever the other writers hold at the time: the
\* order of created_at is then the order of the locks.
ChainVerifies ==
  (\E r \in Replicas : \A row \in rows : row.by = r /\ row.key \notin Bare)
    => VerifyProofChain(rows)

\* Whatever the writers and their crashes, a row continues genesis or another
\* row that is there, and only the scanner's has no previous_hash.
LinksResolve ==
  \A e \in rows :
    \/ e.prev = Genesis
    \/ e.prev = NoHash /\ e.key = SlaKey
    \/ \E f \in rows : f.key = e.prev /\ f # e

\* No result loses its proof event: until it is stored it is in the backend's
\* queue or with a replica.
EveryResultProved ==
  \A k \in Keys : stamp[k] # 0 =>
    Stored(k) \/ k \in todo \/ \E r \in Replicas : bkey[r] = k
=============================================================================
