-------------------------- MODULE ProofChainProofs --------------------------
(***************************************************************************)
(* Proofs about modules ProofChain and Attestation: the links between the  *)
(* rows, the events that may not be lost, the chain of a single replica,   *)
(* and the reports made of it, for any results, replicas and crashes.      *)
(***************************************************************************)
EXTENDS Attestation, TLAPS

ReplicaPositions == {"idle", "wait", "read", "save", "ack"}
ProofRow == [key : Keys \cup {SlaKey}, at : Nat, prev : Hash, by : Replicas \cup {Free}]

-----------------------------------------------------------------------------
(***************************************************************************)
(* Types.  A busy writer holds a result that was published.  What it read  *)
(* for previous_hash depends on a newest row, which an arbitrary set of    *)
(* rows need not have: that every initial part of the table has one is     *)
(* itself an invariant.                                                    *)
(***************************************************************************)
Before(table, n) == {e \in table : e.at < n}

HasNewest(table) == \E e \in table : \A f \in table : f.at <= e.at

NewestExists == \A n \in Nat : Before(rows, n) = {} \/ HasNewest(Before(rows, n))

RowsPast == \A e \in rows : e.at <= clock

\* No reading of the clock is from the future.
ReadingsPast ==
  /\ \A k \in Keys : stamp[k] <= clock
  /\ \A r \in Replicas : bstart[r] <= clock

Emitted(k) == k \in Keys /\ stamp[k] # 0

HeldEmitted ==
  /\ \A k \in todo \cup ptodo : Emitted(k)
  /\ \A r \in Replicas : IF bpc[r] = "idle" THEN bkey[r] = NoKey ELSE Emitted(bkey[r])
  /\ IF ppc = "idle" THEN pkey = NoKey ELSE Emitted(pkey) /\ pkey \in ProofKeys

ChainSafe == ProofTypeOK /\ NewestExists /\ RowsPast /\ ReadingsPast /\ HeldEmitted

LEMMA NewestOf ==
  ASSUME NEW table, HasNewest(table)
  PROVE  Newest(table) \in table /\ \A f \in table : f.at <= Newest(table).at
BY DEF HasNewest, Newest

\* The newest of all rows, when there is any.
LEMMA NewestRow ==
  ASSUME ProofTypeOK, NewestExists, RowsPast, rows # {}
  PROVE  Newest(rows) \in rows /\ \A f \in rows : f.at <= Newest(rows).at
<1>1. Before(rows, clock + 1) = rows
  BY DEF Before, RowsPast, ProofTypeOK
<1>2. HasNewest(rows)
  BY <1>1 DEF NewestExists, ProofTypeOK
<1> QED
  BY <1>2, NewestOf

\* What a writer reads is the hash of a row that is there, or genesis.
LEMMA NextPreviousResolves ==
  ASSUME ChainSafe
  PROVE  \/ NextPrevious(rows) = Genesis
         \/ /\ NextPrevious(rows) \in Keys
            /\ \E f \in rows : f.key = NextPrevious(rows)
<1>1. CASE rows = {}
  BY <1>1 DEF NextPrevious
<1>2. CASE rows # {}
  <2>1. Newest(rows) \in rows
    BY <1>2, NewestRow DEF ChainSafe
  <2>2. CASE Newest(rows).key = SlaKey
    BY <1>2, <2>2 DEF NextPrevious, HashOf
  <2>3. CASE Newest(rows).key # SlaKey
    <3>1. Newest(rows).key \in Keys
      BY <2>1, <2>3 DEF ChainSafe, ProofTypeOK
    <3> QED
      BY <1>2, <2>1, <2>3, <3>1 DEF NextPrevious, HashOf
  <2> QED
    BY <2>2, <2>3
<1> QED
  BY <1>1, <1>2

\* One more row keeps every initial part of the table with a newest row.
LEMMA NewestKept ==
  ASSUME NEW table, NEW x, NEW more, more = table \cup {x}, x.at \in Nat,
         \A e \in table : e.at \in Nat,
         \A n \in Nat : Before(table, n) = {} \/ HasNewest(Before(table, n))
  PROVE  \A n \in Nat : Before(more, n) = {} \/ HasNewest(Before(more, n))
<1> SUFFICES ASSUME NEW n \in Nat, Before(more, n) # {}
             PROVE  HasNewest(Before(more, n))
  OBVIOUS
<1>1. CASE ~(x.at < n)
  <2>1. Before(more, n) = Before(table, n)
    BY <1>1 DEF Before
  <2> QED
    BY <2>1
<1>2. CASE x.at < n /\ Before(table, n) = {}
  <2>1. Before(more, n) = {x}
    BY <1>2 DEF Before
  <2>2. x.at <= x.at
    OBVIOUS
  <2> QED
    BY <2>1, <2>2 DEF HasNewest
<1>3. CASE x.at < n /\ Before(table, n) # {}
  <2>1. PICK e \in Before(table, n) : \A f \in Before(table, n) : f.at <= e.at
    BY <1>3 DEF HasNewest
  <2>2. Before(more, n) = Before(table, n) \cup {x}
    BY <1>3 DEF Before
  <2>3. e.at \in Nat /\ \A f \in Before(table, n) : f.at \in Nat
    BY <2>1 DEF Before
  <2>4. CASE x.at <= e.at
    BY <2>1, <2>2, <2>4 DEF HasNewest
  <2>5. CASE e.at <= x.at
    <3>1. \A f \in Before(table, n) \cup {x} : f.at <= x.at
      BY <2>1, <2>3, <2>5
    <3> QED
      BY <2>2, <3>1 DEF HasNewest
  <2> QED
    BY <2>3, <2>4, <2>5
<1> QED
  BY <1>1, <1>2, <1>3

LEMMA InsertSafe ==
  ASSUME ProofTypeOK, NewestExists, RowsPast,
         NEW key \in Keys \cup {SlaKey}, NEW at \in Nat, NEW prev \in Hash,
         NEW by \in Replicas \cup {Free},
         Insert(key, at, prev, by), clock' \in Nat, clock <= clock', at <= clock'
  PROVE  /\ rows' \subseteq ProofRow
         /\ NewestExists'
         /\ RowsPast'
<1>1. CASE Stored(key)
  BY <1>1 DEF Insert, ProofTypeOK, ProofRow, NewestExists, RowsPast
<1>2. CASE ~Stored(key)
  <2> DEFINE x == [key |-> key, at |-> at, prev |-> prev, by |-> by]
  <2>1. rows' = rows \cup {x} /\ x \in ProofRow /\ x.at = at
    BY <1>2 DEF Insert, ProofRow
  <2>2. rows' \subseteq ProofRow
    BY <2>1 DEF ProofTypeOK, ProofRow
  <2>3. \A e \in rows : e.at \in Nat
    BY DEF ProofTypeOK
  <2> HIDE DEF x
  <2>4. NewestExists'
    BY <2>1, <2>3, NewestKept DEF NewestExists
  <2>5. RowsPast'
    BY <2>1, <2>3 DEF RowsPast, ProofTypeOK
  <2> QED
    BY <2>2, <2>4, <2>5
<1> QED
  BY <1>1, <1>2

LEMMA InitChainSafe == Init => ChainSafe
BY ProofChainAssumption
   DEF Init, ChainSafe, ProofTypeOK, NewestExists, RowsPast, ReadingsPast, HeldEmitted, Before, Hash

LEMMA NextChainSafe == ChainSafe /\ [Next]_vars => ChainSafe'
<1> SUFFICES ASSUME ChainSafe, [Next]_vars
             PROVE  ChainSafe'
  OBVIOUS
<1> USE ProofChainAssumption
<1> USE DEF ChainSafe
<1>0. ASSUME UNCHANGED rows, clock' \in Nat, clock <= clock'
      PROVE  NewestExists' /\ RowsPast'
  <2>1. NewestExists'
    BY <1>0 DEF NewestExists, Before, HasNewest
  <2>2. RowsPast'
    BY <1>0 DEF RowsPast, ProofTypeOK
  <2> QED
    BY <2>1, <2>2
<1>00. NextPrevious(rows) \in Hash
  BY NextPreviousResolves DEF Hash
<1>1. ASSUME NEW k \in Keys, Emit(k)
      PROVE  ChainSafe'
  <2>1. ProofTypeOK'
    BY <1>1 DEF Emit, ProofTypeOK
  <2>2. HeldEmitted'
    BY <1>1 DEF Emit, HeldEmitted, Emitted, ProofTypeOK
  <2>3. clock' \in Nat /\ clock <= clock' /\ UNCHANGED rows
    BY <1>1 DEF Emit, ProofTypeOK
  <2>4. ReadingsPast'
    BY <1>1 DEF Emit, ProofTypeOK, ReadingsPast
  <2> QED
    BY <2>1, <2>2, <2>3, <2>4, <1>0
<1>2. ASSUME NEW r \in Replicas, StartTransaction(r)
      PROVE  ChainSafe'
  <2>1. ProofTypeOK'
    BY <1>2 DEF StartTransaction, Step, service, ProofTypeOK
  <2>2. HeldEmitted'
    BY <1>2 DEF StartTransaction, Step, service, HeldEmitted, Emitted, ProofTypeOK
  <2>3. clock' \in Nat /\ clock <= clock' /\ UNCHANGED rows
    BY <1>2 DEF StartTransaction, ProofTypeOK
  <2>4. ReadingsPast'
    BY <1>2 DEF StartTransaction, ProofTypeOK, ReadingsPast, service
  <2> QED
    BY <2>1, <2>2, <2>3, <2>4, <1>0
<1>3. ASSUME NEW r \in Replicas, TakeLock(r) \/ ReadLast(r) \/ Ack(r)
      PROVE  ChainSafe'
  <2>1. ProofTypeOK'
    BY <1>3, <1>00 DEF TakeLock, ReadLast, Ack, Step, service, ProofTypeOK
  <2>2. HeldEmitted'
    BY <1>3 DEF TakeLock, ReadLast, Ack, Step, service, HeldEmitted, Emitted, ProofTypeOK
  <2>3. clock' \in Nat /\ clock <= clock' /\ UNCHANGED rows
    BY <1>3 DEF TakeLock, ReadLast, Ack, service, ProofTypeOK
  <2>4. ReadingsPast'
    BY <1>3 DEF TakeLock, ReadLast, Ack, service, ProofTypeOK, ReadingsPast
  <2> QED
    BY <2>1, <2>2, <2>3, <2>4, <1>0
<1>4. ASSUME NEW r \in Replicas, Commit(r)
      PROVE  ChainSafe'
  <2>1. /\ Insert(bkey[r], bstart[r], bprev[r], r)
        /\ bkey[r] \in Keys /\ bstart[r] \in Nat /\ bprev[r] \in Hash
        /\ clock' = clock /\ clock \in Nat /\ bstart[r] <= clock
    BY <1>4 DEF Commit, Step, HeldEmitted, Emitted, ReadingsPast, ProofTypeOK
  <2>2. rows' \subseteq ProofRow /\ NewestExists' /\ RowsPast'
    BY <2>1, InsertSafe
  <2>3. ProofTypeOK'
    BY <1>4, <2>2 DEF Commit, Step, EndTransaction, service, ProofTypeOK, ProofRow, Hash
  <2>4. HeldEmitted'
    BY <1>4 DEF Commit, Step, EndTransaction, service, HeldEmitted, Emitted, ProofTypeOK
  <2>5. ReadingsPast'
    BY <1>4 DEF Commit, EndTransaction, ReadingsPast, ProofTypeOK
  <2> QED
    BY <2>2, <2>3, <2>4, <2>5
<1>5. ASSUME NEW r \in Replicas, CrashBackend(r)
      PROVE  ChainSafe'
  <2>1. ProofTypeOK'
    BY <1>5 DEF CrashBackend, EndTransaction, service, ProofTypeOK, HeldEmitted, Emitted, Hash
  <2>2. HeldEmitted'
    BY <1>5 DEF CrashBackend, EndTransaction, service, HeldEmitted, Emitted, ProofTypeOK
  <2>3. clock' \in Nat /\ clock <= clock' /\ UNCHANGED rows
    BY <1>5 DEF CrashBackend, service, ProofTypeOK
  <2>4. ReadingsPast'
    BY <1>5 DEF CrashBackend, service, ProofTypeOK, ReadingsPast, EndTransaction
  <2> QED
    BY <2>1, <2>2, <2>3, <2>4, <1>0
<1>6. CASE ServiceRead
  <2>1. ProofTypeOK'
    BY <1>6, <1>00 DEF ServiceRead, backend, ProofTypeOK
  <2>2. HeldEmitted'
    BY <1>6 DEF ServiceRead, backend, HeldEmitted, Emitted, ProofTypeOK
  <2>3. clock' \in Nat /\ clock <= clock' /\ UNCHANGED rows
    BY <1>6 DEF ServiceRead, ProofTypeOK
  <2>4. ReadingsPast'
    BY <1>6 DEF ServiceRead, ProofTypeOK, ReadingsPast, backend
  <2> QED
    BY <2>1, <2>2, <2>3, <2>4, <1>0
<1>7. CASE ServiceSave
  <2>1. /\ Insert(pkey, stamp[pkey], pprev, Free)
        /\ pkey \in Keys /\ stamp[pkey] \in Nat /\ pprev \in Hash
        /\ clock' = clock /\ clock \in Nat /\ stamp[pkey] <= clock
    BY <1>7 DEF ServiceSave, HeldEmitted, Emitted, ReadingsPast, ProofTypeOK
  <2>2. rows' \subseteq ProofRow /\ NewestExists' /\ RowsPast'
    BY <2>1, InsertSafe
  <2>3. ProofTypeOK'
    BY <1>7, <2>2 DEF ServiceSave, backend, ProofTypeOK, ProofRow, Hash
  <2>4. HeldEmitted'
    BY <1>7 DEF ServiceSave, backend, HeldEmitted, Emitted, ProofTypeOK
  <2>5. ReadingsPast'
    BY <1>7 DEF ServiceSave, backend, ReadingsPast, ProofTypeOK
  <2> QED
    BY <2>2, <2>3, <2>4, <2>5
<1>8. CASE ServiceAck \/ CrashService
  <2>1. ProofTypeOK'
    BY <1>8 DEF ServiceAck, CrashService, backend, ProofTypeOK, HeldEmitted, Hash
  <2>2. HeldEmitted'
    BY <1>8 DEF ServiceAck, CrashService, backend, HeldEmitted, Emitted, ProofTypeOK
  <2>3. clock' \in Nat /\ clock <= clock' /\ UNCHANGED rows
    BY <1>8 DEF ServiceAck, CrashService, ProofTypeOK
  <2>4. ReadingsPast'
    BY <1>8 DEF ServiceAck, CrashService, ProofTypeOK, ReadingsPast, backend
  <2> QED
    BY <2>1, <2>2, <2>3, <2>4, <1>0
<1>9. CASE ScannerSave
  <2>1. /\ Insert(SlaKey, clock', NoHash, Free)
        /\ NoHash \in Hash
        /\ clock' \in Nat /\ clock <= clock' /\ clock' <= clock'
    BY <1>9 DEF ScannerSave, ProofTypeOK, Hash
  <2>2. rows' \subseteq ProofRow /\ NewestExists' /\ RowsPast'
    BY <2>1, InsertSafe
  <2>3. ProofTypeOK'
    BY <1>9, <2>1, <2>2 DEF ScannerSave, backend, service, ProofTypeOK, ProofRow
  <2>4. HeldEmitted'
    BY <1>9 DEF ScannerSave, backend, service, HeldEmitted, Emitted, ProofTypeOK
  <2>5. ReadingsPast'
    BY <1>9 DEF ScannerSave, backend, ReadingsPast, ProofTypeOK
  <2> QED
    BY <2>2, <2>3, <2>4, <2>5
<1>10. CASE UNCHANGED vars
  <2>1. ProofTypeOK' /\ HeldEmitted' /\ ReadingsPast'
    BY <1>10 DEF vars, ProofTypeOK, HeldEmitted, Emitted, ReadingsPast
  <2>2. clock' \in Nat /\ clock <= clock' /\ UNCHANGED rows
    BY <1>10 DEF vars, ProofTypeOK
  <2> QED
    BY <2>1, <2>2, <1>0
<1> QED
  BY <1>1, <1>2, <1>3, <1>4, <1>5, <1>6, <1>7, <1>8, <1>9, <1>10 DEF Next, BackendStep

\* Every variable of the chain's writers keeps its type, the previous_hash they
\* compute included.
THEOREM ProofTypes == Spec => []ProofTypeOK
<1>1. ChainSafe => ProofTypeOK
  BY DEF ChainSafe
<1> QED
  BY InitChainSafe, NextChainSafe, <1>1, PTL DEF Spec

-----------------------------------------------------------------------------
(***************************************************************************)
(* Links.  Rows are never removed, so what a writer has read stays true    *)
(* until it writes; the unique index makes a row the only one of its key.  *)
(***************************************************************************)
Resolves(hash) == hash = Genesis \/ (hash \in Keys /\ \E f \in rows : f.key = hash)

ReadsResolve ==
  /\ \A r \in Replicas : bpc[r] = "save" => Resolves(bprev[r])
  /\ ppc = "save" => Resolves(pprev)

KeysUnique == \A e, f \in rows : e.key = f.key => e = f

LinkInv == ReadsResolve /\ KeysUnique /\ LinksResolve

LEMMA InsertLinks ==
  ASSUME LinkInv, NEW key, NEW at, NEW prev, NEW by,
         Insert(key, at, prev, by),
         Resolves(prev) \/ (key = SlaKey /\ prev = NoHash)
  PROVE  /\ rows \subseteq rows' /\ KeysUnique' /\ LinksResolve'
         /\ \E e \in rows' : e.key = key
<1>1. CASE Stored(key)
  BY <1>1 DEF Insert, LinkInv, KeysUnique, LinksResolve, Stored
<1>2. CASE ~Stored(key)
  <2> DEFINE x == [key |-> key, at |-> at, prev |-> prev, by |-> by]
  <2>1. rows' = rows \cup {x} /\ x.key = key /\ x.prev = prev
    BY <1>2 DEF Insert
  <2>2. \A e \in rows : e.key # key
    BY <1>2 DEF Stored
  <2> HIDE DEF x
  <2>3. KeysUnique'
    BY <2>1, <2>2 DEF LinkInv, KeysUnique
  <2>4. LinksResolve'
    BY <2>1, <2>2 DEF LinkInv, LinksResolve, Resolves
  <2> QED
    BY <2>1, <2>3, <2>4
<1> QED
  BY <1>1, <1>2

LEMMA NextLinks == ChainSafe /\ LinkInv /\ [Next]_vars => LinkInv'
<1> SUFFICES ASSUME ChainSafe, LinkInv, [Next]_vars
             PROVE  LinkInv'
  OBVIOUS
<1>0. ASSUME UNCHANGED rows PROVE KeysUnique' /\ LinksResolve' /\ \A h : Resolves(h)' <=> Resolves(h)
  BY <1>0 DEF LinkInv, KeysUnique, LinksResolve, Resolves
<1>00. Resolves(NextPrevious(rows))
  BY NextPreviousResolves DEF Resolves
<1> USE DEF LinkInv
<1>1. ASSUME NEW k \in Keys, Emit(k)
      PROVE  LinkInv'
  BY <1>1, <1>0 DEF Emit, ReadsResolve
<1>2. ASSUME NEW r \in Replicas, StartTransaction(r) \/ TakeLock(r) \/ Ack(r)
      PROVE  LinkInv'
  BY <1>2, <1>0 DEF StartTransaction, TakeLock, Ack, Step, service, ReadsResolve, ChainSafe, ProofTypeOK
<1>3. ASSUME NEW r \in Replicas, ReadLast(r)
      PROVE  LinkInv'
  BY <1>3, <1>0, <1>00 DEF ReadLast, Step, service, ReadsResolve, ChainSafe, ProofTypeOK
<1>4. ASSUME NEW r \in Replicas, Commit(r)
      PROVE  LinkInv'
  <2>1. rows \subseteq rows' /\ KeysUnique' /\ LinksResolve'
    BY <1>4, InsertLinks DEF Commit, Step, ReadsResolve
  <2>2. ReadsResolve'
    BY <1>4, <2>1 DEF Commit, Step, EndTransaction, service, ReadsResolve, Resolves, ChainSafe, ProofTypeOK
  <2> QED
    BY <2>1, <2>2
<1>5. ASSUME NEW r \in Replicas, CrashBackend(r)
      PROVE  LinkInv'
  BY <1>5, <1>0 DEF CrashBackend, EndTransaction, service, ReadsResolve, ChainSafe, ProofTypeOK
<1>6. CASE ServiceRead
  BY <1>6, <1>0, <1>00 DEF ServiceRead, backend, ReadsResolve
<1>7. CASE ServiceSave
  <2>1. rows \subseteq rows' /\ KeysUnique' /\ LinksResolve'
    BY <1>7, InsertLinks DEF ServiceSave, ReadsResolve
  <2>2. ReadsResolve'
    BY <1>7, <2>1 DEF ServiceSave, backend, ReadsResolve, Resolves
  <2> QED
    BY <2>1, <2>2
<1>8. CASE ServiceAck \/ CrashService
  BY <1>8, <1>0 DEF ServiceAck, CrashService, backend, ReadsResolve
<1>9. CASE ScannerSave
  <2>1. rows \subseteq rows' /\ KeysUnique' /\ LinksResolve'
    BY <1>9, InsertLinks DEF ScannerSave
  <2>2. ReadsResolve'
    BY <1>9, <2>1 DEF ScannerSave, backend, service, ReadsResolve, Resolves
  <2> QED
    BY <2>1, <2>2
<1>10. CASE UNCHANGED vars
  BY <1>10, <1>0 DEF vars, ReadsResolve
<1> QED
  BY <1>1, <1>2, <1>3, <1>4, <1>5, <1>6, <1>7, <1>8, <1>9, <1>10 DEF Next, BackendStep

LEMMA InitLinks == Init => LinkInv
BY DEF Init, LinkInv, ReadsResolve, KeysUnique, LinksResolve

\* A row continues genesis or another row that is there, although two of the
\* three writers take no lock, and whichever of them dies between its read and
\* its insert.
THEOREM EveryLinkResolves == Spec => []LinksResolve
<1>1. LinkInv => LinksResolve
  BY DEF LinkInv
<1> QED
  BY InitChainSafe, NextChainSafe, InitLinks, NextLinks, <1>1, PTL DEF Spec

-----------------------------------------------------------------------------
(***************************************************************************)
(* No result loses its proof event: a message that is about to be          *)
(* acknowledged is stored.                                                 *)
(***************************************************************************)
AckedStored == \A r \in Replicas : bpc[r] = "ack" => Stored(bkey[r])

ProvedInv == AckedStored /\ EveryResultProved

LEMMA NextProved == ChainSafe /\ ProvedInv /\ [Next]_vars => ProvedInv'
<1> SUFFICES ASSUME ChainSafe, ProvedInv, [Next]_vars
             PROVE  ProvedInv'
  OBVIOUS
<1>0. ASSUME UNCHANGED rows PROVE \A k : Stored(k)' <=> Stored(k)
  BY <1>0 DEF Stored
<1>00. ASSUME NEW key, NEW at, NEW prev, NEW by, Insert(key, at, prev, by)
       PROVE  Stored(key)' /\ \A k : Stored(k) => Stored(k)'
  <2>1. CASE Stored(key)
    BY <1>00, <2>1 DEF Insert, Stored
  <2>2. CASE ~Stored(key)
    <3> DEFINE x == [key |-> key, at |-> at, prev |-> prev, by |-> by]
    <3>1. rows' = rows \cup {x} /\ x.key = key
      BY <1>00, <2>2 DEF Insert
    <3> HIDE DEF x
    <3> QED
      BY <3>1 DEF Stored
  <2> QED
    BY <2>1, <2>2
<1> USE ProofChainAssumption DEF ProvedInv, AckedStored, EveryResultProved
<1>1. ASSUME NEW k \in Keys, Emit(k)
      PROVE  ProvedInv'
  BY <1>1, <1>0 DEF Emit, ChainSafe, ProofTypeOK
<1>2. ASSUME NEW r \in Replicas, StartTransaction(r)
      PROVE  ProvedInv'
  BY <1>2, <1>0 DEF StartTransaction, Step, service, ChainSafe, HeldEmitted, ProofTypeOK
<1>3. ASSUME NEW r \in Replicas, TakeLock(r) \/ ReadLast(r)
      PROVE  ProvedInv'
  BY <1>3, <1>0 DEF TakeLock, ReadLast, Step, service, ChainSafe, ProofTypeOK
<1>4. ASSUME NEW r \in Replicas, Commit(r)
      PROVE  ProvedInv'
  BY <1>4, <1>00 DEF Commit, Step, service, ChainSafe, ProofTypeOK
<1>5. ASSUME NEW r \in Replicas, Ack(r)
      PROVE  ProvedInv'
  BY <1>5, <1>0 DEF Ack, Step, service, ChainSafe, ProofTypeOK
<1>6. ASSUME NEW r \in Replicas, CrashBackend(r)
      PROVE  ProvedInv'
  BY <1>6, <1>0 DEF CrashBackend, service, ChainSafe, ProofTypeOK
<1>7. CASE ServiceRead \/ ServiceAck \/ CrashService
  BY <1>7, <1>0 DEF ServiceRead, ServiceAck, CrashService, backend
<1>8. CASE ServiceSave \/ ScannerSave
  BY <1>8, <1>00 DEF ServiceSave, ScannerSave, backend
<1>9. CASE UNCHANGED vars
  BY <1>9, <1>0 DEF vars
<1> QED
  BY <1>1, <1>2, <1>3, <1>4, <1>5, <1>6, <1>7, <1>8, <1>9 DEF Next, BackendStep

LEMMA InitProved == Init => ProvedInv
BY DEF Init, ProvedInv, AckedStored, EveryResultProved

\* A result the backend was sent is stored, queued or in a replica's hands,
\* whatever dies: no assumption on Faults is needed.
THEOREM NoProofIsLost == Spec => []EveryResultProved
<1>1. ProvedInv => EveryResultProved
  BY DEF ProvedInv
<1> QED
  BY InitChainSafe, NextChainSafe, InitProved, NextProved, <1>1, PTL DEF Spec

-----------------------------------------------------------------------------
(***************************************************************************)
(* The rows of a single replica.  Its transactions do not overlap, so each *)
(* starts after the last one has committed, and reads the row it left.     *)
(***************************************************************************)
InTransaction(r) == bpc[r] \in {"wait", "read", "save"}

Sole(r) == \A e \in rows : e.by = r

Linked(r) ==
  /\ InTransaction(r) => \A e \in rows : e.at < bstart[r]
  /\ bpc[r] = "save" => bprev[r] = NextPrevious(rows)
  /\ \A e \in rows : e.key \in Keys /\ e.prev = Expected(rows, e)

SoleInv == \A r \in Replicas : Sole(r) => Linked(r)

\* What others insert ends the matter, or changes nothing.
LEMMA InsertByOther ==
  ASSUME NEW r \in Replicas, NEW key, NEW at, NEW prev, NEW by, by # r,
         Insert(key, at, prev, by), Sole(r)'
  PROVE  UNCHANGED rows
<1> DEFINE x == [key |-> key, at |-> at, prev |-> prev, by |-> by]
<1>1. Stored(key) \/ rows' = rows \cup {x}
  BY DEF Insert
<1>2. x.by = by
  OBVIOUS
<1> HIDE DEF x
<1>3. rows' # rows \cup {x}
  BY <1>2 DEF Sole
<1> QED
  BY <1>1, <1>3 DEF Insert

LEMMA NewestHashed ==
  ASSUME ChainSafe, NEW r \in Replicas, Linked(r), rows # {}
  PROVE  NextPrevious(rows) = HashOf(Newest(rows))
<1>1. Newest(rows) \in rows
  BY NewestRow DEF ChainSafe
<1>2. HashOf(Newest(rows)) # NoHash
  BY <1>1, ProofChainAssumption DEF Linked, HashOf
<1> QED
  BY <1>2 DEF NextPrevious

\* The row a replica commits after rows of its own continues the newest one.
LEMMA CommitLinks ==
  ASSUME ChainSafe, NEW r \in Replicas, Linked(r), Commit(r)
  PROVE  \A e \in rows' : e.key \in Keys /\ e.prev = Expected(rows', e)
<1>0. /\ Insert(bkey[r], bstart[r], bprev[r], r)
      /\ bkey[r] \in Keys /\ bstart[r] \in Nat
      /\ bprev[r] = NextPrevious(rows)
      /\ \A e \in rows : e.at \in Nat /\ e.at < bstart[r]
  BY DEF Commit, Step, Linked, InTransaction, ChainSafe, HeldEmitted, Emitted, ProofTypeOK
<1>1. CASE Stored(bkey[r])
  BY <1>0, <1>1 DEF Insert, Linked
<1>2. CASE ~Stored(bkey[r])
  <2> DEFINE x == [key |-> bkey[r], at |-> bstart[r], prev |-> bprev[r], by |-> r]
  <2>1. rows' = rows \cup {x} /\ x.key = bkey[r] /\ x.at = bstart[r] /\ x.prev = bprev[r]
    BY <1>0, <1>2 DEF Insert
  <2> HIDE DEF x
  <2>2. ASSUME NEW e \in rows
        PROVE  Earlier(rows', e) = Earlier(rows, e)
    <3>1. ~(x.at < e.at)
      BY <1>0, <2>1
    <3> QED
      BY <2>1, <3>1 DEF Earlier
  <2>3. Earlier(rows', x) = rows
    BY <1>0, <2>1 DEF Earlier
  <2>4. x.prev = Expected(rows', x)
    BY <1>0, <2>1, <2>3, NewestHashed DEF Expected, NextPrevious
  <2>5. ASSUME NEW e \in rows
        PROVE  e.key \in Keys /\ e.prev = Expected(rows', e)
    BY <2>2, <2>5 DEF Expected, Linked
  <2> QED
    BY <1>0, <2>1, <2>4, <2>5
<1> QED
  BY <1>1, <1>2

LEMMA NextSole == ChainSafe /\ SoleInv /\ [Next]_vars => SoleInv'
<1> SUFFICES ASSUME ChainSafe, SoleInv, [Next]_vars, NEW r \in Replicas, Sole(r)'
             PROVE  Linked(r)'
  BY DEF SoleInv
<1> USE ProofChainAssumption
<1>0. ASSUME UNCHANGED rows
      PROVE  /\ Linked(r)
             /\ NextPrevious(rows)' = NextPrevious(rows)
             /\ \A e : Expected(rows, e)' = Expected(rows, e)
  BY <1>0 DEF SoleInv, Sole, NextPrevious, Expected
<1>1. ASSUME UNCHANGED <<rows, bpc, bstart, bprev>>
      PROVE  Linked(r)'
  BY <1>0, <1>1 DEF Linked, InTransaction
<1>2. ASSUME NEW k \in Keys, Emit(k)
      PROVE  Linked(r)'
  BY <1>1, <1>2 DEF Emit
<1>3. ASSUME NEW q \in Replicas, StartTransaction(q)
      PROVE  Linked(r)'
  <2>1. UNCHANGED rows /\ bstart' = [bstart EXCEPT ![q] = clock + 1]
        /\ bpc' = [bpc EXCEPT ![q] = "wait"] /\ UNCHANGED bprev
    BY <1>3 DEF StartTransaction, Step
  <2>2. \A e \in rows : e.at \in Nat /\ e.at < clock + 1
    BY DEF ChainSafe, RowsPast, ProofTypeOK
  <2> QED
    BY <2>1, <2>2, <1>0 DEF Linked, InTransaction, ChainSafe, ProofTypeOK
<1>4. ASSUME NEW q \in Replicas, TakeLock(q) \/ ReadLast(q) \/ Ack(q)
      PROVE  Linked(r)'
  BY <1>4, <1>0 DEF TakeLock, ReadLast, Ack, Step, service, Linked, InTransaction, ChainSafe, ProofTypeOK
<1>5. ASSUME NEW q \in Replicas, Commit(q)
      PROVE  Linked(r)'
  <2>1. CASE q = r
    <3>1. Sole(r)
      BY <1>5, <2>1 DEF Commit, Insert, Sole
    <3>2. \A e \in rows' : e.key \in Keys /\ e.prev = Expected(rows', e)
      BY <1>5, <2>1, <3>1, CommitLinks DEF SoleInv
    <3> QED
      BY <1>5, <2>1, <3>2 DEF Commit, Step, Linked, InTransaction, ChainSafe, ProofTypeOK
  <2>2. CASE q # r
    <3>1. UNCHANGED rows
      BY <1>5, <2>2, InsertByOther DEF Commit
    <3> QED
      BY <1>5, <2>2, <3>1, <1>0 DEF Commit, Step, EndTransaction, Linked, InTransaction, ChainSafe, ProofTypeOK
  <2> QED
    BY <2>1, <2>2
<1>6. ASSUME NEW q \in Replicas, CrashBackend(q)
      PROVE  Linked(r)'
  BY <1>6, <1>0 DEF CrashBackend, EndTransaction, Linked, InTransaction, ChainSafe, ProofTypeOK
<1>7. CASE ServiceRead \/ ServiceAck \/ CrashService
  BY <1>1, <1>7 DEF ServiceRead, ServiceAck, CrashService, backend
<1>8. CASE ServiceSave \/ ScannerSave
  <2>1. UNCHANGED rows
    BY <1>8, InsertByOther DEF ServiceSave, ScannerSave
  <2> QED
    BY <2>1, <1>1, <1>8 DEF ServiceSave, ScannerSave, backend
<1>9. CASE UNCHANGED vars
  BY <1>1, <1>9 DEF vars
<1> QED
  BY <1>2, <1>3, <1>4, <1>5, <1>6, <1>7, <1>8, <1>9 DEF Next, BackendStep

LEMMA InitSole == Init => SoleInv
BY DEF Init, SoleInv, Linked, InTransaction

LEMMA SoleVerifies == ChainSafe /\ SoleInv => ChainVerifies
<1> SUFFICES ASSUME ChainSafe, SoleInv,
                    NEW r \in Replicas, \A row \in rows : row.by = r /\ row.key \notin Bare,
                    NEW e \in rows
             PROVE  RowVerifies(rows, e)
  BY DEF ChainVerifies, VerifyProofChain
<1>1. Linked(r)
  BY DEF SoleInv, Sole
<1>2. e.at \in Nat /\ Earlier(rows, e) = Before(rows, e.at)
  BY DEF Earlier, Before, ChainSafe, ProofTypeOK
<1>3. Expected(rows, e) # NoHash
  <2>1. CASE Earlier(rows, e) = {}
    BY <2>1, ProofChainAssumption DEF Expected
  <2>2. CASE Earlier(rows, e) # {}
    <3>1. Newest(Earlier(rows, e)) \in rows
      BY <1>2, <2>2, NewestOf DEF ChainSafe, NewestExists, Earlier
    <3> QED
      BY <1>1, <2>2, <3>1, ProofChainAssumption DEF Expected, HashOf, Linked
  <2> QED
    BY <2>1, <2>2
<1> QED
  BY <1>1, <1>3, ProofChainAssumption DEF Linked, RowVerifies, HashOf

\* Rows of a single replica verify, at whatever point of whose transaction they
\* are read.
THEOREM SingleReplicaVerifies == Spec => []ChainVerifies
BY InitChainSafe, NextChainSafe, InitSole, NextSole, SoleVerifies, PTL DEF Spec

-----------------------------------------------------------------------------
(***************************************************************************)
(* Every created_at is the row's own: each is a reading of the clock, at   *)
(* the start of a transaction, by the scanner, or in the result itself.    *)
(***************************************************************************)
OwnStamp == \A k, l \in Keys : stamp[k] = stamp[l] /\ stamp[k] # 0 => k = l

OwnStart ==
  \A r \in Replicas : InTransaction(r) =>
    /\ \A k \in Keys : bstart[r] # stamp[k]
    /\ \A q \in Replicas \ {r} : InTransaction(q) => bstart[q] # bstart[r]
    /\ \A e \in rows : e.at # bstart[r]
    /\ bstart[r] # 0

OwnAt ==
  /\ \A e \in rows : e.at # 0
  /\ \A e \in rows, k \in Keys : e.at = stamp[k] => e.key = k
  /\ \A e, f \in rows : e.at = f.at => e = f

Times == OwnStamp /\ OwnStart /\ OwnAt

LEMMA InsertTimes ==
  ASSUME Times, UNCHANGED stamp, NEW key, NEW at, NEW prev, NEW by,
         Insert(key, at, prev, by), at # 0,
         \A e \in rows : e.at = at => e.key = key,
         \A k \in Keys : at = stamp[k] => key = k
  PROVE  OwnStamp' /\ OwnAt' /\ \A e \in rows' : e \in rows \/ e.at = at
<1>1. CASE Stored(key)
  BY <1>1 DEF Insert, Times, OwnStamp, OwnAt
<1>2. CASE ~Stored(key)
  <2> DEFINE x == [key |-> key, at |-> at, prev |-> prev, by |-> by]
  <2>1. rows' = rows \cup {x} /\ x.key = key /\ x.at = at
    BY <1>2 DEF Insert
  <2>2. \A e \in rows : e.at # at
    BY <1>2 DEF Stored
  <2> HIDE DEF x
  <2> QED
    BY <2>1, <2>2 DEF Times, OwnStamp, OwnAt
<1> QED
  BY <1>1, <1>2

LEMMA NextTimes == ChainSafe /\ Times /\ [Next]_vars => Times'
<1> SUFFICES ASSUME ChainSafe, Times, [Next]_vars
             PROVE  Times'
  OBVIOUS
<1> USE ProofChainAssumption
<1>0. /\ clock \in Nat /\ clock + 1 # 0
      /\ \A k \in Keys : stamp[k] \in Nat /\ stamp[k] # clock + 1
      /\ \A r \in Replicas : bstart[r] \in Nat /\ bstart[r] # clock + 1
      /\ \A e \in rows : e.at \in Nat /\ e.at # clock + 1
  BY DEF ChainSafe, ReadingsPast, RowsPast, ProofTypeOK
<1>1. ASSUME NEW k \in Keys, Emit(k)
      PROVE  Times'
  <2>1. /\ UNCHANGED <<rows, bpc, bstart>> /\ stamp[k] = 0
        /\ stamp' = [stamp EXCEPT ![k] = clock + 1] /\ stamp \in [Keys -> Nat]
    BY <1>1 DEF Emit, ChainSafe, ProofTypeOK
  <2>2. OwnStamp'
    BY <1>0, <2>1 DEF Times, OwnStamp
  <2>3. OwnStart'
    BY <1>0, <2>1 DEF Times, OwnStart, InTransaction
  <2>4. OwnAt'
    BY <1>0, <2>1 DEF Times, OwnAt
  <2> QED
    BY <2>2, <2>3, <2>4 DEF Times
<1>2. ASSUME NEW r \in Replicas, StartTransaction(r)
      PROVE  Times'
  <2>1. /\ UNCHANGED <<rows, stamp>>
        /\ bstart' = [bstart EXCEPT ![r] = clock + 1] /\ bstart \in [Replicas -> Nat]
        /\ bpc' = [bpc EXCEPT ![r] = "wait"] /\ bpc \in [Replicas -> ReplicaPositions]
    BY <1>2 DEF StartTransaction, Step, service, ChainSafe, ProofTypeOK, ReplicaPositions
  <2>2. OwnStart'
    BY <1>0, <2>1 DEF Times, OwnStart, InTransaction
  <2> QED
    BY <2>1, <2>2 DEF Times, OwnStamp, OwnAt
<1>3. ASSUME UNCHANGED <<rows, stamp, bstart>>,
             \A r \in Replicas : InTransaction(r)' => InTransaction(r)
      PROVE  Times'
  BY <1>3 DEF Times, OwnStamp, OwnStart, OwnAt
<1>4. ASSUME NEW r \in Replicas, TakeLock(r) \/ ReadLast(r) \/ Ack(r)
      PROVE  Times'
  <2>1. \A q \in Replicas : InTransaction(q)' => InTransaction(q)
    BY <1>4 DEF TakeLock, ReadLast, Ack, Step, InTransaction, ChainSafe, ProofTypeOK
  <2> QED
    BY <1>3, <1>4, <2>1 DEF TakeLock, ReadLast, Ack, service
<1>5. ASSUME NEW r \in Replicas, Commit(r)
      PROVE  Times'
  <2>1. /\ Insert(bkey[r], bstart[r], bprev[r], r) /\ UNCHANGED stamp
        /\ InTransaction(r) /\ ~InTransaction(r)'
        /\ \A q \in Replicas \ {r} : bstart'[q] = bstart[q] /\ (InTransaction(q)' <=> InTransaction(q))
    BY <1>5 DEF Commit, Step, EndTransaction, InTransaction, ChainSafe, ProofTypeOK
  <2>2. OwnStamp' /\ OwnAt' /\ \A e \in rows' : e \in rows \/ e.at = bstart[r]
    BY <2>1, InsertTimes DEF Times, OwnStart
  <2>3. OwnStart'
    BY <2>1, <2>2 DEF Times, OwnStart
  <2> QED
    BY <2>2, <2>3 DEF Times
<1>6. ASSUME NEW r \in Replicas, CrashBackend(r)
      PROVE  Times'
  <2>1. /\ UNCHANGED <<rows, stamp>> /\ ~InTransaction(r)'
        /\ \A q \in Replicas \ {r} : bstart'[q] = bstart[q] /\ (InTransaction(q)' <=> InTransaction(q))
    BY <1>6 DEF CrashBackend, EndTransaction, InTransaction, service, ChainSafe, ProofTypeOK
  <2> QED
    BY <2>1 DEF Times, OwnStamp, OwnStart, OwnAt
<1>7. CASE ServiceRead \/ ServiceAck \/ CrashService
  BY <1>3, <1>7 DEF ServiceRead, ServiceAck, CrashService, backend, InTransaction
<1>8. CASE ServiceSave
  <2>1. /\ Insert(pkey, stamp[pkey], pprev, Free) /\ UNCHANGED <<stamp, bpc, bstart>>
        /\ pkey \in Keys /\ stamp[pkey] # 0
    BY <1>8 DEF ServiceSave, backend, ChainSafe, HeldEmitted, Emitted
  <2>2. OwnStamp' /\ OwnAt' /\ \A e \in rows' : e \in rows \/ e.at = stamp[pkey]
    BY <2>1, InsertTimes DEF Times, OwnStamp, OwnAt
  <2>3. OwnStart'
    BY <2>1, <2>2 DEF Times, OwnStart, InTransaction
  <2> QED
    BY <2>2, <2>3 DEF Times
<1>9. CASE ScannerSave
  <2>1. Insert(SlaKey, clock + 1, NoHash, Free) /\ UNCHANGED <<stamp, bpc, bstart>>
    BY <1>9 DEF ScannerSave, backend
  <2>2. OwnStamp' /\ OwnAt' /\ \A e \in rows' : e \in rows \/ e.at = clock + 1
    BY <1>0, <2>1, InsertTimes
  <2>3. OwnStart'
    BY <1>0, <2>1, <2>2 DEF Times, OwnStart, InTransaction
  <2> QED
    BY <2>2, <2>3 DEF Times
<1>10. CASE UNCHANGED vars
  BY <1>3, <1>10 DEF vars, InTransaction
<1> QED
  BY <1>1, <1>2, <1>4, <1>5, <1>6, <1>7, <1>8, <1>9, <1>10 DEF Next, BackendStep

LEMMA InitTimes == Init => Times
BY DEF Init, Times, OwnStamp, OwnStart, OwnAt, InTransaction

-----------------------------------------------------------------------------
(***************************************************************************)
(* Attestations.  What was loaded is a part of the table in which every    *)
(* link resolves; a row whose predecessor in the table is not in that part *)
(* would have to continue a row that is.                                   *)
(***************************************************************************)
LoadedResolves ==
  apc # "idle" =>
    /\ seen \subseteq rows
    /\ \A e \in seen :
         \/ e.prev = Genesis
         \/ e.prev = NoHash /\ e.key = SlaKey
         \/ \E f \in seen : f.key = e.prev

AttestInv == ChainSafe /\ LinkInv /\ Times /\ LoadedResolves /\ ReportStandsAlone

LEMMA PartVerifies ==
  ASSUME ChainSafe, LinkInv, Times, LoadedResolves, apc = "loaded", VerifyProofChain(rows)
  PROVE  VerifyProofChain(seen)
<1> USE ProofChainAssumption
<1> SUFFICES ASSUME NEW row \in seen
             PROVE  RowVerifies(seen, row)
  BY DEF VerifyProofChain
<1>1. seen \subseteq rows /\ row \in rows /\ RowVerifies(rows, row)
  BY DEF LoadedResolves, VerifyProofChain
<1>2. row.at \in Nat /\ Earlier(rows, row) = Before(rows, row.at)
      /\ Earlier(seen, row) \subseteq Earlier(rows, row)
  BY <1>1 DEF Earlier, Before, ChainSafe, ProofTypeOK
<1>3. row.prev = Expected(seen, row)
  <2>1. CASE Earlier(rows, row) = {}
    <3>1. Earlier(seen, row) = {}
      BY <1>2, <2>1
    <3> QED
      BY <1>1, <2>1, <3>1 DEF RowVerifies, Expected
  <2>2. CASE Earlier(rows, row) # {}
    <3> DEFINE e == Newest(Earlier(rows, row))
    <3>1. e \in Earlier(rows, row) /\ \A f \in Earlier(rows, row) : f.at <= e.at
      BY <1>2, <2>2, NewestOf DEF ChainSafe, NewestExists
    <3>2. row.prev = HashOf(e)
      BY <1>1, <2>2 DEF RowVerifies, Expected
    <3> HIDE DEF e
    <3>3. e \in rows /\ e.at < row.at
      BY <3>1 DEF Earlier
    <3>4. e.key \in Keys /\ row.prev = e.key
      BY <3>2, <3>3 DEF VerifyProofChain, RowVerifies, HashOf, ChainSafe, ProofTypeOK
    <3>5. \E f \in seen : f.key = row.prev
      BY <3>4 DEF LoadedResolves
    <3>6. e \in seen
      BY <1>1, <3>3, <3>4, <3>5 DEF LinkInv, KeysUnique
    <3>7. e \in Earlier(seen, row) /\ \A f \in Earlier(seen, row) : f.at <= e.at
      BY <1>2, <3>1, <3>3, <3>6 DEF Earlier
    <3>8. HasNewest(Earlier(seen, row))
      BY <3>7 DEF HasNewest
    <3> DEFINE n == Newest(Earlier(seen, row))
    <3>9. n \in Earlier(seen, row) /\ e.at <= n.at
      BY <3>7, <3>8, NewestOf
    <3> HIDE DEF n
    <3>10. n.at <= e.at /\ n \in rows
      BY <1>1, <3>7, <3>9 DEF Earlier
    <3>11. n.at = e.at
      BY <3>3, <3>9, <3>10 DEF ChainSafe, ProofTypeOK
    <3>12. n = e
      BY <3>3, <3>10, <3>11 DEF Times, OwnAt
    <3> QED
      BY <3>2, <3>7, <3>12 DEF n, Expected
  <2> QED
    BY <2>1, <2>2
<1> QED
  BY <1>1, <1>3 DEF RowVerifies

LEMMA RowsStay == ChainSafe /\ LinkInv /\ [Next]_vars => rows \subseteq rows'
BY DEF Next, BackendStep, Emit, StartTransaction, TakeLock, ReadLast, Commit, Ack, CrashBackend,
       ServiceRead, ServiceSave, ServiceAck, CrashService, ScannerSave, Insert, service, backend, vars

LEMMA NextAttest == AttestInv /\ [AttestNext]_attestVars => AttestInv'
<1> SUFFICES ASSUME AttestInv, [AttestNext]_attestVars
             PROVE  AttestInv'
  OBVIOUS
<1> USE DEF AttestInv
<1>1. [Next]_vars
  BY DEF AttestNext, Load, Verify, Refute, NextReport, attestVars
<1>2. ChainSafe' /\ LinkInv' /\ Times'
  BY <1>1, NextChainSafe, NextLinks, NextTimes
<1>3. rows \subseteq rows'
  BY <1>1, RowsStay
<1>4. CASE (Next /\ UNCHANGED report) \/ UNCHANGED attestVars
  BY <1>2, <1>3, <1>4
     DEF report, attestVars, LoadedResolves, ReportStandsAlone, VerifyProofChain, RowVerifies,
         Expected, Earlier, Newest, HashOf
<1>5. CASE Load
  BY <1>2, <1>5 DEF Load, vars, LoadedResolves, ReportStandsAlone, LinkInv, LinksResolve
<1>6. CASE Verify
  <2>1. VerifyProofChain(seen)
    BY <1>6, PartVerifies DEF Verify
  <2>2. VerifyProofChain(seen)'
    BY <1>6, <2>1 DEF Verify, VerifyProofChain, RowVerifies, Expected, Earlier, Newest, HashOf
  <2> QED
    BY <1>2, <1>6, <2>2 DEF Verify, vars, LoadedResolves, ReportStandsAlone
<1>7. CASE Refute \/ NextReport
  BY <1>2, <1>7 DEF Refute, NextReport, LoadedResolves, ReportStandsAlone
<1> QED
  BY <1>4, <1>5, <1>6, <1>7 DEF AttestNext

LEMMA InitAttest == AttestInit => AttestInv
BY InitChainSafe, InitLinks, InitTimes
   DEF AttestInit, AttestInv, LoadedResolves, ReportStandsAlone

\* A report that says verified links up by itself, although the verdict is on
\* rows read later: for any writers, whatever they add between the two reads.
THEOREM ReportsStandAlone == AttestSpec => []ReportStandsAlone
<1>1. AttestInv => ReportStandsAlone
  BY DEF AttestInv
<1> QED
  BY InitAttest, NextAttest, <1>1, PTL DEF AttestSpec
=============================================================================
