--------------------------- MODULE ConsoleProofs ---------------------------
(***************************************************************************)
(* Proofs about the pages of the console, for any requests, filters, files *)
(* and users and for every order of the answers: a restore leaves the demo *)
(* users whole; what the page that follows a request says of its end is so;*)
(* what the dashboard shows belongs together; a bulk upload accounts for   *)
(* every cell and every saved request; every page is well typed.           *)
(***************************************************************************)
EXTENDS Console, FiniteSetTheorems, WellFoundedInduction, TLAPS

-----------------------------------------------------------------------------
(***************************************************************************)
(* The progress stream.  The page's status line trails the last row the    *)
(* server sent by what is on the wire: when nothing but "done" is on it,   *)
(* the page shows that row.                                                *)
(***************************************************************************)
\* A row with a status the stream ends on has its date.
DatedRow == {row \in RequestRow : EndsStream(row) => row.dated = TRUE}

DoneEvent == {[done |-> st] : st \in {"COMPLETED", "FAILED"}}

StreamRecord ==
  [open : BOOLEAN, phase : {"off", "first", "ticking", "ended"}, last : Row \cup {NoRead},
   reads : SUBSET Row, wire : Seq(Row \cup DoneEvent)]

\* How many of the events on the wire are rows: all but a last "done".
Rows(s) == IF s.phase = "ended" THEN Len(s.wire) - 1 ELSE Len(s.wire)

\* The page shows `st` and `steps`.
WireTrails(s, st, steps) ==
  /\ s.phase = "ended" =>
       /\ Len(s.wire) > 0 /\ s.wire[Len(s.wire)] = [done |-> s.last.st]
       /\ s.last \in Row /\ EndsStream(s.last)
  /\ \A i \in 1 .. Rows(s) : s.wire[i] \in Row
  /\ IF Rows(s) = 0
     THEN s.last # NoRead => st = s.last.st /\ steps = s.last.steps
     ELSE s.wire[Rows(s)] = s.last

\* Whatever was read, a request that was once seen to end is over by now.
ReadsAreBacked(q) ==
  \A row \in stream[q].reads \cup ({stream[q].last} \cap Row) : EndsStream(row) => db[q].dated = TRUE

Streaming(q) ==
  /\ q = created /\ ~finished /\ stream[q].phase # "off"
  /\ db[q] \in DatedRow
  /\ WireTrails(stream[q], liveStatus, liveSteps)
  /\ ReadsAreBacked(q)

FollowInv ==
  /\ db \in [Requests -> DatedRow \cup {Absent}]
  /\ posting \in Requests \cup {None, Posted}
  /\ posting \in Requests => db[posting] \in DatedRow
  /\ created \in Requests \cup {None}
  /\ posting # None => created = None
  /\ stream \in [Requests -> StreamRecord]
  /\ \A q \in Requests : stream[q] = NoStream \/ Streaming(q)

SubmitInv ==
  /\ page # "submit" => created = None
  /\ page = "submit" => FollowInv
  /\ StreamTruthful

LEMMA RowsAreNotDone ==
  /\ Absent \notin RequestRow /\ NoRead \notin Row
  /\ DoneEvent \cap Row = {}
<1>1. Absent \notin RequestRow /\ NoRead \notin Row
  BY DEF Absent, NoRead, Row, RequestRow, ShownStatus
<1>2. ASSUME NEW st, [done |-> st] \in Row
      PROVE  FALSE
  <2>1. DOMAIN [done |-> st] = {"done"}
    OBVIOUS
  <2>2. \A row \in Row : DOMAIN row = {"st", "steps"}
    BY DEF Row
  <2> QED
    BY <1>2, <2>1, <2>2
<1> QED
  BY <1>1, <1>2 DEF DoneEvent

\* What a read of the rows returns.
LEMMA ReadsAreRows ==
  ASSUME NEW q, db[q] \in DatedRow
  PROVE  Read(q) \in Row /\ (EndsStream(Read(q)) => db[q].dated = TRUE)
BY DEF Read, Row, DatedRow, RequestRow, EndsStream

\* What the coordinator makes of a row keeps its date, and dates what ends.
LEMMA MovesAreDated ==
  ASSUME NEW row \in DatedRow, NEW new \in RequestRow, RowMoves(row, new)
  PROVE  new \in DatedRow /\ (row.dated = TRUE => new.dated = TRUE)
<1> USE DEF DatedRow, RequestRow, ShownStatus, Outcomes, EndsStream
<1>1. CASE row.steps = "open" /\ new = [row EXCEPT !.steps = "reported"]
  BY <1>1
<1>2. CASE \E steps \in {"reported", "settled"} : new = [row EXCEPT !.steps = steps]
  BY <1>2
<1>3. CASE \E st \in Outcomes : new = [st |-> st, steps |-> row.steps, dated |-> TRUE]
  BY <1>3
<1>4. CASE new = [row EXCEPT !.st = "PARTIAL_COMPLETED"]
  BY <1>4
<1> QED
  BY <1>1, <1>2, <1>3, <1>4 DEF RowMoves

LEMMA InitSubmit == Init => SubmitInv
<1> SUFFICES ASSUME Init
             PROVE  SubmitInv
  OBVIOUS
<1> USE DEF Init, RowsInit, SubmitInit
<1>1. NoStream \in StreamRecord
  BY DEF NoStream, StreamRecord, NoRead, Row
<1>2. FollowInv
  BY <1>1, RowsAssumption DEF FollowInv, Posted
<1> QED
  BY <1>2 DEF SubmitInv, StreamTruthful

LEMMA ClosedStreams ==
  ASSUME FollowInv
  PROVE  /\ Closed(created) \in [Requests -> StreamRecord]
         /\ \A q \in Requests : Closed(created)[q] = NoStream
<1>1. NoStream \in StreamRecord
  BY DEF NoStream, StreamRecord, NoRead, Row
<1>2. \A q \in Requests : q # created => stream[q] = NoStream
  BY DEF FollowInv, Streaming
<1> QED
  BY <1>1, <1>2, RowsAssumption DEF FollowInv, Closed

\* A read of the page's stream is answered: what it adds to the wire.
LEMMA AnswerTrails ==
  ASSUME NEW s \in StreamRecord, NEW st, NEW steps, WireTrails(s, st, steps), s.phase \in {"first", "ticking"},
         NEW row \in s.reads, NEW t \in StreamRecord,
         t.wire = s.wire \o EventsOf(row, s.last),
         t.last = row,
         t.phase = IF EndsStream(row) THEN "ended" ELSE "ticking"
  PROVE  WireTrails(t, st, steps)
<1>1. row \in Row /\ s.wire \in Seq(Row \cup DoneEvent) /\ Rows(s) = Len(s.wire)
  BY DEF StreamRecord, Rows
<1>2. Len(s.wire) \in Nat /\ \A i \in 1 .. Len(s.wire) : s.wire[i] \in Row
  BY <1>1 DEF WireTrails
<1>3. row # NoRead
  BY <1>1, RowsAreNotDone
<1> DEFINE d == [done |-> row.st]
<1>4. CASE row # s.last /\ EndsStream(row)
  <2>1. t.wire = s.wire \o <<row, d>> /\ t.phase = "ended"
    BY <1>4 DEF EventsOf, Differs
  <2> HIDE DEF d
  <2>2. /\ Len(t.wire) = Len(s.wire) + 2
        /\ t.wire[Len(s.wire) + 1] = row /\ t.wire[Len(s.wire) + 2] = d
        /\ \A i \in 1 .. Len(s.wire) : t.wire[i] = s.wire[i]
    BY <1>1, <2>1
  <2>3. Rows(t) = Len(s.wire) + 1 /\ Rows(t) # 0
    BY <1>2, <2>1, <2>2 DEF Rows
  <2>4. ASSUME NEW i \in 1 .. Rows(t)
        PROVE  t.wire[i] \in Row
    <3>1. i \in 1 .. Len(s.wire) \/ i = Len(s.wire) + 1
      BY <1>2, <2>3
    <3> QED
      BY <1>1, <1>2, <2>2, <3>1
  <2>5. t.wire[Rows(t)] = t.last
    BY <2>2, <2>3
  <2>6. Len(t.wire) > 0 /\ t.wire[Len(t.wire)] = [done |-> t.last.st]
    BY <1>2, <2>2 DEF d
  <2> QED
    BY <1>1, <1>4, <2>3, <2>4, <2>5, <2>6 DEF WireTrails
<1>5. CASE row # s.last /\ ~EndsStream(row)
  <2>1. t.wire = s.wire \o <<row>> /\ t.phase = "ticking"
    BY <1>5 DEF EventsOf, Differs
  <2>2. /\ Len(t.wire) = Len(s.wire) + 1 /\ t.wire[Len(s.wire) + 1] = row
        /\ \A i \in 1 .. Len(s.wire) : t.wire[i] = s.wire[i]
    BY <1>1, <2>1
  <2>3. Rows(t) = Len(s.wire) + 1 /\ t.phase # "ended" /\ Rows(t) # 0
    BY <1>2, <2>1, <2>2 DEF Rows
  <2>4. ASSUME NEW i \in 1 .. Rows(t)
        PROVE  t.wire[i] \in Row
    <3>1. i \in 1 .. Len(s.wire) \/ i = Len(s.wire) + 1
      BY <1>2, <2>3
    <3> QED
      BY <1>1, <1>2, <2>2, <3>1
  <2>5. t.wire[Rows(t)] = t.last
    BY <2>2, <2>3
  <2> QED
    BY <2>3, <2>4, <2>5 DEF WireTrails
<1>6. CASE row = s.last /\ EndsStream(row)
  <2>1. t.wire = s.wire \o <<d>> /\ t.phase = "ended"
    BY <1>6 DEF EventsOf, Differs
  <2> HIDE DEF d
  <2>2. /\ Len(t.wire) = Len(s.wire) + 1 /\ t.wire[Len(s.wire) + 1] = d
        /\ \A i \in 1 .. Len(s.wire) : t.wire[i] = s.wire[i]
    BY <1>1, <2>1
  <2>3. Rows(t) = Rows(s) /\ Rows(s) = Len(s.wire)
    BY <1>1, <1>2, <2>1, <2>2 DEF Rows
  <2>4. \A i \in 1 .. Rows(t) : t.wire[i] \in Row
    BY <1>1, <1>2, <2>2, <2>3
  <2>5. IF Rows(t) = 0
        THEN t.last # NoRead => st = t.last.st /\ steps = t.last.steps
        ELSE t.wire[Rows(t)] = t.last
    <3>1. IF Rows(s) = 0
          THEN s.last # NoRead => st = s.last.st /\ steps = s.last.steps
          ELSE s.wire[Rows(s)] = s.last
      BY DEF WireTrails
    <3>2. Rows(s) # 0 => t.wire[Rows(t)] = s.wire[Rows(s)]
      <4>1. Rows(s) # 0 => Rows(s) \in 1 .. Len(s.wire)
        BY <1>2, <2>3
      <4> QED
        BY <2>2, <2>3, <4>1
    <3> QED
      BY <1>6, <2>3, <3>1, <3>2
  <2>6. Len(t.wire) > 0 /\ t.wire[Len(t.wire)] = [done |-> t.last.st]
    BY <1>2, <2>2 DEF d
  <2> QED
    BY <1>1, <1>6, <2>4, <2>5, <2>6 DEF WireTrails
<1>7. CASE row = s.last /\ ~EndsStream(row)
  <2>1. t.wire = s.wire /\ t.phase = "ticking"
    BY <1>1, <1>7 DEF EventsOf, Differs
  <2>2. Rows(t) = Len(s.wire)
    BY <2>1 DEF Rows
  <2> QED
    BY <1>1, <1>2, <1>7, <2>1, <2>2 DEF WireTrails
<1> QED
  BY <1>4, <1>5, <1>6, <1>7

\* A row moves from the wire to the page.
LEMMA MessageTrails ==
  ASSUME NEW s \in StreamRecord, NEW st, NEW steps, WireTrails(s, st, steps),
         s.wire # <<>>, Head(s.wire) \in Row,
         NEW t \in StreamRecord, t.wire = Tail(s.wire), t.last = s.last, t.phase = s.phase
  PROVE  WireTrails(t, Head(s.wire).st, Head(s.wire).steps)
<1>1. /\ s.wire \in Seq(Row \cup DoneEvent) /\ Len(s.wire) \in Nat \ {0}
      /\ Head(s.wire) = s.wire[1] /\ Len(t.wire) = Len(s.wire) - 1
      /\ \A i \in 1 .. Len(t.wire) : t.wire[i] = s.wire[i + 1]
  BY DEF StreamRecord
<1>2. Rows(s) > 0
  <2>1. CASE s.phase = "ended" /\ Len(s.wire) = 1
    <3>1. s.wire[1] = [done |-> s.last.st] /\ s.last.st \in {"COMPLETED", "FAILED"}
      BY <2>1 DEF WireTrails, EndsStream
    <3>2. s.wire[1] \in DoneEvent
      BY <3>1 DEF DoneEvent
    <3> QED
      BY <1>1, <3>2, RowsAreNotDone
  <2>2. CASE ~(s.phase = "ended" /\ Len(s.wire) = 1)
    <3>1. PICK n \in Nat \ {0} : Len(s.wire) = n
      BY <1>1
    <3>2. Rows(s) = IF s.phase = "ended" THEN n - 1 ELSE n
      BY <3>1 DEF Rows
    <3>3. s.phase = "ended" => n # 1
      BY <2>2, <3>1
    <3> QED
      BY <3>2, <3>3
  <2> QED
    BY <2>1, <2>2
<1>3. Rows(t) = Rows(s) - 1 /\ Rows(s) \in Nat /\ Rows(s) <= Len(s.wire)
  BY <1>1, <1>2 DEF Rows
<1>4. s.phase = "ended" => Len(t.wire) > 0 /\ t.wire[Len(t.wire)] = s.wire[Len(s.wire)]
  BY <1>1, <1>2 DEF Rows
<1>5. \A i \in 1 .. Rows(t) : t.wire[i] \in Row
  <2>1. \A j \in 1 .. Rows(s) : s.wire[j] \in Row
    BY DEF WireTrails
  <2>2. \A i \in 1 .. Rows(t) : i \in 1 .. Len(t.wire) /\ i + 1 \in 1 .. Rows(s)
    BY <1>1, <1>3
  <2> QED
    BY <1>1, <2>1, <2>2
<1>6. CASE Rows(t) = 0
  <2>1. s.last = s.wire[1]
    BY <1>2, <1>3, <1>6 DEF WireTrails
  <2> QED
    BY <1>1, <1>4, <1>5, <1>6, <2>1 DEF WireTrails
<1>7. CASE Rows(t) # 0
  <2>1. t.wire[Rows(t)] = s.wire[Rows(s)]
    BY <1>1, <1>2, <1>3, <1>7
  <2>2. s.wire[Rows(s)] = s.last
    BY <1>2 DEF WireTrails
  <2> QED
    BY <1>4, <1>5, <1>7, <2>1, <2>2 DEF WireTrails
<1> QED
  BY <1>6, <1>7

\* "done" is taken when the page shows the row it was decided on.
LEMMA DoneTrails ==
  ASSUME NEW s \in StreamRecord, NEW st, NEW steps, WireTrails(s, st, steps),
         s.wire # <<>>, Head(s.wire) \notin Row
  PROVE  /\ s.last \in Row /\ EndsStream(s.last)
         /\ [st |-> st, steps |-> steps] = s.last /\ Head(s.wire).done = s.last.st
<1>1. /\ s.wire \in Seq(Row \cup DoneEvent) /\ Len(s.wire) \in Nat \ {0}
      /\ Head(s.wire) = s.wire[1]
  BY DEF StreamRecord
<1>2. Rows(s) = 0
  <2>1. Rows(s) \in Nat
    BY <1>1 DEF Rows
  <2> QED
    BY <1>1, <2>1 DEF WireTrails
<1>3. s.phase = "ended" /\ Len(s.wire) = 1
  BY <1>1, <1>2 DEF Rows
<1>4. /\ s.wire[1] = [done |-> s.last.st] /\ s.last \in Row /\ EndsStream(s.last)
      /\ s.last # NoRead => st = s.last.st /\ steps = s.last.steps
  BY <1>2, <1>3 DEF WireTrails
<1>5. st = s.last.st /\ steps = s.last.steps
  BY <1>4, RowsAreNotDone
<1>6. [st |-> st, steps |-> steps] = s.last
  BY <1>4, <1>5 DEF Row
<1> QED
  BY <1>1, <1>4, <1>6

-----------------------------------------------------------------------------
\* Only the stream of the created request is open: a step that changes it
\* finds and leaves the others closed.
LEMMA OneStream ==
  ASSUME FollowInv, NEW q \in Requests, stream[q] # NoStream,
         NEW t \in StreamRecord, stream' = [stream EXCEPT ![q] = t]
  PROVE  /\ Streaming(q) /\ created = q /\ posting = None /\ db[q] \in DatedRow /\ stream[q] \in StreamRecord
         /\ stream' \in [Requests -> StreamRecord] /\ stream'[q] = t
         /\ \A p \in Requests \ {q} : stream'[p] = NoStream
<1>1. Streaming(q) /\ created = q /\ stream[q] \in StreamRecord
  BY DEF FollowInv, Streaming
<1>2. db[q] \in DatedRow /\ posting = None
  BY <1>1, RowsAreNotDone, RowsAssumption DEF FollowInv, Streaming
<1>3. \A p \in Requests \ {q} : stream[p] = NoStream
  BY <1>1 DEF FollowInv, Streaming
<1>4. stream \in [Requests -> StreamRecord]
  BY DEF FollowInv
<1> QED
  BY <1>1, <1>2, <1>3, <1>4

\* When the page has let go of its request every stream is closed.
LEMMA LetGo ==
  ASSUME FollowInv, stream' = Closed(created),
         UNCHANGED db, posting' \in Requests \cup {None, Posted}, created' \in Requests \cup {None},
         posting' \in Requests => posting' = posting,
         posting' # None => created' = None
  PROVE  FollowInv'
<1>1. stream' \in [Requests -> StreamRecord] /\ \A q \in Requests : stream'[q] = NoStream
  BY ClosedStreams
<1> QED
  BY <1>1 DEF FollowInv

LEMMA FollowSubmit ==
  ASSUME FollowInv, StreamTruthful, SubmitRequest
  PROVE  FollowInv' /\ StreamTruthful'
<1>1. FollowInv'
  BY LetGo, RowsAssumption DEF SubmitRequest, Posted
<1> QED
  BY <1>1 DEF SubmitRequest, StreamTruthful

LEMMA FollowCreates ==
  ASSUME FollowInv, StreamTruthful, NEW q \in Requests, ServerCreates(q)
  PROVE  FollowInv' /\ StreamTruthful'
<1> USE DEF ServerCreates, Created
<1>1. NewRow \in DatedRow
  BY DEF NewRow, DatedRow, RequestRow, ShownStatus, EndsStream
<1>2. db' \in [Requests -> DatedRow \cup {Absent}] /\ db'[q] \in DatedRow
  BY <1>1 DEF FollowInv
<1>3. created = None /\ \A p \in Requests : stream[p] = NoStream
  BY RowsAssumption DEF FollowInv, Streaming, Posted
<1>4. FollowInv'
  BY <1>2, <1>3 DEF FollowInv
<1> QED
  BY <1>3, <1>4 DEF StreamTruthful

LEMMA FollowAnswered ==
  ASSUME FollowInv, StreamTruthful, CreateAnswered
  PROVE  FollowInv' /\ StreamTruthful'
<1> USE DEF CreateAnswered
<1>1. PICK q \in Requests : q = posting
  OBVIOUS
<1> DEFINE t == [NoStream EXCEPT !.open = TRUE, !.phase = "first"]
<1>2. q # None /\ q # Posted /\ db[q] \in DatedRow /\ \A p \in Requests : stream[p] = NoStream
  BY <1>1, RowsAssumption DEF FollowInv, Streaming, Posted
<1>3. t \in StreamRecord /\ t.phase = "first" /\ t.wire = <<>> /\ t.last = NoRead /\ t.reads = {}
  <2>1. NoStream \in StreamRecord /\ NoStream.wire = <<>> /\ NoStream.last = NoRead /\ NoStream.reads = {}
    BY DEF StreamRecord, NoStream
  <2> QED
    BY <2>1 DEF StreamRecord
<1>4. stream' = [stream EXCEPT ![q] = t]
  BY <1>1
<1> HIDE DEF t
<1>5. /\ stream' \in [Requests -> StreamRecord] /\ stream'[q] = t
      /\ \A p \in Requests \ {q} : stream'[p] = NoStream
  BY <1>2, <1>3, <1>4 DEF FollowInv
<1>6. Rows(t) = 0
  BY <1>3 DEF Rows
<1>7. WireTrails(t, liveStatus', liveSteps')
  BY <1>3, <1>6 DEF WireTrails
<1>8. Streaming(q)'
  BY <1>1, <1>2, <1>3, <1>5, <1>7, RowsAreNotDone DEF Streaming, ReadsAreBacked
<1>9. \A p \in Requests : stream'[p] = NoStream \/ Streaming(p)'
  BY <1>5, <1>8
<1>10. /\ db' \in [Requests -> DatedRow \cup {Absent}]
       /\ posting' = None /\ created' \in Requests
  BY <1>1 DEF FollowInv
<1>11. FollowInv'
  BY <1>5, <1>9, <1>10, RowsAssumption DEF FollowInv
<1> QED
  BY <1>11 DEF StreamTruthful

LEMMA FollowRefused ==
  ASSUME FollowInv, StreamTruthful, CreateRefused
  PROVE  FollowInv' /\ StreamTruthful'
<1> USE DEF CreateRefused, live
<1>1. \A p \in Requests : Streaming(p) => Streaming(p)'
  BY DEF Streaming, ReadsAreBacked
<1> QED
  BY <1>1, RowsAssumption DEF FollowInv, StreamTruthful

LEMMA FollowReads ==
  ASSUME FollowInv, StreamTruthful, NEW q \in Requests, TickReads(q)
  PROVE  FollowInv' /\ StreamTruthful'
<1> USE DEF TickReads, live
<1> DEFINE s == stream[q]
           t == [s EXCEPT !.reads = s.reads \cup {Read(q)}]
<1>1. s # NoStream /\ s \in StreamRecord
  BY DEF NoStream, FollowInv
<1>2. Streaming(q) /\ db[q] \in DatedRow
  BY <1>1, RowsAreNotDone DEF FollowInv, Streaming
<1>3. t \in StreamRecord /\ stream' = [stream EXCEPT ![q] = t]
  <2>1. s.reads \cup {Read(q)} \in SUBSET Row
    BY <1>1, <1>2, ReadsAreRows DEF StreamRecord
  <2> QED
    BY <1>1, <2>1 DEF StreamRecord
<1>4. /\ stream' \in [Requests -> StreamRecord] /\ stream'[q] = t
      /\ \A p \in Requests \ {q} : stream'[p] = NoStream
  BY <1>1, <1>3, OneStream
<1>5. WireTrails(t, liveStatus, liveSteps)
  BY <1>2 DEF Streaming, WireTrails, Rows
<1>6. ReadsAreBacked(q)'
  <2>1. t.reads = s.reads \cup {Read(q)} /\ t.last = s.last
    BY <1>1 DEF StreamRecord
  <2> QED
    BY <1>2, <1>4, <2>1, ReadsAreRows DEF Streaming, ReadsAreBacked
<1>7. Streaming(q)'
  BY <1>1, <1>2, <1>4, <1>5, <1>6 DEF Streaming
<1> QED
  BY <1>4, <1>7 DEF FollowInv, StreamTruthful

LEMMA FollowTickAnswered ==
  ASSUME FollowInv, StreamTruthful, NEW q \in Requests, TickAnswered(q)
  PROVE  FollowInv' /\ StreamTruthful'
<1> USE DEF TickAnswered, live
<1> DEFINE s == stream[q]
<1>1. s # NoStream /\ s \in StreamRecord
  BY DEF NoStream, FollowInv
<1>2. PICK row \in s.reads :
        stream' = [stream EXCEPT
          ![q].wire = @ \o EventsOf(row, stream[q].last),
          ![q].last = row,
          ![q].phase = IF EndsStream(row) THEN "ended" ELSE "ticking",
          ![q].reads = IF EndsStream(row) THEN {} ELSE @ \ {row}]
  OBVIOUS
<1> DEFINE t == [s EXCEPT !.wire = @ \o EventsOf(row, s.last), !.last = row,
                          !.phase = IF EndsStream(row) THEN "ended" ELSE "ticking",
                          !.reads = IF EndsStream(row) THEN {} ELSE @ \ {row}]
<1>3. row \in Row /\ EventsOf(row, s.last) \in Seq(Row \cup DoneEvent)
  <2>1. row \in Row
    BY <1>1 DEF StreamRecord
  <2> DEFINE sent == IF Differs(row, s.last) THEN <<row>> ELSE <<>>
             done == IF EndsStream(row) THEN <<[done |-> row.st]>> ELSE <<>>
  <2>2. sent \in Seq(Row \cup DoneEvent)
    <3>1. <<row>> \in Seq(Row \cup DoneEvent) /\ <<>> \in Seq(Row \cup DoneEvent)
      BY <2>1
    <3> QED
      BY <3>1
  <2>3. done \in Seq(Row \cup DoneEvent)
    <3>1. EndsStream(row) => [done |-> row.st] \in DoneEvent
      BY DEF EndsStream, DoneEvent
    <3>2. EndsStream(row) => <<[done |-> row.st]>> \in Seq(Row \cup DoneEvent)
      BY <3>1
    <3>3. <<>> \in Seq(Row \cup DoneEvent)
      OBVIOUS
    <3> QED
      BY <3>2, <3>3
  <2>4. EventsOf(row, s.last) = sent \o done
    BY DEF EventsOf
  <2> HIDE DEF sent, done
  <2> QED
    BY <2>1, <2>2, <2>3, <2>4
<1>4. t \in StreamRecord /\ stream' = [stream EXCEPT ![q] = t]
  <2>1. /\ s.wire \o EventsOf(row, s.last) \in Seq(Row \cup DoneEvent)
        /\ (IF EndsStream(row) THEN {} ELSE s.reads \ {row}) \subseteq Row
    BY <1>1, <1>3 DEF StreamRecord
  <2>2. t \in StreamRecord
    BY <1>1, <1>3, <2>1 DEF StreamRecord
  <2> QED
    BY <1>2, <2>2
<1>5. /\ stream' \in [Requests -> StreamRecord] /\ stream'[q] = t /\ Streaming(q)
      /\ \A p \in Requests \ {q} : stream'[p] = NoStream
  BY <1>1, <1>4, OneStream
<1>6. WireTrails(t, liveStatus, liveSteps)
  <2>1. WireTrails(s, liveStatus, liveSteps) /\ s.phase \in {"first", "ticking"}
    BY <1>5 DEF Streaming
  <2>2. /\ t.wire = s.wire \o EventsOf(row, s.last) /\ t.last = row
        /\ t.phase = IF EndsStream(row) THEN "ended" ELSE "ticking"
    BY <1>1 DEF StreamRecord
  <2> HIDE DEF s, t
  <2> QED
    BY <1>1, <1>2, <1>4, <2>1, <2>2, AnswerTrails
<1>7. ReadsAreBacked(q)'
  <2>1. t.reads \subseteq s.reads /\ t.last = row
    BY <1>1 DEF StreamRecord
  <2> QED
    BY <1>5, <2>1 DEF Streaming, ReadsAreBacked
<1>8. Streaming(q)'
  BY <1>5, <1>6, <1>7 DEF Streaming
<1> QED
  BY <1>5, <1>8 DEF FollowInv, StreamTruthful

LEMMA FollowBreaks ==
  ASSUME FollowInv, StreamTruthful, NEW q \in Requests, StreamBreaks(q)
  PROVE  FollowInv' /\ StreamTruthful'
<1> USE DEF StreamBreaks
<1>1. q = created /\ posting = None
  BY RowsAssumption DEF NoStream, FollowInv, Streaming
<1>2. FollowInv'
  BY <1>1, LetGo DEF FollowInv
<1> QED
  BY <1>2 DEF StreamTruthful

LEMMA FollowMessage ==
  ASSUME FollowInv, StreamTruthful, NEW q \in Requests, OnMessage(q)
  PROVE  FollowInv' /\ StreamTruthful'
<1> USE DEF OnMessage, Incoming
<1> DEFINE s == stream[q]
           t == [s EXCEPT !.wire = Tail(s.wire)]
<1>1. s # NoStream /\ s \in StreamRecord /\ s.wire \in Seq(Row \cup DoneEvent)
  BY DEF NoStream, FollowInv, StreamRecord
<1>2. Tail(s.wire) \in Seq(Row \cup DoneEvent)
  BY <1>1
<1>3. t \in StreamRecord /\ stream' = [stream EXCEPT ![q] = t]
  BY <1>1, <1>2 DEF StreamRecord
<1>4. /\ stream' \in [Requests -> StreamRecord] /\ stream'[q] = t /\ Streaming(q) /\ created = q
      /\ \A p \in Requests \ {q} : stream'[p] = NoStream
  BY <1>1, <1>3, OneStream
<1>5. WireTrails(t, liveStatus', liveSteps')
  <2>1. WireTrails(s, liveStatus, liveSteps) /\ s.wire # <<>> /\ Head(s.wire) \in Row
        /\ liveStatus' = Head(s.wire).st /\ liveSteps' = Head(s.wire).steps
    BY <1>4 DEF Streaming
  <2>2. t.wire = Tail(s.wire) /\ t.last = s.last /\ t.phase = s.phase
    BY <1>1 DEF StreamRecord
  <2> HIDE DEF s, t
  <2> QED
    BY <1>1, <1>3, <2>1, <2>2, MessageTrails
<1>6. ReadsAreBacked(q)'
  <2>1. t.reads = s.reads /\ t.last = s.last
    BY <1>1 DEF StreamRecord
  <2> QED
    BY <1>4, <2>1 DEF Streaming, ReadsAreBacked
<1>7. Streaming(q)'
  BY <1>4, <1>5, <1>6 DEF Streaming
<1> QED
  BY <1>4, <1>7 DEF FollowInv, Streaming, StreamTruthful

LEMMA FollowDone ==
  ASSUME FollowInv, StreamTruthful, NEW q \in Requests, OnDone(q)
  PROVE  FollowInv' /\ StreamTruthful'
<1> USE DEF OnDone, Incoming
<1>1. stream[q] # NoStream /\ stream[q] \in StreamRecord /\ NoStream \in StreamRecord
  BY DEF NoStream, FollowInv, StreamRecord
<1>2. /\ stream' \in [Requests -> StreamRecord] /\ stream'[q] = NoStream /\ Streaming(q) /\ created = q
      /\ \A p \in Requests \ {q} : stream'[p] = NoStream
  BY <1>1, OneStream
<1>3. /\ stream[q].last \in Row /\ EndsStream(stream[q].last)
      /\ [st |-> liveStatus, steps |-> liveSteps] = stream[q].last
      /\ Head(stream[q].wire).done = stream[q].last.st
  BY <1>1, <1>2, DoneTrails DEF Streaming
<1>4. db[q].dated = TRUE
  BY <1>2, <1>3 DEF Streaming, ReadsAreBacked
<1>5. FollowInv'
  BY <1>2 DEF FollowInv
<1> QED
  BY <1>2, <1>3, <1>4, <1>5 DEF StreamTruthful

\* The coordinator works on the rows; what is over stays so.
LEMMA FollowRows ==
  ASSUME FollowInv, StreamTruthful, NEW q \in Requests, Progress(q), UNCHANGED submitVars
  PROVE  FollowInv' /\ StreamTruthful'
<1> USE DEF submitVars, live
<1>1. db[q] \in DatedRow
  BY DEF FollowInv, Progress, Exists
<1>2. PICK new \in RequestRow : RowMoves(db[q], new) /\ db' = [db EXCEPT ![q] = new]
  BY DEF Progress
<1>3. new \in DatedRow /\ (db[q].dated = TRUE => new.dated = TRUE)
  BY <1>1, <1>2, MovesAreDated
<1>4. /\ db' \in [Requests -> DatedRow \cup {Absent}]
      /\ \A p \in Requests : db[p] \in DatedRow => db'[p] \in DatedRow
      /\ \A p \in Requests : db[p].dated = TRUE => db'[p].dated = TRUE
  BY <1>2, <1>3 DEF FollowInv
<1>5. \A p \in Requests : Streaming(p) => Streaming(p)'
  BY <1>4 DEF Streaming, ReadsAreBacked
<1>6. FollowInv'
  BY <1>4, <1>5 DEF FollowInv
<1>7. StreamTruthful'
  BY <1>4 DEF StreamTruthful, FollowInv
<1> QED
  BY <1>6, <1>7

LEMMA StepSubmit ==
  ASSUME SubmitInv, [Next]_vars
  PROVE  SubmitInv'
<1>1. CASE OnSubmit /\ SubmitNext
  BY <1>1, FollowSubmit, FollowCreates, FollowAnswered, FollowRefused, FollowReads, FollowTickAnswered,
     FollowBreaks, FollowMessage, FollowDone DEF OnSubmit, SubmitNext, StreamRun, SubmitInv
<1>2. CASE RowsProgress
  BY <1>2, FollowRows DEF RowsProgress, OnSubmit, SubmitInv
<1>3. CASE page # "submit" /\ UNCHANGED <<page, submitVars>>
  BY <1>3 DEF SubmitInv, StreamTruthful, submitVars
<1>4. CASE UNCHANGED vars
  <2> USE <1>4 DEF vars, submitVars, live
  <2>1. \A p \in Requests : Streaming(p) => Streaming(p)'
    BY DEF Streaming, ReadsAreBacked
  <2> QED
    BY <2>1 DEF SubmitInv, FollowInv, StreamTruthful
<1> QED
  BY <1>1, <1>2, <1>3, <1>4 DEF Next, RowsMove, OnListing, OnBulk, OnUsers

\* The page that follows a request speaks of the request it names, and when it
\* says how it ended it shows the very read that was decided on, and the request
\* is over, for any requests, any number of overlapping reads, answers in any
\* order, and rows that any write of the coordinator may have moved since.
THEOREM PageIsTruthful == Spec => []StreamTruthful
<1>1. SubmitInv => StreamTruthful
  BY DEF SubmitInv
<1> QED
  BY <1>1, InitSubmit, StepSubmit, PTL DEF Spec

-----------------------------------------------------------------------------
(***************************************************************************)
(* The dashboard.  Every answer that is still to come was read under the   *)
(* filter beside it, for a new filter replaces the call; the panel forgets *)
(* what belongs to a selection in the step that leaves it.                 *)
(***************************************************************************)
RowsTyped == db \in [Requests -> RequestRow \cup {Absent}]

LEMMA InitRows == Init => RowsTyped
BY DEF Init, RowsInit, RowsTyped

LEMMA StepRows ==
  ASSUME RowsTyped, [Next]_vars
  PROVE  RowsTyped'
<1> USE DEF RowsTyped
<1>1. CASE \E q \in Requests : Created(q)
  <2>1. NewRow \in RequestRow
    BY DEF NewRow, RequestRow, ShownStatus
  <2> QED
    BY <1>1, <2>1 DEF Created
<1>2. CASE \E q \in Requests : Progress(q)
  BY <1>2 DEF Progress
<1>3. CASE \E q \in Requests : Completes(q)
  <2>1. [st |-> "COMPLETED", steps |-> "settled", dated |-> TRUE] \in RequestRow
    BY DEF RequestRow, ShownStatus
  <2> QED
    BY <1>3, <2>1 DEF Completes
<1>4. CASE UNCHANGED db
  BY <1>4
<1> QED
  BY <1>1, <1>2, <1>3, <1>4
  DEF Next, vars, SubmitNext, SubmitRequest, ServerCreates, CreateAnswered, CreateRefused, StreamRun, TickReads,
      TickAnswered, OnMessage, OnDone, StreamBreaks, HomeNext, HistoryNext, ListReads, ListFails, SetFilter,
      HomeListAnswered, SelectRequest, PanelAnswered, ProofAnswered, VerifyAnswered, NotificationAnswered,
      AttestationAnswered, ProofFails, LateLoadAttestation, LateProofFails, RetryAttestation, RetryAnswered,
      HistoryListAnswered, IntakeNext, ChooseFile, RefuseFile, Reset, Upload, UploadRun, SkipRow, SaveRow,
      PublishRow, UploadFails, UploadAnswered, OnUsers, RowsProgress, RowsMove

\* An answer: rows by falling number, hence each request once.
NewestFirst(items) ==
  /\ items \in Seq(Item)
  /\ \A i, j \in 1 .. Len(items) : i < j => items[i].id > items[j].id

Matches(items) ==
  \A i \in 1 .. Len(items) : items[i].id \in filter.search /\ filter.status \in {None, items[i].st}

ListInv ==
  /\ filter \in Filters
  /\ NewestFirst(listed)
  /\ \/ listCall \in {NoCall, Sent}
     \/ listCall.phase = "answered" /\ NewestFirst(listCall.items) /\ Matches(listCall.items)
  /\ listCall = NoCall /\ ~listError => Matches(listed)
  /\ selected = None \/ \E i \in 1 .. Len(listed) : selected = listed[i]
  /\ page # "home" => selected = None

PanelInv ==
  /\ selected = None \/ selected \in Item
  /\ proofCall \in {"none", "proof", "verify", "notification", "attestation"}
  /\ proofCall # "none" => selected # None
  /\ late \in 0 .. MaxLate
  /\ {proof, proofVerify, notification, attestation.of, retryCall} \subseteq Requests \cup {None}
  /\ isAttestationLoading \in BOOLEAN /\ attestationError \in BOOLEAN
  /\ isAttestationLoading = TRUE => attestationError = FALSE /\ attestation = NoAtt
  /\ {proofVerify, notification} \subseteq {None, Selected}
  /\ proofCall # "proof" => proof \in {None, Selected}
  /\ proofCall \in {"none", "attestation"} /\ attestation.by = "effect" => attestation.of = Selected

LEMMA NoAttestation == NoAtt.of = None /\ NoAtt.by # "effect"
BY DashboardAssumption DEF NoAtt

LEMMA InitHome == Init => ListInv /\ PanelInv
<1> SUFFICES ASSUME Init
             PROVE  ListInv /\ PanelInv
  OBVIOUS
<1> USE DEF Init, HomeInit
<1>1. filter \in Filters
  BY DashboardAssumption
<1>2. ListInv
  BY <1>1 DEF ListInv, NewestFirst, Matches
<1>3. 0 \in 0 .. MaxLate
  BY DashboardAssumption
<1>4. PanelInv
  BY <1>3, NoAttestation DEF PanelInv
<1> QED
  BY <1>2, <1>4

LEMMA ListingAnswers ==
  ASSUME RowsTyped, NEW items \in Listing
  PROVE  NewestFirst(items) /\ Matches(items)
<1> DEFINE n == Cardinality(Matching)
           rows == {[id |-> q, st |-> db[q].st] : q \in Matching}
<1>1. n \in Nat
  BY RowsAssumption, FS_Subset, FS_CardinalityType DEF Matching
<1>2. items \in [1 .. n -> rows] /\ \A i, j \in DOMAIN items : i < j => items[i].id > items[j].id
  BY DEF Listing
<1>3. ASSUME NEW it \in rows
      PROVE  it \in Item /\ it.id \in filter.search /\ filter.status \in {None, it.st}
  <2>1. PICK q \in Matching : it = [id |-> q, st |-> db[q].st]
    BY <1>3
  <2>2. q \in Requests /\ db[q] \in RequestRow /\ q \in filter.search /\ filter.status \in {None, db[q].st}
    BY <2>1 DEF Matching, Exists, RowsTyped
  <2> QED
    BY <2>1, <2>2 DEF Item, RequestRow
<1> HIDE DEF n, rows
<1>4. items \in Seq(Item) /\ Len(items) = n /\ DOMAIN items = 1 .. n
  BY <1>1, <1>2, <1>3
<1>5. \A i \in 1 .. n : items[i] \in rows
  BY <1>2
<1> QED
  BY <1>2, <1>3, <1>4, <1>5 DEF NewestFirst, Matches

\* What a new answer makes of the selection is one of its rows, or nothing.
LEMMA StillListed ==
  ASSUME NEW items \in Seq(Item)
  PROVE  StillSelected(items) = None \/ \E i \in 1 .. Len(items) : StillSelected(items) = items[i]
<1>1. DOMAIN items = 1 .. Len(items) /\ Range(items) = {items[i] : i \in 1 .. Len(items)}
  BY DEF Range
<1>2. CASE \E it \in Range(items) : it.id = Selected
  <2>1. StillSelected(items) \in Range(items)
    BY <1>2 DEF StillSelected
  <2> QED
    BY <1>1, <2>1
<1>3. CASE ~\E it \in Range(items) : it.id = Selected
  <2>1. CASE items = <<>>
    BY <1>3, <2>1 DEF StillSelected
  <2>2. CASE items # <<>>
    <3>1. StillSelected(items) = Head(items) /\ Head(items) = items[1] /\ 1 \in 1 .. Len(items)
      BY <1>3, <2>2 DEF StillSelected
    <3> QED
      BY <3>1
  <2> QED
    BY <2>1, <2>2
<1> QED
  BY <1>2, <1>3

\* The proof effect leaves nothing of another request in the panel but the proof
\* it is about to replace.
LEMMA EffectForgets ==
  ASSUME PanelInv, ProofEffect(selected'), UNCHANGED retryCall,
         selected' = None \/ selected' \in Item
  PROVE  PanelInv'
<1>1. Replaced \in {0, 1} /\ late' \in 0 .. MaxLate
  BY DashboardAssumption DEF Replaced, ProofEffect, PanelInv
<1>2. CASE selected' = None
  BY <1>1, <1>2, NoAttestation DEF ProofEffect, PanelInv, Selected
<1>3. CASE selected' # None
  BY <1>1, <1>3 DEF ProofEffect, PanelInv, attVars
<1> QED
  BY <1>2, <1>3

LEMMA ListStep ==
  ASSUME RowsTyped, ListInv, PanelInv, UNCHANGED page, ListReads \/ ListFails \/ SetFilter
  PROVE  ListInv' /\ PanelInv'
<1>1. UNCHANGED <<listed, selected, proofCall, late, panel, attVars, retryCall>>
  BY DEF ListReads, ListFails, SetFilter
<1>2. PanelInv'
  BY <1>1 DEF PanelInv, panel, attVars, Selected
<1>3. NewestFirst(listed)' /\ (selected' = None \/ \E i \in 1 .. Len(listed') : selected' = listed'[i])
      /\ (page' # "home" => selected' = None)
  BY <1>1 DEF ListInv, NewestFirst
<1>4. CASE ListReads
  <2>1. PICK items \in Listing : listCall' = [phase |-> "answered", items |-> items]
    BY <1>4 DEF ListReads
  <2>2. NewestFirst(items) /\ Matches(items) /\ UNCHANGED filter
    BY <1>4, ListingAnswers DEF ListReads
  <2>3. NewestFirst(listCall'.items) /\ Matches(listCall.items)'
    BY <2>1, <2>2 DEF Matches
  <2> QED
    BY <1>2, <1>3, <1>4, <2>1, <2>2, <2>3 DEF ListInv, NewestFirst, NoCall
<1>5. CASE ListFails \/ SetFilter
  BY <1>2, <1>3, <1>5 DEF ListFails, SetFilter, ListInv, NewestFirst, NoCall, Sent
<1> QED
  BY <1>4, <1>5

LEMMA ListArrives ==
  ASSUME ListInv, PanelInv, page = "home", UNCHANGED page, HomeListAnswered
  PROVE  ListInv' /\ PanelInv'
<1>1. /\ listCall.phase = "answered" /\ listed' = listCall.items /\ UNCHANGED <<filter, retryCall>>
      /\ selected' = StillSelected(listCall.items)
      /\ listCall' \in {Sent, NoCall}
  BY DEF HomeListAnswered, ListEffect
<1>2. NewestFirst(listCall.items) /\ Matches(listCall.items)
  BY <1>1 DEF ListInv, NoCall, Sent
<1>3. selected' = None \/ \E i \in 1 .. Len(listed') : selected' = listed'[i]
  BY <1>1, <1>2, StillListed DEF NewestFirst
<1>4. ListInv'
  BY <1>1, <1>2, <1>3 DEF ListInv, NewestFirst, Matches
<1>5. selected' = None \/ selected' \in Item
  BY <1>1, <1>2, <1>3 DEF NewestFirst
<1>6. PanelInv'
  <2>1. CASE selected = None /\ selected' = None
    BY <1>1, <2>1 DEF HomeListAnswered, PanelInv, panel, attVars, Selected
  <2>2. CASE ~(selected = None /\ selected' = None)
    <3>1. ProofEffect(selected')
      BY <1>1, <2>2 DEF HomeListAnswered
    <3> QED
      BY <1>1, <1>5, <3>1, EffectForgets
  <2> QED
    BY <2>1, <2>2
<1> QED
  BY <1>4, <1>6

LEMMA SelectionMoves ==
  ASSUME ListInv, PanelInv, page = "home", UNCHANGED page, SelectRequest
  PROVE  ListInv' /\ PanelInv'
<1>1. PICK it \in Range(listed) : it # selected /\ selected' = it /\ ProofEffect(it) /\ ListEffect(it)
  BY DEF SelectRequest
<1>2. UNCHANGED <<filter, listed, retryCall>> /\ listed \in Seq(Item)
  BY DEF SelectRequest, ListInv, NewestFirst
<1>3. PICK i \in 1 .. Len(listed) : it = listed[i]
  BY <1>2 DEF Range
<1>4. it \in Item /\ it # None /\ it.id # Selected
  <2>1. it \in Item
    BY <1>2, <1>3
  <2>2. it # None /\ it.id \in Requests
    BY <2>1, DashboardAssumption DEF Item
  <2>3. CASE selected = None
    <3>1. Selected = None /\ None \notin Requests
      BY <2>3, RowsAssumption DEF Selected
    <3> QED
      BY <2>1, <2>2, <3>1
  <2>4. CASE selected # None
    <3>1. PICK j \in 1 .. Len(listed) : selected = listed[j]
      BY <2>4 DEF ListInv
    <3>2. i # j /\ i \in Nat /\ j \in Nat
      BY <1>1, <1>3, <3>1
    <3>3. listed[i].id > listed[j].id \/ listed[j].id > listed[i].id
      BY <3>2 DEF ListInv, NewestFirst
    <3>4. listed[i].id \in Nat /\ listed[j].id \in Nat
      <4>1. listed[i] \in Item /\ listed[j] \in Item
        BY <1>2
      <4> QED
        BY <4>1, RowsAssumption DEF Item
    <3> QED
      BY <1>3, <2>1, <2>2, <2>4, <3>1, <3>3, <3>4 DEF Selected
  <2> QED
    BY <2>1, <2>2, <2>3, <2>4
<1>5. listCall' = Sent
  BY <1>1, <1>4 DEF ListEffect
<1>6. ListInv'
  BY <1>1, <1>2, <1>3, <1>5 DEF ListInv, NewestFirst, Sent, NoCall
<1>7. PanelInv'
  BY <1>1, <1>2, <1>4, EffectForgets
<1> QED
  BY <1>6, <1>7

LEMMA AttestationComes ==
  ASSUME NEW q, NEW by, AttestationOf(q, by), attestationError \in BOOLEAN
  PROVE  /\ attestation'.of \in {None, q}
         /\ (attestation'.by = by /\ attestation'.of = q) \/ attestation' = NoAtt
         /\ attestationError' \in BOOLEAN /\ isAttestationLoading' = FALSE
<1>1. CASE attestation' = [of |-> q, by |-> by] /\ UNCHANGED attestationError
  BY <1>1 DEF AttestationOf
<1>2. CASE attestationError' = TRUE /\ attestation' = NoAtt
  BY <1>2, NoAttestation DEF AttestationOf
<1> QED
  BY <1>1, <1>2 DEF AttestationOf

\* The panel's own calls, its replaced effects and the retry.
LEMMA PanelStep ==
  ASSUME ListInv, PanelInv, UNCHANGED page,
         \/ PanelAnswered \/ ProofFails \/ LateLoadAttestation \/ LateProofFails
         \/ RetryAttestation \/ RetryAnswered
  PROVE  ListInv' /\ PanelInv'
<1>1. UNCHANGED <<listVars, selected>>
  BY DEF PanelAnswered, ProofAnswered, VerifyAnswered, NotificationAnswered, AttestationAnswered, ProofFails,
         LateLoadAttestation, LateProofFails, RetryAttestation, RetryAnswered
<1>2. ListInv'
  BY <1>1 DEF ListInv, listVars, NewestFirst, Matches
<1>3. Selected' = Selected /\ (selected # None => Selected \in Requests) /\ (selected = None => Selected = None)
  BY <1>1 DEF Selected, PanelInv, Item
<1> USE DEF PanelInv
<1>4. CASE ProofAnswered \/ VerifyAnswered
  BY <1>1, <1>2, <1>3, <1>4 DEF ProofAnswered, VerifyAnswered, attVars
<1>5. CASE NotificationAnswered
  BY <1>1, <1>2, <1>3, <1>5, NoAttestation DEF NotificationAnswered, LoadingAttestation
<1>6. CASE AttestationAnswered
  <2>1. /\ attestation'.of \in {None, Selected} /\ (attestation'.by = "effect" => attestation'.of = Selected)
        /\ attestationError' \in BOOLEAN /\ isAttestationLoading' = FALSE
    BY <1>6, AttestationComes, NoAttestation DEF AttestationAnswered
  <2>2. UNCHANGED <<panel, late, retryCall>> /\ proofCall' = "none" /\ proofCall = "attestation"
    BY <1>6 DEF AttestationAnswered
  <2> QED
    BY <1>1, <1>2, <1>3, <2>1, <2>2 DEF panel
<1>7. CASE ProofFails
  BY <1>1, <1>2, <1>3, <1>7, NoAttestation DEF ProofFails
<1>8. CASE LateLoadAttestation \/ LateProofFails
  <2>1. late' \in 0 .. MaxLate
    BY <1>8, DashboardAssumption DEF LateLoadAttestation, LateProofFails
  <2>2. UNCHANGED <<proofCall, panel, retryCall>> /\ (LoadingAttestation \/ UNCHANGED attVars)
    BY <1>8 DEF LateLoadAttestation, LateProofFails
  <2>3. CASE LoadingAttestation
    BY <1>1, <1>2, <1>3, <2>1, <2>2, <2>3, NoAttestation DEF LoadingAttestation, panel
  <2>4. CASE UNCHANGED attVars
    BY <1>1, <1>2, <1>3, <2>1, <2>2, <2>4 DEF panel, attVars
  <2> QED
    BY <2>2, <2>3, <2>4
<1>9. CASE RetryAttestation
  BY <1>1, <1>2, <1>3, <1>9, NoAttestation DEF RetryAttestation, LoadingAttestation, panel
<1>10. CASE RetryAnswered
  <2>1. /\ attestation'.of \in {None, retryCall} /\ attestation'.by # "effect"
        /\ attestationError' \in BOOLEAN /\ isAttestationLoading' = FALSE
    <3>1. AttestationOf(retryCall, "retry") /\ attestationError \in BOOLEAN
      BY <1>10 DEF RetryAnswered
    <3>2. /\ attestation'.of \in {None, retryCall}
          /\ (attestation'.by = "retry" /\ attestation'.of = retryCall) \/ attestation' = NoAtt
          /\ attestationError' \in BOOLEAN /\ isAttestationLoading' = FALSE
      BY ONLY <3>1, AttestationComes
    <3> QED
      BY ONLY <3>2, NoAttestation
  <2>2. UNCHANGED <<panel, late, proofCall>> /\ retryCall' = None
    BY <1>10 DEF RetryAnswered
  <2> QED
    BY <1>1, <1>2, <1>3, <2>1, <2>2 DEF panel
<1> QED
  BY <1>2, <1>4, <1>5, <1>6, <1>7, <1>8, <1>9, <1>10 DEF PanelAnswered

LEMMA StepHome ==
  ASSUME RowsTyped, ListInv, PanelInv, [Next]_vars
  PROVE  ListInv' /\ PanelInv'
<1>1. CASE OnListing("home") /\ HomeNext
  BY <1>1, ListStep, ListArrives, SelectionMoves, PanelStep DEF OnListing, HomeNext
<1>2. CASE OnListing("history") /\ HistoryNext
  <2>1. UNCHANGED page
    BY <1>2 DEF OnListing
  <2>2. CASE HistoryListAnswered
    <3>1. /\ listed' = listCall.items /\ NewestFirst(listCall.items) /\ Matches(listCall.items)
          /\ listCall' = NoCall /\ UNCHANGED <<filter, selected, proofCall, late, panel, attVars, retryCall>>
      BY <2>2 DEF HistoryListAnswered, ListInv, NoCall, Sent
    <3>2. selected = None
      BY <1>2 DEF OnListing, ListInv
    <3>3. ListInv'
      BY <2>1, <3>1, <3>2 DEF ListInv, NewestFirst, Matches
    <3>4. PanelInv'
      BY <3>1 DEF PanelInv, panel, attVars, Selected
    <3> QED
      BY <3>3, <3>4
  <2> QED
    BY <1>2, <2>1, <2>2, ListStep DEF HistoryNext
<1>3. CASE UNCHANGED <<page, homeVars>>
  BY <1>3 DEF homeVars, listVars, panel, attVars, ListInv, PanelInv, NewestFirst, Matches, Selected
<1> QED
  BY <1>1, <1>2, <1>3 DEF Next, vars, OnSubmit, OnListing, OnBulk, OnUsers, RowsProgress, RowsMove

\* What the dashboard and the history show belongs together: a settled list
\* answers the filter beside it and holds the selected row, and the panel is that
\* row's, for any filters, requests, clicks and order of the answers.
THEOREM ScreenIsConsistent == Spec => []ScreenConsistent
<1>1. ASSUME ListInv, PanelInv
      PROVE  ScreenConsistent
  <2>1. DOMAIN listed = 1 .. Len(listed) /\ Range(listed) = {listed[i] : i \in 1 .. Len(listed)}
    BY <1>1 DEF ListInv, NewestFirst, Range
  <2> QED
    BY <1>1, <2>1 DEF ListInv, PanelInv, Matches, ScreenConsistent
<1> QED
  BY <1>1, InitRows, StepRows, InitHome, StepHome, PTL DEF Spec

-----------------------------------------------------------------------------
(***************************************************************************)
(* The upload.  A result, and the rows of an upload that still runs, say   *)
(* what has become of the cells so far; the subjects seen are those of     *)
(* these cells, and a saved request is for the first cell that is left.    *)
(***************************************************************************)
Cells == Subjects \cup {"", " "}

UploadRecord ==
  [of : Files, todo : Seq(Cells), seen : SUBSET Subjects, rows : Seq(RowResult), saved : Requests \cup {None}]

\* What the service makes of a cell.
Fate(cells, i) ==
  IF cells[i] \notin Subjects THEN "blank"
  ELSE IF \A j \in 1 .. i - 1 : cells[j] # cells[i] THEN "created" ELSE "duplicate"

\* The rows say it of as many cells, with a known request for each that made
\* one, and one of its own.
Accounted(cells, rows, known) ==
  /\ rows \in Seq(RowResult)
  /\ \A i \in 1 .. Len(rows) : rows[i].is = Fate(cells, i)
  /\ \A i \in 1 .. Len(rows) : rows[i].is = "created" => rows[i].id \in known
  /\ \A i, j \in 1 .. Len(rows) :
       rows[i].is = "created" /\ rows[j].is = "created" /\ rows[i].id = rows[j].id => i = j

\* The subjects of the first n cells, and of the next one when it is saved.
Remembered(cells, n, u) ==
  \A s \in Subjects :
    s \in u.seen <=> (\E i \in 1 .. n : cells[i] = s) \/ (u.saved # None /\ cells[n + 1] = s)

OneToGo(cells, n, u) ==
  /\ u.todo # <<>> /\ Fate(cells, n + 1) = "created"
  /\ \A i \in 1 .. n : u.rows[i].is = "created" => u.rows[i].id # u.saved

\* The upload u of these cells.
Running(cells, u, known) ==
  /\ u \in UploadRecord
  /\ Accounted(cells, u.rows, known)
  /\ Len(cells) = Len(u.rows) + Len(u.todo)
  /\ \A i \in 1 .. Len(u.todo) : u.todo[i] = cells[Len(u.rows) + i]
  /\ Remembered(cells, Len(u.rows), u)
  /\ u.saved # None => OneToGo(cells, Len(u.rows), u)

\* The requests that are saved and announced.
Announced == {q \in published \cap Requests : Exists(q)}

Shown(result, known) ==
  /\ result.of \in Files
  /\ Accounted(Parse(result.of), result.rows, known)
  /\ Len(result.rows) = Len(Parse(result.of))

UploadInv ==
  /\ selectedFile \in Files \cup {None}
  /\ upload = NoUpload \/ Running(Parse(upload.of), upload, Announced)
  /\ upload.saved # None => upload.saved \in Requests /\ Exists(upload.saved)
  /\ uploadResult = NoResult \/ Shown(uploadResult, Announced)
  /\ imported \subseteq Requests
  /\ imported \subseteq published \cup orphans \cup {upload.saved}

\* A finite set of numbers that is not empty has a greatest element: a smallest
\* subset without one would lose nothing but an element of a smaller one.
LEMMA GreatestOf ==
  ASSUME NEW S \in SUBSET Nat, IsFiniteSet(S), S # {}
  PROVE  Max(S) \in S /\ \A i \in S : i <= Max(S)
<1> DEFINE HasMax(A) == \E x \in A : \A y \in A : x >= y
           bad == {A \in SUBSET S : A # {} /\ ~HasMax(A)}
<1>1. HasMax(S)
  <2> SUFFICES ASSUME ~HasMax(S)
               PROVE  FALSE
    OBVIOUS
  <2>1. bad # {} /\ bad \subseteq FiniteSubsetsOf(S)
    <3>1. S \in bad
      OBVIOUS
    <3>2. FiniteSubsetsOf(S) = SUBSET S
      BY FS_FiniteSubsetsOfFinite
    <3> QED
      BY <3>1, <3>2
  <2> HIDE DEF bad
  <2>2. PICK A \in bad : \A B \in bad : <<B, A>> \notin StrictSubsetOrdering(S)
    BY <2>1, WFMin, FS_StrictSubsetOrderingWellFounded
  <2> USE DEF bad
  <2>3. PICK x : x \in A
    OBVIOUS
  <2>4. A \ {x} \notin bad
    BY <2>2, <2>3 DEF StrictSubsetOrdering
  <2>5. CASE A \ {x} = {}
    <3>1. A = {x} /\ x \in Nat
      BY <2>3, <2>5
    <3>2. HasMax(A)
      BY <3>1
    <3> QED
      BY <3>2
  <2>6. CASE A \ {x} # {}
    <3>1. PICK z \in A \ {x} : \A y \in A \ {x} : z >= y
      BY <2>4, <2>6
    <3>2. x \in Nat /\ A \subseteq Nat
      BY <2>3
    <3>3. HasMax(A)
      BY <2>3, <3>1, <3>2
    <3> QED
      BY <3>3
  <2> QED
    BY <2>5, <2>6
<1>2. Max(S) \in S /\ \A y \in S : Max(S) >= y
  BY <1>1 DEF Max
<1> QED
  BY <1>2

LEMMA ParsedCells ==
  ASSUME NEW f \in Files
  PROVE  Parse(f) \in Seq(Cells)
<1> DEFINE used == {i \in DOMAIN f : f[i] # ""} \cup {0}
<1>1. f \in Seq(Cells) /\ Len(f) \in Nat /\ DOMAIN f = 1 .. Len(f)
  <2>1. f \in Seq(Cells)
    BY IntakeAssumption DEF Cells
  <2> QED
    BY <2>1
<1>2. used \subseteq 0 .. Len(f) /\ used \subseteq Nat /\ used # {}
  <2>1. PICK n \in Nat : Len(f) = n
    BY <1>1
  <2>2. DOMAIN f \subseteq 0 .. n /\ 0 \in 0 .. n /\ 0 .. n \subseteq Nat
    BY <1>1, <2>1
  <2> QED
    BY <2>1, <2>2
<1>3. IsFiniteSet(used)
  <2>1. IsFiniteSet(0 .. Len(f))
    BY <1>1, FS_Interval
  <2> QED
    BY <1>2, <2>1, FS_Subset
<1>4. Parse(f) = SubSeq(f, 1, Max(used))
  BY DEF Parse
<1> HIDE DEF used
<1>5. Max(used) \in 0 .. Len(f)
  BY <1>2, <1>3, GreatestOf
<1> QED
  BY <1>1, <1>4, <1>5

LEMMA InitUpload == Init => UploadInv
BY DEF Init, IntakeInit, UploadInv, NoUpload

\* What is known stays known.
LEMMA StillAccounted ==
  ASSUME NEW cells, NEW rows, NEW known, NEW more, Accounted(cells, rows, known), known \subseteq more
  PROVE  Accounted(cells, rows, more)
BY DEF Accounted

\* The next row of a result: what became of the next cell.
LEMMA NextRow ==
  ASSUME NEW cells, NEW u, NEW known, NEW more, NEW row \in RowResult,
         Running(cells, u, known), known \subseteq more, u.todo # <<>>,
         row.is = Fate(cells, Len(u.rows) + 1),
         cells[Len(u.rows) + 1] \in Subjects => cells[Len(u.rows) + 1] \in u.seen,
         row.is = "created" => row.id \in more /\ row.id = u.saved /\ u.saved # None
  PROVE  Running(cells, [u EXCEPT !.todo = Tail(@), !.rows = Append(@, row), !.saved = None], more)
<1> DEFINE n == Len(u.rows)
           v == [u EXCEPT !.todo = Tail(@), !.rows = Append(@, row), !.saved = None]
<1>1. u \in UploadRecord /\ u.rows \in Seq(RowResult) /\ n \in Nat /\ u.todo \in Seq(Cells)
  BY DEF Running, UploadRecord
<1>a. Len(u.todo) \in Nat /\ Len(u.todo) # 0 /\ Len(cells) = n + Len(u.todo)
  BY <1>1 DEF Running
<1>2. v.of = u.of /\ v.todo = Tail(u.todo) /\ v.rows = Append(u.rows, row) /\ v.seen = u.seen /\ v.saved = None
  BY <1>1 DEF UploadRecord
<1>3. v.todo \in Seq(Cells) /\ Len(v.todo) = Len(u.todo) - 1 /\ \A i \in 1 .. Len(v.todo) : v.todo[i] = u.todo[i + 1]
  BY <1>1, <1>2
<1>4. /\ v.rows \in Seq(RowResult) /\ Len(v.rows) = n + 1 /\ v.rows[n + 1] = row
      /\ \A i \in 1 .. n : v.rows[i] = u.rows[i]
  BY <1>1, <1>2
<1>5. v \in UploadRecord
  BY <1>1, <1>3, <1>4 DEF UploadRecord
<1> HIDE DEF v
<1>6. Accounted(cells, v.rows, more)
  <2>1. Accounted(cells, u.rows, more)
    BY StillAccounted DEF Running
  <2>2. \A i \in 1 .. n + 1 : i \in 1 .. n \/ i = n + 1
    BY <1>1
  <2>3. ASSUME NEW i \in 1 .. n, u.rows[i].is = "created", row.is = "created"
        PROVE  u.rows[i].id # row.id
    BY <2>3 DEF Running, OneToGo
  <2>4. \A i \in 1 .. n + 1 : v.rows[i].is = Fate(cells, i)
    BY <1>4, <2>1, <2>2 DEF Accounted
  <2>5. \A i \in 1 .. n + 1 : v.rows[i].is = "created" => v.rows[i].id \in more
    BY <1>4, <2>1, <2>2 DEF Accounted
  <2>6. ASSUME NEW i \in 1 .. n + 1, NEW j \in 1 .. n + 1,
               v.rows[i].is = "created", v.rows[j].is = "created", v.rows[i].id = v.rows[j].id
        PROVE  i = j
    <3>1. CASE i \in 1 .. n /\ j \in 1 .. n
      BY <1>4, <2>1, <2>6, <3>1 DEF Accounted
    <3>2. CASE i = n + 1 \/ j = n + 1
      BY <1>4, <2>2, <2>3, <2>6, <3>2
    <3> QED
      BY <2>2, <3>1, <3>2
  <2> QED
    BY <1>4, <2>4, <2>5, <2>6 DEF Accounted
<1>7. Len(cells) = Len(v.rows) + Len(v.todo)
  <2>1. n \in Nat /\ Len(v.rows) = n + 1 /\ Len(v.todo) = Len(u.todo) - 1
    BY <1>1, <1>3, <1>4
  <2>2. \A a, b \in Nat : a + b = (a + 1) + (b - 1)
    OBVIOUS
  <2> QED
    BY <1>a, <2>1, <2>2
<1>8. \A i \in 1 .. Len(v.todo) : v.todo[i] = cells[Len(v.rows) + i]
  <2> SUFFICES ASSUME NEW i \in 1 .. Len(v.todo)
               PROVE  v.todo[i] = cells[Len(v.rows) + i]
    OBVIOUS
  <2>1. i + 1 \in 1 .. Len(u.todo) /\ n + (i + 1) = (n + 1) + i
    <3>1. n \in Nat /\ Len(v.todo) = Len(u.todo) - 1
      BY <1>1, <1>3
    <3> HIDE DEF n
    <3> QED
      BY ONLY <1>a, <3>1
  <2>2. u.todo[i + 1] = cells[n + (i + 1)]
    BY <2>1 DEF Running
  <2> QED
    BY <1>3, <1>4, <2>1, <2>2
<1>9. Remembered(cells, n + 1, v)
  <2> SUFFICES ASSUME NEW s \in Subjects
               PROVE  s \in u.seen <=> \E i \in 1 .. n + 1 : cells[i] = s
    BY <1>2 DEF Remembered
  <2>1. s \in u.seen <=> (\E i \in 1 .. n : cells[i] = s) \/ (u.saved # None /\ cells[n + 1] = s)
    BY DEF Running, Remembered
  <2>2. \A i \in 1 .. n + 1 : i \in 1 .. n \/ i = n + 1
    BY <1>1
  <2>3. \A i \in 1 .. n : i \in 1 .. n + 1
    BY <1>1
  <2>4. n + 1 \in 1 .. n + 1
    BY <1>1
  <2> QED
    BY <2>1, <2>2, <2>3, <2>4
<1>10. Running(cells, v, more)
  BY <1>2, <1>4, <1>5, <1>6, <1>7, <1>8, <1>9 DEF Running
<1> QED
  BY <1>10 DEF v

\* The upload that has a cell left, and that cell.
LEMMA CellLeft ==
  ASSUME UploadInv, upload.todo # <<>>
  PROVE  /\ Running(Parse(upload.of), upload, Announced)
         /\ Cell = Parse(upload.of)[Len(upload.rows) + 1] /\ Cell \in Cells
         /\ upload.seen \subseteq Subjects /\ upload.saved \in Requests \cup {None}
<1>1. Running(Parse(upload.of), upload, Announced)
  BY DEF UploadInv, NoUpload
<1>2. upload \in UploadRecord
  BY <1>1 DEF Running
<1>3. upload.todo \in Seq(Cells)
  BY <1>2 DEF UploadRecord
<1>4. Head(upload.todo) = upload.todo[1] /\ 1 \in 1 .. Len(upload.todo) /\ upload.todo[1] \in Cells
  BY <1>3
<1> QED
  BY <1>1, <1>2, <1>4 DEF Cell, Running, UploadRecord

\* A step that makes the next row.
LEMMA RowMade ==
  ASSUME UploadInv, upload.todo # <<>>, NEW row \in RowResult, upload' = Processed(row),
         UNCHANGED db, published \subseteq published', orphans' = orphans, imported' = imported,
         UNCHANGED pageVars,
         published \cup {upload.saved} \subseteq published' \cup {None},
         row.is = Fate(Parse(upload.of), Len(upload.rows) + 1),
         Cell \in Subjects => Cell \in upload.seen,
         row.is = "created" => row.id = upload.saved /\ upload.saved # None
  PROVE  UploadInv'
<1>1. Announced \subseteq Announced'
  BY DEF Announced, Exists
<1>2. row.is = "created" => row.id \in Announced'
  BY RowsAssumption DEF UploadInv, Announced, Exists
<1>3. Running(Parse(upload.of), upload', Announced')
  BY <1>1, <1>2, CellLeft, NextRow DEF Processed
<1>4. upload'.of = upload.of /\ upload'.saved = None
  BY CellLeft DEF Processed, Running, UploadRecord
<1>5. uploadResult' = NoResult \/ Shown(uploadResult', Announced')
  BY <1>1, StillAccounted DEF UploadInv, Shown, pageVars
<1>6. imported' \subseteq Requests /\ imported' \subseteq published' \cup orphans' \cup {upload'.saved}
  BY <1>4, RowsAssumption DEF UploadInv
<1> QED
  BY <1>3, <1>4, <1>5, <1>6 DEF UploadInv, pageVars

LEMMA UploadSkips ==
  ASSUME UploadInv, SkipRow
  PROVE  UploadInv'
<1> DEFINE n == Len(upload.rows)
           c == Parse(upload.of)
<1>1. upload.todo # <<>> /\ upload.saved = None
  BY DEF SkipRow
<1>2. Running(c, upload, Announced) /\ Cell = c[n + 1] /\ upload.seen \subseteq Subjects /\ n \in Nat
  BY <1>1, CellLeft DEF Running, UploadRecord
<1>3. /\ published \cup {upload.saved} \subseteq published' \cup {None}
      /\ UNCHANGED <<db, pageVars, published, orphans, imported>>
  BY <1>1 DEF SkipRow
<1>4. CASE Cell \in {"", " "} /\ upload' = Processed([subject |-> None, is |-> "blank", id |-> None])
  <2>1. Fate(c, n + 1) = "blank" /\ Cell \notin Subjects
    BY <1>2, <1>4, IntakeAssumption DEF Fate
  <2>2. [subject |-> None, is |-> "blank", id |-> None] \in RowResult
    BY DEF RowResult
  <2> QED
    BY <1>1, <1>3, <1>4, <2>1, <2>2, RowMade
<1>5. CASE Cell \in upload.seen /\ upload' = Processed([subject |-> Cell, is |-> "duplicate", id |-> None])
  <2>1. Cell \in Subjects
    BY <1>2, <1>5
  <2>2. PICK i \in 1 .. n : c[i] = Cell
    BY <1>1, <1>2, <1>5, <2>1 DEF Running, Remembered
  <2>3. i \in 1 .. (n + 1) - 1
    BY <1>2
  <2>4. Fate(c, n + 1) = "duplicate"
    BY <1>2, <2>1, <2>2, <2>3 DEF Fate
  <2>5. [subject |-> Cell, is |-> "duplicate", id |-> None] \in RowResult
    BY <2>1 DEF RowResult
  <2> QED
    BY <1>1, <1>3, <1>5, <2>4, <2>5, RowMade
<1> QED
  BY <1>4, <1>5 DEF SkipRow

LEMMA UploadPublishes ==
  ASSUME UploadInv, PublishRow
  PROVE  UploadInv'
<1> DEFINE n == Len(upload.rows)
           c == Parse(upload.of)
<1>1. upload.saved # None /\ upload.saved \in Requests /\ published' = published \cup {upload.saved}
      /\ UNCHANGED <<db, pageVars, imported, orphans>>
  BY DEF PublishRow, UploadInv
<1>2. upload # NoUpload
  BY <1>1 DEF NoUpload
<1>3. Running(c, upload, Announced) /\ OneToGo(c, n, upload) /\ upload.todo # <<>>
  BY <1>1, <1>2 DEF UploadInv, Running, OneToGo
<1>4. Cell = c[n + 1] /\ n \in Nat
  BY <1>3, CellLeft DEF Running, UploadRecord
<1>5. Cell \in Subjects /\ Cell \in upload.seen
  BY <1>1, <1>3, <1>4 DEF OneToGo, Fate, Running, Remembered
<1>6. [subject |-> Cell, is |-> "created", id |-> upload.saved] \in RowResult
  BY <1>1, <1>5 DEF RowResult
<1>7. upload' = Processed([subject |-> Cell, is |-> "created", id |-> upload.saved])
  BY DEF PublishRow
<1>8. Fate(c, n + 1) = "created"
  BY <1>3 DEF OneToGo
<1> QED
  BY <1>1, <1>3, <1>5, <1>6, <1>7, <1>8, RowMade

LEMMA UploadSaves ==
  ASSUME UploadInv, RowsTyped, SaveRow
  PROVE  UploadInv'
<1> DEFINE n == Len(upload.rows)
           c == Parse(upload.of)
<1>1. /\ upload.todo # <<>> /\ upload.saved = None /\ Cell \in Subjects \ upload.seen
      /\ UNCHANGED <<pageVars, published, orphans>>
  BY DEF SaveRow
<1>2. PICK q \in Requests :
        /\ Created(q)
        /\ upload' = [upload EXCEPT !.saved = q, !.seen = @ \cup {Cell}]
        /\ imported' = imported \cup {q}
  BY DEF SaveRow
<1>3. q # None /\ ~Exists(q) /\ Exists(q)' /\ \A p \in Requests : Exists(p) => Exists(p)'
  <2>1. NewRow \in RequestRow /\ Absent \notin RequestRow
    BY RowsAreNotDone DEF NewRow, RequestRow, ShownStatus
  <2> QED
    BY <1>2, <2>1, RowsAssumption DEF Created, Exists, RowsTyped
<1>4. Announced \subseteq Announced' /\ q \notin Announced
  BY <1>1, <1>3 DEF Announced
<1>5. Running(c, upload, Announced) /\ Cell = c[n + 1] /\ n \in Nat /\ upload \in UploadRecord
  <2>1. Running(c, upload, Announced) /\ Cell = c[n + 1]
    BY <1>1, CellLeft
  <2>2. upload \in UploadRecord
    BY <2>1 DEF Running
  <2>3. n \in Nat
    BY <2>2 DEF UploadRecord
  <2> QED
    BY <2>1, <2>2, <2>3
<1>6. /\ upload'.of = upload.of /\ upload'.todo = upload.todo /\ upload'.rows = upload.rows
      /\ upload'.seen = upload.seen \cup {Cell} /\ upload'.saved = q
      /\ upload' \in UploadRecord
  BY <1>1, <1>2, <1>5 DEF UploadRecord
<1>7. Accounted(c, upload.rows, Announced')
  BY <1>4, <1>5, StillAccounted DEF Running
<1>8. Fate(c, n + 1) = "created"
  <2>1. \A i \in 1 .. n : c[i] # c[n + 1]
    BY <1>1, <1>5 DEF Running, Remembered
  <2>2. 1 .. (n + 1) - 1 = 1 .. n
    BY <1>5
  <2> QED
    BY <1>1, <1>5, <2>1, <2>2 DEF Fate
<1>9. \A i \in 1 .. n : upload.rows[i].is = "created" => upload.rows[i].id # q
  BY <1>4, <1>5 DEF Running, Accounted
<1>10. OneToGo(c, n, upload')
  BY <1>1, <1>6, <1>8, <1>9 DEF OneToGo
<1>11. Remembered(c, n, upload')
  BY <1>1, <1>3, <1>5, <1>6 DEF Running, Remembered
<1>12. Running(c, upload', Announced')
  BY <1>5, <1>6, <1>7, <1>10, <1>11 DEF Running
<1>13. uploadResult' = NoResult \/ Shown(uploadResult', Announced')
  BY <1>1, <1>4, StillAccounted DEF UploadInv, Shown, pageVars
<1>14. imported' \subseteq Requests /\ imported' \subseteq published' \cup orphans' \cup {upload'.saved}
  BY <1>1, <1>2, <1>6, RowsAssumption DEF UploadInv
<1> QED
  BY <1>1, <1>3, <1>6, <1>12, <1>13, <1>14 DEF UploadInv, pageVars

\* The other steps of an upload: it starts, is answered, or fails.
LEMMA UploadStarts ==
  ASSUME UploadInv, Upload
  PROVE  UploadInv'
<1>1. /\ selectedFile \in Files /\ upload = NoUpload
      /\ upload' = [NoUpload EXCEPT !.of = selectedFile, !.todo = Parse(selectedFile)]
      /\ uploadResult' = NoResult /\ UNCHANGED <<db, selectedFile, imported, published, orphans>>
  BY DEF Upload, UploadInv
<1> DEFINE c == Parse(selectedFile)
<1>2. c \in Seq(Cells)
  BY <1>1, ParsedCells
<1>3. /\ upload'.of = selectedFile /\ upload'.todo = c /\ upload'.seen = {} /\ upload'.rows = <<>>
      /\ upload'.saved = None
      /\ upload' \in UploadRecord
  <2>1. <<>> \in Seq(RowResult)
    OBVIOUS
  <2>2. upload' = [of |-> selectedFile, todo |-> c, seen |-> {}, rows |-> <<>>, saved |-> None]
    BY <1>1 DEF NoUpload
  <2>3. selectedFile \in Files /\ {} \in SUBSET Subjects /\ None \in Requests \cup {None}
    BY <1>1
  <2> HIDE DEF c
  <2>4. [of |-> selectedFile, todo |-> c, seen |-> {}, rows |-> <<>>, saved |-> None] \in UploadRecord
    BY <1>2, <2>1, <2>3 DEF UploadRecord
  <2> QED
    BY <2>2, <2>4
<1> HIDE DEF c
<1>4. Len(upload'.rows) = 0 /\ Len(c) = 0 + Len(c)
  BY <1>2, <1>3
<1>5. Accounted(c, upload'.rows, Announced')
  BY <1>3 DEF Accounted
<1>6. \A i \in 1 .. Len(upload'.todo) : upload'.todo[i] = c[0 + i]
  BY <1>3
<1>7. Remembered(c, 0, upload')
  BY <1>3 DEF Remembered
<1>8. Running(c, upload', Announced')
  BY <1>3, <1>4, <1>5, <1>6, <1>7 DEF Running
<1>9. imported' \subseteq Requests /\ imported' \subseteq published' \cup orphans' \cup {upload'.saved}
  BY <1>1, <1>3 DEF UploadInv, NoUpload
<1> QED
  BY <1>1, <1>3, <1>8, <1>9 DEF UploadInv, c

LEMMA UploadEnds ==
  ASSUME UploadInv, UploadFails \/ UploadAnswered
  PROVE  UploadInv'
<1>1. UNCHANGED <<db, selectedFile, imported, published>> /\ upload' = NoUpload
  BY DEF UploadFails, UploadAnswered
<1>2. NoUpload.saved = None /\ Announced' = Announced
  BY <1>1 DEF NoUpload, Announced, Exists
<1>3. CASE UploadFails
  <2>1. orphans' = orphans \cup ({upload.saved} \ {None}) /\ UNCHANGED uploadResult
    BY <1>3 DEF UploadFails
  <2>2. imported' \subseteq Requests /\ imported' \subseteq published' \cup orphans' \cup {upload'.saved}
    BY <1>1, <1>2, <2>1 DEF UploadInv
  <2> QED
    BY <1>1, <1>2, <2>1, <2>2 DEF UploadInv
<1>4. CASE UploadAnswered
  <2>1. /\ Running(Parse(upload.of), upload, Announced) /\ upload.todo = <<>>
        /\ uploadResult' = [of |-> upload.of, rows |-> upload.rows] /\ UNCHANGED orphans
    BY <1>4 DEF UploadAnswered, Uploading, UploadInv
  <2>2. upload.saved = None /\ upload.of \in Files /\ Len(upload.rows) \in Nat /\ Len(upload.todo) = 0
    BY <2>1 DEF Running, OneToGo, UploadRecord
  <2>3. Len(Parse(upload.of)) = Len(upload.rows)
    BY <2>1, <2>2 DEF Running
  <2>4. Shown(uploadResult', Announced')
    BY <1>2, <2>1, <2>2, <2>3 DEF Shown, Running
  <2>5. imported' \subseteq Requests /\ imported' \subseteq published' \cup orphans' \cup {upload'.saved}
    BY <1>1, <1>2, <2>1, <2>2 DEF UploadInv
  <2> QED
    BY <1>1, <1>2, <2>4, <2>5 DEF UploadInv
<1> QED
  BY <1>3, <1>4

LEMMA UploadStays ==
  ASSUME UploadInv, UNCHANGED <<db, upload, imported, published, orphans>>,
         selectedFile' \in Files \cup {None}, uploadResult' \in {NoResult, uploadResult}
  PROVE  UploadInv'
<1>1. Announced' = Announced
  BY DEF Announced, Exists
<1> QED
  BY <1>1 DEF UploadInv, Exists

LEMMA StepUpload ==
  ASSUME UploadInv, RowsTyped, IntakeNext
  PROVE  UploadInv'
<1>1. CASE UploadRun \/ Upload
  BY <1>1, UploadSkips, UploadPublishes, UploadSaves, UploadEnds, UploadStarts DEF UploadRun
<1>2. CASE ~(UploadRun \/ Upload)
  <2>1. /\ UNCHANGED <<db, upload, imported, published, orphans>>
        /\ selectedFile' \in Files \cup {None} /\ uploadResult' \in {NoResult, uploadResult}
    BY <1>2 DEF IntakeNext, ChooseFile, RefuseFile, Reset, pageVars, UploadInv
  <2> QED
    BY <2>1, UploadStays
<1> QED
  BY <1>1, <1>2

IntakeInv ==
  /\ UploadInv
  /\ page # "bulk" => upload = NoUpload /\ uploadResult = NoResult

LEMMA InitIntake == Init => IntakeInv
BY InitUpload DEF IntakeInv, Init, IntakeInit

LEMMA StepIntake ==
  ASSUME IntakeInv, RowsTyped, [Next]_vars
  PROVE  IntakeInv'
<1>1. CASE OnBulk /\ IntakeNext
  BY <1>1, StepUpload DEF OnBulk, IntakeInv
<1>2. CASE UNCHANGED vars
  <2>1. UNCHANGED <<db, page, upload, imported, published, orphans, selectedFile, uploadResult>>
    BY <1>2 DEF vars, intakeVars, pageVars
  <2> QED
    BY <2>1, UploadStays DEF IntakeInv, UploadInv
<1>3. CASE page # "bulk" /\ UNCHANGED <<page, intakeVars>>
  BY <1>3 DEF intakeVars, pageVars, IntakeInv, UploadInv, NoUpload
<1> QED
  BY <1>1, <1>2, <1>3 DEF Next, RowsProgress, RowsMove, OnSubmit, OnListing, OnUsers

\* A result accounts for every row of its file, with a request of its own for
\* the first row of each subject, and no request that was saved is forgotten,
\* for any files, requests and failures.
THEOREM UploadsAreAccounted == Spec => []UploadAccounted
<1>1. ASSUME UploadInv
      PROVE  UploadAccounted
  <2>1. ASSUME uploadResult # NoResult
        PROVE  LET cells == Parse(uploadResult.of)
                   First(i) == \A j \in 1 .. i - 1 : cells[j] # cells[i]
                   Is(i) == IF cells[i] \notin Subjects THEN "blank" ELSE IF First(i) THEN "created" ELSE "duplicate"
                   rows == uploadResult.rows
                   created_ == {i \in DOMAIN rows : rows[i].is = "created"}
               IN  /\ Len(rows) = Len(cells)
                   /\ \A i \in DOMAIN rows : rows[i].is = Is(i)
                   /\ \A i \in created_ : Exists(rows[i].id) /\ rows[i].id \in published
                   /\ \A i, j \in created_ : rows[i].id = rows[j].id => i = j
    <3>1. Shown(uploadResult, Announced)
      BY <1>1, <2>1 DEF UploadInv
    <3>2. DOMAIN uploadResult.rows = 1 .. Len(uploadResult.rows)
      BY <3>1 DEF Shown, Accounted
    <3> QED
      BY <3>1, <3>2 DEF Shown, Accounted, Announced, Fate
  <2> QED
    BY <1>1, <2>1 DEF UploadAccounted, UploadInv
<1> QED
  BY <1>1, InitRows, StepRows, InitIntake, StepIntake, PTL DEF Spec, IntakeInv

-----------------------------------------------------------------------------
(***************************************************************************)
(* A restore that has run alone so far has the stores before its stage     *)
(* whole, and the one it is filling whole up to the next user and empty    *)
(* from there on; the other pages are idle.                                *)
(***************************************************************************)
RestoreRecord ==
  [at : 0 .. 7, next : Users, alone : BOOLEAN, erased : SUBSET (Stores \X Users)]

\* r has left u once in store s, or a worker has erased it since r began.
OnceOrErased(r, s, u) == <<s, u>> \in r.erased \/ copies[s][u] = 1

\* The stages after which a store is whole.
WholeAfter == [users |-> 1, search |-> 3, analytics |-> 5, cache |-> 6]

Restoring(r) ==
  \A s \in Stores, u \in Users :
    /\ r.at > WholeAfter[s] => OnceOrErased(r, s, u)
    /\ r.at = WholeAfter[s] /\ r.at # 1 =>
         /\ u < r.next => OnceOrErased(r, s, u)
         /\ u >= r.next /\ s # "cache" => copies[s][u] = 0

DemoInv ==
  /\ copies \in [Stores -> [Users -> 0 .. 2]]
  /\ restore \in [Callers -> RestoreRecord]
  /\ \A t \in Callers :
       restore[t].at > 0 /\ restore[t].alone =>
         /\ \A v \in Callers \ {t} : restore[v].at = 0
         /\ Restoring(restore[t])

LEMMA UserNumbers ==
  /\ Users \subseteq Nat /\ 1 \in Users /\ LastUser \in Users
  /\ \A u \in Users : 1 <= u /\ u <= LastUser /\ (u # LastUser => u + 1 \in Users)
<1>1. PICK n \in Nat : Users = 1 .. n
  BY DemoAssumption, FS_CardinalityType
<1>2. n >= 1
  BY <1>1, DemoAssumption
<1>3. n \in Users /\ \A v \in Users : v <= n
  BY <1>1, <1>2
<1>4. LastUser \in Users /\ \A v \in Users : v <= LastUser
  BY <1>3 DEF LastUser
<1>5. LastUser = n
  BY <1>1, <1>3, <1>4
<1> QED
  BY <1>1, <1>2, <1>5

LEMMA StageNumbers ==
  ASSUME NEW t \in Callers, restore[t].at \in 0 .. 7
  PROVE  /\ At(t, "users") <=> restore[t].at = 1
         /\ At(t, "clear search") <=> restore[t].at = 2
         /\ At(t, "search") <=> restore[t].at = 3
         /\ At(t, "clear analytics") <=> restore[t].at = 4
         /\ At(t, "analytics") <=> restore[t].at = 5
         /\ At(t, "cache") <=> restore[t].at = 6
         /\ At(t, "list") <=> restore[t].at = 7
         /\ restore[t].at = 2 => Stages[restore[t].at + 1] = "search"
         /\ restore[t].at = 4 => Stages[restore[t].at + 1] = "analytics"
         /\ restore[t].at = 3 => Stages[restore[t].at] = "search"
         /\ restore[t].at = 5 => Stages[restore[t].at] = "analytics"
<1>1. CASE restore[t].at = 0
  BY <1>1 DEF At, Stages
<1>2. CASE restore[t].at = 1
  BY <1>2 DEF At, Stages
<1>3. CASE restore[t].at = 2
  BY <1>3 DEF At, Stages
<1>4. CASE restore[t].at = 3
  BY <1>4 DEF At, Stages
<1>5. CASE restore[t].at = 4
  BY <1>5 DEF At, Stages
<1>6. CASE restore[t].at = 5
  BY <1>6 DEF At, Stages
<1>7. CASE restore[t].at = 6
  BY <1>7 DEF At, Stages
<1>8. CASE restore[t].at = 7
  BY <1>8 DEF At, Stages
<1>9. restore[t].at \in {0, 1, 2, 3, 4, 5, 6, 7}
  OBVIOUS
<1> QED
  BY <1>1, <1>2, <1>3, <1>4, <1>5, <1>6, <1>7, <1>8, <1>9

LEMMA InitDemo == Init => DemoInv
<1> SUFFICES ASSUME Init
             PROVE  DemoInv
  OBVIOUS
<1> USE DEF Init, DemoInit
<1>1. Idle \in RestoreRecord /\ Idle.at = 0
  BY UserNumbers DEF Idle, RestoreRecord
<1> QED
  BY <1>1 DEF DemoInv

\* What a page's own step has to keep: the others are idle or not alone.
LEMMA OwnStep ==
  ASSUME DemoInv, NEW t \in Callers, restore[t].at > 0,
         NEW r \in RestoreRecord, restore' = [restore EXCEPT ![t] = r],
         copies' \in [Stores -> [Users -> 0 .. 2]],
         r.at > 0 /\ r.alone => restore[t].alone /\ Restoring(r)'
  PROVE  DemoInv'
<1>1. restore' \in [Callers -> RestoreRecord] /\ restore'[t] = r
      /\ \A v \in Callers \ {t} : restore'[v] = restore[v]
  BY DEF DemoInv
<1>2. ASSUME NEW v \in Callers, restore'[v].at > 0, restore'[v].alone
      PROVE  /\ \A w \in Callers \ {v} : restore'[w].at = 0
             /\ Restoring(restore[v])'
  <2>1. v = t
    BY <1>1, <1>2 DEF DemoInv
  <2> QED
    BY <1>1, <1>2, <2>1 DEF DemoInv, Restoring, OnceOrErased
<1> QED
  BY <1>1, <1>2 DEF DemoInv, Restoring, OnceOrErased

LEMMA DemoErase == DemoInv /\ Erase => DemoInv'
<1> SUFFICES ASSUME DemoInv, Erase
             PROVE  DemoInv'
  OBVIOUS
<1>1. PICK s \in Stores, u \in Users :
        /\ copies' = [copies EXCEPT ![s][u] = 0]
        /\ restore' = [t \in Callers |->
             IF restore[t].at = 0 THEN Idle ELSE [restore[t] EXCEPT !.erased = @ \cup {<<s, u>>}]]
  BY DEF Erase
<1>2. copies' \in [Stores -> [Users -> 0 .. 2]] /\ copies'[s][u] = 0
      /\ \A s2 \in Stores, u2 \in Users : <<s2, u2>> # <<s, u>> => copies'[s2][u2] = copies[s2][u2]
  BY <1>1 DEF DemoInv
<1>3. Idle \in RestoreRecord /\ Idle.at = 0
  BY UserNumbers DEF Idle, RestoreRecord
<1>4. ASSUME NEW t \in Callers
      PROVE  /\ restore'[t] \in RestoreRecord
             /\ restore[t].at = 0 => restore'[t].at = 0
             /\ restore[t].at # 0 =>
                  /\ restore'[t].at = restore[t].at /\ restore'[t].next = restore[t].next
                  /\ restore'[t].alone = restore[t].alone
                  /\ restore'[t].erased = restore[t].erased \cup {<<s, u>>}
  <2>1. restore[t] \in RestoreRecord
    BY DEF DemoInv
  <2>2. CASE restore[t].at = 0
    BY <1>1, <1>3, <2>2
  <2>3. CASE restore[t].at # 0
    <3>1. restore'[t] = [restore[t] EXCEPT !.erased = @ \cup {<<s, u>>}]
      BY <1>1, <2>3
    <3> QED
      BY <2>1, <2>3, <3>1 DEF RestoreRecord
  <2> QED
    BY <2>2, <2>3
<1>5. restore' \in [Callers -> RestoreRecord]
  BY <1>1, <1>4
<1>6. ASSUME NEW t \in Callers, restore'[t].at > 0, restore'[t].alone
      PROVE  /\ \A v \in Callers \ {t} : restore'[v].at = 0
             /\ Restoring(restore[t])'
  <2>1. restore[t].at > 0 /\ restore[t].alone /\ restore[t].at # 0
    BY <1>4, <1>6 DEF DemoInv, RestoreRecord
  <2>2. Restoring(restore[t]) /\ \A v \in Callers \ {t} : restore[v].at = 0
    BY <2>1 DEF DemoInv
  <2>3. \A v \in Callers \ {t} : restore'[v].at = 0
    BY <1>4, <2>2
  <2>4. /\ restore'[t].at = restore[t].at /\ restore'[t].next = restore[t].next
        /\ restore'[t].erased = restore[t].erased \cup {<<s, u>>}
    BY <1>4, <2>1
  <2>5. \A s2 \in Stores, u2 \in Users :
          /\ OnceOrErased(restore[t], s2, u2) => OnceOrErased(restore[t], s2, u2)'
          /\ copies[s2][u2] = 0 => copies'[s2][u2] = 0
    BY <1>2, <2>4 DEF OnceOrErased
  <2>6. Restoring(restore[t])'
    BY <2>2, <2>4, <2>5 DEF Restoring
  <2> QED
    BY <2>3, <2>6
<1> QED
  BY <1>2, <1>5, <1>6 DEF DemoInv

LEMMA DemoRestore ==
  ASSUME DemoInv, NEW t \in Callers, Restore(t)
  PROVE  DemoInv'
<1> DEFINE others == {v \in Callers \ {t} : restore[v].at > 0}
<1>1. /\ restore' = [v \in Callers |->
           IF v = t THEN [Idle EXCEPT !.at = 1, !.alone = (others = {})]
           ELSE IF v \in others THEN [restore[v] EXCEPT !.alone = FALSE]
           ELSE restore[v]]
      /\ UNCHANGED copies
  BY DEF Restore
<1> DEFINE first == [Idle EXCEPT !.at = 1, !.alone = (others = {})]
<1>2. first \in RestoreRecord /\ first.at = 1 /\ (first.alone <=> others = {})
  <2>1. Idle \in RestoreRecord
    BY UserNumbers DEF Idle, RestoreRecord
  <2> HIDE DEF others
  <2>2. ASSUME NEW b \in BOOLEAN
        PROVE  LET f == [Idle EXCEPT !.at = 1, !.alone = b]
               IN  f \in RestoreRecord /\ f.at = 1 /\ f.alone = b
    <3>1. 1 \in 0 .. 7
      OBVIOUS
    <3> QED
      BY <2>1, <3>1 DEF RestoreRecord
  <2>3. CASE others = {}
    <3>1. first = [Idle EXCEPT !.at = 1, !.alone = TRUE]
      BY <2>3
    <3> HIDE DEF first
    <3> QED
      BY <2>2, <2>3, <3>1
  <2>4. CASE others # {}
    <3>1. first = [Idle EXCEPT !.at = 1, !.alone = FALSE]
      BY <2>4
    <3> HIDE DEF first
    <3> QED
      BY <2>2, <2>4, <3>1
  <2> QED
    BY <2>3, <2>4
<1>3. restore'[t] = first
  BY <1>1
<1>4. ASSUME NEW v \in Callers \ {t}
      PROVE  /\ restore'[v] \in RestoreRecord /\ restore'[v].at = restore[v].at
             /\ v \in others => ~restore'[v].alone
             /\ v \notin others => restore'[v] = restore[v]
  <2>1. restore[v] \in RestoreRecord
    BY DEF DemoInv
  <2>2. restore'[v] = IF v \in others THEN [restore[v] EXCEPT !.alone = FALSE] ELSE restore[v]
    BY <1>1
  <2> HIDE DEF others
  <2> QED
    BY <2>1, <2>2 DEF RestoreRecord
<1> HIDE DEF first
<1>5. restore' \in [Callers -> RestoreRecord]
  BY <1>1, <1>2, <1>3, <1>4
<1>6. ASSUME NEW v \in Callers, restore'[v].at > 0, restore'[v].alone
      PROVE  /\ \A w \in Callers \ {v} : restore'[w].at = 0
             /\ Restoring(restore[v])'
  <2>1. v = t
    BY <1>4, <1>6
  <2>2. restore'[t].at = 1 /\ others = {}
    BY <1>2, <1>3, <1>6, <2>1
  <2>3. \A w \in Callers \ {t} : restore'[w].at = 0
    <3>1. \A w \in Callers \ {t} : restore[w].at \in 0 .. 7
      BY DEF DemoInv, RestoreRecord
    <3> QED
      BY <1>4, <2>2, <3>1
  <2>4. \A s \in Stores : WholeAfter[s] \in {1, 3, 5, 6}
    BY DEF Stores, WholeAfter
  <2>5. Restoring(restore[t])'
    BY <2>2, <2>4 DEF Restoring
  <2> QED
    BY <2>1, <2>3, <2>5
<1> QED
  BY <1>1, <1>5, <1>6 DEF DemoInv

\* A stage ends, and the next one starts with the first user.
LEMMA StageEnds ==
  ASSUME DemoInv, NEW t \in Callers, restore[t].at \in 1 .. 6, NextStage(t)
  PROVE  \E r \in RestoreRecord :
           /\ restore' = [restore EXCEPT ![t] = r]
           /\ r.at = restore[t].at + 1 /\ r.next = 1
           /\ (r.alone => restore[t].alone) /\ r.erased = restore[t].erased
<1> DEFINE r == [restore[t] EXCEPT !.at = @ + 1, !.next = 1]
<1>1. restore[t] \in RestoreRecord
  BY DEF DemoInv
<1>2. restore' = [restore EXCEPT ![t] = r]
  BY DEF NextStage
<1>3. restore[t].at + 1 \in 0 .. 7
  OBVIOUS
<1>4. r \in RestoreRecord
  BY <1>1, <1>3, UserNumbers DEF RestoreRecord
<1>5. r.at = restore[t].at + 1 /\ r.next = 1 /\ r.erased = restore[t].erased
  BY <1>1 DEF RestoreRecord
<1>6. r.alone => restore[t].alone
  BY <1>1 DEF RestoreRecord
<1> HIDE DEF r
<1> QED
  BY <1>2, <1>4, <1>5, <1>6

\* A user is done: the next one, or the next stage.
LEMMA UserEnds ==
  ASSUME DemoInv, NEW t \in Callers, restore[t].at \in 1 .. 6, NextUser(t)
  PROVE  \E r \in RestoreRecord :
           /\ restore' = [restore EXCEPT ![t] = r]
           /\ IF restore[t].next = LastUser THEN r.at = restore[t].at + 1 /\ r.next = 1
              ELSE r.at = restore[t].at /\ r.next = restore[t].next + 1
           /\ (r.alone => restore[t].alone) /\ r.erased = restore[t].erased
<1>1. CASE restore[t].next = LastUser
  BY <1>1, StageEnds DEF NextUser
<1>2. CASE restore[t].next # LastUser
  <2> DEFINE r == [restore[t] EXCEPT !.next = @ + 1]
  <2>1. restore[t] \in RestoreRecord
    BY DEF DemoInv
  <2>2. restore' = [restore EXCEPT ![t] = r]
    BY <1>2 DEF NextUser
  <2>3. restore[t].next + 1 \in Users
    BY <1>2, <2>1, UserNumbers DEF RestoreRecord
  <2>4. r \in RestoreRecord /\ r.at = restore[t].at /\ r.next = restore[t].next + 1
        /\ (r.alone => restore[t].alone) /\ r.erased = restore[t].erased
    BY <2>1, <2>3 DEF RestoreRecord
  <2> HIDE DEF r
  <2> QED
    BY <1>2, <2>2, <2>4
<1> QED
  BY <1>1, <1>2

LEMMA DemoUpsert ==
  ASSUME DemoInv, NEW t \in Callers, UpsertUsers(t)
  PROVE  DemoInv'
<1>1. restore[t] \in RestoreRecord /\ restore[t].at = 1
  BY StageNumbers DEF DemoInv, RestoreRecord, UpsertUsers
<1>2. PICK r \in RestoreRecord :
        /\ restore' = [restore EXCEPT ![t] = r]
        /\ r.at = 2
        /\ r.alone => restore[t].alone
  BY <1>1, StageEnds DEF UpsertUsers
<1>3. copies' \in [Stores -> [Users -> 0 .. 2]] /\ \A u \in Users : copies'["users"][u] = 1
  BY DEF UpsertUsers, DemoInv, Stores
<1>4. Restoring(r)'
  BY <1>2, <1>3 DEF Restoring, OnceOrErased, Stores, WholeAfter
<1>5. restore[t].at > 0
  BY <1>1
<1>6. r.at > 0 /\ r.alone => restore[t].alone /\ Restoring(r)'
  BY <1>2, <1>4
<1> QED
  BY <1>2, <1>3, <1>5, <1>6, OwnStep

LEMMA DemoClear ==
  ASSUME DemoInv, NEW t \in Callers, ClearRows(t)
  PROVE  DemoInv'
<1>1. restore[t] \in RestoreRecord /\ restore[t].at \in {2, 4}
  BY StageNumbers DEF DemoInv, RestoreRecord, ClearRows
<1>2. PICK r \in RestoreRecord :
        /\ restore' = [restore EXCEPT ![t] = r]
        /\ r.at = restore[t].at + 1 /\ r.next = 1
        /\ r.alone => restore[t].alone
        /\ r.erased = restore[t].erased
  <2>1. NextStage(t)
    BY DEF ClearRows
  <2>2. restore[t].at \in 1 .. 6
    BY <1>1
  <2> QED
    BY <2>1, <2>2, StageEnds
<1>3. PICK cleared \in {"search", "analytics"} :
        /\ copies' = [copies EXCEPT ![cleared] = [u \in Users |-> 0]]
        /\ cleared = IF restore[t].at = 2 THEN "search" ELSE "analytics"
  <2>1. copies' = [copies EXCEPT ![Stages[restore[t].at + 1]] = [u \in Users |-> 0]]
    BY DEF ClearRows
  <2>2. CASE restore[t].at = 2
    BY <2>1, <2>2 DEF Stages
  <2>3. CASE restore[t].at = 4
    BY <2>1, <2>3 DEF Stages
  <2> QED
    BY <1>1, <2>2, <2>3
<1>4. /\ copies' \in [Stores -> [Users -> 0 .. 2]] /\ \A u \in Users : copies'[cleared][u] = 0
      /\ \A s \in Stores \ {cleared} : copies'[s] = copies[s]
  <2>1. [u \in Users |-> 0] \in [Users -> 0 .. 2]
    OBVIOUS
  <2> QED
    BY <1>3, <2>1 DEF DemoInv, Stores
<1>5. r.alone => Restoring(r)'
  <2> SUFFICES ASSUME r.alone, NEW s \in Stores, NEW u \in Users
               PROVE  /\ r.at > WholeAfter[s] => OnceOrErased(r, s, u)'
                      /\ r.at = WholeAfter[s] /\ r.at # 1 =>
                           /\ u < r.next => OnceOrErased(r, s, u)'
                           /\ u >= r.next /\ s # "cache" => copies'[s][u] = 0
    BY DEF Restoring
  <2>1. /\ r.at \in {3, 5} /\ r.at = restore[t].at + 1
        /\ restore[t].at > WholeAfter[s] => OnceOrErased(restore[t], s, u)
    BY <1>1, <1>2 DEF DemoInv, Restoring
  <2>2. ~(u < 1)
    BY UserNumbers
  <2>3. WholeAfter[s] = r.at => s = cleared
    BY <1>1, <1>3, <2>1 DEF WholeAfter, Stores
  <2>4. r.at > WholeAfter[s] => restore[t].at > WholeAfter[s] /\ s # cleared
    BY <1>1, <1>3, <2>1 DEF WholeAfter, Stores
  <2> QED
    BY <1>2, <1>4, <2>1, <2>2, <2>3, <2>4 DEF OnceOrErased
<1>6. restore[t].at > 0
  BY <1>1
<1>7. r.at > 0 /\ r.alone => restore[t].alone /\ Restoring(r)'
  BY <1>2, <1>5
<1> QED
  BY <1>2, <1>4, <1>6, <1>7, OwnStep

\* An insertion or a cache write finds the user's copy gone and makes it one;
\* the users before stay as they are.
LEMMA DemoFills ==
  ASSUME DemoInv, NEW t \in Callers, InsertRow(t) \/ SetCacheKeys(t)
  PROVE  DemoInv'
<1>1. restore[t] \in RestoreRecord /\ restore[t].at \in {3, 5, 6}
  BY StageNumbers DEF DemoInv, RestoreRecord, InsertRow, SetCacheKeys
<1> DEFINE n == restore[t].next
<1>2. n \in Users /\ restore[t].at \in 1 .. 6 /\ restore[t].at > 0
  BY <1>1 DEF RestoreRecord
<1>3. PICK r \in RestoreRecord :
        /\ restore' = [restore EXCEPT ![t] = r]
        /\ IF n = LastUser THEN r.at = restore[t].at + 1 /\ r.next = 1
           ELSE r.at = restore[t].at /\ r.next = n + 1
        /\ r.alone => restore[t].alone
        /\ r.erased = restore[t].erased
  <2>1. NextUser(t)
    BY DEF InsertRow, SetCacheKeys
  <2> QED
    BY <1>2, <2>1, UserEnds
<1>4. PICK filled \in Stores :
        /\ WholeAfter[filled] = restore[t].at
        /\ copies' = [copies EXCEPT ![filled][n] = IF filled = "cache" THEN 1 ELSE Twice(@)]
  <2>1. CASE restore[t].at = 3
    <3>1. ~SetCacheKeys(t) /\ Stages[restore[t].at] = "search"
      BY <2>1 DEF SetCacheKeys, At, Stages
    <3>2. InsertRow(t)
      BY <3>1
    <3>3. copies' = [copies EXCEPT ![Stages[restore[t].at]][n] = Twice(@)]
      BY <3>2 DEF InsertRow
    <3>4. copies' = [copies EXCEPT !["search"][n] = Twice(@)]
      BY <3>1, <3>3
    <3> QED
      BY <2>1, <3>4 DEF WholeAfter, Stores
  <2>2. CASE restore[t].at = 5
    <3>1. ~SetCacheKeys(t) /\ Stages[restore[t].at] = "analytics"
      BY <2>2 DEF SetCacheKeys, At, Stages
    <3>2. InsertRow(t)
      BY <3>1
    <3>3. copies' = [copies EXCEPT ![Stages[restore[t].at]][n] = Twice(@)]
      BY <3>2 DEF InsertRow
    <3>4. copies' = [copies EXCEPT !["analytics"][n] = Twice(@)]
      BY <3>1, <3>3
    <3> QED
      BY <2>2, <3>4 DEF WholeAfter, Stores
  <2>3. CASE restore[t].at = 6
    <3>1. ~InsertRow(t)
      BY <2>3 DEF InsertRow, At, Stages
    <3>2. copies' = [copies EXCEPT !["cache"][n] = 1]
      BY <3>1 DEF SetCacheKeys
    <3> QED
      BY <2>3, <3>2 DEF WholeAfter, Stores
  <2> QED
    BY <1>1, <2>1, <2>2, <2>3
<1>5. copies[filled] \in [Users -> 0 .. 2] /\ copies[filled][n] \in 0 .. 2
  BY <1>2 DEF DemoInv
<1>6. (IF filled = "cache" THEN 1 ELSE Twice(copies[filled][n])) \in 0 .. 2
  BY <1>5 DEF Twice
<1>7. /\ copies' \in [Stores -> [Users -> 0 .. 2]]
      /\ copies'[filled][n] = IF filled = "cache" THEN 1 ELSE Twice(copies[filled][n])
      /\ \A s \in Stores, u \in Users : s # filled \/ u # n => copies'[s][u] = copies[s][u]
  BY <1>2, <1>4, <1>5, <1>6 DEF DemoInv
<1>8. r.alone => Restoring(r)'
  <2> SUFFICES ASSUME r.alone, NEW s \in Stores, NEW u \in Users
               PROVE  /\ r.at > WholeAfter[s] => OnceOrErased(r, s, u)'
                      /\ r.at = WholeAfter[s] /\ r.at # 1 =>
                           /\ u < r.next => OnceOrErased(r, s, u)'
                           /\ u >= r.next /\ s # "cache" => copies'[s][u] = 0
    BY DEF Restoring
  <2> HIDE DEF n
  <2>1. /\ restore[t].at > WholeAfter[s] => OnceOrErased(restore[t], s, u)
        /\ restore[t].at = WholeAfter[s] =>
             /\ u < n => OnceOrErased(restore[t], s, u)
             /\ u >= n /\ s # "cache" => copies[s][u] = 0
    <3>1. Restoring(restore[t])
      BY <1>2, <1>3 DEF DemoInv
    <3> QED
      BY <1>1, <3>1 DEF Restoring, n
  <2>2. /\ restore[t].at \in {3, 5, 6} /\ WholeAfter[s] \in {1, 3, 5, 6}
        /\ WholeAfter[s] = WholeAfter[filled] => s = filled
    BY <1>1 DEF Stores, WholeAfter
  <2>3. n \in Nat /\ u \in Nat /\ 1 <= u /\ u <= LastUser /\ LastUser \in Nat
    BY <1>2, UserNumbers
  <2>4. s = filled /\ u = n => OnceOrErased(r, s, u)'
    <3>1. s = filled /\ u = n /\ filled # "cache" => copies[s][u] = 0
      BY <1>4, <2>1, <2>3
    <3> QED
      BY <1>7, <3>1 DEF OnceOrErased, Twice
  <2>5. s # filled \/ u # n => copies'[s][u] = copies[s][u]
    BY <1>7
  <2>6. (s # filled \/ u # n) /\ OnceOrErased(restore[t], s, u) => OnceOrErased(r, s, u)'
    BY <1>3, <2>5 DEF OnceOrErased
  <2>7. CASE s = filled
    <3>1. u < n => OnceOrErased(r, s, u)'
      BY <1>4, <2>1, <2>3, <2>6, <2>7
    <3>2. u > n /\ s # "cache" => copies'[s][u] = 0
      BY <1>4, <2>1, <2>3, <2>5, <2>7
    <3>3. CASE n = LastUser
      BY <1>3, <1>4, <2>2, <2>3, <2>4, <2>7, <3>1, <3>3
    <3>4. CASE n # LastUser
      BY <1>3, <1>4, <2>2, <2>3, <2>4, <2>7, <3>1, <3>2, <3>4
    <3> QED
      BY <3>3, <3>4
  <2>8. CASE s # filled
    <3>1. WholeAfter[s] # restore[t].at
      BY <1>4, <2>2, <2>8
    <3>2. restore[t].at > WholeAfter[s] => OnceOrErased(r, s, u)'
      BY <2>1, <2>6, <2>8
    <3>3. r.at > WholeAfter[s] => restore[t].at > WholeAfter[s]
      BY <1>3, <2>2, <3>1
    <3>4. r.at = WholeAfter[s] => r.next = 1
      BY <1>3, <3>1
    <3>5. r.at = WholeAfter[s] /\ r.at # 1 /\ s # "cache" => copies'[s][u] = 0
      <4> SUFFICES ASSUME r.at = WholeAfter[s], r.at # 1, s # "cache"
                   PROVE  FALSE
        OBVIOUS
      <4>1. r.at \in {3, 5}
        BY <2>2 DEF Stores, WholeAfter
      <4>2. r.at = restore[t].at + 1
        BY <1>3, <3>1
      <4> QED
        BY <2>2, <4>1, <4>2
    <3> QED
      BY <2>3, <3>2, <3>3, <3>4, <3>5
  <2> QED
    BY <2>7, <2>8
<1>9. r.at > 0 /\ r.alone => restore[t].alone /\ Restoring(r)'
  BY <1>3, <1>8
<1> HIDE DEF n
<1> QED
  BY <1>2, <1>3, <1>7, <1>9, OwnStep

\* The answer, or a failure: the page is idle again.
LEMMA DemoLets ==
  ASSUME DemoInv, NEW t \in Callers, Restored(t) \/ RestoreFails(t)
  PROVE  DemoInv'
<1>1. Idle \in RestoreRecord /\ Idle.at = 0
  BY UserNumbers DEF Idle, RestoreRecord
<1>2. restore[t].at > 0
  BY DEF Restored, RestoreFails, At
<1>3. restore' = [restore EXCEPT ![t] = Idle] /\ copies' = copies
  BY DEF Restored, RestoreFails
<1>4. copies' \in [Stores -> [Users -> 0 .. 2]] /\ ~(Idle.at > 0)
  BY <1>1, <1>3 DEF DemoInv
<1> QED
  BY <1>1, <1>2, <1>3, <1>4, OwnStep

LEMMA StepDemo ==
  ASSUME DemoInv, [Next]_vars
  PROVE  DemoInv'
<1>1. CASE DemoNext
  BY <1>1, DemoErase, DemoRestore, DemoUpsert, DemoClear, DemoFills, DemoLets DEF DemoNext, RestoreRuns
<1>2. CASE UNCHANGED demoVars
  BY <1>2 DEF demoVars, DemoInv, Restoring, OnceOrErased
<1> QED
  BY <1>1, <1>2 DEF Next, RowsProgress, RowsMove, OnSubmit, OnListing, OnBulk, OnUsers, vars

\* A restore that answers and ran alone has left every user exactly once in
\* every store, unless a worker has erased the user there meanwhile, whatever
\* earlier restores have left behind.
THEOREM RestoreIsWhole == Spec => []RestoredWhole
<1>1. DemoInv => RestoredWhole
  <2> SUFFICES ASSUME DemoInv, NEW t \in Callers, At(t, "list"), restore[t].alone,
                      NEW s \in Stores, NEW u \in Users
               PROVE  <<s, u>> \in restore[t].erased \/ copies[s][u] = 1
    BY DEF RestoredWhole
  <2>1. restore[t].at = 7
    BY StageNumbers DEF DemoInv, RestoreRecord
  <2>2. Restoring(restore[t])
    BY <2>1 DEF DemoInv
  <2>3. restore[t].at > WholeAfter[s]
    BY <2>1 DEF Stores, WholeAfter
  <2> QED
    BY <2>2, <2>3 DEF Restoring, OnceOrErased
<1> QED
  BY <1>1, InitDemo, StepDemo, PTL DEF Spec

-----------------------------------------------------------------------------
(***************************************************************************)
(* The types of all pages together.                                        *)
(***************************************************************************)
LiveTyped ==
  /\ liveStatus \in ShownStatus \cup {None}
  /\ liveSteps \in {"open", "settled", None}
  /\ processing \in BOOLEAN /\ finished \in BOOLEAN /\ streamError \in BOOLEAN
  /\ finalStatus \in {"COMPLETED", "FAILED", None}

PageInv ==
  /\ page \in Pages
  /\ page # "submit" => posting = None /\ \A q \in Requests : stream[q] = NoStream
  /\ LiveTyped
  /\ erasures \in 0 .. MaxErasures

LEMMA InitPage == Init => PageInv
<1> SUFFICES ASSUME Init
             PROVE  PageInv
  OBVIOUS
<1>1. 0 \in 0 .. MaxErasures
  BY DemoAssumption
<1>2. LiveTyped
  BY DEF Init, SubmitInit, LiveTyped
<1> QED
  BY <1>1, <1>2 DEF Init, SubmitInit, DemoInit, PageInv

\* What arrives on the wire is shown as it is.
LEMMA ShownTyped ==
  ASSUME FollowInv, LiveTyped, NEW q \in Requests, OnMessage(q) \/ OnDone(q)
  PROVE  LiveTyped'
<1> DEFINE event == Head(stream[q].wire)
<1>1. event \in Row \cup DoneEvent
  <2>1. stream[q] \in StreamRecord
    BY DEF FollowInv
  <2>2. stream[q].wire \in Seq(Row \cup DoneEvent) /\ stream[q].wire # <<>>
    BY <2>1 DEF StreamRecord, OnMessage, OnDone, Incoming
  <2> QED
    BY <2>2
<1>2. CASE OnMessage(q)
  <2>1. event \in Row /\ liveStatus' = event.st /\ liveSteps' = event.steps
        /\ UNCHANGED <<processing, finished, streamError, finalStatus>>
    BY <1>2 DEF OnMessage
  <2>2. event.st \in ShownStatus /\ event.steps \in {"open", "settled"}
    BY <2>1 DEF Row
  <2> QED
    BY <2>1, <2>2 DEF LiveTyped
<1>3. CASE OnDone(q)
  <2>1. event \notin Row /\ finalStatus' = event.done /\ streamError' \in BOOLEAN
        /\ finished' = TRUE /\ processing' = FALSE /\ UNCHANGED <<liveStatus, liveSteps>>
    BY <1>3 DEF OnDone
  <2>2. event.done \in {"COMPLETED", "FAILED"}
    BY <1>1, <2>1 DEF DoneEvent
  <2> QED
    BY <2>1, <2>2 DEF LiveTyped
<1> QED
  BY <1>2, <1>3

LEMMA LiveStep ==
  ASSUME FollowInv, LiveTyped, SubmitNext
  PROVE  LiveTyped'
<1>1. CASE SubmitRequest
  BY <1>1 DEF SubmitRequest, LiveTyped
<1>2. CASE CreateAnswered
  BY <1>2 DEF CreateAnswered, LiveTyped
<1>3. CASE CreateRefused \/ \E q \in Requests : ServerCreates(q) \/ TickReads(q) \/ TickAnswered(q)
  <2>1. UNCHANGED live
    BY <1>3 DEF CreateRefused, ServerCreates, TickReads, TickAnswered
  <2> QED
    BY <2>1 DEF live, LiveTyped
<1>4. CASE \E q \in Requests : StreamBreaks(q)
  BY <1>4 DEF StreamBreaks, LiveTyped
<1>5. CASE \E q \in Requests : OnMessage(q) \/ OnDone(q)
  BY <1>5, ShownTyped
<1> QED
  BY <1>1, <1>2, <1>3, <1>4, <1>5 DEF SubmitNext, StreamRun

LEMMA StepPage ==
  ASSUME PageInv, SubmitInv, [Next]_vars
  PROVE  PageInv'
<1>1. CASE OnSubmit /\ SubmitNext
  BY <1>1, LiveStep DEF OnSubmit, demoVars, PageInv, SubmitInv
<1>2. CASE UNCHANGED <<page, submitVars, erasures>>
  BY <1>2 DEF submitVars, live, PageInv, LiveTyped
<1>3. CASE OnUsers /\ DemoNext
  <2>1. UNCHANGED <<page, submitVars>>
    BY <1>3 DEF OnUsers
  <2>2. erasures' \in 0 .. MaxErasures
    <3>1. CASE Erase
      BY <3>1, DemoAssumption DEF Erase, PageInv
    <3>2. CASE UNCHANGED erasures
      BY <3>2 DEF PageInv
    <3> QED
      BY <1>3, <3>1, <3>2 DEF DemoNext, Restore, RestoreRuns, RestoreFails, UpsertUsers, ClearRows, InsertRow,
                              SetCacheKeys, Restored
  <2> QED
    BY <2>1, <2>2 DEF submitVars, live, PageInv, LiveTyped
<1> QED
  BY <1>1, <1>2, <1>3 DEF Next, vars, RowsProgress, RowsMove, OnSubmit, OnListing, OnBulk, demoVars

\* Every page keeps the types of its state, and the open stream is that of the
\* created request.
THEOREM ConsoleTypes == Spec => []ConsoleTypeOK
<1> DEFINE IInv == SubmitInv /\ PageInv /\ RowsTyped /\ ListInv /\ PanelInv /\ IntakeInv /\ DemoInv
<1>1. Init => IInv
  BY InitSubmit, InitPage, InitRows, InitHome, InitIntake, InitDemo
<1>2. IInv /\ [Next]_vars => IInv'
  BY StepSubmit, StepPage, StepRows, StepHome, StepIntake, StepDemo
<1>3. IInv => ConsoleTypeOK
  <2> SUFFICES ASSUME IInv
               PROVE  ConsoleTypeOK
    OBVIOUS
  <2>1. SubmitTypeOK
    <3>1. posting \in Requests \cup {None, Posted} /\ created \in Requests \cup {None}
      BY DEF SubmitInv, FollowInv, PageInv
    <3>2. ASSUME NEW q \in Requests
          PROVE  /\ stream[q].phase \in {"off", "first", "ticking", "ended"}
                 /\ stream[q].last \in Row \cup {NoRead}
                 /\ stream[q].reads \subseteq Row
                 /\ stream[q].open => q = created
      <4>1. CASE stream[q] = NoStream
        BY <4>1 DEF NoStream
      <4>2. CASE stream[q] # NoStream
        <5>1. stream[q] \in StreamRecord /\ q = created
          BY <4>2 DEF SubmitInv, PageInv, FollowInv, Streaming
        <5> QED
          BY <5>1 DEF StreamRecord
      <4> QED
        BY <4>1, <4>2
    <3> QED
      BY <3>1, <3>2 DEF SubmitTypeOK, RowsTyped, PageInv, LiveTyped
  <2>2. HomeTypeOK
    <3>1. listed \in Seq(Item) /\ Range(listed) = {listed[i] : i \in 1 .. Len(listed)}
      <4>1. listed \in Seq(Item)
        BY DEF ListInv, NewestFirst
      <4>2. DOMAIN listed = 1 .. Len(listed)
        BY <4>1
      <4> QED
        BY <4>1, <4>2 DEF Range
    <3>2. Range(listed) \subseteq Item /\ (selected = None \/ selected \in Range(listed))
      BY <3>1 DEF ListInv
    <3>3. listCall.phase \in {"none", "sent", "answered"} /\ filter \in Filters
      BY DEF ListInv, NoCall, Sent
    <3> QED
      BY <3>2, <3>3 DEF HomeTypeOK, PanelInv
  <2>3. IntakeTypeOK
    <3>1. ASSUME NEW rows \in Seq(RowResult)
          PROVE  Range(rows) \subseteq RowResult
      <4>1. DOMAIN rows = 1 .. Len(rows)
        OBVIOUS
      <4> QED
        BY <4>1 DEF Range
    <3>2. uploadResult.of \in Files \cup {None} /\ uploadResult.rows \in Seq(RowResult)
      <4>1. CASE uploadResult = NoResult
        BY <4>1 DEF NoResult
      <4>2. CASE Shown(uploadResult, Announced)
        BY <4>2 DEF Shown, Accounted
      <4> QED
        BY <4>1, <4>2 DEF IntakeInv, UploadInv
    <3>3. /\ upload.of \in Files \cup {None} /\ upload.rows \in Seq(RowResult)
          /\ upload.saved \in Requests \cup {None} /\ upload.seen \subseteq Subjects
      <4>1. CASE upload = NoUpload
        BY <4>1 DEF NoUpload
      <4>2. CASE upload \in UploadRecord
        BY <4>2 DEF UploadRecord
      <4> QED
        BY <4>1, <4>2 DEF IntakeInv, UploadInv, Running
    <3> QED
      BY <3>1, <3>2, <3>3 DEF IntakeTypeOK, IntakeInv, UploadInv
  <2>4. DemoTypeOK
    <3>1. Len(Stages) = 7
      BY DEF Stages
    <3>2. \A t \in Callers : restore[t] \in RestoreRecord
      BY DEF DemoInv
    <3> QED
      BY <3>1, <3>2 DEF DemoTypeOK, DemoInv, PageInv, RestoreRecord
  <2> QED
    BY <2>1, <2>2, <2>3, <2>4 DEF ConsoleTypeOK, PageInv
<1> HIDE DEF IInv
<1> QED
  BY <1>1, <1>2, <1>3, PTL DEF Spec
=============================================================================
