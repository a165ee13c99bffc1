----------------------------- MODULE SubmitPage -----------------------------
(***************************************************************************)
(* The page that submits a request and follows it over server-sent events, *)
(* and the endpoint that sends them.  The server reads the row every 500 ms*)
(* whether or not the last read has been answered, so that answers overtake*)
(* each other; it sends a row that differs from the last one it sent, and  *)
(* "done" with a final status.  The page opens an EventSource per created  *)
(* request and closes it when it is done, fails, or the request is left.   *)
(* A React effect runs in the step that changes what it depends on.        *)
(***************************************************************************)
EXTENDS RequestRows

CONSTANTS
  MaxReads,     \* reads of one stream that may be unanswered
  MaxWire       \* bound on the events on their way to the page

VARIABLES
  posting,      \* the POST: None, Posted, or the request it has created
  created,      \* createdRequest
  liveStatus, liveSteps, processing, finished, streamError, finalStatus,
  liveOf,       \* history: whose events the page shows
  endedOn,      \* history: the read that "done" was decided on
  stream        \* per request: the EventSource and the server's observer

live == <<liveStatus, liveSteps, processing, finished, streamError, finalStatus, liveOf, endedOn>>
submitVars == <<posting, created, live, stream>>

Posted == 0
NoStream == [open |-> FALSE, phase |-> "off", last |-> NoRead, reads |-> {}, wire |-> <<>>]

SubmitTypeOK ==
  /\ db \in [Requests -> RequestRow \cup {Absent}]
  /\ posting \in Requests \cup {None, Posted}
  /\ created \in Requests \cup {None}
  /\ liveStatus \in ShownStatus \cup {None}
  /\ liveSteps \in {"open", "settled", None}
  /\ processing \in BOOLEAN /\ finished \in BOOLEAN /\ streamError \in BOOLEAN
  /\ finalStatus \in {"COMPLETED", "FAILED", None}
  /\ \A q \in Requests :
       /\ stream[q].phase \in {"off", "first", "ticking", "ended"}
       /\ stream[q].last \in Row \cup {NoRead}
       /\ stream[q].reads \subseteq Row
       /\ stream[q].open => q = created

SubmitInit ==
  /\ posting = None /\ created = None
  /\ liveStatus = None /\ liveSteps = None /\ processing = FALSE
  /\ finished = FALSE /\ streamError = FALSE /\ finalStatus = None
  /\ liveOf = None /\ endedOn = NoRead
  /\ stream = [q \in Requests |-> NoStream]

-----------------------------------------------------------------------------
\* Mutant: the effect has no cleanup.
Closed_LeftOpen(q) == stream

\* es.close(): the connection ends, and with it the server's observer.
Closed(q) == IF q = None THEN stream ELSE [stream EXCEPT ![q] = NoStream]

\* handleSubmit forgets the last request; the effect closes its stream.  The
\* status line and "Processing" are left as they were.
SubmitRequest ==
  /\ posting = None
  /\ posting' = Posted
  /\ created' = None
  /\ stream' = Closed(created)
  /\ liveSteps' = None /\ finished' = FALSE /\ streamError' = FALSE /\ finalStatus' = None
  /\ UNCHANGED <<db, liveStatus, processing, liveOf, endedOn>>

ServerCreates(q) ==
  /\ posting = Posted
  /\ Created(q)
  /\ posting' = q
  /\ UNCHANGED <<created, live, stream>>

\* The answer, and the effect that opens the stream of the new request.
CreateAnswered ==
  /\ posting \in Requests
  /\ created' = posting /\ posting' = None
  /\ liveStatus' = None /\ liveSteps' = None /\ processing' = TRUE
  /\ finished' = FALSE /\ streamError' = FALSE /\ finalStatus' = None
  /\ liveOf' = posting
  /\ stream' = [stream EXCEPT ![posting] = [NoStream EXCEPT !.open = TRUE, !.phase = "first"]]
  /\ UNCHANGED <<db, endedOn>>

\* Refused, or failed after the row was saved.
CreateRefused ==
  /\ "fail" \in Faults
  /\ posting # None
  /\ posting' = None
  /\ UNCHANGED <<db, created, live, stream>>

-----------------------------------------------------------------------------
\* Mutant: the interval is never started.
TickReads_FirstOnly(q) ==
  /\ stream[q].phase = "first" /\ stream[q].reads = {}
  /\ stream' = [stream EXCEPT ![q].reads = {Read(q)}]
  /\ UNCHANGED <<db, posting, created, live>>

\* A tick reads the row.  The first one is answered before the interval starts.
TickReads(q) ==
  /\ stream[q].phase \in {"first", "ticking"}
  /\ Cardinality(stream[q].reads) < IF stream[q].phase = "first" THEN 1 ELSE MaxReads
  /\ stream' = [stream EXCEPT ![q].reads = @ \cup {Read(q)}]
  /\ UNCHANGED <<db, posting, created, live>>

\* Mutant: the signature is that of the steps only.
Differs_StepsOnly(row, last) == row.steps # last.steps

\* A step row rewritten to what it was is sent again, which shows nothing new.
Differs(row, last) == row # last

EventsOf(row, last) ==
  (IF Differs(row, last) THEN <<row>> ELSE <<>>)
    \o (IF EndsStream(row) THEN <<[done |-> row.st]>> ELSE <<>>)

\* Its answer, in any order.  complete() makes the observer deaf to later ones.
TickAnswered(q) ==
  /\ stream[q].phase \in {"first", "ticking"}
  /\ Len(stream[q].wire) < MaxWire
  /\ \E row \in stream[q].reads :
       stream' = [stream EXCEPT
         ![q].wire = @ \o EventsOf(row, stream[q].last),
         ![q].last = row,
         ![q].phase = IF EndsStream(row) THEN "ended" ELSE "ticking",
         ![q].reads = IF EndsStream(row) THEN {} ELSE @ \ {row}]
  /\ UNCHANGED <<db, posting, created, live>>

\* The query is rejected, or the connection is lost: onerror.
StreamBreaks(q) ==
  /\ "fail" \in Faults
  /\ stream[q].open
  /\ streamError' = TRUE /\ processing' = FALSE
  /\ stream' = Closed(q)
  /\ UNCHANGED <<db, posting, created, liveStatus, liveSteps, finished, finalStatus, liveOf, endedOn>>

Incoming(q) == stream[q].open /\ stream[q].wire # <<>>

OnMessage(q) ==
  /\ Incoming(q)
  /\ Head(stream[q].wire) \in Row
  /\ liveStatus' = Head(stream[q].wire).st
  /\ liveSteps' = Head(stream[q].wire).steps
  /\ liveOf' = q
  /\ stream' = [stream EXCEPT ![q].wire = Tail(@)]
  /\ UNCHANGED <<db, posting, created, processing, finished, streamError, finalStatus, endedOn>>

OnDone(q) ==
  /\ Incoming(q)
  /\ Head(stream[q].wire) \notin Row
  /\ finalStatus' = Head(stream[q].wire).done
  /\ streamError' = (streamError \/ Head(stream[q].wire).done = "FAILED")
  /\ finished' = TRUE /\ processing' = FALSE
  /\ liveOf' = q /\ endedOn' = stream[q].last
  /\ stream' = [stream EXCEPT ![q] = NoStream]
  /\ UNCHANGED <<db, posting, created, liveStatus, liveSteps>>

StreamRun(q) == TickReads(q) \/ TickAnswered(q) \/ OnMessage(q) \/ OnDone(q)

SubmitNext ==
  \/ SubmitRequest \/ CreateAnswered \/ CreateRefused
  \/ \E q \in Requests : ServerCreates(q) \/ StreamRun(q) \/ StreamBreaks(q)

-----------------------------------------------------------------------------
\* The page speaks of the request it names: what it shows under "Created
\* request" came over that request's stream, and when it says how the request
\* ended, the status line and the pipeline show the very read it was decided
\* on, whatever order the reads of the server were answered in, and the request
\* is over, whatever its rows say by now.
StreamTruthful ==
  created # None =>
    /\ liveOf = created
    /\ finished =>
         /\ [st |-> liveStatus, steps |-> liveSteps] = endedOn /\ finalStatus = endedOn.st
         /\ db[created].dated

OverAndProcessing == created # None /\ db[created].dated /\ processing

\* A request that is over is not shown as being processed for ever: its stream
\* ends, or the user goes on to another request.  The exception is the code's: a
\* row that says PARTIAL_COMPLETED, as its outcome or by a late write, keeps the
\* stream going, and the page at "Processing".
StreamEnds == OverAndProcessing ~> ~OverAndProcessing \/ db[created].st = "PARTIAL_COMPLETED"
=============================================================================
