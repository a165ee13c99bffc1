------------------------------- MODULE Intake -------------------------------
(***************************************************************************)
(* The page that uploads a CSV of subjects, and the service that makes a   *)
(* request of each.  A file is the cells of its subject column, the header *)
(* line gone.  Whether an event can be published is module Publisher's:    *)
(* here it may fail at any row.                                            *)
(***************************************************************************)
EXTENDS RequestRows, SequencesExt

CONSTANTS
  Files,        \* CSV files the user may choose
  Subjects      \* names in them; the other cells are "" and " "

ASSUME IntakeAssumption ==
  /\ Files \subseteq Seq(Subjects \cup {"", " "})
  /\ Subjects \cap {"", " ", None} = {}

VARIABLES
  selectedFile, uploadResult, uploadError,   \* the page
  upload,       \* the upload being answered, "Uploading" until it is
  imported,     \* history: requests saved by uploads
  published,    \* history: requests whose event was handed to a channel
  orphans       \* history: requests saved by an upload that then failed at them

pageVars == <<selectedFile, uploadResult, uploadError>>
intakeVars == <<pageVars, upload, imported, published, orphans>>

NoResult == [of |-> None, rows |-> <<>>]
NoUpload == [of |-> None, todo |-> <<>>, seen |-> {}, rows |-> <<>>, saved |-> None]
RowResult == [subject : Subjects \cup {None}, is : {"created", "blank", "duplicate"}, id : Requests \cup {None}]

IntakeTypeOK ==
  /\ selectedFile \in Files \cup {None}
  /\ uploadResult.of \in Files \cup {None} /\ Range(uploadResult.rows) \subseteq RowResult
  /\ upload.of \in Files \cup {None} /\ Range(upload.rows) \subseteq RowResult
  /\ upload.saved \in Requests \cup {None} /\ upload.seen \subseteq Subjects

IntakeInit ==
  /\ selectedFile = None /\ uploadResult = NoResult /\ uploadError = FALSE
  /\ upload = NoUpload
  /\ imported = {} /\ published = {} /\ orphans = {}

-----------------------------------------------------------------------------
\* The page

\* handleFileChange and handleDrop, also while an upload runs; the dialog may
\* be left without a file.
ChooseFile ==
  /\ selectedFile' \in Files \cup {None}
  /\ uploadResult' = NoResult /\ uploadError' = FALSE
  /\ UNCHANGED <<db, upload, imported, published, orphans>>

\* Not a .csv: the last result stays.
RefuseFile ==
  /\ selectedFile' = None /\ uploadError' = TRUE
  /\ UNCHANGED <<db, uploadResult, upload, imported, published, orphans>>

Reset ==
  /\ uploadResult # NoResult \/ uploadError
  /\ selectedFile' = None /\ uploadResult' = NoResult /\ uploadError' = FALSE
  /\ UNCHANGED <<db, upload, imported, published, orphans>>

\* parseSubjectIds: the cells, without the empty ones a last newline leaves.
Parse(cells) == SubSeq(cells, 1, Max({i \in DOMAIN cells : cells[i] # ""} \cup {0}))

\* Bound: there are numbers left for the requests of a file.
Upload ==
  /\ upload = NoUpload /\ selectedFile # None
  /\ Cardinality({q \in Requests : ~Exists(q)}) >= Cardinality(Range(selectedFile) \cap Subjects)
  /\ upload' = [NoUpload EXCEPT !.of = selectedFile, !.todo = Parse(selectedFile)]
  /\ uploadResult' = NoResult /\ uploadError' = FALSE
  /\ UNCHANGED <<db, selectedFile, imported, published, orphans>>

-----------------------------------------------------------------------------
\* processCsvBuffer, a row at a time

Uploading == upload # NoUpload
Cell == Head(upload.todo)
Processed(row) == [upload EXCEPT !.todo = Tail(@), !.rows = Append(@, row), !.saved = None]

SkipRow ==
  /\ upload.todo # <<>> /\ upload.saved = None
  /\ \/ Cell \in {"", " "}
        /\ upload' = Processed([subject |-> None, is |-> "blank", id |-> None])
     \/ Cell \in upload.seen
        /\ upload' = Processed([subject |-> Cell, is |-> "duplicate", id |-> None])
  /\ UNCHANGED <<db, pageVars, imported, published, orphans>>

\* Mutant: a subject is not remembered.
SaveRow_Unseen ==
  /\ upload.todo # <<>> /\ upload.saved = None
  /\ Cell \in Subjects \ upload.seen
  /\ \E q \in Requests :
       /\ Created(q)
       /\ upload' = [upload EXCEPT !.saved = q]
       /\ imported' = imported \cup {q}
  /\ UNCHANGED <<pageVars, published, orphans>>

\* createDeletionRequest: the request and its five steps are saved ...
SaveRow ==
  /\ upload.todo # <<>> /\ upload.saved = None
  /\ Cell \in Subjects \ upload.seen
  /\ \E q \in Requests :
       /\ Created(q)
       /\ upload' = [upload EXCEPT !.saved = q, !.seen = @ \cup {Cell}]
       /\ imported' = imported \cup {q}
  /\ UNCHANGED <<pageVars, published, orphans>>

\* ... and the event is published.
PublishRow ==
  /\ upload.saved # None
  /\ published' = published \cup {upload.saved}
  /\ upload' = Processed([subject |-> Cell, is |-> "created", id |-> upload.saved])
  /\ UNCHANGED <<db, pageVars, imported, orphans>>

\* A throw, of the publisher or of Postgres, ends the loop: the client is told
\* of no request of this file.
UploadFails ==
  /\ "fail" \in Faults
  /\ Uploading
  /\ orphans' = orphans \cup ({upload.saved} \ {None})
  /\ upload' = NoUpload /\ uploadError' = TRUE
  /\ UNCHANGED <<db, selectedFile, uploadResult, imported, published>>

UploadAnswered ==
  /\ Uploading /\ upload.todo = <<>>
  /\ uploadResult' = [of |-> upload.of, rows |-> upload.rows]
  /\ upload' = NoUpload
  /\ UNCHANGED <<db, selectedFile, uploadError, imported, published, orphans>>

UploadRun == SkipRow \/ SaveRow \/ PublishRow \/ UploadFails \/ UploadAnswered

IntakeNext == ChooseFile \/ RefuseFile \/ Reset \/ Upload \/ UploadRun

-----------------------------------------------------------------------------
\* The result a user is shown accounts for every row of the file that was
\* uploaded, whichever file is selected by now: blank and repeated cells
\* skipped, and for the first of each subject a request of its own, saved and
\* announced.  A request that was saved and never announced belongs to an upload
\* that ended in an error, or still runs.
UploadAccounted ==
  LET cells == Parse(uploadResult.of)
      First(i) == \A j \in 1 .. i - 1 : cells[j] # cells[i]
      Is(i) == IF cells[i] \notin Subjects THEN "blank" ELSE IF First(i) THEN "created" ELSE "duplicate"
      rows == uploadResult.rows
      created == {i \in DOMAIN rows : rows[i].is = "created"}
  IN  /\ uploadResult # NoResult =>
           /\ Len(rows) = Len(cells)
           /\ \A i \in DOMAIN rows : rows[i].is = Is(i)
           /\ \A i \in created : Exists(rows[i].id) /\ rows[i].id \in published
           /\ \A i, j \in created : rows[i].id = rows[j].id => i = j
      /\ imported \subseteq published \cup orphans \cup {upload.saved}
=============================================================================
