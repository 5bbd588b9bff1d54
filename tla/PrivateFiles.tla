---------------------------- MODULE PrivateFiles -----------------------------
(***************************************************************************)
(* The files that the ERP makes and keeps on its private disk: the prints   *)
(* of a document (PrintView of src/apps/erp/documents.py), each cached for  *)
(* a version of the document, and the scheduled reports (run_erp_schedules   *)
(* of src/apps/erp/tasks.py).  Neither runs in a transaction: every file and *)
(* every row stays whatever comes after it.                                 *)
(*                                                                         *)
(* The lines of a document are named by the version that wrote them.  The    *)
(* template, whose version is the other half of the key of a print, is left *)
(* out, and so are payslips, job sheets, permissions and the layout.  There *)
(* is one schedule.                                                         *)
(***************************************************************************)
EXTENDS Naturals

CONSTANTS
  LastVersion,  \* bound on the version of the document
  Readers,      \* requests for a print
  FileNames,    \* names of files, each drawn once
  Dates, DueDates,   \* days, and those on which the report is due
  Runners,      \* runs of the schedule task
  Recipients,   \* recipients of the report
  None

VARIABLES
  paper,      \* the document: version, lines, posted_version (0 before), archived
  archivist,  \* the row that an archive request has read
  content,    \* the lines in each file, None without
  rendered,   \* the cached file of each version of the document
  reader,     \* the requests under way
  stale,      \* history: was anyone given older lines than those he asked for?
  day,
  schedule,   \* is it published, is its owner a member
  execution,  \* status of the execution of each day
  reports,    \* attached reports of each day
  mails,      \* recipients told, of each day
  runner      \* the runs under way

printVars == <<paper, archivist, content, rendered, reader, stale>>
reportVars == <<day, schedule, execution, reports, mails, runner>>

Versions == 1..LastVersion

PrintInit ==
  /\ paper = [version |-> 1, lines |-> 1, posted |-> 0, archived |-> FALSE]
  /\ archivist = None
  /\ content = [k \in FileNames |-> None]
  /\ rendered = [v \in Versions |-> None]
  /\ reader = [r \in Readers |-> None]
  /\ stale = FALSE

ReportInit ==
  /\ day = 1
  /\ schedule = [published |-> FALSE, owner |-> TRUE]
  /\ execution = [d \in Dates |-> None]
  /\ reports = [d \in Dates |-> 0]
  /\ mails = [d \in Dates |-> {}]
  /\ runner = [w \in Runners |-> None]

-----------------------------------------------------------------------------
(* The document: its lines are edited before it is posted; everything that  *)
(* is done to it counts the version up.                                     *)
Editable == ~paper.archived /\ paper.version < LastVersion

EditLines ==
  /\ Editable /\ paper.posted = 0
  /\ paper' = [paper EXCEPT !.version = @ + 1, !.lines = paper.version + 1]
  /\ UNCHANGED <<archivist, content, rendered, reader, stale>>

TouchPaper ==
  /\ Editable
  /\ paper' = [paper EXCEPT !.version = @ + 1]
  /\ UNCHANGED <<archivist, content, rendered, reader, stale>>

PostPaper ==
  /\ Editable /\ paper.posted = 0
  /\ paper' = [paper EXCEPT !.version = @ + 1, !.posted = paper.version + 1]
  /\ UNCHANGED <<archivist, content, rendered, reader, stale>>

(* destroy reads the draft without a lock and writes the row back, with the  *)
(* version after the one it read; the lines are rows of their own.          *)
ReadToArchive ==
  /\ archivist = None /\ Editable /\ paper.posted = 0
  /\ archivist' = paper
  /\ UNCHANGED <<paper, content, rendered, reader, stale>>

ArchivePaper ==
  /\ archivist # None
  /\ paper' = [archivist EXCEPT !.version = @ + 1, !.archived = TRUE, !.lines = paper.lines]
  /\ archivist' = None
  /\ UNCHANGED <<content, rendered, reader, stale>>

LoseFile(k) ==
  /\ content[k] # None
  /\ content' = [content EXCEPT ![k] = 0]
  /\ UNCHANGED <<paper, archivist, rendered, reader, stale>>

-----------------------------------------------------------------------------
(* A request for a print. *)
SourceVersion == IF paper.posted # 0 THEN paper.posted ELSE paper.version

AskPrint(r) ==
  /\ reader[r] = None
  /\ reader' = [reader EXCEPT ![r] =
       [version |-> SourceVersion, since |-> paper.lines, archived |-> paper.archived,
        file |-> None]]
  /\ UNCHANGED <<paper, archivist, content, rendered, stale>>

Cached(r) == rendered[reader[r].version]
Readable(k) == k # None /\ content[k] # 0
Give(r, k) ==
  stale' = (stale \/ (Readable(k) /\ ~reader[r].archived /\ content[k] < reader[r].since))

(* The cached print of that version, if its file is there. *)
ServeCached(r) ==
  /\ reader[r] # None /\ reader[r].file = None
  /\ Readable(Cached(r))
  /\ Give(r, Cached(r))
  /\ reader' = [reader EXCEPT ![r] = None]
  /\ UNCHANGED <<paper, archivist, content, rendered>>

(* Otherwise the lines, read now, go into a file of a new name, *)
Compose(r, k) ==
  /\ reader[r] # None /\ reader[r].file = None
  /\ ~Readable(Cached(r))
  /\ content[k] = None
  /\ content' = [content EXCEPT ![k] = paper.lines]
  /\ reader' = [reader EXCEPT ![r].file = k]
  /\ UNCHANGED <<paper, archivist, rendered, stale>>

(* which becomes the print of that version, once: when there is one, lost or *)
(* made meanwhile, the request fails and its file stays behind.             *)
Register(r) ==
  /\ reader[r] # None /\ reader[r].file # None
  /\ IF Cached(r) = None
     THEN /\ rendered' = [rendered EXCEPT ![reader[r].version] = reader[r].file]
          /\ Give(r, reader[r].file)
     ELSE UNCHANGED <<rendered, stale>>
  /\ reader' = [reader EXCEPT ![r] = None]
  /\ UNCHANGED <<paper, archivist, content>>

DiePrinting(r) ==
  /\ reader[r] # None
  /\ reader' = [reader EXCEPT ![r] = None]
  /\ UNCHANGED <<paper, archivist, content, rendered, stale>>

PrintNext ==
  \/ EditLines \/ TouchPaper \/ PostPaper \/ ReadToArchive \/ ArchivePaper
  \/ \E k \in FileNames : LoseFile(k)
  \/ \E r \in Readers :
       \/ AskPrint(r) \/ ServeCached(r) \/ Register(r) \/ DiePrinting(r)
       \/ \E k \in FileNames : Compose(r, k)

-----------------------------------------------------------------------------
(* The schedule: published or archived, and its owner a member or not. *)
ChangeSchedule ==
  /\ schedule' \in [published : BOOLEAN, owner : BOOLEAN]
  /\ UNCHANGED <<day, execution, reports, mails, runner>>

NextDay ==
  /\ day + 1 \in Dates
  /\ day' = day + 1
  /\ UNCHANGED <<schedule, execution, reports, mails, runner>>

(* A run of the task, for a published schedule that is due: get_or_create   *)
(* gives the execution of the day to one run.                               *)
RunSchedule(w) ==
  /\ runner[w] = None
  /\ schedule.published /\ day \in DueDates
  /\ execution[day] = None
  /\ execution' = [execution EXCEPT ![day] = "queued"]
  /\ runner' = [runner EXCEPT ![w] = [of |-> day, step |-> "check"]]
  /\ UNCHANGED <<day, schedule, reports, mails>>

At(w, step) == runner[w] # None /\ runner[w].step = step
OnTo(w, step) == runner' = [runner EXCEPT ![w].step = step]

(* The owner must be a member still, with the rights that the report takes. *)
CheckOwner(w) ==
  /\ At(w, "check") /\ schedule.owner
  /\ OnTo(w, "write")
  /\ UNCHANGED <<day, schedule, execution, reports, mails>>

(* The file, of a name of its day, and the attachment. *)
WriteReport(w) ==
  /\ At(w, "write")
  /\ reports' = [reports EXCEPT ![runner[w].of] = @ + 1]
  /\ OnTo(w, "complete")
  /\ UNCHANGED <<day, schedule, execution, mails>>

Complete(w) ==
  /\ At(w, "complete")
  /\ execution' = [execution EXCEPT ![runner[w].of] = "completed"]
  /\ OnTo(w, "tell")
  /\ UNCHANGED <<day, schedule, reports, mails>>

(* A message for each recipient, one after the other. *)
TellRecipient(w, n) ==
  /\ At(w, "tell") /\ n \notin mails[runner[w].of]
  /\ mails' = [mails EXCEPT ![runner[w].of] = @ \cup {n}]
  /\ UNCHANGED <<day, schedule, execution, reports, runner>>

(* Whatever goes wrong marks the execution, even a completed one: an owner   *)
(* who left, a full disk, a message that cannot be queued.                  *)
FailReport(w) ==
  /\ runner[w] # None
  /\ execution' = [execution EXCEPT ![runner[w].of] = "failed"]
  /\ runner' = [runner EXCEPT ![w] = None]
  /\ UNCHANGED <<day, schedule, reports, mails>>

(* The run ends, when all is told, or dies; its execution stays as it is.    *)
EndRun(w) ==
  /\ runner[w] # None
  /\ runner' = [runner EXCEPT ![w] = None]
  /\ UNCHANGED <<day, schedule, execution, reports, mails>>

ReportNext ==
  \/ ChangeSchedule \/ NextDay
  \/ \E w \in Runners :
       \/ RunSchedule(w) \/ CheckOwner(w) \/ WriteReport(w) \/ Complete(w)
       \/ FailReport(w) \/ EndRun(w)
       \/ \E n \in Recipients : TellRecipient(w, n)

PrintSpec == PrintInit /\ [][PrintNext]_printVars
ReportSpec == ReportInit /\ [][ReportNext]_reportVars

-----------------------------------------------------------------------------
PrintTypeOK ==
  /\ paper \in [version : Versions, lines : Versions, posted : 0..LastVersion,
               archived : BOOLEAN]
  /\ content \in [FileNames -> Versions \cup {None, 0}]
  /\ rendered \in [Versions -> FileNames \cup {None}]

(* A print never shows lines older than those the document had when it was   *)
(* asked for, and the print of a posted document shows the lines it was      *)
(* posted with.  (Of an archived document nothing is promised: the archive   *)
(* request may have set its version back to one that was printed before.)   *)
PrintsAreCurrent ==
  /\ PrintTypeOK
  /\ ~stale
  /\ paper.posted # 0 /\ rendered[paper.posted] # None =>
       content[rendered[paper.posted]] \in {0, paper.lines}

Outcomes == {"queued", "completed", "failed"}

(* However runs overlap, fail or die, a day has at most one report; nobody   *)
(* is told of a report that is not there, and only a report that is there   *)
(* counts as completed.                                                     *)
ReportedOnce ==
  /\ execution \in [Dates -> Outcomes \cup {None}]
  /\ \A d \in Dates :
       /\ reports[d] <= 1
       /\ mails[d] # {} \/ execution[d] = "completed" => reports[d] = 1
       /\ execution[d] # None => d \in DueDates
       /\ mails[d] # {} => execution[d] \in {"completed", "failed"}

-----------------------------------------------------------------------------
(* One run at most is at work on a day, and what there is of the day is what *)
(* that run has done so far.                                                *)
RunSteps == {"check", "write", "complete", "tell"}
Jobs == [of : Dates, step : RunSteps]

ReportConstants == None \notin Outcomes \cup Jobs /\ 1 \in Dates

-----------------------------------------------------------------------------
(* The rows, and what is assumed of the constants.                          *)
Papers == [version : Versions, lines : Versions, posted : 0..LastVersion, archived : BOOLEAN]
Prints == [version : Versions, since : Versions, archived : BOOLEAN, file : FileNames \cup {None}]

PrintConstants ==
  /\ LastVersion \in Nat \ {0}
  /\ None \notin FileNames \cup Nat \cup Papers \cup Prints

=============================================================================
