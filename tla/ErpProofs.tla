----------------------------- MODULE ErpProofs ------------------------------
(***************************************************************************)
(* Proofs about the parts of MCErp, for any number of documents, payroll    *)
(* runs, tasks, requests, jobs and files.                                   *)
(*                                                                         *)
(* Each section proves the inductive invariant of one component, which the  *)
(* component's module defines after its properties; the theorems at the end *)
(* say that the properties of MCErp which are about it always hold.         *)
(***************************************************************************)
EXTENDS MCErp, QuantityTheorems

-----------------------------------------------------------------------------
(* What the proofs about Recurring need beside its properties.              *)

(* The template alone does not carry the argument: a task writes back a row  *)
(* that it read long before, which must not have passed a date either.      *)
RecurringInv ==
  /\ Repeated!NoDueDateSkipped
  /\ \A t \in RecurringTasks : task[t] # None =>
       /\ 1..(task[t].row.next - 1) \subseteq expenses \cup byHand
       /\ task[t].until <= today

(* Recurring expenses: a task writes back the row that it read. *)
(* The invariant is preserved by every step of people, tasks and time. *)
LEMMA RecurringStep ==
  ASSUME RecurringAssumption, RecurringInv, [Repeated!RecurringNext]_recurringVars
  PROVE  RecurringInv'
<1> USE RecurringAssumption
     DEF RecurringAssumption, Repeated!RecurringConstants, RecurringInv,
         Repeated!NoDueDateSkipped, Repeated!RecurringTypeOK, Repeated!Templates,
         Repeated!Runs
<1>1. CASE Repeated!Tomorrow
  BY <1>1, SMT DEF Repeated!Tomorrow
<1>2. CASE Repeated!Generate
  BY <1>2, SMT DEF Repeated!Generate
<1>3. CASE Repeated!Switch
  <2>1. template \in Repeated!Templates
    OBVIOUS
  <2>2. template' = [template EXCEPT !.active = ~template.active]
    BY <1>3 DEF Repeated!Switch
  <2>3. template' \in Repeated!Templates /\ template'.next = template.next
    BY <2>1, <2>2, Zenon DEF Repeated!Templates
  <2> QED
    BY <1>3, <2>3, SMT DEF Repeated!Switch
<1>4. ASSUME NEW t \in RecurringTasks, Repeated!StartTask(t)
      PROVE  RecurringInv'
  BY <1>4, SMT DEF Repeated!StartTask
<1>5. ASSUME NEW t \in RecurringTasks, Repeated!CreateDue(t)
      PROVE  RecurringInv'
  <2>1. PICK r \in Repeated!Runs : r = task[t]
    BY <1>5, SMT DEF Repeated!CreateDue
  <2> DEFINE due == r.row.next
             row == [r.row EXCEPT !.next = due + 1]
             new == [r EXCEPT !.row = row, !.count = r.count + 1]
  <2>2. /\ due \in 1..LastDate /\ due <= today /\ r.until <= today
        /\ 1..(due - 1) \subseteq expenses \cup byHand /\ today \in 0..LastDate
        /\ r.count < PerRun
    BY <1>5, <2>1, SMT DEF Repeated!CreateDue, Repeated!More
  <2>3. new \in Repeated!Runs /\ new.row.next = due + 1 /\ new.until = r.until
    <3>1. PICK d \in 1..(LastDate + 1) : d = due + 1
      BY <2>2
    <3>2. PICK c \in 0..PerRun : c = r.count + 1
      BY <2>1, <2>2
    <3>3. row \in Repeated!Templates /\ row.next = due + 1
      <4>1. PICK old \in Repeated!Templates : old = r.row
        OBVIOUS
      <4>2. [old EXCEPT !.next = d] \in Repeated!Templates /\ [old EXCEPT !.next = d].next = d
        OBVIOUS
      <4> QED
        BY <4>1, <4>2, <3>1
    <3> HIDE DEF row
    <3> QED
      BY <3>2, <3>3
  <2>4. expenses' = expenses \cup {due} /\ UNCHANGED <<today, template, byHand>>
    BY <1>5, <2>1 DEF Repeated!CreateDue
  <2>5. task' = [task EXCEPT ![t] = new]
    BY <1>5, <2>1 DEF Repeated!CreateDue
  <2> HIDE DEF new
  <2>6. new.row.next - 1 = due /\ new.until = r.until
    BY <2>2, <2>3
  <2>7. Repeated!NoDueDateSkipped'
    <3>1. task' \in [RecurringTasks -> Repeated!Runs \cup {None}]
      BY <2>3, <2>5
    <3>2. expenses' \subseteq 1..LastDate
      BY <2>2, <2>4
    <3>3. expenses' \subseteq 1..today' \cup byHand'
      <4>1. due \in 1..today /\ expenses \subseteq 1..today \cup byHand
        BY <2>2, SMT
      <4> QED
        BY <4>1, <2>4, Zenon
    <3>4. 1..(template'.next - 1) \subseteq expenses' \cup byHand'
      BY <2>4
    <3> QED
      BY <2>4, <3>1, <3>2, <3>3, <3>4
  <2>8. ASSUME NEW u \in RecurringTasks, task'[u] # None
        PROVE  /\ 1..(task'[u].row.next - 1) \subseteq expenses' \cup byHand'
               /\ task'[u].until <= today'
    <3>1. CASE u = t
      <4>1. task'[u] = new
        BY <2>5, <3>1
      <4>2. 1..due \subseteq expenses' \cup byHand'
        BY <2>2, <2>4, SMT
      <4> QED
        BY <4>1, <4>2, <2>2, <2>4, <2>6
    <3>2. CASE u # t
      <4>1. task'[u] = task[u]
        BY <2>5, <3>2
      <4> QED
        BY <2>4, <2>8, <4>1
    <3> QED
      BY <3>1, <3>2
  <2> QED
    BY <2>7, <2>8 DEF RecurringInv
<1>6. ASSUME NEW t \in RecurringTasks, Repeated!SaveTemplate(t)
      PROVE  RecurringInv'
  BY <1>6, SMT DEF Repeated!SaveTemplate
<1>7. ASSUME NEW t \in RecurringTasks, Repeated!DieGenerating(t)
      PROVE  RecurringInv'
  BY <1>7, SMT DEF Repeated!DieGenerating
<1>8. ASSUME NEW date \in 1..LastDate, Repeated!SetDue(date)
      PROVE  RecurringInv'
  <2>1. PICK old \in Repeated!Templates : old = template
    OBVIOUS
  <2>2. /\ template' = [old EXCEPT !.next = date]
        /\ byHand' = byHand \cup old.next..(date - 1)
        /\ UNCHANGED <<today, expenses, task>>
    BY <1>8, <2>1 DEF Repeated!SetDue
  <2>3. template' \in Repeated!Templates /\ template'.next = date
    BY <2>1, <2>2, SMT
  <2>4. byHand' \subseteq 1..LastDate
    BY <2>1, <2>2, SMT
  <2>5. 1..(date - 1) \subseteq expenses \cup byHand'
    BY <2>1, <2>2, SMT
  <2> QED
    BY <2>2, <2>3, <2>4, <2>5
<1>9. ASSUME NEW from \in 1..LastDate, NEW to \in 1..LastDate, Repeated!MoveDraft(from, to)
      PROVE  RecurringInv'
  <2>1. /\ expenses' = (expenses \ {from}) \cup {to} /\ byHand' = byHand \cup {from, to}
        /\ UNCHANGED <<today, template, task>>
    BY <1>9 DEF Repeated!MoveDraft
  <2>2. expenses \cup byHand \subseteq expenses' \cup byHand'
    BY <2>1
  <2> QED
    BY <2>1, <2>2
<1>10. ASSUME NEW t \in RecurringTasks, Repeated!StartArchiveTemplate(t)
       PROVE  RecurringInv'
  <2>1. PICK row \in Repeated!Templates : row = template
    OBVIOUS
  <2> DEFINE new == [row |-> [row EXCEPT !.archived = TRUE], until |-> 0, count |-> 0]
  <2>2. task' = [task EXCEPT ![t] = new] /\ UNCHANGED <<today, template, expenses, byHand>>
    BY <1>10, <2>1 DEF Repeated!StartArchiveTemplate
  <2>3. new \in Repeated!Runs /\ new.row.next = row.next /\ new.until = 0
    <3>1. PICK copy : copy = [row EXCEPT !.archived = TRUE]
      OBVIOUS
    <3>2. copy \in Repeated!Templates /\ copy.next = row.next
      <4>1. \A x \in Repeated!Templates :
              /\ [x EXCEPT !.archived = TRUE] \in Repeated!Templates
              /\ [x EXCEPT !.archived = TRUE].next = x.next
        BY Zenon
      <4> QED
        BY <2>1, <3>1, <4>1, Zenon
    <3>3. new = [row |-> copy, until |-> 0, count |-> 0]
      BY <3>1
    <3> HIDE DEF new
    <3> QED
      BY <3>2, <3>3, SMT
  <2> HIDE DEF new
  <2>4. \A u \in RecurringTasks : task'[u] = IF u = t THEN new ELSE task[u]
    BY <2>2
  <2>5. 1..(row.next - 1) \subseteq expenses \cup byHand /\ 0 <= today
    BY <2>1, SMT
  <2> QED
    BY <2>2, <2>3, <2>4, <2>5
<1>11. CASE UNCHANGED recurringVars
  BY <1>11, SMT DEF recurringVars
<1> QED
  BY <1>1, <1>2, <1>3, <1>4, <1>5, <1>6, <1>7, <1>8, <1>9, <1>10, <1>11
     DEF Repeated!RecurringNext

LEMMA RecurringInvInit ==
  ASSUME RecurringAssumption, Repeated!RecurringInit
  PROVE  RecurringInv
BY SMT
     DEF RecurringAssumption, Repeated!RecurringConstants, Repeated!RecurringInit,
         RecurringInv, Repeated!NoDueDateSkipped,
         Repeated!RecurringTypeOK, Repeated!Templates, Repeated!Runs

-----------------------------------------------------------------------------
(* What the proofs about Upgrade need beside its properties.                *)

(* What the command under way has converted is in nobody's sight, so that it *)
(* cannot have been sold meanwhile.                                         *)
UpgradeInv ==
  /\ Carried!HistoryCarriedOnce
  /\ upgrade # None => upgrade \subseteq OldQuotes /\ \A q \in upgrade : document[q] = None

(* The upgrade of the old screens' quotations and orders. *)
(* The invariant is preserved by every step of either side. *)
LEMMA UpgradeStep ==
  ASSUME UpgradeAssumption, UpgradeInv, [Carried!UpgradeNext]_upgradeVars
  PROVE  UpgradeInv'
<1> USE UpgradeAssumption
     DEF UpgradeAssumption, Carried!UpgradeConstants, UpgradeInv,
         Carried!HistoryCarriedOnce, Carried!UpgradeTypeOK, Carried!Alive,
         Carried!Marks, Carried!Quotations
<1>1. CASE Carried!ConvertQuotes
  BY <1>1 DEF Carried!ConvertQuotes
<1>2. CASE Carried!ConvertOrders
  BY <1>2 DEF Carried!ConvertOrders, Carried!Left, Carried!Found, Carried!Sellable
<1>3. CASE Carried!AbortUpgrade
  BY <1>3 DEF Carried!AbortUpgrade
<1>4. ASSUME NEW q \in OldQuotes, NEW sound \in BOOLEAN, Carried!Quote(q, sound)
      PROVE  UpgradeInv'
  BY <1>4 DEF Carried!Quote
<1>5. ASSUME NEW q \in OldQuotes, Carried!OrderOld(q)
      PROVE  UpgradeInv'
  BY <1>5 DEF Carried!OrderOld
<1>6. ASSUME NEW q \in Carried!Quotations, Carried!Accept(q)
      PROVE  UpgradeInv'
  BY <1>6 DEF Carried!Accept
<1>7. ASSUME NEW q \in Carried!Quotations, Carried!Sell(q)
      PROVE  UpgradeInv'
  BY <1>7 DEF Carried!Sell, Carried!Sellable
<1>8. ASSUME NEW q \in Carried!Quotations, NEW status \in {"confirmed", "cancelled"},
             Carried!SettleSale(q, status)
      PROVE  UpgradeInv'
  BY <1>8 DEF Carried!SettleSale
<1>9. CASE UNCHANGED upgradeVars
  BY <1>9 DEF upgradeVars
<1>10. ASSUME NEW q \in Carried!Quotations, NEW r \in Revisions, Carried!Revise(q, r)
       PROVE  UpgradeInv'
  BY <1>10 DEF Carried!Revise
<1>11. ASSUME NEW r \in Revisions, Carried!Issue(r)
       PROVE  UpgradeInv'
  BY <1>11 DEF Carried!Issue
<1> QED
  BY <1>1, <1>2, <1>3, <1>4, <1>5, <1>6, <1>7, <1>8, <1>9, <1>10, <1>11
     DEF Carried!UpgradeNext

LEMMA UpgradeInvInit ==
  ASSUME UpgradeAssumption, Carried!UpgradeInit
  PROVE  UpgradeInv
BY 
     DEF UpgradeAssumption, Carried!UpgradeConstants, Carried!UpgradeInit,
         UpgradeInv, Carried!HistoryCarriedOnce, Carried!UpgradeTypeOK,
         Carried!Alive, Carried!Marks, Carried!Quotations

-----------------------------------------------------------------------------
(* What the proofs about PrivateFiles need beside its properties: the files *)
(* that a request finds, or makes, for the version that it asks for are     *)
(* lost or show what it asked for, because each version is given to one     *)
(* state of the lines.                                                      *)

RunOwnsDay(w) ==
  LET d == runner[w].of
  IN  /\ execution[d] # None
      /\ runner[w].step \in {"check", "write"} => reports[d] = 0
      /\ runner[w].step \in {"complete", "tell"} => reports[d] = 1
      /\ runner[w].step # "tell" => execution[d] = "queued" /\ mails[d] = {}
      /\ runner[w].step = "tell" => execution[d] = "completed"
      /\ \A v \in Runners : v # w /\ runner[v] # None => runner[v].of # d

ReportInv ==
  /\ Files!ReportedOnce
  /\ day \in Dates
  /\ reports \in [Dates -> {0, 1}]
  /\ mails \in [Dates -> SUBSET Recipients]
  /\ runner \in [Runners -> Files!Jobs \cup {None}]
  /\ \A d \in Dates : execution[d] = None => reports[d] = 0 /\ mails[d] = {}
  /\ \A w \in Runners : runner[w] # None => RunOwnsDay(w)

(* The file k, if it is still there, shows lines that are not older. *)
Shows(k, lines) == content[k] = 0 \/ content[k] >= lines

RequestsTyped ==
  /\ stale \in BOOLEAN
  /\ reader \in [Readers -> Files!Prints \cup {None}]
  /\ archivist \in Files!Papers \cup {None}
  /\ archivist # None => archivist.posted = 0 /\ archivist.version < LastVersion

(* Lines only become newer, and no file is of newer ones. *)
LinesGrow ==
  /\ paper.archived => paper.posted = 0
  /\ ~paper.archived => paper.lines <= paper.version /\ paper.posted <= paper.version
  /\ \A k \in FileNames : content[k] \in Files!Versions => content[k] <= paper.lines
  /\ \A v \in Files!Versions : rendered[v] # None => content[rendered[v]] # None
  /\ \A r \in Readers : reader[r] # None =>
       /\ reader[r].since <= paper.lines
       /\ reader[r].file # None => content[reader[r].file] # None

(* What there is of the version that the next request will ask for. *)
CurrentShown ==
  ~paper.archived =>
    /\ \A v \in Files!Versions : v > paper.version => rendered[v] = None
    /\ rendered[Files!SourceVersion] # None => Shows(rendered[Files!SourceVersion], paper.lines)
    /\ \A r \in Readers : reader[r] # None =>
         /\ reader[r].version <= paper.version
         /\ reader[r].version = Files!SourceVersion /\ reader[r].file # None =>
              Shows(reader[r].file, paper.lines)

(* What there is of the version that a request has asked for. *)
AskedShown ==
  \A r \in Readers : reader[r] # None /\ ~reader[r].archived =>
    /\ Files!Cached(r) # None => Shows(Files!Cached(r), reader[r].since)
    /\ \A q \in Readers :
         reader[q] # None /\ reader[q].version = reader[r].version /\ reader[q].file # None =>
           Shows(reader[q].file, reader[r].since)

PrintInv == Files!PrintsAreCurrent /\ RequestsTyped /\ LinesGrow /\ CurrentShown /\ AskedShown

(* Scheduled reports. *)
(* The invariant is preserved by every step of the calendar and of a run. *)
LEMMA ReportStep ==
  ASSUME ReportAssumption, ReportInv, [Files!ReportNext]_reportVars
  PROVE  ReportInv'
<1> USE ReportAssumption
     DEF ReportAssumption, Files!ReportConstants, ReportInv,
         Files!ReportedOnce, Files!Outcomes, RunOwnsDay, Files!Jobs,
         Files!RunSteps
<1>1. CASE Files!ChangeSchedule
  BY <1>1 DEF Files!ChangeSchedule
<1>2. CASE Files!NextDay
  BY <1>2 DEF Files!NextDay
<1>3. ASSUME NEW w \in Runners, Files!RunSchedule(w)
      PROVE  ReportInv'
  BY <1>3 DEF Files!RunSchedule
<1>4. ASSUME NEW w \in Runners, Files!CheckOwner(w)
      PROVE  ReportInv'
  BY <1>4 DEF Files!CheckOwner, Files!At, Files!OnTo
<1>5. ASSUME NEW w \in Runners, Files!WriteReport(w)
      PROVE  ReportInv'
  BY <1>5 DEF Files!WriteReport, Files!At, Files!OnTo
<1>6. ASSUME NEW w \in Runners, Files!Complete(w)
      PROVE  ReportInv'
  BY <1>6 DEF Files!Complete, Files!At, Files!OnTo
<1>7. ASSUME NEW w \in Runners, NEW n \in Recipients, Files!TellRecipient(w, n)
      PROVE  ReportInv'
  BY <1>7 DEF Files!TellRecipient, Files!At
<1>8. ASSUME NEW w \in Runners, Files!FailReport(w)
      PROVE  ReportInv'
  BY <1>8 DEF Files!FailReport
<1>9. ASSUME NEW w \in Runners, Files!EndRun(w)
      PROVE  ReportInv'
  BY <1>9 DEF Files!EndRun
<1>10. CASE UNCHANGED reportVars
  BY <1>10 DEF reportVars
<1> QED
  BY <1>1, <1>2, <1>3, <1>4, <1>5, <1>6, <1>7, <1>8, <1>9, <1>10 DEF Files!ReportNext

LEMMA ReportInvInit ==
  ASSUME ReportAssumption, Files!ReportInit
  PROVE  ReportInv
BY 
     DEF ReportAssumption, Files!ReportConstants, Files!ReportInit,
         ReportInv, Files!ReportedOnce, Files!Outcomes, RunOwnsDay,
         Files!Jobs

-----------------------------------------------------------------------------
(* Prints.  The constants, and the posted print, which what is said of the    *)
(* next request covers.                                                     *)
LEMMA PrintBounds ==
  ASSUME PrintAssumption
  PROVE  /\ LastVersion \in Nat /\ 1 \in Files!Versions
         /\ None \notin FileNames /\ None \notin Files!Papers /\ None \notin Files!Prints
            /\ None \notin Nat
<1>1. Files!PrintConstants
  BY DEF PrintAssumption
<1>2. LastVersion \in Nat \ {0}
        /\ None \notin FileNames \cup Nat \cup Files!Papers \cup Files!Prints
  BY <1>1 DEF Files!PrintConstants
<1>3. 1 \in Files!Versions
  BY <1>2 DEF Files!Versions
<1> QED
  BY <1>2, <1>3

LEMMA PrintInvNext ==
  ASSUME PrintAssumption, Files!PrintTypeOK', stale' = FALSE, RequestsTyped', LinesGrow',
         CurrentShown', AskedShown'
  PROVE  PrintInv'
<1>1. ASSUME paper'.posted # 0, rendered'[paper'.posted] # None
      PROVE  content'[rendered'[paper'.posted]] \in {0, paper'.lines}
  <2>1. ~paper'.archived
    BY <1>1 DEF LinesGrow
  <2>2. paper'.posted \in Files!Versions /\ paper'.lines \in Files!Versions /\ LastVersion \in Nat
    BY <1>1, PrintBounds DEF Files!PrintTypeOK, Files!Versions
  <2>3. PICK k \in FileNames : k = rendered'[paper'.posted]
    BY <1>1, <2>2 DEF Files!PrintTypeOK
  <2>4. content'[k] # None /\ content'[k] \in Files!Versions \cup {None, 0}
    BY <1>1, <2>2, <2>3 DEF LinesGrow, Files!PrintTypeOK
  <2>5. Files!SourceVersion' = paper'.posted
    BY <1>1 DEF Files!SourceVersion
  <2>6. rendered'[Files!SourceVersion'] # None => Shows(rendered[Files!SourceVersion], paper.lines)'
    BY <2>1 DEF CurrentShown
  <2>7. content'[k] = 0 \/ content'[k] >= paper'.lines
    BY <1>1, <2>3, <2>5, <2>6 DEF Shows
  <2>8. content'[k] \in Files!Versions => content'[k] <= paper'.lines
    BY DEF LinesGrow
  <2> QED
    BY <2>2, <2>3, <2>4, <2>7, <2>8 DEF Files!Versions
<1>2. Files!PrintsAreCurrent'
  BY <1>1 DEF Files!PrintsAreCurrent
<1> QED
  BY <1>2 DEF PrintInv

LEMMA PrintInvInit ==
  ASSUME PrintAssumption, Files!PrintInit
  PROVE  PrintInv
<1>1. 1 \in Files!Versions /\ None \notin Nat /\ LastVersion \in Nat /\ 1 \in Nat
  BY PrintBounds
<1> DEFINE n == [version |-> 1, lines |-> 1, posted |-> 0, archived |-> FALSE]
<1>2. n \in [version : Files!Versions, lines : Files!Versions, posted : 0..LastVersion,
      archived : BOOLEAN]
  BY <1>1
<1>3. paper = n /\ paper.lines = 1 /\ paper.version = 1 /\ paper.posted = 0 /\ ~paper.archived
  BY DEF Files!PrintInit
<1> HIDE DEF n
<1>4. /\ archivist = None /\ content = [k \in FileNames |-> None]
      /\ rendered = [v \in Files!Versions |-> None] /\ reader = [r \in Readers |-> None]
      /\ stale = FALSE
  BY DEF Files!PrintInit
<1>5. Files!PrintTypeOK
  BY <1>2, <1>3, <1>4 DEF Files!PrintTypeOK
<1>6. RequestsTyped
  BY <1>4 DEF RequestsTyped
<1>7. \A k \in FileNames : content[k] \notin Files!Versions
  BY <1>1, <1>4 DEF Files!Versions
<1>8. LinesGrow
  BY <1>3, <1>4, <1>7 DEF LinesGrow
<1>9. Files!SourceVersion = 1
  BY <1>3 DEF Files!SourceVersion
<1>10. CurrentShown
  BY <1>1, <1>3, <1>4, <1>9 DEF CurrentShown
<1>11. AskedShown
  BY <1>4 DEF AskedShown
<1>12. Files!PrintsAreCurrent
  BY <1>3, <1>4, <1>5 DEF Files!PrintsAreCurrent
<1> QED
  BY <1>6, <1>8, <1>10, <1>11, <1>12 DEF PrintInv

(* The version that is asked for next is one of the document's versions. *)
LEMMA SourceInVersions ==
  ASSUME PrintAssumption, PrintInv
  PROVE  /\ Files!SourceVersion \in Files!Versions /\ paper.lines \in Files!Versions
            /\ paper.version \in Files!Versions
         /\ ~paper.archived => Files!SourceVersion <= paper.version
<1>1. paper.version \in Files!Versions /\ paper.posted \in 0..LastVersion
        /\ paper.lines \in Files!Versions
  BY DEF PrintInv, Files!PrintsAreCurrent, Files!PrintTypeOK
<1>2. ~paper.archived => paper.posted <= paper.version
  BY DEF PrintInv, LinesGrow
<1>3. LastVersion \in Nat
  BY PrintBounds
<1>4. CASE paper.posted = 0
  BY <1>1, <1>3, <1>4 DEF Files!SourceVersion, Files!Versions
<1>5. CASE paper.posted # 0
  BY <1>1, <1>2, <1>3, <1>5 DEF Files!SourceVersion, Files!Versions
<1> QED
  BY <1>4, <1>5

(* A new version of the document: nobody has asked for it. *)
LEMMA NewVersion ==
  ASSUME PrintAssumption, PrintInv, ~paper.archived,
         paper' \in Files!Papers, paper'.version = paper.version + 1, ~paper'.archived,
         paper'.lines \in {paper.lines, paper.version + 1},
         paper'.posted \in {paper.posted, paper.version + 1},
         \/ Files!SourceVersion' = paper.version + 1
         \/ Files!SourceVersion' = Files!SourceVersion /\ paper'.lines = paper.lines,
         UNCHANGED <<archivist, content, rendered, reader, stale>>
  PROVE  PrintInv'
<1>1. /\ LastVersion \in Nat
      /\ paper.version \in Files!Versions /\ paper.lines \in Files!Versions
         /\ paper.posted \in 0..LastVersion
  BY PrintBounds DEF PrintInv, Files!PrintsAreCurrent, Files!PrintTypeOK
<1>2. paper.lines <= paper.version /\ paper.posted <= paper.version
  BY DEF PrintInv, LinesGrow
<1>3. Files!PrintTypeOK' /\ stale' = FALSE
  BY 
       DEF PrintInv, Files!PrintsAreCurrent, Files!PrintTypeOK, Files!Papers,
           RequestsTyped
<1>4. RequestsTyped'
  BY DEF PrintInv, RequestsTyped
<1>5. paper'.lines >= paper.lines /\ paper'.lines <= paper'.version
        /\ paper'.posted <= paper'.version
  BY <1>1, <1>2 DEF Files!Versions
<1>6. \A k \in FileNames : content[k] \in Files!Versions => content[k] <= paper'.lines
  BY <1>1, <1>5 DEF PrintInv, LinesGrow, Files!Versions, Files!Papers
<1>7. \A r \in Readers : reader[r] # None => reader[r].since <= paper'.lines
  <2> TAKE r \in Readers
  <2> HAVE reader[r] # None
  <2>1. reader[r].since \in Files!Versions /\ reader[r].since <= paper.lines
    BY DEF PrintInv, LinesGrow, RequestsTyped, Files!Prints
  <2> QED
    BY <1>1, <1>5, <2>1 DEF Files!Versions, Files!Papers
<1>8. LinesGrow'
  BY <1>5, <1>6, <1>7 DEF PrintInv, LinesGrow
<1>9. \A v \in Files!Versions : v > paper'.version => rendered[v] = None
  BY <1>1 DEF PrintInv, CurrentShown, Files!Versions
<1>10. \A r \in Readers : reader[r] # None =>
         reader[r].version \in Files!Versions /\ reader[r].version <= paper.version
  BY DEF PrintInv, CurrentShown, RequestsTyped, Files!Prints
<1>11. \A r \in Readers : reader[r] # None => reader[r].version <= paper'.version
  BY <1>1, <1>10 DEF Files!Versions
<1>12. CASE Files!SourceVersion' = paper.version + 1
  <2>1. Files!SourceVersion' \in Files!Versions
    BY <1>1, <1>12 DEF Files!Papers, Files!Versions
  <2>2. rendered[Files!SourceVersion'] = None
    BY <1>1, <1>12, <2>1 DEF PrintInv, CurrentShown, Files!Versions
  <2>3. \A r \in Readers : reader[r] # None => reader[r].version # Files!SourceVersion'
    BY <1>1, <1>10, <1>12 DEF Files!Versions
  <2>4. CurrentShown'
    BY <1>9, <1>11, <2>2, <2>3 DEF CurrentShown
  <2> QED
    BY <1>3, <1>4, <1>8, <2>4, PrintInvNext
         DEF PrintInv, AskedShown, Files!Cached, Shows
<1>13. CASE Files!SourceVersion' = Files!SourceVersion /\ paper'.lines = paper.lines
  <2>1. \A k : Shows(k, paper.lines)' <=> Shows(k, paper.lines)
    BY <1>13 DEF Shows
  <2>2. CurrentShown'
    BY <1>9, <1>11, <1>13, <2>1 DEF PrintInv, CurrentShown
  <2> QED
    BY <1>3, <1>4, <1>8, <2>2, PrintInvNext
         DEF PrintInv, AskedShown, Files!Cached, Shows
<1> QED
  BY <1>12, <1>13

(* What a request gives is not older than what it asked for. *)
LEMMA GivesCurrent ==
  ASSUME PrintAssumption, PrintInv, NEW r \in Readers, NEW k \in FileNames, reader[r] # None,
         Files!Give(r, k), content[k] # None, ~reader[r].archived => Shows(k, reader[r].since)
  PROVE  stale' = FALSE
<1>1. stale = FALSE /\ LastVersion \in Nat
  BY PrintBounds DEF PrintInv, Files!PrintsAreCurrent, RequestsTyped
<1>2. content[k] \in Files!Versions \cup {0} /\ reader[r].since \in Files!Versions
  BY 
       DEF PrintInv, Files!PrintsAreCurrent, Files!PrintTypeOK,
           RequestsTyped, Files!Prints
<1>3. ~(Files!Readable(k) /\ ~reader[r].archived /\ content[k] < reader[r].since)
  <2> SUFFICES ASSUME content[k] # 0, ~reader[r].archived
               PROVE  ~(content[k] < reader[r].since)
    BY DEF Files!Readable
  <2>1. content[k] >= reader[r].since
    BY DEF Shows
  <2> QED
    BY <1>1, <1>2, <2>1 DEF Files!Versions
<1> QED
  BY <1>1, <1>3 DEF Files!Give

(* A request that ends: what is said of the others stays so. *)
LEMMA RequestEnds ==
  ASSUME PrintAssumption, PrintInv, NEW r \in Readers, reader' = [reader EXCEPT ![r] = None],
         stale' = FALSE, UNCHANGED <<paper, archivist, content, rendered>>
  PROVE  PrintInv'
<1>1. reader'[r] = None /\ \A q \in Readers \ {r} : reader'[q] = reader[q]
  BY DEF PrintInv, RequestsTyped
<1>2. \A q \in Readers : reader'[q] # None => reader[q] # None /\ reader'[q] = reader[q]
  BY <1>1
<1>3. Files!PrintTypeOK'
  BY DEF PrintInv, Files!PrintsAreCurrent, Files!PrintTypeOK
<1>4. RequestsTyped'
  BY DEF PrintInv, RequestsTyped
<1>5. LinesGrow'
  BY <1>2 DEF PrintInv, LinesGrow
<1>6. Files!SourceVersion' = Files!SourceVersion
  BY DEF Files!SourceVersion
<1>7. \A k, l : Shows(k, l)' <=> Shows(k, l)
  BY DEF Shows
<1>8. CurrentShown'
  BY <1>2, <1>6 DEF PrintInv, CurrentShown, Shows
<1>9. AskedShown'
  BY <1>2 DEF PrintInv, AskedShown, Files!Cached, Shows
<1> QED
  BY <1>3, <1>4, <1>5, <1>8, <1>9, PrintInvNext

LEMMA LostFile ==
  ASSUME PrintAssumption, PrintInv, NEW k \in FileNames, Files!LoseFile(k)
  PROVE  PrintInv'
<1>1. /\ content' = [content EXCEPT ![k] = 0] /\ None # 0 /\ 0 \notin Files!Versions
      /\ UNCHANGED <<paper, archivist, rendered, reader, stale>>
  BY PrintBounds DEF Files!LoseFile, Files!Versions
<1>2. content \in [FileNames -> Files!Versions \cup {None, 0}]
  BY DEF PrintInv, Files!PrintsAreCurrent, Files!PrintTypeOK
<1>3. content'[k] = 0 /\ \A j \in FileNames \ {k} : content'[j] = content[j]
  BY <1>1, <1>2
<1>4. Files!PrintTypeOK' /\ stale' = FALSE
  BY <1>1, <1>2 DEF PrintInv, Files!PrintsAreCurrent, Files!PrintTypeOK
<1>5. RequestsTyped'
  BY <1>1 DEF PrintInv, RequestsTyped
<1>6. \A j \in FileNames : content[j] # None => content'[j] # None
  BY <1>1, <1>3
<1>7. \A j \in FileNames : content'[j] \in Files!Versions => content[j] \in Files!Versions
        /\ content'[j] = content[j]
  BY <1>1, <1>3
<1>8. /\ \A v \in Files!Versions : rendered[v] # None => rendered[v] \in FileNames
      /\ \A r \in Readers : reader[r] # None /\ reader[r].file # None =>
         reader[r].file \in FileNames
      /\ \A r \in Readers : reader[r] # None => reader[r].version \in Files!Versions
  BY 
       DEF PrintInv, Files!PrintsAreCurrent, Files!PrintTypeOK,
           RequestsTyped, Files!Prints
<1>9. LinesGrow'
  BY <1>1, <1>6, <1>7, <1>8 DEF PrintInv, LinesGrow
<1>10. \A j \in FileNames : \A l : Shows(j, l) => content'[j] = 0 \/ content'[j] >= l
  BY <1>3 DEF Shows
<1>11. Files!SourceVersion \in Files!Versions /\ Files!SourceVersion' = Files!SourceVersion
  BY <1>1, SourceInVersions DEF Files!SourceVersion
<1>12. CurrentShown'
  BY <1>1, <1>8, <1>10, <1>11 DEF PrintInv, CurrentShown, Shows
<1>13. AskedShown'
  BY <1>1, <1>8, <1>10 DEF PrintInv, AskedShown, Files!Cached, Shows
<1> QED
  BY <1>4, <1>5, <1>9, <1>12, <1>13, PrintInvNext

(* The new request asks for the version that CurrentShown is about. *)
LEMMA AskedPrint ==
  ASSUME PrintAssumption, PrintInv, NEW r \in Readers, Files!AskPrint(r)
  PROVE  PrintInv'
<1>1. /\ Files!SourceVersion \in Files!Versions /\ paper.lines \in Files!Versions
         /\ paper.archived \in BOOLEAN
      /\ ~paper.archived => Files!SourceVersion <= paper.version
  BY SourceInVersions DEF PrintInv, Files!PrintsAreCurrent, Files!PrintTypeOK
<1> DEFINE n == [version |-> Files!SourceVersion, since |-> paper.lines,
  archived |-> paper.archived,
                 file |-> None]
<1>2. n \in Files!Prints
  BY <1>1 DEF Files!Prints
<1>3. /\ n.version = Files!SourceVersion /\ n.since = paper.lines /\ (n.archived <=> paper.archived)
      /\ n.file = None
  OBVIOUS
<1>4. reader' = [reader EXCEPT ![r] = n] /\ UNCHANGED <<paper, archivist, content, rendered, stale>>
  BY DEF Files!AskPrint
<1> HIDE DEF n
<1>5. reader'[r] = n /\ \A q \in Readers \ {r} : reader'[q] = reader[q]
  BY <1>4 DEF PrintInv, RequestsTyped
<1>6. Files!PrintTypeOK' /\ stale' = FALSE
  BY <1>4 DEF PrintInv, Files!PrintsAreCurrent, Files!PrintTypeOK
<1>7. RequestsTyped'
  BY <1>2, <1>4 DEF PrintInv, RequestsTyped
<1>8. paper.lines <= paper.lines
  BY <1>1 DEF Files!Versions
<1>9. LinesGrow'
  BY <1>3, <1>4, <1>5, <1>8 DEF PrintInv, LinesGrow
<1>10. Files!SourceVersion' = Files!SourceVersion
  BY <1>4 DEF Files!SourceVersion
<1>11. CurrentShown'
  BY <1>1, <1>3, <1>4, <1>5, <1>10 DEF PrintInv, CurrentShown, Shows
<1>12. AskedShown'
  <2> SUFFICES ASSUME NEW x \in Readers, reader'[x] # None, ~reader'[x].archived
               PROVE  /\ rendered[reader'[x].version] # None =>
                           Shows(rendered[reader'[x].version], reader'[x].since)
                      /\ \A q \in Readers :
                           reader'[q] # None /\ reader'[q].version = reader'[x].version
                             /\ reader'[q].file # None => Shows(reader'[q].file, reader'[x].since)
    BY <1>4 DEF AskedShown, Files!Cached, Shows
  <2>1. \A q \in Readers : reader'[q].file # None => q # r /\ reader'[q] = reader[q]
    BY <1>3, <1>5
  <2>2. CASE x # r
    <3>1. reader'[x] = reader[x]
      BY <1>5, <2>2
    <3> QED
      BY <2>1, <3>1 DEF PrintInv, AskedShown, Files!Cached
  <2>3. CASE x = r
    <3>1. reader'[x].version = Files!SourceVersion /\ reader'[x].since = paper.lines
            /\ ~paper.archived
      BY <1>3, <1>5, <2>3
    <3> QED
      BY <2>1, <3>1 DEF PrintInv, CurrentShown
  <2> QED
    BY <2>2, <2>3
<1> QED
  BY <1>6, <1>7, <1>9, <1>11, <1>12, PrintInvNext

(* The file is new, so that nobody has been given it, and its lines are the    *)
(* newest there are.                                                        *)
LEMMA ComposedPrint ==
  ASSUME PrintAssumption, PrintInv, NEW r \in Readers, NEW k \in FileNames, Files!Compose(r, k)
  PROVE  PrintInv'
<1>1. /\ reader[r] # None /\ reader[r].file = None /\ content[k] = None
      /\ content' = [content EXCEPT ![k] = paper.lines]
      /\ reader' = [reader EXCEPT ![r].file = k]
      /\ UNCHANGED <<paper, archivist, rendered, stale>>
  BY DEF Files!Compose
<1>2. /\ content \in [FileNames -> Files!Versions \cup {None, 0}] /\ paper.lines \in Files!Versions
      /\ reader \in [Readers -> Files!Prints \cup {None}] /\ None \notin Files!Versions
         /\ None \notin FileNames
  BY PrintBounds
       DEF PrintInv, Files!PrintsAreCurrent, Files!PrintTypeOK,
           RequestsTyped, Files!Versions
<1>3. PICK row \in Files!Prints : row = reader[r]
  BY <1>1, <1>2
<1> DEFINE n == [row EXCEPT !.file = k]
<1>4. n \in Files!Prints
  BY DEF Files!Prints
<1>5. n.version = row.version /\ n.since = row.since /\ n.archived = row.archived /\ n.file = k
  BY DEF Files!Prints
<1>6. reader' = [reader EXCEPT ![r] = n]
  BY <1>1, <1>3
<1> HIDE DEF n
<1>7. reader'[r] = n /\ \A q \in Readers \ {r} : reader'[q] = reader[q]
  BY <1>2, <1>6
<1>8. content'[k] = paper.lines /\ \A j \in FileNames \ {k} : content'[j] = content[j]
  BY <1>1, <1>2
<1>9. Files!PrintTypeOK' /\ stale' = FALSE
  BY <1>1, <1>2 DEF PrintInv, Files!PrintsAreCurrent, Files!PrintTypeOK
<1>10. RequestsTyped'
  BY <1>1, <1>4, <1>6 DEF PrintInv, RequestsTyped
<1>11. /\ \A v \in Files!Versions : rendered[v] # None => rendered[v] \in FileNames \ {k}
       /\ \A q \in Readers : reader[q] # None /\ reader[q].file # None =>
          reader[q].file \in FileNames \ {k}
       /\ \A q \in Readers : reader[q] # None => reader[q].version \in Files!Versions
          /\ reader[q].since \in Files!Versions
  BY <1>1
       DEF PrintInv, Files!PrintsAreCurrent, Files!PrintTypeOK,
           RequestsTyped, Files!Prints, LinesGrow
<1>12. paper.lines <= paper.lines /\ paper.lines # None
  BY <1>2 DEF Files!Versions
<1>13. \A q \in Readers : reader'[q] # None =>
         /\ reader[q] # None /\ reader'[q].version = reader[q].version
         /\ reader'[q].since = reader[q].since /\ (reader'[q].archived <=> reader[q].archived)
         /\ reader'[q].file # None =>
              (q = r /\ reader'[q].file = k)
                \/ (reader[q].file # None /\ reader'[q].file = reader[q].file)
  BY <1>1, <1>3, <1>5, <1>7
<1>14. LinesGrow'
  <2>1. \A j \in FileNames : content'[j] \in Files!Versions => content'[j] <= paper.lines
    BY <1>8, <1>12 DEF PrintInv, LinesGrow
  <2>2. \A v \in Files!Versions : rendered[v] # None => content'[rendered[v]] # None
    BY <1>8, <1>11 DEF PrintInv, LinesGrow
  <2>3. \A q \in Readers : reader'[q] # None =>
          reader'[q].since <= paper.lines
            /\ (reader'[q].file # None => content'[reader'[q].file] # None)
    BY <1>8, <1>11, <1>12, <1>13 DEF PrintInv, LinesGrow
  <2> QED
    BY <1>1, <2>1, <2>2, <2>3 DEF PrintInv, LinesGrow
<1>15. /\ \A j \in FileNames \ {k} : \A l : Shows(j, l) => content'[j] = 0 \/ content'[j] >= l
       /\ content'[k] >= paper.lines
  BY <1>2, <1>8 DEF Shows, Files!Versions
<1>16. Files!SourceVersion \in Files!Versions /\ Files!SourceVersion' = Files!SourceVersion
  BY <1>1, SourceInVersions DEF Files!SourceVersion
<1>17. CurrentShown'
  <2> SUFFICES ASSUME ~paper.archived
               PROVE  /\ \A v \in Files!Versions : v > paper.version => rendered[v] = None
                      /\ rendered[Files!SourceVersion] # None =>
                         Shows(rendered[Files!SourceVersion], paper.lines)'
                      /\ \A q \in Readers : reader'[q] # None =>
                           /\ reader'[q].version <= paper.version
                           /\ reader'[q].version = Files!SourceVersion /\ reader'[q].file # None =>
                                Shows(reader[q].file, paper.lines)'
    BY <1>1, <1>16 DEF CurrentShown
  <2>1. rendered[Files!SourceVersion] # None => Shows(rendered[Files!SourceVersion], paper.lines)'
    BY <1>1, <1>11, <1>15, <1>16 DEF PrintInv, CurrentShown, Shows
  <2>2. \A q \in Readers : reader'[q] # None => reader'[q].version <= paper.version
    BY <1>13 DEF PrintInv, CurrentShown
  <2>3. ASSUME NEW q \in Readers, reader'[q] # None,
               reader'[q].version = Files!SourceVersion, reader'[q].file # None
        PROVE  Shows(reader[q].file, paper.lines)'
    <3>1. CASE reader'[q].file = k
      BY <1>1, <1>15, <3>1 DEF Shows
    <3>2. CASE reader[q].file # None /\ reader'[q].file = reader[q].file
      BY <1>1, <1>11, <1>13, <1>15, <2>3, <3>2
           DEF PrintInv, CurrentShown, Shows
    <3> QED
      BY <1>13, <2>3, <3>1, <3>2
  <2> QED
    BY <2>1, <2>2, <2>3 DEF PrintInv, CurrentShown
<1>18. AskedShown'
  <2> SUFFICES ASSUME NEW x \in Readers, reader'[x] # None, ~reader'[x].archived
               PROVE  /\ Files!Cached(x)' # None => Shows(Files!Cached(x), reader[x].since)'
                      /\ \A q \in Readers :
                           reader'[q] # None /\ reader'[q].version = reader'[x].version
                             /\ reader'[q].file # None => Shows(reader[q].file, reader[x].since)'
    BY DEF AskedShown
  <2>1. /\ reader[x] # None /\ ~reader[x].archived /\ reader[x].version \in Files!Versions
        /\ reader'[x].version = reader[x].version /\ reader'[x].since = reader[x].since
        /\ reader[x].since \in Files!Versions /\ reader[x].since <= paper.lines
    BY <1>11, <1>13 DEF PrintInv, LinesGrow
  <2>2. Files!Cached(x)' # None => Shows(Files!Cached(x), reader[x].since)'
    BY <1>1, <1>11, <1>15, <2>1
       DEF PrintInv, AskedShown, Files!Cached, Shows
  <2>3. ASSUME NEW q \in Readers, reader'[q] # None,
               reader'[q].version = reader'[x].version, reader'[q].file # None
        PROVE  Shows(reader[q].file, reader[x].since)'
    <3>1. CASE reader'[q].file = k
      <4>1. content'[k] >= reader[x].since
        BY <1>2, <1>8, <2>1 DEF Files!Versions
      <4> QED
        BY <2>1, <3>1, <4>1 DEF Shows
    <3>2. CASE reader[q].file # None /\ reader'[q].file = reader[q].file
      BY <1>11, <1>13, <1>15, <2>1, <2>3, <3>2
         DEF PrintInv, AskedShown, Shows
    <3> QED
      BY <1>13, <2>3, <3>1, <3>2
  <2> QED
    BY <2>2, <2>3
<1> QED
  BY <1>9, <1>10, <1>14, <1>17, <1>18, PrintInvNext

(* The first file of a version becomes its print. *)
LEMMA RegisteredPrint ==
  ASSUME PrintAssumption, PrintInv, NEW r \in Readers, Files!Register(r)
  PROVE  PrintInv'
<1>1. /\ reader[r] # None /\ reader[r].file # None /\ reader' = [reader EXCEPT ![r] = None]
      /\ UNCHANGED <<paper, archivist, content>>
  BY DEF Files!Register
<1>2. CASE Files!Cached(r) # None
  <2>1. UNCHANGED <<rendered, stale>>
    BY <1>2 DEF Files!Register
  <2>2. stale' = FALSE
    BY <2>1 DEF PrintInv, Files!PrintsAreCurrent
  <2> QED
    BY <1>1, <2>1, <2>2, RequestEnds
<1>3. CASE Files!Cached(r) = None
  <2>1. PICK row \in Files!Prints : row = reader[r]
    BY <1>1 DEF PrintInv, RequestsTyped
  <2>2. row.version \in Files!Versions /\ row.file \in FileNames
    BY <1>1, <2>1 DEF Files!Prints
  <2>3. /\ rendered' = [rendered EXCEPT ![row.version] = row.file] /\ Files!Give(r, row.file)
    BY <1>3, <2>1 DEF Files!Register
  <2>4. ~row.archived => Shows(row.file, row.since)
    BY <1>1, <2>1 DEF PrintInv, AskedShown
  <2>17. content[row.file] # None
    BY <1>1, <2>1 DEF PrintInv, LinesGrow
  <2>5. stale' = FALSE
    BY <1>1, <2>1, <2>2, <2>3, <2>4, <2>17, GivesCurrent
  <2>6. reader'[r] = None /\ \A q \in Readers \ {r} : reader'[q] = reader[q]
    BY <1>1 DEF PrintInv, RequestsTyped
  <2>7. \A q \in Readers : reader'[q] # None => reader[q] # None /\ reader'[q] = reader[q]
    BY <2>6
  <2>8. rendered'[row.version] = row.file
          /\ \A v \in Files!Versions \ {row.version} : rendered'[v] = rendered[v]
    BY <2>2, <2>3 DEF PrintInv, Files!PrintsAreCurrent, Files!PrintTypeOK
  <2>9. Files!PrintTypeOK'
    BY <1>1, <2>2, <2>3 DEF PrintInv, Files!PrintsAreCurrent, Files!PrintTypeOK
  <2>10. RequestsTyped'
    BY <1>1, <2>5 DEF PrintInv, RequestsTyped
  <2>11. \A v \in Files!Versions : rendered'[v] # None => content[rendered'[v]] # None
    BY <1>1, <2>1, <2>8 DEF PrintInv, LinesGrow
  <2>12. LinesGrow'
    BY <1>1, <2>7, <2>11 DEF PrintInv, LinesGrow
  <2>13. Files!SourceVersion \in Files!Versions /\ Files!SourceVersion' = Files!SourceVersion
    BY <1>1, SourceInVersions DEF Files!SourceVersion
  <2>14. \A k, l : Shows(k, l)' <=> Shows(k, l)
    BY <1>1 DEF Shows
  <2>15. CurrentShown'
    <3> SUFFICES ASSUME ~paper.archived
                 PROVE  /\ \A v \in Files!Versions : v > paper.version => rendered'[v] = None
                        /\ rendered'[Files!SourceVersion] # None =>
                           Shows(rendered'[Files!SourceVersion], paper.lines)
                        /\ \A q \in Readers : reader'[q] # None =>
                             /\ reader'[q].version <= paper.version
                             /\ reader'[q].version = Files!SourceVersion
                                /\ reader'[q].file # None =>
                                  Shows(reader'[q].file, paper.lines)
      BY <1>1, <2>13 DEF CurrentShown, Shows
    <3>1. row.version <= paper.version /\ paper.version \in Files!Versions /\ LastVersion \in Nat
      BY <1>1, <2>1, PrintBounds
           DEF PrintInv, CurrentShown, Files!PrintsAreCurrent,
               Files!PrintTypeOK
    <3>2. \A v \in Files!Versions : v > paper.version => v # row.version /\ rendered[v] = None
      BY <2>2, <3>1 DEF PrintInv, CurrentShown, Files!Versions
    <3>3. \A v \in Files!Versions : v > paper.version => rendered'[v] = None
      BY <2>8, <3>2
    <3>4. rendered'[Files!SourceVersion] # None =>
            Shows(rendered'[Files!SourceVersion], paper.lines)
      BY <1>1, <2>1, <2>8, <2>13 DEF PrintInv, CurrentShown
    <3> QED
      BY <2>7, <3>3, <3>4 DEF PrintInv, CurrentShown
  <2>16. AskedShown'
    <3> SUFFICES ASSUME NEW x \in Readers, reader'[x] # None, ~reader'[x].archived
                 PROVE  /\ rendered'[reader'[x].version] # None =>
                             Shows(rendered'[reader'[x].version], reader'[x].since)
                        /\ \A q \in Readers :
                             reader'[q] # None /\ reader'[q].version = reader'[x].version
                               /\ reader'[q].file # None => Shows(reader'[q].file, reader'[x].since)
      BY <1>1 DEF AskedShown, Files!Cached, Shows
    <3>1. reader[x] # None /\ reader'[x] = reader[x] /\ reader[x].version \in Files!Versions
      BY <2>7 DEF PrintInv, RequestsTyped, Files!Prints
    <3>2. rendered'[reader[x].version] # None =>
            Shows(rendered'[reader[x].version], reader[x].since)
      BY <1>1, <2>1, <2>8, <3>1 DEF PrintInv, AskedShown, Files!Cached
    <3> QED
      BY <2>7, <3>1, <3>2 DEF PrintInv, AskedShown
  <2> QED
    BY <2>5, <2>9, <2>10, <2>12, <2>15, <2>16, PrintInvNext
<1> QED
  BY <1>2, <1>3

LEMMA PrintInvStep ==
  ASSUME PrintAssumption, PrintInv, [Files!PrintNext]_printVars
  PROVE  PrintInv'
<1>1. CASE Files!EditLines \/ Files!TouchPaper \/ Files!PostPaper
  <2>1. /\ ~paper.archived /\ paper.version < LastVersion /\ LastVersion \in Nat
        /\ paper \in Files!Papers /\ paper.version \in Files!Versions
        /\ UNCHANGED <<archivist, content, rendered, reader, stale>>
    BY <1>1, PrintBounds
         DEF Files!EditLines, Files!TouchPaper, Files!PostPaper, Files!Editable,
             PrintInv,
       Files!PrintsAreCurrent, Files!PrintTypeOK, Files!Papers
  <2>2. PICK row \in Files!Papers : row = paper
    BY <2>1
  <2>3. row.version + 1 \in Files!Versions /\ row.version + 1 \in 0..LastVersion
          /\ row.version + 1 # 0
    BY <2>1, <2>2 DEF Files!Versions
  <2>4. CASE Files!EditLines
    <3> DEFINE n == [row EXCEPT !.version = row.version + 1, !.lines = row.version + 1]
    <3>1. n \in Files!Papers
      BY <2>3 DEF Files!Papers
    <3>2. /\ n.version = row.version + 1 /\ n.lines = row.version + 1 /\ n.posted = row.posted
          /\ (n.archived <=> row.archived)
      BY DEF Files!Papers
    <3>3. paper' = n /\ paper.posted = 0
      BY <2>2, <2>4 DEF Files!EditLines
    <3> HIDE DEF n
    <3>4. Files!SourceVersion' = paper.version + 1
      BY <2>2, <3>2, <3>3 DEF Files!SourceVersion
    <3> QED
      BY <2>1, <2>2, <3>1, <3>2, <3>3, <3>4, NewVersion
  <2>5. CASE Files!TouchPaper
    <3> DEFINE n == [row EXCEPT !.version = row.version + 1]
    <3>1. n \in Files!Papers
      BY <2>3 DEF Files!Papers
    <3>2. /\ n.version = row.version + 1 /\ n.lines = row.lines /\ n.posted = row.posted
          /\ (n.archived <=> row.archived)
      BY DEF Files!Papers
    <3>3. paper' = n
      BY <2>2, <2>5 DEF Files!TouchPaper
    <3> HIDE DEF n
    <3>4. Files!SourceVersion' = paper.version + 1 \/ Files!SourceVersion' = Files!SourceVersion
      BY <2>2, <3>2, <3>3 DEF Files!SourceVersion
    <3> QED
      BY <2>1, <2>2, <3>1, <3>2, <3>3, <3>4, NewVersion
  <2>6. CASE Files!PostPaper
    <3> DEFINE n == [row EXCEPT !.version = row.version + 1, !.posted = row.version + 1]
    <3>1. n \in Files!Papers
      BY <2>3 DEF Files!Papers
    <3>2. /\ n.version = row.version + 1 /\ n.lines = row.lines /\ n.posted = row.version + 1
          /\ (n.archived <=> row.archived)
      BY DEF Files!Papers
    <3>3. paper' = n
      BY <2>2, <2>6 DEF Files!PostPaper
    <3> HIDE DEF n
    <3>4. Files!SourceVersion' = paper.version + 1
      BY <2>2, <2>3, <3>2, <3>3 DEF Files!SourceVersion
    <3> QED
      BY <2>1, <2>2, <3>1, <3>2, <3>3, <3>4, NewVersion
  <2> QED
    BY <1>1, <2>4, <2>5, <2>6
<1>2. CASE Files!ReadToArchive
  <2>1. /\ archivist' = paper /\ paper \in Files!Papers /\ paper.posted = 0
           /\ paper.version < LastVersion
        /\ UNCHANGED <<paper, content, rendered, reader, stale>>
    BY <1>2
         DEF Files!ReadToArchive, Files!Editable, PrintInv,
             Files!PrintsAreCurrent, Files!PrintTypeOK, Files!Papers
  <2>2. Files!PrintTypeOK' /\ stale' = FALSE
    BY <2>1
       DEF PrintInv, Files!PrintsAreCurrent, Files!PrintTypeOK,
           RequestsTyped
  <2>3. RequestsTyped'
    BY <2>1 DEF PrintInv, RequestsTyped
  <2>4. LinesGrow' /\ CurrentShown'
    BY <2>1
         DEF PrintInv, LinesGrow, CurrentShown,
             Files!SourceVersion, Shows
  <2>5. AskedShown'
    BY <2>1 DEF PrintInv, AskedShown, Files!Cached, Shows
  <2> QED
    BY <2>2, <2>3, <2>4, <2>5, PrintInvNext
<1>3. CASE Files!ArchivePaper
  <2>1. /\ archivist \in Files!Papers /\ archivist.posted = 0 /\ archivist.version < LastVersion
        /\ paper.lines \in Files!Versions /\ LastVersion \in Nat /\ archivist' = None
        /\ UNCHANGED <<content, rendered, reader, stale>>
    BY <1>3, PrintBounds
         DEF Files!ArchivePaper, PrintInv, Files!PrintsAreCurrent,
             Files!PrintTypeOK, RequestsTyped
  <2>2. PICK row \in Files!Papers : row = archivist
    BY <2>1
  <2>3. PICK l \in Files!Versions : l = paper.lines
    BY <2>1
  <2>4. row.version + 1 \in Files!Versions
    BY <2>1, <2>2 DEF Files!Papers, Files!Versions
  <2> DEFINE n == [row EXCEPT !.version = row.version + 1, !.archived = TRUE, !.lines = l]
  <2>5. n \in Files!Papers
    BY <2>4 DEF Files!Papers
  <2>6. n.lines = l /\ n.posted = row.posted /\ n.archived
    BY DEF Files!Papers
  <2>7. paper' = n
    BY <1>3, <2>2, <2>3 DEF Files!ArchivePaper
  <2> HIDE DEF n
  <2>8. paper' \in Files!Papers /\ paper'.archived /\ paper'.posted = 0
          /\ paper'.lines = paper.lines
    BY <2>1, <2>2, <2>3, <2>5, <2>6, <2>7
  <2>9. Files!PrintTypeOK' /\ stale' = FALSE
    BY <2>1, <2>8
         DEF PrintInv, Files!PrintsAreCurrent, Files!PrintTypeOK,
             RequestsTyped, Files!Papers
  <2>10. RequestsTyped'
    BY <2>1 DEF PrintInv, RequestsTyped
  <2>11. LinesGrow' /\ CurrentShown'
    BY <2>1, <2>8 DEF PrintInv, LinesGrow, CurrentShown
  <2>12. AskedShown'
    BY <2>1 DEF PrintInv, AskedShown, Files!Cached, Shows
  <2> QED
    BY <2>9, <2>10, <2>11, <2>12, PrintInvNext
<1>4. ASSUME NEW r \in Readers, Files!ServeCached(r)
      PROVE  PrintInv'
  <2>1. /\ reader[r] # None /\ Files!Readable(Files!Cached(r)) /\ Files!Give(r, Files!Cached(r))
        /\ reader' = [reader EXCEPT ![r] = None]
        /\ UNCHANGED <<paper, archivist, content, rendered>>
    BY <1>4 DEF Files!ServeCached
  <2>2. reader[r].version \in Files!Versions /\ Files!Cached(r) # None
    BY <2>1 DEF PrintInv, RequestsTyped, Files!Prints, Files!Readable
  <2>3. Files!Cached(r) \in FileNames /\ content[Files!Cached(r)] # None
    BY <2>2
         DEF PrintInv, Files!PrintsAreCurrent, Files!PrintTypeOK,
             LinesGrow, Files!Cached
  <2>4. ~reader[r].archived => Shows(Files!Cached(r), reader[r].since)
    BY <2>1, <2>2 DEF PrintInv, AskedShown
  <2>5. stale' = FALSE
    BY <2>1, <2>3, <2>4, GivesCurrent
  <2> QED
    BY <2>1, <2>5, RequestEnds
<1>5. ASSUME NEW r \in Readers, Files!DiePrinting(r)
      PROVE  PrintInv'
  <2>1. /\ reader' = [reader EXCEPT ![r] = None] /\ stale' = FALSE
        /\ UNCHANGED <<paper, archivist, content, rendered>>
    BY <1>5
       DEF Files!DiePrinting, PrintInv, Files!PrintsAreCurrent,
           RequestsTyped
  <2> QED
    BY <2>1, RequestEnds
<1>6. CASE UNCHANGED printVars
  <2>1. UNCHANGED <<paper, archivist, content, rendered, reader, stale>>
    BY <1>6 DEF printVars
  <2>2. Files!PrintTypeOK' /\ stale' = FALSE
    BY <2>1
       DEF PrintInv, Files!PrintsAreCurrent, Files!PrintTypeOK,
           RequestsTyped
  <2>3. RequestsTyped' /\ LinesGrow'
    BY <2>1 DEF PrintInv, RequestsTyped, LinesGrow
  <2>4. CurrentShown'
    BY <2>1 DEF PrintInv, CurrentShown, Files!SourceVersion, Shows
  <2>5. AskedShown'
    BY <2>1 DEF PrintInv, AskedShown, Files!Cached, Shows
  <2> QED
    BY <2>2, <2>3, <2>4, <2>5, PrintInvNext
<1> QED
  BY <1>1, <1>2, <1>3, <1>4, <1>5, <1>6, LostFile, AskedPrint, ComposedPrint,
     RegisteredPrint
  DEF Files!PrintNext

-----------------------------------------------------------------------------
(* Jobs.  The rows that are written, and what they say. *)
LEMMA JobConstants ==
  ASSUME WorkAssumption
  PROVE  /\ MaxPlanned \in Nat /\ None \notin Worked!JobRows
            /\ None \notin [Stages -> Worked!StageRows]
BY DEF WorkAssumption, Worked!WorkConstants

LEMMA JobTouched ==
  ASSUME NEW row \in Worked!JobRows
  PROVE  /\ Worked!Touch(row) \in Worked!JobRows /\ Worked!Touch(row).status = row.status
         /\ Worked!Touch(row).archived <=> row.archived
<1>1. row.version + 1 \in Nat
  BY DEF Worked!JobRows
<1> DEFINE n == [row EXCEPT !.version = row.version + 1]
<1>2. n \in Worked!JobRows
  BY <1>1 DEF Worked!JobRows
<1>3. n.status = row.status
  BY DEF Worked!JobRows
<1>4. n.archived <=> row.archived
  BY DEF Worked!JobRows
<1>5. Worked!Touch(row) = n
  BY DEF Worked!Touch
<1> HIDE DEF n
<1> QED
  BY <1>2, <1>3, <1>4, <1>5

(* What the steps on a job make of its row. *)
LEMMA EditBecomes ==
  ASSUME WorkAssumption, Worked!WorkTypeOK, NEW q \in 1..MaxPlanned, Worked!EditJob(q)
  PROVE  /\ Worked!Live /\ job \in Worked!JobRows /\ job' \in Worked!JobRows
         /\ job'.status = job.status /\ (job'.archived <=> job.archived)
<1>1. job \in Worked!JobRows /\ Worked!Live
  BY DEF Worked!WorkTypeOK, Worked!EditJob, Worked!Live
<1>10. MaxPlanned \in Nat
  BY JobConstants
<1>2. q \in Worked!Quantity
  BY <1>10, SMT DEF Worked!Quantity
<1>3. PICK row \in Worked!JobRows : row = job
  BY <1>1
<1> DEFINE n == [row EXCEPT !.qty = q]
<1>4. n \in Worked!JobRows /\ n.status = row.status /\ (n.archived <=> row.archived)
  BY <1>2 DEF Worked!JobRows
<1>5. job' = Worked!Touch(n)
  BY <1>3 DEF Worked!EditJob
<1> HIDE DEF n
<1> QED
  BY <1>1, <1>3, <1>4, <1>5, JobTouched

LEMMA TransitionBecomes ==
  ASSUME Worked!WorkTypeOK, NEW t \in {"in_progress", "on_hold", "completed", "cancelled"},
         Worked!Transition(t)
  PROVE  /\ Worked!Live /\ job \in Worked!JobRows /\ job.status \notin Worked!ClosedStates
         /\ job' \in Worked!JobRows /\ job'.status = t /\ (job'.archived <=> job.archived)
<1>1. job \in Worked!JobRows /\ Worked!Live
  BY DEF Worked!WorkTypeOK, Worked!Transition, Worked!Live
<1>2. job.status \notin Worked!ClosedStates
  BY DEF Worked!Transition, Worked!Targets, Worked!ClosedStates
<1>3. PICK row \in Worked!JobRows : row = job
  BY <1>1
<1>4. PICK done \in Worked!Quantity : done = IF t = "completed" THEN row.qty ELSE row.completed
  BY DEF Worked!JobRows
<1> DEFINE n == [row EXCEPT !.status = t, !.completed = done]
<1>5. t \in {"pending", "in_progress", "on_hold"} \cup Worked!ClosedStates
  BY DEF Worked!ClosedStates
<1>6. n \in Worked!JobRows /\ n.status = t /\ (n.archived <=> row.archived)
  BY <1>5 DEF Worked!JobRows
<1>7. job' = Worked!Touch(n)
  BY <1>3, <1>4 DEF Worked!Transition
<1> HIDE DEF n
<1> QED
  BY <1>1, <1>2, <1>3, <1>6, <1>7, JobTouched

LEMMA RecordBecomes ==
  ASSUME Worked!WorkTypeOK, NEW s \in Stages, NEW a \in Worked!Quantity,
         NEW b \in Worked!Quantity, Worked!RecordStage(s, a, b)
  PROVE  /\ Worked!Live /\ job \in Worked!JobRows /\ job.status \notin Worked!ClosedStates
         /\ job' \in Worked!JobRows /\ job'.status \notin Worked!ClosedStates
            /\ (job'.archived <=> job.archived)
<1>1. job \in Worked!JobRows /\ Worked!Live /\ job.status \notin Worked!ClosedStates
  BY DEF Worked!WorkTypeOK, Worked!RecordStage, Worked!Live
<1>2. PICK row \in Worked!JobRows : row = job
  BY <1>1
<1>3. PICK t \in {"pending", "in_progress", "on_hold"} \cup Worked!ClosedStates :
        t = (IF row.status = "pending" THEN "in_progress" ELSE row.status)
          /\ t \notin Worked!ClosedStates
  BY <1>1, <1>2 DEF Worked!JobRows, Worked!ClosedStates
<1> DEFINE n == [row EXCEPT !.status = t]
<1>4. n \in Worked!JobRows /\ n.status = t /\ (n.archived <=> row.archived)
  BY DEF Worked!JobRows
<1>5. job' = Worked!Touch(n)
  BY <1>2, <1>3 DEF Worked!RecordStage
<1> HIDE DEF n
<1> QED
  BY <1>1, <1>2, <1>3, <1>4, <1>5, JobTouched

LEMMA ArchiveBecomes ==
  ASSUME Worked!WorkTypeOK, NEW c \in Clerks, Worked!FinishArchive(c)
  PROVE  /\ jobReads[c] \in Worked!JobRows /\ job # None
         /\ job' \in Worked!JobRows /\ job'.status = jobReads[c].status /\ job'.archived
<1>1. jobReads[c] \in Worked!JobRows /\ job # None
  BY DEF Worked!WorkTypeOK, Worked!FinishArchive
<1>2. PICK row \in Worked!JobRows : row = jobReads[c]
  BY <1>1
<1> DEFINE n == [row EXCEPT !.archived = TRUE]
<1>3. n \in Worked!JobRows /\ n.status = row.status /\ n.archived
  BY DEF Worked!JobRows
<1>4. job' = Worked!Touch(n)
  BY <1>2 DEF Worked!FinishArchive
<1> HIDE DEF n
<1> QED
  BY <1>1, <1>2, <1>3, <1>4, JobTouched

(* What the proofs about WorkOrders need beside its properties: a row that  *)
(* says closed, stored or only read, was closed, and nothing is recorded of *)
(* a closed job.                                                            *)

(* What a row says of the job is so. *)
ToldTruly(row) ==
  /\ row.status \in Worked!ClosedStates => closedAs # None
  /\ row.status = "completed" => \A s \in Stages : Worked!Done(s)

WorkInv ==
  /\ Worked!WorkTypeOK
  /\ Worked!WorkReportedTruly
  /\ job # None =>
       /\ \A s \in Stages : Worked!Done(s) => stages[s].completed = stages[s].planned
       /\ ToldTruly(job)
  /\ \A c \in Clerks : jobReads[c] # None => ToldTruly(jobReads[c])

(* The steps that leave the stages and what was closed as they are: the job   *)
(* keeps its status, or takes one that tells truly.                          *)
LEMMA JobRowWritten ==
  ASSUME WorkAssumption, WorkInv, job # None, job' \in Worked!JobRows, UNCHANGED <<stages,
         closedAs>>,
         ToldTruly(job'), raced' \in BOOLEAN,
         closedAs # None => job'.status \in Worked!ClosedStates \/ (job'.archived /\ raced'),
         jobReads' \in [Clerks -> Worked!JobRows \cup {None}],
         \A c \in Clerks : jobReads'[c] # None => ToldTruly(jobReads'[c])
  PROVE  WorkInv'
<1>1. job' # None
  BY JobConstants
<1>2. \A row \in Worked!JobRows : ToldTruly(row)' <=> ToldTruly(row)
  BY DEF ToldTruly, Worked!Done
<1>3. Worked!WorkTypeOK'
  BY <1>1 DEF WorkInv, Worked!WorkTypeOK
<1>4. \A c \in Clerks : jobReads'[c] # None => jobReads'[c] \in Worked!JobRows
  OBVIOUS
<1>5. ToldTruly(job)' /\ \A c \in Clerks : jobReads'[c] # None => ToldTruly(jobReads[c])'
  BY <1>2, <1>4 DEF ToldTruly, Worked!Done
<1>6. \A s \in Stages : Worked!Done(s)' => stages'[s].completed = stages'[s].planned
  BY DEF WorkInv, Worked!Done
<1>7. job'.status = "completed" => \A s \in Stages : stages[s].completed = stages[s].planned
  BY DEF ToldTruly, WorkInv
<1>8. Worked!WorkReportedTruly'
  BY <1>7 DEF WorkInv, Worked!WorkReportedTruly
<1> QED
  BY <1>3, <1>5, <1>6, <1>8 DEF WorkInv

LEMMA WorkInvInit ==
  ASSUME WorkAssumption, Worked!WorkInit
  PROVE  WorkInv
BY DEF Worked!WorkInit, WorkInv, Worked!WorkTypeOK, Worked!WorkReportedTruly

LEMMA WorkInvStep ==
  ASSUME WorkAssumption, WorkInv, [Worked!WorkNext]_jobVars
  PROVE  WorkInv'
<1> USE JobConstants
<1>1. ASSUME NEW q \in 1..MaxPlanned, Worked!CreateJob(q)
      PROVE  WorkInv'
  <2> DEFINE n == [status |-> "pending", qty |-> q, completed |-> 0, version |-> 1,
    archived |-> FALSE]
             m == [planned |-> q, completed |-> 0, rejected |-> 0, status |-> "pending"]
  <2>11. MaxPlanned \in Nat
    BY JobConstants
  <2>10. q \in Worked!Quantity /\ 0 \in Worked!Quantity
    BY <2>11, SMT DEF Worked!Quantity
  <2>1. n \in Worked!JobRows /\ n.status = "pending"
    BY <2>10 DEF Worked!JobRows
  <2>2. m \in Worked!StageRows /\ m.planned = q /\ m.completed = 0 /\ m.rejected = 0
          /\ m.status = "pending"
    BY <2>10 DEF Worked!StageRows
  <2>3. /\ job = None /\ job' = n /\ stages' = [s \in Stages |-> m]
        /\ UNCHANGED <<jobReads, closedAs, raced>>
    BY <1>1 DEF Worked!CreateJob
  <2> HIDE DEF n, m
  <2>4. closedAs = None /\ \A c \in Clerks : jobReads[c] = None
    BY <2>3 DEF WorkInv, Worked!WorkTypeOK
  <2>5. Worked!WorkTypeOK'
    BY <2>1, <2>2, <2>3, <2>4 DEF WorkInv, Worked!WorkTypeOK
  <2>6. \A s \in Stages : stages'[s] = m
    BY <2>3
  <2>7. job'.status = "pending"
    BY <2>1, <2>3
  <2>8. Worked!WorkReportedTruly'
    BY <2>2, <2>3, <2>4, <2>6, <2>7 DEF Worked!WorkReportedTruly
  <2>9. ToldTruly(job)'
    BY <2>7 DEF ToldTruly, Worked!ClosedStates
  <2> QED
    BY <2>2, <2>3, <2>4, <2>5, <2>6, <2>8, <2>9 DEF WorkInv, Worked!Done
<1>2. ASSUME NEW q \in 1..MaxPlanned, Worked!EditJob(q)
      PROVE  WorkInv'
  <2>1. /\ Worked!Live /\ job' \in Worked!JobRows /\ job'.status = job.status
           /\ (job'.archived <=> job.archived)
        /\ UNCHANGED <<stages, jobReads, closedAs, raced>>
    BY <1>2, EditBecomes DEF WorkInv, Worked!EditJob
  <2>2. ToldTruly(job') /\ \A c \in Clerks : jobReads'[c] # None => ToldTruly(jobReads'[c])
    BY <2>1 DEF WorkInv, ToldTruly, Worked!Live
  <2>3. closedAs # None => job'.status \in Worked!ClosedStates \/ (job'.archived /\ raced')
    BY <2>1 DEF WorkInv, Worked!WorkReportedTruly, Worked!Live
  <2> QED
    BY <2>1, <2>2, <2>3, JobRowWritten
       DEF WorkInv, Worked!WorkTypeOK, Worked!Live
<1>3. ASSUME NEW t \in {"in_progress", "on_hold", "completed", "cancelled"},
             Worked!Transition(t)
      PROVE  WorkInv'
  <2>1. /\ Worked!Live /\ job.status \notin Worked!ClosedStates
        /\ job' \in Worked!JobRows /\ job'.status = t /\ (job'.archived <=> job.archived)
        /\ UNCHANGED <<stages, jobReads, raced>>
    BY <1>3, TransitionBecomes DEF WorkInv, Worked!Transition
  <2>2. closedAs = None
    BY <2>1 DEF WorkInv, Worked!WorkReportedTruly, Worked!Live
  <2>3. stages \in [Stages -> Worked!StageRows]
    BY <2>1 DEF WorkInv, Worked!WorkTypeOK, Worked!Live
  <2>4. CASE t \notin Worked!ClosedStates
    <3>1. UNCHANGED closedAs
      BY <1>3, <2>4 DEF Worked!Transition
    <3>2. ToldTruly(job') /\ \A c \in Clerks : jobReads'[c] # None => ToldTruly(jobReads'[c])
      BY <2>1, <2>4 DEF WorkInv, ToldTruly, Worked!ClosedStates
    <3> QED
      BY <2>1, <2>2, <3>1, <3>2, JobRowWritten
           DEF WorkInv, Worked!WorkTypeOK, Worked!Live
  <2>5. CASE t \in Worked!ClosedStates
    <3>1. closedAs' = stages /\ closedAs' # None
      BY <1>3, <2>3, <2>5 DEF Worked!Transition
    <3>2. t = "completed" => \A s \in Stages : Worked!Done(s)
      BY <1>3 DEF Worked!Transition
    <3>3. \A s \in Stages : Worked!Done(s) => stages[s].completed = stages[s].planned
      BY <2>1 DEF WorkInv, Worked!Live
    <3>4. Worked!WorkTypeOK'
      BY <2>1, <2>3, <3>1 DEF WorkInv, Worked!WorkTypeOK
    <3>5. Worked!WorkReportedTruly'
      BY <2>1, <2>5, <3>1, <3>2, <3>3
         DEF WorkInv, Worked!WorkReportedTruly, Worked!Live
    <3>6. ToldTruly(job)'
      BY <2>1, <3>1, <3>2 DEF ToldTruly, Worked!Done
    <3>7. \A c \in Clerks : jobReads'[c] # None => ToldTruly(jobReads[c])'
      BY <2>1, <3>1 DEF WorkInv, ToldTruly, Worked!Done
    <3>8. \A s \in Stages : Worked!Done(s)' => stages'[s].completed = stages'[s].planned
      BY <2>1, <3>3 DEF Worked!Done
    <3> QED
      BY <3>4, <3>5, <3>6, <3>7, <3>8 DEF WorkInv
  <2> QED
    BY <2>4, <2>5
<1>4. ASSUME NEW s \in Stages, NEW a \in Worked!Quantity, NEW b \in Worked!Quantity,
             Worked!RecordStage(s, a, b)
      PROVE  WorkInv'
  <2>1. /\ Worked!Live /\ job.status \notin Worked!ClosedStates
        /\ job' \in Worked!JobRows /\ job'.status \notin Worked!ClosedStates
        /\ UNCHANGED <<jobReads, closedAs, raced>>
    BY <1>4, RecordBecomes DEF WorkInv, Worked!RecordStage
  <2>2. closedAs = None
    BY <2>1 DEF WorkInv, Worked!WorkReportedTruly, Worked!Live
  <2>3. \A c \in Clerks : jobReads[c] # None => jobReads[c].status \notin Worked!ClosedStates
    BY <2>2 DEF WorkInv, ToldTruly
  <2>4. stages \in [Stages -> Worked!StageRows] /\ job # None /\ job' # None
    BY <2>1 DEF WorkInv, Worked!WorkTypeOK, Worked!Live
  <2> DEFINE t == IF a = stages[s].planned THEN "completed" ELSE "in_progress"
             n == [stages[s] EXCEPT !.completed = a, !.rejected = b, !.status = t]
  <2>5. /\ n \in Worked!StageRows /\ n.planned = stages[s].planned /\ n.completed = a
        /\ n.rejected = b /\ n.status = t
    BY <2>4 DEF Worked!StageRows
  <2>6. stages' = [stages EXCEPT ![s] = n] /\ a + b <= stages[s].planned
    BY <1>4 DEF Worked!RecordStage
  <2> HIDE DEF n
  <2>7. stages'[s] = n /\ \A u \in Stages \ {s} : stages'[u] = stages[u]
    BY <2>4, <2>6
  <2>8. \A u \in Stages : stages'[u].completed + stages'[u].rejected <= stages'[u].planned
    BY <2>4, <2>5, <2>6, <2>7 DEF WorkInv, Worked!WorkReportedTruly
  <2>9. \A u \in Stages : Worked!Done(u)' => stages'[u].completed = stages'[u].planned
    BY <2>4, <2>5, <2>7 DEF WorkInv, Worked!Done
  <2>10. Worked!WorkTypeOK'
    BY <2>1, <2>4, <2>5, <2>6 DEF WorkInv, Worked!WorkTypeOK
  <2>11. Worked!WorkReportedTruly'
    BY <2>1, <2>2, <2>8 DEF Worked!WorkReportedTruly, Worked!ClosedStates
  <2>12. ToldTruly(job)' /\ \A c \in Clerks : jobReads'[c] # None => ToldTruly(jobReads[c])'
    BY <2>1, <2>3 DEF ToldTruly, Worked!ClosedStates
  <2> QED
    BY <2>9, <2>10, <2>11, <2>12 DEF WorkInv
<1>5. ASSUME NEW c \in Clerks, Worked!StartArchive(c)
      PROVE  WorkInv'
  <2>1. /\ Worked!Live /\ job # None /\ job \in Worked!JobRows
           /\ jobReads' = [jobReads EXCEPT ![c] = job]
        /\ UNCHANGED <<job, stages, closedAs, raced>>
    BY <1>5 DEF Worked!StartArchive, Worked!Live, WorkInv, Worked!WorkTypeOK
  <2>2. jobReads'[c] = job /\ \A d \in Clerks \ {c} : jobReads'[d] = jobReads[d]
    BY <2>1 DEF WorkInv, Worked!WorkTypeOK
  <2>3. jobReads' \in [Clerks -> Worked!JobRows \cup {None}]
    BY <2>1 DEF WorkInv, Worked!WorkTypeOK
  <2>4. ToldTruly(job) /\ \A d \in Clerks : jobReads'[d] # None => ToldTruly(jobReads'[d])
    BY <2>1, <2>2 DEF WorkInv
  <2> QED
    BY <2>1, <2>3, <2>4, JobRowWritten
         DEF WorkInv, Worked!WorkTypeOK, Worked!WorkReportedTruly
<1>6. ASSUME NEW c \in Clerks, Worked!FinishArchive(c)
      PROVE  WorkInv'
  <2>1. /\ jobReads[c] \in Worked!JobRows /\ jobReads[c] # None /\ job # None
        /\ job' \in Worked!JobRows /\ job'.status = jobReads[c].status /\ job'.archived
        /\ jobReads' = [jobReads EXCEPT ![c] = None] /\ UNCHANGED <<stages, closedAs>>
        /\ raced' = (raced \/ job.status # jobReads[c].status)
    BY <1>6, ArchiveBecomes DEF WorkInv, Worked!FinishArchive
  <2>2. jobReads'[c] = None /\ \A d \in Clerks \ {c} : jobReads'[d] = jobReads[d]
    BY <2>1 DEF WorkInv, Worked!WorkTypeOK
  <2>3. jobReads' \in [Clerks -> Worked!JobRows \cup {None}] /\ raced' \in BOOLEAN
    BY <2>1 DEF WorkInv, Worked!WorkTypeOK
  <2>4. ToldTruly(jobReads[c]) /\ \A d \in Clerks : jobReads'[d] # None => ToldTruly(jobReads'[d])
    BY <2>1, <2>2 DEF WorkInv
  <2>5. ToldTruly(job')
    BY <2>1, <2>4 DEF ToldTruly
  <2>6. closedAs # None => job.status \in Worked!ClosedStates \/ raced
    BY <2>1 DEF WorkInv, Worked!WorkReportedTruly
  <2>7. closedAs # None => job'.status \in Worked!ClosedStates \/ (job'.archived /\ raced')
    BY <2>1, <2>6
  <2> QED
    BY <2>1, <2>3, <2>4, <2>5, <2>7, JobRowWritten
<1>7. CASE UNCHANGED jobVars
  <2>1. UNCHANGED <<job, stages, jobReads, closedAs, raced>>
    BY <1>7 DEF jobVars
  <2>2. Worked!WorkTypeOK'
    BY <2>1 DEF WorkInv, Worked!WorkTypeOK
  <2>3. Worked!WorkReportedTruly'
    BY <2>1 DEF WorkInv, Worked!WorkReportedTruly
  <2>4. /\ job' # None => ToldTruly(job)'
        /\ \A c \in Clerks : jobReads'[c] # None => ToldTruly(jobReads[c])'
    BY <2>1 DEF WorkInv, ToldTruly, Worked!Done
  <2>5. job' # None => \A s \in Stages : Worked!Done(s)' =>
          stages'[s].completed = stages'[s].planned
    BY <2>1 DEF WorkInv, Worked!Done
  <2> QED
    BY <2>2, <2>3, <2>4, <2>5 DEF WorkInv
<1> QED
  BY <1>1, <1>2, <1>3, <1>4, <1>5, <1>6, <1>7 DEF Worked!WorkNext

-----------------------------------------------------------------------------
(* Leave.  The days that are taken, as a total of this module, and the paid   *)
(* requests that begin in a year.                                           *)
DaysTaken == [l \in Left!Approved |-> leaves[l].days]
PaidFrom(y) == {l \in Left!Approved : leaves[l].paid /\ YearOfDay(leaves[l].first) = y}

LEMMA DaysUsedTotal ==
  ASSUME NEW y
  PROVE  Left!DaysUsed(y) = Total(DaysTaken, PaidFrom(y))
           /\ Left!DaysUsed(y)' = Total(DaysTaken, PaidFrom(y))'
BY 
     DEF Left!DaysUsed, Left!Total, Left!Units, Left!Cardinality, Total, Units,
         Cardinality, DaysTaken, PaidFrom

LEMMA LeaveBounds ==
  ASSUME LeaveAssumption
  PROVE  /\ IsFiniteSet(Asked) /\ IsFiniteSet(Days) /\ Allowance \in Nat
            /\ Cardinality(Days) \in Nat
         /\ None # Closed /\ None \notin Left!LeaveRows /\ Closed \notin Left!LeaveRows
<1>1. Left!LeaveConstants
  BY DEF LeaveAssumption
<1>2. /\ IsFiniteSet(Asked) /\ IsFiniteSet(Days) /\ Allowance \in Nat /\ None # Closed
      /\ None \notin Left!LeaveRows /\ Closed \notin Left!LeaveRows
  BY <1>1 DEF Left!LeaveConstants, Left!IsFiniteSet, IsFiniteSet
<1> QED
  BY <1>2, FS_CardinalityType

(* The rows of leave that is granted, and that is open. *)
LEMMA OpenRows ==
  ASSUME LeaveAssumption, Left!LeaveTypeOK
  PROVE  /\ \A l \in Left!Open : leaves[l] \in Left!LeaveRows
         /\ Left!Approved \subseteq Left!Open /\ Left!Open \subseteq Asked
            /\ IsFiniteSet(Left!Approved)
         /\ \A l \in Left!Approved : DaysTaken[l] \in 0..Cardinality(Days)
         /\ \A y : PaidFrom(y) \subseteq Left!Approved
<1>1. Left!Approved \subseteq Left!Open /\ Left!Open \subseteq Asked
  BY DEF Left!Approved, Left!Open
<1>2. \A l \in Left!Open : leaves[l] \in Left!LeaveRows
  BY DEF Left!Open, Left!LeaveTypeOK
<1>3. IsFiniteSet(Left!Approved)
  BY <1>1, LeaveBounds, FS_Subset
<1>4. ASSUME NEW l \in Left!Approved PROVE DaysTaken[l] \in 0..Cardinality(Days)
  <2>1. PICK row \in Left!LeaveRows : row = leaves[l]
    BY <1>1, <1>2
  <2>2. row.days \in 0..Left!Cardinality(Days)
    BY DEF Left!LeaveRows
  <2>3. row.days \in 0..Cardinality(Days)
    BY <2>2 DEF Left!Cardinality, Cardinality
  <2> QED
    BY <2>1, <2>3 DEF DaysTaken
<1>5. \A y : PaidFrom(y) \subseteq Left!Approved
  BY DEF PaidFrom
<1> QED
  BY <1>1, <1>2, <1>3, <1>4, <1>5

(* What the proofs about Leave need beside its properties: a request of an  *)
(* archiving clerk is known by its number only, so that nothing has to be   *)
(* said of it.                                                              *)

LeaveInv == Left!LeaveTypeOK /\ Left!LeaveFitsPayroll

(* A step that grants no leave, and leaves what is granted as it is, or takes *)
(* some back.                                                               *)
LEMMA NoLeaveGranted ==
  ASSUME LeaveAssumption, LeaveInv, Left!LeaveTypeOK', Left!Approved' \subseteq Left!Approved,
         \A l \in Left!Approved' : leaves'[l] = leaves[l],
         \A m \in fixed' : paidFor'[m] \in {None, Left!OnLeave(m)'}
  PROVE  LeaveInv'
<1>1. \A k, l \in Left!Approved : k # l => Left!Span(leaves[k]) \cap Left!Span(leaves[l]) = {}
  BY DEF LeaveInv, Left!LeaveFitsPayroll
<1>2. \A k, l \in Left!Approved' : k # l => (Left!Span(leaves[k]) \cap Left!Span(leaves[l]))' = {}
  BY <1>1 DEF Left!Span
<1>3. ASSUME NEW y \in {YearOfDay(d) : d \in Days} PROVE Left!DaysUsed(y)' <= Allowance
  <2>1. PaidFrom(y)' \subseteq PaidFrom(y) /\ PaidFrom(y)' \subseteq Left!Approved'
    BY DEF PaidFrom
  <2>2. \A l \in PaidFrom(y)' : DaysTaken'[l] = DaysTaken[l]
    BY <2>1 DEF DaysTaken
  <2>3. Total(DaysTaken', PaidFrom(y)') = Total(DaysTaken, PaidFrom(y)')
    BY <2>2, TotalCongruence
  <2>4. /\ Cardinality(Days) \in Nat /\ IsFiniteSet(PaidFrom(y))
           /\ PaidFrom(y)' \in SUBSET PaidFrom(y)
        /\ \A l \in PaidFrom(y) : DaysTaken[l] \in 0..Cardinality(Days)
    BY <2>1, OpenRows, LeaveBounds, FS_Subset DEF LeaveInv
  <2>5. Total(DaysTaken, PaidFrom(y)') <= Total(DaysTaken, PaidFrom(y))
    BY <2>4, TotalSubset
  <2>6. Total(DaysTaken, PaidFrom(y)) \in Nat
    BY <2>4, TotalType
  <2>9. IsFiniteSet(PaidFrom(y)') /\ \A l \in PaidFrom(y)' : DaysTaken[l] \in 0..Cardinality(Days)
    BY <2>4, FS_Subset
  <2>7. Total(DaysTaken, PaidFrom(y)') \in Nat
    BY <2>4, <2>9, TotalType
  <2>8. Left!DaysUsed(y) <= Allowance
    BY <1>3 DEF LeaveInv, Left!LeaveFitsPayroll
  <2>10. Left!DaysUsed(y) = Total(DaysTaken, PaidFrom(y))
           /\ Left!DaysUsed(y)' = Total(DaysTaken', PaidFrom(y)')
    BY DaysUsedTotal
  <2> QED
    BY <2>3, <2>5, <2>6, <2>7, <2>8, <2>10, LeaveBounds
<1>4. Left!LeaveFitsPayroll'
  BY <1>2, <1>3 DEF Left!LeaveFitsPayroll
<1> QED
  BY <1>4 DEF LeaveInv

LEMMA LeaveInvInit ==
  ASSUME LeaveAssumption, Left!LeaveInit
  PROVE  LeaveInv
<1>1. /\ leaves = [l \in Asked |-> None] /\ fixed = {} /\ leaveReads = [c \in Clerks |-> None]
      /\ paidFor = [m \in Left!LeaveMonths |-> None]
  BY DEF Left!LeaveInit
<1>2. Left!LeaveTypeOK
  <2>1. leaves \in [Asked -> Left!LeaveRows \cup {None, Closed}]
    BY <1>1
  <2>2. fixed \subseteq Left!LeaveMonths
    BY <1>1
  <2>3. leaveReads \in [Clerks -> Asked \cup {None}]
    BY <1>1
  <2>4. paidFor \in [Left!LeaveMonths -> (SUBSET Asked) \cup {None}]
    BY <1>1
  <2> QED
    BY <2>1, <2>2, <2>3, <2>4 DEF Left!LeaveTypeOK
<1>3. Left!Approved = {}
  BY <1>1 DEF Left!Approved, Left!Open
<1>4. ASSUME NEW y PROVE Left!DaysUsed(y) = 0
  <2>1. PaidFrom(y) = {}
    BY <1>3 DEF PaidFrom
  <2> QED
    BY <2>1, DaysUsedTotal, TotalEmpty
<1>5. Left!LeaveFitsPayroll
  BY <1>1, <1>3, <1>4, LeaveBounds DEF Left!LeaveFitsPayroll
<1> QED
  BY <1>2, <1>5 DEF LeaveInv

(* A row that is closed: it is granted leave no longer, and nothing else is     *)
(* changed in what is granted.                                              *)
LEMMA RowClosed ==
  ASSUME LeaveAssumption, Left!LeaveTypeOK, NEW l \in Asked, leaves' = [leaves EXCEPT ![l] = Closed]
  PROVE  /\ leaves' \in [Asked -> Left!LeaveRows \cup {None, Closed}]
         /\ Left!Approved' = Left!Approved \ {l}
         /\ \A k \in Left!Approved' : leaves'[k] = leaves[k]
         /\ \A m \in Left!LeaveMonths :
              ~(l \in Left!Approved /\ m \in Left!MonthsOf(leaves[l])) =>
                Left!OnLeave(m)' = Left!OnLeave(m)
<1>1. leaves' \in [Asked -> Left!LeaveRows \cup {None, Closed}]
  BY DEF Left!LeaveTypeOK
<1>2. leaves'[l] = Closed /\ \A k \in Asked \ {l} : leaves'[k] = leaves[k]
  BY DEF Left!LeaveTypeOK
<1>3. Left!Approved' = Left!Approved \ {l}
  BY <1>2 DEF Left!Approved, Left!Open
<1>4. \A k \in Left!Approved' : k \in Left!Approved /\ leaves'[k] = leaves[k]
  BY <1>2, <1>3 DEF Left!Approved, Left!Open
<1>5. ASSUME NEW m, ~(l \in Left!Approved /\ m \in Left!MonthsOf(leaves[l]))
      PROVE  Left!OnLeave(m)' = Left!OnLeave(m)
  <2>1. Left!OnLeave(m)' = {k \in Left!Approved' : m \in Left!MonthsOf(leaves[k])'}
    BY DEF Left!OnLeave
  <2>2. \A k \in Left!Approved' : Left!MonthsOf(leaves[k])' = Left!MonthsOf(leaves[k])
    BY <1>4 DEF Left!MonthsOf, Left!Span
  <2> QED
    BY <1>3, <1>5, <2>1, <2>2 DEF Left!OnLeave
<1> QED
  BY <1>1, <1>3, <1>4, <1>5

(* A row that is written, neither granted before nor after. *)
LEMMA RowWritten ==
  ASSUME LeaveAssumption, LeaveInv, NEW l \in Asked, l \notin Left!Approved,
         NEW row \in Left!LeaveRows,
         row.status = "pending", leaves' = [leaves EXCEPT ![l] = row],
         UNCHANGED <<fixed, leaveReads, paidFor>>
  PROVE  LeaveInv'
<1>1. leaves' \in [Asked -> Left!LeaveRows \cup {None, Closed}]
  BY DEF LeaveInv, Left!LeaveTypeOK
<1>2. leaves'[l] = row /\ \A k \in Asked \ {l} : leaves'[k] = leaves[k]
  BY DEF LeaveInv, Left!LeaveTypeOK
<1>3. l \notin Left!Approved'
  BY <1>2 DEF Left!Approved
<1>4. \A k \in Asked \ {l} : k \in Left!Approved' <=> k \in Left!Approved
  BY <1>2 DEF Left!Approved, Left!Open
<1>5. Left!Approved \subseteq Asked /\ Left!Approved' \subseteq Asked
  BY DEF Left!Approved, Left!Open
<1>6. Left!Approved' = Left!Approved
  BY <1>3, <1>4, <1>5
<1>7. \A k \in Left!Approved' : leaves'[k] = leaves[k]
  BY <1>2, <1>3, <1>5
<1>8. \A m : Left!OnLeave(m)' = Left!OnLeave(m)
  BY <1>6, <1>7 DEF Left!OnLeave, Left!MonthsOf, Left!Span
<1>9. Left!LeaveTypeOK'
  BY <1>1 DEF LeaveInv, Left!LeaveTypeOK
<1>10. \A m \in fixed' : paidFor'[m] \in {None, Left!OnLeave(m)'}
  BY <1>8 DEF LeaveInv, Left!LeaveFitsPayroll
<1> QED
  BY <1>6, <1>7, <1>9, <1>10, NoLeaveGranted

(* The row of what is granted. *)
LEMMA GrantedRow ==
  ASSUME LeaveAssumption, NEW row \in Left!LeaveRows
  PROVE  /\ Left!LeaveDays(row) \in 0..Cardinality(Days)
         /\ [row EXCEPT !.days = Left!LeaveDays(row), !.status = "approved"] \in Left!LeaveRows
<1>1. Left!Span(row) \ holidays \subseteq Days
  BY DEF Left!Span
<1>2. Cardinality(Left!Span(row) \ holidays) \in Nat
        /\ Cardinality(Left!Span(row) \ holidays) <= Cardinality(Days)
  BY <1>1, LeaveBounds, FS_Subset, FS_CardinalityType
<1>3. Left!LeaveDays(row) = Cardinality(Left!Span(row) \ holidays)
  BY DEF Left!LeaveDays, Left!Cardinality, Cardinality
<1>4. Left!LeaveDays(row) \in 0..Cardinality(Days)
  BY <1>2, <1>3, LeaveBounds
<1>5. PICK n \in 0..Cardinality(Days) : n = Left!LeaveDays(row)
  BY <1>4
<1>6. Left!Cardinality(Days) = Cardinality(Days)
  BY DEF Left!Cardinality, Cardinality
<1>7. [row EXCEPT !.days = n, !.status = "approved"] \in Left!LeaveRows
  BY <1>6 DEF Left!LeaveRows
<1> QED
  BY <1>4, <1>5, <1>7

LEMMA LeaveApproved ==
  ASSUME LeaveAssumption, LeaveInv, NEW l \in Asked, Left!ApproveLeave(l)
  PROVE  LeaveInv'
<1>1. l \in Left!Pending /\ l \in Left!Open /\ l \notin Left!Approved
        /\ leaves[l] \in Left!LeaveRows
  BY OpenRows DEF Left!ApproveLeave, Left!Pending, LeaveInv
<1>2. PICK old \in Left!LeaveRows : old = leaves[l]
  BY <1>1
<1> DEFINE n == [old EXCEPT !.days = Left!LeaveDays(old), !.status = "approved"]
<1>3. n \in Left!LeaveRows /\ Left!LeaveDays(old) \in 0..Cardinality(Days)
  BY GrantedRow
<1>4. n.days = Left!LeaveDays(old) /\ n.status = "approved"
  BY DEF Left!LeaveRows
<1>5. /\ \A k \in Left!Approved : Left!Span(leaves[k]) \cap Left!Span(n) = {}
      /\ Left!Span(n) \cap Left!LockedDates = {}
      /\ n.paid => Left!DaysUsed(YearOfDay(n.first)) + n.days <= Allowance
      /\ leaves' = [leaves EXCEPT ![l] = n]
      /\ paidFor' = Left!Changed({m \in Left!MonthsOf(n) : \A d \in Left!Span(n) \cap Attended :
         MonthOfDay(d) # m})
      /\ UNCHANGED <<holidays, fixed, leaveReads>>
  BY <1>2 DEF Left!ApproveLeave
<1>6. PICK row \in Left!LeaveRows : row = n
  BY <1>3
<1>7. /\ row.days \in 0..Cardinality(Days) /\ row.status = "approved"
      /\ \A k \in Left!Approved : Left!Span(leaves[k]) \cap Left!Span(row) = {}
      /\ Left!Span(row) \cap Left!LockedDates = {}
      /\ row.paid => Left!DaysUsed(YearOfDay(row.first)) + row.days <= Allowance
      /\ leaves' = [leaves EXCEPT ![l] = row]
      /\ paidFor' = Left!Changed({m \in Left!MonthsOf(row) :
         \A d \in Left!Span(row) \cap Attended : MonthOfDay(d) # m})
  BY <1>3, <1>4, <1>5, <1>6
<1> HIDE DEF n
<1>8. leaves'[l] = row /\ \A k \in Asked \ {l} : leaves'[k] = leaves[k]
  BY <1>7 DEF LeaveInv, Left!LeaveTypeOK
<1>9. Left!Approved' = Left!Approved \cup {l}
  <2>1. l \in Left!Approved'
    BY <1>7, <1>8, LeaveBounds DEF Left!Approved, Left!Open
  <2>2. \A k \in Asked \ {l} : k \in Left!Approved' <=> k \in Left!Approved
    BY <1>8 DEF Left!Approved, Left!Open
  <2>3. Left!Approved \subseteq Asked /\ Left!Approved' \subseteq Asked
    BY DEF Left!Approved, Left!Open
  <2> QED
    BY <2>1, <2>2, <2>3
<1>10. \A k \in Left!Approved : k # l /\ k \in Asked /\ leaves'[k] = leaves[k]
  BY <1>1, <1>8 DEF Left!Approved, Left!Open
<1>11. Left!LeaveTypeOK'
  <2>1. leaves' \in [Asked -> Left!LeaveRows \cup {None, Closed}]
    BY <1>7 DEF LeaveInv, Left!LeaveTypeOK
  <2>2. paidFor' \in [Left!LeaveMonths -> (SUBSET Asked) \cup {None}]
    BY <1>7 DEF LeaveInv, Left!LeaveTypeOK, Left!Changed
  <2> QED
    BY <1>5, <2>1, <2>2 DEF LeaveInv, Left!LeaveTypeOK
<1>12. \A j, k \in Left!Approved' : j # k => (Left!Span(leaves[j]) \cap Left!Span(leaves[k]))' = {}
  <2> SUFFICES ASSUME NEW j \in Left!Approved', NEW k \in Left!Approved', j # k
               PROVE  Left!Span(leaves'[j]) \cap Left!Span(leaves'[k]) = {}
    BY DEF Left!Span
  <2>1. CASE j # l /\ k # l
    BY <1>9, <1>10, <2>1 DEF LeaveInv, Left!LeaveFitsPayroll
  <2>2. CASE j = l
    BY <1>7, <1>8, <1>9, <1>10, <2>2
  <2>3. CASE k = l
    BY <1>7, <1>8, <1>9, <1>10, <2>3
  <2> QED
    BY <2>1, <2>2, <2>3
<1>13. ASSUME NEW y \in {YearOfDay(d) : d \in Days} PROVE Left!DaysUsed(y)' <= Allowance
  <2>1. Left!DaysUsed(y) <= Allowance
    BY <1>13 DEF LeaveInv, Left!LeaveFitsPayroll
  <2>2. Left!DaysUsed(y) = Total(DaysTaken, PaidFrom(y))
          /\ Left!DaysUsed(y)' = Total(DaysTaken', PaidFrom(y)')
    BY DaysUsedTotal
  <2>3. /\ Cardinality(Days) \in Nat /\ IsFiniteSet(PaidFrom(y)) /\ l \notin PaidFrom(y)
        /\ PaidFrom(y) \subseteq Left!Approved
        /\ \A k \in PaidFrom(y) : DaysTaken[k] \in 0..Cardinality(Days)
    BY <1>1, OpenRows, LeaveBounds, FS_Subset DEF LeaveInv
  <2>4. \A k \in PaidFrom(y) : DaysTaken'[k] = DaysTaken[k]
    BY <1>9, <1>10, <2>3 DEF DaysTaken
  <2>5. Total(DaysTaken', PaidFrom(y)) = Total(DaysTaken, PaidFrom(y))
    BY <2>4, TotalCongruence
  <2>6. DaysTaken'[l] = row.days
    BY <1>8, <1>9 DEF DaysTaken
  <2>7. CASE row.paid /\ YearOfDay(row.first) = y
    <3>1. PaidFrom(y)' = PaidFrom(y) \cup {l}
      BY <1>8, <1>9, <1>10, <2>7 DEF PaidFrom
    <3>2. \A k \in PaidFrom(y) \cup {l} : DaysTaken'[k] \in 0..Cardinality(Days)
      BY <1>7, <2>3, <2>4, <2>6
    <3>3. Total(DaysTaken', PaidFrom(y) \cup {l}) = Total(DaysTaken', PaidFrom(y)) + DaysTaken'[l]
      BY <2>3, <3>2, TotalAdd
    <3> QED
      BY <1>7, <2>2, <2>5, <2>6, <2>7, <3>1, <3>3
  <2>8. CASE ~(row.paid /\ YearOfDay(row.first) = y)
    <3>1. PaidFrom(y)' = PaidFrom(y)
      BY <1>8, <1>9, <1>10, <2>8 DEF PaidFrom
    <3> QED
      BY <2>1, <2>2, <2>5, <3>1
  <2> QED
    BY <2>7, <2>8
<1>14. ASSUME NEW m \in fixed' PROVE paidFor'[m] \in {None, Left!OnLeave(m)'}
  <2>1. m \in fixed /\ m \in Left!LeaveMonths
    BY <1>5 DEF LeaveInv, Left!LeaveTypeOK
  <2>2. \A k \in Left!Approved : Left!MonthsOf(leaves[k])' = Left!MonthsOf(leaves[k])
    BY <1>10 DEF Left!MonthsOf, Left!Span
  <2>3. Left!MonthsOf(leaves[l])' = Left!MonthsOf(row)
    BY <1>8 DEF Left!MonthsOf, Left!Span
  <2>4. Left!OnLeave(m)' = {k \in Left!Approved' : m \in Left!MonthsOf(leaves[k])'}
    BY DEF Left!OnLeave
  <2>5. CASE m \in Left!MonthsOf(row)
    <3>1. \A d \in Left!Span(row) \cap Attended : MonthOfDay(d) # m
      BY <1>7, <2>1 DEF Left!LockedDates
    <3>2. paidFor'[m] = None
      BY <1>7, <2>1, <2>5, <3>1 DEF Left!Changed
    <3> QED
      BY <3>2
  <2>6. CASE m \notin Left!MonthsOf(row)
    <3>1. Left!OnLeave(m)' = Left!OnLeave(m)
      BY <1>9, <2>2, <2>3, <2>4, <2>6 DEF Left!OnLeave
    <3>2. paidFor'[m] \in {None, paidFor[m]}
      BY <1>7, <2>1 DEF Left!Changed
    <3>3. paidFor[m] \in {None, Left!OnLeave(m)}
      BY <2>1 DEF LeaveInv, Left!LeaveFitsPayroll
    <3> QED
      BY <3>1, <3>2, <3>3
  <2> QED
    BY <2>5, <2>6
<1>15. Left!LeaveFitsPayroll'
  BY <1>12, <1>13, <1>14 DEF Left!LeaveFitsPayroll
<1> QED
  BY <1>11, <1>15 DEF LeaveInv

(* Leave that is taken back: what it was finalized with is forgotten for the    *)
(* months that may still be finalized.                                      *)
LEMMA LeaveClosed ==
  ASSUME LeaveAssumption, LeaveInv, NEW l \in Asked, leaves' = [leaves EXCEPT ![l] = Closed],
         NEW S, paidFor' = Left!Changed(S) \/ (S = {} /\ paidFor' = paidFor),
         l \in Left!Approved => \A m \in fixed : m \in Left!MonthsOf(leaves[l]) => m \in S,
         fixed' = fixed, leaveReads' \in [Clerks -> Asked \cup {None}]
  PROVE  LeaveInv'
<1>1. /\ leaves' \in [Asked -> Left!LeaveRows \cup {None, Closed}]
      /\ Left!Approved' \subseteq Left!Approved
      /\ \A k \in Left!Approved' : leaves'[k] = leaves[k]
      /\ \A m \in Left!LeaveMonths :
           ~(l \in Left!Approved /\ m \in Left!MonthsOf(leaves[l])) =>
             Left!OnLeave(m)' = Left!OnLeave(m)
  BY RowClosed DEF LeaveInv
<1>2. paidFor' \in [Left!LeaveMonths -> (SUBSET Asked) \cup {None}]
  BY DEF LeaveInv, Left!LeaveTypeOK, Left!Changed
<1>3. Left!LeaveTypeOK'
  BY <1>1, <1>2 DEF LeaveInv, Left!LeaveTypeOK
<1>4. ASSUME NEW m \in fixed' PROVE paidFor'[m] \in {None, Left!OnLeave(m)'}
  <2>1. m \in fixed /\ m \in Left!LeaveMonths /\ paidFor[m] \in {None, Left!OnLeave(m)}
    BY DEF LeaveInv, Left!LeaveTypeOK, Left!LeaveFitsPayroll
  <2>2. CASE m \in S
    BY <2>1, <2>2 DEF Left!Changed
  <2>3. CASE m \notin S
    <3>1. Left!OnLeave(m)' = Left!OnLeave(m)
      BY <1>1, <2>1, <2>3
    <3>2. paidFor'[m] = paidFor[m]
      BY <2>1, <2>3 DEF Left!Changed
    <3> QED
      BY <2>1, <3>1, <3>2
  <2> QED
    BY <2>2, <2>3
<1> QED
  BY <1>1, <1>3, <1>4, NoLeaveGranted

LEMMA LeaveInvStep ==
  ASSUME LeaveAssumption, LeaveInv, [Left!LeaveNext]_leaveVars
  PROVE  LeaveInv'
<1>1. ASSUME NEW l \in Asked, NEW a \in Days, NEW b \in Days, NEW paid \in BOOLEAN,
             Left!AskLeave(l, a, b, paid)
      PROVE  LeaveInv'
  <2> DEFINE n == [first |-> a, last |-> b, paid |-> paid, days |-> 0, status |-> "pending"]
  <2>1. n \in Left!LeaveRows
    BY LeaveBounds DEF Left!LeaveRows, Left!Cardinality, Cardinality
  <2>2. n.status = "pending" /\ leaves[l] = None
    BY <1>1 DEF Left!AskLeave
  <2>3. leaves' = [leaves EXCEPT ![l] = n] /\ UNCHANGED <<fixed, leaveReads, paidFor>>
    BY <1>1 DEF Left!AskLeave
  <2> HIDE DEF n
  <2>4. l \notin Left!Approved
    BY <2>2 DEF Left!Approved, Left!Open
  <2> QED
    BY <2>1, <2>2, <2>3, <2>4, RowWritten
<1>2. ASSUME NEW l \in Asked, NEW a \in Days, NEW b \in Days, NEW paid \in BOOLEAN,
             Left!EditLeave(l, a, b, paid)
      PROVE  LeaveInv'
  <2>1. l \in Left!Open /\ l \notin Left!Approved /\ leaves[l] \in Left!LeaveRows
    BY <1>2, OpenRows DEF Left!EditLeave, Left!Pending, LeaveInv
  <2>2. PICK row \in Left!LeaveRows : row = leaves[l]
    BY <2>1
  <2> DEFINE n == [row EXCEPT !.first = a, !.last = b, !.paid = paid]
  <2>3. n \in Left!LeaveRows
    BY DEF Left!LeaveRows
  <2>4. n.status = row.status
    BY DEF Left!LeaveRows
  <2>5. row.status = "pending"
    BY <2>1, <2>2 DEF Left!Approved, Left!LeaveRows
  <2>6. leaves' = [leaves EXCEPT ![l] = n] /\ UNCHANGED <<fixed, leaveReads, paidFor>>
    BY <1>2, <2>2 DEF Left!EditLeave
  <2> HIDE DEF n
  <2> QED
    BY <2>1, <2>3, <2>4, <2>5, <2>6, RowWritten
<1>3. ASSUME NEW l \in Asked, Left!RejectLeave(l)
      PROVE  LeaveInv'
  <2>1. /\ l \notin Left!Approved /\ leaves' = [leaves EXCEPT ![l] = Closed]
        /\ paidFor' = paidFor /\ fixed' = fixed /\ leaveReads' \in [Clerks -> Asked \cup {None}]
    BY <1>3 DEF Left!RejectLeave, Left!Pending, LeaveInv, Left!LeaveTypeOK
  <2>2. \A S : S = {} => ({} = S /\ paidFor' = paidFor)
    BY <2>1
  <2> QED
    BY <2>1, <2>2, LeaveClosed
<1>4. ASSUME NEW l \in Asked, Left!CancelLeave(l)
      PROVE  LeaveInv'
  <2>1. /\ MonthOfDay(leaves[l].first) \notin fixed /\ MonthOfDay(leaves[l].last) \notin fixed
        /\ leaves' = [leaves EXCEPT ![l] = Closed]
        /\ paidFor' = Left!Changed(Left!MonthsOf(leaves[l]) \ {MonthOfDay(leaves[l].first),
           MonthOfDay(leaves[l].last)})
        /\ fixed' = fixed /\ leaveReads' \in [Clerks -> Asked \cup {None}]
    BY <1>4 DEF Left!CancelLeave, LeaveInv, Left!LeaveTypeOK
  <2>2. \A m \in fixed : m \in Left!MonthsOf(leaves[l]) =>
          m \in Left!MonthsOf(leaves[l]) \ {MonthOfDay(leaves[l].first), MonthOfDay(leaves[l].last)}
    BY <2>1
  <2> QED
    BY <2>1, <2>2, LeaveClosed
<1>5. ASSUME NEW l \in Asked, NEW c \in Clerks, Left!StartArchive(c, l)
      PROVE  LeaveInv'
  <2>1. leaveReads' = [leaveReads EXCEPT ![c] = l] /\ UNCHANGED <<leaves, fixed, paidFor>>
    BY <1>5 DEF Left!StartArchive
  <2>2. Left!LeaveTypeOK'
    BY <2>1 DEF LeaveInv, Left!LeaveTypeOK
  <2>3. Left!Approved' = Left!Approved /\ \A m : Left!OnLeave(m)' = Left!OnLeave(m)
    BY <2>1 DEF Left!OnLeave, Left!Approved, Left!Open, Left!MonthsOf, Left!Span
  <2> QED
    BY <2>1, <2>2, <2>3, NoLeaveGranted DEF LeaveInv, Left!LeaveFitsPayroll
<1>6. ASSUME NEW c \in Clerks, Left!FinishArchive(c)
      PROVE  LeaveInv'
  <2>1. leaveReads[c] \in Asked
    BY <1>6 DEF Left!FinishArchive, LeaveInv, Left!LeaveTypeOK
  <2>2. PICK l \in Asked : l = leaveReads[c]
    BY <2>1
  <2>3. PICK S : S = IF l \in Left!Approved THEN Left!MonthsOf(leaves[l]) ELSE {}
    OBVIOUS
  <2>4. /\ leaves' = [leaves EXCEPT ![l] = Closed] /\ paidFor' = Left!Changed(S) /\ fixed' = fixed
        /\ leaveReads' \in [Clerks -> Asked \cup {None}]
    BY <1>6, <2>2, <2>3 DEF Left!FinishArchive, LeaveInv, Left!LeaveTypeOK
  <2> QED
    BY <2>3, <2>4, LeaveClosed
<1>7. ASSUME NEW d, Left!AddHoliday(d)
      PROVE  LeaveInv'
  <2>1. UNCHANGED <<leaves, fixed, leaveReads, paidFor>>
    BY <1>7 DEF Left!AddHoliday
  <2>2. Left!LeaveTypeOK'
    BY <2>1 DEF LeaveInv, Left!LeaveTypeOK
  <2>3. Left!Approved' = Left!Approved /\ \A m : Left!OnLeave(m)' = Left!OnLeave(m)
    BY <2>1 DEF Left!OnLeave, Left!Approved, Left!Open, Left!MonthsOf, Left!Span
  <2> QED
    BY <2>1, <2>2, <2>3, NoLeaveGranted DEF LeaveInv, Left!LeaveFitsPayroll
<1>8. ASSUME NEW m \in Left!LeaveMonths, Left!FixMonth(m)
      PROVE  LeaveInv'
  <2>1. /\ fixed' = fixed \cup {m} /\ paidFor' = [paidFor EXCEPT ![m] = Left!OnLeave(m)]
        /\ UNCHANGED <<leaves, leaveReads>>
    BY <1>8 DEF Left!FixMonth
  <2>2. Left!Approved' = Left!Approved /\ Left!OnLeave(m) \subseteq Asked
          /\ \A x : Left!OnLeave(x)' = Left!OnLeave(x)
    BY <2>1 DEF Left!OnLeave, Left!Approved, Left!Open, Left!MonthsOf, Left!Span
  <2>3. Left!LeaveTypeOK'
    BY <2>1, <2>2 DEF LeaveInv, Left!LeaveTypeOK
  <2>4. \A x \in fixed' : paidFor'[x] \in {None, Left!OnLeave(x)'}
    BY <2>1, <2>2 DEF LeaveInv, Left!LeaveTypeOK, Left!LeaveFitsPayroll
  <2> QED
    BY <2>1, <2>2, <2>3, <2>4, NoLeaveGranted
<1>9. CASE UNCHANGED leaveVars
  <2>1. UNCHANGED <<leaves, fixed, leaveReads, paidFor>>
    BY <1>9 DEF leaveVars
  <2>2. Left!LeaveTypeOK'
    BY <2>1 DEF LeaveInv, Left!LeaveTypeOK
  <2>3. Left!Approved' = Left!Approved /\ \A m : Left!OnLeave(m)' = Left!OnLeave(m)
    BY <2>1 DEF Left!OnLeave, Left!Approved, Left!Open, Left!MonthsOf, Left!Span
  <2> QED
    BY <2>1, <2>2, <2>3, NoLeaveGranted DEF LeaveInv, Left!LeaveFitsPayroll
<1> QED
  BY <1>1, <1>2, <1>3, <1>4, <1>5, <1>6, <1>7, <1>8, <1>9, LeaveApproved
     DEF Left!LeaveNext

-----------------------------------------------------------------------------
(* Payroll.  What a loan has got back, as a total of this module. *)
TakenBack(l) == Total([m \in settled |-> run[m].recovery[l]], settled)

LEMMA PayrollTotal ==
  ASSUME NEW f, NEW S
  PROVE  Payroll!Total(f, S) = Total(f, S)
BY DEF Payroll!Total, Payroll!Units, Payroll!Cardinality, Total, Units, Cardinality

LEMMA DeductionsSay ==
  /\ Payroll!DeductionsReachLoans <=>
       /\ Payroll!PayrollTypeOK
       /\ \A l \in Loans \ overwritten : loan[l] # None => loan[l].recovered = TakenBack(l)
       /\ Payroll!Finalized \subseteq settled
       /\ \A m \in settled \ Payroll!Finalized : run[m].archived
       /\ \A m \in Months : run[m] # None /\ run[m].paid > 0 =>
            m \in settled /\ run[m].paid <= Salary - Total(run[m].recovery, Loans)
  /\ Payroll!DeductionsReachLoans' <=>
       /\ Payroll!PayrollTypeOK'
       /\ \A l \in Loans \ overwritten' : loan'[l] # None => loan'[l].recovered = TakenBack(l)'
       /\ Payroll!Finalized' \subseteq settled'
       /\ \A m \in settled' \ Payroll!Finalized' : run'[m].archived
       /\ \A m \in Months : run'[m] # None /\ run'[m].paid > 0 =>
            m \in settled' /\ run'[m].paid <= Salary - Total(run'[m].recovery, Loans)
BY PayrollTotal DEF Payroll!DeductionsReachLoans, Payroll!Net, TakenBack

LEMMA PayrollBounds ==
  ASSUME PayrollAssumption
  PROVE  /\ IsFiniteSet(Months) /\ IsFiniteSet(Loans) /\ Principals \subseteq Nat
         /\ Instalment \in Nat /\ Salary \in Nat /\ MaxEdits \in Nat
         /\ None \notin Payroll!LoanRows /\ None \notin Payroll!RunRows
         /\ None \notin Payroll!RunCopies
BY DEF PayrollAssumption, Payroll!PayrollConstants, Payroll!IsFiniteSet, IsFiniteSet

(* What archiving requests have read is of rows that are there, and so are  *)
(* the months that have been finalized.                                     *)
ReadsFit ==
  /\ loanReads \in [Loans -> Payroll!LoanRows \cup {None}]
  /\ runReads \in [Months -> Payroll!RunCopies \cup {None}]
  /\ \A l \in Loans : loanReads[l] # None => loan[l] # None
  /\ \A m \in Months : runReads[m] # None => run[m] # None
  /\ settled \subseteq Months /\ overwritten \subseteq Loans
  /\ \A m \in settled : run[m] # None

LEMMA ReadsKept ==
  ASSUME ReadsFit, UNCHANGED <<loanReads, runReads, settled, overwritten>>,
         \A l \in Loans : loan[l] # None => loan'[l] # None,
         \A m \in Months : run[m] # None => run'[m] # None
  PROVE  ReadsFit'
BY DEF ReadsFit

(* The rows have their types. *)
LEMMA PayrollTyped ==
  ASSUME PayrollAssumption,
         run' \in [Months -> Payroll!RunRows \cup {None}],
           loan' \in [Loans -> Payroll!LoanRows \cup {None}],
         attendance' \in [Months -> 0..MaxEdits], staff' \in 0..MaxEdits, edits' \in 0..MaxEdits,
         ReadsFit'
  PROVE  Payroll!PayrollTypeOK'
<1>1. \A m \in Months : run'[m] # None => run'[m] \in Payroll!RunRows
  OBVIOUS
<1>2. \A m \in Months : run'[m] # None =>
        /\ run'[m].status \in {"draft", "review", "approved", "finalized"}
        /\ run'[m].recovery \in [Loans -> 0..Instalment] /\ run'[m].paid \in 0..Salary
  BY <1>1 DEF Payroll!RunRows
<1>3. \A l \in Loans : loan'[l] # None => loan'[l] \in Payroll!LoanRows
  OBVIOUS
<1>4. /\ \A l \in Loans : loanReads'[l] # None => loanReads'[l] \in Payroll!LoanRows
      /\ \A m \in Months : runReads'[m] # None => runReads'[m] \in Payroll!RunCopies
      /\ settled' \subseteq Months /\ overwritten' \subseteq Loans
  BY DEF ReadsFit
<1> QED
  BY <1>2, <1>3, <1>4 DEF Payroll!PayrollTypeOK

(* What the proofs about PayrollRuns need beside its properties: that a run *)
(* keeps what it was calculated from.                                       *)

LoanDue(row) ==
  IF row.principal < row.recovered THEN 0 ELSE Payroll!Least(Instalment,
    row.principal - row.recovered)

(* The recoveries of a run follow from the loans among its inputs. *)
CalculatedFrom(r) ==
  \A l \in Loans :
    /\ \A p \in r.inputs.loans : p[1] = l => r.recovery[l] = LoanDue(p[2])
    /\ (\A p \in r.inputs.loans : p[1] # l) => r.recovery[l] = 0

PayrollInv ==
  /\ Payroll!DeductionsReachLoans
  /\ run \in [Months -> Payroll!RunRows \cup {None}]
     /\ loan \in [Loans -> Payroll!LoanRows \cup {None}]
  /\ ReadsFit
  /\ staff <= edits /\ \A m \in Months : attendance[m] <= edits
  /\ \A m \in Months : run[m] # None =>
       /\ \A l \in Loans : loan[l] = None => run[m].recovery[l] = 0
       /\ run[m].status # "draft" /\ ~run[m].archived => CalculatedFrom(run[m])

LEMMA PayrollFacts ==
  ASSUME PayrollInv
  PROVE  /\ run \in [Months -> Payroll!RunRows \cup {None}]
            /\ loan \in [Loans -> Payroll!LoanRows \cup {None}]
         /\ attendance \in [Months -> 0..MaxEdits] /\ staff \in 0..MaxEdits /\ edits \in 0..MaxEdits
         /\ staff <= edits /\ \A m \in Months : attendance[m] <= edits
         /\ \A l \in Loans \ overwritten : loan[l] # None => loan[l].recovered = TakenBack(l)
         /\ Payroll!Finalized \subseteq settled /\ ReadsFit
         /\ \A m \in settled \ Payroll!Finalized : run[m].archived
         /\ \A m \in Months : run[m] # None /\ run[m].paid > 0 =>
              m \in settled /\ run[m].paid <= Salary - Total(run[m].recovery, Loans)
         /\ \A m \in Months : run[m] # None =>
              /\ \A l \in Loans : loan[l] = None => run[m].recovery[l] = 0
              /\ run[m].status # "draft" /\ ~run[m].archived => CalculatedFrom(run[m])
BY DeductionsSay DEF PayrollInv, Payroll!PayrollTypeOK

LEMMA PayrollInvInit ==
  ASSUME PayrollAssumption, Payroll!PayrollInit
  PROVE  PayrollInv
<1>1. /\ run = [m \in Months |-> None] /\ attendance = [m \in Months |-> 0] /\ staff = 0
      /\ loan = [l \in Loans |-> None] /\ edits = 0 /\ MaxEdits \in Nat
      /\ runReads = [m \in Months |-> None] /\ loanReads = [l \in Loans |-> None]
      /\ settled = {} /\ overwritten = {}
  BY PayrollBounds DEF Payroll!PayrollInit
<1>2. Payroll!PayrollTypeOK /\ ReadsFit
  BY <1>1 DEF Payroll!PayrollTypeOK, ReadsFit
<1>3. Payroll!Finalized = {} /\ \A l \in Loans : loan[l] = None
  BY <1>1 DEF Payroll!Finalized
<1>4. Payroll!DeductionsReachLoans
  BY <1>1, <1>2, <1>3, DeductionsSay
<1> QED
  BY <1>1, <1>2, <1>4 DEF PayrollInv

(* A step on one run that finalizes nothing. *)
LEMMA RunWritten ==
  ASSUME PayrollAssumption, PayrollInv, NEW m \in Months, NEW row \in Payroll!RunRows,
         run' = [run EXCEPT ![m] = row],
         UNCHANGED <<attendance, staff, loan, edits, settled, overwritten>>, ReadsFit',
         row.status = "finalized" => m \in Payroll!Finalized,
         m \in settled => /\ row.recovery = run[m].recovery
                          /\ row.status = "finalized" \/ row.archived,
         row.paid > 0 => m \in settled /\ row.paid <= Salary - Total(row.recovery, Loans),
         \A l \in Loans : loan[l] = None => row.recovery[l] = 0,
         row.status # "draft" /\ ~row.archived => CalculatedFrom(row)
  PROVE  PayrollInv' /\ Payroll!Finalized' \subseteq Payroll!Finalized
<1>1. run'[m] = row /\ row # None /\ \A k \in Months \ {m} : run'[k] = run[k]
  BY PayrollFacts, PayrollBounds
<1>2. Payroll!Finalized' \subseteq Payroll!Finalized
      /\ \A k \in Payroll!Finalized \ {m} : k \in Payroll!Finalized'
  BY <1>1 DEF Payroll!Finalized
<1>3. \A l : TakenBack(l)' = TakenBack(l)
  <2> TAKE l
  <2> DEFINE f == [k \in settled |-> run[k].recovery[l]]
             g == [k \in settled |-> run'[k].recovery[l]]
  <2>1. \A k \in settled : g[k] = f[k]
    BY <1>1, PayrollFacts DEF ReadsFit
  <2>2. Total(g, settled) = Total(f, settled)
    BY <2>1, TotalCongruence
  <2> QED
    BY <2>2 DEF TakenBack
<1>4. run' \in [Months -> Payroll!RunRows \cup {None}]
  BY PayrollFacts
<1>5. Payroll!PayrollTypeOK'
  BY <1>4, PayrollFacts, PayrollTyped
<1>6. \A k \in Months : run'[k] # None /\ run'[k].paid > 0 =>
        k \in settled' /\ run'[k].paid <= Salary - Total(run'[k].recovery, Loans)
  BY <1>1, PayrollFacts
<1>7. \A k \in settled' \ Payroll!Finalized' : run'[k].archived
  <2>1. ASSUME NEW k \in settled \ Payroll!Finalized', k # m
        PROVE  run'[k].archived
    BY <1>1, <1>2, <2>1, PayrollFacts DEF ReadsFit
  <2>2. m \in settled /\ m \notin Payroll!Finalized' => row.archived
    BY <1>1 DEF Payroll!Finalized
  <2> QED
    BY <1>1, <2>1, <2>2
<1>8. Payroll!DeductionsReachLoans'
  BY <1>2, <1>3, <1>5, <1>6, <1>7, DeductionsSay, PayrollFacts
<1>9. \A k \in Months : run'[k] # None =>
        /\ \A l \in Loans : loan[l] = None => run'[k].recovery[l] = 0
        /\ run'[k].status # "draft" /\ ~run'[k].archived => CalculatedFrom(run'[k])
  BY <1>1, PayrollFacts
<1>10. \A k \in Months : run'[k] # None =>
        /\ \A l \in Loans : loan'[l] = None => run'[k].recovery[l] = 0
        /\ run'[k].status # "draft" /\ ~run'[k].archived => CalculatedFrom(run[k])'
  BY <1>9 DEF CalculatedFrom
<1> QED
  BY <1>2, <1>4, <1>8, <1>10, PayrollFacts DEF PayrollInv

(* A step that leaves the runs alone, and what the loans have got back. *)
LEMMA LoansWritten ==
  ASSUME PayrollAssumption, PayrollInv, UNCHANGED <<run, settled>>, ReadsFit',
         overwritten \subseteq overwritten',
         loan' \in [Loans -> Payroll!LoanRows \cup {None}],
         \A l \in Loans \ overwritten' : loan'[l] # None =>
           loan'[l].recovered = (IF loan[l] = None THEN 0 ELSE loan[l].recovered),
         \A l \in Loans : loan'[l] = None => loan[l] = None,
         attendance' \in [Months -> 0..MaxEdits], staff' \in 0..MaxEdits, edits' \in 0..MaxEdits,
         staff' <= edits', \A m \in Months : attendance'[m] <= edits'
  PROVE  PayrollInv' /\ Payroll!Finalized' \subseteq Payroll!Finalized
<1>1. Payroll!Finalized' = Payroll!Finalized /\ \A l : TakenBack(l)' = TakenBack(l)
  BY DEF Payroll!Finalized, TakenBack
<1>2. Payroll!PayrollTypeOK'
  BY PayrollFacts, PayrollTyped
<1>3. ASSUME NEW l \in Loans \ overwritten', loan'[l] # None PROVE loan'[l].recovered = TakenBack(l)'
  <2>1. CASE loan[l] # None
    BY <1>1, <1>3, <2>1, PayrollFacts
  <2>2. CASE loan[l] = None
    <3> DEFINE f == [k \in settled |-> run[k].recovery[l]]
    <3>1. \A k \in settled : f[k] = 0
      BY <2>2, PayrollFacts DEF ReadsFit
    <3>2. Total(f, settled) = 0
      BY <3>1, TotalZero
    <3> QED
      BY <1>1, <1>3, <2>2, <3>2 DEF TakenBack
  <2> QED
    BY <2>1, <2>2
<1>4. Payroll!DeductionsReachLoans'
  BY <1>1, <1>2, <1>3, DeductionsSay, PayrollFacts
<1>5. \A m \in Months : run'[m] # None =>
        /\ \A l \in Loans : loan'[l] = None => run'[m].recovery[l] = 0
        /\ run'[m].status # "draft" /\ ~run'[m].archived => CalculatedFrom(run[m])'
  BY PayrollFacts DEF CalculatedFrom
<1> QED
  BY <1>1, <1>4, <1>5, PayrollFacts DEF PayrollInv

(* What a loan gives back in one month. *)
LEMMA RecoveryBounds ==
  ASSUME PayrollAssumption, PayrollInv
  PROVE  /\ Payroll!Recovery \in [Loans -> 0..Instalment]
         /\ \A l \in Loans : loan[l] = None => Payroll!Recovery[l] = 0
         /\ \A m \in Months : Payroll!Inputs(m) \in Payroll!InputRows
         /\ \A m \in Months : \A l \in Loans :
              /\ \A p \in Payroll!Inputs(m).loans : p[1] = l => Payroll!Recovery[l] = LoanDue(p[2])
              /\ (\A p \in Payroll!Inputs(m).loans : p[1] # l) => Payroll!Recovery[l] = 0
<1>1. ASSUME NEW l \in Loans
      PROVE  Payroll!Recovery[l] \in 0..Instalment /\ (loan[l] = None => Payroll!Recovery[l] = 0)
  <2>1. CASE loan[l] = None
    BY <2>1, PayrollBounds DEF Payroll!Recovery, Payroll!Active
  <2>2. CASE loan[l] # None
    <3>1. PICK row \in Payroll!LoanRows : row = loan[l]
      BY <2>2, PayrollFacts
    <3>2. Principals \subseteq Nat /\ Instalment \in Nat /\ row.principal \in Nat
            /\ row.recovered \in Nat
      BY PayrollBounds DEF Payroll!LoanRows
    <3>3. CASE row.status # "active" \/ row.archived \/ row.principal < row.recovered
      BY <2>2, <3>1, <3>2, <3>3 DEF Payroll!Recovery, Payroll!Active
    <3>4. CASE ~(row.status # "active" \/ row.archived \/ row.principal < row.recovered)
      <4>1. Payroll!Recovery[l] = Payroll!Least(Instalment, row.principal - row.recovered)
        BY <2>2, <3>1, <3>4 DEF Payroll!Recovery, Payroll!Active
      <4>2. row.principal - row.recovered \in Nat
        BY <3>2, <3>4
      <4> QED
        BY <2>2, <3>2, <4>1, <4>2 DEF Payroll!Least
    <3> QED
      BY <3>3, <3>4
  <2> QED
    BY <2>1, <2>2
<1>2. Payroll!Recovery \in [Loans -> 0..Instalment]
  BY <1>1 DEF Payroll!Recovery
<1> DEFINE actives == {x \in Loans : Payroll!Active(x)}
           pairs == {<<l, loan[l]>> : l \in actives}
<1>3. pairs \subseteq Loans \X Payroll!LoanRows
  BY PayrollFacts DEF Payroll!Active
<1>4. \A m \in Months : /\ Payroll!Inputs(m) \in Payroll!InputRows
                           /\ Payroll!Inputs(m).loans = pairs
  BY <1>3, PayrollFacts DEF Payroll!Inputs, Payroll!InputRows
<1>5. ASSUME NEW l \in Loans, NEW p \in pairs, p[1] = l
      PROVE  Payroll!Recovery[l] = LoanDue(p[2])
  <2>1. PICK x \in actives : p = <<x, loan[x]>>
    OBVIOUS
  <2>2. x = l /\ p[2] = loan[l] /\ Payroll!Active(l)
    BY <1>5, <2>1
  <2> QED
    BY <2>2 DEF Payroll!Recovery, LoanDue
<1>6. ASSUME NEW l \in Loans, \A p \in pairs : p[1] # l
      PROVE  Payroll!Recovery[l] = 0
  <2>1. l \notin actives
    <3> SUFFICES ASSUME l \in actives PROVE FALSE
      OBVIOUS
    <3>1. <<l, loan[l]>> \in pairs
      OBVIOUS
    <3>2. <<l, loan[l]>>[1] = l
      OBVIOUS
    <3> QED
      BY <1>6, <3>1, <3>2
  <2> QED
    BY <2>1 DEF Payroll!Recovery
<1> QED
  BY <1>1, <1>2, <1>4, <1>5, <1>6

(* What is finalized is what a calculation would give now: the inputs are what *)
(* they were, and the recoveries follow from them.                          *)
LEMMA FinalizesNow ==
  ASSUME PayrollAssumption, PayrollInv, NEW m \in Months, Payroll!Finalize(m)
  PROVE  run[m].recovery = Payroll!Recovery /\ run[m].inputs = Payroll!Inputs(m)
<1>1. /\ run[m] # None /\ run[m].status = "approved" /\ run[m].inputs = Payroll!Inputs(m)
      /\ ~run[m].archived
  BY DEF Payroll!Finalize, Payroll!Listed
<1>2. CalculatedFrom(run[m])
  BY <1>1, PayrollFacts
<1>3. PICK row \in Payroll!RunRows : row = run[m]
  BY <1>1, PayrollFacts
<1>4. row.recovery \in [Loans -> 0..Instalment]
  BY DEF Payroll!RunRows
<1>5. \A l \in Loans : row.recovery[l] = Payroll!Recovery[l]
  <2> TAKE l \in Loans
  <2>1. /\ \A p \in Payroll!Inputs(m).loans : p[1] = l => row.recovery[l] = LoanDue(p[2])
        /\ (\A p \in Payroll!Inputs(m).loans : p[1] # l) => row.recovery[l] = 0
    BY <1>1, <1>2, <1>3 DEF CalculatedFrom
  <2>2. /\ \A p \in Payroll!Inputs(m).loans : p[1] = l => Payroll!Recovery[l] = LoanDue(p[2])
        /\ (\A p \in Payroll!Inputs(m).loans : p[1] # l) => Payroll!Recovery[l] = 0
    BY RecoveryBounds
  <2> QED
    BY <2>1, <2>2
<1>6. row.recovery = Payroll!Recovery
  BY <1>4, <1>5, RecoveryBounds
<1> QED
  BY <1>1, <1>3, <1>6

(* A loan after an instalment x. *)
Repaid(old, x) ==
  [old EXCEPT !.recovered = old.recovered + x, !.version = old.version + 1,
              !.status = IF old.recovered + x = old.principal THEN "closed" ELSE old.status]

LEMMA FinalizeWrites ==
  ASSUME NEW m \in Months, Payroll!Finalize(m)
  PROVE  /\ run[m] # None /\ run[m].status = "approved" /\ ~run[m].archived
         /\ settled' = settled \cup {m}
         /\ UNCHANGED <<attendance, staff, edits, runReads, loanReads, overwritten>>
         /\ run' = [run EXCEPT ![m].status = "finalized"]
         /\ loan' = [l \in Loans |->
              IF l \notin Payroll!Deducted(run[m]) THEN loan[l]
              ELSE Repaid(loan[l], run[m].recovery[l])]
<1>1. Payroll!Settle(m) /\ run[m] # None /\ run[m].status = "approved" /\ ~run[m].archived
  BY Zenon DEF Payroll!Finalize, Payroll!Listed
<1>2. settled' = settled \cup {m} /\ run' = [run EXCEPT ![m].status = "finalized"]
  BY <1>1, Zenon DEF Payroll!Settle
<1>3. UNCHANGED <<attendance, staff, edits, runReads, loanReads, overwritten>>
  BY <1>1, Zenon DEF Payroll!Settle, Payroll!archiveVars
<1>4. loan' = [l \in Loans |->
         IF l \notin Payroll!Deducted(run[m]) THEN loan[l]
         ELSE Repaid(loan[l], run[m].recovery[l])]
  BY <1>1, Zenon DEF Payroll!Settle, Repaid
<1> QED
  BY <1>1, <1>2, <1>3, <1>4, Zenon

LEMMA RepaidRow ==
  ASSUME NEW old \in Payroll!LoanRows, NEW x \in Nat
  PROVE  Repaid(old, x) \in Payroll!LoanRows /\ Repaid(old, x).recovered = old.recovered + x
<1>1. PICK y \in Nat : y = old.recovered + x
  BY DEF Payroll!LoanRows
<1>2. PICK s \in {"active", "closed"} : s = IF y = old.principal THEN "closed" ELSE old.status
  BY DEF Payroll!LoanRows
<1>3. PICK v \in Nat : v = old.version + 1
  BY DEF Payroll!LoanRows
<1>4. Repaid(old, x) = [old EXCEPT !.recovered = y, !.version = v, !.status = s]
  BY <1>1, <1>2, <1>3 DEF Repaid
<1> QED
  BY <1>1, <1>4 DEF Payroll!LoanRows

LEMMA RunFinalized ==
  ASSUME PayrollAssumption, PayrollInv, NEW m \in Months, Payroll!Finalize(m)
  PROVE  PayrollInv'
<1>1. /\ run[m] # None /\ run[m].status = "approved" /\ ~run[m].archived
      /\ settled' = settled \cup {m}
      /\ UNCHANGED <<attendance, staff, edits, runReads, loanReads, overwritten>>
      /\ run' = [run EXCEPT ![m].status = "finalized"]
      /\ loan' = [l \in Loans |->
           IF l \notin Payroll!Deducted(run[m]) THEN loan[l]
           ELSE Repaid(loan[l], run[m].recovery[l])]
  BY FinalizeWrites
<1>2. PICK r \in Payroll!RunRows : r = run[m]
  BY <1>1, PayrollFacts
<1>3. /\ r.recovery \in [Loans -> 0..Instalment] /\ r.paid \in 0..Salary /\ r.status = "approved"
      /\ Instalment \in Nat /\ Salary \in Nat
  BY <1>1, <1>2, PayrollBounds DEF Payroll!RunRows
<1> DEFINE n == [r EXCEPT !.status = "finalized"]
<1>4. n \in Payroll!RunRows
  BY DEF Payroll!RunRows
<1>5. n.status = "finalized" /\ n.recovery = r.recovery /\ n.paid = r.paid /\ n.inputs = r.inputs
      /\ n.archived = r.archived
  BY DEF Payroll!RunRows
<1>6. run' = [run EXCEPT ![m] = n]
  BY <1>1, <1>2
<1> HIDE DEF n
<1>7. run'[m] = n /\ n # None /\ \A k \in Months \ {m} : run'[k] = run[k]
  BY <1>4, <1>6, PayrollFacts, PayrollBounds
<1>8. run' \in [Months -> Payroll!RunRows \cup {None}]
  BY <1>4, <1>6, PayrollFacts
<1>9. /\ m \notin Payroll!Finalized /\ Payroll!Finalized' = Payroll!Finalized \cup {m}
      /\ settled \subseteq Months /\ m \notin settled
  BY <1>1, <1>5, <1>7, PayrollFacts DEF Payroll!Finalized, ReadsFit
<1>10. r.paid = 0
  BY <1>1, <1>2, <1>3, <1>9, PayrollFacts
<1>11. \A l \in Loans : l \notin Payroll!Deducted(r) => r.recovery[l] = 0
  BY <1>3 DEF Payroll!Deducted
<1>12. \A l \in Loans : l \in Payroll!Deducted(r) => loan[l] # None
  BY <1>1, <1>2, PayrollFacts DEF Payroll!Deducted
<1>13. /\ loan' \in [Loans -> Payroll!LoanRows \cup {None}]
       /\ \A l \in Loans : loan'[l] = None <=> loan[l] = None
       /\ \A l \in Loans : loan'[l] # None => loan'[l].recovered = loan[l].recovered + r.recovery[l]
  <2>1. ASSUME NEW l \in Loans
        PROVE  /\ loan'[l] \in Payroll!LoanRows \cup {None} /\ (loan'[l] = None <=> loan[l] = None)
               /\ loan'[l] # None => loan'[l].recovered = loan[l].recovered + r.recovery[l]
    <3>1. CASE l \notin Payroll!Deducted(r)
      <4>1. loan'[l] = loan[l] /\ r.recovery[l] = 0
        BY <1>1, <1>2, <1>11, <3>1
      <4>2. loan[l] # None => loan[l].recovered \in Nat
        BY PayrollFacts DEF Payroll!LoanRows
      <4> QED
        BY <4>1, <4>2, PayrollFacts
    <3>2. CASE l \in Payroll!Deducted(r)
      <4>1. PICK old \in Payroll!LoanRows : old = loan[l]
        BY <1>12, <3>2, PayrollFacts
      <4>2. PICK x \in Nat : x = r.recovery[l]
        BY <1>3
      <4>3. loan'[l] = Repaid(old, x)
        BY <1>1, <1>2, <3>2, <4>1, <4>2
      <4> QED
        BY <1>12, <3>2, <4>1, <4>2, <4>3, RepaidRow, PayrollBounds
    <3> QED
      BY <3>1, <3>2
  <2>2. loan' = [l \in Loans |-> loan'[l]]
    BY <1>1
  <2>3. loan' \in [Loans -> Payroll!LoanRows \cup {None}]
    BY <2>1, <2>2
  <2> QED
    BY <2>1, <2>3
<1>14. ReadsFit' /\ Payroll!PayrollTypeOK'
  <2>1. ReadsFit'
    BY <1>1, <1>7, <1>13, PayrollFacts DEF ReadsFit
  <2> QED
    BY <1>1, <1>8, <1>13, <2>1, PayrollFacts, PayrollTyped
<1>15. ASSUME NEW l \in Loans PROVE TakenBack(l)' = TakenBack(l) + r.recovery[l]
  <2> DEFINE f == [k \in settled |-> run[k].recovery[l]]
             g == [k \in settled \cup {m} |-> run'[k].recovery[l]]
  <2>1. TakenBack(l)' = Total(g, settled \cup {m})
          /\ TakenBack(l) = Total(f, settled)
    BY <1>1 DEF TakenBack
  <2>2. \A k \in settled : g[k] = f[k]
    BY <1>7, <1>9
  <2>3. \A k \in settled : f[k] \in 0..Instalment
    <3> TAKE k \in settled
    <3>1. PICK row \in Payroll!RunRows : row = run[k]
      BY PayrollFacts DEF ReadsFit
    <3>2. row.recovery \in [Loans -> 0..Instalment]
      BY DEF Payroll!RunRows
    <3> QED
      BY <3>1, <3>2
  <2>4. g[m] = r.recovery[l] /\ g[m] \in 0..Instalment
    BY <1>3, <1>5, <1>7
  <2>5. \A k \in settled \cup {m} : g[k] \in 0..Instalment
    BY <2>2, <2>3, <2>4
  <2>6. IsFiniteSet(settled)
    BY <1>9, PayrollBounds, FS_Subset
  <2> HIDE DEF f, g
  <2>7. Total(g, settled \cup {m}) = Total(g, settled) + g[m]
    BY <1>3, <1>9, <2>5, <2>6, TotalAdd
  <2>8. Total(g, settled) = Total(f, settled)
    BY <2>2, TotalCongruence
  <2> QED
    BY <2>1, <2>4, <2>7, <2>8
<1>16. \A l \in Loans \ overwritten' : loan'[l] # None => loan'[l].recovered = TakenBack(l)'
  BY <1>1, <1>13, <1>15, PayrollFacts
<1>17. \A k \in Months : run'[k] # None /\ run'[k].paid > 0 =>
         k \in settled' /\ run'[k].paid <= Salary - Total(run'[k].recovery, Loans)
  BY <1>1, <1>5, <1>7, <1>9, <1>10, PayrollFacts
<1>18. Payroll!DeductionsReachLoans'
  <2>1. \A k \in settled' \ Payroll!Finalized' : run'[k].archived
    BY <1>1, <1>7, <1>9, PayrollFacts
  <2> QED
    BY <1>1, <1>9, <1>14, <1>16, <1>17, <2>1, DeductionsSay, PayrollFacts
<1>19. \A k \in Months : run'[k] # None =>
         /\ \A l \in Loans : loan'[l] = None => run'[k].recovery[l] = 0
         /\ run'[k].status # "draft" /\ ~run'[k].archived => CalculatedFrom(run[k])'
  <2> SUFFICES ASSUME NEW k \in Months, run'[k] # None
               PROVE  /\ \A l \in Loans : loan'[l] = None => run'[k].recovery[l] = 0
                      /\ run'[k].status # "draft" /\ ~run'[k].archived => CalculatedFrom(run[k])'
    OBVIOUS
  <2>1. run[k] # None /\ run'[k].recovery = run[k].recovery /\ run'[k].inputs = run[k].inputs
    BY <1>1, <1>2, <1>5, <1>7
  <2>2. run'[k].status # "draft" /\ ~run'[k].archived =>
          run[k].status # "draft" /\ ~run[k].archived
    BY <1>1, <1>2, <1>5, <1>7
  <2> QED
    BY <1>13, <2>1, <2>2, PayrollFacts DEF CalculatedFrom
<1> QED
  BY <1>1, <1>8, <1>13, <1>14, <1>18, <1>19, PayrollFacts DEF PayrollInv

LEMMA PayrollInvStep ==
  ASSUME PayrollAssumption, PayrollInv, [Payroll!PayrollNext]_payrollVars
  PROVE  PayrollInv' /\ Payroll!FinalizesAsOfNow
<1> DEFINE NothingFinalized == PayrollInv' /\ Payroll!Finalized' \subseteq Payroll!Finalized
<1>1. ASSUME NEW m \in Months, Payroll!CreateRun(m)
      PROVE  NothingFinalized
  <2> DEFINE n == [status |-> "draft", inputs |-> None, clear |-> FALSE,
                   recovery |-> [l \in Loans |-> 0], paid |-> 0, archived |-> FALSE]
  <2>1. n \in Payroll!RunRows
    BY PayrollBounds DEF Payroll!RunRows
  <2>2. n.status = "draft" /\ n.paid = 0 /\ \A l \in Loans : n.recovery[l] = 0
    OBVIOUS
  <2>3. run[m] = None /\ run' = [run EXCEPT ![m] = n]
          /\ UNCHANGED <<attendance, staff, loan, edits, settled, runReads, loanReads, overwritten>>
    BY <1>1 DEF Payroll!CreateRun, Payroll!archiveVars
  <2> HIDE DEF n
  <2>4. m \notin settled
    BY <2>3, PayrollFacts DEF ReadsFit
  <2>5. /\ n.status # "finalized" /\ ~(n.paid > 0)
        /\ \A l \in Loans : loan[l] = None => n.recovery[l] = 0
        /\ n.status = "draft"
    BY <2>2, <2>4
  <2>6. ReadsFit'
    <3>1. \A k \in Months : run[k] # None => run'[k] # None
      BY <2>1, <2>3, PayrollFacts, PayrollBounds
    <3> QED
      BY <2>3, <3>1, PayrollFacts, ReadsKept
  <2>7. UNCHANGED <<attendance, staff, loan, edits, settled, overwritten>>
    BY <2>3
  <2> QED
    BY <2>1, <2>3, <2>4, <2>5, <2>6, <2>7, RunWritten
<1>2. ASSUME NEW m \in Months, NEW clear \in BOOLEAN, Payroll!Calculate(m, clear)
      PROVE  NothingFinalized
  <2>1. run[m] # None /\ run[m].status \in {"draft", "review"} /\ ~run[m].archived
    BY <1>2 DEF Payroll!Calculate, Payroll!archiveVars, Payroll!Listed
  <2>2. PICK row \in Payroll!RunRows : row = run[m]
    BY <2>1, PayrollFacts
  <2>3. PICK rec \in [Loans -> 0..Instalment] : rec = Payroll!Recovery
    BY RecoveryBounds
  <2>4. PICK inp \in Payroll!InputRows : inp = Payroll!Inputs(m)
    BY RecoveryBounds
  <2> DEFINE n == [row EXCEPT !.status = "review", !.inputs = inp, !.clear = clear,
    !.recovery = rec]
  <2>5. n \in Payroll!RunRows
    BY DEF Payroll!RunRows
  <2>6. n.status = "review" /\ n.inputs = inp /\ n.recovery = rec /\ n.paid = row.paid
        /\ n.archived = row.archived
    BY DEF Payroll!RunRows
  <2>7. run' = [run EXCEPT ![m] = n] /\ UNCHANGED <<attendance, staff, loan, edits, settled, runReads, loanReads, overwritten>>
    BY <1>2, <2>2, <2>3, <2>4 DEF Payroll!Calculate, Payroll!archiveVars
  <2> HIDE DEF n
  <2>8. m \notin settled
    BY <2>1, PayrollFacts DEF Payroll!Finalized
  <2>9. row.paid \in 0..Salary /\ ~(row.paid > 0) /\ Salary \in Nat
    BY <2>1, <2>2, <2>8, PayrollFacts, PayrollBounds DEF Payroll!RunRows
  <2>11. CalculatedFrom(n)
    BY <2>3, <2>4, <2>6, RecoveryBounds DEF CalculatedFrom
  <2>12. \A l \in Loans : loan[l] = None => n.recovery[l] = 0
    BY <2>3, <2>6, RecoveryBounds
  <2>13. ReadsFit' /\ UNCHANGED <<attendance, staff, loan, edits, settled, overwritten>>
    <3>1. \A k \in Months : run[k] # None => run'[k] # None
      BY <2>5, <2>7, PayrollFacts, PayrollBounds
    <3> QED
      BY <2>7, <3>1, PayrollFacts, ReadsKept
  <2> QED
    BY <2>5, <2>6, <2>7, <2>8, <2>9, <2>11, <2>12, <2>13, RunWritten
<1>3. ASSUME NEW m \in Months, Payroll!Approve(m)
      PROVE  NothingFinalized
  <2>1. run[m] # None /\ run[m].status = "review" /\ ~run[m].archived
    BY <1>3 DEF Payroll!Approve, Payroll!archiveVars, Payroll!Listed
  <2>2. PICK row \in Payroll!RunRows : row = run[m]
    BY <2>1, PayrollFacts
  <2> DEFINE n == [row EXCEPT !.status = "approved"]
  <2>3. n \in Payroll!RunRows
    BY DEF Payroll!RunRows
  <2>4. /\ n.status = "approved" /\ n.inputs = row.inputs /\ n.recovery = row.recovery
        /\ n.paid = row.paid /\ n.archived = row.archived
    BY DEF Payroll!RunRows
  <2>5. run' = [run EXCEPT ![m] = n] /\ UNCHANGED <<attendance, staff, loan, edits, settled, runReads, loanReads, overwritten>>
    BY <1>3, <2>2 DEF Payroll!Approve, Payroll!archiveVars
  <2> HIDE DEF n
  <2>6. m \notin settled
    BY <2>1, PayrollFacts DEF Payroll!Finalized
  <2>7. ~(row.paid > 0)
    BY <2>1, <2>2, <2>6, PayrollFacts
  <2>8. CalculatedFrom(n)
    BY <2>1, <2>2, <2>4, PayrollFacts DEF CalculatedFrom
  <2>9. \A l \in Loans : loan[l] = None => n.recovery[l] = 0
    BY <2>1, <2>2, <2>4, PayrollFacts
  <2>10. ReadsFit' /\ UNCHANGED <<attendance, staff, loan, edits, settled, overwritten>>
    <3>1. \A k \in Months : run[k] # None => run'[k] # None
      BY <2>3, <2>5, PayrollFacts, PayrollBounds
    <3> QED
      BY <2>5, <3>1, PayrollFacts, ReadsKept
  <2> QED
    BY <2>3, <2>4, <2>5, <2>6, <2>7, <2>8, <2>9, <2>10, RunWritten
<1>4. ASSUME NEW m \in Months, NEW amount \in 1..Salary, Payroll!PaySalary(m, amount)
      PROVE  NothingFinalized
  <2>1. /\ run[m] # None /\ run[m].status = "finalized" /\ run[m].paid + amount <= Payroll!Net(m)
        /\ ~run[m].archived
    BY <1>4 DEF Payroll!PaySalary, Payroll!archiveVars, Payroll!Listed
  <2>2. PICK row \in Payroll!RunRows : row = run[m]
    BY <2>1, PayrollFacts
  <2>3. row.paid \in 0..Salary /\ row.recovery \in [Loans -> 0..Instalment] /\ Salary \in Nat
          /\ Instalment \in Nat
    BY PayrollBounds DEF Payroll!RunRows
  <2>4. Payroll!Net(m) = Salary - Total(row.recovery, Loans) /\ Total(row.recovery, Loans) \in Nat
    BY <2>2, <2>3, PayrollBounds, PayrollTotal, TotalType DEF Payroll!Net
  <2>5. PICK p \in 0..Salary : p = row.paid + amount
    BY <2>1, <2>2, <2>3, <2>4
  <2> DEFINE n == [row EXCEPT !.paid = p]
  <2>6. n \in Payroll!RunRows
    BY DEF Payroll!RunRows
  <2>7. n.status = row.status /\ n.inputs = row.inputs /\ n.recovery = row.recovery /\ n.paid = p
        /\ n.archived = row.archived
    BY DEF Payroll!RunRows
  <2>8. run' = [run EXCEPT ![m] = n] /\ UNCHANGED <<attendance, staff, loan, edits, settled, runReads, loanReads, overwritten>>
    BY <1>4, <2>2, <2>5 DEF Payroll!PaySalary, Payroll!archiveVars
  <2> HIDE DEF n
  <2>9. m \in Payroll!Finalized /\ m \in settled
    BY <2>1, PayrollFacts DEF Payroll!Finalized
  <2>10. CalculatedFrom(n)
    BY <2>1, <2>2, <2>7, PayrollFacts DEF CalculatedFrom
  <2>11. \A l \in Loans : loan[l] = None => n.recovery[l] = 0
    BY <2>1, <2>2, <2>7, PayrollFacts
  <2>12. p <= Salary - Total(row.recovery, Loans)
    BY <2>1, <2>2, <2>4, <2>5
  <2>13. ReadsFit' /\ UNCHANGED <<attendance, staff, loan, edits, settled, overwritten>>
    <3>1. \A k \in Months : run[k] # None => run'[k] # None
      BY <2>6, <2>8, PayrollFacts, PayrollBounds
    <3> QED
      BY <2>8, <3>1, PayrollFacts, ReadsKept
  <2> QED
    BY <2>1, <2>2, <2>6, <2>7, <2>8, <2>9, <2>10, <2>11, <2>12, <2>13, RunWritten
<1>5. ASSUME NEW m \in Months, Payroll!EditAttendance(m)
      PROVE  NothingFinalized
  <2>1. /\ edits < MaxEdits /\ attendance' = [attendance EXCEPT ![m] = attendance[m] + 1]
        /\ edits' = edits + 1 /\ UNCHANGED <<run, staff, loan, settled, runReads, loanReads, overwritten>>
    BY <1>5 DEF Payroll!EditAttendance, Payroll!archiveVars
  <2>2. /\ attendance \in [Months -> 0..MaxEdits] /\ staff \in 0..MaxEdits /\ edits \in 0..MaxEdits
        /\ staff <= edits /\ MaxEdits \in Nat /\ \A k \in Months : attendance[k] <= edits
    BY PayrollFacts, PayrollBounds
  <2>3. attendance[m] + 1 \in 0..MaxEdits /\ attendance[m] + 1 <= edits'
    BY <2>1, <2>2
  <2>4. attendance' \in [Months -> 0..MaxEdits] /\ edits' \in 0..MaxEdits /\ staff' <= edits'
    BY <2>1, <2>2, <2>3
  <2>5. \A k \in Months : attendance'[k] <= edits'
    <3> TAKE k \in Months
    <3>1. attendance[k] \in 0..MaxEdits /\ attendance[k] <= edits
      BY <2>2
    <3> QED
      BY <2>1, <2>2, <2>3, <3>1
  <2>7. \A l \in Loans : loan'[l] # None =>
          loan'[l].recovered = (IF loan[l] = None THEN 0 ELSE loan[l].recovered)
    BY <2>1
  <2>8. ReadsFit' /\ UNCHANGED <<run, settled, overwritten>>
    BY <2>1, PayrollFacts, ReadsKept
  <2> QED
    BY <2>1, <2>2, <2>4, <2>5, <2>7, <2>8, LoansWritten, PayrollFacts
<1>6. ASSUME Payroll!EditStaff
      PROVE  NothingFinalized
  <2>1. /\ edits < MaxEdits /\ staff' = staff + 1 /\ edits' = edits + 1
        /\ UNCHANGED <<run, attendance, loan, settled, runReads, loanReads, overwritten>>
    BY <1>6 DEF Payroll!EditStaff, Payroll!archiveVars
  <2>2. /\ attendance \in [Months -> 0..MaxEdits] /\ staff \in 0..MaxEdits /\ edits \in 0..MaxEdits
        /\ staff <= edits /\ MaxEdits \in Nat /\ \A k \in Months : attendance[k] <= edits
    BY PayrollFacts, PayrollBounds
  <2>3. staff' \in 0..MaxEdits /\ edits' \in 0..MaxEdits /\ staff' <= edits'
    BY <2>1, <2>2
  <2>4. \A k \in Months : attendance'[k] <= edits'
    <3> TAKE k \in Months
    <3>1. attendance[k] \in 0..MaxEdits /\ attendance[k] <= edits
      BY <2>2
    <3> QED
      BY <2>1, <2>2, <3>1
  <2>7. \A l \in Loans : loan'[l] # None =>
          loan'[l].recovered = (IF loan[l] = None THEN 0 ELSE loan[l].recovered)
    BY <2>1
  <2>8. /\ loan' \in [Loans -> Payroll!LoanRows \cup {None}]
           /\ attendance' \in [Months -> 0..MaxEdits]
        /\ \A l \in Loans : loan'[l] = None => loan[l] = None
    BY <2>1, PayrollFacts
  <2>9. ReadsFit' /\ UNCHANGED <<run, settled, overwritten>>
    BY <2>1, PayrollFacts, ReadsKept
  <2> QED
    BY <2>1, <2>2, <2>3, <2>4, <2>7, <2>8, <2>9, LoansWritten
<1>7. ASSUME NEW l \in Loans, NEW principal \in Principals,
             Payroll!AddLoan(l, principal)
      PROVE  NothingFinalized
  <2> DEFINE n == [principal |-> principal, recovered |-> 0, version |-> 1, status |-> "active",
                   archived |-> FALSE]
  <2>1. n \in Payroll!LoanRows /\ n.recovered = 0
    BY DEF Payroll!LoanRows
  <2>2. /\ loan[l] = None /\ loan' = [loan EXCEPT ![l] = n]
        /\ UNCHANGED <<run, attendance, staff, edits, settled, runReads, loanReads, overwritten>>
    BY <1>7 DEF Payroll!AddLoan, Payroll!archiveVars
  <2> HIDE DEF n
  <2>3. /\ loan' \in [Loans -> Payroll!LoanRows \cup {None}] /\ loan'[l] = n /\ n # None
        /\ \A k \in Loans \ {l} : loan'[k] = loan[k]
    BY <2>1, <2>2, PayrollFacts, PayrollBounds
  <2>4. \A k \in Loans : loan'[k] # None =>
          loan'[k].recovered = (IF loan[k] = None THEN 0 ELSE loan[k].recovered)
    BY <2>1, <2>2, <2>3
  <2>5. \A k \in Loans : loan'[k] = None => loan[k] = None
    BY <2>2, <2>3
  <2>6. ReadsFit' /\ UNCHANGED <<run, settled, overwritten>>
    BY <2>2, <2>3, <2>5, PayrollFacts, ReadsKept
  <2> QED
    BY <2>2, <2>3, <2>4, <2>5, <2>6, LoansWritten, PayrollFacts
<1>8. ASSUME NEW l \in Loans, NEW principal \in Principals,
             Payroll!EditLoan(l, principal)
      PROVE  NothingFinalized
  <2>1. loan[l] # None /\ edits < MaxEdits
    BY <1>8 DEF Payroll!EditLoan, Payroll!archiveVars
  <2>2. PICK row \in Payroll!LoanRows : row = loan[l]
    BY <2>1, PayrollFacts
  <2>3. row.version + 1 \in Nat
    BY DEF Payroll!LoanRows
  <2> DEFINE n == [row EXCEPT !.principal = principal, !.version = row.version + 1]
  <2>4. n \in Payroll!LoanRows
    BY <2>3 DEF Payroll!LoanRows
  <2>5. n.recovered = row.recovered
    BY DEF Payroll!LoanRows
  <2>6. /\ loan' = [loan EXCEPT ![l] = n] /\ edits' = edits + 1
        /\ UNCHANGED <<run, attendance, staff, settled, runReads, loanReads, overwritten>>
    BY <1>8, <2>2 DEF Payroll!EditLoan, Payroll!archiveVars
  <2> HIDE DEF n
  <2>7. /\ attendance \in [Months -> 0..MaxEdits] /\ staff \in 0..MaxEdits /\ edits \in 0..MaxEdits
        /\ staff <= edits /\ MaxEdits \in Nat /\ \A k \in Months : attendance[k] <= edits
    BY PayrollFacts, PayrollBounds
  <2>8. edits' \in 0..MaxEdits /\ staff' <= edits'
    BY <2>1, <2>6, <2>7
  <2>9. \A k \in Months : attendance'[k] <= edits'
    <3> TAKE k \in Months
    <3>1. attendance[k] \in 0..MaxEdits /\ attendance[k] <= edits
      BY <2>7
    <3> QED
      BY <2>6, <2>7, <3>1
  <2>10. /\ loan' \in [Loans -> Payroll!LoanRows \cup {None}] /\ loan'[l] = n /\ n # None
         /\ \A k \in Loans \ {l} : loan'[k] = loan[k]
    BY <2>4, <2>6, PayrollFacts, PayrollBounds
  <2>11. \A k \in Loans : loan'[k] # None =>
           loan'[k].recovered = (IF loan[k] = None THEN 0 ELSE loan[k].recovered)
    BY <2>1, <2>2, <2>5, <2>10
  <2>12. \A k \in Loans : loan'[k] = None => loan[k] = None
    BY <2>10
  <2>13. ReadsFit' /\ UNCHANGED <<run, settled, overwritten>>
    BY <2>6, <2>10, <2>12, PayrollFacts, ReadsKept
  <2> QED
    BY <2>6, <2>7, <2>8, <2>9, <2>10, <2>11, <2>12, <2>13, LoansWritten
<1>9. ASSUME UNCHANGED payrollVars
      PROVE  NothingFinalized
  <2>1. UNCHANGED <<run, attendance, staff, loan, edits, settled, runReads, loanReads, overwritten>>
    BY <1>9 DEF payrollVars, archiveVars
  <2>2. \A l \in Loans : loan'[l] # None =>
          loan'[l].recovered = (IF loan[l] = None THEN 0 ELSE loan[l].recovered)
    BY <2>1
  <2>3. /\ loan' \in [Loans -> Payroll!LoanRows \cup {None}]
           /\ attendance' \in [Months -> 0..MaxEdits]
        /\ staff' \in 0..MaxEdits /\ edits' \in 0..MaxEdits
        /\ staff' <= edits' /\ \A m \in Months : attendance'[m] <= edits'
        /\ \A l \in Loans : loan'[l] = None => loan[l] = None
    BY <2>1, PayrollFacts
  <2>4. ReadsFit' /\ UNCHANGED <<run, settled, overwritten>>
    BY <2>1, PayrollFacts, ReadsKept
  <2> QED
    BY <2>1, <2>2, <2>3, <2>4, LoansWritten
<1>10. ASSUME NEW m \in Months, Payroll!Finalize(m)
       PROVE  PayrollInv' /\ Payroll!FinalizesAsOfNow
  <2>1. \A k \in Months : k \notin Payroll!Finalized /\ k \in Payroll!Finalized' => k = m
    <3> SUFFICES ASSUME NEW k \in Months, k # m, k \in Payroll!Finalized'
                 PROVE  k \in Payroll!Finalized
      OBVIOUS
    <3>1. run' = [run EXCEPT ![m].status = "finalized"]
      BY <1>10, FinalizeWrites
    <3>3. run'[k] = run[k]
      BY <3>1, PayrollFacts
    <3> QED
      BY <3>3 DEF Payroll!Finalized
  <2> QED
    BY <1>10, <2>1, FinalizesNow, RunFinalized DEF Payroll!FinalizesAsOfNow
<1>11. ASSUME NothingFinalized
       PROVE  PayrollInv' /\ Payroll!FinalizesAsOfNow
  BY <1>11 DEF Payroll!FinalizesAsOfNow
<1>12. ASSUME NEW m \in Months, Payroll!StartArchiveRun(m)
       PROVE  NothingFinalized
  <2>1. /\ run[m] # None /\ run[m].status \in {"draft", "review"}
        /\ runReads' = [runReads EXCEPT ![m] = [status |-> run[m].status,
                                               inputs |-> run[m].inputs]]
        /\ UNCHANGED <<run, attendance, staff, loan, edits, settled, loanReads, overwritten>>
    BY <1>12 DEF Payroll!StartArchiveRun, Payroll!Listed
  <2>2. PICK row \in Payroll!RunRows : row = run[m]
    BY <2>1, PayrollFacts
  <2>3. [status |-> row.status, inputs |-> row.inputs] \in Payroll!RunCopies
    BY <2>1, <2>2 DEF Payroll!RunRows, Payroll!RunCopies
  <2>4. runReads' \in [Months -> Payroll!RunCopies \cup {None}]
    BY <2>1, <2>2, <2>3, PayrollFacts DEF ReadsFit
  <2>5. \A k \in Months : runReads'[k] # None => run'[k] # None
    BY <2>1, PayrollFacts DEF ReadsFit
  <2>6. ReadsFit'
    BY <2>1, <2>4, <2>5, PayrollFacts DEF ReadsFit
  <2> QED
    BY <2>1, <2>6, LoansWritten, PayrollFacts
<1>13. ASSUME NEW m \in Months, Payroll!FinishArchiveRun(m)
       PROVE  NothingFinalized
  <2>1. /\ runReads[m] # None /\ runReads' = [runReads EXCEPT ![m] = None]
        /\ UNCHANGED <<attendance, staff, loan, edits, settled, loanReads, overwritten>>
    BY <1>13 DEF Payroll!FinishArchiveRun
  <2>2. run[m] # None /\ runReads[m] \in Payroll!RunCopies
    BY <2>1, PayrollFacts DEF ReadsFit
  <2>3. PICK row \in Payroll!RunRows : row = run[m]
    BY <2>2, PayrollFacts
  <2>4. PICK copy \in Payroll!RunCopies : copy = runReads[m]
    BY <2>2
  <2> DEFINE n == [row EXCEPT !.status = copy.status, !.inputs = copy.inputs, !.archived = TRUE]
  <2>5. n \in Payroll!RunRows
    BY DEF Payroll!RunRows, Payroll!RunCopies
  <2>6. /\ n.status \in {"draft", "review"} /\ n.archived /\ n.recovery = row.recovery
        /\ n.paid = row.paid
    BY DEF Payroll!RunRows, Payroll!RunCopies
  <2>7. run' = [run EXCEPT ![m] = n]
    BY <1>13, <2>3, <2>4 DEF Payroll!FinishArchiveRun
  <2> HIDE DEF n
  <2>8. run'[m] # None /\ \A k \in Months \ {m} : run'[k] = run[k]
    BY <2>5, <2>7, PayrollFacts, PayrollBounds
  <2>9. /\ runReads' \in [Months -> Payroll!RunCopies \cup {None}]
        /\ \A k \in Months \ {m} : runReads'[k] = runReads[k]
    BY <2>1, PayrollFacts DEF ReadsFit
  <2>10. ReadsFit'
    BY <2>1, <2>8, <2>9, PayrollFacts DEF ReadsFit
  <2>11. n.paid > 0 => m \in settled /\ n.paid <= Salary - Total(n.recovery, Loans)
    BY <2>2, <2>3, <2>6, PayrollFacts
  <2>12. \A l \in Loans : loan[l] = None => n.recovery[l] = 0
    BY <2>2, <2>3, <2>6, PayrollFacts
  <2> QED
    BY <2>1, <2>3, <2>5, <2>6, <2>7, <2>10, <2>11, <2>12, RunWritten
<1>14. ASSUME NEW l \in Loans, Payroll!StartArchiveLoan(l)
       PROVE  NothingFinalized
  <2>1. /\ loan[l] # None /\ loanReads' = [loanReads EXCEPT ![l] = loan[l]]
        /\ UNCHANGED <<run, attendance, staff, loan, edits, settled, runReads, overwritten>>
    BY <1>14 DEF Payroll!StartArchiveLoan
  <2>2. /\ loanReads' \in [Loans -> Payroll!LoanRows \cup {None}]
        /\ \A k \in Loans : loanReads'[k] # None => loan'[k] # None
    BY <2>1, PayrollFacts DEF ReadsFit
  <2>3. ReadsFit'
    BY <2>1, <2>2, PayrollFacts DEF ReadsFit
  <2> QED
    BY <2>1, <2>3, LoansWritten, PayrollFacts
<1>15. ASSUME NEW l \in Loans, Payroll!FinishArchiveLoan(l)
       PROVE  NothingFinalized
  <2>1. /\ loanReads[l] # None /\ loanReads' = [loanReads EXCEPT ![l] = None]
        /\ overwritten' = overwritten \cup {x \in {l} : loan[x].recovered # loanReads[x].recovered}
        /\ UNCHANGED <<run, attendance, staff, edits, settled, runReads>>
    BY <1>15 DEF Payroll!FinishArchiveLoan
  <2>2. PICK copy \in Payroll!LoanRows : copy = loanReads[l]
    BY <2>1, PayrollFacts DEF ReadsFit
  <2>3. copy.version + 1 \in Nat
    BY DEF Payroll!LoanRows
  <2> DEFINE n == [copy EXCEPT !.version = copy.version + 1, !.archived = TRUE]
  <2>4. n \in Payroll!LoanRows /\ n.recovered = copy.recovered
    BY <2>3 DEF Payroll!LoanRows
  <2>5. loan' = [loan EXCEPT ![l] = n]
    BY <1>15, <2>2 DEF Payroll!FinishArchiveLoan
  <2> HIDE DEF n
  <2>6. /\ loan' \in [Loans -> Payroll!LoanRows \cup {None}] /\ loan'[l] = n /\ n # None
        /\ \A k \in Loans \ {l} : loan'[k] = loan[k]
    BY <2>4, <2>5, PayrollFacts, PayrollBounds
  <2>7. loan[l] # None /\ (l \notin overwritten' => n.recovered = loan[l].recovered)
    BY <2>1, <2>2, <2>4, PayrollFacts DEF ReadsFit
  <2>8. /\ loanReads' \in [Loans -> Payroll!LoanRows \cup {None}]
        /\ \A k \in Loans : loanReads'[k] # None => loan'[k] # None
    BY <2>1, <2>6, PayrollFacts DEF ReadsFit
  <2>9. overwritten' \subseteq Loans /\ overwritten \subseteq overwritten'
    BY <2>1, PayrollFacts DEF ReadsFit
  <2>10. ReadsFit'
    BY <2>1, <2>8, <2>9, PayrollFacts DEF ReadsFit
  <2>11. \A k \in Loans \ overwritten' : loan'[k] # None =>
           loan'[k].recovered = (IF loan[k] = None THEN 0 ELSE loan[k].recovered)
    BY <2>6, <2>7
  <2>12. \A k \in Loans : loan'[k] = None => loan[k] = None
    BY <2>6
  <2> QED
    BY <2>1, <2>6, <2>9, <2>10, <2>11, <2>12, LoansWritten, PayrollFacts
<1> HIDE DEF NothingFinalized
<1> QED
  BY <1>1, <1>2, <1>3, <1>4, <1>5, <1>6, <1>7, <1>8, <1>9, <1>10, <1>11,
     <1>12, <1>13, <1>14, <1>15
     DEF Payroll!PayrollNext

-----------------------------------------------------------------------------
(* Documents: what a command can do to one document.                        *)

LEMMA RowFields ==
  ASSUME NEW r \in Rows
  PROVE  /\ r.kind \in Kinds /\ r.status \in Statuses /\ r.qty \in Qty
         /\ r.source \in Docs \cup {None} /\ r.order \in Docs \cup {None}
         /\ r.paid \in Int /\ r.version \in Nat /\ r.version + 1 \in Nat
         /\ r.archived \in BOOLEAN
BY DEF Rows

LEMMA RowIsNotNone ==
  ASSUME NEW r \in Rows
  PROVE  r # NoDoc /\ r.status # "none"
BY DEF Rows, NoDoc, Statuses

LEMMA RowOrNone ==
  ASSUME TypeOK, NEW d \in Docs
  PROVE  /\ doc[d] \in Rows \/ doc[d] = NoDoc
         /\ doc[d] # NoDoc => doc[d] \in Rows
         /\ doc[d] # NoDoc <=> doc[d].status # "none"
         /\ doc[d].kind \in Kinds \cup {None} /\ doc[d].qty \in 0..MaxQty
         /\ doc[d].source \in Docs \cup {None} /\ doc[d].order \in Docs \cup {None}
         /\ doc[d].version \in Nat /\ doc[d].paid \in Int /\ doc[d].archived \in BOOLEAN
         /\ doc[d] = NoDoc => doc[d].source = None /\ doc[d].order = None /\ doc[d].qty = 0
<1>1. doc[d] \in Rows \/ doc[d] = NoDoc
  BY DEF TypeOK
<1>2. CASE doc[d] \in Rows
  BY <1>2, RowIsNotNone, RowFields, DocumentsAssumption DEF Qty
<1>3. CASE doc[d] = NoDoc
  BY <1>3, DocumentsAssumption DEF NoDoc
<1>4. QED
  BY <1>1, <1>2, <1>3

LEMMA QtyNat == Qty \subseteq Nat /\ 0..MaxQty \subseteq Nat /\ MaxQty \in Nat
BY DocumentsAssumption DEF Qty

LEMMA TouchedRows ==
  ASSUME TypeOK, NEW d \in Docs, doc[d] # NoDoc, NEW st \in Statuses
  PROVE  /\ Touched(d, st) \in [Docs -> Rows \cup {NoDoc}]
         /\ Touched(d, st)[d] \in Rows
         /\ \A e \in Docs \ {d} : Touched(d, st)[e] = doc[e]
         /\ Touched(d, st)[d].status = st
         /\ Touched(d, st)[d].kind = doc[d].kind /\ Touched(d, st)[d].qty = doc[d].qty
         /\ Touched(d, st)[d].source = doc[d].source /\ Touched(d, st)[d].order = doc[d].order
         /\ Touched(d, st)[d].paid = doc[d].paid
         /\ Touched(d, st)[d].archived = doc[d].archived
<1> DEFINE v == doc[d].version + 1
<1>0. PICK new : new = [doc[d] EXCEPT !.status = st, !.version = v]
  OBVIOUS
<1>1. doc[d] \in Rows /\ v \in Nat
  BY RowOrNone, RowFields
<1>2. new \in Rows /\ new.status = st /\ new.kind = doc[d].kind /\ new.qty = doc[d].qty
      /\ new.source = doc[d].source /\ new.order = doc[d].order
      /\ new.paid = doc[d].paid /\ new.archived = doc[d].archived
  <2> HIDE DEF v
  <2>1. QED
    BY <1>0, <1>1 DEF Rows
<1>3. Touched(d, st) = [doc EXCEPT ![d] = new]
  BY <1>0 DEF Touched
<1>4. QED
  BY <1>2, <1>3 DEF TypeOK

Fixed == {"issued", "partially_received", "received"}

(* The status of a document that is not archived moves one step along. *)
Advances(d) ==
  \/ doc'[d].status = doc[d].status
  \/ \E a \in Approvals : Submit(d, a) /\ doc'[d].status = "pending_approval"
  \/ \E a \in Approvals : /\ approval[a].doc = d /\ approval[a].status = "pending"
                          /\ \/ Approve(a) /\ doc'[d].status = "approved"
                             \/ Reject(a) /\ doc'[d].status = "draft"
  \/ Post(d) /\ doc'[d].status = PostedAs(doc[d].kind)
  \/ doc[d].kind = "quotation" /\ doc[d].status = "issued" /\ doc'[d].status = "accepted"
  \/ /\ doc[d].kind = "purchase_order" /\ Derived(d) # {}
     /\ doc[d].status \in Fixed
     /\ doc'[d].status \in {"partially_received", "received"}
  \/ Void(d) /\ doc'[d].status = "void"

(* What never changes of a document, and how the rest of it can change. *)
Moves(d) ==
  /\ doc'[d] \in Rows
  /\ doc'[d].kind = doc[d].kind /\ doc'[d].source = doc[d].source
  /\ doc'[d].order = doc[d].order
  /\ Exists(d)' => Exists(d) /\ Advances(d)
  /\ \/ doc'[d].qty = doc[d].qty
     \/ /\ Exists(d) /\ Derived(d) = {} /\ doc[d].source = None
        /\ doc[d].status \in {"draft", "void"} /\ doc'[d].status = doc[d].status
  /\ \/ Exists(d)' => doc'[d].paid = doc[d].paid
     \/ \E p \in Payments : \/ \E kind \in {"invoice", "supplier_bill"}, f \in Amounts :
                                 RecordPayment(p, kind, f)
                            \/ VoidPayment(p)

(* No document comes into being. *)
NoneBorn == \A d \in Docs : IF doc[d] = NoDoc THEN doc'[d] = NoDoc ELSE Moves(d)

(* A document that comes into being. *)
Born(d) ==
  \E kind \in Kinds, n \in Qty, s, o \in Docs \cup {None} :
    /\ doc[d] = NoDoc
    /\ doc' = [doc EXCEPT ![d] = Draft(kind, n, s, o)]
    /\ \/ s = None /\ o = None
       \/ /\ s \in Docs /\ doc[s] # NoDoc /\ kind = "quotation" /\ doc[s].kind = "quotation"
          /\ o = None
       \/ s \in Docs /\ Convert(s, kind, n, d) /\ o = Origin(s)
    /\ UNCHANGED <<revenue, approval, payment, archiving>>

LEMMA MovesTouched ==
  ASSUME TypeOK, NEW d \in Docs, doc[d] # NoDoc, NEW st \in Statuses, doc' = Touched(d, st),
         Exists(d) /\ doc'[d].status = st => Advances(d)
  PROVE  \A e \in Docs : doc[e] # NoDoc => Moves(e)
<1> SUFFICES ASSUME NEW e \in Docs, doc[e] # NoDoc PROVE Moves(e)
  OBVIOUS
<1>1. CASE e = d
  BY <1>1, TouchedRows, RowIsNotNone DEF Moves, Exists
<1>2. CASE e # d
  <2>1. doc'[e] = doc[e]
    BY <1>2, TouchedRows
  <2>2. QED
    BY <2>1, RowOrNone DEF Moves, Exists, Advances
<1>3. QED
  BY <1>1, <1>2

LEMMA MovesKept ==
  ASSUME TypeOK, NEW e \in Docs, doc[e] # NoDoc, doc'[e] = doc[e]
  PROVE  Moves(e)
BY RowOrNone DEF Moves, Exists, Advances

(* What the proofs about Documents need beside its properties.              *)

(* A document is drawn from one that is there, of a kind it can be drawn    *)
(* from; the order it goes back to has been drawn from, by way of what it is *)
(* drawn from; and what an archive request has read agrees with the document *)
(* in all that never changes.                                               *)
SourcesFit ==
  /\ \A d \in Docs : doc[d].source # None =>
       /\ doc[doc[d].source] # NoDoc
       /\ doc[d].kind # "quotation" => <<doc[doc[d].source].kind, doc[d].kind>> \in Conversions
  /\ \A d \in Docs : doc[d].order # None =>
       doc[d].source # None /\ Derived(doc[d].order) # {}
  /\ archiving # None =>
       LET now == doc[archiving.of]
       IN  /\ now # NoDoc
           /\ archiving.row.kind = now.kind
           /\ archiving.row.source = now.source
           /\ archiving.row.order = now.order

(* The statuses that documents of some kinds can have, and what has been    *)
(* drawn from them by then.                                                 *)
StatusesFit ==
  \A d \in Docs : Exists(d) =>
    /\ doc[d].status # "cancelled"
    /\ doc[d].kind \in {"invoice", "credit_note", "supplier_bill"} =>
         doc[d].status \in {"draft", "pending_approval", "approved", "posted", "void"}
    /\ doc[d].kind = "purchase_order" =>
         doc[d].status \in {"draft", "pending_approval", "approved", "issued",
                            "partially_received", "received"}
    /\ doc[d].status \in {"partially_received", "received"} => Derived(d) # {}
    /\ OfKind(Derived(d), "goods_receipt") # {} =>
         doc[d].status \in {"issued", "partially_received", "received"}
    /\ doc[d].kind = "invoice" /\ Derived(d) # {} => doc[d].status = "posted"

(* A document with a pending approval waits for it, for the amount it was   *)
(* asked for and for no other; an approved one is past that.                *)
ApprovalsFit ==
  \A a \in Approvals : approval[a] # NoApproval =>
    LET d == approval[a].doc
    IN  /\ doc[d] # NoDoc
        /\ approval[a].status = "pending" /\ Exists(d) =>
             /\ doc[d].status = "pending_approval" /\ approval[a].amount = doc[d].qty
             /\ \A b \in Approvals :
                  approval[b].doc = d /\ approval[b].status = "pending" => a = b
        /\ approval[a].status = "approved" /\ Exists(d) =>
             doc[d].status \notin {"draft", "pending_approval"}

(* Revenue is recorded for what is posted, and money for what was.  An      *)
(* archived document keeps what it had.                                     *)
BooksFit ==
  /\ \A d \in Docs : /\ doc[d] = NoDoc => revenue[d] = 0
                     /\ Exists(d) /\ doc[d].kind \in {"invoice", "credit_note"} =>
                          revenue[d] = IF doc[d].status = "posted" THEN Recognized(d) ELSE 0
  /\ \A p \in Payments, d \in Docs : payment[p].of[d] > 0 =>
       /\ doc[d] # NoDoc /\ doc[d].kind \in {"invoice", "supplier_bill"}
       /\ Exists(d) => doc[d].status \in {"posted", "void"}

DocumentsInv ==
  /\ TypeOK
  /\ SourcesFit
  /\ StatusesFit
  /\ ApprovalsFit
  /\ BooksFit
  /\ LinesNotOverdrawn
  /\ PostedAsApproved
  /\ PaidIsSettled

LEMMA ReceivedOrder ==
  ASSUME DocumentsInv, NEW d \in Docs, doc[d].kind = "goods_receipt", doc[d].source # None
  PROVE  /\ doc[d].source \in Docs /\ doc[d].source # d /\ doc[doc[d].source] # NoDoc
         /\ doc[doc[d].source].kind = "purchase_order"
         /\ Derived(doc[d].source) # {}
         /\ (Exists(doc[d].source) => doc[doc[d].source].status \in Fixed)
<1> DEFINE s == doc[d].source
<1>1. s \in Docs
  BY RowOrNone DEF DocumentsInv
<1>2. doc[s] # NoDoc /\ <<doc[s].kind, "goods_receipt">> \in Conversions
  BY DEF DocumentsInv, SourcesFit
<1>3. doc[s].kind = "purchase_order"
  BY <1>2 DEF Conversions
<1>4. doc[d] # NoDoc
  BY DEF NoDoc
<1>5. d \in OfKind(Derived(s), "goods_receipt") /\ d \in Derived(s)
  BY <1>4 DEF OfKind, Derived
<1>6. Exists(s) => doc[s].status \in Fixed
  BY <1>1, <1>5 DEF DocumentsInv, StatusesFit, Fixed
<1>7. QED
  BY <1>1, <1>2, <1>3, <1>5, <1>6

LEMMA PostedAsStatus ==
  ASSUME NEW kind
  PROVE  /\ PostedAs(kind) \in {"issued", "confirmed", "posted"} /\ PostedAs(kind) \in Statuses
         /\ kind \in {"invoice", "credit_note", "supplier_bill", "goods_receipt"} =>
              PostedAs(kind) = "posted"
         /\ kind = "purchase_order" => PostedAs(kind) = "issued"
BY DEF PostedAs, Statuses

(* Every step leaves a document alone, moves it along, or draws a new one.  *)
LEMMA DocumentsMove ==
  ASSUME DocumentsInv, [Next]_vars
  PROVE  NoneBorn \/ \E d \in Docs : Born(d)
<1> DEFINE Goal == NoneBorn \/ \E d \in Docs : Born(d)
<1> USE DEF NoneBorn
<1>0. TypeOK
  BY DEF DocumentsInv
<1>1. ASSUME UNCHANGED doc PROVE Goal
  BY <1>0, <1>1, MovesKept
<1>2. ASSUME NEW d \in Docs, doc[d] # NoDoc, NEW st \in Statuses, doc' = Touched(d, st),
             Exists(d) /\ doc'[d].status = st => Advances(d)
      PROVE  Goal
  <2>1. \A e \in Docs : doc[e] # NoDoc => Moves(e)
    BY <1>0, <1>2, MovesTouched
  <2>2. \A e \in Docs : doc[e] = NoDoc => doc'[e] = NoDoc
    BY <1>0, <1>2, TouchedRows
  <2>3. QED
    BY <2>1, <2>2
<1>3. ASSUME NEW d \in Docs, NEW n \in Qty, NEW kind \in Created,
             Create(d, kind, n) PROVE Goal
  <2>1. kind \in Kinds
    BY <1>3, DocumentsAssumption
  <2>2. Born(d)
    BY <1>3, <2>1 DEF Create, Born
  <2>3. QED
    BY <2>2
<1>4. ASSUME NEW d \in Docs, NEW n \in Qty, Edit(d, n) PROVE Goal
  <2> DEFINE v == doc[d].version + 1
  <2>0. PICK new : new = [doc[d] EXCEPT !.qty = n, !.version = v]
    OBVIOUS
  <2>1. doc' = [doc EXCEPT ![d] = new] /\ Exists(d) /\ doc[d] # NoDoc
    BY <1>4, <2>0 DEF Edit, Exists
  <2>2. doc[d] \in Rows /\ v \in Nat
    BY <1>0, <2>1, RowOrNone, RowFields
  <2>3. /\ new \in Rows /\ new.kind = doc[d].kind /\ new.source = doc[d].source
        /\ new.order = doc[d].order /\ new.paid = doc[d].paid /\ new.status = doc[d].status
        /\ new.archived = doc[d].archived
    <3> HIDE DEF v
    <3>1. QED
      BY <2>0, <2>2 DEF Rows
  <2>4. doc'[d] = new /\ \A e \in Docs \ {d} : doc'[e] = doc[e]
    BY <1>0, <2>1 DEF TypeOK
  <2>5. doc[d].status \in {"draft", "void"} /\ Derived(d) = {} /\ doc[d].source = None
    BY <1>4, <2>1, <2>2 DEF Edit, DocumentsInv, StatusesFit, Locked, Rows, Statuses
  <2>6. Moves(d)
    BY <2>1, <2>3, <2>4, <2>5 DEF Moves, Advances, Exists
  <2>7. QED
    BY <1>0, <2>1, <2>4, <2>6, MovesKept
<1>5. ASSUME FinishArchive PROVE Goal
  <2>0. PICK d \in Docs : d = archiving.of
    BY <1>0, <1>5 DEF FinishArchive, TypeOK
  <2> DEFINE v == archiving.row.version + 1
             q == doc[d].qty
  <2>1. PICK new : new = [archiving.row EXCEPT !.status = "cancelled", !.archived = TRUE,
                                               !.version = v, !.qty = q]
    OBVIOUS
  <2>2. doc' = [doc EXCEPT ![d] = new] /\ archiving.row \in Rows
    BY <1>0, <1>5, <2>0, <2>1 DEF FinishArchive, TypeOK
  <2>3. /\ doc[d] # NoDoc /\ archiving.row.kind = doc[d].kind
        /\ archiving.row.source = doc[d].source /\ archiving.row.order = doc[d].order
    BY <1>5, <2>0 DEF FinishArchive, DocumentsInv, SourcesFit
  <2>4. q \in Qty /\ v \in Nat
    BY <1>0, <2>2, <2>3, RowOrNone, RowFields
  <2>5. /\ new \in Rows /\ new.kind = doc[d].kind /\ new.source = doc[d].source
        /\ new.order = doc[d].order /\ new.qty = q /\ new.archived = TRUE
    <3> HIDE DEF v, q
    <3>1. QED
      BY <2>1, <2>2, <2>3, <2>4 DEF Rows, Statuses
  <2>6. doc'[d] = new /\ \A e \in Docs \ {d} : doc'[e] = doc[e]
    BY <1>0, <2>2 DEF TypeOK
  <2>7. Moves(d)
    BY <2>5, <2>6 DEF Moves, Exists
  <2>8. QED
    BY <1>0, <2>3, <2>6, <2>7, MovesKept
<1>6. ASSUME NEW d \in Docs, NEW a \in Approvals, Submit(d, a) PROVE Goal
  <2>1. doc' = Touched(d, "pending_approval") /\ doc[d] # NoDoc
    BY <1>6 DEF Submit, Exists
  <2>2. "pending_approval" \in Statuses
    BY DEF Statuses
  <2>3. doc'[d].status = "pending_approval" => Advances(d)
    BY <1>6 DEF Advances
  <2>4. QED
    BY <1>2, <2>1, <2>2, <2>3
<1>7. ASSUME NEW a \in Approvals, Approve(a) PROVE Goal
  <2> DEFINE d == approval[a].doc
  <2>1. approval[a].status = "pending" /\ approval[a] # NoApproval
    BY <1>7 DEF Approve, NoApproval
  <2>2. d \in Docs /\ doc[d] # NoDoc
    BY <1>0, <2>1 DEF DocumentsInv, ApprovalsFit, TypeOK
  <2>3. "approved" \in Statuses
    BY DEF Statuses
  <2>4. UNCHANGED doc \/ doc' = Touched(d, "approved")
    BY <1>7 DEF Approve
  <2>5. doc'[d].status = "approved" => Advances(d)
    BY <1>7, <2>1 DEF Advances
  <2> HIDE DEF d
  <2>6. QED
    BY <1>1, <1>2, <2>2, <2>3, <2>4, <2>5
<1>8. ASSUME NEW a \in Approvals, Reject(a) PROVE Goal
  <2> DEFINE d == approval[a].doc
  <2>1. approval[a].status = "pending" /\ approval[a] # NoApproval
    BY <1>8 DEF Reject, NoApproval
  <2>2. d \in Docs /\ doc[d] # NoDoc
    BY <1>0, <2>1 DEF DocumentsInv, ApprovalsFit, TypeOK
  <2>3. "draft" \in Statuses
    BY DEF Statuses
  <2>4. doc' = Touched(d, "draft")
    BY <1>8 DEF Reject
  <2>5. doc'[d].status = "draft" => Advances(d)
    BY <1>8, <2>1 DEF Advances
  <2> HIDE DEF d
  <2>6. QED
    BY <1>2, <2>2, <2>3, <2>4, <2>5
<1>9. ASSUME NEW d \in Docs, Post(d) PROVE Goal
  <2>1. doc' = Received(d) /\ doc[d] # NoDoc /\ Exists(d)
    BY <1>9 DEF Post, Exists
  <2>2. CASE doc[d].kind = "goods_receipt" /\ doc[d].source # None
    <3> DEFINE t == Touched(d, "posted")
    <3>s. PICK s \in Docs : s = doc[d].source
      BY <2>2, ReceivedOrder
    <3>1. PICK st \in {"partially_received", "received"} :
            doc' = [t EXCEPT ![s].status = st, ![s].version = @ + 1]
      <4>1. doc' = [t EXCEPT ![s].status = IF Remaining(s, "goods_receipt") <= 0
                                           THEN "received" ELSE "partially_received",
                             ![s].version = @ + 1]
        BY <2>1, <2>2, <3>s DEF Received
      <4> HIDE DEF t
      <4>2. QED
        BY <4>1
    <3>2. /\ s \in Docs /\ s # d /\ doc[s] # NoDoc /\ doc[s].kind = "purchase_order"
          /\ Derived(s) # {} /\ (Exists(s) => doc[s].status \in Fixed)
      BY <2>2, <3>s, ReceivedOrder
    <3>3. /\ t \in [Docs -> Rows \cup {NoDoc}] /\ t[d] \in Rows
          /\ \A e \in Docs \ {d} : t[e] = doc[e]
          /\ t[d].status = "posted"
          /\ t[d].kind = doc[d].kind /\ t[d].qty = doc[d].qty
          /\ t[d].source = doc[d].source /\ t[d].order = doc[d].order
          /\ t[d].paid = doc[d].paid /\ t[d].archived = doc[d].archived
      BY <1>0, <2>1, TouchedRows DEF Statuses
    <3> DEFINE v == doc[s].version + 1
    <3>0. PICK new : new = [doc[s] EXCEPT !.status = st, !.version = v]
      OBVIOUS
    <3> HIDE DEF t
    <3>4. doc[s] \in Rows /\ v \in Nat
      BY <1>0, <3>2, RowOrNone, RowFields
    <3>5. /\ new \in Rows /\ new.status = st /\ new.kind = doc[s].kind /\ new.qty = doc[s].qty
          /\ new.source = doc[s].source /\ new.order = doc[s].order
          /\ new.paid = doc[s].paid /\ new.archived = doc[s].archived
      <4>1. st \in Statuses
        BY DEF Statuses
      <4> HIDE DEF v
      <4>2. QED
        BY <3>0, <3>4, <4>1 DEF Rows
    <3>6. doc' = [t EXCEPT ![s] = new]
      <4>1. t[s] = doc[s]
        BY <3>2, <3>3
      <4>2. QED
        BY <3>0, <3>1, <4>1
    <3>7. /\ doc'[s] = new /\ doc'[d] = t[d]
          /\ \A e \in Docs \ {d, s} : doc'[e] = doc[e]
      BY <2>1, <3>2, <3>3, <3>6
    <3>8. Moves(d)
      BY <1>9, <2>1, <2>2, <3>3, <3>7, PostedAsStatus DEF Moves, Advances
    <3>9. Moves(s)
      <4>1. Exists(s)' => Exists(s)
        BY <3>2, <3>5, <3>7 DEF Exists
      <4>2. Exists(s) => Advances(s)
        BY <3>2, <3>5, <3>7 DEF Advances
      <4>3. QED
        BY <3>5, <3>7, <4>1, <4>2 DEF Moves
    <3>10. QED
      BY <1>0, <2>1, <3>2, <3>7, <3>8, <3>9, MovesKept
  <2>3. CASE ~(doc[d].kind = "goods_receipt" /\ doc[d].source # None)
    <3>1. doc' = Touched(d, PostedAs(doc[d].kind))
      BY <2>1, <2>3 DEF Received
    <3>2. PostedAs(doc[d].kind) \in Statuses
      BY PostedAsStatus
    <3>3. doc'[d].status = PostedAs(doc[d].kind) => Advances(d)
      BY <1>9 DEF Advances
    <3>4. QED
      BY <1>2, <2>1, <3>1, <3>2, <3>3
  <2>4. QED
    BY <2>2, <2>3
<1>10. ASSUME NEW d \in Docs, AcceptQuotation(d) PROVE Goal
  <2>1. /\ doc' = Touched(d, "accepted") /\ doc[d] # NoDoc
        /\ doc[d].kind = "quotation" /\ doc[d].status = "issued"
    BY <1>10 DEF AcceptQuotation, Exists
  <2>2. "accepted" \in Statuses
    BY DEF Statuses
  <2>3. doc'[d].status = "accepted" => Advances(d)
    BY <2>1 DEF Advances
  <2>4. QED
    BY <1>2, <2>1, <2>2, <2>3
<1>11. ASSUME NEW d \in Docs, NEW e \in Docs, ReviseQuotation(d, e) PROVE Goal
  <2>1. doc[d] \in Rows /\ doc[d] # NoDoc /\ doc[d].kind = "quotation" /\ doc[d].qty \in Qty
    BY <1>0, <1>11, RowOrNone DEF ReviseQuotation, Exists, Rows
  <2>2. "quotation" \in Kinds
    BY DEF Kinds
  <2>3. Born(e)
    BY <1>11, <2>1, <2>2 DEF ReviseQuotation, Born
  <2>4. QED
    BY <2>3
<1>12. ASSUME NEW s \in Docs, NEW d \in Docs, NEW kind \in Kinds, NEW n \in Qty,
              Convert(s, kind, n, d)
       PROVE  Goal
  <2>1. Origin(s) \in Docs \cup {None}
    BY <1>0, RowOrNone DEF Origin
  <2>2. /\ doc[d] = NoDoc /\ doc' = [doc EXCEPT ![d] = Draft(kind, n, s, Origin(s))]
        /\ UNCHANGED <<revenue, approval, payment, archiving>>
    BY <1>12 DEF Convert
  <2>3. Born(d)
    BY <1>12, <2>1, <2>2 DEF Born
  <2>4. QED
    BY <2>3
<1>13. ASSUME NEW d \in Docs, Void(d) PROVE Goal
  <2>1. doc' = Touched(d, "void") /\ doc[d] # NoDoc
    BY <1>13 DEF Void, Exists
  <2>2. "void" \in Statuses
    BY DEF Statuses
  <2>3. doc'[d].status = "void" => Advances(d)
    BY <1>13 DEF Advances
  <2>4. QED
    BY <1>2, <2>1, <2>2, <2>3
<1>14. ASSUME NEW p \in Payments, NEW kind \in {"invoice", "supplier_bill"},
              NEW f \in Amounts,
              RecordPayment(p, kind, f)
       PROVE  Goal
  <2>1. ASSUME NEW e \in Docs, doc[e] # NoDoc PROVE Moves(e)
    <3>1. doc[e] \in Rows /\ f[e] \in Int
      BY <1>0, <2>1, RowOrNone DEF Amounts
    <3>2. doc'[e] = IF f[e] > 0
                    THEN [doc[e] EXCEPT !.paid = doc[e].paid + f[e],
                                        !.version = doc[e].version + 1] ELSE doc[e]
      BY <1>14 DEF RecordPayment
    <3>3. /\ doc'[e] \in Rows /\ doc'[e].kind = doc[e].kind /\ doc'[e].qty = doc[e].qty
          /\ doc'[e].source = doc[e].source /\ doc'[e].order = doc[e].order
          /\ doc'[e].archived = doc[e].archived /\ doc'[e].status = doc[e].status
      <4> DEFINE v == doc[e].version + 1
                 a == doc[e].paid + f[e]
      <4>1. v \in Nat /\ a \in Int
        BY <3>1, RowFields
      <4>2. doc'[e] = doc[e] \/ doc'[e] = [doc[e] EXCEPT !.paid = a, !.version = v]
        BY <3>2
      <4> HIDE DEF v, a
      <4>3. QED
        BY <3>1, <4>1, <4>2 DEF Rows
    <3>4. QED
      BY <1>14, <2>1, <3>3 DEF Moves, Exists, Advances
  <2>2. ASSUME NEW e \in Docs, doc[e] = NoDoc PROVE doc'[e] = NoDoc
    <3>0. f[e] > 0 => doc[e].status = "posted"
      BY <1>14 DEF RecordPayment
    <3>1. ~(f[e] > 0)
      BY <2>2, <3>0 DEF NoDoc
    <3>2. QED
      BY <1>14, <2>2, <3>1 DEF RecordPayment
  <2>3. QED
    BY <2>1, <2>2
<1>15. ASSUME NEW p \in Payments, VoidPayment(p) PROVE Goal
  <2>0. payment[p].of \in Amounts
    BY <1>0 DEF TypeOK
  <2>1. ASSUME NEW e \in Docs, doc[e] # NoDoc PROVE Moves(e)
    <3>1. doc[e] \in Rows /\ payment[p].of[e] \in Int
      BY <1>0, <2>0, <2>1, RowOrNone DEF Amounts
    <3>2. doc'[e] = IF payment[p].of[e] > 0
                    THEN [doc[e] EXCEPT !.paid = doc[e].paid - payment[p].of[e],
                                        !.version = doc[e].version + 1]
                    ELSE doc[e]
      BY <1>15 DEF VoidPayment
    <3>3. /\ doc'[e] \in Rows /\ doc'[e].kind = doc[e].kind /\ doc'[e].qty = doc[e].qty
          /\ doc'[e].source = doc[e].source /\ doc'[e].order = doc[e].order
          /\ doc'[e].archived = doc[e].archived /\ doc'[e].status = doc[e].status
      <4> DEFINE v == doc[e].version + 1
                 a == doc[e].paid - payment[p].of[e]
      <4>1. v \in Nat /\ a \in Int
        BY <3>1, RowFields
      <4>2. doc'[e] = doc[e] \/ doc'[e] = [doc[e] EXCEPT !.paid = a, !.version = v]
        BY <3>2
      <4> HIDE DEF v, a
      <4>3. QED
        BY <3>1, <4>1, <4>2 DEF Rows
    <3>4. QED
      BY <1>15, <2>1, <3>3 DEF Moves, Exists, Advances
  <2>2. ASSUME NEW e \in Docs, doc[e] = NoDoc PROVE doc'[e] = NoDoc
    <3>1. ~(payment[p].of[e] > 0)
      BY <2>2 DEF DocumentsInv, BooksFit
    <3>2. QED
      BY <1>15, <2>2, <3>1 DEF VoidPayment
  <2>3. QED
    BY <2>1, <2>2
<1>16. ASSUME NEW d \in Docs, StartArchive(d) PROVE Goal
  BY <1>1, <1>16 DEF StartArchive
<1>17. ASSUME UNCHANGED vars PROVE Goal
  BY <1>1, <1>17 DEF vars
<1> HIDE DEF Goal
<1>18. ASSUME Next PROVE Goal
  BY <1>3, <1>4, <1>5, <1>6, <1>7, <1>8, <1>9, <1>10, <1>11, <1>12, <1>13, <1>14, <1>15,
     <1>16, <1>18 DEF Next
<1>19. QED
  BY <1>17, <1>18 DEF Goal
-----------------------------------------------------------------------------
(* Documents: types, sources and statuses. *)

LEMMA RevenueEffect ==
  ASSUME [Next]_vars
  PROVE  UNCHANGED revenue \/ \E d \in Docs : Post(d) \/ Void(d)
BY DEF Next, vars, Create, Edit, StartArchive, FinishArchive, Submit, Approve, Reject,
       AcceptQuotation, ReviseQuotation, Convert, RecordPayment, VoidPayment

LEMMA ApprovalEffect ==
  ASSUME [Next]_vars
  PROVE  \/ UNCHANGED approval
         \/ \E a \in Approvals : \/ \E d \in Docs : Submit(d, a)
                                 \/ Approve(a)
                                 \/ Reject(a)
BY DEF Next, vars, Create, Edit, StartArchive, FinishArchive, Post, Void,
       AcceptQuotation, ReviseQuotation, Convert, RecordPayment, VoidPayment

LEMMA PaymentEffect ==
  ASSUME [Next]_vars
  PROVE  \/ UNCHANGED payment
         \/ \E p \in Payments : \/ \E kind \in {"invoice", "supplier_bill"}, f \in Amounts :
                                     RecordPayment(p, kind, f)
                                \/ VoidPayment(p)
BY DEF Next, vars, Create, Edit, StartArchive, FinishArchive, Submit, Approve, Reject, Post,
       Void, AcceptQuotation, ReviseQuotation, Convert

LEMMA ArchivingEffect ==
  ASSUME [Next]_vars
  PROVE  UNCHANGED archiving \/ (\E d \in Docs : StartArchive(d)) \/ FinishArchive
BY DEF Next, vars, Create, Edit, Submit, Approve, Reject, Post,
       Void, AcceptQuotation, ReviseQuotation, Convert, RecordPayment, VoidPayment

(* A new document changes nothing else, and nothing is drawn from it.       *)
LEMMA BornRows ==
  ASSUME DocumentsInv, NEW d \in Docs, Born(d)
  PROVE  /\ doc[d] = NoDoc /\ doc'[d] \in Rows /\ doc'[d] # NoDoc
         /\ \A e \in Docs \ {d} : doc'[e] = doc[e]
         /\ doc'[d].status = "draft" /\ doc'[d].paid = 0 /\ ~doc'[d].archived
         /\ UNCHANGED <<revenue, approval, payment, archiving>>
         /\ \A e \in Docs : doc[e].source # d /\ doc[e].order # d
         /\ doc'[d].source # d /\ doc'[d].order # d
         /\ \/ doc'[d].source = None /\ doc'[d].order = None
            \/ /\ doc'[d].source \in Docs /\ doc[doc'[d].source] # NoDoc
               /\ doc'[d].kind = "quotation" /\ doc[doc'[d].source].kind = "quotation"
               /\ doc'[d].order = None
            \/ /\ doc'[d].source \in Docs /\ doc[doc'[d].source] # NoDoc
               /\ Convert(doc'[d].source, doc'[d].kind, doc'[d].qty, d)
               /\ doc'[d].order = Origin(doc'[d].source)
<1>0. TypeOK /\ SourcesFit
  BY DEF DocumentsInv
<1>1. PICK kind \in Kinds, n \in Qty, s \in Docs \cup {None}, o \in Docs \cup {None} :
        /\ doc[d] = NoDoc
        /\ doc' = [doc EXCEPT ![d] = Draft(kind, n, s, o)]
        /\ \/ s = None /\ o = None
           \/ /\ s \in Docs /\ doc[s] # NoDoc /\ kind = "quotation" /\ doc[s].kind = "quotation"
              /\ o = None
           \/ s \in Docs /\ Convert(s, kind, n, d) /\ o = Origin(s)
        /\ UNCHANGED <<revenue, approval, payment, archiving>>
  BY DEF Born
<1>2. /\ doc'[d] = Draft(kind, n, s, o)
      /\ \A e \in Docs \ {d} : doc'[e] = doc[e]
  BY <1>0, <1>1 DEF TypeOK
<1>3. /\ doc'[d] \in Rows /\ doc'[d] # NoDoc
      /\ doc'[d].status = "draft" /\ doc'[d].paid = 0 /\ ~doc'[d].archived
      /\ doc'[d].kind = kind /\ doc'[d].qty = n /\ doc'[d].source = s /\ doc'[d].order = o
  <2>1. PICK r : r = Draft(kind, n, s, o)
    OBVIOUS
  <2>2. r \in Rows /\ r.kind = kind /\ r.qty = n /\ r.source = s /\ r.order = o
        /\ r.status = "draft" /\ r.paid = 0 /\ r.archived = FALSE
    BY <2>1 DEF Draft, Rows, Statuses
  <2>3. QED
    BY <1>2, <2>1, <2>2, RowIsNotNone
<1>4. Derived(d) = {}
  BY <1>0, <1>1, DocumentsAssumption DEF Derived, SourcesFit
<1>5. \A e \in Docs : doc[e].source # d /\ doc[e].order # d
  BY <1>0, <1>1, <1>4, RowOrNone, DocumentsAssumption DEF SourcesFit
<1>6. s \in Docs => doc[s] # NoDoc
  BY <1>1, DocumentsAssumption DEF Convert, Drawable, Exists
<1>7. s # d
  BY <1>1, <1>6
<1>8. o # d
  BY <1>1, <1>5, <1>7, DocumentsAssumption DEF Origin
<1>9. QED
  BY <1>1, <1>2, <1>3, <1>5, <1>6, <1>7, <1>8

LEMMA DocRowsKept ==
  ASSUME DocumentsInv, [Next]_vars
  PROVE  /\ doc' \in [Docs -> Rows \cup {NoDoc}]
         /\ \A d \in Docs : doc[d] # NoDoc =>
              /\ doc'[d] # NoDoc /\ doc'[d].kind = doc[d].kind
              /\ doc'[d].source = doc[d].source /\ doc'[d].order = doc[d].order
<1>0. TypeOK
  BY DEF DocumentsInv
<1>1. DOMAIN doc' = Docs /\ doc' = [d \in Docs |-> doc'[d]]
  BY <1>0
     DEF TypeOK, Next, vars, Create, Edit, StartArchive, FinishArchive, Submit,
         Approve,
     Reject, Post, Received, Touched, Void, AcceptQuotation, ReviseQuotation, Convert,
     RecordPayment, VoidPayment
<1>2. CASE NoneBorn
  BY <1>1, <1>2, RowIsNotNone DEF NoneBorn, Moves
<1>3. CASE \E d \in Docs : Born(d)
  <2>1. PICK d \in Docs : Born(d)
    BY <1>3
  <2>2. QED
    BY <1>0, <1>1, <2>1, BornRows DEF TypeOK
<1>4. QED
  BY <1>2, <1>3, DocumentsMove

LEMMA TypesKept ==
  ASSUME DocumentsInv, [Next]_vars
  PROVE  TypeOK'
<1>0. TypeOK
  BY DEF DocumentsInv
<1>1. doc' \in [Docs -> Rows \cup {NoDoc}]
  BY DocRowsKept
<1>2. revenue' \in [Docs -> Int]
  <2>1. ASSUME NEW d \in Docs PROVE Recognized(d) \in Int /\ doc[d].qty \in Int
    BY <1>0, RowOrNone, QtyNat DEF Recognized
  <2>2. ASSUME NEW d \in Docs, Post(d) PROVE revenue' \in [Docs -> Int]
    BY <1>0, <2>1, <2>2 DEF TypeOK, Post
  <2>3. ASSUME NEW d \in Docs, Void(d) PROVE revenue' \in [Docs -> Int]
    BY <1>0, <2>1, <2>3 DEF TypeOK, Void
  <2>4. QED
    BY <1>0, <2>2, <2>3, RevenueEffect DEF TypeOK
<1>3. approval' \in [Approvals ->
         [doc : Docs, version : Nat, amount : Qty, step : 1..Steps,
          status : {"pending", "approved", "rejected"}] \cup {NoApproval}]
  <2>1. ASSUME NEW d \in Docs, NEW a \in Approvals, Submit(d, a) PROVE <1>3!:
    <3>1. doc[d].version + 1 \in Nat /\ doc[d].qty \in Qty /\ 1 \in 1..Steps
      BY <1>0, <2>1, RowOrNone, RowFields, DocumentsAssumption DEF Submit, Exists
    <3>2. QED
      BY <1>0, <2>1, <3>1 DEF TypeOK, Submit
  <2>2. ASSUME NEW a \in Approvals, Approve(a) PROVE <1>3!:
    <3>1. approval[a] \in [doc : Docs, version : Nat, amount : Qty, step : 1..Steps,
                           status : {"pending", "approved", "rejected"}]
      BY <1>0, <2>2 DEF TypeOK, Approve, NoApproval
    <3>2. PICK n \in 1..Steps, st \in {"pending", "approved"} :
            approval' = [approval EXCEPT ![a] = [approval[a] EXCEPT !.step = n, !.status = st]]
      <4>1. CASE approval[a].step < Steps
        <5>1. approval[a].step + 1 \in 1..Steps
          BY <3>1, <4>1, DocumentsAssumption
        <5>2. approval' = [approval EXCEPT ![a] = [approval[a] EXCEPT
                             !.step = approval[a].step + 1, !.status = "pending"]]
          <6>1. PICK n : n = approval[a].step + 1
            OBVIOUS
          <6>2. approval' = [approval EXCEPT ![a].step = n] /\ approval[a].status = "pending"
            BY <2>2, <4>1, <6>1 DEF Approve
          <6>3. [approval[a] EXCEPT !.step = n] =
                  [approval[a] EXCEPT !.step = n, !.status = "pending"]
            BY <3>1, <6>2
          <6>4. QED
            BY <6>1, <6>2, <6>3
        <5>3. QED
          BY <5>1, <5>2
      <4>2. CASE ~(approval[a].step < Steps)
        <5>1. approval' = [approval EXCEPT ![a].status = "approved"]
          BY <2>2, <4>2 DEF Approve
        <5>2. [approval[a] EXCEPT !.status = "approved"] =
              [approval[a] EXCEPT !.step = approval[a].step, !.status = "approved"]
          BY <3>1
        <5>3. QED
          BY <3>1, <5>1, <5>2
      <4>3. QED
        BY <4>1, <4>2
    <3>3. PICK new : new = [approval[a] EXCEPT !.step = n, !.status = st]
      OBVIOUS
    <3>4. new \in [doc : Docs, version : Nat, amount : Qty, step : 1..Steps,
                   status : {"pending", "approved", "rejected"}]
      BY <3>1, <3>3
    <3>5. QED
      BY <1>0, <3>2, <3>3, <3>4 DEF TypeOK
  <2>3. ASSUME NEW a \in Approvals, Reject(a) PROVE <1>3!:
    <3>1. approval[a] \in [doc : Docs, version : Nat, amount : Qty, step : 1..Steps,
                           status : {"pending", "approved", "rejected"}]
      BY <1>0, <2>3 DEF TypeOK, Reject, NoApproval
    <3>2. PICK new : new = [approval[a] EXCEPT !.status = "rejected"]
      OBVIOUS
    <3>3. approval' = [approval EXCEPT ![a] = new]
      BY <2>3, <3>2 DEF Reject
    <3>4. new \in [doc : Docs, version : Nat, amount : Qty, step : 1..Steps,
                   status : {"pending", "approved", "rejected"}]
      BY <3>1, <3>2
    <3>5. QED
      BY <1>0, <3>3, <3>4 DEF TypeOK
  <2>4. QED
    BY <1>0, <2>1, <2>2, <2>3, ApprovalEffect DEF TypeOK
<1>4. payment' \in [Payments -> [status : {"none", "posted", "void"}, of : Amounts]]
  <2>1. ASSUME NEW p \in Payments, NEW kind, NEW f \in Amounts,
               RecordPayment(p, kind, f)
        PROVE  <1>4!:
    BY <1>0, <2>1 DEF TypeOK, RecordPayment
  <2>2. ASSUME NEW p \in Payments, VoidPayment(p) PROVE <1>4!:
    <3>1. PICK new : new = [payment[p] EXCEPT !.status = "void"]
      OBVIOUS
    <3>2. payment' = [payment EXCEPT ![p] = new]
      BY <2>2, <3>1 DEF VoidPayment
    <3>3. payment[p] \in [status : {"none", "posted", "void"}, of : Amounts]
      BY <1>0 DEF TypeOK
    <3>4. new \in [status : {"none", "posted", "void"}, of : Amounts]
      BY <3>1, <3>3
    <3>5. QED
      BY <1>0, <3>2, <3>4 DEF TypeOK
  <2>3. QED
    BY <1>0, <2>1, <2>2, PaymentEffect DEF TypeOK
<1>5. archiving' \in [of : Docs, row : Rows] \cup {None}
  <2>1. ASSUME NEW d \in Docs, StartArchive(d) PROVE <1>5!:
    <3>1. doc[d] \in Rows
      BY <1>0, <2>1, RowOrNone DEF StartArchive, Exists
    <3>2. QED
      BY <2>1, <3>1 DEF StartArchive
  <2>2. CASE FinishArchive
    BY <2>2 DEF FinishArchive
  <2>3. QED
    BY <1>0, <2>1, <2>2, ArchivingEffect DEF TypeOK
<1>6. QED
  BY <1>1, <1>2, <1>3, <1>4, <1>5 DEF TypeOK

(* What is drawn from a document stays so. *)
LEMMA DerivedKept ==
  ASSUME DocumentsInv, [Next]_vars
  PROVE  /\ NoneBorn => \A s \in Docs : Derived(s)' = Derived(s)
         /\ \A d \in Docs : Born(d) =>
              /\ Derived(d)' = {} /\ Derived(d) = {}
              /\ \A s \in Docs : Derived(s)' = IF doc'[d].source = s THEN Derived(s) \cup {d}
                                                                   ELSE Derived(s)
<1>1. ASSUME NoneBorn, NEW s \in Docs PROVE Derived(s)' = Derived(s)
  BY <1>1, DocRowsKept DEF NoneBorn, Derived
<1>2. ASSUME NEW d \in Docs, Born(d)
      PROVE  /\ \A s \in Docs : Derived(s)' = IF doc'[d].source = s THEN Derived(s) \cup {d}
                                                                   ELSE Derived(s)
             /\ Derived(d)' = {} /\ Derived(d) = {}
  <2>1. /\ doc[d] = NoDoc /\ doc'[d] # NoDoc /\ doc'[d].source # d
        /\ \A e \in Docs \ {d} : doc'[e] = doc[e] /\ doc[e].source # d
        /\ doc[d].source # d
    BY <1>2, BornRows
  <2>2. QED
    BY <2>1 DEF Derived
<1>3. QED
  BY <1>1, <1>2

LEMMA SourcesKept ==
  ASSUME DocumentsInv, [Next]_vars
  PROVE  SourcesFit'
<1>0. TypeOK /\ SourcesFit
  BY DEF DocumentsInv
<1>1. ASSUME NEW d \in Docs, doc'[d].source # None
      PROVE  /\ doc'[doc'[d].source] # NoDoc
             /\ doc'[d].kind # "quotation" =>
                  <<doc'[doc'[d].source].kind, doc'[d].kind>> \in Conversions
  <2>1. CASE doc[d] # NoDoc
    <3>1. PICK s : s = doc[d].source
      OBVIOUS
    <3>2. doc'[d].source = s /\ doc'[d].kind = doc[d].kind
      BY <2>1, <3>1, DocRowsKept
    <3>3. s \in Docs
      BY <1>0, <1>1, <3>1, <3>2, RowOrNone
    <3>4. doc[s] # NoDoc
            /\ (doc[d].kind # "quotation" => <<doc[s].kind, doc[d].kind>> \in Conversions)
      BY <1>0, <1>1, <3>1, <3>2 DEF SourcesFit
    <3>5. doc'[s] # NoDoc /\ doc'[s].kind = doc[s].kind
      BY <3>3, <3>4, DocRowsKept
    <3>6. QED
      BY <3>2, <3>4, <3>5
  <2>2. CASE doc[d] = NoDoc
    <3>1. doc'[d] # NoDoc
      BY <1>1 DEF NoDoc
    <3>2. Born(d)
      <4>1. PICK e \in Docs : Born(e)
        BY <2>2, <3>1, DocumentsMove DEF NoneBorn
      <4>2. e = d
        BY <2>2, <3>1, <4>1, BornRows
      <4>3. QED
        BY <4>1, <4>2
    <3>3. PICK s : s = doc'[d].source
      OBVIOUS
    <3>4. s \in Docs /\ s # d /\ doc[s] # NoDoc
      BY <1>1, <3>2, <3>3, BornRows
    <3>5. doc'[s] = doc[s]
      BY <3>2, <3>4, BornRows
    <3>6. doc'[d].kind # "quotation" => <<doc[s].kind, doc'[d].kind>> \in Conversions
      BY <1>1, <3>2, <3>3, BornRows DEF Convert, Drawable
    <3>7. QED
      BY <3>3, <3>4, <3>5, <3>6
  <2>3. QED
    BY <2>1, <2>2
<1>2. ASSUME NEW d \in Docs, NEW o, o = doc'[d].order, o # None
      PROVE  doc'[d].source # None /\ Derived(o)' # {}
  <2>1. CASE doc[d] # NoDoc
    <3>1. doc[d].order = o /\ doc'[d].source = doc[d].source
      BY <1>2, <2>1, DocRowsKept
    <3>2. o \in Docs /\ Derived(o) # {} /\ doc[d].source # None
      BY <1>0, <1>2, <3>1, RowOrNone DEF SourcesFit
    <3>3. Derived(o) \subseteq Derived(o)'
      BY DocRowsKept DEF Derived
    <3>4. QED
      BY <3>1, <3>2, <3>3
  <2>2. CASE doc[d] = NoDoc
    <3>1. doc'[d] # NoDoc
      BY <1>2 DEF NoDoc
    <3>2. Born(d)
      <4>1. PICK e \in Docs : Born(e)
        BY <2>2, <3>1, DocumentsMove DEF NoneBorn
      <4>2. e = d
        BY <2>2, <3>1, <4>1, BornRows
      <4>3. QED
        BY <4>1, <4>2
    <3>3. PICK s : s = doc'[d].source
      OBVIOUS
    <3>4. s \in Docs /\ o = Origin(s)
      BY <1>2, <3>2, <3>3, BornRows
    <3>5. s \in Docs /\ Derived(s)' = Derived(s) \cup {d}
      BY <3>2, <3>3, <3>4, DerivedKept
    <3>6. CASE o = s
      BY <3>3, <3>5, <3>6, DocumentsAssumption
    <3>7. CASE o # s
      <4>1. o = doc[s].order
        BY <3>4, <3>7 DEF Origin
      <4>2. o \in Docs /\ Derived(o) # {}
        BY <1>0, <1>2, <3>4, <4>1, RowOrNone DEF SourcesFit
      <4>3. Derived(o) \subseteq Derived(o)'
        BY DocRowsKept DEF Derived
      <4>4. QED
        BY <3>3, <3>4, <4>2, <4>3, DocumentsAssumption
    <3>8. QED
      BY <3>6, <3>7
  <2>3. QED
    BY <2>1, <2>2
<1>3. ASSUME archiving' # None
      PROVE  LET now == doc'[archiving'.of]
             IN  /\ now # NoDoc
                 /\ archiving'.row.kind = now.kind
                 /\ archiving'.row.source = now.source
                 /\ archiving'.row.order = now.order
  <2>1. CASE UNCHANGED archiving
    <3>1. PICK d \in Docs : d = archiving.of
      BY <1>0, <1>3, <2>1 DEF TypeOK
    <3>2. /\ doc[d] # NoDoc /\ archiving.row.kind = doc[d].kind
          /\ archiving.row.source = doc[d].source /\ archiving.row.order = doc[d].order
      BY <1>0, <1>3, <2>1, <3>1 DEF SourcesFit
    <3>3. QED
      BY <2>1, <3>1, <3>2, DocRowsKept
  <2>2. CASE \E d \in Docs : StartArchive(d)
    <3>1. PICK d \in Docs : StartArchive(d)
      BY <2>2
    <3>2. archiving'.of = d /\ archiving'.row = doc[d] /\ doc'[d] = doc[d] /\ doc[d] # NoDoc
      BY <3>1 DEF StartArchive, Exists
    <3>3. QED
      BY <3>2
  <2>3. CASE FinishArchive
    BY <1>3, <2>3 DEF FinishArchive
  <2>4. QED
    BY <2>1, <2>2, <2>3, ArchivingEffect
<1>4. QED
  BY <1>1, <1>2, <1>3 DEF SourcesFit

(* How the status of a document that is not archived changes. *)
LEMMA StatusMoves ==
  ASSUME DocumentsInv, NEW d \in Docs, doc[d] # NoDoc, Moves(d), Exists(d)'
  PROVE  /\ Exists(d)
         /\ \/ doc'[d].status = doc[d].status
            \/ /\ doc[d].status = "draft" /\ doc'[d].status = "pending_approval"
               /\ \E a \in Approvals : Submit(d, a)
            \/ /\ doc[d].status = "pending_approval"
               /\ \E a \in Approvals : /\ approval[a].doc = d /\ approval[a].status = "pending"
                                       /\ \/ Approve(a) /\ doc'[d].status = "approved"
                                          \/ Reject(a) /\ doc'[d].status = "draft"
            \/ /\ doc[d].status \in {"draft", "approved"} /\ Post(d)
               /\ doc'[d].status = PostedAs(doc[d].kind)
            \/ /\ doc[d].kind = "quotation" /\ doc[d].status = "issued"
               /\ doc'[d].status = "accepted"
            \/ /\ doc[d].kind = "purchase_order" /\ Derived(d) # {} /\ doc[d].status \in Fixed
               /\ doc'[d].status \in {"partially_received", "received"}
            \/ /\ doc[d].kind = "invoice" /\ Derived(d) = {} /\ doc[d].status = "posted"
               /\ Void(d) /\ doc'[d].status = "void"
<1>1. Exists(d) /\ Advances(d)
  BY DEF Moves
<1>2. ASSUME NEW a \in Approvals, Submit(d, a) PROVE doc[d].status = "draft"
  BY <1>2 DEF Submit, NeedsApproval
<1>3. ASSUME NEW a \in Approvals, approval[a].doc = d, approval[a].status = "pending"
      PROVE  doc[d].status = "pending_approval"
  <2>1. approval[a] # NoApproval
    BY <1>3 DEF NoApproval
  <2>2. QED
    BY <1>1, <1>3, <2>1 DEF DocumentsInv, ApprovalsFit
<1>4. Post(d) => doc[d].status \in {"draft", "approved"}
  BY DEF Post
<1>5. Void(d) => doc[d].kind = "invoice" /\ Derived(d) = {} /\ doc[d].status = "posted"
  BY DEF Void
<1>6. QED
  BY <1>1, <1>2, <1>3, <1>4, <1>5 DEF Advances

LEMMA StatusesKept ==
  ASSUME DocumentsInv, [Next]_vars
  PROVE  StatusesFit'
<1>0. TypeOK /\ SourcesFit /\ StatusesFit
  BY DEF DocumentsInv
<1> SUFFICES ASSUME NEW d \in Docs, Exists(d)'
             PROVE  /\ doc'[d].status # "cancelled"
                    /\ doc'[d].kind \in {"invoice", "credit_note", "supplier_bill"} =>
                         doc'[d].status \in {"draft", "pending_approval", "approved", "posted",
                           "void"}
                    /\ doc'[d].kind = "purchase_order" =>
                         doc'[d].status \in {"draft", "pending_approval", "approved", "issued",
                                            "partially_received", "received"}
                    /\ doc'[d].status \in {"partially_received", "received"} => Derived(d)' # {}
                    /\ OfKind(Derived(d), "goods_receipt")' # {} =>
                         doc'[d].status \in {"issued", "partially_received", "received"}
                    /\ doc'[d].kind = "invoice" /\ Derived(d)' # {} => doc'[d].status = "posted"
  BY DEF StatusesFit
<1>1. CASE NoneBorn
  <2>1. doc[d] # NoDoc /\ Moves(d) /\ doc'[d].kind = doc[d].kind
    BY <1>1 DEF NoneBorn, Exists, Moves
  <2>2. Derived(d)' = Derived(d)
    BY <1>1, DerivedKept
  <2>3. OfKind(Derived(d), "goods_receipt")' = OfKind(Derived(d), "goods_receipt")
    BY <2>2, DocRowsKept DEF OfKind, Derived
  <2>4. OfKind(Derived(d), "goods_receipt") # {} => doc[d].kind = "purchase_order"
    <3>1. SUFFICES ASSUME NEW e \in Docs, doc[e].source = d, doc[e].kind = "goods_receipt"
                   PROVE  doc[d].kind = "purchase_order"
      BY DEF OfKind, Derived
    <3>2. <<doc[d].kind, "goods_receipt">> \in Conversions
      BY <1>0, <3>1, DocumentsAssumption DEF SourcesFit
    <3>3. QED
      BY <3>2 DEF Conversions
  <2>5. Exists(d)
    BY <2>1, StatusMoves
  <2>6. /\ doc[d].status # "cancelled"
        /\ doc[d].kind \in {"invoice", "credit_note", "supplier_bill"} =>
             doc[d].status \in {"draft", "pending_approval", "approved", "posted", "void"}
        /\ doc[d].kind = "purchase_order" =>
             doc[d].status \in {"draft", "pending_approval", "approved", "issued",
                                "partially_received", "received"}
        /\ doc[d].status \in {"partially_received", "received"} => Derived(d) # {}
        /\ OfKind(Derived(d), "goods_receipt") # {} =>
             doc[d].status \in {"issued", "partially_received", "received"}
        /\ doc[d].kind = "invoice" /\ Derived(d) # {} => doc[d].status = "posted"
    BY <1>0, <2>5 DEF StatusesFit
  <2>7. QED
    BY <2>1, <2>2, <2>3, <2>4, <2>6, StatusMoves, PostedAsStatus DEF Fixed
<1>2. ASSUME NEW new \in Docs, Born(new)
      PROVE  /\ doc'[d].status # "cancelled"
             /\ doc'[d].kind \in {"invoice", "credit_note", "supplier_bill"} =>
                  doc'[d].status \in {"draft", "pending_approval", "approved", "posted", "void"}
             /\ doc'[d].kind = "purchase_order" =>
                  doc'[d].status \in {"draft", "pending_approval", "approved", "issued",
                                     "partially_received", "received"}
             /\ doc'[d].status \in {"partially_received", "received"} => Derived(d)' # {}
             /\ OfKind(Derived(d), "goods_receipt")' # {} =>
                  doc'[d].status \in {"issued", "partially_received", "received"}
             /\ doc'[d].kind = "invoice" /\ Derived(d)' # {} => doc'[d].status = "posted"
  <2>1. CASE d = new
    <3>1. doc'[d].status = "draft" /\ Derived(d)' = {}
      BY <1>2, <2>1, BornRows, DerivedKept
    <3>2. OfKind(Derived(d), "goods_receipt")' = {}
      BY <3>1 DEF OfKind
    <3>3. QED
      BY <3>1, <3>2
  <2>2. CASE d # new
    <3>1. doc'[d] = doc[d] /\ Exists(d)
      BY <1>2, <2>2, BornRows DEF Exists
    <3>2. /\ doc[d].status # "cancelled"
          /\ doc[d].kind \in {"invoice", "credit_note", "supplier_bill"} =>
               doc[d].status \in {"draft", "pending_approval", "approved", "posted", "void"}
          /\ doc[d].kind = "purchase_order" =>
               doc[d].status \in {"draft", "pending_approval", "approved", "issued",
                                  "partially_received", "received"}
          /\ doc[d].status \in {"partially_received", "received"} => Derived(d) # {}
          /\ OfKind(Derived(d), "goods_receipt") # {} =>
               doc[d].status \in {"issued", "partially_received", "received"}
          /\ doc[d].kind = "invoice" /\ Derived(d) # {} => doc[d].status = "posted"
      BY <1>0, <3>1 DEF StatusesFit
    <3>3. CASE doc'[new].source # d
      <4>1. Derived(d)' = Derived(d)
        BY <1>2, <3>3, DerivedKept
      <4>2. OfKind(Derived(d), "goods_receipt")' = OfKind(Derived(d), "goods_receipt")
        BY <4>1, DocRowsKept DEF OfKind, Derived
      <4>3. QED
        BY <3>1, <3>2, <4>1, <4>2
    <3>4. CASE doc'[new].source = d
      <4>1. Derived(d)' = Derived(d) \cup {new} /\ Derived(d) \subseteq Docs
        BY <1>2, <3>4, DerivedKept DEF Derived
      <4>2. OfKind(Derived(d), "goods_receipt")' =
              IF doc'[new].kind =
                "goods_receipt" THEN OfKind(Derived(d), "goods_receipt") \cup {new}
                                                ELSE OfKind(Derived(d), "goods_receipt")
        <5>1. \A e \in Derived(d) : doc'[e].kind = doc[e].kind
          BY DocRowsKept DEF Derived
        <5>2. QED
          BY <4>1, <5>1 DEF OfKind
      <4>3. \/ doc'[new].kind = "quotation" /\ doc[d].kind = "quotation"
            \/ Convert(d, doc'[new].kind, doc'[new].qty, new)
        BY <1>2, <3>4, BornRows, DocumentsAssumption
      <4>4. CASE doc'[new].kind = "quotation" /\ doc[d].kind = "quotation"
        BY <3>1, <3>2, <4>1, <4>2, <4>4
      <4>5. CASE Convert(d, doc'[new].kind, doc'[new].qty, new)
        <5>1. doc[d].status \in Convertible /\ <<doc[d].kind, doc'[new].kind>> \in Conversions
          BY <4>5 DEF Convert, Drawable
        <5>2. doc'[new].kind = "goods_receipt" => doc[d].kind = "purchase_order"
          BY <5>1 DEF Conversions
        <5>3. doc[d].kind = "invoice" => doc[d].status = "posted"
          BY <3>2, <5>1 DEF Convertible
        <5>4. doc'[new].kind = "goods_receipt" => doc[d].status \in Fixed
          BY <3>2, <5>1, <5>2 DEF Convertible, Fixed
        <5>5. Derived(d)' # {}
          BY <4>1
        <5>6. QED
          BY <3>1, <3>2, <4>2, <5>3, <5>4, <5>5 DEF Fixed
      <4>6. QED
        BY <4>3, <4>4, <4>5
    <3>5. QED
      BY <3>3, <3>4
  <2>3. QED
    BY <2>1, <2>2
<1>3. QED
  BY <1>1, <1>2, DocumentsMove

(* What one step does to the approvals. *)
LEMMA ApprovalMoves ==
  ASSUME DocumentsInv, [Next]_vars, NEW a \in Approvals
  PROVE  \/ approval'[a] = approval[a] /\ ~Approve(a) /\ ~Reject(a)
         \/ \E d \in Docs : /\ Submit(d, a) /\ doc' = Touched(d, "pending_approval")
                            /\ approval'[a].doc = d /\ approval'[a].status = "pending"
                            /\ approval'[a].amount = doc[d].qty
         \/ /\ Approve(a) /\ approval[a].status = "pending"
            /\ approval'[a].doc = approval[a].doc /\ approval'[a].amount = approval[a].amount
            /\ \/ approval'[a].status = "pending" /\ doc' = doc
               \/ approval'[a].status = "approved" /\ doc' = Touched(approval[a].doc, "approved")
         \/ /\ Reject(a) /\ approval[a].status = "pending"
            /\ approval'[a].doc = approval[a].doc /\ approval'[a].status = "rejected"
            /\ doc' = Touched(approval[a].doc, "draft")
<1>0. TypeOK
  BY DEF DocumentsInv
<1>1. CASE \E d \in Docs : Submit(d, a)
  <2>1. PICK d \in Docs : Submit(d, a)
    BY <1>1
  <2>2. approval'[a] = [doc |-> d, version |-> doc[d].version + 1, amount |-> doc[d].qty,
                        step |-> 1, status |-> "pending"]
    BY <1>0, <2>1 DEF Submit, TypeOK
  <2>3. approval'[a].doc = d /\ approval'[a].status = "pending"
        /\ approval'[a].amount = doc[d].qty
    BY <2>2
  <2>4. doc' = Touched(d, "pending_approval")
    BY <2>1 DEF Submit
  <2>5. QED
    BY <2>1, <2>3, <2>4
<1>2. CASE Approve(a)
  <2>1. PICK r : r = approval[a]
    OBVIOUS
  <2>2. r \in [doc : Docs, version : Nat, amount : Qty, step : 1..Steps,
               status : {"pending", "approved", "rejected"}] /\ r.status = "pending"
    BY <1>0, <1>2, <2>1 DEF TypeOK, Approve, NoApproval
  <2>3. CASE r.step < Steps
    <3>1. PICK n : n = r.step + 1
      OBVIOUS
    <3>2. PICK new : new = [r EXCEPT !.step = n]
      OBVIOUS
    <3>3. approval' = [approval EXCEPT ![a] = new] /\ doc' = doc
      BY <1>2, <2>1, <2>3, <3>1, <3>2 DEF Approve
    <3>4. new.doc = r.doc /\ new.status = "pending" /\ new.amount = r.amount
      BY <2>2, <3>2
    <3>5. QED
      BY <1>0, <1>2, <2>1, <2>2, <3>3, <3>4 DEF TypeOK
  <2>4. CASE ~(r.step < Steps)
    <3>1. PICK new : new = [r EXCEPT !.status = "approved"]
      OBVIOUS
    <3>2. approval' = [approval EXCEPT ![a] = new] /\ doc' = Touched(r.doc, "approved")
      BY <1>2, <2>1, <2>4, <3>1 DEF Approve
    <3>3. new.doc = r.doc /\ new.status = "approved" /\ new.amount = r.amount
      BY <2>2, <3>1
    <3>4. QED
      BY <1>0, <1>2, <2>1, <2>2, <3>2, <3>3 DEF TypeOK
  <2>5. QED
    BY <2>3, <2>4
<1>3. CASE Reject(a)
  <2>1. PICK r : r = approval[a]
    OBVIOUS
  <2>2. r \in [doc : Docs, version : Nat, amount : Qty, step : 1..Steps,
               status : {"pending", "approved", "rejected"}] /\ r.status = "pending"
    BY <1>0, <1>3, <2>1 DEF TypeOK, Reject, NoApproval
  <2>3. PICK new : new = [r EXCEPT !.status = "rejected"]
    OBVIOUS
  <2>4. approval' = [approval EXCEPT ![a] = new] /\ doc' = Touched(r.doc, "draft")
    BY <1>3, <2>1, <2>3 DEF Reject
  <2>5. new.doc = r.doc /\ new.status = "rejected"
    BY <2>2, <2>3
  <2>6. QED
    BY <1>0, <1>3, <2>1, <2>2, <2>4, <2>5 DEF TypeOK
<1>4. CASE ~(\E d \in Docs : Submit(d, a)) /\ ~Approve(a) /\ ~Reject(a)
  <2>1. approval'[a] = approval[a]
    <3>1. ASSUME NEW b \in Approvals, b # a, NEW d \in Docs, Submit(d, b)
          PROVE approval'[a] = approval[a]
      BY <1>0, <3>1 DEF TypeOK, Submit
    <3>2. ASSUME NEW b \in Approvals, b # a, Approve(b) PROVE approval'[a] = approval[a]
      BY <1>0, <3>2 DEF TypeOK, Approve
    <3>3. ASSUME NEW b \in Approvals, b # a, Reject(b) PROVE approval'[a] = approval[a]
      BY <1>0, <3>3 DEF TypeOK, Reject
    <3>4. QED
      BY <1>4, <3>1, <3>2, <3>3, ApprovalEffect
  <2>2. QED
    BY <1>4, <2>1
<1>5. QED
  BY <1>1, <1>2, <1>3, <1>4

(* A pending approval was pending before, or has just been asked for. *)
LEMMA PendingBefore ==
  ASSUME DocumentsInv, [Next]_vars, NEW b \in Approvals, approval'[b].status = "pending",
         NEW d, d = approval'[b].doc
  PROVE  \/ approval[b].status = "pending" /\ approval[b].doc = d
         \/ Submit(d, b)
BY ApprovalMoves

LEMMA ApprovalsKept ==
  ASSUME DocumentsInv, [Next]_vars
  PROVE  ApprovalsFit'
<1>0. TypeOK /\ ApprovalsFit
  BY DEF DocumentsInv
<1> SUFFICES ASSUME NEW a \in Approvals, approval'[a] # NoApproval, NEW d, d = approval'[a].doc
             PROVE  /\ doc'[d] # NoDoc
                    /\ approval'[a].status = "pending" /\ Exists(d)' =>
                         /\ doc'[d].status = "pending_approval" /\ approval'[a].amount = doc'[d].qty
                         /\ \A b \in Approvals :
                              approval'[b].doc = d /\ approval'[b].status = "pending" => a = b
                    /\ approval'[a].status = "approved" /\ Exists(d)' =>
                         doc'[d].status \notin {"draft", "pending_approval"}
  BY DEF ApprovalsFit
<1>1. /\ d \in Docs
      /\ \A b \in Approvals : approval[b] # NoApproval =>
           approval[b].doc \in Docs /\ doc[approval[b].doc] # NoDoc
      /\ \A b \in Approvals : approval[b].status \in {"pending", "approved"} =>
           approval[b] # NoApproval
  <2>1. TypeOK'
    BY TypesKept
  <2>2. QED
    BY <1>0, <2>1 DEF TypeOK, ApprovalsFit, NoApproval
<1>2. \A b \in Approvals : approval[b].status = "pending" /\ approval[b].doc = d /\ Exists(d) =>
        /\ doc[d].status = "pending_approval" /\ approval[b].amount = doc[d].qty
        /\ \A c \in Approvals : approval[c].doc = d /\ approval[c].status = "pending" => b = c
  BY <1>0, <1>1 DEF ApprovalsFit
<1>3. \A b \in Approvals : approval[b].status = "approved" /\ approval[b].doc = d /\ Exists(d) =>
        doc[d].status \notin {"draft", "pending_approval"}
  BY <1>0, <1>1 DEF ApprovalsFit
<1>4. \A b \in Approvals : Submit(d, b) => doc[d].status = "draft" /\ Exists(d)
  BY DEF Submit, NeedsApproval
<1>5. CASE \E new \in Docs : Born(new)
  <2>1. PICK new \in Docs : Born(new)
    BY <1>5
  <2>2. approval' = approval /\ d # new
    BY <1>0, <1>1, <2>1, BornRows DEF ApprovalsFit
  <2>3. doc'[d] = doc[d]
    BY <1>1, <2>1, <2>2, BornRows
  <2>4. Exists(d)' = Exists(d)
    BY <2>3 DEF Exists
  <2>5. QED
    BY <1>0, <1>1, <1>2, <1>3, <2>2, <2>3, <2>4
<1>6. CASE NoneBorn
  <2>1. doc[d] # NoDoc => Moves(d) /\ doc'[d] # NoDoc
    BY <1>1, <1>6, RowIsNotNone DEF NoneBorn, Moves
  <2>2. CASE approval'[a] = approval[a] /\ ~Approve(a) /\ ~Reject(a)
    <3>1. doc[d] # NoDoc /\ doc'[d] # NoDoc
      BY <1>1, <2>1, <2>2
    <3>2. ASSUME approval'[a].status = "pending", Exists(d)'
          PROVE  /\ doc'[d].status = "pending_approval" /\ approval'[a].amount = doc'[d].qty
                 /\ \A b \in Approvals :
                      approval'[b].doc = d /\ approval'[b].status = "pending" => a = b
      <4>1. Exists(d) /\ approval[a].status = "pending" /\ approval[a].doc = d
        BY <1>1, <2>1, <2>2, <3>1, <3>2, StatusMoves
      <4>2. doc[d].status = "pending_approval" /\ approval[a].amount = doc[d].qty
        BY <1>2, <4>1
      <4>3. doc'[d].status = "pending_approval"
        <5>1. \A b \in Approvals : approval[b].doc = d /\ approval[b].status = "pending" => b = a
          BY <1>2, <4>1
        <5>2. QED
          BY <1>1, <2>1, <2>2, <3>1, <3>2, <4>2, <5>1, StatusMoves DEF Fixed
      <4>4. doc'[d].qty = doc[d].qty
        BY <2>1, <3>1, <4>2 DEF Moves
      <4>5. QED
        BY <1>2, <1>4, <2>2, <4>1, <4>2, <4>3, <4>4, PendingBefore
    <3>3. ASSUME approval'[a].status = "approved", Exists(d)'
          PROVE  doc'[d].status \notin {"draft", "pending_approval"}
      <4>1. Exists(d) /\ approval[a].status = "approved" /\ approval[a].doc = d
        BY <1>1, <2>1, <2>2, <3>1, <3>3, StatusMoves
      <4>2. doc[d].status \notin {"draft", "pending_approval"}
        BY <1>3, <4>1
      <4>3. QED
        BY <1>1, <2>1, <3>1, <3>3, <4>2, StatusMoves, PostedAsStatus
    <3>4. QED
      BY <3>1, <3>2, <3>3
  <2>3. CASE Submit(d, a) /\ doc' = Touched(d, "pending_approval")
             /\ approval'[a].status = "pending" /\ approval'[a].amount = doc[d].qty
    <3>1. doc[d].status = "draft" /\ Exists(d) /\ doc[d] # NoDoc
      BY <1>4, <2>3 DEF Exists
    <3>2. doc'[d].status = "pending_approval" /\ doc'[d].qty = doc[d].qty
      BY <1>0, <1>1, <2>3, <3>1, TouchedRows DEF Statuses
    <3>3. ASSUME NEW b \in Approvals, b # a, approval'[b].doc = d,
                 approval'[b].status = "pending"
          PROVE  FALSE
      <4>1. approval'[b] = approval[b]
        BY <1>0, <2>3, <3>3 DEF TypeOK, Submit
      <4>2. QED
        BY <1>2, <3>1, <3>3, <4>1
    <3>4. QED
      BY <2>1, <2>3, <3>1, <3>2, <3>3
  <2>4. CASE /\ Approve(a) /\ approval[a].status = "pending" /\ d = approval[a].doc
             /\ approval'[a].amount = approval[a].amount
             /\ approval'[a].status = "pending" /\ doc' = doc
    <3>1. Exists(d)' = Exists(d)
      BY <2>4 DEF Exists
    <3>2. QED
      BY <1>1, <1>2, <1>4, <2>4, <3>1, PendingBefore
  <2>5. CASE /\ Approve(a) /\ approval[a].status = "pending" /\ d = approval[a].doc
             /\ approval'[a].status = "approved" /\ doc' = Touched(d, "approved")
    <3>1. doc[d] # NoDoc
      BY <1>1, <2>5
    <3>2. doc'[d].status = "approved"
      BY <1>0, <1>1, <2>5, <3>1, TouchedRows DEF Statuses
    <3>3. QED
      BY <2>1, <2>5, <3>1, <3>2
  <2>6. CASE approval[a].status = "pending" /\ approval'[a].status = "rejected"
          /\ d = approval[a].doc
    BY <1>1, <2>1, <2>6
  <2>7. QED
    BY <2>2, <2>3, <2>4, <2>5, <2>6, ApprovalMoves
<1>7. QED
  BY <1>5, <1>6, DocumentsMove

LEMMA PostingsKept ==
  ASSUME DocumentsInv, [Next]_vars
  PROVE  PostedAsApproved'
<1>0. TypeOK /\ ApprovalsFit /\ PostedAsApproved
  BY DEF DocumentsInv
<1> SUFFICES ASSUME NEW d \in Docs, Exists(d)',
                    doc'[d].status \notin {"draft", "pending_approval", "void"}
             PROVE  /\ \A a \in Approvals : approval'[a].doc = d
                       /\ approval'[a].status = "approved" =>
                         approval'[a].amount = doc'[d].qty
                    /\ doc'[d].qty >= Threshold =>
                         \E a \in Approvals : approval'[a].doc = d
                           /\ approval'[a].status = "approved"
  BY DEF PostedAsApproved
<1>1. ASSUME Exists(d), doc[d].status \notin {"draft", "pending_approval", "void"}
      PROVE  /\ \A a \in Approvals : approval[a].doc = d /\ approval[a].status = "approved" =>
                  approval[a].amount = doc[d].qty
             /\ doc[d].qty >= Threshold =>
                  \E a \in Approvals : approval[a].doc = d /\ approval[a].status = "approved"
  BY <1>0, <1>1 DEF PostedAsApproved
<1>2. \A a \in Approvals : approval[a].status = "pending" /\ approval[a].doc = d /\ Exists(d) =>
        /\ doc[d].status = "pending_approval" /\ approval[a].amount = doc[d].qty
        /\ \A b \in Approvals : approval[b].doc = d /\ approval[b].status = "pending" => a = b
  BY <1>0 DEF ApprovalsFit, NoApproval
<1>3. \A a \in Approvals : approval[a].status = "approved" /\ approval[a].doc = d /\ Exists(d) =>
        doc[d].status \notin {"draft", "pending_approval"}
  BY <1>0 DEF ApprovalsFit, NoApproval
<1>4. CASE \E new \in Docs : Born(new)
  <2>1. PICK new \in Docs : Born(new)
    BY <1>4
  <2>2. approval' = approval /\ d # new
    BY <2>1, BornRows
  <2>3. doc'[d] = doc[d] /\ Exists(d)
    BY <2>1, <2>2, BornRows DEF Exists
  <2>4. QED
    BY <1>1, <2>2, <2>3
<1>5. CASE NoneBorn
  <2>1. doc[d] # NoDoc /\ Moves(d) /\ Exists(d)
    BY <1>5, StatusMoves DEF NoneBorn, Exists
  <2>2. doc'[d].qty = doc[d].qty
    BY <2>1 DEF Moves
  <2>3. \A a \in Approvals : approval[a].status = "approved" => approval'[a] = approval[a]
    <3>1. \A a \in Approvals, e \in Docs : Submit(e, a) => approval[a].status = "none"
      BY DEF Submit, NoApproval
    <3>2. QED
      BY <3>1, ApprovalMoves
  <2>4. \A a \in Approvals : approval'[a].doc = d /\ approval'[a].status = "approved" =>
          \/ approval'[a] = approval[a]
          \/ /\ Approve(a) /\ approval[a].status = "pending" /\ approval[a].doc = d
             /\ approval'[a].amount = approval[a].amount
    BY ApprovalMoves
  <2>5. CASE \E b \in Approvals : /\ approval[b].doc = d /\ approval[b].status = "pending"
                                  /\ Approve(b)
    <3>1. doc[d].status = "pending_approval"
      BY <1>2, <2>1, <2>5
    <3>2. PICK b \in Approvals : /\ approval[b].doc = d /\ approval[b].status = "pending"
                                 /\ Approve(b) /\ doc'[d].status = "approved"
      BY <2>1, <3>1, StatusMoves DEF Fixed
    <3>3. approval'[b].status = "approved" /\ approval'[b].doc = d
      <4>1. doc' # doc
        BY <3>1, <3>2
      <4>2. ~Reject(b)
        BY <1>0, <2>1, <3>2, TouchedRows DEF Reject, Statuses
      <4>3. \A e \in Docs : ~Submit(e, b)
        BY <3>2 DEF Submit, NoApproval
      <4>4. QED
        BY <3>2, <4>1, <4>2, <4>3, ApprovalMoves
    <3>4. QED
      BY <1>2, <1>3, <2>1, <2>2, <2>4, <3>1, <3>2, <3>3
  <2>6. CASE ~\E b \in Approvals : /\ approval[b].doc = d /\ approval[b].status = "pending"
                                   /\ Approve(b)
    <3>1. \A a \in Approvals : approval'[a].doc = d /\ approval'[a].status = "approved" =>
            approval'[a] = approval[a]
      BY <2>4, <2>6
    <3>2. CASE doc[d].status = "draft"
      <4>1. Post(d)
        BY <2>1, <3>2, StatusMoves DEF Fixed
      <4>2. ~(doc[d].qty >= Threshold)
        BY <3>2, <4>1 DEF Post, NeedsApproval
      <4>3. QED
        BY <1>3, <2>1, <2>2, <3>1, <3>2, <4>2
    <3>3. CASE doc[d].status \notin {"draft", "pending_approval", "void"}
      BY <1>1, <2>1, <2>2, <2>3, <3>1, <3>3
    <3>4. doc[d].status \notin {"pending_approval", "void"}
      BY <2>1, <2>6, StatusMoves DEF Fixed
    <3>5. QED
      BY <3>2, <3>3, <3>4
  <2>7. QED
    BY <2>5, <2>6
<1>6. QED
  BY <1>4, <1>5, DocumentsMove

(* What one step does to the revenue and to the payments. *)
LEMMA RevenueMoves ==
  ASSUME DocumentsInv, [Next]_vars, NEW d \in Docs
  PROVE  \/ Post(d) /\ revenue'[d] = revenue[d] + Recognized(d) /\ doc' = Received(d)
         \/ Void(d) /\ revenue'[d] = revenue[d] - doc[d].qty /\ doc' = Touched(d, "void")
         \/ revenue'[d] = revenue[d] /\ ~Post(d) /\ ~Void(d)
<1>0. TypeOK
  BY DEF DocumentsInv
<1>1. CASE Post(d)
  BY <1>0, <1>1 DEF TypeOK, Post
<1>2. CASE Void(d)
  BY <1>0, <1>2 DEF TypeOK, Void
<1>3. CASE ~Post(d) /\ ~Void(d)
  <2>1. ASSUME NEW e \in Docs, e # d, Post(e) PROVE revenue'[d] = revenue[d]
    BY <1>0, <2>1 DEF TypeOK, Post
  <2>2. ASSUME NEW e \in Docs, e # d, Void(e) PROVE revenue'[d] = revenue[d]
    BY <1>0, <2>2 DEF TypeOK, Void
  <2>3. QED
    BY <1>3, <2>1, <2>2, RevenueEffect
<1>4. QED
  BY <1>1, <1>2, <1>3

LEMMA PaymentMoves ==
  ASSUME DocumentsInv, [Next]_vars
  PROVE  \/ /\ UNCHANGED payment
            /\ ~\E p \in Payments : \/ \E kind \in {"invoice", "supplier_bill"}, f \in Amounts :
                                         RecordPayment(p, kind, f)
                                    \/ VoidPayment(p)
         \/ \E p \in Payments, kind \in {"invoice", "supplier_bill"}, f \in Amounts :
              /\ RecordPayment(p, kind, f) /\ payment[p] = NoPayment
              /\ payment'[p].status = "posted" /\ payment'[p].of = f
              /\ \A q \in Payments \ {p} : payment'[q] = payment[q]
         \/ \E p \in Payments :
              /\ VoidPayment(p) /\ payment[p].status = "posted"
              /\ payment'[p].status = "void" /\ payment'[p].of = payment[p].of
              /\ \A q \in Payments \ {p} : payment'[q] = payment[q]
<1>0. TypeOK
  BY DEF DocumentsInv
<1>1. ASSUME NEW p \in Payments, NEW kind, NEW f \in Amounts, RecordPayment(p, kind, f)
      PROVE  /\ payment[p] = NoPayment
             /\ payment'[p].status = "posted" /\ payment'[p].of = f
             /\ \A q \in Payments \ {p} : payment'[q] = payment[q]
  <2>1. PICK new : new = [status |-> "posted", of |-> f]
    OBVIOUS
  <2>2. payment' = [payment EXCEPT ![p] = new] /\ new.status = "posted" /\ new.of = f
    BY <1>1, <2>1 DEF RecordPayment
  <2>3. QED
    BY <1>0, <1>1, <2>2 DEF TypeOK, RecordPayment
<1>2. ASSUME NEW p \in Payments, VoidPayment(p)
      PROVE  /\ payment[p].status = "posted"
             /\ payment'[p].status = "void" /\ payment'[p].of = payment[p].of
             /\ \A q \in Payments \ {p} : payment'[q] = payment[q]
  <2>1. PICK new : new = [payment[p] EXCEPT !.status = "void"]
    OBVIOUS
  <2>2. payment[p] \in [status : {"none", "posted", "void"}, of : Amounts]
    BY <1>0 DEF TypeOK
  <2>3. payment' = [payment EXCEPT ![p] = new]
    BY <1>2, <2>1 DEF VoidPayment
  <2>4. new.status = "void" /\ new.of = payment[p].of
    BY <2>1, <2>2
  <2>5. QED
    BY <1>0, <1>2, <2>3, <2>4 DEF TypeOK, VoidPayment
<1>3. QED
  BY <1>1, <1>2, PaymentEffect

(* A document that money settled stays posted, or is void. *)
LEMMA SettledStays ==
  ASSUME DocumentsInv, [Next]_vars, NEW d \in Docs,
         doc[d] # NoDoc, doc[d].kind \in {"invoice", "supplier_bill", "credit_note"},
         Exists(d) => doc[d].status \in {"posted", "void"}, Exists(d)'
  PROVE  doc'[d].status \in {"posted", "void"}
<1>1. CASE \E new \in Docs : Born(new)
  <2>1. PICK new \in Docs : Born(new)
    BY <1>1
  <2>2. doc'[d] = doc[d]
    BY <2>1, BornRows
  <2>3. QED
    BY <2>2 DEF Exists
<1>2. CASE NoneBorn
  <2>1. Moves(d)
    BY <1>2 DEF NoneBorn
  <2>2. QED
    BY <2>1, StatusMoves DEF Fixed
<1>3. QED
  BY <1>1, <1>2, DocumentsMove

LEMMA BooksKept ==
  ASSUME DocumentsInv, [Next]_vars
  PROVE  BooksFit'
<1>0. TypeOK /\ BooksFit /\ StatusesFit
  BY DEF DocumentsInv
<1>1. ASSUME NEW d \in Docs, doc'[d] = NoDoc PROVE revenue'[d] = 0
  <2>1. doc[d] = NoDoc
    BY <1>1, DocRowsKept
  <2>2. ~Post(d) /\ ~Void(d)
    BY <2>1 DEF Post, Void, Exists
  <2>3. QED
    BY <1>0, <2>1, <2>2, RevenueMoves DEF BooksFit
<1>2. ASSUME NEW d \in Docs, Exists(d)', doc'[d].kind \in {"invoice", "credit_note"}
      PROVE  revenue'[d] = IF doc'[d].status = "posted" THEN Recognized(d)' ELSE 0
  <2>1. CASE \E new \in Docs : Born(new)
    <3>1. PICK new \in Docs : Born(new)
      BY <2>1
    <3>2. revenue' = revenue
      BY <3>1, BornRows
    <3>3. CASE d = new
      <4>1. doc[d] = NoDoc /\ doc'[d].status = "draft"
        BY <3>1, <3>3, BornRows
      <4>2. QED
        BY <1>0, <3>2, <4>1 DEF BooksFit
    <3>4. CASE d # new
      <4>1. doc'[d] = doc[d]
        BY <3>1, <3>4, BornRows
      <4>2. Recognized(d)' = Recognized(d) /\ Exists(d)
        BY <1>2, <4>1 DEF Recognized, Exists
      <4>3. QED
        BY <1>0, <1>2, <3>2, <4>1, <4>2 DEF BooksFit
    <3>5. QED
      BY <3>3, <3>4
  <2>2. CASE NoneBorn
    <3>1. doc[d] # NoDoc /\ Moves(d) /\ doc'[d].kind = doc[d].kind /\ Exists(d)
      BY <1>2, <2>2, StatusMoves DEF NoneBorn, Moves, Exists
    <3>2. revenue[d] = IF doc[d].status = "posted" THEN Recognized(d) ELSE 0
      BY <1>0, <1>2, <3>1 DEF BooksFit
    <3>3. doc'[d].qty = doc[d].qty => Recognized(d)' = Recognized(d)
      BY <3>1 DEF Recognized
    <3>4. Recognized(d) \in Int /\ doc[d].qty \in Int
      BY <1>0, RowOrNone, QtyNat DEF Recognized
    <3>5. CASE Post(d) /\ revenue'[d] = revenue[d] + Recognized(d) /\ doc' = Received(d)
      <4>1. doc' = Touched(d, "posted")
        BY <1>2, <3>1, <3>5, PostedAsStatus DEF Received
      <4>2. doc'[d].status = "posted" /\ doc'[d].qty = doc[d].qty
        BY <1>0, <3>1, <4>1, TouchedRows DEF Statuses
      <4>3. revenue[d] = 0
        BY <3>2, <3>5 DEF Post
      <4>4. QED
        BY <3>3, <3>4, <3>5, <4>2, <4>3
    <3>6. CASE Void(d) /\ revenue'[d] = revenue[d] - doc[d].qty /\ doc' = Touched(d, "void")
      <4>1. doc'[d].status = "void"
        BY <1>0, <3>1, <3>6, TouchedRows DEF Statuses
      <4>2. revenue[d] = doc[d].qty
        BY <3>2, <3>6 DEF Void, Recognized
      <4>3. QED
        BY <3>4, <3>6, <4>1, <4>2
    <3>7. CASE revenue'[d] = revenue[d] /\ ~Post(d) /\ ~Void(d)
      <4>1. doc'[d].status = "posted" <=> doc[d].status = "posted"
        BY <1>2, <3>1, <3>7, StatusMoves
      <4>2. doc[d].status = "posted" => doc'[d].qty = doc[d].qty
        BY <3>1 DEF Moves
      <4>3. QED
        BY <3>2, <3>3, <3>7, <4>1, <4>2
    <3>8. QED
      BY <3>5, <3>6, <3>7, RevenueMoves
  <2>3. QED
    BY <2>1, <2>2, DocumentsMove
<1>3. ASSUME NEW p \in Payments, NEW d \in Docs, payment'[p].of[d] > 0
      PROVE  /\ doc'[d] # NoDoc /\ doc'[d].kind \in {"invoice", "supplier_bill"}
             /\ Exists(d)' => doc'[d].status \in {"posted", "void"}
  <2>1. /\ doc[d] # NoDoc /\ doc[d].kind \in {"invoice", "supplier_bill"}
        /\ Exists(d) => doc[d].status \in {"posted", "void"}
    <3>1. CASE payment'[p].of = payment[p].of
      BY <1>0, <1>3, <3>1 DEF BooksFit
    <3>2. CASE \E kind \in {"invoice", "supplier_bill"}, f \in Amounts :
                 RecordPayment(p, kind, f) /\ payment'[p].of = f
      <4>1. PICK kind \in {"invoice", "supplier_bill"}, f \in Amounts :
                 RecordPayment(p, kind, f) /\ payment'[p].of = f
        BY <3>2
      <4>2. doc[d].kind = kind /\ doc[d].status = "posted"
        BY <1>3, <4>1 DEF RecordPayment
      <4>3. doc[d] # NoDoc
        BY <4>2 DEF NoDoc
      <4>4. QED
        BY <4>2, <4>3
    <3>3. QED
      BY <3>1, <3>2, PaymentMoves
  <2>2. QED
    BY <2>1, SettledStays, DocRowsKept
<1>4. QED
  BY <1>1, <1>2, <1>3 DEF BooksFit

(* What a payment does to one document. *)
LEMMA RowPaid ==
  ASSUME DocumentsInv, NEW p \in Payments, NEW d \in Docs, doc[d] # NoDoc
  PROVE  /\ \A kind \in {"invoice", "supplier_bill"}, f \in Amounts :
              RecordPayment(p, kind, f) => doc'[d].paid = doc[d].paid + f[d]
         /\ VoidPayment(p) => doc'[d].paid = doc[d].paid - payment[p].of[d]
<1>1. PICK r \in Rows : r = doc[d]
  BY RowOrNone DEF DocumentsInv
<1>2. ASSUME NEW f \in Amounts PROVE f[d] \in Nat
  BY QtyNat DEF Amounts
<1>3. ASSUME NEW kind \in {"invoice", "supplier_bill"}, NEW f \in Amounts,
             RecordPayment(p, kind, f)
      PROVE  doc'[d].paid = doc[d].paid + f[d]
  <2>1. PICK v, w : v = r.version + 1 /\ w = r.paid + f[d]
    OBVIOUS
  <2>2. doc'[d] = IF f[d] > 0 THEN [r EXCEPT !.paid = w, !.version = v] ELSE r
    BY <1>1, <1>3, <2>1 DEF RecordPayment
  <2>3. [r EXCEPT !.paid = w, !.version = v].paid = w /\ r.paid \in Int
    BY DEF Rows
  <2>4. QED
    BY <1>1, <1>2, <2>1, <2>2, <2>3
<1>4. ASSUME VoidPayment(p) PROVE doc'[d].paid = doc[d].paid - payment[p].of[d]
  <2>0. payment[p].of[d] \in Nat
    BY <1>2 DEF DocumentsInv, TypeOK
  <2>1. PICK v, w : v = r.version + 1 /\ w = r.paid - payment[p].of[d]
    OBVIOUS
  <2>2. doc'[d] = IF payment[p].of[d] > 0 THEN [r EXCEPT !.paid = w, !.version = v] ELSE r
    BY <1>1, <1>4, <2>1 DEF VoidPayment
  <2>3. [r EXCEPT !.paid = w, !.version = v].paid = w /\ r.paid \in Int
    BY DEF Rows
  <2>4. QED
    BY <1>1, <2>0, <2>1, <2>2, <2>3
<1>5. QED
  BY <1>3, <1>4

LEMMA PaidKept ==
  ASSUME DocumentsInv, [Next]_vars
  PROVE  PaidIsSettled'
<1>0. TypeOK /\ BooksFit /\ PaidIsSettled /\ TypeOK'
  BY TypesKept DEF DocumentsInv
<1> SUFFICES ASSUME NEW d \in Docs, Exists(d)'
             PROVE  /\ doc'[d].paid = Total([p \in Payments |-> payment'[p].of[d]],
                                            {p \in Payments : payment'[p].status = "posted"})
                    /\ doc'[d].status = "void" => doc'[d].paid = 0
  BY DEF PaidIsSettled
<1> DEFINE f == [p \in Payments |-> payment[p].of[d]]
           g == [p \in Payments |-> payment'[p].of[d]]
           F == {p \in Payments : payment[p].status = "posted"}
           G == {p \in Payments : payment'[p].status = "posted"}
<1>1. /\ \A p \in Payments : f[p] \in Nat /\ g[p] \in Nat
      /\ \A p \in Payments : f[p] = payment[p].of[d] /\ g[p] = payment'[p].of[d]
  BY <1>0, QtyNat DEF TypeOK, Amounts
<1>2. IsFiniteSet(F) /\ IsFiniteSet(G) /\ F \subseteq Payments /\ G \subseteq Payments
  BY FS_Subset, DocumentsAssumption
<1>3. Exists(d) => doc[d].paid = Total(f, F) /\ (doc[d].status = "void" => doc[d].paid = 0)
  BY <1>0 DEF PaidIsSettled
<1> HIDE DEF f, g, F, G
<1>4. UNCHANGED payment => F = G /\ Total(g, G) = Total(f, F)
  <2>1. SUFFICES ASSUME UNCHANGED payment PROVE F = G /\ \A p \in F : g[p] = f[p]
    BY TotalCongruence
  <2>2. QED
    BY <1>1, <2>1 DEF F, G
<1>5. CASE \E new \in Docs : Born(new)
  <2>1. PICK new \in Docs : Born(new)
    BY <1>5
  <2>2. UNCHANGED payment
    BY <2>1, BornRows
  <2>3. CASE d = new
    <3>1. doc[d] = NoDoc /\ doc'[d].paid = 0
      BY <2>1, <2>3, BornRows
    <3>2. \A p \in G : g[p] = 0
      BY <1>0, <1>1, <1>2, <2>2, <3>1 DEF BooksFit
    <3>3. Total(g, G) = 0
      BY <3>2, TotalZero
    <3>4. QED
      BY <3>1, <3>3 DEF g, G
  <2>4. CASE d # new
    <3>1. doc'[d] = doc[d] /\ Exists(d)
      BY <2>1, <2>4, BornRows DEF Exists
    <3>2. QED
      BY <1>3, <1>4, <2>2, <3>1 DEF g, G
  <2>5. QED
    BY <2>3, <2>4
<1>6. CASE NoneBorn
  <2>1. doc[d] # NoDoc /\ Moves(d) /\ Exists(d)
    BY <1>6, StatusMoves DEF NoneBorn, Exists
  <2>2. doc'[d].status = "void" => doc[d].status = "void" \/ Void(d)
    BY <2>1, StatusMoves, PostedAsStatus DEF Fixed
  <2>3. CASE UNCHANGED payment /\ doc'[d].paid = doc[d].paid
    <3>1. Void(d) => doc[d].paid = 0
      BY DEF Void
    <3>2. QED
      BY <1>3, <1>4, <2>1, <2>2, <2>3, <3>1 DEF g, G
  <2>4. CASE \E p \in Payments, kind \in {"invoice", "supplier_bill"}, h \in Amounts :
               /\ RecordPayment(p, kind, h) /\ payment[p] = NoPayment
               /\ payment'[p].status = "posted" /\ payment'[p].of = h
               /\ \A q \in Payments \ {p} : payment'[q] = payment[q]
    <3>1. PICK p \in Payments, kind \in {"invoice", "supplier_bill"}, h \in Amounts :
               /\ RecordPayment(p, kind, h) /\ payment[p] = NoPayment
               /\ payment'[p].status = "posted" /\ payment'[p].of = h
               /\ \A q \in Payments \ {p} : payment'[q] = payment[q]
      BY <2>4
    <3>2. p \notin F /\ G = F \cup {p} /\ g[p] = h[d] /\ \A q \in F : g[q] = f[q]
      BY <1>1, <3>1 DEF NoPayment, F, G
    <3>3. Total(g, F) = Total(f, F)
      BY <3>2, TotalCongruence
    <3>4. Total(g, F \cup {p}) - Total(g, F) = g[p]
      <4>1. IsFiniteSet(F) /\ p \notin F /\ \A q \in F \cup {p} : g[q] \in Nat
        BY <1>1, <1>2, <3>2
      <4>2. QED
        BY <4>1, TotalJoin, Zenon
    <3>5. Total(g, F) \in Nat /\ Total(g, G) \in Nat /\ g[p] \in Nat
      BY <1>1, <1>2, TotalNatural
    <3>6. doc'[d].paid = doc[d].paid + h[d]
      BY <2>1, <3>1, RowPaid
    <3>7. doc'[d].paid = Total(g, G)
      BY <1>3, <2>1, <3>2, <3>3, <3>4, <3>5, <3>6
    <3>8. doc'[d].status = "void" => doc'[d].paid = 0
      <4>1. h[d] > 0 => doc[d].status = "posted"
        BY <3>1 DEF RecordPayment
      <4>2. ~Void(d)
        BY <3>1 DEF Void, NoPayment
      <4>3. h[d] \in Nat
        BY <3>2, <3>5
      <4>4. doc'[d].status = "void" => h[d] = 0 /\ doc[d].status = "void"
        BY <2>2, <4>1, <4>2, <4>3
      <4>5. QED
        BY <1>3, <2>1, <3>6, <4>4
    <3>9. QED
      BY <3>7, <3>8 DEF g, G
  <2>5. CASE \E p \in Payments :
               /\ VoidPayment(p) /\ payment[p].status = "posted"
               /\ payment'[p].status = "void" /\ payment'[p].of = payment[p].of
               /\ \A q \in Payments \ {p} : payment'[q] = payment[q]
    <3>1. PICK p \in Payments :
               /\ VoidPayment(p) /\ payment[p].status = "posted"
               /\ payment'[p].status = "void" /\ payment'[p].of = payment[p].of
               /\ \A q \in Payments \ {p} : payment'[q] = payment[q]
      BY <2>5
    <3>2. p \in F /\ p \notin G /\ F = G \cup {p} /\ \A q \in F : g[q] = f[q]
      BY <1>1, <3>1 DEF F, G
    <3>3. Total(g, G) = Total(f, G)
      BY <3>2, TotalCongruence
    <3>4. Total(f, G \cup {p}) - Total(f, G) = f[p]
      <4>1. IsFiniteSet(G) /\ p \notin G /\ \A q \in G \cup {p} : f[q] \in Nat
        BY <1>1, <1>2, <3>2
      <4>2. QED
        BY <4>1, TotalJoin, Zenon
    <3>5. Total(f, G) \in Nat /\ Total(f, F) \in Nat /\ f[p] \in Nat
      BY <1>1, <1>2, TotalNatural
    <3>6. doc'[d].paid = doc[d].paid - f[p]
      BY <1>1, <2>1, <3>1, RowPaid
    <3>7. doc'[d].paid = Total(g, G)
      BY <1>3, <2>1, <3>2, <3>3, <3>4, <3>5, <3>6
    <3>8. doc'[d].status = "void" => doc'[d].paid = 0
      <4>1. ~Void(d)
        BY <3>1 DEF Void
      <4>2. doc'[d].status = "void" => doc[d].paid = 0
        BY <1>3, <2>1, <2>2, <4>1
      <4>3. QED
        BY <1>3, <2>1, <3>2, <3>4, <3>5, <3>6, <3>7, <4>2
    <3>9. QED
      BY <3>7, <3>8 DEF g, G
  <2>6. UNCHANGED payment => doc'[d].paid = doc[d].paid
    BY <2>1, PaymentMoves DEF Moves, NoPayment
  <2>7. QED
    BY <2>3, <2>4, <2>5, <2>6, PaymentMoves
<1>7. QED
  BY <1>5, <1>6, DocumentsMove

(* Quantities are natural numbers, and so are the sums of them. *)
LEMMA QtyOfNat ==
  ASSUME TypeOK, NEW D \in SUBSET Docs
  PROVE  /\ QtyOf(D) \in Nat
         /\ \A E \in SUBSET D : QtyOf(E) <= QtyOf(D)
<1> DEFINE f == [d \in Docs |-> doc[d].qty]
<1>1. /\ \A d \in Docs : f[d] \in Nat
      /\ IsFiniteSet(D) /\ \A E \in SUBSET D : IsFiniteSet(E)
  BY RowOrNone, QtyNat, FS_Subset, DocumentsAssumption
<1> HIDE DEF f
<1>2. Total(f, D) \in Nat /\ \A E \in SUBSET D : Total(f, E) <= Total(f, D)
  BY <1>1, TotalFewer
<1>3. QED
  BY <1>2 DEF QtyOf, f

(* Lines that still count have counted before, with the same quantity. *)
LEMMA StillKept ==
  ASSUME DocumentsInv, NEW e \in Docs, doc[e] # NoDoc, doc[e].source # None, Moves(e),
         doc'[e].status \notin {"cancelled", "void"}, ~doc'[e].archived
  PROVE  /\ doc[e].status \notin {"cancelled", "void"} /\ ~doc[e].archived
         /\ doc'[e].qty = doc[e].qty
<1>1. Exists(e)'
  BY RowIsNotNone DEF Moves, Exists
<1>2. Exists(e)
  BY <1>1, StatusMoves
<1>3. doc[e].status # "cancelled"
  BY <1>2 DEF DocumentsInv, StatusesFit
<1>4. doc[e].status # "void"
  BY <1>1, StatusMoves DEF Fixed
<1>5. QED
  BY <1>2, <1>3, <1>4 DEF Exists, Moves

(* Whatever is drawn from a line is drawn from a document that is there.    *)
LEMMA NothingDrawn ==
  ASSUME DocumentsInv, NEW s \in Docs, doc[s] = NoDoc \/ Derived(s) = {}
  PROVE  /\ \A e \in Docs : doc[e].source # s /\ doc[e].order # s
         /\ Derived(s) = {}
<1>0. TypeOK /\ SourcesFit
  BY DEF DocumentsInv
<1>1. Derived(s) = {}
  BY <1>0, DocumentsAssumption DEF SourcesFit, Derived
<1>2. ASSUME NEW e \in Docs, doc[e].source = s PROVE FALSE
  BY <1>1, <1>2, DocumentsAssumption DEF Derived, NoDoc
<1>3. ASSUME NEW e \in Docs, doc[e].order = s PROVE FALSE
  BY <1>0, <1>1, <1>3, DocumentsAssumption DEF SourcesFit
<1>4. QED
  BY <1>1, <1>2, <1>3

(* A line that has room for a draft still holds what is drawn from it. *)
LEMMA RoomForDraft ==
  ASSUME DocumentsInv, NEW new \in Docs, doc[new] = NoDoc, doc'[new].qty \in Nat,
         \A e \in Docs \ {new} : doc'[e] = doc[e],
         NEW K \in SUBSET Docs, NEW L \in SUBSET Docs, new \notin K, L \subseteq K \cup {new}
  PROVE  /\ new \notin L => QtyOf(L)' <= QtyOf(K)
         /\ QtyOf(L)' <= QtyOf(K) + doc'[new].qty
         /\ QtyOf(L)' \in Nat /\ QtyOf(K) \in Nat
<1>0. TypeOK
  BY DEF DocumentsInv
<1> DEFINE f == [d \in Docs |-> doc[d].qty]
           g == [d \in Docs |-> doc'[d].qty]
<1>1. /\ \A d \in Docs : f[d] \in Nat /\ g[d] \in Nat
      /\ \A d \in Docs \ {new} : g[d] = f[d]
      /\ g[new] = doc'[new].qty
  BY <1>0, RowOrNone, QtyNat
<1>2. IsFiniteSet(K)
  BY FS_Subset, DocumentsAssumption
<1> HIDE DEF f, g
<1>3. Total(g, K) = Total(f, K) /\ Total(f, K) \in Nat
  <2>1. \A x \in K : g[x] = f[x] /\ f[x] \in Nat
    BY <1>1
  <2>2. QED
    BY <1>2, <2>1, TotalCongruence, TotalNatural
<1>4. /\ Total(g, L) <= Total(g, K) + g[new] /\ Total(g, L) \in Nat
      /\ new \notin L => Total(g, L) <= Total(g, K)
  <2>1. (\A x \in K : g[x] \in Nat) /\ g[new] \in Nat /\ IsFiniteSet(K)
    BY <1>1, <1>2
  <2>2. QED
    BY <2>1, TotalOneMore
<1>5. QtyOf(L)' = Total(g, L) /\ QtyOf(K) = Total(f, K)
  BY DEF QtyOf, f, g
<1>6. QED
  BY <1>1, <1>3, <1>4, <1>5

(* Lines that are left as they were, or fewer of them, still fit.           *)
LEMMA FewerLines ==
  ASSUME DocumentsInv, NEW K \in SUBSET Docs, NEW L \in SUBSET K,
         \A e \in L : doc'[e].qty = doc[e].qty
  PROVE  QtyOf(L)' <= QtyOf(K) /\ QtyOf(L)' \in Nat /\ QtyOf(K) \in Nat
<1>0. TypeOK
  BY DEF DocumentsInv
<1> DEFINE f == [d \in Docs |-> doc[d].qty]
           g == [d \in Docs |-> doc'[d].qty]
<1>1. IsFiniteSet(K) /\ (\A x \in K : f[x] \in Nat) /\ \A x \in L : g[x] = f[x]
  BY <1>0, RowOrNone, QtyNat, FS_Subset, DocumentsAssumption
<1> HIDE DEF f, g
<1>2. Total(g, L) <= Total(f, K) /\ Total(g, L) \in Nat /\ Total(f, K) \in Nat
  BY <1>1, TotalFewer, TotalNatural
<1>3. QED
  BY <1>2 DEF QtyOf, f, g

LEMMA LinesKept ==
  ASSUME DocumentsInv, [Next]_vars
  PROVE  LinesNotOverdrawn'
<1>0. TypeOK /\ SourcesFit /\ StatusesFit /\ LinesNotOverdrawn /\ TypeOK'
  BY TypesKept DEF DocumentsInv
<1>1. ASSUME NEW s \in Docs, NEW kind \in Kinds, <<doc'[s].kind, kind>> \in Conversions
      PROVE  QtyOf(Kept(OfKind(Derived(s), kind)))' <= doc'[s].qty
  <2>1. PICK G : G = OfKind(Derived(s), kind)
    OBVIOUS
  <2>2. PICK H : H = OfKind(Derived(s), kind)'
    OBVIOUS
  <2>3. PICK K : K = Kept(G)
    OBVIOUS
  <2>4. PICK L : L = {d \in H : doc'[d].status \notin {"cancelled", "void"} /\ ~doc'[d].archived}
    OBVIOUS
  <2>5. QtyOf(Kept(OfKind(Derived(s), kind)))' = QtyOf(L)'
    <3>1. Kept(OfKind(Derived(s), kind))' = L
      BY <2>2, <2>4 DEF Kept, Live
    <3>2. QED
      BY <3>1 DEF QtyOf
  <2>6. K \in SUBSET Docs /\ L \in SUBSET Docs /\ G \in SUBSET Docs
    BY <2>1, <2>2, <2>3, <2>4 DEF Kept, Live, OfKind, Derived
  <2>7. CASE NoneBorn
    <3>1. Derived(s)' = Derived(s)
      BY <2>7, DerivedKept
    <3>2. ASSUME NEW e \in L PROVE e \in K /\ doc'[e].qty = doc[e].qty
      <4>1. e \in Derived(s) /\ e \in Docs /\ doc[e] # NoDoc /\ doc[e].source = s
              /\ doc[e].source # None
        BY <2>2, <2>4, <3>1, DocumentsAssumption DEF OfKind, Derived
      <4>2. Moves(e) /\ doc'[e].kind = doc[e].kind
        BY <2>7, <4>1 DEF NoneBorn, Moves
      <4>3. e \in G
        BY <2>1, <2>2, <2>4, <4>1, <4>2 DEF OfKind
      <4>4. QED
        BY <2>3, <2>4, <4>1, <4>2, <4>3, StillKept DEF Kept, Live
    <3>3. QtyOf(L)' <= QtyOf(K) /\ QtyOf(L)' \in Nat /\ QtyOf(K) \in Nat
      BY <2>6, <3>2, FewerLines
    <3>4. CASE doc[s] # NoDoc /\ doc'[s].qty = doc[s].qty
      <4>1. doc'[s].kind = doc[s].kind
        BY <3>4, DocRowsKept
      <4>2. QtyOf(K) <= doc[s].qty
        BY <1>0, <1>1, <2>1, <2>3, <4>1 DEF LinesNotOverdrawn
      <4>3. QED
        BY <1>0, <2>5, <3>3, <3>4, <4>2, RowOrNone, QtyNat
    <3>5. CASE doc[s] = NoDoc \/ doc'[s].qty # doc[s].qty
      <4>1. Derived(s) = {}
        BY <2>7, <3>5, NothingDrawn DEF NoneBorn, Moves
      <4>2. L = {}
        BY <2>2, <2>4, <3>1, <4>1 DEF OfKind
      <4>3. QtyOf(L)' = 0
        BY <4>2, TotalEmpty DEF QtyOf
      <4>4. doc'[s].qty \in Nat
        <5>1. doc'[s].qty \in 0..MaxQty
          BY <1>0, RowFields, QtyNat DEF TypeOK, NoDoc, Qty
        <5>2. QED
          BY <5>1, QtyNat
      <4>5. QED
        BY <2>5, <4>3, <4>4
    <3>6. QED
      BY <3>4, <3>5
  <2>8. CASE \E new \in Docs : Born(new)
    <3>1. PICK new \in Docs : Born(new)
      BY <2>8
    <3>2. /\ doc[new] = NoDoc /\ doc'[new] \in Rows /\ doc'[new] # NoDoc
          /\ \A e \in Docs \ {new} : doc'[e] = doc[e]
      BY <3>1, BornRows
    <3>3. doc'[new].qty \in Nat
      BY <3>2, RowFields, QtyNat
    <3>4. CASE s = new
      <4>1. L = {}
        BY <2>2, <2>4, <3>1, <3>4, DerivedKept DEF OfKind
      <4>2. QtyOf(L)' = 0
        BY <4>1, TotalEmpty DEF QtyOf
      <4>3. QED
        BY <2>5, <3>3, <3>4, <4>2
    <3>5. CASE s # new
      <4>1. doc'[s] = doc[s]
        BY <3>2, <3>5
      <4>2. QtyOf(K) <= doc[s].qty /\ doc[s].qty \in Nat
        BY <1>0, <1>1, <2>1, <2>3, <4>1, RowOrNone, QtyNat DEF LinesNotOverdrawn
      <4>3. new \notin G /\ new \notin K
        BY <2>1, <2>3, <3>2 DEF OfKind, Derived, Kept, Live
      <4>4. H \subseteq G \cup {new} /\ (new \in H => doc'[new].source = s /\ doc'[new].kind = kind)
        BY <2>1, <2>2, <3>2 DEF OfKind, Derived
      <4>5. L \subseteq K \cup {new}
        BY <2>3, <2>4, <2>6, <3>2, <4>4 DEF Kept, Live
      <4>6. /\ new \notin L => QtyOf(L)' <= QtyOf(K)
            /\ QtyOf(L)' <= QtyOf(K) + doc'[new].qty
            /\ QtyOf(L)' \in Nat /\ QtyOf(K) \in Nat
        BY <2>6, <3>2, <3>3, <4>3, <4>5, RoomForDraft
      <4>7. CASE new \notin L
        BY <2>5, <4>1, <4>2, <4>6, <4>7
      <4>8. CASE new \in L
        <5>1. doc'[new].source = s /\ doc'[new].kind = kind
          BY <2>4, <4>4, <4>8
        <5>2. Convert(s, kind, doc'[new].qty, new)
          <6>1. <<doc[s].kind, kind>> \in Conversions
            BY <1>1, <4>1
          <6>2. ~(kind = "quotation")
            BY <6>1 DEF Conversions
          <6>3. QED
            BY <3>1, <5>1, <6>2, BornRows, DocumentsAssumption
        <5>3. doc'[new].qty <= doc[s].qty - QtyOf(Live(G))
          BY <2>1, <5>2 DEF Convert, Remaining
        <5>4. Live(G) \in SUBSET Docs /\ K \in SUBSET Live(G)
          BY <2>3, <2>6 DEF Kept, Live
        <5>5. QtyOf(K) <= QtyOf(Live(G)) /\ QtyOf(Live(G)) \in Nat
          BY <1>0, <5>4, QtyOfNat
        <5>6. QED
          BY <2>5, <3>3, <4>1, <4>2, <4>6, <5>3, <5>5
      <4>9. QED
        BY <4>7, <4>8
    <3>6. QED
      BY <3>4, <3>5
  <2>9. QED
    BY <2>7, <2>8, DocumentsMove
<1>2. ASSUME NEW o \in Docs, doc'[o].kind = "sales_order"
      PROVE  QtyOf(Kept(InvoicesOf(o)))' <= doc'[o].qty
  <2>1. PICK G : G = InvoicesOf(o)
    OBVIOUS
  <2>2. PICK H : H = InvoicesOf(o)'
    OBVIOUS
  <2>3. PICK K : K = Kept(G)
    OBVIOUS
  <2>4. PICK L : L = {d \in H : doc'[d].status \notin {"cancelled", "void"} /\ ~doc'[d].archived}
    OBVIOUS
  <2>5. QtyOf(Kept(InvoicesOf(o)))' = QtyOf(L)'
    <3>1. Kept(InvoicesOf(o))' = L
      BY <2>2, <2>4 DEF Kept, Live
    <3>2. QED
      BY <3>1 DEF QtyOf
  <2>6. /\ K \in SUBSET Docs /\ L \in SUBSET Docs /\ G \in SUBSET Docs
        /\ \A e \in L : e \in H /\ doc'[e].kind = "invoice" /\ doc'[e].order = o
    BY <2>1, <2>2, <2>3, <2>4 DEF Kept, Live, InvoicesOf
  <2>7. CASE NoneBorn
    <3>1. ASSUME
                 NEW e \in L PROVE e \in K /\ doc'[e].qty = doc[e].qty /\ doc[e].order = o
      <4>1. e \in Docs /\ doc'[e].kind = "invoice" /\ doc'[e].order = o
        BY <2>6
      <4>2. doc[e] # NoDoc
        <5>1. NoDoc.order = None
          BY DEF NoDoc
        <5>2. QED
          BY <2>7, <4>1, <5>1, DocumentsAssumption DEF NoneBorn
      <4>3. Moves(e) /\ doc[e].kind = "invoice" /\ doc[e].order = o
        BY <2>7, <4>1, <4>2 DEF NoneBorn, Moves
      <4>4. doc[e].source # None
        BY <1>0, <4>1, <4>3, DocumentsAssumption DEF SourcesFit
      <4>5. e \in G
        BY <2>1, <4>1, <4>3 DEF InvoicesOf
      <4>6. QED
        BY <2>3, <2>4, <4>1, <4>2, <4>3, <4>4, <4>5, StillKept DEF Kept, Live
    <3>2. QtyOf(L)' <= QtyOf(K) /\ QtyOf(L)' \in Nat /\ QtyOf(K) \in Nat
      BY <2>6, <3>1, FewerLines
    <3>3. CASE doc[o] # NoDoc /\ doc'[o].qty = doc[o].qty
      <4>1. doc[o].kind = "sales_order"
        BY <1>2, <3>3, DocRowsKept
      <4>2. QtyOf(K) <= doc[o].qty
        BY <1>0, <2>1, <2>3, <4>1 DEF LinesNotOverdrawn
      <4>3. QED
        BY <1>0, <2>5, <3>2, <3>3, <4>2, RowOrNone, QtyNat
    <3>4. CASE doc[o] = NoDoc \/ doc'[o].qty # doc[o].qty
      <4>1. \A e \in Docs : doc[e].order # o
        BY <2>7, <3>4, NothingDrawn DEF NoneBorn, Moves
      <4>2. L = {}
        BY <2>6, <3>1, <4>1
      <4>3. QtyOf(L)' = 0
        BY <4>2, TotalEmpty DEF QtyOf
      <4>4. doc'[o].qty \in Nat
        <5>1. doc'[o].qty \in 0..MaxQty
          BY <1>0, RowFields, QtyNat DEF TypeOK, NoDoc, Qty
        <5>2. QED
          BY <5>1, QtyNat
      <4>5. QED
        BY <2>5, <4>3, <4>4
    <3>5. QED
      BY <3>3, <3>4
  <2>8. CASE \E new \in Docs : Born(new)
    <3>1. PICK new \in Docs : Born(new)
      BY <2>8
    <3>2. /\ doc[new] = NoDoc /\ doc'[new] \in Rows /\ doc'[new] # NoDoc
          /\ doc'[new].order # new
          /\ \A e \in Docs \ {new} : doc'[e] = doc[e] /\ doc[e].order # new
      BY <3>1, BornRows
    <3>3. doc'[new].qty \in Nat
      BY <3>2, RowFields, QtyNat
    <3>4. CASE o = new
      <4>1. L = {}
        BY <2>6, <3>2, <3>4
      <4>2. QtyOf(L)' = 0
        BY <4>1, TotalEmpty DEF QtyOf
      <4>3. QED
        BY <2>5, <3>3, <3>4, <4>2
    <3>5. CASE o # new
      <4>1. doc'[o] = doc[o]
        BY <3>2, <3>5
      <4>2. QtyOf(K) <= doc[o].qty /\ doc[o].qty \in Nat
        BY <1>0, <1>2, <2>1, <2>3, <4>1, RowOrNone, QtyNat DEF LinesNotOverdrawn
      <4>3. new \notin G /\ new \notin K
        BY <2>1, <2>3, <3>2, DocumentsAssumption DEF InvoicesOf, Kept, Live, NoDoc
      <4>4. H \subseteq G \cup {new}
        BY <2>1, <2>2, <3>2 DEF InvoicesOf
      <4>5. L \subseteq K \cup {new}
        BY <2>3, <2>4, <2>6, <3>2, <4>4 DEF Kept, Live
      <4>6. /\ new \notin L => QtyOf(L)' <= QtyOf(K)
            /\ QtyOf(L)' <= QtyOf(K) + doc'[new].qty
            /\ QtyOf(L)' \in Nat /\ QtyOf(K) \in Nat
        BY <2>6, <3>2, <3>3, <4>3, <4>5, RoomForDraft
      <4>7. CASE new \notin L
        BY <2>5, <4>1, <4>2, <4>6, <4>7
      <4>8. CASE new \in L
        <5>1. doc'[new].order = o /\ doc'[new].kind = "invoice" /\ o # None
          BY <2>6, <4>8, DocumentsAssumption
        <5>2. PICK s : s = doc'[new].source
          OBVIOUS
        <5>3. Convert(s, "invoice", doc'[new].qty, new) /\ o = Origin(s)
          BY <3>1, <5>1, <5>2, BornRows
        <5>4. doc'[new].qty <= doc[o].qty - QtyOf(Live(G))
          BY <2>1, <5>1, <5>3 DEF Convert, NotInvoiced
        <5>5. Live(G) \in SUBSET Docs /\ K \in SUBSET Live(G)
          BY <2>3, <2>6 DEF Kept, Live
        <5>6. QtyOf(K) <= QtyOf(Live(G)) /\ QtyOf(Live(G)) \in Nat
          BY <1>0, <5>5, QtyOfNat
        <5>7. QED
          BY <2>5, <3>3, <4>1, <4>2, <4>6, <5>4, <5>6
      <4>9. QED
        BY <4>7, <4>8
    <3>6. QED
      BY <3>4, <3>5
  <2>9. QED
    BY <2>7, <2>8, DocumentsMove
<1>3. QED
  BY <1>1, <1>2 DEF LinesNotOverdrawn

(* What the invariant says of the revenue. *)
LEMMA RevenueFits ==
  ASSUME DocumentsInv
  PROVE  RevenueWithinOrder
<1>0. TypeOK /\ StatusesFit /\ BooksFit /\ LinesNotOverdrawn
  BY DEF DocumentsInv
<1> SUFFICES ASSUME NEW o \in Docs, doc[o].kind = "sales_order"
             PROVE  LET invoices == {d \in InvoicesOf(o) : Exists(d)}
                        credits == {e \in Docs : Exists(e) /\ doc[e].kind = "credit_note"
                                                /\ doc[e].source \in invoices}
                        booked == Total(revenue, invoices)
                                  - Total([e \in Docs |-> 0 - revenue[e]], credits)
                    IN  0 <= booked /\ booked <= doc[o].qty
  BY DEF RevenueWithinOrder
<1> DEFINE invoices == {d \in InvoicesOf(o) : Exists(d)}
           credits == {e \in Docs : Exists(e) /\ doc[e].kind = "credit_note"
                                   /\ doc[e].source \in invoices}
           taken == [e \in Docs |-> 0 - revenue[e]]
           q == [d \in Docs |-> doc[d].qty]
           source == [e \in credits |-> doc[e].source]
           Group(d) == {e \in credits : source[e] = d}
<1>1. ASSUME NEW d \in invoices
      PROVE  /\ d \in Docs /\ Exists(d) /\ doc[d].kind = "invoice" /\ doc[d].order = o
             /\ revenue[d] = IF doc[d].status = "posted" THEN doc[d].qty ELSE 0
             /\ doc[d].qty \in Nat /\ revenue[d] \in Nat
  <2>1. d \in Docs /\ Exists(d) /\ doc[d].kind = "invoice" /\ doc[d].order = o
    BY DEF InvoicesOf
  <2>2. doc[d].qty \in Nat
    BY <1>0, <2>1, RowOrNone, QtyNat
  <2>3. QED
    BY <1>0, <2>1, <2>2 DEF BooksFit, Recognized
<1>2. ASSUME NEW e \in credits
      PROVE  /\ e \in Docs /\ Exists(e) /\ doc[e].kind = "credit_note" /\ doc[e].source \in invoices
             /\ taken[e] = IF doc[e].status = "posted" THEN doc[e].qty ELSE 0
             /\ doc[e].qty \in Nat /\ taken[e] \in Nat
  <2>1. e \in Docs /\ Exists(e) /\ doc[e].kind = "credit_note" /\ doc[e].source \in invoices
    OBVIOUS
  <2>2. doc[e].qty \in Nat
    BY <1>0, <2>1, RowOrNone, QtyNat
  <2>3. revenue[e] = IF doc[e].status = "posted" THEN 0 - doc[e].qty ELSE 0
    BY <1>0, <2>1 DEF BooksFit, Recognized
  <2>4. QED
    BY <2>1, <2>2, <2>3
<1>3. /\ IsFiniteSet(invoices) /\ IsFiniteSet(credits)
      /\ \A D \in SUBSET Docs : IsFiniteSet(D) /\ \A d \in D : q[d] = doc[d].qty /\ q[d] \in Nat
  <2>1. invoices \subseteq Docs /\ credits \subseteq Docs
    BY DEF InvoicesOf
  <2>2. QED
    BY <1>0, <2>1, FS_Subset, RowOrNone, QtyNat, DocumentsAssumption
<1>4. \A e \in credits : source[e] = doc[e].source
  OBVIOUS
<1>5. doc[o].qty \in Nat
  BY <1>0, RowOrNone, QtyNat
<1>6. \A D \in SUBSET Docs : QtyOf(D) = Total(q, D)
  BY DEF QtyOf
<1>7. \A D \in SUBSET Docs : Kept(D) \in SUBSET Docs /\ \A e \in D : Exists(e)
        /\ doc[e].status = "posted" => e \in Kept(D)
  BY DEF Kept, Live, Exists
<1>8. invoices \subseteq InvoicesOf(o) /\ InvoicesOf(o) \in SUBSET Docs
  BY DEF InvoicesOf
<1>9. \A d \in Docs : Group(d) \subseteq OfKind(Derived(d), "credit_note")
        /\ OfKind(Derived(d), "credit_note") \in SUBSET Docs
  BY <1>2, <1>4 DEF OfKind, Derived, Exists
<1> HIDE DEF invoices, credits, taken, q, source
<1>10. Total(revenue, invoices) <= doc[o].qty
  <2>1. QtyOf(Kept(InvoicesOf(o))) <= doc[o].qty
    BY <1>0 DEF LinesNotOverdrawn
  <2>2. PICK K \in SUBSET Docs : K = Kept(InvoicesOf(o))
    BY <1>7, <1>8
  <2>3. /\ \A d \in invoices : revenue[d] \in Nat
           /\ (revenue[d] > 0 => d \in K /\ revenue[d] <= q[d])
        /\ IsFiniteSet(K) /\ \A d \in K : q[d] \in Nat
    BY <1>1, <1>3, <1>7, <1>8, <2>2
  <2>4. Total(revenue, invoices) <= Total(q, K)
    BY <2>3, TotalBelow
  <2>5. Total(revenue, invoices) \in Nat /\ Total(q, K) \in Nat
    BY <1>1, <1>3, <2>3, TotalNatural
  <2>6. QED
    BY <1>5, <1>6, <2>1, <2>2, <2>4, <2>5
<1>11. ASSUME NEW d \in invoices PROVE Total(taken, Group(d)) <= revenue[d]
  <2>1. CASE Group(d) = {}
    BY <1>1, <2>1, TotalEmpty
  <2>2. CASE Group(d) # {}
    <3>1. OfKind(Derived(d), "credit_note") # {} /\ d \in Docs /\ Exists(d)
            /\ doc[d].kind = "invoice"
      BY <1>1, <1>9, <2>2
    <3>2. doc[d].status = "posted"
      BY <1>0, <3>1 DEF StatusesFit, OfKind
    <3>3. QtyOf(Kept(OfKind(Derived(d), "credit_note"))) <= doc[d].qty
      BY <1>0, <3>1 DEF LinesNotOverdrawn, Conversions, Kinds
    <3>4. PICK K \in SUBSET Docs : K = Kept(OfKind(Derived(d), "credit_note"))
      BY <1>7, <1>9, <3>1
    <3>5. \A e \in Group(d) : doc[e].status = "posted" => e \in K
      BY <1>2, <1>7, <1>9, <3>1, <3>4
    <3>6. /\ \A e \in Group(d) : taken[e] \in Nat /\ (taken[e] > 0 => e \in K /\ taken[e] <= q[e])
          /\ IsFiniteSet(K) /\ \A e \in K : q[e] \in Nat
      BY <1>2, <1>3, <3>5
    <3>7. Total(taken, Group(d)) <= Total(q, K)
      <4> HIDE DEF Group
      <4>1. QED
        BY <3>6, TotalBelow
    <3>8. Total(taken, Group(d)) \in Nat /\ Total(q, K) \in Nat
      <4>1. IsFiniteSet(Group(d)) /\ \A e \in Group(d) : taken[e] \in Nat
        BY <1>3, <3>6, FS_Subset
      <4> HIDE DEF Group
      <4>2. QED
        BY <3>6, <4>1, TotalNatural
    <3>9. QED
      BY <1>1, <1>6, <3>2, <3>3, <3>4, <3>7, <3>8
  <2>3. QED
    BY <2>1, <2>2
<1>12. Total(taken, credits) <= Total(revenue, invoices)
  <2>1. /\ \A e \in credits : taken[e] \in Nat /\ source[e] \in invoices
        /\ \A d \in invoices : revenue[d] \in Nat
           /\ Total(taken, {e \in credits : source[e] = d}) <= revenue[d]
    BY <1>1, <1>2, <1>4, <1>11
  <2>2. QED
    BY <1>3, <2>1, TotalGroups
<1>13. Total(taken, credits) \in Nat /\ Total(revenue, invoices) \in Nat
  BY <1>1, <1>2, <1>3, TotalNatural
<1>14. QED
  BY <1>5, <1>10, <1>12, <1>13 DEF invoices, credits, taken

LEMMA DocumentsInvInit ==
  ASSUME Init
  PROVE  DocumentsInv
<1>1. \A d \in Docs : doc[d] = NoDoc
  BY DEF Init
<1>2. /\ NoDoc.kind = None /\ NoDoc.source = None /\ NoDoc.order = None /\ NoDoc.archived = FALSE
      /\ NoDoc.qty = 0 /\ NoDoc.status = "none" /\ NoApproval.status = "none"
      /\ NoPayment.status = "none" /\ \A d \in Docs : NoPayment.of[d] = 0
  BY DEF NoDoc, NoApproval, NoPayment
<1>3. TypeOK
  <2>1. NoPayment \in [status : {"none", "posted", "void"}, of : Amounts]
    BY QtyNat DEF NoPayment, Amounts
  <2>2. QED
    BY <2>1 DEF Init, TypeOK
<1>4. \A d \in Docs : ~Exists(d) /\ Derived(d) = {} /\ InvoicesOf(d) = {}
  BY <1>1, <1>2, DocumentsAssumption DEF Exists, Derived, InvoicesOf
<1>5. SourcesFit /\ StatusesFit /\ ApprovalsFit /\ PaidIsSettled /\ PostedAsApproved
  BY <1>1, <1>2, <1>4, DocumentsAssumption
     DEF Init, SourcesFit, StatusesFit, ApprovalsFit, PaidIsSettled, PostedAsApproved
<1>6. BooksFit
  BY <1>1, <1>2, <1>4 DEF Init, BooksFit
<1>7. LinesNotOverdrawn
  <2>1. \A d \in Docs : Kept(InvoicesOf(d)) = {} /\ \A kind : Kept(OfKind(Derived(d), kind)) = {}
    BY <1>4 DEF Kept, Live, OfKind
  <2>2. QtyOf({}) = 0
    BY TotalEmpty DEF QtyOf
  <2>3. \A d \in Docs : doc[d].qty = 0
    BY <1>1, <1>2
  <2>4. ASSUME NEW d \in Docs
        PROVE  /\ QtyOf(Kept(InvoicesOf(d))) <= doc[d].qty
               /\ \A kind \in Kinds : QtyOf(Kept(OfKind(Derived(d), kind))) <= doc[d].qty
    <3>1. 0 <= 0
      OBVIOUS
    <3>2. QED
      BY <2>1, <2>2, <2>3, <3>1, Zenon
  <2>5. QED
    BY <2>4 DEF LinesNotOverdrawn
<1>8. QED
  BY <1>3, <1>5, <1>6, <1>7 DEF DocumentsInv

LEMMA DocumentsInvStep ==
  ASSUME DocumentsInv, [Next]_vars
  PROVE  DocumentsInv'
BY TypesKept, SourcesKept, StatusesKept, ApprovalsKept, BooksKept, LinesKept,
   PostingsKept,
   PaidKept DEF DocumentsInv

-----------------------------------------------------------------------------
(* The parts in the steps of MCErp: the invariant of the part that a behaviour *)
(* runs.                                                                    *)
OfficeParts ==
  /\ part = "recurring" => RecurringInv
  /\ part = "leave" => LeaveInv
  /\ part = "jobs" => WorkInv
  /\ part = "upgrade" => UpgradeInv
  /\ part = "prints" => PrintInv
  /\ part = "reports" => ReportInv

LEMMA OfficePartsInit ==
  ASSUME ErpInit
  PROVE  OfficeParts
<1>1. part = "recurring" => RecurringInv
  BY RecurringAssumption, RecurringInvInit DEF ErpInit
<1>2. part = "leave" => LeaveInv
  BY LeaveAssumption, LeaveInvInit DEF ErpInit
<1>3. part = "jobs" => WorkInv
  BY WorkAssumption, WorkInvInit DEF ErpInit
<1>4. part = "upgrade" => UpgradeInv
  BY UpgradeAssumption, UpgradeInvInit DEF ErpInit
<1>5. part = "prints" => PrintInv
  BY PrintAssumption, PrintInvInit DEF ErpInit
<1>6. part = "reports" => ReportInv
  BY ReportAssumption, ReportInvInit DEF ErpInit
<1> QED
  BY <1>1, <1>2, <1>3, <1>4, <1>5, <1>6 DEF OfficeParts

LEMMA OfficePartsStep ==
  ASSUME OfficeParts, [ErpNext]_erpVars
  PROVE  OfficeParts'
<1>1. ASSUME part' = "recurring"
      PROVE  RecurringInv'
  <2>1. part = "recurring" /\ [Repeated!RecurringNext]_recurringVars
    BY <1>1 DEF ErpNext, erpVars, laterVars
  <2> QED
    BY <2>1, RecurringAssumption, RecurringStep DEF OfficeParts
<1>2. ASSUME part' = "leave"
      PROVE  LeaveInv'
  <2>1. part = "leave" /\ [Left!LeaveNext]_leaveVars
    BY <1>2 DEF ErpNext, erpVars, laterVars
  <2> QED
    BY <2>1, LeaveAssumption, LeaveInvStep DEF OfficeParts
<1>3. ASSUME part' = "jobs"
      PROVE  WorkInv'
  <2>1. part = "jobs" /\ [Worked!WorkNext]_jobVars
    BY <1>3 DEF ErpNext, erpVars, laterVars
  <2> QED
    BY <2>1, WorkAssumption, WorkInvStep DEF OfficeParts
<1>4. ASSUME part' = "upgrade"
      PROVE  UpgradeInv'
  <2>1. part = "upgrade" /\ [Carried!UpgradeNext]_upgradeVars
    BY <1>4 DEF ErpNext, erpVars, laterVars
  <2> QED
    BY <2>1, UpgradeAssumption, UpgradeStep DEF OfficeParts
<1>5. ASSUME part' = "prints"
      PROVE  PrintInv'
  <2>1. part = "prints" /\ [Files!PrintNext]_printVars
    BY <1>5 DEF ErpNext, erpVars, laterVars
  <2> QED
    BY <2>1, PrintAssumption, PrintInvStep DEF OfficeParts
<1>6. ASSUME part' = "reports"
      PROVE  ReportInv'
  <2>1. part = "reports" /\ [Files!ReportNext]_reportVars
    BY <1>6 DEF ErpNext, erpVars, laterVars
  <2> QED
    BY <2>1, ReportAssumption, ReportStep DEF OfficeParts
<1> QED
  BY <1>1, <1>2, <1>3, <1>4, <1>5, <1>6 DEF OfficeParts

(* No due date of a template is passed over, leave never overlaps or exceeds  *)
(* its allowance and stays what a finalized payroll was calculated with, a     *)
(* closed job tells of its stages truly, an upgrade carries each record once,  *)
(* prints are current, and a day has one report (src/apps/erp).              *)
THEOREM ErpOfficeRecordsHold == ErpSpec => []OfficeRecordsHold
<1>1. ErpInit => OfficeParts
  BY OfficePartsInit
<1>2. OfficeParts /\ [ErpNext]_erpVars => OfficeParts'
  BY OfficePartsStep
<1>3. OfficeParts => OfficeRecordsHold
  BY 
       DEF OfficeParts, OfficeRecordsHold, RecurringInv, LeaveInv,
           WorkInv, UpgradeInv, PrintInv, ReportInv
<1> QED
  BY <1>1, <1>2, <1>3, PTL DEF ErpSpec

-----------------------------------------------------------------------------
(* The payroll in the steps of MCErp. *)
PayrollPart == part = "payroll" => PayrollInv

LEMMA PayrollPartInit ==
  ASSUME ErpInit
  PROVE  PayrollPart
BY PayrollAssumption, PayrollInvInit DEF ErpInit, PayrollPart

LEMMA PayrollPartStep ==
  ASSUME PayrollPart, [ErpNext]_erpVars
  PROVE  PayrollPart' /\ (part = "payroll" => Payroll!FinalizesAsOfNow)
<1>1. part' = part /\ (part = "payroll" => [Payroll!PayrollNext]_payrollVars)
  BY DEF ErpNext, erpVars, laterVars
<1> QED
  BY <1>1, PayrollAssumption, PayrollInvStep DEF PayrollPart

(* What a loan has got back is what the finalized months deducted, but for a   *)
(* loan archived by a request that had read it before, and no salary is paid *)
(* more than once over (src/apps/erp/workforce.py).                          *)
THEOREM ErpDeductionsReachLoans == ErpSpec => []DeductionsReachLoans
<1>1. ErpInit => PayrollPart
  BY PayrollPartInit
<1>2. PayrollPart /\ [ErpNext]_erpVars => PayrollPart'
  BY PayrollPartStep
<1>3. PayrollPart => DeductionsReachLoans
  BY DEF PayrollPart, PayrollInv, DeductionsReachLoans
<1> QED
  BY <1>1, <1>2, <1>3, PTL DEF ErpSpec

(* A month is finalized with what a calculation would give at that moment     *)
(* (finalize_payroll).                                                      *)
THEOREM ErpFinalizedAsOfNow == ErpSpec => FinalizedAsOfNow
<1>1. ErpInit => PayrollPart
  BY PayrollPartInit
<1>2. PayrollPart /\ [ErpNext]_erpVars => PayrollPart'
  BY PayrollPartStep
<1>3. PayrollPart /\ [ErpNext]_erpVars => [part = "payroll" => Payroll!FinalizesAsOfNow]_payrollVars
  BY PayrollPartStep
<1> QED
  BY <1>1, <1>2, <1>3, PTL DEF ErpSpec, FinalizedAsOfNow

(* The documents of MCErp, whatever part a behaviour runs. *)
LEMMA DocumentsPart == ErpSpec => []DocumentsInv
<1>1. ErpInit => DocumentsInv
  BY DocumentsInvInit DEF ErpInit
<1>2. DocumentsInv /\ [ErpNext]_erpVars => DocumentsInv'
  <2>1. [ErpNext]_erpVars => [Next]_vars
    BY DEF ErpNext, erpVars, vars
  <2>2. QED
    BY <2>1, DocumentsInvStep
<1>3. QED
  BY <1>1, <1>2, PTL DEF ErpSpec

(* Documents drawn from a line never add up to more than the line, and an     *)
(* order is not invoiced beyond what was ordered (convert_document).          *)
THEOREM ErpLinesNotOverdrawn == ErpSpec => []LinesNotOverdrawn
<1>1. DocumentsInv => LinesNotOverdrawn
  BY DEF DocumentsInv
<1>2. QED
  BY <1>1, DocumentsPart, PTL

(* A posted document carries the amount that was approved, and above the      *)
(* threshold one was (submit_for_approval, decide_approval, post_document).   *)
THEOREM ErpPostedAsApproved == ErpSpec => []PostedAsApproved
<1>1. DocumentsInv => PostedAsApproved
  BY DEF DocumentsInv
<1>2. QED
  BY <1>1, DocumentsPart, PTL

(* Revenue stays within the order it comes from, and what is paid of a        *)
(* document is what the payments that stand settle (post_document,            *)
(* record_payment, void_payment, void).                                       *)
THEOREM ErpInvoicesAddUp == ErpSpec => []InvoicesAddUp
<1>1. DocumentsInv => InvoicesAddUp
  BY RevenueFits DEF DocumentsInv, InvoicesAddUp
<1>2. QED
  BY <1>1, DocumentsPart, PTL

=============================================================================
