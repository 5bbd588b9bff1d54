----------------------------- MODULE Recurring ------------------------------
(***************************************************************************)
(* Recurring expenses of the ERP (generate_recurring of                     *)
(* src/apps/erp/services.py, generate_due_recurring_expenses of             *)
(* src/apps/erp/tasks.py, RecurringViewSet of src/apps/erp/views.py).  The  *)
(* daily task reads the template without a lock, creates the expenses that  *)
(* are due one by one, each in a transaction of its own, and then writes    *)
(* the whole template back; several may overlap with each other and with    *)
(* people who generate or edit, who hold the lock of the company's row, and  *)
(* with people who archive the template, who do not.  An expense belongs to  *)
(* a due date by its own date, which people may change while it is a draft. *)
(*                                                                         *)
(* Due dates are numbered; the period between two is left out.              *)
(*                                                                         *)
(* Definitions commented "Mutant:" are mistakes for the properties to find. *)
(***************************************************************************)
EXTENDS Naturals, FiniteSets

CONSTANTS
  LastDate,     \* bound on the dates
  PerRun,       \* expenses that one run creates at most, 24 in the code
  MaxByHand,    \* bound on the dates that people have touched when they edit
  RecurringTasks,
  None

VARIABLES
  today,
  template,     \* next due date, whether it is active, whether archived
  expenses,     \* dates of the template's expenses
  task,         \* the template as each task under way has it, and its count
  byHand        \* history: dates that people set the template past, or moved
                \* a draft from or to

recurringVars == <<today, template, expenses, task, byHand>>

RecurringInit ==
  /\ today = 0
  /\ template = [next |-> 1, active |-> TRUE, archived |-> FALSE]
  /\ expenses = {} /\ byHand = {}
  /\ task = [t \in RecurringTasks |-> None]

Tomorrow ==
  /\ today < LastDate
  /\ today' = today + 1
  /\ UNCHANGED <<template, expenses, task, byHand>>

(* The task lists the templates that are due. *)
StartTask(t) ==
  /\ task[t] = None
  /\ template.active /\ ~template.archived /\ template.next <= today
  /\ task' = [task EXCEPT ![t] = [row |-> template, until |-> today, count |-> 0]]
  /\ UNCHANGED <<today, template, expenses, byHand>>

More(r) == r.row.active /\ r.row.next <= r.until /\ r.count < PerRun

(* get_or_create of one expense; a date that has one is passed over. *)
CreateDue(t) ==
  /\ task[t] # None /\ More(task[t])
  /\ expenses' = expenses \cup {task[t].row.next}
  /\ task' = [task EXCEPT ![t].row.next = @ + 1, ![t].count = @ + 1]
  /\ UNCHANGED <<today, template, byHand>>

(* Mutant: the template goes on past all that was due, whatever the task    *)
(* has created.                                                             *)
SaveAhead(t) ==
  /\ task[t] # None /\ ~More(task[t])
  /\ template' = [task[t].row EXCEPT !.next = task[t].until + 1]
  /\ task' = [task EXCEPT ![t] = None]
  /\ UNCHANGED <<today, expenses, byHand>>

(* touch(template) writes the row as the task has it. *)
SaveTemplate(t) ==
  /\ task[t] # None /\ ~More(task[t])
  /\ template' = task[t].row
  /\ task' = [task EXCEPT ![t] = None]
  /\ UNCHANGED <<today, expenses, byHand>>

DieGenerating(t) ==
  /\ task[t] # None
  /\ task' = [task EXCEPT ![t] = None]
  /\ UNCHANGED <<today, template, expenses, byHand>>

(* RecurringViewSet.generate, under the lock. *)
Generate ==
  /\ template.active /\ ~template.archived /\ template.next <= today
  /\ LET last == IF template.next + PerRun - 1 < today THEN template.next + PerRun - 1 ELSE today
     IN  /\ expenses' = expenses \cup template.next..last
         /\ template' = [template EXCEPT !.next = last + 1]
  /\ UNCHANGED <<today, task, byHand>>

(* ERPViewSet.update of the template, under the lock: it is switched off or  *)
(* on, or its next due date is set.  A task under way writes its own copy    *)
(* back: nothing here promises that the change stays.                       *)
Switch ==
  /\ ~template.archived
  /\ template' = [template EXCEPT !.active = ~@]
  /\ UNCHANGED <<today, expenses, task, byHand>>

SetDue(date) ==
  /\ ~template.archived /\ date # template.next /\ Cardinality(byHand) < MaxByHand
  /\ template' = [template EXCEPT !.next = date]
  /\ byHand' = byHand \cup template.next..(date - 1)
  /\ UNCHANGED <<today, expenses, task>>

(* ERPViewSet.update of a draft: its date, which no other may have.         *)
MoveDraft(from, to) ==
  /\ from \in expenses /\ to \notin expenses /\ Cardinality(byHand) < MaxByHand
  /\ expenses' = (expenses \ {from}) \cup {to}
  /\ byHand' = byHand \cup {from, to}
  /\ UNCHANGED <<today, template, task>>

(* ERPViewSet.destroy reads the template without the lock and saves it whole *)
(* (SaveTemplate).                                                          *)
StartArchiveTemplate(t) ==
  /\ task[t] = None /\ ~template.archived
  /\ task' = [task EXCEPT ![t] = [row |-> [template EXCEPT !.archived = TRUE],
                                  until |-> 0, count |-> 0]]
  /\ UNCHANGED <<today, template, expenses, byHand>>

RecurringNext ==
  \/ Tomorrow \/ Generate \/ Switch
  \/ \E date \in 1..LastDate : SetDue(date) \/ \E to \in 1..LastDate : MoveDraft(date, to)
  \/ \E t \in RecurringTasks :
       StartTask(t) \/ CreateDue(t) \/ SaveTemplate(t) \/ DieGenerating(t) \/ StartArchiveTemplate(t)

RecurringSpec == RecurringInit /\ [][RecurringNext]_recurringVars

-----------------------------------------------------------------------------
Templates == [next : 1..(LastDate + 1), active : BOOLEAN, archived : BOOLEAN]
Runs == [row : Templates, until : 0..LastDate, count : 0..PerRun]

RecurringTypeOK ==
  /\ today \in 0..LastDate
  /\ template \in Templates
  /\ expenses \subseteq 1..LastDate /\ byHand \subseteq 1..LastDate
  /\ task \in [RecurringTasks -> Runs \cup {None}]

(* Whatever overlaps or dies, the template never passes a due date that has *)
(* no expense, unless a person set it past that date, or moved a draft from *)
(* or to that date; and no expense is made before it is due.                *)
NoDueDateSkipped ==
  /\ RecurringTypeOK
  /\ 1..(template.next - 1) \subseteq expenses \cup byHand
  /\ expenses \subseteq 1..today \cup byHand

-----------------------------------------------------------------------------

RecurringConstants == LastDate \in Nat /\ PerRun \in Nat

=============================================================================
