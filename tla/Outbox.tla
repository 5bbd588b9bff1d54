------------------------------- MODULE Outbox -------------------------------
(***************************************************************************)
(* What the program sends out by itself.                                    *)
(*                                                                         *)
(* First, from the ERP (src/apps/erp/tasks.py, src/apps/erp/signals.py,     *)
(* CommunicationViewSet of src/apps/erp/views.py): messages to people, each *)
(* with an outbox event, and webhook deliveries to other programs.  Workers *)
(* claim a row under its lock, send outside of any transaction and note the *)
(* outcome in another one.  A worker may die between any two steps.  A      *)
(* message is never sent again, a delivery is tried MaxAttempts times with  *)
(* a pause in between; how long it is does not matter here.  An attempt     *)
(* posts to one address of the receiver after the other until one answers   *)
(* that it is fine.                                                         *)
(*                                                                         *)
(* Second, reminders and the task that mails them (src/apps/core/tasks.py   *)
(* 10-39, ReminderView in src/apps/core/crm_views.py).  Workers run the     *)
(* task side by side: each locks a batch of due reminders, skipping those   *)
(* another worker holds, mails them and marks them sent when it commits.    *)
(* Mail that has left stays out when a worker dies and its marks are lost.  *)
(* An edit reads a reminder and saves all of it later, the mark included,   *)
(* once no worker holds it.                                                 *)
(*                                                                         *)
(* Definitions commented "Mutant:" are mistakes for the properties to find. *)
(***************************************************************************)
EXTENDS Integers, FiniteSets

CONSTANTS
  Messages, Deliveries,
  Reminders, Editors,
  Workers,
  MaxAttempts,
  Addresses,    \* to how many addresses the name of a receiver may resolve
  MaxDeaths,    \* bound on the workers that die over a message or delivery
  BatchSize,    \* reminders a worker takes at once
  MaxEdits,     \* bound on edits
  MaxCrashes,   \* bound on workers that die over reminders
  None

VARIABLES
  message,      \* Communication.status, None before
  event,        \* its OutboxEvent: None, "waiting" or "processed"
  delivery,     \* status and attempts of WebhookDelivery
  got,          \* how often the receiver got each message or delivery
  worker,       \* what each worker is at: row, step and outcome
  deaths,
  abandoned,    \* history: rows whose worker died before it noted the outcome
  reminders,    \* due and sent of each reminder, None before and after its life
  company,      \* whether the company is on trial or active
  batches,      \* the reminders each worker holds and those it has mailed, or None
  editors,      \* the reminder each edit under way has read
  edits, crashes, \* how many there have been
  mails,        \* history: messages about each reminder
  excused       \* history: reminders whose worker died, or that an edit overlapped

outboxVars == <<message, event, delivery, got, worker, deaths, abandoned>>
reminderVars == <<reminders, company, batches, editors, edits, crashes, mails, excused>>

Rows == Messages \cup Deliveries
Idle(w) == worker[w] = None

OutboxInit ==
  /\ message = [m \in Messages |-> None]
  /\ event = [m \in Messages |-> None]
  /\ delivery = [d \in Deliveries |-> None]
  /\ got = [x \in Rows |-> 0]
  /\ worker = [w \in Workers |-> None]
  /\ deaths = 0
  /\ abandoned = {}

-----------------------------------------------------------------------------
(* An invitation queues its message and the event in one transaction        *)
(* (queue_message of src/apps/reference_erp/team.py); CommunicationViewSet  *)
(* and run_erp_schedules add the event after the message is committed, and  *)
(* the process may die before.                                              *)
Queue(m, together) ==
  /\ message[m] = None
  /\ message' = [message EXCEPT ![m] = "queued"]
  /\ event' = IF together THEN [event EXCEPT ![m] = "waiting"] ELSE event
  /\ UNCHANGED <<delivery, got, worker, deaths, abandoned>>

AddEvent(m) ==
  /\ message[m] # None /\ event[m] = None
  /\ event' = [event EXCEPT ![m] = "waiting"]
  /\ UNCHANGED <<message, delivery, got, worker, deaths, abandoned>>

(* An invitation that is revoked or sent again cancels its queued message.  *)
Cancel(m) ==
  /\ message[m] = "queued"
  /\ message' = [message EXCEPT ![m] = "cancelled"]
  /\ UNCHANGED <<event, delivery, got, worker, deaths, abandoned>>

(* create_webhook_deliveries, in the transaction of the event. *)
QueueDelivery(d) ==
  /\ delivery[d] = None
  /\ delivery' = [delivery EXCEPT ![d] = [status |-> "queued", attempts |-> 0]]
  /\ UNCHANGED <<message, event, got, worker, deaths, abandoned>>

-----------------------------------------------------------------------------
(* process_erp_outbox: a worker takes a queued message ...                  *)
Take(w, m) ==
  /\ message' = [message EXCEPT ![m] = "sending"]
  /\ worker' = [worker EXCEPT ![w] = [row |-> m, step |-> "claimed", fine |-> FALSE]]
  /\ UNCHANGED <<event, delivery, got, deaths, abandoned>>

(* ... or passes over the event of one that is not queued. *)
PassOver(w, m) ==
  /\ Idle(w) /\ event[m] = "waiting" /\ message[m] # "queued"
  /\ event' = [event EXCEPT ![m] = "processed"]
  /\ UNCHANGED <<message, delivery, got, worker, deaths, abandoned>>

(* Mutant: a message that was being sent is taken up again. *)
ClaimAgain(w, m) ==
  /\ Idle(w) /\ event[m] = "waiting" /\ message[m] \in {"queued", "sending"}
  /\ Take(w, m)

Claim(w, m) ==
  /\ Idle(w) /\ event[m] = "waiting" /\ message[m] = "queued"
  /\ Take(w, m)

(* deliver_erp_webhooks. *)
ClaimDelivery(w, d) ==
  /\ Idle(w)
  /\ delivery[d] # None /\ delivery[d].status \in {"queued", "retry"}
  /\ delivery' = [delivery EXCEPT ![d].status = "sending", ![d].attempts = @ + 1]
  /\ worker' = [worker EXCEPT ![w] = [row |-> d, step |-> "claimed", fine |-> FALSE]]
  /\ UNCHANGED <<message, event, got, deaths, abandoned>>

(* The sending: it succeeds, or it fails, after the receiver got it or not. *)
(* A message goes out once; of a delivery every address may get a copy, and *)
(* what the last of them answers counts (secure_webhook_request).           *)
Copies(x) == IF x \in Messages THEN 1 ELSE Addresses

SendOut(w, copies, fine) ==
  /\ ~Idle(w) /\ worker[w].step = "claimed"
  /\ copies \in 0..Copies(worker[w].row)
  /\ fine => copies > 0
  /\ got' = [got EXCEPT ![worker[w].row] = @ + copies]
  /\ worker' = [worker EXCEPT ![w].step = "sent", ![w].fine = fine]
  /\ UNCHANGED <<message, event, delivery, deaths, abandoned>>

(* Mutant: a failed sending leaves the message as it is. *)
NoteMessageIfFine(w) ==
  /\ ~Idle(w) /\ worker[w].step = "sent" /\ worker[w].row \in Messages
  /\ message' = IF worker[w].fine THEN [message EXCEPT ![worker[w].row] = "sent"] ELSE message
  /\ worker' = [worker EXCEPT ![w].step = "noted"]
  /\ UNCHANGED <<event, delivery, got, deaths, abandoned>>

(* The outcome is saved, and then the event. *)
NoteMessage(w) ==
  /\ ~Idle(w) /\ worker[w].step = "sent" /\ worker[w].row \in Messages
  /\ message' = [message EXCEPT ![worker[w].row] = IF worker[w].fine THEN "sent" ELSE "unknown"]
  /\ worker' = [worker EXCEPT ![w].step = "noted"]
  /\ UNCHANGED <<event, delivery, got, deaths, abandoned>>

CloseEvent(w) ==
  /\ ~Idle(w) /\ worker[w].step = "noted"
  /\ event' = [event EXCEPT ![worker[w].row] = "processed"]
  /\ worker' = [worker EXCEPT ![w] = None]
  /\ UNCHANGED <<message, delivery, got, deaths, abandoned>>

NoteDelivery(w) ==
  /\ ~Idle(w) /\ worker[w].step = "sent" /\ worker[w].row \in Deliveries
  /\ LET d == worker[w].row IN
       delivery' = [delivery EXCEPT ![d].status =
         CASE worker[w].fine                       -> "delivered"
           [] delivery[d].attempts >= MaxAttempts  -> "failed"
           [] OTHER                                -> "retry"]
  /\ worker' = [worker EXCEPT ![w] = None]
  /\ UNCHANGED <<message, event, got, deaths, abandoned>>

(* A worker dies.  No code takes up a row that is left "sending". *)
DieSending(w) ==
  /\ ~Idle(w) /\ deaths < MaxDeaths
  /\ deaths' = deaths + 1
  /\ abandoned' = IF worker[w].step = "noted" THEN abandoned ELSE abandoned \cup {worker[w].row}
  /\ worker' = [worker EXCEPT ![w] = None]
  /\ UNCHANGED <<message, event, delivery, got>>

OutboxNext ==
  \/ \E m \in Messages : \/ AddEvent(m) \/ Cancel(m)
                         \/ \E together \in BOOLEAN : Queue(m, together)
                         \/ \E w \in Workers : Claim(w, m) \/ PassOver(w, m)
  \/ \E d \in Deliveries : \/ QueueDelivery(d)
                           \/ \E w \in Workers : ClaimDelivery(w, d)
  \/ \E w \in Workers : \/ NoteMessage(w) \/ CloseEvent(w) \/ NoteDelivery(w) \/ DieSending(w)
                           \/ \E copies \in 0..Addresses, fine \in BOOLEAN : SendOut(w, copies, fine)

WorkOn(w) ==
  \/ \E m \in Messages : Claim(w, m) \/ PassOver(w, m)
  \/ \E d \in Deliveries : ClaimDelivery(w, d)
  \/ \E copies \in 0..Addresses, fine \in BOOLEAN : SendOut(w, copies, fine)
  \/ NoteMessage(w) \/ CloseEvent(w) \/ NoteDelivery(w)

(* Celery starts both tasks again and again; a task takes what is there,    *)
(* the oldest first, and its calls time out.                                *)
OutboxFairness == \A w \in Workers : WF_outboxVars(WorkOn(w))

OutboxSpec == OutboxInit /\ [][OutboxNext]_outboxVars /\ OutboxFairness

-----------------------------------------------------------------------------
OutboxTypeOK ==
  /\ message \in [Messages -> {None, "queued", "cancelled", "sending", "sent", "unknown"}]
  /\ event \in [Messages -> {None, "waiting", "processed"}]
  /\ delivery \in [Deliveries -> {None} \cup
       [status : {"queued", "sending", "retry", "delivered", "failed"}, attempts : 0..MaxAttempts]]
  /\ got \in [Rows -> Nat]
  /\ worker \in [Workers -> {None} \cup
       [row : Rows, step : {"claimed", "sent", "noted"}, fine : BOOLEAN]]
  /\ deaths \in 0..MaxDeaths /\ abandoned \subseteq Rows

(* The copies that so many attempts post at most. *)
CopiesOf(attempts) == Addresses * attempts

(* Nobody gets a message twice, or one that was cancelled, whatever worker  *)
(* dies and whoever cancels; a message is "sent" only if it arrived, and a  *)
(* delivery "delivered" only if it did.  A receiver gets a delivery as often *)
(* as its attempts posted it, and it is given up after MaxAttempts.         *)
SentIsTrue ==
  /\ OutboxTypeOK
  /\ \A m \in Messages :
       /\ got[m] <= 1
       /\ message[m] = "sent" => got[m] = 1
       /\ message[m] \in {None, "queued", "cancelled"} => got[m] = 0
  /\ \A d \in Deliveries : delivery[d] # None =>
       /\ got[d] <= CopiesOf(delivery[d].attempts)
       /\ delivery[d].status = "delivered" => got[d] > 0
       /\ delivery[d].status = "failed" => delivery[d].attempts = MaxAttempts

Settled(x) ==
  \/ x \in Messages /\ message[x] \in {"sent", "unknown", "cancelled"}
  \/ x \in Deliveries /\ delivery[x] # None /\ delivery[x].status \in {"delivered", "failed"}

(* Whatever is queued with its event is settled in the end: sent, given up  *)
(* or marked for review, unless a worker died over it.                      *)
OutboxDrains ==
  /\ \A m \in Messages :
       message[m] = "queued" /\ event[m] = "waiting" ~> Settled(m) \/ m \in abandoned
  /\ \A d \in Deliveries : delivery[d] # None ~> Settled(d) \/ d \in abandoned

-----------------------------------------------------------------------------
Held(n) == \E w \in Workers : batches[w] # None /\ n \in batches[w].held
Pending(n) == reminders[n] # None /\ reminders[n].due /\ ~reminders[n].sent

(* What select_for_update(skip_locked=True) finds. *)
Waiting == {n \in Reminders : company /\ Pending(n) /\ ~Held(n)}

RemindersInit ==
  /\ reminders = [n \in Reminders |-> None]
  /\ company = TRUE
  /\ batches = [w \in Workers |-> None]
  /\ editors = [e \in Editors |-> None]
  /\ edits = 0 /\ crashes = 0
  /\ mails = [n \in Reminders |-> 0]
  /\ excused = {}

(* ReminderView.post *)
AddReminder(n) ==
  /\ reminders[n] = None /\ mails[n] = 0
  /\ \A e \in Editors : editors[e] # None => editors[e].reminder # n
  /\ reminders' = [reminders EXCEPT ![n] = [due |-> FALSE, sent |-> FALSE]]
  /\ UNCHANGED <<company, batches, editors, edits, crashes, mails, excused>>

(* Its time comes. *)
FallDue(n) ==
  /\ reminders[n] # None /\ ~reminders[n].due
  /\ ~Held(n)
  /\ reminders' = [reminders EXCEPT ![n].due = TRUE]
  /\ UNCHANGED <<company, batches, editors, edits, crashes, mails, excused>>

(* ReminderView.put reads the reminder ... *)
StartEdit(e, n) ==
  /\ editors[e] = None /\ edits < MaxEdits
  /\ reminders[n] # None
  /\ editors' = [editors EXCEPT ![e] = [reminder |-> n, row |-> reminders[n]]]
  /\ edits' = edits + 1
  /\ excused' = IF Held(n) THEN excused \cup {n} ELSE excused
  /\ UNCHANGED <<reminders, company, batches, crashes, mails>>

(* ... and saves it, moved to a later time or not, deleted meanwhile or not. *)
SaveEdit(e) ==
  /\ editors[e] # None
  /\ ~Held(editors[e].reminder)
  /\ \E later \in BOOLEAN :
       reminders' = [reminders EXCEPT ![editors[e].reminder] =
         [due |-> editors[e].row.due /\ ~later, sent |-> editors[e].row.sent]]
  /\ editors' = [editors EXCEPT ![e] = None]
  /\ UNCHANGED <<company, batches, edits, crashes, mails, excused>>

(* ReminderView.delete waits for the lock as well. *)
DeleteReminder(n) ==
  /\ reminders[n] # None /\ ~Held(n)
  /\ reminders' = [reminders EXCEPT ![n] = None]
  /\ UNCHANGED <<company, batches, editors, edits, crashes, mails, excused>>

(* The company is suspended, or active again. *)
SwitchCompany ==
  /\ company' = ~company
  /\ UNCHANGED <<reminders, batches, editors, edits, crashes, mails, excused>>

-----------------------------------------------------------------------------
(* dispatch_due_notifications locks a batch: all that wait, or BatchSize.   *)
TakeBatch(w) ==
  /\ batches[w] = None
  /\ \E batch \in SUBSET Waiting :
       /\ batch # {}
       /\ \/ batch = Waiting /\ Cardinality(batch) <= BatchSize
          \/ Cardinality(batch) = BatchSize
       /\ batches' = [batches EXCEPT ![w] = [held |-> batch, mailed |-> {}]]
       /\ excused' = excused \cup
            {n \in batch : \E e \in Editors : editors[e] # None /\ editors[e].reminder = n}
  /\ UNCHANGED <<reminders, company, editors, edits, crashes, mails>>

(* It mails one of them after the other ... *)
Mail(w) ==
  /\ batches[w] # None
  /\ \E n \in batches[w].held \ batches[w].mailed :
       /\ batches' = [batches EXCEPT ![w].mailed = @ \cup {n}]
       /\ mails' = [mails EXCEPT ![n] = @ + 1]
  /\ UNCHANGED <<reminders, company, editors, edits, crashes, excused>>

(* ... and commits the marks of all of them.                                *)
Commit(w) ==
  /\ batches[w] # None /\ batches[w].mailed = batches[w].held
  /\ reminders' = [n \in Reminders |-> IF n \in batches[w].held
                                       THEN [reminders[n] EXCEPT !.sent = TRUE]
                                       ELSE reminders[n]]
  /\ batches' = [batches EXCEPT ![w] = None]
  /\ UNCHANGED <<company, editors, edits, crashes, mails, excused>>

(* A worker dies: its transaction is rolled back. *)
Crash(w) ==
  /\ batches[w] # None /\ crashes < MaxCrashes
  /\ batches' = [batches EXCEPT ![w] = None]
  /\ crashes' = crashes + 1
  /\ excused' = excused \cup batches[w].mailed
  /\ UNCHANGED <<reminders, company, editors, edits, mails>>

RemindersNext ==
  \/ \E n \in Reminders : AddReminder(n) \/ FallDue(n) \/ DeleteReminder(n)
  \/ \E e \in Editors, n \in Reminders : StartEdit(e, n)
  \/ \E e \in Editors : SaveEdit(e)
  \/ \E w \in Workers : TakeBatch(w) \/ Mail(w) \/ Commit(w) \/ Crash(w)
  \/ SwitchCompany

RemindersWork(w) == TakeBatch(w) \/ Mail(w) \/ Commit(w)

(* The schedule runs the task again and again, and a worker that does not   *)
(* die goes on.                                                             *)
RemindersFairness == \A w \in Workers : WF_reminderVars(RemindersWork(w))

RemindersSpec == RemindersInit /\ [][RemindersNext]_reminderVars /\ RemindersFairness

-----------------------------------------------------------------------------
RemindersTypeOK ==
  /\ \A n \in Reminders : reminders[n] # None => reminders[n] \in [due : BOOLEAN, sent : BOOLEAN]
  /\ \A w \in Workers : batches[w] # None => batches[w].mailed \subseteq batches[w].held
  /\ \A w, v \in Workers : w # v /\ batches[w] # None /\ batches[v] # None =>
                             batches[w].held \cap batches[v].held = {}

(* A reminder is mailed once, by however many workers and batches, unless a *)
(* worker died after mailing it or an edit overlapped its batch.            *)
MailedOnce == RemindersTypeOK /\ \A n \in Reminders : mails[n] > 1 => n \in excused

(* A reminder that is due in a company that stays active is sent in the     *)
(* end, unless it is moved or deleted.                                      *)
RemindersGoOut ==
  \A n \in Reminders : Pending(n) ~> (~Pending(n) \/ ~company)

-----------------------------------------------------------------------------
(* The rows, and what is assumed of the constants.                          *)
DeliveryRows ==
  [status : {"queued", "sending", "retry", "delivered", "failed"}, attempts : 0..MaxAttempts]
WorkerRows == [row : Rows, step : {"claimed", "sent", "noted"}, fine : BOOLEAN]
OutboxConstants ==
  /\ MaxAttempts \in Nat \ {0} /\ Addresses \in Nat \ {0} /\ MaxDeaths \in Nat
  /\ Messages \cap Deliveries = {}
  /\ None \notin {"queued", "cancelled", "sending", "sent", "unknown", "waiting", "processed"}
  /\ None \notin DeliveryRows \cup WorkerRows

ReminderRows == [due : BOOLEAN, sent : BOOLEAN]
BatchRows == [held : SUBSET Reminders, mailed : SUBSET Reminders]
EditRows == [reminder : Reminders, row : ReminderRows]
RemindersConstants == None \notin ReminderRows \cup BatchRows \cup EditRows

=============================================================================
