----------------------------- MODULE MCProcesses -----------------------------
(***************************************************************************)
(* Instances of Commands, of Outbox, whose two halves are two parts here,    *)
(* and of Subscriptions: what runs for ever, fails and is tried again.  They *)
(* share no row that their properties speak of: the run checks them side by  *)
(* side, one of them in each behaviour, which part says.                     *)
(*                                                                         *)
(* Commands has three clients: two of them, by mistake, number different    *)
(* commands with one key.  Each client may have several attempts under way  *)
(* at once.                                                                 *)
(***************************************************************************)
EXTENDS Commands, TLC

CONSTANTS c1, c2, c3, k1, k2, b1, b2,
          Notices, Editors, BatchSize, MaxEdits,
          Messages, Deliveries, MaxAttempts, Addresses, MaxDeaths,
          Events, MaxEvents, MaxSubs, Writers

MCClients == {c1, c2, c3}
MCKeys == {k1, k2}
MCBodies == {b1, b2}
MCKeyOf == c1 :> k1 @@ c2 :> k1 @@ c3 :> k2
MCBodyOf == c1 :> b1 @@ c2 :> b2 @@ c3 :> b1

VARIABLES
  part,
  reminders, company, batches, editors, edits, mailers, mails, excused,   \* of Outbox
  message, event, delivery, got, worker, deaths, abandoned,               \* of Outbox
  sub, tenant, provider, last, writers, torn, written                     \* of Subscriptions

reminderVars == <<reminders, company, batches, editors, edits, mailers, mails, excused>>
outboxVars == <<message, event, delivery, got, worker, deaths, abandoned>>
subscriptionVars == <<sub, tenant, provider, last, writers, torn, written>>
allVars == <<part, vars, reminderVars, outboxVars, subscriptionVars>>

Sending == INSTANCE Outbox WITH Reminders <- Notices, crashes <- mailers
Paying == INSTANCE Subscriptions WITH seen <- last

ASSUME OutboxAssumption == Sending!OutboxConstants
ASSUME RemindersAssumption == Sending!RemindersConstants
ASSUME SubscriptionsAssumption == Paying!SubscriptionsConstants

ProcessesInit ==
  /\ part \in {"commands", "reminders", "outbox", "subscriptions"}
  /\ Init /\ Sending!RemindersInit /\ Sending!OutboxInit /\ Paying!SubscriptionsInit
  /\ part # "subscriptions" => sub = None /\ tenant = "active"

(* A step of one part leaves the others alone. *)
CommandStep(A) == /\ part = "commands" /\ A
                  /\ UNCHANGED <<part, reminderVars, outboxVars, subscriptionVars>>
ReminderStep(A) == /\ part = "reminders" /\ A
                   /\ UNCHANGED <<part, vars, outboxVars, subscriptionVars>>
OutboxStep(A) == /\ part = "outbox" /\ A
                 /\ UNCHANGED <<part, vars, reminderVars, subscriptionVars>>
SubscriptionStep(A) == /\ part = "subscriptions" /\ A
                       /\ UNCHANGED <<part, vars, reminderVars, outboxVars>>

ProcessesNext ==
  \/ CommandStep(Next)
  \/ ReminderStep(Sending!RemindersNext)
  \/ OutboxStep(Sending!OutboxNext)
  \/ SubscriptionStep(Paying!SubscriptionsNext)

(* The fairness of each part.  In a behaviour the steps of one part only    *)
(* are enabled, so that the fairness of the workers of three parts can be   *)
(* said at once.                                                            *)
WorkerStep(w) ==
  \/ CommandStep(Work(w))
  \/ ReminderStep(Sending!RemindersWork(w))
  \/ OutboxStep(Sending!WorkOn(w))

ProcessesFairness ==
  /\ \A w \in Workers : WF_allVars(WorkerStep(w))
  /\ \A c \in Clients : WF_allVars(CommandStep(\E w \in Workers : Submit(c, w)))
  /\ \A w \in Writers :
       /\ SF_allVars(SubscriptionStep(Paying!ListExpired(w)))
       /\ SF_allVars(SubscriptionStep(Paying!WriteExpired(w)))
       /\ WF_allVars(SubscriptionStep(Paying!EndWriting(w)))

ProcessesSpec == ProcessesInit /\ [][ProcessesNext]_allVars /\ ProcessesFairness

(* The properties of the parts, for the run to name. *)
CommandsAnswered ==
  \A c \in Clients : part = "commands" /\ heard[c] = "nothing" ~> heard[c] # "nothing"
SentOnce ==
  /\ part = "reminders" => Sending!MailedOnce
  /\ part = "outbox" => Sending!SentIsTrue
StatusFollowsProvider == part = "subscriptions" => Paying!StatusFollowsProvider
WorkGetsDone ==
  /\ Sending!RemindersGoOut
  /\ Sending!OutboxDrains
  /\ Paying!PeriodsAreEnforced

=============================================================================
