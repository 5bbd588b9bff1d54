---------------------------- MODULE Subscriptions ---------------------------
(***************************************************************************)
(* The subscription of a company at the payment provider, and the status of *)
(* the company that follows it (src/apps/core/billing.py,                   *)
(* src/apps/core/tenant_views.py, src/apps/core/platform_views.py and       *)
(* src/apps/core/tasks.py).  The provider reports what happens to a         *)
(* subscription in events that may come late, twice and in any order.       *)
(* The staff of the platform set both statuses by hand, and the daily       *)
(* enforcement writes over subscriptions it has listed before; these two    *)
(* write in two statements and may die after the first.                     *)
(*                                                                         *)
(* Definitions commented "Mutant:" are mistakes for the properties to find. *)
(***************************************************************************)
EXTENDS Naturals, Sequences, Quantities

CONSTANTS
  Events,       \* events the provider sends: "activated", "authenticated", "pending", ...
  MaxEvents,    \* bound on the events of all subscriptions together
  MaxSubs,      \* bound on the subscriptions a company takes out
  Writers,      \* runs of the enforcement and requests of the staff under way at once
  None

VARIABLES
  sub,          \* the company's row: provider's id, status, whether its period is over
  tenant,       \* the status of the company
  provider,     \* the events of each subscription taken out, in order
  seen,         \* history: the number of the event applied last, 0 if none was
  writers,      \* both statuses that each writer sets, and the statement it is at
  torn,         \* history: two writes overlapped, one died, or an agreement came in
  written       \* history: someone else has written since an event was applied

subscriptionVars == <<sub, tenant, provider, seen, writers, torn, written>>

Statuses == {"created", "active", "authenticated", "past_due", "cancelled", "completed", "trial"}
TenantStatuses == {"trial", "active", "suspended", "cancelled"}

(* The states of process_razorpay_event; "halted" is treated as "pending". *)
StatusOf(event) ==
  CASE event = "activated" -> "active"
    [] event = "pending" -> "past_due"
    [] OTHER -> event

(* What a status makes of the company whose status is t. *)
TenantAfter(status, t) ==
  CASE status = "active" -> "active"
    [] status = "past_due" -> "suspended"
    [] status = "cancelled" -> "cancelled"
    [] OTHER -> t

Writing == \E w \in Writers : writers[w] # None
Subscribed == sub # None
Overdue == Subscribed /\ sub.over /\ sub.status = "active"

(* A company that signed up with a payment has a row from then on, under the *)
(* id of its order or payment, which is no subscription of the provider's.  *)
Bought == [id |-> 0, status |-> "active", over |-> FALSE]

SubscriptionsInit ==
  /\ sub \in {None, Bought}
  /\ tenant \in {"trial", "active"} /\ (Subscribed => tenant = "active")
  /\ provider = <<>>
  /\ seen = 0
  /\ writers = [w \in Writers |-> None]
  /\ torn = FALSE /\ written = FALSE

-----------------------------------------------------------------------------
(* SubscriptionView.post: the provider takes the subscription ... *)
Subscribe ==
  /\ Len(provider) < MaxSubs
  /\ provider' = Append(provider, <<>>)
  /\ UNCHANGED <<sub, tenant, seen, writers, torn, written>>

(* ... and its id is stored, over the one of an earlier subscription; a     *)
(* request that dies in between leaves one that nobody here knows.          *)
StoreSubscription ==
  /\ Len(provider) > 0
  /\ Subscribed => sub.id < Len(provider)
  /\ sub' = [id |-> Len(provider), status |-> "created", over |-> Subscribed /\ sub.over]
  /\ seen' = 0
  /\ written' = FALSE
  /\ torn' = (torn \/ Writing)
  /\ UNCHANGED <<tenant, provider, writers>>

(* Something happens to a subscription at the provider. *)
Happen(i, event) ==
  /\ i \in DOMAIN provider
  /\ Total([j \in DOMAIN provider |-> Len(provider[j])], DOMAIN provider) < MaxEvents
  /\ provider' = [provider EXCEPT ![i] = Append(@, event)]
  /\ UNCHANGED <<sub, tenant, seen, writers, torn, written>>

(* Mutant: the subscription is looked up by its company. *)
ReceiveAny(i, k) ==
  /\ i \in DOMAIN provider /\ k \in DOMAIN provider[i]
  /\ Subscribed
  /\ LET status == StatusOf(provider[i][k]) IN
       /\ sub' = [sub EXCEPT !.status = status]
       /\ tenant' = TenantAfter(status, tenant)
  /\ seen' = k
  /\ written' = FALSE
  /\ torn' = (torn \/ Writing)
  /\ UNCHANGED <<provider, writers>>

(* RazorpayWebhookView.post: any event, late and again, in a transaction    *)
(* that holds the subscription's row.  One that is unknown here is dropped. *)
Receive(i, k) ==
  /\ i \in DOMAIN provider /\ k \in DOMAIN provider[i]
  /\ Subscribed /\ sub.id = i
  /\ LET status == StatusOf(provider[i][k]) IN
       /\ sub' = [sub EXCEPT !.status = status]
       /\ tenant' = TenantAfter(status, tenant)
  /\ seen' = k
  /\ written' = FALSE
  /\ torn' = (torn \/ Writing)
  /\ UNCHANGED <<provider, writers>>

(* SubscriptionView.delete marks the row, and tells the provider nothing.   *)
(* The mark is read nowhere, so that it is left out.                        *)

(* The period of the row ends, that of the paid sign-up or one entered in the *)
(* admin pages.  No other code moves it on.                                 *)
PeriodEnds ==
  /\ Subscribed /\ ~sub.over
  /\ sub' = [sub EXCEPT !.over = TRUE]
  /\ UNCHANGED <<tenant, provider, seen, writers, torn, written>>

-----------------------------------------------------------------------------
Start(w, kind, status, t) ==
  /\ writers[w] = None
  /\ writers' = [writers EXCEPT ![w] =
       [kind |-> kind, step |-> 1, status |-> status, tenant |-> t]]
  /\ torn' = (torn \/ Writing)
  /\ UNCHANGED <<sub, tenant, provider, seen, written>>

(* enforce_subscription_statuses lists what is over ... *)
ListExpired(w) ==
  /\ Subscribed /\ sub.over /\ sub.status \in {"active", "past_due"}
  /\ Start(w, "enforce", "past_due", "suspended")

(* ... PlatformSubscriptionActionView.post reads the row and the company ... *)
(* (its get_or_create cannot create one: a row must have a plan, and none is *)
(* given).                                                                  *)
StaffAction(w) ==
  /\ Subscribed
  /\ \/ Start(w, "staff", "active", "active")
     \/ Start(w, "staff", "trial", "trial")
     \/ Start(w, "staff", "cancelled", "suspended")

(* ... and both write the status of the subscription, and then the          *)
(* company's.                                                               *)
WriteStatus(w) ==
  /\ writers[w] # None /\ writers[w].step = 1
  /\ sub' = [sub EXCEPT !.status = writers[w].status]
  /\ writers' = [writers EXCEPT ![w].step = 2]
  /\ written' = TRUE
  /\ UNCHANGED <<tenant, provider, seen, torn>>

WriteTenant(w) ==
  /\ writers[w] # None /\ writers[w].step = 2
  /\ tenant' = writers[w].tenant
  /\ writers' = [writers EXCEPT ![w] = None]
  /\ written' = TRUE
  /\ UNCHANGED <<sub, provider, seen, torn>>

DieWriting(w) ==
  /\ writers[w] # None
  /\ writers' = [writers EXCEPT ![w] = None]
  /\ torn' = (torn \/ writers[w].step = 2)
  /\ UNCHANGED <<sub, tenant, provider, seen, written>>

(* An agreement with the platform sets the company's status (module         *)
(* PlatformBilling).                                                        *)
Agree(t) ==
  /\ tenant' = t
  /\ torn' = TRUE
  /\ written' = TRUE
  /\ UNCHANGED <<sub, provider, seen, writers>>

SubscriptionsNext ==
  \/ Subscribe \/ StoreSubscription \/ PeriodEnds
  \/ \E i \in 1..MaxSubs, event \in Events : Happen(i, event)
  \/ \E i \in 1..MaxSubs, k \in 1..MaxEvents : Receive(i, k)
  \/ \E w \in Writers : \/ ListExpired(w) \/ StaffAction(w)
                        \/ WriteStatus(w) \/ WriteTenant(w) \/ DieWriting(w)
  \/ \E t \in {"trial", "active", "suspended"} : Agree(t)

WriteExpired(w) == writers[w] # None /\ writers[w].kind = "enforce" /\ WriteStatus(w)
EndWriting(w) == WriteTenant(w) \/ DieWriting(w)

(* The daily schedule runs the enforcement again and again, not every run   *)
(* dies, and none hangs.                                                    *)
SubscriptionsFairness ==
  \A w \in Writers :
    /\ SF_subscriptionVars(ListExpired(w))
    /\ SF_subscriptionVars(WriteExpired(w))
    /\ WF_subscriptionVars(EndWriting(w))

SubscriptionsSpec ==
  SubscriptionsInit /\ [][SubscriptionsNext]_subscriptionVars /\ SubscriptionsFairness

-----------------------------------------------------------------------------
SubscriptionsTypeOK ==
  /\ Subscribed => sub \in [id : 0..Len(provider), status : Statuses, over : BOOLEAN]
  /\ tenant \in TenantStatuses
  /\ seen > 0 => Subscribed /\ sub.id > 0 /\ seen <= Len(provider[sub.id])

(* When the last event of the present subscription was the last that        *)
(* arrived, and nobody else has written since, the row says what the        *)
(* provider says, whatever happened to earlier subscriptions.               *)
FollowsProvider ==
  Subscribed /\ seen > 0 /\ seen = Len(provider[sub.id]) /\ ~written =>
    sub.status = StatusOf(provider[sub.id][seen])

(* A company is active with an active subscription, suspended with one past *)
(* due, and shut out with one that was cancelled, unless two writes         *)
(* overlapped, one died, or an agreement said otherwise.                    *)
StatusesAgree ==
  Subscribed /\ ~torn /\ ~Writing =>
    /\ sub.status = "active" => tenant = "active"
    /\ sub.status = "past_due" => tenant = "suspended"
    /\ sub.status = "cancelled" => tenant \in {"cancelled", "suspended"}

StatusFollowsProvider == SubscriptionsTypeOK /\ FollowsProvider /\ StatusesAgree

(* A subscription whose period is over does not stay active.                *)
PeriodsAreEnforced ==
  Overdue ~> ~Overdue

-----------------------------------------------------------------------------
(* The rows, and what is assumed of the constants.                          *)
SubRows == [id : Nat, status : Statuses, over : BOOLEAN]
WriterRows ==
  [kind : {"enforce", "staff"}, step : {1, 2}, status : Statuses, tenant : TenantStatuses]
SubscriptionsConstants ==
  (\A event \in Events : StatusOf(event) \in Statuses) /\ None \notin SubRows \cup WriterRows

=============================================================================
