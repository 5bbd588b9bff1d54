# A formal model of the Myraid workspace

The repository is a multi-tenant ERP for small manufacturers: a Django service
(`src/apps`, `src/config`) with one React-style front end per edition. Its heart
is the *reference workspace* (`src/apps/reference_erp`): one JSON document per
company, changed only by numbered commands that a pure engine applies. Around
it stand the tables of the ERP (`src/apps/erp`), an older CRM and the platform's
own services (`src/apps/core`), and a barcode ingest (`src/apps/inventory`).
This directory holds TLA+ modules for them, the TLC runs that check the modules,
and TLAPS proofs of what matters most.

How to run (inside this directory):

    tlc -workers 2 -config MCWorkspaceSales.cfg MCWorkspace.tla    # any run of PROJECT.json
    tlapm WorkspaceProofs.tla                                      # any module with theorems

## 1. Inventory

| Part | Source | State | Operations | What is hard | Modules |
|---|---|---|---|---|---|
| Workspace engine, order to cash | `reference_erp/engine.py` `apply` | opportunities, quotations, orders, jobs, dispatches, invoices, payments | lead, quote, order, job, job-split, job-update, dispatch, invoice, payment, cancel, convert, confirm | long legal command sequences; statuses that must follow jobs, shipping and billing; splitting | `Workspace`, `Fulfilment` |
| Workspace engine, stock | same | items, stock moves, purchases, recipes, inspections | item, stock, receive, bom, bom-explode, qc-inspection, the stock side of job-update and dispatch | entitlement read anew at every command; stock cut off at zero; rounding of material need; recipes that contain themselves | `WorkspaceStock`, `BillOfMaterials` |
| Workspace engine, money | same, `reporting.py` | expenses, payouts, payroll runs | expense, payout, payroll, payroll-finalize | payouts settle expenses and payroll; nothing may be settled twice | `Settlements` |
| Command execution | `reference_erp/views.py` `CommandsView`, `importer.py` `initialize` | tenant row lock, receipts, records | one POST per command | retries, crashes, two workers, one request id used twice | `Commands`, `ExactlyOnce` |
| Team | `reference_erp/team.py`, the user commands of `views.py`, `platform_views.py` | memberships, role assignments, invitations, seats | invite, resend, revoke, accept, change role, switch a member on or off | seats counted at one time and taken at another; tokens superseded by newer ones | `Team` |
| Platform billing | `reference_erp/platform_views.py` | tenant charges and payments, trial/complimentary/paid/suspended modes | configure, create due charges, record payment | retries of payments, months billed once | `PlatformBilling` |
| ERP documents | `erp/services.py`, `erp/views.py`, `erp/documents.py` | documents, lines, approvals, allocations, receipts, cached prints | post, convert, approve, void, credit, pay, archive, print | version checks, remaining quantities, reads without lock, files beside rows | `Documents`, `PrivateFiles` |
| Work orders | `erp/views.py` `JobViewSet` | a job and its stages | create, edit, transition, stage, archive | a stale archive request | `WorkOrders` |
| Stock ledger | `erp/inventory.py` | movements, balances, bins, reservations, counts | move, transfer, reserve, release, dispatch, count, reverse | partial consumption, stale counts, double reversal | `StockLedger` |
| Payroll and leave | `erp/workforce.py`, `erp/views.py` | pay run, its inputs and their hash, loans, leave requests | calculate, approve, finalize, pay; ask, review, cancel, archive | inputs change after approval; leave beside fixed months | `PayrollRuns`, `Leave` |
| Outbox, webhooks, schedules | `erp/tasks.py`, `erp/signals.py`, `core/tasks.py` | communications, outbox events, deliveries, recurring expenses, reminders, scheduled reports | dispatch, send, retry, generate | a worker that dies between two transactions, tasks that overlap | `Outbox`, `Recurring`, `PrivateFiles` |
| One-time passwords | `erp/otp.py` | challenges, attempts, cache counters | request, verify | counting inside a transaction that rolls back | `SignIn` |
| Razorpay billing | `core/billing.py`, `core/tenant_views.py`, `core/platform_views.py`, `core/tasks.py` | subscriptions, tenant status | subscribe, webhook, staff action, nightly enforcement | events late, repeated or out of order | `Subscriptions` |
| Generated files | `core/r2_storage.py` | object store and rows about it | build, upload, clean up | two stores without a common transaction | `GeneratedFiles` |
| Sessions and access | `core/auth_views.py`, `core/services.py`, `core/signals.py`, `core/rbac_views.py` | refresh tokens, password, roles, permission cache | login, refresh, logout, change or reset password, assign, revoke | rotation races, stale cache | `Sessions`, `Access` |
| Legacy CRM | `core/crm_views.py`, `core/models.py` | leads, clients, deals, quotations, orders, advances, drawings, reminders | CRUD, convert, place order, pay, review | handlers of many statements, saves of whole rows read earlier | `Crm`, `Forms`, `Drawings`, `Outbox` |
| Barcode ingest | `inventory/views.py` | stock rows, scan ledger | one batch | row locks taken one by one | `Scans` |
| Onboarding and sign-in | `core/google_auth.py`, `core/onboard_views.py`, `erp/onboarding.py` | users, companies, invitations, payment orders | Google sign-in, sign-up, paid sign-up, invite, accept | requests that find or create the same user; money taken before the company is there | `Accounts`, `PaidSignup` |
| Installation, sample data, upgrade | the management commands of `core` and `erp`, data migrations | catalogue, schedules, first company; seeded rows; migrated history | bootstrap, purge, seed, import, upgrade | commands run again beside people who work | `Installation`, `Upgrade` |
| Attachments, request infrastructure, configurations and pages of the ERP, admin, serializers, configuration, migrations, front ends | `attachments.py`, `storage_views.py`, `middleware.py`, `configuration.py`, `workspace.py`, `*/admin.py`, `*/serializers.py`, `config/` | none whose order matters | read, check, format | nothing that a state machine decides | – |

How the parts meet: every workspace command goes through `CommandsView.post`,
which authorizes it, locks the company's row (`Tenant`), loads all records,
calls `engine.apply` and writes the changed records and a receipt in one
transaction. Team, platform billing and importer lock the same row. ERP
documents, the stock ledger, work orders, leave and payroll are separate tables
under the same row lock, except that archiving reads before it locks; the
outbox is written in their transactions and emptied by Celery tasks, which take
no company lock. The older CRM takes row locks in some handlers and none in
others. Files live in an object store or on a private disk beside rows about
them. Access is decided by membership and role, cached for 30 seconds. What
each part must guarantee is listed in section 3 as the properties that are
checked, and in `PROJECT.json` under `hazards`.

## 2. Plan

The modules were written in this order, the most important behaviour first.
All of them are here; section 6 says what is left out and why.

| # | Modules | Composes or refines | Properties | Proofs |
|---|---|---|---|---|
| 1 | `Workspace` | refines `Fulfilment` | quantities, statuses, billing of orders | all safety and the refinement, `WorkspaceProofs` |
| 2 | `Commands` | refines `ExactlyOnce` | exactly once, no lost update, every command answered | all safety and the refinement, `ProcessesProofs` |
| 3 | `WorkspaceStock`, `BillOfMaterials` | extends `Workspace` | stock and its moves, explosion of recipes | all: `WorkspaceProofs`, `LedgersProofs` |
| 4 | `Settlements` | uses `Quantities` | payouts, operating statement | both, `LedgersProofs` |
| 5 | `Team`, `Accounts`, `SignIn`, `Sessions`, `Access` | composed in `MCTeam` | seats, roles, links, accounts, codes, tokens, cache | all safety, `TeamProofs`, `PeopleProofs` |
| 6 | `PlatformBilling` | uses `Quantities` | charges and payments | both, `PeopleProofs` |
| 7 | `Documents`, `PayrollRuns`, `Leave`, `WorkOrders`, `Recurring` | composed in `MCErp` | conversions, approvals, payroll, leave, jobs, due dates | all safety, `ErpProofs` |
| 8 | `StockLedger`, `PaidSignup` | composed with `Settlements` in `MCLedgers` | reserved stock, counts, reversals; paid orders | all, `LedgersProofs` |
| 9 | `Outbox`, `Subscriptions` | composed with `Commands` in `MCProcesses` | at most once, statuses, liveness | all safety, `ProcessesProofs` |
| 10 | `Crm`, `GeneratedFiles`, `Drawings`, `Scans`, `Forms` | composed in `MCCore` | sold once, balances, files, scans, lists | all, `CoreProofs` |
| 11 | `Installation`, `Upgrade`, `PrivateFiles` | composed in `MCCore` and `MCErp` | commands run again; prints and reports; the installation | all: `ErpProofs`, `CoreProofs` |

Every module that is proved about is written without RECURSIVE operators; sums
are the operator `Total` of `Quantities`, a cardinality of a set of units, for
which `QuantityTheorems` proves the laws of addition.

Every safety property and action property that a passing run checks is a theorem
(section 5); liveness is model-checked. Worth doing next, were the project to
grow: the status boards of the older CRM, the valuation of stock, and an abstract
specification of the sign-up that `PaidSignup` implements.

## 3. Modules and code

Common conventions. One action is one *accepted* command, request handler or
step of a handler; a command that is refused raises an error and changes
nothing, so its refusal is a guard. A handler that runs wholly under the
company's row lock is one step, with everything it calls (the status
synchronisation after a job command, the automatic first job of a confirmed
order, the winning of a lead). A handler that reads before it locks, or takes no
lock, has a step for the read and one for the write; one that commits statement
by statement has a step for each and may die between any two. `save()` without
`update_fields` writes every column as it was read and inserts the row again if
it is gone. Ids, names and texts are model values; money and quantities are
natural numbers. Variables named *raced*, *torn*, *excused*, *late*, *confused*
and the like are history: they record that two requests overlapped in a way the
code does not guard against, so that a property can promise everything else and
name exactly those exceptions (the observations of section 6 list them).
Definitions whose comment begins with "Mutant:" are what a plausible mistake
would make of the definition after them; no specification uses them, they show
that each property notices a mistake. `PROJECT.json` maps every definition to its
source lines.

### `Workspace`: orders, jobs, shipping, billing (`reference_erp/engine.py`)

State: `lead`, `quote`, `order`, `job`, `jobQty` are the rows of the collections of
that name; `shipped` is the sum of an order's dispatch rows, `invoice` the order
of an invoice and `paid` the sum of its payment rows. Actions: `NewLead`,
`UpdateLead`, `NewQuote`, `SendQuote`, `CloseQuote`, `ConvertQuote`,
`NewDraftOrder`, `NewConfirmedOrder`, `ConfirmOrder`, `CancelOrder` (sales),
`AddJob`, `SplitJob`, `UpdateJob` (production), `Dispatch`, `CreateInvoice`,
`RecordPayment` (billing). `SyncedStatus` is `sync_order`, called with the rows as
the command leaves them.

A workspace begins with a copy of the legacy documents (`importer.py` `initialize`),
whose rows need not fit together: orders confirmed, completed or cancelled with any
dispatches beside them, several invoices of one order, and jobs without a quantity,
each of which counts as the whole order (`engine.py:204`). `Init` is every such
workspace (`ImportedSales`, `ImportedWork`, `ImportedBills`). What the commands see to
on their own is claimed of `Own` orders, those taken here; whatever holds of imported
ones as well is claimed of all.

- `NoPieceLost`: of an order taken here, `QuantityChain`, shipped ≤ completed ≤ planned ≤
  ordered (splits, late reports and partial dispatches come between the checks that
  each command makes of its own part), and `WholeOrderPlanned`, the jobs of an order
  confirmed here always add up to the order. Neither holds of an imported order.
- `StatusTruthful`: the stored order status, written by nine commands, agrees with
  the shipping, billing and job rows it summarises: of an order taken here in both
  directions, of an imported one that "In production", "Ready to dispatch", "Partially
  dispatched" and "Dispatched" are true when they are said.
- `NeverStuck`: an order confirmed here has, until it is completed, a command
  that advances it.
- `CancelledIsInert`, `BilledOnce`, `QuoteConvertedOnce`, `NothingGoesBack`: what
  cancellation, the three commands that create invoices, conversion and the
  stages of sales and orders may never do. No order is billed here that is billed
  already, by an imported invoice or one of its own; no imported quotation that
  became an imported order is converted again.
- `ImplementsFulfilment`: each step is a step of `Fulfilment` under the mapping
  made ↦ completed quantity, sent ↦ shipped, received ↦ paid, for the orders taken
  here.

Of the import, `Init` leaves out what no order-to-cash command can use: documents of
several lines or of a broken quantity, whose rows are `read_only` and which a command
may not name (`views.py:162`); jobs, dispatches and invoices without an order of the workspace
(an invoice drawn from a dispatch is one, since only an order is kept as its source). Nor
are purchases and stock moves brought over: the items of `WorkspaceStock` are entered
with their opening stock.

### `WorkspaceStock`, `BillOfMaterials`: the same commands with stock

`WorkspaceStock` extends `Workspace`: every action conjoins the order-to-cash action
with its effect on `stock`, the recorded stock moves (`moved`, their sum), the recipe
(`bom`), the material each job plans (`planned`) and purchases. `entitled` is the
flag that `get_state` reads anew for every command; it flips between any two.
`LedgerWithinStock`: the recorded moves of an item never add up to more than its
stock. `LedgerExplained`: while the entitlement lasts, a command's recorded moves
are exactly what it made, received, shipped or consumed. Every step is
one of `Workspace` or leaves its rows alone by the shape of the module, so the
invariants of `Workspace` carry over.
`BillOfMaterials` is the pure algorithm `bom_explode`: for every set of recipes over
three items that can be entered in some order, loops included, it is compared with
a reference that replaces items level by level (`ExplosionAddsUp`, in the run `ledgers`).

### `Commands`: one POST (`reference_erp/views.py`, `importer.py`)

Workers go through `idle → received → authorized → locked → applied → finished`;
`log` is the sequence of committed effects, `receipts` what is stored with them,
`seen` the length of the log that a worker read. `Crash` stops a worker anywhere:
an open transaction is rolled back and its lock released; after the commit the
client just gets no answer. `Open` is the page load that may run the one-time
legacy copy as well. Properties: `NoLostUpdate`, `ReceiptsTell` (applied once,
copied once, answers are true), `CommandsAnswered` (liveness) and
`ImplementsExactlyOnce`. A refusal says nothing of the future: a duplicate of a
refused attempt may still commit, which `ExactlyOnce` therefore allows.

### `Settlements`: expenses, payroll, payouts, statement (`engine.py`, `reporting.py`)

`NothingSettledTwice` relates payout rows to the expense or payroll run they
name; `StatementReconciles` says that the cash, cost and payable figures, which
`build_statement` derives by three different rules from the same rows, satisfy
one accounting identity in every reachable state. GST shares drop out of the
identity; salaries change between runs.

### `Team`: members, roles, invitations (`team.py`, `views.py`, `platform_views.py`, `core/auth_views.py`)

State: membership with the administrator flag, active role rows, invitations with
the number of their newest link, the outbox message that carries each link, the
link a person has open, and the sign-ups that counted the seats already. `Doors`
switches on the entrances outside the team screens (sign-up, e-mail
invitation, platform administrator), which take no lock. `SeatsWithinPlan` and
`RolesAgree` are promises of the team screens and are checked with the other doors
closed, because those doors do not keep them (see observations);
`InvitationsEndOnce` there, and `OpenDoorsKept` (one role each, queued links are
current) in a second instance with every door open.

### `PlatformBilling`: agreements, charges, payments (`platform_views.py`)

`company` is the agreement, `charge` the amount of each month, `view` what a billing
page has read without a lock. Charges appear only when someone looks.
`ChargesAgreedAndPaidOnce`: whatever page creates a charge, its month and price
belong to an agreement that was in force at some time (`agreements` is a history
variable), and payments entered for a charge stay within it.

### `Documents`: the ERP's commercial documents (`erp/services.py`, `erp/views.py`)

`doc` holds kind, status, quantity, source, order, paid amount, version and the
archived flag; `revenue` is the sum of revenue facts; `archiving` is the row that an
archive request has read and will write back. Actions: `Create`, `Edit`,
`StartArchive`/`FinishArchive`, `Submit`, `Approve`, `Reject`, `Post`,
`AcceptQuotation`, `ReviseQuotation`, `Convert`, `Void`, `RecordPayment`, `VoidPayment`.
`LinesNotOverdrawn` (no line is dispatched, received, credited, returned or invoiced
beyond its quantity, along either path from an order to an invoice),
`PostedAsApproved`, `InvoicesAddUp` (revenue within the order, paid is settled);
`PostedNeverArchived` is violated (findings).

### `PayrollRuns`, `Leave`, `WorkOrders`, `Recurring` (`erp/workforce.py`, `erp/services.py`, `erp/views.py`, `erp/tasks.py`)

- `PayrollRuns`: `CreateRun`, `Calculate`, `Approve`, `Finalize`, `PaySalary` over attendance,
  staff and loans that `EditAttendance`, `EditStaff`, `AddLoan`, `EditLoan` change. The hash
  of the inputs is modelled by the inputs themselves (versions that only grow). Loans and
  runs inherit the archive that reads without the lock and writes the whole row back
  (`StartArchiveRun`/`FinishArchiveRun`, `StartArchiveLoan`/`FinishArchiveLoan`).
  `DeductionsReachLoans`: a loan got back exactly what finalized months deducted, unless it
  was archived by a request that had read it before such a month took its instalment; a
  finalized month stays final unless it was archived in that way, and then no run takes
  its place. The edits of a draft run's month and branch are left out;
  `FinalizedAsOfNow`: what is finalized is what a calculation would give at that
  moment, although another month may have taken the same loan in between.
- `Leave`: ask, edit, approve, reject, cancel under the lock, `StartArchive`/`FinishArchive`
  around it, beside holidays, the allowance and `FixMonth`. `LeaveFitsPayroll`: no shared
  dates, paid days within the allowance, and the leave of a finalized month stays
  what it was but for three ways that the module names.
- `WorkOrders`: `Transition`, `Quantity`, `RecordStage` and a stale archive. `WorkReportedTruly`:
  a completed job completed every stage, a closed one stays as it was closed.
- `Recurring`: people who hold the company's lock against daily tasks that read a
  template, create expenses one transaction at a time and write the whole row
  back, and stale archives of the template. `SetDue` edits the next due date, `MoveDraft` the
  date of a draft expense, by which `get_or_create` looks it up. `NoDueDateSkipped`: the
  template never passes a date without its expense, but for dates that a person set
  it past, or moved a draft from or to.

### `Upgrade`, `PrivateFiles` (`upgrade_to_erp.py`, `erp/documents.py`, `erp/tasks.py`)

- `Upgrade`: the command as `ConvertQuotes`, `ConvertOrders`, `AbortUpgrade` (one transaction that
  reads quotations first and orders later), beside `Quote`, `OrderOld` in the old screens
  and `Accept`, `Revise`, `Issue`, `Sell`, `SettleSale` in the new ones. `HistoryCarriedOnce`: no
  document, a revision included, has both a carried order and a live one of its own, and
  what was sold is accepted. It does not speak of an agreement: a revision is a document
  of its own, and can be sold beside the order carried over from the original (section 6).
- `PrivateFiles`: prints are cached by (document version); `AskPrint`, `ServeCached`,
  `Compose`, `Register` and `DiePrinting` are the statements of the view, beside edits, posting and
  a stale archive. `PrintsAreCurrent`: a print is never older than what the document
  said when it was asked for. Scheduled reports: `RunSchedule` (the unique execution
  of a day), `CheckOwner`, `WriteReport`, `Complete`, `TellRecipient`, `FailReport`, `EndRun` (an end
  or a death). `ReportedOnce`: one report a day, and nobody is told of one that is
  not there.

### `StockLedger`, `PaidSignup` (`erp/inventory.py`, `erp/services.py`, `core/onboard_views.py`)

- `StockLedger`: `PlainMove`, `Transfer`, `Reverse`, `Reserve`, `Release`, `Dispatch`, `Relocate`, `OpenCount`,
  `EnterCount`, `PostCount`. `BooksAgree`: reserved stock is there and is what open
  reservations hold, bins add up, a balance is the sum of the movements that still
  stand. `CountsSetStock`: a posted count leaves exactly what was counted.
- `PaidSignup`: `Offer`, `Pay`, `Prove`, `AddUser`, `AddSubscription`, `Welcome`, `Commit`, `ProofDies`,
  `JoinElsewhere`. `Keys` are what a subscription can be kept under: the id of the order
  or, when the request names no order, that of its payment. An id founds one company,
  who is welcomed under it has one, and a buyer is refused only for the reasons named.
  A payment has two ids and may found a company under each (observations).

### `Outbox`, `Subscriptions` (`erp/tasks.py`, `core/tasks.py`, `core/billing.py`)

- `Outbox`: a row is claimed under its lock, sent outside of any transaction, and the
  outcome noted in another one; `DieSending` is a worker's death. `SentIsTrue`: nothing
  is sent twice or after it was cancelled, "sent" only if it arrived. A webhook is
  posted to one address of its receiver after the other until one of them answers 2xx,
  so a receiver gets a delivery at most `Addresses` times in each of its attempts. `OutboxDrains` (liveness): what is queued is settled, unless
  a worker died over it.
  The reminders of the older CRM stand in the same module: batches locked with SKIP
  LOCKED, mails that stay out when the marks are lost. `MailedOnce` and
  `RemindersGoOut` (liveness).
- `Subscriptions`: `Happen` at the provider, `Receive` in any order and twice, `StaffAction`,
  the daily enforcement as `ListExpired`, `WriteStatus`, `WriteTenant`; a company that signed up
  with a payment starts with a row (`Bought`). `StatusFollowsProvider`, and
  `PeriodsAreEnforced` (liveness).

### `Accounts`, `SignIn`, `Sessions`, `Access` (`core/google_auth.py`, `erp/otp.py`, `core/auth_views.py`, `core/rbac_views.py`, `core/services.py`, `core/signals.py`)

- `Accounts`: each request is a transaction that finds its user among committed rows,
  writes, waits for the unique values of others, checks and commits. `AccountsHold`:
  a Google id is kept, a user founds no second company before his memberships have
  ended (`EndMembership`), the last invitation is accepted once, each unless requests
  overlapped.
- `SignIn`: request and verification step by step; what a verification writes is lost
  when it ends in an error, the cache counter stays. `CodesHold`.
- `Sessions`: refresh as check, refuse and issue; password changes as read and save.
  `SessionsHold`: one good token per login, links work once.
- `Access`: the signals clear the cache before a commit or after a statement.
  `AccessFollowsRoles`: the entry is what the database holds, the administrator flag
  is the role, but for the windows the module names.

### `Crm`, `Forms`, `Drawings` (`core/crm_views.py`)

- `Crm`: `reqs` holds the rows that a handler under way has read; `PlaceOrder`,
  `ReadForPayment`, `WriteAdvance`, `SaveOrder`, `WriteBalance` and the others are its statements, `Die`
  its death. `SoldOnce`: one deal for a lead, one order for a deal and a quotation,
  numbers distinct. `BalanceExplained`: total less payments, unless requests
  overlapped or one died.
- `Forms`: the contacts of the lead and the client form, and the lists of products of a
  quotation; one transaction per request, with the rows it locks, statement by
  statement. `ContactsOfOneEdit`, `LeadConvertedOnce`, `QuotationsWhole`: a copy has all its
  products, each with all its parts, unless it was taken while somebody wrote the
  quotation, or from such a copy.
- `Drawings`: `ShownInOwnOrder`, through orders deleted and placed again.

### `GeneratedFiles`, `Scans`, `Installation` (`core/r2_storage.py`, `inventory/views.py`, management commands)

- `GeneratedFiles`: `Build`, `Upload`, `Record`/`Insert` against `StartSweep`, `RemoveObject`, `MarkRow`.
  An upload whose put fails leaves a local copy and counts as stored (`local`).
  `LinksHaveFiles`: a link is given out only for a file that is in the store, or on the
  local disk if its put failed; that link then leads nowhere (section 6).
- `Scans`: a batch locks one stock row after the other (`UpdateRow`, `EndUpdate`): skus in their
  order, the rows of one sku in any. `ScansAddUp`: stock is the sum of the ledger, and
  some batch can go on unless two of them hold rows of the one sku whose UPDATE they
  are in. That is what the order of `views.py:46` gives; where a sku has one row only,
  as its comment assumes, deadlocks are impossible. Scanned quantities may be
  negative: a sum is one of `Total` less another.
- `Installation`: bootstrap, sign-ups, purges and migrations in any order.
  `InstallationHolds`: the catalogue is empty or whole, owners have all of it, schedules
  are as wanted, but for the exception below.
  The sample data stands in the same module: seeding, reset and import beside
  people. `SamplesHold`: order numbers are distinct, a reset takes no order numbered
  before the seeded one.

### `Fulfilment`, `ExactlyOnce`, `Quantities`, `QuantityTheorems`

The two abstract specifications, `Fulfilment` of the orders taken here and `ExactlyOnce` of
commands; `Total(f, S)`, the sum of a function over a
finite set; and its laws.

### The MC modules

Parts that share no row are checked in one run: a variable `part` says in the
initial state which of them a behaviour runs, the variables of the others keep one
value (`None`, or their first state), and every property begins with `part = ... =>`.
The state space of such a run is the sum of its parts', not their product, and
nothing is lost, since no property speaks of two of them. `OfficeRecordsHold`,
`BooksAgree` (payouts, stock and paid orders), `FilesDrawingsAndScansHold`,
`ListsAndSetupWhole`, `CodesAndSessionsHold` and `WorkGetsDone` are conjunctions, one conjunct for each part.

## 4. Runs, bounds, fairness

| Run | Parts and bounds | Why they are enough |
|---|---|---|
| `workspace_production` | one order made here, one imported of any status with dispatches, quantity ≤ 3, 3 jobs of which any may be imported, an imported invoice and one more | two splits of one job, partial completion and two partial dispatches: the shortest sequences in which planned, made and shipped all differ; billing an order whose first invoice was imported; 764 910 states |
| `workspace_sales` | lead, two quotations, one of them imported in any status, two orders competing for them, 2 jobs, an invoice, amounts ≤ 2 | conversion against direct orders, an imported quotation converted, part payments, refinement; 276 246 states |
| `workspace_stock` | nothing imported, one order, product and material, 1½ units of material per piece, one purchase | truncation of material, stock cut off at zero, entitlement switching |
| `processes` | commands: 2 workers, 3 clients (two share a key with different bodies), 1 crash; 2 reminders in batches of one; a message and a delivery, 2 attempts, 1 death; 2 subscriptions, 2 events, 1 enforcement | every race of two attempts or workers, a death in each place; safety, refinement and liveness |
| `team` | 2 people and 2 seats by the screens, 1 person and 2 links by every door; 2 months of billing; 2 users, 2 addresses, 3 requests; 2 codes, 2 askers, 2 verifiers; 3 tokens, 2 clients; 2 assignments, 2 changers, 1 reader | last seat taken twice, superseded links, stale pages, two requests that meet at every step |
| `ledgers` | money: 2 expenses, 3 payouts, 2 runs, amounts ≤ 2; stock: 2 warehouses, 2 bins, 3 movements, 1 reservation, 1 count; 3 forms for an order and its payment; recipes over 3 items | three part payments of two; reverse a reversal; a count opened before a movement; namesakes and shared phones; loops of one, two and three |
| `erp` | 4 documents, quantity ≤ 2, one approval, one payment; 2 months, 1 loan, 1 edit, 1 archive; 3 due dates, 2 tasks, 1 date by hand; 2 leave requests, 3 dates in two years; 2 stages; 2 old quotations, 1 revision; 3 versions, 2 readers; 2 days, 2 runs of the schedule | an order drawn by a dispatch, its invoice and a direct invoice; a loan taken by two months; overlapping tasks; leave over a month's end |
| `core` | 1 lead, 2 deals, 2 quotations, 2 orders, 2 advances, 2 requests; 3 keys, 2 builders; 2 reviews; 2 batches over 3 stock rows; 2 forms; 2 copies; catalogue of one sales and one other code; 3 orders | every pair of statements of two handlers, with a death between any two |

Each bound leaves room for one more than the hazard needs (two workers for a
lost update, two invoices for double billing, a quantity of three for an
unequal split). Where a run has no liveness property SYMMETRY is used for some of the
ids that are interchangeable (in `workspace_production` and `workspace_sales`: jobs, and
the orders and invoices that are not imported). `MaxCrashes`, `MaxDeaths`, `MaxLinks`, `MaxVersion`,
`MaxChanges`, `MaxEdits`, `MaxArchives`, `MaxByHand`, `MaxEntered`, `MaxMonth`, `LastDate`, `LastVersion`, `MaxMoves`,
`MaxHand`, `MaxEvents`, `MaxSubs`, `MaxRequests`, `MaxTries`, `MaxPassword`, `MaxScans`,
`MaxWritten`, `MaxProducts`, `MaxOrders`, `MaxOthers`, `MaxParts` and `Deficit` are the bounds that are not
limits of the program; each only stops an action. Deadlock is not checked: ids
and bounds run out and the models then really stop.

Fairness appears in `processes` only, said once for the workers of three parts,
since in one behaviour only one part's steps are enabled.

- `WF` of a worker's step: a server process or a Celery worker that can take its
  next step does, PostgreSQL grants a row lock to a waiter, the tasks are
  started again and again by the beat schedule and their calls time out. A
  worker that waits for the lock is not enabled until it is free; with finitely
  many commands no stronger fairness is needed.
- `WF` of a client's `Submit`: a client without an answer sends again, as the front
  end's retry under the same request id does.
- `SF` of the daily enforcement's listing and first write: it runs every day, and not
  every one of its runs dies or is overtaken; `WF` of its end: none hangs.

Crashes and deaths are never fair and are bounded.

Findings, each the single property of a run that TLC must refute:

- `materials_per_piece`: splitting a job copies the material planned for the
  whole job, so both parts consume it.
- `team_pending`: pending invitations hold no seats, although the approved
  workflow counts them.
- `posted_archived`: archiving reads a draft without the lock and writes the whole
  row later; posted in between, an invoice is archived with its revenue.
- `payroll_stuck`: an approved payroll run whose inputs changed is told to
  recalculate, which is refused, and nothing reopens it.

## 5. Proofs

TLAPS checks them for all values of the constants that satisfy the named
assumptions: finite sets of rows, natural bounds, amounts within them, `None` no row.
They are ASSUMEs of the module (`Workspace`, `WorkspaceStock`, `Settlements`, `Team`,
`Commands`, `Documents`) or, for a module that is instantiated, an operator such as
`LeaveConstants`, which the composing module assumes of its instance; TLC evaluates
them all. Nothing is assumed about the number of jobs, workers, retries or crashes.

What an inductive invariant needs beside the properties stands in the proof module,
before the lemmas about it ("What the proofs about ... need beside its properties"):
TLC checked it as an invariant on the instances before it was proved. The rows that a
type invariant speaks of, and what is assumed of the constants, stand at the end
of the module that is proved about. A theorem about
a composed run is the conjunction over its parts of a lemma that one part keeps its
invariant while the behaviour runs that part, and its rows otherwise.

**`WorkspaceProofs`.** The properties are not inductive one by one: dispatching is
safe because of what was completed, completing because of what was planned, and
cancelling because nothing was begun. `WorkspaceInv` joins type correctness,
`QuantityChain`, `WholeOrderPlanned`, `CancelledIsInert` and `BilledOnce` with three facts
that no property states: every job belongs to an existing order
(`JobsHaveOrders`), only existing invoices have payments
(`PaymentsHaveInvoices`), and an imported invoice bills an imported order
(`ImportsAreBilled`; an order taken here is therefore billed here or not at all). All is
proved from every `Imported` set of rows; that an order taken here starts with nothing is
`OwnUntouched`. The step lemma goes by the kind of change: `SplitTotals`,
`AddedTotals`, `UpdateTotals` and `CancelTotals` say what each job command does to the
sums, with the laws of `QuantityTheorems`; `NumbersStep` then handles the numbers,
`CancelledStep` and `BilledOnceStep` the rest.

What the stored status says is proved over that: `StatusInv` adds to `WorkspaceInv` the
two halves of `StatusTruthful`, `QuoteConvertedOnce`, and the fact that every job stands
for at least one piece (`JobsHaveQty`). Without the last one a job of nothing could be
open while the completed ones already cover the order, and "In production" would not
mean that pieces are missing (`TotalOfAll`: rows that add up to the whole total are all
the rows). `SyncShown` and `SyncDescribes` say once what `sync_order` does, for all
commands that end in it. `NeverStuck` then needs no induction of its own: an invoiced
order with no open job and nothing left to ship has shipped everything
(`WholeOrderPlanned`, `QuantityChain`), so its status is Completed. `WorkspaceRefines`
gives one lemma to each abstract step (`PromiseAgree` ... `PromiseReceive`: what a
command must do to one order, and leave alone on the others) and one to each kind of
command: confirming again, splitting, adding and reporting without completing are
stutters, and a report makes exactly what its job stands for (`ReportedTotals`).

With stock, every command is a command of `Workspace` or leaves the order-to-cash rows
alone (`StockStepKinds`), so all of the above carries over. `LedgerWithinStock`
is inductive over `WorkspaceInv` because stock is cut off at zero and the ledger is not
(`MoveStockWithin`). `StockLedgerExplained` is about steps: what a command adds to the
ledger is what it says of jobs, purchases and dispatches, added up before and after;
`MadeOf`, `BoughtOf`, `ShippedOf` and `UsedOf` name the four sums and `TotalChange` and
`TotalJoin` say how each command moves one of them.

**`ProcessesProofs`.** `CommandsInv` adds to the properties that the worker in a
transaction is the holder of the lock (`HoldsLock`) and that an answer that is
decided but not yet given is already true (`DecidedAnswersAreTrue`); without
it, `AnswersAreTrue` is not inductive. `CommandsRefine` maps every step of `Spec` to one
of `ExactlyOnce` or to a stutter: only the commit is an effect, only the answer to a
client is heard.

For the outbox, "sent once" is not inductive alone: `OutboxInv` adds that no two
workers are at one row (`WorkersApart`), that the step a worker is at tells the status
of its row and what its receiver has (`RowsAtWork`), and that what waits has attempts
left. For reminders, what was mailed is marked, or its worker still holds it
(`Accounted`), and an edit that will write the row over has read the mark. For
subscriptions, `StatusesAgree` speaks of the moments when nobody writes; `WritersMatch`,
`OneWriter` and `HalfWritten` say what two statements of one writer leave in between.

**`LedgersProofs`** proves all parts of `MCLedgers`.

Of the money, `NothingSettledTwice` is inductive with type correctness:
`SettledAdded` says that a payout adds its amount to the row it names and to no
other. `StatementReconciles` equates sums over five overlapping selections of
rows, and an induction over payouts would have to follow every one of them.
Instead `PayoutsMatch` (a payout of each kind names a row of the right sort, or
none) is the invariant, and the identity follows in any state that satisfies
it, by splitting the payouts into disjoint groups with `TotalUnion`.

Of the stock, `StockInv` joins the books with four facts that no property states. A
reservation has not been consumed beyond its quantity (`ReservationsFit`). What a
count expects of a balance that nobody has written since is there (`CountsFit`), so
`CountsSetStock` follows from the guard of `PostCount`. A reversal goes the other way
than an earlier movement of the same balance, which has no other (`MovesFit`). And all
the movements together, undone or not, explain the balance (`MovesExplain`). That the
*standing* ones do is then no induction over chains of reversals (`ReversalsCancel`):
a movement that does not stand has exactly one reversal that does, so the movements
that do not stand and the standing reversals pair off and cancel (`TotalRenamed`). Only
that `Stands` is defined is an induction, from the last movement back
(`StandsDefined`). `MoveStep` says once what one or two movements do to balances, bins
and books; `HoldsTaken` what a dispatch takes of several reservations at once.

Of the paid orders, `SignupInv` says of each request what it read and what is still so
(`ProofFits`): a request that has written its subscription has its id to itself,
by the uniqueness of the id that the database keeps, and the names it found free are free
unless the id is in `raced`.

Of the recipes, any set of bills over any finite set of items is compared, at any
prices, with any number of pieces (`EveryExplosionAddsUp`). Explosion and reference are both recursive
functions, whose theorems of induction take an operator; `ByNumbers` and `ByParts`
say the same of a set of numbers, or of parts of a finite set, and follow from
`LeastNumber`. With them `LevelDefined` and `ExplodeDefined` show that both are what
their recursions say. The two go different ways: the reference replaces
all items of a level at once, the explosion goes down one branch after the other. `LevelSplit`
turns one into the other (a level of an item is the level above of its components
together), because a level is linear in what it starts from (`DownTogether`,
`TotalSwap`). `ExplosionAgrees` is then an induction on the items that are not above the
branch, and `EndsNoLoop` one on the level at which everything is raw: an item that
ends earlier than all items above it is none of them.

**`TeamProofs`.** `TeamOneRoleEach` holds whatever door is open;
`TeamAdminsHoldAdminRole` assumes that nobody comes in by e-mail invitation, and
`TeamSeatsWithinPlan` that only the team screens are used. These hypotheses are
exactly the doors that the observations below name. `TeamInvitationsEndOnce` assumes
none: only invitations that are pending, or not there yet, are ever written, and an
open link is closed only by the person who follows it.

`TeamQueuedLinkCurrent` follows each message: one that waits carries the newest link,
whatever door the invitation is accepted or revoked through.

**`PeopleProofs`** proves the other parts of `MCTeam` and joins them with `TeamProofs`.

- `Accounts`: each request finds, then writes, so the invariant says of a request
  what it found (`FoundIsCurrent`: so it is still, or the user is in `raced`), what it
  alone holds (`InvitationsHeld`, `UsersMadeOnce`) and that who is about to found a company
  has founded none (`FoundersCounted`).
- `Access`: `EntriesMarked` (an entry that a reader made between a change's signals and
  its commit is marked) and `RevokedAlone` (a revocation that meets no other change
  takes the one active assignment, and until it resets the flag only the flag differs).
- `SignIn`, `Sessions`: while requests of a kind do not overlap, what one has read is
  what there is (`ClosedFirst`, `FailuresCounted`, `TokensInTurn`, `PasswordsInTurn`); a
  code or a link works once in any case, because its row is locked.
- `PlatformBilling`: an agreement that a page has read was in force (`AgreementsKept`).

**`ErpProofs`** proves all parts of `MCErp`.

- `Documents`: every step either moves documents along, leaving kind, source and
  order as they are, or draws one new row; the two kinds of step have one lemma per
  conjunct each (`SourcesKept`, `StatusesKept`, `ApprovalsKept`, `BooksKept`, `LinesKept`).
  `SourcesFit` says what a document is drawn from and what an archive request has
  read; `StatusesFit` which statuses a kind can have and what was drawn from a document
  by then; `ApprovalsFit` that a pending approval waits for the amount of its document;
  `BooksFit` that revenue is recorded for what is posted and money for what was. That
  revenue stays within an order needs no induction of its own (`RevenueFits`): the lines
  of an order bound its invoices, drawn directly or by way of dispatches
  (`TotalGroups` sums the dispatches' invoices group by group).
- `PayrollRuns`: the recoveries of a run that is not a draft follow from the loans among
  its inputs, and none is from a loan that is not there (`PayrollInv`), whatever rows the
  archive requests have read (`ReadsFit`: those of rows that are there); `FinalizedAsOfNow`
  then follows step by step.
- `Leave`: no two approved requests share a date and the days of a year add up to the
  allowance at most, by the laws of `Total`, since `DaysUsed` is one.
- `WorkOrders`: a row that an archive request has read tells as truly as the job
  (`ToldTruly`), which is why a stale write cannot complete a job.
- `Recurring` (any `LastDate` and `PerRun` in `Nat`, any set of tasks): a task writes back a
  row it read long before, so the row a task holds has not passed a date without its
  expense, or a person's hand on it, either, and its horizon has come.
- `Upgrade`: what the command under way has converted was not there before, and
  nobody has sold it meanwhile, which is what isolation gives.
- `PrivateFiles`: lines only become newer, and each version is given to one state of
  them, so the files that a request finds or makes for its version are lost or show
  at least what it asked for (`CurrentShown`, `AskedShown`); that a day has one report follows
  from whose day it is (`RunOwnsDay`: one run at most is at work on a day, and what there
  is of the day is exactly what that run has done so far).

**`CoreProofs`** proves all parts of `MCCore`.

- `Crm`: a handler writes rows that it read some statements before, so `CrmInv` says of
  every request what it read and what is still so (`RequestsFit`): alone on its order, it
  finds the row as it was, and from its first statement on the balance it is going to
  write is the right one (`RequestsInTurn`). Two requests at one payment are two at
  one order, because a payment's order is never changed. Numbers stay
  distinct because the database refuses an insert that would repeat one, a stale save's
  too; `GreatestNumber` shows that there is a last number to draw the next one from.
- `Forms`: who is at a step holds the locks that the step before took, the rows that a
  save is about to replace are all there are, and a copy holds the parts it has read so
  far. The proof found the model too strict: a copy that nobody disturbed is whole only
  if what it copies is, so a copy of a torn copy is now counted as torn; with two
  copies, TLC could not meet that.
- `Installation`: a company that was founded has the sales codes, so they are rows, which
  is why no later start can leave a company with part of them (`SetupInv`). Orders of the
  company's own are numbered within the early ones, which a reset spares, or after
  the seeded one (`SamplesInv`).
- `GeneratedFiles`: a key is drawn once and written into one row at most; what a sweep has
  listed is of no row that is valid now and of no request under way, however the row
  was written since (`EntryFits`).
- `Drawings`: the deal of a drawing never changes, so a review that saves the row it read
  long before can only name an order of that deal (`ReviewFits`).
- `Scans`: a batch has written the rows of the first of its skus and some of those of the
  next, with all its scans of each, and nobody else changes them meanwhile
  (`BatchFits`); what it adds to the ledger when it commits is, sku by sku, what its rows
  gain (`NetUnion`, `NetRenamed`). A batch whose next sku is the greatest waits only for
  one within the same sku, since all else that others have locked comes before what
  they have left (`LastBatchAdvances`): the argument behind the comment at `views.py:46`,
  for any number of batches.

**`QuantityTheorems`**: the laws of `Total` that all of these use (`TotalUnion`, `TotalChange`,
`TotalJoin`, `TotalFewer`, `TotalBelow`, `TotalGroups`, `TotalSwap`, `TotalWeighted`), from the
library's theorems about finite sets, and induction over sets of numbers.

Only model-checked: liveness (`CommandsAnswered`, `WorkGetsDone`), which is out of the
prover's reach, and the four findings, which are false.

## 6. Not modelled, and what was noticed

Not modelled, within the modelled parts: fields that describe and do not decide
(names, dates, job assignment and schedule), tax and rounding of amounts,
attendance, approvals and tasks of the workspace, the definition of custom roles,
closed periods, warehouses and delivery status of documents, valuation of stock,
salary components and advances, expiry of codes, tokens and links (which only
refuses more), the status boards, notes, lookups and dashboards of the older
CRM, and the calls to the payment provider's and the mail server's interfaces.
The `stock` command is in the model although `access.py:173` refuses it in this
release. Not modelled as a whole: attachments, request infrastructure,
configurations and pages of the ERP, admin, serializers, settings, schema
migrations and front ends, which read, check or format (`PROJECT.json` has each
reason).

Observations on the way, by part. They are the exceptions that the properties
name, or lie beside them; those that a document contradicts are the findings above.

**Workspace, documents, billing**

- The importer gives an order the status of its document alone. A job it imports has no
  quantity and counts as the whole order (`engine.py:204`), so two of them plan it twice and
  one that is completed allows to ship all of it; draft and cancelled
  dispatches count as shipped; a cancelled order with a completed job can still be
  dispatched, since `dispatch` looks at no status; several invoices of one order are
  imported together; and an order billed by way of a dispatch is imported unbilled, so that
  the engine bills it again. With the inventory entitlement an imported job can never be
  completed: `engine.py:478` reads the product it does not have (`KeyError`).
- A job of a `read_only` order can be updated, which still recomputes the order's status.
- An imported order that was partly planned and then partly dispatched cannot
  be finished: `job` refuses once shipping has begun. `NeverStuck` is therefore of
  orders taken here.
- `quote-mark-sent` takes a lead that is already won back to "Quotation sent".
- With the inventory entitlement, dispatch refuses finished pieces whose
  completion was reported without it.
- `bom_explode` ignores the recipe's own base quantity, by which the saved cost is
  divided; the unit cost of a fraction of a piece is understated by `max(1, qty)`;
  nothing refuses a recipe that contains itself, and `bom-toggle` has a permission
  but no handler.
- Nobody creates a charge when a month begins. Months nobody looked at are
  charged later, at the price of that time; editing a new paid company in its
  free days drops its billing start; and a page that read a paying company
  creates the charge after the company was put on trial.
- A purchase order counts as received by draft receipts; order and receipt
  both convert to a supplier bill without a common limit; an accepted quotation
  and its accepted revision can both become orders.
- A credit note is posted whatever has been paid of its invoice, so more may
  have been received than is owed.
- Two first prints of a document at once: one fails and leaves an orphan
  attachment. A lost file makes every later print of that version fail. The
  template's half of the cache key is a row's version, so another template of
  equal version is served the first one's print; a cached print keeps the old
  state text; a stale archive can set a document's version back to one printed before.
- A published configuration can be edited without the checks that publishing
  makes.

**Payroll, leave, work orders, stock**

- A month in review can still be edited after its calculation; an archived
  draft run blocks its month; finalizing one month's loan invalidates
  another month's run. A stale archive of a loan undoes what was recovered of it, one of
  a run undoes that it was finalized, and blocks its month.
- Approving leave looks only at attendance rows, cancelling only at the months
  of the first and the last day, and archiving can archive an approved request
  that it read as pending.
- The quantity of a completed job can be edited; a stale archive can reopen the
  status of a closed job.
- A reservation on a bucket that is not "available" can be consumed by a dispatch
  of the available one; reservations of cancelled orders stay active.

**Tasks**

- A worker that dies leaves its message "sending" for ever; a reminder edited
  while its batch is under way can be mailed twice.
- A recurring task under way switches a deactivated template on again, and un-archives
  one; a draft moved onto another due date takes that date's place.
- A run of the schedule that dies leaves the day queued, a failed day is never
  tried again, and a message that cannot be queued marks a completed report failed.
- A generated file whose upload failed is recorded as stored, and for thirty days its
  link leads to an object that is not in the store (`r2_storage.py:58-66`, `:75-88`).
- Two batches of scans can deadlock within the rows of one sku, which is not unique:
  one UPDATE locks them in the order in which it finds them (`inventory/views.py:67`).
- Two first builds of one generated file insert two rows, after which
  `update_or_create` always fails; overwritten objects are orphaned; the clean-up is
  in no schedule that `bootstrap_saas` creates.
- No code moves `current_period_end` forward; a cancellation by the staff leaves the
  company "suspended".
- A batch of scans sent again counts again; a sku stored in two warehouses gets
  the delta in both.
- `AdaptiveBackpressureMiddleware` limits in an `__acall__` that Django never calls
  (`core/performance.py`).

**People and access**

- The sign-up view, the e-mail acceptance and the platform's change of
  administrator do not keep the seat limit or the agreement of flag and role;
  an owner who accepts an invitation of the own company loses the flag.
- The attempts of a one-time code are always rolled back, so only the cache
  counter limits them; its message advises a new code that it refuses as well;
  every change of roles clears that counter with the rest of the cache.
- A reader between the signal of a change of roles and its commit caches the old
  permissions for 30 seconds, which `signals.py:9` means to avoid. Revoking an old
  inactive assignment takes the flag from a member who is co-owner now.
- A refresh beside a logout leaves a live token.
- Two overlapping requests of one user found two companies; two links at once,
  or a password acceptance's save of the whole row, overwrite a Google id that
  `models.py:108` calls immutable; after a change of the Google address the old one can
  never create an account; accepting with a password for a deactivated user
  commits the new password before it answers 403; two invitations made at once
  for one address stay both open; inviting with an existing role rewrites that
  role's permissions.
- A paid sign-up is believed without a signature (`onboard_views.py:221` looks only at
  one that is sent), and its subscription is kept under `order_id or payment_id`
  (`:332`): one payment may found a company under each of the two.
- A paid sign-up is refused when its address or phone was taken meanwhile or
  by a namesake's simultaneous request; the welcome mail leaves before the commit.

**Older CRM, installation, data commands**

- Orders' balances are wrong after overlapping payments or a handler that died;
  `LeadDetailView.put` answers 400 after it saved part of the client;
  `DealDetailView.put` overwrites what `DealStatusView.put` wrote; a quotation copied while it
  is edited may lack products or items.
- `bootstrap_saas` at every start switches schedules back and reactivates the
  administrator. On a flushed database it leaves a catalogue of the sales codes
  only, for good.
- The reset of `seed_mock_data` deletes real orders numbered 9000 and above, those
  after the seeded ones included; seeding aborts once a second row matches;
  seeding by code beside importing by name makes duplicates that stop the
  import, although its help says re-runs are safe; seeding overwrites the
  company's own subscription.
- `upgrade_to_erp` aborts when a carried quotation was sold in the ERP before its old
  order was carried over, until that order is cancelled; a revision of a carried
  quotation can be sold beside the carried order. It takes no lock: two at once
  could convert a quotation twice, which the model excludes by assuming one operator.
