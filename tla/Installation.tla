---------------------------- MODULE Installation ----------------------------
(***************************************************************************)
(* What commands put into an installation.                                  *)
(*                                                                         *)
(* First, what it is given before anybody works with it: the permission     *)
(* catalogue, the tasks of the scheduler, the first company with its        *)
(* administrator, and the owners' roles of companies that sign up           *)
(* (bootstrap_saas.py, the data migrations, src/apps/erp/onboarding.py and  *)
(* the two purge commands).  bootstrap_saas runs whenever a container       *)
(* starts with BOOTSTRAP_LOCAL, in one transaction that first writes the    *)
(* row of the plan: two containers that start together run it one after     *)
(* the other.  Migrations run once in the life of a database, and flushing  *)
(* it keeps their history.                                                  *)
(*                                                                         *)
(* Second, the rows that seed_mock_data and import_legacy_tenant put into a *)
(* company in which people may already work (SampleInit, SampleNext).  Each *)
(* is one transaction and is run again at will.  One row stands for the     *)
(* rows that a command writes alike.  They have no unique key:              *)
(* update_or_create finds no row and creates one, finds one and overwrites  *)
(* it, or finds several and aborts the command.  What the rows say is left  *)
(* out, and so are rows that nobody but the command touches.                *)
(***************************************************************************)
EXTENDS Integers, FiniteSets, FiniteSetsExt

CONSTANTS
  SalesCodes,   \* permissions that bootstrap_saas lists
  ErpCodes,     \* permissions of src/apps/erp/catalog.py
  OnTasks,      \* scheduled tasks that are on by default
  OffTasks,     \* scheduled tasks that are off by default
  FirstNumber,  \* number of the seeded order, 9001 in the code
  MaxOrders,    \* orders that people make, fewer than that
  Uses,         \* ways in which rows of people refer to seeded rows
  None

VARIABLES
  catalogue,    \* state of each row of BusinessPermission: None, "on" or "off"
  coOwner,      \* permissions of the global co-owner role, None without the role
  first,        \* permissions of the first company's administrator role
  admin,        \* the first administrator: the state of his row for that role, whether
                \* another role is active, and the flags of his membership
  founded,      \* a company that signed up: its owner's permissions, and the codes that
                \* were switched off at that time
  schedule,     \* state of each PeriodicTask: None, "on" or "off"
  switched,     \* history: tasks that people switched since the last bootstrap
  halved,       \* history: bootstrap_saas has filled an empty catalogue
  found,        \* how many rows a key of the seed finds
  orders,       \* the orders, with number and maker
  uses,         \* the references there are
  products,     \* the base products with the type and the name of a seeded one,
                \* as the codes they have
  lost,         \* history: orders of people that a reset deleted
  crossed       \* history: seed_mock_data has run after an import

vars == <<catalogue, coOwner, first, admin, founded, schedule, switched, halved>>
sampleVars == <<found, orders, uses, products, lost, crossed>>

-----------------------------------------------------------------------------
CatalogueCodes == SalesCodes \cup ErpCodes
Tasks == OnTasks \cup OffTasks
On(codes) == {c \in CatalogueCodes : codes[c] = "on"}

(* schedule_task, for every task that the program names. *)
Defaults == [t \in Tasks |-> IF t \in OnTasks THEN "on" ELSE "off"]

(* install_permission_catalog: a catalogue that has an active row is left    *)
(* as it is; otherwise the missing rows are created.                        *)
Installed ==
  IF On(catalogue) # {} THEN catalogue
  ELSE [c \in CatalogueCodes |-> IF catalogue[c] = None THEN "on" ELSE catalogue[c]]

(* After the migrations: rightsize_periodic_tasks and seed. *)
Init ==
  /\ catalogue = [c \in CatalogueCodes |-> "on"]
  /\ coOwner = CatalogueCodes
  /\ first = None
  /\ admin = None
  /\ founded = None
  /\ schedule = Defaults
  /\ switched = {}
  /\ halved = FALSE

(* bootstrap_saas: the codes it lists are there and active, the role has     *)
(* them, the administrator has the role and no other, and the tasks are as   *)
(* the program wants them.                                                  *)
Bootstrap ==
  /\ catalogue' = [c \in CatalogueCodes |-> IF c \in SalesCodes THEN "on" ELSE catalogue[c]]
  /\ first' = SalesCodes \cup (IF first = None THEN {} ELSE first)
  /\ admin' = [own |-> "on", other |-> FALSE, flag |-> TRUE, active |-> TRUE]
  /\ schedule' = Defaults
  /\ switched' = {}
  /\ halved' = (halved \/ \A c \in CatalogueCodes : catalogue[c] = None)
  /\ UNCHANGED <<coOwner, founded>>

(* create_company_workspace with owner_role. *)
Found ==
  /\ founded = None
  /\ catalogue' = Installed
  /\ founded' = [links |-> On(Installed), off |-> {c \in CatalogueCodes : Installed[c] = "off"}]
  /\ UNCHANGED <<coOwner, first, admin, schedule, switched, halved>>

-----------------------------------------------------------------------------
(* What people change: rows of the scheduler and of the catalogue ...        *)
SwitchTask(t) ==
  /\ schedule[t] # None
  /\ schedule' = [schedule EXCEPT ![t] = IF @ = "on" THEN "off" ELSE "on"]
  /\ switched' = switched \cup {t}
  /\ UNCHANGED <<catalogue, coOwner, first, admin, founded, halved>>

SwitchCode(c) ==
  /\ catalogue[c] # None
  /\ catalogue' = [catalogue EXCEPT ![c] = IF @ = "on" THEN "off" ELSE "on"]
  /\ UNCHANGED <<coOwner, first, admin, founded, schedule, switched, halved>>

(* ... and the access of the first administrator, who is no owner: a staff   *)
(* role or that of a co-owner in place of his, no role, or a membership that *)
(* is switched.                                                             *)
ChangeAdmin(row) ==
  /\ admin' = row
  /\ UNCHANGED <<catalogue, coOwner, first, founded, schedule, switched, halved>>

AssignRole(co) ==
  /\ admin # None
  /\ co => coOwner # None
  /\ ChangeAdmin([admin EXCEPT !.own = "off", !.other = TRUE, !.flag = co])
RevokeRole ==
  /\ admin # None
  /\ \/ ChangeAdmin([admin EXCEPT !.own = "off", !.flag = FALSE])
     \/ ChangeAdmin([admin EXCEPT !.other = FALSE, !.flag = FALSE])
SwitchMember == admin # None /\ ChangeAdmin([admin EXCEPT !.active = ~@])

-----------------------------------------------------------------------------
(* purge_all_data: companies and users go, the catalogue and the global      *)
(* roles stay, or are made again when they are missing; the scheduler is no  *)
(* part of it.                                                              *)
PurgeAll ==
  LET codes == IF \E c \in CatalogueCodes : catalogue[c] # None THEN catalogue ELSE Installed IN
  /\ catalogue' = codes
  /\ coOwner' = IF coOwner \in {None, {}} THEN On(codes) ELSE coOwner
  /\ first' = None /\ admin' = None /\ founded' = None
  /\ UNCHANGED <<schedule, switched, halved>>

(* purge_database flushes every table but the history of migrations. *)
Flush ==
  /\ catalogue' = [c \in CatalogueCodes |-> None]
  /\ coOwner' = None
  /\ first' = None /\ admin' = None /\ founded' = None
  /\ schedule' = [t \in Tasks |-> None]
  /\ switched' = {}
  /\ halved' = FALSE

Next ==
  \/ Bootstrap \/ Found
  \/ \E t \in Tasks : SwitchTask(t)
  \/ \E c \in CatalogueCodes : SwitchCode(c)
  \/ \E co \in BOOLEAN : AssignRole(co)
  \/ RevokeRole \/ SwitchMember
  \/ PurgeAll \/ Flush

-----------------------------------------------------------------------------
(* Purges, restarts and sign-ups in any order leave a catalogue that is      *)
(* empty or whole, and owners who have all of it that was switched on: but   *)
(* when bootstrap_saas is the first to run on a flushed database, the        *)
(* catalogue keeps the sales codes only, for good.  The first administrator   *)
(* has one active role at most, and the flag of an administrator only with   *)
(* one.  A task that is not as the program wants it was switched since the   *)
(* last start, or the database was flushed.                                 *)
InstallationHolds ==
  LET rows == {c \in CatalogueCodes : catalogue[c] # None} IN
  /\ rows \in {{}, CatalogueCodes} \/ (halved /\ rows = SalesCodes)
  /\ founded # None => /\ founded.links \cup founded.off = rows
                       /\ founded.links \cap founded.off = {}
  /\ admin # None => /\ ~(admin.own = "on" /\ admin.other)
                     /\ admin.flag => admin.own = "on" \/ admin.other
                     /\ SalesCodes \subseteq first
  /\ \A t \in Tasks : schedule[t] \in {None, Defaults[t]} \/ t \in switched

-----------------------------------------------------------------------------
(* The rows, and what is assumed of the constants.                          *)
States == {"on", "off"}
FoundedRows == [links : SUBSET CatalogueCodes, off : SUBSET CatalogueCodes]
AdminRows == [own : States, other : BOOLEAN, flag : BOOLEAN, active : BOOLEAN]
SetupConstants == None \notin States /\ None \notin FoundedRows /\ None \notin AdminRows

-----------------------------------------------------------------------------
(* The keys that people can make ambiguous: the lead of a company, the note  *)
(* of a lead, the advance of an order, the assignment of a role.            *)
SeedKinds == {"lead", "note", "advance", "role"}
Seeded == [number |-> FirstNumber, seeded |-> TRUE]
Own(rows) == {o \in rows : ~o.seeded}

SampleInit ==
  /\ found = [k \in SeedKinds |-> 0]
  /\ orders = {}
  /\ uses = {}
  /\ products = {}
  /\ lost = {}
  /\ crossed = FALSE

-----------------------------------------------------------------------------
(* _reset_seeded deletes orders by their number, the others by name and      *)
(* code, and with them what belongs to them.                                *)
KeptOrders == {o \in orders : o.number < FirstNumber}
KeptProducts == products \ {"sample"}

(* _seed_users, _seed_leads, _seed_orders and _seed_descriptions.            *)
Unambiguous(rows) == \A k \in SeedKinds : rows[k] <= 1

(* handle.  An order of people that has the number of the seeded one makes   *)
(* the command fail; what they refer to cannot be deleted, and a reset rolls *)
(* back.  A product is found by its code only (_seed_base_products).        *)
SeedMock(reset) ==
  LET kept == IF reset THEN KeptOrders ELSE orders IN
  /\ reset => uses = {}
  /\ reset \/ Unambiguous(found)
  /\ \A o \in Own(kept) : o.number # FirstNumber
  /\ found' = [k \in SeedKinds |-> 1]
  /\ orders' = kept \cup {Seeded}
  /\ lost' = lost \cup Own(orders \ kept)
  /\ products' = (IF reset THEN KeptProducts ELSE products) \cup {"sample"}
  /\ crossed' = (crossed \/ "file" \in products)
  /\ UNCHANGED uses

(* import_legacy_tenant: a product is found by its type and name, and given  *)
(* the code of the file.  A dry run rolls back; companies and their clients  *)
(* are created anew at every run.                                           *)
Import(dry) ==
  /\ Cardinality(products) <= 1
  /\ products' = IF dry THEN products ELSE {"file"}
  /\ UNCHANGED <<found, orders, uses, lost, crossed>>

-----------------------------------------------------------------------------
(* What people do: an order, numbered after the last; ...                    *)
AddOrder ==
  /\ Cardinality(Own(orders)) + Cardinality(lost) < MaxOrders
  /\ orders' = orders \cup {[number |-> 1 + Max({o.number : o \in orders} \cup {0}),
                             seeded |-> FALSE]}
  /\ UNCHANGED <<found, uses, products, lost, crossed>>

(* ... a second lead of a seeded company, note of a lead, advance of an      *)
(* order or assignment of a role; ...                                       *)
AddBeside(k) ==
  /\ found[k] = 1
  /\ found' = [found EXCEPT ![k] = 2]
  /\ UNCHANGED <<orders, uses, products, lost, crossed>>

(* ... and a lead of another company, a deal or a note that refers to a      *)
(* seeded source, company or user.                                          *)
Refer(u) ==
  /\ found["lead"] > 0
  /\ uses' = uses \cup {u}
  /\ UNCHANGED <<found, orders, products, lost, crossed>>

SampleNext ==
  \/ \E reset \in BOOLEAN : SeedMock(reset)
  \/ \E dry \in BOOLEAN : Import(dry)
  \/ AddOrder
  \/ \E k \in SeedKinds : AddBeside(k)
  \/ \E u \in Uses : Refer(u)

-----------------------------------------------------------------------------
(* However often the commands run between the work of people, no two orders  *)
(* have one number and one at most is seeded.  A reset takes no order that   *)
(* was numbered before the seeded one, and each that was numbered after it.  *)
(* There is a second product of one type and name, which stops the import,   *)
(* only if seed_mock_data ran after an import had renamed the code.         *)
SamplesHold ==
  /\ Cardinality({o.number : o \in orders}) = Cardinality(orders)
  /\ Cardinality(orders \ Own(orders)) <= 1
  /\ \A o \in lost : o.number > FirstNumber
  /\ Cardinality(products) = 2 => crossed

(* What the proof needs: an order of people is numbered among the first, of   *)
(* which no reset takes one, or after the seeded one, which is never theirs. *)
SampleConstants == FirstNumber \in Nat /\ MaxOrders \in Nat /\ MaxOrders < FirstNumber
OrderRows == [number : Nat, seeded : BOOLEAN]

=============================================================================
