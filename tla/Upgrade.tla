------------------------------- MODULE Upgrade -------------------------------
(***************************************************************************)
(* The command that carries the sales history of a company over to the ERP  *)
(* (src/apps/erp/management/commands/upgrade_to_erp.py), beside the people   *)
(* who go on quoting in the old screens and selling in the new ones.  The   *)
(* command is one transaction: what it creates is seen when it ends, what   *)
(* it finds wrong undoes all of it.  It reads the quotations first and the   *)
(* orders later, and locks neither.  An operator runs one at a time.        *)
(*                                                                         *)
(* A document has at most one order in either place (one-to-one in the old  *)
(* screens, convert_document in the new); but a quotation may be revised in *)
(* the new screens, and its revision is a document of its own, which the     *)
(* command does not look for.  Lines, amounts, numbers and the roles it gives *)
(* the administrators are left out.                                         *)
(***************************************************************************)
EXTENDS Naturals

CONSTANTS
  OldQuotes,    \* quotations of the old screens
  Revisions,    \* documents that revise another
  None

VARIABLES
  legacy,     \* is a quotation convertible as it stands, None before it exists
  ordered,    \* the quotations with an order in the old screens
  document,   \* status of each document in the ERP, a quotation's or a
              \* revision; None before there is one
  sale,       \* the sales order entered in the ERP from that document
  migrated,   \* the quotations whose old order has its document
  upgrade     \* the quotations that the command under way has converted

upgradeVars == <<legacy, ordered, document, sale, migrated, upgrade>>

Quotations == OldQuotes \cup Revisions

UpgradeInit ==
  /\ legacy = [q \in OldQuotes |-> None]
  /\ ordered = {} /\ migrated = {}
  /\ document = [q \in Quotations |-> None]
  /\ sale = [q \in Quotations |-> None]
  /\ upgrade = None

(* A quotation is written or corrected; a negative total or a printed       *)
(* quantity of zero cannot be converted.                                    *)
Quote(q, sound) ==
  /\ legacy' = [legacy EXCEPT ![q] = sound]
  /\ UNCHANGED <<ordered, document, sale, migrated, upgrade>>

OrderOld(q) ==
  /\ legacy[q] # None
  /\ ordered' = ordered \cup {q}
  /\ UNCHANGED <<legacy, document, sale, migrated, upgrade>>

-----------------------------------------------------------------------------
(* In the ERP: the document is accepted, a sales order drawn from it unless  *)
(* one that is not cancelled exists, and that order confirmed or cancelled  *)
(* (a confirmed one by an archive request that read it before).             *)
Accept(q) ==
  /\ document[q] = "issued"
  /\ document' = [document EXCEPT ![q] = "accepted"]
  /\ UNCHANGED <<legacy, ordered, sale, migrated, upgrade>>

Alive == {"draft", "confirmed"}
Sellable(q) == sale[q] \notin Alive /\ q \notin migrated

Sell(q) ==
  /\ document[q] = "accepted" /\ Sellable(q)
  /\ sale' = [sale EXCEPT ![q] = "draft"]
  /\ UNCHANGED <<legacy, ordered, document, migrated, upgrade>>

(* DocumentViewSet.revise: a draft of the same agreement, while no sales     *)
(* order has been drawn; the document that it revises stays as it is.       *)
Revise(q, r) ==
  /\ document[q] \in {"issued", "accepted"} /\ sale[q] = None /\ q \notin migrated
  /\ document[r] = None
  /\ document' = [document EXCEPT ![r] = "draft"]
  /\ UNCHANGED <<legacy, ordered, sale, migrated, upgrade>>

Issue(r) ==
  /\ document[r] = "draft"
  /\ document' = [document EXCEPT ![r] = "issued"]
  /\ UNCHANGED <<legacy, ordered, sale, migrated, upgrade>>

SettleSale(q, status) ==
  /\ sale[q] \in Alive /\ status # sale[q]
  /\ sale' = [sale EXCEPT ![q] = status]
  /\ UNCHANGED <<legacy, ordered, document, migrated, upgrade>>

-----------------------------------------------------------------------------
(* Every quotation that has no document gets one, as issued. *)
ConvertQuotes ==
  LET missing == {q \in OldQuotes : legacy[q] # None /\ document[q] = None}
  IN  /\ upgrade = None
      /\ \A q \in missing : legacy[q]
      /\ upgrade' = missing
      /\ UNCHANGED <<legacy, ordered, document, sale, migrated>>

Left == ordered \ migrated
Found(q) == document[q] # None \/ q \in upgrade

(* Every old order that has no document gets one, confirmed, drawn from the  *)
(* document of its quotation, which counts as accepted from then on; and    *)
(* the transaction commits.                                                 *)
ConvertOrders ==
  /\ upgrade # None
  /\ \A q \in Left : Found(q) /\ Sellable(q)
  /\ document' = [q \in Quotations |-> IF q \in Left THEN "accepted"
                                      ELSE IF q \in upgrade THEN "issued" ELSE document[q]]
  /\ migrated' = ordered
  /\ upgrade' = None
  /\ UNCHANGED <<legacy, ordered, sale>>

(* An order whose quotation came after the quotations were read, or whose    *)
(* document was sold in the ERP before, ends the command; so does a crash.  *)
AbortUpgrade ==
  /\ upgrade # None
  /\ upgrade' = None
  /\ UNCHANGED <<legacy, ordered, document, sale, migrated>>

UpgradeNext ==
  \/ ConvertQuotes \/ ConvertOrders \/ AbortUpgrade
  \/ \E q \in OldQuotes :
       \/ \E sound \in BOOLEAN : Quote(q, sound)
       \/ OrderOld(q)
  \/ \E q \in Quotations :
       \/ Accept(q) \/ Sell(q)
       \/ \E status \in {"confirmed", "cancelled"} : SettleSale(q, status)
       \/ \E r \in Revisions : Revise(q, r)
  \/ \E r \in Revisions : Issue(r)

UpgradeSpec == UpgradeInit /\ [][UpgradeNext]_upgradeVars

-----------------------------------------------------------------------------
UpgradeTypeOK ==
  /\ legacy \in [OldQuotes -> BOOLEAN \cup {None}]
  /\ document \in [Quotations -> {None, "draft", "issued", "accepted"}]
  /\ sale \in [Quotations -> Alive \cup {None, "cancelled"}]
  /\ migrated \subseteq ordered /\ ordered \subseteq OldQuotes

(* However often the command runs and whatever is sold in the ERP between    *)
(* two runs, no document ever has two sales orders alive, and every order in *)
(* the ERP is drawn from an accepted document; so an agreement has two only  *)
(* if its quotation was revised: the carried order and that of the revision. *)
HistoryCarriedOnce ==
  /\ UpgradeTypeOK
  /\ \A q \in Quotations :
       /\ ~(q \in migrated /\ sale[q] \in Alive)
       /\ q \in migrated \/ sale[q] # None => document[q] = "accepted"

-----------------------------------------------------------------------------

Marks == {"issued", "accepted", "draft", "confirmed", "cancelled"}
UpgradeConstants == None \notin Marks /\ OldQuotes \cap Revisions = {}

=============================================================================
