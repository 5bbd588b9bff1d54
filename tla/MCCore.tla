------------------------------- MODULE MCCore -------------------------------
(***************************************************************************)
(* Instances of Crm, Forms, GeneratedFiles, Drawings, Scans and              *)
(* Installation; the halves of Forms and of Installation are parts here.     *)
(* They share no row that their properties speak of: the run checks them     *)
(* side by side, one of them in each behaviour, which part says; the         *)
(* variables of the others are not used in it.                              *)
(***************************************************************************)
EXTENDS Integers, TLC

CONSTANTS Leads, Codes, HandIds, Quotes, Orders, Advances, Requests,
          Amounts, OrderTotal, MaxBalance, None, NoLead, Gone,
          Documents, Rows, Keys, Builders,
          DrawingIds, DrawnDeals, DrawnOrders, Reviews,
          Skus, Items, Batches, MaxScans,
          Sources, MaxEdits,
          Copies, MaxProducts, MaxWritten,
          SalesCodes, ErpCodes, OnTasks, OffTasks,
          FirstNumber, MaxOrders, Uses

VARIABLES
  part,
  leads, deals, quotes, orders, advances, reqs, conversions, raced,  \* of Crm
  rows, objects, local, spent, builds, sweep,   \* of GeneratedFiles
  drawings, dealOf, filed, reviews,      \* of Drawings
  quantity, ledger, batch,               \* of Scans
  lead, contacts, leadLock, clientLock, edits, made, converted, latest, \* of Contacts
  lists, locks, works, sizes,            \* of Quotes
  catalogue, coOwner, first, admin, founded, schedule, switched, halved, \* of Installation
  found, numbered, uses, products, lost, crossed                \* of its seeds

crmVars == <<leads, deals, quotes, orders, advances, reqs, conversions, raced>>
filesVars == <<rows, objects, local, spent, builds, sweep>>
drawingVars == <<drawings, dealOf, filed, reviews>>
scanVars == <<quantity, ledger, batch>>
contactVars == <<lead, contacts, leadLock, clientLock, edits, made, converted, latest>>
listVars == <<lists, locks, works, sizes>>
setupVars == <<catalogue, coOwner, first, admin, founded, schedule, switched, halved>>
seedVars == <<found, numbered, uses, products, lost, crossed>>
coreVars == <<part, crmVars, filesVars, drawingVars, scanVars, contactVars, listVars,
              setupVars, seedVars>>

(* Two rows of the first sku, in two warehouses, and one of the others. *)
SkuOfItem == [i \in Items |-> IF i = 0 THEN 1 ELSE i]
DeltasScanned == {1, -2}

Sold == INSTANCE Crm
Files == INSTANCE GeneratedFiles
Drawn == INSTANCE Drawings WITH DealIds <- DrawnDeals, OrderIds <- DrawnOrders
Scanned == INSTANCE Scans WITH SkuOf <- SkuOfItem, Deltas <- DeltasScanned
Formed == INSTANCE Forms WITH deals <- converted, Quotations <- Copies, quotes <- lists
Setup == INSTANCE Installation WITH orders <- numbered

(* The variables of the parts that a behaviour does not run. *)
Unused(x) == x = None
NoCrm == /\ Unused(leads) /\ Unused(deals) /\ Unused(quotes) /\ Unused(orders)
         /\ Unused(advances) /\ Unused(reqs) /\ Unused(conversions) /\ Unused(raced)
NoFiles == /\ Unused(rows) /\ Unused(objects) /\ Unused(local) /\ Unused(spent)
           /\ Unused(builds) /\ Unused(sweep)
NoDrawings == Unused(drawings) /\ Unused(dealOf) /\ Unused(filed) /\ Unused(reviews)
NoScans == Unused(quantity) /\ Unused(ledger) /\ Unused(batch)
NoContacts == /\ Unused(lead) /\ Unused(contacts) /\ Unused(leadLock) /\ Unused(clientLock)
              /\ Unused(edits) /\ Unused(made) /\ Unused(converted) /\ Unused(latest)
NoLists == Unused(lists) /\ Unused(locks) /\ Unused(works) /\ Unused(sizes)
NoSetup == /\ Unused(catalogue) /\ Unused(coOwner) /\ Unused(first) /\ Unused(admin)
           /\ Unused(founded) /\ Unused(schedule) /\ Unused(switched) /\ Unused(halved)
NoSeeds == /\ Unused(found) /\ Unused(numbered) /\ Unused(uses)
           /\ Unused(products) /\ Unused(lost) /\ Unused(crossed)

CoreInit ==
  /\ part \in {"crm", "files", "drawings", "scans", "contacts", "quotes", "setup", "seeds"}
  /\ IF part = "crm" THEN Sold!Init ELSE NoCrm
  /\ IF part = "files" THEN Files!FilesInit ELSE NoFiles
  /\ IF part = "drawings" THEN Drawn!DrawingsInit ELSE NoDrawings
  /\ IF part = "scans" THEN Scanned!ScansInit ELSE NoScans
  /\ IF part = "contacts" THEN Formed!ContactsInit ELSE NoContacts
  /\ IF part = "quotes" THEN Formed!QuotesInit ELSE NoLists
  /\ IF part = "setup" THEN Setup!Init ELSE NoSetup
  /\ IF part = "seeds" THEN Setup!SampleInit ELSE NoSeeds

CoreNext ==
  /\ UNCHANGED part
  /\ \/ /\ part = "crm" /\ Sold!Next
        /\ UNCHANGED <<filesVars, drawingVars, scanVars, contactVars,
                       listVars, setupVars, seedVars>>
     \/ /\ part = "files" /\ Files!FilesNext
        /\ UNCHANGED <<crmVars, drawingVars, scanVars, contactVars,
                       listVars, setupVars, seedVars>>
     \/ /\ part = "drawings" /\ Drawn!DrawingsNext
        /\ UNCHANGED <<crmVars, filesVars, scanVars, contactVars,
                       listVars, setupVars, seedVars>>
     \/ /\ part = "scans" /\ Scanned!ScansNext
        /\ UNCHANGED <<crmVars, filesVars, drawingVars, contactVars,
                       listVars, setupVars, seedVars>>
     \/ /\ part = "contacts" /\ Formed!ContactsNext
        /\ UNCHANGED <<crmVars, filesVars, drawingVars, scanVars,
                       listVars, setupVars, seedVars>>
     \/ /\ part = "quotes" /\ Formed!QuotesNext
        /\ UNCHANGED <<crmVars, filesVars, drawingVars, scanVars,
                       contactVars, setupVars, seedVars>>
     \/ /\ part = "setup" /\ Setup!Next
        /\ UNCHANGED <<crmVars, filesVars, drawingVars, scanVars,
                       contactVars, listVars, seedVars>>
     \/ /\ part = "seeds" /\ Setup!SampleNext
        /\ UNCHANGED <<crmVars, filesVars, drawingVars, scanVars,
                       contactVars, listVars, setupVars>>

ASSUME CrmAssumption == Sold!CrmConstants
ASSUME FormsAssumption == Formed!ContactsConstants /\ Formed!QuotesConstants
ASSUME FilesAssumption == Files!FilesConstants /\ Drawn!DrawingsConstants
ASSUME ScansAssumption == Scanned!ScansConstants
ASSUME SetupAssumption == Setup!SetupConstants /\ Setup!SampleConstants

CoreSpec == CoreInit /\ [][CoreNext]_coreVars

(* Rows of one collection are interchangeable.  Collections of different     *)
(* parts are given the same values, so that one permutation serves them all. *)
Symmetry == Permutations(Requests) \cup Permutations(Codes) \cup Permutations(Orders)
            \cup Permutations(Quotes) \cup Permutations(Advances)

(* The properties of the parts, for the run to name. *)
SoldOnce ==
  /\ part = "crm" => Sold!SoldOnce
  /\ part = "contacts" => Formed!LeadConvertedOnce

BalanceExplained == part = "crm" => Sold!BalanceExplained

FilesDrawingsAndScansHold ==
  /\ part = "files" => Files!LinksHaveFiles
  /\ part = "drawings" => Drawn!ShownInOwnOrder
  /\ part = "scans" => Scanned!ScansAddUp

ListsAndSetupWhole ==
  /\ part = "contacts" => Formed!ContactsOfOneEdit
  /\ part = "quotes" => Formed!QuotationsWhole
  /\ part = "setup" => Setup!InstallationHolds
  /\ part = "seeds" => Setup!SamplesHold

=============================================================================
