------------------------------- MODULE Forms -------------------------------
(***************************************************************************)
(* Two records of the core application whose forms replace lists of rows in *)
(* other tables (src/apps/core/crm_views.py).  Every handler is one          *)
(* transaction: others see its writes when it commits, and the rows it       *)
(* locked wait for that.  Each of its statements sees what is committed by   *)
(* then.                                                                     *)
(*                                                                         *)
(* First, a lead, the client it was recorded for, and the lists of phones   *)
(* and e-mail addresses of that client (ContactsInit, ContactsNext), which   *)
(* the client form and the lead form edit.  A contact row carries the number *)
(* of the request that inserted it.                                         *)
(*                                                                         *)
(* Second, what quotations say (QuotesInit, QuotesNext): a header with the   *)
(* totals and, in tables of their own, its products, each with its items and *)
(* its working.  A product row carries the number of the request that wrote  *)
(* it and its place in that request's list.                                 *)
(*                                                                         *)
(* Left out as data no property speaks of: names, company, assignees, the    *)
(* amounts themselves, and deals, which Crm models.                         *)
(*                                                                         *)
(* Definitions commented "Mutant:" are mistakes for the properties to find. *)
(***************************************************************************)
EXTENDS Integers, FiniteSets, Sequences

CONSTANTS
  Requests,      \* requests that can be under way at once
  Sources,       \* where a lead can come from
  MaxEdits,      \* bound on the requests in a behaviour of the contact forms
  Quotations,    \* primary keys: none is used twice
  MaxProducts,   \* bound on the products of a quotation
  MaxWritten,    \* bound on the requests that write a list
  None,          \* no row yet, no request, no value
  Gone           \* a row that has been deleted

VARIABLES
  lead,        \* source of the lead and whether it was converted, None before
  contacts,    \* the committed contact rows of the client
  leadLock, clientLock,   \* the requests that hold the rows of lead and client
  edits,       \* what each request under way has read and will write
  made,        \* history: the requests so far
  deals,       \* history: the deals the lead was converted into
  latest,      \* history: the lists that the last committed request replaced
  quotes,     \* the committed products and the provenance of each quotation
  locks,      \* the request that holds each header
  works,      \* what each request under way has read and will write
  sizes       \* history: the length of each list that was written

contactVars == <<lead, contacts, leadLock, clientLock, edits, made, deals, latest>>
listVars == <<quotes, locks, works, sizes>>

-----------------------------------------------------------------------------
Kinds == {"phone", "email"}

(* replace_client_contacts: the rows that a request inserts for its lists.   *)
NewRows(n, lists) == {[by |-> n, kind |-> k] : k \in lists}

(* A request: the form it comes from, the statement it is at, its number,   *)
(* the lists it brings (None: the lead form may leave them out), the new    *)
(* source of the lead, and what it has read.                                *)
Edit(form, lists, source, row) ==
  [form |-> form, step |-> "save", n |-> made + 1, lists |-> lists,
   source |-> source, lead |-> row, seen |-> {}]

Freed(lock, r) == IF lock = r THEN None ELSE lock

(* The end of a transaction. *)
Release(r) ==
  /\ leadLock' = Freed(leadLock, r)
  /\ clientLock' = Freed(clientLock, r)
  /\ edits' = [edits EXCEPT ![r] = None]

-----------------------------------------------------------------------------
ContactsInit ==
  /\ lead = None
  /\ contacts = {}
  /\ leadLock = None
  /\ clientLock = None
  /\ edits = [r \in Requests |-> None]
  /\ made = 0
  /\ deals = 0
  /\ latest = {}

(* LeadListCreateView.post: client, contacts and lead, all new. *)
AddLead(lists, s) ==
  /\ lead = None
  /\ "phone" \in lists
  /\ lead' = [source |-> s, converted |-> FALSE]
  /\ contacts' = NewRows(made + 1, lists)
  /\ latest' = NewRows(made + 1, lists)
  /\ made' = made + 1
  /\ UNCHANGED <<leadLock, clientLock, edits, deals>>

(* CompanyClientView.put looks the client up, without a lock. *)
OpenClient(r, lists) ==
  /\ lead # None /\ made < MaxEdits
  /\ edits[r] = None
  /\ edits' = [edits EXCEPT ![r] = Edit("client", lists, None, None)]
  /\ made' = made + 1
  /\ UNCHANGED <<lead, contacts, leadLock, clientLock, deals, latest>>

(* LeadDetailView.put takes the row of the lead, or waits for it. *)
OpenLead(r, lists, s) ==
  /\ lead # None /\ made < MaxEdits
  /\ edits[r] = None
  /\ leadLock = None
  /\ leadLock' = r
  /\ edits' = [edits EXCEPT ![r] = Edit("lead", lists, s, lead)]
  /\ made' = made + 1
  /\ UNCHANGED <<lead, contacts, clientLock, deals, latest>>

(* Mutant: the client is not saved before its contacts are replaced, so     *)
(* nothing makes the second of two requests wait.                           *)
LeaveClient(r) ==
  /\ edits[r] # None /\ edits[r].step = "save"
  /\ edits' = [edits EXCEPT ![r].step = IF edits[r].lists = None THEN "end" ELSE "clear"]
  /\ UNCHANGED <<lead, contacts, leadLock, clientLock, made, deals, latest>>

(* client.save() takes the row of the client, or waits for it. *)
SaveClient(r) ==
  /\ edits[r] # None /\ edits[r].step = "save"
  /\ clientLock = None
  /\ clientLock' = r
  /\ edits' = [edits EXCEPT ![r].step = IF edits[r].lists = None THEN "end" ELSE "clear"]
  /\ UNCHANGED <<lead, contacts, leadLock, made, deals, latest>>

(* The rows that the two deletes find: those committed by now. *)
ClearContacts(r) ==
  /\ edits[r] # None /\ edits[r].step = "clear"
  /\ edits' = [edits EXCEPT ![r].step = "end", ![r].seen = contacts]
  /\ UNCHANGED <<lead, contacts, leadLock, clientLock, made, deals, latest>>

(* The contacts that the end of a request leaves. *)
Replace(r) ==
  IF edits[r].lists = None THEN UNCHANGED <<contacts, latest>>
  ELSE LET new == NewRows(edits[r].n, edits[r].lists) IN
       /\ contacts' = (contacts \ edits[r].seen) \cup new
       /\ latest' = new

EndClient(r) ==
  /\ edits[r] # None /\ edits[r].step = "end" /\ edits[r].form = "client"
  /\ Replace(r)
  /\ Release(r)
  /\ UNCHANGED <<lead, made, deals>>

(* The whole row of the lead, as it was read, with the new source.  A source *)
(* of another company is answered with an error, but nothing is rolled back: *)
(* the contacts are committed all the same.                                 *)
EndLead(r) ==
  /\ edits[r] # None /\ edits[r].step = "end" /\ edits[r].form = "lead"
  /\ Replace(r)
  /\ \/ edits[r].source = None /\ UNCHANGED lead
     \/ edits[r].source # None /\ lead' = [edits[r].lead EXCEPT !.source = edits[r].source]
  /\ Release(r)
  /\ UNCHANGED <<made, deals>>

(* ConvertLeadView.post: takes the lead's row, if it is not converted yet.   *)
(* Every employee has a quotation code, so ids of deals need not collide.    *)
Convert ==
  /\ lead # None
  /\ leadLock = None
  /\ ~lead.converted
  /\ lead' = [lead EXCEPT !.converted = TRUE]
  /\ deals' = deals + 1
  /\ UNCHANGED <<contacts, leadLock, clientLock, edits, made, latest>>

(* An error or the death of the worker rolls a request back. *)
RollBack(r) ==
  /\ edits[r] # None
  /\ Release(r)
  /\ UNCHANGED <<lead, contacts, made, deals, latest>>

ContactsNext ==
  \/ \E lists \in SUBSET Kinds, s \in Sources : AddLead(lists, s)
  \/ \E r \in Requests, lists \in SUBSET Kinds : OpenClient(r, lists)
  \/ \E r \in Requests, lists \in (SUBSET Kinds) \cup {None}, s \in Sources \cup {None} :
       OpenLead(r, lists, s)
  \/ \E r \in Requests : \/ SaveClient(r) \/ ClearContacts(r)
                         \/ EndClient(r) \/ EndLead(r) \/ RollBack(r)
  \/ Convert

-----------------------------------------------------------------------------
(* The contacts of a client are the lists of the last request that replaced  *)
(* them, whole: two forms saved at once never leave both lists, or parts of  *)
(* either.                                                                  *)
ContactsOfOneEdit == contacts = latest

(* A lead is converted into one deal, although the lead form writes its      *)
(* whole row back, the conversion included.                                 *)
LeadConvertedOnce == deals = IF lead # None /\ lead.converted THEN 1 ELSE 0

-----------------------------------------------------------------------------
(* The rows, and what is assumed of the constants.                          *)
LeadRows == [source : Sources, converted : BOOLEAN]
ContactRows == [by : Nat, kind : Kinds]
EditRows ==
  [form : {"client", "lead"}, step : {"save", "clear", "end"}, n : Nat,
   lists : (SUBSET Kinds) \cup {None}, source : Sources \cup {None},
   lead : LeadRows \cup {None}, seen : SUBSET ContactRows]

ContactsConstants == None \notin Requests \cup LeadRows \cup EditRows

-----------------------------------------------------------------------------
Parts == {"items", "working"}
ProductRows == [list : 1..MaxWritten, place : 1..MaxProducts, parts : SUBSET Parts]

IsRow(q) == quotes[q] \notin {None, Gone}
Written == Cardinality(DOMAIN sizes)

(* create_quotation_graph: the products of list n, whole. *)
Graph(n, size) == [list : {n}, place : 1..size, parts : {Parts}]

(* list is the last list written for the quotation; clean says that it is no *)
(* copy, or was copied from a clean one in which nothing changed meanwhile.  *)
Quotation(n, rows, clean) == [list |-> n, products |-> rows, clean |-> clean]

Work(kind, q, rows, size) ==
  [kind |-> kind, step |-> 1, quote |-> q, rows |-> rows, size |-> size,
   list |-> 0, clean |-> quotes[q].clean]

End(r) == works' = [works EXCEPT ![r] = None]

(* The end of request r, which changed quotation q: copies of it that are    *)
(* being made are not clean any more.                                       *)
EndChanging(r, q) ==
  works' = [x \in Requests |->
              IF x = r THEN None
              ELSE IF works[x] # None /\ works[x].kind = "copy" /\ works[x].quote = q
                THEN [works[x] EXCEPT !.clean = FALSE]
              ELSE works[x]]

-----------------------------------------------------------------------------
QuotesInit ==
  /\ quotes = [q \in Quotations |-> None]
  /\ locks = [q \in Quotations |-> None]
  /\ works = [r \in Requests |-> None]
  /\ sizes = <<>>

(* QuotationListCreateView.post *)
AddQuote(q, size) ==
  /\ quotes[q] = None
  /\ Written < MaxWritten
  /\ quotes' = [quotes EXCEPT ![q] = Quotation(Written + 1, Graph(Written + 1, size), TRUE)]
  /\ sizes' = Append(sizes, size)
  /\ UNCHANGED <<locks, works>>

(* QuotationDetailView.put takes the header, or waits for it; size is None   *)
(* when the request brings no products.                                     *)
OpenQuote(r, q, size) ==
  /\ works[r] = None /\ IsRow(q)
  /\ locks[q] = None
  /\ locks' = [locks EXCEPT ![q] = r]
  /\ works' = [works EXCEPT ![r] = Work("edit", q, {}, size)]
  /\ UNCHANGED <<quotes, sizes>>

(* It saves the header, finds the products to delete ... *)
ClearProducts(r) ==
  /\ works[r] # None /\ works[r].kind = "edit" /\ works[r].step = 1
  /\ works' = [works EXCEPT ![r].step = 2,
                            ![r].rows = IF IsRow(works[r].quote)
                                        THEN quotes[works[r].quote].products ELSE {}]
  /\ UNCHANGED <<quotes, locks, sizes>>

(* ... inserts the new ones, and commits. *)
SaveQuote(r) ==
  /\ works[r] # None /\ works[r].kind = "edit" /\ works[r].step = 2
  /\ LET q == works[r].quote IN
       /\ IsRow(q)
       /\ \/ /\ works[r].size = None
             /\ UNCHANGED <<quotes, sizes>>
          \/ /\ works[r].size # None /\ Written < MaxWritten
             /\ quotes' = [quotes EXCEPT ![q] =
                  Quotation(Written + 1,
                            (quotes[q].products \ works[r].rows)
                              \cup Graph(Written + 1, works[r].size),
                            TRUE)]
             /\ sizes' = Append(sizes, works[r].size)
       /\ locks' = [locks EXCEPT ![q] = None]
       /\ EndChanging(r, q)

-----------------------------------------------------------------------------
(* QuotationDetailView.delete: Django collects the rows that go with the     *)
(* quotation ...                                                            *)
CollectQuote(r, q) ==
  /\ works[r] = None /\ IsRow(q)
  /\ works' = [works EXCEPT ![r] = Work("delete", q, quotes[q].products, None)]
  /\ UNCHANGED <<quotes, locks, sizes>>

(* ... and deletes them; a product inserted meanwhile protects the header,   *)
(* and everything is rolled back.                                           *)
DeleteQuote(r) ==
  /\ works[r] # None /\ works[r].kind = "delete"
  /\ LET q == works[r].quote IN
       /\ locks[q] = None
       /\ IF IsRow(q) /\ quotes[q].products \subseteq works[r].rows
          THEN quotes' = [quotes EXCEPT ![q] = Gone] /\ EndChanging(r, q)
          ELSE UNCHANGED quotes /\ End(r)
  /\ UNCHANGED <<locks, sizes>>

-----------------------------------------------------------------------------
(* QuotationImportView.post reads header, products, items and workings of    *)
(* another quotation in four statements: first the header ...               *)
ReadHeader(r, q) ==
  /\ works[r] = None /\ IsRow(q)
  /\ works' = [works EXCEPT ![r] = Work("copy", q, {}, None)]
  /\ UNCHANGED <<quotes, locks, sizes>>

(* ... then the products it has now ... *)
ReadProducts(r) ==
  /\ works[r] # None /\ works[r].kind = "copy" /\ works[r].step = 1
  /\ LET q == works[r].quote IN
       works' = [works EXCEPT
         ![r].step = 2,
         ![r].list = IF IsRow(q) THEN quotes[q].list ELSE 0,
         ![r].rows = IF IsRow(q) THEN {[p EXCEPT !.parts = {}] : p \in quotes[q].products}
                     ELSE {}]
  /\ UNCHANGED <<quotes, locks, sizes>>

(* The rows of part k that belong to a product that was read, if it is still *)
(* there.                                                                   *)
WithPart(p, q, k) ==
  IF IsRow(q) /\ \E x \in quotes[q].products :
                   x.list = p.list /\ x.place = p.place /\ k \in x.parts
  THEN [p EXCEPT !.parts = @ \cup {k}] ELSE p

(* ... and items and workings, each by its own statement ...                *)
ReadPart(r, k) ==
  /\ works[r] # None /\ works[r].kind = "copy"
  /\ works[r].step = IF k = "items" THEN 2 ELSE 3
  /\ works' = [works EXCEPT ![r].step = @ + 1,
                            ![r].rows = {WithPart(p, works[r].quote, k) : p \in @}]
  /\ UNCHANGED <<quotes, locks, sizes>>

(* ... and inserts the copy as it was read.                                 *)
WriteCopy(r, q) ==
  /\ works[r] # None /\ works[r].kind = "copy" /\ works[r].step = 4
  /\ quotes[q] = None
  /\ quotes' = [quotes EXCEPT ![q] = Quotation(works[r].list, works[r].rows, works[r].clean)]
  /\ End(r)
  /\ UNCHANGED <<locks, sizes>>

(* An error or the death of the worker rolls a request back. *)
GiveUp(r) ==
  /\ works[r] # None
  /\ locks' = [q \in Quotations |-> IF locks[q] = r THEN None ELSE locks[q]]
  /\ End(r)
  /\ UNCHANGED <<quotes, sizes>>

QuotesNext ==
  \/ \E q \in Quotations, n \in 1..MaxProducts : AddQuote(q, n)
  \/ \E r \in Requests, q \in Quotations :
       \/ \E n \in (1..MaxProducts) \cup {None} : OpenQuote(r, q, n)
       \/ CollectQuote(r, q) \/ ReadHeader(r, q) \/ WriteCopy(r, q)
  \/ \E r \in Requests : \/ ClearProducts(r) \/ SaveQuote(r) \/ DeleteQuote(r)
                         \/ ReadProducts(r) \/ GiveUp(r)
  \/ \E r \in Requests, k \in Parts : ReadPart(r, k)

-----------------------------------------------------------------------------
(* The products of a quotation are one list of one request: two requests     *)
(* that edit it never leave both their lists.  A copy made while its source  *)
(* was edited or deleted, and a copy of such a copy, may lack products,      *)
(* items or workings, but holds nothing of a second list; any other          *)
(* quotation holds its list whole.                                          *)
QuotationsWhole ==
  \A q \in Quotations : IsRow(q) =>
    /\ quotes[q].products \in SUBSET ProductRows
    /\ \A p \in quotes[q].products : p.list = quotes[q].list
    /\ quotes[q].clean =>
         quotes[q].products = Graph(quotes[q].list, sizes[quotes[q].list])

(* What the proof of it needs beside it. *)
QuoteRows == [list : 0..MaxWritten, products : SUBSET ProductRows, clean : BOOLEAN]
WorkRows ==
  [kind : {"edit", "delete", "copy"}, step : 1..4, quote : Quotations,
   rows : SUBSET ProductRows, size : (1..MaxProducts) \cup {None},
   list : 0..MaxWritten, clean : BOOLEAN]

QuotesConstants ==
  /\ MaxProducts \in Nat /\ MaxWritten \in Nat
  /\ None # Gone /\ None \notin Requests \cup WorkRows \cup (1..MaxProducts)
  /\ \A x \in {None, Gone} : x \notin QuoteRows

=============================================================================
