------------------------------ MODULE Drawings ------------------------------
(***************************************************************************)
(* Drawings of deals and orders (src/apps/core/crm_views.py from line 1127) *)
(* and their files in the object store.  A drawing is added to a deal or   *)
(* to an order, approved or rejected, shown in the order of its deal, and  *)
(* deleted: first the file, then the row.  An order takes its drawings     *)
(* with it when it is deleted.                                             *)
(*                                                                         *)
(* Approving and rejecting read the row and save all of it, and insert it  *)
(* again when it has been deleted meanwhile; showing a drawing in the order *)
(* of its deal reads both and writes two columns.                          *)
(***************************************************************************)
CONSTANTS
  DrawingIds, DealIds, OrderIds,
  Reviews,      \* requests that can be under way at once
  None,         \* no row yet, no value
  Gone          \* a row that has been deleted

VARIABLES
  drawings,     \* deal, order, status and visibility of each drawing
  dealOf,       \* the deal of each order, None or Gone
  filed,        \* the drawings whose file is in the store
  reviews       \* what each change under way has read and will write

drawingVars == <<drawings, dealOf, filed, reviews>>

DrawingRows == [deal : DealIds \cup {None}, order : OrderIds \cup {None},
                status : {"pending", "approved", "rejected"}, shown : BOOLEAN]
Kept(x) == x \notin {None, Gone}

(* deal.order: the order of a deal, or None. *)
OrderOf(d) == IF d # None /\ \E o \in OrderIds : dealOf[o] = d
              THEN CHOOSE o \in OrderIds : dealOf[o] = d ELSE None

DrawingsInit ==
  /\ drawings = [i \in DrawingIds |-> None]
  /\ dealOf = [o \in OrderIds |-> None]
  /\ filed = {}
  /\ reviews = [r \in Reviews |-> None]

(* OrderListCreateView.post: a deal has one order. *)
OpenOrder(o, d) ==
  /\ dealOf[o] = None
  /\ OrderOf(d) = None
  /\ dealOf' = [dealOf EXCEPT ![o] = d]
  /\ UNCHANGED <<drawings, filed, reviews>>

(* OrderDetailView.delete; the files stay in the store. *)
DropOrder(o) ==
  /\ Kept(dealOf[o])
  /\ dealOf' = [dealOf EXCEPT ![o] = Gone]
  /\ drawings' = [i \in DrawingIds |->
       IF Kept(drawings[i]) /\ drawings[i].order = o THEN Gone ELSE drawings[i]]
  /\ UNCHANGED <<filed, reviews>>

-----------------------------------------------------------------------------
(* DrawingUploadUrlView.post, and the browser that puts the file. *)
PutFile(i) ==
  /\ drawings[i] = None
  /\ filed' = filed \cup {i}
  /\ UNCHANGED <<drawings, dealOf, reviews>>

(* DrawingCreateView.post, for a deal or for an order; general drawings and *)
(* those of administrators are approved at once.                            *)
AddDrawing(i, d, o, s) ==
  /\ drawings[i] = None
  /\ \/ d # None /\ o = None
     \/ d = None /\ o # None
  /\ o # None => Kept(dealOf[o])
  /\ s \in {"pending", "approved"}
  /\ drawings' = [drawings EXCEPT ![i] =
       [deal |-> d, order |-> o, status |-> s, shown |-> FALSE]]
  /\ UNCHANGED <<dealOf, filed, reviews>>

(* DrawingShowInOrderView.patch reads the drawing and its deal's order ...  *)
ReadToShow(r, i) ==
  /\ reviews[r] = None
  /\ Kept(drawings[i])
  /\ LET shown == ~drawings[i].shown IN
       reviews' = [reviews EXCEPT ![r] = [kind |-> "show", drawing |-> i,
         row |-> [drawings[i] EXCEPT
                    !.shown = shown,
                    !.order = IF shown THEN OrderOf(drawings[i].deal) ELSE None]]]
  /\ UNCHANGED <<drawings, dealOf, filed>>

(* The database takes a row of an order only while the order is there. *)
Accepted(row) == row.order # None => Kept(dealOf[row.order])

(* ... and writes these two columns, if the drawing is still there.         *)
SaveShown(r) ==
  /\ reviews[r] # None /\ reviews[r].kind = "show"
  /\ LET i == reviews[r].drawing
         row == reviews[r].row
     IN  drawings' = IF Kept(drawings[i]) /\ Accepted(row)
                     THEN [drawings EXCEPT ![i].shown = row.shown, ![i].order = row.order]
                     ELSE drawings
  /\ reviews' = [reviews EXCEPT ![r] = None]
  /\ UNCHANGED <<dealOf, filed>>

(* DrawingStatusView.post reads the drawing ... *)
ReadDrawing(r, i) ==
  /\ reviews[r] = None
  /\ Kept(drawings[i])
  /\ reviews' = [reviews EXCEPT ![r] = [kind |-> "review", drawing |-> i, row |-> drawings[i]]]
  /\ UNCHANGED <<drawings, dealOf, filed>>

(* ... and saves all of it, which the database refuses without its order.   *)
SaveReview(r, s) ==
  /\ reviews[r] # None /\ reviews[r].kind = "review"
  /\ s \in {"approved", "rejected"}
  /\ LET row == [reviews[r].row EXCEPT !.status = s] IN
       drawings' = IF Accepted(row) THEN [drawings EXCEPT ![reviews[r].drawing] = row]
                   ELSE drawings
  /\ reviews' = [reviews EXCEPT ![r] = None]
  /\ UNCHANGED <<dealOf, filed>>

(* DrawingDetailView.delete: the file, and then the row, which stays when   *)
(* the process dies in between.                                             *)
DeleteFile(i) ==
  /\ Kept(drawings[i])
  /\ filed' = filed \ {i}
  /\ UNCHANGED <<drawings, dealOf, reviews>>

DeleteDrawing(i) ==
  /\ Kept(drawings[i])
  /\ i \notin filed
  /\ drawings' = [drawings EXCEPT ![i] = Gone]
  /\ UNCHANGED <<dealOf, filed, reviews>>

DrawingsNext ==
  \/ \E o \in OrderIds, d \in DealIds : OpenOrder(o, d)
  \/ \E o \in OrderIds : DropOrder(o)
  \/ \E i \in DrawingIds, d \in DealIds \cup {None}, o \in OrderIds \cup {None},
        s \in {"pending", "approved"} : AddDrawing(i, d, o, s)
  \/ \E i \in DrawingIds : PutFile(i) \/ DeleteFile(i) \/ DeleteDrawing(i)
  \/ \E r \in Reviews, i \in DrawingIds : ReadDrawing(r, i) \/ ReadToShow(r, i)
  \/ \E r \in Reviews : SaveShown(r)
  \/ \E r \in Reviews, s \in {"approved", "rejected"} : SaveReview(r, s)

DrawingsSpec == DrawingsInit /\ [][DrawingsNext]_drawingVars

-----------------------------------------------------------------------------
DrawingsTypeOK ==
  /\ \A i \in DrawingIds : Kept(drawings[i]) => drawings[i] \in DrawingRows
  /\ \A o \in OrderIds : dealOf[o] \in DealIds \cup {None, Gone}
  /\ filed \subseteq DrawingIds

(* A drawing that is of a deal and of an order is of the one order that the *)
(* deal has now: through orders that are deleted and placed again, and      *)
(* reviews that save what they read before.                                 *)
ShownInOwnOrder ==
  /\ DrawingsTypeOK
  /\ \A i \in DrawingIds : Kept(drawings[i]) /\ drawings[i].order # None =>
    /\ Kept(dealOf[drawings[i].order])
    /\ drawings[i].deal # None => dealOf[drawings[i].order] = drawings[i].deal

(* The rows, and what is assumed of the constants.                          *)
ReviewRows == [kind : {"show", "review"}, drawing : DrawingIds, row : DrawingRows]
DrawingsConstants ==
  /\ \A x \in {None, Gone} : x \notin DrawingRows /\ x \notin DealIds
  /\ None \notin ReviewRows /\ None # Gone

=============================================================================
