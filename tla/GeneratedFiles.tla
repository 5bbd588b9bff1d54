--------------------------- MODULE GeneratedFiles ---------------------------
(***************************************************************************)
(* Generated documents in the object store, and the rows about them        *)
(* (src/apps/core/r2_storage.py).  A document is built when it is asked    *)
(* for and kept for thirty days; a scheduled task removes what has         *)
(* expired.  The store and the database share no transaction: a request    *)
(* and the task may die between their steps, and overlap.  The store is      *)
(* configured; a file it does not take is kept on the local disk instead,    *)
(* and counts as stored all the same, though a link leads to the store.      *)
(*                                                                         *)
(* Definitions commented "Mutant:" are mistakes for the properties to find. *)
(***************************************************************************)
EXTENDS FiniteSets, Naturals

CONSTANTS
  Documents,    \* what documents are generated of: a type and a code
  Rows,         \* primary keys of the rows about them
  Keys,         \* object keys, each with a random token: none is used twice
  Builders,     \* requests that can be under way at once
  None

VARIABLES
  rows,         \* document, key, expiry and deletion mark of each row
  objects,      \* the keys under which the store holds a file
  local,        \* those under which the local disk does, when a put failed
  spent,        \* the keys that have been drawn
  builds,       \* what each request under way is building
  sweep         \* the rows the task has listed and not marked yet, or None

filesVars == <<rows, objects, local, spent, builds, sweep>>

-----------------------------------------------------------------------------
RowType == [document : Documents, key : Keys, expired : BOOLEAN, deleted : BOOLEAN]
Entry == [row : Rows, key : Keys, removed : BOOLEAN]

RowsOf(d) == {i \in Rows : rows[i] # None /\ rows[i].document = d}
Valid(i) == ~rows[i].expired /\ ~rows[i].deleted
At(b, step) == builds[b] # None /\ builds[b].step = step

FilesInit ==
  /\ rows = [i \in Rows |-> None]
  /\ objects = {} /\ local = {}
  /\ spent = {}
  /\ builds = [b \in Builders |-> None]
  /\ sweep = None

(* get_or_regenerate_document finds no valid row: the document is built     *)
(* again, and gets a key of its own.  (With a valid row it answers with a   *)
(* link to the row's key, and nothing changes.)                             *)
Build(b, d, k) ==
  /\ builds[b] = None
  /\ \A i \in RowsOf(d) : ~Valid(i)
  /\ k \notin spent
  /\ builds' = [builds EXCEPT ![b] = [document |-> d, key |-> k, step |-> "upload"]]
  /\ spent' = spent \cup {k}
  /\ UNCHANGED <<rows, objects, local, sweep>>

(* store_generated_document: upload_bytes_to_r2.  An error of the put is     *)
(* swallowed, whether the store took the file or not ...                    *)
Upload(b) ==
  /\ At(b, "upload")
  /\ LET k == builds[b].key IN
       \/ objects' = objects \cup {k} /\ UNCHANGED local
       \/ objects' \in {objects, objects \cup {k}} /\ local' = local \cup {k}
  /\ builds' = [builds EXCEPT ![b].step = "lookup"]
  /\ UNCHANGED <<rows, spent, sweep>>

(* ... update_or_create: the one row of the document is locked and updated, *)
(* two rows are an error, and when there is none ...                        *)
Record(b) ==
  /\ At(b, "lookup")
  /\ LET d == builds[b].document IN
       \/ /\ RowsOf(d) = {}
          /\ builds' = [builds EXCEPT ![b].step = "insert"]
          /\ UNCHANGED rows
       \/ /\ Cardinality(RowsOf(d)) = 1
          /\ rows' = [i \in Rows |-> IF i \in RowsOf(d)
                                     THEN [document |-> d, key |-> builds[b].key,
                                           expired |-> FALSE, deleted |-> FALSE]
                                     ELSE rows[i]]
          /\ builds' = [builds EXCEPT ![b] = None]
       \/ /\ Cardinality(RowsOf(d)) > 1
          /\ builds' = [builds EXCEPT ![b] = None]
          /\ UNCHANGED rows
  /\ UNCHANGED <<objects, local, spent, sweep>>

(* ... one is inserted, whatever other requests have inserted since.        *)
Insert(b, i) ==
  /\ At(b, "insert")
  /\ rows[i] = None
  /\ rows' = [rows EXCEPT ![i] = [document |-> builds[b].document, key |-> builds[b].key,
                                  expired |-> FALSE, deleted |-> FALSE]]
  /\ builds' = [builds EXCEPT ![b] = None]
  /\ UNCHANGED <<objects, local, spent, sweep>>

DieBuilding(b) ==
  /\ builds[b] # None
  /\ builds' = [builds EXCEPT ![b] = None]
  /\ UNCHANGED <<rows, objects, local, spent, sweep>>

(* Thirty days pass. *)
Expire(i) ==
  /\ rows[i] # None /\ ~rows[i].expired
  /\ rows' = [rows EXCEPT ![i].expired = TRUE]
  /\ UNCHANGED <<objects, local, spent, builds, sweep>>

-----------------------------------------------------------------------------
(* cleanup_expired_r2_documents lists the rows that have expired ... *)
StartSweep ==
  /\ sweep = None
  /\ sweep' = {[row |-> i, key |-> rows[i].key, removed |-> FALSE] :
                 i \in {j \in Rows : rows[j] # None /\ rows[j].expired /\ ~rows[j].deleted}}
  /\ UNCHANGED <<rows, objects, local, spent, builds>>

(* Mutant: the key is looked up when the file is deleted. *)
RemoveCurrentObject(e) ==
  /\ sweep # None /\ e \in sweep /\ ~e.removed
  /\ objects' \in {objects, objects \ {rows[e.row].key}}
  /\ local' = local \ {rows[e.row].key}
  /\ sweep' = (sweep \ {e}) \cup {[e EXCEPT !.removed = TRUE]}
  /\ UNCHANGED <<rows, spent, builds>>

(* ... deletes the file of each in both places, an error of the store being  *)
(* ignored ...                                                              *)
RemoveObject(e) ==
  /\ sweep # None /\ e \in sweep /\ ~e.removed
  /\ objects' \in {objects, objects \ {e.key}}
  /\ local' = local \ {e.key}
  /\ sweep' = (sweep \ {e}) \cup {[e EXCEPT !.removed = TRUE]}
  /\ UNCHANGED <<rows, spent, builds>>

(* ... and marks the row, whichever file it is about by now.                *)
MarkRow(e) ==
  /\ sweep # None /\ e \in sweep /\ e.removed
  /\ rows' = [rows EXCEPT ![e.row].deleted = TRUE]
  /\ sweep' = sweep \ {e}
  /\ UNCHANGED <<objects, local, spent, builds>>

(* The task ends, or dies before it has ended. *)
EndSweep ==
  /\ sweep # None
  /\ sweep' = None
  /\ UNCHANGED <<rows, objects, local, spent, builds>>

FilesNext ==
  \/ \E b \in Builders, d \in Documents, k \in Keys : Build(b, d, k)
  \/ \E b \in Builders : Upload(b) \/ Record(b) \/ DieBuilding(b)
  \/ \E b \in Builders, i \in Rows : Insert(b, i)
  \/ \E i \in Rows : Expire(i)
  \/ \E e \in Entry : RemoveObject(e) \/ MarkRow(e)
  \/ StartSweep
  \/ EndSweep

FilesSpec == FilesInit /\ [][FilesNext]_filesVars

-----------------------------------------------------------------------------
FilesTypeOK ==
  /\ \A i \in Rows : rows[i] # None => rows[i] \in RowType
  /\ objects \cup local \subseteq spent /\ spent \subseteq Keys
  /\ sweep # None => sweep \subseteq Entry

(* A row that is neither expired nor marked deleted, the kind a link is     *)
(* given out for, has its file, whatever requests and sweeps overlap or     *)
(* die: in the store, where the link leads, unless the put failed, and then  *)
(* on the local disk, where it does not.                                    *)
LinksHaveFiles ==
  /\ FilesTypeOK
  /\ \A i \in Rows : rows[i] # None /\ Valid(i) => rows[i].key \in objects \cup local

(* The rows, and what is assumed of the constants.                          *)
BuildRows == [document : Documents, key : Keys, step : {"upload", "lookup", "insert"}]
FilesConstants == IsFiniteSet(Rows) /\ None \notin RowType /\ None \notin BuildRows

=============================================================================
