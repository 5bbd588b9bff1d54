----------------------------- MODULE WorkOrders -----------------------------
(***************************************************************************)
(* One work order of the ERP and its production stages (JobViewSet,         *)
(* src/apps/erp/views.py).  Its commands and edits run one at a time, under *)
(* the lock of the company; archiving it reads the row without any lock and *)
(* writes it back whole.                                                    *)
(*                                                                         *)
(* Left out: department, owner, instructions, the reason of a status, and   *)
(* rework, a part of what is rejected.                                      *)
(***************************************************************************)
EXTENDS Naturals

CONSTANTS
  Stages,       \* positions of the stages that a job is given
  MaxQty,       \* bound on the quantity of a job
  MaxVersion,   \* bound on the version of a row
  Clerks,       \* requests that archive the job
  None

VARIABLES
  job,        \* the row of the job, None before
  stages,     \* planned, completed and rejected quantity and status of each
  reads,      \* the row that each archiving request has read
  closedAs,   \* history: the stages when the job was closed
  raced       \* history: was an archived row older than the stored one?

workVars == <<job, stages, reads, closedAs, raced>>

Quantity == 0..MaxQty
ClosedStates == {"completed", "cancelled"}
Live == job # None /\ ~job.archived /\ job.version < MaxVersion
Done(s) == stages[s].status = "completed"
Touch(row) == [row EXCEPT !.version = @ + 1]

WorkInit ==
  /\ job = None
  /\ stages = [s \in Stages |-> None]
  /\ reads = [c \in Clerks |-> None]
  /\ closedAs = None
  /\ raced = FALSE

(* perform_create: the stages of the published workflow, or the usual four,  *)
(* each planned for the quantity of the job.                                *)
CreateJob(q) ==
  /\ job = None
  /\ job' = [status |-> "pending", qty |-> q, completed |-> 0, version |-> 1, archived |-> FALSE]
  /\ stages' = [s \in Stages |-> [planned |-> q, completed |-> 0, rejected |-> 0,
                                  status |-> "pending"]]
  /\ UNCHANGED <<reads, closedAs, raced>>

(* ERPViewSet.update: no status of a job is immutable, and the stages keep   *)
(* their plan.                                                              *)
EditJob(q) ==
  /\ Live
  /\ job' = Touch([job EXCEPT !.qty = q])
  /\ UNCHANGED <<stages, reads, closedAs, raced>>

Targets(s) ==
  CASE s = "pending"     -> {"in_progress", "cancelled"}
    [] s = "in_progress" -> {"on_hold", "completed", "cancelled"}
    [] s = "on_hold"     -> {"in_progress", "cancelled"}
    [] OTHER             -> {}

Transition(target) ==
  /\ Live
  /\ target \in Targets(job.status)
  /\ target = "completed" => \A s \in Stages : Done(s)
  /\ job' = Touch([job EXCEPT !.status = target,
                              !.completed = IF target = "completed" THEN job.qty ELSE @])
  /\ closedAs' = IF target \in ClosedStates THEN stages ELSE closedAs
  /\ UNCHANGED <<stages, reads, raced>>

(* stage: what was completed and rejected so far, within the plan.           *)
RecordStage(s, completed, rejected) ==
  /\ Live
  /\ job.status \notin ClosedStates
  /\ completed + rejected <= stages[s].planned
  /\ stages' = [stages EXCEPT ![s] =
       [@ EXCEPT !.completed = completed, !.rejected = rejected,
                 !.status = IF completed = stages[s].planned THEN "completed" ELSE "in_progress"]]
  /\ job' = Touch([job EXCEPT !.status = IF @ = "pending" THEN "in_progress" ELSE @])
  /\ UNCHANGED <<reads, closedAs, raced>>

(* ERPViewSet.destroy reads the job ... *)
StartArchive(c) ==
  /\ reads[c] = None
  /\ Live
  /\ reads' = [reads EXCEPT ![c] = job]
  /\ UNCHANGED <<job, stages, closedAs, raced>>

(* ... and writes all its columns.                                          *)
FinishArchive(c) ==
  /\ reads[c] # None
  /\ job' = Touch([reads[c] EXCEPT !.archived = TRUE])
  /\ raced' = (raced \/ job.status # reads[c].status)
  /\ reads' = [reads EXCEPT ![c] = None]
  /\ UNCHANGED <<stages, closedAs>>

WorkNext ==
  \/ \E q \in 1..MaxQty : CreateJob(q) \/ EditJob(q)
  \/ \E t \in {"in_progress", "on_hold", "completed", "cancelled"} : Transition(t)
  \/ \E s \in Stages, a, b \in Quantity : RecordStage(s, a, b)
  \/ \E c \in Clerks : StartArchive(c) \/ FinishArchive(c)

-----------------------------------------------------------------------------
(* Work that is reported done was done: a completed job has completed every  *)
(* stage to its plan, the stages of a closed job stay as they were when it   *)
(* was closed, and it is never open again, unless a request that had read it *)
(* while it was open archives it.                                           *)
WorkReportedTruly ==
  job # None =>
    /\ job.status = "completed" =>
         \A s \in Stages : stages[s].completed = stages[s].planned
    /\ \A s \in Stages : stages[s].completed + stages[s].rejected <= stages[s].planned
    /\ closedAs # None => stages = closedAs
    /\ closedAs # None => job.status \in ClosedStates \/ (job.archived /\ raced)

-----------------------------------------------------------------------------
(* The rows, and what is assumed of the constants.                          *)
JobRows ==
  [status : {"pending", "in_progress", "on_hold"} \cup ClosedStates, qty : Quantity,
   completed : Quantity, version : Nat, archived : BOOLEAN]
StageRows ==
  [planned : Quantity, completed : Quantity, rejected : Quantity,
   status : {"pending", "in_progress", "completed"}]

WorkConstants == MaxQty \in Nat /\ None \notin JobRows \cup [Stages -> StageRows]

WorkTypeOK ==
  /\ job \in JobRows \cup {None}
  /\ IF job = None THEN closedAs = None /\ \A c \in Clerks : reads[c] = None
                   ELSE stages \in [Stages -> StageRows]
  /\ reads \in [Clerks -> JobRows \cup {None}]
  /\ closedAs \in [Stages -> StageRows] \cup {None}
  /\ raced \in BOOLEAN

=============================================================================
