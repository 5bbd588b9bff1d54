-------------------------------- MODULE Leave --------------------------------
(***************************************************************************)
(* Leave requests of one employee of the ERP: asked for, edited, reviewed,  *)
(* cancelled and archived, beside holidays, the allowance of paid leave and *)
(* the payroll that fixes a month (src/apps/erp/workforce.py and LeaveViewSet *)
(* of src/apps/erp/views.py).  All but archiving run under the lock of the  *)
(* company; archiving reads the row without a lock and writes it back whole.*)
(*                                                                         *)
(* Dates are numbers; YearOf and MonthOf group them.  Left out: half days   *)
(* and weekly days off, which like holidays are no working days, and the    *)
(* rule that nobody reviews his own request.                                *)
(***************************************************************************)
EXTENDS Integers, FiniteSets, Quantities

CONSTANTS
  Requests,     \* rows of LeaveRequest
  Dates, YearOf(_), MonthOf(_),
  Feasts,       \* dates that may become holidays
  Allowance,    \* LeaveType.annual_allowance
  Attended,     \* dates with an attendance row
  Clerks,       \* requests that archive a row
  Closed, None

VARIABLES
  leaves,      \* the rows; Closed when rejected, cancelled or archived: no rule reads
               \* these, so their dates are not kept
  holidays,    \* dates that are holidays
  fixed,       \* months whose payroll is finalized
  reads,       \* the row that each archiving request has read
  paidFor      \* history: the approved leave of each finalized month when it was
               \* finalized, None once it was changed in a way told below

leaveVars == <<leaves, holidays, fixed, reads, paidFor>>

LeaveMonths == {MonthOf(d) : d \in Dates}
Open == {l \in Requests : leaves[l] \notin {None, Closed}}
Approved == {l \in Open : leaves[l].status = "approved"}
Pending == Open \ Approved

Span(row) == {d \in Dates : row.first <= d /\ d <= row.last}
MonthsOf(row) == {MonthOf(d) : d \in Span(row)}
OnLeave(m) == {l \in Approved : m \in MonthsOf(leaves[l])}

(* leave_days: the working days. *)
LeaveDays(row) == Cardinality(Span(row) \ holidays)

(* Finalizing a run locks the attendance rows of its month.                 *)
LockedDates == {d \in Attended : MonthOf(d) \in fixed}

DaysUsed(year) ==
  Total([l \in Approved |-> leaves[l].days],
        {l \in Approved : leaves[l].paid /\ YearOf(leaves[l].first) = year})

Changed(months) == [m \in LeaveMonths |-> IF m \in months THEN None ELSE paidFor[m]]

LeaveInit ==
  /\ leaves = [l \in Requests |-> None]
  /\ holidays = {}
  /\ fixed = {}
  /\ reads = [c \in Clerks |-> None]
  /\ paidFor = [m \in LeaveMonths |-> None]

(* LeaveViewSet.perform_create; the days it stores are counted again when the *)
(* request is approved, and nothing reads them before.                      *)
AskLeave(l, a, b, paid) ==
  LET row == [first |-> a, last |-> b, paid |-> paid, days |-> 0, status |-> "pending"]
  IN  /\ leaves[l] = None /\ a <= b
      /\ LeaveDays(row) > 0
      /\ leaves' = [leaves EXCEPT ![l] = row]
      /\ UNCHANGED <<holidays, fixed, reads, paidFor>>

(* ERPViewSet.update, while it is not reviewed. *)
EditLeave(l, a, b, paid) ==
  /\ l \in Pending /\ a <= b
  /\ leaves' = [leaves EXCEPT ![l] = [@ EXCEPT !.first = a, !.last = b, !.paid = paid]]
  /\ UNCHANGED <<holidays, fixed, reads, paidFor>>

(* review_leave *)
ApproveLeave(l) ==
  LET row == [leaves[l] EXCEPT !.days = LeaveDays(leaves[l]), !.status = "approved"]
  IN  /\ l \in Pending
      /\ \A k \in Approved : Span(leaves[k]) \cap Span(row) = {}
      /\ Span(row) \cap LockedDates = {}
      /\ row.days > 0
      /\ row.paid => DaysUsed(YearOf(row.first)) + row.days <= Allowance
      /\ leaves' = [leaves EXCEPT ![l] = row]
      /\ paidFor' = Changed({m \in MonthsOf(row) : \A d \in Span(row) \cap Attended : MonthOf(d) # m})
      /\ UNCHANGED <<holidays, fixed, reads>>

RejectLeave(l) ==
  /\ l \in Pending
  /\ leaves' = [leaves EXCEPT ![l] = Closed]
  /\ UNCHANGED <<holidays, fixed, reads, paidFor>>

(* cancel: check_employee_period for the months of its first and last day.   *)
CancelLeave(l) ==
  /\ l \in Open
  /\ MonthOf(leaves[l].first) \notin fixed /\ MonthOf(leaves[l].last) \notin fixed
  /\ leaves' = [leaves EXCEPT ![l] = Closed]
  /\ paidFor' = Changed(MonthsOf(leaves[l]) \ {MonthOf(leaves[l].first), MonthOf(leaves[l].last)})
  /\ UNCHANGED <<holidays, fixed, reads>>

(* ERPViewSet.destroy reads a row that is not immutable ... *)
StartArchive(c, l) ==
  /\ reads[c] = None /\ l \in Pending
  /\ reads' = [reads EXCEPT ![c] = l]
  /\ UNCHANGED <<leaves, holidays, fixed, paidFor>>

(* ... and writes it as it was read: archived, and still pending.            *)
FinishArchive(c) ==
  /\ reads[c] # None
  /\ leaves' = [leaves EXCEPT ![reads[c]] = Closed]
  /\ paidFor' = Changed(IF reads[c] \in Approved THEN MonthsOf(leaves[reads[c]]) ELSE {})
  /\ reads' = [reads EXCEPT ![c] = None]
  /\ UNCHANGED <<holidays, fixed, paidFor>>

-----------------------------------------------------------------------------
(* Holidays are edited like any other record.                               *)
AddHoliday(d) ==
  /\ holidays' = holidays \cup {d}
  /\ UNCHANGED <<leaves, fixed, reads, paidFor>>

(* finalize_payroll, of which PayrollRuns tells the rest.                    *)
FixMonth(m) ==
  /\ m \notin fixed
  /\ fixed' = fixed \cup {m}
  /\ paidFor' = [paidFor EXCEPT ![m] = OnLeave(m)]
  /\ UNCHANGED <<leaves, holidays, reads>>

LeaveNext ==
  \/ \E l \in Requests :
       \/ \E a, b \in Dates, paid \in BOOLEAN : AskLeave(l, a, b, paid) \/ EditLeave(l, a, b, paid)
       \/ ApproveLeave(l) \/ RejectLeave(l) \/ CancelLeave(l)
       \/ \E c \in Clerks : StartArchive(c, l)
  \/ \E c \in Clerks : FinishArchive(c)
  \/ \E d \in Feasts \ holidays : AddHoliday(d)
  \/ \E m \in LeaveMonths : FixMonth(m)

-----------------------------------------------------------------------------
(* Approved requests of an employee never share a date, and the paid days    *)
(* that begin in a year are within the allowance.                            *)
(* The leave that a finalized payroll was calculated with is still the leave *)
(* of that month, but for the ways round that the code leaves open: a leave  *)
(* is approved over a month whose dates have no attendance row, one that     *)
(* begins and ends in open months is cancelled, or one is archived by a      *)
(* request that read it before it was approved.                             *)
LeaveFitsPayroll ==
  /\ \A k, l \in Approved : k # l => Span(leaves[k]) \cap Span(leaves[l]) = {}
  /\ \A y \in {YearOf(d) : d \in Dates} : DaysUsed(y) <= Allowance
  /\ \A m \in fixed : paidFor[m] \in {None, OnLeave(m)}

-----------------------------------------------------------------------------
(* The rows, and what is assumed of the constants.                          *)
LeaveRows ==
  [first : Dates, last : Dates, paid : BOOLEAN, days : 0..Cardinality(Dates),
   status : {"pending", "approved"}]

LeaveConstants ==
  /\ IsFiniteSet(Requests) /\ IsFiniteSet(Dates) /\ Allowance \in Nat
  /\ None # Closed /\ {None, Closed} \cap LeaveRows = {} /\ None \notin Requests

LeaveTypeOK ==
  /\ leaves \in [Requests -> LeaveRows \cup {None, Closed}]
  /\ fixed \subseteq LeaveMonths
  /\ reads \in [Clerks -> Requests \cup {None}]
  /\ paidFor \in [LeaveMonths -> (SUBSET Requests) \cup {None}]

=============================================================================
