---------------------------- MODULE CaseLifecycle ----------------------------
(***************************************************************************)
(* What the statuses of a service case allow (cases/service.py), for the   *)
(* case workflow and for the rules that watch it.                          *)
(***************************************************************************)
CONSTANT NoUser  \* assigned_to is NULL

Statuses == {"new", "triaged", "assigned", "awaiting_response", "responded",
             "resolved", "closed", "rejected"}

Severities == {"medium", "critical"}  \* "low" and "high" behave as "medium"

\* OPEN_STATUSES
OpenStatuses == {"new", "triaged", "assigned", "awaiting_response", "responded"}

\* STATUS_TRANSITIONS
Transitions ==
    [status \in Statuses |->
        CASE status = "new" -> {"triaged", "assigned", "rejected"}
          [] status = "triaged" -> {"assigned", "rejected"}
          [] status = "assigned" -> {"awaiting_response", "responded", "resolved"}
          [] status = "awaiting_response" -> {"assigned", "responded", "resolved"}
          [] status = "responded" -> {"awaiting_response", "resolved"}
          [] status = "resolved" -> {"assigned", "closed"}
          [] OTHER -> {}]

\* Mutant: assigning sets a status the column's type does not have.
StatusInWork(status) ==
    IF status \in {"new", "triaged", "resolved"} THEN "in_progress" ELSE status

\* assign_case: assigning starts the work, or starts it again.
StatusOnAssign(status) ==
    IF status \in {"new", "triaged", "resolved"} THEN "assigned" ELSE status

\* Mutant: a case nobody is assigned to can be moved.
NoAssigneeNeeded(row, next) == next \in Transitions[row.status]

\* transition_case: working on a case needs somebody who does.
MayMove(row, next) ==
    /\ next \in Transitions[row.status]
    /\ next \in {"assigned", "awaiting_response", "responded", "resolved"} =>
          row.assigned_to # NoUser
=============================================================================
