---------------------------- MODULE Notifications ----------------------------
(***************************************************************************)
(* The notification rules (notifications/service.py, the cron job of       *)
(* worker.py).  The worker every five minutes, and every request for the   *)
(* list of notifications, evaluates the rules of the tenant: it takes an   *)
(* advisory lock, reads users, cases and replies one statement after the   *)
(* other, and inserts an alert, which is a row of the audit log, for each  *)
(* event that has none.  The lock ends with the transaction.               *)
(*                                                                         *)
(* Cases and replies change meanwhile.  Cases.tla and WhatsAppReplies.tla  *)
(* model how; here each of their requests is one action with the columns   *)
(* the rules read.  One tick is two hours.                                 *)
(***************************************************************************)
EXTENDS CaseLifecycle, Integers, FiniteSets

CONSTANTS
    Users,        \* user ids
    Managers,     \* those with the role comms_officer or dept_head
    CrisisLeads,  \* those with the role crisis_lead
    Approvers,    \* those with the role dept_head
    Cases, Replies,
    Readers,      \* the users who mark their alerts as read
    Evaluators,   \* database sessions that evaluate the rules
    Worker,       \* the one of the cron job; the others serve requests
    SlaTicks,     \* sla_hours of the taxonomy nodes
    MaxRequests,  \* bound on the requests that change something
    MaxFaults,    \* bound on the evaluations that fail
    MaxClock      \* the clock stops here

ASSUME RolesAssumption ==
    /\ Approvers \subseteq Managers
    /\ Managers \subseteq Users
    /\ CrisisLeads \subseteq Users /\ Readers \subseteq Users
    /\ NoUser \notin Users

ASSUME EvaluatorsAssumption == Worker \in Evaluators

ASSUME BoundsAssumption ==
    /\ SlaTicks \subseteq Nat \ {0}
    /\ MaxRequests \in Nat /\ MaxFaults \in Nat /\ MaxClock \in Nat \ {0}

VARIABLES
    kase,     \* core.cases
    reply,    \* core.responses
    active,   \* users.is_active, as the set of active users
    session,  \* what each evaluation has read and is about to insert
    alerts,   \* number of notification.trigger rows for each event
    read,     \* events with a notification.read row of their recipient
    clock,    \* the time
    requests, \* those that changed something, for MaxRequests
    faults    \* failed evaluations so far, for MaxFaults

rows == <<kase, reply, active>>
evaluation == <<session, alerts, read, faults>>
vars == <<kase, reply, active, session, alerts, read, clock, requests, faults>>

-----------------------------------------------------------------------------
DueSoonTicks == 2  \* timedelta(hours=4)
WaitingTicks == 1  \* timedelta(hours=2)

NoDeadline == 0
MaybeUser == Users \cup {NoUser}

Case == [status : Statuses \cup {"absent"}, severity : Severities, assigned_to : MaybeUser,
         sla_due_at : Nat, updated_at : Nat]

AbsentCase == [status |-> "absent", severity |-> "medium", assigned_to |-> NoUser,
               sla_due_at |-> NoDeadline, updated_at |-> 0]

Reply == [status : {"absent", "draft", "pending_approval", "published"},
          created_by : MaybeUser, edited_by : MaybeUser]

AbsentReply == [status |-> "absent", created_by |-> NoUser, edited_by |-> NoUser]

\* notification_id hashes these three.
CaseKinds == {"case_assigned", "case_unassigned", "sla_breached", "sla_due_soon",
              "case_critical", "customer_waiting"}
Events == [kind : CaseKinds, target : Cases, recipient : Users]
          \cup [kind : {"draft_approval"}, target : Replies, recipient : Users]

\* users: the active users read; now: the time taken; new: the alerts inserted
\* and not committed; reader: whose list a request marks as read, and marking
\* what is left of it.
Session == [pc : {"idle", "locked", "timed", "casesRead", "committed", "marking"},
            users : SUBSET Users, now : Nat, new : SUBSET Events,
            reader : MaybeUser, marking : SUBSET Events]

IdleSession == [pc |-> "idle", users |-> {}, now |-> 0, new |-> {},
                reader |-> NoUser, marking |-> {}]

TypeOK ==
    /\ kase \in [Cases -> Case]
    /\ reply \in [Replies -> Reply]
    /\ active \subseteq Users
    /\ session \in [Evaluators -> Session]
    /\ alerts \in [Events -> Nat]
    /\ read \subseteq Events
    /\ clock \in 1..MaxClock
    /\ requests \in 0..MaxRequests
    /\ faults \in 0..MaxFaults

Init ==
    /\ kase = [c \in Cases |-> AbsentCase]
    /\ reply = [r \in Replies |-> AbsentReply]
    /\ active = Users
    /\ session = [s \in Evaluators |-> IdleSession]
    /\ alerts = [e \in Events |-> 0]
    /\ read = {}
    /\ clock = 1
    /\ requests = 0
    /\ faults = 0

-----------------------------------------------------------------------------
(* The rules: the events that call for an alert, given the row, the active *)
(* users and the time that were read.                                      *)

To(kind, target, recipients) == [kind : {kind}, target : {target}, recipient : recipients]

\* Who looks after a case: its assignee, active or not, else every manager.
Owners(row, users) ==
    IF row.assigned_to # NoUser THEN {row.assigned_to} ELSE Managers \cap users

AssignmentAlerts(c, row, users) ==
    CASE row.assigned_to # NoUser -> To("case_assigned", c, {row.assigned_to})
      [] row.assigned_to = NoUser /\ row.status \in {"new", "triaged"} ->
            To("case_unassigned", c, Managers \cap users)
      [] OTHER -> {}

\* Mutant: if instead of elif, an overdue case is also announced as due soon.
SlaAlertsBoth(c, row, users, now) ==
    IF row.sla_due_at = NoDeadline \/ row.sla_due_at > now + DueSoonTicks THEN {}
    ELSE To("sla_due_soon", c, Owners(row, users))
         \cup IF row.sla_due_at <= now THEN To("sla_breached", c, Owners(row, users)) ELSE {}

SlaAlerts(c, row, users, now) ==
    CASE row.sla_due_at = NoDeadline \/ row.sla_due_at > now + DueSoonTicks -> {}
      [] row.sla_due_at # NoDeadline /\ row.sla_due_at <= now ->
            To("sla_breached", c, Owners(row, users))
      [] OTHER -> To("sla_due_soon", c, Owners(row, users))

CriticalAlerts(c, row, users) ==
    IF row.severity = "critical"
    THEN To("case_critical", c,
            (CrisisLeads \cap users) \cup ({row.assigned_to} \ {NoUser}))
    ELSE {}

WaitingAlerts(c, row, users, now) ==
    IF row.status = "awaiting_response" /\ row.updated_at <= now - WaitingTicks
    THEN To("customer_waiting", c, Owners(row, users))
    ELSE {}

CaseAlerts(c, row, users, now) ==
    IF row.status \in OpenStatuses
    THEN AssignmentAlerts(c, row, users) \cup SlaAlerts(c, row, users, now)
         \cup CriticalAlerts(c, row, users) \cup WaitingAlerts(c, row, users, now)
    ELSE {}

ApprovalAlerts(r, row, users) ==
    IF row.status = "pending_approval"
    THEN To("draft_approval", r, (Approvers \cap users) \ {row.created_by, row.edited_by})
    ELSE {}

\* Mutant: an alert to one recipient stands for all of them.
NewToAnybody(events) ==
    {e \in events : \A d \in Events :
        d.kind = e.kind /\ d.target = e.target => alerts[d] = 0}

\* _emit inserts nothing where a committed alert has the same id.
NotYetMade(events) == {e \in events : alerts[e] = 0}

-----------------------------------------------------------------------------
(* An evaluation *)

Requested == requests < MaxRequests /\ requests' = requests + 1

\* Mutant: no advisory lock.
NobodyWaits == TRUE

\* pg_advisory_xact_lock of the tenant is free: it is held up to the commit.
LockFree == \A s \in Evaluators : session[s].pc \in {"idle", "committed", "marking"}

\* The lock is taken, and the active users and their roles are read.  The
\* request of a reader is read-all, any other one only lists.
TakeLock(s, reader) ==
    /\ session[s].pc = "idle"
    /\ LockFree
    /\ s = Worker => reader = NoUser
    /\ session' = [session EXCEPT ![s] = [IdleSession EXCEPT !.pc = "locked", !.users = active,
                                                             !.reader = reader]]
    /\ IF reader = NoUser THEN UNCHANGED requests ELSE Requested
    /\ UNCHANGED <<rows, alerts, read, clock, faults>>

\* now = datetime.now(UTC)
TakeTime(s) ==
    /\ session[s].pc = "locked"
    /\ session' = [session EXCEPT ![s].pc = "timed", ![s].now = clock]
    /\ UNCHANGED <<rows, alerts, read, clock, requests, faults>>

\* The open cases are read and their alerts inserted.
EvaluateCases(s) ==
    LET called == UNION {CaseAlerts(c, kase[c], session[s].users, session[s].now) :
                            c \in Cases} IN
    /\ session[s].pc = "timed"
    /\ session' = [session EXCEPT ![s].pc = "casesRead", ![s].new = NotYetMade(called)]
    /\ UNCHANGED <<rows, alerts, read, clock, requests, faults>>

\* The pending replies are read, their alerts inserted, and all committed.
EvaluateReplies(s) ==
    LET called == UNION {ApprovalAlerts(r, reply[r], session[s].users) : r \in Replies}
        new == session[s].new \cup NotYetMade(called) IN
    /\ session[s].pc = "casesRead"
    /\ alerts' = [e \in Events |-> IF e \in new THEN alerts[e] + 1 ELSE alerts[e]]
    /\ session' = [session EXCEPT ![s] =
                      IF session[s].reader = NoUser THEN IdleSession
                      ELSE [IdleSession EXCEPT !.pc = "committed", !.reader = session[s].reader]]
    /\ UNCHANGED <<rows, read, clock, requests, faults>>

\* An exception or a crash: the transaction is rolled back and unlocks; what
\* read-all has marked so far is committed.
GiveUp(s) ==
    /\ session[s].pc # "idle"
    /\ faults < MaxFaults
    /\ faults' = faults + 1
    /\ session' = [session EXCEPT ![s] = IdleSession]
    /\ UNCHANGED <<rows, alerts, read, clock, requests>>

-----------------------------------------------------------------------------
(* Reading.  A second read mark of one event changes nothing: a list asks  *)
(* whether there is any.                                                   *)

OwnUnread(u) == {e \in Events : e.recipient = u /\ alerts[e] > 0 /\ e \notin read}

\* mark_notification_read: only the recipient's own alert is found.
MarkRead(u, e) ==
    /\ e \in OwnUnread(u)
    /\ read' = read \cup {e}
    /\ Requested
    /\ UNCHANGED <<rows, session, alerts, clock, faults>>

\* The session with these alerts left to mark.
Marking(s, left) ==
    IF left = {} THEN IdleSession
    ELSE [session[s] EXCEPT !.pc = "marking", !.marking = left]

\* mark_all_notifications_read lists after the evaluation was committed ...
ListUnread(s) ==
    /\ session[s].pc = "committed"
    /\ session' = [session EXCEPT ![s] = Marking(s, OwnUnread(session[s].reader))]
    /\ UNCHANGED <<rows, alerts, read, clock, requests, faults>>

\* ... and marks what it listed, one commit after the other.
MarkNext(s, e) ==
    /\ session[s].pc = "marking"
    /\ e \in session[s].marking
    /\ read' = read \cup {e}
    /\ session' = [session EXCEPT ![s] = Marking(s, session[s].marking \ {e})]
    /\ UNCHANGED <<rows, alerts, clock, requests, faults>>

-----------------------------------------------------------------------------
(* What happens to cases, replies and users *)

Changes == Requested /\ UNCHANGED <<evaluation, clock>>

CaseBecomes(c, row) ==
    /\ Changes
    /\ kase' = [kase EXCEPT ![c] = [row EXCEPT !.updated_at = clock]]
    /\ UNCHANGED <<reply, active>>

\* create_case and create_case_from_message; a node may have no sla_hours.
OpenCase(c, severity, sla) ==
    /\ kase[c].status = "absent"
    /\ CaseBecomes(c, [AbsentCase EXCEPT !.status = "new", !.severity = severity,
                                         !.sla_due_at = IF sla = NoDeadline THEN NoDeadline
                                                        ELSE clock + sla])

AssignCase(c, u) ==
    /\ kase[c].status # "absent"
    /\ u \in active
    /\ CaseBecomes(c, [kase[c] EXCEPT !.assigned_to = u, !.status = StatusOnAssign(@)])

TransitionCase(c, next) ==
    /\ kase[c].status # "absent"
    /\ MayMove(kase[c], next)
    /\ CaseBecomes(c, [kase[c] EXCEPT !.status = next])

\* update_case; escalate_case is the severity "critical", and add_case_note,
\* which touches updated_at only, the severity the case has.
UpdateCase(c, severity) ==
    /\ kase[c].status # "absent"
    /\ CaseBecomes(c, [kase[c] EXCEPT !.severity = severity])

ReplyBecomes(r, row) ==
    /\ Changes
    /\ reply' = [reply EXCEPT ![r] = row]
    /\ UNCHANGED <<kase, active>>

Coalesce(stored, u) == IF stored = NoUser THEN u ELSE stored

\* generate_grounded_reply (nobody) or the draft studio (its user)
DraftReply(r, creator) ==
    /\ reply[r].status = "absent"
    /\ ReplyBecomes(r, [AbsentReply EXCEPT !.status = "draft", !.created_by = creator])

EditReply(r, u) ==
    /\ reply[r].status \in {"draft", "pending_approval"}
    /\ ReplyBecomes(r, [status |-> "draft", edited_by |-> u,
                        created_by |-> Coalesce(reply[r].created_by, u)])

SubmitReply(r, u) ==
    /\ reply[r].status = "draft"
    /\ ReplyBecomes(r, [status |-> "pending_approval",
                        created_by |-> Coalesce(reply[r].created_by, u),
                        edited_by |-> Coalesce(reply[r].edited_by, u)])

PublishReply(r, u) ==
    /\ reply[r].status = "pending_approval"
    /\ u \notin {reply[r].created_by, reply[r].edited_by}
    /\ ReplyBecomes(r, [reply[r] EXCEPT !.status = "published"])

\* set_user_status
SetUserStatus(u) ==
    /\ Changes
    /\ active' = IF u \in active THEN active \ {u} ELSE active \cup {u}
    /\ UNCHANGED <<kase, reply>>

Tick ==
    /\ clock < MaxClock
    /\ clock' = clock + 1
    /\ UNCHANGED <<rows, evaluation, requests>>

-----------------------------------------------------------------------------
Evaluate(s) == TakeTime(s) \/ EvaluateCases(s) \/ EvaluateReplies(s)

MarkAll(s) == ListUnread(s) \/ \E e \in session[s].marking : MarkNext(s, e)

Environment ==
    \/ \E c \in Cases : \/ \E severity \in Severities, sla \in SlaTicks \cup {NoDeadline} :
                              OpenCase(c, severity, sla)
                        \/ \E u \in Users : AssignCase(c, u)
                        \/ \E next \in Statuses : TransitionCase(c, next)
                        \/ \E severity \in Severities : UpdateCase(c, severity)
    \/ \E r \in Replies : \/ \E u \in MaybeUser : DraftReply(r, u)
                          \/ \E u \in Users : EditReply(r, u) \/ SubmitReply(r, u)
                          \/ \E u \in Approvers : PublishReply(r, u)
    \/ \E u \in Users : SetUserStatus(u)
    \/ Tick

Next ==
    \/ \E s \in Evaluators : \/ \E reader \in Readers \cup {NoUser} : TakeLock(s, reader)
                             \/ Evaluate(s) \/ MarkAll(s) \/ GiveUp(s)
    \/ \E u \in Readers, e \in Events : MarkRead(u, e)
    \/ Environment

Spec == Init /\ [][Next]_vars

\* The cron job comes round again and again and gets the lock in the end; an
\* evaluation that has begun goes on.
Fairness ==
    /\ SF_vars(TakeLock(Worker, NoUser))
    /\ \A s \in Evaluators : WF_vars(Evaluate(s))

FairSpec == Spec /\ Fairness

-----------------------------------------------------------------------------
(* Properties *)

\* "Durable deduplication" (README.md): whichever evaluations overlap, fail and
\* start again, an event has one alert at most, and only a committed one is
\* marked as read.  There is no unique key behind it, only the lock.
OncePerEvent ==
    \A e \in Events : alerts[e] <= 1 /\ (e \in read => alerts[e] = 1)

\* Once anybody has been told that a case is overdue, nobody is told that its
\* deadline approaches: a later evaluation never works with an earlier time.
NoWarningAfterBreach ==
    [][\A c \in Cases :
          (\E u \in Users : alerts[[kind |-> "sla_breached", target |-> c, recipient |-> u]] > 0)
          => \A u \in Users :
                LET e == [kind |-> "sla_due_soon", target |-> c, recipient |-> u]
                IN  alerts'[e] = alerts[e]]_vars

\* What README.md promises an alert for.
Promised ==
    [kind : {"case_assigned", "case_critical", "sla_breached"}, target : Cases, recipient : Users]
    \cup [kind : {"draft_approval"}, target : Replies, recipient : Approvers]

\* Whom it concerns now, of the assignee whoever that is and of the others who are
\* active.
Concerns(e) ==
    IF e.kind = "draft_approval"
    THEN /\ reply[e.target].status = "pending_approval"
         /\ e.recipient \in active \ {reply[e.target].created_by, reply[e.target].edited_by}
    ELSE /\ kase[e.target].status \in OpenStatuses
         /\ e.kind = "case_assigned" => kase[e.target].assigned_to = e.recipient
         /\ e.kind = "case_critical" =>
               /\ kase[e.target].severity = "critical"
               /\ e.recipient \in {kase[e.target].assigned_to} \cup (CrisisLeads \cap active)
         /\ e.kind = "sla_breached" =>
               /\ e.recipient \in Owners(kase[e.target], active)
               /\ kase[e.target].sla_due_at \in 1..clock

\* Every assignment, overdue or critical case and reply to approve is announced in
\* the end: an overdue case to its assignee or, if it has none, to the active
\* managers, a critical one to its assignee and the active crisis leads, a reply to
\* the active approvers who did not write it; however often requests hold the lock,
\* users come and go and evaluations fail, unless it no longer concerns them.
ConcernsAreAnnounced ==
    \A e \in Promised : Concerns(e) ~> (alerts[e] > 0 \/ ~Concerns(e))
=============================================================================
