-------------------------------- MODULE Cases --------------------------------
(***************************************************************************)
(* The life of a service case (cases/service.py, table core.cases): opened *)
(* by an officer or from a citizen's message, edited, assigned, moved      *)
(* through its statuses, annotated and escalated.                          *)
(*                                                                         *)
(* Edit, assignment and status change run in three steps: the transaction  *)
(* starts with the permission query, which fixes the database's now(); the *)
(* row is read FOR UPDATE, perhaps after a wait; and the row computed from *)
(* what was read is written, audited and committed.  Titles are left out.  *)
(***************************************************************************)
EXTENDS CaseLifecycle, Naturals, Sequences

CONSTANTS
    Cases,       \* case ids
    Users,       \* those a case can be assigned to
    Sessions,    \* database sessions of requests that edit, assign or move
    NoCase,
    MaxHistory,  \* no request starts on a case with this many audit rows
    MaxClock     \* the clock stops here

ASSUME CaseNulls == NoUser \notin Users /\ NoCase \notin Cases
ASSUME CaseBounds == MaxHistory \in Nat /\ MaxClock \in Nat

VARIABLES
    kase,     \* core.cases: one row for each case id
    session,  \* what each request has read so far
    active,   \* users.is_active
    history,  \* core.audit_log rows about each case, oldest first
    clock     \* the time, in units of one tick

vars == <<kase, session, active, history, clock>>

-----------------------------------------------------------------------------
NoSeverity == "unnamed"

NoTime == 0
Times == Nat \ {NoTime}

MaybeUser == Users \cup {NoUser}

Row == [status : Statuses \cup {"absent"}, severity : Severities, assigned_to : MaybeUser,
        first_response_at : Nat, resolved_at : Nat]

AbsentRow == [status |-> "absent", severity |-> "medium", assigned_to |-> NoUser,
              first_response_at |-> NoTime, resolved_at |-> NoTime]

\* Whoever opens a case, it is new and nobody's.
FirstRow == [AbsentRow EXCEPT !.status = "new"]

\* began is now() of the transaction, assignee the user found active, row what
\* SELECT ... FOR UPDATE returned.
Session == [pc : {"idle", "begun", "locked"}, began : Nat, assignee : MaybeUser,
            kase : Cases \cup {NoCase}, row : Row]

IdleSession == [pc |-> "idle", began |-> NoTime, assignee |-> NoUser, kase |-> NoCase,
                row |-> AbsentRow]

\* before and after hold the columns a handler records, as partial functions;
\* the rest is history: the now() a status change stored and the time of its
\* commit, and whether a severity was asked for.
Recorded == UNION {[columns -> Statuses \cup Severities \cup MaybeUser] :
                      columns \in SUBSET {"status", "severity", "assigned_to"}}

AuditRow == [action : {"create", "update", "assign", "status", "note", "escalate"},
             before : Recorded, after : Recorded, now : Nat, at : Nat, named : BOOLEAN]

TypeOK ==
    /\ kase \in [Cases -> Row]
    /\ session \in [Sessions -> Session]
    /\ active \in [Users -> BOOLEAN]
    /\ history \in [Cases -> Seq(AuditRow)]
    /\ clock \in Times

Init ==
    /\ kase = [c \in Cases |-> AbsentRow]
    /\ session = [s \in Sessions |-> IdleSession]
    /\ active = [u \in Users |-> TRUE]
    /\ history = [c \in Cases |-> <<>>]
    /\ clock = 1

-----------------------------------------------------------------------------
(* Helpers *)

\* Mutant: SELECT without FOR UPDATE.
NobodyWaits(c) == TRUE

\* The row lock is free.
Unlocked(c) == \A s \in Sessions : session[s].kase # c

MayStart(c) == Len(history[c]) < MaxHistory

Columns(row, columns) == [column \in columns |-> row[column]]

\* write_audit(...) about case c, and what to remember of the request.
AuditedAs(c, entry) == history' = [history EXCEPT ![c] = Append(@, entry)]

Audited(c, action, before, after, named) ==
    AuditedAs(c, [action |-> action, before |-> before, after |-> after,
                  now |-> NoTime, at |-> NoTime, named |-> named])

StatusAudited(c, before, after, now) ==
    AuditedAs(c, [action |-> "status", before |-> before, after |-> after,
                  now |-> now, at |-> clock, named |-> FALSE])

Nothing == [column \in {} |-> NoUser]

-----------------------------------------------------------------------------
(* Opening a case *)

\* The row is inserted; after is what the audit row tells of it.
Opened(c, severity, after) ==
    /\ kase[c].status = "absent"
    /\ kase' = [kase EXCEPT ![c].status = "new", ![c].severity = severity]
    /\ Audited(c, "create", Nothing, after, TRUE)
    /\ UNCHANGED <<session, active, clock>>

\* create_case; a taxonomy node that is not active is refused.
CreateCase(c) ==
    \E severity \in Severities :
        Opened(c, severity, [status |-> "new", severity |-> severity])

\* create_case_from_message: urgent words make it high, and nothing critical; the
\* audit row names the message and the severity, and no status.
CreateCaseFromMessage(c) == Opened(c, "medium", [severity |-> "medium"])

-----------------------------------------------------------------------------
(* Requests that read the row before they write it *)

\* The permission query of the request opens its transaction.
BeginRequest(s) ==
    /\ session[s].pc = "idle"
    /\ session' = [session EXCEPT ![s].pc = "begun", ![s].began = clock]
    /\ UNCHANGED <<kase, active, history, clock>>

\* assign_case looks the assignee up before it reads the case.
FindAssignee(s, u) ==
    /\ session[s].pc = "begun"
    /\ session[s].assignee = NoUser
    /\ active[u]
    /\ session' = [session EXCEPT ![s].assignee = u]
    /\ UNCHANGED <<kase, active, history, clock>>

\* SELECT ... FOR UPDATE
LockCase(s, c) ==
    /\ session[s].pc = "begun"
    /\ kase[c].status # "absent"
    /\ MayStart(c)
    /\ Unlocked(c)
    /\ session' = [session EXCEPT ![s].pc = "locked", ![s].kase = c, ![s].row = kase[c]]
    /\ UNCHANGED <<kase, active, history, clock>>

\* The row is written and committed with its audit row, and so unlocked.
Written(s, row) ==
    /\ kase' = [kase EXCEPT ![session[s].kase] = row]
    /\ session' = [session EXCEPT ![s] = IdleSession]
    /\ UNCHANGED <<active, clock>>

\* severity or row["severity"]
SeverityOr(named, stored) == IF named = NoSeverity THEN stored ELSE named

\* update_case: the severity read is written back when none is named.
UpdateCase(s, severity) ==
    LET read == session[s].row
        chosen == SeverityOr(severity, read.severity) IN
    /\ session[s].pc = "locked"
    /\ session[s].assignee = NoUser
    /\ Written(s, [kase[session[s].kase] EXCEPT !.severity = chosen])
    /\ Audited(session[s].kase, "update", Columns(read, {"severity"}), [severity |-> chosen],
               severity # NoSeverity)

\* Mutant: an assignment leaves the time of the resolution it undoes.
ResolutionKept(status, stored) == stored

\* CASE WHEN :status = 'assigned' THEN NULL ELSE resolved_at END
ResolutionAfterAssign(status, stored) == IF status = "assigned" THEN NoTime ELSE stored

\* assign_case: assigning reopens a resolved case and keeps any later status.
AssignCase(s) ==
    LET read == session[s].row
        status == StatusOnAssign(read.status) IN
    /\ session[s].pc = "locked"
    /\ session[s].assignee # NoUser
    /\ Written(s, [kase[session[s].kase] EXCEPT
                      !.assigned_to = session[s].assignee,
                      !.status = status,
                      !.resolved_at = ResolutionAfterAssign(status, @)])
    /\ Audited(session[s].kase, "assign", Columns(read, {"status", "assigned_to"}),
               [status |-> status, assigned_to |-> session[s].assignee], FALSE)

Coalesce(stored, now) == IF stored = NoTime THEN now ELSE stored

\* Mutant: COALESCE is missing, every response counts as the first.
RespondedLast(next, stored, now) == IF next = "responded" THEN now ELSE stored

FirstResponse(next, stored, now) == IF next = "responded" THEN Coalesce(stored, now) ELSE stored

\* Mutant: only the assignment clears the time, a status change keeps it.
ResolutionFirst(next, stored, now) ==
    IF next \in {"resolved", "closed"} THEN Coalesce(stored, now) ELSE stored

Resolution(next, stored, now) ==
    CASE next \in {"resolved", "closed"} -> Coalesce(stored, now)
      [] next = "assigned" -> NoTime
      [] OTHER -> stored

\* transition_case
TransitionCase(s, next) ==
    LET read == session[s].row
        now == session[s].began IN
    /\ session[s].pc = "locked"
    /\ session[s].assignee = NoUser
    /\ MayMove(read, next)
    /\ Written(s, [kase[session[s].kase] EXCEPT
                      !.status = next,
                      !.first_response_at = FirstResponse(next, @, now),
                      !.resolved_at = Resolution(next, @, now)])
    /\ StatusAudited(session[s].kase, Columns(read, {"status"}), [status |-> next], now)

\* A refused or failed request, or a crash: the transaction is rolled back.
GiveUp(s) ==
    /\ session[s].pc # "idle"
    /\ session' = [session EXCEPT ![s] = IdleSession]
    /\ UNCHANGED <<kase, active, history, clock>>

-----------------------------------------------------------------------------
(* Requests whose only statement on the row is an UPDATE *)

\* add_case_note: the row's updated_at is touched, so it waits for the lock.
AddCaseNote(c) ==
    /\ kase[c].status # "absent"
    /\ MayStart(c)
    /\ Unlocked(c)
    /\ Audited(c, "note", Nothing, Nothing, FALSE)
    /\ UNCHANGED <<kase, session, active, clock>>

\* escalate_case: whatever the status of the case.
EscalateCase(c) ==
    /\ kase[c].status # "absent"
    /\ MayStart(c)
    /\ Unlocked(c)
    /\ kase' = [kase EXCEPT ![c].severity = "critical"]
    /\ Audited(c, "escalate", Nothing, [severity |-> "critical"], TRUE)
    /\ UNCHANGED <<session, active, clock>>

\* set_user_status (auth/admin_routes.py): cases keep their assignee.
SetUserStatus(u) ==
    /\ active' = [active EXCEPT ![u] = ~@]
    /\ UNCHANGED <<kase, session, history, clock>>

Tick ==
    /\ clock < MaxClock
    /\ clock' = clock + 1
    /\ UNCHANGED <<kase, session, active, history>>

Next ==
    \/ \E c \in Cases : \/ CreateCase(c) \/ CreateCaseFromMessage(c)
                        \/ AddCaseNote(c) \/ EscalateCase(c)
    \/ \E s \in Sessions :
        \/ BeginRequest(s)
        \/ \E u \in Users : FindAssignee(s, u)
        \/ \E c \in Cases : LockCase(s, c)
        \/ \E severity \in Severities \cup {NoSeverity} : UpdateCase(s, severity)
        \/ AssignCase(s)
        \/ \E next \in Statuses : TransitionCase(s, next)
        \/ GiveUp(s)
    \/ \E u \in Users : SetUserStatus(u)
    \/ Tick

Spec == Init /\ [][Next]_vars

-----------------------------------------------------------------------------
(* Properties *)

\* A case past triage that was not rejected always has somebody assigned to it,
\* whichever way it got there and wherever it went back to.
WorkHasAssignee ==
    \A c \in Cases :
        kase[c].status \in {"assigned", "awaiting_response", "responded", "resolved", "closed"}
            => kase[c].assigned_to # NoUser

\* The resolution time is set exactly while the case is resolved or closed:
\* both ways of reopening a case clear it and no way back keeps a stale one.
ResolvedHasTime ==
    \A c \in Cases :
        kase[c].resolved_at # NoTime <=> kase[c].status \in {"resolved", "closed"}

\* What the audit rows up to the i-th say of a column: the last value recorded, or
\* the one every case starts with while none is.
Told(c, i, column) ==
    LET tells == {j \in 1..i : column \in DOMAIN history[c][j].after}
        last == CHOOSE j \in tells : \A k \in tells : k <= j
    IN  IF tells = {} THEN FirstRow[column] ELSE history[c][last].after[column]

\* The trail of a case replays: each audit row starts from the values its
\* predecessors left, and together they give the status, severity and assignee of
\* the row, although each handler records what it read and not what it overwrites.
\* That a case made from a message is new no audit row says: its status is told from
\* the first change on, and a reader has to know the one it starts with.
HistoryReplays ==
    \A c \in Cases :
        /\ \A i \in 1..Len(history[c]) :
            \A column \in DOMAIN history[c][i].before :
                history[c][i].before[column] = Told(c, i - 1, column)
        /\ kase[c].status # "absent" =>
            \A column \in {"status", "severity", "assigned_to"} :
                kase[c][column] = Told(c, Len(history[c]), column)

Records(entry, status) == "status" \in DOMAIN entry.after /\ entry.after["status"] = status

\* A resolution may carry an earlier time than the first response only because
\* its transaction began before that response was committed and then waited for
\* the row (now() is the start of the transaction): no reopening and no repeated
\* response puts the two times out of order.
InversionNeedsWait ==
    \A c \in Cases :
        LET row == kase[c] IN
        NoTime < row.resolved_at /\ row.resolved_at < row.first_response_at
        => \E i, j \in 1..Len(history[c]) :
            /\ i < j
            /\ Records(history[c][i], "responded")
            /\ Records(history[c][j], "resolved")
            /\ history[c][j].now < history[c][i].at

\* Whatever requests overlap, a case moves along STATUS_TRANSITIONS only, so
\* closed and rejected cases stay so (test_cases.py), and once answered it keeps
\* the time of its first response.
LifecycleFollowsGraph ==
    [][\A c \in Cases :
          kase[c].status # "absent" =>
            /\ kase'[c].status \in {kase[c].status} \cup Transitions[kase[c].status]
            /\ kase[c].first_response_at # NoTime =>
                  kase'[c].first_response_at = kase[c].first_response_at]_vars

\* A critical case becomes less severe only by an edit that names a severity: an
\* edit of a title that began before the escalation does not undo it.
EscalationSticks ==
    [][\A c \in Cases :
          kase[c].severity = "critical" /\ kase'[c].severity # "critical" =>
            history'[c][Len(history'[c])].named]_vars
=============================================================================
