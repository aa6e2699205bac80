------------------------- MODULE NotificationsProofs -------------------------
(***************************************************************************)
(* Theorems about the notification rules, for any number of users, cases,  *)
(* replies and overlapping evaluations, and any time.                      *)
(***************************************************************************)
EXTENDS Notifications, TLAPS

-----------------------------------------------------------------------------
(* The inductive invariant *)

Breach(c, u) == [kind |-> "sla_breached", target |-> c, recipient |-> u]
Soon(c, u) == [kind |-> "sla_due_soon", target |-> c, recipient |-> u]

Locking(q) == q.pc \in {"locked", "timed", "casesRead"}

\* The advisory lock has one holder.
OneHolder == \A s, t \in Evaluators : Locking(session[s]) /\ Locking(session[t]) => s = t

OverdueAt(row, time) ==
    row.status # "absent" /\ row.sla_due_at # NoDeadline /\ row.sla_due_at <= time

\* A case announced as overdue is overdue, now and for whoever evaluates it.
BreachesOK ==
    \A c \in Cases : \A u \in Users : alerts[Breach(c, u)] > 0 =>
        /\ OverdueAt(kase[c], clock)
        /\ \A s \in Evaluators : session[s].pc \in {"timed", "casesRead"} =>
              OverdueAt(kase[c], session[s].now)

\* What an evaluation has inserted fits what is committed.
Inserted(q) ==
    /\ q.now <= clock
    /\ \A e \in q.new : alerts[e] = 0
    /\ q.pc # "casesRead" => q.new = {}
    /\ \A c \in Cases, u \in Users : Breach(c, u) \in q.new => OverdueAt(kase[c], q.now)
    /\ \A c \in Cases, u, w \in Users : Soon(c, u) \in q.new => alerts[Breach(c, w)] = 0
    /\ \A e \in q.marking : alerts[e] = 1

SessionsOK == \A s \in Evaluators : Inserted(session[s])

IInv == TypeOK /\ OncePerEvent /\ OneHolder /\ BreachesOK /\ SessionsOK

-----------------------------------------------------------------------------
(* Lemmas about the rules *)

\* The events of a rule are about its case and of its users.
LEMMA ToType ==
    ASSUME NEW kind, NEW target, NEW recipients, NEW e \in To(kind, target, recipients)
    PROVE  e.kind = kind /\ e.target = target /\ e.recipient \in recipients
           /\ e = [kind |-> kind, target |-> target, recipient |-> e.recipient]
  BY DEF To

\* Whoever looks after a case is a user.
LEMMA OwnersAreUsers ==
    ASSUME NEW row \in Case, NEW users \in SUBSET Users
    PROVE  Owners(row, users) \subseteq Users
  BY RolesAssumption DEF Owners, Case, MaybeUser

\* Every alert about a case has a kind, the case and a user.
LEMMA CaseAlertType ==
    ASSUME NEW c \in Cases, NEW row \in Case, NEW users \in SUBSET Users, NEW now \in Nat,
           NEW e \in CaseAlerts(c, row, users, now)
    PROVE  /\ e \in [kind : CaseKinds, target : Cases, recipient : Users]
           /\ e.target = c
           /\ row.status # "absent"
  <1>0. row.status \in OpenStatuses /\ row.status # "absent"
    BY DEF CaseAlerts, OpenStatuses
  <1> DEFINE Typed(f) == f \in [kind : CaseKinds, target : Cases, recipient : Users] /\ f.target = c
  <1>1. ASSUME NEW kind \in CaseKinds, NEW recipients \in SUBSET Users,
               NEW f \in To(kind, c, recipients)
        PROVE  Typed(f)
    BY <1>1, ToType
  <1>2. ASSUME e \in AssignmentAlerts(c, row, users)
        PROVE  Typed(e)
    <2>1. \/ row.assigned_to # NoUser /\ e \in To("case_assigned", c, {row.assigned_to})
          \/ e \in To("case_unassigned", c, Managers \cap users)
      BY <1>2 DEF AssignmentAlerts
    <2>2. /\ row.assigned_to # NoUser => {row.assigned_to} \in SUBSET Users
          /\ Managers \cap users \in SUBSET Users
      BY DEF Case, MaybeUser
    <2>3. {"case_assigned", "case_unassigned"} \subseteq CaseKinds
      BY DEF CaseKinds
    <2>4. QED
      BY <1>1, <2>1, <2>2, <2>3
  <1>3. ASSUME e \in SlaAlerts(c, row, users, now)
        PROVE  Typed(e)
    <2>1. \/ e \in To("sla_breached", c, Owners(row, users))
          \/ e \in To("sla_due_soon", c, Owners(row, users))
      BY <1>3 DEF SlaAlerts
    <2>2. {"sla_breached", "sla_due_soon"} \subseteq CaseKinds
      BY DEF CaseKinds
    <2>3. QED
      BY <1>1, <2>1, <2>2, OwnersAreUsers
  <1>4. ASSUME e \in CriticalAlerts(c, row, users)
        PROVE  Typed(e)
    <2>1. e \in To("case_critical", c, (CrisisLeads \cap users) \cup ({row.assigned_to} \ {NoUser}))
      BY <1>4 DEF CriticalAlerts
    <2>2. (CrisisLeads \cap users) \cup ({row.assigned_to} \ {NoUser}) \in SUBSET Users
      BY DEF Case, MaybeUser
    <2>3. "case_critical" \in CaseKinds
      BY DEF CaseKinds
    <2>4. QED
      BY <1>1, <2>1, <2>2, <2>3
  <1>5. ASSUME e \in WaitingAlerts(c, row, users, now)
        PROVE  Typed(e)
    <2>1. e \in To("customer_waiting", c, Owners(row, users))
      BY <1>5 DEF WaitingAlerts
    <2>2. "customer_waiting" \in CaseKinds
      BY DEF CaseKinds
    <2>3. QED
      BY <1>1, <2>1, <2>2, OwnersAreUsers
  <1>6. QED
    BY <1>0, <1>2, <1>3, <1>4, <1>5 DEF CaseAlerts

\* A case is called overdue or due soon by the time read, not both.
LEMMA SlaAlertTimes ==
    ASSUME NEW c \in Cases, NEW row \in Case, NEW users \in SUBSET Users, NEW now \in Nat,
           NEW e \in CaseAlerts(c, row, users, now)
    PROVE  /\ e.kind = "sla_breached" => OverdueAt(row, now)
           /\ e.kind = "sla_due_soon" => ~OverdueAt(row, now)
  <1>1. row.status # "absent"
    BY CaseAlertType
  <1>2. e \in AssignmentAlerts(c, row, users) => e.kind \in {"case_assigned", "case_unassigned"}
    BY ToType DEF AssignmentAlerts
  <1>3. e \in CriticalAlerts(c, row, users) => e.kind = "case_critical"
    BY ToType DEF CriticalAlerts
  <1>4. e \in WaitingAlerts(c, row, users, now) => e.kind = "customer_waiting"
    BY ToType DEF WaitingAlerts
  <1>5. ASSUME e \in SlaAlerts(c, row, users, now)
        PROVE  \/ e.kind = "sla_breached" /\ OverdueAt(row, now)
               \/ e.kind = "sla_due_soon" /\ ~OverdueAt(row, now)
    <2>1. CASE row.sla_due_at = NoDeadline \/ row.sla_due_at > now + DueSoonTicks
      <3>1. ~(row.sla_due_at # NoDeadline /\ row.sla_due_at <= now)
        BY <2>1 DEF Case, DueSoonTicks
      <3>2. SlaAlerts(c, row, users, now) = {}
        BY <2>1, <3>1 DEF SlaAlerts
      <3>3. QED
        BY <1>5, <3>2
    <2>2. CASE /\ ~(row.sla_due_at = NoDeadline \/ row.sla_due_at > now + DueSoonTicks)
               /\ row.sla_due_at <= now
      <3>1. e \in To("sla_breached", c, Owners(row, users))
        BY <1>5, <2>2 DEF SlaAlerts
      <3>2. QED
        BY <1>1, <2>2, <3>1, ToType DEF OverdueAt
    <2>3. CASE /\ ~(row.sla_due_at = NoDeadline \/ row.sla_due_at > now + DueSoonTicks)
               /\ ~(row.sla_due_at <= now)
      <3>1. e \in To("sla_due_soon", c, Owners(row, users))
        BY <1>5, <2>3 DEF SlaAlerts
      <3>2. QED
        BY <2>3, <3>1, ToType DEF OverdueAt
    <2>4. QED
      BY <2>1, <2>2, <2>3
  <1>6. QED
    BY <1>2, <1>3, <1>4, <1>5 DEF CaseAlerts

\* Every alert about a reply is one, of an approver.
LEMMA ApprovalAlertType ==
    ASSUME NEW r \in Replies, NEW row, NEW users \in SUBSET Users,
           NEW e \in ApprovalAlerts(r, row, users)
    PROVE  e \in [kind : {"draft_approval"}, target : Replies, recipient : Users]
  <1>1. e \in To("draft_approval", r, (Approvers \cap users) \ {row.created_by, row.edited_by})
    BY DEF ApprovalAlerts
  <1>2. QED
    BY <1>1, ToType

\* The session types the steps produce.
LEMMA IdleType == IdleSession \in Session /\ IdleSession.pc = "idle"
  BY DEF IdleSession, Session, MaybeUser

\* An idle evaluation has inserted nothing.
LEMMA IdleInserted == clock \in Nat => Inserted(IdleSession)
  BY DEF Inserted, IdleSession

-----------------------------------------------------------------------------
(* Steps of an evaluation *)

\* A step of one evaluation that inserts nothing into what is committed.
LEMMA SessionStep ==
    ASSUME IInv, NEW s \in Evaluators, NEW q \in Session, Inserted(q),
           session' = [session EXCEPT ![s] = q],
           UNCHANGED <<rows, alerts, read, clock>>,
           requests' \in 0..MaxRequests, faults' \in 0..MaxFaults,
           Locking(q) => Locking(session[s]) \/ LockFree,
           q.pc \in {"timed", "casesRead"} =>
              \/ q.now = clock
              \/ session[s].pc \in {"timed", "casesRead"} /\ q.now = session[s].now
    PROVE  IInv'
  <1>1. TypeOK'
    BY DEF IInv, TypeOK, rows
  <1>2. OncePerEvent'
    BY DEF IInv, OncePerEvent
  <1>3. \A t \in Evaluators : session'[t] = IF t = s THEN q ELSE session[t]
    BY DEF IInv, TypeOK
  <1>4. LockFree => \A t \in Evaluators : ~Locking(session[t])
    BY DEF LockFree, Locking
  <1>5. OneHolder'
    BY <1>3, <1>4 DEF IInv, OneHolder
  <1>6. BreachesOK'
    BY <1>3 DEF IInv, BreachesOK, rows
  <1>7. \A t \in Evaluators : Inserted(session'[t])
    BY <1>3 DEF IInv, SessionsOK
  <1>8. SessionsOK'
    <2>1. \A t \in Evaluators : Inserted(session[t])' = Inserted(session'[t])
      BY DEF Inserted, OverdueAt, rows
    <2>2. QED
      BY <1>7, <2>1 DEF SessionsOK
  <1>9. QED
    BY <1>1, <1>2, <1>5, <1>6, <1>8 DEF IInv

\* An evaluation takes the lock and finds the active users.
LEMMA LockKeeps ==
    ASSUME IInv, NEW s \in Evaluators, NEW reader \in Readers \cup {NoUser}, TakeLock(s, reader)
    PROVE  IInv'
  <1>1. PICK q : q = [IdleSession EXCEPT !.pc = "locked", !.users = active, !.reader = reader]
    OBVIOUS
  <1>2. q \in Session /\ q.pc = "locked" /\ q.now = 0 /\ q.new = {} /\ q.marking = {}
    BY <1>1, RolesAssumption DEF IInv, TypeOK, Session, IdleSession, MaybeUser
  <1>3. session' = [session EXCEPT ![s] = q] /\ LockFree /\ UNCHANGED <<rows, alerts, read, clock>>
    BY <1>1 DEF TakeLock
  <1>4. requests' \in 0..MaxRequests /\ faults' \in 0..MaxFaults
    BY BoundsAssumption DEF TakeLock, Requested, IInv, TypeOK
  <1>5. Inserted(q)
    BY <1>2 DEF Inserted, IInv, TypeOK
  <1>6. QED
    BY <1>2, <1>3, <1>4, <1>5, SessionStep

\* Its time is taken after the lock.
LEMMA TimeKeeps ==
    ASSUME IInv, NEW s \in Evaluators, TakeTime(s)
    PROVE  IInv'
  <1>1. PICK q : q = [session[s] EXCEPT !.pc = "timed", !.now = clock]
    OBVIOUS
  <1>2. session[s] \in Session /\ session[s].pc = "locked" /\ Inserted(session[s]) /\ clock \in Nat
    BY DEF IInv, TypeOK, SessionsOK, TakeTime
  <1>3. /\ q \in Session /\ q.pc = "timed" /\ q.now = clock
        /\ q.new = {} /\ q.marking = session[s].marking
    BY <1>1, <1>2 DEF Session, Inserted
  <1>4. /\ session' = [session EXCEPT ![s] = q] /\ UNCHANGED <<rows, alerts, read, clock>>
        /\ UNCHANGED <<requests, faults>>
    BY <1>1 DEF TakeTime
  <1>5. Inserted(q)
    BY <1>2, <1>3 DEF Inserted
  <1>6. Locking(session[s]) /\ requests' \in 0..MaxRequests /\ faults' \in 0..MaxFaults
    BY <1>2, <1>4 DEF Locking, IInv, TypeOK
  <1>7. QED
    BY <1>3, <1>4, <1>5, <1>6, SessionStep

\* The alerts an evaluation calls for by the cases it reads.
LEMMA CalledByCases ==
    ASSUME IInv, NEW users \in SUBSET Users, NEW now \in Nat,
           NEW e \in UNION {CaseAlerts(c, kase[c], users, now) : c \in Cases}
    PROVE  /\ e \in Events
           /\ e.kind = "sla_breached" => OverdueAt(kase[e.target], now)
           /\ e.kind = "sla_due_soon" => ~OverdueAt(kase[e.target], now)
  <1>1. PICK c \in Cases : e \in CaseAlerts(c, kase[c], users, now)
    OBVIOUS
  <1>2. kase[c] \in Case
    BY DEF IInv, TypeOK
  <1>3. e \in [kind : CaseKinds, target : Cases, recipient : Users] /\ e.target = c
    BY <1>1, <1>2, CaseAlertType
  <1>4. QED
    BY <1>1, <1>2, <1>3, SlaAlertTimes DEF Events

\* What it finds about cases is new: nobody else inserts while it has the lock.
LEMMA CasesKeep ==
    ASSUME IInv, NEW s \in Evaluators, EvaluateCases(s)
    PROVE  IInv'
  <1> DEFINE called == UNION {CaseAlerts(c, kase[c], session[s].users, session[s].now) :
                                 c \in Cases}
  <1>1. PICK q : q = [session[s] EXCEPT !.pc = "casesRead", !.new = NotYetMade(called)]
    OBVIOUS
  <1>2. /\ session[s] \in Session /\ session[s].pc = "timed" /\ Inserted(session[s])
        /\ session[s].users \in SUBSET Users /\ session[s].now \in Nat
    BY DEF IInv, TypeOK, SessionsOK, EvaluateCases, Session
  <1>3. \A e \in NotYetMade(called) : e \in called /\ alerts[e] = 0
    BY DEF NotYetMade
  <1>4. NotYetMade(called) \in SUBSET Events
    BY <1>2, <1>3, CalledByCases
  <1>5. /\ q \in Session /\ q.pc = "casesRead" /\ q.now = session[s].now
        /\ q.new = NotYetMade(called) /\ q.marking = session[s].marking
    BY <1>1, <1>2, <1>4 DEF Session
  <1>6. /\ session' = [session EXCEPT ![s] = q] /\ UNCHANGED <<rows, alerts, read, clock>>
        /\ UNCHANGED <<requests, faults>>
    BY <1>1 DEF EvaluateCases
  <1>7. ASSUME NEW c \in Cases, NEW u \in Users, Breach(c, u) \in q.new
        PROVE  OverdueAt(kase[c], q.now)
    <2>1. Breach(c, u) \in called /\ Breach(c, u).kind = "sla_breached" /\ Breach(c, u).target = c
      BY <1>3, <1>5, <1>7 DEF Breach
    <2>2. QED
      BY <1>2, <1>5, <2>1, CalledByCases
  <1>8. ASSUME NEW c \in Cases, NEW u \in Users, NEW w \in Users, Soon(c, u) \in q.new
        PROVE  alerts[Breach(c, w)] = 0
    <2>1. Soon(c, u) \in called /\ Soon(c, u).kind = "sla_due_soon" /\ Soon(c, u).target = c
      BY <1>3, <1>5, <1>8 DEF Soon
    <2>2. ~OverdueAt(kase[c], session[s].now)
      BY <1>2, <2>1, CalledByCases
    <2>3. ~(alerts[Breach(c, w)] > 0)
      BY <1>2, <2>2 DEF IInv, BreachesOK
    <2>4. Breach(c, w) \in Events
      BY DEF Breach, Events, CaseKinds
    <2>5. QED
      BY <2>3, <2>4 DEF IInv, TypeOK
  <1>9. Inserted(q)
    BY <1>2, <1>3, <1>5, <1>7, <1>8 DEF Inserted
  <1>10. Locking(session[s]) /\ requests' \in 0..MaxRequests /\ faults' \in 0..MaxFaults
    BY <1>2, <1>6 DEF Locking, IInv, TypeOK
  <1>11. QED
    BY <1>2, <1>5, <1>6, <1>9, <1>10, SessionStep

\* The committing step: what becomes of the alerts.
LEMMA Committing ==
    ASSUME IInv, NEW s \in Evaluators, EvaluateReplies(s)
    PROVE  \E new \in SUBSET Events :
            /\ alerts' = [e \in Events |-> IF e \in new THEN 1 ELSE alerts[e]]
            /\ \A e \in new : alerts[e] = 0
            /\ \A e \in new : e.kind \in {"sla_breached", "sla_due_soon"} => e \in session[s].new
  <1> DEFINE called == UNION {ApprovalAlerts(r, reply[r], session[s].users) : r \in Replies}
             new == session[s].new \cup NotYetMade(called)
  <1>1. session[s] \in Session /\ Inserted(session[s])
    BY DEF IInv, TypeOK, SessionsOK
  <1>2. session[s].users \in SUBSET Users /\ session[s].new \in SUBSET Events
    BY <1>1 DEF Session
  <1>3. \A e \in called : e \in [kind : {"draft_approval"}, target : Replies, recipient : Users]
    BY <1>2, ApprovalAlertType
  <1>4. \A e \in NotYetMade(called) : e \in called /\ alerts[e] = 0
    BY DEF NotYetMade
  <1>5. new \in SUBSET Events
    BY <1>2, <1>3, <1>4 DEF Events
  <1>6. \A e \in new : alerts[e] = 0
    BY <1>1, <1>4 DEF Inserted
  <1>7. \A e \in new : e.kind \in {"sla_breached", "sla_due_soon"} => e \in session[s].new
    BY <1>3, <1>4
  <1>8. alerts' = [e \in Events |-> IF e \in new THEN alerts[e] + 1 ELSE alerts[e]]
    BY DEF EvaluateReplies
  <1>9. alerts' = [e \in Events |-> IF e \in new THEN 1 ELSE alerts[e]]
    <2> HIDE DEF new
    <2>1. \A e \in Events : (IF e \in new THEN alerts[e] + 1 ELSE alerts[e])
                             = (IF e \in new THEN 1 ELSE alerts[e])
      <3>1. \A e \in new : alerts[e] + 1 = 1
        BY <1>6
      <3>2. QED
        BY <3>1
    <2>2. QED
      BY <1>8, <2>1
  <1>10. QED
    BY <1>5, <1>6, <1>7, <1>9

\* Its commit inserts each alert it found once.
LEMMA RepliesKeep ==
    ASSUME IInv, NEW s \in Evaluators, EvaluateReplies(s)
    PROVE  IInv'
  <1>1. PICK new \in SUBSET Events :
            /\ alerts' = [e \in Events |-> IF e \in new THEN 1 ELSE alerts[e]]
            /\ \A e \in new : alerts[e] = 0
            /\ \A e \in new : e.kind \in {"sla_breached", "sla_due_soon"} => e \in session[s].new
    BY Committing
  <1>2. PICK q : q = IF session[s].reader = NoUser THEN IdleSession
                     ELSE [IdleSession EXCEPT !.pc = "committed", !.reader = session[s].reader]
    OBVIOUS
  <1>3. /\ session[s] \in Session /\ session[s].pc = "casesRead" /\ Inserted(session[s])
        /\ session[s].reader \in MaybeUser /\ session[s].now \in Nat /\ clock \in Nat
    BY DEF IInv, TypeOK, SessionsOK, EvaluateReplies, Session
  <1>4. /\ q \in Session /\ q.pc \in {"idle", "committed"} /\ q.now = 0
        /\ q.new = {} /\ q.marking = {}
    BY <1>2, <1>3 DEF Session, IdleSession, MaybeUser
  <1>5. /\ session' = [session EXCEPT ![s] = q] /\ UNCHANGED <<rows, read, clock, requests, faults>>
    BY <1>2 DEF EvaluateReplies
  <1>6. alerts' \in [Events -> Nat] /\ \A e \in Events : alerts[e] \in Nat
    BY <1>1 DEF IInv, TypeOK
  <1>7. TypeOK'
    BY <1>4, <1>5, <1>6 DEF IInv, TypeOK, rows
  <1>8. OncePerEvent'
    BY <1>1, <1>5, <1>6 DEF IInv, OncePerEvent
  <1>9. \A t \in Evaluators : session'[t] = IF t = s THEN q ELSE session[t]
    BY <1>5 DEF IInv, TypeOK
  <1>10. \A t \in Evaluators \ {s} : ~Locking(session[t])
    BY <1>3 DEF IInv, OneHolder, Locking
  <1>11. OneHolder' /\ \A t \in Evaluators : ~Locking(session'[t])
    BY <1>4, <1>9, <1>10 DEF OneHolder, Locking
  <1>12. \A c \in Cases, u \in Users :
            /\ Breach(c, u) \in Events /\ Breach(c, u).kind = "sla_breached"
            /\ Soon(c, u) \in Events /\ Soon(c, u).kind = "sla_due_soon"
    BY DEF Breach, Soon, Events, CaseKinds
  <1>13. BreachesOK'
    <2> SUFFICES ASSUME NEW c \in Cases, NEW u \in Users, alerts'[Breach(c, u)] > 0
                 PROVE  OverdueAt(kase[c], clock)
      BY <1>5, <1>11 DEF BreachesOK, Locking, rows
    <2>1. CASE Breach(c, u) \in new
      <3>1. OverdueAt(kase[c], session[s].now)
        BY <1>1, <1>3, <1>12, <2>1 DEF Inserted
      <3>2. session[s].now <= clock /\ kase[c].sla_due_at \in Nat
        BY <1>3 DEF Inserted, IInv, TypeOK, Case
      <3>3. QED
        BY <1>3, <3>1, <3>2 DEF OverdueAt
    <2>2. CASE Breach(c, u) \notin new
      BY <1>1, <1>12, <2>2 DEF IInv, BreachesOK
    <2>3. QED
      BY <2>1, <2>2
  <1>14. SessionsOK'
    <2> SUFFICES ASSUME NEW t \in Evaluators
                 PROVE  /\ session'[t].now <= clock /\ session'[t].new = {}
                        /\ \A e \in session'[t].marking : alerts'[e] = 1
      BY <1>5 DEF SessionsOK, Inserted
    <2>1. CASE t = s
      BY <1>3, <1>4, <1>9, <2>1
    <2>2. CASE t # s
      <3>1. session'[t] = session[t] /\ Inserted(session[t]) /\ session[t].new = {}
        BY <1>9, <1>10, <2>2 DEF IInv, SessionsOK, Inserted, Locking
      <3>2. session[t].marking \in SUBSET Events
        BY DEF IInv, TypeOK, Session
      <3>3. QED
        BY <1>1, <3>1, <3>2 DEF Inserted
    <2>3. QED
      BY <2>1, <2>2
  <1>15. QED
    BY <1>7, <1>8, <1>11, <1>13, <1>14 DEF IInv

\* An evaluation that fails inserts nothing.
LEMMA GiveUpKeeps ==
    ASSUME IInv, NEW s \in Evaluators, GiveUp(s)
    PROVE  IInv'
  <1>1. clock \in Nat /\ requests \in 0..MaxRequests /\ faults \in 0..MaxFaults
    BY DEF IInv, TypeOK
  <1>2. requests' \in 0..MaxRequests /\ faults' \in 0..MaxFaults
    BY <1>1, BoundsAssumption DEF GiveUp
  <1>3. ~Locking(IdleSession) /\ IdleSession.pc \notin {"timed", "casesRead"}
    BY IdleType DEF Locking
  <1>4. session' = [session EXCEPT ![s] = IdleSession] /\ UNCHANGED <<rows, alerts, read, clock>>
    BY DEF GiveUp
  <1>5. QED
    BY <1>1, <1>2, <1>3, <1>4, IdleType, IdleInserted, SessionStep

-----------------------------------------------------------------------------
(* Steps of a reader *)

\* What a list shows was committed.
LEMMA OwnUnreadMade ==
    ASSUME IInv, NEW u
    PROVE  OwnUnread(u) \in SUBSET Events /\ \A e \in OwnUnread(u) : alerts[e] = 1
  BY DEF OwnUnread, IInv, TypeOK, OncePerEvent

\* What is left to mark was committed.
LEMMA MarkingType ==
    ASSUME IInv, NEW s \in Evaluators, NEW left \in SUBSET Events,
           session[s].pc \in {"committed", "marking"}, \A e \in left : alerts[e] = 1
    PROVE  /\ Marking(s, left) \in Session /\ Inserted(Marking(s, left))
           /\ Marking(s, left).pc \in {"idle", "marking"}
  <1>1. session[s] \in Session /\ Inserted(session[s]) /\ clock \in Nat
    BY DEF IInv, TypeOK, SessionsOK
  <1>2. CASE left = {}
    BY <1>1, <1>2, IdleType, IdleInserted DEF Marking
  <1>3. CASE left # {}
    <2>1. PICK q : q = [session[s] EXCEPT !.pc = "marking", !.marking = left]
      OBVIOUS
    <2>2. /\ q \in Session /\ q.pc = "marking" /\ q.now = session[s].now
          /\ q.new = {} /\ q.marking = left
      BY <1>1, <2>1 DEF Session, Inserted
    <2>3. Inserted(q)
      BY <1>1, <2>2 DEF Inserted
    <2>4. Marking(s, left) = q
      BY <1>3, <2>1 DEF Marking
    <2>5. QED
      BY <2>2, <2>3, <2>4
  <1>4. QED
    BY <1>2, <1>3

\* A list is read after the evaluation of the same request.
LEMMA ListKeeps ==
    ASSUME IInv, NEW s \in Evaluators, ListUnread(s)
    PROVE  IInv'
  <1>1. PICK q : q = Marking(s, OwnUnread(session[s].reader))
    OBVIOUS
  <1>2. q \in Session /\ Inserted(q) /\ q.pc \in {"idle", "marking"}
    BY <1>1, OwnUnreadMade, MarkingType DEF ListUnread
  <1>3. /\ session' = [session EXCEPT ![s] = q]
        /\ UNCHANGED <<rows, alerts, read, clock, requests, faults>>
    BY <1>1 DEF ListUnread
  <1>4. requests' \in 0..MaxRequests /\ faults' \in 0..MaxFaults /\ ~Locking(q)
    BY <1>2, <1>3 DEF IInv, TypeOK, Locking
  <1>5. QED
    BY <1>2, <1>3, <1>4, SessionStep

\* Marking a committed alert as read changes nothing else that matters.
LEMMA ReadKeeps ==
    ASSUME IInv, NEW e \in Events, alerts[e] = 1, read' = read \cup {e},
           UNCHANGED <<rows, session, alerts, clock>>,
           requests' \in 0..MaxRequests, faults' \in 0..MaxFaults
    PROVE  IInv'
  <1>1. TypeOK' /\ OneHolder' /\ BreachesOK'
    BY DEF IInv, TypeOK, OneHolder, BreachesOK, rows
  <1>2. OncePerEvent'
    BY DEF IInv, OncePerEvent
  <1>3. SessionsOK'
    BY DEF IInv, SessionsOK, Inserted, rows
  <1>4. QED
    BY <1>1, <1>2, <1>3 DEF IInv

\* A click on one notification.
LEMMA MarkReadKeeps ==
    ASSUME IInv, NEW u \in Readers, NEW e \in Events, MarkRead(u, e)
    PROVE  IInv'
  <1>1. alerts[e] = 1
    BY OwnUnreadMade DEF MarkRead
  <1>2. requests' \in 0..MaxRequests /\ faults' \in 0..MaxFaults
    BY BoundsAssumption DEF MarkRead, Requested, IInv, TypeOK
  <1>3. QED
    BY <1>1, <1>2, ReadKeeps DEF MarkRead

\* Read-all, one notification after the other.
LEMMA MarkNextKeeps ==
    ASSUME IInv, NEW s \in Evaluators, NEW e \in session[s].marking, MarkNext(s, e)
    PROVE  IInv'
  <1>1. /\ session[s].marking \in SUBSET Events /\ Inserted(session[s])
        /\ session[s].pc = "marking"
    BY DEF IInv, TypeOK, SessionsOK, Session, MarkNext
  <1>2. e \in Events /\ \A f \in session[s].marking : alerts[f] = 1
    BY <1>1 DEF Inserted
  <1>3. PICK q : q = Marking(s, session[s].marking \ {e})
    OBVIOUS
  <1>4. q \in Session /\ Inserted(q) /\ q.pc \in {"idle", "marking"}
    BY <1>1, <1>2, <1>3, MarkingType
  <1>5. /\ session' = [session EXCEPT ![s] = q] /\ read' = read \cup {e}
        /\ UNCHANGED <<rows, alerts, clock, requests, faults>>
    BY <1>3 DEF MarkNext
  <1>6. \A t \in Evaluators : session'[t] = IF t = s THEN q ELSE session[t]
    BY <1>5 DEF IInv, TypeOK
  <1>7. TypeOK'
    BY <1>2, <1>4, <1>5 DEF IInv, TypeOK, rows
  <1>8. OncePerEvent'
    BY <1>2, <1>5 DEF IInv, OncePerEvent
  <1>9. OneHolder'
    BY <1>4, <1>6 DEF IInv, OneHolder, Locking
  <1>10. BreachesOK'
    BY <1>4, <1>5, <1>6 DEF IInv, BreachesOK, rows
  <1>11. \A t \in Evaluators : Inserted(session'[t])
    BY <1>4, <1>6 DEF IInv, SessionsOK
  <1>12. SessionsOK'
    <2>1. \A t \in Evaluators : Inserted(session[t])' = Inserted(session'[t])
      BY <1>5 DEF Inserted, OverdueAt, rows
    <2>2. QED
      BY <1>11, <2>1 DEF SessionsOK
  <1>13. QED
    BY <1>7, <1>8, <1>9, <1>10, <1>12 DEF IInv

-----------------------------------------------------------------------------
(* Steps of the rest of the system *)

\* A step beside the evaluations keeps what is overdue overdue.
LEMMA RowsStep ==
    ASSUME IInv, UNCHANGED evaluation,
           kase' \in [Cases -> Case], reply' \in [Replies -> Reply], active' \subseteq Users,
           clock' \in 1..MaxClock, clock <= clock', requests' \in 0..MaxRequests,
           \A c \in Cases, time \in Nat : OverdueAt(kase[c], time) => OverdueAt(kase'[c], time)
    PROVE  IInv'
  <1>1. clock \in Nat /\ clock' \in Nat
    BY BoundsAssumption DEF IInv, TypeOK
  <1>2. TypeOK'
    BY DEF IInv, TypeOK, evaluation
  <1>3. OncePerEvent' /\ OneHolder'
    BY DEF IInv, OncePerEvent, OneHolder, evaluation
  <1>4. \A s \in Evaluators : session[s].now \in Nat
    BY DEF IInv, TypeOK, Session
  <1>5. \A c \in Cases : OverdueAt(kase[c], clock) => OverdueAt(kase'[c], clock')
    <2>1. \A c \in Cases : kase'[c].sla_due_at \in Nat
      BY DEF Case
    <2>2. QED
      BY <1>1, <2>1 DEF OverdueAt
  <1>6. BreachesOK'
    BY <1>4, <1>5 DEF IInv, BreachesOK, evaluation
  <1>7. SessionsOK'
    <2> SUFFICES ASSUME NEW s \in Evaluators
                 PROVE  /\ session[s].now <= clock'
                        /\ \A c \in Cases, u \in Users :
                              Breach(c, u) \in session[s].new => OverdueAt(kase'[c], session[s].now)
      BY DEF IInv, SessionsOK, Inserted, evaluation
    <2>1. session[s].now <= clock /\ session[s].now \in Nat
      BY <1>4 DEF IInv, SessionsOK, Inserted
    <2>2. QED
      BY <1>1, <2>1 DEF IInv, SessionsOK, Inserted
  <1>8. QED
    BY <1>2, <1>3, <1>6, <1>7 DEF IInv

\* A request that changes one case neither removes it nor moves its deadline.
LEMMA CaseStep ==
    ASSUME IInv, NEW c \in Cases, NEW row \in Case, CaseBecomes(c, row),
           kase[c].status # "absent" =>
              row.status # "absent" /\ row.sla_due_at = kase[c].sla_due_at
    PROVE  IInv'
  <1>1. PICK new : new = [row EXCEPT !.updated_at = clock]
    OBVIOUS
  <1>2. new \in Case /\ new.status = row.status /\ new.sla_due_at = row.sla_due_at
    BY <1>1 DEF Case, IInv, TypeOK
  <1>3. /\ kase' = [kase EXCEPT ![c] = new] /\ UNCHANGED <<reply, active, clock>>
        /\ UNCHANGED evaluation /\ requests' \in 0..MaxRequests
    BY <1>1, BoundsAssumption DEF CaseBecomes, Changes, Requested, IInv, TypeOK
  <1>4. kase' \in [Cases -> Case]
    BY <1>2, <1>3 DEF IInv, TypeOK
  <1>5. \A d \in Cases, time \in Nat : OverdueAt(kase[d], time) => OverdueAt(kase'[d], time)
    BY <1>2, <1>3 DEF IInv, TypeOK, OverdueAt
  <1>6. /\ reply' \in [Replies -> Reply] /\ active' \subseteq Users
        /\ clock' \in 1..MaxClock /\ clock <= clock'
    BY <1>3 DEF IInv, TypeOK
  <1>7. QED
    BY <1>3, <1>4, <1>5, <1>6, RowsStep

\* Requests about cases insert no alert; the deadline stays where it was set.
LEMMA CaseRequestKeeps ==
    ASSUME IInv, NEW c \in Cases,
           \/ \E severity \in Severities, sla \in SlaTicks \cup {NoDeadline} :
                 OpenCase(c, severity, sla)
           \/ \E u \in Users : AssignCase(c, u)
           \/ \E next \in Statuses : TransitionCase(c, next)
           \/ \E severity \in Severities : UpdateCase(c, severity)
    PROVE  IInv'
  <1>1. kase[c] \in Case /\ clock \in Nat
    BY DEF IInv, TypeOK
  <1>2. ASSUME NEW severity \in Severities, NEW sla \in SlaTicks \cup {NoDeadline},
               OpenCase(c, severity, sla)
        PROVE  IInv'
    <2>1. PICK row : row = [AbsentCase EXCEPT !.status = "new", !.severity = severity,
                                              !.sla_due_at = IF sla = NoDeadline THEN NoDeadline
                                                             ELSE clock + sla]
      OBVIOUS
    <2>2. sla \in Nat
      BY BoundsAssumption DEF NoDeadline
    <2>3. (IF sla = NoDeadline THEN NoDeadline ELSE clock + sla) \in Nat
      BY <1>1, <2>2 DEF NoDeadline
    <2>4. row \in Case
      BY <2>1, <2>3 DEF Case, AbsentCase, MaybeUser, Statuses
    <2>5. CaseBecomes(c, row) /\ kase[c].status = "absent"
      BY <1>2, <2>1 DEF OpenCase
    <2>6. QED
      BY <2>4, <2>5, CaseStep
  <1>3. ASSUME NEW u \in Users, AssignCase(c, u)
        PROVE  IInv'
    <2>1. PICK row : row = [kase[c] EXCEPT !.assigned_to = u,
                                           !.status = StatusOnAssign(kase[c].status)]
      OBVIOUS
    <2>2. kase[c].status \in Statuses /\ StatusOnAssign(kase[c].status) \in Statuses
      BY <1>1, <1>3 DEF AssignCase, Case, StatusOnAssign, Statuses
    <2>3. row \in Case /\ row.status # "absent" /\ row.sla_due_at = kase[c].sla_due_at
      BY <1>1, <2>1, <2>2 DEF Case, MaybeUser, Statuses
    <2>4. CaseBecomes(c, row)
      BY <1>3, <2>1 DEF AssignCase
    <2>5. QED
      BY <2>3, <2>4, CaseStep
  <1>4. ASSUME NEW next \in Statuses, TransitionCase(c, next)
        PROVE  IInv'
    <2>1. PICK row : row = [kase[c] EXCEPT !.status = next]
      OBVIOUS
    <2>2. row \in Case /\ row.status # "absent" /\ row.sla_due_at = kase[c].sla_due_at
      BY <1>1, <2>1 DEF Case, Statuses
    <2>3. CaseBecomes(c, row)
      BY <1>4, <2>1 DEF TransitionCase
    <2>4. QED
      BY <2>2, <2>3, CaseStep
  <1>5. ASSUME NEW severity \in Severities, UpdateCase(c, severity)
        PROVE  IInv'
    <2>1. PICK row : row = [kase[c] EXCEPT !.severity = severity]
      OBVIOUS
    <2>2. row \in Case /\ row.status = kase[c].status /\ row.sla_due_at = kase[c].sla_due_at
      BY <1>1, <2>1 DEF Case
    <2>3. CaseBecomes(c, row)
      BY <1>5, <2>1 DEF UpdateCase
    <2>4. QED
      BY <2>2, <2>3, CaseStep
  <1>6. QED
    BY <1>2, <1>3, <1>4, <1>5

\* A request that changes one reply.
LEMMA ReplyStep ==
    ASSUME IInv, NEW r \in Replies, NEW row \in Reply, ReplyBecomes(r, row)
    PROVE  IInv'
  <1>1. /\ reply' = [reply EXCEPT ![r] = row] /\ UNCHANGED <<kase, active, clock>>
        /\ UNCHANGED evaluation /\ requests' \in 0..MaxRequests
    BY BoundsAssumption DEF ReplyBecomes, Changes, Requested, IInv, TypeOK
  <1>2. /\ reply' \in [Replies -> Reply] /\ kase' \in [Cases -> Case] /\ active' \subseteq Users
        /\ clock' \in 1..MaxClock /\ clock <= clock'
    BY <1>1 DEF IInv, TypeOK
  <1>3. QED
    BY <1>1, <1>2, RowsStep

\* Requests about replies insert no alert either.
LEMMA ReplyRequestKeeps ==
    ASSUME IInv, NEW r \in Replies,
           \/ \E u \in MaybeUser : DraftReply(r, u)
           \/ \E u \in Users : EditReply(r, u) \/ SubmitReply(r, u)
           \/ \E u \in Approvers : PublishReply(r, u)
    PROVE  IInv'
  <1>1. reply[r] \in Reply
    BY DEF IInv, TypeOK
  <1>2. ASSUME NEW u \in Users, NEW stored \in MaybeUser
        PROVE  Coalesce(stored, u) \in MaybeUser
    BY DEF Coalesce, MaybeUser
  <1>3. ASSUME NEW u \in MaybeUser, DraftReply(r, u)
        PROVE  IInv'
    <2>1. [AbsentReply EXCEPT !.status = "draft", !.created_by = u] \in Reply
      BY DEF AbsentReply, Reply, MaybeUser
    <2>2. QED
      BY <1>3, <2>1, ReplyStep DEF DraftReply
  <1>4. ASSUME NEW u \in Users, EditReply(r, u)
        PROVE  IInv'
    <2>1. [status |-> "draft", edited_by |-> u,
           created_by |-> Coalesce(reply[r].created_by, u)] \in Reply
      BY <1>1, <1>2 DEF Reply, MaybeUser
    <2>2. QED
      BY <1>4, <2>1, ReplyStep DEF EditReply
  <1>5. ASSUME NEW u \in Users, SubmitReply(r, u)
        PROVE  IInv'
    <2>1. [status |-> "pending_approval", created_by |-> Coalesce(reply[r].created_by, u),
           edited_by |-> Coalesce(reply[r].edited_by, u)] \in Reply
      BY <1>1, <1>2 DEF Reply
    <2>2. QED
      BY <1>5, <2>1, ReplyStep DEF SubmitReply
  <1>6. ASSUME NEW u \in Approvers, PublishReply(r, u)
        PROVE  IInv'
    <2>1. [reply[r] EXCEPT !.status = "published"] \in Reply
      BY <1>1 DEF Reply
    <2>2. QED
      BY <1>6, <2>1, ReplyStep DEF PublishReply
  <1>7. QED
    BY <1>3, <1>4, <1>5, <1>6

\* Time passes, users come and go.
LEMMA UserOrClockKeeps ==
    ASSUME IInv, Tick \/ \E u \in Users : SetUserStatus(u)
    PROVE  IInv'
  <1>1. UNCHANGED <<kase, reply>> /\ UNCHANGED evaluation
    BY DEF Tick, SetUserStatus, Changes, rows
  <1>2. clock' \in 1..MaxClock /\ clock <= clock'
    BY BoundsAssumption DEF Tick, SetUserStatus, Changes, IInv, TypeOK
  <1>3. requests' \in 0..MaxRequests
    BY BoundsAssumption DEF Tick, SetUserStatus, Changes, Requested, IInv, TypeOK
  <1>4. active' \subseteq Users
    BY DEF Tick, SetUserStatus, rows, IInv, TypeOK
  <1>5. kase' \in [Cases -> Case] /\ reply' \in [Replies -> Reply]
    BY <1>1 DEF IInv, TypeOK
  <1>6. QED
    BY <1>1, <1>2, <1>3, <1>4, <1>5, RowsStep

-----------------------------------------------------------------------------
\* No alert has been made.
LEMMA Initially == Init => IInv
  <1> SUFFICES ASSUME Init PROVE IInv
    OBVIOUS
  <1>1. AbsentCase \in Case /\ AbsentReply \in Reply
    BY DEF AbsentCase, Case, AbsentReply, Reply, MaybeUser, Severities, NoDeadline
  <1>2. TypeOK
    BY <1>1, IdleType, BoundsAssumption DEF Init, TypeOK
  <1>3. OncePerEvent
    BY DEF Init, OncePerEvent
  <1>4. OneHolder
    BY IdleType DEF Init, OneHolder, Locking
  <1>5. \A c \in Cases, u \in Users : Breach(c, u) \in Events
    BY DEF Breach, Events, CaseKinds
  <1>6. BreachesOK
    BY <1>5 DEF Init, BreachesOK
  <1>7. SessionsOK
    BY IdleInserted DEF Init, SessionsOK
  <1>8. QED
    BY <1>2, <1>3, <1>4, <1>6, <1>7 DEF IInv

\* The invariant is kept by every step.
LEMMA Inductive == IInv /\ [Next]_vars => IInv'
  <1> SUFFICES ASSUME IInv, [Next]_vars PROVE IInv'
    OBVIOUS
  <1>1. ASSUME NEW s \in Evaluators,
               \/ \E reader \in Readers \cup {NoUser} : TakeLock(s, reader)
               \/ Evaluate(s) \/ MarkAll(s) \/ GiveUp(s)
        PROVE  IInv'
    BY <1>1, LockKeeps, TimeKeeps, CasesKeep, RepliesKeep, ListKeeps, MarkNextKeeps, GiveUpKeeps
    DEF Evaluate, MarkAll
  <1>2. ASSUME NEW u \in Readers, NEW e \in Events, MarkRead(u, e)
        PROVE  IInv'
    BY <1>2, MarkReadKeeps
  <1>3. CASE Environment
    BY <1>3, CaseRequestKeeps, ReplyRequestKeeps, UserOrClockKeeps DEF Environment
  <1>4. CASE UNCHANGED vars
    <2>1. /\ TypeOK' /\ OncePerEvent' /\ OneHolder' /\ BreachesOK'
      BY <1>4 DEF IInv, TypeOK, OncePerEvent, OneHolder, BreachesOK, vars, rows
    <2>2. SessionsOK'
      BY <1>4 DEF IInv, SessionsOK, Inserted, vars, rows
    <2>3. QED
      BY <2>1, <2>2 DEF IInv
  <1>5. QED
    BY <1>1, <1>2, <1>3, <1>4 DEF Next

\* The inductive invariant holds throughout.
LEMMA Invariance == Spec => []IInv
  BY Initially, Inductive, PTL DEF Spec

-----------------------------------------------------------------------------
(* Theorems *)

\* The variables of the notification rules have their types.
THEOREM NotificationsTypeCorrect == Spec => []TypeOK
  <1>1. IInv => TypeOK
    BY DEF IInv
  <1>2. QED
    BY <1>1, Invariance, PTL

\* An event has one alert at most, and only a committed one is marked as read,
\* however many evaluations overlap.
THEOREM OncePerEventHolds == Spec => []OncePerEvent
  <1>1. IInv => OncePerEvent
    BY DEF IInv
  <1>2. QED
    BY <1>1, Invariance, PTL

\* No evaluation, however old, warns of a deadline somebody was told has passed.
THEOREM NoWarningAfterBreachHolds == Spec => NoWarningAfterBreach
  <1>1. ASSUME IInv, [Next]_vars, NEW c \in Cases, NEW w \in Users, NEW u \in Users,
               alerts[Breach(c, w)] > 0
        PROVE  alerts'[Soon(c, u)] = alerts[Soon(c, u)]
    <2>1. CASE \E s \in Evaluators : EvaluateReplies(s)
      <3>1. PICK s \in Evaluators : EvaluateReplies(s)
        BY <2>1
      <3>2. PICK new \in SUBSET Events :
              /\ alerts' = [e \in Events |-> IF e \in new THEN 1 ELSE alerts[e]]
              /\ \A e \in new : e.kind \in {"sla_breached", "sla_due_soon"} => e \in session[s].new
        BY <1>1, <3>1, Committing
      <3>3. Soon(c, u) \in Events /\ Soon(c, u).kind = "sla_due_soon"
        BY DEF Soon, Events, CaseKinds
      <3>4. Soon(c, u) \notin session[s].new
        BY <1>1 DEF IInv, SessionsOK, Inserted
      <3>5. QED
        BY <3>2, <3>3, <3>4
    <2>2. CASE UNCHANGED alerts
      BY <2>2
    <2>3. QED
      BY <1>1, <2>1, <2>2
      DEF Next, TakeLock, Evaluate, TakeTime, EvaluateCases, MarkAll, ListUnread, MarkNext, GiveUp,
          MarkRead, Environment, OpenCase, AssignCase, TransitionCase, UpdateCase, DraftReply,
          EditReply, SubmitReply, PublishReply, SetUserStatus, Tick, CaseBecomes, ReplyBecomes,
          Changes, evaluation, vars
  <1>2. IInv /\ [Next]_vars =>
          [\A c \in Cases :
              (\E u \in Users :
                  alerts[[kind |-> "sla_breached", target |-> c, recipient |-> u]] > 0)
              => \A u \in Users :
                    LET e == [kind |-> "sla_due_soon", target |-> c, recipient |-> u]
                    IN  alerts'[e] = alerts[e]]_vars
    BY <1>1 DEF Breach, Soon
  <1>3. QED
    BY <1>2, Invariance, PTL DEF Spec, NoWarningAfterBreach
=============================================================================
