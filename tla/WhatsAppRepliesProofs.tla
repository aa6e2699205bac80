----------------------- MODULE WhatsAppRepliesProofs -----------------------
(***************************************************************************)
(* Theorems about the reply workflow, for any number of users, replies,    *)
(* sessions, texts and messages and any bound on the audit trail.          *)
(***************************************************************************)
EXTENDS WhatsAppReplies, TLAPS

-----------------------------------------------------------------------------
(* Type correctness *)

\* The rows, sessions, messages and audit rows are well formed initially.
LEMMA InitType == Init => TypeOK
  <1>1. ASSUME Init PROVE TypeOK
    <2>1. NoText \in Texts
      BY BodiesAssumption DEF NoText, Texts, MaybeUser
    <2>2. AbsentReply \in Reply
      BY <2>1 DEF AbsentReply, Reply, Statuses, MaybeUser
    <2>3. IdleSession \in Session
      BY <2>1 DEF IdleSession, Session, MaybeUser
    <2>4. QED
      BY <1>1, <2>2, <2>3 DEF Init, TypeOK
  <1>2. QED
    BY <1>1

\* An audit row appended by a handler keeps the trails well formed.
LEMMA AuditedType ==
    ASSUME TypeOK, NEW r \in Replies, NEW action \in AuditActions,
           NEW actor \in MaybeUser, NEW outcome \in {"success", "error"}
    PROVE  Audited(r, action, actor, outcome) \in [Replies -> Seq(AuditRow)]
  <1>1. [action |-> action, actor |-> actor, outcome |-> outcome] \in AuditRow
    BY DEF AuditRow
  <1>2. QED
    BY <1>1 DEF TypeOK, Audited

\* The rows the handlers write are well formed.
LEMMA DraftRowType ==
    ASSUME NEW words \in Bodies, NEW passed \in BOOLEAN, NEW routed \in BOOLEAN,
           NEW u \in MaybeUser
    PROVE  DraftRow(words, passed, routed, u) \in Reply
  <1>1. [words |-> words, author |-> NoUser] \in Texts
    BY DEF Texts, MaybeUser
  <1>2. QED
    BY <1>1 DEF DraftRow, Reply, Statuses, MaybeUser

\* An edit by an operator leaves a well-formed row, whatever the row was.
LEMMA EditedType ==
    ASSUME NEW u \in Users, NEW words \in Bodies, NEW row \in Reply
    PROVE  EditedBy(u, words, row) \in Reply
  BY DEF EditedBy, Reply, Statuses, Coalesce, Texts, MaybeUser

\* A submission by an operator leaves a well-formed row.
LEMMA SubmittedType ==
    ASSUME NEW u \in Users, NEW row \in Reply
    PROVE  SubmittedBy(u, row) \in Reply
  BY DEF SubmittedBy, Reply, Statuses, Coalesce, MaybeUser

\* Publishing with a user and a reference leaves a well-formed row.
LEMMA PublishedType ==
    ASSUME NEW u \in Users, NEW ref \in Refs, NEW row \in Reply
    PROVE  PublishedBy(u, ref, row) \in Reply
  BY DEF PublishedBy, Reply, Statuses, MaybeUser

\* The state of a request that holds nothing is well formed.
LEMMA IdleType == IdleSession \in Session
  BY BodiesAssumption DEF NoText, Texts, MaybeUser, IdleSession, Session

-----------------------------------------------------------------------------
(* The inductive invariant *)

\* An approving session holds one reply, which is still the one it checked.
SessionOK ==
    \A s \in Sessions :
        /\ session[s].pc = "idle" => session[s].reply = NoReply
        /\ session[s].pc # "idle" =>
              /\ session[s].reply \in Replies
              /\ session[s].user \in Approvers
              /\ MayApprove(session[s].user, session[s].reply)
              /\ session[s].body = reply[session[s].reply].body
        /\ session[s].pc = "accepted" =>
              /\ session[s].ref \in Refs
              /\ MessageOf(s, session[s].ref) \in sent

\* Two sessions never hold the same reply.
LockOK ==
    \A s, t \in Sessions :
        session[s].reply = session[t].reply /\ session[s].reply # NoReply => s = t

\* A reference is on published rows only; the author of a text that somebody
\* wrote is the editor on the row.
RowOK ==
    \A r \in Replies :
        /\ (reply[r].status = "published") <=> (reply[r].published_ref # NoRef)
        /\ reply[r].body.author # NoUser => reply[r].edited_by = reply[r].body.author
        /\ reply[r].status = "pending_approval" => reply[r].created_by # NoUser

\* A reply of which a message went out exists and has a recorded creator.
SentOK ==
    \A m \in sent : reply[m.reply].status # "absent" /\ reply[m.reply].created_by # NoUser

Safety ==
    /\ MakerChecker
    /\ PublishedIsDelivered
    /\ OneDeliveryWithoutFault
    /\ AnswersAgree
    /\ DeliveredWasGrounded

IInv == TypeOK /\ SessionOK /\ LockOK /\ RowOK /\ SentOK /\ Safety

\* The invariant holds before any reply is drafted.
LEMMA InitInvariant == Init => IInv
  <1> SUFFICES ASSUME Init PROVE IInv
    OBVIOUS
  <1>1. TypeOK
    BY InitType
  <1>2. QED
    BY <1>1
    DEF Init, IInv, SessionOK, LockOK, RowOK, SentOK, Safety, IdleSession, AbsentReply, NoText,
        MakerChecker, PublishedIsDelivered, OneDeliveryWithoutFault, AnswersAgree,
        DeliveredWasGrounded

\* What drafting, editing and submitting have in common: the row is neither
\* published nor loses its creator.
Rewrites(old, row) ==
    /\ old.status # "published"
    /\ row.status \notin {"absent", "published"}
    /\ row.published_ref = NoRef
    /\ row.body.author # NoUser => row.edited_by = row.body.author
    /\ row.status = "pending_approval" => row.created_by # NoUser
    /\ \/ old.status = "absent"
       \/ /\ row.passed = old.passed /\ row.routed = old.routed
          /\ old.created_by # NoUser => row.created_by = old.created_by

\* A row of an unlocked reply may be replaced by any row that keeps its creator
\* and its row facts: nothing a request in flight or a sent message relies on
\* changes.
LEMMA RowUpdate ==
    ASSUME IInv, NEW r \in Replies, RowFree(r), NEW row \in Reply,
           Rewrites(reply[r], row),
           reply' = [reply EXCEPT ![r] = row],
           UNCHANGED <<session, sent, orphaned, answers>>
    PROVE  SessionOK' /\ LockOK' /\ RowOK' /\ SentOK' /\ Safety'
  <1> USE DEF IInv, Rewrites
  <1>1. SessionOK'
    BY DEF SessionOK, RowFree, TypeOK, MayApprove, MessageOf
  <1>2. LockOK'
    BY DEF LockOK
  <1>3. RowOK'
    BY DEF RowOK, TypeOK
  <1>4. \A m \in sent : m.reply \in Replies
    BY DEF TypeOK, Message
  <1>5. SentOK'
    BY <1>4 DEF SentOK, TypeOK
  <1>6. MakerChecker'
    BY <1>4 DEF MakerChecker, Safety, SentOK, TypeOK
  <1>7. PublishedIsDelivered'
    BY DEF PublishedIsDelivered, Safety, TypeOK
  <1>8. OneDeliveryWithoutFault'
    BY <1>4, NullsAreFresh
    DEF OneDeliveryWithoutFault, Safety, TypeOK, RowOK, RowFree, Message
  <1>9. AnswersAgree'
    BY NullsAreFresh DEF AnswersAgree, Safety, TypeOK, RowOK
  <1>10. DeliveredWasGrounded'
    BY <1>4 DEF DeliveredWasGrounded, Safety, TypeOK, SentOK
  <1>11. QED
    BY <1>1, <1>2, <1>3, <1>5, <1>6, <1>7, <1>8, <1>9, <1>10 DEF Safety

-----------------------------------------------------------------------------
(* Steps of the writers *)

Writes(r) ==
    /\ RowFree(r)
    /\ \E row \in Reply : Rewrites(reply[r], row) /\ reply' = [reply EXCEPT ![r] = row]
    /\ trail' \in [Replies -> Seq(AuditRow)]
    /\ UNCHANGED <<session, sent, orphaned, answers, reported>>

\* A handler that replaces the row of an unlocked, unpublished reply and appends
\* to its trail preserves the invariant.
LEMMA WritesStep ==
    ASSUME IInv, NEW r \in Replies, Writes(r)
    PROVE  IInv'
  <1>1. PICK row \in Reply : Rewrites(reply[r], row) /\ reply' = [reply EXCEPT ![r] = row]
    BY DEF Writes
  <1>2. TypeOK'
    BY <1>1 DEF Writes, TypeOK, IInv
  <1>3. SessionOK' /\ LockOK' /\ RowOK' /\ SentOK' /\ Safety'
    BY <1>1, RowUpdate DEF Writes
  <1>4. QED
    BY <1>2, <1>3 DEF IInv

\* Drafting by the generator is such a replacement.
LEMMA GenerateWrites ==
    ASSUME IInv, NEW r \in Replies, NEW passed \in BOOLEAN, GenerateReply(r, passed)
    PROVE  Writes(r)
  <1> USE DEF IInv
  <1>1. PICK words \in Bodies :
          reply' = [reply EXCEPT ![r] = DraftRow(words, passed, TRUE, NoUser)]
    BY BodiesAssumption DEF GenerateReply, GeneratedWords
  <1>2. DraftRow(words, passed, TRUE, NoUser) \in Reply
    BY DraftRowType DEF MaybeUser
  <1>3. RowFree(r)
    BY NullsAreFresh DEF GenerateReply, SessionOK, RowFree, MayApprove, TypeOK, Session
  <1>4. Rewrites(reply[r], DraftRow(words, passed, TRUE, NoUser))
    BY DEF GenerateReply, DraftRow, Rewrites
  <1>5. QED
    BY <1>1, <1>2, <1>3, <1>4 DEF Writes, GenerateReply, TypeOK

\* Drafting in the studio is such a replacement.
LEMMA CreateWrites ==
    ASSUME IInv, NEW u \in Users, NEW r \in Replies, NEW passed \in BOOLEAN,
           CreateDraft(u, r, passed)
    PROVE  Writes(r)
  <1> USE DEF IInv
  <1>1. PICK words \in Bodies :
          reply' = [reply EXCEPT ![r] = DraftRow(words, passed, FALSE, u)]
    BY BodiesAssumption DEF CreateDraft, GeneratedWords
  <1>2. DraftRow(words, passed, FALSE, u) \in Reply
    BY DraftRowType DEF MaybeUser
  <1>3. RowFree(r)
    BY NullsAreFresh DEF CreateDraft, SessionOK, RowFree, MayApprove, TypeOK, Session
  <1>4. trail' \in [Replies -> Seq(AuditRow)]
    BY AuditedType DEF CreateDraft, AuditActions, MaybeUser
  <1>5. Rewrites(reply[r], DraftRow(words, passed, FALSE, u))
    BY DEF CreateDraft, DraftRow, Rewrites
  <1>6. QED
    BY <1>1, <1>2, <1>3, <1>4, <1>5 DEF Writes, CreateDraft

\* An edit is such a replacement.
LEMMA UpdateWrites ==
    ASSUME IInv, NEW u \in Users, NEW r \in Replies, NEW words \in Bodies,
           UpdateReply(u, r, words)
    PROVE  Writes(r)
  <1> USE DEF IInv
  <1>1. reply[r] \in Reply /\ EditedBy(u, words, reply[r]) \in Reply
    BY EditedType DEF TypeOK
  <1>2. trail' \in [Replies -> Seq(AuditRow)]
    BY AuditedType DEF UpdateReply, AuditActions, MaybeUser
  <1>3. reply[r].published_ref = NoRef
    BY DEF UpdateReply, Editable, RowOK
  <1>4. Rewrites(reply[r], EditedBy(u, words, reply[r]))
    BY <1>1, <1>3 DEF UpdateReply, Editable, Rewrites, EditedBy, Coalesce, Reply
  <1>5. QED
    BY <1>1, <1>2, <1>4 DEF Writes, UpdateReply

\* A submission is such a replacement.
LEMMA SubmitWrites ==
    ASSUME IInv, NEW u \in Users, NEW r \in Replies, SubmitReply(u, r)
    PROVE  Writes(r)
  <1> USE DEF IInv
  <1>1. reply[r] \in Reply /\ SubmittedBy(u, reply[r]) \in Reply
    BY SubmittedType DEF TypeOK
  <1>2. trail' \in [Replies -> Seq(AuditRow)]
    BY AuditedType DEF SubmitReply, AuditActions, MaybeUser
  <1>3. /\ reply[r].published_ref = NoRef
        /\ reply[r].body.author # NoUser => reply[r].edited_by = reply[r].body.author
    BY DEF SubmitReply, RowOK
  <1>4. Rewrites(reply[r], SubmittedBy(u, reply[r]))
    BY <1>1, <1>3, NullsAreFresh
    DEF SubmitReply, Rewrites, SubmittedBy, Coalesce, Reply
  <1>5. QED
    BY <1>1, <1>2, <1>4 DEF Writes, SubmitReply

-----------------------------------------------------------------------------
(* Steps of the approving request *)

\* Locking and checking a row for approval preserves the invariant: the session
\* starts with exactly what the row holds.
LEMMA BeginStep ==
    ASSUME IInv, NEW s \in Sessions, NEW u \in Approvers, NEW r \in Replies,
           ApproveBegin(s, u, r)
    PROVE  IInv'
  <1> USE DEF IInv
  <1> DEFINE new == [pc |-> "sending", user |-> u, reply |-> r,
                     body |-> reply[r].body, ref |-> NoRef]
  <1>1. new \in Session /\ session' = [session EXCEPT ![s] = new]
    BY ApproversAreUsers DEF ApproveBegin, TypeOK, Session, Reply, MaybeUser
  <1>2. TypeOK'
    BY <1>1 DEF ApproveBegin, TypeOK
  <1>3. SessionOK'
    BY <1>1 DEF SessionOK, ApproveBegin, MayApprove, MessageOf, TypeOK
  <1>4. LockOK'
    BY <1>1 DEF LockOK, ApproveBegin, RowFree, TypeOK
  <1>5. RowOK' /\ SentOK'
    BY DEF RowOK, SentOK, ApproveBegin
  <1>6. MakerChecker' /\ PublishedIsDelivered' /\ AnswersAgree' /\ DeliveredWasGrounded'
    BY DEF Safety, ApproveBegin, MakerChecker, PublishedIsDelivered, AnswersAgree,
           DeliveredWasGrounded
  <1>7. \A t \in Sessions : session[t].pc = "accepted" => session'[t] = session[t]
    BY <1>1 DEF ApproveBegin, TypeOK
  <1>8. OneDeliveryWithoutFault'
    BY <1>7 DEF Safety, ApproveBegin, OneDeliveryWithoutFault
  <1>9. QED
    BY <1>2, <1>3, <1>4, <1>5, <1>6, <1>8 DEF Safety

\* Answering a repeated approval with the stored reference preserves it.
LEMMA AgainStep ==
    ASSUME IInv, NEW r \in Replies, ApproveAgain(r)
    PROVE  IInv'
  <1> USE DEF IInv
  <1>1. TypeOK'
    BY DEF ApproveAgain, TypeOK, Reply
  <1>2. SessionOK' /\ LockOK' /\ RowOK' /\ SentOK'
    BY DEF ApproveAgain, SessionOK, LockOK, RowOK, SentOK, MayApprove, MessageOf
  <1>3. Safety'
    BY DEF Safety, ApproveAgain, MakerChecker, PublishedIsDelivered, AnswersAgree,
           DeliveredWasGrounded, OneDeliveryWithoutFault
  <1>4. QED
    BY <1>1, <1>2, <1>3

\* What a session in flight knows about its reply and the message it sends.
LEMMA InFlight ==
    ASSUME IInv, NEW s \in Sessions, session[s].pc # "idle", NEW ref \in Refs
    PROVE  /\ session[s].reply \in Replies
           /\ session[s].user \in Users
           /\ session[s].user \in Approvers
           /\ MessageOf(s, ref) \in Message
           /\ MessageOf(s, ref).reply = session[s].reply
           /\ MessageOf(s, ref).approver # MessageOf(s, ref).body.author
           /\ MessageOf(s, ref).approver # reply[session[s].reply].created_by
           /\ reply[session[s].reply].status = "pending_approval"
           /\ reply[session[s].reply].created_by # NoUser
           /\ reply[session[s].reply].passed /\ reply[session[s].reply].routed
           /\ reply[session[s].reply].published_ref = NoRef
  <1> USE DEF IInv
  <1>1. /\ session[s].reply \in Replies
        /\ session[s].user \in Approvers
        /\ MayApprove(session[s].user, session[s].reply)
        /\ session[s].body = reply[session[s].reply].body
        /\ session[s] \in Session
    BY DEF SessionOK, TypeOK
  <1>2. session[s].user \in Users
    BY <1>1, ApproversAreUsers
  <1>3. MessageOf(s, ref) \in Message
    BY <1>1, <1>2 DEF MessageOf, Message, Session
  <1>4. session[s].user # session[s].body.author
    BY <1>1, <1>2, NullsAreFresh DEF MayApprove, RowOK
  <1>5. QED
    BY <1>1, <1>2, <1>3, <1>4 DEF MessageOf, MayApprove, RowOK

\* A message Meta accepts is that of the locked row, with a fresh reference.
LEMMA AcceptedStep ==
    ASSUME IInv, NEW s \in Sessions, SendAccepted(s)
    PROVE  IInv'
  <1> USE DEF IInv
  <1>1. PICK ref \in Refs :
          /\ ref \notin UsedRefs
          /\ sent' = sent \cup {MessageOf(s, ref)}
          /\ session' = [session EXCEPT ![s].pc = "accepted", ![s].ref = ref]
    BY DEF SendAccepted
  <1>2. session[s].pc # "idle" /\ session[s] \in Session
    BY DEF SendAccepted, TypeOK
  <1>3. /\ session'[s] \in Session
        /\ session'[s].pc = "accepted" /\ session'[s].ref = ref
        /\ session'[s].reply = session[s].reply
        /\ session'[s].user = session[s].user
        /\ session'[s].body = session[s].body
        /\ \A t \in Sessions : t # s => session'[t] = session[t]
    BY <1>1, <1>2 DEF Session, TypeOK
  <1>4. TypeOK'
    BY <1>1, <1>2, <1>3, InFlight DEF SendAccepted, TypeOK
  <1>5. SessionOK'
    <2>1. MayApprove(session[s].user, session[s].reply) /\ UNCHANGED reply
      BY <1>2 DEF SendAccepted, SessionOK
    <2>2. \A t \in Sessions : MessageOf(t, session[t].ref) \in sent => MessageOf(t, session[t].ref) \in sent'
      BY <1>1
    <2>3. /\ session[s].reply \in Replies /\ session[s].user \in Approvers
          /\ session[s].body = reply[session[s].reply].body
      BY <1>2 DEF SessionOK
    <2>5. MessageOf(s, session[s].ref)' = MessageOf(s, ref)
      BY <1>3 DEF MessageOf
    <2>6. \A t \in Sessions : t # s => MessageOf(t, session[t].ref)' = MessageOf(t, session[t].ref)
      BY <1>3 DEF MessageOf
    <2>7. MayApprove(session[s].user, session[s].reply)'
      BY <1>3, <2>1 DEF MayApprove
    <2>8. \A t \in Sessions : t # s /\ session[t].pc # "idle" =>
             MayApprove(session[t].user, session[t].reply)'
      BY <1>3, <2>1 DEF SessionOK, MayApprove
    <2>9. SUFFICES ASSUME NEW t \in Sessions
                   PROVE  /\ session'[t].pc = "idle" => session'[t].reply = NoReply
                          /\ session'[t].pc # "idle" =>
                                /\ session'[t].reply \in Replies
                                /\ session'[t].user \in Approvers
                                /\ MayApprove(session[t].user, session[t].reply)'
                                /\ session'[t].body = reply'[session'[t].reply].body
                          /\ session'[t].pc = "accepted" =>
                                /\ session'[t].ref \in Refs
                                /\ MessageOf(t, session[t].ref)' \in sent'
      BY DEF SessionOK
    <2>10. CASE t = s
      BY <1>1, <1>3, <2>1, <2>3, <2>5, <2>7, <2>10
    <2>11. CASE t # s
      BY <1>3, <2>1, <2>2, <2>6, <2>8, <2>11 DEF SessionOK
    <2>12. QED
      BY <2>10, <2>11
  <1>6. LockOK'
    BY <1>3 DEF LockOK
  <1>7. RowOK'
    BY DEF RowOK, SendAccepted
  <1>8. SentOK'
    BY <1>1, <1>2, InFlight DEF SentOK, SendAccepted
  <1>9. MakerChecker'
    BY <1>1, <1>2, InFlight DEF Safety, MakerChecker, SendAccepted, MessageOf
  <1>10. PublishedIsDelivered' /\ AnswersAgree'
    BY <1>1 DEF Safety, PublishedIsDelivered, AnswersAgree, SendAccepted
  <1>11. OneDeliveryWithoutFault'
    <2>1. \A t \in Sessions : session[t].pc = "accepted" => session'[t] = session[t]
      BY <1>3 DEF SendAccepted
    <2>2. MessageOf(s, ref).ref = ref /\ MessageOf(s, ref).reply = session[s].reply
      BY DEF MessageOf
    <2>3. SUFFICES ASSUME NEW m \in sent', m.ref \notin orphaned
                   PROVE  \/ reply[m.reply].published_ref = m.ref
                          \/ \E t \in Sessions :
                                /\ session'[t].pc = "accepted"
                                /\ session'[t].reply = m.reply
                                /\ session'[t].ref = m.ref
                                /\ reply[m.reply].published_ref = NoRef
      BY DEF OneDeliveryWithoutFault, SendAccepted
    <2>4. CASE m \in sent
      BY <2>1, <2>3, <2>4 DEF Safety, OneDeliveryWithoutFault
    <2>5. CASE m = MessageOf(s, ref)
      BY <1>2, <1>3, <2>2, <2>5, InFlight
    <2>6. QED
      BY <1>1, <2>3, <2>4, <2>5
  <1>12. DeliveredWasGrounded'
    BY <1>1, <1>2, InFlight DEF Safety, DeliveredWasGrounded, SendAccepted
  <1>13. QED
    BY <1>4, <1>5, <1>6, <1>7, <1>8, <1>9, <1>10, <1>11, <1>12 DEF Safety

\* A session ends without having changed the row; Meta may or may not have
\* accepted a message that nobody recorded.
LEMMA UnknownEnd ==
    ASSUME IInv, NEW s \in Sessions, session[s].pc = "sending", UnknownToMeta(s),
           session' = [session EXCEPT ![s] = IdleSession],
           trail' \in [Replies -> Seq(AuditRow)],
           UNCHANGED <<reply, answers, reported>>
    PROVE  IInv'
  <1> USE DEF IInv
  <1>1. /\ session'[s] = IdleSession
        /\ \A t \in Sessions : t # s => session'[t] = session[t]
        /\ session' \in [Sessions -> Session]
    BY IdleType DEF TypeOK
  <1>2. \/ UNCHANGED <<sent, orphaned>>
        \/ \E ref \in Refs : /\ sent' = sent \cup {MessageOf(s, ref)}
                             /\ orphaned' = orphaned \cup {ref}
    BY DEF UnknownToMeta
  <1>3. sent \subseteq sent' /\ orphaned \subseteq orphaned'
    BY <1>2
  <1>4. \A m \in sent' : m \in sent \/ \E ref \in Refs : m = MessageOf(s, ref) /\ ref \in orphaned'
    BY <1>2
  <1>5. TypeOK'
    BY <1>1, <1>2, InFlight DEF TypeOK
  <1>6. SessionOK'
    BY <1>1, <1>3 DEF SessionOK, MayApprove, MessageOf, IdleSession
  <1>7. LockOK'
    BY <1>1 DEF LockOK, IdleSession
  <1>8. RowOK'
    BY DEF RowOK
  <1>9. SentOK'
    BY <1>4, InFlight DEF SentOK
  <1>10. MakerChecker'
    BY <1>4, InFlight DEF Safety, MakerChecker, MessageOf
  <1>11. PublishedIsDelivered' /\ AnswersAgree'
    BY <1>3 DEF Safety, PublishedIsDelivered, AnswersAgree
  <1>12. OneDeliveryWithoutFault'
    <2>1. \A t \in Sessions : session[t].pc = "accepted" => session'[t] = session[t]
      BY <1>1
    <2>2. \A m \in sent' : m.ref \notin orphaned' => m \in sent /\ m.ref \notin orphaned
      BY <1>3, <1>4 DEF MessageOf
    <2>3. QED
      BY <2>1, <2>2 DEF Safety, OneDeliveryWithoutFault
  <1>13. DeliveredWasGrounded'
    BY <1>4, InFlight DEF Safety, DeliveredWasGrounded
  <1>14. QED
    BY <1>5, <1>6, <1>7, <1>8, <1>9, <1>10, <1>11, <1>12, <1>13 DEF Safety

\* A refused message leaves the row pending and the session idle.
LEMMA RejectedStep ==
    ASSUME IInv, NEW s \in Sessions, SendRejected(s)
    PROVE  IInv'
  <1>1. session[s].reply \in Replies /\ session[s].user \in MaybeUser
    BY DEF IInv, SessionOK, SendRejected, TypeOK, Session
  <1>2. trail' \in [Replies -> Seq(AuditRow)]
    BY <1>1, AuditedType DEF IInv, SendRejected, AuditActions
  <1>3. QED
    BY <1>2, UnknownEnd DEF SendRejected

\* A timeout rolls back, whether or not Meta accepted the message.
LEMMA TimeoutStep ==
    ASSUME IInv, NEW s \in Sessions, SendTimeout(s)
    PROVE  IInv'
  <1>1. trail' \in [Replies -> Seq(AuditRow)]
    BY DEF IInv, TypeOK, SendTimeout
  <1>2. QED
    BY <1>1, UnknownEnd DEF SendTimeout

\* A crash before the commit turns the accepted message into an orphan.
LEMMA CrashStep ==
    ASSUME IInv, NEW s \in Sessions, CrashBeforeCommit(s)
    PROVE  IInv'
  <1> USE DEF IInv
  <1>1. /\ session'[s] = IdleSession
        /\ \A t \in Sessions : t # s => session'[t] = session[t]
        /\ session' \in [Sessions -> Session]
    BY IdleType DEF TypeOK, CrashBeforeCommit
  <1>2. session[s].pc = "accepted" /\ session[s].ref \in Refs
    BY DEF CrashBeforeCommit, SessionOK
  <1>3. TypeOK'
    BY <1>1, <1>2 DEF TypeOK, CrashBeforeCommit
  <1>4. SessionOK' /\ LockOK'
    BY <1>1 DEF SessionOK, LockOK, MayApprove, MessageOf, IdleSession, CrashBeforeCommit
  <1>5. RowOK' /\ SentOK'
    BY DEF RowOK, SentOK, CrashBeforeCommit
  <1>6. MakerChecker' /\ PublishedIsDelivered' /\ AnswersAgree' /\ DeliveredWasGrounded'
    BY DEF Safety, MakerChecker, PublishedIsDelivered, AnswersAgree, DeliveredWasGrounded,
           CrashBeforeCommit
  <1>7. OneDeliveryWithoutFault'
    BY <1>1 DEF Safety, OneDeliveryWithoutFault, CrashBeforeCommit
  <1>8. QED
    BY <1>3, <1>4, <1>5, <1>6, <1>7 DEF Safety

\* The publishing commit ties the row to the message accepted under its lock.
LEMMA PublishStep ==
    ASSUME IInv, NEW s \in Sessions, PublishCommit(s)
    PROVE  IInv'
  <1> USE DEF IInv
  <1> DEFINE r == session[s].reply
             ref == session[s].ref
             row == PublishedBy(session[s].user, ref, reply[r])
  <1>1. /\ session[s].pc = "accepted" /\ session[s].pc # "idle" /\ ref \in Refs
        /\ MessageOf(s, ref) \in sent /\ session[s].body = reply[r].body
    BY DEF PublishCommit, SessionOK
  <1>2. r \in Replies /\ session[s].user \in Users /\ reply[r] \in Reply
    BY <1>1, InFlight DEF TypeOK
  <1>3. row \in Reply
    BY <1>1, <1>2, PublishedType
  <1>4. /\ row.status = "published" /\ row.published_ref = ref
        /\ row.approved_by = session[s].user /\ row.body = reply[r].body
        /\ row.created_by = reply[r].created_by /\ row.edited_by = reply[r].edited_by
        /\ row.passed = reply[r].passed /\ row.routed = reply[r].routed
    BY <1>2 DEF PublishedBy, Reply
  <1>5. /\ reply'[r] = row
        /\ \A q \in Replies : q # r => reply'[q] = reply[q]
        /\ reply' \in [Replies -> Reply]
    BY <1>2, <1>3 DEF PublishCommit, TypeOK
  <1>6. /\ session'[s] = IdleSession
        /\ \A t \in Sessions : t # s => session'[t] = session[t]
        /\ session' \in [Sessions -> Session]
    BY IdleType DEF TypeOK, PublishCommit
  <1>7. /\ answers' = answers \cup {[reply |-> r, ref |-> ref]}
        /\ UNCHANGED <<sent, orphaned, reported>>
        /\ trail' = Audited(r, "publish", session[s].user, "success")
    BY DEF PublishCommit
  <1>8. TypeOK'
    <2>1. trail' \in [Replies -> Seq(AuditRow)]
      BY <1>2, <1>7, AuditedType DEF AuditActions, MaybeUser
    <2>2. QED
      BY <1>1, <1>2, <1>5, <1>6, <1>7, <2>1 DEF TypeOK
  <1>9. \A t \in Sessions : t # s /\ session[t].pc # "idle" => session[t].reply # r
    BY <1>2, NullsAreFresh DEF LockOK
  <1>10. SessionOK'
    BY <1>5, <1>6, <1>7, <1>9 DEF SessionOK, MayApprove, MessageOf, IdleSession
  <1>11. LockOK'
    BY <1>6 DEF LockOK, IdleSession
  <1>12. RowOK'
    BY <1>1, <1>4, <1>5, NullsAreFresh DEF RowOK
  <1>13. \A m \in sent : m.reply \in Replies
    BY DEF TypeOK, Message
  <1>14. SentOK' /\ MakerChecker' /\ DeliveredWasGrounded'
    BY <1>2, <1>4, <1>5, <1>7, <1>13
    DEF SentOK, Safety, MakerChecker, DeliveredWasGrounded
  <1>15. PublishedIsDelivered'
    BY <1>1, <1>2, <1>4, <1>5, <1>7 DEF Safety, PublishedIsDelivered, MessageOf
  <1>16. reply[r].published_ref = NoRef
    BY <1>1, InFlight
  <1>17. AnswersAgree'
    <2>1. \A a \in answers : a.reply \in Replies /\ a.ref \in Refs
      BY DEF TypeOK
    <2>2. \A a \in answers : a.reply # r
      BY <1>16, <2>1, NullsAreFresh DEF Safety, AnswersAgree
    <2>3. QED
      BY <1>4, <1>5, <1>7, <2>1, <2>2 DEF Safety, AnswersAgree
  <1>18. OneDeliveryWithoutFault'
    <2>1. SUFFICES ASSUME NEW m \in sent, m.ref \notin orphaned
                   PROVE  \/ reply'[m.reply].published_ref = m.ref
                          \/ \E t \in Sessions :
                                /\ session'[t].pc = "accepted"
                                /\ session'[t].reply = m.reply
                                /\ session'[t].ref = m.ref
                                /\ reply'[m.reply].published_ref = NoRef
      BY <1>7 DEF OneDeliveryWithoutFault
    <2>2. CASE m.reply = r
      <3>1. m.ref \in Refs
        BY DEF TypeOK, Message
      <3>2. PICK t \in Sessions : /\ session[t].pc = "accepted"
                                  /\ session[t].reply = r
                                  /\ session[t].ref = m.ref
        BY <1>16, <2>1, <2>2, <3>1, NullsAreFresh DEF Safety, OneDeliveryWithoutFault
      <3>3. t = s
        BY <1>9, <3>2
      <3>4. QED
        BY <1>4, <1>5, <2>2, <3>2, <3>3
    <2>3. CASE m.reply # r
      BY <1>5, <1>6, <1>13, <2>1, <2>3 DEF Safety, OneDeliveryWithoutFault
    <2>4. QED
      BY <2>2, <2>3
  <1>19. QED
    BY <1>8, <1>10, <1>11, <1>12, <1>14, <1>15, <1>17, <1>18 DEF Safety

\* A delivery callback touches the trails only.
LEMMA StatusStep ==
    ASSUME IInv, NEW m \in sent, NEW outcome \in {"success", "error"}, RecordStatus(m, outcome)
    PROVE  IInv'
  <1> USE DEF IInv
  <1>1. [action |-> "delivery", actor |-> NoUser, outcome |-> outcome] \in AuditRow
    BY DEF AuditRow, AuditActions, MaybeUser
  <1>2. trail' \in [Replies -> Seq(AuditRow)]
    BY <1>1 DEF RecordStatus, TypeOK
  <1>3. TypeOK'
    BY <1>2 DEF RecordStatus, TypeOK, Message
  <1>4. SessionOK' /\ LockOK' /\ RowOK' /\ SentOK'
    BY DEF RecordStatus, SessionOK, LockOK, RowOK, SentOK, MayApprove, MessageOf
  <1>5. Safety'
    BY DEF Safety, RecordStatus, MakerChecker, PublishedIsDelivered, AnswersAgree,
           DeliveredWasGrounded, OneDeliveryWithoutFault
  <1>6. QED
    BY <1>3, <1>4, <1>5

-----------------------------------------------------------------------------
(* Theorems *)

\* Every step of the workflow preserves the invariant.
LEMMA InvariantStep == IInv /\ [Next]_vars => IInv'
  <1> SUFFICES ASSUME IInv, [Next]_vars PROVE IInv'
    OBVIOUS
  <1>1. CASE UNCHANGED vars
    BY <1>1
    DEF vars, IInv, TypeOK, SessionOK, LockOK, RowOK, SentOK, Safety, MayApprove, MessageOf,
        MakerChecker, PublishedIsDelivered, AnswersAgree, DeliveredWasGrounded,
        OneDeliveryWithoutFault
  <1>2. CASE Next
    BY <1>2, WritesStep, GenerateWrites, CreateWrites, UpdateWrites, SubmitWrites,
       BeginStep, AgainStep, AcceptedStep, RejectedStep, TimeoutStep, PublishStep,
       CrashStep, StatusStep
    DEF Next
  <1>3. QED
    BY <1>1, <1>2

\* The invariant holds in every reachable state.
LEMMA Invariance == Spec => []IInv
  BY InitInvariant, InvariantStep, PTL DEF Spec

\* The rows, sessions, messages and audit rows stay well formed.
THEOREM TypeCorrect == Spec => []TypeOK
  BY Invariance, PTL DEF IInv

\* Nobody's text reaches a citizen on its author's own approval, through any
\* sequence of edits, submissions, failed and repeated approvals.
THEOREM MakerCheckerHolds == Spec => []MakerChecker
  BY Invariance, PTL DEF IInv, Safety

\* What a published row shows is what Meta accepted, although the row and the
\* message are written by two systems.
THEOREM PublishedIsDeliveredHolds == Spec => []PublishedIsDelivered
  BY Invariance, PTL DEF IInv, Safety

\* A reply goes out once unless an approval was interrupted after Meta accepted
\* the message.
THEOREM OneDeliveryHolds == Spec => []OneDeliveryWithoutFault
  BY Invariance, PTL DEF IInv, Safety

\* All successful answers about a reply carry the reference on its row, and
\* every delivered text passed the grounding checks.
THEOREM IdempotentAndGrounded == Spec => [](AnswersAgree /\ DeliveredWasGrounded)
  BY Invariance, PTL DEF IInv, Safety

-----------------------------------------------------------------------------
(* The audit trail *)

\* A reply that was never drafted has no trail; every other is explained by its
\* own.
TrailOK ==
    \A r \in Replies :
        /\ reply[r].status = "absent" => trail[r] = <<>>
        /\ ExplainedBy(trail[r], reply[r])

\* A row written with a transition is explained by the longer trail, whatever
\* came before.
LEMMA TransitionExplains ==
    ASSUME NEW log \in Seq(AuditRow), NEW step \in AuditRow, NEW row,
           IsTransition(step), Shows(row, step)
    PROVE  ExplainedBy(Append(log, step), row)
  <1>1. PICK longer : longer = Append(log, step)
    OBVIOUS
  <1>2. /\ DOMAIN longer = 1 .. (Len(log) + 1)
        /\ longer[Len(log) + 1] = step /\ Len(log) \in Nat
    BY <1>1
  <1>3. Len(log) + 1 \in TransitionsIn(longer)
    BY <1>2 DEF TransitionsIn
  <1>4. ASSUME NEW i \in TransitionsIn(longer), \A j \in TransitionsIn(longer) : j <= i
        PROVE  Shows(row, longer[i])
    <2>1. i \in 1 .. (Len(log) + 1) /\ Len(log) + 1 <= i
      BY <1>2, <1>3, <1>4 DEF TransitionsIn
    <2>2. i = Len(log) + 1
      BY <1>2, <2>1
    <2>3. QED
      BY <1>2, <2>2
  <1>5. QED
    BY <1>1, <1>3, <1>4 DEF ExplainedBy

\* A failure or a delivery report leaves the explanation as it was.
LEMMA ReportExplains ==
    ASSUME NEW log \in Seq(AuditRow), NEW step \in AuditRow, NEW row,
           ~IsTransition(step), ExplainedBy(log, row)
    PROVE  ExplainedBy(Append(log, step), row)
  <1>1. PICK longer : longer = Append(log, step)
    OBVIOUS
  <1>2. /\ DOMAIN longer = 1 .. (Len(log) + 1) /\ DOMAIN log = 1 .. Len(log)
        /\ longer[Len(log) + 1] = step /\ Len(log) \in Nat
        /\ \A i \in DOMAIN log : longer[i] = log[i]
    BY <1>1
  <1>3. \A i : i \in TransitionsIn(longer) <=> i \in TransitionsIn(log)
    <2>1. TAKE i
    <2>2. CASE i \in DOMAIN log
      BY <1>2, <2>2 DEF TransitionsIn
    <2>3. CASE i \notin DOMAIN log
      <3>1. i \in DOMAIN longer => i = Len(log) + 1
        BY <1>2, <2>3
      <3>2. QED
        BY <1>2, <2>3, <3>1 DEF TransitionsIn
    <2>4. QED
      BY <2>2, <2>3
  <1>4. TransitionsIn(longer) = TransitionsIn(log)
    BY <1>3
  <1>5. \A i \in TransitionsIn(log) : longer[i] = log[i]
    BY <1>2 DEF TransitionsIn
  <1>6. QED
    BY <1>1, <1>4, <1>5 DEF ExplainedBy

\* A handler that writes a row and its transition in one transaction.
LEMMA WriterExplains ==
    ASSUME TypeOK, TrailOK, NEW r \in Replies, NEW row, reply' = [reply EXCEPT ![r] = row],
           NEW action \in {"create", "edit", "submit", "publish"}, NEW actor \in MaybeUser,
           trail' = Audited(r, action, actor, "success"),
           Shows(row, [action |-> action, actor |-> actor, outcome |-> "success"])
    PROVE  TrailOK'
  <1>1. PICK step : step = [action |-> action, actor |-> actor, outcome |-> "success"]
    OBVIOUS
  <1>2. step \in AuditRow /\ step.action = action /\ step.outcome = "success"
    BY <1>1 DEF AuditRow, AuditActions
  <1>3. /\ reply \in [Replies -> Reply] /\ trail \in [Replies -> Seq(AuditRow)]
        /\ trail' = [trail EXCEPT ![r] = Append(trail[r], step)]
    BY <1>1 DEF TypeOK, Audited
  <1>4. \A x \in Replies :
            /\ reply'[x] = IF x = r THEN row ELSE reply[x]
            /\ trail'[x] = IF x = r THEN Append(trail[r], step) ELSE trail[x]
    BY <1>3
  <1>5. Shows(row, step) /\ IsTransition(step) /\ row.status # "absent"
    BY <1>1, <1>2 DEF IsTransition, Shows, StatusAfter
  <1>6. ExplainedBy(Append(trail[r], step), row)
    BY <1>2, <1>3, <1>5, TransitionExplains
  <1>7. SUFFICES ASSUME NEW x \in Replies, NEW shown, shown = reply'[x], NEW log, log = trail'[x]
                 PROVE  (shown.status = "absent" => log = <<>>) /\ ExplainedBy(log, shown)
    BY DEF TrailOK
  <1>8. CASE x = r
    BY <1>4, <1>5, <1>6, <1>7, <1>8
  <1>9. CASE x # r
    <2>1. shown = reply[x] /\ log = trail[x]
      BY <1>4, <1>7, <1>9
    <2>2. QED
      BY <2>1 DEF TrailOK
  <1>10. QED
    BY <1>8, <1>9

\* A row that the generator drafts has no trail yet.
LEMMA GeneratedExplains ==
    ASSUME TypeOK, TrailOK, NEW r \in Replies, NEW passed \in BOOLEAN, GenerateReply(r, passed)
    PROVE  TrailOK'
  <1>1. PICK words : reply' = [reply EXCEPT ![r] = DraftRow(words, passed, TRUE, NoUser)]
    BY DEF GenerateReply
  <1>2. PICK row : row = DraftRow(words, passed, TRUE, NoUser)
    OBVIOUS
  <1>3. row.status = "draft" /\ row.edited_by = NoUser
    BY <1>2 DEF DraftRow
  <1>4. /\ \A x \in Replies : reply'[x] = IF x = r THEN row ELSE reply[x]
        /\ UNCHANGED trail
        /\ trail[r] = <<>>
    BY <1>1, <1>2 DEF TypeOK, TrailOK, GenerateReply
  <1>5. ExplainedBy(<<>>, row)
    BY <1>3 DEF ExplainedBy, TransitionsIn
  <1>6. SUFFICES ASSUME NEW x \in Replies, NEW shown, shown = reply'[x]
                 PROVE  (shown.status = "absent" => trail[x] = <<>>) /\ ExplainedBy(trail[x], shown)
    BY <1>4 DEF TrailOK
  <1>7. CASE x = r
    BY <1>3, <1>4, <1>5, <1>6, <1>7
  <1>8. CASE x # r
    <2>1. shown = reply[x]
      BY <1>4, <1>6, <1>8
    <2>2. QED
      BY <2>1 DEF TrailOK
  <1>9. QED
    BY <1>7, <1>8

\* A draft of the studio, an edit and a submission come with their audit rows.
LEMMA OperatorsExplain ==
    ASSUME IInv, TrailOK, NEW u \in Users, NEW r \in Replies,
           \/ \E passed \in BOOLEAN : CreateDraft(u, r, passed)
           \/ \E words \in Bodies : UpdateReply(u, r, words)
           \/ SubmitReply(u, r)
    PROVE  TrailOK'
  <1>1. TypeOK /\ reply[r] \in Reply /\ u \in MaybeUser
    BY DEF IInv, TypeOK, MaybeUser
  <1>2. CASE \E passed \in BOOLEAN : CreateDraft(u, r, passed)
    <2>1. PICK passed \in BOOLEAN : CreateDraft(u, r, passed)
      BY <1>2
    <2>2. PICK words :
              /\ reply' = [reply EXCEPT ![r] = DraftRow(words, passed, FALSE, u)]
              /\ trail' = Audited(r, "create", u, "success")
      BY <2>1 DEF CreateDraft
    <2>3. PICK row : row = DraftRow(words, passed, FALSE, u)
      OBVIOUS
    <2>4. Shows(row, [action |-> "create", actor |-> u, outcome |-> "success"])
      BY <2>3 DEF DraftRow, Shows, StatusAfter
    <2>5. QED
      BY <1>1, <2>2, <2>3, <2>4, WriterExplains
  <1>3. CASE \E words \in Bodies : UpdateReply(u, r, words)
    <2>1. PICK words \in Bodies : UpdateReply(u, r, words)
      BY <1>3
    <2>2. PICK row : row = EditedBy(u, words, reply[r])
      OBVIOUS
    <2>3. row.status = "draft" /\ row.edited_by = u
      BY <1>1, <2>2 DEF EditedBy, Reply
    <2>4. Shows(row, [action |-> "edit", actor |-> u, outcome |-> "success"])
      BY <2>3 DEF Shows, StatusAfter
    <2>5. /\ reply' = [reply EXCEPT ![r] = row]
          /\ trail' = Audited(r, "edit", u, "success")
      BY <1>1, <2>1, <2>2 DEF UpdateReply
    <2>6. QED
      BY <1>1, <2>4, <2>5, WriterExplains
  <1>4. CASE SubmitReply(u, r)
    <2>1. PICK row : row = SubmittedBy(u, reply[r])
      OBVIOUS
    <2>2. row.status = "pending_approval"
      BY <1>1, <2>1 DEF SubmittedBy, Reply
    <2>3. Shows(row, [action |-> "submit", actor |-> u, outcome |-> "success"])
      BY <2>2 DEF Shows, StatusAfter
    <2>4. /\ reply' = [reply EXCEPT ![r] = row]
          /\ trail' = Audited(r, "submit", u, "success")
      BY <1>1, <1>4, <2>1 DEF SubmitReply
    <2>5. QED
      BY <1>1, <2>3, <2>4, WriterExplains
  <1>5. QED
    BY <1>2, <1>3, <1>4

\* The publishing commit writes the row and its audit row together.
LEMMA PublishExplains ==
    ASSUME IInv, TrailOK, NEW s \in Sessions, PublishCommit(s)
    PROVE  TrailOK'
  <1>1. PICK r, u, ref : r = session[s].reply /\ u = session[s].user /\ ref = session[s].ref
    OBVIOUS
  <1>2. /\ TypeOK /\ session[s].pc # "idle" /\ ref \in Refs
        /\ reply' = [reply EXCEPT ![r] = PublishedBy(u, ref, @)]
        /\ trail' = Audited(r, "publish", u, "success")
    BY <1>1 DEF IInv, SessionOK, PublishCommit
  <1>3. r \in Replies /\ u \in Users
    BY <1>1, <1>2, InFlight
  <1>4. reply[r] \in Reply /\ u \in MaybeUser
    BY <1>2, <1>3 DEF TypeOK, MaybeUser
  <1>5. PICK row : row = PublishedBy(u, ref, reply[r])
    OBVIOUS
  <1>6. row.status = "published" /\ row.approved_by = u
    BY <1>4, <1>5 DEF PublishedBy, Reply
  <1>7. Shows(row, [action |-> "publish", actor |-> u, outcome |-> "success"])
    BY <1>6 DEF Shows, StatusAfter
  <1>8. reply' = [reply EXCEPT ![r] = row]
    BY <1>2, <1>5
  <1>9. QED
    BY <1>2, <1>3, <1>4, <1>7, <1>8, WriterExplains

\* A refused message is audited as an error, which is no transition.
LEMMA RejectionExplains ==
    ASSUME IInv, TrailOK, NEW s \in Sessions, SendRejected(s)
    PROVE  TrailOK'
  <1>1. PICK r, u : r = session[s].reply /\ u = session[s].user
    OBVIOUS
  <1>2. /\ TypeOK /\ session[s].pc # "idle" /\ session[s] \in Session
        /\ UNCHANGED reply
        /\ trail' = Audited(r, "publish", u, "error")
    BY <1>1 DEF IInv, TypeOK, SendRejected
  <1>3. r \in Replies /\ u \in MaybeUser /\ reply[r].status = "pending_approval"
    BY <1>1, <1>2 DEF Session, IInv, SessionOK, MayApprove
  <1>4. PICK step : step = [action |-> "publish", actor |-> u, outcome |-> "error"]
    OBVIOUS
  <1>5. step \in AuditRow /\ ~IsTransition(step)
    BY <1>3, <1>4 DEF AuditRow, AuditActions, IsTransition
  <1>6. /\ trail \in [Replies -> Seq(AuditRow)]
        /\ \A x \in Replies : trail'[x] = IF x = r THEN Append(trail[r], step) ELSE trail[x]
    BY <1>2, <1>4 DEF TypeOK, Audited
  <1>7. ExplainedBy(Append(trail[r], step), reply[r])
    BY <1>3, <1>5, <1>6, ReportExplains DEF TrailOK
  <1>8. SUFFICES ASSUME NEW x \in Replies, NEW log, log = trail'[x]
                 PROVE  (reply[x].status = "absent" => log = <<>>) /\ ExplainedBy(log, reply[x])
    BY <1>2 DEF TrailOK
  <1>9. CASE x = r
    BY <1>3, <1>6, <1>7, <1>8, <1>9
  <1>10. CASE x # r
    BY <1>6, <1>8, <1>10 DEF TrailOK
  <1>11. QED
    BY <1>9, <1>10

\* A delivery report goes to the trail of the row that carries its reference,
\* which is published.
LEMMA StatusExplains ==
    ASSUME IInv, TrailOK, NEW m \in sent, NEW outcome \in {"success", "error"},
           RecordStatus(m, outcome)
    PROVE  TrailOK'
  <1>1. PICK step : step = [action |-> "delivery", actor |-> NoUser, outcome |-> outcome]
    OBVIOUS
  <1>2. step \in AuditRow /\ ~IsTransition(step)
    BY <1>1 DEF AuditRow, AuditActions, MaybeUser, IsTransition
  <1>3. /\ m.ref \in Refs /\ trail \in [Replies -> Seq(AuditRow)] /\ UNCHANGED reply
        /\ \A x \in Replies :
              trail'[x] = IF reply[x].published_ref = m.ref THEN Append(trail[x], step)
                                                            ELSE trail[x]
    BY <1>1 DEF IInv, TypeOK, Message, RecordStatus
  <1>4. SUFFICES ASSUME NEW x \in Replies, NEW log, log = trail'[x]
                 PROVE  (reply[x].status = "absent" => log = <<>>) /\ ExplainedBy(log, reply[x])
    BY <1>3 DEF TrailOK
  <1>5. CASE reply[x].published_ref = m.ref
    <2>1. reply[x].status # "absent"
      BY <1>3, <1>5, NullsAreFresh DEF IInv, RowOK
    <2>2. ExplainedBy(Append(trail[x], step), reply[x])
      BY <1>2, <1>3, ReportExplains DEF TrailOK
    <2>3. QED
      BY <1>3, <1>4, <1>5, <2>1, <2>2
  <1>6. CASE reply[x].published_ref # m.ref
    BY <1>3, <1>4, <1>6 DEF TrailOK
  <1>7. QED
    BY <1>5, <1>6

\* Every step keeps the rows explained.
LEMMA TrailStep == IInv /\ TrailOK /\ [Next]_vars => TrailOK'
  <1> SUFFICES ASSUME IInv, TrailOK, [Next]_vars PROVE TrailOK'
    OBVIOUS
  <1>1. TypeOK
    BY DEF IInv
  <1>2. CASE \/ UNCHANGED vars
             \/ \E s \in Sessions, u \in Approvers, r \in Replies : ApproveBegin(s, u, r)
             \/ \E r \in Replies : ApproveAgain(r)
             \/ \E s \in Sessions : SendAccepted(s) \/ SendTimeout(s) \/ CrashBeforeCommit(s)
    <2>1. UNCHANGED <<reply, trail>>
      BY <1>2 DEF vars, ApproveBegin, ApproveAgain, SendAccepted, SendTimeout, CrashBeforeCommit
    <2>2. QED
      BY <2>1 DEF TrailOK
  <1>3. CASE \/ \E r \in Replies, passed \in BOOLEAN : GenerateReply(r, passed)
             \/ \E u \in Users, r \in Replies, passed \in BOOLEAN : CreateDraft(u, r, passed)
             \/ \E u \in Users, r \in Replies, words \in Bodies : UpdateReply(u, r, words)
             \/ \E u \in Users, r \in Replies : SubmitReply(u, r)
    BY <1>1, <1>3, GeneratedExplains, OperatorsExplain
  <1>4. CASE \/ \E s \in Sessions : SendRejected(s)
             \/ \E s \in Sessions : PublishCommit(s)
             \/ \E m \in sent, outcome \in {"success", "error"} : RecordStatus(m, outcome)
    BY <1>4, RejectionExplains, PublishExplains, StatusExplains
  <1>5. QED
    BY <1>2, <1>3, <1>4 DEF Next

\* The last successful transition in the audit trail of a reply gives the status,
\* the editor and the approver its row shows, through any sequence of edits,
\* failed approvals, crashes and delivery reports.
THEOREM TrailExplainsRowHolds == Spec => []TrailExplainsRow
  <1>1. Init => TrailOK
    BY DEF Init, TrailOK, ExplainedBy, TransitionsIn, AbsentReply
  <1>2. TrailOK => TrailExplainsRow
    BY DEF TrailOK, TrailExplainsRow
  <1>3. QED
    BY <1>1, <1>2, TrailStep, Invariance, PTL DEF Spec

-----------------------------------------------------------------------------
(* The workflow implements ReplyRelease *)

\* A rewritten row is an abstract Compose, for any of the writers.
LEMMA WritesCompose ==
    ASSUME IInv, NEW r \in Replies, Writes(r)
    PROVE  Workflow!Next
  <1>0. PICK row \in Reply : Rewrites(reply[r], row) /\ reply' = [reply EXCEPT ![r] = row]
    BY DEF Writes
  <1>1. /\ reply'[r] = row /\ \A q \in Replies : q # r => reply'[q] = reply[q]
        /\ row.body \in Texts
    BY <1>0 DEF IInv, TypeOK, Reply
  <1>2. [q \in Replies |-> reply[q].body]' =
          [[q \in Replies |-> reply[q].body] EXCEPT ![r] = row.body]
    BY <1>1
  <1>3. \A q \in Replies : ReleaseOf(q)' = ReleaseOf(q)
    BY <1>0, <1>1 DEF ReleaseOf, Rewrites
  <1>4. [q \in Replies |-> ReleaseOf(q)]' = [q \in Replies |-> ReleaseOf(q)]
    BY <1>3
  <1>5. [q \in Replies |-> ReleaseOf(q)][r] = [text |-> NoText, approver |-> NoUser]
    BY <1>0 DEF ReleaseOf, Rewrites
  <1>6. Workflow!Compose(r, row.body)
    BY <1>2, <1>4, <1>5 DEF Workflow!Compose
  <1>7. QED
    BY <1>1, <1>6 DEF Workflow!Next

\* Steps that leave the rows alone leave the abstract state alone.
LEMMA RowsStutter ==
    ASSUME UNCHANGED reply
    PROVE  UNCHANGED <<[q \in Replies |-> reply[q].body], [q \in Replies |-> ReleaseOf(q)]>>
  BY DEF ReleaseOf

\* The publishing commit is an abstract Release.
LEMMA PublishReleases ==
    ASSUME IInv, NEW s \in Sessions, PublishCommit(s)
    PROVE  Workflow!Next
  <1>0. PICK r \in Replies, u \in Users : r = session[s].reply /\ u = session[s].user
    BY InFlight DEF PublishCommit, IInv, SessionOK
  <1>1. /\ session[s].pc # "idle" /\ r \in Replies /\ u \in Users
        /\ reply[r].status = "pending_approval" /\ reply[r] \in Reply
        /\ session[s].body = reply[r].body
        /\ u # session[s].body.author
    <2>1. session[s].pc = "accepted" /\ session[s].ref \in Refs
      BY DEF IInv, SessionOK, PublishCommit
    <2>2. session[s].body = reply[r].body
      BY <1>0, <2>1 DEF IInv, SessionOK
    <2>3. QED
      BY <1>0, <2>1, <2>2, InFlight DEF MessageOf, IInv, TypeOK
  <1>2. /\ reply'[r].status = "published" /\ reply'[r].body = reply[r].body
        /\ reply'[r].approved_by = u
        /\ \A q \in Replies : q # r => reply'[q] = reply[q]
    BY <1>0, <1>1 DEF PublishCommit, PublishedBy, Reply, IInv, TypeOK
  <1>3. [q \in Replies |-> reply[q].body]' = [q \in Replies |-> reply[q].body]
    BY <1>2
  <1>4. /\ ReleaseOf(r)' = [text |-> reply'[r].body, approver |-> reply'[r].approved_by]
        /\ \A q \in Replies : q # r => ReleaseOf(q)' = ReleaseOf(q)
    BY <1>2 DEF ReleaseOf
  <1>5. [q \in Replies |-> ReleaseOf(q)]' =
          [[q \in Replies |-> ReleaseOf(q)] EXCEPT
              ![r] = [text |-> [q \in Replies |-> reply[q].body][r], approver |-> u]]
    BY <1>1, <1>2, <1>4
  <1>6. /\ [q \in Replies |-> ReleaseOf(q)][r] = [text |-> NoText, approver |-> NoUser]
        /\ [q \in Replies |-> reply[q].body][r] = reply[r].body
        /\ reply[r].body \in Texts /\ reply[r].body.author # u
    BY <1>1 DEF ReleaseOf, Reply
  <1>7. Workflow!Release(r, u)
    BY <1>1, <1>3, <1>5, <1>6 DEF Workflow!Release
  <1>8. QED
    BY <1>1, <1>7 DEF Workflow!Next

\* Every step from a state of the invariant is an abstract step or a stutter.
LEMMA StepImplements ==
    IInv /\ [Next]_vars =>
        [Workflow!Next]_<<[r \in Replies |-> reply[r].body], [r \in Replies |-> ReleaseOf(r)]>>
  <1> SUFFICES ASSUME IInv, [Next]_vars
               PROVE  Workflow!Next \/ UNCHANGED reply
    BY RowsStutter
  <1>1. ASSUME NEW r \in Replies, NEW passed \in BOOLEAN, GenerateReply(r, passed)
        PROVE  Workflow!Next
    BY <1>1, GenerateWrites, WritesCompose
  <1>2. ASSUME NEW u \in Users, NEW r \in Replies, NEW passed \in BOOLEAN,
               CreateDraft(u, r, passed)
        PROVE  Workflow!Next
    BY <1>2, CreateWrites, WritesCompose
  <1>3. ASSUME NEW u \in Users, NEW r \in Replies, NEW words \in Bodies,
               UpdateReply(u, r, words)
        PROVE  Workflow!Next
    BY <1>3, UpdateWrites, WritesCompose
  <1>4. ASSUME NEW u \in Users, NEW r \in Replies, SubmitReply(u, r)
        PROVE  Workflow!Next
    BY <1>4, SubmitWrites, WritesCompose
  <1>5. ASSUME NEW s \in Sessions, PublishCommit(s)
        PROVE  Workflow!Next
    BY <1>5, PublishReleases
  <1>6. QED
    BY <1>1, <1>2, <1>3, <1>4, <1>5
    DEF Next, vars, ApproveBegin, ApproveAgain, SendAccepted, SendRejected, SendTimeout,
        CrashBeforeCommit, RecordStatus

\* The initial states are abstract initial states.
LEMMA InitImplements == Init => Workflow!Init
  BY DEF Init, Workflow!Init, ReleaseOf, AbsentReply

\* The handlers, with their locks, transactions and failures, implement the
\* release of each text once and by somebody who did not write it.
THEOREM WorkflowImplementsRelease == Spec => ImplementsRelease
  BY Invariance, InitImplements, StepImplements, PTL DEF Spec, ImplementsRelease, Workflow!Spec
=============================================================================
