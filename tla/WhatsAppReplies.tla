-------------------------- MODULE WhatsAppReplies --------------------------
(***************************************************************************)
(* The life of a citizen reply: drafted by the generator or in the draft   *)
(* studio, edited and submitted by operators, approved by somebody else    *)
(* and delivered to WhatsApp by the approving request                      *)
(* (channels/service.py, channels/whatsapp.py, the draft writers of        *)
(* rag/service.py and rag/routes.py, table core.responses).                *)
(*                                                                         *)
(* Every handler starts with SELECT ... FOR UPDATE on the row.  Edit and   *)
(* submit hold the row lock from there to their commit without doing       *)
(* anything another session could see in between, so each is one action    *)
(* guarded by the lock being free.  Approval calls Meta while it holds the *)
(* lock, so it is split at that call.                                      *)
(***************************************************************************)
EXTENDS Naturals, Sequences

CONSTANTS
    Users,        \* operators: all of them hold draft:create, draft:edit, draft:submit
    Approvers,    \* those who also hold draft:approve
    Replies,      \* response ids
    Sessions,     \* database sessions of requests that approve
    Bodies,       \* reply texts
    ShortBodies,  \* the ones of fewer than 10 characters once stripped
    EmptyBody,    \* the body of a draft that abstained
    Refs,         \* ids Meta gives to the messages it accepts (bounds deliveries)
    NoUser, NoRef, NoReply,
    MaxTrail      \* no request starts on a reply with this many audit rows

ASSUME ApproversAreUsers == Approvers \subseteq Users
ASSUME BodiesAssumption == EmptyBody \in ShortBodies /\ ShortBodies \subseteq Bodies
ASSUME NullsAreFresh == NoUser \notin Users /\ NoRef \notin Refs /\ NoReply \notin Replies
ASSUME MaxTrailAssumption == MaxTrail \in Nat

VARIABLES
    reply,     \* core.responses: one row for each response id
    session,   \* what each approving request has read and done so far
    sent,      \* messages Meta has accepted for the citizen
    orphaned,  \* the ids of those whose approving transaction did not commit
    answers,   \* successful answers to approval requests: reply and reference
    reported,  \* message ids whose delivery-status callback was processed
    trail      \* core.audit_log rows about each reply, oldest first

vars == <<reply, session, sent, orphaned, answers, reported, trail>>

-----------------------------------------------------------------------------
(* Types.  A text carries its author as history: the column holds the      *)
(* words only, and NoUser is the author of generated words.                *)

MaybeUser == Users \cup {NoUser}
Texts == [words : Bodies, author : MaybeUser]
NoText == [words |-> EmptyBody, author |-> NoUser]

Statuses == {"absent", "draft", "pending_approval", "published"}

\* passed: neither abstained nor flagged, and grounding_score >= 0.6 (all three
\* are written when the row is inserted and by nobody later).
\* routed: the inference log leads from the row to the citizen's message.
Reply == [status : Statuses, body : Texts, passed : BOOLEAN, routed : BOOLEAN,
          created_by : MaybeUser, edited_by : MaybeUser, submitted : BOOLEAN,
          approved_by : MaybeUser, published_ref : Refs \cup {NoRef}]

AbsentReply == [status |-> "absent", body |-> NoText, passed |-> FALSE, routed |-> FALSE,
                created_by |-> NoUser, edited_by |-> NoUser, submitted |-> FALSE,
                approved_by |-> NoUser, published_ref |-> NoRef]

Session == [pc : {"idle", "sending", "accepted"}, user : MaybeUser,
            reply : Replies \cup {NoReply}, body : Texts, ref : Refs \cup {NoRef}]

IdleSession == [pc |-> "idle", user |-> NoUser, reply |-> NoReply, body |-> NoText, ref |-> NoRef]

Message == [ref : Refs, reply : Replies, body : Texts, approver : Users]

AuditActions == {"create", "edit", "submit", "publish", "delivery"}
AuditRow == [action : AuditActions, actor : MaybeUser, outcome : {"success", "error"}]

TypeOK ==
    /\ reply \in [Replies -> Reply]
    /\ session \in [Sessions -> Session]
    /\ sent \subseteq Message
    /\ orphaned \subseteq Refs
    /\ answers \subseteq [reply : Replies, ref : Refs]
    /\ reported \subseteq Refs
    /\ trail \in [Replies -> Seq(AuditRow)]

Init ==
    /\ reply = [r \in Replies |-> AbsentReply]
    /\ session = [s \in Sessions |-> IdleSession]
    /\ sent = {}
    /\ orphaned = {}
    /\ answers = {}
    /\ reported = {}
    /\ trail = [r \in Replies |-> <<>>]

-----------------------------------------------------------------------------
(* Helpers *)

\* Mutant: SELECT without FOR UPDATE.
NoRowLock(r) == TRUE

\* FOR UPDATE: the row is free when no approval in flight has it locked.
RowFree(r) == \A s \in Sessions : session[s].reply # r

\* write_audit(...) about reply r.
Audited(r, action, actor, outcome) ==
    [trail EXCEPT ![r] = Append(@, [action |-> action, actor |-> actor, outcome |-> outcome])]

\* The bound on the number of requests.
MayStart(r) == Len(trail[r]) < MaxTrail

UsedRefs == {m.ref : m \in sent}

MessageOf(s, ref) ==
    [ref |-> ref, reply |-> session[s].reply, body |-> session[s].body,
     approver |-> session[s].user]

-----------------------------------------------------------------------------
(* Drafting *)

\* The text the template provider makes of the best approved source, or none.
GeneratedWords(passed) == IF passed THEN Bodies \ ShortBodies ELSE {EmptyBody}

\* The row either writer inserts: a draft nobody has edited.
DraftRow(words, passed, routed, creator) ==
    [status |-> "draft", body |-> [words |-> words, author |-> NoUser],
     passed |-> passed, routed |-> routed,
     created_by |-> creator, edited_by |-> NoUser, submitted |-> FALSE,
     approved_by |-> NoUser, published_ref |-> NoRef]

\* generate_grounded_reply, in the worker's transaction: a reply to a citizen's
\* message; it abstains on an injection or when no approved source scores.
GenerateReply(r, passed) ==
    /\ reply[r].status = "absent"
    /\ \E words \in GeneratedWords(passed) :
          reply' = [reply EXCEPT ![r] = DraftRow(words, passed, TRUE, NoUser)]
    /\ UNCHANGED <<session, sent, orphaned, answers, reported, trail>>

\* create_draft, the draft studio: a draft of the requesting officer, with no
\* inference run behind it.
CreateDraft(u, r, passed) ==
    /\ reply[r].status = "absent"
    /\ MayStart(r)
    /\ \E words \in GeneratedWords(passed) :
          reply' = [reply EXCEPT ![r] = DraftRow(words, passed, FALSE, u)]
    /\ trail' = Audited(r, "create", u, "success")
    /\ UNCHANGED <<session, sent, orphaned, answers, reported>>

\* COALESCE(column, :user)
Coalesce(stored, u) == IF stored = NoUser THEN u ELSE stored

\* The statuses update_whatsapp_reply edits.
Editable(r) == reply[r].status \in {"draft", "pending_approval"}

\* The row as update_whatsapp_reply updates it.
EditedBy(u, words, row) ==
    [row EXCEPT !.body = [words |-> words, author |-> u],
                !.status = "draft",
                !.edited_by = u,
                !.created_by = Coalesce(@, u),
                !.submitted = FALSE]

\* update_whatsapp_reply: an edit takes a submitted reply back to draft.
UpdateReply(u, r, words) ==
    /\ MayStart(r)
    /\ RowFree(r)
    /\ Editable(r)
    /\ reply' = [reply EXCEPT ![r] = EditedBy(u, words, @)]
    /\ trail' = Audited(r, "edit", u, "success")
    /\ UNCHANGED <<session, sent, orphaned, answers, reported>>

\* Mutant: submitting makes the submitter the editor of record.
SubmittedTakesOver(u, row) ==
    [row EXCEPT !.status = "pending_approval", !.submitted = TRUE,
                !.created_by = Coalesce(@, u), !.edited_by = u]

\* The row as submit_whatsapp_reply updates it.
SubmittedBy(u, row) ==
    [row EXCEPT !.status = "pending_approval",
                !.submitted = TRUE,
                !.created_by = Coalesce(@, u),
                !.edited_by = Coalesce(@, u)]

\* Mutant: the submission is not audited.
SubmitUnaudited(u, r) ==
    /\ RowFree(r)
    /\ reply[r].status = "draft"
    /\ reply[r].body.words \notin ShortBodies
    /\ reply[r].passed
    /\ reply' = [reply EXCEPT ![r] = SubmittedBy(u, @)]
    /\ UNCHANGED <<session, sent, orphaned, answers, reported, trail>>

\* submit_whatsapp_reply: only a draft that passed its checks is submitted.
SubmitReply(u, r) ==
    /\ MayStart(r)
    /\ RowFree(r)
    /\ reply[r].status = "draft"
    /\ reply[r].body.words \notin ShortBodies
    /\ reply[r].passed
    /\ reply' = [reply EXCEPT ![r] = SubmittedBy(u, @)]
    /\ trail' = Audited(r, "submit", u, "success")
    /\ UNCHANGED <<session, sent, orphaned, answers, reported>>

-----------------------------------------------------------------------------
(* approve_and_deliver_reply *)

\* Mutant: only the creator is compared with the approver.
MayApproveOwnEdit(u, r) ==
    /\ reply[r].routed /\ reply[r].passed
    /\ reply[r].status = "pending_approval"
    /\ u # reply[r].created_by

\* Mutant: a published reply is sent again.
MayApproveAgain(u, r) ==
    /\ reply[r].routed /\ reply[r].passed
    /\ reply[r].status \in {"pending_approval", "published"}
    /\ u \notin {reply[r].created_by, reply[r].edited_by}

\* The row is found through its inference run and passes every check.
MayApprove(u, r) ==
    /\ reply[r].routed
    /\ reply[r].status = "pending_approval"
    /\ u \notin {reply[r].created_by, reply[r].edited_by}
    /\ reply[r].passed

\* The row is locked and checked, and Meta is called with the body just read.
ApproveBegin(s, u, r) ==
    /\ session[s].pc = "idle"
    /\ MayStart(r)
    /\ RowFree(r)
    /\ MayApprove(u, r)
    /\ session' = [session EXCEPT ![s] =
                      [pc |-> "sending", user |-> u, reply |-> r,
                       body |-> reply[r].body, ref |-> NoRef]]
    /\ UNCHANGED <<reply, sent, orphaned, answers, reported, trail>>

\* A published row answers with the reference it already has.
ApproveAgain(r) ==
    /\ RowFree(r)
    /\ reply[r].routed
    /\ reply[r].status = "published"
    /\ reply[r].published_ref # NoRef
    /\ answers' = answers \cup {[reply |-> r, ref |-> reply[r].published_ref]}
    /\ UNCHANGED <<reply, session, sent, orphaned, reported, trail>>

\* send_text returns a receipt.
SendAccepted(s) ==
    /\ session[s].pc = "sending"
    /\ \E ref \in Refs \ UsedRefs :
        /\ sent' = sent \cup {MessageOf(s, ref)}
        /\ session' = [session EXCEPT ![s].pc = "accepted", ![s].ref = ref]
    /\ UNCHANGED <<reply, orphaned, answers, reported, trail>>

\* What Meta did when the answer was an error or never came: nothing, or it
\* accepted the message under an id this request never learns.
UnknownToMeta(s) ==
    \/ UNCHANGED <<sent, orphaned>>
    \/ \E ref \in Refs \ UsedRefs :
        /\ sent' = sent \cup {MessageOf(s, ref)}
        /\ orphaned' = orphaned \cup {ref}

\* send_text raises WhatsAppDeliveryError: not configured, an error status, or
\* an answer without a message id.  The failure is audited and committed.
SendRejected(s) ==
    /\ session[s].pc = "sending"
    /\ UnknownToMeta(s)
    /\ trail' = Audited(session[s].reply, "publish", session[s].user, "error")
    /\ session' = [session EXCEPT ![s] = IdleSession]
    /\ UNCHANGED <<reply, answers, reported>>

\* httpx raises (15 s timeout, connection lost): no handler catches it and the
\* transaction is rolled back.  A process that dies here leaves the same state.
SendTimeout(s) ==
    /\ session[s].pc = "sending"
    /\ UnknownToMeta(s)
    /\ session' = [session EXCEPT ![s] = IdleSession]
    /\ UNCHANGED <<reply, answers, reported, trail>>

\* Mutant: the row stops at the status "approved".
PublishedByApproval(u, ref, row) ==
    [row EXCEPT !.status = "approved", !.approved_by = u, !.published_ref = ref]

\* The row as approve_and_deliver_reply updates it.
PublishedBy(u, ref, row) ==
    [row EXCEPT !.status = "published", !.approved_by = u, !.published_ref = ref]

\* The row is published, the audit row written, the transaction committed.
PublishCommit(s) ==
    LET r == session[s].reply IN
    /\ session[s].pc = "accepted"
    /\ reply' = [reply EXCEPT ![r] = PublishedBy(session[s].user, session[s].ref, @)]
    /\ trail' = Audited(r, "publish", session[s].user, "success")
    /\ answers' = answers \cup {[reply |-> r, ref |-> session[s].ref]}
    /\ session' = [session EXCEPT ![s] = IdleSession]
    /\ UNCHANGED <<sent, orphaned, reported>>

\* The process dies, or the commit fails, after Meta accepted the message: the
\* database rolls back and releases the row.
CrashBeforeCommit(s) ==
    /\ session[s].pc = "accepted"
    /\ orphaned' = orphaned \cup {session[s].ref}
    /\ session' = [session EXCEPT ![s] = IdleSession]
    /\ UNCHANGED <<reply, sent, answers, reported, trail>>

\* record_whatsapp_status: the callback for message m reaches the worker.  A
\* reference that no row carries is ignored.
RecordStatus(m, outcome) ==
    /\ m.ref \notin reported
    /\ reported' = reported \cup {m.ref}
    /\ trail' = [r \in Replies |->
                    IF reply[r].published_ref = m.ref
                    THEN Append(trail[r], [action |-> "delivery", actor |-> NoUser,
                                           outcome |-> outcome])
                    ELSE trail[r]]
    /\ UNCHANGED <<reply, session, sent, orphaned, answers>>

-----------------------------------------------------------------------------
Next ==
    \/ \E r \in Replies, passed \in BOOLEAN : GenerateReply(r, passed)
    \/ \E u \in Users, r \in Replies, passed \in BOOLEAN : CreateDraft(u, r, passed)
    \/ \E u \in Users, r \in Replies, words \in Bodies : UpdateReply(u, r, words)
    \/ \E u \in Users, r \in Replies : SubmitReply(u, r)
    \/ \E s \in Sessions, u \in Approvers, r \in Replies : ApproveBegin(s, u, r)
    \/ \E r \in Replies : ApproveAgain(r)
    \/ \E s \in Sessions : SendAccepted(s)
    \/ \E s \in Sessions : SendRejected(s)
    \/ \E s \in Sessions : SendTimeout(s)
    \/ \E s \in Sessions : PublishCommit(s)
    \/ \E s \in Sessions : CrashBeforeCommit(s)
    \/ \E m \in sent, outcome \in {"success", "error"} : RecordStatus(m, outcome)

Spec == Init /\ [][Next]_vars

-----------------------------------------------------------------------------
(* Properties *)

\* No text reaches a citizen on the approval of the person who wrote it, nor of
\* the person the row records as its creator, whatever edits, submissions and
\* failed or repeated approvals came before (line 541 of channels/service.py,
\* on every message Meta accepted and not only on the published rows).
MakerChecker ==
    \A m \in sent :
        /\ m.approver \in Approvers
        /\ m.approver # m.body.author
        /\ m.approver # reply[m.reply].created_by

\* A published row names a message Meta accepted for it, carrying the words the
\* row shows and released by the approver it names; a text edited while Meta
\* was being called would break this.
PublishedIsDelivered ==
    \A r \in Replies :
        reply[r].status = "published" =>
            [ref |-> reply[r].published_ref, reply |-> r, body |-> reply[r].body,
             approver |-> reply[r].approved_by] \in sent

\* Two messages for one reply are only possible when an approval was interrupted
\* between Meta's acceptance and the commit: besides those orphans there is at
\* most one message, the published one or the one whose commit is in progress.
OneDeliveryWithoutFault ==
    \A m \in sent :
        m.ref \notin orphaned =>
            \/ reply[m.reply].published_ref = m.ref
            \/ \E s \in Sessions :
                /\ session[s].pc = "accepted"
                /\ session[s].reply = m.reply
                /\ session[s].ref = m.ref
                /\ reply[m.reply].published_ref = NoRef

\* Approving is idempotent after publication: every successful answer about a
\* reply carries the same reference, the one on the row.
AnswersAgree ==
    \A a \in answers : reply[a.reply].published_ref = a.ref

\* Only texts that passed the grounding and policy checks, on rows that lead
\* back to a citizen's message, are delivered.
DeliveredWasGrounded ==
    \A m \in sent : reply[m.reply].passed /\ reply[m.reply].routed

IsTransition(row) ==
    row.action \in {"create", "edit", "submit", "publish"} /\ row.outcome = "success"

TransitionsIn(log) == {i \in DOMAIN log : IsTransition(log[i])}

\* The status a transition leaves on the row.
StatusAfter(step) ==
    CASE step.action \in {"create", "edit"} -> "draft"
      [] step.action = "submit" -> "pending_approval"
      [] step.action = "publish" -> "published"

\* The row shows what the transition says was done and by whom.
Shows(row, step) ==
    /\ row.status = StatusAfter(step)
    /\ step.action = "edit" => row.edited_by = step.actor
    /\ step.action = "publish" => row.approved_by = step.actor

ExplainedBy(log, row) ==
    /\ TransitionsIn(log) = {} => row.status \in {"absent", "draft"} /\ row.edited_by = NoUser
    /\ \A i \in TransitionsIn(log) :
          (\A j \in TransitionsIn(log) : j <= i) => Shows(row, log[i])

\* The audit trail explains the row: its last successful transition gives the
\* status, the last editor and the approver the row shows (every handler writes
\* its audit row in the transaction that changes the response).
TrailExplainsRow == \A r \in Replies : ExplainedBy(trail[r], reply[r])

\* The reply workflow implements the release of texts by an independent person.
ReleaseOf(r) ==
    IF reply[r].status = "published"
    THEN [text |-> reply[r].body, approver |-> reply[r].approved_by]
    ELSE [text |-> NoText, approver |-> NoUser]

Workflow == INSTANCE ReplyRelease
                WITH text <- [r \in Replies |-> reply[r].body],
                     release <- [r \in Replies |-> ReleaseOf(r)],
                     NotReleased <- [text |-> NoText, approver |-> NoUser]

\* Every step of the rows, sessions and messages is a step of the abstract
\* workflow: a text is released once, as it stands, by someone else.
ImplementsRelease == Workflow!Spec
=============================================================================
