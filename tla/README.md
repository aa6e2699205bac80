# A formal model of SawtAI

SawtAI turns citizens' WhatsApp messages into cases, drafts a reply to each from
approved policy documents, and lets staff edit, submit, approve and deliver it.
This directory holds a TLA+ model of the part of the back end that keeps state
(`services/api/src/sawtai`), the TLC runs that check it on small instances, and
proofs, checked by TLAPS, about its core: what reaches the citizen and on whose
word, what the audit log may be trusted for, what a citation stands on, how cases
move, and who is told about them.

Contents: [components](#1-the-system) · [hard behaviours](#2-what-is-hard-about-it)
· [modules](#3-modules-and-the-code-they-stand-for) · [runs](#4-runs)
· [disagreements](#5-where-the-code-and-the-documentation-disagree)
· [proofs](#6-proofs) · [limits](#7-what-is-not-covered) · [plan](#8-plan)
· [use](#9-how-to-run-it)

## 1. The system

One FastAPI process (any number of them in production), one ARQ worker, one
PostgreSQL database, Redis for the job queue, an S3-compatible object store for
uploaded documents, and Meta's Graph API. Each HTTP request and each job has a
session of its own (`database.get_session`): READ COMMITTED, committed
explicitly by the handler, rolled back when an exception leaves it. Nothing but
the database is shared between requests, so components interact through rows,
row locks and the job queue.

| Component | Code | State it keeps | Operations that change it | Talks to |
|---|---|---|---|---|
| Citizen replies | `channels/service.py`, `channels/routes.py`, `channels/whatsapp.py`, draft writers in `rag/` | `core.responses`, inference runs, citations | generate, create in the studio, edit, submit, approve and deliver, record a delivery status | Meta (call inside the transaction), audit log, notifications |
| Inbound pipeline | `channels/routes.py`, `channels/service.py`, `ingest/service.py`, `worker.py` | `core.messages`, Redis jobs and results | webhook, store, commit, queue, job: draft, case, acknowledgement | Meta (at-least-once calls), reply generation, case creation |
| Case workflow | `cases/service.py`, `cases/routes.py` | `core.complaints`, `core.cases` | create, create from a message, edit, assign, change status, note, escalate | users, audit log, notifications |
| Audit log | `audit/service.py` | `core.audit_log`, a hash chain per tenant | `write_audit`, called in everybody's transaction | all of the above |
| Knowledge base | `rag/service.py`, `rag/routes.py`, `rag/ingestion.py` | `core.documents`, `core.doc_chunks`, the object store | create, upload, process, retry, approve, retire, re-index | encoder service, retrieval, citations |
| Retrieval and generation | `rag/service.py` | none of its own | scores, screens and grounds a draft | documents, replies |
| Accounts | `auth/admin_routes.py`, `auth/routes.py`, `auth/service.py` | `core.users`, `core.user_roles`, the token ledger in the audit log | create, activate, assign roles, sign in, exchange and revoke tokens | every request's permission check |
| Notifications | `notifications/service.py`, worker cron | `notification.trigger` and `notification.read` rows of the audit log | emit by rule, mark read | cases, replies |
| Dashboards | `analytics/`, `data/`, `crisis/` | none | (read-only SQL) | – |
| Configuration, start-up | `config.py`, `main.py`, `database.py` | none | – | – |
| Seed | `seed.py` | fills a demonstration database once | – | – |
| Text utilities | `nlp/`, parts of `ingest/` | none | redaction, normalisation, hashing | – |
| Web client, annotation, encoders | `services/web`, `services/annotation`, `services/encoders` | none the server relies on | – | the API |

What makes each component correct, in a sentence:

* **Replies** – no text reaches a citizen on the word of its own author; what a
  published row says went out is what went out; one message per reply unless a
  fault interrupted a delivery; the audit trail explains the row.
* **Inbound pipeline** – an answered text has a case, or a job that waits, runs or
  raised; unless its job raises it becomes a case; a stored row never leads to two.
* **Cases** – statuses follow the transition table under any overlap of
  requests; times, assignee and history agree with the status; an escalation is
  not undone by somebody who did not mean to.
* **Audit log** – links resolve and lead back, and a concurrent writer cannot
  make the log tell one object's changes out of order.
* **Knowledge base** – a reader never finds two texts, or vectors of two embedding
  spaces, mixed in one document; an approved document has text; only independently
  approved sources are cited, and a citation keeps its chunk.
* **Accounts** – nobody is left without a role, and an older role outlives a newer
  assignment only if the two overlapped; a login that has ended stays ended.
* **Notifications** – each event is announced once, a warning never follows the
  breach it warns of, and whoever is concerned is told in the end.

## 2. What is hard about it

* **A network call inside a transaction.** `approve_and_deliver_reply` holds the
  row lock while it calls Meta (up to 15 s). Meta may accept the message and the
  request may time out, be answered with an error, or die before its commit.
* **At-least-once delivery** of webhooks, of jobs (a worker that dies leaves its
  job in Redis) and of operators' clicks.
* **Two stores without a common transaction**: PostgreSQL and Redis. A request
  may die between the commit and the queueing.
* **READ COMMITTED without locks.** The audit chain, the retry of a document, the
  replacement of chunks, duplicate versions, roles and refresh tokens are all
  read, decided and written in separate statements with nothing locked.
* **An advisory lock instead of a key.** The worker and every request that lists
  notifications evaluate the same rules, and only the lock keeps an event from being
  announced twice; the time they compare deadlines with is taken under it.
* **Row locks taken one by one** by a re-indexing and by the DELETE of a document's
  chunks, in different orders, held over calls to the encoder.
* **`now()` is the start of the transaction**; a request that waited for a row
  lock writes a time that is earlier than that of the request it waited for.
* **People in changing roles**: long sequences of legal edits, submissions and
  approvals by different people, none of which may end in self-approval.

`hazards` in `PROJECT.json` lists each of them at its line together with the
properties that watch it.

## 3. Modules and the code they stand for

Ten modules model the code, two say what a part of it promises, `MC*` modules give the
constants their values, and eight `*Proofs` modules hold the proofs.

```
ReplyRelease            what the reply workflow promises (abstract)
   ^ refined by
WhatsAppReplies         drafts, editing, submission, approval and delivery
   ^ extended by        WhatsAppRepliesProofs, MCWhatsAppReplies
AuditLedger             write_audit under concurrency
   ^ extended by        AuditLedgerProofs, MCAuditLedger
CaseLifecycle           the transition table and what it asks for
   ^ extended by        Cases, Notifications
Cases                   the case workflow
   ^ extended by        CasesProofs, MCCases
Notifications           the rules, their evaluation, the cases and replies they read
   ^ extended by        NotificationsProofs, MCNotifications
InboundPipeline         webhook -> row -> job -> draft, case, acknowledgement
   ^ extended by        InboundPipelineProofs, MCInboundPipeline
KnowledgeDocuments      documents, chunks, approval, citations
   ^ extended by        KnowledgeDocumentsProofs, MCKnowledgeDocuments
IndexedText             what a document's index promises a reader (abstract)
   ^ refined by
ChunkVectors            the chunks of one document row by row
   ^ extended by        ChunkVectorsProofs, MCChunkVectors (with Chunking)
Chunking                how a text is cut into chunks
Accounts                users, roles, refresh tokens
   ^ extended by        AccountsProofs, MCAccounts
```

The rule for atomicity is the same in all of them. A handler is one action when
nothing another session can see happens between its first read and its commit:
either it locks the row first (`SELECT ... FOR UPDATE`) and holds it, or it is a
single statement. Where a handler waits for a lock, for the network or simply
reads before it writes without a lock, it is split at that point, and what it
has read is kept in the session's record. Uncommitted writes are in the session
too and are visible to nobody; an exception or a crash is one action (`GiveUp`,
`Abort`, `HandlerFails`, ...) that drops the session, as the rollback does.

**ReplyRelease** has two actions: `Compose` gives a reply a new text while it has
not gone out, `Release` sends the current text on the word of somebody who is
not its author. It knows no rows, locks or transactions.

**WhatsAppReplies** (`channels/service.py` 134–604, `whatsapp.py` 23–57,
`rag/service.py` 1008–1147, `rag/routes.py` 85–187). `reply` is `core.responses`,
with the author of a text carried along as history; `sent` is what Meta accepted;
`orphaned` the part of it whose request never committed; `trail` the audit rows.
Actions: `GenerateReply`, `CreateDraft`, `UpdateReply`, `SubmitReply`,
`ApproveBegin` (lock, check, call), then one of `SendAccepted`, `SendRejected`,
`SendTimeout`, then `PublishCommit` or `CrashBeforeCommit`; `ApproveAgain` is the
early return for a published row, `RecordStatus` the job for Meta's callback. When
an answer from Meta is an error or never comes, `UnknownToMeta` leaves open
whether the message was accepted.

**AuditLedger** (`audit/service.py` 12–79). The three statements of `write_audit`
are three actions inside the caller's transaction: `ReadHead` (the newest
committed or own row of the tenant), `Stamp` (`datetime.now`), `InsertRow`. The
caller either changes an object under its row lock (`BeginChange`) or not
(`BeginNote`). A row's hash is modelled by the row's identity: equal hashes of
different rows are ignored.

**Cases** (`cases/service.py`). `kase` is `core.cases`, `history` the audit rows as
the case page replays them, each with the columns before and after; the row that opens a
case names the status only if an officer opens it (`CreateCase`), not if a message does
(`CreateCaseFromMessage`). A request
that edits, assigns or moves a case begins (`BeginRequest`, which fixes `now()`),
for an assignment finds the assignee (`FindAssignee`), locks the case
(`LockCase`) and writes (`UpdateCase`, `AssignCase`, `TransitionCase`). Notes and
escalations are one action each. `SetUserStatus` deactivates a user in between.

**InboundPipeline** (`channels/routes.py` 44–98, `channels/service.py` 319–449,
`ingest/service.py` 97–267, `cases/service.py` 451–546, `worker.py`). A webhook
request is `ReceiveText`, `StoreMessage`, `CommitMessage`, `QueueJob`, `Answer`,
with `HandlerFails` between any two; a job is `JobFindsDraft` or `JobGenerates`,
`JobOpensCase`, `JobAcknowledges`, `JobCommits`, with `WorkerCrashes` (the job
stays queued) and `JobRaises` (ARQ drops it); a job that finds no row raises at once, in
`JobGenerates`, as the code does. ARQ is external: a job id that is
queued, or whose result Redis still keeps, is not queued again; results expire.

**KnowledgeDocuments** (`rag/service.py` 320–969, `rag/routes.py`). The chunks of a
document that are written together are one *generation*; each processing makes a
new one. Creation and upload are split at the object store (`StartStoring`,
`CommitTyped`, `CommitUpload`), processing into `StartDelete`, `DeleteChunks`,
`InsertChunks`, `CommitChunks` or `ExtractionFails`, because under READ COMMITTED
a DELETE that waits for another one sees neither its victims nor their
replacement; the unique key on `(document_id, seq)` may then fail the insert.
`Approve`, `Retire`, `StartReindex`, `CommitReindex`, `Retrieve` and `CommitDraft`
(a citation is stored long after the chunk was found) are the others.

**ChunkVectors** (`rag/service.py` 310–357, 591–618 and 829–890, `rag/ingestion.py` 250–266) opens what
`KnowledgeDocuments` takes for one thing: the rows of one document and the space their
vectors are from, because `embed_texts` falls back to a hash of the words whenever the
encoder service fails. `_replace_chunks` is `StartDelete`, `DeleteRow` for each row in
any order, `StartInsert`, `InsertRow` for each seq and `CommitReplacement`;
`reindex_document` is `StartReindex` (read and embed), `UpdateRow` in the order of seq,
`CommitReindex`. A row that was deleted while a statement waited for it is passed over,
and the unique key on `(document_id, seq)` makes an insertion wait or fail. `GiveUp` is an
exception, a crash, or the victim PostgreSQL picks among transactions that wait for each
other. **IndexedText**, its specification, knows one text and one space at a time.

**Chunking** (`structure_chunks`, `rag/service.py`) is the pure function that cuts a
text into windows under headings, and a definition of what it should give, compared in
`MCChunkVectors` for every text of up to five lines.

**Notifications** (`notifications/service.py`, `notifications/routes.py`, the cron job of
`worker.py`). The seven rules are functions of the rows and of the users and the time an
evaluation has read: `AssignmentAlerts`, `SlaAlerts`, `CriticalAlerts`, `WaitingAlerts`,
`ApprovalAlerts`. An evaluation is `TakeLock` (the advisory lock, then the users),
`TakeTime`, `EvaluateCases`, `EvaluateReplies` (which commits), with `GiveUp` between any
two, by the worker or by a request that lists, after which `ListUnread` and `MarkNext`
mark all as read one by one. `alerts` counts the `notification.trigger` rows of an event,
`read` has those with a `notification.read` row. The handlers of cases and replies
appear as their effect on the columns the rules read, with the transition table of
`CaseLifecycle`; each is atomic, as the row lock makes it for a reader.

**Accounts** (`auth/admin_routes.py` 127–317, `auth/service.py` 93–270). A request
reads its permission (`Authorize`) and writes later; `StartReplacing`,
`GrantRoles`, `CommitRoles` are the DELETE and INSERT of a role replacement. The roles
of a user are kept as the *rows* of `core.user_roles` (`Grant`), because a DELETE that
waited for another one skips the rows that are gone and does not see those inserted
meanwhile, even of the same role; the unique index is on user, role and unit (`KeyOf`),
so the same role in another unit does not conflict. `MustWait` is the waiting: of a
DELETE for whoever deletes the same rows, of an INSERT for whoever inserts or deletes a
row with the same key. A row also carries which assignment of the user's roles made it
and how many had been committed when that one started: history, for the property. Refresh tokens exist
only as audit rows: `IssueFirst`, `CheckToken`, `Rotate`, `Logout`.

### Abstractions that hold in all modules

Texts, names and addresses are model values. There is one clock: PostgreSQL and
the API run on one host's time. Tenancy is modelled where it matters (the chain is
per tenant) and left out elsewhere, because each query is restricted to one
tenant. Reads that change nothing are not actions. Permissions appear as the
set of people who hold them. The relevance gate, the injection screen and the
grounding score decide a Boolean (`passed`), because nothing after the insert of
a draft changes or recomputes them.

By module: a message has one delivery callback rather than three (`sent`,
`delivered`, `read` are handled alike); a webhook call carries one message;
severities below critical behave alike and are one value; case titles are set and
never read by another operation and are left out, and so are the expiry of tokens,
passwords, and what extraction computes beyond its success. The SLA deadline matters
to the rules only and is in `Notifications`, where a tick of the clock is two hours
(the notice a warning gives). `Cases` and `InboundPipeline` leave it out.

## 4. Runs

Nine runs must pass and three must find the violation they are about. Each
property of a passing run has a *mutant* in `PROJECT.json`: a change to one mapped
definition, of a kind one could make by mistake in the code, that breaks it.

| Run | Distinct states | Question |
|---|---|---|
| `replies` | 290 000 | What reaches the citizen, on whose word, and do row and trail say so? |
| `audit_ledger` | 776 000 | Is the chain resolvable and ordered when its writers overlap and fail? |
| `cases` | 1 160 000 | Do status, times, assignee, severity and history agree under overlap? |
| `inbound` | 470 000 | Is an answered message in hand, and does it lead to one case? |
| `inbound_liveness` | 52 000 | Does every text become a case in the end? |
| `documents` | 130 000 | Is what is cited reviewed, whole and lasting? |
| `accounts` | 1 170 000 | When do roles pile up, and do ended logins stay ended? |
| `notifications` | 143 000 | Is everything announced, once, in time and in order? |
| `chunk_vectors` | 23 000 | Is the index of a document whole and in one space, whatever overlaps? |
| `audit_fork`, `same_words`, `citations` | – | The disagreements of section 5 |

### Properties

*replies.* `MakerChecker` is about every message Meta accepted, also by requests
that failed later. `PublishedIsDelivered` ties the row to the message word for
word. `OneDeliveryWithoutFault` counts messages: besides orphans of an interrupted
delivery there is at most one. `AnswersAgree` is idempotence as the caller sees
it. `TrailExplainsRow`: the last successful audit row gives the status, the
editor and the approver. `ImplementsRelease` is refinement of `ReplyRelease`.

*audit_ledger.* `NoDanglingLink` (a committed row never links to one that was rolled
back), `LinksLeadBack` (links go back in display order, so there is no cycle),
`ForkNeedsOverlap` (without overlap the log is one chain), `ObjectHistoryInOrder`
(changes of one object are shown in commit order, because the row lock
outlives the audit row; notes are excepted since they are written without it).

*cases.* `WorkHasAssignee`, `ResolvedHasTime`, `LifecycleFollowsGraph` relate status,
assignee and times over all paths through reopening and rejection.
`HistoryReplays` rebuilds status, severity and assignee from the audit log. The row
that opens a case made from a message has no status (`cases/service.py:540`), so the
replay starts from `FirstRow`, a new case that is nobody's, and the status is told from
the first change on. `InversionNeedsWait`: a
resolution time before the first response is possible, but only if its request
waited for the row. `EscalationSticks`: a case stops being critical only by an edit
that names a severity.

*inbound.* `AnsweredIsInHand` (a case, a job, or an exception accounts for each answered
text), `OneCaseOneDraft` (per stored row), `AcksAreExplained`: each acknowledgement of a
stored row after its first has its lost transaction, and a message whose claimed time
stands is acknowledged for one row only. It is not about citizens: a message
with a replaced time has a row and an acknowledgement for each delivery that was filed under
another time, and one that shares the row of another has none of its own.
*inbound_liveness.* `EveryTextBecomesCase`: commit before queueing is what it rests on, since
a job that finds no row raises and ARQ keeps the failure.

*documents.* `OneChunkSet`, `StatusHasText`, `CitedSourcesWereReviewed`; and two
temporal ones about what is true from some moment on: `SettledCitationsStay` (a
citation whose document nobody is processing keeps its chunk for ever) and
`SettledVersionsAreUnique` (a second document of a version can only come from
requests that overlap).

*accounts.* `RolesPileUpByOverlapOnly` (a role outlives a newer assignment only if it was
committed after the DELETE of the newer one had started: one assignment after the other
leaves the roles of the last one, whatever units they were held in) and `EndedLoginsStayEnded` (once no token of a
login is live and none is being exchanged, the login is over).

*notifications.* `OncePerEvent`: one alert of a kind for a target and a recipient, and
only a committed one is marked as read. `NoWarningAfterBreach` relates evaluations to
each other: once somebody was told that a case is overdue, no evaluation, however long
it has been under way, adds a warning that the deadline approaches.
`ConcernsAreAnnounced` is liveness: an assignment, an overdue or critical case, a reply
to approve is announced to whom it concerns (`Concerns`: the assignee; the active managers
if an overdue case has none; the active crisis leads besides the assignee of a critical
one; the active approvers who did not write the reply), unless it stops concerning them.

*chunk_vectors.* `ImplementsIndexedText` is refinement: a reader sees one whole text with
vectors of one space, and only a new text or a complete re-embedding changes it.
`ReindexingsDoNotDeadlock`: among re-indexings of one document there is always one that
waits for none of the others.

### Bounds and why they are enough

| Run | Instance | What it makes possible |
|---|---|---|
| `replies` | 3 operators of whom 2 approve, 1 reply, 2 approving sessions, 3 Meta references, no request after the 5th audit row | create, edit, submit, failed and repeated approval by a second person, two orphans and a publication; replies share nothing but Meta's references, so one is enough |
| `audit_ledger` | 3 transactions, 2 tenants with an object each, 3 rows, clock 0..1 | two writers fork while a third commits or rolls back in between; equal times |
| `cases` | 1 case, 1 assignee, 2 requests, 5 audit rows, clock 0..2 | an edit that overlaps an escalation, a reopening by assignment, a resolution that waited for a response |
| `inbound` | 2 texts with equal words in one second (one with a clamped time), 1 audio, 2 requests, 2 job slots, 2 faults, clock 0..1, mode `acknowledge` | the same message in two requests at once, a repeated job, a crash in each of two places |
| `inbound_liveness` | 2 texts with different words, 1 audio, 2 requests, 1 job slot, 2 faults, mode `draft` | a crash of the request and of the worker for one message, or one for each |
| `documents` | 2 documents of one version, 2 users, 2 requests, 2 days, the first document processed twice | two processings at once, a retry overtaken by approval and citation, a duplicate, an expiry |
| `accounts` | 2 users, 2 roles, one of them in 2 units, 2 requests, no replacement after the 2nd assignment of a user (two may be under way then), 2 tokens | mutual replacement and deactivation, two replacements that leave the union of both, the same role in two units, an exchange under way when another exchange or a logout overtakes it |
| `notifications` | 2 users with different roles, 1 case, 1 reply, the worker and 1 request, deadline one tick after opening, clock 1..2, 3 requests, 1 failing evaluation | two evaluations that want the lock, a breach between an evaluation's time and its commit, a deactivated user who returns, a lost evaluation |
| `chunk_vectors` | 3 chunks, 3 sessions, 2 spaces, 3 processings | two replacements and a re-indexing on the same rows, rows gone while waited for, an insertion that waits and fails, an encoder that comes back |

Symmetry is used where only invariants and action properties are checked and the values are
interchangeable (`replies`, `audit_ledger`, `cases`, `inbound`, `chunk_vectors`), never
with liveness. Deadlock is not checked: requests, texts, rows and days run out by the
bounds, and a system nobody sends a request to has indeed nothing to do.

### Fairness

`InboundPipeline` and `Notifications` have it. In the first, `FairSpec` assumes that Meta calls until it is
answered: strong fairness of `ReceiveText` for each message over all handlers,
since a handler may be busy again and again, and weak fairness for messages
that are not text; that a request which is not interrupted goes on, and that a free worker
takes a job and goes on (`WorkerSettings`, which polls). Faults are not fair and
at most two in a behaviour, so the assumption reads *after the last fault*.
With two faults ARQ's limit of five tries for a job is out of reach and is not
modelled. `MayRaise = FALSE` in this run: a job that raises is gone (section 5).

In `Notifications` the cron job comes round every five minutes, and `SF` of the worker's
`TakeLock` says that it gets the lock in the end although requests may hold it each time
it asks: PostgreSQL grants an advisory lock in the order of waiting, which the model
leaves out. An evaluation that has begun goes on (`WF` of `Evaluate`). Users, officers,
the clock and readers need not do anything, and `GiveUp` happens `MaxFaults` times at most.

## 5. Where the code and the documentation disagree

Each has a run in which TLC finds the counterexample.

1. **`audit_fork`** – `ARCHITECTURE.md:996`: "Any deletion or modification of a
   historical audit row breaks the chain". The newest row is read without a lock,
   so two concurrent writers continue the same row, and the branch nobody
   continues can be removed without a trace (`audit/service.py:25`).
2. **`same_words`** – `BACKEND-WHATSAPP.md:13`: "exact retry deduplication". The
   key is the hash of the normalised words and the second; equal words of two
   citizens in one second are one row (`ingest/service.py:169`).
3. **`citations`** – `ARCHITECTURE.md:994`: "From any published sentence you can
   reach the paragraph of the approved policy that authorised it". A retry checks
   the document without a lock and replaces the chunks after an approval and a
   citation that came in between (`rag/service.py:692`).

Seen while modelling, and not given a run:

* A delivery callback that is processed before the approving transaction commits finds
  no row with its reference and is dropped (`channels/service.py:476`), although
  `BACKEND-WHATSAPP.md:77` has the operator confirm its audit event. `RecordStatus`
  has it so.
* A job that raises (an acknowledgement that Meta refuses, say) is not retried by ARQ,
  and Meta has been answered: no case is made (`channels/service.py:427`, `JobRaises`).
  `AnsweredIsInHand` counts such a job among the ways an answered text can stand, and
  the liveness run leaves it out; no property excludes the loss.
* The audit row of a case made from a message names no status, unlike that of
  an officer's (`cases/service.py:540`, `:247`): who replays it has to know that it is new.
* An alert is identified by kind, target and recipient for ever
  (`notifications/service.py:23`): a case that comes back to a former assignee, a second
  round of waiting for the citizen or a reply submitted again after an edit is not
  announced a second time.
* An overdue case of a deactivated assignee alerts only that assignee
  (`notifications/service.py:181`).
* Marking all as read evaluates the rules first, and so marks alerts nobody has seen
  (`notifications/service.py:384`).
* The vectors of one document are in one space (`ImplementsIndexedText`), but those of
  two documents, or of a document and a question, need not be: each call of
  `embed_texts` falls back on its own (`rag/ingestion.py`), and the similarity of
  vectors of two spaces means nothing.
* A re-indexing and the processing of the same document can wait for each other, as
  DELETE locks rows in no order (`rag/service.py:323`); PostgreSQL aborts one of them.
* The maker–checker rule compares the approver with the creator and the *last*
  editor (`channels/service.py:541`). Somebody whose edit was edited again may
  approve. `MakerChecker` is about the author of the text that goes out, which holds.
* A draft from the studio has no inference run; it can be submitted and is
  announced for approval (`notifications/service.py:263`), but the approval query
  joins the run and answers "not found" (`rag/routes.py:115`, `channels/service.py:511`).
* A message whose time lies in the future or cannot be read is filed under the
  current time, which differs between deliveries: a retry is then stored twice, and
  leads to two cases and two acknowledgements (`ingest/service.py:159`).
* Audio is answered without being stored (`channels/service.py:300`), whereas
  `BACKEND-WHATSAPP.md:111` lists it.
* Overlapping replacements of a user's roles leave the union of what both asked for, or
  the second one fails on a role that is in both, in the same unit: its DELETE removes the
  rows it saw, not those the first one inserted, so an officer whom one administrator makes
  an officer again and another an administrator ends as both, more than the newest
  audit row says (`auth/admin_routes.py:228`).
* Two administrators may deactivate each other (`auth/admin_routes.py:294`).
* Approving a reply does not look at its sources again: a document that was
  retired after the draft is still cited.
* A retired document keeps `approved_by`, and `CitedSourcesWereReviewed` relies on
  it; whether it is in force is only known at retrieval.

## 6. Proofs

TLC checks a few users, rows and sessions; the theorems below hold for any number
of them. Each proof module follows the same line: an inductive invariant `IInv`
that contains the properties and what they rest on, one lemma per action (or
group of actions) that it is preserved, and theorems that read the properties
off.

| Theorem | Property | Holds for |
|---|---|---|
| `TypeCorrect`, `MakerCheckerHolds`, `PublishedIsDeliveredHolds`, `OneDeliveryHolds`, `IdempotentAndGrounded`, `TrailExplainsRowHolds` | the invariants of `replies` | any users, approvers, replies, sessions, texts, references |
| `WorkflowImplementsRelease` | `ImplementsRelease`: the workflow implements `ReplyRelease` | the same |
| `LedgerTypeCorrect`, `NoDanglingLinkHolds`, `LinksLeadBackHolds`, `ForkNeedsOverlapHolds`, `ObjectHistoryHolds` | the invariants of `audit_ledger` | any transactions, objects, tenants |
| `DocumentsTypeCorrect`, `OneChunkSetHolds`, `StatusHasTextHolds`, `CitedSourcesHold` | the invariants of `documents` | any finite sets of documents and sessions, any users and versions |
| `CitationsStay`, `VersionsStay` | the temporal safety properties of `documents` | the same |
| `CasesTypeCorrect`, `WorkHasAssigneeHolds`, `ResolvedHasTimeHolds`, `HistoryReplaysHolds`, `InversionNeedsWaitHolds` | the invariants of `cases` | any cases, users and requests, histories of any length |
| `LifecycleHolds`, `EscalationHolds` | the action properties of `cases` | the same |
| `NotificationsTypeCorrect`, `OncePerEventHolds` | the invariants of `notifications` | any users, roles, cases, replies, evaluations, deadlines |
| `NoWarningAfterBreachHolds` | the action property of `notifications` | the same |
| `ChunkVectorsTypeCorrect`, `NoDeadlockHolds` | the invariants of `chunk_vectors` | any number of chunks, requests, processings, embedding spaces |
| `IndexImplemented` | `ImplementsIndexedText`: the rows implement `IndexedText` | the same |
| `InboundTypeCorrect`, `AnsweredIsInHandHolds`, `OneCaseOneDraftHolds`, `AcksAreExplainedHolds` | the invariants of `inbound` | any messages with any words and times, requests, job slots, faults, in each reply mode |
| `NothingIsLost` | if no job raises, an answered text has a case or a job that waits or runs | the same |
| `AccountsTypeCorrect`, `RolesPileUpByOverlapOnlyHolds` | the invariants of `accounts` | any users, roles, units, sessions, tokens |
| `LoginsStayEnded` | `EndedLoginsStayEnded`, the temporal safety property of `accounts` | the same |

**WhatsAppRepliesProofs.** Assumed of the constants: approvers are users, the empty
text is too short to submit, null values are no users, replies or references, and the
bound on the trail is a natural number
(`ApproversAreUsers`, `BodiesAssumption`, `NullsAreFresh`, `MaxTrailAssumption`).
None of the properties is inductive, because approval checks the row at
`ApproveBegin` and the message leaves later. What bridges the gap is `SessionOK` –
a session that is approving still sees the row it checked – which itself needs
`LockOK`, that no two sessions hold one reply. `RowOK` adds that the author of a
text a person wrote is the row's `edited_by`: this is what makes the check
against `edited_by` a check against the *author*. `SentOK` ties messages to rows
that have a creator. The refinement (`ReleaseOf`) maps a reply to "released" when its row is published,
that is at the commit and not when Meta accepts the message, so that a delivery
interrupted in between is a stutter; a lemma per action shows it to be a `Release`, a
`Compose` or a stutter. `TrailExplainsRow` is carried beside `IInv`, as `TrailOK`: it needs of `IInv` that
a refused approval and a delivery report concern a row that exists, and adds that a reply
without a row has no trail, because the generator drafts without an audit row. That rows
appended to a trail of any length move its last transition, or do not, are two lemmas about
sequences (`TransitionExplains`, `ReportExplains`).

**AuditLedgerProofs.** Assumed (`LedgerAssumption`): the two bounds are
natural numbers and "no object" is not an object. `HeadsOK` is the interesting part of `IInv`: the row a
transaction found newest is still the newest of those it could see when it
inserts, though others commit in between, because what it could see was fixed by its
statement. From it, `LinksOK` (a row's predecessor lasts as long as the row, and
comes before it) gives the first two theorems, and `ForkNeedsOverlap` is carried along.
`ObjectHistoryInOrder` needs a second invariant, `Order`: an object has one
locker, a change in flight is under its lock (`LocksOK`), and its time is no earlier
than those of all earlier changes of the object (`StampsOK`), since the time is taken
under the lock.

**KnowledgeDocumentsProofs.** Assumed: `DocumentNulls`, `DocumentBounds`,
`WindowsAreOpen` (the validity windows offered are intervals), and `FinitelyMany` documents and
sessions, for the counting. `SessionsFit` states, step by step of a
request, what it read and still holds when it writes; `InsertionsOK` that at most one
processing of a document has inserted and not committed, and that the chunks to be seen
meanwhile are among those it replaces – the unique key, not a lock, is what makes this so.
`BudgetOK` only shows that the bound on processings is respected. The temporal
theorems go through the stable predicates `SettledCitation` and `SettledVersion`: each
is preserved by every step, hence lasts for ever.

**CasesProofs.** Assumed: `CaseNulls` and `CaseBounds` (nulls are no users or cases,
the bounds are numbers). `CasesOK` ties a row to its history: `RowOK` relates status,
assignee and times; `Replays` says that the history rebuilds the row (`Shown`: one that is
absent is shown as the new case it will be) and each `before` is what its predecessors say; `Timed` explains each time of the row by an entry with the
`now()` of its transaction. `SessionsOK`: a request that has locked a case is the only one
and has read it as it is. A lemma per handler (`...Fits`) shows that the row and the entry
it writes fit each other, and one lemma that whatever fits keeps `IInv`; `Lawful` does the
same for the two action properties. A replayed column says what the last entry that names
it says (`LastOf`); that there is a last one in histories of any length is part of the
invariant (`HasLast`), so that no induction is needed.

**NotificationsProofs.** Assumed: `RolesAssumption`, `EvaluatorsAssumption`,
`BoundsAssumption`. `OneHolder` is the advisory lock. `BreachesOK`: a case announced as
overdue has a deadline before the time of whoever evaluates now, which holds because the time
is taken under the lock and a deadline never moves. `SessionsOK`: what an evaluation is
about to insert does not exist yet. The theorems need nothing of users or statuses.

**ChunkVectorsProofs.** Assumed: `ChunkAssumption` (at least one chunk and one processing; no
vector is no space) and `IndexAssumption` (no index is not an index). No single lock
protects the text as a whole, so `IInv` says what the row locks and the unique key add up to:
the rows there are show one generation in one space (`Whole`); a transaction has
inserted a seq only if it holds every row with that seq (`Fits`), no two hold or have
inserted the same (`Apart`), and a re-indexing reaches all the rows there are or none of
them (`Reaches`), since those it found are of one generation and come and go together.
Hence a processing that has inserted all seqs holds everything, and every other has nothing.
`NoDeadlockHolds` takes the re-indexing that has come furthest: rows are locked in the order
of seq, so no other one holds the row it needs next. That a set of numbers has a least
one (`LeastNumber`) is derived from the well-foundedness of finite sets under inclusion.

**InboundPipelineProofs.** Assumed: `PipelineConstants` (texts are messages, times are
numbers, the mode is one of the three) and `NoRowIsFresh` (no row is not a row); nothing of
the words, so that they may coincide, and nothing of how many requests and jobs there are.
A request answers Meta long after it stored the row and knows nothing of the job, so
`HandlersOK` follows it: what it stores has the words of its message, what it committed
stays, and from `QueueJob` on the row is in hand. `QueueJob` itself may leave the
queue as it is, because ARQ refuses a job that waits, runs or has a result; that the row is in
hand even then rests on `ResultsOK`: a result is kept only of a job that left a case or
raised. `WorkersOK` is the exclusion that ARQ's job ids give: a row has one job, waiting or
running, and while it runs nothing of it is committed and what it read of the case
stays true. From it follow `OneCaseOneDraft`, and with `AcksOK` – the acknowledgements of a
row are its drafts, the interrupted ones and the one on its way – the first half of
`AcksAreExplained`. The other half and `NothingIsLost` rest on a second invariant, `RowsOK`:
a row is filed at the claimed time of its message unless that time was replaced, and
a row that is queued, worked on or acknowledged has been committed.
`NothingIsLost` is the safety half of `EveryTextBecomesCase`: without an exception in a
job, no crash and no expiry loses a message that Meta will not deliver again.

**AccountsProofs.** Assumed: `AccountNames`, `SomeRoleIsAsked` (the API refuses an empty set
of roles); of the bounds only that they are numbers. `SessionsOK` says what a request
holds between its steps (a user, roles to replace, a token that was issued), `TokensOK` that a token
that was issued has a user and a login and the others have none. A replacement checks nothing
between its DELETE and its commit; what makes `RolesPileUpByOverlapOnly` inductive is
`Replaces`, that it deletes every row of an assignment committed before its DELETE started,
which stays true because every later assignment has a later number (`GrantsOK`).
`LoginsStayEnded` goes through the stable predicate `Ended`: a token is issued to a login
only by a sign-in, which starts a new one, or by the exchange of a token of it, and an
exchange begins with a live token (`NothingRevives`).

**Model-checked only.** `EveryTextBecomesCase` and `ConcernsAreAnnounced` stay with TLC: they are
liveness under fairness, which the prover cannot treat, as it cannot treat `ENABLED` or
induction over data (so that `Chunking` is only compared with its definition). Every
invariant, action property and other temporal property that a passing run checks has a
theorem.

## 7. What is not covered

* **Notifications**: texts and levels of alerts, and that a list shows at most 200, are
  left out; one tenant.
* **Dashboards** (`analytics`, `data`, `crisis`): read-only SQL, no state.
* **Configuration, start-up, seed**: run once, before there is concurrency. `Accounts`
  starts with the administrator the seed creates.
* **Text utilities** (`nlp`, redaction, hashing), **encoders**, **annotation**: pure
  functions or programs of their own; the model needs their success or a Boolean.
* **Web client**: keeps nothing the server relies on.
* **Scores**: the numbers behind relevance and grounding are one Boolean.
* **Expiry** of access tokens, passwords: set and compared with the clock in one place
  each, no other operation depends on them.
* **Interiors of extraction and embedding**: success or failure, and the space a vector
  is from.
* Whether the sources of a reply are still in force when it is approved: the code
  does not look, and no module states it.

Hazards that no property watches are in `PROJECT.json` with the reason.

Bounds are constants of the modules and named as such (`MaxTrail`, `MaxDay`,
`MaxGenerations`, ...); each MC configuration says what it gives them. They are chosen such
that each scenario the properties are about fits twice: two sessions that overlap
on one row plus a third party, one crash or rejected call, one retry after it.

## 8. Plan

In this order:

1. **Compositions**: replies with documents (what a published reply cites, and whether it
   was in force); cases with the audit log (the case page replayed from a forked log).
2. **Accounts split** into tokens and roles, to allow more sessions in each.
3. **Proofs** about both; and of the exclusion of ARQ's job ids as an abstract specification
   that `InboundPipeline` implements.

## 9. How to run it

```
tlc -workers 2 -config MCWhatsAppReplies.cfg MCWhatsAppReplies
tlapm WhatsAppRepliesProofs.tla
```

| Configuration | Module | Run |
|---|---|---|
| `MCWhatsAppReplies.cfg` | `MCWhatsAppReplies` | `replies` |
| `MCAuditLedger.cfg` | `MCAuditLedger` | `audit_ledger` |
| `MCDeletionBreaksChain.cfg` | `MCAuditLedger` | `audit_fork` (finds a violation) |
| `MCCases.cfg` | `MCCases` | `cases` |
| `MCInboundPipeline.cfg` | `MCInboundPipeline` | `inbound` |
| `MCInboundLiveness.cfg` | `MCInboundPipeline` | `inbound_liveness` |
| `MCOnlyRetriesAreDuplicates.cfg` | `MCInboundPipeline` | `same_words` (finds a violation) |
| `MCKnowledgeDocuments.cfg` | `MCKnowledgeDocuments` | `documents` |
| `MCCitationsResolve.cfg` | `MCKnowledgeDocuments` | `citations` (finds a violation) |
| `MCAccounts.cfg` | `MCAccounts` | `accounts` |
| `MCNotifications.cfg` | `MCNotifications` | `notifications` |
| `MCChunkVectors.cfg` | `MCChunkVectors` | `chunk_vectors` |

Each passing run takes up to two and a half minutes with two workers. The eight proof modules take
some minutes each.
