-------------------------- MODULE InboundPipeline --------------------------
(***************************************************************************)
(* A citizen's WhatsApp message on its way to a case and a draft:          *)
(* Meta delivers it, at least once, until a webhook request answers; the   *)
(* request stores a row, commits, and queues a job in Redis; the worker    *)
(* turns the row into a draft, a case and, if so configured, an            *)
(* acknowledgement (channels/routes.py, channels/service.py,               *)
(* ingest/service.py, cases/service.py, worker.py).                        *)
(*                                                                         *)
(* Meta and the queue (ARQ) are external, modelled from how the code uses  *)
(* them.  A webhook call carries one message here.                         *)
(***************************************************************************)
EXTENDS Naturals

CONSTANTS
    Messages,      \* ids Meta gives to the citizens' messages
    Texts,         \* those of type text, with words
    Words,         \* function: what each message says, normalised
    SentAt,        \* function: the second each message claims to be sent
    Clamped,       \* those whose claim is in the future or unreadable
    Handlers,      \* webhook requests in flight
    Workers,       \* job slots of the worker
    ReplyMode,     \* WHATSAPP_REPLY_MODE
    MayRaise,      \* whether a job may raise an exception
    NoMessage, NoRow,
    MaxFaults,     \* crashes and exceptions in a behaviour
    MaxClock       \* the clock stops here

ASSUME PipelineConstants ==
    /\ Texts \subseteq Messages /\ Clamped \subseteq Messages
    /\ SentAt \in [Messages -> Nat]
    /\ ReplyMode \in {"off", "draft", "acknowledge"}
    /\ MayRaise \in BOOLEAN
    /\ NoMessage \notin Messages
    /\ MaxFaults \in Nat /\ MaxClock \in Nat

VARIABLES
    delivery,  \* where each message stands between the citizen and the API
    handler,   \* what each webhook request has done so far
    rows,      \* core.messages, committed
    queue,     \* jobs waiting in Redis, one key for each row
    results,   \* jobs whose result Redis still keeps
    worker,    \* what each running job has read and done
    drafts, cases, acks,  \* how many of each a row has led to
    interrupted,  \* history: acknowledgements whose transaction was lost
    raised,    \* history: rows whose job ended with an exception
    faults, clock

vars == <<delivery, handler, rows, queue, results, worker, drafts, cases, acks,
          interrupted, raised, faults, clock>>

-----------------------------------------------------------------------------
Times == Nat

\* A row keeps Meta's id and the time it is filed under; its words and author
\* are those of the message.
Row == [ext : Messages, at : Times]

\* ux_messages_dedup: the hash of the words, which leaves out the author, and
\* the time.
SameKey(a, b) == Words[a.ext] = Words[b.ext] /\ a.at = b.at

\* The rows a run of the model can create.
Rows == {[ext |-> m, at |-> t] : m \in Texts, t \in {SentAt[x] : x \in Messages} \cup 0..MaxClock}

ASSUME NoRowIsFresh == NoRow \notin Rows

Handler == [pc : {"idle", "new", "stored", "committed", "queued"},
            msg : Messages \cup {NoMessage}, row : Rows \cup {NoRow}]

IdleHandler == [pc |-> "idle", msg |-> NoMessage, row |-> NoRow]

Worker == [pc : {"idle", "generated", "prepared", "acknowledged"},
           row : Rows \cup {NoRow}, newCase : BOOLEAN]

IdleWorker == [pc |-> "idle", row |-> NoRow, newCase |-> FALSE]

TypeOK ==
    /\ delivery \in [Messages -> {"unsent", "pending", "answered"}]
    /\ handler \in [Handlers -> Handler]
    /\ rows \subseteq Rows
    /\ queue \subseteq Rows
    /\ results \subseteq Rows
    /\ worker \in [Workers -> Worker]
    /\ drafts \in [Rows -> Nat] /\ cases \in [Rows -> Nat] /\ acks \in [Rows -> Nat]
    /\ interrupted \in [Rows -> Nat]
    /\ raised \subseteq Rows
    /\ faults \in 0..MaxFaults
    /\ clock \in 0..MaxClock

None == [r \in Rows |-> 0]

Init ==
    /\ delivery = [m \in Messages |-> "unsent"]
    /\ handler = [h \in Handlers |-> IdleHandler]
    /\ rows = {}
    /\ queue = {} /\ results = {}
    /\ worker = [w \in Workers |-> IdleWorker]
    /\ drafts = None /\ cases = None /\ acks = None /\ interrupted = None
    /\ raised = {}
    /\ faults = 0
    /\ clock = 0

mailVars == <<delivery, clock>>
storeVars == <<rows, handler>>
queueVars == <<queue, results>>
jobVars == <<worker, drafts, cases, acks, interrupted, raised>>

More(counts, r) == [counts EXCEPT ![r] = @ + 1]

-----------------------------------------------------------------------------
(* The citizen, Meta and the clock *)

SendMessage(m) ==
    /\ delivery[m] = "unsent"
    /\ delivery' = [delivery EXCEPT ![m] = "pending"]
    /\ UNCHANGED <<handler, rows, queueVars, jobVars, faults, clock>>

Tick ==
    /\ clock < MaxClock
    /\ clock' = clock + 1
    /\ UNCHANGED <<delivery, handler, rows, queueVars, jobVars, faults>>

-----------------------------------------------------------------------------
(* receive_webhook *)

StoredUnder(m) == {r \in rows : r.ext = m}

Latest(r, S) == r \in S /\ \A other \in S : other.at <= r.at

KnownAs(m) == {r \in StoredUnder(m) : Latest(r, StoredUnder(m))}

\* A webhook call, the first or a repeated one, for a text message starts and
\* looks it up by Meta's id.
ReceiveText(h, m) ==
    /\ delivery[m] = "pending"
    /\ m \in Texts
    /\ handler[h].pc = "idle"
    /\ \/ /\ KnownAs(m) = {}
          /\ handler' = [handler EXCEPT ![h] = [pc |-> "new", msg |-> m, row |-> NoRow]]
       \/ \E r \in KnownAs(m) :
            handler' = [handler EXCEPT ![h] = [pc |-> "stored", msg |-> m, row |-> r]]
    /\ UNCHANGED <<delivery, rows, queueVars, jobVars, faults, clock>>

\* A message that is not text is answered, and nothing is stored.
ReceiveOther(m) ==
    /\ delivery[m] = "pending"
    /\ m \notin Texts
    /\ delivery' = [delivery EXCEPT ![m] = "answered"]
    /\ UNCHANGED <<handler, rows, queueVars, jobVars, faults, clock>>

\* Mutant: the limit of the clamp is stored in place of now.
FiledAtLimit(m) == IF m \in Clamped THEN clock + 5 ELSE SentAt[m]

\* A claimed time that is in the future or unreadable is replaced by now.
FiledAt(m) == IF m \in Clamped THEN clock ELSE SentAt[m]

\* A row inserted but not committed makes a conflicting insert wait.
Uncommitted == {handler[h].row : h \in {x \in Handlers : handler[x].pc = "stored"}} \ (rows \cup {NoRow})

\* INSERT ... ON CONFLICT DO NOTHING: the row, or the committed one it conflicts
\* with, whoever wrote that.
StoreMessage(h) ==
    LET row == [ext |-> handler[h].msg, at |-> FiledAt(handler[h].msg)] IN
    /\ handler[h].pc = "new"
    /\ \A r \in Uncommitted : ~SameKey(r, row)
    /\ \/ /\ \A r \in rows : ~SameKey(r, row)
          /\ handler' = [handler EXCEPT ![h].pc = "stored", ![h].row = row]
       \/ \E r \in rows :
            /\ SameKey(r, row)
            /\ handler' = [handler EXCEPT ![h].pc = "stored", ![h].row = r]
    /\ UNCHANGED <<delivery, rows, queueVars, jobVars, faults, clock>>

CommitMessage(h) ==
    /\ handler[h].pc = "stored"
    /\ rows' = rows \cup {handler[h].row}
    /\ handler' = [handler EXCEPT ![h].pc = "committed"]
    /\ UNCHANGED <<delivery, queueVars, jobVars, faults, clock>>

\* ARQ ignores a job whose id is waiting, running, or has a kept result.
AlreadyQueued(r) == r \in queue \cup results \/ \E w \in Workers : worker[w].row = r

\* Mutant: enqueue_job without _job_id.
QueueAnyway(h) ==
    /\ handler[h].pc = "committed"
    /\ queue' = queue \cup {handler[h].row}
    /\ handler' = [handler EXCEPT ![h].pc = "queued"]
    /\ UNCHANGED <<delivery, rows, results, jobVars, faults, clock>>

\* enqueue_job(_job_id="whatsapp:message:<row>"), for duplicates too.
QueueJob(h) ==
    /\ handler[h].pc = "committed"
    /\ queue' = IF AlreadyQueued(handler[h].row) THEN queue ELSE queue \cup {handler[h].row}
    /\ handler' = [handler EXCEPT ![h].pc = "queued"]
    /\ UNCHANGED <<delivery, rows, results, jobVars, faults, clock>>

\* Mutant: Meta is answered as soon as the message is committed.
AnswerEarly(h) ==
    /\ handler[h].pc \in {"committed", "queued"}
    /\ delivery' = [delivery EXCEPT ![handler[h].msg] = "answered"]
    /\ handler' = [handler EXCEPT ![h] = IF @.pc = "queued" THEN IdleHandler ELSE @]
    /\ UNCHANGED <<rows, queueVars, jobVars, faults, clock>>

\* The 200 reaches Meta.
Answer(h) ==
    /\ handler[h].pc = "queued"
    /\ delivery' = [delivery EXCEPT ![handler[h].msg] = "answered"]
    /\ handler' = [handler EXCEPT ![h] = IdleHandler]
    /\ UNCHANGED <<rows, queueVars, jobVars, faults, clock>>

\* The request dies anywhere, Redis cannot be reached, or the 200 is lost: what
\* was not committed is gone, and Meta will call again.
HandlerFails(h) ==
    /\ handler[h].pc # "idle"
    /\ faults < MaxFaults
    /\ faults' = faults + 1
    /\ handler' = [handler EXCEPT ![h] = IdleHandler]
    /\ UNCHANGED <<delivery, rows, queueVars, jobVars, clock>>

-----------------------------------------------------------------------------
(* process_whatsapp_message_job *)

\* The row has a response, found through the inference log: nothing is left to do.
JobFindsDraft(w, r) ==
    /\ worker[w].pc = "idle"
    /\ r \in queue \cap rows
    /\ drafts[r] > 0
    /\ queue' = queue \ {r}
    /\ results' = results \cup {r}
    /\ UNCHANGED <<mailVars, storeVars, jobVars, faults>>

\* A draft is generated, unless the channel only files messages.  A job that finds
\* no row raises LookupError, and ARQ keeps the failure as its result.
JobGenerates(w, r) ==
    /\ worker[w].pc = "idle"
    /\ r \in queue
    /\ r \in rows => drafts[r] = 0
    /\ queue' = queue \ {r}
    /\ IF r \in rows
       THEN /\ worker' = [worker EXCEPT ![w] = [pc |-> "generated", row |-> r, newCase |-> FALSE]]
            /\ UNCHANGED <<results, raised>>
       ELSE /\ results' = results \cup {r}
            /\ raised' = raised \cup {r}
            /\ UNCHANGED worker
    /\ UNCHANGED <<mailVars, storeVars, drafts, cases, acks, interrupted, faults>>

NeedsCase(r) == cases[r] = 0

\* create_case_from_message and the audit row.
JobOpensCase(w) ==
    /\ worker[w].pc = "generated"
    /\ worker' = [worker EXCEPT ![w].pc = "prepared", ![w].newCase = NeedsCase(worker[w].row)]
    /\ UNCHANGED <<mailVars, storeVars, queueVars, drafts, cases, acks, interrupted, raised, faults>>

\* The fixed receipt goes out before the commit.
JobAcknowledges(w) ==
    /\ ReplyMode = "acknowledge"
    /\ worker[w].pc = "prepared"
    /\ acks' = More(acks, worker[w].row)
    /\ worker' = [worker EXCEPT ![w].pc = "acknowledged"]
    /\ UNCHANGED <<mailVars, storeVars, queueVars, drafts, cases, interrupted, raised, faults>>

\* The transaction commits and ARQ keeps the job's result.
JobCommits(w) ==
    LET r == worker[w].row IN
    /\ worker[w].pc = (IF ReplyMode = "acknowledge" THEN "acknowledged" ELSE "prepared")
    /\ drafts' = IF ReplyMode = "off" THEN drafts ELSE More(drafts, r)
    /\ cases' = IF worker[w].newCase THEN More(cases, r) ELSE cases
    /\ worker' = [worker EXCEPT ![w] = IdleWorker]
    /\ results' = results \cup {r}
    /\ UNCHANGED <<mailVars, storeVars, queue, acks, interrupted, raised, faults>>

Interrupted(w) ==
    interrupted' = IF worker[w].pc = "acknowledged" THEN More(interrupted, worker[w].row)
                                                    ELSE interrupted

\* The worker dies and ARQ runs the job again.
WorkerCrashes(w) ==
    /\ worker[w].pc # "idle"
    /\ faults < MaxFaults
    /\ faults' = faults + 1
    /\ Interrupted(w)
    /\ queue' = queue \cup {worker[w].row}
    /\ worker' = [worker EXCEPT ![w] = IdleWorker]
    /\ UNCHANGED <<mailVars, storeVars, results, drafts, cases, acks, raised>>

\* An exception (the database, the acknowledgement refused or timed out) rolls
\* the transaction back; ARQ keeps the failure as the job's result.
JobRaises(w) ==
    /\ MayRaise
    /\ worker[w].pc # "idle"
    /\ faults < MaxFaults
    /\ faults' = faults + 1
    /\ Interrupted(w)
    /\ raised' = raised \cup {worker[w].row}
    /\ results' = results \cup {worker[w].row}
    /\ worker' = [worker EXCEPT ![w] = IdleWorker]
    /\ UNCHANGED <<mailVars, storeVars, queue, drafts, cases, acks>>

\* Redis forgets the result of a job (after an hour).
ResultExpires(r) ==
    /\ r \in results
    /\ results' = results \ {r}
    /\ UNCHANGED <<mailVars, storeVars, queue, jobVars, faults>>

-----------------------------------------------------------------------------
Job(w) ==
    \/ \E r \in queue : JobFindsDraft(w, r) \/ JobGenerates(w, r)
    \/ JobOpensCase(w) \/ JobAcknowledges(w) \/ JobCommits(w)

\* Mutant: enqueue_job is called before the commit, not after it.
WebhookQueuesFirst(h) ==
    \/ StoreMessage(h) \/ Answer(h)
    \/ /\ handler[h].pc = "stored"
       /\ queue' = IF AlreadyQueued(handler[h].row) THEN queue ELSE queue \cup {handler[h].row}
       /\ handler' = [handler EXCEPT ![h].pc = "committed"]
       /\ UNCHANGED <<delivery, rows, results, jobVars, faults, clock>>
    \/ /\ handler[h].pc = "committed"
       /\ rows' = rows \cup {handler[h].row}
       /\ handler' = [handler EXCEPT ![h].pc = "queued"]
       /\ UNCHANGED <<delivery, queueVars, jobVars, faults, clock>>

\* The request from its INSERT to its answer.
Webhook(h) == StoreMessage(h) \/ CommitMessage(h) \/ QueueJob(h) \/ Answer(h)

Next ==
    \/ \E m \in Messages : SendMessage(m) \/ ReceiveOther(m)
    \/ \E h \in Handlers, m \in Messages : ReceiveText(h, m)
    \/ \E h \in Handlers : Webhook(h) \/ HandlerFails(h)
    \/ \E w \in Workers : Job(w) \/ WorkerCrashes(w) \/ JobRaises(w)
    \/ \E r \in results : ResultExpires(r)
    \/ Tick

Spec == Init /\ [][Next]_vars

\* Meta calls until it is answered; requests and jobs run on unless they fail.
Fairness ==
    /\ \A m \in Messages : WF_vars(ReceiveOther(m))
    /\ \A m \in Messages : SF_vars(\E h \in Handlers : ReceiveText(h, m))
    /\ \A h \in Handlers : WF_vars(Webhook(h))
    /\ \A w \in Workers : WF_vars(Job(w))

FairSpec == Spec /\ Fairness

-----------------------------------------------------------------------------
(* Properties *)

Running(r) == \E w \in Workers : worker[w].row = r

InHand(r) == cases[r] > 0 \/ r \in queue \/ Running(r) \/ r \in raised

\* Once Meta has been answered it will not call again, so the message is in
\* hand: a row with its words has a case, or a job for it waits or runs, or it
\* raised and is left to an operator.
AnsweredIsInHand ==
    \A m \in Texts :
        delivery[m] = "answered" => \E r \in rows : Words[r.ext] = Words[m] /\ InHand(r)

\* However often Meta calls, the worker dies or Redis forgets a result, a row
\* leads to one case, and to one draft with it where drafts are made.
OneCaseOneDraft ==
    \A r \in Rows :
        /\ cases[r] <= 1
        /\ drafts[r] = IF ReplyMode = "off" THEN 0 ELSE cases[r]

\* A stored row is acknowledged once, and again only for each job that was lost
\* between the acknowledgement and the commit; a draft comes with one.  A message
\* whose claimed time stands is acknowledged for one row only; one whose time was
\* replaced may have a row, and an acknowledgement, for each delivery, and one that
\* shares the row of another has none of its own.
AcksAreExplained ==
    ReplyMode = "acknowledge" =>
        /\ \A r \in Rows :
            /\ acks[r] <= 1 + interrupted[r]
            /\ drafts[r] + interrupted[r] <= acks[r]
        /\ \A r, other \in Rows :
            r.ext = other.ext /\ r.ext \notin Clamped /\ acks[r] > 0 /\ acks[other] > 0
                => r = other

\* Every text message a citizen sends becomes part of a case (README.md:
\* "automatic conversion of WhatsApp complaints"), unless its job raises for a
\* reason other than a missing row: the message is committed before its job waits.
EveryTextBecomesCase ==
    \A m \in Texts :
        delivery[m] = "pending" ~> \E r \in Rows : Words[r.ext] = Words[m] /\ cases[r] > 0

-----------------------------------------------------------------------------
(* What the documentation says and the code does not do *)

\* BACKEND-WHATSAPP.md: "exact retry deduplication".  Only a retry is a
\* duplicate: a message that was answered has a row of its own.  Two citizens
\* who say the same in the same second share the row of the first.
OnlyRetriesAreDuplicates ==
    \A m \in Texts : delivery[m] = "answered" => StoredUnder(m) # {}
=============================================================================
