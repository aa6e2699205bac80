----------------------- MODULE InboundPipelineProofs -----------------------
(***************************************************************************)
(* Theorems about the inbound pipeline, for any number of messages,        *)
(* webhook requests, job slots and faults, in each reply mode.             *)
(***************************************************************************)
EXTENDS InboundPipeline, TLAPS

-----------------------------------------------------------------------------
(* The inductive invariant *)

\* A request that is about to commit has a row with the words of its message;
\* one that is about to answer has left the row in hand.
HandlersOK ==
    \A h \in Handlers :
        /\ handler[h].pc # "idle" => handler[h].msg \in Texts
        /\ handler[h].pc \in {"stored", "committed", "queued"} =>
              handler[h].row \in Rows /\ Words[handler[h].row.ext] = Words[handler[h].msg]
        /\ handler[h].pc \in {"committed", "queued"} => handler[h].row \in rows
        /\ handler[h].pc = "queued" => InHand(handler[h].row)

\* A row has one job at most, waiting or running; while it runs nothing of it is
\* committed, and what it read of the case stays true.
WorkersOK ==
    \A w \in Workers :
        /\ worker[w].pc = "idle" => worker[w].row = NoRow
        /\ worker[w].pc # "idle" =>
              /\ worker[w].row \in Rows \ queue
              /\ drafts[worker[w].row] = 0
              /\ \A v \in Workers : worker[v].row = worker[w].row => v = w
        /\ worker[w].pc \in {"prepared", "acknowledged"} =>
              (worker[w].newCase <=> cases[worker[w].row] = 0)
        /\ worker[w].pc = "acknowledged" => ReplyMode = "acknowledge"

\* A result is kept of a job that left a case or raised.
ResultsOK == \A r \in results : cases[r] > 0 \/ r \in raised

Acknowledging(r) == \E w \in Workers : worker[w].pc = "acknowledged" /\ worker[w].row = r

\* Each acknowledgement led to a draft, was interrupted, or is on its way there.
AcksOK ==
    ReplyMode = "acknowledge" =>
        \A r \in Rows :
            acks[r] = drafts[r] + interrupted[r] + (IF Acknowledging(r) THEN 1 ELSE 0)

IInv ==
    /\ TypeOK
    /\ HandlersOK
    /\ AnsweredIsInHand
    /\ WorkersOK
    /\ ResultsOK
    /\ OneCaseOneDraft
    /\ AcksOK

-----------------------------------------------------------------------------
(* Lemmas *)

\* A request and a job slot that do nothing.
LEMMA IdleTypes == IdleHandler \in Handler /\ IdleWorker \in Worker
  BY DEF IdleHandler, Handler, IdleWorker, Worker

\* A count of a row goes up.
LEMMA MoreType ==
    ASSUME NEW counts \in [Rows -> Nat], NEW r \in Rows
    PROVE  /\ More(counts, r) \in [Rows -> Nat]
           /\ \A x \in Rows : More(counts, r)[x] = IF x = r THEN counts[x] + 1 ELSE counts[x]
  BY DEF More

\* The row a text is stored under is one of Rows.
LEMMA FiledType ==
    ASSUME TypeOK, NEW m \in Texts
    PROVE  [ext |-> m, at |-> FiledAt(m)] \in Rows
  <1>1. FiledAt(m) \in {SentAt[x] : x \in Messages} \cup 0..MaxClock
    BY PipelineConstants DEF FiledAt, TypeOK
  <1>2. QED
    BY <1>1 DEF Rows

\* A request that goes on, with what it has then.
LEMMA HandlerMoves ==
    ASSUME TypeOK, NEW h \in Handlers, NEW q,
           handler' = [handler EXCEPT ![h] = q]
    PROVE  /\ \A g \in Handlers : handler'[g] = IF g = h THEN q ELSE handler[g]
           /\ q \in Handler => handler' \in [Handlers -> Handler]
  BY DEF TypeOK

\* A job slot that goes on, with what it has then.
LEMMA WorkerMoves ==
    ASSUME TypeOK, NEW w \in Workers, NEW q,
           worker' = [worker EXCEPT ![w] = q]
    PROVE  /\ \A v \in Workers : worker'[v] = IF v = w THEN q ELSE worker[v]
           /\ q \in Worker => worker' \in [Workers -> Worker]
  BY DEF TypeOK

\* While nothing about jobs changes, a row stays in hand and jobs stay as they are.
LEMMA JobsUntouched ==
    ASSUME IInv, UNCHANGED <<queueVars, jobVars>>
    PROVE  /\ WorkersOK' /\ ResultsOK' /\ OneCaseOneDraft' /\ AcksOK'
           /\ \A r : InHand(r)' <=> InHand(r)
  BY DEF IInv, queueVars, jobVars, WorkersOK, ResultsOK, OneCaseOneDraft, AcksOK, Acknowledging,
         InHand, Running

\* Committed rows stay; one that is in hand leaves the answers about it true.
LEMMA AnswersStay ==
    ASSUME IInv, rows \subseteq rows', delivery' = delivery,
           \A r \in Rows : InHand(r) => InHand(r)'
    PROVE  AnsweredIsInHand'
  <1>1. rows \subseteq Rows
    BY DEF IInv, TypeOK
  <1>2. SUFFICES ASSUME NEW m \in Texts, delivery[m] = "answered"
                 PROVE  \E r \in rows' : Words[r.ext] = Words[m] /\ InHand(r)'
    BY DEF AnsweredIsInHand
  <1>3. PICK r \in rows : Words[r.ext] = Words[m] /\ InHand(r)
    BY <1>2 DEF IInv, AnsweredIsInHand
  <1>4. QED
    BY <1>1, <1>3

\* One request goes on, the others stay where they are.
LEMMA HandlersMove ==
    ASSUME IInv, NEW h \in Handlers, NEW q,
           handler' = [handler EXCEPT ![h] = q],
           rows \subseteq rows', \A r \in Rows : InHand(r) => InHand(r)',
           q.pc # "idle" => q.msg \in Texts,
           q.pc \in {"stored", "committed", "queued"} =>
              q.row \in Rows /\ Words[q.row.ext] = Words[q.msg],
           q.pc \in {"committed", "queued"} => q.row \in rows',
           q.pc = "queued" => InHand(q.row)'
    PROVE  HandlersOK'
  <1>1. TypeOK
    BY DEF IInv
  <1>2. \A g \in Handlers : handler'[g] = IF g = h THEN q ELSE handler[g]
    BY <1>1 DEF TypeOK
  <1>3. SUFFICES ASSUME NEW g \in Handlers, NEW x, x = handler'[g]
                 PROVE  /\ x.pc # "idle" => x.msg \in Texts
                        /\ x.pc \in {"stored", "committed", "queued"} =>
                              x.row \in Rows /\ Words[x.row.ext] = Words[x.msg]
                        /\ x.pc \in {"committed", "queued"} => x.row \in rows'
                        /\ x.pc = "queued" => InHand(x.row)'
    BY DEF HandlersOK, InHand, Running
  <1>4. CASE g = h
    BY <1>2, <1>3, <1>4
  <1>5. CASE g # h
    <2>1. x = handler[g]
      BY <1>2, <1>3, <1>5
    <2>2. /\ x.pc # "idle" => x.msg \in Texts
          /\ x.pc \in {"stored", "committed", "queued"} =>
                x.row \in Rows /\ Words[x.row.ext] = Words[x.msg]
          /\ x.pc \in {"committed", "queued"} => x.row \in rows
          /\ x.pc = "queued" => InHand(x.row)
      BY <2>1 DEF IInv, HandlersOK
    <2>3. QED
      BY <2>2
  <1>6. QED
    BY <1>4, <1>5

-----------------------------------------------------------------------------
(* The citizen, Meta and the clock *)

\* A message is sent, or answered because it is not text, or time passes.
LEMMA MailKeeps ==
    ASSUME IInv,
           Tick \/ \E m \in Messages : SendMessage(m) \/ ReceiveOther(m)
    PROVE  IInv'
  <1>1. UNCHANGED <<handler, rows, queueVars, jobVars, faults>>
    BY DEF Tick, SendMessage, ReceiveOther
  <1>2. /\ WorkersOK' /\ ResultsOK' /\ OneCaseOneDraft' /\ AcksOK'
        /\ \A r : InHand(r)' <=> InHand(r)
    BY <1>1, JobsUntouched
  <1>3. TypeOK'
    <2>1. clock' \in 0..MaxClock
      BY PipelineConstants DEF Tick, SendMessage, ReceiveOther, IInv, TypeOK
    <2>2. delivery' \in [Messages -> {"unsent", "pending", "answered"}]
      BY DEF Tick, SendMessage, ReceiveOther, IInv, TypeOK
    <2>3. QED
      BY <1>1, <2>1, <2>2 DEF IInv, TypeOK, queueVars, jobVars
  <1>4. HandlersOK'
    BY <1>1, <1>2 DEF IInv, HandlersOK, InHand, Running, queueVars, jobVars
  <1>5. \A m \in Texts : delivery'[m] = "answered" => delivery[m] = "answered"
    BY PipelineConstants DEF Tick, SendMessage, ReceiveOther, IInv, TypeOK
  <1>6. AnsweredIsInHand'
    BY <1>1, <1>2, <1>5 DEF IInv, AnsweredIsInHand, InHand, Running, queueVars, jobVars
  <1>7. QED
    BY <1>2, <1>3, <1>4, <1>6 DEF IInv

-----------------------------------------------------------------------------
(* receive_webhook *)

\* What the steps of a request before its answer have in common.
LEMMA RequestStep ==
    ASSUME IInv, NEW h \in Handlers, NEW q \in Handler,
           handler' = [handler EXCEPT ![h] = q],
           rows \subseteq rows', rows' \subseteq Rows, faults' \in 0..MaxFaults,
           UNCHANGED <<delivery, queueVars, jobVars, clock>>,
           q.pc # "idle" => q.msg \in Texts,
           q.pc \in {"stored", "committed", "queued"} =>
              q.row \in Rows /\ Words[q.row.ext] = Words[q.msg],
           q.pc \in {"committed", "queued"} => q.row \in rows',
           q.pc # "queued"
    PROVE  IInv'
  <1>1. /\ WorkersOK' /\ ResultsOK' /\ OneCaseOneDraft' /\ AcksOK'
        /\ \A r : InHand(r)' <=> InHand(r)
    BY JobsUntouched
  <1>2. handler' \in [Handlers -> Handler]
    BY HandlerMoves DEF IInv
  <1>3. TypeOK'
    BY <1>2 DEF IInv, TypeOK, queueVars, jobVars
  <1>4. \A r \in Rows : InHand(r) => InHand(r)'
    BY <1>1
  <1>5. HandlersOK'
    BY <1>4, HandlersMove
  <1>6. AnsweredIsInHand'
    BY <1>4, AnswersStay
  <1>7. QED
    BY <1>1, <1>3, <1>5, <1>6 DEF IInv

\* A request starts with a message that is new, or that it finds stored.
LEMMA ReceiveTextKeeps ==
    ASSUME IInv, NEW h \in Handlers, NEW m \in Messages, ReceiveText(h, m)
    PROVE  IInv'
  <1>1. /\ m \in Texts /\ rows \subseteq Rows /\ faults \in 0..MaxFaults
        /\ UNCHANGED <<rows, faults>> /\ UNCHANGED <<delivery, queueVars, jobVars, clock>>
    BY DEF IInv, TypeOK, ReceiveText
  <1>2. CASE handler' = [handler EXCEPT ![h] = [pc |-> "new", msg |-> m, row |-> NoRow]]
    <2>1. PICK q : q = [pc |-> "new", msg |-> m, row |-> NoRow]
      OBVIOUS
    <2>2. q \in Handler /\ q.pc = "new" /\ q.msg = m
      BY <2>1 DEF Handler
    <2>3. QED
      BY <1>1, <1>2, <2>1, <2>2, RequestStep
  <1>3. ASSUME NEW r \in KnownAs(m),
               handler' = [handler EXCEPT ![h] = [pc |-> "stored", msg |-> m, row |-> r]]
        PROVE  IInv'
    <2>1. r \in Rows /\ r.ext = m
      BY <1>1 DEF KnownAs, StoredUnder
    <2>2. PICK q : q = [pc |-> "stored", msg |-> m, row |-> r]
      OBVIOUS
    <2>3. q \in Handler /\ q.pc = "stored" /\ q.msg = m /\ q.row = r
      BY <2>1, <2>2 DEF Handler
    <2>4. QED
      BY <1>1, <1>3, <2>1, <2>2, <2>3, RequestStep
  <1>4. QED
    BY <1>2, <1>3 DEF ReceiveText

\* INSERT leaves the request with the row, or with one of the same words.
LEMMA StoreMessageKeeps ==
    ASSUME IInv, NEW h \in Handlers, StoreMessage(h)
    PROVE  IInv'
  <1>1. /\ TypeOK /\ rows \subseteq Rows /\ faults \in 0..MaxFaults /\ handler[h] \in Handler
        /\ UNCHANGED <<rows, faults>> /\ UNCHANGED <<delivery, queueVars, jobVars, clock>>
    BY DEF IInv, TypeOK, StoreMessage
  <1>2. PICK m : m = handler[h].msg
    OBVIOUS
  <1>3. m \in Texts
    BY <1>2 DEF IInv, HandlersOK, StoreMessage
  <1>4. PICK row : row = [ext |-> m, at |-> FiledAt(m)]
    OBVIOUS
  <1>5. row \in Rows /\ row.ext = m
    BY <1>1, <1>3, <1>4, FiledType
  <1>6. PICK r \in rows \cup {row} :
            /\ SameKey(r, row)
            /\ handler' = [handler EXCEPT ![h].pc = "stored", ![h].row = r]
    BY <1>2, <1>4 DEF StoreMessage, SameKey
  <1>7. r \in Rows /\ Words[r.ext] = Words[m]
    BY <1>1, <1>5, <1>6 DEF SameKey
  <1>8. PICK q : q = [pc |-> "stored", msg |-> m, row |-> r]
    OBVIOUS
  <1>9. q \in Handler /\ q.pc = "stored" /\ q.msg = m /\ q.row = r
    BY <1>1, <1>2, <1>7, <1>8 DEF Handler
  <1>10. handler' = [handler EXCEPT ![h] = q]
    <2>1. PICK x : x = [handler EXCEPT ![h].pc = "stored"]
      OBVIOUS
    <2>2. handler' = [x EXCEPT ![h].row = r]
      BY <1>6, <2>1
    <2>3. x = [handler EXCEPT ![h] = [handler[h] EXCEPT !.pc = "stored"]]
      BY <1>1, <2>1 DEF TypeOK
    <2>4. [[handler[h] EXCEPT !.pc = "stored"] EXCEPT !.row = r] = q
      <3>1. PICK old \in Handler : old = handler[h]
        BY <1>1
      <3>2. old = [pc |-> old.pc, msg |-> m, row |-> old.row]
        BY <1>2, <3>1 DEF Handler
      <3>3. PICK y : y = [old EXCEPT !.pc = "stored"]
        OBVIOUS
      <3>4. y = [pc |-> "stored", msg |-> m, row |-> old.row]
        BY <3>2, <3>3
      <3>5. [y EXCEPT !.row = r] = q
        BY <1>8, <3>4
      <3>6. QED
        BY <3>1, <3>3, <3>5
    <2>5. QED
      BY <1>1, <2>2, <2>3, <2>4 DEF TypeOK
  <1>11. QED
    BY <1>1, <1>3, <1>7, <1>9, <1>10, RequestStep

\* The row of a request is committed.
LEMMA CommitMessageKeeps ==
    ASSUME IInv, NEW h \in Handlers, CommitMessage(h)
    PROVE  IInv'
  <1>1. /\ TypeOK /\ rows \subseteq Rows /\ faults \in 0..MaxFaults /\ handler[h] \in Handler
        /\ UNCHANGED faults /\ UNCHANGED <<delivery, queueVars, jobVars, clock>>
    BY DEF IInv, TypeOK, CommitMessage
  <1>2. PICK q : q = [handler[h] EXCEPT !.pc = "committed"]
    OBVIOUS
  <1>3. /\ q \in Handler /\ q.pc = "committed" /\ q.msg = handler[h].msg /\ q.row = handler[h].row
        /\ handler' = [handler EXCEPT ![h] = q]
    BY <1>1, <1>2 DEF Handler, CommitMessage
  <1>4. q.msg \in Texts /\ q.row \in Rows /\ Words[q.row.ext] = Words[q.msg]
    BY <1>3 DEF IInv, HandlersOK, CommitMessage
  <1>5. rows' = rows \cup {q.row}
    BY <1>3 DEF CommitMessage
  <1>6. QED
    BY <1>1, <1>3, <1>4, <1>5, RequestStep

\* A request dies and leaves what it committed.
LEMMA HandlerFailsKeeps ==
    ASSUME IInv, NEW h \in Handlers, HandlerFails(h)
    PROVE  IInv'
  <1>1. /\ rows \subseteq Rows /\ faults' \in 0..MaxFaults
        /\ UNCHANGED rows /\ UNCHANGED <<delivery, queueVars, jobVars, clock>>
        /\ handler' = [handler EXCEPT ![h] = IdleHandler]
    BY PipelineConstants DEF IInv, TypeOK, HandlerFails
  <1>2. IdleHandler \in Handler /\ IdleHandler.pc = "idle"
    BY IdleTypes DEF IdleHandler
  <1>3. QED
    BY <1>1, <1>2, RequestStep

\* The row of a request is queued, unless its job waits, runs or has a result.
LEMMA QueueJobKeeps ==
    ASSUME IInv, NEW h \in Handlers, QueueJob(h)
    PROVE  IInv'
  <1>1. /\ TypeOK /\ handler[h] \in Handler
        /\ UNCHANGED <<delivery, rows, results, jobVars, faults, clock>>
    BY DEF IInv, TypeOK, QueueJob
  <1>2. PICK q : q = [handler[h] EXCEPT !.pc = "queued"]
    OBVIOUS
  <1>3. /\ q \in Handler /\ q.pc = "queued" /\ q.msg = handler[h].msg /\ q.row = handler[h].row
        /\ handler' = [handler EXCEPT ![h] = q]
    BY <1>1, <1>2 DEF Handler, QueueJob
  <1>4. q.msg \in Texts /\ q.row \in rows /\ q.row \in Rows /\ Words[q.row.ext] = Words[q.msg]
    BY <1>3 DEF IInv, HandlersOK, QueueJob
  <1>5. queue' = IF AlreadyQueued(q.row) THEN queue ELSE queue \cup {q.row}
    BY <1>3 DEF QueueJob
  <1>6. \A r \in Rows : InHand(r) => InHand(r)'
    BY <1>1, <1>5 DEF InHand, Running, jobVars
  <1>7. InHand(q.row)'
    <2>1. CASE q.row \in queue'
      BY <2>1 DEF InHand
    <2>2. CASE q.row \notin queue'
      <3>1. q.row \in results \/ Running(q.row)
        BY <1>5, <2>2 DEF AlreadyQueued, Running
      <3>2. InHand(q.row)
        BY <3>1 DEF IInv, ResultsOK, InHand
      <3>3. QED
        BY <1>4, <1>6, <3>2
    <2>3. QED
      BY <2>1, <2>2
  <1>8. TypeOK'
    BY <1>1, <1>3, <1>4, <1>5 DEF TypeOK, jobVars
  <1>9. HandlersOK'
    BY <1>1, <1>3, <1>4, <1>6, <1>7, HandlersMove
  <1>10. AnsweredIsInHand'
    BY <1>1, <1>6, AnswersStay
  <1>11. WorkersOK'
    BY <1>1, <1>5 DEF IInv, WorkersOK, jobVars, AlreadyQueued
  <1>12. ResultsOK' /\ OneCaseOneDraft' /\ AcksOK'
    BY <1>1 DEF IInv, ResultsOK, OneCaseOneDraft, AcksOK, Acknowledging, jobVars
  <1>13. QED
    BY <1>8, <1>9, <1>10, <1>11, <1>12 DEF IInv

\* Meta hears that a message whose row is in hand has arrived.
LEMMA AnswerKeeps ==
    ASSUME IInv, NEW h \in Handlers, Answer(h)
    PROVE  IInv'
  <1>1. /\ TypeOK /\ handler[h].msg \in Texts
        /\ UNCHANGED rows /\ UNCHANGED <<queueVars, jobVars>> /\ UNCHANGED <<faults, clock>>
        /\ handler' = [handler EXCEPT ![h] = IdleHandler]
        /\ delivery' = [delivery EXCEPT ![handler[h].msg] = "answered"]
    BY DEF IInv, Answer, HandlersOK
  <1>2. /\ WorkersOK' /\ ResultsOK' /\ OneCaseOneDraft' /\ AcksOK'
        /\ \A r : InHand(r)' <=> InHand(r)
    BY <1>1, JobsUntouched
  <1>3. TypeOK'
    BY <1>1, IdleTypes, PipelineConstants DEF TypeOK, queueVars, jobVars
  <1>4. HandlersOK'
    BY <1>1, <1>2, HandlersMove DEF IdleHandler
  <1>5. PICK x \in rows : Words[x.ext] = Words[handler[h].msg] /\ InHand(x)
    BY DEF IInv, HandlersOK, Answer
  <1>6. AnsweredIsInHand'
    <2>1. SUFFICES ASSUME NEW m \in Texts, delivery'[m] = "answered"
                   PROVE  \E r \in rows' : Words[r.ext] = Words[m] /\ InHand(r)'
      BY DEF AnsweredIsInHand
    <2>2. CASE m = handler[h].msg
      BY <1>1, <1>2, <1>5, <2>2
    <2>3. CASE m # handler[h].msg
      <3>1. delivery[m] = "answered"
        BY <1>1, <2>1, <2>3, PipelineConstants DEF TypeOK
      <3>2. PICK r \in rows : Words[r.ext] = Words[m] /\ InHand(r)
        BY <3>1 DEF IInv, AnsweredIsInHand
      <3>3. QED
        BY <1>1, <1>2, <3>2
    <2>4. QED
      BY <2>2, <2>3
  <1>7. QED
    BY <1>2, <1>3, <1>4, <1>6 DEF IInv

-----------------------------------------------------------------------------
(* process_whatsapp_message_job *)

\* A step of a job that leaves every row in hand leaves the requests and the
\* answers about them right.
LEMMA RequestsUntouched ==
    ASSUME IInv, UNCHANGED <<delivery, handler, rows>>, \A r \in Rows : InHand(r) => InHand(r)'
    PROVE  HandlersOK' /\ AnsweredIsInHand'
  <1>1. HandlersOK'
    <2>1. SUFFICES ASSUME NEW h \in Handlers, NEW x, x = handler[h]
                   PROVE  /\ x.pc # "idle" => x.msg \in Texts
                          /\ x.pc \in {"stored", "committed", "queued"} =>
                                x.row \in Rows /\ Words[x.row.ext] = Words[x.msg]
                          /\ x.pc \in {"committed", "queued"} => x.row \in rows'
                          /\ x.pc = "queued" => InHand(x.row)'
      BY DEF HandlersOK, InHand, Running
    <2>2. /\ x.pc # "idle" => x.msg \in Texts
          /\ x.pc \in {"stored", "committed", "queued"} =>
                x.row \in Rows /\ Words[x.row.ext] = Words[x.msg]
          /\ x.pc \in {"committed", "queued"} => x.row \in rows
          /\ x.pc = "queued" => InHand(x.row)
      BY <2>1 DEF IInv, HandlersOK
    <2>3. QED
      BY <2>2
  <1>2. AnsweredIsInHand'
    BY AnswersStay
  <1>3. QED
    BY <1>1, <1>2

\* One job goes on, and nothing is said of the rows of the other jobs.
LEMMA WorkersMove ==
    ASSUME IInv, NEW w \in Workers, NEW q,
           worker' = [worker EXCEPT ![w] = q],
           \A r \in Rows : (\E v \in Workers \ {w} : worker[v].row = r) =>
              (r \in queue' => r \in queue) /\ drafts'[r] = drafts[r] /\ cases'[r] = cases[r],
           q.pc = "idle" => q.row = NoRow,
           q.pc # "idle" => /\ q.row \in Rows /\ q.row \notin queue' /\ drafts'[q.row] = 0
                            /\ \A v \in Workers \ {w} : worker[v].row # q.row,
           q.pc \in {"prepared", "acknowledged"} => (q.newCase <=> cases'[q.row] = 0),
           q.pc = "acknowledged" => ReplyMode = "acknowledge"
    PROVE  WorkersOK'
  <1>1. TypeOK
    BY DEF IInv
  <1>2. \A v \in Workers : worker'[v] = IF v = w THEN q ELSE worker[v]
    BY <1>1 DEF TypeOK
  <1>3. SUFFICES ASSUME NEW v \in Workers, NEW x, x = worker'[v]
                 PROVE  /\ x.pc = "idle" => x.row = NoRow
                        /\ x.pc # "idle" =>
                              /\ x.row \in Rows /\ x.row \notin queue' /\ drafts'[x.row] = 0
                              /\ \A u \in Workers : worker'[u].row = x.row => u = v
                        /\ x.pc \in {"prepared", "acknowledged"} =>
                              (x.newCase <=> cases'[x.row] = 0)
                        /\ x.pc = "acknowledged" => ReplyMode = "acknowledge"
    BY DEF WorkersOK
  <1>4. CASE v = w
    BY <1>2, <1>3, <1>4
  <1>5. CASE v # w
    <2>1. x = worker[v]
      BY <1>2, <1>3, <1>5
    <2>2. /\ x.pc = "idle" => x.row = NoRow
          /\ x.pc # "idle" =>
                /\ x.row \in Rows /\ x.row \notin queue /\ drafts[x.row] = 0
                /\ \A u \in Workers : worker[u].row = x.row => u = v
          /\ x.pc \in {"prepared", "acknowledged"} => (x.newCase <=> cases[x.row] = 0)
          /\ x.pc = "acknowledged" => ReplyMode = "acknowledge"
      BY <2>1 DEF IInv, WorkersOK
    <2>3. x.row \in Rows => (x.row \in queue' => x.row \in queue)
                             /\ drafts'[x.row] = drafts[x.row] /\ cases'[x.row] = cases[x.row]
      BY <1>5, <2>1
    <2>4. x.pc # "idle" => \A u \in Workers : worker'[u].row = x.row => u = v
      <3>1. SUFFICES ASSUME x.pc # "idle", NEW u \in Workers, worker'[u].row = x.row
                     PROVE  u = v
        OBVIOUS
      <3>2. CASE u = w
        <4>1. q.row = x.row
          BY <1>2, <3>1, <3>2
        <4>2. q.pc # "idle"
          BY <2>2, <3>1, <4>1, NoRowIsFresh
        <4>3. QED
          BY <1>5, <2>1, <4>1, <4>2
      <3>3. CASE u # w
        BY <1>2, <2>2, <3>1, <3>3
      <3>4. QED
        BY <3>2, <3>3
    <2>5. QED
      BY <2>2, <2>3, <2>4
  <1>6. QED
    BY <1>4, <1>5

\* A job whose row has its draft leaves the queue.
LEMMA JobFindsDraftKeeps ==
    ASSUME IInv, NEW w \in Workers, NEW r \in Rows, JobFindsDraft(w, r)
    PROVE  IInv'
  <1>1. /\ TypeOK /\ queue' = queue \ {r} /\ results' = results \cup {r}
        /\ UNCHANGED <<delivery, handler, rows>> /\ UNCHANGED jobVars /\ UNCHANGED <<faults, clock>>
    BY DEF IInv, JobFindsDraft, mailVars, storeVars
  <1>2. cases[r] > 0
    BY DEF IInv, OneCaseOneDraft, TypeOK, JobFindsDraft
  <1>3. TypeOK'
    BY <1>1 DEF TypeOK, jobVars
  <1>4. \A x \in Rows : InHand(x) => InHand(x)'
    BY <1>1, <1>2 DEF InHand, Running, jobVars
  <1>5. HandlersOK' /\ AnsweredIsInHand'
    BY <1>1, <1>4, RequestsUntouched
  <1>6. WorkersOK'
    BY <1>1 DEF IInv, WorkersOK, jobVars
  <1>7. ResultsOK'
    BY <1>1, <1>2 DEF IInv, ResultsOK, jobVars
  <1>8. OneCaseOneDraft' /\ AcksOK'
    BY <1>1 DEF IInv, OneCaseOneDraft, AcksOK, Acknowledging, jobVars
  <1>9. QED
    BY <1>3, <1>5, <1>6, <1>7, <1>8 DEF IInv

\* A job without a row raises for good.
LEMMA JobFindsNoRowKeeps ==
    ASSUME IInv, NEW w \in Workers, NEW r \in Rows, JobGenerates(w, r), r \notin rows
    PROVE  IInv'
  <1>1. /\ TypeOK /\ queue' = queue \ {r} /\ results' = results \cup {r}
        /\ raised' = raised \cup {r}
        /\ UNCHANGED <<delivery, handler, rows>> /\ UNCHANGED <<faults, clock>>
        /\ UNCHANGED <<worker, drafts, cases, acks, interrupted>>
    BY DEF IInv, JobGenerates, mailVars, storeVars
  <1>2. TypeOK'
    BY <1>1 DEF TypeOK
  <1>3. \A x \in Rows : InHand(x) => InHand(x)'
    BY <1>1 DEF InHand, Running
  <1>4. HandlersOK' /\ AnsweredIsInHand'
    BY <1>1, <1>3, RequestsUntouched
  <1>5. WorkersOK'
    BY <1>1 DEF IInv, WorkersOK
  <1>6. ResultsOK'
    BY <1>1 DEF IInv, ResultsOK
  <1>7. OneCaseOneDraft' /\ AcksOK'
    BY <1>1 DEF IInv, OneCaseOneDraft, AcksOK, Acknowledging
  <1>8. QED
    BY <1>2, <1>4, <1>5, <1>6, <1>7 DEF IInv

\* A job starts, and its row leaves the queue for the job.
LEMMA JobGeneratesKeeps ==
    ASSUME IInv, NEW w \in Workers, NEW r \in Rows, JobGenerates(w, r), r \in rows
    PROVE  IInv'
  <1>1. /\ TypeOK /\ queue' = queue \ {r} /\ r \in queue /\ drafts[r] = 0 /\ worker[w].pc = "idle"
        /\ UNCHANGED <<delivery, handler, rows>> /\ UNCHANGED <<faults, clock, results>>
        /\ UNCHANGED <<drafts, cases, acks, interrupted, raised>>
    BY DEF IInv, JobGenerates, mailVars, storeVars
  <1>2. PICK q : q = [pc |-> "generated", row |-> r, newCase |-> FALSE]
    OBVIOUS
  <1>3. /\ q \in Worker /\ q.pc = "generated" /\ q.row = r
        /\ worker' = [worker EXCEPT ![w] = q]
    BY <1>2 DEF Worker, JobGenerates
  <1>4. \A v \in Workers : worker'[v] = IF v = w THEN q ELSE worker[v]
    BY <1>1, <1>3 DEF TypeOK
  <1>5. TypeOK'
    BY <1>1, <1>3 DEF TypeOK
  <1>6. worker[w].row = NoRow
    BY <1>1 DEF IInv, WorkersOK
  <1>7. \A x \in Rows : InHand(x) => InHand(x)'
    BY <1>1, <1>3, <1>4, <1>6, NoRowIsFresh DEF InHand, Running
  <1>8. HandlersOK' /\ AnsweredIsInHand'
    BY <1>1, <1>7, RequestsUntouched
  <1>9. \A v \in Workers : worker[v].row # r
    BY <1>1, NoRowIsFresh DEF IInv, WorkersOK
  <1>10. WorkersOK'
    BY <1>1, <1>3, <1>9, WorkersMove
  <1>11. ResultsOK' /\ OneCaseOneDraft'
    BY <1>1 DEF IInv, ResultsOK, OneCaseOneDraft
  <1>12. AcksOK'
    <2>1. \A x \in Rows : Acknowledging(x)' <=> Acknowledging(x)
      BY <1>1, <1>3, <1>4 DEF Acknowledging
    <2>2. QED
      BY <1>1, <2>1 DEF IInv, AcksOK
  <1>13. QED
    BY <1>5, <1>8, <1>10, <1>11, <1>12 DEF IInv

\* A running job goes on with its row, and keeps it in hand.
LEMMA JobGoesOn ==
    ASSUME IInv, NEW w \in Workers, NEW q \in Worker, worker[w].pc # "idle",
           worker' = [worker EXCEPT ![w] = q], q.pc # "idle", q.row = worker[w].row,
           UNCHANGED <<mailVars, storeVars, queueVars, drafts, cases, interrupted, raised, faults>>,
           q.pc \in {"prepared", "acknowledged"} => (q.newCase <=> cases[q.row] = 0),
           q.pc = "acknowledged" => ReplyMode = "acknowledge"
    PROVE  /\ worker' \in [Workers -> Worker]
           /\ HandlersOK' /\ AnsweredIsInHand' /\ WorkersOK' /\ ResultsOK' /\ OneCaseOneDraft'
  <1>1. /\ TypeOK /\ UNCHANGED <<delivery, handler, rows>>
        /\ UNCHANGED <<queue, results, drafts, cases, raised>>
    BY DEF IInv, mailVars, storeVars, queueVars
  <1>2. \A v \in Workers : worker'[v] = IF v = w THEN q ELSE worker[v]
    BY <1>1 DEF TypeOK
  <1>3. \A x \in Rows : InHand(x) => InHand(x)'
    BY <1>1, <1>2 DEF InHand, Running
  <1>4. HandlersOK' /\ AnsweredIsInHand'
    BY <1>1, <1>3, RequestsUntouched
  <1>5. /\ q.row \in Rows /\ q.row \notin queue /\ drafts[q.row] = 0
        /\ \A v \in Workers \ {w} : worker[v].row # q.row
    BY DEF IInv, WorkersOK
  <1>6. WorkersOK'
    BY <1>1, <1>5, WorkersMove
  <1>7. ResultsOK' /\ OneCaseOneDraft'
    BY <1>1 DEF IInv, ResultsOK, OneCaseOneDraft
  <1>8. QED
    BY <1>1, <1>4, <1>6, <1>7 DEF TypeOK

\* A job finds out whether its row needs a case.
LEMMA JobOpensCaseKeeps ==
    ASSUME IInv, NEW w \in Workers, JobOpensCase(w)
    PROVE  IInv'
  <1>1. /\ TypeOK /\ worker[w] \in Worker /\ worker[w].pc = "generated" /\ worker[w].pc # "idle"
        /\ UNCHANGED <<mailVars, storeVars, queueVars, drafts, cases, interrupted, raised, faults>>
        /\ UNCHANGED acks
    BY DEF IInv, TypeOK, JobOpensCase
  <1>2. PICK q : q = [pc |-> "prepared", row |-> worker[w].row, newCase |-> NeedsCase(worker[w].row)]
    OBVIOUS
  <1>3. /\ q \in Worker /\ q.pc = "prepared" /\ q.row = worker[w].row
        /\ q.newCase <=> cases[q.row] = 0
    BY <1>1, <1>2 DEF Worker, NeedsCase
  <1>4. worker' = [worker EXCEPT ![w] = q]
    <2>1. PICK x : x = [worker EXCEPT ![w].pc = "prepared"]
      OBVIOUS
    <2>2. worker' = [x EXCEPT ![w].newCase = NeedsCase(worker[w].row)]
      BY <2>1 DEF JobOpensCase
    <2>3. x = [worker EXCEPT ![w] = [worker[w] EXCEPT !.pc = "prepared"]]
      BY <1>1, <2>1 DEF TypeOK
    <2>4. PICK old \in Worker : old = worker[w]
      BY <1>1
    <2>5. PICK y : y = [old EXCEPT !.pc = "prepared"]
      OBVIOUS
    <2>6. y = [pc |-> "prepared", row |-> old.row, newCase |-> old.newCase]
      BY <2>4, <2>5 DEF Worker
    <2>7. [y EXCEPT !.newCase = NeedsCase(worker[w].row)] = q
      BY <1>2, <2>4, <2>6
    <2>8. QED
      BY <1>1, <2>2, <2>3, <2>4, <2>5, <2>7 DEF TypeOK
  <1>5. /\ worker' \in [Workers -> Worker]
        /\ HandlersOK' /\ AnsweredIsInHand' /\ WorkersOK' /\ ResultsOK' /\ OneCaseOneDraft'
    BY <1>1, <1>3, <1>4, JobGoesOn
  <1>6. TypeOK'
    BY <1>1, <1>5 DEF TypeOK, mailVars, storeVars, queueVars
  <1>7. AcksOK'
    <2>1. \A x \in Rows : Acknowledging(x)' <=> Acknowledging(x)
      BY <1>1, <1>3, <1>4 DEF TypeOK, Acknowledging
    <2>2. QED
      BY <1>1, <2>1 DEF IInv, AcksOK
  <1>8. QED
    BY <1>5, <1>6, <1>7 DEF IInv

\* The citizen is told before the transaction commits.
LEMMA JobAcknowledgesKeeps ==
    ASSUME IInv, NEW w \in Workers, JobAcknowledges(w)
    PROVE  IInv'
  <1>1. /\ TypeOK /\ worker[w] \in Worker /\ worker[w].pc = "prepared" /\ worker[w].pc # "idle"
        /\ ReplyMode = "acknowledge"
        /\ UNCHANGED <<mailVars, storeVars, queueVars, drafts, cases, interrupted, raised, faults>>
    BY DEF IInv, TypeOK, JobAcknowledges
  <1>2. PICK q : q = [worker[w] EXCEPT !.pc = "acknowledged"]
    OBVIOUS
  <1>3. /\ q \in Worker /\ q.pc = "acknowledged" /\ q.row = worker[w].row
        /\ q.newCase = worker[w].newCase
        /\ worker' = [worker EXCEPT ![w] = q]
    BY <1>1, <1>2 DEF Worker, JobAcknowledges
  <1>4. /\ q.row \in Rows
        /\ q.newCase <=> cases[q.row] = 0
        /\ \A v \in Workers : worker[v].row = q.row => v = w
    BY <1>1, <1>3 DEF IInv, WorkersOK
  <1>5. /\ worker' \in [Workers -> Worker]
        /\ HandlersOK' /\ AnsweredIsInHand' /\ WorkersOK' /\ ResultsOK' /\ OneCaseOneDraft'
    BY <1>1, <1>3, <1>4, JobGoesOn
  <1>6. acks' = More(acks, q.row) /\ acks \in [Rows -> Nat]
    BY <1>3 DEF JobAcknowledges, IInv, TypeOK
  <1>7. /\ acks' \in [Rows -> Nat]
        /\ \A x \in Rows : acks'[x] = IF x = q.row THEN acks[x] + 1 ELSE acks[x]
    BY <1>4, <1>6, MoreType
  <1>8. TypeOK'
    BY <1>1, <1>5, <1>7 DEF TypeOK, mailVars, storeVars, queueVars
  <1>9. AcksOK'
    <2>1. \A v \in Workers : worker'[v] = IF v = w THEN q ELSE worker[v]
      BY <1>1, <1>3 DEF TypeOK
    <2>2. ~Acknowledging(q.row) /\ Acknowledging(q.row)'
      BY <1>1, <1>3, <1>4, <2>1 DEF Acknowledging
    <2>3. \A x \in Rows : x # q.row => (Acknowledging(x)' <=> Acknowledging(x))
      BY <1>3, <2>1 DEF Acknowledging
    <2>4. \A x \in Rows :
              acks[x] = drafts[x] + interrupted[x] + (IF Acknowledging(x) THEN 1 ELSE 0)
      BY <1>1 DEF IInv, AcksOK
    <2>5. \A x \in Rows : drafts[x] \in Nat /\ interrupted[x] \in Nat
      BY <1>1 DEF TypeOK
    <2>6. SUFFICES ASSUME NEW x \in Rows
                   PROVE  acks'[x] = drafts[x] + interrupted[x]
                                       + (IF Acknowledging(x)' THEN 1 ELSE 0)
      BY <1>1 DEF AcksOK
    <2>7. CASE x = q.row
      BY <1>7, <2>2, <2>4, <2>5, <2>7
    <2>8. CASE x # q.row
      BY <1>7, <2>3, <2>4, <2>8
    <2>9. QED
      BY <2>7, <2>8
  <1>10. QED
    BY <1>5, <1>8, <1>9 DEF IInv

\* A job stops, and its row stays in hand: by a case, in the queue or raised.
LEMMA JobStops ==
    ASSUME IInv, NEW w \in Workers, NEW r, r = worker[w].row, worker[w].pc # "idle",
           worker' = [worker EXCEPT ![w] = IdleWorker],
           UNCHANGED <<mailVars, storeVars>>, queue \subseteq queue', raised \subseteq raised',
           \A x \in Rows : cases[x] > 0 => cases'[x] > 0,
           cases'[r] > 0 \/ r \in queue' \/ r \in raised',
           \A x \in Rows : x # r =>
              (x \in queue' => x \in queue) /\ drafts'[x] = drafts[x] /\ cases'[x] = cases[x]
    PROVE  /\ worker' \in [Workers -> Worker]
           /\ HandlersOK' /\ AnsweredIsInHand' /\ WorkersOK'
           /\ ~Acknowledging(r)'
           /\ \A x \in Rows : x # r => (Acknowledging(x)' <=> Acknowledging(x))
  <1>1. /\ TypeOK /\ UNCHANGED <<delivery, handler, rows>>
    BY DEF IInv, mailVars, storeVars
  <1>2. \A v \in Workers : worker'[v] = IF v = w THEN IdleWorker ELSE worker[v]
    BY <1>1 DEF TypeOK
  <1>3. \A x \in Rows : InHand(x) => InHand(x)'
    <2>1. SUFFICES ASSUME NEW x \in Rows, InHand(x)
                   PROVE  InHand(x)'
      OBVIOUS
    <2>2. CASE x = r
      BY <2>2 DEF InHand
    <2>3. CASE x # r
      BY <1>2, <2>1, <2>3 DEF InHand, Running
    <2>4. QED
      BY <2>2, <2>3
  <1>4. HandlersOK' /\ AnsweredIsInHand'
    BY <1>1, <1>3, RequestsUntouched
  <1>5. \A v \in Workers \ {w} : worker[v].row # r
    BY DEF IInv, WorkersOK
  <1>6. PICK q : q = IdleWorker
    OBVIOUS
  <1>7. q.pc = "idle" /\ q.row = NoRow
    BY <1>6 DEF IdleWorker
  <1>8. \A x \in Rows : (\E v \in Workers \ {w} : worker[v].row = x) =>
              (x \in queue' => x \in queue) /\ drafts'[x] = drafts[x] /\ cases'[x] = cases[x]
    BY <1>5
  <1>9. WorkersOK'
    BY <1>6, <1>7, <1>8, WorkersMove
  <1>10. ~Acknowledging(r)'
    BY <1>2, <1>5, <1>6, <1>7 DEF Acknowledging
  <1>11. \A x \in Rows : x # r => (Acknowledging(x)' <=> Acknowledging(x))
    BY <1>2, <1>6, <1>7 DEF Acknowledging
  <1>12. worker' \in [Workers -> Worker]
    BY <1>1, IdleTypes DEF TypeOK
  <1>13. QED
    BY <1>4, <1>9, <1>10, <1>11, <1>12

\* The transaction of a job commits: its row has the draft and the case.
LEMMA JobCommitsKeeps ==
    ASSUME IInv, NEW w \in Workers, JobCommits(w)
    PROVE  IInv'
  <1>1. PICK r : r = worker[w].row
    OBVIOUS
  <1>2. /\ TypeOK
        /\ worker[w].pc = IF ReplyMode = "acknowledge" THEN "acknowledged" ELSE "prepared"
        /\ worker' = [worker EXCEPT ![w] = IdleWorker]
        /\ UNCHANGED <<mailVars, storeVars>>
        /\ UNCHANGED <<queue, acks, interrupted, raised, faults>>
    BY DEF IInv, JobCommits
  <1>3. /\ r \in Rows /\ drafts[r] = 0
        /\ worker[w].newCase <=> cases[r] = 0
    BY <1>1, <1>2 DEF IInv, WorkersOK
  <1>4. /\ \A x \in Rows : /\ drafts[x] \in Nat /\ cases[x] \in Nat
                           /\ acks[x] \in Nat /\ interrupted[x] \in Nat
        /\ drafts \in [Rows -> Nat] /\ cases \in [Rows -> Nat]
    BY <1>2 DEF TypeOK
  <1>5. /\ cases' = IF worker[w].newCase THEN More(cases, r) ELSE cases
        /\ drafts' = IF ReplyMode = "off" THEN drafts ELSE More(drafts, r)
        /\ results' = results \cup {r}
    BY <1>1 DEF JobCommits
  <1>6. /\ drafts' \in [Rows -> Nat]
        /\ \A x \in Rows : drafts'[x] = IF x = r /\ ReplyMode # "off" THEN 1 ELSE drafts[x]
    <2>1. CASE ReplyMode = "off"
      BY <1>4, <1>5, <2>1
    <2>2. CASE ReplyMode # "off"
      BY <1>3, <1>4, <1>5, <2>2, MoreType
    <2>3. QED
      BY <2>1, <2>2
  <1>7. /\ cases' \in [Rows -> Nat]
        /\ \A x \in Rows : cases'[x] = IF x = r /\ cases[r] = 0 THEN 1 ELSE cases[x]
    <2>1. CASE worker[w].newCase
      BY <1>3, <1>4, <1>5, <2>1, MoreType
    <2>2. CASE ~worker[w].newCase
      BY <1>3, <1>4, <1>5, <2>2
    <2>3. QED
      BY <2>1, <2>2
  <1>8. cases'[r] > 0 /\ \A x \in Rows : cases[x] > 0 => cases'[x] > 0
    BY <1>3, <1>4, <1>7
  <1>9. worker[w].pc # "idle"
    BY <1>2
  <1>10. /\ worker' \in [Workers -> Worker]
         /\ HandlersOK' /\ AnsweredIsInHand' /\ WorkersOK'
         /\ ~Acknowledging(r)'
         /\ \A x \in Rows : x # r => (Acknowledging(x)' <=> Acknowledging(x))
    BY <1>1, <1>2, <1>6, <1>7, <1>8, <1>9, JobStops
  <1>11. TypeOK'
    BY <1>2, <1>3, <1>5, <1>6, <1>7, <1>10 DEF TypeOK, mailVars, storeVars
  <1>12. ResultsOK'
    BY <1>2, <1>5, <1>7, <1>8 DEF IInv, TypeOK, ResultsOK
  <1>13. OneCaseOneDraft'
    <2>1. SUFFICES ASSUME NEW x \in Rows
                   PROVE  /\ cases'[x] <= 1
                          /\ drafts'[x] = IF ReplyMode = "off" THEN 0 ELSE cases'[x]
      BY DEF OneCaseOneDraft
    <2>2. /\ cases[x] <= 1
          /\ drafts[x] = IF ReplyMode = "off" THEN 0 ELSE cases[x]
      BY DEF IInv, OneCaseOneDraft
    <2>3. QED
      BY <1>3, <1>4, <1>6, <1>7, <2>2
  <1>14. AcksOK'
    <2>1. SUFFICES ASSUME ReplyMode = "acknowledge", NEW x \in Rows
                   PROVE  acks[x] = drafts'[x] + interrupted[x]
                                      + (IF Acknowledging(x)' THEN 1 ELSE 0)
      BY <1>2 DEF AcksOK
    <2>2. acks[x] = drafts[x] + interrupted[x] + (IF Acknowledging(x) THEN 1 ELSE 0)
      BY <2>1 DEF IInv, AcksOK
    <2>3. CASE x = r
      <3>1. Acknowledging(x)
        BY <1>1, <1>2, <2>1, <2>3 DEF Acknowledging
      <3>2. QED
        BY <1>3, <1>4, <1>6, <1>10, <2>1, <2>2, <2>3, <3>1
    <2>4. CASE x # r
      BY <1>6, <1>10, <2>2, <2>4
    <2>5. QED
      BY <2>3, <2>4
  <1>15. QED
    BY <1>10, <1>11, <1>12, <1>13, <1>14 DEF IInv

\* A job is lost before it commits, and an acknowledgement it sent counts as
\* interrupted.
LEMMA JobLost ==
    ASSUME IInv, NEW w \in Workers, worker[w].pc # "idle", Interrupted(w),
           worker' = [worker EXCEPT ![w] = IdleWorker],
           UNCHANGED <<mailVars, storeVars, drafts, cases, acks>>, faults' \in 0..MaxFaults,
           queue' \subseteq queue \cup {worker[w].row}, queue \subseteq queue',
           raised' \subseteq raised \cup {worker[w].row}, raised \subseteq raised',
           worker[w].row \in queue' \/ worker[w].row \in raised',
           results' \subseteq results \cup raised'
    PROVE  IInv'
  <1>1. PICK r : r = worker[w].row
    OBVIOUS
  <1>2. /\ TypeOK /\ worker[w] \in Worker /\ r \in Rows
        /\ UNCHANGED <<drafts, cases, acks>>
    BY <1>1 DEF IInv, TypeOK, WorkersOK
  <1>3. \A x \in Rows : x # r => (x \in queue' => x \in queue)
    BY <1>1
  <1>4. /\ worker' \in [Workers -> Worker]
        /\ HandlersOK' /\ AnsweredIsInHand' /\ WorkersOK'
        /\ ~Acknowledging(r)'
        /\ \A x \in Rows : x # r => (Acknowledging(x)' <=> Acknowledging(x))
    BY <1>1, <1>2, <1>3, JobStops
  <1>5. /\ interrupted' \in [Rows -> Nat]
        /\ \A x \in Rows : interrupted'[x] = IF x = r /\ worker[w].pc = "acknowledged"
                                             THEN interrupted[x] + 1 ELSE interrupted[x]
    <2>1. interrupted \in [Rows -> Nat]
      BY <1>2 DEF TypeOK
    <2>2. CASE worker[w].pc = "acknowledged"
      <3>1. interrupted' = More(interrupted, r)
        BY <1>1, <2>2 DEF Interrupted
      <3>2. QED
        BY <1>2, <2>1, <2>2, <3>1, MoreType
    <2>3. CASE worker[w].pc # "acknowledged"
      BY <2>1, <2>3 DEF Interrupted
    <2>4. QED
      BY <2>2, <2>3
  <1>6. TypeOK'
    BY <1>1, <1>2, <1>4, <1>5 DEF TypeOK, mailVars, storeVars
  <1>7. ResultsOK' /\ OneCaseOneDraft'
    BY <1>2 DEF IInv, ResultsOK, OneCaseOneDraft
  <1>8. AcksOK'
    <2>1. SUFFICES ASSUME ReplyMode = "acknowledge", NEW x \in Rows
                   PROVE  acks[x] = drafts[x] + interrupted'[x]
                                      + (IF Acknowledging(x)' THEN 1 ELSE 0)
      BY <1>2 DEF AcksOK
    <2>2. acks[x] = drafts[x] + interrupted[x] + (IF Acknowledging(x) THEN 1 ELSE 0)
      BY <2>1 DEF IInv, AcksOK
    <2>3. drafts[x] \in Nat /\ interrupted[x] \in Nat
      BY <1>2 DEF TypeOK
    <2>4. CASE x = r
      <3>1. Acknowledging(x) <=> worker[w].pc = "acknowledged"
        BY <1>1, <2>4 DEF Acknowledging, IInv, WorkersOK
      <3>2. QED
        BY <1>4, <1>5, <2>2, <2>3, <2>4, <3>1
    <2>5. CASE x # r
      BY <1>4, <1>5, <2>2, <2>5
    <2>6. QED
      BY <2>4, <2>5
  <1>9. QED
    BY <1>4, <1>6, <1>7, <1>8 DEF IInv

\* The worker dies and the job waits again, or the job raises and its failure
\* is kept.
LEMMA FailuresKeep ==
    ASSUME IInv, NEW w \in Workers, WorkerCrashes(w) \/ JobRaises(w)
    PROVE  IInv'
  <1>1. faults' \in 0..MaxFaults
    BY PipelineConstants DEF IInv, TypeOK, WorkerCrashes, JobRaises
  <1>2. CASE WorkerCrashes(w)
    BY <1>1, <1>2, JobLost DEF WorkerCrashes
  <1>3. CASE JobRaises(w)
    BY <1>1, <1>3, JobLost DEF JobRaises
  <1>4. QED
    BY <1>2, <1>3

\* Redis forgets the result of a job.
LEMMA ResultExpiresKeeps ==
    ASSUME IInv, NEW r, ResultExpires(r)
    PROVE  IInv'
  <1>1. /\ results' = results \ {r} /\ UNCHANGED <<delivery, handler, rows>>
        /\ UNCHANGED jobVars /\ UNCHANGED <<queue, faults, clock>>
    BY DEF ResultExpires, mailVars, storeVars
  <1>2. \A x \in Rows : InHand(x) => InHand(x)'
    BY <1>1 DEF InHand, Running, jobVars
  <1>3. HandlersOK' /\ AnsweredIsInHand'
    BY <1>1, <1>2, RequestsUntouched
  <1>4. TypeOK'
    BY <1>1 DEF IInv, TypeOK, jobVars
  <1>5. WorkersOK' /\ ResultsOK' /\ OneCaseOneDraft' /\ AcksOK'
    BY <1>1 DEF IInv, WorkersOK, ResultsOK, OneCaseOneDraft, AcksOK, Acknowledging, jobVars
  <1>6. QED
    BY <1>3, <1>4, <1>5 DEF IInv

-----------------------------------------------------------------------------
(* Every step keeps the invariant *)

\* Nothing has happened yet.
LEMMA Initially == Init => IInv
  <1>1. SUFFICES ASSUME Init
                 PROVE  IInv
    OBVIOUS
  <1>2. /\ \A h \in Handlers : handler[h] = IdleHandler
        /\ \A w \in Workers : worker[w] = IdleWorker
        /\ \A r \in Rows : drafts[r] = 0 /\ cases[r] = 0 /\ acks[r] = 0 /\ interrupted[r] = 0
        /\ None \in [Rows -> Nat]
    BY <1>1 DEF Init, None
  <1>3. TypeOK
    BY <1>1, <1>2, IdleTypes, PipelineConstants DEF Init, TypeOK
  <1>4. HandlersOK /\ WorkersOK
    BY <1>2 DEF HandlersOK, WorkersOK, IdleHandler, IdleWorker
  <1>5. AnsweredIsInHand
    BY <1>1, PipelineConstants DEF Init, AnsweredIsInHand
  <1>6. ResultsOK /\ OneCaseOneDraft
    BY <1>1, <1>2 DEF Init, ResultsOK, OneCaseOneDraft
  <1>7. AcksOK
    <2>1. \A r : ~Acknowledging(r)
      BY <1>2 DEF Acknowledging, IdleWorker
    <2>2. QED
      BY <1>2, <2>1 DEF AcksOK
  <1>8. QED
    BY <1>3, <1>4, <1>5, <1>6, <1>7 DEF IInv

\* Every step keeps the invariant.
LEMMA Inductive == IInv /\ [Next]_vars => IInv'
  <1>1. SUFFICES ASSUME IInv, [Next]_vars
                 PROVE  IInv'
    OBVIOUS
  <1>2. queue \subseteq Rows
    BY <1>1 DEF IInv, TypeOK
  <1>3. CASE Tick \/ \E m \in Messages : SendMessage(m) \/ ReceiveOther(m)
    BY <1>1, <1>3, MailKeeps
  <1>4. CASE \E h \in Handlers, m \in Messages : ReceiveText(h, m)
    BY <1>1, <1>4, ReceiveTextKeeps
  <1>5. ASSUME NEW h \in Handlers, Webhook(h) \/ HandlerFails(h)
        PROVE  IInv'
    BY <1>1, <1>5, StoreMessageKeeps, CommitMessageKeeps, QueueJobKeeps, AnswerKeeps,
       HandlerFailsKeeps DEF Webhook
  <1>6. ASSUME NEW w \in Workers, Job(w)
        PROVE  IInv'
    BY <1>1, <1>2, <1>6, JobFindsDraftKeeps, JobGeneratesKeeps, JobOpensCaseKeeps,
       JobFindsNoRowKeeps, JobAcknowledgesKeeps, JobCommitsKeeps DEF Job
  <1>7. ASSUME NEW w \in Workers, WorkerCrashes(w) \/ JobRaises(w)
        PROVE  IInv'
    BY <1>1, <1>7, FailuresKeep
  <1>8. CASE \E r \in results : ResultExpires(r)
    BY <1>1, <1>8, ResultExpiresKeeps
  <1>9. CASE UNCHANGED vars
    <2>1. UNCHANGED <<queueVars, jobVars>> /\ UNCHANGED <<delivery, handler, rows>>
          /\ UNCHANGED <<faults, clock>>
      BY <1>9 DEF vars, queueVars, jobVars
    <2>2. /\ WorkersOK' /\ ResultsOK' /\ OneCaseOneDraft' /\ AcksOK'
          /\ \A r : InHand(r)' <=> InHand(r)
      BY <1>1, <2>1, JobsUntouched
    <2>3. HandlersOK' /\ AnsweredIsInHand'
      BY <1>1, <2>1, <2>2, RequestsUntouched
    <2>4. TypeOK'
      BY <1>1, <2>1 DEF IInv, TypeOK, queueVars, jobVars
    <2>5. QED
      BY <2>2, <2>3, <2>4 DEF IInv
  <1>10. QED
    BY <1>1, <1>3, <1>4, <1>5, <1>6, <1>7, <1>8, <1>9 DEF Next

-----------------------------------------------------------------------------
(* Rows: where they are filed, and that a job has one *)

AtItsTime(r) == r.ext \notin Clamped => r.at = SentAt[r.ext]

RowsOK ==
    /\ \A r \in rows : AtItsTime(r)
    /\ \A h \in Handlers : handler[h].pc = "stored" => AtItsTime(handler[h].row)
    /\ queue \subseteq rows
    /\ \A w \in Workers : worker[w].pc # "idle" => worker[w].row \in rows
    /\ \A r \in Rows : acks[r] > 0 => r \in rows

\* No rows, no jobs.
LEMMA RowsAtFirst == Init => RowsOK
  BY DEF Init, RowsOK, IdleHandler, IdleWorker, None

\* A webhook request files its row before it queues the job.
LEMMA RequestsKeepRows ==
    ASSUME IInv, RowsOK, NEW h \in Handlers,
           \/ Webhook(h) \/ HandlerFails(h)
           \/ \E m \in Messages : ReceiveText(h, m)
    PROVE  RowsOK'
  <1>1. /\ TypeOK /\ handler[h] \in Handler /\ UNCHANGED <<worker, acks>>
    BY DEF IInv, TypeOK, Webhook, StoreMessage, CommitMessage, QueueJob, Answer, HandlerFails,
           ReceiveText, jobVars
  <1>2. ASSUME NEW m \in Messages, ReceiveText(h, m)
        PROVE  RowsOK'
    <2>1. UNCHANGED <<rows, queue>>
      BY <1>2 DEF ReceiveText, queueVars
    <2>2. ASSUME NEW g \in Handlers, handler'[g].pc = "stored"
          PROVE  AtItsTime(handler'[g].row)
      <3>1. CASE g = h
        <4>1. PICK q : q = handler'[h]
          OBVIOUS
        <4>2. \/ q = [pc |-> "new", msg |-> m, row |-> NoRow]
              \/ \E r \in KnownAs(m) : q = [pc |-> "stored", msg |-> m, row |-> r]
          BY <1>1, <1>2, <4>1 DEF ReceiveText, TypeOK
        <4>3. ASSUME q.pc = "stored"
              PROVE  q.row \in rows
          <5>1. q # [pc |-> "new", msg |-> m, row |-> NoRow]
            BY <4>3
          <5>2. PICK r \in KnownAs(m) : q = [pc |-> "stored", msg |-> m, row |-> r]
            BY <4>2, <5>1
          <5>3. r \in rows /\ q.row = r
            BY <5>2 DEF KnownAs, StoredUnder
          <5>4. QED
            BY <5>3
        <4>4. QED
          BY <2>2, <3>1, <4>1, <4>3 DEF RowsOK
      <3>2. CASE g # h
        BY <1>1, <1>2, <2>2, <3>2 DEF ReceiveText, RowsOK, TypeOK
      <3>3. QED
        BY <3>1, <3>2
    <2>3. QED
      BY <1>1, <2>1, <2>2 DEF RowsOK, AtItsTime
  <1>3. CASE StoreMessage(h)
    <2>1. UNCHANGED <<rows, queue>>
      BY <1>3 DEF StoreMessage, queueVars
    <2>2. PICK row : row = [ext |-> handler[h].msg, at |-> FiledAt(handler[h].msg)]
      OBVIOUS
    <2>3. AtItsTime(row)
      BY <2>2 DEF AtItsTime, FiledAt
    <2>4. PICK r \in rows \cup {row} :
              handler' = [handler EXCEPT ![h].pc = "stored", ![h].row = r]
      BY <1>3, <2>2 DEF StoreMessage
    <2>5. AtItsTime(r)
      BY <2>3, <2>4 DEF RowsOK
    <2>6. handler'[h].row = r /\ \A g \in Handlers \ {h} : handler'[g] = handler[g]
      BY <1>1, <2>4 DEF TypeOK, Handler
    <2>7. QED
      BY <1>1, <2>1, <2>5, <2>6 DEF RowsOK, AtItsTime
  <1>4. CASE CommitMessage(h)
    <2>1. /\ handler[h].pc = "stored" /\ rows' = rows \cup {handler[h].row}
          /\ UNCHANGED queue
      BY <1>4 DEF CommitMessage, queueVars
    <2>2. \A g \in Handlers : handler'[g].pc = "stored" => handler'[g] = handler[g]
      BY <1>1, <1>4 DEF CommitMessage, TypeOK, Handler
    <2>3. QED
      BY <1>1, <2>1, <2>2 DEF RowsOK, AtItsTime
  <1>5. CASE QueueJob(h)
    <2>1. UNCHANGED rows /\ handler[h].row \in rows
      BY <1>5 DEF QueueJob, IInv, HandlersOK
    <2>2. queue' \subseteq queue \cup {handler[h].row}
      BY <1>5 DEF QueueJob
    <2>3. \A g \in Handlers : handler'[g].pc = "stored" => handler'[g] = handler[g]
      BY <1>1, <1>5 DEF QueueJob, TypeOK, Handler
    <2>4. QED
      BY <1>1, <2>1, <2>2, <2>3 DEF RowsOK, AtItsTime
  <1>6. CASE Answer(h) \/ HandlerFails(h)
    <2>1. UNCHANGED <<rows, queue>> /\ handler' = [handler EXCEPT ![h] = IdleHandler]
      BY <1>6 DEF Answer, HandlerFails, queueVars
    <2>2. \A g \in Handlers : handler'[g].pc = "stored" => handler'[g] = handler[g]
      BY <1>1, <2>1 DEF TypeOK, IdleHandler
    <2>3. QED
      BY <1>1, <2>1, <2>2 DEF RowsOK, AtItsTime
  <1>7. QED
    BY <1>2, <1>3, <1>4, <1>5, <1>6 DEF Webhook

\* A job has its row from the queue, and only a job acknowledges.
LEMMA JobsKeepRows ==
    ASSUME IInv, RowsOK, NEW w \in Workers, Job(w) \/ WorkerCrashes(w) \/ JobRaises(w)
    PROVE  RowsOK'
  <1>1. TypeOK /\ worker[w] \in Worker /\ UNCHANGED <<rows, handler>>
    BY DEF IInv, TypeOK, Job, JobFindsDraft, JobGenerates, JobOpensCase, JobAcknowledges,
           JobCommits, WorkerCrashes, JobRaises, storeVars
  <1>2. worker[w].pc # "idle" => worker[w].row \in rows
    BY DEF RowsOK
  <1>3. queue' \subseteq rows
    BY <1>2 DEF RowsOK, Job, JobFindsDraft, JobGenerates, JobOpensCase, JobAcknowledges,
           JobCommits, WorkerCrashes, JobRaises, queueVars
  <1>4. /\ \A v \in Workers \ {w} : worker'[v] = worker[v]
        /\ worker'[w].pc # "idle" => worker'[w].row \in rows
    <2>1. CASE Job(w)
      <3>1. ASSUME NEW r \in queue, JobFindsDraft(w, r) \/ JobGenerates(w, r)
            PROVE  /\ \A v \in Workers \ {w} : worker'[v] = worker[v]
                   /\ worker'[w].pc # "idle" => worker'[w].row \in rows
        BY <1>1, <1>2, <3>1 DEF JobFindsDraft, JobGenerates, jobVars, TypeOK
      <3>2. CASE JobOpensCase(w) \/ JobAcknowledges(w)
        BY <1>1, <1>2, <3>2 DEF JobOpensCase, JobAcknowledges, TypeOK, Worker
      <3>3. CASE JobCommits(w)
        BY <1>1, <3>3 DEF JobCommits, TypeOK, IdleWorker
      <3>4. CASE \E r \in queue : JobFindsDraft(w, r) \/ JobGenerates(w, r)
        BY <3>1, <3>4
      <3>5. QED
        BY <2>1, <3>2, <3>3, <3>4 DEF Job
    <2>2. CASE WorkerCrashes(w) \/ JobRaises(w)
      BY <1>1, <2>2 DEF WorkerCrashes, JobRaises, TypeOK, IdleWorker
    <2>3. QED
      BY <2>1, <2>2
  <1>5. \A r \in Rows : acks'[r] > 0 => r \in rows
    <2>1. CASE JobAcknowledges(w)
      BY <1>1, <1>2, <2>1 DEF JobAcknowledges, More, RowsOK, TypeOK
    <2>2. CASE UNCHANGED acks
      BY <2>2 DEF RowsOK
    <2>3. QED
      BY <2>1, <2>2 DEF Job, JobFindsDraft, JobGenerates, JobOpensCase, JobCommits,
         WorkerCrashes, JobRaises, jobVars
  <1>6. QED
    BY <1>1, <1>3, <1>4, <1>5 DEF RowsOK, AtItsTime

\* Every step keeps the rows where they are filed.
LEMMA RowsInductive ==
    ASSUME IInv, RowsOK, [Next]_vars
    PROVE  RowsOK'
  <1>1. CASE UNCHANGED <<rows, handler, queue, worker, acks>>
    BY <1>1 DEF RowsOK, AtItsTime
  <1>2. CASE Tick \/ \E m \in Messages : SendMessage(m) \/ ReceiveOther(m)
    BY <1>1, <1>2 DEF Tick, SendMessage, ReceiveOther, queueVars, jobVars
  <1>3. CASE \E r \in results : ResultExpires(r)
    BY <1>1, <1>3 DEF ResultExpires, storeVars, jobVars
  <1>4. CASE UNCHANGED vars
    BY <1>1, <1>4 DEF vars
  <1>5. QED
    BY <1>2, <1>3, <1>4, RequestsKeepRows, JobsKeepRows DEF Next

-----------------------------------------------------------------------------
(* The theorems *)

\* The inductive invariant holds in every reachable state.
THEOREM Invariance == Spec => []IInv
  BY Initially, Inductive, PTL DEF Spec

\* Every variable keeps its type (TypeOK).
THEOREM InboundTypeCorrect == Spec => []TypeOK
  <1>1. IInv => TypeOK
    BY DEF IInv
  <1>2. QED
    BY <1>1, Invariance, PTL

\* A text that Meta has been answered for has a row that has a case, or a job
\* that waits, runs or raised, whatever was interrupted and expired meanwhile
\* (receive_webhook, process_whatsapp_message_job).
THEOREM AnsweredIsInHandHolds == Spec => []AnsweredIsInHand
  <1>1. IInv => AnsweredIsInHand
    BY DEF IInv
  <1>2. QED
    BY <1>1, Invariance, PTL

\* A row leads to one case and one draft, however often its job is run.
THEOREM OneCaseOneDraftHolds == Spec => []OneCaseOneDraft
  <1>1. IInv => OneCaseOneDraft
    BY DEF IInv
  <1>2. QED
    BY <1>1, Invariance, PTL

\* Rows stay where they are filed, and a job has one.
THEOREM RowsStay == Spec => []RowsOK
  BY RowsAtFirst, RowsInductive, Invariance, PTL DEF Spec

\* A stored row is acknowledged once, and once more for each job lost between the
\* acknowledgement and the commit; a message whose claimed time stands, for one row.
THEOREM AcksAreExplainedHolds == Spec => []AcksAreExplained
  <1>1. ASSUME IInv, ReplyMode = "acknowledge", NEW r \in Rows
        PROVE  acks[r] <= 1 + interrupted[r] /\ drafts[r] + interrupted[r] <= acks[r]
    <2>1. acks[r] = drafts[r] + interrupted[r] + (IF Acknowledging(r) THEN 1 ELSE 0)
      BY <1>1 DEF IInv, AcksOK
    <2>2. drafts[r] \in Nat /\ interrupted[r] \in Nat
      BY <1>1 DEF IInv, TypeOK
    <2>3. drafts[r] <= 1
      BY <1>1 DEF IInv, OneCaseOneDraft
    <2>4. Acknowledging(r) => drafts[r] = 0
      BY <1>1 DEF Acknowledging, IInv, WorkersOK
    <2>5. QED
      BY <2>1, <2>2, <2>3, <2>4
  <1>2. ASSUME RowsOK, NEW r \in Rows, NEW other \in Rows, r.ext = other.ext,
               r.ext \notin Clamped, acks[r] > 0, acks[other] > 0
        PROVE  r = other
    <2>1. r.at = SentAt[r.ext] /\ other.at = SentAt[other.ext]
      BY <1>2 DEF RowsOK, AtItsTime
    <2>2. QED
      BY <1>2, <2>1 DEF Rows
  <1>3. IInv /\ RowsOK => AcksAreExplained
    BY <1>1, <1>2 DEF AcksAreExplained
  <1>4. QED
    BY <1>3, Invariance, RowsStay, PTL

\* If no job raises, a text that Meta has been answered for has a case, or a job
\* that waits or runs: neither the death of a request nor that of the worker, nor
\* a result that expires, loses a message that nobody will deliver again.
THEOREM NothingIsLost ==
    ASSUME ~MayRaise
    PROVE  Spec => [](\A m \in Texts :
                          delivery[m] = "answered" =>
                             \E r \in rows : /\ Words[r.ext] = Words[m]
                                             /\ cases[r] > 0 \/ r \in queue \/ Running(r))
  <1> DEFINE NoneRaised == raised = {}
             Kept == \A m \in Texts :
                        delivery[m] = "answered" =>
                           \E r \in rows : /\ Words[r.ext] = Words[m]
                                           /\ cases[r] > 0 \/ r \in queue \/ Running(r)
  <1>1. Init => NoneRaised
    BY DEF Init
  <1>2. ASSUME RowsOK, NoneRaised, [Next]_vars PROVE NoneRaised'
    <2>1. CASE UNCHANGED vars
      BY <1>2, <2>1 DEF vars
    <2>2. CASE Tick \/ \E m \in Messages : SendMessage(m) \/ ReceiveOther(m)
      BY <1>2, <2>2 DEF Tick, SendMessage, ReceiveOther, jobVars
    <2>3. CASE \E h \in Handlers, m \in Messages : ReceiveText(h, m)
      BY <1>2, <2>3 DEF ReceiveText, jobVars
    <2>4. CASE \E h \in Handlers : Webhook(h) \/ HandlerFails(h)
      BY <1>2, <2>4
         DEF Webhook, StoreMessage, CommitMessage, QueueJob, Answer, HandlerFails, jobVars
    <2>5. CASE \E w \in Workers : Job(w) \/ WorkerCrashes(w) \/ JobRaises(w)
      BY <1>2, <2>5
         DEF RowsOK, Job, JobFindsDraft, JobGenerates, JobOpensCase, JobAcknowledges, JobCommits,
             WorkerCrashes, JobRaises, jobVars
    <2>6. CASE \E r \in results : ResultExpires(r)
      BY <1>2, <2>6 DEF ResultExpires, jobVars
    <2>7. QED
      BY <1>2, <2>1, <2>2, <2>3, <2>4, <2>5, <2>6 DEF Next
  <1>3. IInv /\ NoneRaised => Kept
    BY DEF IInv, AnsweredIsInHand, InHand
  <1>4. QED
    BY <1>1, <1>2, <1>3, Invariance, RowsStay, PTL DEF Spec

=============================================================================
