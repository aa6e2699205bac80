---------------------- MODULE KnowledgeDocumentsProofs ----------------------
(***************************************************************************)
(* Theorems about the knowledge base, for any number of documents,         *)
(* versions, users, days and processings, and finitely many sessions.      *)
(***************************************************************************)
EXTENDS KnowledgeDocuments, FiniteSetTheorems, TLAPS

-----------------------------------------------------------------------------
(* The inductive invariant *)

ProcessingSteps == {"extracting", "deleting", "embedding", "inserted"}

ReviewedRow(row) == row.approved_by \notin {NoUser, row.created_by}

RowOK(row) ==
    /\ \A g, h \in row.chunks : g = h
    /\ row.is_approved \/ row.status = "indexed" => row.chunks # {}
    /\ row.is_approved => ReviewedRow(row)
    /\ row.version = NoVersion => row.made = 0 /\ row.chunks = {}

\* What a session has read of the rows still holds when it writes.
Fits(q, rows) ==
    /\ q.pc = "storing" => q.version \in Versions /\ q.user \in Users
    /\ q.pc \in ProcessingSteps \cup {"reindexing", "drafting"} =>
           q.doc \in Documents /\ rows[q.doc].version # NoVersion
    /\ q.pc = "reindexing" => rows[q.doc].chunks # {}
    /\ q.pc = "drafting" => ReviewedRow(rows[q.doc])

\* What may change about a row: it stays, keeps its review and keeps some text.
Evolves(old, new) ==
    /\ old.version # NoVersion => new.version # NoVersion
    /\ old.version # NoVersion /\ ReviewedRow(old) => ReviewedRow(new)
    /\ old.chunks # {} => new.chunks # {}

RowsOK == \A d \in Documents : RowOK(documents[d])

SessionsFit == \A s \in Sessions : Fits(session[s], documents)

\* One insertion at a time, and none beside chunks it does not replace.
InsertionsOK ==
    \A s \in Sessions : session[s].pc = "inserted" =>
        /\ documents[session[s].doc].chunks \subseteq session[s].chunks
        /\ \A t \in Sessions :
              session[t].pc = "inserted" /\ session[t].doc = session[s].doc => t = s

\* Every processing under way has a generation left to make.
BudgetOK ==
    \A d \in Documents :
        documents[d].made + Cardinality(Processing(d)) <= MaxGenerations[d]

CitationsOK ==
    \A c \in citations :
        documents[c[1]].version # NoVersion /\ ReviewedRow(documents[c[1]])

IInv == TypeOK /\ RowsOK /\ SessionsFit /\ InsertionsOK /\ BudgetOK /\ CitationsOK

-----------------------------------------------------------------------------
(* Lemmas *)

\* The sessions that process a document are finitely many.
LEMMA ProcessingFinite ==
    ASSUME NEW d \in Documents
    PROVE  IsFiniteSet(Processing(d)) /\ Cardinality(Processing(d)) \in Nat
  <1>1. Processing(d) \subseteq Sessions
    BY DEF Processing, On
  <1>2. QED
    BY <1>1, FinitelyMany, FS_Subset, FS_CardinalityType

\* The generations there can be of a document.
LEMMA GenerationsOf ==
    ASSUME NEW d \in Documents, NEW n \in Nat, 1 <= n, n <= MaxGenerations[d]
    PROVE  n \in Generations
  BY DocumentBounds DEF Generations

\* The empty session, like the empty row, is well formed.
LEMMA IdleType == IdleSession \in Session
  BY DEF IdleSession, Session, Steps

\* An idle session promises nothing.
LEMMA IdleFits == \A rows : Fits(IdleSession, rows)
  BY DEF Fits, IdleSession, ProcessingSteps

\* The row of a document nobody has stored.
LEMMA AbsentRowOK == AbsentRow \in Row /\ RowOK(AbsentRow)
  BY DocumentBounds DEF AbsentRow, Row, Never, Progress, RowOK

LEMMA InitInvariant == Init => IInv
  <1> SUFFICES ASSUME Init PROVE IInv
    OBVIOUS
  <1>1. TypeOK
    BY AbsentRowOK, IdleType, DocumentBounds DEF Init, TypeOK
  <1>2. RowsOK /\ CitationsOK
    BY AbsentRowOK DEF Init, RowsOK, CitationsOK
  <1>3. SessionsFit
    BY IdleFits DEF Init, SessionsFit
  <1>4. InsertionsOK
    BY DEF Init, InsertionsOK, IdleSession
  <1>5. BudgetOK
    <2> SUFFICES ASSUME NEW d \in Documents
                 PROVE  documents[d].made + Cardinality(Processing(d)) <= MaxGenerations[d]
      BY DEF BudgetOK
    <2>1. Processing(d) = {}
      BY DEF Init, Processing, On, IdleSession
    <2>2. documents[d].made = 0
      BY DEF Init, AbsentRow
    <2>3. QED
      BY <2>1, <2>2, FS_EmptySet, DocumentBounds
  <1>6. QED
    BY <1>1, <1>2, <1>3, <1>4, <1>5 DEF IInv

\* A step keeps the invariant if rows evolve and every session that it changes
\* fits the new rows; insertions and the budget are left to the step.
LEMMA Preserved ==
    ASSUME IInv, NEW rows \in [Documents -> Row], NEW now \in [Sessions -> Session],
           documents' = rows, session' = now, citations' = citations, today' \in 0 .. MaxDay,
           \A d \in Documents : Evolves(documents[d], rows[d]) /\ RowOK(rows[d]),
           \A s \in Sessions : now[s] = session[s] \/ Fits(now[s], rows),
           InsertionsOK', BudgetOK'
    PROVE  IInv'
  <1>1. TypeOK'
    BY DEF IInv, TypeOK
  <1>2. RowsOK'
    BY DEF RowsOK
  <1>3. SessionsFit'
    <2> SUFFICES ASSUME NEW s \in Sessions, now[s] = session[s] PROVE Fits(now[s], rows)
      BY DEF SessionsFit
    <2>1. Fits(session[s], documents)
      BY DEF IInv, SessionsFit
    <2>2. QED
      BY <2>1 DEF Fits, Evolves, ProcessingSteps
  <1>4. CitationsOK'
    <2> SUFFICES ASSUME NEW c \in citations
                 PROVE  rows[c[1]].version # NoVersion /\ ReviewedRow(rows[c[1]])
      BY DEF CitationsOK
    <2>1. c[1] \in Documents
      BY DEF IInv, TypeOK
    <2>2. documents[c[1]].version # NoVersion /\ ReviewedRow(documents[c[1]])
      BY DEF IInv, CitationsOK
    <2>3. QED
      BY <2>1, <2>2 DEF Evolves
  <1>5. QED
    BY <1>1, <1>2, <1>3, <1>4 DEF IInv

\* The budget of a document that is processed by no more sessions than before.
LEMMA BudgetKept ==
    ASSUME IInv, NEW d \in Documents, Processing(d)' \subseteq Processing(d),
           documents'[d].made = documents[d].made
    PROVE  (documents[d].made + Cardinality(Processing(d)) <= MaxGenerations[d])'
  <1>1. documents[d].made \in Nat
    BY DEF IInv, TypeOK, Row
  <1>2. documents[d].made + Cardinality(Processing(d)) <= MaxGenerations[d]
    BY DEF IInv, BudgetOK
  <1>3. /\ Cardinality(Processing(d)') <= Cardinality(Processing(d))
        /\ Cardinality(Processing(d)') \in Nat
    BY ProcessingFinite, FS_Subset, FS_CardinalityType
  <1>4. QED
    BY <1>1, <1>2, <1>3, ProcessingFinite, DocumentBounds

\* A step that changes one session and no row.
LEMMA SessionStep ==
    ASSUME IInv, NEW s \in Sessions, NEW q \in Session,
           session' = [session EXCEPT ![s] = q], UNCHANGED <<documents, citations, today>>,
           Fits(q, documents),
           q.pc = "inserted" =>
               ~Inserting(q.doc) /\ documents[q.doc].chunks \subseteq q.chunks,
           q.pc \in ProcessingSteps =>
               \/ s \in Processing(q.doc)
               \/ documents[q.doc].made + Cardinality(Processing(q.doc)) < MaxGenerations[q.doc]
    PROVE  IInv'
  <1>1. session \in [Sessions -> Session] /\ documents \in [Documents -> Row] /\ today \in 0 .. MaxDay
    BY DEF IInv, TypeOK
  <1>2. InsertionsOK'
    <2>1. ASSUME NEW t \in Sessions, session'[t].pc = "inserted",
                 NEW u \in Sessions, session'[u].pc = "inserted",
                 session'[u].doc = session'[t].doc
          PROVE  u = t
      BY <1>1, <2>1 DEF IInv, InsertionsOK, Inserting, On
    <2>2. ASSUME NEW t \in Sessions, session'[t].pc = "inserted"
          PROVE  documents[session'[t].doc].chunks \subseteq session'[t].chunks
      BY <1>1, <2>2 DEF IInv, InsertionsOK
    <2>3. QED
      BY <2>1, <2>2 DEF InsertionsOK
  <1>3. BudgetOK'
    <2> SUFFICES ASSUME NEW d \in Documents
                 PROVE  (documents[d].made + Cardinality(Processing(d)) <= MaxGenerations[d])'
      BY DEF BudgetOK
    <2>1. CASE Processing(d)' \subseteq Processing(d)
      BY <2>1, BudgetKept
    <2>2. CASE ~(Processing(d)' \subseteq Processing(d))
      <3>1. q.pc \in ProcessingSteps /\ q.doc = d /\ s \notin Processing(d)
        BY <1>1, <2>2 DEF Processing, On, ProcessingSteps
      <3>2. Processing(d)' = Processing(d) \cup {s}
        BY <1>1, <3>1 DEF Processing, On, ProcessingSteps
      <3>3. Cardinality(Processing(d)') = Cardinality(Processing(d)) + 1
        BY <3>1, <3>2, ProcessingFinite, FS_AddElement
      <3>4. documents[d].made \in Nat
        BY <1>1 DEF Row
      <3>5. QED
        BY <3>1, <3>3, <3>4, ProcessingFinite, DocumentBounds
    <2>3. QED
      BY <2>1, <2>2
  <1>4. \A d \in Documents : Evolves(documents[d], documents[d]) /\ RowOK(documents[d])
    BY DEF IInv, RowsOK, Evolves
  <1>5. \A t \in Sessions : session'[t] = session[t] \/ Fits(session'[t], documents)
    BY <1>1
  <1>6. PICK now \in [Sessions -> Session] : now = session'
    BY <1>1
  <1>7. QED
    BY <1>1, <1>2, <1>3, <1>4, <1>5, <1>6, Preserved

\* A step that changes one row but none of its chunks, and ends a session or none.
LEMMA RowStep ==
    ASSUME IInv, NEW d \in Documents, NEW row \in Row,
           documents' = [documents EXCEPT ![d] = row], UNCHANGED <<citations, today>>,
           Evolves(documents[d], row), RowOK(row),
           row.chunks = documents[d].chunks, row.made = documents[d].made,
           session' \in [Sessions -> Session],
           \A s \in Sessions : session'[s] \in {session[s], IdleSession}
    PROVE  IInv'
  <1>1. session \in [Sessions -> Session] /\ documents \in [Documents -> Row] /\ today \in 0 .. MaxDay
    BY DEF IInv, TypeOK
  <1>2. PICK now \in [Sessions -> Session] : now = session'
    OBVIOUS
  <1>3. PICK rows \in [Documents -> Row] : rows = documents'
    BY <1>1
  <1>4. \A e \in Documents :
            rows[e].chunks = documents[e].chunks /\ rows[e].made = documents[e].made
    BY <1>1, <1>3
  <1>5. InsertionsOK'
    <2>1. \A t \in Sessions : session'[t].pc = "inserted" => session'[t] = session[t]
      BY DEF IdleSession
    <2>2. \A t \in Sessions : session[t].pc = "inserted" => session[t].doc \in Documents
      BY DEF IInv, SessionsFit, Fits, ProcessingSteps
    <2>3. QED
      BY <1>3, <1>4, <2>1, <2>2 DEF IInv, InsertionsOK
  <1>6. BudgetOK'
    <2> SUFFICES ASSUME NEW e \in Documents
                 PROVE  (documents[e].made + Cardinality(Processing(e)) <= MaxGenerations[e])'
      BY DEF BudgetOK
    <2>1. Processing(e)' \subseteq Processing(e)
      BY DEF Processing, On, IdleSession
    <2>2. QED
      BY <1>3, <1>4, <2>1, BudgetKept
  <1>7. \A e \in Documents : Evolves(documents[e], rows[e]) /\ RowOK(rows[e])
    BY <1>1, <1>3 DEF IInv, RowsOK, Evolves
  <1>8. \A t \in Sessions : now[t] = session[t] \/ Fits(now[t], rows)
    BY <1>2, IdleFits
  <1>9. QED
    BY <1>1, <1>2, <1>3, <1>5, <1>6, <1>7, <1>8, Preserved

-----------------------------------------------------------------------------
(* Actions that change a session only *)

LEMMA StoringStep ==
    ASSUME IInv, NEW s \in Sessions, NEW u \in Users, NEW v \in Versions, StartStoring(s, u, v)
    PROVE  IInv'
  <1>1. PICK q \in Session :
            /\ q = [IdleSession EXCEPT !.pc = "storing", !.user = u, !.version = v]
    BY DEF IdleSession, Session, Steps
  <1>2. q.pc = "storing" /\ q.user = u /\ q.version = v
    BY <1>1 DEF IdleSession
  <1>3. Fits(q, documents)
    BY <1>2 DEF Fits, ProcessingSteps
  <1>4. QED
    BY <1>1, <1>2, <1>3, SessionStep DEF StartStoring, ProcessingSteps

LEMMA RetryStep ==
    ASSUME IInv, NEW s \in Sessions, NEW d \in Documents, StartRetry(s, d)
    PROVE  IInv'
  <1>1. PICK q \in Session : q = [IdleSession EXCEPT !.pc = "extracting", !.doc = d]
    BY DEF IdleSession, Session, Steps
  <1>2. q.pc = "extracting" /\ q.doc = d
    BY <1>1 DEF IdleSession
  <1>3. Fits(q, documents)
    BY <1>2 DEF StartRetry, Stored, Fits, ProcessingSteps
  <1>4. QED
    BY <1>1, <1>2, <1>3, SessionStep DEF StartRetry

\* The next step of a processing whose session keeps its document.
LEMMA ProcessingStep ==
    ASSUME IInv, NEW s \in Sessions, session[s].pc \in ProcessingSteps,
           NEW pc \in {"deleting", "embedding", "inserted"}, NEW gens \in SUBSET Generations,
           session' = [session EXCEPT ![s] = [@ EXCEPT !.pc = pc, !.chunks = gens]],
           UNCHANGED <<documents, citations, today>>,
           pc = "inserted" => /\ ~Inserting(session[s].doc)
                              /\ documents[session[s].doc].chunks \subseteq gens
    PROVE  IInv'
  <1>1. session[s] \in Session
    BY DEF IInv, TypeOK
  <1>2. PICK q \in Session : q = [session[s] EXCEPT !.pc = pc, !.chunks = gens]
    BY <1>1 DEF Session, Steps
  <1>3. q.pc = pc /\ q.chunks = gens /\ q.doc = session[s].doc
    BY <1>1, <1>2 DEF Session
  <1>4. Fits(session[s], documents)
    BY DEF IInv, SessionsFit
  <1>5. Fits(q, documents)
    BY <1>3, <1>4 DEF Fits, ProcessingSteps
  <1>6. s \in Processing(q.doc)
    BY <1>3 DEF Processing, On, ProcessingSteps
  <1>7. session' = [session EXCEPT ![s] = q]
    BY <1>2
  <1>8. QED
    BY <1>3, <1>5, <1>6, <1>7, SessionStep

LEMMA DeleteStep ==
    ASSUME IInv, NEW s \in Sessions, StartDelete(s)
    PROVE  IInv'
  <1>1. session[s].pc \in ProcessingSteps
    BY DEF StartDelete, At, ProcessingSteps
  <1>2. session \in [Sessions -> Session] /\ Fits(session[s], documents)
    BY DEF IInv, TypeOK, SessionsFit
  <1>3. documents[session[s].doc].chunks \in SUBSET Generations
    BY <1>1, <1>2 DEF Fits, IInv, TypeOK, Row
  <1>4. session' = [session EXCEPT ![s] =
                [@ EXCEPT !.pc = "deleting", !.chunks = documents[session[s].doc].chunks]]
    BY <1>2 DEF StartDelete, Session
  <1>5. QED
    BY <1>1, <1>3, <1>4, ProcessingStep DEF StartDelete

LEMMA DeletedStep ==
    ASSUME IInv, NEW s \in Sessions, DeleteChunks(s)
    PROVE  IInv'
  <1>1. session[s].pc \in ProcessingSteps
    BY DEF DeleteChunks, At, ProcessingSteps
  <1>2. session \in [Sessions -> Session]
    BY DEF IInv, TypeOK
  <1>3. PICK gens \in SUBSET Generations :
            gens = session[s].chunks \cap documents[session[s].doc].chunks
    BY <1>2 DEF Session
  <1>4. session' = [session EXCEPT ![s] = [@ EXCEPT !.pc = "embedding", !.chunks = gens]]
    BY <1>2, <1>3 DEF DeleteChunks, Session
  <1>5. QED
    BY <1>1, <1>4, ProcessingStep DEF DeleteChunks

\* A session that ends, whatever it did, keeps the invariant.
LEMMA EndStep ==
    ASSUME IInv, NEW s \in Sessions, Ends(s), UNCHANGED <<documents, citations, today>>
    PROVE  IInv'
  <1>1. IdleSession.pc = "idle"
    BY DEF IdleSession
  <1>2. QED
    BY <1>1, IdleType, IdleFits, SessionStep DEF Ends, ProcessingSteps

\* No chunk another processing has left is there when one inserts.
LEMMA InsertStep ==
    ASSUME IInv, NEW s \in Sessions, InsertChunks(s)
    PROVE  IInv'
  <1>1. CASE InsertConflicts(s)
    BY <1>1, EndStep DEF InsertChunks
  <1>2. CASE ~InsertConflicts(s)
    <2>1. session[s].pc \in ProcessingSteps
      BY DEF InsertChunks, At, ProcessingSteps
    <2>2. session \in [Sessions -> Session]
      BY DEF IInv, TypeOK
    <2>3. PICK gens \in SUBSET Generations : gens = session[s].chunks
      BY <2>2 DEF Session
    <2>4. session' = [session EXCEPT ![s] = [@ EXCEPT !.pc = "inserted", !.chunks = gens]]
      BY <1>2, <2>2, <2>3 DEF InsertChunks, Moves, Session
    <2>5. documents[session[s].doc].chunks \subseteq gens
      BY <1>2, <2>3 DEF InsertConflicts, SeqTaken
    <2>6. QED
      BY <2>1, <2>4, <2>5, ProcessingStep DEF InsertChunks
  <1>3. QED
    BY <1>1, <1>2

LEMMA ReindexStep ==
    ASSUME IInv, NEW s \in Sessions, NEW d \in Documents, StartReindex(s, d)
    PROVE  IInv'
  <1>1. documents[d] \in Row /\ RowOK(documents[d])
    BY DEF IInv, TypeOK, RowsOK
  <1>2. PICK q \in Session :
            q = [IdleSession EXCEPT !.pc = "reindexing", !.doc = d, !.chunks = documents[d].chunks]
    BY <1>1 DEF IdleSession, Session, Steps, Row
  <1>3. q.pc = "reindexing" /\ q.doc = d
    BY <1>2 DEF IdleSession
  <1>4. documents[d].version # NoVersion
    BY <1>1 DEF StartReindex, RowOK
  <1>5. Fits(q, documents)
    BY <1>3, <1>4 DEF StartReindex, Fits, ProcessingSteps
  <1>6. QED
    BY <1>2, <1>3, <1>5, SessionStep DEF StartReindex, ProcessingSteps

LEMMA RetrieveStep ==
    ASSUME IInv, NEW s \in Sessions, NEW d \in Documents, Retrieve(s, d)
    PROVE  IInv'
  <1>1. documents[d] \in Row /\ RowOK(documents[d])
    BY DEF IInv, TypeOK, RowsOK
  <1>2. PICK g \in documents[d].chunks :
            session' = [session EXCEPT ![s] =
                [IdleSession EXCEPT !.pc = "drafting", !.doc = d, !.chunks = {g}]]
    BY DEF Retrieve
  <1>3. PICK q \in Session :
            q = [IdleSession EXCEPT !.pc = "drafting", !.doc = d, !.chunks = {g}]
    BY <1>1 DEF IdleSession, Session, Steps, Row
  <1>4. q.pc = "drafting" /\ q.doc = d
    BY <1>3 DEF IdleSession
  <1>5. documents[d].version # NoVersion /\ ReviewedRow(documents[d])
    BY <1>1 DEF Retrieve, InForce, RowOK
  <1>6. Fits(q, documents)
    BY <1>4, <1>5 DEF Fits, ProcessingSteps
  <1>7. QED
    BY <1>2, <1>3, <1>4, <1>6, SessionStep DEF Retrieve, ProcessingSteps

-----------------------------------------------------------------------------
(* Actions that change a row and leave its chunks *)

LEMMA FailureStep ==
    ASSUME IInv, NEW s \in Sessions, ExtractionFails(s)
    PROVE  IInv'
  <1>1. session \in [Sessions -> Session] /\ documents \in [Documents -> Row]
    BY DEF IInv, TypeOK
  <1>2. PICK d \in Documents : d = session[s].doc
    BY DEF IInv, SessionsFit, Fits, ExtractionFails, At, ProcessingSteps
  <1>3. PICK row \in Row : row = [documents[d] EXCEPT !.status = "failed"]
    BY <1>1 DEF Row, Progress
  <1>4. documents' = [documents EXCEPT ![d] = row]
    BY <1>2, <1>3 DEF ExtractionFails
  <1>5. RowOK(documents[d])
    BY DEF IInv, RowsOK
  <1>6. Evolves(documents[d], row) /\ RowOK(row)
    BY <1>1, <1>3, <1>5 DEF Evolves, RowOK, ReviewedRow, Row
  <1>7. row.chunks = documents[d].chunks /\ row.made = documents[d].made
    BY <1>1, <1>3 DEF Row
  <1>8. QED
    BY <1>1, <1>4, <1>6, <1>7, IdleType, RowStep DEF ExtractionFails, Ends

LEMMA ReindexedStep ==
    ASSUME IInv, NEW s \in Sessions, CommitReindex(s)
    PROVE  IInv'
  <1>1. session \in [Sessions -> Session] /\ documents \in [Documents -> Row]
    BY DEF IInv, TypeOK
  <1>2. PICK d \in Documents : d = session[s].doc /\ documents[d].chunks # {}
    BY DEF IInv, SessionsFit, Fits, CommitReindex, At
  <1>3. PICK row \in Row : row = [documents[d] EXCEPT !.status = "indexed"]
    BY <1>1 DEF Row, Progress
  <1>4. documents' = [documents EXCEPT ![d] = row]
    BY <1>2, <1>3 DEF CommitReindex
  <1>5. RowOK(documents[d])
    BY DEF IInv, RowsOK
  <1>6. Evolves(documents[d], row) /\ RowOK(row)
    BY <1>1, <1>2, <1>3, <1>5 DEF Evolves, RowOK, ReviewedRow, Row
  <1>7. row.chunks = documents[d].chunks /\ row.made = documents[d].made
    BY <1>1, <1>3 DEF Row
  <1>8. QED
    BY <1>1, <1>4, <1>6, <1>7, IdleType, RowStep DEF CommitReindex, Ends

LEMMA ApproveStep ==
    ASSUME IInv, NEW u \in Users, NEW d \in Documents, Approve(u, d)
    PROVE  IInv'
  <1>1. session \in [Sessions -> Session] /\ documents \in [Documents -> Row]
    BY DEF IInv, TypeOK
  <1>2. PICK row \in Row : row = [documents[d] EXCEPT !.is_approved = TRUE, !.approved_by = u]
    BY <1>1 DEF Row
  <1>3. documents' = [documents EXCEPT ![d] = row]
    BY <1>2 DEF Approve
  <1>4. RowOK(documents[d])
    BY DEF IInv, RowsOK
  <1>5. documents[d].chunks # {} /\ documents[d].created_by # u /\ u # NoUser
    BY DocumentNulls DEF Approve, MayApprove, Approvable
  <1>6. Evolves(documents[d], row) /\ RowOK(row)
    BY <1>1, <1>2, <1>4, <1>5 DEF Evolves, RowOK, ReviewedRow, Row
  <1>7. row.chunks = documents[d].chunks /\ row.made = documents[d].made
    BY <1>1, <1>2 DEF Row
  <1>8. QED
    BY <1>1, <1>3, <1>6, <1>7, RowStep DEF Approve

LEMMA RetireStep ==
    ASSUME IInv, NEW d \in Documents, Retire(d)
    PROVE  IInv'
  <1>1. session \in [Sessions -> Session] /\ documents \in [Documents -> Row]
    BY DEF IInv, TypeOK
  <1>2. today \in 0 .. Never
    BY DocumentBounds DEF IInv, TypeOK, Never
  <1>3. PICK row \in Row :
            row = [documents[d] EXCEPT !.is_approved = FALSE, !.effective_to = today]
    BY <1>1, <1>2 DEF Row
  <1>4. documents' = [documents EXCEPT ![d] = row]
    BY <1>3 DEF Retire, LastDay, EndsToday
  <1>5. RowOK(documents[d])
    BY DEF IInv, RowsOK
  <1>6. Evolves(documents[d], row) /\ RowOK(row)
    BY <1>1, <1>3, <1>5 DEF Evolves, RowOK, ReviewedRow, Row
  <1>7. row.chunks = documents[d].chunks /\ row.made = documents[d].made
    BY <1>1, <1>3 DEF Row
  <1>8. QED
    BY <1>1, <1>4, <1>6, <1>7, RowStep DEF Retire

-----------------------------------------------------------------------------
(* Actions that store a document or its chunks *)

\* Nobody works on a document that is not stored.
LEMMA UnstoredIsFree ==
    ASSUME IInv, NEW d \in Documents, d \notin Stored
    PROVE  /\ documents[d].version = NoVersion /\ documents[d].made = 0
           /\ documents[d].chunks = {} /\ ~documents[d].is_approved
           /\ Processing(d) = {}
           /\ \A s \in Sessions :
                 session[s].pc \in ProcessingSteps \cup {"reindexing", "drafting"}
                     => session[s].doc # d
  <1>1. documents[d].version = NoVersion
    BY DEF Stored
  <1>2. RowOK(documents[d]) /\ \A s \in Sessions : Fits(session[s], documents)
    BY DEF IInv, RowsOK, SessionsFit
  <1>3. documents[d].made = 0 /\ documents[d].chunks = {} /\ ~documents[d].is_approved
    BY <1>1, <1>2 DEF RowOK
  <1>4. \A s \in Sessions :
            session[s].pc \in ProcessingSteps \cup {"reindexing", "drafting"}
                => session[s].doc # d
    BY <1>1, <1>2 DEF Fits
  <1>5. Processing(d) = {}
    BY <1>4 DEF Processing, On, ProcessingSteps
  <1>6. QED
    BY <1>1, <1>3, <1>4, <1>5

\* The row a request stores, without its chunks.
LEMMA NewRowOK ==
    ASSUME IInv, NEW s \in Sessions, At(s, "storing"), NEW w \in Windows
    PROVE  /\ NewRow(s, w) \in Row
           /\ NewRow(s, w).version # NoVersion
           /\ NewRow(s, w).chunks = {} /\ NewRow(s, w).made = 0
           /\ NewRow(s, w).status = "processing" /\ ~NewRow(s, w).is_approved
  <1>1. session[s].version \in Versions /\ session[s].user \in Users
    BY DEF IInv, SessionsFit, Fits, At
  <1>2. w[1] \in 0 .. MaxDay /\ w[2] \in 0 .. Never
    BY WindowsAreOpen, DocumentBounds DEF Never
  <1>3. QED
    BY <1>1, <1>2, AbsentRowOK, DocumentNulls DEF NewRow, AbsentRow, Row

LEMMA TypedStep ==
    ASSUME IInv, NEW s \in Sessions, NEW d \in Documents, NEW w \in Windows, CommitTyped(s, d, w)
    PROVE  IInv'
  <1>1. session \in [Sessions -> Session] /\ documents \in [Documents -> Row] /\ today \in 0 .. MaxDay
    BY DEF IInv, TypeOK
  <1>2. d \notin Stored /\ At(s, "storing")
    BY DEF CommitTyped
  <1>3. 1 \in Generations
    BY GenerationsOf, DocumentBounds
  <1>4. PICK row \in Row :
            row = [NewRow(s, w) EXCEPT !.chunks = {1}, !.made = 1, !.status = "indexed"]
    BY <1>2, <1>3, NewRowOK DEF Row, Progress
  <1>5. /\ row.chunks = {1} /\ row.made = 1
        /\ row.version # NoVersion /\ ~row.is_approved
    BY <1>2, <1>4, NewRowOK DEF Row
  <1>6. RowOK(row) /\ Evolves(documents[d], row)
    BY <1>2, <1>5, UnstoredIsFree DEF RowOK, Evolves
  <1>7. PICK rows \in [Documents -> Row] : rows = documents' /\ rows = [documents EXCEPT ![d] = row]
    BY <1>1, <1>4 DEF CommitTyped
  <1>8. PICK now \in [Sessions -> Session] :
            now = session' /\ now = [session EXCEPT ![s] = IdleSession]
    BY <1>1, IdleType DEF CommitTyped, Ends
  <1>9. \A t \in Sessions : now[t] \in {session[t], IdleSession}
    BY <1>1, <1>8
  <1>10. InsertionsOK'
    <2>1. \A t \in Sessions : now[t].pc = "inserted" =>
              now[t] = session[t] /\ now[t].doc # d /\ now[t].doc \in Documents
      BY <1>2, <1>9, UnstoredIsFree
         DEF IdleSession, ProcessingSteps, IInv, SessionsFit, Fits
    <2>2. QED
      BY <1>1, <1>7, <1>8, <2>1 DEF IInv, InsertionsOK
  <1>11. BudgetOK'
    <2> SUFFICES ASSUME NEW e \in Documents
                 PROVE  (documents[e].made + Cardinality(Processing(e)) <= MaxGenerations[e])'
      BY DEF BudgetOK
    <2>1. Processing(e)' \subseteq Processing(e)
      BY <1>8, <1>9 DEF Processing, On, IdleSession
    <2>2. CASE e # d
      BY <1>1, <1>7, <2>1, <2>2, BudgetKept
    <2>3. CASE e = d
      <3>1. Processing(d)' = {}
        BY <1>2, <2>1, <2>3, UnstoredIsFree
      <3>2. documents'[d].made = 1
        BY <1>1, <1>5, <1>7
      <3>3. QED
        BY <2>3, <3>1, <3>2, FS_EmptySet, DocumentBounds
    <2>4. QED
      BY <2>2, <2>3
  <1>12. \A e \in Documents : Evolves(documents[e], rows[e]) /\ RowOK(rows[e])
    BY <1>1, <1>6, <1>7 DEF IInv, RowsOK, Evolves
  <1>13. QED
    BY <1>1, <1>7, <1>8, <1>9, <1>10, <1>11, <1>12, IdleFits, Preserved DEF CommitTyped

LEMMA UploadStep ==
    ASSUME IInv, NEW s \in Sessions, NEW d \in Documents, NEW w \in Windows, CommitUpload(s, d, w)
    PROVE  IInv'
  <1>1. session \in [Sessions -> Session] /\ documents \in [Documents -> Row] /\ today \in 0 .. MaxDay
    BY DEF IInv, TypeOK
  <1>2. d \notin Stored /\ At(s, "storing")
    BY DEF CommitUpload
  <1>3. PICK row \in Row : row = NewRow(s, w)
    BY <1>2, NewRowOK
  <1>4. RowOK(row) /\ Evolves(documents[d], row)
    BY <1>2, <1>3, NewRowOK, UnstoredIsFree DEF RowOK, Evolves
  <1>5. PICK rows \in [Documents -> Row] : rows = documents' /\ rows = [documents EXCEPT ![d] = row]
    BY <1>1, <1>3 DEF CommitUpload
  <1>6. PICK q \in Session : q = [IdleSession EXCEPT !.pc = "extracting", !.doc = d]
    BY DEF IdleSession, Session, Steps
  <1>7. q.pc = "extracting" /\ q.doc = d
    BY <1>6 DEF IdleSession
  <1>8. PICK now \in [Sessions -> Session] : now = session' /\ now = [session EXCEPT ![s] = q]
    BY <1>1, <1>6 DEF CommitUpload
  <1>9. \A t \in Sessions : now[t] \in {session[t], q}
    BY <1>1, <1>8
  <1>10. Fits(q, rows)
    BY <1>1, <1>2, <1>3, <1>5, <1>7, NewRowOK DEF Fits, ProcessingSteps
  <1>11. InsertionsOK'
    <2>1. \A t \in Sessions : now[t].pc = "inserted" =>
              now[t] = session[t] /\ now[t].doc # d /\ now[t].doc \in Documents
      BY <1>2, <1>7, <1>9, UnstoredIsFree
         DEF ProcessingSteps, IInv, SessionsFit, Fits
    <2>2. QED
      BY <1>1, <1>5, <1>8, <2>1 DEF IInv, InsertionsOK
  <1>12. BudgetOK'
    <2> SUFFICES ASSUME NEW e \in Documents
                 PROVE  (documents[e].made + Cardinality(Processing(e)) <= MaxGenerations[e])'
      BY DEF BudgetOK
    <2>1. CASE e # d
      <3>1. Processing(e)' \subseteq Processing(e)
        BY <1>7, <1>8, <1>9, <2>1 DEF Processing, On
      <3>2. QED
        BY <1>1, <1>5, <2>1, <3>1, BudgetKept
    <2>2. CASE e = d
      <3>1. Processing(d)' \subseteq {s}
        BY <1>1, <1>2, <1>8, UnstoredIsFree DEF Processing, On, ProcessingSteps
      <3>2. Cardinality(Processing(d)') \in Nat /\ Cardinality(Processing(d)') <= 1
        <4>1. IsFiniteSet({s}) /\ Cardinality({s}) = 1
          BY FS_Singleton
        <4>2. IsFiniteSet(Processing(d)') /\ Cardinality(Processing(d)') <= Cardinality({s})
          BY <3>1, <4>1, FS_Subset
        <4>3. QED
          BY <4>1, <4>2, FS_CardinalityType
      <3>3. documents'[d].made = 0
        BY <1>1, <1>2, <1>3, <1>5, NewRowOK
      <3>4. QED
        BY <2>2, <3>2, <3>3, DocumentBounds
    <2>3. QED
      BY <2>1, <2>2
  <1>13. \A e \in Documents : Evolves(documents[e], rows[e]) /\ RowOK(rows[e])
    BY <1>1, <1>4, <1>5 DEF IInv, RowsOK, Evolves
  <1>14. QED
    BY <1>1, <1>5, <1>8, <1>9, <1>10, <1>11, <1>12, <1>13, Preserved DEF CommitUpload

\* A row with new chunks is well formed.
LEMMA IndexedRowType ==
    ASSUME NEW old \in Row, NEW g \in Generations, NEW n \in Nat
    PROVE  [old EXCEPT !.chunks = {g}, !.made = n, !.status = "indexed"] \in Row
  BY DEF Row, Progress

\* The chunks a processing commits replace all there were.
LEMMA ChunksStep ==
    ASSUME IInv, NEW s \in Sessions, CommitChunks(s)
    PROVE  IInv'
  <1>1. session \in [Sessions -> Session] /\ documents \in [Documents -> Row] /\ today \in 0 .. MaxDay
    BY DEF IInv, TypeOK
  <1>2. session[s].pc = "inserted"
    BY DEF CommitChunks, At
  <1>3. PICK d \in Documents : d = session[s].doc /\ documents[d].version # NoVersion
    BY <1>2 DEF IInv, SessionsFit, Fits, ProcessingSteps
  <1>4. RowOK(documents[d])
    BY DEF IInv, RowsOK
  <1>5. documents[d].chunks \ session[s].chunks = {}
    BY <1>2, <1>3 DEF IInv, InsertionsOK
  <1>6. s \in Processing(d)
    BY <1>2, <1>3 DEF Processing, On
  <1>7. PICK n \in Nat : n = documents[d].made
    BY <1>1 DEF Row
  <1>8. /\ n + Cardinality(Processing(d)) <= MaxGenerations[d]
        /\ Cardinality(Processing(d) \ {s}) = Cardinality(Processing(d)) - 1
        /\ Cardinality(Processing(d)) \in Nat /\ Cardinality(Processing(d) \ {s}) \in Nat
    BY <1>6, <1>7, ProcessingFinite, FS_RemoveElement, FS_CardinalityType DEF IInv, BudgetOK
  <1>9. n + 1 \in Generations
    <2>1. n + 1 \in Nat /\ 1 <= n + 1 /\ MaxGenerations[d] \in Nat
      BY DocumentBounds
    <2>2. n + 1 <= MaxGenerations[d]
      BY <1>8, <2>1
    <2>3. QED
      BY <2>1, <2>2, GenerationsOf
  <1>10. PICK row \in Row :
            row = [documents[d] EXCEPT !.chunks = {n + 1}, !.made = n + 1, !.status = "indexed"]
    <2>1. documents[d] \in Row /\ n + 1 \in Nat
      BY <1>1
    <2>2. QED
      BY <1>9, <2>1, IndexedRowType
  <1>11. documents' = [documents EXCEPT ![d] = row]
    BY <1>1, <1>3, <1>5, <1>7, <1>10 DEF CommitChunks, Row
  <1>12. RowOK(row) /\ Evolves(documents[d], row)
    BY <1>1, <1>3, <1>4, <1>10 DEF RowOK, Evolves, ReviewedRow, Row
  <1>13. PICK rows \in [Documents -> Row] : rows = documents' /\ rows = [documents EXCEPT ![d] = row]
    BY <1>1, <1>11
  <1>14. PICK now \in [Sessions -> Session] :
            now = session' /\ now = [session EXCEPT ![s] = IdleSession]
    BY <1>1, IdleType DEF CommitChunks, Ends
  <1>15. \A t \in Sessions : now[t] \in {session[t], IdleSession}
    BY <1>1, <1>14
  <1>16. InsertionsOK'
    <2>1. \A t \in Sessions : now[t].pc = "inserted" =>
              now[t] = session[t] /\ now[t].doc # d /\ now[t].doc \in Documents
      <3> SUFFICES ASSUME NEW t \in Sessions, now[t].pc = "inserted"
                   PROVE  now[t] = session[t] /\ now[t].doc # d /\ now[t].doc \in Documents
        OBVIOUS
      <3>1. t # s /\ now[t] = session[t]
        BY <1>1, <1>14 DEF IdleSession
      <3>2. now[t].doc # d
        BY <1>2, <1>3, <3>1 DEF IInv, InsertionsOK
      <3>3. now[t].doc \in Documents
        BY <3>1 DEF IInv, SessionsFit, Fits, ProcessingSteps
      <3>4. QED
        BY <3>1, <3>2, <3>3
    <2>2. QED
      BY <1>1, <1>13, <1>14, <2>1 DEF IInv, InsertionsOK
  <1>17. BudgetOK'
    <2> SUFFICES ASSUME NEW e \in Documents
                 PROVE  (documents[e].made + Cardinality(Processing(e)) <= MaxGenerations[e])'
      BY DEF BudgetOK
    <2>1. Processing(e)' \subseteq Processing(e)
      BY <1>14, <1>15 DEF Processing, On, IdleSession
    <2>2. CASE e # d
      BY <1>1, <1>13, <2>1, <2>2, BudgetKept
    <2>3. CASE e = d
      <3>1. Processing(d)' = Processing(d) \ {s}
        BY <1>1, <1>14 DEF Processing, On, IdleSession
      <3>2. documents'[d].made = n + 1
        BY <1>1, <1>10, <1>13 DEF Row
      <3>3. QED
        BY <1>8, <2>3, <3>1, <3>2, DocumentBounds
    <2>4. QED
      BY <2>2, <2>3
  <1>18. \A e \in Documents : Evolves(documents[e], rows[e]) /\ RowOK(rows[e])
    <2>1. Evolves(documents[d], rows[d]) /\ RowOK(rows[d])
      BY <1>1, <1>12, <1>13
    <2>2. \A e \in Documents \ {d} : rows[e] = documents[e]
      BY <1>1, <1>13
    <2>3. \A e \in Documents : Evolves(documents[e], documents[e]) /\ RowOK(documents[e])
      BY DEF IInv, RowsOK, Evolves
    <2>4. QED
      BY <2>1, <2>2, <2>3
  <1>19. \A t \in Sessions : now[t] = session[t] \/ Fits(now[t], rows)
    BY <1>15, IdleFits
  <1>20. citations' = citations /\ today' \in 0 .. MaxDay
    BY <1>1 DEF CommitChunks
  <1>21. QED
    BY <1>13, <1>14, <1>16, <1>17, <1>18, <1>19, <1>20, Preserved

-----------------------------------------------------------------------------
(* The other actions *)

\* A citation is of a document that was reviewed when its chunk was found.
LEMMA DraftStep ==
    ASSUME IInv, NEW s \in Sessions, CommitDraft(s)
    PROVE  IInv'
  <1>1. session \in [Sessions -> Session] /\ Fits(session[s], documents)
    BY DEF IInv, TypeOK, SessionsFit
  <1>2. PICK d \in Documents : /\ d = session[s].doc
                               /\ documents[d].version # NoVersion
                               /\ ReviewedRow(documents[d])
    BY <1>1 DEF CommitDraft, At, Fits
  <1>3. session[s].chunks \subseteq Generations
    BY <1>1 DEF Session
  <1>4. PICK new \in SUBSET (Documents \X Generations) :
            citations' = citations \cup new /\ \A c \in new : c[1] = d
    <2>1. /\ {<<d, g>> : g \in session[s].chunks} \in SUBSET (Documents \X Generations)
          /\ \A c \in {<<d, g>> : g \in session[s].chunks} : c[1] = d
      BY <1>3
    <2>2. citations' = citations \cup {<<d, g>> : g \in session[s].chunks}
      BY <1>2 DEF CommitDraft
    <2>3. QED
      BY <2>1, <2>2
  <1>5. TypeOK'
    BY <1>1, <1>4, IdleType DEF CommitDraft, Ends, IInv, TypeOK
  <1>6. CitationsOK'
    BY <1>2, <1>4 DEF CommitDraft, IInv, CitationsOK
  <1>7. RowsOK'
    BY DEF CommitDraft, IInv, RowsOK
  <1>8. SessionsFit'
    BY <1>1, IdleFits DEF CommitDraft, Ends, IInv, SessionsFit
  <1>9. InsertionsOK'
    BY <1>1 DEF CommitDraft, Ends, IInv, InsertionsOK, IdleSession
  <1>10. BudgetOK'
    <2> SUFFICES ASSUME NEW e \in Documents
                 PROVE  (documents[e].made + Cardinality(Processing(e)) <= MaxGenerations[e])'
      BY DEF BudgetOK
    <2>1. Processing(e)' \subseteq Processing(e)
      BY <1>1 DEF CommitDraft, Ends, Processing, On, IdleSession
    <2>2. QED
      BY <2>1, BudgetKept DEF CommitDraft
  <1>11. QED
    BY <1>5, <1>6, <1>7, <1>8, <1>9, <1>10 DEF IInv

\* A day passes, or nothing happens at all.
LEMMA QuietStep ==
    ASSUME IInv, UNCHANGED <<documents, citations, session>>, today' \in 0 .. MaxDay
    PROVE  IInv'
  <1>1. TypeOK'
    BY DEF IInv, TypeOK
  <1>2. RowsOK' /\ SessionsFit' /\ InsertionsOK' /\ CitationsOK'
    BY DEF IInv, RowsOK, SessionsFit, InsertionsOK, CitationsOK
  <1>3. BudgetOK'
    BY DEF IInv, BudgetOK, Processing, On
  <1>4. QED
    BY <1>1, <1>2, <1>3 DEF IInv

-----------------------------------------------------------------------------
(* The theorems *)

LEMMA SessionActions ==
    ASSUME IInv, NEW s \in Sessions, Step(s)
    PROVE  IInv'
  <1>1. GiveUp(s) => IInv'
    BY EndStep DEF GiveUp
  <1>2. QED
    BY <1>1, FailureStep, DeleteStep, DeletedStep, InsertStep, ChunksStep, ReindexedStep,
       DraftStep DEF Step

LEMMA InvariantStep == IInv /\ [Next]_vars => IInv'
  <1> SUFFICES ASSUME IInv, [Next]_vars PROVE IInv'
    OBVIOUS
  <1>1. ASSUME NEW s \in Sessions, NEW u \in Users, NEW v \in Versions, StartStoring(s, u, v)
        PROVE  IInv'
    BY <1>1, StoringStep
  <1>2. ASSUME NEW s \in Sessions, NEW d \in Documents, NEW w \in Windows,
               CommitTyped(s, d, w) \/ CommitUpload(s, d, w)
        PROVE  IInv'
    BY <1>2, TypedStep, UploadStep
  <1>3. ASSUME NEW s \in Sessions, NEW d \in Documents,
               StartRetry(s, d) \/ StartReindex(s, d) \/ Retrieve(s, d)
        PROVE  IInv'
    BY <1>3, RetryStep, ReindexStep, RetrieveStep
  <1>4. ASSUME NEW s \in Sessions, Step(s) PROVE IInv'
    BY <1>4, SessionActions
  <1>5. ASSUME NEW u \in Users, NEW d \in Documents, Approve(u, d) PROVE IInv'
    BY <1>5, ApproveStep
  <1>6. ASSUME NEW d \in Documents, Retire(d) PROVE IInv'
    BY <1>6, RetireStep
  <1>7. CASE NextDay
    <2>1. today' \in 0 .. MaxDay
      BY <1>7, DocumentBounds DEF NextDay, IInv, TypeOK
    <2>2. QED
      BY <1>7, <2>1, QuietStep DEF NextDay
  <1>8. CASE UNCHANGED vars
    BY <1>8, QuietStep DEF vars, IInv, TypeOK
  <1>9. QED
    BY <1>1, <1>2, <1>3, <1>4, <1>5, <1>6, <1>7, <1>8 DEF Next

LEMMA Invariance == Spec => []IInv
  BY InitInvariant, InvariantStep, PTL DEF Spec

\* The type invariant; that generations stay within their bound is what needs
\* the budget of processings under way.
THEOREM DocumentsTypeCorrect == Spec => []TypeOK
  <1>1. IInv => TypeOK
    BY DEF IInv
  <1>2. QED
    BY <1>1, Invariance, PTL

\* A reader of a document's chunks finds those of one processing, however many
\* sessions process it at a time.
THEOREM OneChunkSetHolds == Spec => []OneChunkSet
  <1>1. ASSUME IInv PROVE OneChunkSet
    <2> SUFFICES ASSUME NEW d \in Documents PROVE Cardinality(documents[d].chunks) <= 1
      BY DEF OneChunkSet
    <2>1. \A g, h \in documents[d].chunks : g = h
      BY <1>1 DEF IInv, RowsOK, RowOK
    <2>2. CASE documents[d].chunks = {}
      BY <2>2, FS_EmptySet
    <2>3. CASE documents[d].chunks # {}
      <3>1. PICK g : documents[d].chunks = {g}
        BY <2>1, <2>3
      <3>2. QED
        BY <3>1, FS_Singleton
    <2>4. QED
      BY <2>2, <2>3
  <1>2. QED
    BY <1>1, Invariance, PTL

\* An approved document, and one that is shown as indexed, has its text.
THEOREM StatusHasTextHolds == Spec => []StatusHasText
  <1>1. IInv => StatusHasText
    BY DEF IInv, RowsOK, RowOK, StatusHasText, Stored
  <1>2. QED
    BY <1>1, Invariance, PTL

\* Nothing is cited that nobody but its creator has approved.
THEOREM CitedSourcesHold == Spec => []CitedSourcesWereReviewed
  <1>1. IInv => CitedSourcesWereReviewed
    BY DEF IInv, CitationsOK, ReviewedRow, CitedSourcesWereReviewed
  <1>2. QED
    BY <1>1, Invariance, PTL

-----------------------------------------------------------------------------
(* Settled citations *)

\* Nobody processes d, and generation g of it is there and cited.
SettledCitation(d, g) ==
    <<d, g>> \in citations /\ Resolves(d, g) /\ Processing(d) = {}

\* A citation keeps others from starting to process its document.
LEMMA CitationSettles ==
    ASSUME IInv, NEW d \in Documents, NEW g \in Generations, SettledCitation(d, g), [Next]_vars
    PROVE  SettledCitation(d, g)'
  <1>1. /\ session \in [Sessions -> Session] /\ documents \in [Documents -> Row]
        /\ d \in Stored /\ ~MayRetry(d)
    BY DEF IInv, TypeOK, CitationsOK, SettledCitation, Stored, MayRetry, Reprocessable, CitedOf
  <1>2. \A s \in Sessions : session[s].pc \in ProcessingSteps => session[s].doc # d
    BY DEF SettledCitation, Processing, On, ProcessingSteps
  <1>3. \A s \in Sessions : session'[s].pc \in ProcessingSteps /\ session'[s].doc = d
                                => Processing(d) # {}
    <2> SUFFICES ASSUME NEW s \in Sessions,
                        session'[s].pc \in ProcessingSteps /\ session'[s].doc = d
                 PROVE  session[s].pc \in ProcessingSteps /\ session[s].doc = d
      BY <1>2
    <2>1. CASE session'[s] = session[s]
      BY <2>1
    <2>2. CASE \E x \in Sessions : Step(x)
      <3>1. PICK x \in Sessions : Step(x)
        BY <2>2
      <3>2. CASE \/ ExtractionFails(x) \/ CommitChunks(x) \/ CommitReindex(x)
                 \/ CommitDraft(x) \/ GiveUp(x)
        BY <1>1, <3>2
           DEF ExtractionFails, CommitChunks, CommitReindex, CommitDraft, GiveUp, Ends,
               IdleSession, ProcessingSteps
      <3>3. CASE StartDelete(x) \/ DeleteChunks(x) \/ InsertChunks(x)
        BY <1>1, <3>3
           DEF StartDelete, DeleteChunks, InsertChunks, At, Moves, Ends, Session,
               IdleSession, ProcessingSteps
      <3>4. QED
        BY <3>1, <3>2, <3>3 DEF Step
    <2>3. ASSUME NEW x \in Sessions, NEW u \in Users, NEW v \in Versions, StartStoring(x, u, v)
          PROVE  session[s].pc \in ProcessingSteps /\ session[s].doc = d
      BY <1>1, <2>3 DEF StartStoring, IdleSession, ProcessingSteps
    <2>4. ASSUME NEW x \in Sessions, NEW e \in Documents, NEW w \in Windows,
                 CommitTyped(x, e, w) \/ CommitUpload(x, e, w)
          PROVE  session[s].pc \in ProcessingSteps /\ session[s].doc = d
      <3>1. e # d
        BY <1>1, <2>4 DEF CommitTyped, CommitUpload
      <3>2. session'[s] \in {session[s], IdleSession,
                            [IdleSession EXCEPT !.pc = "extracting", !.doc = e]}
        BY <1>1, <2>4 DEF CommitTyped, CommitUpload, Ends
      <3>3. /\ IdleSession.pc = "idle"
            /\ [IdleSession EXCEPT !.pc = "extracting", !.doc = e].doc = e
        BY DEF IdleSession
      <3>4. QED
        BY <3>1, <3>2, <3>3 DEF ProcessingSteps
    <2>5. ASSUME NEW x \in Sessions, NEW e \in Documents,
                 StartRetry(x, e) \/ StartReindex(x, e) \/ Retrieve(x, e)
          PROVE  session[s].pc \in ProcessingSteps /\ session[s].doc = d
      BY <1>1, <2>5 DEF StartRetry, StartReindex, Retrieve, IdleSession, ProcessingSteps
    <2>6. QED
      BY <2>1, <2>2, <2>3, <2>4, <2>5 DEF Next, vars, Approve, Retire, NextDay
  <1>4. Processing(d)' = {}
    BY <1>3 DEF SettledCitation, Processing, On, ProcessingSteps
  <1>5. /\ citations \subseteq citations'
        /\ documents'[d].chunks = documents[d].chunks
    <2>1. ASSUME NEW s \in Sessions, Step(s)
          PROVE  citations \subseteq citations' /\ documents'[d].chunks = documents[d].chunks
      <3>1. CASE CommitChunks(s)
        <4>1. session[s].doc # d
          BY <1>2, <3>1 DEF CommitChunks, At, ProcessingSteps
        <4>2. QED
          BY <1>1, <3>1, <4>1 DEF CommitChunks
      <3>2. CASE ExtractionFails(s) \/ CommitReindex(s)
        BY <1>1, <3>2 DEF ExtractionFails, CommitReindex, Row
      <3>3. CASE StartDelete(s) \/ DeleteChunks(s) \/ InsertChunks(s) \/ CommitDraft(s) \/ GiveUp(s)
        BY <3>3 DEF StartDelete, DeleteChunks, InsertChunks, CommitDraft, GiveUp
      <3>4. QED
        BY <2>1, <3>1, <3>2, <3>3 DEF Step
    <2>2. ASSUME NEW x \in Sessions, NEW e \in Documents, NEW w \in Windows,
                 CommitTyped(x, e, w) \/ CommitUpload(x, e, w)
          PROVE  citations \subseteq citations' /\ documents'[d].chunks = documents[d].chunks
      BY <1>1, <2>2 DEF CommitTyped, CommitUpload
    <2>3. ASSUME NEW u \in Users, NEW e \in Documents, Approve(u, e) \/ Retire(e)
          PROVE  citations \subseteq citations' /\ documents'[d].chunks = documents[d].chunks
      BY <1>1, <2>3 DEF Approve, Retire, Row
    <2>4. ASSUME NEW e \in Documents, Retire(e)
          PROVE  citations \subseteq citations' /\ documents'[d].chunks = documents[d].chunks
      BY <1>1, <2>4 DEF Retire, Row
    <2>5. QED
      BY <2>1, <2>2, <2>3, <2>4
         DEF Next, vars, StartStoring, StartRetry, StartReindex, Retrieve, NextDay
  <1>6. QED
    BY <1>4, <1>5 DEF SettledCitation, Resolves

\* From the moment nobody processes its document, a citation keeps its chunk for
\* ever: no later sequence of retries, retirements and re-indexing takes it away.
THEOREM CitationsStay == Spec => SettledCitationsStay
  <1> SUFFICES ASSUME NEW d \in Documents, NEW g \in Generations
               PROVE  Spec => [](<<d, g>> \in citations /\ Resolves(d, g) /\ Processing(d) = {}
                                     => []Resolves(d, g))
    BY DEF SettledCitationsStay
  <1>1. IInv /\ SettledCitation(d, g) /\ [Next]_vars => SettledCitation(d, g)'
    BY CitationSettles
  <1>2. SettledCitation(d, g) => Resolves(d, g)
    BY DEF SettledCitation
  <1>3. <<d, g>> \in citations /\ Resolves(d, g) /\ Processing(d) = {} => SettledCitation(d, g)
    BY DEF SettledCitation
  <1>4. QED
    BY <1>1, <1>2, <1>3, Invariance, PTL DEF Spec

-----------------------------------------------------------------------------
(* Settled versions *)

\* There is a document of the version and no request that stores one.
SettledVersion(v) == OfVersion(v) # {} /\ ~BeingStored(v)

\* Whoever asks for the version again is refused, and nobody else stores it.
LEMMA VersionSettles ==
    ASSUME IInv, NEW v \in Versions, SettledVersion(v), [Next]_vars
    PROVE  SettledVersion(v)' /\ OfVersion(v)' = OfVersion(v)
  <1>1. /\ session \in [Sessions -> Session] /\ documents \in [Documents -> Row]
        /\ v # NoVersion
    BY DocumentNulls DEF IInv, TypeOK
  <1>2. /\ \A s \in Sessions : session[s].version # v
        /\ VersionExists(v)
    BY DEF SettledVersion, BeingStored, OfVersion, VersionExists, IsDuplicate
  <1>3. /\ \A s \in Sessions : session'[s].version # v
        /\ \A d \in Documents : documents'[d].version = v <=> documents[d].version = v
    <2>1. ASSUME NEW x \in Sessions, Step(x)
          PROVE  /\ \A s \in Sessions : session'[s].version # v
                 /\ \A d \in Documents : documents'[d].version = v <=> documents[d].version = v
      <3>1. CASE GiveUp(x) \/ CommitDraft(x)
        BY <1>1, <1>2, <3>1 DEF GiveUp, CommitDraft, Ends, IdleSession
      <3>2. CASE ExtractionFails(x) \/ CommitChunks(x) \/ CommitReindex(x)
        <4>1. \A d \in Documents : documents'[d].version = documents[d].version
          BY <1>1, <3>2 DEF ExtractionFails, CommitChunks, CommitReindex, Row
        <4>2. QED
          BY <1>1, <1>2, <3>2, <4>1
             DEF ExtractionFails, CommitChunks, CommitReindex, Ends, IdleSession
      <3>3. CASE StartDelete(x) \/ DeleteChunks(x) \/ InsertChunks(x)
        BY <1>1, <1>2, <3>3
           DEF StartDelete, DeleteChunks, InsertChunks, Moves, Ends, IdleSession, Session
      <3>4. QED
        BY <2>1, <3>1, <3>2, <3>3 DEF Step
    <2>2. ASSUME NEW x \in Sessions, NEW u \in Users, NEW w \in Versions, StartStoring(x, u, w)
          PROVE  /\ \A s \in Sessions : session'[s].version # v
                 /\ \A d \in Documents : documents'[d].version = v <=> documents[d].version = v
      <3>1. w # v
        BY <1>2, <2>2 DEF StartStoring
      <3>2. QED
        BY <1>1, <1>2, <2>2, <3>1 DEF StartStoring, IdleSession
    <2>3. ASSUME NEW x \in Sessions, NEW e \in Documents, NEW w \in Windows,
                 CommitTyped(x, e, w) \/ CommitUpload(x, e, w)
          PROVE  /\ \A s \in Sessions : session'[s].version # v
                 /\ \A d \in Documents : documents'[d].version = v <=> documents[d].version = v
      <3>1. documents[e].version # v
        BY <1>1, <2>3 DEF CommitTyped, CommitUpload, Stored
      <3>2. NewRow(x, w).version = session[x].version /\ NewRow(x, w) \in Row
        <4>1. At(x, "storing")
          BY <2>3 DEF CommitTyped, CommitUpload
        <4>2. QED
          BY <4>1, NewRowOK, AbsentRowOK DEF NewRow, Row
      <3>3. documents'[e].version = session[x].version
        BY <1>1, <2>3, <3>2 DEF CommitTyped, CommitUpload, Row
      <3>4. \A d \in Documents : d # e => documents'[d] = documents[d]
        BY <1>1, <2>3 DEF CommitTyped, CommitUpload
      <3>5. \A s \in Sessions : session'[s].version # v
        <4>1. \A s \in Sessions :
                  session'[s] \in {session[s], IdleSession,
                                   [IdleSession EXCEPT !.pc = "extracting", !.doc = e]}
          BY <1>1, <2>3 DEF CommitTyped, CommitUpload, Ends
        <4>2. /\ IdleSession.version = NoVersion
              /\ [IdleSession EXCEPT !.pc = "extracting", !.doc = e].version = NoVersion
          BY DEF IdleSession
        <4>3. QED
          BY <1>1, <1>2, <4>1, <4>2
      <3>6. QED
        BY <1>2, <3>1, <3>3, <3>4, <3>5
    <2>4. ASSUME NEW x \in Sessions, NEW e \in Documents,
                 StartRetry(x, e) \/ StartReindex(x, e) \/ Retrieve(x, e)
          PROVE  /\ \A s \in Sessions : session'[s].version # v
                 /\ \A d \in Documents : documents'[d].version = v <=> documents[d].version = v
      <3>1. documents' = documents
        BY <2>4 DEF StartRetry, StartReindex, Retrieve
      <3>2. PICK r : r.version = NoVersion /\ session' = [session EXCEPT ![x] = r]
        <4>1. CASE StartRetry(x, e)
          BY <4>1 DEF StartRetry, IdleSession
        <4>2. CASE StartReindex(x, e)
          BY <4>2 DEF StartReindex, IdleSession
        <4>3. CASE Retrieve(x, e)
          <5>1. PICK g : session' = [session EXCEPT ![x] =
                            [IdleSession EXCEPT !.pc = "drafting", !.doc = e, !.chunks = {g}]]
            BY <4>3 DEF Retrieve
          <5>2. QED
            BY <5>1 DEF IdleSession
        <4>4. QED
          BY <2>4, <4>1, <4>2, <4>3
      <3>3. QED
        BY <1>1, <1>2, <3>1, <3>2
    <2>5. ASSUME NEW u \in Users, NEW e \in Documents, Approve(u, e)
          PROVE  \A d \in Documents : documents'[d].version = documents[d].version
      BY <1>1, <2>5 DEF Approve, Row
    <2>6. ASSUME NEW e \in Documents, Retire(e)
          PROVE  \A d \in Documents : documents'[d].version = documents[d].version
      BY <1>1, <2>6 DEF Retire, Row
    <2>7. CASE NextDay \/ UNCHANGED vars
      BY <1>2, <2>7 DEF NextDay, vars
    <2>8. QED
      BY <1>2, <2>1, <2>2, <2>3, <2>4, <2>5, <2>6, <2>7 DEF Next, Approve, Retire
  <1>4. QED
    BY <1>3 DEF SettledVersion, BeingStored, OfVersion

\* Once there is a document of a version and no request is storing one, there
\* will never be another one of it.
THEOREM VersionsStay == Spec => SettledVersionsAreUnique
  <1> SUFFICES ASSUME NEW v \in Versions, NEW n \in 1 .. Cardinality(Documents)
               PROVE  Spec => [](Cardinality(OfVersion(v)) = n /\ ~BeingStored(v)
                                     => [](Cardinality(OfVersion(v)) = n))
    BY DEF SettledVersionsAreUnique
  <1>1. ASSUME IInv, SettledVersion(v) /\ Cardinality(OfVersion(v)) = n, [Next]_vars
        PROVE  (SettledVersion(v) /\ Cardinality(OfVersion(v)) = n)'
    BY <1>1, VersionSettles
  <1>2. Cardinality(OfVersion(v)) = n /\ ~BeingStored(v) => SettledVersion(v)
    <2>1. n # 0
      BY FinitelyMany, FS_CardinalityType
    <2>2. QED
      BY <2>1, FS_EmptySet DEF SettledVersion
  <1>3. QED
    BY <1>1, <1>2, Invariance, PTL DEF Spec
=============================================================================
