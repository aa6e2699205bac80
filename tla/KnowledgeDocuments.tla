--------------------------- MODULE KnowledgeDocuments ---------------------------
(***************************************************************************)
(* The sources replies are grounded on (rag/service.py; core.documents,    *)
(* core.doc_chunks, core.response_citations): typed in or uploaded,        *)
(* processed into chunks, approved by somebody else, retired, re-indexed   *)
(* and processed again, while drafts retrieve their chunks and cite them.  *)
(*                                                                         *)
(* A document's chunks are inserted together and are one generation; each  *)
(* processing makes a new one.  Transactions are READ COMMITTED: what a    *)
(* session has deleted or inserted is its own until it commits.            *)
(***************************************************************************)
EXTENDS Integers, FiniteSets

CONSTANTS
    Documents,       \* document ids
    Versions,        \* content, title and version text of a document
    Users,
    Sessions,        \* database sessions of requests that take several steps
    Windows,         \* <<effective_from, effective_to>> a document may come with
    NoUser, NoDocument, NoVersion,
    MaxDay,          \* the calendar stops here
    MaxGenerations   \* each document is processed no more often than this

ASSUME DocumentNulls ==
    NoUser \notin Users /\ NoDocument \notin Documents /\ NoVersion \notin Versions
ASSUME DocumentBounds == MaxDay \in Nat /\ MaxGenerations \in [Documents -> Nat \ {0}]
ASSUME FinitelyMany == IsFiniteSet(Sessions) /\ IsFiniteSet(Documents)

Never == MaxDay + 1

ASSUME WindowsAreOpen ==
    \A w \in Windows : w \in (0 .. MaxDay) \X (1 .. Never) /\ w[1] < w[2]

VARIABLES
    documents,  \* core.documents, each row with its committed chunks
    citations,  \* core.response_citations: <<document_id, generation>>
    session,    \* what each request has read and not committed
    today       \* CURRENT_DATE

vars == <<documents, citations, session, today>>

-----------------------------------------------------------------------------
Generations == UNION {1 .. MaxGenerations[d] : d \in Documents}

\* ingestion_status of the newest processing row in the audit log
Progress == {"processing", "indexed", "failed"}

Row == [version : Versions \cup {NoVersion}, created_by : Users \cup {NoUser},
        is_approved : BOOLEAN, approved_by : Users \cup {NoUser},
        effective_from : 0 .. MaxDay, effective_to : 0 .. Never,
        chunks : SUBSET Generations, made : Nat, status : Progress]

AbsentRow == [version |-> NoVersion, created_by |-> NoUser,
              is_approved |-> FALSE, approved_by |-> NoUser,
              effective_from |-> 0, effective_to |-> Never,
              chunks |-> {}, made |-> 0, status |-> "processing"]

Steps == {"idle", "storing", "extracting", "deleting", "embedding", "inserted",
          "reindexing", "drafting"}

Session == [pc : Steps, user : Users \cup {NoUser}, version : Versions \cup {NoVersion},
            doc : Documents \cup {NoDocument}, chunks : SUBSET Generations]

IdleSession == [pc |-> "idle", user |-> NoUser, version |-> NoVersion,
                doc |-> NoDocument, chunks |-> {}]

Init ==
    /\ documents = [d \in Documents |-> AbsentRow]
    /\ citations = {}
    /\ session = [s \in Sessions |-> IdleSession]
    /\ today = 0

-----------------------------------------------------------------------------
Stored == {d \in Documents : documents[d].version # NoVersion}

Idle(s) == session[s].pc = "idle"

At(s, pc) == session[s].pc = pc

On(d, steps) == {s \in Sessions : session[s].doc = d /\ session[s].pc \in steps}

Processing(d) == On(d, {"extracting", "deleting", "embedding", "inserted"})

CitedOf(d) == {g \in Generations : <<d, g>> \in citations}

Expired(d) == documents[d].effective_to <= today

InForce(d) ==
    documents[d].is_approved /\ documents[d].effective_from <= today /\ ~Expired(d)

\* Chunks another transaction has deleted or is inserting.
LockedElsewhere(s, gens) ==
    \E t \in On(session[s].doc, {"embedding", "inserted"}) \ {s} :
        session[t].chunks \cap gens # {}

Inserting(d) == On(d, {"inserted"}) # {}

Moves(s, pc) == session' = [session EXCEPT ![s].pc = pc]

Ends(s) == session' = [session EXCEPT ![s] = IdleSession]

-----------------------------------------------------------------------------
(* create_document and ingest_uploaded_document *)

IsDuplicate(v) == \E d \in Documents : documents[d].version = v

\* The same look-up restricted to approved documents.
IsApprovedDuplicate(v) ==
    \E d \in Documents : documents[d].version = v /\ documents[d].is_approved

VersionExists(v) == IsDuplicate(v)

\* The duplicate is looked for before the file goes to object storage.
StartStoring(s, u, v) ==
    /\ Idle(s)
    /\ ~VersionExists(v)
    /\ session' = [session EXCEPT ![s] =
           [IdleSession EXCEPT !.pc = "storing", !.user = u, !.version = v]]
    /\ UNCHANGED <<documents, citations, today>>

NewRow(s, w) ==
    [AbsentRow EXCEPT !.version = session[s].version, !.created_by = session[s].user,
                      !.effective_from = w[1], !.effective_to = w[2]]

\* Text that was typed in is stored with its chunks in one transaction.
CommitTyped(s, d, w) ==
    /\ At(s, "storing")
    /\ d \notin Stored
    /\ documents' = [documents EXCEPT ![d] =
           [NewRow(s, w) EXCEPT !.chunks = {1}, !.made = 1, !.status = "indexed"]]
    /\ Ends(s)
    /\ UNCHANGED <<citations, today>>

\* An upload is committed first and processed by the same request afterwards.
CommitUpload(s, d, w) ==
    /\ At(s, "storing")
    /\ d \notin Stored
    /\ documents' = [documents EXCEPT ![d] = NewRow(s, w)]
    /\ session' = [session EXCEPT ![s] =
           [IdleSession EXCEPT !.pc = "extracting", !.doc = d]]
    /\ UNCHANGED <<citations, today>>

-----------------------------------------------------------------------------
(* retry_document_ingestion and _process_uploaded_content *)

\* Read without a lock.
Reprocessable(d) == ~documents[d].is_approved /\ CitedOf(d) = {}

\* The guard without its count of citations.
ReprocessableUnapproved(d) == ~documents[d].is_approved

MayRetry(d) == Reprocessable(d)

StartRetry(s, d) ==
    /\ Idle(s)
    /\ d \in Stored
    /\ MayRetry(d)
    /\ documents[d].made + Cardinality(Processing(d)) < MaxGenerations[d]
    /\ session' = [session EXCEPT ![s] =
           [IdleSession EXCEPT !.pc = "extracting", !.doc = d]]
    /\ UNCHANGED <<documents, citations, today>>

\* DocumentIngestionError: the failure is audited in a transaction of its own.
ExtractionFails(s) ==
    /\ At(s, "extracting")
    /\ documents' = [documents EXCEPT ![session[s].doc].status = "failed"]
    /\ Ends(s)
    /\ UNCHANGED <<citations, today>>

\* DELETE sees the chunks committed when it starts...
StartDelete(s) ==
    /\ At(s, "extracting")
    /\ session' = [session EXCEPT ![s].pc = "deleting",
                                  ![s].chunks = documents[session[s].doc].chunks]
    /\ UNCHANGED <<documents, citations, today>>

\* ... and waits for a transaction that deletes them too: if that commits,
\* they are gone, and what it has put in their place is not deleted.
DeleteChunks(s) ==
    /\ At(s, "deleting")
    /\ ~LockedElsewhere(s, session[s].chunks)
    /\ session' = [session EXCEPT ![s].pc = "embedding",
                                  ![s].chunks = @ \cap documents[session[s].doc].chunks]
    /\ UNCHANGED <<documents, citations, today>>

\* UNIQUE (document_id, seq): every generation has a first chunk.
SeqTaken(s) == documents[session[s].doc].chunks \ session[s].chunks # {}

SeqNeverTaken(s) == FALSE

InsertConflicts(s) == SeqTaken(s)

\* After embed_texts.  Another insertion that has not committed is waited for.
InsertChunks(s) ==
    /\ At(s, "embedding")
    /\ ~Inserting(session[s].doc)
    /\ IF InsertConflicts(s) THEN Ends(s) ELSE Moves(s, "inserted")
    /\ UNCHANGED <<documents, citations, today>>

\* After another call of embed_texts: audited and committed.
CommitChunks(s) ==
    /\ At(s, "inserted")
    /\ LET d == session[s].doc
           new == documents[d].made + 1
       IN  documents' = [documents EXCEPT ![d].chunks = (@ \ session[s].chunks) \cup {new},
                                          ![d].made = new,
                                          ![d].status = "indexed"]
    /\ Ends(s)
    /\ UNCHANGED <<citations, today>>

-----------------------------------------------------------------------------
(* approve_document, retire_document, reindex_document *)

\* FOR UPDATE on the document: an uncommitted chunk holds a key-share lock.
Approvable(u, d) ==
    /\ ~documents[d].is_approved
    /\ documents[d].chunks # {}
    /\ ~Expired(d)
    /\ documents[d].created_by # u

ApprovableBeforeProcessing(u, d) ==
    ~documents[d].is_approved /\ ~Expired(d) /\ documents[d].created_by # u

ApprovableByCreator(u, d) ==
    ~documents[d].is_approved /\ documents[d].chunks # {} /\ ~Expired(d)

MayApprove(u, d) == Approvable(u, d)

Approve(u, d) ==
    /\ d \in Stored
    /\ ~Inserting(d)
    /\ MayApprove(u, d)
    /\ documents' = [documents EXCEPT ![d].is_approved = TRUE, ![d].approved_by = u]
    /\ UNCHANGED <<citations, session, today>>

EndsToday == today

EndedYesterday == today - 1

LastDay == EndsToday

Retire(d) ==
    /\ d \in Stored
    /\ ~Inserting(d)
    /\ ~Expired(d)
    /\ documents' = [documents EXCEPT ![d].is_approved = FALSE,
                                      ![d].effective_to = LastDay]
    /\ UNCHANGED <<citations, session, today>>

StartReindex(s, d) ==
    /\ Idle(s)
    /\ documents[d].chunks # {}
    /\ session' = [session EXCEPT ![s] =
           [IdleSession EXCEPT !.pc = "reindexing", !.doc = d, !.chunks = documents[d].chunks]]
    /\ UNCHANGED <<documents, citations, today>>

\* The chunks that are still there get new embeddings; others are skipped.
CommitReindex(s) ==
    /\ At(s, "reindexing")
    /\ ~LockedElsewhere(s, session[s].chunks)
    /\ documents' = [documents EXCEPT ![session[s].doc].status = "indexed"]
    /\ Ends(s)
    /\ UNCHANGED <<citations, today>>

-----------------------------------------------------------------------------
(* retrieve_approved_chunks and the drafts that cite what it returns *)

Retrieve(s, d) ==
    /\ Idle(s)
    /\ InForce(d)
    /\ \E g \in documents[d].chunks :
           session' = [session EXCEPT ![s] =
               [IdleSession EXCEPT !.pc = "drafting", !.doc = d, !.chunks = {g}]]
    /\ UNCHANGED <<documents, citations, today>>

\* No foreign key ties a citation to its chunk.
CommitDraft(s) ==
    /\ At(s, "drafting")
    /\ citations' = citations \cup {<<session[s].doc, g>> : g \in session[s].chunks}
    /\ Ends(s)
    /\ UNCHANGED <<documents, today>>

-----------------------------------------------------------------------------
\* A crash or an error no handler expects: get_session rolls back.
GiveUp(s) ==
    /\ ~Idle(s)
    /\ Ends(s)
    /\ UNCHANGED <<documents, citations, today>>

NextDay ==
    /\ today < MaxDay
    /\ today' = today + 1
    /\ UNCHANGED <<documents, citations, session>>

Step(s) ==
    \/ ExtractionFails(s) \/ StartDelete(s) \/ DeleteChunks(s)
    \/ InsertChunks(s) \/ CommitChunks(s)
    \/ CommitReindex(s) \/ CommitDraft(s) \/ GiveUp(s)

Next ==
    \/ \E s \in Sessions, u \in Users, v \in Versions : StartStoring(s, u, v)
    \/ \E s \in Sessions, d \in Documents, w \in Windows :
           CommitTyped(s, d, w) \/ CommitUpload(s, d, w)
    \/ \E s \in Sessions, d \in Documents :
           StartRetry(s, d) \/ StartReindex(s, d) \/ Retrieve(s, d)
    \/ \E s \in Sessions : Step(s)
    \/ \E u \in Users, d \in Documents : Approve(u, d)
    \/ \E d \in Documents : Retire(d)
    \/ NextDay

Spec == Init /\ [][Next]_vars

-----------------------------------------------------------------------------
(* Properties *)

\* Every variable has its type, with the end of a document on a day there is.
TypeOK ==
    /\ documents \in [Documents -> Row]
    /\ citations \in SUBSET (Documents \X Generations)
    /\ session \in [Sessions -> Session]
    /\ today \in 0 .. MaxDay

\* However processings of a document overlap, wait for each other and fail,
\* a reader finds the chunks of one of them, never two texts mixed
\* (_replace_chunks takes no lock on the document).
OneChunkSet == \A d \in Documents : Cardinality(documents[d].chunks) <= 1

\* A document that is approved, or shown as indexed, has its text, also while
\* it is being replaced (approve_document, list_documents).
StatusHasText ==
    \A d \in Stored :
        documents[d].is_approved \/ documents[d].status = "indexed" => documents[d].chunks # {}

\* Every citation is of a document that somebody other than its creator
\* approved, whatever has happened to the document since (approve_document,
\* retrieve_approved_chunks, the writers of drafts).
CitedSourcesWereReviewed ==
    \A c \in citations :
        documents[c[1]].approved_by \notin {NoUser, documents[c[1]].created_by}

Resolves(d, g) == g \in documents[d].chunks

\* A citation whose document nobody is processing keeps its chunk for ever:
\* re-indexing, retirement and new processing leave it alone.
SettledCitationsStay ==
    \A d \in Documents, g \in Generations :
        [](<<d, g>> \in citations /\ Resolves(d, g) /\ Processing(d) = {}
               => []Resolves(d, g))

OfVersion(v) == {d \in Documents : documents[d].version = v}

BeingStored(v) == \E s \in Sessions : session[s].version = v

\* The documents of a version, once no request is storing one, remain all
\* there are: duplicates come from overlapping requests only.
SettledVersionsAreUnique ==
    \A v \in Versions, n \in 1 .. Cardinality(Documents) :
        [](Cardinality(OfVersion(v)) = n /\ ~BeingStored(v)
               => [](Cardinality(OfVersion(v)) = n))

-----------------------------------------------------------------------------
(* What the documentation says and the code does not do *)

\* ARCHITECTURE.md: "From any published sentence you can reach the paragraph
\* of the approved policy that authorised it."  A retry that checked the
\* document before its approval replaces the chunk a draft has cited since.
CitationsResolve == \A c \in citations : Resolves(c[1], c[2])
=============================================================================
