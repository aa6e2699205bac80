---------------------------- MODULE ChunkVectors ----------------------------
(***************************************************************************)
(* The chunks of one document row by row (core.doc_chunks): replaced by    *)
(* the processing of an upload (_replace_chunks, rag/service.py) and given *)
(* new vectors by reindex_document, in overlapping transactions that lock  *)
(* a row when they write it and hold it until they end.                    *)
(*                                                                         *)
(* Vectors come from the encoder service or, whenever that fails, from a   *)
(* hash (embed_texts, rag/ingestion.py): two spaces whose vectors do not   *)
(* compare.  Typed text is stored with its chunks in the transaction that  *)
(* makes the document and overlaps nothing.  KnowledgeDocuments has the    *)
(* documents around the chunks and takes those of one processing for one   *)
(* thing, which this module justifies.                                     *)
(***************************************************************************)
EXTENDS Integers, FiniteSets

CONSTANTS
    ChunkCount,     \* the text is cut into this many chunks
    Spaces,         \* the encoder's vectors and those of the hash
    Sessions,       \* database sessions of requests
    MaxGenerations, \* the document is processed no more often than this
    NoSpace, NoIndex

ASSUME ChunkAssumption ==
    /\ ChunkCount \in Nat \ {0}
    /\ MaxGenerations \in Nat \ {0}
    /\ NoSpace \notin Spaces

VARIABLES
    vector,   \* core.doc_chunks as committed: the space of each chunk's vector
    session,  \* what each transaction has locked and written
    made      \* processings begun; each makes chunks with new ids

vars == <<vector, session, made>>

-----------------------------------------------------------------------------
Seqs == 1 .. ChunkCount
Generations == 1 .. MaxGenerations

ASSUME IndexAssumption == NoIndex \notin [generation : Generations, space : Spaces]

\* chunk_id: a fresh uuid4 for each chunk of each processing.
Chunks == [generation : Generations, seq : Seqs]

\* todo: the rows a statement has found and not yet locked; held: those it has
\* locked and deleted or updated; inserted: the seqs of its own new rows.
Session == [pc : {"idle", "deleting", "inserting", "updating"},
            generation : Generations \cup {0},
            vectors : [Seqs -> Spaces] \cup {<<>>},
            todo : SUBSET Chunks, held : SUBSET Chunks, inserted : SUBSET Seqs]

IdleSession == [pc |-> "idle", generation |-> 0, vectors |-> <<>>,
                todo |-> {}, held |-> {}, inserted |-> {}]

TypeOK ==
    /\ vector \in [Chunks -> Spaces \cup {NoSpace}]
    /\ session \in [Sessions -> Session]
    /\ made \in 0 .. MaxGenerations

Init ==
    /\ vector = [c \in Chunks |-> NoSpace]
    /\ session = [s \in Sessions |-> IdleSession]
    /\ made = 0

-----------------------------------------------------------------------------
(* Helpers *)

\* The rows a statement that starts now sees: there is nothing uncommitted of
\* its own when DELETE and SELECT start.
Present == {c \in Chunks : vector[c] # NoSpace}

Others(s) == Sessions \ {s}

HeldElsewhere(s, c) == \E t \in Others(s) : c \in session[t].held

\* Another transaction has deleted or inserted a row with this seq and has not
\* ended: the unique index on (document_id, seq) makes an insertion wait.
SeqInDoubt(s, q) ==
    \E t \in Others(s) :
        \/ q \in session[t].inserted
        \/ session[t].pc \in {"deleting", "inserting"} /\ \E c \in session[t].held : c.seq = q

SeqTaken(s, q) == \E c \in Present \ session[s].held : c.seq = q

\* embed_texts: all texts by the encoder, or all of them by the hash.
EmbeddedTogether == {[q \in Seqs |-> v] : v \in Spaces}

Locks(s, c) ==
    session' = [session EXCEPT ![s].todo = @ \ {c},
                               ![s].held = IF c \in Present THEN @ \cup {c} ELSE @]

Ends(s) == session' = [session EXCEPT ![s] = IdleSession]

-----------------------------------------------------------------------------
(* _replace_chunks, called to process an upload *)

StartDelete(s) ==
    /\ session[s].pc = "idle"
    /\ made < MaxGenerations
    /\ made' = made + 1
    /\ \E vectors \in EmbeddedTogether :
          session' = [session EXCEPT ![s] =
              [IdleSession EXCEPT !.pc = "deleting", !.generation = made + 1,
                                  !.vectors = vectors, !.todo = Present]]
    /\ UNCHANGED vector

\* DELETE meets the rows in whatever order they lie; one that was deleted while
\* it waited is passed over.
DeleteRow(s, c) ==
    /\ session[s].pc = "deleting"
    /\ c \in session[s].todo
    /\ ~HeldElsewhere(s, c)
    /\ Locks(s, c)
    /\ UNCHANGED <<vector, made>>

\* The texts are embedded while the deleted rows stay locked.
StartInsert(s) ==
    /\ session[s].pc = "deleting"
    /\ session[s].todo = {}
    /\ session' = [session EXCEPT ![s].pc = "inserting"]
    /\ UNCHANGED <<vector, made>>

\* Mutant: enumerate starts from 0.
CountedFromZero(s) == Cardinality(session[s].inserted)

NextSeq(s) == Cardinality(session[s].inserted) + 1

InsertRow(s) ==
    /\ session[s].pc = "inserting"
    /\ NextSeq(s) <= ChunkCount
    /\ ~SeqInDoubt(s, NextSeq(s))
    /\ IF SeqTaken(s, NextSeq(s))
       THEN Ends(s)  \* IntegrityError: rolled back
       ELSE session' = [session EXCEPT ![s].inserted = @ \cup {NextSeq(s)}]
    /\ UNCHANGED <<vector, made>>

CommitReplacement(s) ==
    LET new == session[s] IN
    /\ new.pc = "inserting"
    /\ new.inserted = Seqs
    /\ vector' = [c \in Chunks |->
                    CASE c.generation = new.generation -> new.vectors[c.seq]
                      [] c.generation # new.generation /\ c \in new.held -> NoSpace
                      [] OTHER -> vector[c]]
    /\ Ends(s)
    /\ UNCHANGED made

-----------------------------------------------------------------------------
(* reindex_document *)

\* The chunks are read and embedded before the first one is locked.
StartReindex(s) ==
    /\ session[s].pc = "idle"
    /\ Present # {}
    /\ \E vectors \in EmbeddedTogether :
          session' = [session EXCEPT ![s] =
              [IdleSession EXCEPT !.pc = "updating", !.vectors = vectors, !.todo = Present]]
    /\ UNCHANGED <<vector, made>>

\* Mutant: SELECT without ORDER BY.
InAnyOrder(todo) == todo

\* ORDER BY dc.seq
InOrder(todo) == {c \in todo : \A d \in todo : c.seq <= d.seq}

\* UPDATE of the next chunk; one that is gone by now is not found.
UpdateRow(s, c) ==
    /\ session[s].pc = "updating"
    /\ c \in InOrder(session[s].todo)
    /\ ~HeldElsewhere(s, c)
    /\ Locks(s, c)
    /\ UNCHANGED <<vector, made>>

\* Mutant: the commit is inside the loop and a failure leaves the rest.
SomeUpdated(s) == session[s].held # {}

AllUpdated(s) == session[s].todo = {}

CommitReindex(s) ==
    /\ session[s].pc = "updating"
    /\ AllUpdated(s)
    /\ vector' = [c \in Chunks |-> IF c \in session[s].held THEN session[s].vectors[c.seq]
                                   ELSE vector[c]]
    /\ Ends(s)
    /\ UNCHANGED made

\* An exception, a crash, or the victim PostgreSQL chooses among transactions
\* that wait for each other: rolled back and unlocked.
GiveUp(s) ==
    /\ session[s].pc # "idle"
    /\ Ends(s)
    /\ UNCHANGED <<vector, made>>

-----------------------------------------------------------------------------
Next ==
    \E s \in Sessions :
        \/ StartDelete(s) \/ StartInsert(s) \/ InsertRow(s) \/ CommitReplacement(s)
        \/ StartReindex(s) \/ CommitReindex(s) \/ GiveUp(s)
        \/ \E c \in Chunks : DeleteRow(s, c) \/ UpdateRow(s, c)

Spec == Init /\ [][Next]_vars

-----------------------------------------------------------------------------
(* Properties *)

\* The whole text of generation g with vectors of space v.
Shows(g, v) ==
    \A c \in Chunks : vector[c] = IF c.generation = g THEN v ELSE NoSpace

ShownIndex ==
    IF Present = {} THEN NoIndex
    ELSE IF \E g \in Generations, v \in Spaces : Shows(g, v)
         THEN [generation |-> (CHOOSE c \in Present : TRUE).generation,
               space |-> vector[CHOOSE c \in Present : TRUE]]
         ELSE [generation |-> 0, space |-> NoSpace]

Index == INSTANCE IndexedText WITH index <- ShownIndex

\* However replacements and re-indexings overlap, wait for rows, miss rows that
\* are gone and fail, a reader finds one whole text with vectors of one space:
\* queries are embedded in one space and compared with all chunks
\* (retrieve_approved_chunks).
ImplementsIndexedText == Index!Spec

\* s can lock no row it needs next before t ends.
WaitsFor(s, t) ==
    \E c \in InOrder(session[s].todo) : c \in session[t].held

\* Re-indexings of one document do not wait for each other in a circle: among
\* any of them there is one that waits for none of the others (ORDER BY seq).
ReindexingsDoNotDeadlock ==
    \A group \in SUBSET {s \in Sessions : session[s].pc = "updating"} :
        group # {} => \E s \in group : \A t \in group \ {s} : ~WaitsFor(s, t)
=============================================================================
