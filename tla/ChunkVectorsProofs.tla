-------------------------- MODULE ChunkVectorsProofs --------------------------
(***************************************************************************)
(* Theorems about the chunks of a document, for any number of chunks,      *)
(* requests, processings and embedding spaces.                             *)
(***************************************************************************)
EXTENDS ChunkVectors, FiniteSetTheorems, WellFoundedInduction, TLAPS

-----------------------------------------------------------------------------
(* The inductive invariant *)

\* A reader finds nothing or one whole text in one space.
Whole == Present = {} \/ \E g \in Generations, v \in Spaces : Shows(g, v)

Uniform(vectors) == \E v \in Spaces : vectors = [q \in Seqs |-> v]

\* Of one transaction, when n processings have begun.
Fits(q, n) ==
    /\ q.generation <= n /\ \A c \in q.todo : c.generation <= n
    /\ \A c \in Present \cup q.todo : c.generation # q.generation
    /\ q.held \subseteq Present
    /\ q.pc # "inserting" => q.inserted = {}
    /\ q.pc \in {"deleting", "inserting"} => q.generation \in Generations
    /\ \A c \in Present \ q.held : c.seq \notin q.inserted
    /\ q.pc # "idle" => Uniform(q.vectors)

\* A re-indexing reaches all chunks there are, in order, or none of them.
Reaches(q) ==
    q.pc = "updating" =>
        /\ \/ Present \subseteq q.held \cup q.todo
           \/ q.held = {} /\ q.todo \cap Present = {}
        /\ \A c \in q.held, d \in q.todo : c.seq < d.seq
        /\ \A c, d \in q.todo : c.generation = d.generation

\* Of two transactions.
Apart(q, r) ==
    /\ q.held \cap r.held = {}
    /\ q.inserted \cap r.inserted = {}
    /\ q.generation = r.generation => q.generation = 0
    /\ \A c \in q.todo : c.generation # r.generation

IInv ==
    /\ TypeOK
    /\ Whole
    /\ \A c \in Present : c.generation <= made
    /\ \A s \in Sessions : Fits(session[s], made) /\ Reaches(session[s])
    /\ \A s, t \in Sessions : s # t => Apart(session[s], session[t])

-----------------------------------------------------------------------------
(* Lemmas *)

\* An idle transaction is in nobody's way.
LEMMA IdleType == IdleSession \in Session
  BY DEF IdleSession, Session

\* It has found, locked and inserted nothing.
LEMMA IdleFits ==
    ASSUME IInv, NEW n \in Nat
    PROVE  /\ Fits(IdleSession, n) /\ Reaches(IdleSession)
           /\ \A s \in Sessions : Apart(IdleSession, session[s]) /\ Apart(session[s], IdleSession)
  <1>1. \A c \in Chunks : c.generation # 0
    BY DEF Chunks, Generations
  <1>2. Present \subseteq Chunks
    BY DEF Present
  <1>3. Fits(IdleSession, n) /\ Reaches(IdleSession)
    BY <1>1, <1>2 DEF Fits, Reaches, IdleSession
  <1>4. \A s \in Sessions : session[s].todo \subseteq Chunks
    BY DEF IInv, TypeOK, Session
  <1>5. QED
    BY <1>1, <1>3, <1>4 DEF Apart, IdleSession

\* The chunks there are show one generation in one space.
LEMMA PresentAlike ==
    ASSUME IInv, Present # {}
    PROVE  \E g \in Generations, v \in Spaces :
             /\ Shows(g, v)
             /\ Present = {c \in Chunks : c.generation = g}
             /\ \A c \in Present : c.generation = g /\ vector[c] = v
  <1>1. PICK g \in Generations, v \in Spaces : Shows(g, v)
    BY DEF IInv, Whole
  <1>2. v # NoSpace
    BY ChunkAssumption
  <1>3. QED
    BY <1>1, <1>2 DEF Shows, Present

\* What a reader sees of a whole text.
LEMMA ShownWhole ==
    ASSUME NEW g \in Generations, NEW v \in Spaces, Shows(g, v)
    PROVE  Present # {} /\ ShownIndex = [generation |-> g, space |-> v]
  <1>1. v # NoSpace /\ [generation |-> g, seq |-> 1] \in Chunks
    BY ChunkAssumption DEF Chunks, Seqs
  <1>2. [generation |-> g, seq |-> 1] \in Present
    BY <1>1 DEF Present, Shows
  <1>3. \A c \in Present : c.generation = g /\ vector[c] = v
    BY DEF Present, Shows
  <1>4. (CHOOSE c \in Present : TRUE) \in Present
    BY <1>2
  <1>5. QED
    BY <1>2, <1>3, <1>4 DEF ShownIndex

-----------------------------------------------------------------------------
(* Steps that write nothing committed *)

\* One transaction moves on, alone or beside others, and commits nothing.
LEMMA SessionStep ==
    ASSUME IInv, NEW s \in Sessions, NEW q \in Session,
           session' = [session EXCEPT ![s] = q], UNCHANGED vector,
           made' \in 0 .. MaxGenerations, made <= made',
           Fits(q, made'), Reaches(q),
           \A t \in Sessions \ {s} : Apart(q, session[t]) /\ Apart(session[t], q)
    PROVE  IInv'
  <1>1. \A t \in Sessions : session'[t] = IF t = s THEN q ELSE session[t]
    BY DEF IInv, TypeOK
  <1>2. TypeOK'
    BY DEF IInv, TypeOK
  <1>3. Present' = Present /\ made \in Nat /\ made' \in Nat
    BY ChunkAssumption DEF Present, IInv, TypeOK
  <1>4. Whole'
    BY <1>3 DEF IInv, Whole, Shows
  <1>5. \A c \in Present : c.generation <= made'
    BY <1>3 DEF IInv, Present, Chunks, Generations
  <1>6. ASSUME NEW t \in Sessions
        PROVE  Fits(session'[t], made') /\ Reaches(session'[t])
    <2>1. CASE t = s
      BY <1>1, <2>1
    <2>2. CASE t # s
      <3>1. session[t] \in Session
        BY DEF IInv, TypeOK
      <3>2. session[t].generation \in Nat /\ \A c \in session[t].todo : c.generation \in Nat
        BY <3>1 DEF Session, Generations, Chunks
      <3>3. Fits(session[t], made)
        BY DEF IInv
      <3>4. Fits(session[t], made')
        BY <1>3, <3>2, <3>3 DEF Fits
      <3>5. QED
        BY <1>1, <2>2, <3>4 DEF IInv
    <2>3. QED
      BY <2>1, <2>2
  <1>7. \A t \in Sessions : (Fits(session[t], made) /\ Reaches(session[t]))'
    <2>1. \A t \in Sessions : Fits(session[t], made)' <=> Fits(session'[t], made')
      BY <1>3 DEF Fits
    <2>2. \A t \in Sessions : Reaches(session[t])' <=> Reaches(session'[t])
      BY <1>3 DEF Reaches
    <2>3. QED
      BY <1>6, <2>1, <2>2
  <1>8. \A t, u \in Sessions : t # u => Apart(session'[t], session'[u])
    BY <1>1 DEF IInv
  <1>9. \A t, u \in Sessions : (t # u => Apart(session[t], session[u]))'
    BY <1>8 DEF Apart
  <1>10. QED
    BY <1>2, <1>3, <1>4, <1>5, <1>7, <1>9 DEF IInv

\* A transaction that ends without a commit.
LEMMA EndKeeps ==
    ASSUME IInv, NEW s \in Sessions, Ends(s), UNCHANGED <<vector, made>>
    PROVE  IInv'
  <1>1. made \in 0 .. MaxGenerations /\ made' = made /\ made \in Nat /\ made <= made'
    BY ChunkAssumption DEF IInv, TypeOK
  <1>2. Fits(IdleSession, made') /\ Reaches(IdleSession)
    BY <1>1, IdleFits
  <1>3. \A t \in Sessions \ {s} :
            Apart(IdleSession, session[t]) /\ Apart(session[t], IdleSession)
    BY IdleFits, <1>1
  <1>4. session' = [session EXCEPT ![s] = IdleSession] /\ UNCHANGED vector
    BY DEF Ends
  <1>5. made' \in 0 .. MaxGenerations
    BY <1>1
  <1>6. QED
    BY <1>1, <1>2, <1>3, <1>4, <1>5, IdleType, SessionStep

\* A processing begins with a generation of its own and finds the rows there are.
LEMMA StartDeleteKeeps ==
    ASSUME IInv, NEW s \in Sessions, StartDelete(s)
    PROVE  IInv'
  <1>1. PICK vectors \in EmbeddedTogether :
            session' = [session EXCEPT ![s] =
                [IdleSession EXCEPT !.pc = "deleting", !.generation = made + 1,
                                    !.vectors = vectors, !.todo = Present]]
    BY DEF StartDelete
  <1>2. made \in Nat /\ made' = made + 1 /\ made' \in Generations /\ UNCHANGED vector
    BY ChunkAssumption DEF IInv, TypeOK, StartDelete, Generations
  <1>3. PICK q : q = [IdleSession EXCEPT !.pc = "deleting", !.generation = made + 1,
                                    !.vectors = vectors, !.todo = Present]
    OBVIOUS
  <1>4. /\ q.pc = "deleting" /\ q.generation = made + 1 /\ q.todo = Present
        /\ q.vectors = vectors /\ q.held = {} /\ q.inserted = {}
    BY <1>3 DEF IdleSession
  <1>5. Uniform(vectors) /\ vectors \in [Seqs -> Spaces]
    BY DEF Uniform, EmbeddedTogether
  <1>6. q \in Session
    BY <1>2, <1>3, <1>5 DEF IdleSession, Session, Present
  <1>7. \A c \in Present : c.generation <= made /\ c \in Chunks /\ c.generation \in Nat
    BY DEF IInv, Present, Chunks, Generations
  <1>8. Fits(q, made')
    BY <1>2, <1>4, <1>7, <1>5 DEF Fits
  <1>9. Reaches(q)
    BY <1>4 DEF Reaches
  <1>10. ASSUME NEW t \in Sessions \ {s}
        PROVE  Apart(q, session[t]) /\ Apart(session[t], q)
    <2>1. session[t] \in Session /\ Fits(session[t], made)
      BY DEF IInv, TypeOK
    <2>2. /\ session[t].generation \in Nat /\ session[t].generation <= made
          /\ \A c \in session[t].todo : c.generation \in Nat /\ c.generation <= made
          /\ \A c \in Present : c.generation # session[t].generation
      BY <2>1 DEF Session, Fits, Chunks, Generations
    <2>3. QED
      BY <1>2, <1>4, <2>2 DEF Apart
  <1>11. made' \in 0 .. MaxGenerations /\ made <= made'
    BY <1>2 DEF Generations
  <1>12. session' = [session EXCEPT ![s] = q]
    BY <1>1, <1>3
  <1>13. QED
    BY <1>2, <1>6, <1>8, <1>9, <1>10, <1>11, <1>12, SessionStep

\* What a lock leaves of a transaction.
Locked(q, c) ==
    [q EXCEPT !.todo = @ \ {c}, !.held = IF c \in Present THEN @ \cup {c} ELSE @]

\* Its fields, one by one.
LEMMA LockedFields ==
    ASSUME NEW q \in Session, NEW c \in Chunks
    PROVE  /\ Locked(q, c) \in Session
           /\ Locked(q, c).pc = q.pc /\ Locked(q, c).generation = q.generation
           /\ Locked(q, c).vectors = q.vectors /\ Locked(q, c).inserted = q.inserted
           /\ Locked(q, c).todo = q.todo \ {c}
           /\ Locked(q, c).held = IF c \in Present THEN q.held \cup {c} ELSE q.held
  BY DEF Locked, Session

\* A row is locked by one transaction only.
LEMMA LockKeeps ==
    ASSUME IInv, NEW s \in Sessions, NEW c \in Chunks, Locks(s, c),
           session[s].pc # "idle", ~HeldElsewhere(s, c),
           Reaches(Locked(session[s], c)), UNCHANGED <<vector, made>>
    PROVE  IInv'
  <1> DEFINE q == Locked(session[s], c)
  <1>1. session[s] \in Session /\ Fits(session[s], made)
    BY DEF IInv, TypeOK
  <1>2. /\ q \in Session
        /\ q.pc = session[s].pc /\ q.generation = session[s].generation
        /\ q.vectors = session[s].vectors /\ q.inserted = session[s].inserted
        /\ q.todo = session[s].todo \ {c}
        /\ q.held = IF c \in Present THEN session[s].held \cup {c} ELSE session[s].held
    BY <1>1, LockedFields
  <1>3. session' = [session EXCEPT ![s] = q]
    BY DEF Locks, Locked, IInv, TypeOK
  <1>4. made \in 0 .. MaxGenerations /\ made' = made /\ made <= made'
    BY ChunkAssumption DEF IInv, TypeOK
  <1> HIDE DEF q
  <1>5. Fits(q, made')
    BY <1>1, <1>2, <1>4 DEF Fits
  <1>6. ASSUME NEW t \in Sessions \ {s}
        PROVE  Apart(q, session[t]) /\ Apart(session[t], q)
    <2>1. c \notin session[t].held
      BY DEF HeldElsewhere, Others
    <2>2. Apart(session[s], session[t]) /\ Apart(session[t], session[s])
      BY DEF IInv
    <2>3. QED
      BY <1>2, <2>1, <2>2 DEF Apart
  <1>7. Reaches(q)
    BY DEF q
  <1>8. made' \in 0 .. MaxGenerations
    BY <1>4
  <1>9. QED
    BY <1>2, <1>3, <1>4, <1>5, <1>6, <1>7, <1>8, SessionStep

\* DELETE takes the rows in any order.
LEMMA DeleteRowKeeps ==
    ASSUME IInv, NEW s \in Sessions, NEW c \in Chunks, DeleteRow(s, c)
    PROVE  IInv'
  <1>1. session[s] \in Session /\ session[s].pc = "deleting"
    BY DEF IInv, TypeOK, DeleteRow
  <1>2. Reaches(Locked(session[s], c))
    BY <1>1, LockedFields DEF Reaches
  <1>3. Locks(s, c) /\ ~HeldElsewhere(s, c) /\ UNCHANGED <<vector, made>>
    BY DEF DeleteRow
  <1>4. QED
    BY <1>1, <1>2, <1>3, LockKeeps

\* UPDATE takes them in the order of their seq.
LEMMA UpdateRowKeeps ==
    ASSUME IInv, NEW s \in Sessions, NEW c \in Chunks, UpdateRow(s, c)
    PROVE  IInv'
  <1> DEFINE p == session[s]
             q == Locked(p, c)
  <1>1. p \in Session /\ p.pc = "updating" /\ Reaches(p)
    BY DEF IInv, TypeOK, UpdateRow
  <1>2. c \in p.todo /\ \A d \in p.todo : c.seq <= d.seq
    BY DEF UpdateRow, InOrder
  <1>3. /\ q.pc = p.pc /\ q.todo = p.todo \ {c}
        /\ q.held = IF c \in Present THEN p.held \cup {c} ELSE p.held
    BY <1>1, LockedFields
  <1>4. \A d \in p.todo : d \in Chunks
    BY <1>1 DEF Session
  <1> HIDE DEF p, q
  <1>5. \A d \in p.todo : d.generation = c.generation
    BY <1>1, <1>2 DEF Reaches
  <1>6. \A d \in p.todo : d # c => d.seq # c.seq
    BY <1>4, <1>5 DEF Chunks
  <1>7. \A d \in q.todo : c.seq < d.seq
    BY <1>2, <1>3, <1>4, <1>6 DEF Chunks, Seqs
  <1>8. Reaches(q)
    <2>1. \/ Present \subseteq q.held \cup q.todo
          \/ q.held = {} /\ q.todo \cap Present = {}
      BY <1>1, <1>2, <1>3 DEF Reaches
    <2>2. \A b \in q.held, d \in q.todo : b.seq < d.seq
      BY <1>1, <1>3, <1>7 DEF Reaches
    <2>3. \A b, d \in q.todo : b.generation = d.generation
      BY <1>1, <1>3 DEF Reaches
    <2>4. QED
      BY <2>1, <2>2, <2>3 DEF Reaches
  <1>9. Locks(s, c) /\ ~HeldElsewhere(s, c) /\ UNCHANGED <<vector, made>>
    BY DEF UpdateRow
  <1>10. QED
    BY <1>1, <1>8, <1>9, LockKeeps DEF p, q

\* The rows are deleted and stay locked while the texts are embedded.
LEMMA StartInsertKeeps ==
    ASSUME IInv, NEW s \in Sessions, StartInsert(s)
    PROVE  IInv'
  <1>1. session[s] \in Session /\ session[s].pc = "deleting" /\ Fits(session[s], made)
    BY DEF IInv, TypeOK, StartInsert
  <1>2. session' = [session EXCEPT ![s].pc = "inserting"] /\ UNCHANGED <<vector, made>>
    BY DEF StartInsert
  <1>3. PICK q : q = [session[s] EXCEPT !.pc = "inserting"]
    OBVIOUS
  <1>4. /\ q \in Session /\ q.pc = "inserting" /\ q.generation = session[s].generation
        /\ q.vectors = session[s].vectors /\ q.todo = session[s].todo
        /\ q.held = session[s].held /\ q.inserted = session[s].inserted
    BY <1>1, <1>3 DEF Session
  <1>5. session' = [session EXCEPT ![s] = q]
    BY <1>2, <1>3 DEF IInv, TypeOK
  <1>6. made \in 0 .. MaxGenerations /\ made' = made /\ made <= made'
    BY <1>2, ChunkAssumption DEF IInv, TypeOK
  <1>7. Fits(q, made')
    BY <1>1, <1>4, <1>6 DEF Fits
  <1>8. Reaches(q)
    BY <1>4 DEF Reaches
  <1>9. \A t \in Sessions \ {s} : Apart(q, session[t]) /\ Apart(session[t], q)
    BY <1>4 DEF IInv, Apart
  <1>10. made' \in 0 .. MaxGenerations
    BY <1>6
  <1>11. QED
    BY <1>2, <1>4, <1>5, <1>6, <1>7, <1>8, <1>9, <1>10, SessionStep

\* The next seq is one of the text's.
LEMMA NextSeqType ==
    ASSUME IInv, NEW s \in Sessions, NextSeq(s) <= ChunkCount
    PROVE  NextSeq(s) \in Seqs
  <1>1. session[s].inserted \subseteq Seqs
    BY DEF IInv, TypeOK, Session
  <1>2. IsFiniteSet(Seqs)
    BY ChunkAssumption, FS_Interval DEF Seqs
  <1>3. Cardinality(session[s].inserted) \in Nat
    BY <1>1, <1>2, FS_Subset, FS_CardinalityType
  <1>4. QED
    BY <1>3, ChunkAssumption DEF NextSeq, Seqs

\* An insertion waits for the rows in doubt and fails on one that stays.
LEMMA InsertRowKeeps ==
    ASSUME IInv, NEW s \in Sessions, InsertRow(s)
    PROVE  IInv'
  <1> DEFINE n == NextSeq(s)
  <1>1. n \in Seqs
    BY NextSeqType DEF InsertRow
  <1>2. UNCHANGED <<vector, made>>
    BY DEF InsertRow
  <1>3. CASE SeqTaken(s, n)
    BY <1>2, <1>3, EndKeeps DEF InsertRow
  <1>4. CASE ~SeqTaken(s, n)
    <2>1. session[s] \in Session /\ session[s].pc = "inserting" /\ Fits(session[s], made)
      BY DEF IInv, TypeOK, InsertRow
    <2>2. session' = [session EXCEPT ![s].inserted = @ \cup {n}]
      BY <1>4 DEF InsertRow
    <2>3. ~SeqInDoubt(s, n)
      BY DEF InsertRow
    <2> HIDE DEF n
    <2>4. PICK q : q = [session[s] EXCEPT !.inserted = @ \cup {n}]
      OBVIOUS
    <2>5. /\ q \in Session /\ q.pc = "inserting" /\ q.generation = session[s].generation
          /\ q.vectors = session[s].vectors /\ q.todo = session[s].todo
          /\ q.held = session[s].held /\ q.inserted = session[s].inserted \cup {n}
      BY <1>1, <2>1, <2>4 DEF Session
    <2>6. session' = [session EXCEPT ![s] = q]
      BY <2>2, <2>4 DEF IInv, TypeOK
    <2>7. made \in 0 .. MaxGenerations /\ made' = made /\ made <= made'
      BY <1>2, ChunkAssumption DEF IInv, TypeOK
    <2>8. \A c \in Present \ q.held : c.seq \notin q.inserted
      BY <1>4, <2>1, <2>5 DEF SeqTaken, Fits
    <2>9. Fits(q, made')
      BY <2>1, <2>5, <2>7, <2>8 DEF Fits
    <2>10. Reaches(q)
      BY <2>5 DEF Reaches
    <2>11. \A t \in Sessions \ {s} : n \notin session[t].inserted
      BY <2>3 DEF SeqInDoubt, Others
    <2>12. \A t \in Sessions \ {s} : Apart(q, session[t]) /\ Apart(session[t], q)
      BY <2>5, <2>11 DEF IInv, Apart
    <2>13. made' \in 0 .. MaxGenerations /\ UNCHANGED vector
      BY <1>2, <2>7
    <2>14. QED
      BY <2>5, <2>6, <2>7, <2>9, <2>10, <2>12, <2>13, SessionStep
  <1>5. QED
    BY <1>3, <1>4

\* A re-indexing finds the chunks of one generation.
LEMMA StartReindexKeeps ==
    ASSUME IInv, NEW s \in Sessions, StartReindex(s)
    PROVE  IInv'
  <1>1. PICK vectors \in EmbeddedTogether :
            session' = [session EXCEPT ![s] =
                [IdleSession EXCEPT !.pc = "updating", !.vectors = vectors, !.todo = Present]]
    BY DEF StartReindex
  <1>2. UNCHANGED <<vector, made>>
    BY DEF StartReindex
  <1>3. PICK q : q = [IdleSession EXCEPT !.pc = "updating", !.vectors = vectors,
                                         !.todo = Present]
    OBVIOUS
  <1>4. /\ q.pc = "updating" /\ q.generation = 0 /\ q.todo = Present
        /\ q.vectors = vectors /\ q.held = {} /\ q.inserted = {}
    BY <1>3 DEF IdleSession
  <1>5. Uniform(vectors) /\ vectors \in [Seqs -> Spaces]
    BY DEF Uniform, EmbeddedTogether
  <1>6. q \in Session
    BY <1>3, <1>5 DEF IdleSession, Session, Present
  <1>7. made \in 0 .. MaxGenerations /\ made' = made /\ made \in Nat /\ made <= made'
    BY <1>2, ChunkAssumption DEF IInv, TypeOK
  <1>8. \A c \in Present : c.generation <= made /\ c.generation # 0
    BY DEF IInv, Present, Chunks, Generations
  <1>9. Fits(q, made')
    BY <1>4, <1>5, <1>7, <1>8 DEF Fits
  <1>10. \A c, d \in Present : c.generation = d.generation
    BY PresentAlike
  <1>11. Reaches(q)
    BY <1>4, <1>10 DEF Reaches
  <1>12. \A t \in Sessions \ {s} : Apart(q, session[t]) /\ Apart(session[t], q)
    <2>1. \A t \in Sessions : \A c \in session[t].todo : c.generation # 0
      BY DEF IInv, TypeOK, Session, Chunks, Generations
    <2>2. \A t \in Sessions : \A c \in Present : c.generation # session[t].generation
      BY DEF IInv, Fits
    <2>3. QED
      BY <1>4, <2>1, <2>2 DEF Apart
  <1>13. session' = [session EXCEPT ![s] = q] /\ made' \in 0 .. MaxGenerations
    BY <1>1, <1>3, <1>7
  <1>14. QED
    BY <1>2, <1>6, <1>7, <1>9, <1>11, <1>12, <1>13, SessionStep

-----------------------------------------------------------------------------
(* Commits *)

\* What a whole text of generation g makes of the rows there are.
LEMMA ShowsPresent ==
    ASSUME NEW g \in Generations, NEW v \in Spaces, Shows(g, v)
    PROVE  Present = {c \in Chunks : c.generation = g}
  BY ChunkAssumption DEF Shows, Present

\* A replacement that has inserted every seq holds every row there was, and no
\* other transaction holds or has inserted any.
LEMMA ReplacementAlone ==
    ASSUME IInv, NEW s \in Sessions, CommitReplacement(s)
    PROVE  /\ Present \subseteq session[s].held
           /\ \A t \in Sessions \ {s} : session[t].held = {} /\ session[t].inserted = {}
  <1>1. session[s].inserted = Seqs /\ Fits(session[s], made)
    BY DEF CommitReplacement, IInv
  <1>2. \A c \in Present : c.seq \in Seqs
    BY DEF Present, Chunks
  <1>3. Present \subseteq session[s].held
    BY <1>1, <1>2 DEF Fits
  <1>4. ASSUME NEW t \in Sessions \ {s}
        PROVE  session[t].held = {} /\ session[t].inserted = {}
    <2>1. Fits(session[t], made) /\ Apart(session[s], session[t])
      BY DEF IInv
    <2>2. session[t].inserted \subseteq Seqs
      BY DEF IInv, TypeOK, Session
    <2>3. QED
      BY <1>1, <1>3, <2>1, <2>2 DEF Fits, Apart
  <1>5. QED
    BY <1>3, <1>4

\* The new text is shown as a whole.
LEMMA ReplacementShows ==
    ASSUME IInv, NEW s \in Sessions, CommitReplacement(s)
    PROVE  /\ \E g \in Generations, v \in Spaces :
                 g = session[s].generation /\ Shows(g, v)'
           /\ vector' \in [Chunks -> Spaces \cup {NoSpace}]
  <1>1. session[s] \in Session /\ session[s].pc = "inserting" /\ Fits(session[s], made)
    BY DEF IInv, TypeOK, CommitReplacement
  <1>2. PICK g \in Generations : g = session[s].generation
    BY <1>1 DEF Fits
  <1>3. PICK v \in Spaces : session[s].vectors = [q \in Seqs |-> v]
    BY <1>1 DEF Fits, Uniform
  <1>4. vector' = [c \in Chunks |->
                    CASE c.generation = g -> session[s].vectors[c.seq]
                      [] c.generation # g /\ c \in session[s].held -> NoSpace
                      [] OTHER -> vector[c]]
    BY <1>2 DEF CommitReplacement
  <1>5. \A c \in Chunks : c.seq \in Seqs
    BY DEF Chunks
  <1>6. Present \subseteq session[s].held
    BY ReplacementAlone
  <1>7. \A c \in Chunks : vector'[c] = IF c.generation = g THEN v ELSE NoSpace
    <2> SUFFICES ASSUME NEW c \in Chunks
                 PROVE  vector'[c] = IF c.generation = g THEN v ELSE NoSpace
      OBVIOUS
    <2>1. CASE c.generation = g
      BY <1>3, <1>4, <1>5, <2>1
    <2>2. CASE c.generation # g /\ c \in session[s].held
      BY <1>4, <2>2
    <2>3. CASE c.generation # g /\ c \notin session[s].held
      BY <1>4, <1>6, <2>3 DEF Present
    <2>4. QED
      BY <2>1, <2>2, <2>3
  <1>8. Shows(g, v)'
    BY <1>7 DEF Shows
  <1>9. vector' = [c \in Chunks |-> vector'[c]]
    BY <1>4
  <1>10. vector' \in [Chunks -> Spaces \cup {NoSpace}]
    BY <1>7, <1>9
  <1>11. QED
    BY <1>2, <1>8, <1>10

\* The transactions that go on have found only rows of other generations.
LEMMA CommitReplacementKeeps ==
    ASSUME IInv, NEW s \in Sessions, CommitReplacement(s)
    PROVE  IInv'
  <1>1. vector' \in [Chunks -> Spaces \cup {NoSpace}]
    BY ReplacementShows
  <1>2. PICK g \in Generations, v \in Spaces : g = session[s].generation /\ Shows(g, v)'
    BY ReplacementShows
  <1>3. Present' = {c \in Chunks : c.generation = g}
    BY <1>2, ChunkAssumption DEF Shows, Present
  <1>4. session' = [session EXCEPT ![s] = IdleSession] /\ made' = made
    BY DEF CommitReplacement, Ends
  <1>5. \A t \in Sessions : session'[t] = IF t = s THEN IdleSession ELSE session[t]
    BY <1>4 DEF IInv, TypeOK
  <1>6. TypeOK'
    BY <1>1, <1>4, IdleType DEF IInv, TypeOK
  <1>7. Whole'
    BY <1>1, <1>2 DEF Whole, Shows
  <1>8. made \in Nat /\ Fits(session[s], made)
    BY ChunkAssumption DEF IInv, TypeOK
  <1>9. g <= made /\ \A c \in Present' : c.generation <= made'
    BY <1>2, <1>3, <1>4, <1>8 DEF Fits
  <1>10. \A c \in Chunks : c.generation # 0
    BY DEF Chunks, Generations
  <1>11. ASSUME NEW t \in Sessions
         PROVE  Fits(session[t], made)' /\ Reaches(session[t])'
    <2>1. CASE t = s
      <3>1. session'[t] = IdleSession
        BY <1>5, <2>1
      <3>2. QED
        BY <1>3, <1>4, <1>8, <1>10, <3>1 DEF Fits, Reaches, IdleSession
    <2>2. CASE t # s
      <3>1. session'[t] = session[t]
        BY <1>5, <2>2
      <3>2. Fits(session[t], made) /\ Apart(session[s], session[t]) /\ Reaches(session[t])
            /\ Apart(session[t], session[s])
        BY <2>2 DEF IInv
      <3>3. session[t].held = {} /\ session[t].inserted = {}
        BY <2>2, ReplacementAlone
      <3>4. g # session[t].generation /\ \A c \in session[t].todo : c.generation # g
        BY <1>2, <3>2 DEF Apart, Generations
      <3>5. Fits(session[t], made)'
        BY <1>3, <1>4, <3>1, <3>2, <3>3, <3>4 DEF Fits
      <3>6. Reaches(session[t])'
        BY <1>3, <3>1, <3>2, <3>3, <3>4 DEF Reaches
      <3>7. QED
        BY <3>5, <3>6
    <2>3. QED
      BY <2>1, <2>2
  <1>12. \A t, u \in Sessions : t # u => Apart(session'[t], session'[u])
    BY <1>5, <1>8, IdleFits DEF IInv
  <1>13. \A t, u \in Sessions : (t # u => Apart(session[t], session[u]))'
    BY <1>12 DEF Apart
  <1>14. QED
    BY <1>6, <1>7, <1>9, <1>11, <1>13 DEF IInv

\* A re-indexing that has reached all its rows renews the whole text or nothing.
LEMMA ReindexShows ==
    ASSUME IInv, NEW s \in Sessions, CommitReindex(s)
    PROVE  /\ Present' = Present
           /\ vector' \in [Chunks -> Spaces \cup {NoSpace}]
           /\ \/ vector' = vector
              \/ \E g \in Generations, v, w \in Spaces : Shows(g, v) /\ Shows(g, w)'
  <1>1. /\ session[s] \in Session /\ session[s].pc = "updating" /\ session[s].todo = {}
        /\ Fits(session[s], made) /\ Reaches(session[s])
    BY DEF IInv, TypeOK, CommitReindex, AllUpdated
  <1>2. PICK w \in Spaces : session[s].vectors = [q \in Seqs |-> w]
    BY <1>1 DEF Fits, Uniform
  <1>3. vector' = [c \in Chunks |-> IF c \in session[s].held
                                    THEN session[s].vectors[c.seq] ELSE vector[c]]
    BY DEF CommitReindex
  <1>4. \A c \in Chunks : c.seq \in Seqs
    BY DEF Chunks
  <1>5. vector' = [c \in Chunks |-> IF c \in session[s].held THEN w ELSE vector[c]]
    BY <1>2, <1>3, <1>4
  <1>6. vector \in [Chunks -> Spaces \cup {NoSpace}] /\ w # NoSpace
    BY ChunkAssumption DEF IInv, TypeOK
  <1>7. session[s].held \subseteq Present
    BY <1>1 DEF Fits
  <1>8. Present' = Present
    BY <1>5, <1>6, <1>7 DEF Present
  <1>9. vector' \in [Chunks -> Spaces \cup {NoSpace}]
    BY <1>5, <1>6
  <1>10. CASE session[s].held = {}
    BY <1>5, <1>6, <1>8, <1>9, <1>10
  <1>11. CASE session[s].held # {}
    <2>1. Present \subseteq session[s].held
      BY <1>1, <1>11 DEF Reaches
    <2>2. Present # {}
      BY <1>7, <1>11
    <2>3. PICK g \in Generations, v \in Spaces :
              Shows(g, v) /\ Present = {c \in Chunks : c.generation = g}
      BY <2>2, PresentAlike
    <2>4. \A c \in Chunks : vector'[c] = IF c.generation = g THEN w ELSE NoSpace
      BY <1>5, <1>7, <2>1, <2>3 DEF Shows
    <2>5. Shows(g, w)'
      BY <2>4 DEF Shows
    <2>6. QED
      BY <1>8, <1>9, <2>3, <2>5
  <1>12. QED
    BY <1>10, <1>11

\* The rows there are stay the same ones.
LEMMA CommitReindexKeeps ==
    ASSUME IInv, NEW s \in Sessions, CommitReindex(s)
    PROVE  IInv'
  <1>1. Present' = Present /\ vector' \in [Chunks -> Spaces \cup {NoSpace}]
    BY ReindexShows
  <1>2. session' = [session EXCEPT ![s] = IdleSession] /\ made' = made
    BY DEF CommitReindex, Ends
  <1>3. \A t \in Sessions : session'[t] = IF t = s THEN IdleSession ELSE session[t]
    BY <1>2 DEF IInv, TypeOK
  <1>4. TypeOK'
    BY <1>1, <1>2, IdleType DEF IInv, TypeOK
  <1>5. Whole'
    <2>1. CASE vector' = vector
      BY <2>1 DEF IInv, Whole, Shows, Present
    <2>2. CASE \E g \in Generations, v, w \in Spaces : Shows(g, v) /\ Shows(g, w)'
      BY <2>2 DEF Whole, Shows
    <2>3. QED
      BY <2>1, <2>2, ReindexShows
  <1>6. made \in Nat
    BY ChunkAssumption DEF IInv, TypeOK
  <1>7. Fits(IdleSession, made) /\ Reaches(IdleSession)
    BY <1>6, IdleFits
  <1>8. \A t \in Sessions : Fits(session'[t], made) /\ Reaches(session'[t])
    BY <1>3, <1>7 DEF IInv
  <1>9. \A t \in Sessions : Fits(session[t], made)' /\ Reaches(session[t])'
    <2>1. \A t \in Sessions : Fits(session[t], made)' <=> Fits(session'[t], made)
      BY <1>1, <1>2 DEF Fits
    <2>2. \A t \in Sessions : Reaches(session[t])' <=> Reaches(session'[t])
      BY <1>1 DEF Reaches
    <2>3. QED
      BY <1>8, <2>1, <2>2
  <1>10. \A t, u \in Sessions : t # u => Apart(session'[t], session'[u])
    BY <1>3, <1>6, IdleFits DEF IInv
  <1>11. \A t, u \in Sessions : (t # u => Apart(session[t], session[u]))'
    BY <1>10 DEF Apart
  <1>12. \A c \in Present' : c.generation <= made'
    BY <1>1, <1>2 DEF IInv
  <1>13. QED
    BY <1>4, <1>5, <1>9, <1>11, <1>12 DEF IInv

-----------------------------------------------------------------------------
(* The invariant *)

\* No chunk, no transaction.
LEMMA Initially == Init => IInv
  <1> SUFFICES ASSUME Init PROVE IInv
    OBVIOUS
  <1>1. Present = {}
    BY DEF Init, Present
  <1>2. TypeOK
    BY IdleType, ChunkAssumption DEF Init, TypeOK
  <1>3. \A s \in Sessions : session[s] = IdleSession
    BY DEF Init
  <1>4. QED
    BY <1>1, <1>2, <1>3 DEF IInv, Whole, Fits, Reaches, Apart, IdleSession, Init

\* The invariant is kept by every step.
LEMMA Inductive == IInv /\ [Next]_vars => IInv'
  <1> SUFFICES ASSUME IInv, [Next]_vars PROVE IInv'
    OBVIOUS
  <1>1. CASE UNCHANGED vars
    BY <1>1 DEF vars, IInv, TypeOK, Whole, Shows, Present, Fits, Reaches, Apart
  <1>2. ASSUME NEW s \in Sessions, GiveUp(s)
        PROVE  IInv'
    BY <1>2, EndKeeps DEF GiveUp
  <1>3. QED
    BY <1>1, <1>2, StartDeleteKeeps, StartInsertKeeps, InsertRowKeeps,
       CommitReplacementKeeps, StartReindexKeeps, CommitReindexKeeps,
       DeleteRowKeeps, UpdateRowKeeps DEF Next

\* The inductive invariant holds throughout.
THEOREM Invariance == Spec => []IInv
  BY Initially, Inductive, PTL DEF Spec

-----------------------------------------------------------------------------
(* Theorems *)

\* Rows and transactions have their types.
THEOREM ChunkVectorsTypeCorrect == Spec => []TypeOK
  <1>1. IInv => TypeOK
    BY DEF IInv
  <1>2. QED
    BY <1>1, Invariance, PTL

\* A transaction with nothing left to lock waits for nobody.
LEMMA NothingToWaitFor ==
    ASSUME NEW s, session[s].todo = {}
    PROVE  \A t : ~WaitsFor(s, t)
  BY DEF WaitsFor, InOrder

\* A set of numbers has a least one: finite sets are well-founded under strict
\* inclusion, and 0 .. n is within 0 .. m only when n is no greater than m.
LEMMA LeastNumber ==
    ASSUME NEW numbers \in SUBSET Nat, numbers # {}
    PROVE  \E n \in numbers : \A m \in numbers : n <= m
  <1> DEFINE intervals == {0 .. n : n \in numbers}
  <1>1. intervals # {} /\ intervals \subseteq FiniteSubsetsOf(Nat)
    <2>1. ASSUME NEW n \in numbers
          PROVE  0 .. n \in FiniteSubsetsOf(Nat)
      <3>1. n \in Int /\ 0 \in Int
        OBVIOUS
      <3>2. IsFiniteSet(0 .. n)
        BY <3>1, FS_Interval
      <3>3. QED
        BY <3>2 DEF FiniteSubsetsOf
    <2>2. QED
      BY <2>1
  <1>2. IsWellFoundedOn(StrictSubsetOrdering(Nat), FiniteSubsetsOf(Nat))
    BY FS_StrictSubsetOrderingWellFounded
  <1> HIDE DEF intervals
  <1>3. PICK least \in intervals :
            \A other \in intervals : <<other, least>> \notin StrictSubsetOrdering(Nat)
    BY <1>1, <1>2, WFMin
  <1>4. PICK n \in numbers : least = 0 .. n
    BY DEF intervals
  <1>5. ASSUME NEW m \in numbers, m < n
        PROVE  FALSE
    <2>1. 0 .. m \in intervals /\ 0 .. m \subseteq 0 .. n /\ 0 .. m # 0 .. n
      BY <1>5 DEF intervals
    <2>2. <<0 .. m, least>> \in StrictSubsetOrdering(Nat)
      BY <1>4, <2>1 DEF StrictSubsetOrdering
    <2>3. QED
      BY <1>3, <2>1, <2>2
  <1>6. QED
    BY <1>4, <1>5

\* Rows that are left have a first one.
LEMMA FirstOne ==
    ASSUME NEW todo \in SUBSET Chunks, todo # {}
    PROVE  InOrder(todo) # {}
  <1> DEFINE seqs == {c.seq : c \in todo}
  <1>1. seqs \subseteq Nat /\ seqs # {}
    BY DEF Chunks, Seqs
  <1>2. PICK n \in seqs : \A m \in seqs : n <= m
    BY <1>1, LeastNumber
  <1>3. PICK c \in todo : c.seq = n
    BY <1>2
  <1>4. \A d \in todo : c.seq <= d.seq
    BY <1>2, <1>3
  <1>5. QED
    BY <1>3, <1>4 DEF InOrder

\* Re-indexings lock rows in the order of their seq, so the one that has come
\* furthest waits for none of the others: a row another one holds lies before
\* the row that one needs next.
LEMMA FurthestWaitsForNone == IInv => ReindexingsDoNotDeadlock
  <1> SUFFICES ASSUME IInv,
                      NEW group \in SUBSET {s \in Sessions : session[s].pc = "updating"},
                      group # {}
               PROVE  \E s \in group : \A t \in group \ {s} : ~WaitsFor(s, t)
    BY DEF ReindexingsDoNotDeadlock
  <1>1. CASE \E s \in group : session[s].todo = {}
    BY <1>1, NothingToWaitFor
  <1>2. CASE \A s \in group : session[s].todo # {}
    <2>1. \A s \in group : session[s].todo \subseteq Chunks /\ Reaches(session[s])
                           /\ session[s].pc = "updating"
      BY DEF IInv, TypeOK, Session
    <2>2. \A s \in group : InOrder(session[s].todo) # {}
      BY <1>2, <2>1, FirstOne
    <2> DEFINE Left(c) == ChunkCount - c.seq
               rest == {m \in Nat : \E s \in group : \E c \in InOrder(session[s].todo) :
                                  m = Left(c)}
    <2>3. \A s \in group : \A c \in InOrder(session[s].todo) :
              c.seq \in Nat /\ Left(c) \in Nat
      BY <2>1, ChunkAssumption DEF InOrder, Chunks, Seqs
    <2>4. rest \in SUBSET Nat /\ rest # {}
      <3>1. PICK s \in group : TRUE
        OBVIOUS
      <3>2. PICK c \in InOrder(session[s].todo) : TRUE
        BY <2>2
      <3>3. Left(c) \in Nat
        BY <2>3
      <3>4. QED
        BY <3>3
    <2>5. PICK n \in rest : \A m \in rest : n <= m
      BY <2>4, LeastNumber
    <2>6. PICK s \in group : \E c \in InOrder(session[s].todo) : n = Left(c)
      BY <2>5
    <2>7. PICK b \in InOrder(session[s].todo) : n = Left(b)
      BY <2>6
    <2>8. ASSUME NEW t \in group \ {s}, WaitsFor(s, t)
          PROVE  FALSE
      <3>1. PICK c \in InOrder(session[s].todo) : c \in session[t].held
        BY <2>8 DEF WaitsFor
      <3>2. PICK d \in InOrder(session[t].todo) : TRUE
        BY <2>2
      <3>3. c.seq < d.seq
        BY <2>1, <3>1, <3>2 DEF Reaches, InOrder
      <3>4. c.seq <= b.seq /\ b.seq <= c.seq
        BY <2>7, <3>1 DEF InOrder
      <3>5. Left(d) \in rest
        BY <2>3, <3>2
      <3>6. Left(b) <= Left(d)
        BY <2>5, <2>7, <3>5
      <3>7. b.seq \in Nat /\ c.seq \in Nat /\ d.seq \in Nat
        BY <2>3, <2>7, <3>1, <3>2
      <3>8. QED
        BY <3>3, <3>4, <3>6, <3>7, ChunkAssumption
    <2>9. QED
      BY <2>8
  <1>3. QED
    BY <1>1, <1>2

\* Re-indexings of one document never wait for each other in a circle
\* (ORDER BY dc.seq in reindex_document).
THEOREM NoDeadlockHolds == Spec => []ReindexingsDoNotDeadlock
  BY Invariance, FurthestWaitsForNone, PTL

-----------------------------------------------------------------------------
(* The refinement *)

\* ShownWhole of the next state.
LEMMA ShownWholeNext ==
    ASSUME NEW g \in Generations, NEW v \in Spaces, Shows(g, v)'
    PROVE  ShownIndex' = [generation |-> g, space |-> v]
  <1>1. v # NoSpace /\ [generation |-> g, seq |-> 1] \in Chunks
    BY ChunkAssumption DEF Chunks, Seqs
  <1>2. [generation |-> g, seq |-> 1] \in Present'
    BY <1>1 DEF Present, Shows
  <1>3. \A c \in Present' : c.generation = g /\ vector'[c] = v
    BY DEF Present, Shows
  <1>4. (CHOOSE c \in Present' : TRUE) \in Present'
    BY <1>2
  <1>5. \E h \in Generations, w \in Spaces : Shows(h, w)'
    OBVIOUS
  <1>6. QED
    BY <1>2, <1>3, <1>4, <1>5 DEF ShownIndex, Shows, Present

\* Before the first text there is no index.
LEMMA NothingShown == Present = {} => ShownIndex = NoIndex
  BY DEF ShownIndex

\* A committed replacement stores another text.
LEMMA ReplacementStores ==
    ASSUME IInv, NEW s \in Sessions, CommitReplacement(s)
    PROVE  \E g \in Generations, v \in Spaces : Index!Store(g, v)
  <1>1. PICK g \in Generations, v \in Spaces : g = session[s].generation /\ Shows(g, v)'
    BY ReplacementShows
  <1>2. ShownIndex' = [generation |-> g, space |-> v]
    BY <1>1, ShownWholeNext
  <1>3. ShownIndex # NoIndex => ShownIndex.generation # g
    <2>1. SUFFICES ASSUME Present # {}
                   PROVE  ShownIndex.generation # g
      BY NothingShown
    <2>2. PICK h \in Generations, w \in Spaces :
              Shows(h, w) /\ \A c \in Present : c.generation = h
      BY <2>1, PresentAlike
    <2>3. ShownIndex = [generation |-> h, space |-> w]
      BY <2>2, ShownWhole
    <2>4. \A c \in Present : c.generation # g
      BY <1>1 DEF IInv, Fits
    <2>5. QED
      BY <2>1, <2>2, <2>3, <2>4
  <1>4. QED
    BY <1>2, <1>3 DEF Index!Store

\* A committed re-indexing renews the vectors of the text or changes nothing.
LEMMA ReindexReembeds ==
    ASSUME IInv, NEW s \in Sessions, CommitReindex(s)
    PROVE  (\E v \in Spaces : Index!Reembed(v)) \/ ShownIndex' = ShownIndex
  <1>1. CASE vector' = vector
    BY <1>1 DEF ShownIndex, Shows, Present
  <1>2. CASE \E g \in Generations, v, w \in Spaces : Shows(g, v) /\ Shows(g, w)'
    <2>1. PICK g \in Generations, v \in Spaces, w \in Spaces : Shows(g, v) /\ Shows(g, w)'
      BY <1>2
    <2>2. ShownIndex = [generation |-> g, space |-> v]
      BY <2>1, ShownWhole
    <2>3. ShownIndex' = [generation |-> g, space |-> w]
      BY <2>1, ShownWholeNext
    <2>4. ShownIndex # NoIndex /\ ShownIndex.generation = g
      BY <2>2, IndexAssumption
    <2>5. QED
      BY <2>3, <2>4 DEF Index!Reembed
  <1>3. QED
    BY <1>1, <1>2, ReindexShows

\* Every step stores a text, renews its vectors or changes nothing a reader sees.
LEMMA StepImplements == IInv /\ [Next]_vars => [Index!Next]_ShownIndex
  <1> SUFFICES ASSUME IInv, [Next]_vars PROVE Index!Next \/ ShownIndex' = ShownIndex
    OBVIOUS
  <1>1. vector' = vector => ShownIndex' = ShownIndex
    BY DEF ShownIndex, Shows, Present
  <1>2. CASE UNCHANGED vars
    BY <1>1, <1>2 DEF vars
  <1>3. CASE Next
    <2>1. PICK s \in Sessions :
            \/ StartDelete(s) \/ StartInsert(s) \/ InsertRow(s) \/ CommitReplacement(s)
            \/ StartReindex(s) \/ CommitReindex(s) \/ GiveUp(s)
            \/ \E c \in Chunks : DeleteRow(s, c) \/ UpdateRow(s, c)
      BY <1>3 DEF Next
    <2>2. CASE CommitReplacement(s)
      BY <2>2, ReplacementStores DEF Index!Next
    <2>3. CASE CommitReindex(s)
      BY <2>3, ReindexReembeds DEF Index!Next
    <2>4. CASE ~CommitReplacement(s) /\ ~CommitReindex(s)
      <3>1. vector' = vector
        BY <2>1, <2>4 DEF StartDelete, StartInsert, InsertRow, StartReindex, GiveUp,
                          DeleteRow, UpdateRow
      <3>2. QED
        BY <1>1, <3>1
    <2>5. QED
      BY <2>2, <2>3, <2>4
  <1>4. QED
    BY <1>2, <1>3

\* The rows, as readers find them between the commits of overlapping
\* processings and re-indexings, are an index that holds one whole text in one
\* embedding space (IndexedText).
THEOREM IndexImplemented == Spec => ImplementsIndexedText
  <1>1. Init => Index!Init
    BY NothingShown DEF Init, Present, Index!Init
  <1>2. QED
    BY <1>1, Invariance, StepImplements, PTL
    DEF Spec, ImplementsIndexedText, Index!Spec

=============================================================================
