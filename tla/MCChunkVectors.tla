--------------------------- MODULE MCChunkVectors ---------------------------
(* A document of three chunks, three requests, and an encoder that comes and *)
(* goes; and how texts of up to five lines are cut into chunks.              *)
EXTENDS ChunkVectors, Chunking, TLC

VectorSymmetry == Permutations(Sessions)

Lines ==
    {[kind |-> "empty", words |-> 0], [kind |-> "heading", words |-> 0],
     [kind |-> "heading", words |-> 1], [kind |-> "text", words |-> 1],
     [kind |-> "text", words |-> 3]}

\* structure_chunks gives the passages of every text (test_rag.py cuts one).
ASSUME ChunksArePassages ==
    \A n \in 0 .. 5 : \A text \in [1 .. n -> Lines] :
        LET lines == Labelled(text)
        IN  PassagesOf(lines, <<"title">>, StructureChunks(lines, <<"title">>))
=============================================================================
