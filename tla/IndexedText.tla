----------------------------- MODULE IndexedText -----------------------------
(* What the index of one document promises a reader: one text at a time, all *)
(* of it with vectors of one embedding space.  A text comes as a whole and   *)
(* stays until another one comes; its vectors are renewed as a whole.        *)
CONSTANTS
    Generations,  \* texts of the document, in the order they were processed
    Spaces,       \* embedding spaces: vectors of different ones do not compare
    NoIndex

VARIABLE index

Init == index = NoIndex

Store(g, v) ==
    /\ index # NoIndex => index.generation # g
    /\ index' = [generation |-> g, space |-> v]

Reembed(v) ==
    /\ index # NoIndex
    /\ index' = [generation |-> index.generation, space |-> v]

Next ==
    \/ \E g \in Generations, v \in Spaces : Store(g, v)
    \/ \E v \in Spaces : Reembed(v)

Spec == Init /\ [][Next]_index
=============================================================================
