------------------------- MODULE MCInboundPipeline -------------------------
(* Two text messages and an audio message. *)
EXTENDS InboundPipeline, TLC

CONSTANTS text1, text2, audio, waste, roads

MCMessages == {text1, text2, audio}
MCTexts == {text1, text2}
DifferentWords == text1 :> waste @@ text2 :> roads
SameWords == text1 :> waste @@ text2 :> waste
SameSecond == [m \in MCMessages |-> 0]

TeamSymmetry == Permutations(Handlers) \cup Permutations(Workers)
=============================================================================
