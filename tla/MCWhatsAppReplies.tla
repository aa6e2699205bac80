------------------------- MODULE MCWhatsAppReplies -------------------------
(* A small office: one officer and two department heads, who all may edit, *)
(* and two texts long enough to submit besides the empty one.              *)
EXTENDS WhatsAppReplies, TLC

CONSTANTS officer, head1, head2, text1, text2, empty

MCUsers == {officer, head1, head2}
MCApprovers == {head1, head2}
MCBodies == {text1, text2, empty}
MCShort == {empty}

OfficeSymmetry == Permutations({head1, head2}) \cup Permutations({text1, text2})
                    \cup Permutations(Sessions) \cup Permutations(Refs)
=============================================================================
