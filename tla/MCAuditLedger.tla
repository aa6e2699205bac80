--------------------------- MODULE MCAuditLedger ---------------------------
(* Three transactions about a case of one tenant and a reply of another. *)
EXTENDS AuditLedger, TLC

CONSTANTS case1, reply2, municipality, utility

MCObjects == {case1, reply2}
MCTenantOf == [o \in MCObjects |-> IF o = case1 THEN municipality ELSE utility]

TxnSymmetry == Permutations(Txns)
=============================================================================
