------------------------------ MODULE MCCases ------------------------------
(* One case, one person it can be assigned to, two requests in flight. *)
EXTENDS Cases, TLC

CaseSymmetry == Permutations(Sessions)
=============================================================================
