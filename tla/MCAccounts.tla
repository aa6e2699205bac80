------------------------------ MODULE MCAccounts ------------------------------
(* The founding administrator and one more account, with two roles that are *)
(* held in one of two units.                                                *)
EXTENDS Accounts

CONSTANTS officer, branch

\* The administrator's role in either unit, the officer's in the branch.
Requests == {<<{AdminRole}, unit>> : unit \in Units} \cup {<<{officer}, branch>>}
=============================================================================
