------------------------ MODULE MCKnowledgeDocuments ------------------------
(* Two documents, the first of which can be processed again; both expire   *)
(* after the first day.                                                    *)
EXTENDS KnowledgeDocuments, TLC

CONSTANTS d1, d2

MCDocuments == {d1, d2}
AgainOnce == d1 :> 2 @@ d2 :> 1

TodayOnly == {<<0, 1>>}
=============================================================================
