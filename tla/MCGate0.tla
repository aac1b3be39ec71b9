------------------------------- MODULE MCGate0 ------------------------------
EXTENDS Gate0Analysis

MCRoles == <<"retriever", "critic">>
MCKVUse == [arm \in {"A", "B", "C"} |-> IF arm = "B" THEN {16, 17, 19, 20} ELSE {20}]
=============================================================================
