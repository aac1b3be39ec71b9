------------------------- MODULE MCSafetyPipeline -------------------------
(* Small instances of SafetyPipeline for TLC *)
EXTENDS SafetyPipeline

\* With three agents a judge is exactly at the threshold, with four above it
Two   == <<"critic", "responder">>
Three == <<"retriever", "critic", "responder">>
Four  == <<"critic", "retriever", "judge", "responder">>

MCSettings == {[team |-> Three, faults |-> {"overlap", "torn"}],
               [team |-> Three, faults |-> {"altered"}],
               [team |-> Two, faults |-> {"overlap", "cut", "torn"}],
               [team |-> Two, faults |-> {"fail", "overlap"}],
               [team |-> Four, faults |-> {}]}
=============================================================================
