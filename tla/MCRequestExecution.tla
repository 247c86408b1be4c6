------------------------- MODULE MCRequestExecution -------------------------
(* Small instances of RequestExecution: two keys, and values that refer to
   themselves, to each other and to nothing. *)
EXTENDS RequestExecutionProofs

MCValues == {<<>>, <<Literal, Dynamic>>, <<Ref(1)>>, <<Ref(2), Ref(2)>>}
MCAssignments == UNION {[K -> MCValues] : K \in SUBSET Keys}
MCEndpointTexts == {<<>>, <<Ref(1), Ref(1), Ref(2)>>, <<Ref(2), Dynamic, Ref(1)>>}
MCGlobals == {g \in MCAssignments : 1 \in DOMAIN g}
MCEnvironments == {e \in MCAssignments : 2 \in DOMAIN e}
MCOverrideSets == {NoVariables, [k \in {1} |-> <<Dynamic, Ref(2)>>]}
MCScriptTexts == {<<Literal>>, <<Dynamic, Ref(1)>>}
=============================================================================
