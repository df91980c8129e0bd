------------------------ MODULE MCBlueprintTriggers -------------------------
EXTENDS BlueprintTriggers

\* A client's folder with one folder in it.
ClientPlan == <<<<"A">>, <<"A", "B">>>>

=============================================================================
