----------------------------- MODULE Documents -----------------------------
(***************************************************************************)
(* Generation and routing share the document store: drafts generated by    *)
(* one set of calls are routed by another while more are generated.        *)
(***************************************************************************)
EXTENDS DocumentGen, DocumentRouting

documentsVars == <<docs, template, registered, versions, idem, gen, decisions, route>>

DocumentsInit == DocStoreInit /\ GenInit /\ RouteInit

DocumentsNext ==
    \/ GenNext /\ UNCHANGED routeVars
    \/ RouteNext /\ UNCHANGED genVars

DocumentsSpec == DocumentsInit /\ [][DocumentsNext]_documentsVars
=============================================================================
