---------------------------- MODULE DocumentPages ----------------------------
(***************************************************************************)
(* What is done with the pages of one document once the walks have listed   *)
(* them: they are inspected for the inventory (the boxes, the reports and   *)
(* their join), or the forms they share are bound, planned and copied.      *)
(* Each call of the library does one of the two, from the same walks.       *)
(***************************************************************************)
EXTENDS PageReports, CloneSets

documentVars == <<pageVars, bindingVars, cloneVars>>

DocumentInit == PageInit /\ CloneInit

Inspect == PageNext /\ UNCHANGED <<bindingVars, cloneVars>>

(* A call that edits walks no boxes.                                        *)
Edit ==
    /\ phase = "listed" => frames = <<Frame(CatalogPages.ref)>>
    /\ CloneNext
    /\ UNCHANGED <<boxes, reports, pages>>

DocumentNext == Inspect \/ Edit

DocumentSpec == DocumentInit /\ [][DocumentNext]_documentVars
=============================================================================
