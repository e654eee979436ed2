--------------------------- MODULE MCDocumentPages ---------------------------
(***************************************************************************)
(* The documents for the page walks and those for clone sets, every one     *)
(* both inspected and edited.                                               *)
(***************************************************************************)
EXTENDS DocumentPages

Walks == INSTANCE MCPageWalks
Clones == INSTANCE MCCloneSets

MCDocuments == Clones!MCDocuments \union Walks!MCDocuments

MCCompressedFirst == Walks!MCCompressedFirst
=============================================================================
