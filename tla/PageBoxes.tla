------------------------------ MODULE PageBoxes ------------------------------
(***************************************************************************)
(* The page-box inspector: a page-tree walk of its own, with full           *)
(* resolution, that carries the inherited /MediaBox and /CropBox down and   *)
(* numbers the leaves itself.  Unlike the leaf walk it marks a node before  *)
(* it looks at the depth, has no node bound, and passes over failed and     *)
(* foreign kids without a word.                                             *)
(***************************************************************************)
EXTENDS PageTree

VARIABLES boxes     \* [index, pages, skips]

NoBoxes == [index |-> 0, pages |-> <<>>, skips |-> <<>>]

NoBox == [rect |-> "none", from |-> 0]

BoxSkips == {"CompressedLeafDictionary", "MissingEffectiveMediaBox", "DuplicateKey",
             "UnsupportedValueKind", "MalformedRectangle"}

----------------------------------------------------------------------------
(* A box of one dictionary; the nearest ancestor with a well-formed one.    *)

BoxEntry(ref, key) == RawEntry(Node(ref).body.entries, key)

InheritedBox(path, key) ==
    LET declaring == {i \in DOMAIN path : /\ Node(path[i]).at = "offset"
                                          /\ BoxEntry(path[i], key).kind = "rect"}
        nearest == CHOOSE i \in declaring : \A j \in declaring : j <= i IN
    IF declaring = {} THEN NoBox
    ELSE [rect |-> BoxEntry(path[nearest], key).rect, from |-> path[nearest][1]]

Effective(leaf, key) ==
    LET own == BoxEntry(leaf.ref, key) IN
    IF own.kind = "rect" THEN [box |-> [rect |-> own.rect, from |-> leaf.ref[1]], skip |-> "none"]
    ELSE IF own.kind = "absent" THEN [box |-> InheritedBox(leaf.path, key), skip |-> "none"]
    ELSE [box |-> NoBox,
          skip |-> IF own.kind = "duplicate" THEN "DuplicateKey"
                   ELSE IF own.kind = "array" THEN "MalformedRectangle"
                   ELSE "UnsupportedValueKind"]

LeafSkip(leaf) ==
    LET media == Effective(leaf, "MediaBox")
        crop == Effective(leaf, "CropBox") IN
    IF Node(leaf.ref).at = "member" THEN "CompressedLeafDictionary"
    ELSE IF media.skip # "none" THEN media.skip
    ELSE IF media.box = NoBox THEN "MissingEffectiveMediaBox"
    ELSE crop.skip

(* A page with no crop box of its own or above shows its media box.         *)
PageBoxesOf(leaf) ==
    LET media == Effective(leaf, "MediaBox").box
        crop == Effective(leaf, "CropBox").box IN
    [index |-> boxes.index, ref |-> leaf.ref, media |-> media,
     crop |-> IF crop = NoBox THEN [rect |-> media.rect, from |-> 0] ELSE crop]

----------------------------------------------------------------------------
BoxWalking == phase = "listed" /\ frames # <<>>
SkipBox(index, ref, reason) == [boxes EXCEPT !.skips = Append(@, <<index, ref, reason>>)]

(* Mutant: only a page whose boxes are read is numbered.                     *)
BoxLeafCountingGood ==
    LET leaf == [ref |-> Kid, path |-> Path] IN
    /\ BoxWalking /\ AtKid
    /\ KidType("listed", Kid) = "Page"
    /\ boxes' = IF LeafSkip(leaf) = "none"
                THEN [boxes EXCEPT !.pages = Append(@, PageBoxesOf(leaf)), !.index = @ + 1]
                ELSE SkipBox(boxes.index, leaf.ref, LeafSkip(leaf))
    /\ frames' = Advanced
    /\ UNCHANGED <<doc, phase, found, visited, spine, listing>>

BoxLeaf ==
    LET leaf == [ref |-> Kid, path |-> Path]
        judged == IF LeafSkip(leaf) = "none"
                  THEN [boxes EXCEPT !.pages = Append(@, PageBoxesOf(leaf))]
                  ELSE SkipBox(boxes.index, leaf.ref, LeafSkip(leaf)) IN
    /\ BoxWalking /\ AtKid
    /\ KidType("listed", Kid) = "Page"
    /\ boxes' = [judged EXCEPT !.index = @ + 1]
    /\ frames' = Advanced
    /\ UNCHANGED <<doc, phase, found, visited, spine, listing>>

BoxPass ==
    /\ BoxWalking /\ AtKid
    /\ KidType("listed", Kid) \in {"failed", "Other"}
    /\ frames' = Advanced
    /\ UNCHANGED <<doc, phase, found, visited, spine, listing, boxes>>

BoxDescend ==
    /\ BoxWalking /\ AtKid
    /\ KidType("listed", Kid) = "Pages"
    /\ visited' = visited \union {Kid[1]}
    /\ LET stop == IF Kid[1] \in visited THEN "Cycle"
                   ELSE IF ChildDepth > MaxDepth THEN "MaxDepth"
                   ELSE IF ~Expandable(Node(Kid).body) THEN "NodeExpansionFailed"
                   ELSE "none" IN
       IF stop = "none"
       THEN frames' = Append(Advanced, Frame(Kid)) /\ boxes' = boxes
       ELSE frames' = Advanced /\ boxes' = SkipBox(-1, Kid, stop)
    /\ UNCHANGED <<doc, phase, found, spine, listing>>

BoxReturn ==
    /\ BoxWalking /\ ~AtKid
    /\ frames' = Front(frames)
    /\ UNCHANGED <<doc, phase, found, visited, spine, listing, boxes>>

FinishBoxes ==
    /\ phase = "listed" /\ frames = <<>>
    /\ phase' = "report"
    /\ UNCHANGED <<doc, walk, spine, listing, boxes>>

BoxNext == BoxLeaf \/ BoxPass \/ BoxDescend \/ BoxReturn \/ FinishBoxes

----------------------------------------------------------------------------
(* The box inspector and document access number the same pages the same way,*)
(* so an edit addressed by page index reaches the page the caller counted:  *)
(* whatever cycles, shared nodes, failed kids and unreadable nodes the tree *)
(* has, as long as it is within the depth and node bounds.                  *)
WithinBounds == \A i \in DOMAIN spine.skips : spine.skips[i][3] \notin {"MaxDepth", "MaxVisitedNodes"}

BoxIndexIsLeafOrdinal ==
    phase \in {"report", "done"} /\ WithinBounds =>
        /\ boxes.index = Len(spine.leaves)
        /\ \A i \in DOMAIN boxes.pages :
               spine.leaves[boxes.pages[i].index + 1].ref = boxes.pages[i].ref
        /\ \A i \in DOMAIN boxes.skips : boxes.skips[i][1] # -1 =>
               spine.leaves[boxes.skips[i][1] + 1].ref = boxes.skips[i][2]
=============================================================================
