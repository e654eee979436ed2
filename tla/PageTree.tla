------------------------------- MODULE PageTree -------------------------------
(***************************************************************************)
(* Opening a document and walking its page tree.  Document access resolves  *)
(* the catalog and the page-tree root and enumerates the leaves with full   *)
(* object resolution (the "resolved" walk); the resource inspectors walk    *)
(* the tree again looking only at cross-reference offsets (the "offset"     *)
(* walk).  Every one of the page walkers of presslint-pdf repeats the same  *)
(* bounded depth-first loop: one step here handles one kid of the node on   *)
(* top of the stack, or returns from a finished node.                       *)
(*                                                                         *)
(* A leaf keeps the page-tree nodes it was reached through: what a walker   *)
(* carries down the tree is a fold over that path.                          *)
(***************************************************************************)
EXTENDS PdfValues, FiniteSets

CONSTANTS
    Documents,      \* the documents opened
    MaxDepth,       \* MAX_PAGE_TREE_DEPTH
    MaxNodes        \* MAX_VISITED_PAGE_TREE_NODES

ASSUME TreeBoundsAssumption == MaxDepth \in Nat /\ MaxNodes \in Nat \ {0}

VARIABLES
    doc,        \* [catalog, objects]: the trailer's /Root and the objects
    phase,      \* see Phases
    frames,     \* the nodes being expanded, root first: [node, kids, next]
    found,      \* the walk so far: [leaves, skips, truncated]
    visited,    \* object numbers of the /Pages nodes entered
    spine,      \* the finished resolved walk
    listing     \* the finished offset walk

walk == <<frames, found, visited>>
treeVars == <<doc, phase, walk, spine, listing>>

(* The walks; then the listed pages are inspected, or their forms copied.   *)
Phases ==
    {"open", "refused", "resolved", "offset", "listed"}
    \union {"report", "join", "done"}
    \union {"indexed", "bound", "planning", "staging", "staged", "exportRefused", "committed",
            "commitRefused"}

Objects == doc.objects
Node(ref) == Objects[ref[1]]
NothingFound == [leaves |-> <<>>, skips |-> <<>>, truncated |-> "none"]

SkipReasons == {"UnresolvedTarget", "OtherNodeType", "NodeExpansionFailed", "Cycle",
                "MaxDepth", "MaxVisitedNodes"}
Truncations == {"none", "Cycle", "MaxDepth", "MaxVisitedNodes"}

----------------------------------------------------------------------------
(* One node's dictionary.                                                   *)

NodeType(body) ==
    IF ~IsScanned(body) THEN "failed"
    ELSE LET type == RawEntry(body.entries, "Type") IN
         IF type.kind # "name" THEN "failed"
         ELSE IF type.name \in {"Page", "Pages"} THEN type.name
         ELSE "Other"

Expandable(body) ==
    /\ IsScanned(body)
    /\ RawEntry(body.entries, "Kids").kind = "array"
    /\ RawEntry(body.entries, "Count").kind = "number"

(* Only the references in /Kids become kids; other elements are set aside   *)
(* by the reader and never reach a walker.                                  *)
KidsOf(body) ==
    LET items == RawEntry(body.entries, "Kids").items
        references == SelectSeq(items, LAMBDA v : v.kind = "ref") IN
    [i \in DOMAIN references |-> references[i].ref]

(* Mutant: the resolved walk takes a number whatever its generation.         *)
ReachesAnyGeneration(mode, ref) ==
    IF mode = "offset" THEN HasOffset(Objects, ref) ELSE ref[1] \in DOMAIN Objects

Reaches(mode, ref) ==
    IF mode = "offset" THEN HasOffset(Objects, ref) ELSE ResolvesTo(Objects, ref)

KidType(mode, ref) == IF Reaches(mode, ref) THEN NodeType(Node(ref).body) ELSE "failed"

----------------------------------------------------------------------------
(* Document access: the catalog, its one raw /Pages reference, the root.    *)

CatalogPages ==
    IF ResolvesTo(Objects, doc.catalog) /\ IsScanned(Node(doc.catalog).body)
    THEN RawEntry(Node(doc.catalog).body.entries, "Pages")
    ELSE Absent

RootResolves ==
    /\ CatalogPages.kind = "ref"
    /\ ResolvesTo(Objects, CatalogPages.ref)
    /\ Expandable(Node(CatalogPages.ref).body)

Frame(ref) == [node |-> ref, kids |-> KidsOf(Node(ref).body), next |-> 1]

StartedAt(ref) ==
    /\ frames' = <<Frame(ref)>>
    /\ visited' = {ref[1]}
    /\ found' = NothingFound

Init ==
    /\ doc \in Documents
    /\ phase = "open"
    /\ frames = <<>> /\ visited = {} /\ found = NothingFound
    /\ spine = NothingFound /\ listing = NothingFound

OpenDocument ==
    /\ phase = "open"
    /\ RootResolves
    /\ phase' = "resolved"
    /\ StartedAt(CatalogPages.ref)
    /\ UNCHANGED <<doc, spine, listing>>

RefuseDocument ==
    /\ phase = "open"
    /\ ~RootResolves
    /\ phase' = "refused"
    /\ UNCHANGED <<doc, walk, spine, listing>>

----------------------------------------------------------------------------
(* The loop over kids.                                                      *)

Walking == phase \in {"resolved", "offset"} /\ frames # <<>>
Top == frames[Len(frames)]
AtKid == Top.next <= Len(Top.kids)
Kid == Top.kids[Top.next]
Path == [i \in DOMAIN frames |-> frames[i].node]
ChildDepth == Len(frames)

Advanced == [frames EXCEPT ![Len(frames)].next = @ + 1]
Skipped(reason) == [found EXCEPT !.skips = Append(@, <<Kid, Top.node, reason>>)]
StoppedBy(bound) ==
    [Skipped(bound) EXCEPT !.truncated = IF @ = "none" THEN bound ELSE @]

Recorded(f) == /\ frames' = Advanced /\ found' = f /\ UNCHANGED visited

VisitLeaf ==
    /\ Walking /\ AtKid
    /\ KidType(phase, Kid) = "Page"
    /\ Recorded([found EXCEPT !.leaves = Append(@, [ref |-> Kid, path |-> Path])])
    /\ UNCHANGED <<doc, phase, spine, listing>>

(* Mutant: a kid that fails is passed over without a skip.                   *)
SkipKidSilently ==
    /\ Walking /\ AtKid
    /\ \/ KidType(phase, Kid) = "failed" /\ Recorded(found)
       \/ KidType(phase, Kid) = "Other" /\ Recorded(Skipped("OtherNodeType"))
    /\ UNCHANGED <<doc, phase, spine, listing>>

SkipKid ==
    /\ Walking /\ AtKid
    /\ \/ KidType(phase, Kid) = "failed" /\ Recorded(Skipped("UnresolvedTarget"))
       \/ KidType(phase, Kid) = "Other" /\ Recorded(Skipped("OtherNodeType"))
    /\ UNCHANGED <<doc, phase, spine, listing>>

(* Mutant: one node more than the bound.                                     *)
BoundOnePast ==
    IF Kid[1] \in visited THEN "Cycle"
    ELSE IF ChildDepth > MaxDepth THEN "MaxDepth"
    ELSE IF Cardinality(visited) > MaxNodes THEN "MaxVisitedNodes"
    ELSE "none"

(* The bounds are tried in this order; the first to stop any descent is the *)
(* one the report carries.                                                  *)
Bound ==
    IF Kid[1] \in visited THEN "Cycle"
    ELSE IF ChildDepth > MaxDepth THEN "MaxDepth"
    ELSE IF Cardinality(visited) >= MaxNodes THEN "MaxVisitedNodes"
    ELSE "none"

StopDescent ==
    /\ Walking /\ AtKid
    /\ KidType(phase, Kid) = "Pages"
    /\ Bound # "none"
    /\ Recorded(StoppedBy(Bound))
    /\ UNCHANGED <<doc, phase, spine, listing>>

Descend ==
    /\ Walking /\ AtKid
    /\ KidType(phase, Kid) = "Pages"
    /\ Bound = "none"
    /\ visited' = visited \union {Kid[1]}
    /\ IF Expandable(Node(Kid).body)
       THEN frames' = Append(Advanced, Frame(Kid)) /\ found' = found
       ELSE frames' = Advanced /\ found' = Skipped("NodeExpansionFailed")
    /\ UNCHANGED <<doc, phase, spine, listing>>

Return ==
    /\ Walking /\ ~AtKid
    /\ frames' = Front(frames)
    /\ UNCHANGED <<doc, phase, found, visited, spine, listing>>

(* The resource inspectors start again from the root's offset; a root that  *)
(* is an object-stream member has none, and they report nothing.            *)
FinishResolved ==
    /\ phase = "resolved" /\ frames = <<>>
    /\ spine' = found
    /\ IF HasOffset(Objects, CatalogPages.ref)
       THEN phase' = "offset" /\ StartedAt(CatalogPages.ref)
       ELSE phase' = "listed" /\ StartedAt(CatalogPages.ref)
    /\ UNCHANGED <<doc, listing>>

FinishOffset ==
    /\ phase = "offset" /\ frames = <<>>
    /\ listing' = found
    /\ phase' = "listed"
    /\ StartedAt(CatalogPages.ref)
    /\ UNCHANGED <<doc, spine>>

TreeNext ==
    \/ OpenDocument \/ RefuseDocument
    \/ VisitLeaf \/ SkipKid \/ StopDescent \/ Descend \/ Return
    \/ FinishResolved \/ FinishOffset
=============================================================================
