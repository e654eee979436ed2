------------------------------ MODULE PageReports ------------------------------
(***************************************************************************)
(* The neutral PDF inventory.  Document access numbers the pages and finds  *)
(* their content streams; the resource inspectors report on the leaves of   *)
(* their own walk; build_pdf_inventory joins the two, reads each page's     *)
(* content and hands the walker an environment per page.                    *)
(***************************************************************************)
EXTENDS ResourceClasses, FiniteSetsExt

VARIABLES
    reports,    \* one per leaf of the offset walk, in its order
    pages       \* the inventory: one per leaf of the resolved walk

pageVars == <<treeVars, boxes, reports, pages>>

----------------------------------------------------------------------------
(* Content streams. *)

(* /Contents: one reference, or an array whose other elements are set aside.*)
ContentsRead(body) ==
    LET value == RawEntry(body.entries, "Contents") IN
    IF value.kind = "ref" THEN Fine(<<value.ref>>)
    ELSE IF value.kind = "array"
         THEN LET references == SelectSeq(value.items, LAMBDA v : v.kind = "ref") IN
              Fine([i \in DOMAIN references |-> references[i].ref])
    ELSE IF value.kind = "absent" THEN Bad("MissingContents")
    ELSE IF value.kind = "duplicate" THEN Bad("DuplicateContents")
    ELSE Bad("MalformedContents")

ContentTarget(ref) == IF HasOffset(Objects, ref) THEN Fine(ref) ELSE Bad("TargetSkipped")

ContentExtent(ref) ==
    IF ~ContentTarget(ref).ok THEN ContentTarget(ref)
    ELSE IF ~ExtentFound(Objects, BodyAt(Objects, ref)) THEN Bad("ExtentFailed")
    ELSE Fine(ref)

DecodedContent(ref) ==
    IF ~ContentExtent(ref).ok THEN ContentExtent(ref)
    ELSE IF BodyAt(Objects, ref).filter \in {"none", "flate"} THEN Fine(ref)
    ELSE Bad("UnsupportedFilter")

(* A member leaf has no offset to report a failed /Contents at.             *)
PageExtents(ref) ==
    LET read == ContentsRead(Node(ref).body) IN
    IF read.ok THEN read
    ELSE IF Node(ref).at = "member" THEN Bad("CompressedLeaf")
    ELSE Bad("ContentsFailed")

(* The streams of a page in order, or the first thing wrong with them.      *)
PageContent(ref) ==
    LET extents == PageExtents(ref)
        streams == extents.class
        unread == {i \in DOMAIN streams : ~DecodedContent(streams[i]).ok} IN
    IF ~extents.ok THEN extents
    ELSE IF streams = <<>> THEN Bad("NoContentStreams")
    ELSE IF unread # {} THEN DecodedContent(streams[Min(unread)])
    ELSE extents

----------------------------------------------------------------------------
(* Environments of the walker.                                              *)

NamesSkipped(report) == {s[1] : s \in report.skips} \ {NoName}

UnresolvedState ==
    [params |-> [k \in SafetyKeys |-> "unresolved"], unclassified |-> FALSE,
     font |-> Bad("Unknown")]

(* A declared font stays only when it was classified; /Font unset leaves the*)
(* font alone only if nothing else of the dictionary is unknown.            *)
FontOfState(state) ==
    IF state.font.ok THEN state.font
    ELSE IF state.font.class = "Unset" /\ ~state.unclassified THEN Bad("LeaveUnchanged")
    ELSE Bad("Unknown")

(* A name that could not be classified is still a name gs may use: it is    *)
(* unresolved, never absent; a second entry of a classified name makes its  *)
(* font unknown.                                                            *)
ClassifiedStates(report) ==
    [n \in DOMAIN report.named |-> [report.named[n] EXCEPT !.font = FontOfState(report.named[n])]]

ExtGStateEnv(report) ==
    LET classified == ClassifiedStates(report) IN
    [n \in DOMAIN classified \union NamesSkipped(report) |->
        IF n \notin DOMAIN classified THEN UnresolvedState
        ELSE IF n \in NamesSkipped(report) THEN [classified[n] EXCEPT !.font = Bad("Unknown")]
        ELSE classified[n]]

(* Fonts by decoded name.  A skip that names nothing leaves the namespace   *)
(* unknown, unless it only says that there is no /Font.                     *)
UnknownFonts == [known |-> FALSE, bindings |-> <<>>]

FontBinding(class) ==
    IF Selectable(class.facts) /\ class.ref # <<0, 0>> THEN Fine(class.ref) ELSE Bad("Unresolved")

ClassifiedFonts(report) ==
    IF \E s \in report.skips : s[1] = NoName /\ s[2] # "MissingFont" THEN UnknownFonts
    ELSE [known |-> TRUE,
          bindings |-> [k \in {n[1] : n \in DOMAIN report.named} |->
              FontBinding(report.named[CHOOSE n \in DOMAIN report.named : n[1] = k])]]

FontEnv(report) ==
    LET env == ClassifiedFonts(report)
        poisoned == {n[1] : n \in NamesSkipped(report)} IN
    IF ~env.known THEN env
    ELSE [env EXCEPT !.bindings =
             [k \in poisoned \union DOMAIN @ |-> IF k \in poisoned THEN Bad("Unresolved") ELSE @[k]]]

----------------------------------------------------------------------------
(* The inspectors, each over the leaves of the offset walk.                 *)

EachLeaf(Inspect(_)) == [i \in DOMAIN listing.leaves |-> Inspect(listing.leaves[i])]

XObjectPages == EachLeaf(LAMBDA leaf : XObjectReport(ContextOf(leaf)))
ColorSpacePages == EachLeaf(LAMBDA leaf : ColorSpaceReport(ContextOf(leaf)))
DefaultPages == EachLeaf(LAMBDA leaf : DefaultsReport(ContextOf(leaf)))
FontPages == EachLeaf(LAMBDA leaf : FontReport(ContextOf(leaf)))
ExtGStatePages == EachLeaf(LAMBDA leaf : ExtGStateReport(ContextOf(leaf)))
GroupPages == EachLeaf(GroupReport)

Report ==
    /\ phase = "report"
    /\ LET xobjects == XObjectPages
           colors == ColorSpacePages
           defaults == DefaultPages
           fonts == FontPages
           states == ExtGStatePages
           groups == GroupPages IN
       reports' = [i \in DOMAIN listing.leaves |->
           [ref |-> listing.leaves[i].ref, xobjects |-> xobjects[i], colors |-> colors[i],
            defaults |-> defaults[i], fonts |-> fonts[i], states |-> states[i],
            group |-> groups[i]]]
    /\ phase' = "join"
    /\ UNCHANGED <<doc, walk, spine, listing, boxes, pages>>

(* XObjects, colour spaces and ExtGStates are taken by position, fonts only *)
(* from the report of that very page.                                       *)
ReportAt(i) == IF i \in DOMAIN reports THEN {reports[i]} ELSE {}

FontsOf(i) ==
    LET same == {r \in ReportAt(i) : r.ref = spine.leaves[i].ref} IN
    IF same = {} THEN UnknownFonts ELSE FontEnv((CHOOSE r \in same : TRUE).fonts)

InventoryPage(i) ==
    LET ref == spine.leaves[i].ref
        at == ReportAt(i) IN
    [ref |-> ref,
     content |-> PageContent(ref),
     resourcesOf |-> {r.ref : r \in at},
     xobjects |-> {r.xobjects : r \in at},
     colors |-> {r.colors : r \in at},
     states |-> {ExtGStateEnv(r.states) : r \in at},
     fonts |-> FontsOf(i)]

Join ==
    /\ phase = "join"
    /\ pages' = [i \in DOMAIN spine.leaves |-> InventoryPage(i)]
    /\ phase' = "done"
    /\ UNCHANGED <<doc, walk, spine, listing, boxes, reports>>

PageInit == Init /\ boxes = NoBoxes /\ reports = <<>> /\ pages = <<>>

PageNext ==
    \/ TreeNext /\ UNCHANGED <<boxes, reports, pages>>
    \/ BoxNext /\ UNCHANGED <<reports, pages>>
    \/ Report
    \/ Join

----------------------------------------------------------------------------
(* The skip reasons the reports may give, one set per inspector.            *)

ResourcesSkips ==
    {"DuplicateResources", "MalformedResourcesReference", "DirectResourcesDictionaryFailed",
     "UnresolvedResourcesReference", "ResourcesGenerationMismatch",
     "IndirectResourcesDictionaryFailed", "UnsupportedResourcesValue", "MissingResources"}

CategorySkips(what) ==
    {"Missing" \o what, "Duplicate" \o what, "NonDictionary" \o what, what \o "DictionaryFailed"}

XObjectSkips ==
    {"MalformedXObjectReference", "NonReferenceXObject", "XObjectGenerationMismatch",
     "UnresolvedXObjectReference", "XObjectTargetDictionaryFailed", "MissingSubtype",
     "DuplicateSubtype", "NonNameSubtype", "UnknownSubtype", "DuplicateXObjectName"}

ColorSpaceSkips ==
    {"UnsupportedPatternColor", "UnknownColorSpaceName", "MalformedColorSpaceOperand",
     "UnresolvedColorSpace", "UnsupportedTintTransform", "UnsupportedLabOrCalSpace",
     "DuplicateColorSpaceName", "DuplicateDefault"}

EntrySkips ==
    {"MalformedResourceReference", "UnresolvedResourceReference", "ResourceDictionaryFailed",
     "EntryDictionaryFailed", "NonDictionaryEntry"}

Reasons(report) == {s[2] : s \in report.skips}

(* Type invariant of the page walks, the reports and the inventory.         *)
PageTypeOK ==
    /\ phase \in Phases
    /\ Len(frames) <= MaxDepth + 1
    /\ phase \in {"resolved", "offset"} => Cardinality(visited) <= MaxNodes
    /\ \A w \in {found, spine, listing} :
           w.truncated \in Truncations /\ \A i \in DOMAIN w.skips : w.skips[i][3] \in SkipReasons
    /\ \A i \in DOMAIN boxes.skips :
           boxes.skips[i][3] \in BoxSkips \union {"Cycle", "MaxDepth", "NodeExpansionFailed"}
    /\ \A i \in DOMAIN reports :
           /\ Reasons(reports[i].xobjects)
                  \subseteq ResourcesSkips \union CategorySkips("XObject") \union XObjectSkips
           /\ Reasons(reports[i].colors) \union Reasons(reports[i].defaults)
                  \subseteq ResourcesSkips \union CategorySkips("ColorSpace") \union ColorSpaceSkips
           /\ Reasons(reports[i].fonts) \subseteq ResourcesSkips \union CategorySkips("Font")
                  \union EntrySkips \union {"DuplicateFontName"}
           /\ Reasons(reports[i].states) \subseteq ResourcesSkips \union CategorySkips("ExtGState")
                  \union EntrySkips \union {"DuplicateExtGStateName"}

(* Nothing of the page tree gets lost: when a walk is over, every kid       *)
(* reference of every node it expanded is a listed page, a skip with its    *)
(* reason, or a node it went into - once each, whatever the tree repeats.   *)
EveryKidAccountedFor ==
    phase \in {"resolved", "offset"} /\ frames = <<>> =>
        LET expanded == {n \in visited : Expandable(Objects[n].body)} IN
        Len(found.leaves) + Len(found.skips) + Cardinality(expanded) - 1
            = MapThenSumSet(LAMBDA n : Len(KidsOf(Objects[n].body)), expanded)

(* The two walks see the same pages whenever every node and leaf stands at  *)
(* an offset and is spelled as its cross-reference entry says: only a       *)
(* member or a wrong header parts them.                                     *)
Plain == \A n \in DOMAIN Objects : Objects[n].at = "offset" /\ Objects[n].header = <<n, Objects[n].gen>>

PlainWalksAgree == phase \in {"join", "done"} /\ Plain => listing = spine

(* A page's resources are those of the nearest node of its path that has a  *)
(* /Resources entry.  If that entry cannot be read the page has none, and   *)
(* an ancestor's dictionary never stands in for it.                         *)
NearestResourcesDecide ==
    phase = "join" => \A i \in DOMAIN reports :
        LET leaf == listing.leaves[i]
            path == Append(leaf.path, leaf.ref)
            value(k) == RawEntry(Node(path[k]).body.entries, "Resources")
            declaring == {k \in DOMAIN path : value(k).kind # "absent"}
            nearest == Followed(Objects, value(Max(declaring)))
            declared(key) == IF declaring = {} \/ ~IsScanned(nearest) THEN Absent
                             ELSE RawEntry(nearest.entries, key)
            names(key) == IF IsScanned(declared(key))
                          THEN {RawName(declared(key).entries[j]) : j \in DOMAIN declared(key).entries}
                          ELSE {} IN
        /\ DOMAIN reports[i].xobjects.named \union NamesSkipped(reports[i].xobjects) = names("XObject")
        /\ DOMAIN reports[i].colors.named \union NamesSkipped(reports[i].colors) = names("ColorSpace")
        /\ DOMAIN reports[i].states.named \union NamesSkipped(reports[i].states) = names("ExtGState")

(* No declared graphics state is a silent no-op: a page's environment knows *)
(* every name its /ExtGState declares, and a name declared twice never      *)
(* selects a font.                                                          *)
GraphicsStatesAreKnown ==
    phase = "done" => \A i \in DOMAIN pages : i \in DOMAIN listing.leaves =>
        LET declared == InContext(ContextOf(listing.leaves[i]), "ExtGState") IN
        \A env \in pages[i].states : IsScanned(declared) =>
            \A j \in DOMAIN declared.entries :
                LET name == RawName(declared.entries[j]) IN
                /\ name \in DOMAIN env
                /\ env[name].font.ok => \A k \in DOMAIN declared.entries :
                                            RawName(declared.entries[k]) = name => k = j

(* A font name resolves only if exactly one entry of the page's own /Font   *)
(* decodes to it, whatever the spelling, and that entry is a reference.     *)
FontNamesAreUnambiguous ==
    phase = "done" => \A i \in DOMAIN pages : \A k \in DOMAIN pages[i].fonts.bindings :
        pages[i].fonts.bindings[k].ok =>
            LET context == ContextOf(listing.leaves[i])
                fonts == DecodedEntry(context.resources.entries, "Font") IN
            /\ listing.leaves[i].ref = pages[i].ref
            /\ Cardinality(Keyed(fonts.entries, k)) = 1
            /\ \A j \in Keyed(fonts.entries, k) :
                   fonts.entries[j].value = [kind |-> "ref", ref |-> pages[i].fonts.bindings[k].class]

(* What the inventory reports of a page comes from that page: the module's  *)
(* documentation calls it page-local.                                       *)
PageResourcesAreItsOwn ==
    phase = "done" => \A i \in DOMAIN pages : pages[i].resourcesOf \subseteq {pages[i].ref}
=============================================================================
