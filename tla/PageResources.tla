---------------------------- MODULE PageResources ----------------------------
(***************************************************************************)
(* What the offset-only resource inspectors report for each leaf of the     *)
(* page tree: the effective /Resources dictionary inherited down the tree,  *)
(* and the classification of its XObject, ColorSpace, Font and ExtGState    *)
(* entries, of the default colour spaces and of the page's own transparency *)
(* group.                                                                   *)
(*                                                                         *)
(* A report is [named, skips]: the classified entries by raw name, and the  *)
(* skips as <<raw name or NoName, reason>>.                                 *)
(***************************************************************************)
EXTENDS PageBoxes, Functions

NoName == <<"", TRUE>>
Fine(class) == [ok |-> TRUE, class |-> class]
Bad(reason) == [ok |-> FALSE, class |-> reason]
NothingNamed(skips) == [named |-> <<>>, skips |-> skips]

----------------------------------------------------------------------------
(* The inherited /Resources context.                                        *)

NoResources == [resources |-> Absent, skips |-> <<>>]

ResourcesSkip(value) ==
    CASE value.kind = "duplicate" -> "DuplicateResources"
      [] value.kind = "malformed" -> "MalformedResourcesReference"
      [] value.kind = "broken" -> "DirectResourcesDictionaryFailed"
      [] value.kind = "ref" ->
             IF LookedUp(Objects, value.ref) = "unresolved" THEN "UnresolvedResourcesReference"
             ELSE IF LookedUp(Objects, value.ref) = "generation" THEN "ResourcesGenerationMismatch"
             ELSE "IndirectResourcesDictionaryFailed"
      [] OTHER -> "UnsupportedResourcesValue"

(* Mutant: an unreadable entry leaves the ancestor's dictionary in force.   *)
WithNodeKeepingAncestor(context, ref) ==
    LET value == RawEntry(Node(ref).body.entries, "Resources")
        read == Followed(Objects, value) IN
    IF value.kind = "absent" THEN context
    ELSE IF IsScanned(read) THEN [context EXCEPT !.resources = read]
    ELSE [context EXCEPT !.skips = Append(@, ResourcesSkip(value))]

(* A node's entry replaces the inherited dictionary; one that cannot be read*)
(* leaves nothing, and its reason stays with every page below.              *)
WithNode(context, ref) ==
    LET value == RawEntry(Node(ref).body.entries, "Resources")
        read == Followed(Objects, value) IN
    IF value.kind = "absent" THEN context
    ELSE IF IsScanned(read) THEN [context EXCEPT !.resources = read]
    ELSE [resources |-> Absent, skips |-> Append(context.skips, ResourcesSkip(value))]

ContextOf(leaf) == FoldLeft(WithNode, NoResources, Append(leaf.path, leaf.ref))

(* The sub-dictionary of one category: its entries or why there are none.   *)
Category(context, value, what) ==
    IF context.resources.kind = "absent" THEN Bad("MissingResources")
    ELSE IF value.kind = "absent" THEN Bad("Missing" \o what)
    ELSE IF value.kind = "duplicate" THEN Bad("Duplicate" \o what)
    ELSE IF ~IsDictionary(value) THEN Bad("NonDictionary" \o what)
    ELSE IF ~IsScanned(value) THEN Bad(what \o "DictionaryFailed")
    ELSE Fine("scanned")

InContext(context, key) ==
    IF IsScanned(context.resources) THEN RawEntry(context.resources.entries, key) ELSE Absent

Inherited(context) == {<<NoName, context.skips[i]>> : i \in DOMAIN context.skips}

(* Every entry is judged, the first of a name for its class and the others  *)
(* as duplicates.                                                           *)
Judged(entries, first, Judge(_), duplicate) ==
    LET good == {i \in first : Judge(entries[i].value).ok} IN
    [named |-> [n \in {RawName(entries[i]) : i \in good} |->
                    Judge(entries[CHOOSE i \in good : RawName(entries[i]) = n].value).class],
     skips |-> {<<RawName(entries[i]), Judge(entries[i].value).class>> : i \in first \ good}
               \union {<<RawName(entries[i]), duplicate>> : i \in DOMAIN entries \ first}]

(* A direct dictionary or an offset-located one, for the classifiers that   *)
(* take either.                                                             *)
EntryDictionary(value) ==
    LET read == Followed(Objects, value) IN
    IF IsScanned(read) THEN Fine(read.entries)
    ELSE IF value.kind = "malformed" THEN Bad("MalformedResourceReference")
    ELSE IF value.kind = "ref" /\ ~HasOffset(Objects, value.ref)
         THEN Bad("UnresolvedResourceReference")
    ELSE IF value.kind = "ref" THEN Bad("ResourceDictionaryFailed")
    ELSE IF value.kind = "broken" THEN Bad("EntryDictionaryFailed")
    ELSE Bad("NonDictionaryEntry")

----------------------------------------------------------------------------
(* XObjects: references only, by the target's raw /Subtype.                 *)

XObjectClass(value) ==
    LET subtype == RawEntry(BodyAt(Objects, value.ref).entries, "Subtype") IN
    IF value.kind = "malformed" THEN Bad("MalformedXObjectReference")
    ELSE IF value.kind # "ref" THEN Bad("NonReferenceXObject")
    ELSE IF ~HasOffset(Objects, value.ref)
         THEN Bad(IF LookedUp(Objects, value.ref) = "generation"
                  THEN "XObjectGenerationMismatch" ELSE "UnresolvedXObjectReference")
    ELSE IF ~IsScanned(BodyAt(Objects, value.ref)) THEN Bad("XObjectTargetDictionaryFailed")
    ELSE IF subtype.kind = "absent" THEN Bad("MissingSubtype")
    ELSE IF subtype.kind = "duplicate" THEN Bad("DuplicateSubtype")
    ELSE IF subtype.kind # "name" THEN Bad("NonNameSubtype")
    ELSE IF subtype.name \notin {"Image", "Form"} THEN Bad("UnknownSubtype")
    ELSE Fine(<<subtype.name, value.ref>>)

XObjectReport(context) ==
    LET value == InContext(context, "XObject")
        scanned == Category(context, value, "XObject") IN
    IF ~scanned.ok THEN NothingNamed(Inherited(context) \union {<<NoName, scanned.class>>})
    ELSE LET judged == Judged(value.entries, FirstNamed(value.entries), XObjectClass,
                              "DuplicateXObjectName") IN
         [judged EXCEPT !.skips = @ \union Inherited(context)]

----------------------------------------------------------------------------
(* Colour spaces, by name, by array head, or through one reference.         *)

DeviceNames == {"DeviceGray", "DeviceRGB", "DeviceCMYK"}
ShortNames == [G |-> "DeviceGray", RGB |-> "DeviceRGB", CMYK |-> "DeviceCMYK"]

NamedFamily(n) ==
    IF n \in DeviceNames THEN Fine(n)
    ELSE IF n \in DOMAIN ShortNames THEN Fine(ShortNames[n])
    ELSE IF n = "Pattern" THEN Bad("UnsupportedPatternColor")
    ELSE Bad("UnknownColorSpaceName")

Nth(items, i) == IF i \in DOMAIN items THEN items[i] ELSE Absent
AllNames(items) == \A i \in DOMAIN items : items[i].kind = "name"

ArrayFamily(items) ==
    LET head == Nth(items, 1)
        second == Nth(items, 2) IN
    IF head.kind # "name" THEN Bad("MalformedColorSpaceOperand")
    ELSE CASE head.name = "ICCBased" ->
                  IF second.kind # "ref" THEN Bad("MalformedColorSpaceOperand")
                  ELSE IF ~HasOffset(Objects, second.ref) THEN Bad("UnresolvedColorSpace")
                  ELSE IF ~IsScanned(BodyAt(Objects, second.ref)) THEN Bad("MalformedColorSpaceOperand")
                  ELSE Fine("ICCBased")
           [] head.name = "Separation" ->
                  IF second.kind = "name" THEN Fine("Separation") ELSE Bad("MalformedColorSpaceOperand")
           [] head.name = "DeviceN" ->
                  IF second.kind # "array" THEN Bad("MalformedColorSpaceOperand")
                  ELSE IF ~AllNames(second.items) THEN Bad("UnsupportedTintTransform")
                  ELSE IF second.items = <<>> THEN Bad("MalformedColorSpaceOperand")
                  ELSE Fine("DeviceN")
           [] head.name \in {"Indexed", "I"} ->
                  IF Nth(items, 3).kind # "number" \/ Nth(items, 4).kind = "absent"
                  THEN Bad("MalformedColorSpaceOperand")
                  ELSE IF second.kind = "ref" /\ ~HasOffset(Objects, second.ref)
                       THEN Bad("UnresolvedColorSpace")
                  ELSE Fine("Indexed")
           [] head.name \in {"Lab", "CalGray", "CalRGB"} -> Bad("UnsupportedLabOrCalSpace")
           [] head.name \in DOMAIN ShortNames -> Bad("UnknownColorSpaceName")
           [] OTHER -> NamedFamily(head.name)

ColorSpaceClass(value) ==
    LET read == Followed(Objects, value) IN
    IF value.kind = "ref" /\ ~HasOffset(Objects, value.ref) THEN Bad("UnresolvedColorSpace")
    ELSE IF read.kind = "name" THEN NamedFamily(read.name)
    ELSE IF read.kind = "array" THEN ArrayFamily(read.items)
    ELSE Bad("MalformedColorSpaceOperand")

ColorSpaceReport(context) ==
    LET value == InContext(context, "ColorSpace")
        scanned == Category(context, value, "ColorSpace") IN
    IF ~scanned.ok THEN NothingNamed(Inherited(context) \union {<<NoName, scanned.class>>})
    ELSE LET judged == Judged(value.entries, FirstNamed(value.entries), ColorSpaceClass,
                              "DuplicateColorSpaceName") IN
         [judged EXCEPT !.skips = @ \union Inherited(context)]

(* The three default spaces are looked up one by one, so a duplicate of one *)
(* leaves the others; having no /ColorSpace at all is no skip.              *)
DefaultKeys == {"DefaultGray", "DefaultRGB", "DefaultCMYK"}

DefaultsReport(context) ==
    LET value == InContext(context, "ColorSpace")
        scanned == Category(context, value, "ColorSpace")
        defined == {k \in DefaultKeys : RawEntry(value.entries, k).kind # "absent"}
        class == [k \in defined |-> IF RawEntry(value.entries, k).kind = "duplicate"
                                    THEN Bad("DuplicateDefault")
                                    ELSE ColorSpaceClass(RawEntry(value.entries, k))] IN
    IF scanned.class = "MissingColorSpace" THEN NothingNamed(Inherited(context))
    ELSE IF ~scanned.ok THEN NothingNamed(Inherited(context) \union {<<NoName, scanned.class>>})
    ELSE [named |-> [k \in {d \in defined : class[d].ok} |-> class[k].class],
          skips |-> Inherited(context)
                    \union {<<<<k, TRUE>>, class[k].class>> : k \in {d \in defined : ~class[d].ok}}]
=============================================================================
