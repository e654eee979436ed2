--------------------------- MODULE ResourceClasses ---------------------------
(***************************************************************************)
(* The classifiers that look inside a resource: fonts (by /Type and         *)
(* /Subtype), ExtGState dictionaries (parameter by parameter, with their    *)
(* /Font directive) and transparency groups.  They record what is written   *)
(* and never supply a PDF default.                                          *)
(***************************************************************************)
EXTENDS PageResources

Keyed(entries, key) == {i \in DOMAIN entries : entries[i].key = key}

----------------------------------------------------------------------------
(* Fonts.  The category key and the entry names are compared decoded here,  *)
(* while every other inspector compares raw bytes.                          *)

SelectableSubtypes == {"Type1", "MMType1", "TrueType", "Type0", "Type3"}

Fact(entries, key) ==
    LET value == RawEntry(entries, key) IN
    IF value.kind = "name" THEN value.name
    ELSE IF value.kind \in {"absent", "duplicate"} THEN value.kind
    ELSE "nonName"

FontFacts(entries) == [type |-> Fact(entries, "Type"), subtype |-> Fact(entries, "Subtype")]
Selectable(facts) == facts.type = "Font" /\ facts.subtype \in SelectableSubtypes

FontClass(value) ==
    LET read == EntryDictionary(value) IN
    IF ~read.ok THEN Bad(read.class)
    ELSE Fine([facts |-> FontFacts(read.class),
               ref |-> IF value.kind = "ref" THEN value.ref ELSE <<0, 0>>])

FirstDecoded(entries) ==
    {i \in DOMAIN entries : \A j \in 1..(i - 1) : entries[j].key # entries[i].key}

FontReport(context) ==
    LET value == IF IsScanned(context.resources)
                 THEN DecodedEntry(context.resources.entries, "Font") ELSE Absent
        scanned == Category(context, value, "Font") IN
    IF ~scanned.ok THEN NothingNamed(Inherited(context) \union {<<NoName, scanned.class>>})
    ELSE LET judged == Judged(value.entries, FirstDecoded(value.entries), FontClass,
                              "DuplicateFontName") IN
         [judged EXCEPT !.skips = @ \union Inherited(context)]

----------------------------------------------------------------------------
(* ExtGState.  A safety key written twice, under any spelling, is malformed.*)

SafetyKeys == {"OP", "op", "OPM", "CA", "ca", "BM", "SMask"}

ParamValue(key, value) ==
    CASE key \in {"OP", "op"} -> IF value.kind = "bool" THEN value.text ELSE "malformed"
      [] key = "OPM" -> IF value.kind # "number" THEN "malformed"
                        ELSE IF value.text \in {"0", "1"} THEN value.text ELSE "other"
      [] key \in {"CA", "ca"} -> IF value.kind # "number" THEN "malformed"
                                 ELSE IF value.text \in {"1", "1.0"} THEN "opaque" ELSE "nonOpaque"
      [] key = "BM" -> IF value.kind = "name"
                       THEN IF value.name \in {"Normal", "Compatible"} THEN "normal" ELSE "nonNormal"
                       ELSE IF value.kind = "array" THEN "array" ELSE "other"
      [] key = "SMask" -> IF value = Name("None") THEN "noMask" ELSE "present"

Param(entries, key) ==
    LET found_ == Keyed(entries, key) IN
    IF found_ = {} THEN "unset"
    ELSE IF \E i, j \in found_ : i # j THEN "malformed"
    ELSE ParamValue(key, entries[CHOOSE i \in found_ : TRUE].value)

(* A font target is the one place a member is told from a missing object,   *)
(* and a header is compared with the reference.                             *)
FontTarget(ref) ==
    IF ref[1] \in DOMAIN Objects /\ Node(ref).at = "member" /\ ref[2] = 0
    THEN Bad("CompressedTargetUninspected")
    ELSE IF ~HasOffset(Objects, ref) THEN Bad("UnresolvedTarget")
    ELSE IF Node(ref).header # ref THEN Bad("TargetHeaderMismatch")
    ELSE IF ~IsScanned(BodyAt(Objects, ref)) THEN Bad("TargetDictionaryFailed")
    ELSE IF ~Selectable(FontFacts(BodyAt(Objects, ref).entries)) THEN Bad("InadmissibleTarget")
    ELSE Fine(ref)

FontDirective(value) ==
    LET first == Nth(value.items, 1)
        size == Nth(value.items, 2) IN
    IF value.kind # "array" THEN Bad("NonArrayValue")
    ELSE IF first.kind # "ref" THEN Bad("MalformedFontReference")
    ELSE IF size.kind = "ref" THEN Bad("IndirectSizeUnsupported")
    ELSE IF size.kind # "number" THEN Bad("MalformedSize")
    ELSE IF Len(value.items) > 2 THEN Bad("ExtraArrayElements")
    ELSE FontTarget(first.ref)

FontEffect(entries) ==
    LET found_ == Keyed(entries, "Font") IN
    IF found_ = {} THEN Bad("Unset")
    ELSE IF \E i, j \in found_ : i # j THEN Bad("DuplicateKey")
    ELSE FontDirective(entries[CHOOSE i \in found_ : TRUE].value)

ExtGStateOf(entries) ==
    [params |-> [k \in SafetyKeys |-> Param(entries, k)],
     unclassified |-> \E i \in DOMAIN entries : entries[i].key \notin SafetyKeys \union {"Type"},
     font |-> FontEffect(entries)]

ExtGStateClass(value) ==
    LET read == EntryDictionary(value) IN
    IF read.ok THEN Fine(ExtGStateOf(read.class)) ELSE Bad(read.class)

ExtGStateReport(context) ==
    LET value == InContext(context, "ExtGState")
        scanned == Category(context, value, "ExtGState") IN
    IF ~scanned.ok THEN NothingNamed(Inherited(context) \union {<<NoName, scanned.class>>})
    ELSE LET judged == Judged(value.entries, FirstNamed(value.entries), ExtGStateClass,
                              "DuplicateExtGStateName") IN
         [judged EXCEPT !.skips = @ \union Inherited(context)]

----------------------------------------------------------------------------
(* Transparency groups: the page's own /Group, never inherited.             *)

GroupKeys == {"CS", "I", "K"}

GroupParam(entries, key) ==
    LET value == RawEntry(entries, key) IN
    IF value.kind \in {"absent", "duplicate"} THEN value.kind
    ELSE IF key = "CS" THEN IF value.kind \in {"name", "array"} THEN "set" ELSE "malformed"
    ELSE IF value.kind = "bool" THEN value.text ELSE "malformed"

GroupOf(entries) ==
    LET subtype == RawEntry(entries, "S") IN
    IF subtype.kind = "duplicate" THEN Bad("DuplicateGroup")
    ELSE IF subtype.kind = "absent" THEN Bad("MissingSubtype")
    ELSE IF subtype.kind # "name" THEN Bad("MalformedSubtype")
    ELSE IF subtype.name # "Transparency" THEN Bad("NonTransparencySubtype")
    ELSE Fine([params |-> [k \in GroupKeys |-> GroupParam(entries, k)],
               unclassified |-> \E i \in DOMAIN entries :
                   ~entries[i].plain \/ entries[i].key \notin GroupKeys \union {"Type", "S"}])

GroupReport(leaf) ==
    LET value == RawEntry(Node(leaf.ref).body.entries, "Group")
        read == EntryDictionary(value) IN
    IF value.kind = "absent" THEN Bad("NoGroup")
    ELSE IF value.kind = "duplicate" THEN Bad("DuplicateGroup")
    ELSE IF read.ok THEN GroupOf(read.class)
    ELSE Bad(read.class)
=============================================================================
