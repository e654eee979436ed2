----------------------------- MODULE PageBindings -----------------------------
(***************************************************************************)
(* The page /XObject binding witness of presslint-pdf: which XObject each   *)
(* name of a page's effective /XObject dictionary is bound to, along which  *)
(* path, and whether the page is the only consumer of the target.  It walks *)
(* the page tree by offsets, as listing does, looks keys up by decoded      *)
(* name, corroborates the header of everything it reaches, and refuses what *)
(* it cannot tell.                                                          *)
(*                                                                         *)
(* The consumer index it borrows is the one of module ConsumerIndex: here   *)
(* every user reaches exactly what its references lead to, and whether the  *)
(* index calls itself complete is chosen freely.                            *)
(***************************************************************************)
EXTENDS PageTree, FiniteSetsExt

VARIABLES
    consumers,      \* [complete, users]: what every typed user reaches
    bindings        \* one report per leaf of the listing

bindingVars == <<consumers, bindings>>

----------------------------------------------------------------------------
(* The references a value holds, in source order, repeated as they are.     *)

RECURSIVE RefsOf(_)
RefsOf(value) ==
    CASE value.kind = "ref" -> <<value.ref>>
      [] value.kind = "array" -> FlattenSeq([i \in DOMAIN value.items |-> RefsOf(value.items[i])])
      [] value.kind = "dict" ->
            FlattenSeq([i \in DOMAIN value.entries |-> RefsOf(value.entries[i].value)])
      [] OTHER -> <<>>

----------------------------------------------------------------------------
(* Consumers.  A user expands what it reaches except other users' pages;    *)
(* from its own page, and from page-tree nodes, /Parent is not followed.    *)

KnownPages == {spine.leaves[i].ref : i \in DOMAIN spine.leaves}

PageUser(i) == [key |-> "Page", index |-> i - 1, own |-> spine.leaves[i].ref]
KeyUser(key) == [key |-> key, index |-> -1, own |-> <<0, 0>>]

Onward(objects, user, ref) ==
    LET body == BodyAt(objects, ref)
        skipsParent == IsScanned(body) /\ (ref = user.own \/ user.key = "Pages")
        edges == IF skipsParent
                 THEN [body EXCEPT !.entries = SelectSeq(@, LAMBDA e : e.key # "Parent")]
                 ELSE body IN
    IF ~ResolvesTo(objects, ref) \/ ref \in KnownPages \ {user.own} THEN {}
    ELSE ToSet(RefsOf(edges))

Reached(objects, user, seeds) ==
    LET within[k \in 0 .. Cardinality(DOMAIN objects) + 1] ==
            IF k = 0 THEN seeds
            ELSE LET before == within[k - 1] IN
                 before \union UNION {Onward(objects, user, r) : r \in before} IN
    {r \in within[Cardinality(DOMAIN objects) + 1] : ResolvesTo(objects, r)}

Users(objects) ==
    {<<PageUser(i), Reached(objects, PageUser(i), {spine.leaves[i].ref})>> : i \in DOMAIN spine.leaves}
    \union
    {<<KeyUser(e.key), Reached(objects, KeyUser(e.key), ToSet(RefsOf(e.value)))>> :
        e \in ToSet(BodyAt(objects, doc.catalog).entries)}

Referrers(users, target) == {u[1] : u \in {v \in users : target \in v[2]}}

Exclusive(target, ordinal, page) ==
    Referrers(consumers.users, target) = {[key |-> "Page", index |-> ordinal - 1, own |-> page]}

----------------------------------------------------------------------------
(* Containers.  A dictionary stands where it is named or behind a reference *)
(* whose object says the reference's own number.                            *)

Here == <<0, 0>>

Located(ref) ==
    IF ref[1] \notin DOMAIN Objects \/ Node(ref).at = "ambiguous" THEN "Unresolved"
    ELSE IF Node(ref).gen # ref[2] THEN "GenerationMismatch"
    ELSE IF Node(ref).at = "member" THEN "Compressed"
    ELSE "Uncompressed"

Corroborated(ref) ==
    IF Located(ref) # "Uncompressed" THEN Located(ref)
    ELSE IF Node(ref).header # ref THEN "IdentityMismatch"
    ELSE IF ~IsScanned(Node(ref).body) THEN "DictionaryFailed"
    ELSE "Dictionary"

NotAContainer(why) == [why |-> why, via |-> Here, entries |-> <<>>]

Container(value) ==
    CASE value.kind = "dict" -> [why |-> "none", via |-> Here, entries |-> value.entries]
      [] value.kind = "broken" -> NotAContainer("DictionaryFailed")
      [] value.kind = "malformed" -> NotAContainer("MalformedReference")
      [] value.kind # "ref" -> NotAContainer("UnsupportedValue")
      [] Corroborated(value.ref) # "Dictionary" -> NotAContainer(Corroborated(value.ref))
      [] IsStream(BodyAt(Objects, value.ref)) -> NotAContainer("Stream")
      [] OTHER -> [why |-> "none", via |-> value.ref, entries |-> BodyAt(Objects, value.ref).entries]

(* A category of a dictionary: its one decoded entry, null being none.      *)
ContainerEntry(entries, key) ==
    LET value == DecodedEntry(entries, key) IN
    IF value.kind \in {"absent", "null"} THEN NotAContainer("Missing")
    ELSE IF value.kind = "duplicate" THEN NotAContainer("Duplicate")
    ELSE Container(value)

(* /Resources down a path: the deepest node with an entry decides, and one  *)
(* that cannot be read hides those above it.                                *)
NothingBound == [why |-> "Missing", node |-> Here, via |-> Here, entries |-> <<>>]

BoundFrom(state, ref) ==
    LET own == ContainerEntry(Node(ref).body.entries, "Resources") IN
    IF own.why = "Missing" THEN state
    ELSE [why |-> own.why, node |-> Node(ref).header, via |-> own.via, entries |-> own.entries]

EffectiveResources(leaf) == FoldLeft(BoundFrom, NothingBound, Append(leaf.path, leaf.ref))

----------------------------------------------------------------------------
(* Entries, witnesses and verdicts.                                         *)

SubtypeOf(entries) ==
    LET value == DecodedEntry(entries, "Subtype") IN
    IF value.kind = "absent" THEN "Missing"
    ELSE IF value.kind = "duplicate" THEN "Duplicate"
    ELSE IF value.kind # "name" THEN "NonName"
    ELSE IF value.name \in {"Form", "Image"} THEN value.name
    ELSE "OtherName"

EntryRefusal(entries, i) ==
    LET value == entries[i].value IN
    IF entries[i].key = "#" THEN "MalformedEntryName"
    ELSE IF \E j \in DOMAIN entries \ {i} : entries[j].key = entries[i].key THEN "EntryNameCollision"
    ELSE IF value.kind = "malformed" THEN "MalformedReference"
    ELSE IF value.kind # "ref" THEN "NonReferenceEntry"
    ELSE IF Corroborated(value.ref) # "Dictionary" THEN Corroborated(value.ref)
    ELSE "none"

BindingPath(resources, page, via) ==
    [inherited |-> resources.node # page, resources |-> resources.via, xobjects |-> via]

Verdict(path, target, ordinal, page) ==
    IF path.inherited THEN "ResourcesInherited"
    ELSE IF path.resources # Here THEN "ResourcesIndirect"
    ELSE IF path.xobjects # Here THEN "XObjectDictionaryIndirect"
    ELSE IF ~consumers.complete THEN "ConsumerIndexIncomplete"
    ELSE IF ~Exclusive(target, ordinal, page) THEN "TargetConsumersNotExclusive"
    ELSE "ProvenPageLocal"

(* site is the position of the entry in the /XObject dictionary.            *)
Witness(entries, i, path, ordinal, page) ==
    LET target == entries[i].value.ref IN
    [site |-> i, name |-> RawName(entries[i]), target |-> target, path |-> path,
     subtype |-> SubtypeOf(BodyAt(Objects, target).entries),
     verdict |-> Verdict(path, target, ordinal, page)]

BindingReport(ordinal) ==
    LET leaf == listing.leaves[ordinal]
        resources == EffectiveResources(leaf)
        xobjects == ContainerEntry(resources.entries, "XObject")
        entries == xobjects.entries
        path == BindingPath(resources, Node(leaf.ref).header, xobjects.via)
        bound == {i \in DOMAIN entries : EntryRefusal(entries, i) = "none"}
        report(witnesses, refused) ==
            [ref |-> leaf.ref, witnesses |-> witnesses, refused |-> refused] IN
    IF resources.why # "none" THEN report({}, {<<"Resources", resources.why>>})
    ELSE IF xobjects.why # "none" THEN report({}, {<<"XObject", xobjects.why>>})
    ELSE report({Witness(entries, i, path, ordinal, leaf.ref) : i \in bound},
                {<<"Entry", EntryRefusal(entries, i)>> : i \in DOMAIN entries \ bound})

----------------------------------------------------------------------------
IndexConsumers ==
    /\ phase = "listed"
    /\ \E complete \in BOOLEAN :
          consumers' = [complete |-> complete, users |-> Users(Objects)]
    /\ phase' = "indexed"
    /\ UNCHANGED <<doc, walk, spine, listing, bindings>>

InspectBindings ==
    /\ phase = "indexed"
    /\ bindings' = [i \in DOMAIN listing.leaves |-> BindingReport(i)]
    /\ phase' = "bound"
    /\ UNCHANGED <<doc, walk, spine, listing, consumers>>

BindingInit == Init /\ consumers = [complete |-> FALSE, users |-> {}] /\ bindings = <<>>

BindingNext == IndexConsumers \/ InspectBindings
=============================================================================
