----------------------------- MODULE ContentEdit -----------------------------
(***************************************************************************)
(* The page-content edit pipeline of presslint-write: the pages a request   *)
(* selects, the content streams of each, the ownership gate that decides    *)
(* whether a stream object may be rewritten in place, and the one revision  *)
(* that rewrites them.  The gate reads the consumer index of ConsumerIndex, *)
(* which is built in full between the selection and the first stream.       *)
(* Two pipelines share all this: one edits stream by stream (SingleOnly,    *)
(* MultiStream), one edits the concatenation of a page's streams and        *)
(* publishes a page whole or not at all (LogicalSequence).                  *)
(*                                                                         *)
(* file.contents[i] is what the page-content walk found for page i:         *)
(* inspected (its leaf dictionary has a source location and a readable      *)
(* /Contents), refs (the /Contents references in order, with repeats) and   *)
(* others (the array also has members that are not references).             *)
(***************************************************************************)
EXTENDS ConsumerIndex

CONSTANTS
    Requests    \* [all, indices, mode]: every page or the 0-based indices listed,
                \* and the StreamMode

ASSUME RequestAssumption ==
    \A r \in Requests : /\ r.mode \in {"SingleOnly", "MultiStream", "LogicalSequence"}
                        /\ r.all \in BOOLEAN /\ r.indices \in Seq(Nat)

(* The content walk answers once for every leaf of the page walk.           *)
ASSUME ContentsAssumption ==
    \A f \in Files : /\ Len(f.contents) = Len(f.pages) /\ DOMAIN f.contents = DOMAIN f.pages
                     /\ \A i \in DOMAIN f.contents : f.contents[i].refs \in Seq(References)

(* What it answers with is the references of the leaf's one /Contents.      *)
ASSUME LeafContentsAssumption ==
    \A f \in Files : \A i \in DOMAIN f.contents : f.contents[i].inspected =>
        LET entries == f.objects[f.pages[i]].entries
        IN  \E k \in DOMAIN entries : /\ entries[k].key = "Contents"
                                      /\ ToSet(f.contents[i].refs) \subseteq Followed(entries[k])

VARIABLES
    request,
    selected,   \* the selected pages, as positions in file.pages, ascending
    phase,      \* "asked", "indexing", "editing", "written" or "refused"
    pending,    \* stream outcomes still to be planned
    edited,     \* planned rewrites, in order
    published,  \* the pages a logical edit delivers, in order
    skipped,    \* streams and whole pages left alone, in order
    rewritten   \* the objects the written revision replaces

edit == <<request, selected, phase, pending, edited, published, skipped, rewritten>>
allVars == <<vars, edit>>

NoObject == <<>>

PageCount == Len(file.contents)

----------------------------------------------------------------------------
(* select_indices *)

Requested ==
    IF request.all THEN 1..PageCount ELSE {n + 1 : n \in ToSet(request.indices)}

Acceptable ==
    \/ request.all
    \/ request.indices # <<>> /\ \A n \in ToSet(request.indices) : n < PageCount

----------------------------------------------------------------------------
(* plan_page_streams: a page is skipped whole, or has one outcome for each  *)
(* distinct object its /Contents names.  A logical edit turns page by page. *)

Outcome(page, ordinal, object, located) ==
    [page |-> page, ordinal |-> ordinal, object |-> object, located |-> located]

FirstOccurrences(refs) ==
    Keeping([k \in DOMAIN refs |-> k], {k \in DOMAIN refs : \A j \in 1..(k - 1) : refs[j] # refs[k]})

SkippedWhole(contents) ==
    \/ ~contents.inspected
    \/ contents.refs = <<>>
    \/ request.mode = "SingleOnly" /\ (Len(contents.refs) > 1 \/ contents.others)
    \/ request.mode = "LogicalSequence" /\ contents.others

Located(r) == Resolvable(r) /\ file.objects[r].stream

PageStreams(page) ==
    LET contents == file.contents[page]
        kept == FirstOccurrences(contents.refs)
    IN  IF SkippedWhole(contents) \/ request.mode = "LogicalSequence"
        THEN <<Outcome(page, 0, NoObject, FALSE)>>
        ELSE [k \in DOMAIN kept |->
                 Outcome(page, kept[k] - 1, contents.refs[kept[k]], Located(contents.refs[kept[k]]))]

----------------------------------------------------------------------------
(* ContentObjectOwnershipIndex::decide.  Direct /Contents owners are page   *)
(* references, so a page listed twice is one owner; page_indices keeps the  *)
(* last index of each.                                                      *)

DirectOwners(r) ==
    {file.pages[i] : i \in {j \in DOMAIN file.contents :
                              file.contents[j].inspected /\ r \in ToSet(file.contents[j].refs)}}

LastIndex(page) == CHOOSE i \in DOMAIN file.pages :
                      file.pages[i] = page /\ \A j \in DOMAIN file.pages : file.pages[j] = page => j <= i

Referrers(r) == {pair[2] : pair \in {p \in consumers : p[1] = r}}

(* A mutant to which one direct owner is enough.                            *)
InPlaceByContents(r) ==
    /\ facts = {}
    /\ \E owner \in DirectOwners(r) : DirectOwners(r) = {owner}

InPlace(r) ==
    /\ facts = {}
    /\ \E owner \in DirectOwners(r) : /\ DirectOwners(r) = {owner}
                                      /\ Referrers(r) = {<<"Page", LastIndex(owner)>>}

----------------------------------------------------------------------------

EditInit ==
    /\ Init
    /\ request \in Requests
    /\ phase = "asked"
    /\ selected = <<>> /\ pending = <<>> /\ edited = <<>> /\ published = <<>> /\ skipped = <<>>
    /\ rewritten = {}

(* Mutant: the indices are taken as the caller gives them. *)
SelectPagesAsGiven ==
    /\ phase = "asked"
    /\ Acceptable
    /\ selected' = IF request.all THEN [k \in Requested |-> k]
                   ELSE [k \in DOMAIN request.indices |-> request.indices[k] + 1]
    /\ phase' = "indexing"
    /\ UNCHANGED <<vars, request, pending, edited, published, skipped, rewritten>>

SelectPages ==
    /\ phase = "asked"
    /\ Acceptable
    /\ \E pages \in [1..Cardinality(Requested) -> Requested] :
          /\ \A j, k \in DOMAIN pages : j < k => pages[j] < pages[k]
          /\ selected' = pages
    /\ phase' = "indexing"
    /\ UNCHANGED <<vars, request, pending, edited, published, skipped, rewritten>>

RefuseRequest ==
    /\ phase = "asked"
    /\ ~Acceptable
    /\ phase' = "refused"
    /\ UNCHANGED <<vars, request, selected, pending, edited, published, skipped, rewritten>>

BuildIndex ==
    /\ phase = "indexing"
    /\ Next
    /\ UNCHANGED edit

StartEditing ==
    /\ phase = "indexing"
    /\ done
    /\ pending' = FlattenSeq([k \in DOMAIN selected |-> PageStreams(selected[k])])
    /\ phase' = "editing"
    /\ UNCHANGED <<vars, request, selected, edited, published, skipped, rewritten>>

(* plan_stream leaves a stream alone when it was not located, when it is    *)
(* not exclusively the page's, or when the edit does not rewrite it (its    *)
(* dictionary or filter is unsupported, it does not round-trip, nothing     *)
(* changes).                                                                *)
SkipStream ==
    /\ phase = "editing"
    /\ pending # <<>>
    /\ request.mode # "LogicalSequence"
    /\ skipped' = Append(skipped,
           [outcome |-> Head(pending),
            owned |-> Head(pending).located /\ ~InPlace(Head(pending).object)])
    /\ pending' = Tail(pending)
    /\ UNCHANGED <<vars, request, selected, phase, edited, published, rewritten>>

EditStream ==
    /\ phase = "editing"
    /\ pending # <<>>
    /\ Head(pending).located
    /\ InPlace(Head(pending).object)
    /\ edited' = Append(edited, Head(pending))
    /\ pending' = Tail(pending)
    /\ UNCHANGED <<vars, request, selected, phase, published, skipped, rewritten>>

----------------------------------------------------------------------------
(* The pipeline over the concatenation of a page's streams.                 *)

(* A page with a member or a stream that cannot be read never gets as far   *)
(* as the caller's edit.                                                    *)
SequenceReady(contents) == ~SkippedWhole(contents) /\ \A r \in ToSet(contents.refs) : Located(r)

(* Anything that goes wrong skips the whole page, and only that page: an    *)
(* unreadable stream, the preflight over graphics states and transparency   *)
(* groups, the caller's edit, a splice in a stream that is not the page's   *)
(* own, a result that no longer assembles, an encoding over its bound.      *)
SkipPage ==
    /\ phase = "editing"
    /\ pending # <<>>
    /\ request.mode = "LogicalSequence"
    /\ skipped' = Append(skipped, [outcome |-> Head(pending), owned |-> FALSE])
    /\ pending' = Tail(pending)
    /\ UNCHANGED <<vars, request, selected, phase, edited, published, rewritten>>

(* The caller's edit changes some of the streams that are the page's own,   *)
(* perhaps none; every other stream is reported once, whatever the edit     *)
(* wanted of it, and the page's metadata is delivered.                      *)
PublishPage ==
    LET page == Head(pending).page
        contents == file.contents[page]
        streams == [k \in DOMAIN contents.refs |-> Outcome(page, k - 1, contents.refs[k], TRUE)]
        objects == [k \in DOMAIN FirstOccurrences(contents.refs) |->
                       streams[FirstOccurrences(contents.refs)[k]]]
        own == {o \in ToSet(objects) : InPlace(o.object)}
    IN  /\ phase = "editing"
        /\ pending # <<>>
        /\ request.mode = "LogicalSequence"
        /\ SequenceReady(contents)
        /\ \E changed \in SUBSET own :
              edited' = edited \o Keeping(objects, changed)
        /\ skipped' = skipped \o
              LET shared == Keeping(objects, ToSet(objects) \ own)
              IN  [k \in DOMAIN shared |-> [outcome |-> shared[k], owned |-> TRUE]]
        /\ published' = Append(published, page)
        /\ pending' = Tail(pending)
        /\ UNCHANGED <<vars, request, selected, phase, rewritten>>

----------------------------------------------------------------------------

(* merge_duplicate_dirty_objects keeps the first dirty object of a number;  *)
(* the revision replaces what is left.                                      *)
Merged(outcomes) ==
    {outcomes[k].object : k \in {i \in DOMAIN outcomes :
        \A j \in 1..(i - 1) : Number(outcomes[j].object) # Number(outcomes[i].object)}}

WriteDirtyObjects ==
    /\ phase = "editing"
    /\ pending = <<>>
    /\ rewritten' = Merged(edited)
    /\ phase' = "written"
    /\ UNCHANGED <<vars, request, selected, pending, edited, published, skipped>>

EditNext ==
    \/ SelectPages
    \/ RefuseRequest
    \/ BuildIndex
    \/ StartEditing
    \/ SkipStream
    \/ EditStream
    \/ SkipPage
    \/ PublishPage
    \/ WriteDirtyObjects

EditSpec == EditInit /\ [][EditNext]_allVars

----------------------------------------------------------------------------

(* The users that really reach an object, whatever the index says. *)
TrueReferrers(r) ==
    {TrueUsers[i].id : i \in {j \in DOMAIN TrueUsers : r \in ReachOf(TrueUsers[j], FALSE)}}

(* Rewriting a stream in place changes the page it was selected for and     *)
(* nothing else: no other page, enumerated or not, readable or not, and no  *)
(* key of the catalog or the trailer reaches a rewritten object.            *)
OnlySelectedPagesChange ==
    \A r \in rewritten : \E k \in DOMAIN selected : TrueReferrers(r) = {<<"Page", selected[k]>>}

(* The users the index may list for an object: those that reach it even     *)
(* through the /Parent of page-tree nodes, and the trailer's /Root edge for *)
(* the catalog itself.                                                      *)
PossibleReferrers(r) ==
    {TrueUsers[i].id : i \in {j \in DOMAIN TrueUsers : r \in ReachOf(TrueUsers[j], TRUE)}}
    \union (IF r = file.root THEN {RootUser.id} ELSE {})

(* The gate is not merely refusing: in a document the index read whole, a   *)
(* located stream only its own page leads to is never left as shared.       *)
PrivateStreamIsEditable ==
    facts = {} => \A k \in DOMAIN skipped :
        skipped[k].owned => PossibleReferrers(skipped[k].outcome.object)
                                # {<<"Page", skipped[k].outcome.page>>}

(* Every distinct stream of a selected page is accounted for once: stream   *)
(* by stream it is edited or skipped, unless its page is skipped whole; a   *)
(* logical edit either skips the page, and then nothing of it is edited or  *)
(* delivered, or delivers it and reports each stream it could not touch.    *)
EveryStreamReported ==
    phase = "written" =>
        \A k \in DOMAIN selected :
            LET page == selected[k]
                streams == ToSet(file.contents[page].refs)
                reports(r) == Cardinality({i \in DOMAIN edited :
                                             edited[i].page = page /\ edited[i].object = r})
                              + Cardinality({i \in DOMAIN skipped :
                                    skipped[i].outcome.page = page /\ skipped[i].outcome.object = r})
                delivered == Cardinality({i \in DOMAIN published : published[i] = page})
            IN  \/ /\ reports(NoObject) = 1 /\ delivered = 0
                   /\ \A r \in streams : reports(r) = 0
                   /\ SkippedWhole(file.contents[page]) \/ request.mode = "LogicalSequence"
                \/ /\ reports(NoObject) = 0
                   /\ delivered = IF request.mode = "LogicalSequence" THEN 1 ELSE 0
                   /\ \A r \in streams :
                         \/ reports(r) = 1
                         \/ reports(r) = 0 /\ delivered = 1 /\ InPlace(r)
=============================================================================
