------------------------------- MODULE CloneSets -------------------------------
(***************************************************************************)
(* Form clone sets of presslint-write: for every selected page bound to a   *)
(* form it does not own alone, plan the closure of objects to copy, reserve *)
(* fresh numbers for all sets in one call, stage the copied bodies and the  *)
(* page dictionaries that name the copies, and hand them over as one batch  *)
(* or not at all.  Production drops the batch; what it would write is the   *)
(* document "after".                                                        *)
(***************************************************************************)
EXTENDS PageBindings

CONSTANTS
    MaxCloneDepth,      \* MAX_CLONE_SET_REFERENCE_DEPTH
    MaxMembers,         \* MAX_CLONE_SET_MEMBERS
    MaxOccurrences,     \* MAX_CLONE_SET_REFERENCE_OCCURRENCES
    MaxDecodes,         \* MAX_CLONE_SET_DECODE_WORK_BYTES, one unit a member
    MaxBodies,          \* MAX_FORM_CLONE_MATERIALIZED_BODY_BYTES, one unit a body
    MaxNumber           \* ANNEX_C_MAX_INDIRECT_OBJECT_NUMBER

ASSUME CloneBoundsAssumption ==
    /\ MaxCloneDepth \in Nat /\ MaxOccurrences \in Nat /\ MaxDecodes \in Nat
    /\ MaxMembers \in Nat \ {0} /\ MaxBodies \in Nat /\ MaxNumber \in Nat

VARIABLES
    plan,       \* [selected, left, sets, inPlace, disqualified]: pages still to seed
    pending,    \* seeds of the page at hand, by ascending target
    closure,    \* the walk of the first of them
    slots,      \* per leaf reference: [poisoned, ordinal, counts]
    export,     \* [left, bodies, why]: what is still to stage, what is staged
    after       \* the objects once the batch is written

cloneVars == <<plan, pending, closure, slots, export, after>>

NoClosure == [queue |-> <<>>, visited |-> {}, members |-> {}, nulls |-> {},
              budget |-> [depth |-> 0, members |-> 0, occurrences |-> 0, decodes |-> 0]]
NoCounts == [candidates |-> 0, planned |-> 0, refused |-> 0, objects |-> 0, nulls |-> 0,
             staged |-> 0, stagedObjects |-> 0, exportRefused |-> 0]

GloballyComplete == listing.truncated = "none" /\ listing.skips = <<>>

----------------------------------------------------------------------------
(* Seeds: the forms a page binds on its own leaf but shares with others.    *)

SeedClass(w) ==
    IF w.subtype # "Form" THEN "Disqualified"
    ELSE IF w.verdict = "ProvenPageLocal" THEN "InPlace"
    ELSE IF w.verdict = "TargetConsumersNotExclusive" /\ GloballyComplete THEN "Candidate"
    ELSE "Disqualified"

WitnessesIn(ordinal, class) == {w \in bindings[ordinal].witnesses : SeedClass(w) = class}

SeedsOf(ordinal) ==
    SetToSortSeq({w.target : w \in WitnessesIn(ordinal, "Candidate")}, LAMBDA a, b : a[1] < b[1])

SitesOf(ordinal, root) ==
    {w.site : w \in {c \in WitnessesIn(ordinal, "Candidate") : c.target = root}}

(* The page dictionary may be rewritten when this is its only place in the  *)
(* tree and it has one plain parent.                                        *)
Multiplicity(ref) == Cardinality({i \in DOMAIN listing.leaves : listing.leaves[i].ref = ref})

OneParent(entries) ==
    /\ \A i \in DOMAIN entries : entries[i].key # "#"
    /\ DecodedEntry(entries, "Parent").kind = "ref"

(* Mutant: any leaf with one parent will do, however often it is listed.    *)
ProofOfOneParent(ref) ==
    IF Node(ref).header # ref THEN "PageIdentityMismatch"
    ELSE IF ~OneParent(Node(ref).body.entries) THEN "ParentNotSingleReference"
    ELSE "none"

PageRefusal(ref) ==
    IF Multiplicity(ref) # 1 THEN "LeafNotUnique"
    ELSE IF Node(ref).header # ref THEN "PageIdentityMismatch"
    ELSE IF ~OneParent(Node(ref).body.entries) THEN "ParentNotSingleReference"
    ELSE "none"

CloneSet(ordinal, root, outcome, why, walked) ==
    [page |-> [ordinal |-> ordinal, ref |-> listing.leaves[ordinal].ref],
     root |-> root, sites |-> SitesOf(ordinal, root), outcome |-> outcome, why |-> why,
     members |-> IF outcome = "planned" THEN walked.members ELSE {},
     nulls |-> IF outcome = "planned" THEN walked.nulls ELSE {},
     fresh |-> <<>>, budget |-> walked.budget]

BeginPlan ==
    /\ phase = "bound"
    /\ \E selected \in SUBSET DOMAIN listing.leaves :
          plan' = [plan EXCEPT !.selected = selected, !.left = SetToSortSeq(selected, <)]
    /\ phase' = "planning"
    /\ UNCHANGED <<doc, walk, spine, listing, bindingVars, pending, closure, slots, export, after>>

Seeding == phase = "planning" /\ pending = <<>> /\ plan.left # <<>>

SeedPage ==
    /\ Seeding
    /\ LET ordinal == Head(plan.left)
           seeds == SeedsOf(ordinal)
           refusal == PageRefusal(listing.leaves[ordinal].ref)
           counted == [plan EXCEPT
               !.inPlace = @ + Cardinality(WitnessesIn(ordinal, "InPlace")),
               !.disqualified = @ + Cardinality(WitnessesIn(ordinal, "Disqualified"))] IN
       IF seeds = <<>> THEN plan' = [counted EXCEPT !.left = Tail(@)] /\ UNCHANGED pending
       ELSE IF refusal = "none" THEN plan' = counted /\ pending' = seeds
       ELSE /\ plan' = [counted EXCEPT
                   !.left = Tail(@),
                   !.sets = @ \o [i \in DOMAIN seeds |->
                                     CloneSet(ordinal, seeds[i], "refused", refusal, NoClosure)]]
            /\ UNCHANGED pending
    /\ closure' = IF pending' = <<>> THEN NoClosure
                  ELSE [NoClosure EXCEPT !.queue = <<[ref |-> Head(pending'), depth |-> 0]>>,
                                         !.visited = {Head(pending')}]
    /\ UNCHANGED <<doc, phase, walk, spine, listing, bindingVars, slots, export, after>>

----------------------------------------------------------------------------
(* The closure walk: first in, first out, one object a step.                *)

FrontierKeys == {"AcroForm", "StructTreeRoot", "OCProperties"}
OnFrontier(ref) ==
    \/ ref \in {doc.catalog, CatalogPages.ref} \union {leaf.ref : leaf \in ToSet(listing.leaves)}
    \/ \E user \in Referrers(consumers.users, ref) : user.key \in FrontierKeys

NullEquivalent(ref) == ref[1] \notin DOMAIN Objects

AncillaryKeys == {"OC", "Ref", "F", "OPI", "PieceInfo", "StructParent", "StructParents"}
GraphTypes == {"Catalog", "Pages", "Page", "StructTreeRoot", "StructElem", "OCG", "OCMD"}

EntryProblem(entries, i) ==
    LET key == entries[i].key
        value == entries[i].value IN
    IF key = "#" \/ \E j \in 1 .. (i - 1) : entries[j].key = key THEN "MalformedStructuralKeys"
    ELSE IF key \in AncillaryKeys THEN "AncillaryKey"
    ELSE IF key # "Type" THEN "none"
    ELSE IF value.kind # "name" THEN "MalformedStructuralKeys"
    ELSE IF value.name \in GraphTypes THEN "GraphEscape"
    ELSE "none"

Preflight(body) ==
    LET wrong == {i \in DOMAIN body.entries : EntryProblem(body.entries, i) # "none"} IN
    IF body.kind = "broken" THEN "MalformedStructuralKeys"
    ELSE IF ~IsScanned(body) \/ wrong = {} THEN "none"
    ELSE EntryProblem(body.entries, Min(wrong))

RECURSIVE ScansWhole(_)
ScansWhole(value) ==
    CASE value.kind = "malformed" -> FALSE
      [] value.kind = "array" -> \A i \in DOMAIN value.items : ScansWhole(value.items[i])
      [] value.kind = "dict" -> \A i \in DOMAIN value.entries : ScansWhole(value.entries[i].value)
      [] OTHER -> TRUE

Popped == Head(closure.queue)
Outgoing(ref) == RefsOf(BodyAt(Objects, ref))
NewChildren(ref) == ToSet(Outgoing(ref)) \ closure.visited
Enqueued(ref, depth) ==
    LET add(queue, child) ==
            IF child \in closure.visited \/ \E i \in DOMAIN queue : queue[i].ref = child THEN queue
            ELSE Append(queue, [ref |-> child, depth |-> depth]) IN
    FoldLeft(add, <<>>, Outgoing(ref))

Compressed(ref) == Node(ref).at = "member"

(* Mutant: one member more than the budget.                                 *)
MembersSpentOnePast == closure.budget.members > MaxMembers

MembersSpent == closure.budget.members >= MaxMembers

WalkRefusal(ref, depth) ==
    IF OnFrontier(ref) THEN "GraphEscape"
    ELSE IF NullEquivalent(ref) THEN "none"
    ELSE IF Node(ref).at = "ambiguous" THEN "AmbiguousLookup"
    ELSE IF MembersSpent THEN "MemberBudget"
    ELSE IF Compressed(ref) /\ ref[2] = 0 /\ closure.budget.decodes = MaxDecodes THEN "DecodeWorkBudget"
    ELSE IF ~ResolvesTo(Objects, ref) THEN "ResolutionFailed"
    ELSE IF Preflight(BodyAt(Objects, ref)) # "none" THEN Preflight(BodyAt(Objects, ref))
    ELSE IF ~ScansWhole(BodyAt(Objects, ref)) THEN "BodyScanIncomplete"
    ELSE IF closure.budget.occurrences + Len(Outgoing(ref)) > MaxOccurrences THEN "ReferenceBudget"
    ELSE IF NewChildren(ref) # {} /\ depth = MaxCloneDepth THEN "DepthBudget"
    ELSE "none"

(* What the walk has spent by the time it accepts ref or stops at it.       *)
Charged(ref, depth, why) ==
    LET located == why # "AmbiguousLookup" /\ ~OnFrontier(ref) /\ ~NullEquivalent(ref)
        resolved == located /\ why \notin {"MemberBudget", "DecodeWorkBudget", "ResolutionFailed"}
        scanned == resolved /\ why \in {"none", "DepthBudget"}
        b == closure.budget IN
    [depth |-> Max({b.depth, depth}),
     members |-> IF located /\ why # "MemberBudget" THEN b.members + 1 ELSE b.members,
     decodes |-> IF resolved /\ Compressed(ref) THEN b.decodes + 1 ELSE b.decodes,
     occurrences |-> IF why = "ReferenceBudget" THEN MaxOccurrences
                     ELSE IF scanned THEN b.occurrences + Len(Outgoing(ref)) ELSE b.occurrences]

WalkingClosure == phase = "planning" /\ pending # <<>>

(* The next seed of the page, or the next page.                             *)
SeedDone(outcome, why, walked) ==
    /\ plan' = [plan EXCEPT
           !.sets = Append(@, CloneSet(Head(plan.left), Head(pending), outcome, why, walked)),
           !.left = IF Len(pending) = 1 THEN Tail(@) ELSE @]
    /\ pending' = Tail(pending)
    /\ closure' = IF Len(pending) = 1 THEN NoClosure
                  ELSE [NoClosure EXCEPT !.queue = <<[ref |-> pending[2], depth |-> 0]>>,
                                         !.visited = {pending[2]}]

RefuseSet ==
    /\ WalkingClosure /\ closure.queue # <<>>
    /\ LET why == WalkRefusal(Popped.ref, Popped.depth) IN
       /\ why # "none"
       /\ SeedDone("refused", why,
                   [closure EXCEPT !.budget = Charged(Popped.ref, Popped.depth, why)])
    /\ UNCHANGED <<doc, phase, walk, spine, listing, bindingVars, slots, export, after>>

VisitNull ==
    /\ WalkingClosure /\ closure.queue # <<>>
    /\ WalkRefusal(Popped.ref, Popped.depth) = "none"
    /\ NullEquivalent(Popped.ref)
    /\ closure' = [closure EXCEPT !.queue = Tail(@), !.nulls = @ \union {Popped.ref},
                                  !.budget = Charged(Popped.ref, Popped.depth, "none")]
    /\ UNCHANGED <<doc, phase, walk, spine, listing, bindingVars, plan, pending, slots, export, after>>

VisitMember ==
    /\ WalkingClosure /\ closure.queue # <<>>
    /\ WalkRefusal(Popped.ref, Popped.depth) = "none"
    /\ ~NullEquivalent(Popped.ref)
    /\ closure' = [queue |-> Tail(closure.queue) \o Enqueued(Popped.ref, Popped.depth + 1),
                   visited |-> closure.visited \union NewChildren(Popped.ref),
                   members |-> closure.members \union {Popped.ref},
                   nulls |-> closure.nulls,
                   budget |-> Charged(Popped.ref, Popped.depth, "none")]
    /\ UNCHANGED <<doc, phase, walk, spine, listing, bindingVars, plan, pending, slots, export, after>>

FinishSet ==
    /\ WalkingClosure /\ closure.queue = <<>>
    /\ SeedDone("planned", "none", closure)
    /\ UNCHANGED <<doc, phase, walk, spine, listing, bindingVars, slots, export, after>>

----------------------------------------------------------------------------
(* One reservation for the members of all planned sets, above every number  *)
(* of the document, used or only mentioned; then the page slots.            *)

Planned == {i \in DOMAIN plan.sets : plan.sets[i].outcome = "planned"}
ByReference(members) == SetToSortSeq(members, LAMBDA a, b : a[1] < b[1])
Total == MapThenSumSet(LAMBDA i : Cardinality(plan.sets[i].members), Planned)

FloorFails ==
    \E n \in DOMAIN Objects : \/ ~ResolvesTo(Objects, <<n, Objects[n].gen>>)
                             \/ ~ScansWhole(Objects[n].body)

Mentioned == {r[1] : r \in UNION {ToSet(RefsOf(Objects[n].body)) : n \in DOMAIN Objects}}

(* Mutant: the floor looks at the entries alone.                            *)
FloorOfEntries == 1 + Max(DOMAIN Objects)

Floor == 1 + Max(DOMAIN Objects \union Mentioned \union {doc.catalog[1]})

ReservationRefused == Total > 0 /\ (FloorFails \/ Floor + Total - 1 > MaxNumber)

(* How many numbers the sets before the i-th take.                          *)
Offset(i) ==
    MapThenSumSet(LAMBDA k : Cardinality(plan.sets[k].members), {k \in Planned : k < i})

Partitioned(i) ==
    LET order == ByReference(plan.sets[i].members) IN
    [source \in plan.sets[i].members |->
        <<Floor + Offset(i) + (CHOOSE k \in DOMAIN order : order[k] = source) - 1, 0>>]

ReservedSets ==
    [i \in DOMAIN plan.sets |->
        IF i \notin Planned THEN plan.sets[i]
        ELSE IF ReservationRefused
             THEN [plan.sets[i] EXCEPT !.outcome = "refused", !.why = "ReservationRefused",
                                       !.members = {}, !.nulls = {}]
        ELSE [plan.sets[i] EXCEPT !.fresh = Partitioned(i)]]

Sum(sets, page, F(_)) ==
    MapThenSumSet(LAMBDA i : F(sets[i]), {i \in DOMAIN sets : sets[i].page = page})

PlanCounts(sets, page) ==
    LET with(outcome) == Sum(sets, page, LAMBDA s : IF s.outcome = outcome THEN 1 ELSE 0) IN
    [NoCounts EXCEPT
        !.candidates = Sum(sets, page, LAMBDA s : 1),
        !.planned = with("planned"),
        !.refused = with("refused"),
        !.objects = Sum(sets, page, LAMBDA s : Cardinality(s.members)),
        !.nulls = Sum(sets, page, LAMBDA s : Cardinality(s.nulls))]

(* A leaf selected twice has a slot nobody reads or writes.                 *)
PageSlots(sets) ==
    LET ordinals(ref) == {i \in plan.selected : listing.leaves[i].ref = ref} IN
    [ref \in {listing.leaves[i].ref : i \in plan.selected} |->
        [poisoned |-> Cardinality(ordinals(ref)) > 1,
         ordinal |-> Min(ordinals(ref)),
         counts |-> PlanCounts(sets, [ordinal |-> Min(ordinals(ref)), ref |-> ref])]]

OwnSlot(page) ==
    page.ref \in DOMAIN slots /\ ~slots[page.ref].poisoned /\ slots[page.ref].ordinal = page.ordinal

PageCounts(ordinal) ==
    LET page == [ordinal |-> ordinal, ref |-> listing.leaves[ordinal].ref] IN
    IF OwnSlot(page) THEN slots[page.ref].counts ELSE NoCounts

Reserve ==
    /\ phase = "planning" /\ plan.left = <<>> /\ pending = <<>>
    /\ LET sets == ReservedSets
           ready == IF ReservationRefused THEN {} ELSE Planned
           jobs(i) == LET order == ByReference(plan.sets[i].members) IN
                      [k \in DOMAIN order |-> [set |-> i, source |-> order[k]]] IN
       /\ plan' = [plan EXCEPT !.sets = sets]
       /\ slots' = PageSlots(sets)
       /\ export' = [export EXCEPT !.left =
              FlattenSeq([k \in 1 .. Cardinality(ready) |-> jobs(SetToSortSeq(ready, <)[k])])]
    /\ phase' = "staging"
    /\ UNCHANGED <<doc, walk, spine, listing, bindingVars, pending, closure, after>>

----------------------------------------------------------------------------
(* The staged export: one copied body a step, or the whole batch refused.   *)

(* Mutant: references inside an array keep naming the source.               *)
RECURSIVE TranslatedOutsideArrays(_, _)
TranslatedOutsideArrays(value, fresh) ==
    CASE value.kind = "ref" -> IF value.ref \in DOMAIN fresh THEN [value EXCEPT !.ref = fresh[@]] ELSE value
      [] value.kind = "dict" ->
            [value EXCEPT !.entries =
                [i \in DOMAIN @ |-> [@[i] EXCEPT !.value = TranslatedOutsideArrays(@, fresh)]]]
      [] OTHER -> value

RECURSIVE Translated(_, _)
Translated(value, fresh) ==
    CASE value.kind = "ref" -> IF value.ref \in DOMAIN fresh THEN [value EXCEPT !.ref = fresh[@]] ELSE value
      [] value.kind = "array" ->
            [value EXCEPT !.items = [i \in DOMAIN @ |-> Translated(@[i], fresh)]]
      [] value.kind = "dict" ->
            [value EXCEPT !.entries = [i \in DOMAIN @ |-> [@[i] EXCEPT !.value = Translated(@, fresh)]]]
      [] OTHER -> value

LengthRefusal(source, entries, fresh) ==
    LET length == DecodedEntry(entries, "Length") IN
    IF length.kind = "absent" THEN "LengthMissing"
    ELSE IF length.kind = "duplicate" THEN "LengthDuplicate"
    ELSE IF RawEntry(entries, "Length").kind = "absent" THEN "LengthNonCanonical"
    ELSE IF length.kind = "number" THEN "none"
    ELSE IF length.kind # "ref" THEN "LengthUnsupportedShape"
    ELSE IF length.ref = source THEN "LengthSelfReferential"
    ELSE IF length.ref \in DOMAIN fresh THEN "none"
    ELSE IF NullEquivalent(length.ref) THEN "LengthNullEquivalent"
    ELSE "LengthOutOfSet"

BodyRefusal(source, fresh) ==
    LET body == BodyAt(Objects, source) IN
    IF Compressed(source)
    THEN IF body.kind = "ref" THEN "ObjectStreamMemberSolelyReference"
         ELSE IF body.kind = "several" THEN "ObjectStreamMemberNotSingleValue"
         ELSE "none"
    ELSE IF body.kind = "string" THEN "UnsupportedBodyShape"
    ELSE IF IsStream(body) /\ body.length = "unframed" THEN "StreamFraming"
    ELSE IF IsStream(body) /\ LengthRefusal(source, body.entries, fresh) # "none"
         THEN LengthRefusal(source, body.entries, fresh)
    ELSE IF IsStream(body) /\ ~ExtentFound(Objects, body) THEN "LengthExtentMismatch"
    ELSE IF body.kind = "several" THEN "UncompressedMemberNotSingleValue"
    ELSE "none"

(* The numbers staged so far and the next one leave no gap.                 *)
Contiguous(ref) ==
    export.bodies # <<>> => Max({r[1] : r \in DOMAIN export.bodies}) + 1 = ref[1]

StageRefusal(job) ==
    LET fresh == plan.sets[job.set].fresh IN
    IF ~Contiguous(fresh[job.source]) THEN "ReservationNotContiguous"
    ELSE IF Compressed(plan.sets[job.set].root) THEN "RootOffsetMismatch"
    ELSE IF BodyRefusal(job.source, fresh) # "none" THEN BodyRefusal(job.source, fresh)
    ELSE IF Cardinality(DOMAIN export.bodies) = MaxBodies THEN "MaterializedBodyBudget"
    ELSE "none"

Staging == phase = "staging" /\ export.left # <<>>
Job == Head(export.left)

StageMember ==
    /\ Staging
    /\ StageRefusal(Job) = "none"
    /\ LET fresh == plan.sets[Job.set].fresh
           body == Translated(BodyAt(Objects, Job.source), fresh) IN
       export' = [export EXCEPT !.left = Tail(@), !.bodies = @ @@ (fresh[Job.source] :> body)]
    /\ UNCHANGED <<doc, phase, walk, spine, listing, bindingVars, plan, pending, closure, slots, after>>

WithCounts(Change(_, _)) ==
    [ref \in DOMAIN slots |->
        LET page == [ordinal |-> slots[ref].ordinal, ref |-> ref]
            ready == {i \in Planned : plan.sets[i].page = page} IN
        IF slots[ref].poisoned THEN slots[ref]
        ELSE [slots[ref] EXCEPT !.counts = Change(@, ready)]]

(* Mutant: a refused export is charged to the first page with a set only.   *)
ExportRefusedOnce(counts, ready) ==
    [counts EXCEPT !.exportRefused = IF ready = {} THEN 0 ELSE 1]

ExportRefusedCounts(counts, ready) == [counts EXCEPT !.exportRefused = Cardinality(ready)]

StagedCounts(counts, ready) ==
    [counts EXCEPT !.staged = Cardinality(ready),
                   !.stagedObjects = MapThenSumSet(LAMBDA i : Cardinality(plan.sets[i].members), ready)]

RefuseExport ==
    /\ Staging
    /\ StageRefusal(Job) # "none"
    /\ export' = [left |-> <<>>, bodies |-> <<>>, why |-> StageRefusal(Job)]
    /\ slots' = WithCounts(ExportRefusedCounts)
    /\ phase' = "exportRefused"
    /\ UNCHANGED <<doc, walk, spine, listing, bindingVars, plan, pending, closure, after>>

FinishExport ==
    /\ phase = "staging" /\ export.left = <<>>
    /\ slots' = WithCounts(StagedCounts)
    /\ phase' = "staged"
    /\ UNCHANGED <<doc, walk, spine, listing, bindingVars, plan, pending, closure, export, after>>

----------------------------------------------------------------------------
(* The commit batch: every page with a planned set once, each of its sites  *)
(* naming the copy of that page.                                            *)

PlannedPages == {plan.sets[i].page : i \in Planned}
EntryAt(entries, key) == CHOOSE i \in DOMAIN entries : entries[i].key = key

SiteValue(body, site) ==
    LET resources == DecodedEntry(body.entries, "Resources")
        xobjects == DecodedEntry(resources.entries, "XObject") IN
    xobjects.entries[site].value

Retargeted(body, site, ref) ==
    LET r == EntryAt(body.entries, "Resources")
        x == EntryAt(body.entries[r].value.entries, "XObject") IN
    [body EXCEPT !.entries[r].value.entries[x].value.entries[site].value.ref = ref]

PageRetargeted(page) ==
    LET own == {i \in Planned : plan.sets[i].page = page}
        edits == UNION {{[site |-> s, ref |-> plan.sets[i].fresh[plan.sets[i].root]] :
                            s \in plan.sets[i].sites} : i \in own} IN
    FoldSet(LAMBDA e, body : Retargeted(body, e.site, e.ref), Node(page.ref).body, edits)

CommitRefusal ==
    IF Total # Cardinality(DOMAIN export.bodies) THEN "StagedBatchMisaligned"
    ELSE IF \E i \in Planned : plan.sets[i].sites = {} THEN "NoRetargetSites"
    ELSE IF \E i \in Planned : plan.sets[i].root \notin DOMAIN plan.sets[i].fresh THEN "RootMappingInvalid"
    ELSE IF \E p, q \in PlannedPages : p # q /\ p.ref = q.ref THEN "PageIdentityCollision"
    ELSE IF \E p \in PlannedPages : Node(p.ref).header # p.ref THEN "PageResolutionMismatch"
    ELSE IF \E i \in Planned : \E s \in plan.sets[i].sites :
                SiteValue(Node(plan.sets[i].page.ref).body, s) # [kind |-> "ref", ref |-> plan.sets[i].root]
         THEN "SiteValueMismatch"
    ELSE "none"

Committed ==
    LET fresh == {r[1] : r \in DOMAIN export.bodies} IN
    [n \in fresh |-> [gen |-> 0, at |-> "offset", header |-> <<n, 0>>, body |-> export.bodies[<<n, 0>>]]]
    @@ [n \in {p.ref[1] : p \in PlannedPages} |->
           [Objects[n] EXCEPT !.body = PageRetargeted(CHOOSE p \in PlannedPages : p.ref[1] = n)]]
    @@ Objects

Commit ==
    /\ phase = "staged"
    /\ IF CommitRefusal = "none" THEN phase' = "committed" /\ after' = Committed
       ELSE phase' = "commitRefused" /\ UNCHANGED after
    /\ UNCHANGED <<doc, walk, spine, listing, bindingVars, plan, pending, closure, slots, export>>

----------------------------------------------------------------------------
CloneInit ==
    /\ BindingInit
    /\ plan = [selected |-> {}, left |-> <<>>, sets |-> <<>>, inPlace |-> 0, disqualified |-> 0]
    /\ pending = <<>> /\ closure = NoClosure /\ slots = <<>>
    /\ export = [left |-> <<>>, bodies |-> <<>>, why |-> "none"]
    /\ after = <<>>

CloneNext ==
    \/ BindingNext /\ UNCHANGED cloneVars
    \/ BeginPlan \/ SeedPage
    \/ RefuseSet \/ VisitNull \/ VisitMember \/ FinishSet
    \/ Reserve \/ StageMember \/ RefuseExport \/ FinishExport
    \/ Commit

----------------------------------------------------------------------------
(* What a reader sees of a value, down to a number of references: a         *)
(* reference that does not resolve is null, wherever it points.             *)
RECURSIVE View(_, _, _)
View(objects, value, depth) ==
    CASE value.kind = "ref" ->
            IF ~ResolvesTo(objects, value.ref) THEN NullValue
            ELSE IF depth = 0 THEN [kind |-> "deep"]
            ELSE View(objects, BodyAt(objects, value.ref), depth - 1)
      [] value.kind = "array" ->
            [value EXCEPT !.items = [i \in DOMAIN @ |-> View(objects, @[i], depth)]]
      [] value.kind = "dict" ->
            [value EXCEPT !.entries =
                [i \in DOMAIN @ |-> [@[i] EXCEPT !.value = View(objects, @, depth)]]]
      [] OTHER -> value

(* Type invariant, with the budgets: a set never holds more than it may,    *)
(* and one refused for a budget has spent all of it.                        *)
Budgets == [MemberBudget |-> "members", DecodeWorkBudget |-> "decodes",
            ReferenceBudget |-> "occurrences", DepthBudget |-> "depth"]
Limits == [members |-> MaxMembers, decodes |-> MaxDecodes,
           occurrences |-> MaxOccurrences, depth |-> MaxCloneDepth]

CloneTypeOK ==
    /\ Cardinality(DOMAIN export.bodies) <= MaxBodies
    /\ \A i \in DOMAIN plan.sets :
           LET set == plan.sets[i] IN
           /\ set.outcome \in {"planned", "refused"}
           /\ Cardinality(set.members) <= MaxMembers
           /\ \A b \in DOMAIN Limits : set.budget[b] \in 0 .. Limits[b]
           /\ set.why \in DOMAIN Budgets => set.budget[Budgets[set.why]] = Limits[Budgets[set.why]]
    /\ phase \notin {"staging", "staged", "committed"} => export.bodies = <<>>

(* Cloning is invisible: whatever the catalog or a page leads to reads as   *)
(* it did before, and no reference that led nowhere leads to a copy.        *)
NothingLooksDifferent ==
    phase = "committed" =>
        \A ref \in {doc.catalog} \union {leaf.ref : leaf \in ToSet(listing.leaves)} :
            View(Objects, [kind |-> "ref", ref |-> ref], MaxCloneDepth + 3)
                = View(after, [kind |-> "ref", ref |-> ref], MaxCloneDepth + 3)

(* What cloning is for: once written, everything below the copied form      *)
(* belongs to its page alone - all of it is copied, and nobody else reaches *)
(* any of it.                                                               *)
ClonesArePrivate ==
    phase = "committed" => \A i \in Planned :
        LET set == plan.sets[i]
            copies == {set.fresh[source] : source \in set.members}
            below == Reached(after, KeyUser("none"), {set.fresh[set.root]}) IN
        /\ below = copies
        /\ \A copy \in copies :
               \A user \in Referrers(Users(after), copy) : user.own = set.page.ref
        /\ Referrers(Users(after), set.fresh[set.root]) # {}

(* The last check is not the one that fails: pages whose copies were all     *)
(* planned, reserved and staged are never found to collide at the commit, a  *)
(* leaf listed under two ordinals included.                                  *)
StagedIsCommitted == phase # "commitRefused"

(* The counts a page reports agree with the plan and with the batch: every  *)
(* witness of a selected page is counted once, the pages' objects add up to *)
(* the numbers reserved, and a planned set is staged or refused with all    *)
(* the others; a leaf selected twice reports nothing.                       *)
CountsMatchPlan ==
    phase \in {"staged", "exportRefused", "committed"} =>
        LET counts == [i \in plan.selected |-> PageCounts(i)]
            sum(F(_)) == MapThenSumSet(LAMBDA i : F(counts[i]), plan.selected) IN
        /\ plan.inPlace + plan.disqualified
               + MapThenSumSet(LAMBDA i : Cardinality(plan.sets[i].sites), DOMAIN plan.sets)
               = MapThenSumSet(LAMBDA i : Cardinality(bindings[i].witnesses), plan.selected)
        /\ sum(LAMBDA c : c.objects) = Total
        /\ sum(LAMBDA c : c.staged) = IF phase = "exportRefused" THEN 0 ELSE Cardinality(Planned)
        /\ sum(LAMBDA c : c.exportRefused) = IF phase = "exportRefused" THEN Cardinality(Planned) ELSE 0
        /\ sum(LAMBDA c : c.stagedObjects) = Cardinality(DOMAIN export.bodies)
        /\ \A i \in plan.selected :
               IF \E j \in plan.selected \ {i} : listing.leaves[j].ref = listing.leaves[i].ref
               THEN counts[i] = NoCounts
               ELSE counts[i].candidates = Cardinality({k \in DOMAIN plan.sets :
                                                          plan.sets[k].page.ordinal = i})
=============================================================================
