# A TLA+ model of presslint

presslint is a prepress core for PDF files: it reads a file into an inventory of
what its pages paint, lets a caller select objects of that inventory, and writes
the changes back as one incremental revision appended to the unchanged input.
It is a Rust workspace (`src/crates/`), sequential and without I/O in its core:
a call takes `&[u8]` and returns a report or a `Vec<u8>`.

What can go wrong in such a program is not a race between threads.  It is a
map merged in the wrong order, a number that means two things after the next
revision, an object taken for private because a bound cut the search short, a
list held by the caller from one call to the next.  These modules state what
the code promises about that, check it on small documents with TLC, and prove
the parts that everything else stands on with TLAPS.

## 1. The system

### Inventory

| Component (crate) | State it keeps | Operations | Hard behaviour | Model |
|---|---|---|---|---|
| Cross-reference chain builders (`presslint-pdf`: `classic_xref_chain.rs`, `xref_chain.rs`, `xref_stream_map.rs`) | visited offsets, merged map, `/Root`, `/Size` | open the next section, merge it newest-wins, stop | `/Prev` cycles, limits tested in a particular order, free entries that hide older ones, duplicates resolved differently by each backend | `XrefSections`, `XrefChain` |
| Object lookup and resolution (`object_lookup.rs`, `object_resolver.rs`) | none | locate a number, check generation and header, extract from an object stream | stale generations, entries whose offset holds another object | `RevisionDocument` (partly) |
| Incremental writer (`presslint-write`: `writer.rs`, `xref_stream_writer.rs`) | none between calls; the caller keeps bytes and reservations | reserve fresh numbers, write, write with fresh objects | a reservation used later, `/Size`, the xref stream's own number, failures after bytes were appended | `IncrementalWriter`, `ObjectStore` |
| Allocation floor (`fresh_objects.rs`) | reference and decode budgets | scan entries, trailers, bodies, object streams | a partial scan must not produce a number | `RevisionDocument` |
| Object consumer index (`object_consumer_index.rs`) | per-user worklist and visited set, pairs, facts | one bounded traversal per user | four bounds, two traversal rules for pages, unreadable catalog or trailer | `ConsumerIndex` |
| Content ownership and page-content edit (`content_object_ownership.rs`, `content_edit_pipeline.rs`, `content_stream_plan.rs`) | planned bodies, per-page outcomes | select pages, plan each stream, gate, merge, write once | two views of one document (pages, index) must agree before an in-place rewrite | `ContentEdit` |
| Logical page-content sequence (`page_content_sequence.rs`, `content_sequence_pipeline.rs`) | the concatenation and its segments; per page what is staged | localize a record, reconcile repeated objects, publish or skip a page | one object twice in a page; a late stream failing after earlier ones were staged | `AliasEpoch` (localization, reconciliation), `ContentEdit` (the pipeline) |
| Device colour rewrite (`content_color_rewrite.rs`) | none | one call of the edit pipeline | none of its own | `ContentEdit` (partly) |
| Alias epoch plan and colour conversion (`alias_epoch_plan.rs`, `content_color_convert.rs`) | two lanes of epochs, a stack mirroring `q`/`Q`, decisions | observe every operator, refuse, execute all or nothing | the plan's copy of the graphics state, repeated records, refusals that arrive late | `AliasEpoch` over `PaintWalker` |
| Form XObject effect (`form_xobject_effect.rs`) | a cache of depth-indexed verdicts, two budgets, the active path, the page's tally | answer which inherited lanes a form paints with | cycles, a horizon, partial cache entries, budgets that run out midway | `FormEffect` |
| Form clone sets (`form_clone_set_plan.rs`, `form_clone_set_plan/`) | the sets and their closures, four budgets, reserved numbers, staged bodies | seed, walk, reserve, export, commit | a plan computed on one snapshot and committed with its numbers; one member refused after others were staged | `CloneSets` over `PageBindings` |
| Page policies and guards (`page_xobject_policy.rs`, `page_device_space_policy.rs`, `page_font_policy.rs`, ...) | none | classify a page's resources fail-closed | poisoned names | their answers are constants of `AliasEpoch`; operators planned |
| Page box inspection (`presslint-pdf`: `page_boxes.rs`) | inherited boxes, the leaf counter | one walk | numbers leaves in a loop of its own | `PageBoxes` |
| Page boxes and planned objects (`presslint-write`: `page_boxes.rs`, `planned.rs`) | planned objects | edit boxes, serialize | number formatting | planned |
| Document access and page tree (`document_access.rs`, `page_tree_*.rs`, `catalog_pages.rs`) | the frames of the walk, visited nodes | bounded walks, by resolved object and by offset | a leaf met twice, cycles, bounds, two walks that see different pages | `PdfValues`, `PageTree` |
| Resource binding walks and classifiers (`page_*_resources.rs`, `page_xobject_binding/`, `font_classify.rs`, `extgstate_classify.rs`, ...) | the resources inherited so far | report each page's names; decide who else reaches an XObject | inheritance, duplicate keys in two spellings, failures that must stay visible | `PageResources`, `ResourceClasses`, `PageReports`, `PageBindings` |
| Graphics-state walker, call machine (`presslint-paint`) | current state, save stack, call stack | one event per operator, enter and leave forms | restore across calls, ordinals of calls that were not entered | `PaintWalker` (colour, text, fonts), `FormExpansion` (calls) |
| Document inventory and form expansion (`presslint`, `presslint-inventory`) | templates, cursors, active descents, the budget of a page | join page reports; expand forms up to bounds | reports joined by position; a template and a walk interpreted apart; colours inherited through a call | `PageReports` (join), `FormExpansion` (partly: digests left out) |
| Selectors, actions, findings | none | pure maps over an inventory | none of order or state | not modelled |
| Byte-level parsing, filters, content syntax | none | pure functions of bytes | inputs too large for a small instance | `PdfValues` takes their results |
| Colour engine | transform cache | convert a colour | numerics, a C library | not modelled; the cache is planned |
| Command line | none | parse, print | none | not modelled |

### How the parts meet

A request opens the document (chain builders, then lookup over the merged map),
enumerates its page leaves, and builds what it needs to know about the whole
document (page reports, the consumer index).  For each selected page it reads `/Contents`,
walks the operators (`presslint-paint`) under the page's policies, and plans new
stream bodies; the alias epoch plan listens to that walk, and a form XObject met
by the walk sends a demand to the form effect analyzer, which the whole request
shares.  A page bound to a form it shares with others may get copies of its own
(clone sets), numbered by the writer's reservation.  Ownership decides which bodies may be rewritten where they are.  The
planned objects of all pages go to the writer in one call, which appends one
revision.  The inspection side stops before that: it joins page reports into an
inventory, and walks each page's content with the forms it calls expanded in
place.  Everything is a call on immutable input; the state that lives from
one step to the next is what the table lists, and the hazards of `PROJECT.json`
sit where one of these parts relies on something another one computed earlier.

### What makes each part correct

* Chains: the map is newest-wins over the whole chain, or there is no map; what
  is acceptable is accepted; the loop stops.
* Writer: an append is an atomic replacement in a store of objects; new numbers
  are unmentioned ones; the output's chain is the old one plus one section.
* Index and edit: a user listed reaches the object; a user not listed does not,
  or a fact says that something was cut; an in-place rewrite changes what its own
  page shows and no other page; a page edited as one sequence is published whole or
  skipped whole, and every stream of it is reported.
* Colour conversion: a page means after the rewrite what it meant before it,
  converted colours apart; an epoch is converted wholly or not at all; epochs with
  nothing against them are converted.
* Form effect: the verdict on a form is a function of the form.
* Page walks: no kid of a page-tree node is lost, all walks number the leaves alike,
  a name is resolved in the nearest resources and never in the wrong ones, and what
  could not be classified stays known as unknown.
* Clone sets: copying is invisible in what any page shows; a copy belongs to its page
  alone; what was staged commits.
* Form expansion: the inventory is the page as it is painted, offers to rewrite only
  what the entry's own stream has set, and answers for every call it did not enter.

## 2. The modules

| Module | Models | State and actions against the code |
|---|---|---|
| `XrefSections` | the entries of one section | operators: which of several entries for a number wins, per backend |
| `XrefChain` | both `/Prev` loops | `visited`, `path`, `next`, `merged`, `size`, `root`, `status` are the loop's locals; one action per way a turn of the loop ends (`RejectSectionLimit`, `RejectOutOfBounds`, `RejectCycle`, `RejectKind`, `RejectSection`, `RejectEntryLimit`, `MergeSection`, `Finish`) in the code's order |
| `ChainLemmas` | | finite sets, walks along one successor each: what the chain proofs share |
| `XrefChainProofs` | | `TypeCorrect`, `NewestWins`, `BuiltIffAcceptable` |
| `NaturalOrder` | | least and greatest elements of bounded sets, for the proofs |
| `RevisionDocument` | a PDF as a sequence of revisions | operators: the effective map, resolution of a reference, the allocation floor with its failures, entry by entry in the code's order; a body is what it references and which of that a scan leaves out; an offset is the index of the revision that holds the object |
| `ObjectStore` | abstract | numbered objects; a call may `Rewrite` live objects it was given, or also `Create` objects at numbers nothing mentions |
| `IncrementalWriter` | the three public calls | `doc`, `map` are the bytes the caller holds, `chain` what the reader makes of their sections, `reservation` the last reservation, `call` the kind of the last call that succeeded with the numbers of its dirty objects (`given`) and of its fresh ones (`fresh`); `Reserve`, `Write`, `WriteWithFresh`, each with every rejection of the code in order |
| `IncrementalWriterProofs` | | `CallerHoldsDocument`, `ResultExtendsChain`, `WrittenSizeCoversChain`, `FreshNeverCollides`, `FreshSelfNeverReferenced`, `WriterImplementsStore` |
| `ConsumerIndex` | the index | one user's worklist at a time: `StartUser`, expansion of one node, end of a user's run |
| `ContentEdit` | the gated page-content edit, by stream and by sequence | composes `ConsumerIndex`: once the index is done, page by page (`SkipPage`, `PublishPage` for a sequence) and stream by stream, then the merge and one revision |
| `ConsumerIndexProofs`, `ContentEditProofs` | | `TypeCorrect`, `ListedIsAlwaysReached`, `NothingIsMissingSilently`; `OnlySelectedPagesEverChange`, `EveryStreamIsReported`, `PrivateStreamsAreEditable` |
| `PaintWalker` | the walker | operators: `Walked(walk, operator)` and the errors that end a walk |
| `AliasEpoch` | the plan, the conversion of one page, execution and reconciliation | composes `PaintWalker`: one action per class of operator (`SelectAlias`, `SetInEpoch`, `SetDeviceColor`, `Save`, `Restore`, `PaintPath`, `InvokeXObject`, ...), and `Finish` |
| `AliasEpochProofs` | | `PlanAlwaysMirrorsWalker`, `OccurrencesAlwaysAgree`, `RewriteAlwaysKeepsMeaning`, `PlainEpochIsAlwaysConverted` |
| `FormEffect` | the analyzer | `path` is the recursion's stack, `cache`, `targets`, `bytes` the analyzer's fields, `seen` and `counted` the page's tally; one action per decision on entering a form, one operator, or one return |
| `FormEffectProofs` | | `PublishedIsAlwaysTrue`, `AnswersIgnoreOrder`, `EveryDeepeningPays`, `PublishedSlotsAlwaysStay` |
| `PdfValues` | dictionaries, values, indirect objects | operators: the entry lookups (raw, decoded, first of a name), what a reference leads to, the extent of a stream |
| `PageTree` | opening a document; the resolved and the offset walk | `frames` is the walk's stack, `found` its report; one action per way a kid is handled (`VisitLeaf`, `SkipKid`, `StopDescent`, `Descend`) or a node finished; `spine` and `listing` are the two finished walks |
| `PageBoxes` | the box walk | the same tree with its own loop and counter, in `boxes` |
| `PageResources`, `ResourceClasses` | the resource inspectors | operators over the path of a leaf: effective `/Resources`, then each category's entries with every skip |
| `PageReports` | contents, environments, the inventory's join | `Report` takes one page of the offset walk, `Join` one page of the resolved walk |
| `PageBindings` | the XObject binding witness and its verdict | `bindings` per leaf over `consumers`, what every typed user reaches |
| `CloneSets` | planning, reserving, staging and committing copies | `plan`, `pending`, `closure` are the planner's locals, `slots` and `export` the exporter's, `after` what the batch would write |
| `DocumentPages` | one document's pages, inspected or edited | composes `PageReports` and `CloneSets` over one `PageTree`: `Inspect` is `build_pdf_inventory`, `Edit` the clone sets of `edit_page_content_incremental_sequence` |
| `FormExpansion` | the call machine with the resolver and the adapter | `stack` and `path` are the machine's, `active`, `remaining`, `prepared`, `skipped` the resolver's, `cursors`, `nextSequence`, `entries` the adapter's; `Descend` and the `Refuse` actions are `resolve_form`, each with the visit of the call that precedes it |
| `MC*` | instances for TLC | the documents, pages and requests of the runs |

The `map` of `PROJECT.json` names the source lines of each definition.  Some
abstractions are used throughout: bytes are records of what the code reads out of
them; a stream's edit is a choice; a converted colour is the old colour marked
with its destination; a name is a member of a small set.  A definition whose
comment says *Mutant* is a wrong variant of the definition after it, kept to show
that the properties notice it.

## 3. The runs

All runs that pass check their whole state space.  `CHECK_DEADLOCK FALSE` stands
only where the system stops by itself: a chain is built, a page ends, a request
is answered.

**XrefChain** (`MCXrefChain`, 285 000 states).  Three section offsets with every
`/Prev` graph over them, out-of-bounds offsets, sections of the wrong kind,
unparsable ones, missing roots, entry lists with duplicates and free entries, and
straight chains of four sections, for both backends, with `MaxSections = 3`
(64 in the code) and `MaxEntries = 2`.  Three sections give a cycle of each
length, a newest, a middle and an oldest section, and four exceed the limit by
one; two entries give a merge at the limit, one past it, and a duplicate at it.
`ChainIsNewestWins` compares the delivered map with the chain read as a whole,
`BuiltExactlyWhenAcceptable` defines acceptable without the loop, `Termination`
needs weak fairness of `Next`: the loop is a `while` in one thread, which nothing
can suspend.

**IncrementalWriter** (`MCIncrementalWriter`, 24 000 states).  Sessions of calls
in any order over classic and xref-stream files with dangling references, freed
numbers, an understated `/Size`, compressed objects, stale generations, documents
over the budgets of the floor proof, and bodies, members and trailers whose reference
scan is cut short or leaves a wide number out; `MaxSections = 3` bounds the session
(one or two writes after the document's own sections), `MaxNumber = 8` stands for
`u32::MAX` so that numbers run out, `MaxEntry = 9` for an entry number and
`MaxGeneration = 1` for the generations that no reference can carry.
`FreshIsUnoccupied` looks at every number a fresh write allocates, live ones included:
none of them is an entry of the document the call was given, is referenced in it,
reported by a scan or not, or belongs to a container or an xref stream.  It fails when
the request is not compared with the floor (a stale reservation, or one number both dirty
and fresh, then overwrites a live object), when the floor comes from a partial scan, and
when it reads no body.  `SelfIsUnreferenced`, `ChainExtended` and `SizeCoversChain` are
properties of steps like it, and
`ImplementsObjectStore` is the refinement: each accepted call maps to `Rewrite` or, with
fresh objects, to `Create` of `ObjectStore`, every other one to a stutter.

**ContentEdit** (`MCContentEdit`, 37 000 states).  Documents of two pages with
shared, repeated and private streams, a page-tree node, a resource that closes
cycles or reaches another page, damaged trailers and catalogs, bodies that fail to
scan, and documents over each bound; requests for all pages, for some, repeated,
out of range and empty, each stream by stream and as one sequence.  `MaxDepth = 3`, `MaxVisited = 8`, `MaxExpanded = 16`,
`MaxPairs = 20` are low enough for each bound's fact to occur and high enough for
an ordinary document to pass.  `ListedIsReached` and `NothingMissingSilently` tie
the index to reachability in the document, in both directions;
`OnlySelectedPagesChange` ties the edit to what pages show, `PrivateStreamIsEditable` says
that the gate refuses nothing it need not, and `EveryStreamReported` counts what is said
of each stream of a selected page.

**AliasEpoch** (`MCAliasEpoch`, 258 000 states).  Families of pages of four to seven
records, each record a choice: colours under `q`/`Q`; values the link refuses or
the selector excludes; graphics objects, text, fonts, XObjects and marked content
around an epoch; an object that stands twice in `/Contents`; owners the gate
refuses; records that straddle streams.  Six records are enough to select, save,
select again, restore and paint; seven for two occurrences of one object with
three records.  `PlanMirrorsWalker` says the plan's own stack never drifts from the
walker's, `OccurrencesAgree` that both occurrences of an object get the same splices
whenever their colour records are cut alike (`ColoursCutAlike`); a stream that ends
inside a record takes the first record of the next from the object it stands in, and two
pages have that: one is still edited, the other is skipped as irreconcilable.
`RewriteKeepsMeaning` replays the rewritten page and compares what each
paint shows; exempt are the colours of an `sc` whose space a converted `g`, `rg` or `k`
had selected (`SetUnderDevice`), which the run `AliasShortcutSetter` is about.
`PlainEpochIsConverted` is the other direction, against a plan that
refuses too much.

**FormEffect** (`MCFormEffect`, 524 000 states).  Four forms in 320 graphs, two
invocations down: chains to the horizon and past it, diamonds, self and mutual cycles,
cycles reached late, bodies refused before or after an invocation; and five documents of
eight forms, in which one form is met first at the horizon and then with more room, twice,
and leads back to a form it was met under, to another, to both or nowhere.  The budgets are
ample, of few targets or of few bytes; two demands come in any order, on one page or two.
`MaxNestedFormDepth = 4` (8 in the code) leaves a partial entry too shallow by one or by
two.  Two demands are what it takes for one to find what the other left behind.
`PublishedIsTrue` and `AnswersAreOrderFree` compare with `Effect`, which has no cache, path
or budget.  A recompute can reach less deep than the entry it replaces (`FormShrink`):
`PublishedSlotsStay` says what every publication keeps, the value of each slot that was
published, always, and how deep the entry reaches, while the budgets last or if the form's
effect is known at some depth.

**DocumentPages** (`MCDocumentPages`, 154 000 states).  Every document is both inspected
and edited.

For the walks (`MCPageWalks`): page trees with shared, cyclic, repeated,
missing, foreign and misspelled kids and with pages in object streams; resources
declared well, badly, twice, by stale or dead references at the root, at a node and at
the page; two entries of each category under one name, two spellings or two names;
boxes at every level; and all shapes of `/Contents`.  `MaxDepth = 2` (64) and
`MaxNodes = 3` (65 536) are one below the deepest and the largest tree, so both
truncations occur.  `EveryKidAccountedFor` counts what becomes of each kid,
`PlainWalksAgree` and `BoxIndexIsLeafOrdinal` compare the three walks with each other,
`NearestResourcesDecide` defines the effective resources without the walk.

For clone sets (`MCCloneSets`): some hundred documents in which two pages
show one form: pages whose dictionary or resources the edit may not touch, page trees
that list a page twice or are not proven, forms that reach scalars, members, missing
numbers, other pages or each other, and consumers known or not known completely.
`MaxCloneDepth = 2`, `MaxMembers = 3`, `MaxOccurrences = 5`, `MaxDecodes = 1`,
`MaxBodies = 5`, `MaxNumber = 40` are small enough that every refusal of the walk, the
page proof and the reservation and nearly every one of staging occurs, and large enough
for ordinary documents to commit.  `NothingLooksDifferent` unfolds what every page
leads to before and after the batch.

**FormExpansion** (`MCFormExpansion`, 38 000 states).  Pages that call one or two forms,
once or twice, in different colours and within `q`; forms that show, set, save and
call, down to a chain one past the depth bound, cycles of one and two, forms whose bytes or
records fail, names that are both image and form, resources that lost something.
`MaxDepth = 2` (8) and `MaxExpansions = 4` (256): both refuse calls in
some documents and neither in most.  `ExpandedAsPainted` compares the entries with a definition
of painting that has no machine: the state at the end of a path of calls.

### Runs that fail

Each of these checks a sentence of the repository against what the code does.

* **WriterSectionLimit**: the writer appends to a chain of 64 sections although the
  reader takes no more than 64; the output cannot be opened.
* **WriterNoOpCapture**: in an xref-stream file, rewriting an object with its own body
  gives the new xref stream a number that a dangling reference may name.
* **AliasShortcutSetter**: `0.5 g ... 0.3 sc f` becomes `... k ... 0.3 sc f`: the
  setter that followed the converted operator now has operands of another space.
* **InventoryJoin**: pages come from the walk that sees compressed page dictionaries,
  their XObject, colour-space and ExtGState reports from walks that do not, and the
  two are joined by position: a compressed page shifts the reports after it.
* **FormShrink**: publication is said to extend a prior partial entry and never to shrink
  it; a form on a cycle, recomputed with the last bytes, is published less deep than it
  was.  The slots it gives up held no verdict, so that no answer to a page changes.

One observation has no run.  A form refused because the form it invokes is proven one level too shallow has no cause to
count, so that the page's refusal counts depend on the order of demands.

## 4. The proofs

TLAPS checks, for all values of the constants under the named assumptions, the
theorems below.  The assumptions give the inputs their types and nothing more: what
the parsers deliver, on any bytes, satisfies them.

* `ChainAssumption`: a file maps offsets to sections whose fields have their types;
  the limits are naturals, and at least one section may be read.
* `DocumentAssumption`, `WriterAssumption`: the reader's limits are naturals; the
  initial documents and the requests carry object numbers of the field's width
  (`IsDocument`, `IsSection`, `IsBody`, `IsScan`), as does what a scan reports; what it
  leaves out may be any number, and an xref stream's entries go up to `MaxEntry`, which
  is no less than `MaxNumber`.  A `/Prev` may point anywhere, at its own
  section, at a later one or past the end.
* `DepthAssumption`, `DocumentsAssumption`: a document is a finite sequence of
  operators for each form, and a form it invokes is one of its forms.
* `FilesAssumption`, `BoundsAssumption`, `ContentsAssumption`, `RequestAssumption`: a
  file has finitely many objects, each a list of keys with references; page leaves are
  objects, and the content walk answers once for each; the bounds are naturals.
* `LeafContentsAssumption`: what the content walk answers with, for a leaf it could
  inspect, are references of that leaf's one `/Contents` entry.  `page_contents.rs`
  reads nothing else: it refuses a page without the key or with two of them.
* `EnvironmentAssumption`, `PageAssumption`, `PolicyAssumption`: names and what they
  resolve to are strings, a page is a finite sequence of cells whose operators have
  their types, a colour operator belongs to a lane, a path paint to one of four kinds
  and an operator the plan cannot see through to one of its four classes; routes lead
  to names and proven XObjects read lanes; the colour-space environment given to the walker
  is the policy's own set of eligible aliases with their families
  (`PageDeviceSpacePolicy::color_space_env`), which is what makes the plan's agreement
  provable at all.
* `OccurrenceAssumption`: the cells of one occurrence show one object, and no two of them
  start at the same place of it: an occurrence is one entry of `/Contents`, and a
  localized record is known by where it starts in that entry's bytes.

**Chains** (`XrefChainProofs`).
`TypeCorrect`: `Spec => []TypeOK`.
`NewestWins`: `Spec => []ChainIsNewestWins`.  That property speaks of finished walks
and is not inductive.  `WalkInv` says what a walk has in hand after any number of
sections: `path` follows `/Prev` from the start (`FollowsPrev`), every number of a
section on the path is in the map (`CoversPath`), and each number of the map comes
from the first section of the path that has it (`NewestOfPath`).  `MergeKeepsWalk` is
the one interesting step; every rejection leaves the map alone.
`BuiltIffAcceptable`: `Spec => []BuiltExactlyWhenAcceptable`, both directions.
`AcceptInv` says that all on the path passed every check, that the limits hold and that
nothing is visited twice, so a finished walk is an acceptable chain.  For the other
direction `RefusedWithCause` is proved of every rejecting action: an acceptable chain
would start with the path and go on past the section that was refused
(`AcceptableGoesOn`, `PathStartsChain`), and a merge over the limit stays over it in the
whole chain (`FewerNumbers`).

**Writer** (`IncrementalWriterProofs`), in sessions of any length over any documents.
The invariant `DocInv` is that the caller holds a document, and as chain and map what
the reader makes of it.  One lemma per kind of call (`WriteDelivers`, `FreshDelivers`)
gives the contract of an accepted write, `Delivered`: one section more whose `/Prev` is
the newest one read, with a `/Size` above all numbers of the chain.  From it:
`CallerHoldsDocument` (`TypeOK`), `ResultExtendsChain` (`ChainExtended`; a walk along
`/Prev` is unique, `ChainIsUnique`) and `WrittenSizeCoversChain` (`SizeCoversChain`).
`FreshNeverCollides` (`FreshIsUnoccupied`) and `FreshSelfNeverReferenced`
(`SelfIsUnreferenced`): where the floor proof fails nowhere (`NothingFails`) it has left
nothing out, so that what occupies a number is what it has seen (`OccupiedIsObserved`); the
floor is above all of that (`FloorIsAbove`); the guard of a fresh write compares the request
with the floor of the bytes it is given (`FreshStartsAtFloor`), so that every fresh number,
whatever it is said to be reserved for, lies above every live one, and the xref stream's own
number lies above the fresh ones (`SelfIsAbove`).  A remembered reservation plays no part:
a stale one is refused, or its numbers are still unoccupied in the bytes at hand.
`WriterImplementsStore` is the refinement `Spec => ImplementsObjectStore`: initial
states map to initial states, every accepted plain write to `Rewrite`, every accepted fresh
write to `Create`, every other step to a stutter, because the effective map of an appended document is the new section in front
of the old map (`EffectiveOfAppend`) and all other numbers resolve as before
(`ObjectKept`).

**Form effect** (`FormEffectProofs`), for any graph of forms, cyclic ones included, any
depth bound, budgets and order of demands.  `FormInv` has the types and the shape of the
stack (`ShapeInv`), what the frames have got past (`BodyInv`), how far what is computed
reaches (`HorizonInv`), and that cache, frames and answer tell the truth (`CacheInv`,
`PathInv`, `AnswerInv`).  Truth is agreement with `Effect`, the recursion that knows no
cache, path or budget; after a budget is spent an unknown slot need not be one, so the
truth has two strengths.  The two facts it turns on are that a form on a cycle is never
proven at any depth (`CycleNeverKnown`: otherwise take the least depth at which a form of
the cycle is), which makes the cycle guard's answer right, and that a frame is opened
for a cached form only to reach deeper.  Hence `PublishedIsAlwaysTrue`
(`PublishedIsTrue`), `AnswersIgnoreOrder` (`AnswersAreOrderFree`), `EveryDeepeningPays`
(`DeepeningPays`) and `PublishedSlotsAlwaysStay` (`PublishedSlotsStay`).

`PublishedSlotsStay` says less than the comment of `form_xobject_effect.rs:361`, by which
publishing never makes an entry reach less deep.  Attempting that proof failed on a
form on a cycle, and the run `FormShrink` shows the failure in the code: a child met on the
form's own path counts as complete there, and as deep as it is in a later recompute that
could not pay for deepening it.  What is proved is what remains: the depth stays while the
budgets last, and at all times for a form whose effect is known at some depth.

**Consumer index** (`ConsumerIndexProofs`), for every document and all four bounds.
`IndexInv` is type and bounds (`IndexTypeOK`), that what is listed and what the current
user has visited is reached (`SoundInv`, with `OwnPagesOnly`: no other page is ever
expanded), and, as long as there is no fact, that the users before the current one are
listed for all they reach and that for the current one the seeds and all edges of what
is no longer waiting have been handled (`CompleteInv`).  `Takes(s, t, targets)` is what
enqueueing a list of references may make of walk and report; it composes, and an
induction over the list gives it for a whole scan (`EnqueuedAllTakes`).  What a user
reaches is shown to be the least set with its seeds that is closed under its edges
(`ReachIsLeast`, `ReachIsClosed`): the levels of `ReachOf` are as many as there are
objects and one more, so one of them adds nothing (`LastLevelIsClosed`).  When a worklist
is empty, the handled references are such a closed set (`EndUserKeeps`).  Hence
`TypeCorrect`, `ListedIsAlwaysReached` (`ListedIsReached`) and
`NothingIsMissingSilently` (`NothingMissingSilently`).

**Content edit** (`ContentEditProofs`), for every document and request, in all three
modes.  `GateIsExact`: where both views agree on one owner and the index has no fact,
the true users of the object are the page alone; completeness of the index gives that
nobody else is, its soundness that the page is, and two listings of one page reach the
same (`SamePageSameReach`), so that the last index of a page listed twice cannot stand
for the wrong one.  `EditInv` carries this over from planning to writing, and
`OnlySelectedPagesEverChange` is `EditSpec => []OnlySelectedPagesChange`;
`PipelineKeepsIndex` repeats the three theorems about the index for the pipeline.

`PrivateStreamsAreEditable` (`PrivateStreamIsEditable`) is the other direction: every
skip that blames the gate is of a stream somebody else may use (`IsShared`, in
`SharedInv`).  Where the one possible referrer of a stream is its page, the complete index
lists the page, because a page reaches the streams of its `/Contents`
(`PageReachesItsStreams`), and lists nobody else, because what is listed is a possible
referrer (`ReachersArePossible`): both views agree and the gate opens (`GateOpens`).  The
attempt found the property, as it was stated of true referrers, to be false: the
traversal follows the `/Parent` of a page-tree node it meets before the `/Kids` that
names it, so that an object hanging off such a tree is listed for `/Pages`, and the gate
leaves it alone.  The run has a document that shows it, and the property speaks of
`PossibleReferrers`, which follow such a `/Parent`.

`EveryStreamIsReported` (`EveryStreamReported`) counts positions in lists.  `ReportInv`
says, at any time of the edit, what is known of each selected page (`Accounted`): stream
by stream, each outcome of the page is waiting or reported, once in all; as a sequence,
the page waits and nothing is said of it, or it is skipped whole, or it is delivered and
each of its streams is reported once or was the edit's to change.  An action moves one
outcome from one list to another, so that a count is followed through appending and
taking the first (`Count` and its lemmas); that nothing waits when the revision is written
makes the sum the property.  It also says that the selected pages ascend: a page requested
twice would otherwise be reported twice.

**Alias epochs** (`AliasEpochProofs`), for every page, environment and policy.
`PlanMirrorsWalker` is not inductive: it compares values, record numbers and names, and
the plan decides a consumer by the space as well; and it bounds no branch by the epochs
there are.  `MirrorInv` adds both, with the types, and states the whole of it of any
epochs, branches, saved branches and walk (`PlanOK`), so that an action is followed
through its stages.  The counts are a sum, of the lanes in hand and of the places saved
(`Tally`), which `q` and `Q` shift from one to the other (`CountAppended`,
`CountRestored`).  Everything else an operator does to epochs is a note on them (`Notes`:
a refusal, a candidate, a consumer) and notes keep the mirror (`PlanNoted`); what is left
are three moves of a branch, ended (`PlanDropped`), opened (`PlanOpened`) and set
(`PlanSet`).  That no epoch is refused for a disagreement follows from the mirror itself:
where the plan would say so, the epoch is refused already, and a first refusal stays
(`FirstRefusalStays`).  Hence `PlanAlwaysMirrorsWalker`.

`OccurrencesAlwaysAgree` is about the last step, but holds because of the ledger kept
before it (`LedgerOK`).  The ledger has four parts: a record is a candidate of one epoch
at most (`CandidatesOK`); the roots of a poisoned record have been refused (`RootsOK`);
each candidate of a repeated object relies on the decision about its record, and agrees
with it unless the record is poisoned (`BackedOK`); and each occurrence walked has
answered that decision with a candidate of its own, unless the record is poisoned or
decided to be none (`AnsweredOK`).  One lemma says that deciding keeps it
(`LedgerSettled`), whatever is noted; another that marks, counts and new epochs do
(`LedgerExtended`).  The other half is the fixed point of what stops: its levels grow, and
there are as many as roots, so the last one is closed (`StoppedIsClosed`; until one level
adds nothing each adds a root, so it would hold them all).  Then a rewrite of one
occurrence is one of every occurrence (`RewritesAgree`): the epoch that answers for the
other occurrence shares the record, so it runs if this one does.  With `OneRewriteEach`
that is the property; nothing about two occurrences of the same object had to be assumed
but `OccurrenceAssumption`, since a record met again is the same operator (`WordsAgree`)
and a record met at two cells belongs to two occurrences (`MetTwice`).

`RewriteAlwaysKeepsMeaning` (`RewriteKeepsMeaning`) replays two programs beside the page,
and needs the whole past of the plan, not its present.  `HistoryOK` keeps that past over
the replay `WalksOf`, in three parts: a lane whose colour is a candidate's carries that
candidate's epoch (`AllHeld`); whatever could read the colour unseen, or set another in its
space and is no candidate, refused the epoch (`Heeded`); and a candidate is the very colour
the walker had after its record (`Genuine`).  Epochs only gain refusals and candidates of
the record at hand (`Extended`), so a step has to be looked at where it stands
(`Advances`), and the past follows (`HistoryStep`).  When the page ends, the epochs that
run make what is written well-formed (`WrittenOK`: replacements convert what they replace,
`Converting`; nothing is left under them, `Heeding`).  From there on the plan is gone: the
page, the page as written and the page without its setters are walked side by side, and
the three colours in each place stay related (`Together`, one lemma for each kind of
operator).  `MeaningInv` puts the three stages together.  The attempt found the property,
as it was stated, to be false: its exemption went by the name in force, and a pattern may
be set by the name of an alias in a space that `g` selected.  The run has a page for that,
and the exemption now asks a walk without setters what selected the space.

`PlainEpochIsAlwaysConverted` (`PlainEpochIsConverted`) is the converse: the plan refuses no
more than it has to.  Its invariant `PlainInv` adds `PlainWalk` to the invariant above while
the page is being walked.  It ranges over the grammar's states, one before each operator
(`InsideIs`, which always exist: `InsideExists`), and says that on a page plain so far
(`PlainSoFar`) the plan's open text, path and marked-content objects are the grammar's
(`Standing`), that every refused epoch has a fault of its own, no link, an unsafe route or
an excluded value (`Justified`, `Faulty`), and that an epoch whose colour was read is known
to be read or is refused (`ReadSeen`).  Each operator is taken where it stands
(`PlainWatched`): most refuse nothing (`Quiet`), a candidate is refused only where the
selector says so (`RefusesExcluded`), and opening refuses only over the route (`Opens`).
That the lane a reader looks at still holds the epoch's branch is the history's
(`HistoryOK`, `SeenStep`).  At the end nothing is open, so nothing more is refused
(`PlainEnds`); and as no object stands twice on a plain page, no two epochs share a record,
so nothing but its own refusal can stop one (`RecordsApart`, `RunsAlone`, `PlainWritten`).

A recursively defined function (`Effect`, `ReachOf`'s levels, `EnqueuedAll`, `Stopped`) is a
`CHOOSE`; each is first shown to exist (`RoundsExist`, `NaturalOrder!RecursionExists`) and used
one step at a time after that.  Inductions are by least counterexample (`NaturalOrder!LeastExists`),
since the library's induction rules take an operator.

Only model-checked:

* `Termination`: liveness is out of the prover's reach.
* `CountedCauseIsGenuine`: the tally holds causes met anywhere below a demand, which
  needs an invariant on every report ever counted.
* The properties of **DocumentPages** and **FormExpansion**.
  `PageBindings`, and so `CloneSets`, has recursive operators and is out of the prover's
  reach as it stands.

## 5. What is left out, and why

* Tokenizing, filters, number formatting and byte layout: pure functions of bytes
  whose interesting inputs are long; the models start from what they return.
* Numerics: matrices, colour transforms, link curves.  A colour component is a
  number that a link maps to another or refuses.
* Reports that nothing decides on: operator counts and skip reasons of a page,
  except the form refusal tally, which is modelled because its code is subtle.
* Fairness beyond `XrefChain`: the other modules' properties are about what is
  published, and their loops are bounded by counters that the type invariants and
  `DeepeningPays` watch.
* In `PageBindings` the consumer index is its result (every user reaches what its
  references lead to), and whether it calls itself complete is a free choice;
  `ConsumerIndex` is the module about how it gets there.  The witness walks the
  same offset listing as the other inspectors.
* In `CloneSets` a decode costs one unit a compressed member and a copy one unit of the
  body budget; production drops the finished batch, and `after` is what it would
  write.  Checks of contiguity and of duplicates are kept although no state reaches
  their failure; arithmetic and the overlap of two edit sites are left out.
* In `FormExpansion` fonts, graphics states and digests are left out: the first two do
  not show in an entry, the third identifies an entry by what the model compares
  directly.  What makes a form's bytes unreadable is a flag.  The machine's error
  inside a form never occurs, since the template of the form, made before it is
  entered, has met the same record.

## 6. Plan

In order of what matters next:

1. **Page policies** as operators against reference definitions: default colour spaces,
   alias facts, poisoned names, font admission; their answers are constants today.
2. **Page boxes and planned objects**: the edit of a box in a dictionary that pages
   share, serialization as what a reader gets back.
3. **Colour audit, selectors and preflight** over the expanded inventory; the assembly of
   the pages of a document with its page skips.
4. **Transform cache** of the colour engine.
5. **Refinements**: `CloneSets` as copy on write of a graph; `FormExpansion` as the
   painted page, taken entry by entry.

Theorems to come, most useful first: `EveryKidAccountedFor`;
the cycle and depth bounds of `FormExpansion` (no form is on its own path), from an
invariant that ties `active` to `path`; `CloneSets!ClonesArePrivate`, once
`PageBindings` is written with recursive functions; `CountedCauseIsGenuine`.
