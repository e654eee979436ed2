---------------------------- MODULE ConsumerIndex ----------------------------
(***************************************************************************)
(* The document-wide object consumer index of presslint-pdf: which typed    *)
(* users (trailer keys, the catalog, catalog keys, pages) reach which       *)
(* objects.  inspect_object_consumer_index runs one bounded worklist        *)
(* traversal per user, one after the other; one step here expands one       *)
(* object of the current user's worklist, or starts or ends a user's run.   *)
(*                                                                         *)
(* A reference is <<object number, generation>>.  file.objects maps the     *)
(* references with a live object to its body; every other reference is      *)
(* dangling.  A body has dict (it is a dictionary, so the page rules may     *)
(* apply), stream (a source-located stream with a direct /Length), scan     *)
(* ("ok", "failed", or "decode": its container is over the decoded-byte     *)
(* cap) and entries, its top-level keys in source order, each with the      *)
(* references its value holds: refs are found by the scan, lost are the     *)
(* ones behind the per-body cap.  The scan of a body that is not a          *)
(* dictionary is one entry with the key "".  Whether a body came out of the *)
(* object-stream cache or was decoded again makes no difference here.       *)
(* The pages are the leaves the page walk resolved.                         *)
(***************************************************************************)
EXTENDS Naturals, Sequences, FiniteSets, SequencesExt

CONSTANTS
    Files,          \* the documents inspected
    MaxDepth,       \* MAX_OBJECT_CONSUMER_TRAVERSAL_DEPTH
    MaxVisited,     \* MAX_OBJECT_CONSUMER_VISITED_NODES
    MaxExpanded,    \* MAX_OBJECT_CONSUMER_EXPANDED_NODES
    MaxPairs        \* MAX_OBJECT_CONSUMER_RECORDED_PAIRS

References == Nat \X Nat

(* The top-level keys of a dictionary, in source order. *)
IsEntryList(entries) ==
    /\ Len(entries) \in Nat /\ DOMAIN entries = 1 .. Len(entries)
    /\ \A i \in DOMAIN entries : /\ DOMAIN entries[i] = {"key", "refs", "lost"}
                                 /\ entries[i].refs \in Seq(References)
                                 /\ entries[i].lost \in Seq(References)

IsFile(f) ==
    /\ IsEntryList(f.trailer)
    /\ f.trailerOk \in BOOLEAN /\ f.catalogOk \in BOOLEAN
    /\ f.root \in References
    /\ DOMAIN f.objects \subseteq References /\ IsFiniteSet(DOMAIN f.objects)
    /\ \A r \in DOMAIN f.objects : IsEntryList(f.objects[r].entries)
    /\ f.pages \in Seq(DOMAIN f.objects)

ASSUME FilesAssumption == \A f \in Files : IsFile(f)

ASSUME BoundsAssumption == MaxDepth \in Nat /\ MaxVisited \in Nat
                           /\ MaxExpanded \in Nat /\ MaxPairs \in Nat

VARIABLES
    file,           \* [trailer, trailerOk, root, catalogOk, pages, contents, objects]
    turn,           \* index in Users(file) of the user whose turn it is
    running,        \* its worklist has been seeded
    visited,        \* per-user
    treeNodes,      \* per-user, by object number
    worklist,       \* per-user stack of <<reference, depth>>
    consumers,      \* registered <<target, user>> pairs
    facts,          \* kinds of unresolved edges, skips and truncations seen
    expanded,       \* expanded_node_count
    stopped,        \* a global bound stopped the build
    unreferenced,   \* in-use references no user reached
    done

walk == <<visited, treeNodes, worklist>>
report == <<consumers, facts, stopped>>
vars == <<file, turn, running, walk, report, expanded, unreferenced, done>>

Number(r) == r[1]
KnownPages == {file.pages[i] : i \in DOMAIN file.pages}
Resolvable(r) == r \in DOMAIN file.objects /\ file.objects[r].scan # "decode"
(* The elements of a sequence that are in a set, in order. *)
Keeping(s, kept) == FlattenSeq([i \in DOMAIN s |-> IF s[i] \in kept THEN <<s[i]>> ELSE <<>>])
Without(entries, key) == Keeping(entries, {e \in ToSet(entries) : e.key # key})

Whole(entries) == \A i \in DOMAIN entries : entries[i].lost = <<>>

----------------------------------------------------------------------------
(* The users in seeding order.  Root registers the catalog and never        *)
(* descends; /Pages marks its seeds as page-tree nodes.                     *)

KeyUsers(kind, entries) ==
    [i \in DOMAIN entries |->
        [id |-> <<kind, entries[i].key>>, seeds |-> entries[i],
         own |-> {}, tree |-> kind = "RootKey" /\ entries[i].key = "Pages"]]

NoSeeds == [key |-> "", refs |-> <<>>, lost |-> <<>>]
RootUser == [id |-> <<"Root", "Root">>, seeds |-> NoSeeds, own |-> {}, tree |-> FALSE]

PageUsers ==
    [i \in DOMAIN file.pages |->
        [id |-> <<"Page", i>>, seeds |-> [key |-> "", refs |-> <<file.pages[i]>>, lost |-> <<>>],
         own |-> {Number(file.pages[i])}, tree |-> FALSE]]

UsersWith(trailerRead, catalogRead) ==
    (IF trailerRead
     THEN KeyUsers("TrailerKey", Without(file.trailer, "Root"))
     ELSE <<>>)
    \o <<RootUser>>
    \o (IF catalogRead THEN KeyUsers("RootKey", file.objects[file.root].entries) ELSE <<>>)
    \o PageUsers

CatalogReadable == file.catalogOk /\ Resolvable(file.root)
Users == UsersWith(file.trailerOk, CatalogReadable)

User == Users[turn]

----------------------------------------------------------------------------
(* register and enqueue thread the mutable report and the user's walk; s    *)
(* holds both while one scan's references are handled in order.             *)

State == [visited |-> visited, worklist |-> worklist,
          consumers |-> consumers, facts |-> facts, stopped |-> stopped]

Registered(s, target) ==
    IF <<target, User.id>> \in s.consumers THEN s
    ELSE IF Cardinality(s.consumers) >= MaxPairs
         THEN [s EXCEPT !.facts = @ \union {"MaxRecordedPairs"}, !.stopped = TRUE]
    ELSE [s EXCEPT !.consumers = @ \union {<<target, User.id>>}]

(* Mutants: the visited bound off by one, and pages descended into.         *)
EnqueuedOnePastVisited(s, target, depth) ==
    IF target \in KnownPages /\ Number(target) \notin User.own THEN Registered(s, target)
    ELSE IF target \in s.visited THEN s
    ELSE IF depth > MaxDepth THEN [s EXCEPT !.facts = @ \union {"MaxTraversalDepth"}]
    ELSE IF Cardinality(s.visited) > MaxVisited
         THEN [s EXCEPT !.facts = @ \union {"MaxVisitedNodes"}]
    ELSE [s EXCEPT !.visited = @ \union {target}, !.worklist = Append(@, <<target, depth>>)]

EnqueuedThroughPages(s, target, depth) ==
    IF target \in s.visited THEN s
    ELSE IF depth > MaxDepth THEN [s EXCEPT !.facts = @ \union {"MaxTraversalDepth"}]
    ELSE IF Cardinality(s.visited) >= MaxVisited
         THEN [s EXCEPT !.facts = @ \union {"MaxVisitedNodes"}]
    ELSE [s EXCEPT !.visited = @ \union {target}, !.worklist = Append(@, <<target, depth>>)]

Enqueued(s, target, depth) ==
    IF target \in KnownPages /\ Number(target) \notin User.own THEN Registered(s, target)
    ELSE IF target \in s.visited THEN s
    ELSE IF depth > MaxDepth THEN [s EXCEPT !.facts = @ \union {"MaxTraversalDepth"}]
    ELSE IF Cardinality(s.visited) >= MaxVisited
         THEN [s EXCEPT !.facts = @ \union {"MaxVisitedNodes"}]
    ELSE [s EXCEPT !.visited = @ \union {target}, !.worklist = Append(@, <<target, depth>>)]

EnqueuedAll(s, targets, depth) ==
    LET after[n \in 0 .. Len(targets)] ==
            IF n = 0 THEN s ELSE Enqueued(after[n - 1], targets[n], depth)
    IN  after[Len(targets)]

Install(s) ==
    /\ visited' = s.visited
    /\ worklist' = s.worklist
    /\ consumers' = s.consumers
    /\ facts' = s.facts
    /\ stopped' = s.stopped

----------------------------------------------------------------------------

Init ==
    /\ file \in Files
    /\ turn = 1
    /\ running = FALSE
    /\ visited = {} /\ treeNodes = {} /\ worklist = <<>>
    /\ consumers = {}
    /\ facts = (IF file.trailerOk THEN {} ELSE {"NewestTrailerDictionary"})
                \union (IF CatalogReadable THEN {} ELSE {"CatalogDictionary"})
    /\ expanded = 0
    /\ stopped = FALSE
    /\ unreferenced = {}
    /\ done = FALSE

(* run_seed_span notes an incomplete seed scan before run_user looks at     *)
(* stopped.                                                                 *)
SeedFacts == IF Whole(<<User.seeds>>) THEN {} ELSE {"ReferenceShapes"}

(* Mutant: one visited set for the whole document. *)
StartUserKeepingVisited ==
    /\ ~done /\ ~running
    /\ turn <= Len(Users)
    /\ User.id # RootUser.id
    /\ ~stopped
    /\ treeNodes' = IF User.tree THEN {Number(r) : r \in ToSet(User.seeds.refs) \ KnownPages} ELSE {}
    /\ Install(EnqueuedAll([State EXCEPT !.facts = @ \union SeedFacts], User.seeds.refs, 0))
    /\ running' = TRUE
    /\ UNCHANGED <<file, turn, expanded, unreferenced, done>>

(* run_user up to its loop: a fresh visited set for every user. *)
StartUser ==
    /\ ~done /\ ~running
    /\ turn <= Len(Users)
    /\ User.id # RootUser.id
    /\ ~stopped
    /\ treeNodes' = IF User.tree THEN {Number(r) : r \in ToSet(User.seeds.refs) \ KnownPages} ELSE {}
    /\ Install(EnqueuedAll([State EXCEPT !.visited = {}, !.worklist = <<>>,
                                         !.facts = @ \union SeedFacts],
                           User.seeds.refs, 0))
    /\ running' = TRUE
    /\ UNCHANGED <<file, turn, expanded, unreferenced, done>>

RegisterRoot ==
    /\ ~done /\ ~running
    /\ turn <= Len(Users)
    /\ User.id = RootUser.id
    /\ Install(Registered(State, file.root))
    /\ turn' = turn + 1
    /\ UNCHANGED <<file, running, treeNodes, expanded, unreferenced, done>>

SkipUser ==
    /\ ~done /\ ~running
    /\ turn <= Len(Users)
    /\ User.id # RootUser.id
    /\ stopped
    /\ facts' = facts \union SeedFacts
    /\ turn' = turn + 1
    /\ UNCHANGED <<file, running, walk, consumers, stopped, expanded, unreferenced, done>>

EndUser ==
    /\ running
    /\ worklist = <<>> \/ stopped
    /\ running' = FALSE
    /\ turn' = turn + 1
    /\ UNCHANGED <<file, walk, report, expanded, unreferenced, done>>

Top == worklist[Len(worklist)]
Popped == [State EXCEPT !.worklist = Front(@)]

StopAtExpandedLimit ==
    /\ running /\ worklist # <<>> /\ ~stopped
    /\ expanded >= MaxExpanded
    /\ Install([Popped EXCEPT !.facts = @ \union {"MaxExpandedNodes"}, !.stopped = TRUE])
    /\ UNCHANGED <<file, turn, running, treeNodes, expanded, unreferenced, done>>

MayExpand ==
    /\ running /\ worklist # <<>> /\ ~stopped
    /\ expanded < MaxExpanded
    /\ expanded' = expanded + 1

(* An edge that does not resolve is a fact and never a consumer edge; an    *)
(* oversized container also counts as a truncation.                         *)
UnresolvedEdge ==
    /\ MayExpand
    /\ ~Resolvable(Top[1])
    /\ Install([Popped EXCEPT !.facts = @ \union {"UnresolvedEdge"}
                  \union (IF Top[1] \in DOMAIN file.objects
                          THEN {"MaxDecodedObjectStreamBytes"} ELSE {})])
    /\ UNCHANGED <<file, turn, running, treeNodes, unreferenced, done>>

Body == file.objects[Top[1]]

(* A page's own dictionary and page-tree nodes are scanned key by key: the  *)
(* /Parent edge is not followed, and the /Kids of a tree node that are not  *)
(* pages are tree nodes too.                                                *)
IsTreeNode == Number(Top[1]) \in treeNodes
PageRules == Body.dict /\ (IsTreeNode \/ Number(Top[1]) \in User.own)

ScannedEntries ==
    IF PageRules THEN Without(Body.entries, "Parent") ELSE Body.entries

ScannedReferences == FlattenSeq([i \in DOMAIN ScannedEntries |-> ScannedEntries[i].refs])

KidsOf(entries) ==
    UNION {ToSet(entries[i].refs) : i \in {k \in DOMAIN entries : entries[k].key = "Kids"}}

Expand ==
    /\ MayExpand
    /\ Resolvable(Top[1])
    /\ LET registered == Registered(Popped, Top[1])
           scanned == EnqueuedAll(registered, ScannedReferences, Top[2] + 1)
       IN  IF Body.scan = "failed"
           THEN Install([registered EXCEPT !.facts = @ \union {"BodyScan"}])
           ELSE Install([scanned EXCEPT !.facts = @ \union
                           (IF Whole(ScannedEntries) THEN {} ELSE {"ReferenceShapes"})])
    /\ treeNodes' = IF PageRules /\ IsTreeNode /\ Body.scan # "failed"
                    THEN treeNodes \union {Number(r) : r \in KidsOf(Body.entries) \ KnownPages}
                    ELSE treeNodes
    /\ UNCHANGED <<file, turn, running, unreferenced, done>>

(* The diff against the in-use entries goes by object number. *)
Finish ==
    /\ ~done /\ ~running
    /\ turn > Len(Users)
    /\ unreferenced' = {r \in DOMAIN file.objects :
                          \A pair \in consumers : Number(pair[1]) # Number(r)}
    /\ done' = TRUE
    /\ UNCHANGED <<file, turn, running, walk, report, expanded>>

Next ==
    \/ StartUser
    \/ RegisterRoot
    \/ SkipUser
    \/ EndUser
    \/ StopAtExpandedLimit
    \/ UnresolvedEdge
    \/ Expand
    \/ Finish

Spec == Init /\ [][Next]_vars

----------------------------------------------------------------------------
(* What the index is meant to say, by reachability alone in the document as *)
(* it is: no worklist, no order, no bounds, and nothing unreadable.         *)

TrueUsers == UsersWith(TRUE, file.root \in DOMAIN file.objects)

Followed(entry) == ToSet(entry.refs) \union ToSet(entry.lost)

(* The objects a page's user or a key's user may reach through one object.  *)
(* A page-tree node's /Parent is followed or not depending on the order in  *)
(* which it was met, so it only bounds the closure from above (withParent). *)
EdgesFor(user, r, withParent) ==
    LET body == file.objects[r]
        ruled == body.dict /\ (Number(r) \in user.own \/ (user.tree /\ ~withParent))
    IN  UNION {Followed(body.entries[i]) :
                 i \in {k \in DOMAIN body.entries : ~(ruled /\ body.entries[k].key = "Parent")}}

EndsAt(user, r) ==
    (r \in KnownPages /\ Number(r) \notin user.own) \/ r \notin DOMAIN file.objects

ReachOf(user, withParent) ==
    LET level[k \in 0 .. Cardinality(DOMAIN file.objects) + 1] ==
            IF k = 0 THEN Followed(user.seeds)
            ELSE LET nearer == level[k - 1]
                 IN  nearer \union UNION {EdgesFor(user, r, withParent) :
                                            r \in {q \in nearer : ~EndsAt(user, q)}}
    IN  level[Cardinality(DOMAIN file.objects) + 1] \intersect DOMAIN file.objects

----------------------------------------------------------------------------
(* The walk keeps its shape and its bounds.                                 *)
TypeOK ==
    /\ file \in Files
    /\ turn \in 1..(Len(Users) + 1)
    /\ {worklist[i][1] : i \in DOMAIN worklist} \subseteq visited
    /\ Cardinality(visited) <= MaxVisited
    /\ Cardinality(consumers) <= MaxPairs
    /\ expanded <= MaxExpanded
    /\ stopped => facts \intersect {"MaxExpandedNodes", "MaxRecordedPairs"} # {}

(* Whatever bound was hit, nothing is ever listed for a user that does not  *)
(* reach it: in particular a page is not charged with what hangs off its    *)
(* /Parent, nor a catalog key with what hangs off a page, nor the trailer's *)
(* own /Root edge with anything but the catalog.                            *)
ListedIsReached ==
    \A pair \in consumers :
        \/ pair[1] = file.root /\ pair[2] = RootUser.id
        \/ \E i \in DOMAIN TrueUsers : /\ TrueUsers[i].id = pair[2]
                                      /\ pair[1] \in ReachOf(TrueUsers[i], TRUE)

(* A missing consumer is never silent: when the index lists no fact, every  *)
(* user is listed for every object it reaches, shared subtrees once for     *)
(* each of their users.                                                     *)
NothingMissingSilently ==
    done /\ facts = {} =>
        \A i \in DOMAIN TrueUsers : \A r \in ReachOf(TrueUsers[i], FALSE) :
            <<r, TrueUsers[i].id>> \in consumers
=============================================================================
