------------------------------ MODULE XrefChain ------------------------------
(***************************************************************************)
(* Building the newest-wins object map by following /Prev:                  *)
(* build_classic_xref_chain (backend = "Table") and build_xref_stream_chain *)
(* (backend = "Stream").  One step is one iteration of the code's loop, in  *)
(* its order: section limit, bounds, cycle, classification, section parse,  *)
(* /Root, /Prev, /Size, merge, push.  Every early return is an action that  *)
(* leaves the reason in status and delivers no map.                         *)
(*                                                                         *)
(* The file is arbitrary, malformed /Prev graphs included; it never changes *)
(* during a walk.                                                           *)
(***************************************************************************)
EXTENDS XrefSections, FiniteSets

CONSTANTS
    Files,          \* the files a walk may be started on
    Starts,         \* the startxref offsets a walk may be started at
    MaxSections,    \* MAX_*_XREF_CHAIN_SECTIONS
    MaxEntries      \* MAX_*_XREF_CHAIN_ENTRIES

(* Every section carries its kind ("Table", "Stream", or "Other" when       *)
(* classification fails), whether its body parses, its entries in source    *)
(* order, its /Prev (with prevOk FALSE when the key is malformed), whether  *)
(* its /Root is readable, and its /Size (0 when absent or unreadable).      *)
ASSUME ChainAssumption ==
    /\ MaxSections \in Nat \ {0}
    /\ MaxEntries \in Nat
    /\ Starts \subseteq Nat \ {0}
    /\ \A file \in Files : \A o \in DOMAIN file :
         /\ o \in Nat \ {0}
         /\ file[o].prev \in Nat
         /\ file[o].size \in Nat
         /\ file[o].kind \in {"Table", "Stream", "Other"}
         /\ file[o].entries \in Seq([num : Nat, state : {"inuse", "free"}])

VARIABLES
    backend,    \* the builder called, by the kind of section it follows
    file,       \* input
    start,      \* startxref_byte_offset
    next,       \* next_offset, NoPrev for None
    visited,    \* offsets opened so far
    path,       \* section_byte_offsets
    merged,     \* object number -> <<section offset, entry index>> that won
    size,       \* effective_size
    status      \* "walking", "built", or the rejection

vars == <<backend, file, start, next, visited, path, merged, size, status>>

Rejections == {"SectionLimitExceeded", "OffsetOutOfBounds", "Cycle",
               "Unclassified", "WrongKind", "SectionUnreadable",
               "TrailerRoot", "TrailerPrev", "EntryLimitExceeded"}

Numbers(o) == EntryNumbers(file[o].entries)

Init ==
    /\ backend \in {"Table", "Stream"}
    /\ file \in Files
    /\ start \in Starts
    /\ next = start
    /\ visited = {}
    /\ path = <<>>
    /\ merged = [n \in {} |-> <<>>]
    /\ size = 0
    /\ status = "walking"

Stop(reason) ==
    /\ status' = reason
    /\ UNCHANGED <<backend, file, start, next, path, merged, size>>

----------------------------------------------------------------------------
(* The loop body up to a section that may be opened. *)

HasNext == status = "walking" /\ next # NoPrev

(* Mutant: the limit taken as the number of /Prev links. *)
RejectSectionLimitEarly ==
    /\ HasNext
    /\ Len(path) + 1 >= MaxSections
    /\ Stop("SectionLimitExceeded")
    /\ UNCHANGED visited

RejectSectionLimit ==
    /\ HasNext
    /\ Len(path) >= MaxSections
    /\ Stop("SectionLimitExceeded")
    /\ UNCHANGED visited

Admitted == HasNext /\ Len(path) < MaxSections

RejectOutOfBounds ==
    /\ Admitted
    /\ next \notin DOMAIN file
    /\ Stop("OffsetOutOfBounds")
    /\ UNCHANGED visited

(* Mutant: a revisited offset is skipped instead of rejected. *)
ContinueOnCycle ==
    /\ Admitted
    /\ next \in DOMAIN file
    /\ next \in visited
    /\ UNCHANGED vars

RejectCycle ==
    /\ Admitted
    /\ next \in DOMAIN file
    /\ next \in visited
    /\ Stop("Cycle")
    /\ UNCHANGED visited

(* Mutant: the offset is looked up but never recorded. *)
OpenedUnrecorded ==
    /\ Admitted
    /\ next \in DOMAIN file
    /\ next \notin visited
    /\ UNCHANGED visited

Opened ==
    /\ Admitted
    /\ next \in DOMAIN file
    /\ next \notin visited
    /\ visited' = visited \union {next}

RejectKind ==
    /\ Opened
    /\ file[next].kind # backend
    /\ Stop(IF file[next].kind = "Other" THEN "Unclassified" ELSE "WrongKind")

----------------------------------------------------------------------------
(* Parsing one section of the right kind.  An xref stream reads /Root and   *)
(* /Prev of every section while decoding it; a classic table reads /Root    *)
(* of the newest trailer only.                                              *)

NeedsRoot == path = <<>> \/ backend = "Stream"

RejectSection ==
    /\ Opened
    /\ file[next].kind = backend
    /\ \/ /\ ~file[next].parses
          /\ Stop("SectionUnreadable")
       \/ /\ file[next].parses
          /\ NeedsRoot /\ ~file[next].rootOk
          /\ Stop(IF backend = "Stream" THEN "SectionUnreadable" ELSE "TrailerRoot")
       \/ /\ file[next].parses
          /\ NeedsRoot => file[next].rootOk
          /\ ~file[next].prevOk
          /\ Stop(IF backend = "Stream" THEN "SectionUnreadable" ELSE "TrailerPrev")

Parsed ==
    /\ Opened
    /\ file[next].kind = backend
    /\ file[next].parses
    /\ NeedsRoot => file[next].rootOk
    /\ file[next].prevOk

(* Mutant: an older section overwrites a newer one. *)
OldestMergedWith(o) ==
    [n \in DOMAIN merged \union Numbers(o) |->
        IF n \in Numbers(o)
        THEN <<o, WinningIndex(backend, file[o].entries, n)>>
        ELSE merged[n]]

(* merge_section_entries: an older section only fills unseen numbers. *)
MergedWith(o) ==
    [n \in DOMAIN merged \union Numbers(o) |->
        IF n \in DOMAIN merged
        THEN merged[n]
        ELSE <<o, WinningIndex(backend, file[o].entries, n)>>]

RejectEntryLimit ==
    /\ Parsed
    /\ Cardinality(DOMAIN MergedWith(next)) > MaxEntries
    /\ Stop("EntryLimitExceeded")

MergeSection ==
    /\ Parsed
    /\ Cardinality(DOMAIN MergedWith(next)) <= MaxEntries
    /\ size' = IF file[next].size > size THEN file[next].size ELSE size
    /\ merged' = MergedWith(next)
    /\ path' = Append(path, next)
    /\ next' = file[next].prev
    /\ UNCHANGED <<backend, file, start, status>>

Finish ==
    /\ status = "walking"
    /\ next = NoPrev
    /\ status' = "built"
    /\ UNCHANGED <<backend, file, start, next, visited, path, merged, size>>

Next ==
    \/ RejectSectionLimit
    \/ RejectOutOfBounds
    \/ RejectCycle
    \/ RejectKind
    \/ RejectSection
    \/ RejectEntryLimit
    \/ MergeSection
    \/ Finish

Spec == Init /\ [][Next]_vars /\ WF_vars(Next)

----------------------------------------------------------------------------
(* The walk's variables keep their shape: what has been merged comes from   *)
(* sections that were opened, and a section is pushed only once opened.     *)
TypeOK ==
    /\ backend \in {"Table", "Stream"}
    /\ file \in Files
    /\ start \in Starts
    /\ next \in Nat
    /\ visited \subseteq DOMAIN file
    /\ path \in Seq(visited)
    /\ size \in Nat
    /\ status \in {"walking", "built"} \union Rejections

(* A delivered map is the newest-wins map of the whole /Prev chain: the     *)
(* sections followed are exactly that chain, every number any of them       *)
(* mentions is in the map, and its entry is the one its newest section      *)
(* contributes, so a newer free entry shadows an older in-use one and a     *)
(* /Size never falls below one the chain declared.                          *)
ChainIsNewestWins ==
    status = "built" =>
        /\ IsChain(file, start, path)
        /\ \A i \in DOMAIN path : \A n \in Numbers(path[i]) : n \in DOMAIN merged
        /\ \A n \in DOMAIN merged : \E i \in DOMAIN path :
              /\ DefinedFirstBy([o \in DOMAIN file |-> Numbers(o)], path, i, n)
              /\ merged[n] = <<path[i], WinningIndex(backend, file[path[i]].entries, n)>>
        /\ \A i \in DOMAIN path : size >= file[path[i]].size

(* What a chain the builder accepts looks like, said without walking it. *)
Acceptable(w) ==
    /\ IsChain(file, start, w)
    /\ \A i \in DOMAIN w :
         /\ file[w[i]].kind = backend
         /\ file[w[i]].parses
         /\ file[w[i]].prevOk
         /\ (i = 1 \/ backend = "Stream") => file[w[i]].rootOk
    /\ Cardinality(UNION {Numbers(w[i]) : i \in DOMAIN w}) <= MaxEntries

(* The builder refuses only with cause: a walk that stopped delivers a map  *)
(* exactly when the file has an acceptable chain within the limits.  A      *)
(* bound checked one section too early, a cycle reported for a chain that   *)
(* merely shares an offset, or a partial map would break it.                *)
BuiltExactlyWhenAcceptable ==
    status # "walking" =>
        (status = "built" <=> \E w \in Walks(DOMAIN file, MaxSections) : Acceptable(w))

(* Whatever the /Prev graph, the loop stops.  Its single thread keeps       *)
(* running, which is the fairness assumed.                                  *)
Termination == <>(status # "walking")
=============================================================================
