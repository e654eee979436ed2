-------------------------- MODULE RevisionDocument --------------------------
(***************************************************************************)
(* A PDF file as its sequence of revisions, and what presslint reads out of *)
(* it: the newest-wins effective map, object resolution, and the            *)
(* allocation floor of fresh_objects.rs.  A revision is the objects written *)
(* between two cross-reference sections together with the section that      *)
(* closes it; the index of a revision stands for every byte offset in it.   *)
(*                                                                         *)
(* Section fields: kind, prev (index of the section /Prev points at), size, *)
(* root, info (numbers referenced from /ID and /Info), other (numbers       *)
(* referenced from any further trailer key), unreported (those of them the  *)
(* bounded reference scan leaves out), encrypt, hybrid (/XRefStm), self (an *)
(* xref stream's own object number, 0 for a table), map (object number ->   *)
(* entry, duplicates already settled), bodies (number -> body).             *)
(* Entry fields: type, gen, at (revision holding the body, or the number of *)
(* the containing object stream).  Body fields: gen (of its header), refs   *)
(* (numbers it references, each once), unreported (those of them the scan   *)
(* leaves out: behind its cap, or with a number or generation out of        *)
(* range), scans (there is an extent to scan), members (of an object        *)
(* stream: member number -> its refs and unreported).                       *)
(***************************************************************************)
EXTENDS XrefSections, FiniteSets

CONSTANTS
    MaxSections,     \* MAX_*_XREF_CHAIN_SECTIONS
    MaxReferences,   \* MAX_FRESH_FLOOR_REFERENCES
    MaxDecodes,      \* MAX_FRESH_FLOOR_DECODE_WORK_BYTES, one unit per decoded member
    MaxNumber,       \* u32::MAX, the largest object number
    MaxGeneration,   \* u16::MAX, the largest generation
    MaxEntry         \* usize::MAX, the largest number an xref stream's /Index gives

ASSUME DocumentAssumption ==
    /\ MaxSections \in Nat \ {0}
    /\ MaxReferences \in Nat
    /\ MaxDecodes \in Nat
    /\ MaxNumber \in Nat
    /\ MaxGeneration \in Nat
    /\ MaxEntry \in Nat
    /\ MaxNumber <= MaxEntry

NoMembers == [n \in {} |-> {}]

Newest(d) == d[Len(d)]

(* The /Prev chain of d from its newest section, all of one kind, and <<>>  *)
(* when there is none.  There is at most one: a section has one /Prev.      *)
ChainOf(d) ==
    LET chains == {w \in Walks(1..Len(d), Len(d)) :
                      /\ IsChain(d, Len(d), w)
                      /\ \A i \in DOMAIN w : d[w[i]].kind = Newest(d).kind}
    IN  IF chains = {} THEN <<>> ELSE CHOOSE w \in chains : TRUE

(* The chain builder accepts it when it keeps to the section limit. *)
Readable(w) == w # <<>> /\ Len(w) <= MaxSections

----------------------------------------------------------------------------
(* The newest-wins effective map along chain w. *)

MapNumbers(d) == [o \in DOMAIN d |-> DOMAIN d[o].map]

EffectiveNumbers(d, w) == UNION {DOMAIN d[w[i]].map : i \in DOMAIN w}

Effective(d, w) ==
    [n \in EffectiveNumbers(d, w) |->
        d[w[CHOOSE i \in DOMAIN w : DefinedFirstBy(MapNumbers(d), w, i, n)]].map[n]]

EffectiveSize(d, w) ==
    CHOOSE s \in {d[w[i]].size : i \in DOMAIN w} : \A i \in DOMAIN w : d[w[i]].size <= s

(* An uncompressed in-use entry is believed only when the header at its     *)
(* offset carries the same number and generation.                           *)
HeaderMatches(d, n, e) ==
    /\ e.at \in DOMAIN d
    /\ n \in DOMAIN d[e.at].bodies
    /\ d[e.at].bodies[n].gen = e.gen

(* resolve_xref_object_offset: "Ok" or why n at generation g is refused. *)
OffsetResolution(d, eff, n, g) ==
    IF n \notin DOMAIN eff \/ eff[n].type = "free" THEN "NotInUse"
    ELSE IF eff[n].type \in {"compressed", "reserved"} THEN eff[n].type
    ELSE IF eff[n].gen # g THEN "GenerationMismatch"
    ELSE IF ~HeaderMatches(d, n, eff[n]) THEN "HeaderMismatch"
    ELSE "Ok"

BodyOf(d, eff, n) == d[eff[n].at].bodies[n]

(* resolve_object also extracts members of object streams, whose container  *)
(* must itself be an uncompressed object of generation zero.                *)
Resolves(d, eff, n, g) ==
    IF n \in DOMAIN eff /\ eff[n].type = "compressed"
    THEN /\ g = 0
         /\ OffsetResolution(d, eff, eff[n].at, 0) = "Ok"
         /\ n \in DOMAIN BodyOf(d, eff, eff[n].at).members
    ELSE OffsetResolution(d, eff, n, g) = "Ok"

(* The scan of a live object or member. *)
ScannedAt(d, eff, n) ==
    IF eff[n].type = "compressed"
    THEN BodyOf(d, eff, eff[n].at).members[n]
    ELSE BodyOf(d, eff, n)

ReferencesOf(d, eff, n) == ScannedAt(d, eff, n).refs

Reported(scan) == scan.refs \ scan.unreported

----------------------------------------------------------------------------
(* compute_classic_fresh_floor and compute_xref_stream_fresh_floor. *)

LiveEntries(eff) == {n \in DOMAIN eff : eff[n].type \in {"inuse", "compressed"}}

EntryGeneration(e) == IF e.type = "compressed" THEN 0 ELSE e.gen

TrailerReferences(s) == {s.root} \union s.info \union s.other

ReportedByTrailer(s) == TrailerReferences(s) \ s.unreported

(* The references counted once entry n has been absorbed. *)
AcceptedReferences(d, eff, n) ==
    Cardinality(ReportedByTrailer(Newest(d)))
    + Cardinality(UNION {{m} \X Reported(ScannedAt(d, eff, m)) :
                            m \in {k \in LiveEntries(eff) :
                                     k <= n /\ Resolves(d, eff, k, EntryGeneration(eff[k]))}})

(* Decoding the container of member n passes the budget the members before  *)
(* it left; a container that cannot be read as an object stream fails       *)
(* before it is decoded.                                                    *)
Overspends(d, eff, n) ==
    /\ eff[n].type = "compressed"
    /\ OffsetResolution(d, eff, eff[n].at, 0) = "Ok"
    /\ BodyOf(d, eff, eff[n].at).members # NoMembers
    /\ Cardinality({m \in DOMAIN eff : m <= n /\ eff[m].type = "compressed"}) > MaxDecodes

(* What stops the proof at entry n.  The entries of a table are u32 and u16 *)
(* already.                                                                 *)
EntryFailure(d, eff, n) ==
    LET g == EntryGeneration(eff[n])
    IN  IF eff[n].type = "free" THEN "Ok"
        ELSE IF eff[n].type = "reserved" THEN "FreshFloorReservedEntry"
        ELSE IF n > MaxNumber \/ g > MaxGeneration THEN "FreshFloorNumericOverflow"
        ELSE IF Overspends(d, eff, n) THEN "FreshFloorDecodeWorkCapExceeded"
        ELSE IF ~Resolves(d, eff, n, g) THEN "FreshFloorResolution"
        ELSE IF eff[n].type = "inuse" /\ ~BodyOf(d, eff, n).scans
             THEN "FreshFloorBodyReferences"
        ELSE IF ScannedAt(d, eff, n).unreported # {}
             THEN "FreshFloorObjectReferencesIncomplete"
        ELSE IF AcceptedReferences(d, eff, n) > MaxReferences
             THEN "FreshFloorReferenceCapExceeded"
        ELSE "Ok"

FailingEntries(d, eff) == {n \in DOMAIN eff : EntryFailure(d, eff, n) # "Ok"}

(* A mutant that takes what the trailer's scan reports for all there is. *)
FloorFailureOfEntries(d, eff) ==
    IF FailingEntries(d, eff) = {} THEN "Ok"
    ELSE EntryFailure(d, eff,
            CHOOSE n \in FailingEntries(d, eff) : \A m \in FailingEntries(d, eff) : n <= m)

(* The trailer is scanned first, then the entries by ascending number; the  *)
(* first failure is the answer.  FreshFloorSectionHeader cannot occur: the  *)
(* chain was built from the very headers.                                   *)
FloorFailure(d, eff) ==
    IF Newest(d).unreported # {} THEN "FreshFloorTrailerReferencesIncomplete"
    ELSE IF Cardinality(ReportedByTrailer(Newest(d))) > MaxReferences
         THEN "FreshFloorReferenceCapExceeded"
    ELSE IF FailingEntries(d, eff) = {} THEN "Ok"
    ELSE EntryFailure(d, eff,
            CHOOSE n \in FailingEntries(d, eff) : \A m \in FailingEntries(d, eff) : n <= m)

(* An xref-stream file also names the containers of its compressed members  *)
(* and each of its sections' own objects.                                   *)
StreamNumbers(d, w, eff) ==
    IF Newest(d).kind # "Stream" THEN {}
    ELSE {eff[n].at : n \in {m \in DOMAIN eff : eff[m].type = "compressed"}}
         \union {d[w[i]].self : i \in DOMAIN w}

(* Every number an identity or a reference of the document occupies,        *)
(* whether or not a scan reports it.                                        *)
OccupiedNumbers(d, w, eff) ==
    DOMAIN eff
    \union TrailerReferences(Newest(d))
    \union (UNION {ReferencesOf(d, eff, n) : n \in LiveEntries(eff)})
    \union StreamNumbers(d, w, eff)

(* The numbers the floor proof sees. *)
ObservedNumbers(d, w, eff) ==
    DOMAIN eff
    \union ReportedByTrailer(Newest(d))
    \union (UNION {Reported(ScannedAt(d, eff, n)) : n \in LiveEntries(eff)})
    \union StreamNumbers(d, w, eff)

(* A floor that trusts /Size and the entries, and reads no body. *)
FloorBoundsOfEntries(d, w, eff) ==
    {d[w[i]].size : i \in DOMAIN w} \union {n + 1 : n \in DOMAIN eff}

FloorBounds(d, w, eff) ==
    {d[w[i]].size : i \in DOMAIN w} \union {n + 1 : n \in ObservedNumbers(d, w, eff)}

IsFloor(d, w, eff, f) ==
    /\ f \in FloorBounds(d, w, eff)
    /\ \A b \in FloorBounds(d, w, eff) : b <= f
=============================================================================
