-------------------------- MODULE IncrementalWriter --------------------------
(***************************************************************************)
(* presslint-write's append-only writer, as the session of a caller that    *)
(* keeps feeding the bytes one call returned to the next call:              *)
(* reserve_fresh_object_references, write_incremental_revision and          *)
(* write_incremental_revision_with_fresh_objects over both backends.        *)
(*                                                                         *)
(* A call is atomic (one thread, &[u8] in, Vec<u8> out).  What interleaves  *)
(* is the caller's own order of calls: a reservation may be used on bytes   *)
(* other than those it was computed for.  A refused call returns an error   *)
(* and no bytes, so the caller still has the document it had.               *)
(***************************************************************************)
EXTENDS RevisionDocument

CONSTANTS
    InitialDocs,      \* the documents a session may open
    DirtyRequests,    \* sets of dirty objects a caller may pass
    FreshRequests,    \* sets of fresh objects a caller may pass
    Counts            \* reservation sizes a caller may ask for

ObjectNumbers == 0..MaxNumber

(* What a scan reports are object numbers; what it leaves out may be any.   *)
IsScan(scan) ==
    /\ scan.refs \subseteq Nat
    /\ scan.unreported \subseteq scan.refs
    /\ Reported(scan) \subseteq ObjectNumbers

IsBody(body) ==
    /\ DOMAIN body = {"gen", "refs", "unreported", "scans", "members"}
    /\ body.gen \in 0..MaxGeneration
    /\ IsScan(body)
    /\ \A m \in DOMAIN body.members : IsScan(body.members[m])

IsEntry(entry) ==
    /\ entry.type \in {"inuse", "free", "compressed", "reserved"}
    /\ entry.at \in Nat

(* A section as the parsers deliver it: its kind was classified, /Root was  *)
(* found to be a reference and its own number fits the field; the entry     *)
(* numbers of a table do as well.  Its /Prev may point anywhere, at itself, *)
(* at a later section or past the end of the file.                          *)
IsSection(section) ==
    /\ section.kind \in {"Table", "Stream"}
    /\ section.prev \in Nat
    /\ section.size \in Nat
    /\ TrailerReferences(section) \subseteq Nat
    /\ ReportedByTrailer(section) \union {section.root, section.self} \subseteq ObjectNumbers
    /\ section.unreported \subseteq TrailerReferences(section) \ {section.root}
    /\ DOMAIN section.map \subseteq
           0..(IF section.kind = "Table" THEN MaxNumber ELSE MaxEntry)
    /\ \A n \in DOMAIN section.map : IsEntry(section.map[n])
    /\ \A n \in DOMAIN section.bodies : n \in ObjectNumbers /\ IsBody(section.bodies[n])

IsDocument(d) ==
    /\ d \in Seq({d[o] : o \in DOMAIN d})
    /\ d # <<>>
    /\ \A o \in DOMAIN d : IsSection(d[o])

(* A request object is [num, gen, body]; the writer puts num and gen, a u32 *)
(* and a u16, in the header it writes.                                      *)
ASSUME WriterAssumption ==
    /\ Counts \subseteq Nat
    /\ \A d \in InitialDocs : IsDocument(d)
    /\ \A request \in DirtyRequests \union FreshRequests :
          /\ IsFiniteSet(request)
          /\ \A x \in request : /\ x.num \in ObjectNumbers
                               /\ x.gen \in 0..MaxGeneration
                               /\ IsBody(x.body)

VARIABLES
    doc,            \* the bytes the caller holds
    chain,          \* section_byte_offsets of doc's chain
    map,            \* entries of doc's chain
    reservation,    \* the references of the last successful reservation
    call            \* the last call that succeeded, with the numbers of the dirty
                    \* objects it was given and of the fresh ones

vars == <<doc, chain, map, reservation, call>>

(* Every call starts by building the chain of the bytes it is given; what   *)
(* it gets depends on doc alone and is kept beside it.                      *)
MapOf(d) == Effective(d, ChainOf(d))

Init ==
    /\ doc \in InitialDocs
    /\ chain = ChainOf(doc)
    /\ map = MapOf(doc)
    /\ reservation = {}
    /\ call = [kind |-> "open", given |-> {}, fresh |-> {}]

----------------------------------------------------------------------------
(* Checks every backend makes on its input before looking at the request.   *)

SourceFailure ==
    IF Newest(doc).encrypt THEN "EncryptedInput"
    ELSE IF Newest(doc).kind = "Table" /\ Newest(doc).hybrid THEN "HybridXrefStmInput"
    ELSE IF ~Readable(chain) THEN "XrefChain"
    ELSE "Ok"

(* The one allocation floor of the document. *)
Floors == {f \in FloorBounds(doc, chain, map) : IsFloor(doc, chain, map, f)}

NumbersOf(request) == {x.num : x \in request}

Duplicates(request) == \E x, y \in request : x # y /\ x.num = y.num

(* A mutant that looks numbers up and forgets generations. *)
DirtyFailureByNumber(dirty) ==
    IF Duplicates(dirty) THEN "DuplicateDirtyObject"
    ELSE IF NumbersOf(dirty) \subseteq DOMAIN map THEN "Ok" ELSE "NotInUse"

(* order_dirty_objects and validate_dirty_objects; of several refused       *)
(* objects the code reports the first in reference order.                   *)
DirtyFailure(dirty) ==
    LET refused == {x \in dirty : OffsetResolution(doc, map, x.num, x.gen) # "Ok"}
        first == CHOOSE x \in refused : \A y \in refused : x.num <= y.num
    IN  IF Duplicates(dirty) THEN "DuplicateDirtyObject"
        ELSE IF refused # {} THEN OffsetResolution(doc, map, first.num, first.gen)
        ELSE "Ok"

(* A mutant that takes any contiguous range below the limit for reserved.   *)
FreshFailureOfAnyRange(dirty, fresh, floor) ==
    LET numbers == NumbersOf(fresh)
        least == CHOOSE n \in numbers : \A m \in numbers : n <= m
    IN  IF \E x \in fresh : x.gen # 0 THEN "NonZeroFreshGeneration"
        ELSE IF Duplicates(fresh) THEN "DuplicateFreshObject"
        ELSE IF numbers # least..(least + Cardinality(fresh) - 1)
             THEN "FreshReservationNotContiguous"
        ELSE IF numbers \intersect NumbersOf(dirty) # {} THEN "FreshDirtyObjectCollision"
        ELSE "Ok"

(* order_fresh_objects, check_fresh_dirty_collision and                     *)
(* validate_fresh_reservation, in that order.                               *)
FreshFailure(dirty, fresh, floor) ==
    LET numbers == NumbersOf(fresh)
        least == CHOOSE n \in numbers : \A m \in numbers : n <= m
    IN  IF \E x \in fresh : x.gen # 0 THEN "NonZeroFreshGeneration"
        ELSE IF Duplicates(fresh) THEN "DuplicateFreshObject"
        ELSE IF numbers # least..(least + Cardinality(fresh) - 1)
             THEN "FreshReservationNotContiguous"
        ELSE IF numbers \intersect NumbersOf(dirty) # {} THEN "FreshDirtyObjectCollision"
        ELSE IF floor + Cardinality(fresh) - 1 > MaxNumber
             THEN "FreshReservationNumberOverflow"
        ELSE IF least # floor THEN "FreshReservationFloorMismatch"
        ELSE "Ok"

----------------------------------------------------------------------------
(* The revision a successful call appends. *)

Largest(numbers) == CHOOSE n \in numbers : \A m \in numbers : m <= n

HighestNumber == Largest(DOMAIN map \union {0})

WrittenBody(x) == [x.body EXCEPT !.gen = x.gen]
WrittenEntry(x) == [type |-> "inuse", gen |-> x.gen, at |-> Len(doc) + 1]
WithNumber(request, n) == CHOOSE x \in request : x.num = n

(* /Root comes from the chain, /ID and /Info are copied from the active     *)
(* trailer as they stand; every other trailer key is dropped.               *)
CopiedUnreported == Newest(doc).unreported \intersect Newest(doc).info

RevisionCopyingPrev(size, self, entries, bodies) ==
    [kind |-> Newest(doc).kind, prev |-> Newest(doc).prev, size |-> size,
     root |-> Newest(doc).root, info |-> Newest(doc).info, other |-> {},
     unreported |-> CopiedUnreported,
     encrypt |-> FALSE, hybrid |-> FALSE,
     self |-> self, map |-> entries, bodies |-> bodies]

Revision(size, self, entries, bodies) ==
    [kind |-> Newest(doc).kind, prev |-> Len(doc), size |-> size,
     root |-> Newest(doc).root, info |-> Newest(doc).info, other |-> {},
     unreported |-> CopiedUnreported,
     encrypt |-> FALSE, hybrid |-> FALSE,
     self |-> self, map |-> entries, bodies |-> bodies]

TableRevision(request, size) ==
    Revision(size, 0,
        [n \in NumbersOf(request) |-> WrittenEntry(WithNumber(request, n))],
        [n \in NumbersOf(request) |-> WrittenBody(WithNumber(request, n))])

(* What forgetting the stream's own number would give. *)
StreamSizeWithoutSelf(self) == Largest({EffectiveSize(doc, chain), HighestNumber + 1})

StreamSize(self) == Largest({EffectiveSize(doc, chain), HighestNumber + 1, self + 1})

(* An xref stream is an object itself: its section lists it and its         *)
(* dictionary holds the trailer references.                                 *)
StreamRevision(request, self) ==
    LET own == [num |-> self, gen |-> 0,
                body |-> [gen |-> 0, refs |-> {Newest(doc).root} \union Newest(doc).info,
                          unreported |-> CopiedUnreported,
                          scans |-> TRUE, members |-> NoMembers]]
        written == request \union {own}
    IN  Revision(StreamSize(self), self,
            [n \in NumbersOf(written) |-> WrittenEntry(WithNumber(written, n))],
            [n \in NumbersOf(written) |-> WrittenBody(WithNumber(written, n))])

(* next_xref_object_number, classic_effective_size. *)
PlainSelf == HighestNumber + 1
PlainTableSize == Largest({EffectiveSize(doc, chain), HighestNumber + 1})

(* A mutant that stays above the reservation only. *)
FreshSelfAboveReservation(dirty, fresh) == Largest(NumbersOf(fresh)) + 1

(* next_xref_object_number_with_fresh: above the reservation and above      *)
(* every target the scans of the bodies just appended report, each of which *)
(* must be complete.                                                        *)
ScansWhole(body) == body.scans /\ body.unreported = {}

FreshSelf(dirty, fresh) ==
    Largest(NumbersOf(fresh) \union UNION {Reported(x.body) : x \in dirty \union fresh}) + 1

----------------------------------------------------------------------------
(* The three calls; a refused one changes nothing. *)

Deliver(revision) ==
    /\ doc' = Append(doc, revision)
    /\ chain' = ChainOf(doc')
    /\ map' = MapOf(doc')

(* A reservation that does not check the end of its range. *)
ReserveUnchecked(count) ==
    /\ \/ count = 0 /\ reservation' = {}
       \/ /\ SourceFailure = "Ok"
          /\ FloorFailure(doc, map) = "Ok"
          /\ \E floor \in Floors : reservation' = floor..(floor + count - 1)
    /\ call' = [kind |-> "reserve", given |-> {}, fresh |-> {}]
    /\ UNCHANGED <<doc, chain, map>>

(* Reserving nothing scans nothing and always succeeds. *)
Reserve(count) ==
    /\ \/ count = 0 /\ reservation' = {}
       \/ /\ count > 0
          /\ SourceFailure = "Ok"
          /\ FloorFailure(doc, map) = "Ok"
          /\ \E floor \in Floors :
                /\ floor + count - 1 <= MaxNumber
                /\ reservation' = floor..(floor + count - 1)
    /\ call' = [kind |-> "reserve", given |-> {}, fresh |-> {}]
    /\ UNCHANGED <<doc, chain, map>>

Write(dirty) ==
    /\ SourceFailure = "Ok"
    /\ DirtyFailure(dirty) = "Ok"
    /\ \/ /\ Newest(doc).kind = "Table"
          /\ Deliver(TableRevision(dirty, PlainTableSize))
       \/ /\ Newest(doc).kind = "Stream"
          /\ PlainSelf <= MaxNumber
          /\ Deliver(StreamRevision(dirty, PlainSelf))
    /\ call' = [kind |-> "write", given |-> NumbersOf(dirty), fresh |-> {}]
    /\ UNCHANGED reservation

(* An empty set of fresh objects is the plain write. *)
WriteWithFresh(dirty, fresh) ==
    /\ fresh # {}
    /\ SourceFailure = "Ok"
    /\ FloorFailure(doc, map) = "Ok"
    /\ DirtyFailure(dirty) = "Ok"
    /\ \E floor \in Floors :
          /\ FreshFailure(dirty, fresh, floor) = "Ok"
          /\ \/ /\ Newest(doc).kind = "Table"
                /\ Deliver(TableRevision(dirty \union fresh, floor + Cardinality(fresh)))
             \/ /\ Newest(doc).kind = "Stream"
                /\ \A x \in dirty \union fresh : ScansWhole(x.body)
                /\ FreshSelf(dirty, fresh) <= MaxNumber
                /\ Deliver(StreamRevision(dirty \union fresh, FreshSelf(dirty, fresh)))
    /\ call' = [kind |-> "fresh", given |-> NumbersOf(dirty), fresh |-> NumbersOf(fresh)]
    /\ UNCHANGED reservation

Next ==
    \/ \E count \in Counts : Reserve(count)
    \/ \E dirty \in DirtyRequests : Write(dirty)
    \/ \E dirty \in DirtyRequests, fresh \in FreshRequests : WriteWithFresh(dirty, fresh)

Spec == Init /\ [][Next]_vars

----------------------------------------------------------------------------
(* What the caller holds keeps its shape: every number a call put in a      *)
(* section or in a reservation fits the object-number field.                *)
TypeOK ==
    /\ IsDocument(doc)
    /\ \A i \in DOMAIN chain : chain[i] \in DOMAIN doc
    /\ reservation \subseteq ObjectNumbers
    /\ call.kind \in {"open", "reserve", "write", "fresh"}
    /\ call.given \union call.fresh \subseteq ObjectNumbers

Appended == doc' # doc

(* The numbers a fresh write allocates, whatever they were before: those of *)
(* its fresh objects and that of its xref stream.                           *)
Allocated ==
    call'.fresh \union
    (IF Newest(doc').kind = "Stream" THEN {Newest(doc').self} ELSE {})

(* Fresh identities collide with nothing: whatever calls came between a     *)
(* reservation and its use, no number an accepted fresh write allocates was *)
(* one of the document's entries, was referenced from its trailer or from   *)
(* any live body or member (reported by the scans or not), or belonged to a *)
(* container or to one of its xref streams.                                 *)
FreshIsUnoccupied ==
    [][Appended /\ call'.kind = "fresh" =>
          Allocated \intersect OccupiedNumbers(doc, chain, map) = {}]_vars

(* An xref stream placed by a fresh write is never the target of a body     *)
(* written with it, so no dangling reference comes alive by accident.       *)
SelfIsUnreferenced ==
    [][Appended /\ call'.kind = "fresh" /\ Newest(doc').kind = "Stream" =>
          \A n \in DOMAIN Newest(doc').bodies :
             Newest(doc').self \notin Newest(doc').bodies[n].refs]_vars

(* The chain found in the bytes of a call's result starts with the new      *)
(* revision and goes on with the whole chain the call was given.            *)
ChainExtended == [][Appended => chain' = <<Len(doc')>> \o chain]_vars

(* The /Size written covers every object number of the whole chain and      *)
(* never falls below a /Size any earlier section declared (PDFBOX-5945).    *)
SizeCoversChain ==
    [][Appended =>
          /\ \A n \in DOMAIN map \union DOMAIN Newest(doc').map : n < Newest(doc').size
          /\ \A i \in DOMAIN chain : doc[chain[i]].size <= Newest(doc').size]_vars

----------------------------------------------------------------------------
(* The document read as a store of objects: what each effective number      *)
(* resolves to, whatever revision holds it.                                 *)
StoredObject(d, eff, n) ==
    IF eff[n].type = "compressed" THEN [kind |-> "member", of |-> eff[n].at]
    ELSE IF OffsetResolution(d, eff, n, eff[n].gen) # "Ok" THEN [kind |-> eff[n].type]
    ELSE [kind |-> "object", gen |-> eff[n].gen,
          refs |-> BodyOf(d, eff, n).refs, members |-> BodyOf(d, eff, n).members]

Store == INSTANCE ObjectStore WITH
    objects <- [n \in DOMAIN map |-> StoredObject(doc, map, n)],
    roots <- TrailerReferences(Newest(doc)),
    given <- call.given,
    fresh <- call.fresh

(* Newest-wins appending implements atomic replacement: a call changes the  *)
(* dirty objects it was given and no other, keeps every other object        *)
(* readable as it was, and adds its fresh objects at numbers that held      *)
(* nothing and that nothing mentioned.                                      *)
ImplementsObjectStore == Store!Spec

----------------------------------------------------------------------------
(* Two statements of the documentation that the code does not keep. *)

(* lib.rs: append mechanics prove newest-wins resolution through the access *)
(* spine.  Every accepted call would return bytes the reader can open.      *)
OutputStaysReadable == [][Appended => Readable(chain')]_vars

(* lib.rs: rewriting objects with the bodies they already have is a         *)
(* semantic no-op, so no reference resolves that did not resolve before.    *)
UnchangedBodies ==
    \A n \in DOMAIN Newest(doc').bodies \intersect DOMAIN map :
       Newest(doc').bodies[n] = BodyOf(doc, map, n)

PlainRewriteIsSemanticNoOp ==
    [][Appended /\ call'.kind = "write" /\ Readable(chain') /\ UnchangedBodies =>
          \A n \in OccupiedNumbers(doc, chain, map) :
             Resolves(doc', map', n, 0) => Resolves(doc, map, n, 0)]_vars
=============================================================================
