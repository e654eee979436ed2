------------------------------ MODULE PdfValues ------------------------------
(***************************************************************************)
(* Dictionaries, values and indirect objects as the structural readers of   *)
(* presslint-pdf see them: spans classified by their first byte, never      *)
(* deeper than the caller asked for.                                        *)
(*                                                                         *)
(* A value is a record with a kind.  A dictionary is a sequence of entries  *)
(* [key, plain, value] in source order: key is the decoded name, plain says *)
(* that it is spelled without #xx escapes, so two entries may share a       *)
(* decoded key and differ in their raw bytes.                               *)
(*                                                                         *)
(* A document maps object numbers to [gen, at, header, body]: the           *)
(* generation of its cross-reference entry, whether the entry is an offset  *)
(* or an object-stream member, the reference spelled at that offset, and    *)
(* the body value.  A number outside the map is free or undefined; an entry *)
(* that is "ambiguous" is neither (a reserved type, a field out of range).  *)
(* A key that does not decode is "#", which no lookup asks for.             *)
(***************************************************************************)
EXTENDS Integers, Sequences, SequencesExt

Absent == [kind |-> "absent"]
Duplicate == [kind |-> "duplicate"]
NullValue == [kind |-> "null"]
Num(t) == [kind |-> "number", text |-> t]
Bool(t) == [kind |-> "bool", text |-> t]
Str == [kind |-> "string"]
Malformed == [kind |-> "malformed"]         \* looks like a reference, is none
BrokenDict == [kind |-> "broken"]           \* a dictionary whose entries do not scan
Name(n) == [kind |-> "name", name |-> n]
Ref(n) == [kind |-> "ref", ref |-> <<n, 0>>]
StaleRef(n) == [kind |-> "ref", ref |-> <<n, 1>>]
Items(values) == [kind |-> "array", items |-> values]
Dict(entries) == [kind |-> "dict", entries |-> entries]
Rect(r) == [kind |-> "rect", rect |-> r]    \* an array of four numbers

Entry(key, value) == [key |-> key, plain |-> TRUE, value |-> value]
Escaped(key, value) == [key |-> key, plain |-> FALSE, value |-> value]

(* The raw spelling of an entry's key, and the two lookups of the readers:  *)
(* by exact raw bytes, and by decoded name.                                 *)
RawName(e) == <<e.key, e.plain>>

Only(found) ==
    IF found = <<>> THEN Absent
    ELSE IF Len(found) > 1 THEN Duplicate
    ELSE found[1].value

RawEntry(entries, key) ==
    Only(SelectSeq(entries, LAMBDA e : e.key = key /\ e.plain))

DecodedEntry(entries, key) == Only(SelectSeq(entries, LAMBDA e : e.key = key))

(* The entries whose raw name occurs first: the readers keep the first of   *)
(* two equal names and report the others.                                   *)
FirstNamed(entries) ==
    {i \in DOMAIN entries : \A j \in 1..(i - 1) : RawName(entries[j]) # RawName(entries[i])}

(* A dictionary value scanned where it stands.                              *)
IsScanned(value) == value.kind = "dict"
IsDictionary(value) == value.kind \in {"dict", "broken"}

----------------------------------------------------------------------------
(* Objects by reference.  An offset lookup accepts whatever stands at the   *)
(* offset; a resolution also compares the header with the reference.        *)

LookedUp(objects, ref) ==
    IF ref[1] \notin DOMAIN objects \/ objects[ref[1]].at # "offset" THEN "unresolved"
    ELSE IF objects[ref[1]].gen # ref[2] THEN "generation"
    ELSE "found"

HasOffset(objects, ref) == LookedUp(objects, ref) = "found"

ResolvesTo(objects, ref) ==
    /\ ref[1] \in DOMAIN objects
    /\ objects[ref[1]].at \in {"offset", "member"}
    /\ objects[ref[1]].gen = ref[2]
    /\ objects[ref[1]].at = "offset" => objects[ref[1]].header = ref

BodyAt(objects, ref) == objects[ref[1]].body

(* A direct dictionary, or one reached through an offset lookup: its        *)
(* entries, or why there are none.                                          *)
Followed(objects, value) ==
    IF value.kind # "ref" THEN value
    ELSE IF ~HasOffset(objects, value.ref) THEN [kind |-> LookedUp(objects, value.ref)]
    ELSE BodyAt(objects, value.ref)

----------------------------------------------------------------------------
(* A stream is a dictionary with a length, the number of its bytes that     *)
(* endstream follows, and a filter.                                         *)

Stream(entries, length, filter) ==
    [kind |-> "dict", entries |-> entries, length |-> length, filter |-> filter]
IsStream(value) == IsScanned(value) /\ "length" \in DOMAIN value

LengthText(objects, value) ==
    IF value.kind = "number" THEN value.text
    ELSE IF value.kind # "ref" THEN "none"
    ELSE IF ~HasOffset(objects, value.ref) \/ ~ResolvesTo(objects, value.ref) THEN "none"
    ELSE IF BodyAt(objects, value.ref).kind # "number" THEN "none"
    ELSE BodyAt(objects, value.ref).text

ExtentFound(objects, body) ==
    IsStream(body) /\ LengthText(objects, RawEntry(body.entries, "Length")) = body.length
=============================================================================
