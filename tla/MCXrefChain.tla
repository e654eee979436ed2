----------------------------- MODULE MCXrefChain -----------------------------
(* Small files for XrefChain: three section offsets with every /Prev graph  *)
(* over them, an offset that is out of bounds, entry lists that repeat and  *)
(* hide object numbers, and straight chains of four sections.               *)
EXTENDS XrefChain

MCOffsets == 1..3
OutOfBounds == 5

Entry(n, state) == [num |-> n, state |-> state]

MCEntryLists ==
    { <<>>,
      <<Entry(1, "inuse"), Entry(1, "free")>>,
      <<Entry(2, "free")>>,
      <<Entry(2, "inuse"), Entry(3, "inuse")>> }

Section(kind, entries, prev) ==
    [kind |-> kind, parses |-> TRUE, entries |-> entries, prev |-> prev,
     prevOk |-> TRUE, rootOk |-> TRUE, size |-> Len(entries)]

OtherKind(kind) == IF kind = "Table" THEN "Stream" ELSE "Table"

MCSections(kind) ==
    {Section(kind, e, p) : e \in MCEntryLists, p \in MCOffsets \union {NoPrev, OutOfBounds}}
    \union {Section(OtherKind(kind), <<Entry(1, "inuse")>>, NoPrev),
            Section("Other", <<>>, NoPrev),
            [Section(kind, <<>>, NoPrev) EXCEPT !.parses = FALSE],
            [Section(kind, <<>>, 2) EXCEPT !.rootOk = FALSE],
            [Section(kind, <<>>, NoPrev) EXCEPT !.prevOk = FALSE]}

Straight(kind, entries) ==
    [o \in 1..4 |-> Section(kind, entries, IF o = 4 THEN NoPrev ELSE o + 1)]

MCFiles ==
    [MCOffsets -> MCSections("Table")] \union [MCOffsets -> MCSections("Stream")]
    \union {Straight(kind, e) : kind \in {"Table", "Stream"}, e \in MCEntryLists}
MCStarts == {1, OutOfBounds}
=============================================================================
