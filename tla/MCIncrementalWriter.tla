------------------------- MODULE MCIncrementalWriter -------------------------
(* Small documents and requests for IncrementalWriter. *)
EXTENDS IncrementalWriter

Body(gen, refs) ==
    [gen |-> gen, refs |-> refs, unreported |-> {}, scans |-> TRUE, members |-> NoMembers]
Member(refs) == [refs |-> refs, unreported |-> {}]
Hiding(body) == [body EXCEPT !.unreported = body.refs]
InUse(gen, at) == [type |-> "inuse", gen |-> gen, at |-> at]
Free(gen) == [type |-> "free", gen |-> gen, at |-> 0]
Compressed(container) == [type |-> "compressed", gen |-> 0, at |-> container]

FirstRevision(kind, size, self, listed, bodies) ==
    [kind |-> kind, prev |-> NoPrev, size |-> size, root |-> 1, info |-> {}, other |-> {},
     unreported |-> {}, encrypt |-> FALSE, hybrid |-> FALSE, self |-> self, map |-> listed, bodies |-> bodies]

(* A classic file whose page references object 3, which does not exist. *)
ClassicDangling ==
    << FirstRevision("Table", 3, 0,
          [n \in 0..2 |-> IF n = 0 THEN Free(0) ELSE InUse(0, 1)],
          [n \in 1..2 |-> Body(0, IF n = 1 THEN {2} ELSE {3})]) >>

(* A classic file of two revisions: the second frees object 3, understates  *)
(* /Size, and names an /Info and an extra trailer reference.                *)
ClassicFreed ==
    << FirstRevision("Table", 4, 0,
          [n \in 0..3 |-> IF n = 0 THEN Free(0) ELSE InUse(IF n = 2 THEN 1 ELSE 0, 1)],
          [n \in 1..3 |-> Body(IF n = 2 THEN 1 ELSE 0, IF n = 1 THEN {2, 3} ELSE {})]),
       [FirstRevision("Table", 2, 0,
          [n \in {1, 3} |-> IF n = 1 THEN InUse(0, 2) ELSE Free(1)],
          [n \in {1} |-> Body(0, {2})])
        EXCEPT !.prev = 1, !.info = {2}, !.other = {4}] >>

(* Object 2's entry points where no such object is. *)
ClassicMispointed ==
    << FirstRevision("Table", 3, 0,
          [n \in 1..2 |-> InUse(0, 1)], [n \in {1} |-> Body(0, {2})]) >>

(* Scans that do not tell everything: a body's reference to the absent 3 is *)
(* behind the cap, the trailer's to 4 has a generation out of range, the    *)
(* references of object 2 cannot be looked for.                             *)
ClassicCutShort == << [ClassicDangling[1] EXCEPT !.bodies[2] = Hiding(@)] >>
ClassicTrailerHides == << [ClassicDangling[1] EXCEPT !.info = {4}, !.unreported = {4}] >>
ClassicUnscannable == << [ClassicDangling[1] EXCEPT !.bodies[2].scans = FALSE] >>

ClassicEncrypted == << [ClassicDangling[1] EXCEPT !.encrypt = TRUE] >>
ClassicHybrid == << [ClassicDangling[1] EXCEPT !.hybrid = TRUE] >>

(* An xref-stream file: root 1, page 2 referencing the absent 4, and the  *)
(* section's own object 3.                                                  *)
StreamDangling ==
    << FirstRevision("Stream", 5, 3,
          [n \in 1..3 |-> InUse(0, 1)],
          [n \in 1..3 |-> Body(0, CASE n = 1 -> {2} [] n = 2 -> {4} [] OTHER -> {1})]) >>

(* An object stream 2 whose member 3 references the absent 5; the section   *)
(* (object 4) omits itself from its own map.                                *)
StreamMembers ==
    << FirstRevision("Stream", 4, 4,
          [n \in 1..3 |-> IF n = 3 THEN Compressed(2) ELSE InUse(0, 1)],
          [n \in {1, 2, 4} |->
             IF n = 2 THEN [Body(0, {}) EXCEPT !.members = [m \in {3} |-> Member({5})]]
             ELSE Body(0, {3})]) >>

(* The member's reference is left out by its scan. *)
StreamMemberHides == << [StreamMembers[1] EXCEPT !.bodies[2].members[3] = Hiding(@)] >>

(* Entries past the object numbers, past the generations, and two members   *)
(* where the decode budget is for one.                                      *)
StreamWideNumber ==
    << [StreamDangling[1] EXCEPT !.map = [n \in {1, 2, 3, MaxEntry} |->
          IF n = MaxEntry THEN Free(0) ELSE InUse(0, 1)]] >>
StreamWideGeneration ==
    << [StreamDangling[1] EXCEPT !.map[2] = InUse(MaxGeneration + 1, 1)] >>
StreamTwoMembers ==
    << [StreamMembers[1] EXCEPT
          !.map = [n \in {1, 2, 3, 5} |-> IF n > 2 THEN Compressed(2) ELSE InUse(0, 1)],
          !.bodies[2].members = [m \in {3, 5} |-> Member({})]] >>

StreamReserved ==
    << [StreamDangling[1] EXCEPT !.map = [n \in 1..3 |->
          IF n = 3 THEN [type |-> "reserved", gen |-> 0, at |-> 0] ELSE InUse(0, 1)]] >>

(* /Prev of the only section points to itself, or past the end of the file  *)
(* where an appended section would start.                                   *)
ClassicLooping == << [ClassicDangling[1] EXCEPT !.prev = 1] >>
ClassicPastEnd == << [ClassicDangling[1] EXCEPT !.prev = 2] >>

MCClassicDocs ==
    {ClassicDangling, ClassicFreed, ClassicMispointed, ClassicEncrypted, ClassicHybrid,
     ClassicLooping, ClassicPastEnd}
MCStreamDocs == {StreamDangling, StreamMembers, StreamReserved}
MCRefusedDocs ==
    {ClassicCutShort, ClassicTrailerHides, ClassicUnscannable, StreamMemberHides,
     StreamWideNumber, StreamWideGeneration, StreamTwoMembers}
MCDocs == MCClassicDocs \union MCStreamDocs \union MCRefusedDocs

Object(n, g, refs) == [num |-> n, gen |-> g, body |-> Body(g, refs)]
Unscannable(n) == [num |-> n, gen |-> 0, body |-> [Body(0, {}) EXCEPT !.scans = FALSE]]

(* Rewrites of one or two objects, one keeping a reference, one adding a    *)
(* dangling one, one at a wrong generation, a duplicate, an object stream   *)
(* losing its member, a body that cannot be scanned, and one whose scan     *)
(* leaves something out.                                                    *)
MCDirtyRequests ==
    { {}, {Object(1, 0, {2})}, {Object(2, 0, {6})}, {Object(2, 1, {1})},
      {Object(1, 0, {2}), Object(2, 0, {4})}, {Object(1, 0, {}), Object(1, 0, {2})},
      {Unscannable(1)}, {[num |-> 1, gen |-> 0, body |-> Hiding(Body(0, {7}))]},
      {Object(3, 0, {})} }

(* Fresh objects at every number past the smallest documents' live ones,    *)
(* alone or in pairs, some naming their neighbour above, plus the shapes    *)
(* that are refused.                                                        *)
MCFresh ==
    {{Object(n, 0, {})} : n \in 3..MaxNumber}
    \union {{Object(n, 0, {n + 1}), Object(n + 1, 0, {n + 2} \intersect 0..MaxNumber)} :
               n \in 3..(MaxNumber - 1)}
    \union {{Object(4, 1, {})}, {Object(4, 0, {}), Object(4, 0, {1})},
            {Object(4, 0, {}), Object(6, 0, {})}}

MCCounts == {0, 2}
=============================================================================
