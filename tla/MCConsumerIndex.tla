--------------------------- MODULE MCConsumerIndex ---------------------------
(* Small documents for ConsumerIndex and ContentEdit.  Object 1 is the      *)
(* catalog, 2 the page-tree root, 8 an intermediate node, 3 and 4 the page  *)
(* leaves, 5 and 6 streams, 7 a resource that may close a cycle; 9 is the   *)
(* trailer's /Info and 10 a number nothing defines.                         *)
EXTENDS ConsumerIndex

Ref(n) == <<n, 0>>
Refs(ns) == [i \in DOMAIN ns |-> Ref(ns[i])]
StaleRef(n) == <<n, 1>>

Key(key, refs) == [key |-> key, refs |-> refs, lost |-> <<>>]
Dict(entries) == [dict |-> TRUE, stream |-> FALSE, scan |-> "ok", entries |-> entries]
Stream(entries) == [Dict(entries) EXCEPT !.stream = TRUE]
Value(refs) == [Dict(<<Key("", refs)>>) EXCEPT !.dict = FALSE]

PageBody(parent, contents) ==
    Dict(<<Key("Parent", <<Ref(parent)>>), Key("Contents", contents),
           Key("Resources", <<Ref(7)>>)>>)

(* One document: the two pages' /Contents, what the resource 7 points at,   *)
(* and what the catalog holds besides /Pages.                               *)
Document(first, second, resource, extra) ==
    [trailer |-> <<Key("Root", <<Ref(1)>>), Key("Info", <<Ref(9)>>)>>,
     trailerOk |-> TRUE,
     root |-> Ref(1),
     catalogOk |-> TRUE,
     pages |-> Refs(<<3, 4>>),
     contents |-> <<[inspected |-> TRUE, refs |-> first, others |-> FALSE],
                    [inspected |-> TRUE, refs |-> second, others |-> FALSE]>>,
     objects |-> Ref(1) :> Dict(<<Key("Pages", <<Ref(2)>>)>> \o extra)
              @@ Ref(2) :> Dict(<<Key("Kids", Refs(<<3, 8>>))>>)
              @@ Ref(3) :> PageBody(2, first)
              @@ Ref(4) :> PageBody(8, second)
              @@ Ref(5) :> Stream(<<Key("Length", <<>>)>>)
              @@ Ref(6) :> Stream(<<Key("Metadata", <<>>)>>)
              @@ Ref(7) :> Dict(<<Key("XObject", resource)>>)
              @@ Ref(8) :> Dict(<<Key("Parent", <<Ref(2)>>), Key("Kids", <<Ref(4)>>)>>)
              @@ Ref(9) :> Value(<<>>)]

Extras == {<<>>, <<Key("Outlines", <<Ref(7)>>)>>, <<Key("OpenAction", <<Ref(4)>>)>>}

Readable ==
    {Document(first, second, resource, extra) :
        first \in {Refs(<<>>), Refs(<<5>>), Refs(<<5, 6>>), Refs(<<5, 5>>)},
        second \in {Refs(<<6>>), Refs(<<6, 5>>)},
        resource \in {Refs(<<>>), Refs(<<5>>), Refs(<<7, 4>>), <<StaleRef(5)>>, <<StaleRef(4)>>,
                      Refs(<<10>>)},
        extra \in Extras}

Plain(resource) == Document(Refs(<<5>>), Refs(<<6>>), resource, <<>>)
Scanned(d, n, scan) == [d EXCEPT !.objects[Ref(n)].scan = scan]

(* A node of the page tree that is met before the /Kids that name it, so    *)
(* that its /Parent is followed.                                            *)
WithEarlyNode ==
    [Plain(<<>>) EXCEPT
        !.objects = [@ EXCEPT ![Ref(2)].entries = Append(@, Key("Extra", <<Ref(12)>>)),
                              ![Ref(8)].entries[2].refs = Refs(<<4, 12>>)]
                    @@ (Ref(12) :> Dict(<<Key("Parent", <<Ref(5)>>)>>))]

(* The second page's /Contents is a reference to an array that names 5.     *)
WithContentsArray ==
    [Document(Refs(<<5>>), Refs(<<11>>), <<>>, <<>>) EXCEPT
        !.objects = @ @@ (Ref(11) :> Value(Refs(<<5>>)))]

(* Documents that cannot be read whole: an unreadable trailer or catalog, a *)
(* body that fails to scan, one behind the decoded-byte cap, one cut short  *)
(* at the reference cap, a page that is not enumerated, or listed twice, or *)
(* whose own dictionary has no source location; and readable ones that are  *)
(* odd.                                                                     *)
Damaged ==
    {Scanned(Plain(Refs(<<5>>)), n, scan) : n \in {3, 5, 7, 9}, scan \in {"failed", "decode"}}
    \union
    {[Plain(<<>>) EXCEPT !.trailerOk = FALSE, !.trailer[2].refs = Refs(<<5>>)],
     [Plain(<<>>) EXCEPT !.catalogOk = FALSE,
                         !.objects[Ref(1)].entries = <<Key("Pages", <<Ref(2)>>), Key("AF", <<Ref(5)>>)>>],
     [Plain(<<>>) EXCEPT !.objects[Ref(7)].entries[1].lost = Refs(<<5>>)],
     [Plain(<<>>) EXCEPT !.objects[Ref(4)].entries[3].lost = Refs(<<5>>)],
     [Plain(<<>>) EXCEPT !.trailer[2].lost = Refs(<<5>>)],
     [Plain(<<>>) EXCEPT !.objects[Ref(1)].entries = <<Key("Pages", <<Ref(2)>>),
                                                       [Key("AF", <<>>) EXCEPT !.lost = Refs(<<5>>)]>>]}
    \union
    {[d EXCEPT !.pages = Refs(<<3>>), !.contents = <<d.contents[1]>>] :
        d \in {Document(Refs(<<5>>), Refs(<<6, 5>>), <<>>, <<>>), Plain(Refs(<<7, 4>>))}}
    \union
    {[d EXCEPT !.pages = Refs(<<3, 4, 3>>), !.contents = @ \o <<d.contents[1]>>,
               !.objects[Ref(2)].entries[1].refs = Refs(<<3, 8, 3>>)] : d \in {Plain(<<>>)}}
    \union
    {[d EXCEPT !.contents[2].inspected = FALSE] :
        d \in {Plain(<<>>), Document(Refs(<<5>>), Refs(<<6, 5>>), <<>>, <<>>)}}
    \union
    {[d EXCEPT !.contents[1].others = TRUE] : d \in {Plain(<<>>)}}
    \union
    {[Plain(<<>>) EXCEPT !.objects[Ref(6)].stream = FALSE],
     WithContentsArray, WithEarlyNode}

(* Documents past one bound each: too deep, too many objects below one      *)
(* page, too many bodies to expand, and too many users of the two pages.    *)
With(d, bodies) == [d EXCEPT !.objects = @ @@ bodies]

Large ==
    {With(Plain(Refs(<<12>>)),
          Ref(12) :> Value(Refs(<<13>>)) @@ Ref(13) :> Value(Refs(<<14>>)) @@ Ref(14) :> Value(Refs(<<5>>))),
     With(Document(Refs(<<5, 6>>), Refs(<<6>>), Refs(<<12, 13, 14, 15, 16>>), <<>>),
          [r \in {Ref(n) : n \in 12..16} |-> Value(<<>>)]),
     With(Document(Refs(<<5>>), Refs(<<6>>), Refs(<<12>>),
                   [k \in 1..3 |-> Key(<<"AF", "Names", "Outlines">>[k], <<Ref(7)>>)]),
          Ref(12) :> Value(Refs(<<9>>))),
     Document(Refs(<<5>>), Refs(<<6>>), <<>>,
              [k \in 1..5 |-> Key(<<"AF", "Dests", "Names", "Outlines", "Threads">>[k], Refs(<<3, 4>>))])}

MCFiles == Readable \union Damaged \union Large
=============================================================================
