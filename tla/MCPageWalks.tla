----------------------------- MODULE MCPageWalks -----------------------------
(***************************************************************************)
(* Documents for the page walks: page trees with shared, cyclic, missing,   *)
(* foreign and member kids; resources at three levels of a path; entries of *)
(* every category; boxes; and contents.  1 is the catalog, 2 the page-tree  *)
(* root, 3, 4 and 7 nodes, 5 and 6 pages, 20 and up what resources name.    *)
(***************************************************************************)
EXTENDS PdfValues

At(n, body) == [gen |-> 0, at |-> "offset", header |-> <<n, 0>>, body |-> body]
Member(body) == [gen |-> 0, at |-> "member", header |-> <<0, 0>>, body |-> body]
Misspelled(body) == [gen |-> 0, at |-> "offset", header |-> <<99, 0>>, body |-> body]

Refs(kids) == Items([i \in DOMAIN kids |-> Ref(kids[i])])
NodeWith(kids, more) ==
    Dict(<<Entry("Type", Name("Pages")), Entry("Kids", kids), Entry("Count", Num("1"))>> \o more)
NodeOf(kids) == NodeWith(Refs(kids), <<>>)
PageWith(more) == Dict(<<Entry("Type", Name("Page"))>> \o more)
Catalog == Dict(<<Entry("Type", Name("Catalog")), Entry("Pages", Ref(2))>>)
Document(objects) == [catalog |-> <<1, 0>>, objects |-> objects]

(* Page trees. *)
FifthPages == {At(5, PageWith(<<>>)), Member(PageWith(<<>>)), Misspelled(PageWith(<<>>)),
               At(5, Dict(<<Entry("Type", Name("Font"))>>))}
RootLists == {<<a, b>> : a \in {3, 4, 5, 9}, b \in {3, 5, 6}}
ThirdLists == {<<4, 5>>, <<2, 5>>, <<6, 6>>, <<4, 4>>}
FourthNodes == {NodeOf(<<3, 6>>), NodeOf(<<6>>), NodeOf(<<>>),
                Dict(<<Entry("Type", Name("Pages"))>>)}

TreeDocuments ==
    {Document([n \in 1 .. 6 |->
         CASE n = 1 -> At(1, Catalog) [] n = 2 -> root [] n = 3 -> At(3, NodeOf(third))
           [] n = 4 -> At(4, fourth) [] n = 5 -> fifth [] n = 6 -> At(6, PageWith(<<>>))]) :
       root \in {At(2, NodeOf(list)) : list \in RootLists} \union {Member(NodeOf(<<3, 5>>))},
       third \in ThirdLists, fourth \in FourthNodes, fifth \in FifthPages}

Chain(lists, root) ==
    Document([n \in 1 .. 7 |->
         CASE n = 1 -> At(1, Catalog) [] n = 2 -> At(2, root)
           [] n \in {5, 6} -> At(n, PageWith(<<>>)) [] OTHER -> At(n, NodeOf(lists[n]))])
BoundDocuments ==
    {Chain([n \in {3, 4, 7} |-> IF n = 3 THEN <<4>> ELSE IF n = 4 THEN <<7, 5>> ELSE <<6>>], NodeOf(<<3, 6>>)),
     Chain([n \in {3, 4, 7} |-> <<5>>], NodeOf(<<3, 4, 7, 6>>)),
     Chain([n \in {3, 4, 7} |-> <<5>>],
           NodeWith(Items(<<Ref(3), StaleRef(4), NullValue, Ref(6)>>), <<>>)),
     [Chain([n \in {3, 4, 7} |-> <<5>>], NodeOf(<<3>>)) EXCEPT !.catalog = <<9, 0>>],
     [Chain([n \in {3, 4, 7} |-> <<5>>], NodeOf(<<3>>)) EXCEPT !.catalog = <<2, 0>>],
     Chain([n \in {3, 4, 7} |-> <<5>>], PageWith(<<>>))}

(* Things a resource may name. *)
FontDict == Dict(<<Entry("Type", Name("Font")), Entry("Subtype", Name("Type1"))>>)
Things(n) ==
    CASE n = 20 -> At(20, FontDict)
      [] n = 21 -> At(21, Stream(<<Entry("Subtype", Name("Image")), Entry("Length", Num("8"))>>, "8", "none"))
      [] n = 22 -> At(22, Stream(<<Entry("Subtype", Name("Form")), Entry("Length", Ref(26))>>, "8", "flate"))
      [] n = 23 -> At(23, Dict(<<Entry("CA", Num("0.5")), Entry("BM", Name("Multiply")),
                                 Entry("Font", Items(<<Ref(20), Num("9")>>))>>))
      [] n = 24 -> Member(FontDict)
      [] n = 25 -> Misspelled(FontDict)
      [] n = 26 -> At(26, Num("8"))
      [] n = 27 -> At(27, Items(<<Name("ICCBased"), Ref(21)>>))
      [] n = 28 -> At(28, Dict(<<Entry("XObject", Dict(<<Entry("Z", Ref(21))>>))>>))
      [] n = 29 -> At(29, Stream(<<Entry("Length", Num("7"))>>, "8", "none"))
      [] n = 30 -> At(30, Stream(<<Entry("Length", Num("8"))>>, "8", "other"))

(* Node 3 above page 5, page 6 below the root. *)
WithPages(root, third, fifth) ==
    Document([n \in 1 .. 6 |->
         CASE n = 1 -> At(1, Catalog) [] n = 2 -> At(2, NodeWith(Refs(<<3, 6>>), root))
           [] n = 3 -> At(3, NodeWith(Refs(<<5>>), third)) [] n = 4 -> At(4, NullValue)
           [] n = 5 -> fifth [] n = 6 -> At(6, PageWith(<<>>))]
       @@ [n \in 20 .. 30 |-> Things(n)])

ResourcesOf(category, entries) == <<Entry("Resources", Dict(<<Entry(category, Dict(entries))>>))>>
Above == Dict(<<Entry("XObject", Dict(<<Entry("A", Ref(21))>>)),
                Entry("ExtGState", Dict(<<Entry("G", Ref(23))>>)),
                Entry("Font", Dict(<<Entry("F", Ref(20))>>)),
                Entry("ColorSpace", Dict(<<Entry("C", Name("DeviceRGB"))>>))>>)
Levels == {<<>>, <<Entry("Resources", Above)>>, <<Entry("Resources", Ref(28))>>,
           <<Entry("Resources", Ref(99))>>, <<Entry("Resources", StaleRef(28))>>,
           <<Entry("Resources", Ref(26))>>, <<Entry("Resources", Malformed)>>,
           <<Entry("Resources", BrokenDict)>>, <<Entry("Resources", NullValue)>>,
           <<Entry("Resources", Above), Entry("Resources", Above)>>,
           <<Escaped("Resources", Above)>>}
LevelDocuments ==
    {WithPages(root, third, At(5, PageWith(fifth))) :
       root \in Levels, third \in Levels, fifth \in {<<>>, <<Entry("Resources", Ref(28))>>,
                                                     <<Entry("Resources", NullValue)>>}}

(* Two entries of one category, under one name, two spellings, two names. *)
Second(value) == {Entry("A", value), Escaped("A", value), Entry("B", value)}
Pairs(category, values) ==
    UNION {{WithPages(ResourcesOf(category, <<Entry("A", v), e>>), <<>>, At(5, PageWith(<<>>))) :
              e \in Second(w)} : v \in values, w \in values}
XObjects == {Ref(21), Ref(22), Ref(20), Ref(26), StaleRef(21), Ref(24), Malformed, NullValue}
Fonts == {Ref(20), FontDict, Ref(24), Ref(21), BrokenDict, Num("1"), Dict(<<>>)}
States ==
    {Ref(23), Dict(<<>>), Dict(<<Entry("CA", Num("1")), Escaped("CA", Num("1")), Entry("SMask", Name("None"))>>),
     Dict(<<Entry("Font", Items(<<Ref(24), Num("9")>>)), Entry("OP", Bool("true"))>>),
     Dict(<<Entry("Font", Items(<<Ref(25), Num("9")>>)), Entry("OPM", Num("1"))>>),
     Dict(<<Entry("Font", Items(<<Ref(20), Num("9"), Num("1")>>))>>),
     Dict(<<Entry("Font", Items(<<Ref(20), Num("9")>>)), Entry("op", Num("1"))>>), Ref(99), NullValue}
Spaces ==
    {Name("RGB"), Name("Pattern"), Ref(27), Ref(99), Items(<<Name("ICCBased"), Name("X")>>),
     Items(<<Name("DeviceN"), Items(<<Name("Spot"), NullValue>>)>>),
     Items(<<Name("Indexed"), Ref(27), Num("3"), NullValue>>), Items(<<Name("Lab")>>), NullValue}
EntryDocuments ==
    Pairs("XObject", XObjects) \union Pairs("Font", Fonts) \union Pairs("ExtGState", States)
    \union Pairs("ColorSpace", Spaces)
    \union {WithPages(ResourcesOf("ColorSpace", <<Entry("DefaultRGB", v), Entry(k, Name("RGB"))>>), <<>>,
                      At(5, PageWith(<<Entry("Group", g)>>))) :
              v \in Spaces, k \in {"DefaultRGB", "DefaultGray"},
              g \in {NullValue, Dict(<<Entry("S", Name("Transparency")), Entry("I", Bool("true"))>>)}}
    \union {WithPages(<<Entry("Resources", Dict(<<Entry(c, v)>>))>>, <<>>, At(5, PageWith(<<>>))) :
              c \in {"XObject", "Font", "ExtGState", "ColorSpace"}, v \in {Ref(28), BrokenDict, NullValue}}

(* Boxes and contents. *)
BoxValues == {<<>>, <<Entry("MediaBox", Rect("a"))>>, <<Entry("MediaBox", Items(<<>>))>>,
              <<Entry("MediaBox", Rect("b")), Entry("CropBox", Rect("c"))>>,
              <<Entry("MediaBox", Rect("b")), Entry("MediaBox", Rect("c"))>>,
              <<Entry("CropBox", NullValue)>>}
BoxDocuments ==
    {WithPages(root, third, fifth) : root \in BoxValues, third \in BoxValues,
       fifth \in {At(5, PageWith(v)) : v \in BoxValues} \union {Member(PageWith(<<>>))}}

Contents == {NullValue, Ref(21), Ref(22), Ref(24), Ref(29), Ref(30), Items(<<>>),
             Items(<<Ref(21), Ref(22)>>), Items(<<Ref(21), NullValue, Ref(29), Ref(24)>>), StaleRef(21)}
ContentDocuments ==
    {WithPages(<<Entry("Resources", Above)>>, <<>>, place) :
       place \in {At(5, PageWith(<<Entry("Contents", c)>>)) : c \in Contents}
           \union {Member(PageWith(<<Entry("Contents", c), Entry("Resources", Ref(28))>>)) : c \in Contents}}

MCDocuments == TreeDocuments \union BoundDocuments \union LevelDocuments \union EntryDocuments
               \union BoxDocuments \union ContentDocuments

(* Two pages below one node; the first is a member of an object stream.     *)
MCCompressedFirst == {WithPages(<<>>, <<Entry("Resources", Above)>>, Member(PageWith(<<>>)))}
=============================================================================
