------------------------------ MODULE MCCloneSets ------------------------------
(***************************************************************************)
(* Documents for clone sets: 1 is the catalog, 2 the page-tree root, 5 and  *)
(* 6 pages, 8 and 9 resources behind a reference, 10 the form both pages show, 11 *)
(* to 13 what it reaches, 14 and 39 numbers nothing defines.                *)
(***************************************************************************)
EXTENDS PdfValues

At(n, body) == [gen |-> 0, at |-> "offset", header |-> <<n, 0>>, body |-> body]
Member(body) == [gen |-> 0, at |-> "member", header |-> <<0, 0>>, body |-> body]
Misspelled(body) == [gen |-> 0, at |-> "offset", header |-> <<99, 0>>, body |-> body]
Reserved == [gen |-> 0, at |-> "ambiguous", header |-> <<0, 0>>, body |-> NullValue]
Several == [kind |-> "several"]

Refs(numbers) == Items([i \in DOMAIN numbers |-> Ref(numbers[i])])
Catalog == Dict(<<Entry("Type", Name("Catalog")), Entry("Pages", Ref(2))>>)
Catalogs == {Dict(Catalog.entries \o <<Entry(key, Ref(11))>>) : key \in {"AcroForm", "Threads"}}
Kids(list) ==
    Dict(<<Entry("Type", Name("Pages")), Entry("Kids", Refs(list)), Entry("Count", Num("2")),
           Entry("Lang", Str)>>)

Parent == <<Entry("Parent", Ref(2))>>
Direct(names) == <<Entry("Resources", Dict(<<Entry("XObject", Dict(names))>>))>>
PageWith(more) == Dict(<<Entry("Type", Name("Page"))>> \o more)
Page == PageWith(Parent \o Direct(<<Entry("A", Ref(10))>>))

Form(length, more) ==
    Stream(<<Entry("Subtype", Name("Form")), Entry("Length", length)>> \o more, "8", "none")
Plain == Form(Num("8"), <<Entry("X", Ref(11))>>)
Leaf == Dict(<<Entry("Y", Ref(14))>>)

Document(catalog, kids, fifth, form, eleventh) ==
    [catalog |-> <<1, 0>>,
     objects |-> (1 :> At(1, catalog)) @@ (2 :> At(2, Kids(kids))) @@ (5 :> fifth)
                 @@ (6 :> At(6, Page)) @@ (8 :> At(8, Dict(<<Entry("XObject", Ref(9))>>))) @@ (9 :> At(9, Dict(<<Entry("A", Ref(10))>>)))
                 @@ (10 :> At(10, form)) @@ (11 :> eleventh) @@ (12 :> At(12, Num("8")))
                 @@ (13 :> Member(Num("8")))]

PageDocuments ==
    {Document(Catalog, kids, fifth, Plain, At(11, Leaf)) :
       kids \in {<<5, 6>>, <<5, 6, 5>>, <<5, 7, 2, 6>>},
       fifth \in {At(5, PageWith(body)) : body \in
           {Parent \o Direct(<<Entry("A", Ref(10)), Escaped("B", Ref(10))>>),
            Parent \o Direct(<<Entry("A", Ref(10)), Escaped("A", Ref(10)), Entry("#", Ref(10))>>),
            Parent \o Direct(<<Entry("B", Ref(11)), Entry("A", Ref(10)), Entry("C", Malformed),
                               Entry("D", StaleRef(10)), Entry("E", NullValue), Entry("F", Ref(14))>>),
            Direct(<<Entry("A", Ref(10))>>),
            <<Escaped("Parent", Ref(2))>> \o Direct(<<Entry("A", Ref(10))>>),
            Parent \o Parent \o Direct(<<Entry("A", Ref(10))>>),
            Parent \o <<Entry("#", NullValue)>> \o Direct(<<Entry("A", Ref(10))>>),
            Parent,
            Parent \o <<Entry("Resources", Ref(8))>>,
            Parent \o <<Entry("Resources", NullValue)>>,
            Parent \o <<Entry("Resources", Dict(<<Entry("XObject", Ref(9))>>))>>,
            Parent \o <<Entry("Resources", Dict(<<Entry("XObject", Ref(10))>>))>>}}
           \union {Misspelled(Page), Member(Page)}}
    \union {Document(Catalog, <<5, 6>>, At(5, PageWith(Parent \o Direct(<<Entry("B", Ref(11)), Entry("A", Ref(10))>>))),
                     Form(length, <<Entry("X", Ref(11))>>), At(11, Form(Num("8"), <<Entry("Y", Ref(14))>>))) :
              length \in {Num("8"), Num("7")}}
    \union {[Document(Catalog, <<5, 6>>, At(5, PageWith(Parent)), Plain, At(11, Leaf))
              EXCEPT !.objects[2].body.entries = Append(@, Direct(<<Entry("A", Ref(10))>>)[1])]}

(* Only one page, so that its form is its own, or only an image. *)
AloneDocuments ==
    {Document(Catalog, <<5>>, At(5, Page), form, At(11, Leaf)) : form \in {Plain, Num("8")}}
    \union {Document(Catalog, <<5, 6>>, At(5, Page), form, At(11, Leaf)) :
              form \in {Stream(<<Entry("Subtype", s), Entry("Length", Num("8"))>>, "8", "none") :
                          s \in {Name("Image"), Name("PS"), NullValue}}
                  \union {Dict(<<Entry("Subtype", Name("Form")), Escaped("Subtype", Name("Form"))>>)}}

FormDocuments ==
    {Document(Catalog, <<5, 6>>, At(5, Page), form, At(11, Leaf)) : form \in
       {Form(length, <<>>) : length \in {Num("8"), Num("7"), Ref(10), Ref(12), Ref(13), Ref(14), NullValue}}
       \union {Form(Num("8"), more) : more \in
           {<<Entry("X", Ref(5))>>, <<Entry("X", Ref(2))>>, <<Entry("X", StaleRef(11))>>,
            <<Entry("X", Malformed)>>, <<Entry("#", NullValue)>>, <<Escaped("Length", Num("8"))>>,
            <<Entry("Type", Name("XObject")), Entry("OC", Ref(11))>>, <<Entry("Type", Num("1"))>>,
            <<Entry("Type", Name("OCG"))>>, <<Entry("StructParents", Num("1"))>>,
            <<Entry("X", Refs(<<14, 39, 12>>))>>, <<Entry("X", Refs(<<11, 12, 13>>))>>,
            <<Entry("X", Refs(<<12, 12, 12>>))>>, <<Entry("X", Refs(<<12, 12, 12, 12, 12, 12>>))>>,
            <<Entry("X", Refs(<<13>>))>>}}
       \union {Stream(<<Entry("Subtype", Name("Form"))>>, "8", "none"),
               Stream(<<Entry("Subtype", Name("Form")), Escaped("Length", Num("8"))>>, "8", "none"),
               Stream(<<Entry("Subtype", Name("Form")), Entry("Length", Num("8"))>>, "unframed", "none"),
               Form(Ref(11), <<>>)}}

BelowDocuments ==
    {Document(catalog, <<5, 6>>, At(5, Page), Plain, eleventh) :
       catalog \in {Catalog} \union Catalogs,
       eleventh \in {At(11, body) : body \in
           {Leaf, Dict(<<Entry("Back", Ref(10)), Entry("Y", Ref(39))>>), Refs(<<12, 10>>), Num("8"),
            Dict(<<Entry("Y", Ref(13))>>), Str, Several, BrokenDict, Ref(12), Refs(<<6>>),
            Dict(<<Entry("Y", Items(<<Num("1"), Malformed>>))>>)}}
           \union {Member(body) : body \in {Leaf, Ref(12), Several, Dict(<<Entry("Y", Ref(13))>>)}}
           \union {Misspelled(Leaf), Reserved}}

(* 11 leads on to 12 and 12 to another: a chain past the depth. *)
DeepDocuments ==
    {[d EXCEPT !.objects[12] = At(12, Refs(<<next>>))] :
       d \in {Document(Catalog, <<5, 6>>, At(5, Page), Plain, At(11, Refs(<<12>>)))},
       next \in {10, 13, 14}}

MCDocuments == PageDocuments \union AloneDocuments \union FormDocuments
               \union BelowDocuments \union DeepDocuments
=============================================================================
