--------------------------- MODULE MCFormExpansion ---------------------------
(* One page over three form objects.  The names F, G and H call forms 1, 2  *)
(* and 3 wherever they are known, I is an image, D an image and a form at   *)
(* once, and X a name nothing classifies.                                   *)
EXTENDS FormExpansion

Do(name) == [kind |-> "Do", lane |-> "fill", name |-> name, value |-> 0]
Device(lane, value) == [kind |-> "device", lane |-> lane, name |-> "Gray", value |-> value]
Select(name) == [kind |-> "select", lane |-> "fill", name |-> name, value |-> 0]
Set(value) == [kind |-> "set", lane |-> "fill", name |-> "none", value |-> value]
Op(kind) == [kind |-> kind, lane |-> "fill", name |-> "none", value |-> 0]
Mode(value) == [Op("Tr") EXCEPT !.value = value]
Paint(lanes) == [kind |-> "paint", lanes |-> lanes]
Fill == Paint({"fill"})
Both == Paint({"fill", "stroke"})

Stream(ops, spaces) ==
    [ops |-> ops, spaces |-> spaces, images |-> {"I", "D"},
     forms |-> ("F" :> 1) @@ ("G" :> 2) @@ ("H" :> 3) @@ ("D" :> 3),
     content |-> TRUE, lost |-> FALSE]

PageSpaces == "Cs" :> "Separation"
FormSpaces == "Cs" :> "ICCBased"

Pages ==
    {Stream(before \o calls, PageSpaces) :
        before \in {<<>>, <<Device("fill", 3)>>, <<Select("Cs"), Set(5)>>, <<Op("q"), Device("stroke", 2)>>},
        calls \in {<<Do("F"), Fill>>, <<Do("F"), Device("fill", 4), Do("F")>>,
                   <<Do("X"), Do("D"), Do("F"), Do("G")>>, <<Fill, Do("G"), Mode(1), Do("F")>>}}
    \union
    {[Stream(ops, PageSpaces) EXCEPT !.forms = forms] :
        ops \in {<<Do("F"), Fill, Op("Q")>>, <<Fill, Do("F"), Op("malformed")>>, <<Both, Do("F")>>},
        forms \in {<<>>, "F" :> 1}}
    \union {[Stream(<<Fill, Do("F")>>, PageSpaces) EXCEPT !.content = FALSE]}

First ==
    {Stream(ops, FormSpaces) :
        ops \in {<<Fill>>, <<Device("fill", 7), Both>>, <<Both, Set(6), Op("show")>>,
                 <<Do("G"), Fill>>, <<Op("q"), Device("fill", 7), Do("G"), Op("Q"), Do("G"), Both>>,
                 <<Select("Cs"), Do("G"), Do("H")>>, <<Do("F"), Op("show")>>, <<Fill, Op("Q")>>,
                 <<Device("fill", 3), Do("I"), Fill>>}}

Second ==
    {Stream(ops, FormSpaces) :
        ops \in {<<Op("show"), Both>>, <<Set(8), Do("H"), Fill>>, <<Do("F"), Do("H")>>,
                 <<Op("q"), Fill>>, <<Do("H"), Op("malformed")>>}}
    \union {[Stream(<<Do("X"), Fill>>, <<>>) EXCEPT !.lost = TRUE],
            [Stream(<<Op("Q")>>, <<>>) EXCEPT !.lost = TRUE],
            [Stream(<<Fill>>, <<>>) EXCEPT !.content = FALSE]}

Third == {Stream(ops, <<>>) : ops \in {<<Both>>, <<Do("F"), Do("G")>>}}

MCDocuments ==
    {[programs |-> [f \in 0..3 |-> <<page, first, second, third>>[f + 1]]] :
        page \in Pages, first \in First, second \in Second, third \in Third}
=============================================================================
