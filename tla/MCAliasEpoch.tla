---------------------------- MODULE MCAliasEpoch ----------------------------
(***************************************************************************)
(* Pages for the alias epochs: colours under q and Q, graphics objects and *)
(* text around one epoch, an object listed twice, owners and straddling    *)
(* records.  A and N are aliases of two families, C a classified alias     *)
(* that is not eligible; /DefaultRGB makes Rgb unsafe.                     *)
(***************************************************************************)
EXTENDS AliasEpoch

MCPaintSpace == [A |-> "Gray", N |-> "Cmyk"]
MCAliasSpace == [A |-> "Gray", N |-> "Cmyk", C |-> "Gray"]
MCRawDevice == {"Gray", "Cmyk"}
MCFontOf == [F |-> "ordinary", T |-> "type3"]
MCExtGStateFont == [G |-> "keep", H |-> "ordinary"]
MCXObjectLanes == [Image |-> {}, Stencil |-> {"fill"}, Form |-> {"stroke", "fill"}]

Op(kind) == [kind |-> kind, lane |-> "none", name |-> NoName, value |-> 0]
Select(lane, name) == [Op("select") EXCEPT !.lane = lane, !.name = name]
Set(lane, value) == [Op("set") EXCEPT !.lane = lane, !.value = value]
Pattern(lane, name) == [Set(lane, NoComponents) EXCEPT !.name = name]
Gray(lane, value) == [Op("device") EXCEPT !.lane = lane, !.name = "Gray", !.value = value]
Paint(name) == [Op("paint") EXCEPT !.name = name]
Named(kind, name) == [Op(kind) EXCEPT !.name = name]
Mode(value) == [Op("Tr") EXCEPT !.value = value]

Straight(operators) ==
  [n \in DOMAIN operators |-> [object |-> "a", occurrence |-> 1, place |-> n,
                               operators |-> operators[n]]]
Page(cells) == [cells |-> cells, routes |-> [Gray |-> "Cmyk"], editable |-> {"a", "b"},
                excluded |-> {2}, failing |-> {3}]

(* Colours, saves and restores. *)
Colours == {Select("fill", "A"), Set("fill", 1), Op("q"), Op("Q"), Paint("both"),
            Gray("fill", 1)}
ColourPage == Page(Straight([n \in 1 .. 6 |-> Colours]))
Values == {Select("fill", "A"), Select("stroke", "A"), Select("fill", "N"), Select("fill", "C"),
           Set("fill", 1), Set("fill", 2), Set("fill", 3), Set("fill", BadValue),
           Pattern("fill", "P"), Op("malformed")}
ValuePage == Page(Straight(<<Values, Values, Values \union {Paint("fill")}, {Paint("both")}>>))
UnsafePage == [ValuePage EXCEPT !.routes = [Gray |-> "Cmyk", Cmyk |-> "Rgb"]]

(* A pattern that has the name of an alias, in a space g, rg or k selected.  *)
Selected == {Select("fill", "A"), Gray("fill", 1), Set("fill", 1), Pattern("fill", "A"),
             Op("q"), Op("Q")}
NamePage == Page(Straight(<<Selected, Selected, Selected, Selected, {Paint("fill")}>>))

(* One epoch among graphics objects, opaque operators and text. *)
Objects == {Op("BT"), Op("ET"), Op("m"), Op("l"), Op("cm"), Op("neutral"), Op("BMC"), Op("EMC"),
            Op("show"), Op("q"), Op("Q"), Paint("fill"), Set("fill", 1), Gray("fill", 1),
            Named("Do", "Image"), Named("Do", "Stencil"), Named("Do", "Unknown"),
            Named("opaque", "InlineImage")}
ObjectPage == Page(Straight(<<{Select("fill", "A")}, Objects, Objects, Objects, Objects>>))
TextPage ==
  Page(Straight(<<{Select("fill", "A")},
                  {Named("Tf", "F"), Named("Tf", "T"), Named("gs", "H")},
                  {Mode(0), Mode(1), Mode(2), Mode(7), Mode(8), Named("gs", "G"), Named("gs", "Z")},
                  {Op("BT"), Op("q"), Select("stroke", "A"), Set("fill", 1)},
                  {Op("show"), Op("BT"), Named("Tf", "Z")},
                  {Op("show"), Op("ET"), Op("Q")}, {Op("ET"), Paint("both")}>>))

(* An object listed before and after another one. *)
Twice == {Select("fill", "A"), Set("fill", 1), Set("fill", 3), Op("q"), Op("Q"), Paint("fill")}
Between == Twice \union {Select("fill", "C"), Gray("fill", 1), Named("opaque", "InlineImage")}
At(object, occurrence, place, operators) ==
  [object |-> object, occurrence |-> occurrence, place |-> place, operators |-> operators]
RepeatedPage ==
  Page(<<At("a", 1, 1, Twice), At("a", 1, 2, Twice), At("a", 1, 3, Twice), At("b", 2, 1, Between),
         At("a", 3, 1, {}), At("a", 3, 2, {}), At("a", 3, 3, {})>>)

(* The object again, its first record begun by the stream before it: an     *)
(* operator nobody looks into, or one whose colour is lost in what that     *)
(* stream left open.                                                        *)
CutPage(first, again) ==
  Page(<<At("a", 1, 1, {first}), At("a", 1, 2, Between), At("a", 1, 3, Between),
         At("b", 2, 1, {Select("fill", "A"), Op("neutral"), Paint("fill")}),
         At("a", 3, 0, {again}), At("a", 3, 2, {}), At("a", 3, 3, {})>>)

(* Two streams, the second not ours, a record that straddles them. *)
Split == {Select("fill", "A"), Set("fill", 1), Gray("fill", 1), Paint("fill")}
SplitPage(editable) ==
  [Page(<<At("a", 1, 1, Split), At("a", 1, 2, Split), At("b", 2, 0, Split), At("b", 2, 1, Split),
          At("b", 2, 2, Split)>>) EXCEPT !.editable = editable]

MCPages == {ColourPage, ValuePage, UnsafePage, NamePage, ObjectPage, TextPage, RepeatedPage,
            CutPage(Op("neutral"), Op("neutral")),
            CutPage(Gray("fill", 1), Named("opaque", "UnknownOperator")),
            SplitPage({"a"}), SplitPage({"a", "b"})}
=============================================================================
