---------------------------- MODULE PaintWalker ----------------------------
(***************************************************************************)
(* The graphics-state walker (presslint-paint, walker.rs): one state       *)
(* snapshot, a stack of saved ones, one step per operator record.          *)
(*                                                                         *)
(* An operator is a record [kind, lane, name, value]; a tuple of colour    *)
(* components is a number, one per distinct tuple, and 0 is the initial    *)
(* colour of every space.  Records are numbered from 1; `at' is the number *)
(* of the record being walked, 0 stands for no record.                     *)
(***************************************************************************)
EXTENDS Naturals, Sequences

CONSTANTS PaintSpace,    \* names the colour-space environment resolves -> their space
          FontOf,        \* names the font environment resolves -> their font
          ExtGStateFont  \* names the ExtGState environment resolves -> "keep" or a font

ASSUME EnvironmentAssumption ==
  /\ PaintSpace \in [DOMAIN PaintSpace -> STRING]
  /\ FontOf \in [DOMAIN FontOf -> STRING]
  /\ ExtGStateFont \in [DOMAIN ExtGStateFont -> STRING]

Lanes == {"stroke", "fill"}
NoName == "none"
NoComponents == 98

PageDefault ==
  LET black == [space |-> "Gray", value |-> 0, name |-> NoName, source |-> 0]
  IN  [stroke |-> black, fill |-> black, mode |-> 0, font |-> "unset"]

WalkStart == [gs |-> PageDefault, stack |-> <<>>]

-----------------------------------------------------------------------------
(* cs and CS: a resolved name brings its space and that space's initial    *)
(* colour, an unresolved one a space of its own without components.        *)
SelectedColor(name, at) ==
  [space |-> IF name \in DOMAIN PaintSpace THEN PaintSpace[name] ELSE name,
   value |-> IF name \in DOMAIN PaintSpace THEN 0 ELSE NoComponents,
   name |-> name, source |-> at]

(* sc, SC, scn, SCN: new components in the current space; a trailing       *)
(* pattern name replaces the resource name.                                *)
SetColor(colour, o, at) ==
  [colour EXCEPT !.value = o.value,
                 !.name = IF o.name = NoName THEN @ ELSE o.name,
                 !.source = at]

(* g, rg, k and their stroking forms. *)
DeviceColor(o, at) ==
  [space |-> o.name, value |-> o.value, name |-> NoName, source |-> at]

FontSelected(name) ==
  IF name \in DOMAIN FontOf THEN FontOf[name] ELSE "indeterminate"

(* gs: the font directive of the named dictionary; a name the environment  *)
(* does not know may have selected anything.                               *)
FontAfterExtGState(font, name) ==
  IF name \notin DOMAIN ExtGStateFont THEN "indeterminate"
  ELSE IF ExtGStateFont[name] = "keep" THEN font ELSE ExtGStateFont[name]

(* Q with nothing saved and malformed operands end the walk. *)
WalkFails(walk, o) == o.kind = "malformed" \/ (o.kind = "Q" /\ walk.stack = <<>>)

(* The walk after one operator; an operator not named here changes nothing. *)
Walked(walk, o, at) ==
  CASE o.kind = "q"      -> [walk EXCEPT !.stack = Append(@, walk.gs)]
    [] o.kind = "Q"      -> [gs |-> walk.stack[Len(walk.stack)],
                             stack |-> SubSeq(walk.stack, 1, Len(walk.stack) - 1)]
    [] o.kind = "select" -> [walk EXCEPT !.gs[o.lane] = SelectedColor(o.name, at)]
    [] o.kind = "set"    -> [walk EXCEPT !.gs[o.lane] = SetColor(@, o, at)]
    [] o.kind = "device" -> [walk EXCEPT !.gs[o.lane] = DeviceColor(o, at)]
    [] o.kind = "Tr"     -> [walk EXCEPT !.gs.mode = o.value]
    [] o.kind = "Tf"     -> [walk EXCEPT !.gs.font = FontSelected(o.name)]
    [] o.kind = "gs"     -> [walk EXCEPT !.gs.font = FontAfterExtGState(@, o.name)]
    [] OTHER             -> walk
=============================================================================
