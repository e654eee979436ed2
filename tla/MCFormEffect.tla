---------------------------- MODULE MCFormEffect ----------------------------
(* Small documents for FormEffect under a horizon of four nested            *)
(* invocations: six forms, four of them in every kind of graph two          *)
(* invocations down, and eight forms met at several depths.                 *)
EXTENDS FormEffect

Body(ops) == [gate |-> "None", size |-> 1, ops |-> ops]
Large(ops) == [Body(ops) EXCEPT !.size = 3]
Gated(class) == [Body(<<>>) EXCEPT !.gate = class]

Fill == [kind |-> "Paint", lanes |-> {"nonstroking"}]
Stroke == [kind |-> "Paint", lanes |-> {"stroking"}]
Do(f) == [kind |-> "Do", form |-> f, live |-> Lanes]
DoColoured(f) == [kind |-> "Do", form |-> f, live |-> {"stroking"}]
Missing == [kind |-> "Refuse", class |-> "XObjectAuthority"]
Text == [kind |-> "Refuse", class |-> "RawGrammar"]

(* Chains, diamonds, self and mutual cycles, and cycles reached late, over  *)
(* bodies that paint, are refused, or are refused after an invocation.      *)
FirstForms ==
    {Body(<<Do("B")>>), Body(<<Do("C"), Stroke, DoColoured("B")>>),
     Body(<<DoColoured("B"), Do("A")>>), Body(<<Do("B"), Missing>>)}
SecondForms ==
    {Body(<<Do("C")>>), Large(<<Do("C"), Do("D")>>), Body(<<DoColoured("C"), Fill>>),
     Body(<<Do("C"), Do("A")>>), Body(<<Do("D"), Text>>)}
ThirdForms ==
    {Body(<<Do("D")>>), Body(<<Do("D"), Do("B")>>), Large(<<Do("D"), Fill>>), Body(<<Do("A")>>)}
FourthForms ==
    {Body(<<Fill>>), Body(<<Stroke, Do("A")>>), Body(<<Text>>), Gated("TransparencyGroup")}

GraphDocuments ==
    {[f \in {"E", "H", "A", "B", "C", "D"} |->
        CASE f = "E" -> Body(<<Do("H")>>) [] f = "H" -> Body(<<Do("A")>>)
          [] f = "A" -> a [] f = "B" -> b [] f = "C" -> c [] f = "D" -> d] :
        a \in FirstForms, b \in SecondForms, c \in ThirdForms, d \in FourthForms}

(* From A, F is past the horizon on the way by G and within it on the way   *)
(* by P and C, so that what is published of these forms is deepened -- and  *)
(* F leads back to C, to G or nowhere.                                      *)
Returns ==
    {Body(<<Do("C"), Do("G")>>), Body(<<Do("C")>>), Body(<<Do("G")>>), Body(<<Fill>>), Body(<<Text>>)}

Deepening(last) ==
    [f \in {"A", "B", "C", "F", "G", "G1", "G2", "P"} |->
        CASE f = "A" -> Body(<<Do("B")>>)
          [] f = "B" -> Body(<<Do("G"), Do("P")>>)
          [] f = "G" -> Body(<<Do("G1")>>)
          [] f = "G1" -> Body(<<Do("G2")>>)
          [] f = "G2" -> Body(<<Do("F")>>)
          [] f = "P" -> Body(<<Do("C")>>)
          [] f = "C" -> Body(<<Do("F"), Do("G2")>>)
          [] f = "F" -> last]

DeepeningDocuments == {Deepening(last) : last \in Returns}

FormDocuments == GraphDocuments \union DeepeningDocuments

(* Few targets, few bytes, ample budgets.                                   *)
Allowances == {<<5, 20>>, <<20, 9>>, <<20, 20>>}
=============================================================================
