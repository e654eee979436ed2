------------------------------ MODULE FormEffect ------------------------------
(***************************************************************************)
(* The Form XObject effect analyzer of presslint-write: which of the        *)
(* caller's inherited colour lanes a form paints with.  A form may invoke    *)
(* forms, so FormXObjectEffectAnalyzer::analyze_nested is a bounded          *)
(* recursion with a cache; path is its call stack, one step here is one      *)
(* decision on entering a form, one operator of a form's walk, or one        *)
(* return.  A cached entry is a lattice: slot d is the effect with d nested  *)
(* invocations left, and only the slots up to through were computed.        *)
(*                                                                         *)
(* forms maps a form to gate (the refusal of its dictionary, filter or       *)
(* group, or "None"), size (its decoded bytes) and ops, the operators that   *)
(* bear on the answer: Paint consumes lanes that are still inherited at it   *)
(* (a path paint, or a stencil), Do invokes a form while the lanes in live   *)
(* are still inherited, Refuse stands for whatever ends the analysis of the *)
(* body.  Which lanes are still inherited is PaintWalker's business.  The    *)
(* page's own list of resolved names only saves repeating a demand.          *)
(***************************************************************************)
EXTENDS Naturals, Sequences, FiniteSets, SequencesExt

CONSTANTS
    Documents,            \* the values of forms
    Budgets,              \* <<targets, bytes>> the request's earlier forms left
    MaxNestedFormDepth,   \* MAX_NESTED_FORM_DEPTH
    MaxDemands            \* bound: demands made by the pages of one behaviour

Lanes == {"stroking", "nonstroking"}
GateClasses == {"StructuralPreflight", "StreamFilterOrExtent", "TransparencyGroup"}
BodyClasses == {"RawGrammar", "ColorAuthority", "XObjectAuthority", "ExtGStateAuthority"}
BudgetClasses == {"TargetBudget", "DecodedByteBudget"}
Classes == GateClasses \union BodyClasses \union BudgetClasses
           \union {"RecursionCycle", "RecursionDepth"}

(* An operator of a body; a Do that resolves to nothing is a Refuse.        *)
IsOperator(op, targetable) ==
    \/ op.kind = "Paint" /\ op.lanes \subseteq Lanes
    \/ op.kind = "Do" /\ op.form \in targetable /\ op.live \subseteq Lanes
    \/ op.kind = "Refuse" /\ op.class \in BodyClasses

IsBody(body, targetable) ==
    /\ body.gate \in {"None"} \union GateClasses
    /\ body.size \in Nat
    /\ body.ops \in Seq({body.ops[n] : n \in DOMAIN body.ops})
    /\ \A n \in DOMAIN body.ops : IsOperator(body.ops[n], targetable)

ASSUME DepthAssumption == MaxNestedFormDepth \in Nat

ASSUME DocumentsAssumption ==
    /\ \A left \in Budgets : left[1] \in Nat /\ left[2] \in Nat
    /\ \A document \in Documents :
          \A f \in DOMAIN document : IsBody(document[f], DOMAIN document)

VARIABLES
    forms,
    cache,          \* form -> entry; a form outside its domain is unseen
    targets,        \* remaining_targets
    bytes,          \* remaining_bytes
    path,           \* the frames being computed, the demanded form's first
    control,        \* "idle", "enter" a form, "walk" the top frame, "return"
    answer,         \* what analyze_nested returns
    demanded,       \* the form of the current, or last, demand
    demands,        \* how many were made
    seen, counted   \* page_seen and page_counts of the current page

analyzer == <<cache, targets, bytes>>
page == <<seen, counted>>
vars == <<forms, analyzer, path, control, answer, demanded, demands, page>>

Forms == DOMAIN forms
Depths == 0 .. MaxNestedFormDepth

----------------------------------------------------------------------------
(* The lattice.                                                             *)

Unknown == [known |-> FALSE, lanes |-> {}]
Proven(lanes) == [known |-> TRUE, lanes |-> lanes]

Lattice(slot, through, class) ==
    [slots |-> [d \in Depths |-> slot], through |-> through, class |-> class]
AllUnknown(class) == Lattice(Unknown, MaxNestedFormDepth, class)
Neutral == Lattice(Proven({}), MaxNestedFormDepth, "None")

MaxDepthEffect(lattice) == lattice.slots[MaxNestedFormDepth]

MarkConsumed(lattice, lanes) ==
    [lattice EXCEPT !.slots =
        [d \in Depths |-> IF @[d].known THEN Proven(@[d].lanes \union lanes) ELSE Unknown]]

Folded(parent, child, live) ==
    IF parent.known /\ child.known THEN Proven(parent.lanes \union (child.lanes \intersect live))
    ELSE Unknown

Least(a, b) == IF a < b THEN a ELSE b

(* Mutant: a child's slot is folded at its own depth, which forgets that    *)
(* the invocation itself used up an edge.                                   *)
FoldNestedFormSameDepth(lattice, child, live) ==
    LET reach == Least(MaxNestedFormDepth, child.through + 1)
    IN  [lattice EXCEPT
            !.slots = [d \in Depths |->
                        IF d \in 1 .. reach THEN Folded(@[d], child.slots[d], live)
                        ELSE Unknown],
            !.through = Least(@, reach)]

FoldNestedForm(lattice, child, live) ==
    LET reach == Least(MaxNestedFormDepth, child.through + 1)
    IN  [lattice EXCEPT
            !.slots = [d \in Depths |->
                        IF d \in 1 .. reach THEN Folded(@[d], child.slots[d - 1], live)
                        ELSE Unknown],
            !.through = Least(@, reach)]

RefuseNestedDescent(lattice) ==
    [lattice EXCEPT !.slots = [d \in Depths |-> Unknown], !.through = 0]

----------------------------------------------------------------------------
(* Entering a form.                                                         *)

Top == Last(path)
CurrentOp == forms[Top.form].ops[Top.at]
AtEnd == Top.at > Len(forms[Top.form].ops)
Callee == IF path = <<>> THEN demanded ELSE CurrentOp.form
Active == {path[i].form : i \in DOMAIN path}

WithinHorizon == Len(path) <= MaxNestedFormDepth

(* Mutants: whatever the cache holds is served; a partial entry never is;   *)
(* one that holds exactly what is asked for is not.                         *)
ServedWhenCached(f) == f \in DOMAIN cache
ServedWhenComplete(f) == f \in DOMAIN cache /\ cache[f].through = MaxNestedFormDepth
ServedStrictly(f) ==
    /\ f \in DOMAIN cache
    /\ WithinHorizon => MaxNestedFormDepth - Len(path) < cache[f].through

Served(f) ==
    /\ f \in DOMAIN cache
    /\ WithinHorizon => MaxNestedFormDepth - Len(path) <= cache[f].through

Answer(available, entry) ==
    /\ control' = "return"
    /\ answer' = [available |-> available, entry |-> entry]

Publish(f, entry) ==
    /\ cache' = [g \in DOMAIN cache \union {f} |-> IF g = f THEN entry ELSE cache[g]]
    /\ Answer(TRUE, entry)

(* Mutant: a deepening that fails leaves the class of the first compute.    *)
FailedQuietly(f, class) == IF f \in DOMAIN cache THEN cache[f] ELSE AllUnknown(class)

Failed(f, class) ==
    IF f \in DOMAIN cache THEN [cache[f] EXCEPT !.class = class] ELSE AllUnknown(class)

Request == <<forms, demanded, demands, page>>

ReenterCycle ==
    /\ control = "enter" /\ Callee \in Active
    /\ Answer(TRUE, AllUnknown("RecursionCycle"))
    /\ UNCHANGED <<Request, analyzer, path>>

ServeCached ==
    /\ control = "enter" /\ Callee \notin Active /\ Served(Callee)
    /\ Answer(TRUE, cache[Callee])
    /\ UNCHANGED <<Request, analyzer, path>>

CutAtHorizon ==
    /\ control = "enter" /\ Callee \notin Active /\ ~Served(Callee) /\ ~WithinHorizon
    /\ Answer(FALSE, AllUnknown("RecursionDepth"))
    /\ UNCHANGED <<Request, analyzer, path>>

Computing ==
    /\ control = "enter" /\ Callee \notin Active /\ ~Served(Callee) /\ WithinHorizon

FirstSeen == Callee \notin DOMAIN cache
ChargeTarget ==
    /\ FirstSeen => targets > 0
    /\ targets' = IF FirstSeen THEN targets - 1 ELSE targets

RefuseTarget ==
    /\ Computing /\ FirstSeen /\ targets = 0
    /\ Publish(Callee, Failed(Callee, "TargetBudget"))
    /\ UNCHANGED <<Request, targets, bytes, path>>

RefuseGate ==
    /\ Computing /\ ChargeTarget
    /\ bytes > 0 /\ forms[Callee].gate # "None"
    /\ Publish(Callee, Failed(Callee, forms[Callee].gate))
    /\ UNCHANGED <<Request, bytes, path>>

RefuseBytes ==
    /\ Computing /\ ChargeTarget
    /\ bytes = 0 \/ (forms[Callee].gate = "None" /\ forms[Callee].size > bytes)
    /\ bytes' = 0
    /\ Publish(Callee, Failed(Callee, "DecodedByteBudget"))
    /\ UNCHANGED <<Request, path>>

OpenFrame ==
    /\ Computing /\ ChargeTarget
    /\ bytes > 0 /\ forms[Callee].gate = "None" /\ forms[Callee].size <= bytes
    /\ bytes' = bytes - forms[Callee].size
    /\ path' = Append(path, [form |-> Callee, at |-> 1, lattice |-> Neutral])
    /\ control' = "walk"
    /\ UNCHANGED <<Request, cache, answer>>

----------------------------------------------------------------------------
(* The walk of the top frame.                                               *)

Advance(lattice) ==
    path' = Append(Front(path), [Top EXCEPT !.at = @ + 1, !.lattice = lattice])

Walking(kind) == control = "walk" /\ ~AtEnd /\ CurrentOp.kind = kind

Paint ==
    /\ Walking("Paint")
    /\ Advance(MarkConsumed(Top.lattice, CurrentOp.lanes))
    /\ UNCHANGED <<Request, analyzer, control, answer>>

Invoke ==
    /\ Walking("Do")
    /\ control' = "enter"
    /\ UNCHANGED <<Request, analyzer, path, answer>>

RefuseBody ==
    /\ Walking("Refuse")
    /\ Publish(Top.form, Failed(Top.form, CurrentOp.class))
    /\ path' = Front(path)
    /\ UNCHANGED <<Request, targets, bytes>>

(* A lattice proven at its deepest slot sheds the class of an earlier fold. *)
CloseFrame ==
    /\ control = "walk" /\ AtEnd
    /\ LET proven == MaxDepthEffect(Top.lattice).known
       IN  Publish(Top.form, [Top.lattice EXCEPT !.class = IF proven THEN "None" ELSE @])
    /\ path' = Front(path)
    /\ UNCHANGED <<Request, targets, bytes>>

(* The cause a fold records, the walk keeping the first: the child's own, or *)
(* the horizon.                                                             *)
Damage(folded) ==
    IF ~answer.available THEN "RecursionDepth"
    ELSE IF MaxDepthEffect(folded).known THEN "None"
    ELSE answer.entry.class

Fold ==
    /\ control = "return" /\ path # <<>>
    /\ LET folded == IF answer.available
                     THEN FoldNestedForm(Top.lattice, answer.entry, CurrentOp.live)
                     ELSE RefuseNestedDescent(Top.lattice)
       IN  Advance([folded EXCEPT !.class = IF @ = "None" THEN Damage(folded) ELSE @])
    /\ control' = "walk"
    /\ UNCHANGED <<Request, analyzer, answer>>

----------------------------------------------------------------------------
(* The demands of the pages and their tally of refused forms.               *)

Demand ==
    /\ control = "idle" /\ demands < MaxDemands
    /\ \E f \in Forms : demanded' = f
    /\ demands' = demands + 1
    /\ control' = "enter"
    /\ UNCHANGED <<forms, analyzer, path, answer, page>>

Refused == ~MaxDepthEffect(answer.entry).known

Tally ==
    /\ control = "return" /\ path = <<>>
    /\ IF Refused /\ demanded \notin seen
       THEN /\ seen' = seen \union {demanded}
            /\ counted' = counted \union {[form |-> demanded, class |-> c] :
                                             c \in {answer.entry.class} \ {"None"}}
       ELSE UNCHANGED page
    /\ control' = "idle"
    /\ UNCHANGED <<forms, analyzer, path, answer, demanded, demands>>

BeginPage ==
    /\ control = "idle" /\ demands < MaxDemands
    /\ seen' = {} /\ counted' = {}
    /\ UNCHANGED <<forms, analyzer, path, control, answer, demanded, demands>>

Init ==
    /\ forms \in Documents
    /\ \E left \in Budgets : targets = left[1] /\ bytes = left[2]
    /\ cache = <<>>
    /\ path = <<>>
    /\ control = "idle"
    /\ answer = [available |-> FALSE, entry |-> AllUnknown("None")]
    /\ demanded \in Forms
    /\ demands = 0
    /\ seen = {} /\ counted = {}

Next ==
    \/ Demand \/ BeginPage
    \/ ReenterCycle \/ ServeCached \/ CutAtHorizon
    \/ RefuseTarget \/ RefuseGate \/ RefuseBytes \/ OpenFrame
    \/ Paint \/ Invoke \/ RefuseBody \/ CloseFrame \/ Fold \/ Tally

Spec == Init /\ [][Next]_vars

----------------------------------------------------------------------------
(* What a form's effect is, with no cache, no budget and no call stack.     *)

Step(f, n) == forms[f].ops[n]
OpsOfKind(f, kind) == {n \in DOMAIN forms[f].ops : Step(f, n).kind = kind}

Effect[d \in Depths] ==
    LET invoked(f) == OpsOfKind(f, "Do")
        Child(f, n) == Effect[d - 1][Step(f, n).form]
    IN  [f \in Forms |->
            IF /\ forms[f].gate = "None"
               /\ OpsOfKind(f, "Refuse") = {}
               /\ \A n \in invoked(f) : d > 0 /\ Child(f, n).known
            THEN Proven(UNION ({Step(f, n).lanes : n \in OpsOfKind(f, "Paint")}
                               \union {Child(f, n).lanes \intersect Step(f, n).live :
                                          n \in invoked(f)}))
            ELSE Unknown]

(* The forms a form's walk gets to invoke: none past a refusal.             *)
Invokes(f) ==
    IF forms[f].gate # "None" THEN {}
    ELSE {Step(f, n).form : n \in {m \in OpsOfKind(f, "Do") :
                                    \A r \in OpsOfKind(f, "Refuse") : m < r}}

Descendants[n \in Nat, f \in Forms] ==
    IF n = 0 THEN {f} ELSE UNION {Descendants[n - 1, g] : g \in Invokes(f)}

Reachable(f) == UNION {Descendants[n, f] : n \in 0 .. Cardinality(Forms)}
OnCycle(f) == \E n \in 1 .. Cardinality(Forms) : f \in Descendants[n, f]
CausesWithin(f) == {forms[f].gate} \union {Step(f, n).class : n \in OpsOfKind(f, "Refuse")}

BudgetsLast == targets > 0 /\ bytes > 0

----------------------------------------------------------------------------
(* Properties.                                                              *)

(* What the cache says a form consumes is what it consumes, whatever path   *)
(* it was reached on and whatever the budgets cut short; and while the      *)
(* budgets last, a slot that was computed as Unknown is Unknown.            *)
PublishedIsTrue ==
    \A f \in DOMAIN cache : \A d \in 0 .. cache[f].through :
        LET slot == cache[f].slots[d]
        IN  slot.known \/ BudgetsLast => slot = Effect[d][f]

(* The verdict given to a page depends on the form alone, not on what was   *)
(* demanded before it, while the budgets last: the cycle guard, the horizon *)
(* and the partial entries they leave never show.                           *)
AnswersAreOrderFree ==
    control = "return" /\ path = <<>> /\ BudgetsLast =>
        MaxDepthEffect(answer.entry) = Effect[MaxNestedFormDepth][demanded]

(* A published slot keeps its value through every deepening, failed ones    *)
(* included.  An entry is extended, never shrunk, by every publication that *)
(* leaves the budgets unspent, and by every publication at all of a form    *)
(* whose effect is known at some depth.                                     *)
PublishedSlotsStay ==
    [][\A f \in DOMAIN cache :
        /\ f \in DOMAIN cache'
        /\ \A d \in 0 .. cache[f].through : cache'[f].slots[d] = cache[f].slots[d]
        /\ BudgetsLast' => cache'[f].through >= cache[f].through
        /\ (\E d \in Depths : Effect[d][f].known) => cache'[f].through >= cache[f].through]_vars

(* What the comment at form_xobject_effect.rs:361-362 says of publication:   *)
(* "extending, never shrinking, a prior partial entry".  It does not hold    *)
(* once a budget is spent: a child that could not be deepened for want of it *)
(* is folded as deep as it is, and where the earlier compute had met that    *)
(* child on its own path, as a cycle, the new entry is the less deep one.    *)
PublicationNeverShrinks ==
    [][\A f \in DOMAIN cache :
        f \in DOMAIN cache' /\ cache'[f].through >= cache[f].through]_vars

(* While the budgets last every recompute of a cached form buys slots it    *)
(* did not have: no form is walked more than once per slot, however often   *)
(* it is demanded and on however many paths it is met.                      *)
DeepeningPays ==
    [][\A f \in DOMAIN cache :
        Len(path') < Len(path) /\ f = Top.form /\ BudgetsLast' =>
            cache'[f].through > cache[f].through]_vars

(* The class a page counts for a refused form is a cause the form has: it   *)
(* reaches a cycle, or a chain longer than the horizon, or a body with that *)
(* very refusal, or the budget named is spent.                              *)
CountedCauseIsGenuine ==
    \A c \in counted :
        CASE c.class = "RecursionCycle" -> \E f \in Reachable(c.form) : OnCycle(f)
          [] c.class = "RecursionDepth" -> Descendants[MaxNestedFormDepth + 1, c.form] # {}
          [] c.class = "TargetBudget" -> targets = 0
          [] c.class = "DecodedByteBudget" -> bytes = 0
          [] OTHER -> \E f \in Reachable(c.form) : c.class \in CausesWithin(f)
=============================================================================
