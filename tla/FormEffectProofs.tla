-------------------------- MODULE FormEffectProofs --------------------------
(***************************************************************************)
(* Proofs about the Form XObject effect analyzer, for every document, every *)
(* budget and every horizon: what the cache publishes of a form is what the *)
(* form consumes (PublishedIsAlwaysTrue), a page's verdict does not depend  *)
(* on what was demanded before (AnswersIgnoreOrder), a published slot never *)
(* changes (PublishedSlotsAlwaysStay) and no recompute is wasted while the  *)
(* budgets last (EveryDeepeningPays).                                       *)
(*                                                                         *)
(* FormInv is the invariant they follow from.  It says of the call stack    *)
(* that every frame waits for the form of the next one (ShapeInv) and is    *)
(* past no refusal (BodyInv); how deep what is being computed reaches       *)
(* (HorizonInv); and of the cache, of each frame's lattice and of the       *)
(* answer on its way back, that a slot is known exactly if the cache knows  *)
(* the slot below of every form invoked so far, and then holds what these   *)
(* forms consume (CacheInv, PathInv, AnswerInv).  A form met again while it *)
(* is being computed is proven at no depth (CycleNeverKnown), which is why  *)
(* what the cycle guard answers never shows.                                *)
(***************************************************************************)
EXTENDS FormEffect, NaturalOrder, SequenceTheorems

(* One round of the definition of Effect, over what the round below gave.   *)
Invoked(f) == OpsOfKind(f, "Do")

Consumed(below, f) ==
    UNION ({Step(f, n).lanes : n \in OpsOfKind(f, "Paint")}
           \union {below[Step(f, n).form].lanes \intersect Step(f, n).live : n \in Invoked(f)})

(* The lanes that the operators of f before at consume.                     *)
ConsumedBefore(below, f, at) ==
    UNION ({Step(f, n).lanes : n \in {m \in OpsOfKind(f, "Paint") : m < at}}
           \union {below[Step(f, n).form].lanes \intersect Step(f, n).live :
                     n \in {m \in Invoked(f) : m < at}})

Round(E, d) ==
    [f \in Forms |->
        IF /\ forms[f].gate = "None"
           /\ OpsOfKind(f, "Refuse") = {}
           /\ \A n \in Invoked(f) : d > 0 /\ E[d - 1][Step(f, n).form].known
        THEN Proven(Consumed(E[d - 1], f))
        ELSE Unknown]

(* Effect is chosen among the functions that a round turns into themselves. *)
LEMMA EffectIsChosen == Effect = CHOOSE E : E = [d \in Depths |-> Round(E, d)]
  BY DEF Effect, Round, Consumed, Invoked

(* A round looks at the round below, and the first one at nothing.          *)
LEMMA RoundAgrees ==
    ASSUME NEW E, NEW F, NEW d \in Nat, d = 0 \/ E[d - 1] = F[d - 1]
    PROVE  Round(E, d) = Round(F, d)
<1>1. CASE d > 0
  BY <1>1 DEF Round
<1>2. CASE d = 0
  <2>1. ASSUME NEW below, NEW other, NEW f, Invoked(f) = {}
        PROVE  Consumed(below, f) = Consumed(other, f)
    BY <2>1 DEF Consumed
  <2>2. ASSUME NEW f, \A n \in Invoked(f) : FALSE
        PROVE  Consumed(E[d - 1], f) = Consumed(F[d - 1], f)
    BY <2>1, <2>2
  <2>3. ~(d > 0)
    BY <1>2
  <2> HIDE DEF Invoked, Consumed
  <2> QED
    BY <2>2, <2>3, Zenon DEF Round
<1> QED
  BY <1>1, <1>2

(* There is such a function: one that fits below the least depth that has   *)
(* none extends by a round.                                                 *)
LEMMA RoundsExist == \E E : E = [d \in Depths |-> Round(E, d)]
<1> DEFINE Fits(E, k) == E = [d \in 0 .. k |-> Round(E, d)]
           missing == {k \in Nat : ~ \E E : Fits(E, k)}
<1>1. missing = {}
  <2> SUFFICES ASSUME missing # {} PROVE FALSE
    OBVIOUS
  <2>1. missing \subseteq Nat
    OBVIOUS
  <2>2. PICK k \in missing : \A m \in missing : k <= m
    <3> HIDE DEF missing
    <3> QED
      BY <2>1, LeastExists
  <2>3. k # 0
    <3> DEFINE E == [d \in 0 .. 0 |-> Round(<<>>, d)]
    <3>1. \A d \in 0 .. 0 : Round(E, d) = Round(<<>>, d)
      BY RoundAgrees
    <3>2. E = [d \in 0 .. 0 |-> Round(E, d)]
      BY <3>1
    <3>3. Fits(E, 0)
      BY <3>2
    <3> QED
      BY <2>2, <3>3
  <2>4. k - 1 \in Nat /\ k - 1 \notin missing
    BY <2>1, <2>2, <2>3
  <2>5. PICK E : Fits(E, k - 1)
    BY <2>4
  <2> DEFINE F == [d \in 0 .. k |-> IF d = k THEN Round(E, k) ELSE E[d]]
  <2>6. \A d \in 0 .. (k - 1) : E[d] = Round(E, d) /\ F[d] = E[d]
    <3>1. E = [d \in 0 .. (k - 1) |-> Round(E, d)]
      BY <2>5
    <3>2. \A d \in 0 .. (k - 1) : E[d] = Round(E, d)
      BY <3>1
    <3>3. \A d \in 0 .. (k - 1) : d \in 0 .. k /\ d # k
      BY <2>4
    <3> QED
      BY <3>2, <3>3
  <2>7. F[k] = Round(E, k) /\ k \in Nat
    BY <2>4
  <2> HIDE DEF F
  <2>8. ASSUME NEW d \in 0 .. k PROVE F[d] = Round(F, d)
    <3>1. Round(F, d) = Round(E, d)
      <4>1. d \in Nat /\ (d = 0 \/ d - 1 \in 0 .. (k - 1))
        BY <2>7
      <4>2. d = 0 \/ F[d - 1] = E[d - 1]
        BY <2>6, <4>1
      <4> QED
        BY <4>1, <4>2, RoundAgrees
    <3> QED
      BY <2>6, <2>7, <3>1
  <2>9. F = [d \in 0 .. k |-> Round(F, d)]
    <3>1. F = [d \in 0 .. k |-> F[d]]
      BY DEF F
    <3> QED
      BY <2>8, <3>1
  <2>10. Fits(F, k)
    BY <2>9
  <2> QED
    BY <2>2, <2>10
<1>2. MaxNestedFormDepth \in Nat /\ MaxNestedFormDepth \notin missing
  BY <1>1, DepthAssumption
<1> QED
  BY <1>2 DEF Depths

(* Effect is what its definition says.                                      *)
LEMMA EffectIs == \A d \in Depths : Effect[d] = Round(Effect, d)
<1>1. Effect = [d \in Depths |-> Round(Effect, d)]
  BY EffectIsChosen, RoundsExist
<1> QED
  BY <1>1

----------------------------------------------------------------------------
(* The shape of what the analyzer keeps: past through no slot is known.    *)
IsSlot(slot) == slot = Unknown \/ (slot.known /\ slot = Proven(slot.lanes))

IsLattice(lattice) ==
    /\ DOMAIN lattice = {"slots", "through", "class"}
    /\ DOMAIN lattice.slots = Depths
    /\ \A d \in Depths : IsSlot(lattice.slots[d])
    /\ lattice.through \in Depths
    /\ \A d \in Depths : d > lattice.through => lattice.slots[d] = Unknown

IsFrame(frame) ==
    /\ DOMAIN frame = {"form", "at", "lattice"}
    /\ frame.form \in Forms
    /\ frame.at \in 1 .. Len(forms[frame.form].ops) + 1
    /\ IsLattice(frame.lattice)

(* A frame that waits for the form it invoked.                              *)
Waits(frame) ==
    /\ frame.at \in DOMAIN forms[frame.form].ops
    /\ Step(frame.form, frame.at).kind = "Do"

FormTypeOK ==
    /\ forms \in Documents
    /\ targets \in Nat /\ bytes \in Nat
    /\ demanded \in Forms
    /\ control \in {"idle", "enter", "walk", "return"}
    /\ \A f \in DOMAIN cache : f \in Forms /\ IsLattice(cache[f])
    /\ path \in Seq({path[i] : i \in DOMAIN path})
    /\ \A i \in DOMAIN path : IsFrame(path[i])
    /\ IsLattice(answer.entry)
    /\ control = "idle" => path = <<>>
    /\ control = "walk" => path # <<>>

(* The call stack: every frame but the top one waits for the next, and the  *)
(* top one for what is being entered or returned.                           *)
StackInv ==
    /\ path # <<>> => path[1].form = demanded
    /\ \A i \in 1 .. Len(path) - 1 :
          Waits(path[i]) /\ Step(path[i].form, path[i].at).form = path[i + 1].form
    /\ control \in {"enter", "return"} /\ path # <<>> => Waits(Top)
    /\ \A i, j \in DOMAIN path : path[i].form = path[j].form => i = j

(* A frame is of a form that may be analyzed, and got past no refusal.      *)
IsClear(frame) ==
    /\ forms[frame.form].gate = "None"
    /\ \A m \in OpsOfKind(frame.form, "Refuse") : frame.at <= m

BodyInv == \A i \in DOMAIN path : IsClear(path[i])

(* What is computed reaches deep enough to be worth it: a frame at the i-th *)
(* level leaves MaxNestedFormDepth - (i - 1) edges, and recomputes a cached *)
(* form for slots the cache does not have.                                  *)
FramesReach ==
    \A i \in DOMAIN path :
        /\ i <= MaxNestedFormDepth + 1
        /\ BudgetsLast => MaxNestedFormDepth + 1 <= path[i].lattice.through + i
        /\ path[i].form \in DOMAIN cache =>
              cache[path[i].form].through + i < MaxNestedFormDepth + 1

AnswerReaches ==
    control = "return" =>
        IF answer.available
        THEN BudgetsLast => MaxNestedFormDepth <= answer.entry.through + Len(path)
        ELSE ~WithinHorizon /\ Callee \notin DOMAIN cache

HorizonInv == FramesReach /\ AnswerReaches

----------------------------------------------------------------------------
(* A form on a cycle is never proven, at any depth.                         *)
NeverKnown(f) == \A d \in Depths : ~Effect[d][f].known

(* Cache c knows that, and what, f consumes with d invocations left.        *)
CacheKnows(c, f, d) == f \in DOMAIN c /\ d <= c[f].through /\ c[f].slots[d].known

(* Nothing will change whether it does.                                     *)
Settled(c, f, d) == (f \in DOMAIN c /\ d <= c[f].through) \/ NeverKnown(f)

(* What is known is true, and while the budgets last so is what is not.     *)
KnownTrue(f, entry) ==
    \A d \in 0 .. entry.through : entry.slots[d].known => entry.slots[d] = Effect[d][f]
UnknownTrue(f, entry) ==
    \A d \in 0 .. entry.through : ~entry.slots[d].known => ~Effect[d][f].known

EntryTrue(f, entry, last) == KnownTrue(f, entry) /\ (last => UnknownTrue(f, entry))

(* Whether a slot is known follows from what the cache knows of the forms   *)
(* the body invokes before at.                                              *)
KnownByCache(c, f, at, lattice) ==
    \A d \in 0 .. lattice.through :
        /\ \A m \in Invoked(f) : m < at /\ d > 0 => Settled(c, Step(f, m).form, d - 1)
        /\ lattice.slots[d].known <=>
              \A m \in Invoked(f) : m < at => d > 0 /\ CacheKnows(c, Step(f, m).form, d - 1)

LanesTrue(f, at, lattice) ==
    \A d \in 0 .. lattice.through :
        lattice.slots[d].known => lattice.slots[d].lanes = ConsumedBefore(Effect[d - 1], f, at)

(* A partial entry is of a form that was walked to its end.                 *)
IsWalked(c, f, entry) ==
    /\ forms[f].gate = "None" /\ OpsOfKind(f, "Refuse") = {}
    /\ KnownByCache(c, f, Len(forms[f].ops) + 1, entry)

EntryOK(c, f, entry, last) ==
    /\ EntryTrue(f, entry, last)
    /\ entry.through < MaxNestedFormDepth => IsWalked(c, f, entry)

CacheOK(c, last) == \A f \in DOMAIN c : EntryOK(c, f, c[f], last)

FrameOK(c, frame) ==
    /\ KnownByCache(c, frame.form, frame.at, frame.lattice)
    /\ LanesTrue(frame.form, frame.at, frame.lattice)
    /\ \/ frame.form \notin DOMAIN c \/ NeverKnown(frame.form)
       \/ c[frame.form].through <= frame.lattice.through

AnswerOK(c, f, entry, last) ==
    /\ NeverKnown(f) \/ (f \in DOMAIN c /\ entry = c[f])
    /\ EntryTrue(f, entry, last)
    /\ \A d \in 0 .. entry.through :
          Settled(c, f, d) /\ (entry.slots[d].known <=> CacheKnows(c, f, d))

CacheInv == CacheOK(cache, BudgetsLast)
PathInv == \A i \in DOMAIN path : FrameOK(cache, path[i])
AnswerInv ==
    control = "return" /\ answer.available => AnswerOK(cache, Callee, answer.entry, BudgetsLast)

----------------------------------------------------------------------------
(* Slots and lattices.                                                      *)
LEMMA SlotFacts ==
    /\ Unknown.known = FALSE
    /\ \A lanes : Proven(lanes).known = TRUE /\ Proven(lanes).lanes = lanes
    /\ IsSlot(Unknown) /\ \A lanes : IsSlot(Proven(lanes))
    /\ \A slot : IsSlot(slot) /\ ~slot.known => slot = Unknown
    /\ \A slot : IsSlot(slot) /\ slot.known => slot = Proven(slot.lanes)
    /\ \A slot : IsSlot(slot) => slot.known \in BOOLEAN
<1>1. Unknown.known = FALSE
  BY DEF Unknown
<1>2. \A lanes : Proven(lanes).known = TRUE /\ Proven(lanes).lanes = lanes
  BY DEF Proven
<1>3. \A slot : IsSlot(slot) => slot.known \in BOOLEAN
  <2> SUFFICES ASSUME NEW slot, IsSlot(slot) PROVE slot.known \in BOOLEAN
    OBVIOUS
  <2>1. slot = Unknown \/ slot = Proven(slot.lanes)
    BY DEF IsSlot
  <2> QED
    BY <1>1, <1>2, <2>1
<1> QED
  BY <1>1, <1>2, <1>3 DEF IsSlot

(* The lattice of a refusal.                                                *)
LEMMA AllUnknownIs ==
    ASSUME NEW class
    PROVE  /\ IsLattice(AllUnknown(class))
           /\ AllUnknown(class).through = MaxNestedFormDepth
           /\ AllUnknown(class).class = class
           /\ \A d \in Depths : AllUnknown(class).slots[d] = Unknown
<1>1. AllUnknown(class) = [slots |-> [d \in Depths |-> Unknown],
                           through |-> MaxNestedFormDepth, class |-> class]
  BY DEF AllUnknown, Lattice
<1>2. MaxNestedFormDepth \in Depths
  BY DepthAssumption DEF Depths
<1> QED
  BY <1>1, <1>2, SlotFacts DEF IsLattice

(* The lattice a walk starts with.                                          *)
LEMMA NeutralIs ==
    /\ IsLattice(Neutral)
    /\ Neutral.through = MaxNestedFormDepth
    /\ \A d \in Depths : Neutral.slots[d] = Proven({})
<1>1. Neutral = [slots |-> [d \in Depths |-> Proven({})],
                 through |-> MaxNestedFormDepth, class |-> "None"]
  BY DEF Neutral, Lattice
<1>2. MaxNestedFormDepth \in Depths /\ \A d \in Depths : ~(d > MaxNestedFormDepth)
  BY DepthAssumption DEF Depths
<1> QED
  BY <1>1, <1>2, SlotFacts DEF IsLattice

(* A new class changes nothing else.                                        *)
LEMMA ReclassedIs ==
    ASSUME NEW lattice, IsLattice(lattice), NEW class
    PROVE  LET m == [lattice EXCEPT !.class = class]
           IN  /\ IsLattice(m)
               /\ m.slots = lattice.slots
               /\ m.through = lattice.through
               /\ m.class = class
  BY DEF IsLattice

(* A paint adds its lanes to every slot still known, and keeps the depth.   *)
LEMMA MarkConsumedIs ==
    ASSUME NEW lattice, IsLattice(lattice), NEW lanes
    PROVE  LET m == MarkConsumed(lattice, lanes)
           IN  /\ IsLattice(m)
               /\ m.through = lattice.through
               /\ \A d \in Depths :
                     m.slots[d] = IF lattice.slots[d].known
                                  THEN Proven(lattice.slots[d].lanes \union lanes) ELSE Unknown
<1> DEFINE m == MarkConsumed(lattice, lanes)
<1>1. DOMAIN lattice = {"slots", "through", "class"} /\ lattice.through \in Depths
  BY DEF IsLattice
<1>2. /\ DOMAIN m = {"slots", "through", "class"} /\ m.through = lattice.through
      /\ m.slots = [d \in Depths |->
                       IF lattice.slots[d].known
                       THEN Proven(lattice.slots[d].lanes \union lanes) ELSE Unknown]
  BY <1>1 DEF MarkConsumed
<1> HIDE DEF m
<1>3. \A d \in Depths : m.slots[d] = IF lattice.slots[d].known
                                     THEN Proven(lattice.slots[d].lanes \union lanes) ELSE Unknown
  BY <1>2
<1>4. DOMAIN m.slots = Depths
  BY <1>2
<1>5. \A d \in Depths : IsSlot(m.slots[d])
  BY <1>3, SlotFacts, Zenon
<1>6. IsLattice(m)
  <2>1. \A d \in Depths : d > lattice.through => lattice.slots[d] = Unknown
    BY DEF IsLattice
  <2>2. \A d \in Depths : d > m.through => m.slots[d] = Unknown
    BY <1>2, <1>3, <2>1, SlotFacts
  <2> QED
    BY <1>1, <1>2, <1>4, <1>5, <2>2 DEF IsLattice
<1> QED
  BY <1>2, <1>3, <1>6 DEF m

(* A fold shifts the child's slots by the edge the invocation used, and     *)
(* reaches no deeper than either lattice.                                   *)
LEMMA FoldNestedFormIs ==
    ASSUME NEW lattice, IsLattice(lattice), NEW child, IsLattice(child), NEW live
    PROVE  LET m == FoldNestedForm(lattice, child, live)
           IN  /\ IsLattice(m)
               /\ m.through <= lattice.through /\ m.through <= child.through + 1
               /\ m.through = lattice.through \/ m.through = child.through + 1
               /\ m.slots[0] = Unknown
               /\ \A d \in 1 .. m.through :
                     m.slots[d] = Folded(lattice.slots[d], child.slots[d - 1], live)
<1> DEFINE m == FoldNestedForm(lattice, child, live)
           reach == Least(MaxNestedFormDepth, child.through + 1)
<1>1. /\ DOMAIN lattice = {"slots", "through", "class"} /\ DOMAIN lattice.slots = Depths
      /\ lattice.through \in Depths /\ child.through \in Depths
  BY DEF IsLattice
<1>2. /\ DOMAIN m = {"slots", "through", "class"}
      /\ m.through = Least(lattice.through, reach)
      /\ m.slots = [d \in Depths |->
                       IF d \in 1 .. reach
                       THEN Folded(lattice.slots[d], child.slots[d - 1], live) ELSE Unknown]
  BY <1>1 DEF FoldNestedForm
<1>3. /\ lattice.through \in Nat /\ child.through \in Nat /\ MaxNestedFormDepth \in Nat
      /\ lattice.through <= MaxNestedFormDepth
  BY <1>1, DepthAssumption DEF Depths
<1>4. reach \in Nat /\ reach <= MaxNestedFormDepth /\ reach <= child.through + 1
      /\ (reach = MaxNestedFormDepth \/ reach = child.through + 1)
  BY <1>3 DEF Least
<1> HIDE DEF m, reach
<1>5. /\ m.through \in Nat /\ m.through <= lattice.through /\ m.through <= reach
      /\ (m.through = lattice.through \/ m.through = reach)
  BY <1>2, <1>3, <1>4 DEF Least
<1>6. m.through = lattice.through \/ m.through = child.through + 1
  BY <1>3, <1>4, <1>5
<1>7. \A d \in Depths : m.slots[d] = IF d \in 1 .. reach
                                     THEN Folded(lattice.slots[d], child.slots[d - 1], live)
                                     ELSE Unknown
  BY <1>2
<1>8. 0 \in Depths /\ \A d \in 1 .. m.through : d \in Depths /\ d \in 1 .. reach
  BY <1>3, <1>4, <1>5 DEF Depths
<1>9. m.slots[0] = Unknown
  BY <1>7, <1>8
<1>10. \A d \in Depths : IsSlot(m.slots[d])
  <2>1. \A a, b : IsSlot(Folded(a, b, live))
    BY SlotFacts DEF Folded
  <2> QED
    BY <1>7, <2>1, SlotFacts
<1>11. IsLattice(m)
  <2>1. m.through \in Depths
    BY <1>3, <1>5 DEF Depths
  <2>2. ASSUME NEW d \in Depths, d > m.through PROVE m.slots[d] = Unknown
    <3>1. CASE d \in 1 .. reach
      <4>1. d > lattice.through
        BY <1>3, <1>4, <1>5, <2>2, <3>1
      <4>2. lattice.slots[d] = Unknown
        BY <2>2, <4>1 DEF IsLattice
      <4>3. \A b : Folded(Unknown, b, live) = Unknown
        BY SlotFacts DEF Folded
      <4> QED
        BY <1>7, <2>2, <3>1, <4>2, <4>3
    <3>2. CASE d \notin 1 .. reach
      BY <1>7, <2>2, <3>2
    <3> QED
      BY <3>1, <3>2
  <2>3. DOMAIN m = {"slots", "through", "class"} /\ DOMAIN m.slots = Depths
    BY <1>2
  <2> QED
    BY <1>10, <2>1, <2>2, <2>3 DEF IsLattice
<1> QED
  BY <1>3, <1>4, <1>5, <1>6, <1>7, <1>8, <1>9, <1>11 DEF m

(* The lattice of a frame whose child was cut at the horizon.               *)
LEMMA RefuseNestedDescentIs ==
    ASSUME NEW lattice, IsLattice(lattice)
    PROVE  LET m == RefuseNestedDescent(lattice)
           IN  /\ IsLattice(m)
               /\ m.through = 0
               /\ m.slots[0] = Unknown
<1> DEFINE m == RefuseNestedDescent(lattice)
<1>1. /\ DOMAIN m = {"slots", "through", "class"} /\ m.through = 0
      /\ m.slots = [d \in Depths |-> Unknown]
  BY DEF RefuseNestedDescent, IsLattice
<1>2. 0 \in Depths
  BY DepthAssumption DEF Depths
<1> HIDE DEF m
<1>3. IsLattice(m)
  BY <1>1, <1>2, SlotFacts DEF IsLattice
<1> QED
  BY <1>1, <1>2, <1>3 DEF m

----------------------------------------------------------------------------
(* Pushing on, popping from and changing the top of a sequence.             *)
IsStack(s) == s \in Seq({s[i] : i \in DOMAIN s})

(* A sequence over any set is a stack.                                      *)
LEMMA StackOf ==
    ASSUME NEW S, NEW t \in Seq(S)
    PROVE  IsStack(t)
<1>1. \A i \in DOMAIN t : t[i] \in {t[j] : j \in DOMAIN t}
  OBVIOUS
<1> QED
  BY <1>1 DEF IsStack

(* The elements of a sequence to which one is appended.                     *)
LEMMA Pushed ==
    ASSUME NEW s, IsStack(s), NEW e
    PROVE  LET t == Append(s, e)
           IN  /\ IsStack(t)
               /\ Len(t) = Len(s) + 1 /\ DOMAIN t = 1 .. Len(s) + 1
               /\ t[Len(s) + 1] = e
               /\ \A i \in 1 .. Len(s) : t[i] = s[i]
<1> DEFINE S == {s[i] : i \in DOMAIN s} \union {e}
           t == Append(s, e)
<1>1. t \in Seq(S) /\ Len(s) \in Nat
  BY DEF IsStack
<1>2. /\ Len(t) = Len(s) + 1 /\ DOMAIN t = 1 .. Len(s) + 1
      /\ t[Len(s) + 1] = e
      /\ \A i \in 1 .. Len(s) : t[i] = s[i]
  BY DEF IsStack
<1>3. IsStack(t)
  BY <1>1, StackOf
<1> QED
  BY <1>2, <1>3

(* The elements of a sequence without its last.                             *)
LEMMA Popped ==
    ASSUME NEW s, IsStack(s), s # <<>>
    PROVE  /\ IsStack(Front(s))
           /\ Len(Front(s)) = Len(s) - 1 /\ DOMAIN Front(s) = 1 .. Len(s) - 1
           /\ Len(s) \in Nat \ {0}
           /\ \A i \in 1 .. Len(s) - 1 : Front(s)[i] = s[i]
<1> DEFINE S == {s[i] : i \in DOMAIN s}
           t == Front(s)
<1>1. s \in Seq(S) /\ Len(s) \in Nat \ {0} /\ DOMAIN s = 1 .. Len(s)
  BY DEF IsStack
<1>2. t = [i \in 1 .. Len(s) - 1 |-> s[i]]
  BY <1>1 DEF Front, SubSeq
<1>3. t \in Seq(S) /\ Len(t) = Len(s) - 1 /\ DOMAIN t = 1 .. Len(s) - 1
  BY <1>1, <1>2
<1>4. IsStack(t)
  BY <1>3, StackOf
<1> HIDE DEF t
<1> QED
  BY <1>1, <1>2, <1>3, <1>4 DEF t

(* The elements of a sequence whose last is replaced.                       *)
LEMMA TopReplaced ==
    ASSUME NEW s, IsStack(s), s # <<>>, NEW e
    PROVE  LET t == Append(Front(s), e)
           IN  /\ IsStack(t) /\ t # <<>>
               /\ Len(t) = Len(s) /\ DOMAIN t = 1 .. Len(s) /\ Len(s) \in Nat \ {0}
               /\ t[Len(s)] = e
               /\ \A i \in 1 .. Len(s) - 1 : t[i] = s[i]
<1> DEFINE r == Front(s)
           t == Append(r, e)
<1>1. /\ IsStack(r)
      /\ Len(r) = Len(s) - 1 /\ DOMAIN r = 1 .. Len(s) - 1
      /\ Len(s) \in Nat \ {0}
      /\ \A i \in 1 .. Len(s) - 1 : r[i] = s[i]
  BY Popped
<1> HIDE DEF r
<1>2. /\ IsStack(t)
      /\ Len(t) = Len(r) + 1 /\ DOMAIN t = 1 .. Len(r) + 1
      /\ t[Len(r) + 1] = e
      /\ \A i \in 1 .. Len(r) : t[i] = r[i]
  BY <1>1, Pushed
<1>3. Len(r) + 1 = Len(s)
  BY <1>1
<1>4. t # <<>>
  BY <1>1, <1>2, <1>3
<1> QED
  BY <1>1, <1>2, <1>3, <1>4 DEF r

----------------------------------------------------------------------------
(* The shape of the analyzer and of its call stack.                         *)
ShapeInv == FormTypeOK /\ StackInv

(* What the assumption on the documents says of a form's body.              *)
LEMMA BodyFacts ==
    ASSUME FormTypeOK, NEW f \in Forms
    PROVE  /\ Len(forms[f].ops) \in Nat /\ DOMAIN forms[f].ops = 1 .. Len(forms[f].ops)
           /\ forms[f].size \in Nat
           /\ \A n \in DOMAIN forms[f].ops : IsOperator(Step(f, n), Forms)
           /\ \A n \in DOMAIN forms[f].ops : Step(f, n).kind = "Do" => Step(f, n).form \in Forms
<1>1. IsBody(forms[f], DOMAIN forms)
  BY DocumentsAssumption DEF FormTypeOK, Forms
<1>2. /\ Len(forms[f].ops) \in Nat /\ DOMAIN forms[f].ops = 1 .. Len(forms[f].ops)
      /\ forms[f].size \in Nat
      /\ \A n \in DOMAIN forms[f].ops : IsOperator(Step(f, n), Forms)
  BY <1>1 DEF IsBody, Step, Forms
<1> QED
  BY <1>2 DEF IsOperator

(* The operators that invoke are operators, and invoke forms.               *)
LEMMA InvokedFacts ==
    ASSUME FormTypeOK, NEW f \in Forms, NEW m \in Invoked(f)
    PROVE  m \in 1 .. Len(forms[f].ops) /\ m \in Nat /\ Step(f, m).form \in Forms
  BY BodyFacts DEF Invoked, OpsOfKind

(* The top frame is a frame of a form.                                      *)
LEMMA TopFacts ==
    ASSUME FormTypeOK, path # <<>>
    PROVE  /\ IsStack(path)
           /\ Len(path) \in Nat \ {0} /\ Len(path) \in DOMAIN path /\ DOMAIN path = 1 .. Len(path)
           /\ Top = path[Len(path)]
           /\ IsFrame(Top)
           /\ Top.form \in Forms /\ Top.at \in Nat \ {0}
           /\ CurrentOp = Step(Top.form, Top.at)
<1>1. IsStack(path)
  BY DEF FormTypeOK, IsStack
<1>2. Len(path) \in Nat \ {0} /\ Len(path) \in DOMAIN path /\ DOMAIN path = 1 .. Len(path)
  BY <1>1 DEF IsStack
<1>3. Top = path[Len(path)]
  BY DEF Top, Last
<1>4. IsFrame(Top)
  BY <1>2, <1>3 DEF FormTypeOK
<1>5. CurrentOp = Step(Top.form, Top.at)
  BY DEF CurrentOp, Step
<1>6. Top.form \in Forms /\ Top.at \in Nat \ {0}
  BY <1>4, BodyFacts DEF IsFrame
<1> QED
  BY <1>1, <1>2, <1>3, <1>4, <1>5, <1>6

(* The form being entered or returned is the one the top frame waits for.   *)
LEMMA CalleeFacts ==
    ASSUME ShapeInv, control \in {"enter", "return"}
    PROVE  /\ Callee \in Forms
           /\ path # <<>> => /\ Callee = Step(Top.form, Top.at).form
                             /\ Top.at \in Invoked(Top.form)
                             /\ Top.at \in DOMAIN forms[Top.form].ops
<1>1. CASE path = <<>>
  BY <1>1 DEF Callee, ShapeInv, FormTypeOK
<1>2. CASE path # <<>>
  <2>1. Waits(Top)
    BY <1>2 DEF ShapeInv, StackInv
  <2> QED
    BY <1>2, <2>1, TopFacts, BodyFacts DEF Callee, Waits, Invoked, OpsOfKind, ShapeInv
<1> QED
  BY <1>1, <1>2

(* Advancing the top frame over the operator it is at.                      *)
LEMMA AdvancedShape ==
    ASSUME ShapeInv, path # <<>>, Top.at \in DOMAIN forms[Top.form].ops,
           NEW lattice, IsLattice(lattice), Advance(lattice), UNCHANGED forms
    PROVE  /\ IsStack(path') /\ path' # <<>>
           /\ Len(path') = Len(path) /\ DOMAIN path' = DOMAIN path
           /\ \A i \in 1 .. Len(path) - 1 : path'[i] = path[i]
           /\ Top' = path'[Len(path)]
           /\ Top'.form = Top.form /\ Top'.at = Top.at + 1 /\ Top'.lattice = lattice
           /\ \A i \in DOMAIN path : path'[i].form = path[i].form
           /\ \A i \in DOMAIN path' : IsFrame(path'[i])
<1> DEFINE frame == [Top EXCEPT !.at = @ + 1, !.lattice = lattice]
<1>1. /\ IsStack(path) /\ Len(path) \in Nat \ {0} /\ DOMAIN path = 1 .. Len(path)
      /\ Top = path[Len(path)] /\ IsFrame(Top) /\ Top.form \in Forms
  BY TopFacts DEF ShapeInv
<1>2. path' = Append(Front(path), frame)
  BY DEF Advance
<1>3. /\ DOMAIN frame = {"form", "at", "lattice"}
      /\ frame.form = Top.form /\ frame.at = Top.at + 1 /\ frame.lattice = lattice
  BY <1>1 DEF IsFrame
<1> HIDE DEF frame
<1>4. /\ IsStack(path') /\ path' # <<>>
      /\ Len(path') = Len(path) /\ DOMAIN path' = 1 .. Len(path)
      /\ path'[Len(path)] = frame
      /\ \A i \in 1 .. Len(path) - 1 : path'[i] = path[i]
  <2> DEFINE t == Append(Front(path), frame)
  <2>1. /\ IsStack(t) /\ t # <<>>
        /\ Len(t) = Len(path) /\ DOMAIN t = 1 .. Len(path)
        /\ t[Len(path)] = frame
        /\ \A i \in 1 .. Len(path) - 1 : t[i] = path[i]
    BY <1>1, TopReplaced
  <2> HIDE DEF t
  <2> QED
    BY <1>2, <2>1 DEF t
<1>5. Top' = frame /\ Top' = path'[Len(path)]
  BY <1>4 DEF Top, Last
<1>6. IsFrame(frame)
  <2>1. Top.at + 1 \in 1 .. Len(forms[Top.form].ops) + 1
    BY <1>1, BodyFacts DEF ShapeInv
  <2> QED
    BY <1>1, <1>3, <2>1 DEF IsFrame
<1>7. \A i \in DOMAIN path : i \in 1 .. Len(path) - 1 \/ i = Len(path)
  BY <1>1
<1>8. \A i \in DOMAIN path : path'[i].form = path[i].form
  BY <1>1, <1>3, <1>4, <1>7
<1>9. \A i \in DOMAIN path' : IsFrame(path'[i])
  <2>1. \A i \in DOMAIN path : IsFrame(path[i])
    BY DEF ShapeInv, FormTypeOK
  <2> QED
    BY <1>1, <1>4, <1>6, <1>7, <2>1
<1>10. DOMAIN path' = DOMAIN path
  BY <1>1, <1>4
<1>11. Top'.form = Top.form /\ Top'.at = Top.at + 1 /\ Top'.lattice = lattice
  BY <1>3, <1>5
<1> QED
  BY <1>4, <1>5, <1>8, <1>9, <1>10, <1>11, Zenon

----------------------------------------------------------------------------
(* What has to be shown of the new values.                                  *)
LEMMA TypeFrom ==
    ASSUME FormTypeOK, forms' = forms, targets' \in Nat, bytes' \in Nat, demanded' \in Forms,
           control' \in {"idle", "enter", "walk", "return"},
           \A f \in DOMAIN cache' : f \in Forms /\ IsLattice(cache'[f]),
           IsStack(path'), \A i \in DOMAIN path' : IsFrame(path'[i]),
           IsLattice(answer'.entry),
           control' = "idle" => path' = <<>>, control' = "walk" => path' # <<>>
    PROVE  FormTypeOK'
<1>1. \A i \in DOMAIN path' : IsFrame(path'[i]) => IsFrame(path[i])'
  BY DEF IsFrame, Forms
<1> QED
  BY <1>1 DEF FormTypeOK, IsStack, Forms

(* What has to be shown of the new stack.                                   *)
LEMMA StackFrom ==
    ASSUME forms' = forms,
           path' # <<>> => path'[1].form = demanded',
           \A i \in 1 .. Len(path') - 1 :
              Waits(path'[i]) /\ Step(path'[i].form, path'[i].at).form = path'[i + 1].form,
           control' \in {"enter", "return"} /\ path' # <<>> => Waits(Top'),
           \A i, j \in DOMAIN path' : path'[i].form = path'[j].form => i = j
    PROVE  StackInv'
<1>1. /\ \A i \in 1 .. Len(path') - 1 : Waits(path'[i]) => Waits(path[i])'
      /\ Waits(Top') => Waits(Top)'
  BY DEF Waits, Step
<1> QED
  BY <1>1 DEF StackInv, Step

(* The frame at which an answer arrives is the caller of the popped one.    *)
LEMMA PoppedShape ==
    ASSUME ShapeInv, path # <<>>, path' = Front(path), UNCHANGED <<forms, demanded>>
    PROVE  /\ IsStack(path') /\ Len(path') = Len(path) - 1 /\ DOMAIN path' = 1 .. Len(path) - 1
           /\ \A i \in 1 .. Len(path) - 1 : path'[i] = path[i]
           /\ \A i \in DOMAIN path' : IsFrame(path'[i])
           /\ path' = <<>> <=> Len(path) = 1
           /\ path' # <<>> => /\ Len(path) - 1 \in DOMAIN path
                              /\ Top' = path[Len(path) - 1] /\ Waits(Top')
                              /\ Len(path) - 1 \in Nat
           /\ Callee' = Top.form
           /\ StackInv'
<1>1. /\ IsStack(path) /\ Len(path) \in Nat \ {0} /\ DOMAIN path = 1 .. Len(path)
      /\ Top = path[Len(path)]
  BY TopFacts DEF ShapeInv
<1>2. /\ IsStack(path') /\ Len(path') = Len(path) - 1 /\ DOMAIN path' = 1 .. Len(path) - 1
      /\ \A i \in 1 .. Len(path) - 1 : path'[i] = path[i]
  BY <1>1, Popped
<1>3. \A i \in DOMAIN path' : i \in DOMAIN path /\ path'[i] = path[i]
  BY <1>1, <1>2
<1>4. \A i \in DOMAIN path' : IsFrame(path'[i])
  BY <1>3 DEF ShapeInv, FormTypeOK
<1>5. path' = <<>> <=> Len(path) = 1
  BY <1>1, <1>2 DEF IsStack
<1>6. /\ path[1].form = demanded
      /\ \A i \in 1 .. Len(path) - 1 :
            Waits(path[i]) /\ Step(path[i].form, path[i].at).form = path[i + 1].form
      /\ \A i, j \in DOMAIN path : path[i].form = path[j].form => i = j
  BY DEF ShapeInv, StackInv
<1>7. path' # <<>> => /\ Len(path) - 1 \in DOMAIN path /\ Len(path) - 1 \in 1 .. Len(path) - 1
                      /\ Len(path) - 1 \in Nat
                      /\ Top' = path[Len(path) - 1]
  BY <1>1, <1>2, <1>5 DEF Top, Last
<1>8. path' # <<>> => /\ Waits(Top')
                      /\ Step(Top'.form, Top'.at).form = Top.form
  <2>1. (Len(path) - 1) + 1 = Len(path)
    BY <1>1
  <2> QED
    BY <1>1, <1>6, <1>7, <2>1
<1>9. Callee' = Top.form
  <2>1. CASE path' = <<>>
    BY <1>1, <1>5, <1>6, <2>1 DEF Callee
  <2>2. CASE path' # <<>>
    BY <1>8, <2>2 DEF Callee, CurrentOp, Step
  <2> QED
    BY <2>1, <2>2
<1>10. path' # <<>> => path'[1].form = demanded'
  BY <1>1, <1>2, <1>5, <1>6
<1>11. \A i \in 1 .. Len(path') - 1 :
          Waits(path'[i]) /\ Step(path'[i].form, path'[i].at).form = path'[i + 1].form
  <2>1. \A i \in 1 .. Len(path') - 1 :
           i \in 1 .. Len(path) - 1 /\ i + 1 \in 1 .. Len(path) - 1
    BY <1>1, <1>2
  <2> QED
    BY <1>2, <1>6, <2>1
<1>12. \A i, j \in DOMAIN path' : path'[i].form = path'[j].form => i = j
  BY <1>3, <1>6
<1>13. StackInv'
  BY <1>8, <1>10, <1>11, <1>12, StackFrom
<1> QED
  BY <1>2, <1>4, <1>5, <1>7, <1>8, <1>9, <1>13

(* A step that leaves the stack alone leaves the callee alone.              *)
LEMMA SamePathShape ==
    ASSUME ShapeInv, UNCHANGED <<forms, demanded, path>>
    PROVE  /\ IsStack(path') /\ \A i \in DOMAIN path' : IsFrame(path'[i])
           /\ Callee' = Callee
           /\ (control' \in {"enter", "return"} /\ path # <<>> => Waits(Top)) => StackInv'
  BY DEF ShapeInv, FormTypeOK, StackInv, IsStack, Callee, CurrentOp, Top, Waits, Step

(* What publishing an entry sets.                                           *)
LEMMA PublishIs ==
    ASSUME NEW f, NEW entry, Publish(f, entry)
    PROVE  /\ control' = "return" /\ answer'.available = TRUE /\ answer'.entry = entry
           /\ \A g : g \in DOMAIN cache' <=> g \in DOMAIN cache \/ g = f
           /\ cache'[f] = entry
           /\ \A g \in DOMAIN cache : g # f => cache'[g] = cache[g]
  BY DEF Publish, Answer

(* A failure changes the class of a cached entry and nothing else of it.    *)
LEMMA FailedIs ==
    ASSUME FormTypeOK, NEW f, NEW class
    PROVE  /\ IsLattice(Failed(f, class))
           /\ Failed(f, class).class = class
           /\ f \notin DOMAIN cache => Failed(f, class) = AllUnknown(class)
           /\ f \in DOMAIN cache => /\ Failed(f, class).slots = cache[f].slots
                                    /\ Failed(f, class).through = cache[f].through
<1>1. CASE f \notin DOMAIN cache
  BY <1>1, AllUnknownIs DEF Failed
<1>2. CASE f \in DOMAIN cache
  <2>1. IsLattice(cache[f])
    BY <1>2 DEF FormTypeOK
  <2>2. Failed(f, class) = [cache[f] EXCEPT !.class = class]
    BY <1>2 DEF Failed
  <2> QED
    BY <1>2, <2>1, <2>2, ReclassedIs
<1> QED
  BY <1>1, <1>2

(* Publishing a lattice for a form keeps the cache a map from forms to      *)
(* lattices.                                                                *)
LEMMA PublishShape ==
    ASSUME FormTypeOK, NEW f \in Forms, NEW entry, IsLattice(entry), Publish(f, entry)
    PROVE  /\ \A g \in DOMAIN cache' : g \in Forms /\ IsLattice(cache'[g])
           /\ IsLattice(answer'.entry)
<1>1. \A g \in DOMAIN cache : g \in Forms /\ IsLattice(cache[g])
  BY DEF FormTypeOK
<1>2. /\ answer'.entry = entry
      /\ \A g : g \in DOMAIN cache' <=> g \in DOMAIN cache \/ g = f
      /\ cache'[f] = entry
      /\ \A g \in DOMAIN cache : g # f => cache'[g] = cache[g]
  BY PublishIs
<1>3. ASSUME NEW g \in DOMAIN cache' PROVE g \in Forms /\ IsLattice(cache'[g])
  <2>1. CASE g = f
    BY <1>2, <2>1
  <2>2. CASE g # f
    <3>1. g \in DOMAIN cache /\ cache'[g] = cache[g]
      BY <1>2, <1>3, <2>2
    <3> QED
      BY <1>1, <3>1
  <2> QED
    BY <2>1, <2>2
<1>4. IsLattice(answer'.entry)
  BY <1>2
<1> QED
  BY <1>3, <1>4

(* The form being entered becomes the top frame.                            *)
LEMMA PushedShape ==
    ASSUME ShapeInv, control = "enter", Callee \notin Active, UNCHANGED <<forms, demanded>>,
           path' = Append(path, [form |-> Callee, at |-> 1, lattice |-> Neutral]),
           control' = "walk"
    PROVE  /\ IsStack(path') /\ path' # <<>>
           /\ Len(path') = Len(path) + 1 /\ DOMAIN path' = 1 .. Len(path) + 1
           /\ Len(path) \in Nat /\ DOMAIN path = 1 .. Len(path)
           /\ \A i \in 1 .. Len(path) : path'[i] = path[i]
           /\ path'[Len(path) + 1].form = Callee
           /\ path'[Len(path) + 1].at = 1
           /\ path'[Len(path) + 1].lattice = Neutral
           /\ \A i \in DOMAIN path' : IsFrame(path'[i])
           /\ StackInv'
<1> DEFINE frame == [form |-> Callee, at |-> 1, lattice |-> Neutral]
           t == Append(path, frame)
<1>1. IsStack(path) /\ Len(path) \in Nat /\ DOMAIN path = 1 .. Len(path)
  BY DEF ShapeInv, FormTypeOK, IsStack
<1>2. DOMAIN frame = {"form", "at", "lattice"}
      /\ frame.form = Callee /\ frame.at = 1 /\ frame.lattice = Neutral
  OBVIOUS
<1>3. IsFrame(frame)
  <2>1. Callee \in Forms
    BY CalleeFacts
  <2>2. 1 \in 1 .. Len(forms[Callee].ops) + 1
    BY <2>1, BodyFacts DEF ShapeInv
  <2> QED
    BY <1>2, <2>1, <2>2, NeutralIs DEF IsFrame
<1> HIDE DEF frame
<1>4. /\ IsStack(t)
      /\ Len(t) = Len(path) + 1 /\ DOMAIN t = 1 .. Len(path) + 1
      /\ t[Len(path) + 1] = frame
      /\ \A i \in 1 .. Len(path) : t[i] = path[i]
  BY <1>1, Pushed
<1>5. path' = t
  BY DEF frame
<1> HIDE DEF t
<1>6. path' # <<>>
  BY <1>1, <1>4, <1>5
<1>7. \A i \in DOMAIN path' : i \in 1 .. Len(path) \/ i = Len(path) + 1
  BY <1>1, <1>4, <1>5
<1>8. \A i \in DOMAIN path' : IsFrame(path'[i])
  <2>1. \A i \in DOMAIN path : IsFrame(path[i])
    BY DEF ShapeInv, FormTypeOK
  <2> QED
    BY <1>1, <1>3, <1>4, <1>5, <1>7, <2>1
<1>9. StackInv'
  <2>1. /\ path # <<>> => path[1].form = demanded
        /\ \A i \in 1 .. Len(path) - 1 :
              Waits(path[i]) /\ Step(path[i].form, path[i].at).form = path[i + 1].form
        /\ path # <<>> => Waits(Top)
        /\ \A i, j \in DOMAIN path : path[i].form = path[j].form => i = j
    BY DEF ShapeInv, StackInv
  <2>2. path'[1].form = demanded'
    <3>1. CASE path = <<>>
      BY <1>1, <1>2, <1>4, <1>5, <3>1 DEF Callee
    <3>2. CASE path # <<>>
      <4>1. 1 \in 1 .. Len(path)
        BY <3>2, TopFacts DEF ShapeInv
      <4> QED
        BY <1>4, <1>5, <2>1, <3>2, <4>1
    <3> QED
      BY <3>1, <3>2
  <2>3. ASSUME NEW i \in 1 .. Len(path') - 1
        PROVE  Waits(path'[i]) /\ Step(path'[i].form, path'[i].at).form = path'[i + 1].form
    <3>1. i \in 1 .. Len(path) /\ path'[i] = path[i]
      BY <1>1, <1>4, <1>5
    <3>2. CASE i = Len(path)
      <4>1. path # <<>>
        BY <3>1, <3>2
      <4>2. path[i] = Top
        BY <3>2, <4>1, TopFacts DEF ShapeInv
      <4>3. path'[i + 1].form = Step(Top.form, Top.at).form
        BY <1>2, <1>4, <1>5, <3>2, <4>1, CalleeFacts
      <4> QED
        BY <2>1, <3>1, <4>1, <4>2, <4>3
    <3>3. CASE i # Len(path)
      <4>1. i \in 1 .. Len(path) - 1 /\ i + 1 \in 1 .. Len(path)
        BY <1>1, <3>1, <3>3
      <4> QED
        BY <1>4, <1>5, <2>1, <3>1, <4>1
    <3> QED
      BY <3>2, <3>3
  <2>4. ASSUME NEW i \in DOMAIN path', NEW j \in DOMAIN path', path'[i].form = path'[j].form
        PROVE  i = j
    <3>1. \A k \in 1 .. Len(path) : path[k].form # Callee
      BY <1>1 DEF Active
    <3>2. path'[Len(path) + 1].form = Callee
      BY <1>2, <1>4, <1>5
    <3> QED
      BY <1>1, <1>4, <1>5, <1>7, <2>1, <2>4, <3>1, <3>2
  <2> QED
    BY <2>2, <2>3, <2>4, StackFrom
<1> QED
  BY <1>1, <1>2, <1>4, <1>5, <1>6, <1>8, <1>9

----------------------------------------------------------------------------
(* An answer leaves the stack, and what it publishes is a lattice.          *)
LEMMA AnsweredShape ==
    ASSUME ShapeInv, control = "enter", UNCHANGED <<forms, demanded, path>>,
           targets' \in Nat, bytes' \in Nat, control' = "return",
           \A f \in DOMAIN cache' : f \in Forms /\ IsLattice(cache'[f]),
           IsLattice(answer'.entry)
    PROVE  ShapeInv' /\ Callee' = Callee
<1>1. /\ IsStack(path') /\ \A i \in DOMAIN path' : IsFrame(path'[i])
      /\ Callee' = Callee
      /\ (control' \in {"enter", "return"} /\ path # <<>> => Waits(Top)) => StackInv'
  BY SamePathShape
<1>2. path # <<>> => Waits(Top)
  BY DEF ShapeInv, StackInv
<1>3. StackInv'
  BY <1>1, <1>2
<1>4. demanded' \in Forms
  BY DEF ShapeInv, FormTypeOK
<1>5. FormTypeOK'
  BY <1>1, <1>4, TypeFrom DEF ShapeInv
<1> QED
  BY <1>1, <1>3, <1>5 DEF ShapeInv

(* A refusal on entering leaves the stack.                                  *)
LEMMA RefusedShape ==
    ASSUME ShapeInv, control = "enter", NEW class, Publish(Callee, Failed(Callee, class)),
           UNCHANGED <<forms, demanded, path>>, targets' \in Nat, bytes' \in Nat
    PROVE  ShapeInv' /\ Callee' = Callee
<1>1. Callee \in Forms /\ FormTypeOK
  BY CalleeFacts DEF ShapeInv
<1>2. IsLattice(Failed(Callee, class))
  BY <1>1, FailedIs
<1>3. /\ \A g \in DOMAIN cache' : g \in Forms /\ IsLattice(cache'[g])
      /\ IsLattice(answer'.entry)
  BY <1>1, <1>2, PublishShape
<1>4. control' = "return"
  BY DEF Publish, Answer
<1> QED
  BY <1>3, <1>4, AnsweredShape

(* A return pops the stack, and its form is the new callee.                 *)
LEMMA ReturnedShape ==
    ASSUME ShapeInv, control = "walk", NEW entry, IsLattice(entry), Publish(Top.form, entry),
           path' = Front(path), UNCHANGED <<forms, demanded, targets, bytes>>
    PROVE  ShapeInv' /\ Callee' = Top.form
<1>1. path # <<>> /\ FormTypeOK
  BY DEF ShapeInv, FormTypeOK
<1>2. /\ IsStack(path') /\ \A i \in DOMAIN path' : IsFrame(path'[i])
      /\ Callee' = Top.form /\ StackInv'
  BY <1>1, PoppedShape
<1>3. Top.form \in Forms
  BY <1>1, TopFacts
<1>4. /\ \A g \in DOMAIN cache' : g \in Forms /\ IsLattice(cache'[g])
      /\ IsLattice(answer'.entry)
  BY <1>1, <1>3, PublishShape
<1>5. control' = "return" /\ control' # "idle" /\ control' # "walk"
  BY DEF Publish, Answer
<1>6. FormTypeOK'
  BY <1>1, <1>2, <1>4, <1>5, TypeFrom DEF FormTypeOK
<1> QED
  BY <1>2, <1>6 DEF ShapeInv

(* A charge never makes the targets negative.                               *)
LEMMA ChargedTarget ==
    ASSUME FormTypeOK, ChargeTarget
    PROVE  targets' \in Nat
  BY DEF ChargeTarget, FormTypeOK

(* The frame that is walked on.                                             *)
LEMMA WalkedShape ==
    ASSUME ShapeInv, path # <<>>, Top.at \in DOMAIN forms[Top.form].ops,
           NEW lattice, IsLattice(lattice), Advance(lattice),
           UNCHANGED <<Request, analyzer, answer>>, control' = "walk"
    PROVE  ShapeInv'
<1>1. /\ IsStack(path') /\ path' # <<>>
      /\ Len(path') = Len(path) /\ DOMAIN path' = DOMAIN path
      /\ \A i \in 1 .. Len(path) - 1 : path'[i] = path[i]
      /\ \A i \in DOMAIN path : path'[i].form = path[i].form
      /\ \A i \in DOMAIN path' : IsFrame(path'[i])
  BY AdvancedShape DEF Request
<1>2. Len(path) \in Nat \ {0} /\ DOMAIN path = 1 .. Len(path)
  BY TopFacts DEF ShapeInv
<1>3. FormTypeOK'
  BY <1>1, TypeFrom DEF ShapeInv, FormTypeOK, Request, analyzer
<1>4. StackInv'
  <2>1. /\ path[1].form = demanded
        /\ \A i \in 1 .. Len(path) - 1 :
              Waits(path[i]) /\ Step(path[i].form, path[i].at).form = path[i + 1].form
        /\ \A i, j \in DOMAIN path : path[i].form = path[j].form => i = j
    BY DEF ShapeInv, StackInv
  <2>2. path'[1].form = demanded'
    BY <1>1, <1>2, <2>1 DEF Request
  <2>3. ASSUME NEW i \in 1 .. Len(path') - 1
        PROVE  Waits(path'[i]) /\ Step(path'[i].form, path'[i].at).form = path'[i + 1].form
    <3>1. i \in 1 .. Len(path) - 1 /\ i + 1 \in DOMAIN path
      BY <1>1, <1>2
    <3> QED
      BY <1>1, <2>1, <3>1
  <2>4. \A i, j \in DOMAIN path' : path'[i].form = path'[j].form => i = j
    BY <1>1, <2>1
  <2>5. control' \notin {"enter", "return"} /\ forms' = forms
    BY DEF Request
  <2> QED
    BY <2>2, <2>3, <2>4, <2>5, StackFrom
<1> QED
  BY <1>3, <1>4 DEF ShapeInv

(* What a fold leaves in the caller's frame.                                *)
FoldedLattice ==
    LET folded == IF answer.available
                  THEN FoldNestedForm(Top.lattice, answer.entry, CurrentOp.live)
                  ELSE RefuseNestedDescent(Top.lattice)
    IN  [folded EXCEPT !.class = IF @ = "None" THEN Damage(folded) ELSE @]

(* Its slots and its depth, with and without a child.                       *)
LEMMA FoldedLatticeIs ==
    ASSUME ShapeInv, control = "return", path # <<>>
    PROVE  /\ IsLattice(FoldedLattice)
           /\ FoldedLattice.slots[0] = Unknown
           /\ answer.available =>
                 /\ FoldedLattice.through <= Top.lattice.through
                 /\ FoldedLattice.through <= answer.entry.through + 1
                 /\ \/ FoldedLattice.through = Top.lattice.through
                    \/ FoldedLattice.through = answer.entry.through + 1
                 /\ \A d \in 1 .. FoldedLattice.through :
                       FoldedLattice.slots[d] =
                          Folded(Top.lattice.slots[d], answer.entry.slots[d - 1], CurrentOp.live)
           /\ ~answer.available => FoldedLattice.through = 0
<1>1. IsLattice(Top.lattice) /\ IsLattice(answer.entry)
  BY TopFacts DEF ShapeInv, FormTypeOK, IsFrame
<1> DEFINE folded == IF answer.available
                     THEN FoldNestedForm(Top.lattice, answer.entry, CurrentOp.live)
                     ELSE RefuseNestedDescent(Top.lattice)
           class == IF folded.class = "None" THEN Damage(folded) ELSE folded.class
           m == [folded EXCEPT !.class = class]
<1>2. /\ IsLattice(folded)
      /\ folded.slots[0] = Unknown
      /\ answer.available =>
            /\ folded.through <= Top.lattice.through
            /\ folded.through <= answer.entry.through + 1
            /\ \/ folded.through = Top.lattice.through
               \/ folded.through = answer.entry.through + 1
            /\ \A d \in 1 .. folded.through :
                  folded.slots[d] =
                     Folded(Top.lattice.slots[d], answer.entry.slots[d - 1], CurrentOp.live)
      /\ ~answer.available => folded.through = 0
  <2>1. CASE answer.available
    <3>1. folded = FoldNestedForm(Top.lattice, answer.entry, CurrentOp.live)
      BY <2>1
    <3> HIDE DEF folded
    <3> QED
      BY <1>1, <2>1, <3>1, FoldNestedFormIs
  <2>2. CASE ~answer.available
    <3>1. folded = RefuseNestedDescent(Top.lattice)
      BY <2>2
    <3> HIDE DEF folded
    <3> QED
      BY <1>1, <2>2, <3>1, RefuseNestedDescentIs
  <2> QED
    BY <2>1, <2>2
<1>3. FoldedLattice = [folded EXCEPT !.class = IF @ = "None" THEN Damage(folded) ELSE @]
  BY DEF FoldedLattice
<1> HIDE DEF folded
<1>4. FoldedLattice = m
  BY <1>3
<1> HIDE DEF class
<1>5. IsLattice(m) /\ m.slots = folded.slots /\ m.through = folded.through
  BY <1>2, ReclassedIs
<1> HIDE DEF m
<1> QED
  BY <1>2, <1>4, <1>5

(* A paint or an invocation is over an operator of the body.                *)
LEMMA WalkingFacts ==
    ASSUME ShapeInv, NEW kind, Walking(kind)
    PROVE  /\ path # <<>> /\ Top.at \in DOMAIN forms[Top.form].ops
           /\ Step(Top.form, Top.at).kind = kind
           /\ CurrentOp = Step(Top.form, Top.at)
<1>1. path # <<>>
  BY DEF Walking, ShapeInv, FormTypeOK
<1>2. /\ IsFrame(Top) /\ Top.form \in Forms /\ Top.at \in Nat \ {0}
      /\ CurrentOp = Step(Top.form, Top.at)
  BY <1>1, TopFacts DEF ShapeInv
<1>3. /\ Len(forms[Top.form].ops) \in Nat
      /\ DOMAIN forms[Top.form].ops = 1 .. Len(forms[Top.form].ops)
  BY <1>2, BodyFacts DEF ShapeInv
<1>4. Top.at <= Len(forms[Top.form].ops)
  BY <1>2, <1>3 DEF Walking, AtEnd
<1> QED
  BY <1>1, <1>2, <1>3, <1>4 DEF Walking

(* A fold advances the frame with that lattice.                             *)
LEMMA FoldAdvances ==
    ASSUME Fold
    PROVE  Advance(FoldedLattice) /\ path # <<>> /\ control = "return"
  BY DEF Fold, FoldedLattice

(* The class a returned lattice is published with changes nothing else.     *)
ClosedLattice ==
    [Top.lattice EXCEPT !.class = IF MaxDepthEffect(Top.lattice).known THEN "None" ELSE @]

(* That is so: only the class differs.                                      *)
LEMMA ClosedLatticeIs ==
    ASSUME ShapeInv, control = "walk"
    PROVE  /\ IsLattice(ClosedLattice)
           /\ ClosedLattice.slots = Top.lattice.slots
           /\ ClosedLattice.through = Top.lattice.through
<1>1. IsLattice(Top.lattice)
  BY TopFacts DEF ShapeInv, FormTypeOK, IsFrame
<1> DEFINE class == IF MaxDepthEffect(Top.lattice).known THEN "None" ELSE Top.lattice.class
<1>2. ClosedLattice = [Top.lattice EXCEPT !.class = class]
  BY DEF ClosedLattice
<1> HIDE DEF class
<1> QED
  BY <1>1, <1>2, ReclassedIs

(* A frame walked to its end publishes that lattice.                        *)
LEMMA CloseFramePublishes ==
    ASSUME CloseFrame
    PROVE  Publish(Top.form, ClosedLattice) /\ control = "walk" /\ AtEnd /\ path' = Front(path)
           /\ UNCHANGED <<Request, targets, bytes>>
  BY DEF CloseFrame, ClosedLattice
----------------------------------------------------------------------------

(* The analyzer starts idle, with an empty stack and cache.                 *)
LEMMA ShapeInit == Init => ShapeInv
<1> SUFFICES ASSUME Init PROVE ShapeInv
  OBVIOUS
<1>1. path = <<>> /\ DOMAIN path = {} /\ Len(path) = 0 /\ DOMAIN cache = {}
  BY DEF Init
<1>2. targets \in Nat /\ bytes \in Nat
  BY DocumentsAssumption DEF Init
<1>3. IsLattice(answer.entry)
  BY AllUnknownIs DEF Init
<1>4. path \in Seq({path[i] : i \in DOMAIN path})
  BY <1>1
<1>5. FormTypeOK
  BY <1>1, <1>2, <1>3, <1>4 DEF Init, FormTypeOK
<1>6. StackInv
  BY <1>1 DEF StackInv
<1> QED
  BY <1>5, <1>6 DEF ShapeInv

(* A step that changes none of this keeps the shape.                        *)
LEMMA IdleShape ==
    ASSUME ShapeInv, UNCHANGED <<forms, demanded, path, cache, targets, bytes, control, answer>>
    PROVE  ShapeInv'
<1>0. FormTypeOK /\ StackInv
  BY DEF ShapeInv
<1>1. control \in {"enter", "return"} /\ path # <<>> => Waits(Top)
  BY <1>0 DEF StackInv
<1>2. IsStack(path') /\ (\A i \in DOMAIN path' : IsFrame(path'[i])) /\ StackInv'
  BY <1>1, SamePathShape
<1>3. FormTypeOK'
  BY <1>0, <1>2, TypeFrom DEF FormTypeOK
<1> QED
  BY <1>2, <1>3 DEF ShapeInv

(* Every action keeps the shape.                                            *)
LEMMA ShapeNext == ShapeInv /\ [Next]_vars => ShapeInv'
<1> SUFFICES ASSUME ShapeInv, [Next]_vars PROVE ShapeInv'
  OBVIOUS
<1>0. FormTypeOK /\ StackInv
  BY DEF ShapeInv
<1>1. CASE Demand
  <2>1. path = <<>> /\ demanded' \in Forms
    BY <1>0, <1>1 DEF Demand, FormTypeOK
  <2>2. path' = <<>> /\ DOMAIN path' = {} /\ Len(path') = 0
    BY <1>1, <2>1 DEF Demand
  <2>3. StackInv'
    BY <2>2 DEF StackInv
  <2>4. FormTypeOK'
    BY <1>0, <1>1, <2>1, <2>2, TypeFrom DEF Demand, FormTypeOK, analyzer, page, IsStack
  <2> QED
    BY <2>3, <2>4 DEF ShapeInv
<1>2. CASE BeginPage
  <2>1. UNCHANGED <<forms, demanded, path, cache, targets, bytes, control, answer>>
    BY <1>2 DEF BeginPage, analyzer
  <2> QED
    BY <2>1, IdleShape
<1>3. CASE ReenterCycle
  <2>1. IsLattice(AllUnknown("RecursionCycle"))
    BY AllUnknownIs
  <2>2. /\ control = "enter" /\ UNCHANGED <<forms, demanded, path, cache, targets, bytes>>
        /\ control' = "return" /\ answer'.entry = AllUnknown("RecursionCycle")
    BY <1>3 DEF ReenterCycle, Answer, Request, analyzer
  <2> QED
    BY <1>0, <2>1, <2>2, AnsweredShape DEF FormTypeOK
<1>4. CASE ServeCached
  <2>2. /\ control = "enter" /\ UNCHANGED <<forms, demanded, path, cache, targets, bytes>>
        /\ control' = "return" /\ answer'.entry = cache[Callee] /\ Callee \in DOMAIN cache
    BY <1>4 DEF ServeCached, Answer, Request, analyzer, Served
  <2> QED
    BY <1>0, <2>2, AnsweredShape DEF FormTypeOK
<1>5. CASE CutAtHorizon
  <2>1. IsLattice(AllUnknown("RecursionDepth"))
    BY AllUnknownIs
  <2>2. /\ control = "enter" /\ UNCHANGED <<forms, demanded, path, cache, targets, bytes>>
        /\ control' = "return" /\ answer'.entry = AllUnknown("RecursionDepth")
    BY <1>5 DEF CutAtHorizon, Answer, Request, analyzer
  <2> QED
    BY <1>0, <2>1, <2>2, AnsweredShape DEF FormTypeOK
<1>6. CASE RefuseTarget
  BY <1>0, <1>6, RefusedShape DEF RefuseTarget, Computing, Request, FormTypeOK
<1>7. CASE RefuseGate
  BY <1>0, <1>7, RefusedShape, ChargedTarget DEF RefuseGate, Computing, Request, FormTypeOK
<1>8. CASE RefuseBytes
  BY <1>0, <1>8, RefusedShape, ChargedTarget DEF RefuseBytes, Computing, Request, FormTypeOK
<1>9. CASE OpenFrame
  <2>1. /\ IsStack(path') /\ path' # <<>> /\ \A i \in DOMAIN path' : IsFrame(path'[i])
        /\ StackInv'
    BY <1>9, PushedShape DEF OpenFrame, Computing, Request
  <2>2. bytes' \in Nat
    <3>1. Callee \in Forms
      BY <1>9, CalleeFacts DEF OpenFrame, Computing
    <3> QED
      BY <1>0, <1>9, <3>1, BodyFacts DEF OpenFrame, FormTypeOK
  <2>3. /\ targets' \in Nat /\ UNCHANGED <<forms, demanded, cache, answer>> /\ control' = "walk"
    BY <1>0, <1>9, ChargedTarget DEF OpenFrame, Request
  <2>4. FormTypeOK'
    BY <1>0, <2>1, <2>2, <2>3, TypeFrom DEF FormTypeOK
  <2> QED
    BY <2>1, <2>4 DEF ShapeInv
<1>10. CASE Paint
  <2>1. path # <<>> /\ Top.at \in DOMAIN forms[Top.form].ops
    BY <1>10, WalkingFacts DEF Paint
  <2>2. IsLattice(MarkConsumed(Top.lattice, CurrentOp.lanes))
    BY <1>0, <2>1, TopFacts, MarkConsumedIs DEF IsFrame
  <2>3. control' = "walk"
    BY <1>10 DEF Paint, Walking
  <2> QED
    BY <1>10, <2>1, <2>2, <2>3, WalkedShape DEF Paint
<1>11. CASE Invoke
  <2>1. /\ path # <<>> /\ Waits(Top)
    BY <1>11, WalkingFacts DEF Invoke, Waits
  <2>2. /\ UNCHANGED <<forms, demanded, path, cache, targets, bytes, answer>> /\ control' = "enter"
    BY <1>11 DEF Invoke, Request, analyzer
  <2>3. IsStack(path') /\ (\A i \in DOMAIN path' : IsFrame(path'[i])) /\ StackInv'
    BY <2>1, <2>2, SamePathShape
  <2>4. FormTypeOK'
    BY <1>0, <2>1, <2>2, <2>3, TypeFrom DEF FormTypeOK
  <2> QED
    BY <2>3, <2>4 DEF ShapeInv
<1>12. CASE RefuseBody
  <2>1. path # <<>> /\ Top.form \in Forms
    BY <1>0, <1>12, WalkingFacts, TopFacts DEF RefuseBody
  <2>2. IsLattice(Failed(Top.form, CurrentOp.class))
    BY <1>0, <2>1, FailedIs
  <2> QED
    BY <1>12, <2>2, ReturnedShape DEF RefuseBody, Walking, Request
<1>13. CASE CloseFrame
  BY <1>13, CloseFramePublishes, ClosedLatticeIs, ReturnedShape DEF Request
<1>14. CASE Fold
  <2>1. Advance(FoldedLattice) /\ path # <<>> /\ control = "return"
    BY <1>14, FoldAdvances
  <2>2. IsLattice(FoldedLattice)
    BY <2>1, FoldedLatticeIs
  <2>3. Top.at \in DOMAIN forms[Top.form].ops
    BY <2>1, CalleeFacts
  <2> QED
    BY <1>14, <2>1, <2>2, <2>3, WalkedShape DEF Fold
<1>15. CASE Tally
  <2>1. /\ UNCHANGED <<forms, demanded, path, cache, targets, bytes, answer>> /\ control' = "idle"
        /\ path = <<>>
    BY <1>15 DEF Tally, analyzer
  <2>2. IsStack(path') /\ (\A i \in DOMAIN path' : IsFrame(path'[i])) /\ StackInv'
    BY <2>1, SamePathShape
  <2>3. FormTypeOK'
    BY <1>0, <2>1, <2>2, TypeFrom DEF FormTypeOK
  <2> QED
    BY <2>2, <2>3 DEF ShapeInv
<1>16. CASE UNCHANGED vars
  <2>1. UNCHANGED <<forms, demanded, path, cache, targets, bytes, control, answer>>
    BY <1>16 DEF vars, analyzer
  <2> QED
    BY <2>1, IdleShape
<1> QED
  BY <1>1, <1>2, <1>3, <1>4, <1>5, <1>6, <1>7, <1>8, <1>9, <1>10, <1>11, <1>12, <1>13, <1>14,
     <1>15, <1>16 DEF Next

----------------------------------------------------------------------------
(* When a form is proven at a depth, and what with.                         *)
Provable(f, d) ==
    /\ forms[f].gate = "None"
    /\ OpsOfKind(f, "Refuse") = {}
    /\ \A m \in Invoked(f) : d > 0 /\ Effect[d - 1][Step(f, m).form].known

(* The effect of a form at a depth, without the recursion.                  *)
LEMMA EffectFacts ==
    ASSUME NEW f \in Forms, NEW d \in Depths
    PROVE  /\ IsSlot(Effect[d][f])
           /\ Effect[d][f].known <=> Provable(f, d)
           /\ Provable(f, d) => Effect[d][f] = Proven(Consumed(Effect[d - 1], f))
           /\ ~Provable(f, d) => Effect[d][f] = Unknown
<1>1. Effect[d] = Round(Effect, d)
  BY EffectIs
<1>2. Effect[d][f] = IF Provable(f, d) THEN Proven(Consumed(Effect[d - 1], f)) ELSE Unknown
  BY <1>1 DEF Round, Provable
<1> HIDE DEF Consumed
<1> QED
  BY <1>2, SlotFacts

(* A form proven at a depth invokes forms proven one below.                 *)
LEMMA KnownDescends ==
    ASSUME FormTypeOK, NEW f \in Forms, NEW m \in Invoked(f), NEW d \in Depths, Effect[d][f].known
    PROVE  /\ d > 0 /\ d - 1 \in Depths
           /\ Effect[d - 1][Step(f, m).form].known
           /\ ~NeverKnown(Step(f, m).form)
<1>1. Provable(f, d)
  BY EffectFacts
<1>2. d > 0 /\ Effect[d - 1][Step(f, m).form].known
  BY <1>1 DEF Provable
<1>3. d - 1 \in Depths
  BY <1>2, DepthAssumption DEF Depths
<1> QED
  BY <1>2, <1>3 DEF NeverKnown

(* A form that invokes one proven at no depth is proven at none.            *)
LEMMA NeverKnownCaller ==
    ASSUME FormTypeOK, NEW f \in Forms, NEW m \in Invoked(f), NeverKnown(Step(f, m).form)
    PROVE  NeverKnown(f)
  BY KnownDescends DEF NeverKnown

(* The form a frame of the stack waits for.                                 *)
NextForm(i) == IF i = Len(path) THEN Callee ELSE path[i + 1].form

(* Every frame of the stack is at an operator that invokes that form.       *)
LEMMA StackInvokes ==
    ASSUME ShapeInv, control \in {"enter", "return"}, NEW i \in DOMAIN path
    PROVE  /\ path[i].form \in Forms /\ path[i].at \in Invoked(path[i].form)
           /\ NextForm(i) = Step(path[i].form, path[i].at).form
<1>0. path # <<>> /\ FormTypeOK /\ DOMAIN path = 1 .. Len(path) /\ Len(path) \in Nat
  BY DEF ShapeInv, FormTypeOK
<1>1. path[i].form \in Forms
  BY <1>0 DEF FormTypeOK, IsFrame
<1>2. CASE i = Len(path)
  BY <1>0, <1>1, <1>2, CalleeFacts, TopFacts DEF NextForm
<1>3. CASE i # Len(path)
  <2>1. i \in 1 .. Len(path) - 1
    BY <1>0, <1>3
  <2>2. Waits(path[i]) /\ Step(path[i].form, path[i].at).form = path[i + 1].form
    BY <2>1 DEF ShapeInv, StackInv
  <2> QED
    BY <1>1, <1>3, <2>2 DEF NextForm, Waits, Invoked, OpsOfKind
<1> QED
  BY <1>2, <1>3

(* A form met again while it is being computed reaches itself, and is       *)
(* proven at no depth: take the least depth at which a form of the cycle is. *)
LEMMA CycleNeverKnown ==
    ASSUME ShapeInv, control = "enter", Callee \in Active
    PROVE  NeverKnown(Callee)
<1>0. FormTypeOK /\ path \in Seq({path[i] : i \in DOMAIN path})
      /\ DOMAIN path = 1 .. Len(path) /\ Len(path) \in Nat
  BY DEF ShapeInv, FormTypeOK
<1>1. PICK k \in DOMAIN path : path[k].form = Callee
  BY DEF Active
<1> DEFINE T == {d \in Depths : \E i \in k .. Len(path) : Effect[d][path[i].form].known}
<1>2. T = {}
  <2> SUFFICES ASSUME T # {} PROVE FALSE
    OBVIOUS
  <2>1. T \subseteq Nat
    BY DEF Depths
  <2>2. PICK d \in T : \A e \in T : d <= e
    <3> HIDE DEF T
    <3> QED
      BY <2>1, LeastExists
  <2>3. PICK i \in k .. Len(path) : Effect[d][path[i].form].known
    BY <2>2
  <2>4. i \in DOMAIN path /\ d \in Depths
    BY <1>0, <2>2
  <2>5. /\ path[i].form \in Forms /\ path[i].at \in Invoked(path[i].form)
        /\ NextForm(i) = Step(path[i].form, path[i].at).form
    BY <2>4, StackInvokes
  <2>6. d - 1 \in Depths /\ Effect[d - 1][NextForm(i)].known
    BY <1>0, <2>3, <2>4, <2>5, KnownDescends
  <2>7. \E j \in k .. Len(path) : path[j].form = NextForm(i)
    <3>1. CASE i = Len(path)
      BY <1>0, <1>1, <3>1 DEF NextForm
    <3>2. CASE i # Len(path)
      <4>1. NextForm(i) = path[i + 1].form
        BY <3>2 DEF NextForm
      <4>2. i \in Nat /\ k \in Nat /\ Len(path) \in Nat /\ k <= i /\ i <= Len(path)
        BY <1>0
      <4>3. i + 1 \in k .. Len(path)
        BY <3>2, <4>2
      <4> QED
        BY <4>1, <4>3
    <3> QED
      BY <3>1, <3>2
  <2>8. d - 1 \in T
    BY <2>6, <2>7
  <2>9. d \in Nat
    BY <2>1, <2>2
  <2> QED
    <3> HIDE DEF T
    <3> QED
      BY <2>2, <2>8, <2>9
<1>3. k \in k .. Len(path)
  BY <1>0
<1> QED
  BY <1>1, <1>2, <1>3 DEF NeverKnown

(* What is chosen for the documents is the same before and after a step.    *)
LEMMA EffectStays ==
    ASSUME forms' = forms
    PROVE  Effect' = Effect
  BY DEF Effect, OpsOfKind, Step, Forms

----------------------------------------------------------------------------
(* What has to be shown of the new frames for BodyInv.                      *)
LEMMA BodyFrom ==
    ASSUME forms' = forms, \A i \in DOMAIN path' : IsClear(path'[i])
    PROVE  BodyInv'
<1>1. \A i \in DOMAIN path' : IsClear(path'[i]) => IsClear(path[i])'
  BY DEF IsClear, OpsOfKind, Step
<1> QED
  BY <1>1 DEF BodyInv

(* What these operators say of the documents stays, and of the cache is     *)
(* said of the new cache.                                                   *)
LEMMA OperatorsStay ==
    ASSUME forms' = forms
    PROVE  /\ \A f : Invoked(f)' = Invoked(f)
           /\ \A f, m : Step(f, m)' = Step(f, m)
           /\ \A f : NeverKnown(f)' <=> NeverKnown(f)
           /\ \A f, d : Settled(cache, f, d)' <=> Settled(cache', f, d)
           /\ \A f, d : CacheKnows(cache, f, d)' <=> CacheKnows(cache', f, d)
<1>1. \A f : Invoked(f)' = Invoked(f)
  BY DEF Invoked, OpsOfKind, Step
<1>2. \A f : NeverKnown(f)' <=> NeverKnown(f)
  BY EffectStays DEF NeverKnown
<1>3. \A f, d : Settled(cache, f, d)' <=> Settled(cache', f, d)
  BY <1>2 DEF Settled
<1>4. \A f, d : CacheKnows(cache, f, d)' <=> CacheKnows(cache', f, d)
  BY DEF CacheKnows
<1>5. \A f, m : Step(f, m)' = Step(f, m)
  BY DEF Step
<1> QED
  BY <1>1, <1>2, <1>3, <1>4, <1>5

(* What has to be shown of the new cache for CacheInv.                      *)
LEMMA CacheFrom ==
    ASSUME forms' = forms, CacheOK(cache', BudgetsLast')
    PROVE  CacheInv'
<1>1. \A f \in DOMAIN cache' :
         EntryTrue(f, cache'[f], BudgetsLast') => EntryTrue(f, cache[f], BudgetsLast)'
  BY EffectStays DEF EntryTrue, KnownTrue, UnknownTrue
<1>2. \A f \in DOMAIN cache' :
         KnownByCache(cache', f, Len(forms[f].ops) + 1, cache'[f])
            => KnownByCache(cache, f, Len(forms[f].ops) + 1, cache[f])'
  <2> SUFFICES ASSUME NEW f \in DOMAIN cache',
                      KnownByCache(cache', f, Len(forms[f].ops) + 1, cache'[f])
               PROVE  KnownByCache(cache, f, Len(forms[f].ops) + 1, cache[f])'
    OBVIOUS
  <2> QED
    BY OperatorsStay DEF KnownByCache
<1>3. \A f \in DOMAIN cache' : IsWalked(cache', f, cache'[f]) => IsWalked(cache, f, cache[f])'
  BY <1>2 DEF IsWalked, OpsOfKind, Step
<1>4. \A f \in DOMAIN cache' :
         EntryOK(cache', f, cache'[f], BudgetsLast') => EntryOK(cache, f, cache[f], BudgetsLast)'
  BY <1>1, <1>3 DEF EntryOK
<1> QED
  BY <1>4 DEF CacheInv, CacheOK

(* What has to be shown of the new frames for PathInv.                      *)
LEMMA PathFrom ==
    ASSUME forms' = forms, \A i \in DOMAIN path' : FrameOK(cache', path'[i])
    PROVE  PathInv'
<1> SUFFICES ASSUME NEW i \in DOMAIN path' PROVE FrameOK(cache, path[i])'
  BY DEF PathInv
<1>0. FrameOK(cache', path'[i])
  OBVIOUS
<1>1. KnownByCache(cache, path[i].form, path[i].at, path[i].lattice)'
  <2>1. KnownByCache(cache', path'[i].form, path'[i].at, path'[i].lattice)
    BY <1>0 DEF FrameOK
  <2> QED
    BY <2>1, OperatorsStay DEF KnownByCache
<1>2. LanesTrue(path[i].form, path[i].at, path[i].lattice)'
  <2>1. LanesTrue(path'[i].form, path'[i].at, path'[i].lattice)
    BY <1>0 DEF FrameOK
  <2>2. \A d : ConsumedBefore(Effect[d - 1], path[i].form, path[i].at)'
               = ConsumedBefore(Effect[d - 1], path'[i].form, path'[i].at)
    BY EffectStays DEF ConsumedBefore, Invoked, OpsOfKind, Step
  <2> QED
    BY <2>1, <2>2 DEF LanesTrue
<1>3. \/ path'[i].form \notin DOMAIN cache' \/ NeverKnown(path[i].form)'
      \/ cache'[path'[i].form].through <= path'[i].lattice.through
  BY <1>0, EffectStays DEF FrameOK, NeverKnown
<1> QED
  BY <1>1, <1>2, <1>3 DEF FrameOK

(* What has to be shown of the new answer for AnswerInv.                    *)
LEMMA AnswerFrom ==
    ASSUME forms' = forms,
           control' = "return" /\ answer'.available =>
              AnswerOK(cache', Callee', answer'.entry, BudgetsLast')
    PROVE  AnswerInv'
  BY EffectStays DEF AnswerInv, AnswerOK, EntryTrue, KnownTrue, UnknownTrue, Settled, CacheKnows,
     NeverKnown

----------------------------------------------------------------------------
(* Cache c2 is c with the entry of f set.                                   *)
IsUpdate(c, c2, f, entry) ==
    /\ \A g : g \in DOMAIN c2 <=> g \in DOMAIN c \/ g = f
    /\ c2[f] = entry
    /\ \A g \in DOMAIN c : g # f => c2[g] = c[g]

(* The entry takes back nothing that c knows of f, and f is proven at no    *)
(* depth if it takes back a depth.                                          *)
Extends(c, f, entry) ==
    \/ f \notin DOMAIN c
    \/ NeverKnown(f)
    \/ /\ c[f].through <= entry.through
       /\ \A d \in 0 .. c[f].through : entry.slots[d].known <=> c[f].slots[d].known

IsCache(c) == \A f \in DOMAIN c : f \in Forms /\ IsLattice(c[f]) /\ KnownTrue(f, c[f])

(* The depths that a lattice was computed for.                              *)
LEMMA DepthsUpTo ==
    ASSUME NEW lattice, IsLattice(lattice)
    PROVE  /\ lattice.through \in Nat /\ lattice.through <= MaxNestedFormDepth
           /\ \A d \in 0 .. lattice.through : d \in Depths /\ d \in Nat
           /\ \A d \in Depths : d <= lattice.through => d \in 0 .. lattice.through
           /\ \A d \in 0 .. lattice.through : d > 0 => d - 1 \in Depths
           /\ \A d \in Depths : IsSlot(lattice.slots[d])
  BY DepthAssumption DEF IsLattice, Depths

(* A form proven at no depth is known at none.                              *)
LEMMA NeverKnownIs ==
    ASSUME NEW c, IsCache(c), NEW f, NeverKnown(f), NEW d \in Depths
    PROVE  ~CacheKnows(c, f, d)
<1> SUFFICES ASSUME CacheKnows(c, f, d) PROVE FALSE
  OBVIOUS
<1>1. f \in DOMAIN c /\ d <= c[f].through /\ c[f].slots[d].known
  BY DEF CacheKnows
<1>2. IsLattice(c[f]) /\ KnownTrue(f, c[f])
  BY <1>1 DEF IsCache
<1>3. d \in 0 .. c[f].through
  BY <1>1, <1>2, DepthsUpTo
<1>4. c[f].slots[d] = Effect[d][f]
  BY <1>1, <1>2, <1>3 DEF KnownTrue
<1> QED
  BY <1>1, <1>4 DEF NeverKnown

(* What is settled stays settled, and known or not known.                   *)
LEMMA SettledStays ==
    ASSUME NEW c, IsCache(c), NEW c2, IsCache(c2), NEW f, NEW entry,
           IsUpdate(c, c2, f, entry), Extends(c, f, entry),
           NEW g, NEW d \in Depths, Settled(c, g, d)
    PROVE  Settled(c2, g, d) /\ (CacheKnows(c2, g, d) <=> CacheKnows(c, g, d))
<1>1. CASE NeverKnown(g)
  <2>1. ~CacheKnows(c, g, d) /\ ~CacheKnows(c2, g, d)
    BY <1>1, NeverKnownIs
  <2> QED
    BY <1>1, <2>1 DEF Settled
<1>2. CASE ~NeverKnown(g) /\ g # f
  <2>1. g \in DOMAIN c /\ d <= c[g].through
    BY <1>2 DEF Settled
  <2>2. g \in DOMAIN c2 /\ c2[g] = c[g]
    BY <1>2, <2>1 DEF IsUpdate
  <2> QED
    BY <2>1, <2>2 DEF Settled, CacheKnows
<1>3. CASE ~NeverKnown(g) /\ g = f
  <2>1. f \in DOMAIN c /\ d <= c[f].through
    BY <1>3 DEF Settled
  <2>2. f \in DOMAIN c2 /\ c2[f] = entry
    BY DEF IsUpdate
  <2>3. /\ c[f].through <= entry.through
        /\ \A e \in 0 .. c[f].through : entry.slots[e].known <=> c[f].slots[e].known
    BY <1>3, <2>1 DEF Extends
  <2>4. IsLattice(c[f]) /\ IsLattice(entry)
    BY <2>1, <2>2 DEF IsCache
  <2>5. d \in 0 .. c[f].through
    BY <2>1, <2>4, DepthsUpTo
  <2>6. d \in Nat /\ c[f].through \in Nat /\ entry.through \in Nat
    BY <2>4, <2>5, DepthsUpTo
  <2>7. d <= entry.through
    BY <2>1, <2>3, <2>6
  <2>8. entry.slots[d].known <=> c[f].slots[d].known
    BY <2>3, <2>5
  <2> QED
    BY <1>3, <2>1, <2>2, <2>7, <2>8 DEF Settled, CacheKnows
<1> QED
  BY <1>1, <1>2, <1>3

(* What the cache decides of a lattice it still decides after a             *)
(* publication.                                                             *)
LEMMA KnownByCacheStays ==
    ASSUME NEW c, IsCache(c), NEW c2, IsCache(c2), NEW f, NEW entry,
           IsUpdate(c, c2, f, entry), Extends(c, f, entry),
           NEW h, NEW at, NEW lattice, IsLattice(lattice), KnownByCache(c, h, at, lattice)
    PROVE  KnownByCache(c2, h, at, lattice)
<1> SUFFICES ASSUME NEW d \in 0 .. lattice.through
             PROVE  /\ \A m \in Invoked(h) : m < at /\ d > 0 => Settled(c2, Step(h, m).form, d - 1)
                    /\ lattice.slots[d].known <=>
                          \A m \in Invoked(h) :
                             m < at => d > 0 /\ CacheKnows(c2, Step(h, m).form, d - 1)
  BY DEF KnownByCache
<1>1. /\ \A m \in Invoked(h) : m < at /\ d > 0 => Settled(c, Step(h, m).form, d - 1)
      /\ lattice.slots[d].known <=>
            \A m \in Invoked(h) : m < at => d > 0 /\ CacheKnows(c, Step(h, m).form, d - 1)
  BY DEF KnownByCache
<1>2. d > 0 => d - 1 \in Depths
  BY DepthsUpTo
<1>3. \A m \in Invoked(h) : m < at /\ d > 0 =>
         /\ Settled(c2, Step(h, m).form, d - 1)
         /\ CacheKnows(c2, Step(h, m).form, d - 1) <=> CacheKnows(c, Step(h, m).form, d - 1)
  BY <1>1, <1>2, SettledStays
<1> QED
  BY <1>1, <1>3

(* Two lattices that the cache decides alike agree on what is known.        *)
LEMMA KnownAlike ==
    ASSUME NEW c, NEW f, NEW at, NEW a, IsLattice(a), NEW b, IsLattice(b),
           KnownByCache(c, f, at, a), KnownByCache(c, f, at, b), a.through <= b.through,
           NEW d \in 0 .. a.through
    PROVE  b.slots[d].known <=> a.slots[d].known
<1>1. d \in 0 .. b.through
  <2>1. a.through \in Nat /\ b.through \in Nat
    BY DepthsUpTo
  <2> QED
    BY <2>1
<1> QED
  BY <1>1 DEF KnownByCache

(* A walked form: what its body's lattice says is what the form consumes.   *)
LEMMA ConsumedAtEnd ==
    ASSUME FormTypeOK, NEW f \in Forms, NEW below
    PROVE  ConsumedBefore(below, f, Len(forms[f].ops) + 1) = Consumed(below, f)
<1>1. Len(forms[f].ops) \in Nat /\ DOMAIN forms[f].ops = 1 .. Len(forms[f].ops)
  BY BodyFacts
<1>2. /\ {m \in OpsOfKind(f, "Paint") : m < Len(forms[f].ops) + 1} = OpsOfKind(f, "Paint")
      /\ {m \in Invoked(f) : m < Len(forms[f].ops) + 1} = Invoked(f)
  BY <1>1 DEF OpsOfKind, Invoked
<1> QED
  BY <1>2 DEF ConsumedBefore, Consumed

(* A form walked to its end: the slots found known are true.                *)
LEMMA WalkedIsTrue ==
    ASSUME FormTypeOK, NEW c, IsCache(c), NEW f \in Forms,
           NEW lattice, IsLattice(lattice),
           IsWalked(c, f, lattice), LanesTrue(f, Len(forms[f].ops) + 1, lattice)
    PROVE  KnownTrue(f, lattice)
<1> SUFFICES ASSUME NEW d \in 0 .. lattice.through, lattice.slots[d].known
             PROVE  lattice.slots[d] = Effect[d][f]
  BY DEF KnownTrue
<1> DEFINE at == Len(forms[f].ops) + 1
<1>1. \A m \in Invoked(f) : m < at
  BY InvokedFacts, BodyFacts
<1>2. d \in Depths /\ IsSlot(lattice.slots[d])
  BY DepthsUpTo
<1>3. \A m \in Invoked(f) : d > 0 /\ CacheKnows(c, Step(f, m).form, d - 1)
  <2>1. KnownByCache(c, f, at, lattice)
    BY DEF IsWalked
  <2> HIDE DEF at
  <2> QED
    BY <1>1, <2>1 DEF KnownByCache
<1>4. ASSUME NEW m \in Invoked(f) PROVE d > 0 /\ Effect[d - 1][Step(f, m).form].known
  <2>1. d > 0 /\ CacheKnows(c, Step(f, m).form, d - 1)
    BY <1>3
  <2>2. d - 1 \in Depths
    BY <2>1, DepthsUpTo
  <2>3. ~NeverKnown(Step(f, m).form)
    BY <2>1, <2>2, NeverKnownIs
  <2>4. /\ Step(f, m).form \in DOMAIN c /\ d - 1 <= c[Step(f, m).form].through
        /\ c[Step(f, m).form].slots[d - 1].known
    BY <2>1 DEF CacheKnows
  <2>5. IsLattice(c[Step(f, m).form]) /\ KnownTrue(Step(f, m).form, c[Step(f, m).form])
    BY <2>4 DEF IsCache
  <2>6. d - 1 \in 0 .. c[Step(f, m).form].through
    BY <2>2, <2>4, <2>5, DepthsUpTo
  <2> QED
    BY <2>1, <2>4, <2>5, <2>6 DEF KnownTrue
<1>5. Provable(f, d)
  BY <1>4 DEF Provable, IsWalked
<1>6. Effect[d][f] = Proven(Consumed(Effect[d - 1], f))
  BY <1>2, <1>5, EffectFacts
<1>7. lattice.slots[d] = Proven(lattice.slots[d].lanes)
  BY <1>2 DEF IsSlot, Unknown
<1>8. lattice.slots[d].lanes = Consumed(Effect[d - 1], f)
  BY ConsumedAtEnd DEF LanesTrue
<1> QED
  BY <1>6, <1>7, <1>8

(* A form walked to its end while the budgets lasted: the slots found       *)
(* unknown cannot be proven.                                                *)
LEMMA UnknownIsTrue ==
    ASSUME FormTypeOK, NEW c, CacheOK(c, TRUE), IsCache(c), NEW f \in Forms,
           NEW lattice, IsLattice(lattice), IsWalked(c, f, lattice)
    PROVE  UnknownTrue(f, lattice)
<1> SUFFICES ASSUME NEW d \in 0 .. lattice.through, ~lattice.slots[d].known, Effect[d][f].known
             PROVE  FALSE
  BY DEF UnknownTrue
<1> DEFINE at == Len(forms[f].ops) + 1
<1>1. \A m \in Invoked(f) : m < at
  BY InvokedFacts, BodyFacts
<1>2. d \in Depths
  BY DepthsUpTo
<1>3. /\ \A m \in Invoked(f) : d > 0 => Settled(c, Step(f, m).form, d - 1)
      /\ ~ \A m \in Invoked(f) : d > 0 /\ CacheKnows(c, Step(f, m).form, d - 1)
  <2>1. KnownByCache(c, f, at, lattice)
    BY DEF IsWalked
  <2> HIDE DEF at
  <2> QED
    BY <1>1, <2>1 DEF KnownByCache
<1>4. PICK m \in Invoked(f) : ~(d > 0 /\ CacheKnows(c, Step(f, m).form, d - 1))
  BY <1>3
<1>5. /\ d > 0 /\ d - 1 \in Depths
      /\ Effect[d - 1][Step(f, m).form].known
      /\ ~NeverKnown(Step(f, m).form)
  BY <1>2, KnownDescends
<1>6. Step(f, m).form \in DOMAIN c /\ d - 1 <= c[Step(f, m).form].through
  BY <1>3, <1>5 DEF Settled
<1>7. ~c[Step(f, m).form].slots[d - 1].known
  BY <1>4, <1>5, <1>6 DEF CacheKnows
<1>8. IsLattice(c[Step(f, m).form]) /\ UnknownTrue(Step(f, m).form, c[Step(f, m).form])
  BY <1>6 DEF IsCache, CacheOK, EntryOK, EntryTrue
<1>9. d - 1 \in 0 .. c[Step(f, m).form].through
  BY <1>5, <1>6, <1>8, DepthsUpTo
<1> QED
  BY <1>5, <1>7, <1>8, <1>9 DEF UnknownTrue

----------------------------------------------------------------------------
FormInv == ShapeInv /\ BodyInv /\ HorizonInv /\ CacheInv /\ PathInv /\ AnswerInv

(* What FormInv says of the cache and of the stack as a sequence.           *)
LEMMA CacheFacts ==
    ASSUME FormInv
    PROVE  /\ FormTypeOK /\ IsCache(cache) /\ CacheOK(cache, BudgetsLast)
           /\ IsStack(path) /\ Len(path) \in Nat /\ DOMAIN path = 1 .. Len(path)
  BY DEF FormInv, ShapeInv, FormTypeOK, CacheInv, CacheOK, EntryOK, EntryTrue, IsCache, IsStack

(* Only the slots and the depth of a lattice decide.                        *)
LEMMA SameSlots ==
    ASSUME NEW c, NEW f, NEW a, NEW b, a.slots = b.slots, a.through = b.through, NEW at, NEW last
    PROVE  /\ KnownByCache(c, f, at, a) => KnownByCache(c, f, at, b)
           /\ LanesTrue(f, at, a) => LanesTrue(f, at, b)
           /\ EntryTrue(f, a, last) => EntryTrue(f, b, last)
           /\ EntryOK(c, f, a, last) => EntryOK(c, f, b, last)
<1>1. KnownByCache(c, f, at, a) => KnownByCache(c, f, at, b)
  BY DEF KnownByCache
<1>2. LanesTrue(f, at, a) => LanesTrue(f, at, b)
  BY DEF LanesTrue
<1>3. EntryTrue(f, a, last) => EntryTrue(f, b, last)
  BY DEF EntryTrue, KnownTrue, UnknownTrue
<1>4. IsWalked(c, f, a) => IsWalked(c, f, b)
  BY DEF IsWalked, KnownByCache
<1>5. EntryOK(c, f, a, last) => EntryOK(c, f, b, last)
  BY <1>3, <1>4 DEF EntryOK
<1> QED
  BY <1>1, <1>2, <1>3, <1>5

(* A lattice no slot of which is known says nothing false of a form that is *)
(* proven at no depth.                                                      *)
LEMMA AllUnknownTrue ==
    ASSUME NEW f, NEW class, NEW last \in BOOLEAN, last => NeverKnown(f)
    PROVE  EntryTrue(f, AllUnknown(class), last)
<1>1. \A d \in 0 .. AllUnknown(class).through :
         d \in Depths /\ AllUnknown(class).slots[d] = Unknown
  BY AllUnknownIs, DepthsUpTo
<1>2. KnownTrue(f, AllUnknown(class))
  BY <1>1, SlotFacts DEF KnownTrue
<1>3. last => UnknownTrue(f, AllUnknown(class))
  BY <1>1 DEF UnknownTrue, NeverKnown
<1> QED
  BY <1>2, <1>3 DEF EntryTrue

(* A publication of another form leaves a frame consistent with the cache.  *)
LEMMA FrameStays ==
    ASSUME NEW c, IsCache(c), NEW c2, IsCache(c2), NEW f, NEW entry,
           IsUpdate(c, c2, f, entry), Extends(c, f, entry),
           NEW frame, IsFrame(frame), frame.form # f, FrameOK(c, frame)
    PROVE  FrameOK(c2, frame)
<1>1. IsLattice(frame.lattice)
  BY DEF IsFrame
<1>2. KnownByCache(c2, frame.form, frame.at, frame.lattice)
  <2>1. KnownByCache(c, frame.form, frame.at, frame.lattice)
    BY DEF FrameOK
  <2> QED
    BY <1>1, <2>1, KnownByCacheStays
<1>3. \/ frame.form \notin DOMAIN c2 \/ NeverKnown(frame.form)
      \/ c2[frame.form].through <= frame.lattice.through
  BY DEF FrameOK, IsUpdate
<1> QED
  BY <1>2, <1>3 DEF FrameOK

(* What is published, and what that keeps.                                  *)
LEMMA PublishedCache ==
    ASSUME FormInv, NEW f \in Forms, NEW entry, IsLattice(entry), Publish(f, entry),
           Extends(cache, f, entry), EntryOK(cache, f, entry, BudgetsLast'),
           BudgetsLast' => BudgetsLast
    PROVE  /\ IsUpdate(cache, cache', f, entry)
           /\ IsCache(cache')
           /\ CacheOK(cache', BudgetsLast')
<1>1. FormTypeOK /\ IsCache(cache) /\ CacheOK(cache, BudgetsLast)
  BY CacheFacts
<1>2. IsUpdate(cache, cache', f, entry)
  BY PublishIs DEF IsUpdate
<1>3. IsCache(cache')
  <2>1. KnownTrue(f, entry)
    BY DEF EntryOK, EntryTrue
  <2>2. \A g \in DOMAIN cache' : g = f \/ (g \in DOMAIN cache /\ cache'[g] = cache[g])
    BY <1>2 DEF IsUpdate
  <2>3. cache'[f] = entry
    BY <1>2 DEF IsUpdate
  <2> QED
    BY <1>1, <2>1, <2>2, <2>3 DEF IsCache
<1>4. ASSUME NEW g \in DOMAIN cache' PROVE EntryOK(cache', g, cache'[g], BudgetsLast')
  <2>1. EntryOK(cache, g, cache'[g], BudgetsLast')
    <3>1. CASE g = f
      BY <1>2, <3>1 DEF IsUpdate
    <3>2. CASE g # f
      <4>1. g \in DOMAIN cache /\ cache'[g] = cache[g]
        BY <1>2, <1>4, <3>2 DEF IsUpdate
      <4>2. EntryOK(cache, g, cache[g], BudgetsLast)
        BY <1>1, <4>1 DEF CacheOK
      <4> QED
        BY <4>1, <4>2 DEF EntryOK, EntryTrue
    <3> QED
      BY <3>1, <3>2
  <2>2. IsLattice(cache'[g])
    BY <1>3 DEF IsCache
  <2>3. IsWalked(cache, g, cache'[g]) => IsWalked(cache', g, cache'[g])
    BY <1>1, <1>2, <1>3, <2>2, KnownByCacheStays DEF IsWalked
  <2> QED
    BY <2>1, <2>3 DEF EntryOK
<1>5. CacheOK(cache', BudgetsLast')
  BY <1>4 DEF CacheOK
<1> QED
  BY <1>2, <1>3, <1>5

(* A publication of a true entry that extends what the cache had keeps      *)
(* every part of FormInv but the shape.                                     *)
LEMMA PublishKeeps ==
    ASSUME FormInv, forms' = forms, NEW f \in Forms, NEW entry, IsLattice(entry), Publish(f, entry),
           Extends(cache, f, entry), EntryOK(cache, f, entry, BudgetsLast'),
           BudgetsLast' => BudgetsLast /\ MaxNestedFormDepth <= entry.through + Len(path'),
           Callee' = f,
           \A i \in DOMAIN path' : i \in DOMAIN path /\ path'[i] = path[i] /\ path[i].form # f
    PROVE  BodyInv' /\ HorizonInv' /\ CacheInv' /\ PathInv' /\ AnswerInv'
<1>1. FormTypeOK /\ IsCache(cache) /\ CacheOK(cache, BudgetsLast)
  BY CacheFacts
<1>2. IsUpdate(cache, cache', f, entry) /\ IsCache(cache') /\ CacheOK(cache', BudgetsLast')
  BY PublishedCache
<1>3. control' = "return" /\ answer'.available = TRUE /\ answer'.entry = entry
  BY PublishIs
<1>4. CacheInv'
  BY <1>2, CacheFrom
<1>5. BodyInv'
  BY BodyFrom DEF FormInv, BodyInv
<1>6. PathInv'
  <2>1. ASSUME NEW i \in DOMAIN path' PROVE FrameOK(cache', path'[i])
    <3>1. IsFrame(path[i]) /\ FrameOK(cache, path[i])
      BY <1>1 DEF FormTypeOK, FormInv, PathInv
    <3> QED
      BY <1>1, <1>2, <3>1, FrameStays
  <2> QED
    BY <2>1, PathFrom
<1>7. HorizonInv'
  <2>1. ASSUME NEW i \in DOMAIN path'
        PROVE  /\ i <= MaxNestedFormDepth + 1
               /\ BudgetsLast' => MaxNestedFormDepth + 1 <= path'[i].lattice.through + i
               /\ path'[i].form \in DOMAIN cache' =>
                     cache'[path'[i].form].through + i < MaxNestedFormDepth + 1
    <3>1. /\ i <= MaxNestedFormDepth + 1
          /\ BudgetsLast => MaxNestedFormDepth + 1 <= path[i].lattice.through + i
          /\ path[i].form \in DOMAIN cache =>
                cache[path[i].form].through + i < MaxNestedFormDepth + 1
      BY DEF FormInv, HorizonInv, FramesReach
    <3>2. path[i].form \in DOMAIN cache' =>
             path[i].form \in DOMAIN cache /\ cache'[path[i].form] = cache[path[i].form]
      BY <1>2 DEF IsUpdate
    <3> QED
      BY <3>1, <3>2
  <2> QED
    BY <1>3, <2>1 DEF HorizonInv, FramesReach, AnswerReaches
<1>8. AnswerInv'
  <2>1. AnswerOK(cache', f, entry, BudgetsLast')
    <3>1. f \in DOMAIN cache' /\ cache'[f] = entry
      BY <1>2 DEF IsUpdate
    <3>2. EntryTrue(f, entry, BudgetsLast')
      BY DEF EntryOK
    <3>3. ASSUME NEW d \in 0 .. entry.through
          PROVE  Settled(cache', f, d) /\ (entry.slots[d].known <=> CacheKnows(cache', f, d))
      <4>1. d <= entry.through
        BY DepthsUpTo
      <4> QED
        BY <3>1, <4>1 DEF Settled, CacheKnows
    <3> QED
      BY <3>1, <3>2, <3>3 DEF AnswerOK
  <2> QED
    BY <1>3, <2>1, AnswerFrom
<1> QED
  BY <1>4, <1>5, <1>6, <1>7, <1>8

(* A refusal is never of a form the cache has while the budgets last, and   *)
(* then of one that is proven at no depth.                                  *)
LEMMA FailedKeeps ==
    ASSUME FormInv, forms' = forms, NEW f \in Forms, NEW class, Publish(f, Failed(f, class)),
           BudgetsLast' => BudgetsLast /\ f \notin DOMAIN cache /\ NeverKnown(f),
           Len(path') \in Nat, Callee' = f,
           \A i \in DOMAIN path' : i \in DOMAIN path /\ path'[i] = path[i] /\ path[i].form # f
    PROVE  BodyInv' /\ HorizonInv' /\ CacheInv' /\ PathInv' /\ AnswerInv'
<1> DEFINE entry == Failed(f, class)
<1>1. FormTypeOK /\ IsCache(cache) /\ CacheOK(cache, BudgetsLast)
  BY CacheFacts
<1>2. /\ IsLattice(entry)
      /\ f \notin DOMAIN cache => entry = AllUnknown(class)
      /\ f \in DOMAIN cache => entry.slots = cache[f].slots /\ entry.through = cache[f].through
  BY <1>1, FailedIs
<1> HIDE DEF entry
<1>3. Extends(cache, f, entry)
  <2>1. CASE f \in DOMAIN cache
    <3>1. cache[f].through \in Nat
      BY <1>1, <2>1, DepthsUpTo DEF IsCache
    <3> QED
      BY <1>2, <2>1, <3>1 DEF Extends
  <2> QED
    BY <2>1 DEF Extends
<1>4. EntryOK(cache, f, entry, BudgetsLast')
  <2>1. CASE f \in DOMAIN cache
    <3>1. EntryOK(cache, f, cache[f], BudgetsLast)
      BY <1>1, <2>1 DEF CacheOK
    <3>2. EntryOK(cache, f, cache[f], BudgetsLast')
      BY <2>1, <3>1 DEF EntryOK, EntryTrue
    <3> QED
      BY <1>2, <2>1, <3>2, SameSlots
  <2>2. CASE f \notin DOMAIN cache
    <3>1. (BudgetsLast') \in BOOLEAN
      BY DEF BudgetsLast
    <3>2. EntryTrue(f, AllUnknown(class), BudgetsLast')
      BY <3>1, AllUnknownTrue
    <3>3. ~(AllUnknown(class).through < MaxNestedFormDepth)
      BY AllUnknownIs, DepthAssumption
    <3> QED
      BY <1>2, <2>2, <3>2, <3>3 DEF EntryOK
  <2> QED
    BY <2>1, <2>2
<1>5. BudgetsLast' => BudgetsLast /\ MaxNestedFormDepth <= entry.through + Len(path')
  <2>1. f \notin DOMAIN cache => entry.through = MaxNestedFormDepth
    BY <1>2, AllUnknownIs
  <2> QED
    BY <2>1, DepthAssumption
<1>6. Publish(f, entry)
  BY DEF entry
<1> QED
  BY <1>2, <1>3, <1>4, <1>5, <1>6, PublishKeeps

----------------------------------------------------------------------------
(* The budgets never come back.                                             *)
LEMMA BudgetsShrink ==
    ASSUME FormInv, [Next]_vars
    PROVE  BudgetsLast' => BudgetsLast
<1> SUFFICES ASSUME BudgetsLast' PROVE BudgetsLast
  OBVIOUS
<1>1. targets \in Nat /\ bytes \in Nat /\ FormTypeOK
  BY CacheFacts DEF FormTypeOK
<1>2. targets' > 0 /\ bytes' > 0
  BY DEF BudgetsLast
<1>3. CASE UNCHANGED <<targets, bytes>>
  BY <1>3 DEF BudgetsLast
<1>4. CASE RefuseGate \/ RefuseTarget
  BY <1>1, <1>2, <1>4 DEF RefuseGate, RefuseTarget, ChargeTarget, BudgetsLast
<1>5. CASE RefuseBytes
  BY <1>2, <1>5 DEF RefuseBytes
<1>6. CASE OpenFrame
  <2>1. Callee \in Forms
    BY <1>6, CalleeFacts DEF OpenFrame, Computing, FormInv
  <2>2. forms[Callee].size \in Nat
    BY <1>1, <2>1, BodyFacts
  <2> QED
    BY <1>1, <1>2, <1>6, <2>2 DEF OpenFrame, ChargeTarget, BudgetsLast
<1> QED
  BY <1>3, <1>4, <1>5, <1>6 DEF Next, vars, analyzer, Demand, BeginPage, ReenterCycle, ServeCached,
     CutAtHorizon, Paint, Invoke, RefuseBody, CloseFrame, Fold, Tally

----------------------------------------------------------------------------
(* Steps that leave the cache and the stack alone.                          *)
LEMMA StillKeeps ==
    ASSUME FormInv, UNCHANGED <<forms, cache, path, targets, bytes>>
    PROVE  BodyInv' /\ FramesReach' /\ CacheInv' /\ PathInv' /\ (BudgetsLast' <=> BudgetsLast)
<1>1. BudgetsLast' <=> BudgetsLast
  BY DEF BudgetsLast
<1>2. BodyInv'
  BY BodyFrom DEF FormInv, BodyInv
<1>3. FramesReach'
  BY <1>1 DEF FormInv, HorizonInv, FramesReach
<1>4. CacheInv'
  <2>1. CacheOK(cache', BudgetsLast')
    BY <1>1 DEF FormInv, CacheInv, CacheOK, EntryOK, EntryTrue
  <2> QED
    BY <2>1, CacheFrom
<1>5. PathInv'
  BY PathFrom DEF FormInv, PathInv
<1> QED
  BY <1>1, <1>2, <1>3, <1>4, <1>5

(* A step that changes neither cache, stack nor budgets and returns         *)
(* nothing.                                                                 *)
LEMMA SilentKeeps ==
    ASSUME FormInv, ShapeInv', UNCHANGED <<forms, cache, path, targets, bytes>>,
           control' # "return"
    PROVE  FormInv'
<1>1. AnswerInv' /\ AnswerReaches'
  BY DEF AnswerInv, AnswerReaches
<1> QED
  BY <1>1, StillKeeps DEF FormInv, HorizonInv

(* A step that changes nothing.                                             *)
LEMMA StutterKeeps ==
    ASSUME FormInv, UNCHANGED vars
    PROVE  FormInv'
<1>1. UNCHANGED <<forms, demanded, path, cache, targets, bytes, control, answer>>
  BY DEF vars, analyzer
<1>2. ShapeInv'
  BY <1>1, IdleShape DEF FormInv
<1>3. Callee' = Callee
  BY <1>1, SamePathShape DEF FormInv
<1>4. BudgetsLast' <=> BudgetsLast
  BY <1>1 DEF BudgetsLast
<1>5. AnswerInv'
  <2>1. control = "return" /\ answer.available =>
           AnswerOK(cache, Callee, answer.entry, BudgetsLast)
    BY DEF FormInv, AnswerInv
  <2>2. AnswerOK(cache, Callee, answer.entry, BudgetsLast) =>
           AnswerOK(cache, Callee, answer.entry, BudgetsLast')
    BY <1>4 DEF AnswerOK, EntryTrue
  <2> QED
    BY <1>1, <1>3, <2>1, <2>2, AnswerFrom
<1>6. AnswerReaches'
  BY <1>1, <1>3, <1>4 DEF FormInv, HorizonInv, AnswerReaches, WithinHorizon
<1> QED
  BY <1>1, <1>2, <1>5, <1>6, StillKeeps DEF FormInv, HorizonInv

----------------------------------------------------------------------------
(* Entering a form.                                                         *)
LEMMA EnterFacts ==
    ASSUME FormInv, control = "enter"
    PROVE  /\ Callee \in Forms /\ ShapeInv /\ FormTypeOK /\ Len(path) \in Nat
           /\ IsCache(cache) /\ CacheOK(cache, BudgetsLast)
           /\ UNCHANGED path /\ Callee \notin Active =>
                 /\ \A i \in DOMAIN path' :
                       i \in DOMAIN path /\ path'[i] = path[i] /\ path[i].form # Callee
                 /\ Len(path') \in Nat
<1>1. Callee \in Forms
  BY CalleeFacts DEF FormInv
<1>2. UNCHANGED path /\ Callee \notin Active =>
         \A i \in DOMAIN path' : i \in DOMAIN path /\ path'[i] = path[i] /\ path[i].form # Callee
  BY DEF Active
<1> QED
  BY <1>1, <1>2, CacheFacts DEF FormInv

(* The cycle guard answers Unknown, and a form on a cycle is proven at no   *)
(* depth.                                                                   *)
LEMMA ReenterCycleKeeps ==
    ASSUME FormInv, ReenterCycle, ShapeInv'
    PROVE  FormInv'
<1>1. /\ control = "enter" /\ Callee \in Active /\ control' = "return"
      /\ answer'.available = TRUE /\ answer'.entry = AllUnknown("RecursionCycle")
      /\ UNCHANGED <<forms, demanded, cache, path, targets, bytes>>
  BY DEF ReenterCycle, Answer, Request, analyzer
<1>2. /\ BodyInv' /\ FramesReach' /\ CacheInv' /\ PathInv' /\ (BudgetsLast' <=> BudgetsLast)
      /\ Callee' = Callee
  BY <1>1, StillKeeps, SamePathShape DEF FormInv
<1>3. NeverKnown(Callee) /\ IsCache(cache) /\ Len(path) \in Nat
  BY <1>1, CycleNeverKnown, CacheFacts DEF FormInv
<1> DEFINE entry == AllUnknown("RecursionCycle")
<1>4. entry.through = MaxNestedFormDepth /\ \A d \in Depths : entry.slots[d] = Unknown
  BY AllUnknownIs
<1>5. AnswerReaches'
  BY <1>1, <1>3, <1>4, DepthAssumption DEF AnswerReaches
<1>6. AnswerOK(cache', Callee', answer'.entry, BudgetsLast')
  <2>1. (BudgetsLast') \in BOOLEAN
    BY DEF BudgetsLast
  <2>2. EntryTrue(Callee, entry, BudgetsLast')
    BY <1>3, <2>1, AllUnknownTrue
  <2> HIDE DEF entry
  <2>3. \A d \in 0 .. entry.through :
           Settled(cache, Callee, d) /\ (entry.slots[d].known <=> CacheKnows(cache, Callee, d))
    <3>1. \A d \in 0 .. entry.through : d \in Depths
      BY <1>4 DEF Depths
    <3>2. \A d \in Depths : ~CacheKnows(cache, Callee, d)
      BY <1>3, NeverKnownIs
    <3> QED
      BY <1>3, <1>4, <3>1, <3>2, SlotFacts DEF Settled
  <2>4. AnswerOK(cache, Callee, entry, BudgetsLast')
    BY <1>3, <2>2, <2>3 DEF AnswerOK
  <2> QED
    BY <1>1, <1>2, <2>4 DEF entry
<1>7. AnswerInv'
  BY <1>1, <1>6, AnswerFrom
<1> QED
  BY <1>2, <1>5, <1>7 DEF FormInv, HorizonInv

(* A cached answer reaches as deep as is asked for.                         *)
LEMMA ServeCachedKeeps ==
    ASSUME FormInv, ServeCached, ShapeInv'
    PROVE  FormInv'
<1>1. /\ control = "enter" /\ Served(Callee) /\ Callee \in DOMAIN cache /\ control' = "return"
      /\ answer'.available = TRUE /\ answer'.entry = cache[Callee]
      /\ UNCHANGED <<forms, demanded, cache, path, targets, bytes>>
  BY DEF ServeCached, Answer, Request, analyzer, Served
<1>2. /\ BodyInv' /\ FramesReach' /\ CacheInv' /\ PathInv' /\ (BudgetsLast' <=> BudgetsLast)
      /\ Callee' = Callee
  BY <1>1, StillKeeps, SamePathShape DEF FormInv
<1>3. /\ IsLattice(cache[Callee]) /\ EntryOK(cache, Callee, cache[Callee], BudgetsLast)
      /\ Len(path) \in Nat
  BY <1>1, EnterFacts DEF IsCache, CacheOK
<1>4. AnswerReaches'
  <2>1. MaxNestedFormDepth <= cache[Callee].through + Len(path)
    BY <1>1, <1>3, DepthsUpTo, DepthAssumption DEF Served, WithinHorizon
  <2> QED
    BY <1>1, <2>1 DEF AnswerReaches
<1>5. AnswerOK(cache', Callee', answer'.entry, BudgetsLast')
  <2> DEFINE entry == cache[Callee]
  <2>1. EntryTrue(Callee, entry, BudgetsLast')
    BY <1>2, <1>3 DEF EntryOK, EntryTrue
  <2>2. \A d \in 0 .. entry.through : d <= entry.through
    BY <1>3, DepthsUpTo
  <2>3. \A d \in 0 .. entry.through :
           Settled(cache, Callee, d) /\ (entry.slots[d].known <=> CacheKnows(cache, Callee, d))
    BY <1>1, <2>2 DEF Settled, CacheKnows
  <2>4. AnswerOK(cache, Callee, entry, BudgetsLast')
    BY <1>1, <2>1, <2>3 DEF AnswerOK
  <2> QED
    BY <1>1, <1>2, <2>4
<1>6. AnswerInv'
  BY <1>1, <1>5, AnswerFrom
<1> QED
  BY <1>2, <1>4, <1>6 DEF FormInv, HorizonInv

(* A cut answers nothing, and only for a form that is not cached.           *)
LEMMA CutAtHorizonKeeps ==
    ASSUME FormInv, CutAtHorizon, ShapeInv'
    PROVE  FormInv'
<1>1. /\ control = "enter" /\ ~Served(Callee) /\ ~WithinHorizon /\ control' = "return"
      /\ answer'.available = FALSE
      /\ UNCHANGED <<forms, demanded, cache, path, targets, bytes>>
  BY DEF CutAtHorizon, Answer, Request, analyzer
<1>2. /\ BodyInv' /\ FramesReach' /\ CacheInv' /\ PathInv' /\ Callee' = Callee
  BY <1>1, StillKeeps, SamePathShape DEF FormInv
<1>3. AnswerReaches'
  BY <1>1, <1>2 DEF AnswerReaches, WithinHorizon, Served
<1>4. AnswerInv'
  BY <1>1 DEF AnswerInv
<1> QED
  BY <1>2, <1>3, <1>4 DEF FormInv, HorizonInv

(* A refusal for want of targets comes when that budget is spent.           *)
LEMMA RefuseTargetKeeps ==
    ASSUME FormInv, RefuseTarget, ShapeInv'
    PROVE  FormInv'
<1>1. /\ control = "enter" /\ Callee \notin Active
      /\ Publish(Callee, Failed(Callee, "TargetBudget"))
      /\ UNCHANGED <<forms, demanded, path>> /\ targets' = 0
  BY DEF RefuseTarget, Computing, Request
<1>2. Callee' = Callee
  BY <1>1, SamePathShape DEF FormInv
<1>3. ~BudgetsLast'
  BY <1>1 DEF BudgetsLast
<1> QED
  BY <1>1, <1>2, <1>3, EnterFacts, FailedKeeps DEF FormInv

(* A refusal for want of bytes spends what is left of them.                 *)
LEMMA RefuseBytesKeeps ==
    ASSUME FormInv, RefuseBytes, ShapeInv'
    PROVE  FormInv'
<1>1. /\ control = "enter" /\ Callee \notin Active
      /\ Publish(Callee, Failed(Callee, "DecodedByteBudget"))
      /\ UNCHANGED <<forms, demanded, path>> /\ bytes' = 0
  BY DEF RefuseBytes, Computing, Request
<1>2. Callee' = Callee
  BY <1>1, SamePathShape DEF FormInv
<1>3. ~BudgetsLast'
  BY <1>1 DEF BudgetsLast
<1> QED
  BY <1>1, <1>2, <1>3, EnterFacts, FailedKeeps DEF FormInv

(* A form that is to be deepened has a partial entry, so it was walked to   *)
(* its end before: it has no refusal of its own.                            *)
LEMMA DeepenedIsWalked ==
    ASSUME FormInv, Computing, Callee \in DOMAIN cache
    PROVE  /\ cache[Callee].through + Len(path) + 1 < MaxNestedFormDepth + 1
           /\ IsWalked(cache, Callee, cache[Callee])
<1>1. /\ Len(path) \in Nat /\ IsLattice(cache[Callee])
      /\ EntryOK(cache, Callee, cache[Callee], BudgetsLast)
  BY EnterFacts DEF Computing, IsCache, CacheOK
<1>2. WithinHorizon /\ ~(MaxNestedFormDepth - Len(path) <= cache[Callee].through)
  BY DEF Computing, Served
<1>3. cache[Callee].through + Len(path) + 1 < MaxNestedFormDepth + 1
      /\ cache[Callee].through < MaxNestedFormDepth
  BY <1>1, <1>2, DepthsUpTo, DepthAssumption DEF WithinHorizon
<1> QED
  BY <1>1, <1>3 DEF EntryOK

(* A form refused by its gate is proven at no depth, and was not cached.    *)
LEMMA RefuseGateKeeps ==
    ASSUME FormInv, RefuseGate, ShapeInv', BudgetsLast' => BudgetsLast
    PROVE  FormInv'
<1>1. /\ control = "enter" /\ Callee \notin Active /\ Computing
      /\ Publish(Callee, Failed(Callee, forms[Callee].gate)) /\ forms[Callee].gate # "None"
      /\ UNCHANGED <<forms, demanded, path>>
  BY DEF RefuseGate, Computing, Request
<1>2. Callee' = Callee
  BY <1>1, SamePathShape DEF FormInv
<1>3. NeverKnown(Callee)
  BY <1>1, EnterFacts, EffectFacts DEF NeverKnown, Provable
<1>4. Callee \notin DOMAIN cache
  BY <1>1, DeepenedIsWalked DEF IsWalked
<1> QED
  BY <1>1, <1>2, <1>3, <1>4, EnterFacts, FailedKeeps DEF FormInv

----------------------------------------------------------------------------
(* A new frame starts with everything known and nothing consumed.           *)
LEMMA OpenFrameKeeps ==
    ASSUME FormInv, OpenFrame, ShapeInv', BudgetsLast' => BudgetsLast
    PROVE  FormInv'
<1>1. /\ control = "enter" /\ Callee \notin Active /\ Computing /\ forms[Callee].gate = "None"
      /\ UNCHANGED <<forms, demanded, cache>> /\ control' = "walk"
      /\ path' = Append(path, [form |-> Callee, at |-> 1, lattice |-> Neutral])
  BY DEF OpenFrame, Computing, Request
<1>2. /\ Len(path') = Len(path) + 1 /\ DOMAIN path' = 1 .. Len(path) + 1
      /\ Len(path) \in Nat /\ DOMAIN path = 1 .. Len(path)
      /\ \A i \in 1 .. Len(path) : path'[i] = path[i]
      /\ path'[Len(path) + 1].form = Callee
      /\ path'[Len(path) + 1].at = 1
      /\ path'[Len(path) + 1].lattice = Neutral
  BY <1>1, PushedShape DEF FormInv
<1>3. Callee \in Forms /\ FormTypeOK /\ CacheOK(cache, BudgetsLast)
  BY <1>1, EnterFacts
<1>4. \A i \in DOMAIN path' : (i \in DOMAIN path /\ path'[i] = path[i]) \/ i = Len(path) + 1
  BY <1>2
<1>5. Neutral.through = MaxNestedFormDepth /\ \A d \in Depths : Neutral.slots[d] = Proven({})
  BY NeutralIs
<1>6. IsClear(path'[Len(path) + 1])
  BY <1>1, <1>2, <1>3, BodyFacts DEF IsClear, OpsOfKind
<1>7. BodyInv'
  BY <1>1, <1>4, <1>6, BodyFrom DEF FormInv, BodyInv
<1>8. FramesReach'
  <2> SUFFICES ASSUME NEW i \in DOMAIN path'
               PROVE  /\ i <= MaxNestedFormDepth + 1
                      /\ BudgetsLast' => MaxNestedFormDepth + 1 <= path'[i].lattice.through + i
                      /\ path'[i].form \in DOMAIN cache =>
                            cache[path'[i].form].through + i < MaxNestedFormDepth + 1
    BY <1>1 DEF FramesReach
  <2>1. CASE i \in DOMAIN path /\ path'[i] = path[i]
    BY <2>1 DEF FormInv, HorizonInv, FramesReach
  <2>2. CASE i = Len(path) + 1
    <3>1. Len(path) <= MaxNestedFormDepth
      BY <1>1 DEF Computing, WithinHorizon
    <3>2. Callee \in DOMAIN cache =>
             cache[Callee].through + Len(path) + 1 < MaxNestedFormDepth + 1
             /\ cache[Callee].through \in Nat
      BY <1>1, DeepenedIsWalked, EnterFacts, DepthsUpTo DEF IsCache
    <3> QED
      BY <1>2, <1>5, <2>2, <3>1, <3>2, DepthAssumption
  <2> QED
    BY <1>4, <2>1, <2>2
<1>9. CacheInv'
  <2>1. CacheOK(cache', BudgetsLast')
    BY <1>1, <1>3 DEF CacheOK, EntryOK, EntryTrue
  <2> QED
    BY <1>1, <2>1, CacheFrom
<1>10. FrameOK(cache, path'[Len(path) + 1])
  <2>1. \A m \in Invoked(Callee) : ~(m < 1)
    BY <1>3, InvokedFacts
  <2>2. \A d \in 0 .. Neutral.through : d \in Depths
    BY <1>5 DEF Depths
  <2>3. KnownByCache(cache, Callee, 1, Neutral)
    BY <1>5, <2>1, <2>2, SlotFacts DEF KnownByCache
  <2>4. LanesTrue(Callee, 1, Neutral)
    <3>1. \A m \in OpsOfKind(Callee, "Paint") : ~(m < 1)
      BY <1>3, BodyFacts DEF OpsOfKind
    <3>2. \A below : ConsumedBefore(below, Callee, 1) = {}
      BY <2>1, <3>1 DEF ConsumedBefore
    <3> QED
      BY <1>5, <2>2, <3>2, SlotFacts DEF LanesTrue
  <2>5. Callee \notin DOMAIN cache \/ cache[Callee].through <= Neutral.through
    BY <1>1, <1>5, EnterFacts, DepthsUpTo DEF IsCache
  <2> QED
    BY <1>2, <2>3, <2>4, <2>5 DEF FrameOK
<1>11. PathInv'
  BY <1>1, <1>4, <1>10, PathFrom DEF FormInv, PathInv
<1>12. AnswerInv' /\ AnswerReaches'
  BY <1>1 DEF AnswerInv, AnswerReaches
<1> QED
  BY <1>7, <1>8, <1>9, <1>11, <1>12 DEF FormInv, HorizonInv

----------------------------------------------------------------------------
(* Walking on: it is enough to know the new top frame.                      *)
TopReaches(lattice) ==
    BudgetsLast => MaxNestedFormDepth + 1 <= lattice.through + Len(path)

(* Any step of a walk that keeps the top frame true keeps FormInv.          *)
LEMMA AdvanceKeeps ==
    ASSUME FormInv, path # <<>>, Top.at \in DOMAIN forms[Top.form].ops,
           Step(Top.form, Top.at).kind # "Refuse",
           NEW lattice, IsLattice(lattice), Advance(lattice),
           UNCHANGED <<Request, analyzer, answer>>, control' = "walk", ShapeInv',
           KnownByCache(cache, Top.form, Top.at + 1, lattice),
           LanesTrue(Top.form, Top.at + 1, lattice),
           \/ Top.form \notin DOMAIN cache \/ NeverKnown(Top.form)
           \/ cache[Top.form].through <= lattice.through,
           TopReaches(lattice)
    PROVE  FormInv'
<1>0. ShapeInv /\ UNCHANGED <<forms, cache, targets, bytes>>
  BY DEF FormInv, Request, analyzer
<1>1. /\ Len(path') = Len(path) /\ DOMAIN path' = DOMAIN path
      /\ \A i \in 1 .. Len(path) - 1 : path'[i] = path[i]
      /\ Top' = path'[Len(path)]
      /\ Top'.form = Top.form /\ Top'.at = Top.at + 1 /\ Top'.lattice = lattice
  BY <1>0, AdvancedShape
<1>2. /\ Len(path) \in DOMAIN path /\ Len(path) \in Nat \ {0} /\ DOMAIN path = 1 .. Len(path)
      /\ Top = path[Len(path)] /\ Top.form \in Forms /\ Top.at \in Nat
  BY <1>0, TopFacts DEF ShapeInv
<1>3. \A i \in DOMAIN path' : (i \in DOMAIN path /\ path'[i] = path[i])
                              \/ (i = Len(path) /\ path'[i] = Top')
  BY <1>1, <1>2
<1>4. BudgetsLast' <=> BudgetsLast
  BY <1>0 DEF BudgetsLast
<1>5. BodyInv'
  <2>1. IsClear(Top)
    BY <1>2 DEF FormInv, BodyInv
  <2>2. IsClear(Top')
    <3>1. ASSUME NEW m \in OpsOfKind(Top.form, "Refuse") PROVE Top.at + 1 <= m
      <4>1. Top.at <= m /\ m # Top.at
        BY <2>1 DEF IsClear, OpsOfKind
      <4>2. m \in Nat
        BY <1>0, <1>2, BodyFacts DEF OpsOfKind, ShapeInv
      <4> QED
        BY <1>2, <4>1, <4>2
    <3> QED
      BY <1>1, <2>1, <3>1 DEF IsClear
  <2>3. ASSUME NEW i \in DOMAIN path' PROVE IsClear(path'[i])
    BY <1>3, <2>2 DEF FormInv, BodyInv
  <2> QED
    BY <1>0, <2>3, BodyFrom
<1>6. FramesReach'
  <2> SUFFICES ASSUME NEW i \in DOMAIN path'
               PROVE  /\ i <= MaxNestedFormDepth + 1
                      /\ BudgetsLast => MaxNestedFormDepth + 1 <= path'[i].lattice.through + i
                      /\ path'[i].form \in DOMAIN cache =>
                            cache[path'[i].form].through + i < MaxNestedFormDepth + 1
    BY <1>0, <1>4 DEF FramesReach
  <2>1. /\ i <= MaxNestedFormDepth + 1
        /\ BudgetsLast => MaxNestedFormDepth + 1 <= path[i].lattice.through + i
        /\ path[i].form \in DOMAIN cache =>
              cache[path[i].form].through + i < MaxNestedFormDepth + 1
    BY <1>1 DEF FormInv, HorizonInv, FramesReach
  <2>2. CASE path'[i] = path[i]
    BY <2>1, <2>2
  <2>3. CASE i = Len(path) /\ path'[i] = Top'
    BY <1>1, <1>2, <2>1, <2>3 DEF TopReaches
  <2> QED
    BY <1>3, <2>2, <2>3
<1>7. CacheInv'
  <2>1. CacheOK(cache', BudgetsLast')
    BY <1>0, <1>4 DEF FormInv, CacheInv, CacheOK, EntryOK, EntryTrue
  <2> QED
    BY <1>0, <2>1, CacheFrom
<1>8. PathInv'
  <2>1. FrameOK(cache, Top')
    BY <1>1 DEF FrameOK
  <2>2. ASSUME NEW i \in DOMAIN path' PROVE FrameOK(cache', path'[i])
    BY <1>0, <1>3, <2>1 DEF FormInv, PathInv
  <2> QED
    BY <1>0, <2>2, PathFrom
<1>9. AnswerInv' /\ AnswerReaches'
  BY DEF AnswerInv, AnswerReaches
<1> QED
  BY <1>5, <1>6, <1>7, <1>8, <1>9 DEF FormInv, HorizonInv

(* What the invariant says of the top frame.                                *)
LEMMA TopInv ==
    ASSUME FormInv, path # <<>>
    PROVE  /\ FormTypeOK /\ ShapeInv /\ IsFrame(Top) /\ IsLattice(Top.lattice) /\ IsClear(Top)
           /\ Top.form \in Forms /\ Top.at \in Nat
           /\ Len(path) \in Nat \ {0} /\ Len(path) \in DOMAIN path /\ Top = path[Len(path)]
           /\ KnownByCache(cache, Top.form, Top.at, Top.lattice)
           /\ LanesTrue(Top.form, Top.at, Top.lattice)
           /\ \/ Top.form \notin DOMAIN cache \/ NeverKnown(Top.form)
              \/ cache[Top.form].through <= Top.lattice.through
           /\ TopReaches(Top.lattice)
           /\ Top.form \in DOMAIN cache =>
                 cache[Top.form].through + Len(path) < MaxNestedFormDepth + 1
<1>1. FormTypeOK /\ ShapeInv
  BY DEF FormInv, ShapeInv
<1>2. /\ Len(path) \in Nat \ {0} /\ Len(path) \in DOMAIN path /\ Top = path[Len(path)]
      /\ IsFrame(Top) /\ Top.form \in Forms /\ Top.at \in Nat
  BY <1>1, TopFacts
<1>3. IsClear(Top) /\ FrameOK(cache, Top)
  BY <1>2 DEF FormInv, BodyInv, PathInv
<1>4. /\ TopReaches(Top.lattice)
      /\ Top.form \in DOMAIN cache =>
            cache[Top.form].through + Len(path) < MaxNestedFormDepth + 1
  BY <1>2 DEF FormInv, HorizonInv, FramesReach, TopReaches
<1> QED
  BY <1>1, <1>2, <1>3, <1>4 DEF FrameOK, IsFrame

(* A paint adds the lanes it consumes.                                      *)
LEMMA PaintKeeps ==
    ASSUME FormInv, Paint, ShapeInv'
    PROVE  FormInv'
<1> DEFINE lattice == MarkConsumed(Top.lattice, CurrentOp.lanes)
           f == Top.form
           at == Top.at
<1>1. /\ path # <<>> /\ at \in DOMAIN forms[f].ops /\ Step(f, at).kind = "Paint"
      /\ CurrentOp = Step(f, at)
  BY WalkingFacts DEF Paint, FormInv
<1>2. /\ FormTypeOK /\ IsLattice(Top.lattice) /\ f \in Forms /\ at \in Nat
      /\ KnownByCache(cache, f, at, Top.lattice) /\ LanesTrue(f, at, Top.lattice)
      /\ \/ f \notin DOMAIN cache \/ NeverKnown(f) \/ cache[f].through <= Top.lattice.through
      /\ TopReaches(Top.lattice)
  BY <1>1, TopInv
<1>3. /\ IsLattice(lattice) /\ lattice.through = Top.lattice.through
      /\ \A d \in Depths :
            lattice.slots[d] = IF Top.lattice.slots[d].known
                               THEN Proven(Top.lattice.slots[d].lanes \union Step(f, at).lanes)
                               ELSE Unknown
  BY <1>1, <1>2, MarkConsumedIs
<1>4. Advance(lattice) /\ control' = "walk" /\ UNCHANGED <<Request, analyzer, answer>>
  BY DEF Paint, Walking
<1> HIDE DEF lattice
<1>5. \A d \in 0 .. lattice.through :
         /\ d \in Depths /\ d \in 0 .. Top.lattice.through
         /\ lattice.slots[d].known <=> Top.lattice.slots[d].known
         /\ lattice.slots[d].known =>
               lattice.slots[d].lanes = Top.lattice.slots[d].lanes \union Step(f, at).lanes
  <2> SUFFICES ASSUME NEW d \in 0 .. lattice.through
               PROVE  /\ d \in Depths /\ d \in 0 .. Top.lattice.through
                      /\ lattice.slots[d].known <=> Top.lattice.slots[d].known
                      /\ lattice.slots[d].known =>
                            lattice.slots[d].lanes
                               = Top.lattice.slots[d].lanes \union Step(f, at).lanes
    OBVIOUS
  <2>1. d \in Depths /\ d \in 0 .. Top.lattice.through
    BY <1>2, <1>3, DepthsUpTo
  <2>2. Unknown.known = FALSE
        /\ \A lanes : Proven(lanes).known = TRUE /\ Proven(lanes).lanes = lanes
    BY SlotFacts
  <2>3. CASE Top.lattice.slots[d].known
    BY <1>3, <2>1, <2>2, <2>3
  <2>4. CASE ~Top.lattice.slots[d].known
    BY <1>3, <2>1, <2>2, <2>4
  <2> QED
    BY <2>1, <2>3, <2>4
<1>6. \A m \in Invoked(f) : m \in Nat /\ m # at
  BY <1>1, <1>2, InvokedFacts DEF Invoked, OpsOfKind
<1>7. \A m \in Invoked(f) : m < at + 1 <=> m < at
  BY <1>2, <1>6
<1> HIDE DEF f, at
<1>8. KnownByCache(cache, f, at + 1, lattice)
  BY <1>2, <1>5, <1>7 DEF KnownByCache
<1>9. LanesTrue(f, at + 1, lattice)
  <2>1. ASSUME NEW below
        PROVE  ConsumedBefore(below, f, at + 1)
                  = ConsumedBefore(below, f, at) \union Step(f, at).lanes
    <3>1. {m \in Invoked(f) : m < at + 1} = {m \in Invoked(f) : m < at}
      BY <1>7
    <3>2. {m \in OpsOfKind(f, "Paint") : m < at + 1}
             = {m \in OpsOfKind(f, "Paint") : m < at} \union {at}
      <4>1. at \in OpsOfKind(f, "Paint") /\ \A m \in OpsOfKind(f, "Paint") : m \in Nat
        BY <1>1, <1>2, BodyFacts DEF OpsOfKind, f, at
      <4>2. \A m \in OpsOfKind(f, "Paint") : m < at + 1 <=> m < at \/ m = at
        BY <1>2, <4>1 DEF at
      <4> QED
        BY <4>1, <4>2
    <3> QED
      BY <3>1, <3>2 DEF ConsumedBefore
  <2> QED
    BY <1>2, <1>5, <2>1 DEF LanesTrue
<1>10. Step(f, at).kind # "Refuse"
  BY <1>1
<1>11. TopReaches(lattice)
  BY <1>2, <1>3 DEF TopReaches
<1> QED
  BY <1>1, <1>2, <1>3, <1>4, <1>8, <1>9, <1>10, <1>11, AdvanceKeeps DEF f, at

----------------------------------------------------------------------------
(* A folded slot is known if both slots are.                                *)
LEMMA FoldedIs ==
    ASSUME NEW parent, NEW child, IsSlot(parent), IsSlot(child), NEW live
    PROVE  /\ Folded(parent, child, live).known <=> parent.known /\ child.known
           /\ Folded(parent, child, live).known =>
                 Folded(parent, child, live).lanes = parent.lanes \union (child.lanes \intersect live)
<1>1. CASE parent.known /\ child.known
  BY <1>1, SlotFacts DEF Folded
<1>2. CASE ~(parent.known /\ child.known)
  BY <1>2, SlotFacts DEF Folded
<1> QED
  BY <1>1, <1>2

(* How far a fold lets the caller's frame reach, and that it keeps what the *)
(* cache has of the caller.                                                 *)
LEMMA FoldReaches ==
    ASSUME FormInv, control = "return", path # <<>>
    PROVE  /\ TopReaches(FoldedLattice)
           /\ \/ Top.form \notin DOMAIN cache \/ NeverKnown(Top.form)
              \/ cache[Top.form].through <= FoldedLattice.through
<1> DEFINE f == Top.form
           at == Top.at
<1>1. /\ FormTypeOK /\ ShapeInv /\ IsLattice(Top.lattice) /\ f \in Forms /\ at \in Nat
      /\ Len(path) \in Nat \ {0}
      /\ \/ f \notin DOMAIN cache \/ NeverKnown(f) \/ cache[f].through <= Top.lattice.through
      /\ TopReaches(Top.lattice)
      /\ f \in DOMAIN cache => cache[f].through + Len(path) < MaxNestedFormDepth + 1
  BY TopInv
<1>2. /\ Callee = Step(f, at).form /\ at \in Invoked(f)
  BY <1>1, CalleeFacts
<1>3. IsLattice(answer.entry) /\ IsCache(cache) /\ CacheOK(cache, BudgetsLast)
  BY CacheFacts DEF FormTypeOK
<1>4. /\ IsLattice(FoldedLattice)
      /\ answer.available =>
            \/ FoldedLattice.through = Top.lattice.through
            \/ FoldedLattice.through = answer.entry.through + 1
      /\ ~answer.available => FoldedLattice.through = 0
  BY <1>1, FoldedLatticeIs
<1>5. /\ Top.lattice.through \in Nat /\ answer.entry.through \in Nat
      /\ FoldedLattice.through \in Nat
  BY <1>1, <1>3, <1>4, DepthsUpTo
<1>6. /\ answer.available => (BudgetsLast => MaxNestedFormDepth <= answer.entry.through + Len(path))
      /\ ~answer.available => ~(Len(path) <= MaxNestedFormDepth) /\ Callee \notin DOMAIN cache
  BY DEF FormInv, HorizonInv, AnswerReaches, WithinHorizon
<1> HIDE DEF f, at
<1>7. TopReaches(FoldedLattice)
  BY <1>1, <1>4, <1>5, <1>6, DepthAssumption DEF TopReaches
<1>8. ASSUME f \in DOMAIN cache, ~NeverKnown(f), cache[f].through # 0
      PROVE  /\ Callee \in DOMAIN cache /\ cache[f].through - 1 <= cache[Callee].through
             /\ ~NeverKnown(Callee)
  <2>1. IsLattice(cache[f]) /\ EntryOK(cache, f, cache[f], BudgetsLast)
    BY <1>3, <1>8 DEF IsCache, CacheOK
  <2>2. cache[f].through \in Nat
    BY <2>1, DepthsUpTo
  <2>3. cache[f].through < MaxNestedFormDepth
    BY <1>1, <1>8, <2>2, DepthAssumption
  <2>4. KnownByCache(cache, f, Len(forms[f].ops) + 1, cache[f])
    BY <2>1, <2>3 DEF EntryOK, IsWalked
  <2>5. at < Len(forms[f].ops) + 1
    BY <1>1, <1>2, InvokedFacts, BodyFacts
  <2>6. cache[f].through \in 0 .. cache[f].through /\ cache[f].through > 0
    BY <1>8, <2>2
  <2>7. Settled(cache, Callee, cache[f].through - 1)
    BY <1>2, <2>4, <2>5, <2>6 DEF KnownByCache
  <2>8. ~NeverKnown(Callee)
    BY <1>1, <1>2, <1>8, NeverKnownCaller
  <2> QED
    BY <2>7, <2>8 DEF Settled
<1>9. f \notin DOMAIN cache \/ NeverKnown(f) \/ cache[f].through <= FoldedLattice.through
  <2> SUFFICES ASSUME f \in DOMAIN cache, ~NeverKnown(f)
               PROVE  cache[f].through <= FoldedLattice.through
    OBVIOUS
  <2>1. cache[f].through \in Nat
    BY <1>3, DepthsUpTo DEF IsCache
  <2>2. CASE cache[f].through = 0
    BY <1>5, <2>2
  <2>3. CASE cache[f].through # 0
    <3>1. /\ Callee \in DOMAIN cache /\ cache[f].through - 1 <= cache[Callee].through
          /\ ~NeverKnown(Callee)
      BY <1>8, <2>3
    <3>2. answer.available
      BY <1>6, <3>1
    <3>3. answer.entry = cache[Callee]
      BY <3>1, <3>2 DEF FormInv, AnswerInv, AnswerOK
    <3> QED
      BY <1>1, <1>4, <1>5, <2>1, <3>1, <3>2, <3>3
  <2> QED
    BY <2>2, <2>3
<1> QED
  BY <1>7, <1>9 DEF f

(* The lanes and the knowledge that a fold adds are the child's.            *)
LEMMA FoldIsTrue ==
    ASSUME FormInv, control = "return", path # <<>>
    PROVE  /\ KnownByCache(cache, Top.form, Top.at + 1, FoldedLattice)
           /\ LanesTrue(Top.form, Top.at + 1, FoldedLattice)
<1> DEFINE f == Top.form
           at == Top.at
           lattice == Top.lattice
           child == answer.entry
           live == CurrentOp.live
           folded == FoldedLattice
<1>1. /\ FormTypeOK /\ ShapeInv /\ IsLattice(lattice) /\ f \in Forms /\ at \in Nat
      /\ KnownByCache(cache, f, at, lattice) /\ LanesTrue(f, at, lattice)
  BY TopInv
<1>2. /\ Callee = Step(f, at).form /\ at \in Invoked(f) /\ live = Step(f, at).live
  BY <1>1, CalleeFacts, TopFacts
<1>3. IsLattice(child)
  BY <1>1 DEF FormTypeOK
<1>4. /\ IsLattice(folded)
      /\ folded.slots[0] = Unknown
      /\ answer.available =>
            /\ folded.through <= lattice.through
            /\ folded.through <= child.through + 1
            /\ \A d \in 1 .. folded.through :
                  folded.slots[d] = Folded(lattice.slots[d], child.slots[d - 1], live)
      /\ ~answer.available => folded.through = 0
  BY <1>1, FoldedLatticeIs
<1>5. answer.available => AnswerOK(cache, Callee, child, BudgetsLast)
  BY DEF FormInv, AnswerInv
<1>6. \A m \in Invoked(f) : m < at + 1 <=> m < at \/ m = at
  BY <1>1, InvokedFacts
<1>7. /\ folded.through \in Nat /\ lattice.through \in Nat /\ child.through \in Nat
      /\ \A d \in Depths : IsSlot(lattice.slots[d]) /\ IsSlot(child.slots[d])
  BY <1>1, <1>3, <1>4, DepthsUpTo
<1>8. \A below : ConsumedBefore(below, f, at + 1)
                   = ConsumedBefore(below, f, at)
                     \union (below[Step(f, at).form].lanes \intersect Step(f, at).live)
  <2> SUFFICES ASSUME NEW below
               PROVE  ConsumedBefore(below, f, at + 1)
                         = ConsumedBefore(below, f, at)
                           \union (below[Step(f, at).form].lanes \intersect Step(f, at).live)
    OBVIOUS
  <2>1. {m \in Invoked(f) : m < at + 1} = {m \in Invoked(f) : m < at} \union {at}
    BY <1>2, <1>6
  <2>2. {m \in OpsOfKind(f, "Paint") : m < at + 1} = {m \in OpsOfKind(f, "Paint") : m < at}
    <3>1. ASSUME NEW m \in OpsOfKind(f, "Paint") PROVE m < at + 1 <=> m < at
      <4>1. m \in Nat /\ m # at
        BY <1>1, <1>2, BodyFacts DEF OpsOfKind, Invoked
      <4> QED
        BY <1>1, <4>1
    <3> QED
      BY <3>1
  <2> QED
    BY <2>1, <2>2 DEF ConsumedBefore
<1> HIDE DEF f, at, lattice, child, live, folded
(* The slot below, and what the answer says of it.                          *)
<1>9. ASSUME NEW d \in 0 .. folded.through, d # 0
      PROVE  /\ answer.available /\ d > 0
             /\ d \in 0 .. lattice.through /\ d - 1 \in 0 .. child.through
             /\ folded.slots[d] = Folded(lattice.slots[d], child.slots[d - 1], live)
             /\ IsSlot(lattice.slots[d]) /\ IsSlot(child.slots[d - 1])
             /\ Settled(cache, Callee, d - 1)
             /\ child.slots[d - 1].known <=> CacheKnows(cache, Callee, d - 1)
             /\ child.slots[d - 1].known => child.slots[d - 1] = Effect[d - 1][Callee]
  <2>1. answer.available /\ d > 0 /\ d \in 1 .. folded.through
    BY <1>4, <1>7, <1>9
  <2>2. d \in 0 .. lattice.through /\ d - 1 \in 0 .. child.through
    BY <1>4, <1>7, <2>1
  <2>3. IsSlot(lattice.slots[d]) /\ IsSlot(child.slots[d - 1])
    BY <1>1, <1>3, <1>7, <2>2, DepthsUpTo
  <2> QED
    BY <1>4, <1>5, <2>1, <2>2, <2>3 DEF AnswerOK, EntryTrue, KnownTrue
<1>10. KnownByCache(cache, f, at + 1, folded)
  <2> SUFFICES ASSUME NEW d \in 0 .. folded.through
               PROVE  /\ \A m \in Invoked(f) :
                            m < at + 1 /\ d > 0 => Settled(cache, Step(f, m).form, d - 1)
                      /\ folded.slots[d].known <=>
                            \A m \in Invoked(f) :
                               m < at + 1 => d > 0 /\ CacheKnows(cache, Step(f, m).form, d - 1)
    BY DEF KnownByCache
  <2>1. CASE d = 0
    <3>1. ~folded.slots[d].known /\ ~(d > 0)
      BY <1>4, <2>1, SlotFacts
    <3> QED
      BY <1>2, <1>6, <3>1
  <2>2. CASE d # 0
    <3>1. /\ d > 0 /\ d \in 0 .. lattice.through
          /\ folded.slots[d] = Folded(lattice.slots[d], child.slots[d - 1], live)
          /\ IsSlot(lattice.slots[d]) /\ IsSlot(child.slots[d - 1])
          /\ Settled(cache, Callee, d - 1)
          /\ child.slots[d - 1].known <=> CacheKnows(cache, Callee, d - 1)
      BY <1>9, <2>2
    <3>2. folded.slots[d].known <=> lattice.slots[d].known /\ child.slots[d - 1].known
      BY <3>1, FoldedIs
    <3>3. /\ \A m \in Invoked(f) : m < at => Settled(cache, Step(f, m).form, d - 1)
          /\ lattice.slots[d].known <=>
                \A m \in Invoked(f) : m < at => CacheKnows(cache, Step(f, m).form, d - 1)
      BY <1>1, <3>1 DEF KnownByCache
    <3>4. \A m \in Invoked(f) : m < at + 1 => Settled(cache, Step(f, m).form, d - 1)
      BY <1>2, <1>6, <3>1, <3>3
    <3>5. folded.slots[d].known <=>
             \A m \in Invoked(f) : m < at + 1 => CacheKnows(cache, Step(f, m).form, d - 1)
      BY <1>2, <1>6, <3>1, <3>2, <3>3
    <3> QED
      BY <3>1, <3>4, <3>5
  <2> QED
    BY <2>1, <2>2
<1>11. LanesTrue(f, at + 1, folded)
  <2> SUFFICES ASSUME NEW d \in 0 .. folded.through, folded.slots[d].known
               PROVE  folded.slots[d].lanes = ConsumedBefore(Effect[d - 1], f, at + 1)
    BY DEF LanesTrue
  <2>1. d # 0
    BY <1>4, SlotFacts
  <2>2. /\ d \in 0 .. lattice.through
        /\ folded.slots[d] = Folded(lattice.slots[d], child.slots[d - 1], live)
        /\ IsSlot(lattice.slots[d]) /\ IsSlot(child.slots[d - 1])
        /\ child.slots[d - 1].known => child.slots[d - 1] = Effect[d - 1][Callee]
    BY <1>9, <2>1
  <2>3. /\ lattice.slots[d].known /\ child.slots[d - 1].known
        /\ folded.slots[d].lanes = lattice.slots[d].lanes \union (child.slots[d - 1].lanes \intersect live)
    BY <2>2, FoldedIs
  <2>4. lattice.slots[d].lanes = ConsumedBefore(Effect[d - 1], f, at)
    BY <1>1, <2>2, <2>3 DEF LanesTrue
  <2> QED
    BY <1>2, <1>8, <2>2, <2>3, <2>4
<1> QED
  BY <1>10, <1>11 DEF f, at, folded

(* A fold keeps FormInv.                                                    *)
LEMMA FoldKeeps ==
    ASSUME FormInv, Fold, ShapeInv'
    PROVE  FormInv'
<1>1. Advance(FoldedLattice) /\ path # <<>> /\ control = "return"
  BY FoldAdvances
<1>2. control' = "walk" /\ UNCHANGED <<Request, analyzer, answer>>
  BY DEF Fold
<1>3. ShapeInv
  BY DEF FormInv
<1>4. IsLattice(FoldedLattice)
  BY <1>1, <1>3, FoldedLatticeIs
<1>5. Top.at \in DOMAIN forms[Top.form].ops /\ Step(Top.form, Top.at).kind # "Refuse"
  BY <1>1, <1>3, CalleeFacts DEF Invoked, OpsOfKind
<1> QED
  BY <1>1, <1>2, <1>4, <1>5, FoldReaches, FoldIsTrue, AdvanceKeeps

----------------------------------------------------------------------------
(* Leaving a frame.                                                         *)
LEMMA LeaveFacts ==
    ASSUME FormInv, path # <<>>, path' = Front(path), UNCHANGED <<forms, demanded>>
    PROVE  /\ Len(path') = Len(path) - 1 /\ Len(path') \in Nat /\ Callee' = Top.form
           /\ \A i \in DOMAIN path' :
                 i \in DOMAIN path /\ path'[i] = path[i] /\ path[i].form # Top.form
<1>1. ShapeInv
  BY DEF FormInv
<1>2. /\ Len(path') = Len(path) - 1 /\ DOMAIN path' = 1 .. Len(path) - 1 /\ Callee' = Top.form
      /\ \A i \in 1 .. Len(path) - 1 : path'[i] = path[i]
  BY <1>1, PoppedShape
<1>3. /\ Len(path) \in Nat \ {0} /\ Len(path) \in DOMAIN path /\ DOMAIN path = 1 .. Len(path)
      /\ Top = path[Len(path)]
  BY <1>1, TopFacts DEF ShapeInv
<1>4. ASSUME NEW i \in 1 .. Len(path) - 1 PROVE i \in DOMAIN path /\ path[i].form # Top.form
  <2>1. Len(path) \in Nat
    BY <1>3
  <2>2. i \in 1 .. Len(path) /\ i # Len(path)
    BY <2>1
  <2>3. i \in DOMAIN path
    BY <1>3, <2>2
  <2> QED
    BY <1>1, <1>3, <2>2, <2>3 DEF ShapeInv, StackInv
<1> QED
  BY <1>2, <1>3, <1>4

(* A cached form that is computed again was walked to its end before, so it *)
(* has no refusal to stop at.                                               *)
LEMMA RecomputedIsWalked ==
    ASSUME FormInv, path # <<>>, Top.form \in DOMAIN cache
    PROVE  /\ IsLattice(cache[Top.form])
           /\ EntryOK(cache, Top.form, cache[Top.form], BudgetsLast)
           /\ IsWalked(cache, Top.form, cache[Top.form])
<1>1. /\ IsLattice(cache[Top.form]) /\ EntryOK(cache, Top.form, cache[Top.form], BudgetsLast)
  BY CacheFacts DEF IsCache, CacheOK
<1>2. cache[Top.form].through < MaxNestedFormDepth
  <2>1. cache[Top.form].through \in Nat
    BY <1>1, DepthsUpTo
  <2>2. cache[Top.form].through + Len(path) < MaxNestedFormDepth + 1 /\ Len(path) \in Nat \ {0}
    BY TopInv
  <2> QED
    BY <2>1, <2>2, DepthAssumption
<1> QED
  BY <1>1, <1>2 DEF EntryOK

(* A body that is refused was never cached, and is proven at no depth.      *)
LEMMA RefuseBodyIs ==
    ASSUME FormInv, RefuseBody
    PROVE  /\ path # <<>> /\ Top.form \in Forms
           /\ Top.form \notin DOMAIN cache
           /\ NeverKnown(Top.form)
<1>1. /\ path # <<>> /\ Top.at \in DOMAIN forms[Top.form].ops
      /\ Step(Top.form, Top.at).kind = "Refuse"
  BY WalkingFacts DEF RefuseBody, FormInv
<1>2. Top.form \in Forms /\ Top.at \in OpsOfKind(Top.form, "Refuse")
  BY <1>1, TopInv DEF OpsOfKind
<1>3. Top.form \notin DOMAIN cache
  BY <1>1, <1>2, RecomputedIsWalked DEF IsWalked
<1>4. NeverKnown(Top.form)
  BY <1>2, EffectFacts DEF NeverKnown, Provable
<1> QED
  BY <1>1, <1>2, <1>3, <1>4

(* So its refusal takes nothing back.                                       *)
LEMMA RefuseBodyKeeps ==
    ASSUME FormInv, RefuseBody, ShapeInv', BudgetsLast' => BudgetsLast
    PROVE  FormInv'
<1>1. /\ Publish(Top.form, Failed(Top.form, CurrentOp.class)) /\ path' = Front(path)
      /\ UNCHANGED <<forms, demanded>>
  BY DEF RefuseBody, Request
<1>2. path # <<>> /\ Top.form \in Forms /\ Top.form \notin DOMAIN cache /\ NeverKnown(Top.form)
  BY RefuseBodyIs
<1>3. /\ Len(path') \in Nat /\ Callee' = Top.form
      /\ \A i \in DOMAIN path' :
            i \in DOMAIN path /\ path'[i] = path[i] /\ path[i].form # Top.form
  BY <1>1, <1>2, LeaveFacts
<1>4. BodyInv' /\ HorizonInv' /\ CacheInv' /\ PathInv' /\ AnswerInv'
  BY <1>1, <1>2, <1>3, FailedKeeps
<1> QED
  BY <1>4 DEF FormInv

(* The lattice of a frame that was walked to its end.                       *)
LEMMA ClosedIsTrue ==
    ASSUME FormInv, CloseFrame, BudgetsLast' => BudgetsLast
    PROVE  /\ path # <<>> /\ Top.form \in Forms /\ IsLattice(ClosedLattice)
           /\ ClosedLattice.slots = Top.lattice.slots
           /\ ClosedLattice.through = Top.lattice.through
           /\ EntryOK(cache, Top.form, ClosedLattice, BudgetsLast')
           /\ Extends(cache, Top.form, ClosedLattice)
<1> DEFINE f == Top.form
           entry == ClosedLattice
<1>1. control = "walk" /\ AtEnd
  BY CloseFramePublishes
<1>2. path # <<>> /\ ShapeInv /\ FormTypeOK
  BY <1>1 DEF FormInv, ShapeInv, FormTypeOK
<1>3. /\ f \in Forms /\ IsLattice(Top.lattice) /\ IsClear(Top) /\ IsFrame(Top)
      /\ KnownByCache(cache, f, Top.at, Top.lattice) /\ LanesTrue(f, Top.at, Top.lattice)
      /\ f \notin DOMAIN cache \/ NeverKnown(f) \/ cache[f].through <= Top.lattice.through
  BY <1>2, TopInv
<1>4. IsLattice(entry) /\ entry.slots = Top.lattice.slots /\ entry.through = Top.lattice.through
  BY <1>1, <1>2, ClosedLatticeIs
<1>5. Top.at = Len(forms[f].ops) + 1
  BY <1>1, <1>2, <1>3, BodyFacts DEF AtEnd, IsFrame
<1> HIDE DEF entry
<1>6. IsWalked(cache, f, entry)
  <2>1. OpsOfKind(f, "Refuse") = {}
    <3>1. ASSUME NEW m \in OpsOfKind(f, "Refuse") PROVE FALSE
      <4>1. Len(forms[f].ops) + 1 <= m
        BY <1>3, <1>5 DEF IsClear
      <4> QED
        BY <1>2, <1>3, <4>1, BodyFacts DEF OpsOfKind
    <3> QED
      BY <3>1
  <2>2. KnownByCache(cache, f, Len(forms[f].ops) + 1, entry)
    <3>1. KnownByCache(cache, f, Len(forms[f].ops) + 1, Top.lattice)
      BY <1>3, <1>5
    <3> QED
      BY <1>4, <3>1, SameSlots
  <2> QED
    BY <1>3, <2>1, <2>2 DEF IsWalked, IsClear
<1>7. LanesTrue(f, Len(forms[f].ops) + 1, entry)
  <2>1. LanesTrue(f, Len(forms[f].ops) + 1, Top.lattice)
    BY <1>3, <1>5
  <2> QED
    BY <1>4, <2>1, SameSlots
<1>8. IsCache(cache) /\ CacheOK(cache, BudgetsLast)
  BY CacheFacts
<1>9. KnownTrue(f, entry)
  BY <1>2, <1>3, <1>4, <1>6, <1>7, <1>8, WalkedIsTrue
<1>10. BudgetsLast' => UnknownTrue(f, entry)
  <2>1. BudgetsLast' => CacheOK(cache, TRUE)
    BY <1>8 DEF CacheOK, EntryOK, EntryTrue
  <2> QED
    BY <1>2, <1>3, <1>4, <1>6, <1>8, <2>1, UnknownIsTrue
<1>11. EntryOK(cache, f, entry, BudgetsLast')
  BY <1>6, <1>9, <1>10 DEF EntryOK, EntryTrue
<1>12. Extends(cache, f, entry)
  <2> SUFFICES ASSUME f \in DOMAIN cache, ~NeverKnown(f)
               PROVE  /\ cache[f].through <= entry.through
                      /\ \A d \in 0 .. cache[f].through :
                            entry.slots[d].known <=> cache[f].slots[d].known
    BY DEF Extends
  <2>1. IsLattice(cache[f]) /\ IsWalked(cache, f, cache[f])
    BY <1>2, RecomputedIsWalked
  <2>2. cache[f].through <= entry.through
    BY <1>3, <1>4
  <2>3. /\ KnownByCache(cache, f, Len(forms[f].ops) + 1, cache[f])
        /\ KnownByCache(cache, f, Len(forms[f].ops) + 1, entry)
    BY <1>6, <2>1 DEF IsWalked
  <2> QED
    BY <1>4, <2>1, <2>2, <2>3, KnownAlike
<1> QED
  BY <1>2, <1>3, <1>4, <1>11, <1>12 DEF entry

(* The return from a body walked to its end keeps FormInv.                  *)
LEMMA CloseFrameKeeps ==
    ASSUME FormInv, CloseFrame, ShapeInv', BudgetsLast' => BudgetsLast
    PROVE  FormInv'
<1>1. /\ Publish(Top.form, ClosedLattice) /\ path' = Front(path) /\ UNCHANGED <<forms, demanded>>
  BY CloseFramePublishes DEF Request
<1>2. /\ path # <<>> /\ Top.form \in Forms /\ IsLattice(ClosedLattice)
      /\ ClosedLattice.through = Top.lattice.through
      /\ EntryOK(cache, Top.form, ClosedLattice, BudgetsLast')
      /\ Extends(cache, Top.form, ClosedLattice)
  BY ClosedIsTrue
<1>3. /\ Len(path') = Len(path) - 1 /\ Callee' = Top.form
      /\ \A i \in DOMAIN path' :
            i \in DOMAIN path /\ path'[i] = path[i] /\ path[i].form # Top.form
  BY <1>1, <1>2, LeaveFacts
<1>4. BudgetsLast' => BudgetsLast /\ MaxNestedFormDepth <= ClosedLattice.through + Len(path')
  <2>1. TopReaches(Top.lattice) /\ IsLattice(Top.lattice) /\ Len(path) \in Nat
    BY <1>2, TopInv
  <2>2. Top.lattice.through \in Nat
    BY <2>1, DepthsUpTo
  <2> QED
    BY <1>2, <1>3, <2>1, <2>2, DepthAssumption DEF TopReaches
<1>5. BodyInv' /\ HorizonInv' /\ CacheInv' /\ PathInv' /\ AnswerInv'
  BY <1>1, <1>2, <1>3, <1>4, PublishKeeps
<1> QED
  BY <1>5 DEF FormInv

----------------------------------------------------------------------------
(* FormInv holds initially.                                                 *)
LEMMA FormInit == Init => FormInv
<1> SUFFICES ASSUME Init PROVE FormInv
  OBVIOUS
<1>1. ShapeInv
  BY ShapeInit
<1>2. DOMAIN path = {} /\ DOMAIN cache = {} /\ control = "idle"
  BY DEF Init
<1> QED
  BY <1>1, <1>2 DEF FormInv, BodyInv, HorizonInv, FramesReach, AnswerReaches, CacheInv, CacheOK,
     PathInv, AnswerInv

(* Every action keeps FormInv.                                              *)
LEMMA FormNext == FormInv /\ [Next]_vars => FormInv'
<1> SUFFICES ASSUME FormInv, [Next]_vars PROVE FormInv'
  OBVIOUS
<1>1. ShapeInv'
  BY ShapeNext DEF FormInv
<1>2. BudgetsLast' => BudgetsLast
  BY BudgetsShrink
<1>3. CASE Demand
  BY <1>1, <1>3, SilentKeeps DEF Demand, analyzer
<1>4. CASE BeginPage
  BY <1>1, <1>4, SilentKeeps DEF BeginPage, analyzer
<1>5. CASE ReenterCycle
  BY <1>1, <1>5, ReenterCycleKeeps
<1>6. CASE ServeCached
  BY <1>1, <1>6, ServeCachedKeeps
<1>7. CASE CutAtHorizon
  BY <1>1, <1>7, CutAtHorizonKeeps
<1>8. CASE RefuseTarget
  BY <1>1, <1>8, RefuseTargetKeeps
<1>9. CASE RefuseGate
  BY <1>1, <1>2, <1>9, RefuseGateKeeps
<1>10. CASE RefuseBytes
  BY <1>1, <1>10, RefuseBytesKeeps
<1>11. CASE OpenFrame
  BY <1>1, <1>2, <1>11, OpenFrameKeeps
<1>12. CASE Paint
  BY <1>1, <1>12, PaintKeeps
<1>13. CASE Invoke
  BY <1>1, <1>13, SilentKeeps DEF Invoke, Request, analyzer
<1>14. CASE RefuseBody
  BY <1>1, <1>2, <1>14, RefuseBodyKeeps
<1>15. CASE CloseFrame
  BY <1>1, <1>2, <1>15, CloseFrameKeeps
<1>16. CASE Fold
  BY <1>1, <1>16, FoldKeeps
<1>17. CASE Tally
  BY <1>1, <1>17, SilentKeeps DEF Tally, analyzer
<1>18. CASE UNCHANGED vars
  BY <1>18, StutterKeeps
<1> QED
  BY <1>3, <1>4, <1>5, <1>6, <1>7, <1>8, <1>9, <1>10, <1>11, <1>12, <1>13, <1>14, <1>15, <1>16,
     <1>17, <1>18 DEF Next

(* FormInv is an invariant of the analyzer.                                 *)
LEMMA FormInvHolds == Spec => []FormInv
  BY FormInit, FormNext, PTL DEF Spec

----------------------------------------------------------------------------
(* The theorems.                                                            *)

(* What is published of a form is what the form consumes: a slot that is    *)
(* known is true whatever the budgets cut short, and one that is not is     *)
(* unprovable while they last.                                              *)
THEOREM PublishedIsAlwaysTrue == Spec => []PublishedIsTrue
<1>1. FormInv => PublishedIsTrue
  <2> SUFFICES ASSUME FormInv, NEW f \in DOMAIN cache, NEW d \in 0 .. cache[f].through,
                      cache[f].slots[d].known \/ BudgetsLast
               PROVE  cache[f].slots[d] = Effect[d][f]
    BY DEF PublishedIsTrue
  <2>1. f \in Forms /\ IsLattice(cache[f]) /\ EntryTrue(f, cache[f], BudgetsLast)
    BY CacheFacts DEF IsCache, CacheOK, EntryOK
  <2>2. CASE cache[f].slots[d].known
    BY <2>1, <2>2 DEF EntryTrue, KnownTrue
  <2>3. CASE ~cache[f].slots[d].known
    <3>1. ~Effect[d][f].known
      BY <2>1, <2>3 DEF EntryTrue, UnknownTrue
    <3>2. d \in Depths /\ IsSlot(cache[f].slots[d]) /\ IsSlot(Effect[d][f])
      BY <2>1, DepthsUpTo, EffectFacts
    <3> QED
      BY <2>3, <3>1, <3>2, SlotFacts
  <2> QED
    BY <2>2, <2>3
<1> QED
  BY <1>1, FormInvHolds, PTL

(* The verdict a page gets is the form's own while the budgets last.        *)
THEOREM AnswersIgnoreOrder == Spec => []AnswersAreOrderFree
<1>1. FormInv => AnswersAreOrderFree
  <2> SUFFICES ASSUME FormInv, control = "return", path = <<>>, BudgetsLast
               PROVE  MaxDepthEffect(answer.entry) = Effect[MaxNestedFormDepth][demanded]
    BY DEF AnswersAreOrderFree
  <2> DEFINE d == MaxNestedFormDepth
             entry == answer.entry
  <2>1. Len(path) = 0 /\ Callee = demanded
    BY DEF Callee
  <2>2. answer.available /\ d <= entry.through
    <3>1. /\ answer.available => d <= entry.through + Len(path)
          /\ ~answer.available => ~(Len(path) <= d)
      BY DEF FormInv, HorizonInv, AnswerReaches, WithinHorizon
    <3>2. IsLattice(entry)
      BY CacheFacts DEF FormTypeOK
    <3> QED
      BY <2>1, <3>1, <3>2, DepthsUpTo, DepthAssumption
  <2>3. IsLattice(entry) /\ demanded \in Forms
    BY CacheFacts DEF FormTypeOK
  <2>4. EntryTrue(demanded, entry, TRUE)
    BY <2>1, <2>2 DEF FormInv, AnswerInv, AnswerOK, EntryTrue
  <2>5. d \in Depths /\ d \in 0 .. entry.through
    BY <2>2, <2>3, DepthsUpTo, DepthAssumption DEF Depths
  <2>6. IsSlot(entry.slots[d]) /\ IsSlot(Effect[d][demanded])
    BY <2>3, <2>5, DepthsUpTo, EffectFacts
  <2>7. CASE entry.slots[d].known
    BY <2>4, <2>5, <2>7 DEF EntryTrue, KnownTrue, MaxDepthEffect
  <2>8. CASE ~entry.slots[d].known
    <3>1. ~Effect[d][demanded].known
      BY <2>4, <2>5, <2>8 DEF EntryTrue, UnknownTrue
    <3> QED
      BY <2>6, <2>8, <3>1, SlotFacts DEF MaxDepthEffect
  <2> QED
    BY <2>7, <2>8
<1> QED
  BY <1>1, FormInvHolds, PTL

(* The stack shrinks where a frame is left.                                 *)
LEMMA PathShrinks ==
    ASSUME FormInv, [Next]_vars, Len(path') < Len(path)
    PROVE  RefuseBody \/ CloseFrame
<1>1. ShapeInv /\ Len(path) \in Nat
  BY CacheFacts DEF FormInv
<1>2. CASE UNCHANGED path
  BY <1>1, <1>2
<1>3. CASE OpenFrame
  <2>1. Len(path') = Len(path) + 1
    BY <1>1, <1>3, PushedShape DEF OpenFrame, Computing, Request
  <2> QED
    BY <1>1, <2>1
<1>4. CASE Paint \/ Fold
  <2>1. path # <<>> /\ UNCHANGED forms /\ IsStack(path) /\ \E lattice : Advance(lattice)
    BY <1>1, <1>4, WalkingFacts, FoldAdvances, TopFacts DEF Paint, Fold, Request, ShapeInv, FormTypeOK, IsStack
  <2>2. Len(path') = Len(path)
    BY <2>1, TopReplaced DEF Advance
  <2> QED
    BY <1>1, <2>2
<1> QED
  BY <1>2, <1>3, <1>4 DEF Next, vars, Demand, BeginPage, ReenterCycle, ServeCached, CutAtHorizon,
     RefuseTarget, RefuseGate, RefuseBytes, Invoke, Tally

(* A walk that returns to a cached form while the budgets last reaches      *)
(* deeper than its entry.                                                   *)
LEMMA Deepens ==
    ASSUME FormInv, [Next]_vars, NEW f \in DOMAIN cache, Len(path') < Len(path), f = Top.form,
           BudgetsLast'
    PROVE  cache'[f].through > cache[f].through
<1>1. path # <<>>
  BY CacheFacts DEF IsStack
<1>2. CloseFrame /\ BudgetsLast
  BY PathShrinks, RefuseBodyIs, BudgetsShrink
<1>3. /\ ClosedLattice.through = Top.lattice.through /\ IsLattice(ClosedLattice)
      /\ Publish(f, ClosedLattice)
  BY <1>2, ClosedIsTrue, CloseFramePublishes
<1>4. cache'[f] = ClosedLattice
  BY <1>3, PublishIs
<1>5. /\ MaxNestedFormDepth + 1 <= Top.lattice.through + Len(path)
      /\ cache[f].through + Len(path) < MaxNestedFormDepth + 1
      /\ Len(path) \in Nat /\ IsLattice(Top.lattice)
  BY <1>1, <1>2, TopInv DEF TopReaches
<1>6. Top.lattice.through \in Nat /\ cache[f].through \in Nat
  BY <1>5, DepthsUpTo, CacheFacts DEF IsCache
<1> QED
  BY <1>3, <1>4, <1>5, <1>6, DepthAssumption

(* While the budgets last no walk of a cached form is wasted.               *)
THEOREM EveryDeepeningPays == Spec => DeepeningPays
<1>1. FormInv /\ [Next]_vars =>
         [\A f \in DOMAIN cache :
             Len(path') < Len(path) /\ f = Top.form /\ BudgetsLast' =>
                 cache'[f].through > cache[f].through]_vars
  BY Deepens
<1> QED
  BY <1>1, FormInvHolds, PTL DEF Spec, DeepeningPays

(* What a publication does to the slots that the form had.                  *)
KeepsSlots(f) ==
    /\ f \in DOMAIN cache'
    /\ \A d \in 0 .. cache[f].through : cache'[f].slots[d] = cache[f].slots[d]
    /\ BudgetsLast' => cache'[f].through >= cache[f].through
    /\ (\E d \in Depths : Effect[d][f].known) => cache'[f].through >= cache[f].through

(* A failure keeps the slots of every entry.                                *)
LEMMA FailedKeepsSlots ==
    ASSUME FormInv, NEW g, NEW class, Publish(g, Failed(g, class)), NEW f \in DOMAIN cache
    PROVE  KeepsSlots(f)
<1>1. FormTypeOK /\ IsLattice(cache[f])
  BY CacheFacts DEF IsCache
<1>2. cache[f].through \in Nat
  BY <1>1, DepthsUpTo
<1>3. CASE f = g
  <2>1. f \in DOMAIN cache' /\ cache'[f] = Failed(f, class)
    BY <1>3, PublishIs
  <2>2. Failed(f, class).slots = cache[f].slots /\ Failed(f, class).through = cache[f].through
    BY <1>1, FailedIs
  <2> QED
    BY <1>2, <2>1, <2>2 DEF KeepsSlots
<1>4. CASE f # g
  <2>1. f \in DOMAIN cache' /\ cache'[f] = cache[f]
    BY <1>4, PublishIs
  <2> QED
    BY <1>2, <2>1 DEF KeepsSlots
<1> QED
  BY <1>3, <1>4

(* A return keeps the slots of every entry: both the old and the new value  *)
(* of a known slot are the form's effect.                                   *)
LEMMA CloseKeepsSlots ==
    ASSUME FormInv, [Next]_vars, CloseFrame, NEW f \in DOMAIN cache
    PROVE  KeepsSlots(f)
<1>0. IsLattice(cache[f]) /\ KnownTrue(f, cache[f])
  BY CacheFacts DEF IsCache
<1>1. cache[f].through \in Nat
  BY <1>0, DepthsUpTo
<1>2. Publish(Top.form, ClosedLattice) /\ path' = Front(path) /\ UNCHANGED <<forms, demanded>>
  BY CloseFramePublishes DEF Request
<1>3. CASE f # Top.form
  <2>1. f \in DOMAIN cache' /\ cache'[f] = cache[f]
    BY <1>2, <1>3, PublishIs
  <2> QED
    BY <1>1, <2>1 DEF KeepsSlots
<1>4. CASE f = Top.form
  <2> DEFINE entry == ClosedLattice
  <2>1. f \in DOMAIN cache' /\ cache'[f] = entry
    BY <1>2, <1>4, PublishIs
  <2>2. /\ path # <<>> /\ IsLattice(entry) /\ EntryOK(cache, f, entry, BudgetsLast')
        /\ Extends(cache, f, entry)
    BY <1>4, BudgetsShrink, ClosedIsTrue
  <2>3. entry.through \in Nat /\ KnownTrue(f, entry)
    BY <2>2, DepthsUpTo DEF EntryOK, EntryTrue
  <2> HIDE DEF entry
  <2>4. ASSUME NEW d \in 0 .. cache[f].through PROVE entry.slots[d] = cache[f].slots[d]
    <3>1. d \in Depths /\ IsSlot(cache[f].slots[d]) /\ IsSlot(entry.slots[d])
      BY <1>0, <2>2, DepthsUpTo
    <3>2. CASE NeverKnown(f)
      <4>1. ~cache[f].slots[d].known
        BY <1>0, <3>1, <3>2 DEF KnownTrue, NeverKnown
      <4>2. entry.slots[d] = Unknown
        <5>1. CASE d > entry.through
          BY <2>2, <3>1, <5>1 DEF IsLattice
        <5>2. CASE ~(d > entry.through)
          <6>1. d \in 0 .. entry.through
            BY <2>3, <5>2
          <6>2. ~entry.slots[d].known
            BY <2>3, <3>1, <3>2, <6>1 DEF KnownTrue, NeverKnown
          <6> QED
            BY <3>1, <6>2, SlotFacts
        <5> QED
          BY <5>1, <5>2
      <4> QED
        BY <3>1, <4>1, <4>2, SlotFacts
    <3>3. CASE ~NeverKnown(f)
      <4>1. cache[f].through <= entry.through /\ (entry.slots[d].known <=> cache[f].slots[d].known)
        BY <2>2, <3>3 DEF Extends
      <4>2. d \in 0 .. entry.through
        BY <1>1, <2>3, <4>1
      <4>3. CASE entry.slots[d].known
        BY <1>0, <2>3, <4>1, <4>2, <4>3 DEF KnownTrue
      <4>4. CASE ~entry.slots[d].known
        BY <3>1, <4>1, <4>4, SlotFacts
      <4> QED
        BY <4>3, <4>4
    <3> QED
      BY <3>2, <3>3
  <2>5. entry.through >= cache[f].through \/ (~BudgetsLast' /\ NeverKnown(f))
    <3>1. CASE ~NeverKnown(f)
      BY <1>1, <2>2, <2>3, <3>1 DEF Extends
    <3>2. CASE BudgetsLast'
      <4>1. Len(path') < Len(path)
        <5>1. Len(path') = Len(path) - 1 /\ Len(path) \in Nat
          BY <1>2, <2>2, LeaveFacts, CacheFacts
        <5> QED
          BY <5>1
      <4> QED
        BY <1>1, <1>4, <2>1, <2>3, <3>2, <4>1, Deepens
    <3> QED
      BY <3>1, <3>2
  <2> QED
    BY <2>1, <2>4, <2>5 DEF KeepsSlots, NeverKnown
<1> QED
  BY <1>3, <1>4

(* No slot that was published ever changes, and a publication that leaves   *)
(* the budgets unspent, or is of a form known at some depth, gives up none. *)
THEOREM PublishedSlotsAlwaysStay == Spec => PublishedSlotsStay
<1>1. ASSUME FormInv, [Next]_vars, NEW f \in DOMAIN cache
      PROVE  KeepsSlots(f)
  <2>1. CASE cache' = cache
    <3>1. cache[f].through \in Nat
      BY <1>1, CacheFacts, DepthsUpTo DEF IsCache
    <3> QED
      BY <2>1, <3>1 DEF KeepsSlots
  <2>2. CASE RefuseTarget \/ RefuseGate \/ RefuseBytes \/ RefuseBody
    BY <1>1, <2>2, FailedKeepsSlots DEF RefuseTarget, RefuseGate, RefuseBytes, RefuseBody
  <2>3. CASE CloseFrame
    BY <1>1, <2>3, CloseKeepsSlots
  <2> QED
    BY <1>1, <2>1, <2>2, <2>3 DEF Next, vars, analyzer, Demand, BeginPage, ReenterCycle, ServeCached,
       CutAtHorizon, OpenFrame, Paint, Invoke, Fold, Tally
<1>2. FormInv /\ [Next]_vars =>
         [\A f \in DOMAIN cache :
            /\ f \in DOMAIN cache'
            /\ \A d \in 0 .. cache[f].through : cache'[f].slots[d] = cache[f].slots[d]
            /\ BudgetsLast' => cache'[f].through >= cache[f].through
            /\ (\E d \in Depths : Effect[d][f].known) => cache'[f].through >= cache[f].through]_vars
  BY <1>1 DEF KeepsSlots
<1> QED
  BY <1>2, FormInvHolds, PTL DEF Spec, PublishedSlotsStay
=============================================================================
