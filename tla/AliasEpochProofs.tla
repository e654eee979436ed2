-------------------------- MODULE AliasEpochProofs --------------------------
(***************************************************************************)
(* Proofs about the alias epoch plan of AliasEpoch, for every page, every  *)
(* environment and every policy: the branches the plan keeps are the       *)
(* colours the walker has, its counts of them are exact, the occurrences   *)
(* of one object always end with the same splices, the page that is        *)
(* written shows every colour as it was or converted, and on a plain page  *)
(* every epoch that is read and may be converted is.                       *)
(***************************************************************************)
EXTENDS AliasEpoch, NaturalOrder, SequenceTheorems, FiniteSetTheorems, TLAPS

(* The reasons for which the plan refuses an epoch when it and the walker  *)
(* agree; a disagreement is a reason of its own.                           *)
Reasons ==
  {"NoPreparedRoute", "RouteDefaultUnsafe", "SelectorExcluded", "IneligibleSetter",
   "UnclassifiedSetter", "CandidateNotLocalized", "CandidateOwnershipVetoed",
   "RepeatedReferenceMismatch", "TextShow", "XObjectInvoke", "InvalidGraphicsObjectContext",
   "UnbalancedSaveAtPageEnd"} \union OpaqueReasons

(* STRING, with the literals the walker uses: the provers do not know of a *)
(* literal that it is a string.                                            *)
Strings == STRING \union {NoName, "Gray", "unset", "indeterminate"}

Refusals == [at : Nat, why : Reasons \union {"none"}]
EpochType == [alias : Eligible, lane : Lanes, candidates : Seq([at : Nat, value : Nat]),
              consumed : BOOLEAN, live : Int, refusal : Refusals]
Branches == [root : Nat, value : Nat, source : Nat]
LanePairs == [Lanes -> Branches]
Colors == [space : Strings, value : Nat, name : Strings, source : Nat]
Snapshots == [stroke : Colors, fill : Colors, mode : Nat, font : Strings]
Walks == [gs : Snapshots, stack : Seq(Snapshots)]

(* The colour a branch is pending on is the walker's, unless its epoch has *)
(* been refused.                                                           *)
SameColor(E, b, c) ==
  b.root # 0 =>
    /\ b.root \in 1 .. Len(E)
    /\ E[b.root].refusal = NoRefusal =>
         /\ c.name = E[b.root].alias /\ c.space = AliasSpace[E[b.root].alias]
         /\ c.value = b.value /\ c.source = b.source
SameColors(E, l, gs) == \A lane \in Lanes : SameColor(E, l[lane], gs[lane])

(* The places of a plan that carry an epoch: lanes in hand, lanes saved.   *)
OneIf(l, lane, i) == IF l[lane].root = i THEN 1 ELSE 0
InHand(l, i) == OneIf(l, "stroke", i) + OneIf(l, "fill", i)
SavedPlaces(s, i) ==
  {place \in (1 .. Len(s)) \X Lanes : s[place[1]][place[2]].root = i}
Tally(l, s, i) == InHand(l, i) + Cardinality(SavedPlaces(s, i))

(* The plan's epochs E, branches l and saved branches s beside the walk w. *)
PlanOK(E, l, s, w) ==
  /\ E \in Seq(EpochType) /\ l \in LanePairs /\ s \in Seq(LanePairs) /\ w \in Walks
  /\ Len(s) = Len(w.stack)
  /\ SameColors(E, l, w.gs)
  /\ \A k \in 1 .. Len(s) : SameColors(E, s[k], w.stack[k])
  /\ \A i \in 1 .. Len(E) : E[i].live = Tally(l, s, i)

MirrorInv ==
  /\ page \in Pages
  /\ word \in Seq(OperatorRecords) /\ \A n \in 1 .. Len(word) : IsOperator(word[n])
  /\ PlanOK(epochs, lanes, saved, walk)

-----------------------------------------------------------------------------
(* F is E with marks on some epochs: a refusal may be added or a consumer  *)
(* seen.  Notes lets candidates be noted too, Kept lets counts move, and   *)
(* Follows lets epochs open.                                               *)
Follows(E, F) ==
  /\ F \in Seq(EpochType) /\ Len(E) <= Len(F)
  /\ \A i \in 1 .. Len(E) : /\ F[i].alias = E[i].alias
                            /\ E[i].refusal # NoRefusal => F[i].refusal # NoRefusal

Notes(E, F) ==
  /\ Follows(E, F) /\ Len(F) = Len(E)
  /\ \A i \in 1 .. Len(E) : F[i].live = E[i].live

Kept(E, F) ==
  /\ Follows(E, F) /\ Len(F) = Len(E)
  /\ \A i \in 1 .. Len(E) : F[i].lane = E[i].lane /\ F[i].candidates = E[i].candidates

Marks(E, F) == Notes(E, F) /\ Kept(E, F)

(* A function on the domain of a sequence is a sequence.                   *)
LEMMA MappedSequence ==
    ASSUME NEW S, NEW E \in Seq(S), NEW F, F = [i \in DOMAIN E |-> F[i]],
           \A i \in 1 .. Len(E) : F[i] \in S
    PROVE  F \in Seq(S) /\ Len(F) = Len(E)
<1>1. Len(E) \in Nat /\ DOMAIN E = 1 .. Len(E)
  BY LenProperties
<1>2. F \in [1 .. Len(E) -> S]
  BY <1>1
<1> QED
  BY <1>1, <1>2

(* Marking nothing is a marking.                                           *)
LEMMA MarksReflexive ==
    ASSUME NEW E \in Seq(EpochType)
    PROVE  Marks(E, E)
<1>1. Len(E) \in Nat
  BY LenProperties
<1> QED
  BY <1>1 DEF Marks, Notes, Kept, Follows

(* Marks add up.                                                           *)
LEMMA MarksTransitive ==
    ASSUME NEW E \in Seq(EpochType), NEW F, NEW G, Marks(E, F), Marks(F, G)
    PROVE  Marks(E, G)
BY DEF Marks, Notes, Kept, Follows

(* So do the looser steps of a plan.                                       *)
LEMMA FollowsTransitive ==
    ASSUME NEW E \in Seq(EpochType), NEW F, NEW G, Follows(E, F), Follows(F, G)
    PROVE  Follows(E, G)
<1>1. Len(E) \in Nat /\ Len(F) \in Nat /\ Len(G) \in Nat
  BY LenProperties DEF Follows
<1>2. \A i \in 1 .. Len(E) : i \in 1 .. Len(F)
  BY <1>1 DEF Follows
<1> QED
  BY <1>1, <1>2 DEF Follows

(* A refusal only marks epochs.                                            *)
LEMMA RefusingMarks ==
    ASSUME NEW E \in Seq(EpochType), NEW roots, NEW at \in Nat, NEW why \in Reasons
    PROVE  /\ Marks(E, RefusedAmong(E, roots, at, why))
           /\ \A i \in 1 .. Len(E) :
                i \in roots => RefusedAmong(E, roots, at, why)[i].refusal # NoRefusal
<1> DEFINE F == RefusedAmong(E, roots, at, why)
           new == [at |-> at, why |-> why]
<1>1. new \in Refusals /\ new # NoRefusal
  BY DEF Refusals, Reasons, NoRefusal, OpaqueReasons
<1>2. Len(E) \in Nat /\ DOMAIN E = 1 .. Len(E) /\ \A i \in 1 .. Len(E) : E[i] \in EpochType
  BY LenProperties, ElementOfSeq
<1>3. F = [i \in DOMAIN E |-> IF i \in roots /\ E[i].refusal = NoRefusal
                              THEN [E[i] EXCEPT !.refusal = new] ELSE E[i]]
  BY DEF RefusedAmong
<1> HIDE DEF F, new
<1>4. ASSUME NEW i \in 1 .. Len(E)
      PROVE  /\ F[i] \in EpochType
             /\ F[i].alias = E[i].alias /\ F[i].live = E[i].live
             /\ F[i].lane = E[i].lane /\ F[i].candidates = E[i].candidates
             /\ E[i].refusal # NoRefusal => F[i].refusal # NoRefusal
             /\ i \in roots => F[i].refusal # NoRefusal
  <2>1. E[i] \in EpochType /\ i \in DOMAIN E
    BY <1>2
  <2>2. [E[i] EXCEPT !.refusal = new] \in EpochType
    BY <1>1, <2>1 DEF EpochType
  <2>3. /\ [E[i] EXCEPT !.refusal = new].alias = E[i].alias
        /\ [E[i] EXCEPT !.refusal = new].live = E[i].live
        /\ [E[i] EXCEPT !.refusal = new].lane = E[i].lane
        /\ [E[i] EXCEPT !.refusal = new].candidates = E[i].candidates
        /\ [E[i] EXCEPT !.refusal = new].refusal = new
    BY <2>1 DEF EpochType
  <2> QED
    BY <1>1, <1>3, <2>1, <2>2, <2>3
<1>5. F \in Seq(EpochType) /\ Len(F) = Len(E)
  <2>1. F = [i \in DOMAIN E |-> F[i]]
    BY <1>3
  <2> QED
    BY <1>4, <2>1, MappedSequence
<1>6. Marks(E, F)
  BY <1>2, <1>4, <1>5 DEF Marks, Notes, Kept, Follows
<1> QED
  BY <1>4, <1>6 DEF F

(* Refusing the epochs somebody carries.                                   *)
LEMMA RefusedLiveMarks ==
    ASSUME NEW E \in Seq(EpochType), NEW at \in Nat, NEW why \in Reasons
    PROVE  Marks(E, RefusedLive(E, at, why))
BY RefusingMarks DEF RefusedLive

(* Refusing them for a misplaced operator.                                 *)
LEMMA RefusedIfMarks ==
    ASSUME NEW E \in Seq(EpochType), NEW at \in Nat, NEW condition
    PROVE  Marks(E, RefusedIf(condition, E, at))
<1>1. "InvalidGraphicsObjectContext" \in Reasons
  BY DEF Reasons
<1>2. Marks(E, RefusedLive(E, at, "InvalidGraphicsObjectContext"))
  BY <1>1, RefusedLiveMarks
<1> QED
  BY <1>2, MarksReflexive DEF RefusedIf

(* Refusing the roots of a poisoned record.                                *)
LEMMA AfterDecisionMarks ==
    ASSUME NEW E \in Seq(EpochType), NEW at \in Nat, NEW root, NEW facts
    PROVE  Marks(E, AfterDecision(E, at, root, facts))
<1> DEFINE roots == Decided(at, root, facts)[Record(at)].roots
           F == RefusedAmong(E, roots, at, "RepeatedReferenceMismatch")
<1>1. "RepeatedReferenceMismatch" \in Reasons
  BY DEF Reasons
<1>2. Marks(E, F)
  <2> HIDE DEF roots
  <2> QED
    BY <1>1, RefusingMarks
<1>3. AfterDecision(E, at, root, facts) \in {E, F}
  BY DEF AfterDecision
<1> QED
  BY <1>2, <1>3, MarksReflexive

(* F is E with one more candidate of one epoch.                            *)
Adds(E, F, root, c) ==
  /\ Notes(E, F)
  /\ \A i \in 1 .. Len(E) :
       /\ F[i].lane = E[i].lane
       /\ F[i].candidates = IF i = root THEN Append(E[i].candidates, c) ELSE E[i].candidates

(* A record of one occurrence is noted as a candidate, and then decided.   *)
LEMMA CandidateAdded ==
    ASSUME NEW E \in Seq(EpochType), NEW at \in Nat, NEW root \in 1 .. Len(E),
           NEW value \in Nat, NEW explicit, Localized(at)
    PROVE  \E A : /\ Adds(E, A, root, [at |-> at, value |-> value])
                  /\ WithCandidate(E, at, root, value, explicit)
                       = AfterDecision(A, at, root, Facts(E, root, value, explicit))
<1> DEFINE selected == IF value \in page.excluded
                       THEN RefusedAmong(E, {root}, at, "SelectorExcluded") ELSE E
           owned == IF InPlaceObject(at) THEN selected
                    ELSE RefusedAmong(selected, {root}, at, "CandidateOwnershipVetoed")
           c == [at |-> at, value |-> value]
           added == [owned EXCEPT ![root].candidates = Append(@, c)]
<1>1. "SelectorExcluded" \in Reasons /\ "CandidateOwnershipVetoed" \in Reasons
  BY DEF Reasons
<1>2. WithCandidate(E, at, root, value, explicit)
        = AfterDecision(added, at, root, Facts(E, root, value, explicit))
  BY DEF WithCandidate
<1>3. Marks(E, selected)
  BY <1>1, RefusingMarks, MarksReflexive
<1> HIDE DEF selected
<1>4. selected \in Seq(EpochType)
  BY <1>3 DEF Marks, Notes, Kept, Follows
<1>5. Marks(E, owned)
  <2>1. Marks(selected, owned)
    BY <1>1, <1>4, RefusingMarks, MarksReflexive
  <2> HIDE DEF owned
  <2> QED
    BY <1>3, <2>1, MarksTransitive
<1> HIDE DEF owned
<1>6. owned \in Seq(EpochType) /\ Len(owned) = Len(E) /\ root \in 1 .. Len(owned)
  BY <1>5 DEF Marks, Notes, Kept, Follows
<1>7. DOMAIN owned = 1 .. Len(owned) /\ owned[root] \in EpochType
  BY <1>6, LenProperties, ElementOfSeq
<1> DEFINE more == Append(owned[root].candidates, c)
           e == [owned[root] EXCEPT !.candidates = more]
<1>8. more \in Seq([at : Nat, value : Nat])
  <2>1. c \in [at : Nat, value : Nat]
    OBVIOUS
  <2>2. owned[root].candidates \in Seq([at : Nat, value : Nat])
    BY <1>7 DEF EpochType
  <2> HIDE DEF c
  <2> QED
    BY <2>1, <2>2, AppendProperties
<1>9. added = [owned EXCEPT ![root] = e]
  BY <1>6, <1>7
<1>10. more = Append(owned[root].candidates, c)
  OBVIOUS
<1> HIDE DEF more
<1>11. e \in EpochType
  BY <1>7, <1>8 DEF EpochType
<1>12. /\ e.alias = owned[root].alias /\ e.live = owned[root].live
       /\ e.lane = owned[root].lane /\ e.candidates = more /\ e.refusal = owned[root].refusal
  BY <1>7 DEF EpochType
<1> HIDE DEF e, added
<1>13. /\ added \in Seq(EpochType) /\ Len(added) = Len(owned) /\ added[root] = e
       /\ \A j \in 1 .. Len(owned) : j # root => added[j] = owned[j]
  BY <1>6, <1>7, <1>9, <1>11, ExceptSeq
<1>14. Len(owned) \in Nat
  BY <1>6, LenProperties
<1>15. ASSUME NEW i \in 1 .. Len(E)
       PROVE  /\ added[i].alias = E[i].alias /\ added[i].live = E[i].live
              /\ E[i].refusal # NoRefusal => added[i].refusal # NoRefusal
              /\ added[i].lane = E[i].lane
              /\ added[i].candidates
                   = IF i = root THEN Append(E[i].candidates, c) ELSE E[i].candidates
  <2>1. /\ owned[i].alias = E[i].alias /\ owned[i].live = E[i].live
        /\ E[i].refusal # NoRefusal => owned[i].refusal # NoRefusal
        /\ owned[i].lane = E[i].lane /\ owned[i].candidates = E[i].candidates
    BY <1>5 DEF Marks, Notes, Kept, Follows
  <2>2. CASE i = root
    BY <1>10, <1>12, <1>13, <2>1, <2>2
  <2>3. CASE i # root
    BY <1>6, <1>13, <2>1, <2>3
  <2> QED
    BY <2>2, <2>3
<1> HIDE DEF c
<1>16. Adds(E, added, root, c)
  BY <1>6, <1>13, <1>14, <1>15 DEF Adds, Notes, Follows
<1> QED
  BY <1>2, <1>16 DEF c

(* One that straddles two streams is no candidate.                         *)
LEMMA CandidateMissed ==
    ASSUME NEW E \in Seq(EpochType), NEW at \in Nat, NEW root, NEW value, NEW explicit,
           ~Localized(at)
    PROVE  Marks(E, WithCandidate(E, at, root, value, explicit))
<1> DEFINE selected == IF value \in page.excluded
                       THEN RefusedAmong(E, {root}, at, "SelectorExcluded") ELSE E
           G == RefusedAmong(selected, {root}, at, "CandidateNotLocalized")
<1>1. "SelectorExcluded" \in Reasons /\ "CandidateNotLocalized" \in Reasons
  BY DEF Reasons
<1>2. WithCandidate(E, at, root, value, explicit) = G
  BY DEF WithCandidate
<1>3. Marks(E, selected)
  BY <1>1, RefusingMarks, MarksReflexive
<1> HIDE DEF selected
<1>4. selected \in Seq(EpochType)
  BY <1>3 DEF Marks, Notes, Kept, Follows
<1>5. Marks(selected, G)
  BY <1>1, <1>4, RefusingMarks
<1> HIDE DEF G
<1> QED
  BY <1>2, <1>3, <1>5, MarksTransitive

(* Either way epochs are only marked and noted on.                         *)
LEMMA CandidateNotes ==
    ASSUME NEW E \in Seq(EpochType), NEW at \in Nat, NEW root \in 1 .. Len(E),
           NEW value \in Nat, NEW explicit
    PROVE  Notes(E, WithCandidate(E, at, root, value, explicit))
<1>1. CASE ~Localized(at)
  BY <1>1, CandidateMissed DEF Marks
<1>2. CASE Localized(at)
  <2> DEFINE facts == Facts(E, root, value, explicit)
  <2>1. PICK A : /\ Adds(E, A, root, [at |-> at, value |-> value])
                 /\ WithCandidate(E, at, root, value, explicit) = AfterDecision(A, at, root, facts)
    BY <1>2, CandidateAdded
  <2> HIDE DEF facts
  <2>2. Notes(E, A) /\ A \in Seq(EpochType)
    BY <2>1 DEF Adds, Notes, Follows
  <2>3. Marks(A, AfterDecision(A, at, root, facts))
    BY <2>2, AfterDecisionMarks
  <2> DEFINE B == AfterDecision(A, at, root, facts)
  <2>4. Notes(A, B)
    BY <2>3 DEF Marks
  <2> HIDE DEF B
  <2>5. Notes(E, B)
    BY <2>2, <2>4 DEF Notes, Follows
  <2> QED
    BY <2>1, <2>5 DEF B
<1> QED
  BY <1>1, <1>2

-----------------------------------------------------------------------------
(* Branches keep the walker's colours whatever marks their epochs get.     *)
LEMMA SameColorFollows ==
    ASSUME NEW E \in Seq(EpochType), NEW F, Follows(E, F), NEW b \in Branches, NEW c,
           SameColor(E, b, c)
    PROVE  SameColor(F, b, c)
<1>1. CASE b.root = 0
  BY <1>1 DEF SameColor
<1>2. CASE b.root # 0
  <2>1. Len(E) \in Nat /\ Len(F) \in Nat /\ Len(E) <= Len(F)
    BY LenProperties DEF Follows
  <2>2. b.root \in 1 .. Len(E)
    BY <1>2 DEF SameColor
  <2>3. b.root \in 1 .. Len(F)
    BY <2>1, <2>2
  <2>4. /\ F[b.root].alias = E[b.root].alias
        /\ F[b.root].refusal = NoRefusal => E[b.root].refusal = NoRefusal
    BY <2>2 DEF Follows
  <2> QED
    BY <1>2, <2>3, <2>4 DEF SameColor
<1> QED
  BY <1>1, <1>2

(* The same for a pair of lanes.                                           *)
LEMMA SameColorsFollow ==
    ASSUME NEW E \in Seq(EpochType), NEW F, Follows(E, F), NEW l \in LanePairs, NEW gs,
           SameColors(E, l, gs)
    PROVE  SameColors(F, l, gs)
<1>1. \A lane \in Lanes : l[lane] \in Branches /\ SameColor(E, l[lane], gs[lane])
  BY DEF LanePairs, SameColors
<1> QED
  BY <1>1, SameColorFollows DEF SameColors

(* A refused epoch keeps its first refusal.                                *)
LEMMA FirstRefusalStays ==
    ASSUME NEW E \in Seq(EpochType), NEW root, NEW at, NEW why,
           root \in 1 .. Len(E) => E[root].refusal # NoRefusal
    PROVE  RefusedAmong(E, {root}, at, why) = E
<1>1. DOMAIN E = 1 .. Len(E) /\ E \in [1 .. Len(E) -> EpochType]
  BY LenProperties
<1>2. \A i \in DOMAIN E : ~(i \in {root} /\ E[i].refusal = NoRefusal)
  BY <1>1
<1>3. RefusedAmong(E, {root}, at, why) = [i \in DOMAIN E |-> E[i]]
  BY <1>2, Zenon DEF RefusedAmong
<1> QED
  BY <1>1, <1>3

(* A consumer of a lane whose branch is the walker's colour never blames a *)
(* disagreement: it notes that the epoch is read, or it is refused already.*)
LEMMA ConsumedMarks ==
    ASSUME NEW E \in Seq(EpochType), NEW lane \in Lanes, NEW at \in Nat,
           lanes \in LanePairs, SameColors(E, lanes, walk.gs)
    PROVE  Marks(E, Consumed(E, lane, at))
<1> DEFINE root == lanes[lane].root
           branch == lanes[lane]
           colour == walk.gs[lane]
           agrees == /\ colour.name = E[branch.root].alias
                     /\ colour.space = AliasSpace[E[branch.root].alias]
                     /\ colour.value = branch.value
                     /\ colour.source = branch.source
           F == [E EXCEPT ![root].consumed = TRUE]
           G == RefusedAmong(E, {root}, at, "StateMismatch")
<1>1. Consumed(E, lane, at) = IF root = 0 THEN E ELSE IF agrees THEN F ELSE G
  BY DEF Consumed, root, branch, colour, agrees, F, G
<1>2. SameColor(E, lanes[lane], walk.gs[lane])
  BY DEF SameColors
<1>3. CASE root = 0
  BY <1>1, <1>3, MarksReflexive
<1>4. CASE root # 0 /\ agrees
  <2>1. root \in 1 .. Len(E)
    BY <1>2, <1>4 DEF SameColor
  <2>2. DOMAIN E = 1 .. Len(E) /\ Len(E) \in Nat /\ E[root] \in EpochType
    BY <2>1, LenProperties, ElementOfSeq
  <2> DEFINE e == [E[root] EXCEPT !.consumed = TRUE]
  <2>3. e \in EpochType /\ e.alias = E[root].alias /\ e.live = E[root].live
        /\ e.lane = E[root].lane /\ e.candidates = E[root].candidates /\ e.refusal = E[root].refusal
    BY <2>2 DEF EpochType
  <2>4. F = [E EXCEPT ![root] = e]
    BY <2>1, <2>2
  <2> HIDE DEF e, F
  <2>5. /\ F \in Seq(EpochType) /\ Len(F) = Len(E) /\ F[root] = e
        /\ \A j \in 1 .. Len(E) : j # root => F[j] = E[j]
    BY <2>1, <2>3, <2>4, ExceptSeq
  <2>6. Marks(E, F)
    <3> HIDE DEF root
    <3> QED
      BY <2>2, <2>3, <2>5 DEF Marks, Notes, Kept, Follows
  <2>7. Consumed(E, lane, at) = F
    BY <1>1, <1>4
  <2> QED
    BY <2>6, <2>7
<1>5. CASE root # 0 /\ ~agrees
  <2>1. root \in 1 .. Len(E) /\ E[root].refusal # NoRefusal
    BY <1>2, <1>5 DEF SameColor
  <2>2. G = E
    BY <2>1, FirstRefusalStays
  <2>3. Consumed(E, lane, at) = G
    BY <1>1, <1>5
  <2> QED
    BY <2>2, <2>3, MarksReflexive
<1> QED
  BY <1>3, <1>4, <1>5

(* An operator that reads one lane, both or none.                          *)
LEMMA ConsumedBothMarks ==
    ASSUME NEW E \in Seq(EpochType), NEW read, NEW at \in Nat,
           lanes \in LanePairs, SameColors(E, lanes, walk.gs)
    PROVE  Marks(E, ConsumedBoth(E, read, at))
<1> DEFINE F == IF "stroke" \in read THEN Consumed(E, "stroke", at) ELSE E
           G == IF "fill" \in read THEN Consumed(F, "fill", at) ELSE F
<1>1. "stroke" \in Lanes /\ "fill" \in Lanes
  BY DEF Lanes
<1>2. Marks(E, F)
  BY <1>1, ConsumedMarks, MarksReflexive
<1> HIDE DEF F
<1>3. F \in Seq(EpochType) /\ SameColors(F, lanes, walk.gs)
  BY <1>2, SameColorsFollow DEF Marks, Notes, Kept, Follows
<1>4. Marks(F, G)
  BY <1>1, <1>3, ConsumedMarks, MarksReflexive
<1> HIDE DEF G
<1>5. Marks(E, G)
  BY <1>2, <1>4, MarksTransitive
<1>6. ConsumedBoth(E, read, at) = G
  BY DEF ConsumedBoth, F, G
<1> QED
  BY <1>5, <1>6

-----------------------------------------------------------------------------
(* Counting the places that carry an epoch.  Carriers are the lanes of one *)
(* pair, placed at k.                                                      *)
Carriers(l, k, i) == {<<k, lane>> : lane \in {x \in Lanes : l[x].root = i}}

(* The lanes of one pair that carry an epoch.                              *)
LEMMA CountInHand ==
    ASSUME NEW l, NEW i
    PROVE  /\ IsFiniteSet({lane \in Lanes : l[lane].root = i})
           /\ Cardinality({lane \in Lanes : l[lane].root = i}) = InHand(l, i)
           /\ InHand(l, i) \in Nat
<1> DEFINE S == {lane \in Lanes : l[lane].root = i}
           A == IF l["stroke"].root = i THEN {"stroke"} ELSE {}
           B == IF l["fill"].root = i THEN A \union {"fill"} ELSE A
<1>1. S = B
  BY DEF Lanes
<1>2. IsFiniteSet(A) /\ Cardinality(A) = OneIf(l, "stroke", i)
  BY FS_EmptySet, FS_Singleton DEF OneIf
<1>3. IsFiniteSet(B) /\ Cardinality(B) = Cardinality(A) + OneIf(l, "fill", i)
  <2>1. "fill" \notin A
    OBVIOUS
  <2> HIDE DEF A
  <2>2. OneIf(l, "stroke", i) \in Nat
    BY DEF OneIf
  <2>3. CASE l["fill"].root = i
    <3>1. IsFiniteSet(A \union {"fill"}) /\ Cardinality(A \union {"fill"}) = Cardinality(A) + 1
      BY <1>2, <2>1, FS_AddElement
    <3> QED
      BY <2>3, <3>1 DEF OneIf
  <2>4. CASE l["fill"].root # i
    BY <1>2, <2>2, <2>4 DEF OneIf
  <2> QED
    BY <2>3, <2>4
<1>4. OneIf(l, "stroke", i) \in Nat /\ OneIf(l, "fill", i) \in Nat
  BY DEF OneIf
<1> HIDE DEF A, B, S
<1>5. InHand(l, i) = OneIf(l, "stroke", i) + OneIf(l, "fill", i)
  BY DEF InHand
<1>6. IsFiniteSet(S) /\ Cardinality(S) = InHand(l, i) /\ InHand(l, i) \in Nat
  BY <1>1, <1>2, <1>3, <1>4, <1>5
<1> QED
  BY <1>6 DEF S

(* The same lanes, placed at k.                                            *)
LEMMA CountCarriers ==
    ASSUME NEW l, NEW k, NEW i
    PROVE  /\ IsFiniteSet(Carriers(l, k, i))
           /\ Cardinality(Carriers(l, k, i)) = InHand(l, i)
<1> DEFINE S == {x \in Lanes : l[x].root = i}
           f == [lane \in S |-> <<k, lane>>]
<1>1. IsFiniteSet(S) /\ Cardinality(S) = InHand(l, i)
  BY CountInHand
<1>2. f \in Bijection(S, Carriers(l, k, i))
  <2> HIDE DEF S
  <2>1. Carriers(l, k, i) = {<<k, lane>> : lane \in S}
    BY DEF Carriers, S
  <2>2. \A x \in S : f[x] = <<k, x>>
    OBVIOUS
  <2>3. f \in [S -> Carriers(l, k, i)]
    BY <2>1
  <2>4. \A x, y \in S : x # y => f[x] # f[y]
    BY <2>2
  <2>5. \A t \in Carriers(l, k, i) : \E x \in S : f[x] = t
    BY <2>1, <2>2
  <2> HIDE DEF f
  <2> QED
    BY <2>3, <2>4, <2>5 DEF Bijection, Injection, Surjection, IsInjective
<1>3. ExistsBijection(S, Carriers(l, k, i))
  BY <1>2 DEF ExistsBijection
<1> HIDE DEF S
<1> QED
  BY <1>1, <1>3, FS_Bijection

(* Finitely many saved places carry an epoch.                              *)
LEMMA SavedPlacesFinite ==
    ASSUME NEW s \in Seq(LanePairs), NEW i
    PROVE  IsFiniteSet(SavedPlaces(s, i)) /\ Cardinality(SavedPlaces(s, i)) \in Nat
<1>1. Len(s) \in Nat
  BY LenProperties
<1>2. IsFiniteSet(1 .. Len(s))
  BY <1>1, FS_Interval
<1>3. IsFiniteSet(Lanes)
  <2>1. IsFiniteSet({"stroke"})
    BY FS_Singleton
  <2>2. IsFiniteSet({"stroke"} \cup {"fill"})
    BY <2>1, FS_AddElement
  <2>3. Lanes = {"stroke"} \cup {"fill"}
    BY DEF Lanes
  <2> QED
    BY <2>2, <2>3
<1>4. IsFiniteSet((1 .. Len(s)) \X Lanes)
  BY <1>2, <1>3, FS_Product
<1>5. SavedPlaces(s, i) \in SUBSET ((1 .. Len(s)) \X Lanes)
  BY DEF SavedPlaces
<1>6. IsFiniteSet(SavedPlaces(s, i))
  BY <1>4, <1>5, FS_Subset
<1> QED
  BY <1>6, FS_CardinalityType

(* Saving a pair adds what it carries.                                     *)
LEMMA CountAppended ==
    ASSUME NEW s \in Seq(LanePairs), NEW l \in LanePairs, NEW i
    PROVE  Cardinality(SavedPlaces(Append(s, l), i)) =
             Cardinality(SavedPlaces(s, i)) + InHand(l, i)
<1> DEFINE t == Append(s, l)
           n == Len(s) + 1
<1>1. Len(s) \in Nat
  BY LenProperties
<1>2. /\ t \in Seq(LanePairs) /\ Len(t) = n /\ t[n] = l
      /\ \A k \in 1 .. Len(s) : t[k] = s[k]
  BY AppendProperties
<1>3. 1 .. n = (1 .. Len(s)) \union {n} /\ n \notin 1 .. Len(s)
  BY <1>1
<1> HIDE DEF t, n
<1>4. SavedPlaces(t, i) = SavedPlaces(s, i) \cup Carriers(l, n, i)
  <2>1. ASSUME NEW place \in SavedPlaces(t, i)
        PROVE  place \in SavedPlaces(s, i) \cup Carriers(l, n, i)
    <3>1. PICK k \in 1 .. n, lane \in Lanes : place = <<k, lane>> /\ t[k][lane].root = i
      BY <1>2 DEF SavedPlaces
    <3>2. CASE k = n
      BY <1>2, <3>1, <3>2 DEF Carriers
    <3>3. CASE k # n
      <4>1. k \in 1 .. Len(s) /\ s[k][lane].root = i
        BY <1>2, <1>3, <3>1, <3>3
      <4> QED
        BY <3>1, <4>1 DEF SavedPlaces
    <3> QED
      BY <3>2, <3>3
  <2>2. ASSUME NEW k \in 1 .. Len(s), NEW lane \in Lanes, s[k][lane].root = i
        PROVE  <<k, lane>> \in SavedPlaces(t, i)
    BY <1>2, <1>3, <2>2 DEF SavedPlaces
  <2>3. ASSUME NEW lane \in Lanes, l[lane].root = i
        PROVE  <<n, lane>> \in SavedPlaces(t, i)
    BY <1>2, <1>3, <2>3 DEF SavedPlaces
  <2> QED
    BY <2>1, <2>2, <2>3 DEF SavedPlaces, Carriers
<1>5. SavedPlaces(s, i) \cap Carriers(l, n, i) = {}
  BY <1>3 DEF SavedPlaces, Carriers
<1>6. IsFiniteSet(SavedPlaces(s, i)) /\ Cardinality(SavedPlaces(s, i)) \in Nat
  BY SavedPlacesFinite
<1>7. IsFiniteSet(Carriers(l, n, i)) /\ Cardinality(Carriers(l, n, i)) = InHand(l, i)
  BY CountCarriers
<1>8. Cardinality(SavedPlaces(t, i)) =
        Cardinality(SavedPlaces(s, i)) + Cardinality(Carriers(l, n, i))
  <2>1. Cardinality(SavedPlaces(s, i) \cap Carriers(l, n, i)) = 0
    BY <1>5, FS_EmptySet
  <2>2. Cardinality(SavedPlaces(s, i) \cup Carriers(l, n, i)) =
          Cardinality(SavedPlaces(s, i)) + Cardinality(Carriers(l, n, i))
            - Cardinality(SavedPlaces(s, i) \cap Carriers(l, n, i))
    BY <1>6, <1>7, FS_Union
  <2>3. InHand(l, i) \in Nat
    BY CountInHand
  <2> QED
    BY <1>4, <1>6, <1>7, <2>1, <2>2, <2>3
<1> QED
  BY <1>7, <1>8 DEF t

(* Restoring a pair takes away what it carries.                            *)
LEMMA CountRestored ==
    ASSUME NEW s \in Seq(LanePairs), s # <<>>, NEW i
    PROVE  /\ SubSeq(s, 1, Len(s) - 1) \in Seq(LanePairs)
           /\ s[Len(s)] \in LanePairs
           /\ Cardinality(SavedPlaces(s, i)) =
                InHand(s[Len(s)], i) + Cardinality(SavedPlaces(SubSeq(s, 1, Len(s) - 1), i))
<1> DEFINE n == Len(s)
           t == SubSeq(s, 1, n - 1)
<1>1. n \in Nat /\ n > 0 /\ n \in 1 .. n /\ s \in [1 .. n -> LanePairs]
  <2>1. n \in Nat /\ s \in [1 .. n -> LanePairs]
    BY LenProperties
  <2>2. n # 0
    BY EmptySeq
  <2> QED
    BY <2>1, <2>2
<1>2. s[n] \in LanePairs
  BY <1>1
<1>3. t \in Seq(LanePairs) /\ Len(t) = n - 1 /\ \A k \in 1 .. n - 1 : t[k] = s[k]
  <2>1. \A k \in 1 .. n - 1 : s[k] \in LanePairs
    BY <1>1
  <2> HIDE DEF n
  <2> QED
    BY <1>1, <2>1, SubSeqProperties
<1> HIDE DEF n, t
<1>4. s = Append(t, s[n])
  <2>1. /\ Append(t, s[n]) \in Seq(LanePairs) /\ Len(Append(t, s[n])) = Len(t) + 1
        /\ \A k \in 1 .. Len(t) : Append(t, s[n])[k] = t[k]
        /\ Append(t, s[n])[Len(t) + 1] = s[n]
    BY <1>2, <1>3, AppendProperties
  <2>2. Append(t, s[n]) \in [1 .. n -> LanePairs]
    <3>1. Len(Append(t, s[n])) = n
      BY <1>1, <1>3, <2>1
    <3> QED
      BY <2>1, <3>1, LenProperties
  <2>3. \A k \in 1 .. n : Append(t, s[n])[k] = s[k]
    BY <1>1, <1>3, <2>1
  <2> QED
    BY <1>1, <2>2, <2>3
<1>5. Cardinality(SavedPlaces(Append(t, s[n]), i)) =
        Cardinality(SavedPlaces(t, i)) + InHand(s[n], i)
  BY <1>2, <1>3, CountAppended
<1>6. Cardinality(SavedPlaces(t, i)) \in Nat /\ InHand(s[n], i) \in Nat
  BY <1>3, SavedPlacesFinite, CountInHand
<1>7. Cardinality(SavedPlaces(s, i)) = Cardinality(SavedPlaces(t, i)) + InHand(s[n], i)
  BY <1>4, <1>5
<1>8. Cardinality(SavedPlaces(s, i)) = InHand(s[n], i) + Cardinality(SavedPlaces(t, i))
  BY <1>6, <1>7
<1> QED
  BY <1>2, <1>3, <1>8 DEF n, t

-----------------------------------------------------------------------------
(* Counts move and nothing else does.                                      *)
Moves(E, F, n) ==
  /\ F = [i \in DOMAIN E |-> F[i]]
  /\ \A i \in 1 .. Len(E) : n[i] \in Int
  /\ \A i \in 1 .. Len(E) : F[i] = E[i] \/ F[i] = [E[i] EXCEPT !.live = n[i]]

(* Then the rest is kept.                                                  *)
LEMMA CountsMoved ==
    ASSUME NEW E \in Seq(EpochType), NEW F, NEW n, Moves(E, F, n)
    PROVE  Kept(E, F)
<1>0. /\ F = [i \in DOMAIN E |-> F[i]]
      /\ \A i \in 1 .. Len(E) : n[i] \in Int
      /\ \A i \in 1 .. Len(E) : F[i] = E[i] \/ F[i] = [E[i] EXCEPT !.live = n[i]]
  BY Zenon DEF Moves
<1>1. Len(E) \in Nat /\ \A i \in 1 .. Len(E) : E[i] \in EpochType
  BY LenProperties, ElementOfSeq
<1>2. ASSUME NEW i \in 1 .. Len(E)
      PROVE  /\ F[i] \in EpochType /\ F[i].alias = E[i].alias /\ F[i].refusal = E[i].refusal
             /\ F[i].lane = E[i].lane /\ F[i].candidates = E[i].candidates
  <2> DEFINE e == [E[i] EXCEPT !.live = n[i]]
  <2>1. /\ e \in EpochType /\ e.alias = E[i].alias /\ e.refusal = E[i].refusal
        /\ e.lane = E[i].lane /\ e.candidates = E[i].candidates
    BY <1>0, <1>1 DEF EpochType
  <2> QED
    BY <1>0, <1>1, <2>1
<1>3. F \in Seq(EpochType) /\ Len(F) = Len(E)
  BY <1>0, <1>2, MappedSequence
<1>4. Len(E) <= Len(F)
  BY <1>1, <1>3
<1>5. \A i \in 1 .. Len(E) : /\ F[i].alias = E[i].alias /\ F[i].refusal = E[i].refusal
                             /\ F[i].lane = E[i].lane /\ F[i].candidates = E[i].candidates
  BY <1>2
<1> QED
  BY <1>3, <1>4, <1>5, Zenon DEF Kept, Follows

(* F is E without one branch in the count of its root.                    *)
Uncounts(E, F, branch) ==
  /\ Kept(E, F)
  /\ \A i \in 1 .. Len(E) : F[i].live = E[i].live - (IF branch.root = i THEN 1 ELSE 0)

(* Dropping a branch takes one from the count of its root.                 *)
LEMMA DroppedCounts ==
    ASSUME NEW E \in Seq(EpochType), NEW branch
    PROVE  Uncounts(E, Dropped(E, branch), branch)
<1> DEFINE F == Dropped(E, branch)
           n == [i \in 1 .. Len(E) |-> E[i].live - 1]
<1>1. /\ Len(E) \in Nat /\ DOMAIN E = 1 .. Len(E)
      /\ \A i \in 1 .. Len(E) : E[i] \in EpochType
  BY LenProperties, ElementOfSeq
<1>2. \A i \in 1 .. Len(E) : E[i].live \in Int /\ n[i] = E[i].live - 1 /\ n[i] \in Int
  BY <1>1 DEF EpochType
<1>3. F = [i \in DOMAIN E |-> IF i = branch.root THEN [E[i] EXCEPT !.live = E[i].live - 1] ELSE E[i]]
  BY DEF Dropped
<1> HIDE DEF F, n
<1>4. \A i \in 1 .. Len(E) :
        F[i] = IF i = branch.root THEN [E[i] EXCEPT !.live = n[i]] ELSE E[i]
  BY <1>1, <1>2, <1>3
<1>5. F = [i \in DOMAIN E |-> F[i]]
  BY <1>3
<1>6. Kept(E, F)
  <2>1. \A i \in 1 .. Len(E) : n[i] \in Int
    BY <1>2
  <2>2. \A i \in 1 .. Len(E) : F[i] = E[i] \/ F[i] = [E[i] EXCEPT !.live = n[i]]
    BY <1>4, Zenon
  <2>3. Moves(E, F, n)
    BY <1>5, <2>1, <2>2, Zenon DEF Moves
  <2> QED
    BY <2>3, CountsMoved
<1>7. ASSUME NEW i \in 1 .. Len(E)
      PROVE  F[i].live = E[i].live - (IF branch.root = i THEN 1 ELSE 0)
  <2> DEFINE e == [E[i] EXCEPT !.live = n[i]]
  <2>1. e.live = n[i]
    BY <1>1 DEF EpochType
  <2>2. F[i] = IF i = branch.root THEN e ELSE E[i]
    BY <1>4
  <2> HIDE DEF e
  <2> QED
    BY <1>2, <2>1, <2>2
<1> QED
  BY <1>6, <1>7 DEF F, Uncounts

(* Copying the lanes adds what they carry to every count.                  *)
LEMMA CopiedCounts ==
    ASSUME NEW E \in Seq(EpochType)
    PROVE  /\ Kept(E, Copied(E))
           /\ \A i \in 1 .. Len(E) : Copied(E)[i].live = E[i].live + InHand(lanes, i)
<1> DEFINE F == Copied(E)
           c(i) == Cardinality({lane \in Lanes : lanes[lane].root = i})
           n == [i \in 1 .. Len(E) |-> E[i].live + InHand(lanes, i)]
<1>1. /\ Len(E) \in Nat /\ DOMAIN E = 1 .. Len(E)
      /\ \A i \in 1 .. Len(E) : E[i] \in EpochType
  BY LenProperties, ElementOfSeq
<1>2. F = [i \in DOMAIN E |-> [E[i] EXCEPT !.live = E[i].live + c(i)]]
  BY DEF Copied
<1>3. \A i : c(i) = InHand(lanes, i) /\ InHand(lanes, i) \in Nat
  BY CountInHand
<1>4. \A i \in 1 .. Len(E) :
        /\ E[i].live \in Int /\ n[i] = E[i].live + InHand(lanes, i) /\ n[i] \in Int
  BY <1>1, <1>3 DEF EpochType
<1> HIDE DEF F, n, c
<1>5. \A i \in 1 .. Len(E) : F[i] = [E[i] EXCEPT !.live = n[i]]
  BY <1>1, <1>2, <1>3, <1>4
<1>6. F = [i \in DOMAIN E |-> F[i]]
  BY <1>2
<1>7. Kept(E, F)
  <2>1. \A i \in 1 .. Len(E) : n[i] \in Int
    BY <1>4
  <2>2. \A i \in 1 .. Len(E) : F[i] = E[i] \/ F[i] = [E[i] EXCEPT !.live = n[i]]
    BY <1>5, Zenon
  <2>3. Moves(E, F, n)
    BY <1>6, <2>1, <2>2, Zenon DEF Moves
  <2> QED
    BY <2>3, CountsMoved
<1>8. ASSUME NEW i \in 1 .. Len(E)
      PROVE  F[i].live = E[i].live + InHand(lanes, i)
  <2> DEFINE e == [E[i] EXCEPT !.live = n[i]]
  <2>1. e.live = n[i]
    BY <1>1 DEF EpochType
  <2> QED
    BY <1>4, <1>5, <2>1
<1> QED
  BY <1>7, <1>8 DEF F

(* One lane of a pair gets another branch.                                 *)
Replaced(l, lane, b, m) ==
  /\ m \in LanePairs /\ m[lane] = b
  /\ \A x \in Lanes : x # lane => m[x] = l[x]
  /\ \A i : InHand(m, i) = InHand(l, i) - OneIf(l, lane, i) + (IF b.root = i THEN 1 ELSE 0)

(* What such a change does to the count of the pair.                       *)
LEMMA CountReplaced ==
    ASSUME NEW l \in LanePairs, NEW lane \in Lanes, NEW b \in Branches,
           NEW m, m = [l EXCEPT ![lane] = b]
    PROVE  Replaced(l, lane, b, m)
<1>1. m \in LanePairs /\ m[lane] = b /\ \A x \in Lanes : x # lane => m[x] = l[x]
  BY DEF LanePairs
<1>2. ASSUME NEW i
      PROVE  InHand(m, i) = InHand(l, i) - OneIf(l, lane, i) + (IF b.root = i THEN 1 ELSE 0)
  <2>1. OneIf(m, lane, i) = IF b.root = i THEN 1 ELSE 0
    BY <1>1 DEF OneIf
  <2>2. \A x \in Lanes : x # lane => OneIf(m, x, i) = OneIf(l, x, i)
    BY <1>1 DEF OneIf
  <2>3. OneIf(l, "stroke", i) \in Nat /\ OneIf(l, "fill", i) \in Nat /\ OneIf(m, lane, i) \in Nat
    BY DEF OneIf
  <2>4. lane = "stroke" \/ lane = "fill"
    BY DEF Lanes
  <2>5. "stroke" \in Lanes /\ "fill" \in Lanes
    BY DEF Lanes
  <2>6. CASE lane = "stroke"
    <3>1. OneIf(m, "fill", i) = OneIf(l, "fill", i)
      BY <2>2, <2>5, <2>6
    <3> QED
      BY <2>1, <2>3, <2>6, <3>1 DEF InHand
  <2>7. CASE lane = "fill"
    <3>1. OneIf(m, "stroke", i) = OneIf(l, "stroke", i)
      BY <2>2, <2>5, <2>7
    <3> QED
      BY <2>1, <2>3, <2>7, <3>1 DEF InHand
  <2> QED
    BY <2>4, <2>6, <2>7
<1> QED
  BY <1>1, <1>2 DEF Replaced

-----------------------------------------------------------------------------
(* How a plan and a walk move together, one lemma per kind of step.        *)
LEMMA PlanShape ==
    ASSUME NEW E, NEW l, NEW s, NEW w, PlanOK(E, l, s, w)
    PROVE  /\ E \in Seq(EpochType) /\ l \in LanePairs /\ s \in Seq(LanePairs) /\ w \in Walks
           /\ Len(E) \in Nat /\ Len(s) \in Nat /\ Len(s) = Len(w.stack)
           /\ w.stack \in Seq(Snapshots) /\ w.gs \in Snapshots
           /\ \A k \in 1 .. Len(s) : s[k] \in LanePairs /\ SameColors(E, s[k], w.stack[k])
           /\ \A i \in 1 .. Len(E) : /\ E[i] \in EpochType /\ E[i].live \in Int
                                     /\ Tally(l, s, i) \in Nat /\ E[i].live = Tally(l, s, i)
           /\ \A i : InHand(l, i) \in Nat /\ Cardinality(SavedPlaces(s, i)) \in Nat
<1>1. E \in Seq(EpochType) /\ l \in LanePairs /\ s \in Seq(LanePairs) /\ w \in Walks
  BY DEF PlanOK
<1>2. Len(E) \in Nat /\ Len(s) \in Nat
  BY <1>1, LenProperties
<1>3. w.stack \in Seq(Snapshots) /\ w.gs \in Snapshots
  BY <1>1 DEF Walks
<1>4. \A k \in 1 .. Len(s) : s[k] \in LanePairs
  BY <1>1, ElementOfSeq
<1>5. \A i : InHand(l, i) \in Nat /\ Cardinality(SavedPlaces(s, i)) \in Nat
  BY <1>1, CountInHand, SavedPlacesFinite
<1>6. \A i : Tally(l, s, i) \in Nat
  BY <1>5 DEF Tally
<1>7. \A i \in 1 .. Len(E) : E[i] \in EpochType /\ E[i].live \in Int
  <2>1. \A i \in 1 .. Len(E) : E[i] \in EpochType
    BY <1>1, ElementOfSeq
  <2> QED
    BY <2>1 DEF EpochType
<1> QED
  BY <1>1, <1>2, <1>3, <1>4, <1>5, <1>6, <1>7 DEF PlanOK

(* Notes on epochs, and a step of the walk that leaves colours alone.      *)
LEMMA PlanNoted ==
    ASSUME NEW E, NEW F, NEW l, NEW s, NEW w, NEW v \in Walks,
           PlanOK(E, l, s, w), Notes(E, F), v.stack = w.stack,
           \A lane \in Lanes : v.gs[lane] = w.gs[lane]
    PROVE  PlanOK(F, l, s, v)
<1>1. /\ E \in Seq(EpochType) /\ l \in LanePairs /\ s \in Seq(LanePairs)
      /\ Len(s) = Len(w.stack) /\ SameColors(E, l, w.gs)
      /\ \A k \in 1 .. Len(s) : s[k] \in LanePairs /\ SameColors(E, s[k], w.stack[k])
      /\ \A i \in 1 .. Len(E) : E[i].live = Tally(l, s, i)
  BY PlanShape DEF PlanOK
<1>2. Follows(E, F) /\ F \in Seq(EpochType) /\ Len(F) = Len(E)
  BY DEF Marks, Notes, Kept, Follows
<1>3. SameColors(F, l, w.gs)
  BY <1>1, <1>2, SameColorsFollow
<1>4. SameColors(F, l, v.gs)
  BY <1>3 DEF SameColors
<1>5. \A k \in 1 .. Len(s) : SameColors(F, s[k], v.stack[k])
  BY <1>1, <1>2, SameColorsFollow
<1>6. \A i \in 1 .. Len(F) : F[i].live = Tally(l, s, i)
  BY <1>1, <1>2 DEF Notes
<1> QED
  BY <1>1, <1>2, <1>4, <1>5, <1>6 DEF PlanOK

(* Marks are such notes.                                                   *)
LEMMA PlanMarked ==
    ASSUME NEW E, NEW F, NEW l, NEW s, NEW w, NEW v \in Walks,
           PlanOK(E, l, s, w), Marks(E, F), v.stack = w.stack,
           \A lane \in Lanes : v.gs[lane] = w.gs[lane]
    PROVE  PlanOK(F, l, s, v)
BY PlanNoted DEF Marks

(* One lane of the plan and of the walk changes; F may count anew and      *)
(* may have opened an epoch.                                               *)
LEMMA PlanRecolored ==
    ASSUME NEW E, NEW F, NEW l, NEW s, NEW w, NEW v \in Walks,
           NEW lane \in Lanes, NEW b \in Branches,
           PlanOK(E, l, s, w), Follows(E, F), v.stack = w.stack,
           \A x \in Lanes : x # lane => v.gs[x] = w.gs[x],
           SameColor(F, b, v.gs[lane]),
           \A i \in 1 .. Len(F) :
             F[i].live = Tally(l, s, i) - OneIf(l, lane, i) + (IF b.root = i THEN 1 ELSE 0)
    PROVE  PlanOK(F, [l EXCEPT ![lane] = b], s, v)
<1> DEFINE m == [l EXCEPT ![lane] = b]
<1>1. /\ E \in Seq(EpochType) /\ l \in LanePairs /\ s \in Seq(LanePairs)
      /\ Len(s) = Len(w.stack) /\ SameColors(E, l, w.gs)
      /\ \A k \in 1 .. Len(s) : s[k] \in LanePairs /\ SameColors(E, s[k], w.stack[k])
      /\ \A i : InHand(l, i) \in Nat /\ Cardinality(SavedPlaces(s, i)) \in Nat
  BY PlanShape DEF PlanOK
<1>2. /\ m \in LanePairs /\ m[lane] = b
      /\ \A x \in Lanes : x # lane => m[x] = l[x]
      /\ \A i : InHand(m, i) = InHand(l, i) - OneIf(l, lane, i) + (IF b.root = i THEN 1 ELSE 0)
  <2>1. l \in LanePairs /\ m = [l EXCEPT ![lane] = b]
    BY <1>1
  <2> HIDE DEF m
  <2>2. Replaced(l, lane, b, m)
    BY <2>1, CountReplaced
  <2> QED
    BY <2>2, Zenon DEF Replaced
<1> HIDE DEF m
<1>3. SameColors(F, l, w.gs) /\ \A k \in 1 .. Len(s) : SameColors(F, s[k], v.stack[k])
  BY <1>1, SameColorsFollow
<1>4. SameColors(F, m, v.gs)
  BY <1>2, <1>3 DEF SameColors
<1>5. \A i : OneIf(l, lane, i) \in {0, 1}
  BY DEF OneIf
<1>6. ASSUME NEW i \in 1 .. Len(F)
      PROVE  F[i].live = Tally(m, s, i)
  <2> DEFINE one == IF b.root = i THEN 1 ELSE 0
             c == Cardinality(SavedPlaces(s, i))
             h == InHand(l, i)
             o == OneIf(l, lane, i)
  <2>1. one \in Nat /\ c \in Nat /\ h \in Nat /\ o \in Nat
    BY <1>1, <1>5
  <2>2. F[i].live = Tally(l, s, i) - o + one
    OBVIOUS
  <2>3. Tally(l, s, i) = h + c /\ Tally(m, s, i) = InHand(m, i) + c
    BY DEF Tally
  <2>4. InHand(m, i) = h - o + one
    BY <1>2
  <2> HIDE DEF one, c, h, o
  <2> QED
    BY <2>1, <2>2, <2>3, <2>4
<1>7. F \in Seq(EpochType)
  BY DEF Follows
<1> QED
  BY <1>1, <1>2, <1>3, <1>4, <1>6, <1>7 DEF PlanOK, m

(* The walk changes the colour of one lane.                                *)
Recolors(w, v, lane) ==
  v \in Walks /\ v.stack = w.stack /\ \A x \in Lanes : x # lane => v.gs[x] = w.gs[x]

(* A branch ends.                                                          *)
LEMMA PlanDropped ==
    ASSUME NEW E, NEW l, NEW s, NEW w, NEW v, NEW lane \in Lanes,
           PlanOK(E, l, s, w), Recolors(w, v, lane)
    PROVE  PlanOK(Dropped(E, l[lane]), [l EXCEPT ![lane] = NoBranch], s, v)
<1> DEFINE F == Dropped(E, l[lane])
           b == NoBranch
<1>1. /\ E \in Seq(EpochType) /\ Len(E) \in Nat
      /\ \A i \in 1 .. Len(E) : E[i].live = Tally(l, s, i) /\ Tally(l, s, i) \in Nat
  BY PlanShape
<1>2. /\ Follows(E, F) /\ Len(F) = Len(E)
      /\ \A i \in 1 .. Len(E) : F[i].live = E[i].live - (IF l[lane].root = i THEN 1 ELSE 0)
  <2>1. Uncounts(E, F, l[lane])
    BY <1>1, DroppedCounts
  <2> QED
    BY <2>1, Zenon DEF Uncounts, Kept
<1>3. b \in Branches /\ b.root = 0
  BY DEF NoBranch, Branches
<1> HIDE DEF F, b
<1>4. SameColor(F, b, v.gs[lane])
  BY <1>3 DEF SameColor
<1>5. ASSUME NEW i \in 1 .. Len(F)
      PROVE  F[i].live = Tally(l, s, i) - OneIf(l, lane, i) + (IF b.root = i THEN 1 ELSE 0)
  <2>1. i \in 1 .. Len(E) /\ ~(b.root = i)
    BY <1>1, <1>2, <1>3
  <2>2. F[i].live = Tally(l, s, i) - OneIf(l, lane, i)
    BY <1>1, <1>2, <2>1 DEF OneIf
  <2>3. OneIf(l, lane, i) \in Nat /\ Tally(l, s, i) \in Nat
    BY <1>1, <2>1 DEF OneIf
  <2>4. (IF b.root = i THEN 1 ELSE 0) = 0
    BY <2>1
  <2> QED
    BY <2>2, <2>3, <2>4
<1>6. /\ v \in Walks /\ v.stack = w.stack
      /\ \A x \in Lanes : x # lane => v.gs[x] = w.gs[x]
  BY DEF Recolors
<1>7. PlanOK(F, [l EXCEPT ![lane] = b], s, v)
  BY <1>2, <1>3, <1>4, <1>5, <1>6, PlanRecolored
<1> QED
  BY <1>7 DEF F, b

(* A branch takes a new value, or stays while the walk goes on.            *)
LEMMA PlanSet ==
    ASSUME NEW E, NEW l, NEW s, NEW w, NEW v, NEW lane \in Lanes, NEW b \in Branches,
           PlanOK(E, l, s, w), Recolors(w, v, lane),
           b.root = l[lane].root, SameColor(E, b, v.gs[lane])
    PROVE  PlanOK(E, [l EXCEPT ![lane] = b], s, v)
<1>1. /\ E \in Seq(EpochType) /\ Len(E) \in Nat
      /\ \A i \in 1 .. Len(E) : E[i].live = Tally(l, s, i) /\ Tally(l, s, i) \in Nat
  BY PlanShape
<1>2. Follows(E, E)
  BY <1>1, MarksReflexive DEF Marks, Notes, Kept
<1>3. ASSUME NEW i \in 1 .. Len(E)
      PROVE  E[i].live = Tally(l, s, i) - OneIf(l, lane, i) + (IF b.root = i THEN 1 ELSE 0)
  <2>1. (IF b.root = i THEN 1 ELSE 0) = OneIf(l, lane, i)
    BY DEF OneIf
  <2>2. OneIf(l, lane, i) \in Nat
    BY DEF OneIf
  <2> QED
    BY <1>1, <2>1, <2>2
<1>4. /\ v \in Walks /\ v.stack = w.stack
      /\ \A x \in Lanes : x # lane => v.gs[x] = w.gs[x]
  BY DEF Recolors
<1> QED
  BY <1>2, <1>3, <1>4, PlanRecolored

(* An epoch nobody carries yet.                                            *)
LEMMA NobodyCarriesNext ==
    ASSUME NEW E, NEW l, NEW s, NEW w, PlanOK(E, l, s, w)
    PROVE  Tally(l, s, Len(E) + 1) = 0 /\ \A lane \in Lanes : l[lane].root # Len(E) + 1
<1> DEFINE n == Len(E) + 1
<1>1. /\ Len(E) \in Nat /\ l \in LanePairs /\ SameColors(E, l, w.gs)
      /\ \A k \in 1 .. Len(s) : s[k] \in LanePairs /\ SameColors(E, s[k], w.stack[k])
  BY PlanShape DEF PlanOK
<1>2. ASSUME NEW p, NEW g, SameColors(E, p, g)
      PROVE  \A lane \in Lanes : p[lane].root # n
  BY <1>1, <1>2 DEF SameColors, SameColor
<1>3. \A lane \in Lanes : l[lane].root # n
  BY <1>1, <1>2
<1>4. \A k \in 1 .. Len(s) : \A lane \in Lanes : s[k][lane].root # n
  BY <1>1, <1>2
<1> HIDE DEF n
<1>5. SavedPlaces(s, n) = {}
  BY <1>4 DEF SavedPlaces
<1>6. Cardinality(SavedPlaces(s, n)) = 0
  BY <1>5, FS_EmptySet
<1>7. InHand(l, n) = 0
  <2>1. OneIf(l, "stroke", n) = 0 /\ OneIf(l, "fill", n) = 0
    BY <1>3 DEF OneIf, Lanes
  <2> QED
    BY <2>1 DEF InHand
<1>8. Tally(l, s, n) = 0
  BY <1>6, <1>7 DEF Tally
<1> QED
  BY <1>3, <1>8 DEF n

(* An epoch opens on a lane whose branch has ended.                        *)
LEMMA PlanOpened ==
    ASSUME NEW E, NEW l, NEW s, NEW w, NEW lane \in Lanes, NEW e \in EpochType,
           NEW b \in Branches,
           PlanOK(E, l, s, w), l[lane].root = 0, e.live = 1, b.root = Len(E) + 1,
           /\ w.gs[lane].name = e.alias /\ w.gs[lane].space = AliasSpace[e.alias]
           /\ w.gs[lane].value = b.value /\ w.gs[lane].source = b.source
    PROVE  PlanOK(Append(E, e), [l EXCEPT ![lane] = b], s, w)
<1> DEFINE F == Append(E, e)
<1>1. /\ E \in Seq(EpochType) /\ Len(E) \in Nat /\ w \in Walks
      /\ \A i \in 1 .. Len(E) : E[i].live = Tally(l, s, i) /\ Tally(l, s, i) \in Nat
  BY PlanShape
<1>2. /\ F \in Seq(EpochType) /\ Len(F) = Len(E) + 1 /\ F[Len(E) + 1] = e
      /\ \A i \in 1 .. Len(E) : F[i] = E[i]
  BY <1>1, AppendProperties
<1> HIDE DEF F
<1>3. Follows(E, F)
  BY <1>1, <1>2 DEF Follows
<1>4. SameColor(F, b, w.gs[lane])
  <2>1. Len(E) + 1 \in 1 .. Len(F)
    BY <1>1, <1>2
  <2> QED
    BY <1>2, <2>1 DEF SameColor
<1>5. Recolors(w, w, lane)
  BY <1>1 DEF Recolors
<1>6. ASSUME NEW i \in 1 .. Len(F)
      PROVE  F[i].live = Tally(l, s, i) - OneIf(l, lane, i) + (IF b.root = i THEN 1 ELSE 0)
  <2>1. OneIf(l, lane, i) = 0
    BY <1>1, <1>2 DEF OneIf
  <2>2. CASE i \in 1 .. Len(E)
    <3>1. ~(b.root = i) /\ F[i].live = Tally(l, s, i) /\ Tally(l, s, i) \in Nat
      BY <1>1, <1>2, <2>2
    <3>2. (IF b.root = i THEN 1 ELSE 0) = 0
      BY <3>1
    <3> QED
      BY <2>1, <3>1, <3>2
  <2>3. CASE i = Len(E) + 1
    <3>1. F[i].live = 1 /\ b.root = i
      BY <1>2, <2>3
    <3>2. Tally(l, s, i) = 0
      BY <2>3, NobodyCarriesNext
    <3>3. (IF b.root = i THEN 1 ELSE 0) = 1
      BY <3>1
    <3> QED
      BY <2>1, <3>1, <3>2, <3>3
  <2> QED
    BY <1>1, <1>2, <2>2, <2>3
<1>7. /\ w \in Walks /\ w.stack = w.stack
      /\ \A x \in Lanes : x # lane => w.gs[x] = w.gs[x]
  BY <1>1
<1>8. PlanOK(F, [l EXCEPT ![lane] = b], s, w)
  BY <1>3, <1>4, <1>6, <1>7, PlanRecolored
<1> QED
  BY <1>8 DEF F

(* q: the pair in hand is copied.                                          *)
LEMMA PlanSaved ==
    ASSUME NEW E, NEW s, NEW w, NEW v \in Walks, PlanOK(E, lanes, s, w),
           v.gs = w.gs, v.stack = Append(w.stack, w.gs)
    PROVE  PlanOK(Copied(E), lanes, Append(s, lanes), v)
<1> DEFINE F == Copied(E)
           t == Append(s, lanes)
           n == Len(s) + 1
<1>1. /\ E \in Seq(EpochType) /\ Len(E) \in Nat /\ lanes \in LanePairs /\ s \in Seq(LanePairs)
      /\ Len(s) \in Nat /\ Len(s) = Len(w.stack) /\ w.stack \in Seq(Snapshots)
      /\ w.gs \in Snapshots /\ SameColors(E, lanes, w.gs)
      /\ \A k \in 1 .. Len(s) : s[k] \in LanePairs /\ SameColors(E, s[k], w.stack[k])
  BY PlanShape DEF PlanOK
<1>2. /\ Follows(E, F) /\ Len(F) = Len(E)
      /\ \A i \in 1 .. Len(E) : F[i].live = E[i].live + InHand(lanes, i)
  BY <1>1, CopiedCounts DEF Kept
<1>3. /\ t \in Seq(LanePairs) /\ Len(t) = n /\ t[n] = lanes
      /\ \A k \in 1 .. Len(s) : t[k] = s[k]
  BY <1>1, AppendProperties
<1>4. /\ Len(v.stack) = n /\ v.stack[n] = w.gs
      /\ \A k \in 1 .. Len(s) : v.stack[k] = w.stack[k]
  BY <1>1, AppendProperties
<1>5. \A i : Cardinality(SavedPlaces(t, i)) = Cardinality(SavedPlaces(s, i)) + InHand(lanes, i)
  BY <1>1, CountAppended
<1> HIDE DEF F, t
<1>6. SameColors(F, lanes, v.gs)
  BY <1>1, <1>2, SameColorsFollow
<1>7. ASSUME NEW k \in 1 .. Len(t)
      PROVE  SameColors(F, t[k], v.stack[k])
  <2>1. CASE k \in 1 .. Len(s)
    <3>1. SameColors(F, s[k], w.stack[k])
      BY <1>1, <1>2, <2>1, SameColorsFollow
    <3> QED
      BY <1>3, <1>4, <2>1, <3>1
  <2>2. CASE k = n
    BY <1>3, <1>4, <1>6, <2>2
  <2> QED
    BY <1>1, <1>3, <2>1, <2>2
<1>8. ASSUME NEW i \in 1 .. Len(F)
      PROVE  F[i].live = Tally(lanes, t, i)
  <2> DEFINE c == Cardinality(SavedPlaces(s, i))
             h == InHand(lanes, i)
  <2>1. c \in Nat /\ h \in Nat
    BY PlanShape
  <2>2. E[i].live = h + c /\ F[i].live = E[i].live + h
    BY <1>2, PlanShape DEF Tally
  <2>3. Tally(lanes, t, i) = h + (c + h)
    BY <1>5 DEF Tally
  <2> HIDE DEF c, h
  <2> QED
    BY <2>1, <2>2, <2>3
<1>9. F \in Seq(EpochType)
  BY <1>2 DEF Follows
<1>10. PlanOK(F, lanes, t, v)
  BY <1>1, <1>3, <1>4, <1>6, <1>7, <1>8, <1>9 DEF PlanOK
<1> QED
  BY <1>10 DEF F, t

(* Q: the pair in hand is dropped and the last saved pair comes back.      *)
LEMMA PlanRestored ==
    ASSUME NEW E, NEW l, NEW s, NEW w, NEW v \in Walks, PlanOK(E, l, s, w),
           w.stack # <<>>, v.gs = w.stack[Len(w.stack)],
           v.stack = SubSeq(w.stack, 1, Len(w.stack) - 1)
    PROVE  PlanOK(Dropped(Dropped(E, l["stroke"]), l["fill"]),
                  s[Len(s)], SubSeq(s, 1, Len(s) - 1), v)
<1> DEFINE D == Dropped(E, l["stroke"])
           F == Dropped(D, l["fill"])
           n == Len(s)
           t == SubSeq(s, 1, n - 1)
           m == s[n]
<1>1. /\ E \in Seq(EpochType) /\ Len(E) \in Nat /\ l \in LanePairs /\ s \in Seq(LanePairs)
      /\ n \in Nat /\ n = Len(w.stack) /\ w.stack \in Seq(Snapshots)
      /\ \A k \in 1 .. n : s[k] \in LanePairs /\ SameColors(E, s[k], w.stack[k])
  BY PlanShape
<1>2. n > 0 /\ s # <<>>
  <2>1. n # 0
    BY <1>1, EmptySeq
  <2> HIDE DEF n
  <2>2. n > 0
    BY <1>1, <2>1
  <2>3. Len(<<>>) = 0
    BY EmptySeq
  <2> QED
    BY <2>1, <2>2, <2>3 DEF n
<1>3. /\ Follows(E, D) /\ Len(D) = Len(E) /\ D \in Seq(EpochType)
      /\ \A i \in 1 .. Len(E) : D[i].live = E[i].live - (IF l["stroke"].root = i THEN 1 ELSE 0)
  <2>1. E \in Seq(EpochType)
    BY <1>1
  <2>2. Uncounts(E, D, l["stroke"])
    BY <2>1, DroppedCounts
  <2> QED
    BY <2>2, Zenon DEF Uncounts, Kept, Follows
<1> HIDE DEF D
<1>4. /\ Follows(D, F) /\ Len(F) = Len(D) /\ F \in Seq(EpochType)
      /\ \A i \in 1 .. Len(D) : F[i].live = D[i].live - (IF l["fill"].root = i THEN 1 ELSE 0)
  <2>1. D \in Seq(EpochType)
    BY <1>3
  <2>2. Uncounts(D, F, l["fill"])
    BY <2>1, DroppedCounts
  <2> QED
    BY <2>2, Zenon DEF Uncounts, Kept, Follows
<1> HIDE DEF F
<1>5. Follows(E, F)
  BY <1>1, <1>3, <1>4, FollowsTransitive
<1>6. /\ t \in Seq(LanePairs) /\ m \in LanePairs
      /\ \A i : Cardinality(SavedPlaces(s, i)) = InHand(m, i) + Cardinality(SavedPlaces(t, i))
  BY <1>1, <1>2, CountRestored
<1> HIDE DEF n, t, m
<1>7. Len(t) = n - 1 /\ \A k \in 1 .. n - 1 : t[k] = s[k]
  <2>1. \A k \in 1 .. n - 1 : s[k] \in LanePairs
    BY <1>1
  <2> QED
    BY <1>1, <1>2, <2>1, SubSeqProperties DEF t
<1>8. Len(v.stack) = n - 1 /\ \A k \in 1 .. n - 1 : v.stack[k] = w.stack[k]
  <2>1. \A k \in 1 .. n : w.stack[k] \in Snapshots
    BY <1>1, ElementOfSeq
  <2>2. \A k \in 1 .. n - 1 : w.stack[k] \in Snapshots
    BY <1>1, <2>1
  <2>3. v.stack = SubSeq(w.stack, 1, n - 1)
    BY <1>1
  <2> QED
    BY <1>1, <1>2, <2>2, <2>3, SubSeqProperties
<1>9. \A k \in 1 .. n : SameColors(F, s[k], w.stack[k])
  BY <1>1, <1>5, SameColorsFollow
<1>10. SameColors(F, m, v.gs)
  <2>1. n \in 1 .. n /\ v.gs = w.stack[n]
    BY <1>1, <1>2
  <2> QED
    BY <1>9, <2>1 DEF m
<1>11. \A k \in 1 .. Len(t) : SameColors(F, t[k], v.stack[k])
  BY <1>1, <1>7, <1>8, <1>9
<1>12. ASSUME NEW i \in 1 .. Len(F)
       PROVE  F[i].live = Tally(m, t, i)
  <2> DEFINE a == OneIf(l, "stroke", i)
             b == OneIf(l, "fill", i)
             c == Cardinality(SavedPlaces(s, i))
  <2>1. a \in Nat /\ b \in Nat /\ c \in Nat
    BY PlanShape DEF OneIf
  <2>2. i \in 1 .. Len(E) /\ i \in 1 .. Len(D)
    BY <1>3, <1>4
  <2>3. E[i].live = (a + b) + c
    BY <2>2, PlanShape DEF Tally, InHand
  <2>4. D[i].live = E[i].live - a /\ F[i].live = D[i].live - b
    BY <1>3, <1>4, <2>2 DEF OneIf
  <2>5. Tally(m, t, i) = c
    BY <1>6 DEF Tally
  <2> HIDE DEF a, b, c
  <2> QED
    BY <2>1, <2>3, <2>4, <2>5
<1>13. PlanOK(F, m, t, v)
  BY <1>4, <1>6, <1>7, <1>8, <1>10, <1>11, <1>12 DEF PlanOK
<1> QED
  BY <1>13 DEF D, F, m, t, n

-----------------------------------------------------------------------------
(* What one operator does to the walk.                                     *)
LEMMA SnapshotLanes ==
    ASSUME NEW g \in Snapshots, NEW lane \in Lanes, NEW c \in Colors
    PROVE  /\ g[lane] \in Colors
           /\ [g EXCEPT ![lane] = c] \in Snapshots
           /\ [g EXCEPT ![lane] = c][lane] = c
           /\ \A x \in Lanes : x # lane => [g EXCEPT ![lane] = c][x] = g[x]
<1>1. CASE lane = "stroke"
  BY <1>1 DEF Snapshots, Lanes
<1>2. CASE lane = "fill"
  BY <1>2 DEF Snapshots, Lanes
<1> QED
  BY <1>1, <1>2 DEF Lanes

(* Most operators change the rendering mode, the font or nothing.          *)
LEMMA WalkedPlain ==
    ASSUME NEW w \in Walks, NEW o \in OperatorRecords, NEW at \in Nat,
           o.kind \notin {"q", "Q", "select", "set", "device"}
    PROVE  LET v == Walked(w, o, at)
           IN  /\ v \in Walks /\ v.stack = w.stack
               /\ \A lane \in Lanes : v.gs[lane] = w.gs[lane]
<1> DEFINE v == Walked(w, o, at)
<1>1. w.gs \in Snapshots /\ w.stack \in Seq(Snapshots) /\ w = [gs |-> w.gs, stack |-> w.stack]
  BY DEF Walks
<1>2. o.value \in Nat /\ o.name \in STRING
  BY DEF OperatorRecords
<1>3. FontSelected(o.name) \in Strings /\ FontAfterExtGState(w.gs.font, o.name) \in Strings
  <2>1. w.gs.font \in Strings
    BY <1>1 DEF Snapshots
  <2>2. FontSelected(o.name) \in Strings
    <3>1. CASE o.name \in DOMAIN FontOf
      BY <3>1, EnvironmentAssumption DEF FontSelected, Strings
    <3>2. CASE o.name \notin DOMAIN FontOf
      BY <3>2 DEF FontSelected, Strings
    <3> QED
      BY <3>1, <3>2
  <2>3. FontAfterExtGState(w.gs.font, o.name) \in Strings
    <3>1. CASE o.name \in DOMAIN ExtGStateFont
      BY <2>1, <3>1, EnvironmentAssumption DEF FontAfterExtGState, Strings
    <3>2. CASE o.name \notin DOMAIN ExtGStateFont
      BY <3>2 DEF FontAfterExtGState, Strings
    <3> QED
      BY <3>1, <3>2
  <2> QED
    BY <2>2, <2>3
<1>4. \A g \in Snapshots, m \in Nat :
        [g EXCEPT !.mode = m] \in Snapshots
        /\ \A lane \in Lanes : [g EXCEPT !.mode = m][lane] = g[lane]
  BY DEF Snapshots, Lanes
<1>5. \A g \in Snapshots, f \in Strings :
        [g EXCEPT !.font = f] \in Snapshots
        /\ \A lane \in Lanes : [g EXCEPT !.font = f][lane] = g[lane]
  BY DEF Snapshots, Lanes
<1>6. CASE o.kind = "Tr"
  <2> DEFINE g == [w.gs EXCEPT !.mode = o.value]
  <2>1. v = [w EXCEPT !.gs = g]
    BY <1>6 DEF Walked
  <2>2. g \in Snapshots /\ \A lane \in Lanes : g[lane] = w.gs[lane]
    BY <1>1, <1>2, <1>4
  <2> HIDE DEF g
  <2>3. v = [gs |-> g, stack |-> w.stack]
    BY <1>1, <2>1
  <2> QED
    BY <1>1, <2>2, <2>3 DEF Walks
<1>7. CASE o.kind = "Tf"
  <2> DEFINE g == [w.gs EXCEPT !.font = FontSelected(o.name)]
  <2>1. v = [w EXCEPT !.gs = g]
    BY <1>7 DEF Walked
  <2>2. g \in Snapshots /\ \A lane \in Lanes : g[lane] = w.gs[lane]
    BY <1>1, <1>3, <1>5
  <2> HIDE DEF g
  <2>3. v = [gs |-> g, stack |-> w.stack]
    BY <1>1, <2>1
  <2> QED
    BY <1>1, <2>2, <2>3 DEF Walks
<1>8. CASE o.kind = "gs"
  <2> DEFINE g == [w.gs EXCEPT !.font = FontAfterExtGState(w.gs.font, o.name)]
  <2>1. v = [w EXCEPT !.gs = g]
    BY <1>8 DEF Walked
  <2>2. g \in Snapshots /\ \A lane \in Lanes : g[lane] = w.gs[lane]
    BY <1>1, <1>3, <1>5
  <2> HIDE DEF g
  <2>3. v = [gs |-> g, stack |-> w.stack]
    BY <1>1, <2>1
  <2> QED
    BY <1>1, <2>2, <2>3 DEF Walks
<1>9. CASE o.kind \notin {"Tr", "Tf", "gs"}
  BY <1>9 DEF Walked
<1> QED
  BY <1>6, <1>7, <1>8, <1>9

(* q pushes the snapshot.                                                  *)
LEMMA WalkedSave ==
    ASSUME NEW w \in Walks, NEW o, NEW at, o.kind = "q"
    PROVE  LET v == Walked(w, o, at)
           IN  v \in Walks /\ v.gs = w.gs /\ v.stack = Append(w.stack, w.gs)
<1>1. w.gs \in Snapshots /\ w.stack \in Seq(Snapshots) /\ w = [gs |-> w.gs, stack |-> w.stack]
  BY DEF Walks
<1>2. Append(w.stack, w.gs) \in Seq(Snapshots)
  BY <1>1, AppendProperties
<1>3. Walked(w, o, at) = [w EXCEPT !.stack = Append(w.stack, w.gs)]
  BY DEF Walked
<1> DEFINE t == Append(w.stack, w.gs)
<1> HIDE DEF t
<1>4. Walked(w, o, at) = [gs |-> w.gs, stack |-> t]
  BY <1>1, <1>3 DEF t
<1>5. t \in Seq(Snapshots)
  BY <1>2 DEF t
<1>6. /\ Walked(w, o, at) \in Walks /\ Walked(w, o, at).gs = w.gs
      /\ Walked(w, o, at).stack = t
  BY <1>1, <1>4, <1>5 DEF Walks
<1> QED
  BY <1>6 DEF t

(* Q takes the last one back.                                              *)
LEMMA WalkedRestore ==
    ASSUME NEW w \in Walks, NEW o, NEW at, o.kind = "Q", ~WalkFails(w, o)
    PROVE  LET v == Walked(w, o, at)
           IN  /\ v \in Walks /\ w.stack # <<>> /\ v.gs = w.stack[Len(w.stack)]
               /\ v.stack = SubSeq(w.stack, 1, Len(w.stack) - 1)
<1> DEFINE n == Len(w.stack)
           t == SubSeq(w.stack, 1, n - 1)
           g == w.stack[n]
<1>1. w.stack \in Seq(Snapshots) /\ w.stack # <<>>
  BY DEF Walks, WalkFails
<1>2. n \in Nat /\ n # 0 /\ \A k \in 1 .. n : w.stack[k] \in Snapshots
  BY <1>1, LenProperties, ElementOfSeq, EmptySeq
<1> HIDE DEF n
<1>3. g \in Snapshots
  BY <1>2
<1>4. t \in Seq(Snapshots)
  BY <1>2, SubSeqProperties
<1>5. Walked(w, o, at) = [gs |-> g, stack |-> t]
  BY DEF Walked, n
<1> HIDE DEF g, t
<1>6. /\ Walked(w, o, at) \in Walks /\ Walked(w, o, at).gs = g
      /\ Walked(w, o, at).stack = t
  BY <1>3, <1>4, <1>5 DEF Walks
<1> QED
  BY <1>1, <1>6 DEF g, t, n

(* A colour operator changes the colour of its lane.                       *)
ColourOperator(o) == o.lane \in Lanes /\ o.value \in Nat /\ o.name \in Strings

(* A colour operator recolours its lane, and no other.                     *)
LEMMA ColourWalked ==
    ASSUME NEW w \in Walks, NEW o, ColourOperator(o), NEW at \in Nat,
           o.kind \in {"select", "set", "device"}
    PROVE  LET v == Walked(w, o, at)
           IN  /\ o.lane \in Lanes /\ Recolors(w, v, o.lane) /\ w.gs[o.lane] \in Colors
               /\ o.kind = "select" => v.gs[o.lane] = SelectedColor(o.name, at)
               /\ o.kind = "set" => v.gs[o.lane] = SetColor(w.gs[o.lane], o, at)
               /\ o.kind = "device" => v.gs[o.lane] = DeviceColor(o, at)
<1> DEFINE c == CASE o.kind = "select" -> SelectedColor(o.name, at)
                  [] o.kind = "set" -> SetColor(w.gs[o.lane], o, at)
                  [] o.kind = "device" -> DeviceColor(o, at)
           lane == o.lane
           v == Walked(w, o, at)
<1>1. w.gs \in Snapshots /\ w = [gs |-> w.gs, stack |-> w.stack] /\ w.stack \in Seq(Snapshots)
  BY DEF Walks
<1>2. lane \in Lanes /\ o.value \in Nat /\ o.name \in Strings
  BY DEF ColourOperator
<1>3. w.gs[lane] \in Colors
  BY <1>1, <1>2 DEF Snapshots, Lanes
<1>4. SelectedColor(o.name, at) \in Colors
  <2>1. (IF o.name \in DOMAIN PaintSpace THEN PaintSpace[o.name] ELSE o.name) \in Strings
    BY <1>2, EnvironmentAssumption DEF Strings
  <2> QED
    BY <1>2, <2>1 DEF SelectedColor, Colors, NoComponents
<1>5. SetColor(w.gs[lane], o, at) \in Colors
  BY <1>2, <1>3 DEF SetColor, Colors
<1>6. DeviceColor(o, at) \in Colors
  <2>1. NoName \in Strings
    BY DEF Strings
  <2>2. [space |-> o.name, value |-> o.value, name |-> NoName, source |-> at] \in Colors
    BY <1>2, <2>1 DEF Colors
  <2> QED
    BY <2>2 DEF DeviceColor
<1>7. c \in Colors
  BY <1>4, <1>5, <1>6
<1>8. v = [w EXCEPT !.gs = [w.gs EXCEPT ![lane] = c]]
  <2>1. CASE o.kind = "select"
    BY <2>1 DEF Walked
  <2>2. CASE o.kind = "set"
    BY <2>2 DEF Walked
  <2>3. CASE o.kind = "device"
    BY <2>3 DEF Walked
  <2> QED
    BY <2>1, <2>2, <2>3
<1> DEFINE g == [w.gs EXCEPT ![lane] = c]
<1>9. /\ o.kind = "select" => c = SelectedColor(o.name, at)
      /\ o.kind = "set" => c = SetColor(w.gs[lane], o, at)
      /\ o.kind = "device" => c = DeviceColor(o, at)
  OBVIOUS
<1> HIDE DEF c, lane
<1>10. g \in Snapshots /\ g[lane] = c /\ \A x \in Lanes : x # lane => g[x] = w.gs[x]
  BY <1>1, <1>2, <1>7, SnapshotLanes
<1> HIDE DEF g, v
<1>11. v = [gs |-> g, stack |-> w.stack]
  BY <1>1, <1>8 DEF g
<1>12. v \in Walks /\ v.gs = g /\ v.stack = w.stack
  BY <1>1, <1>10, <1>11 DEF Walks
<1>13. Recolors(w, v, lane)
  BY <1>10, <1>12 DEF Recolors
<1> QED
  BY <1>2, <1>3, <1>9, <1>10, <1>12, <1>13 DEF lane, v

(* The operators of a page that are colours are such operators.            *)
LEMMA WalkedColor ==
    ASSUME NEW w \in Walks, NEW o, IsOperator(o), NEW at \in Nat,
           o.kind \in {"select", "set", "device"}
    PROVE  LET v == Walked(w, o, at)
           IN  /\ o.lane \in Lanes /\ Recolors(w, v, o.lane) /\ w.gs[o.lane] \in Colors
               /\ o.kind = "select" => v.gs[o.lane] = SelectedColor(o.name, at)
               /\ o.kind = "set" => v.gs[o.lane] = SetColor(w.gs[o.lane], o, at)
               /\ o.kind = "device" => v.gs[o.lane] = DeviceColor(o, at)
<1>1. ColourOperator(o)
  BY DEF ColourOperator, IsOperator, OperatorRecords, Strings
<1> QED
  BY <1>1, ColourWalked

-----------------------------------------------------------------------------
(* The steps of the plan.                                                  *)
PlanNow == PlanOK(epochs, lanes, saved, walk)

(* An operator that leaves colours alone and only marks epochs.            *)
LEMMA PlainStep ==
    ASSUME NEW o, MirrorInv, IsOperator(o), Observe(o), Marks(epochs, epochs'),
           lanes' = lanes, saved' = saved,
           o.kind \notin {"q", "Q", "select", "set", "device"}
    PROVE  PlanOK(epochs', lanes', saved', walk')
<1>1. PlanNow /\ Now \in Nat /\ o \in OperatorRecords /\ walk' = Walked(walk, o, Now)
  BY LenProperties DEF MirrorInv, PlanNow, Now, IsOperator, Observe
<1>2. walk \in Walks
  BY <1>1, PlanShape DEF PlanNow
<1>3. /\ walk' \in Walks /\ walk'.stack = walk.stack
      /\ \A lane \in Lanes : walk'.gs[lane] = walk.gs[lane]
  BY <1>1, <1>2, WalkedPlain
<1> QED
  BY <1>1, <1>3, PlanMarked DEF PlanNow

(* The plan before an operator's own effect: what stands wrongly refuses.  *)
LEMMA PlanRefusing ==
    ASSUME MirrorInv, NEW condition
    PROVE  /\ PlanOK(RefusedIf(condition, epochs, Now), lanes, saved, walk)
           /\ Marks(epochs, RefusedIf(condition, epochs, Now))
<1>1. PlanNow /\ Now \in Nat
  BY LenProperties DEF MirrorInv, PlanNow, Now
<1>2. epochs \in Seq(EpochType) /\ walk \in Walks
  BY <1>1, PlanShape DEF PlanNow
<1>3. Marks(epochs, RefusedIf(condition, epochs, Now))
  BY <1>1, <1>2, RefusedIfMarks
<1> DEFINE F == RefusedIf(condition, epochs, Now)
<1> HIDE DEF F
<1>4. PlanOK(F, lanes, saved, walk)
  BY <1>1, <1>2, <1>3, PlanMarked DEF PlanNow, F
<1> QED
  BY <1>3, <1>4 DEF F

(* q on both sides.                                                        *)
LEMMA SaveStep ==
    ASSUME NEW o, MirrorInv, IsOperator(o), Save(o)
    PROVE  PlanOK(epochs', lanes', saved', walk')
<1> DEFINE F == RefusedIf(inText \/ inPath, epochs, Now)
<1>1. /\ o.kind = "q" /\ walk' = Walked(walk, o, Now)
      /\ epochs' = Copied(F) /\ saved' = Append(saved, lanes) /\ lanes' = lanes
  BY DEF Save, Observe
<1>2. PlanOK(F, lanes, saved, walk)
  BY PlanRefusing
<1> HIDE DEF F
<1>3. walk \in Walks
  BY <1>2, PlanShape
<1>4. walk' \in Walks /\ walk'.gs = walk.gs /\ walk'.stack = Append(walk.stack, walk.gs)
  BY <1>1, <1>3, WalkedSave
<1>5. PlanOK(Copied(F), lanes, Append(saved, lanes), walk')
  BY <1>2, <1>4, PlanSaved
<1> QED
  BY <1>1, <1>5

(* Q on both sides.                                                        *)
LEMMA RestoreStep ==
    ASSUME NEW o, MirrorInv, IsOperator(o), Restore(o)
    PROVE  PlanOK(epochs', lanes', saved', walk')
<1> DEFINE F == RefusedIf(inText \/ inPath, epochs, Now)
<1>1. /\ o.kind = "Q" /\ ~WalkFails(walk, o) /\ walk' = Walked(walk, o, Now)
      /\ epochs' = Dropped(Dropped(F, lanes["stroke"]), lanes["fill"])
      /\ lanes' = saved[Len(saved)] /\ saved' = SubSeq(saved, 1, Len(saved) - 1)
  BY DEF Restore, Observe
<1>2. PlanOK(F, lanes, saved, walk)
  BY PlanRefusing
<1> HIDE DEF F
<1>3. walk \in Walks
  BY <1>2, PlanShape
<1>4. /\ walk' \in Walks /\ walk.stack # <<>> /\ walk'.gs = walk.stack[Len(walk.stack)]
      /\ walk'.stack = SubSeq(walk.stack, 1, Len(walk.stack) - 1)
  BY <1>1, <1>3, WalkedRestore
<1>5. PlanOK(Dropped(Dropped(F, lanes["stroke"]), lanes["fill"]),
             saved[Len(saved)], SubSeq(saved, 1, Len(saved) - 1), walk')
  BY <1>2, <1>4, PlanRestored
<1> QED
  BY <1>1, <1>5

(* Notes after the step keep the plan.                                     *)
LEMMA PlanNotedAfter ==
    ASSUME NEW E, NEW F, NEW l, NEW s, NEW v, PlanOK(E, l, s, v), Notes(E, F)
    PROVE  PlanOK(F, l, s, v)
<1>1. v \in Walks
  BY PlanShape
<1> QED
  BY <1>1, PlanNoted

(* So do marks.                                                            *)
LEMMA PlanMarkedAfter ==
    ASSUME NEW E, NEW F, NEW l, NEW s, NEW v, PlanOK(E, l, s, v), Marks(E, F)
    PROVE  PlanOK(F, l, s, v)
<1>1. v \in Walks
  BY PlanShape
<1> QED
  BY <1>1, PlanMarked

(* The branch of the operator's lane has ended.                            *)
LEMMA PlanEnding ==
    ASSUME NEW o, MirrorInv, IsOperator(o), Observe(o), NEW condition,
           o.kind \in {"select", "set", "device"}
    PROVE  PlanOK(Dropped(RefusedIf(condition, epochs, Now), lanes[o.lane]),
                  [lanes EXCEPT ![o.lane] = NoBranch], saved, walk')
<1> DEFINE F == RefusedIf(condition, epochs, Now)
<1>1. PlanOK(F, lanes, saved, walk)
  BY PlanRefusing
<1> HIDE DEF F
<1>2. walk \in Walks /\ Now \in Nat /\ walk' = Walked(walk, o, Now)
  BY <1>1, PlanShape, LenProperties DEF MirrorInv, Now, Observe
<1>3. o.lane \in Lanes /\ Recolors(walk, walk', o.lane)
  BY <1>2, WalkedColor
<1>4. PlanOK(Dropped(F, lanes[o.lane]), [lanes EXCEPT ![o.lane] = NoBranch], saved, walk')
  BY <1>1, <1>3, PlanDropped
<1> QED
  BY <1>4 DEF F

(* g, rg and k end the branch of their lane.                               *)
LEMMA DeviceStep ==
    ASSUME NEW o, MirrorInv, IsOperator(o), SetDeviceColor(o)
    PROVE  PlanOK(epochs', lanes', saved', walk')
<1> DEFINE D == Dropped(RefusedIf(inPath, epochs, Now), lanes[o.lane])
           l == [lanes EXCEPT ![o.lane] = NoBranch]
<1>1. /\ Observe(o) /\ o.kind = "device" /\ lanes' = l /\ saved' = saved
      /\ epochs' = RefusedIf(inPath, D, Now)
  BY DEF SetDeviceColor
<1>2. PlanOK(D, l, saved, walk')
  <2>1. Observe(o) /\ o.kind \in {"select", "set", "device"}
    BY <1>1
  <2> QED
    BY <2>1, PlanEnding
<1> HIDE DEF D, l
<1>3. D \in Seq(EpochType) /\ Now \in Nat
  BY <1>2, PlanShape, LenProperties DEF MirrorInv, Now
<1>4. Marks(D, RefusedIf(inPath, D, Now))
  BY <1>3, RefusedIfMarks
<1>5. PlanOK(epochs', l, saved, walk')
  BY <1>1, <1>2, <1>4, PlanMarkedAfter
<1> QED
  BY <1>1, <1>5

(* So does the selection of anything that is not an eligible alias.        *)
LEMMA SelectOtherStep ==
    ASSUME NEW o, MirrorInv, IsOperator(o), SelectOther(o)
    PROVE  PlanOK(epochs', lanes', saved', walk')
<1> DEFINE D == Dropped(RefusedIf(inPath, epochs, Now), lanes[o.lane])
           l == [lanes EXCEPT ![o.lane] = NoBranch]
           A == AfterDecision(D, Now, 0, NoFacts)
<1>1. /\ Observe(o) /\ o.kind = "select" /\ lanes' = l /\ saved' = saved
      /\ epochs' = RefusedIf(inPath, A, Now)
  BY DEF SelectOther
<1>2. PlanOK(D, l, saved, walk')
  <2>1. Observe(o) /\ o.kind \in {"select", "set", "device"}
    BY <1>1
  <2> QED
    BY <2>1, PlanEnding
<1> HIDE DEF D, l
<1>3. D \in Seq(EpochType) /\ Now \in Nat
  BY <1>2, PlanShape, LenProperties DEF MirrorInv, Now
<1>4. Marks(D, A)
  BY <1>3, AfterDecisionMarks
<1> HIDE DEF A
<1>5. A \in Seq(EpochType)
  BY <1>4 DEF Marks, Notes, Kept, Follows
<1>6. Marks(A, RefusedIf(inPath, A, Now))
  BY <1>3, <1>5, RefusedIfMarks
<1>7. PlanOK(A, l, saved, walk')
  BY <1>2, <1>4, PlanMarkedAfter
<1>8. PlanOK(epochs', l, saved, walk')
  BY <1>1, <1>6, <1>7, PlanMarkedAfter
<1> QED
  BY <1>1, <1>8

(* An eligible alias ends the branch and opens an epoch of its own.        *)
LEMMA SelectAliasStep ==
    ASSUME NEW o, MirrorInv, IsOperator(o), SelectAlias(o)
    PROVE  PlanOK(epochs', lanes', saved', walk')
<1> DEFINE D == Dropped(RefusedIf(inPath, epochs, Now), lanes[o.lane])
           space == AliasSpace[o.name]
           root == Len(D) + 1
           e == [alias |-> o.name, lane |-> o.lane, candidates |-> <<>>,
                 consumed |-> FALSE, live |-> 1, refusal |-> NoRefusal]
           b == [root |-> root, value |-> 0, source |-> Now]
           l == [lanes EXCEPT ![o.lane] = NoBranch]
           G == Append(D, e)
           R == IF ~Routed(space) THEN RefusedAmong(G, {root}, Now, "NoPreparedRoute")
                ELSE IF ~RouteIsRaw(space)
                THEN RefusedAmong(G, {root}, Now, "RouteDefaultUnsafe") ELSE G
           C == WithCandidate(R, Now, root, 0, FALSE)
<1>1. /\ Observe(o) /\ o.kind = "select" /\ o.name \in Eligible
      /\ lanes' = [lanes EXCEPT ![o.lane] = b] /\ saved' = saved
      /\ epochs' = RefusedIf(inPath, C, Now)
  BY DEF SelectAlias
<1>2. PlanOK(D, l, saved, walk')
  <2>1. Observe(o) /\ o.kind \in {"select", "set", "device"}
    BY <1>1
  <2> QED
    BY <2>1, PlanEnding
<1> HIDE DEF D
<1>3. /\ walk \in Walks /\ Now \in Nat /\ walk' = Walked(walk, o, Now)
      /\ lanes \in LanePairs /\ D \in Seq(EpochType) /\ Len(D) \in Nat
  BY <1>1, <1>2, PlanShape, LenProperties DEF MirrorInv, Now, Observe
<1>4. o.lane \in Lanes /\ walk'.gs[o.lane] = SelectedColor(o.name, Now)
  BY <1>1, <1>3, WalkedColor
<1>5. /\ walk'.gs[o.lane].name = o.name /\ walk'.gs[o.lane].space = AliasSpace[o.name]
      /\ walk'.gs[o.lane].value = 0 /\ walk'.gs[o.lane].source = Now
  BY <1>1, <1>4, PolicyAssumption DEF SelectedColor, Eligible
<1>6. e \in EpochType /\ e.live = 1 /\ e.alias = o.name
  <2>1. NoRefusal \in Refusals
    BY DEF NoRefusal, Refusals
  <2>2. <<>> \in Seq([at : Nat, value : Nat])
    BY EmptySeq
  <2> QED
    BY <1>1, <1>4, <2>1, <2>2 DEF EpochType
<1>7. b \in Branches /\ b.root = Len(D) + 1 /\ b.value = 0 /\ b.source = Now
  BY <1>3 DEF Branches
<1>8. l[o.lane].root = 0 /\ [l EXCEPT ![o.lane] = b] = [lanes EXCEPT ![o.lane] = b]
  BY <1>3, <1>4 DEF LanePairs, NoBranch
<1>9. Len(G) = root /\ root \in 1 .. Len(G) /\ G \in Seq(EpochType)
  <2> HIDE DEF e
  <2> QED
    BY <1>3, <1>6, AppendProperties
<1> HIDE DEF e, b, l, space
<1>10. PlanOK(G, [l EXCEPT ![o.lane] = b], saved, walk')
  BY <1>2, <1>4, <1>5, <1>6, <1>7, <1>8, PlanOpened
<1> HIDE DEF G
<1>11. Marks(G, R)
  <2>1. "NoPreparedRoute" \in Reasons /\ "RouteDefaultUnsafe" \in Reasons
    BY DEF Reasons
  <2> HIDE DEF root
  <2> QED
    BY <1>3, <1>9, <2>1, RefusingMarks, MarksReflexive
<1> HIDE DEF R, root
<1>12. R \in Seq(EpochType) /\ root \in 1 .. Len(R)
  BY <1>9, <1>11 DEF Marks, Notes, Kept, Follows
<1>13. Notes(R, C)
  BY <1>3, <1>12, CandidateNotes
<1> HIDE DEF C
<1>14. C \in Seq(EpochType)
  BY <1>13 DEF Marks, Notes, Kept, Follows
<1>15. Marks(C, epochs')
  BY <1>1, <1>3, <1>14, RefusedIfMarks
<1>16. PlanOK(R, lanes', saved, walk')
  BY <1>1, <1>8, <1>10, <1>11, PlanMarkedAfter
<1>17. PlanOK(C, lanes', saved, walk')
  BY <1>13, <1>16, PlanNotedAfter
<1>18. PlanOK(epochs', lanes', saved, walk')
  BY <1>15, <1>17, PlanMarkedAfter
<1> QED
  BY <1>1, <1>18

(* What a setter does to the walk, and the branch it meets.                *)
LEMMA SetterFacts ==
    ASSUME NEW o, MirrorInv, IsOperator(o), Observe(o), o.kind = "set"
    PROVE  /\ Now \in Nat /\ o.lane \in Lanes /\ o.value \in Nat
           /\ epochs \in Seq(EpochType)
           /\ lanes[o.lane] \in Branches /\ SameColor(epochs, lanes[o.lane], walk.gs[o.lane])
           /\ Recolors(walk, walk', o.lane) /\ walk.gs[o.lane] \in Colors
           /\ walk'.gs[o.lane] = SetColor(walk.gs[o.lane], o, Now)
<1>1. PlanOK(epochs, lanes, saved, walk) /\ Now \in Nat
  BY LenProperties DEF MirrorInv, Now
<1>2. /\ walk \in Walks /\ walk' = Walked(walk, o, Now) /\ lanes \in LanePairs
      /\ SameColors(epochs, lanes, walk.gs) /\ epochs \in Seq(EpochType)
  BY <1>1, PlanShape DEF PlanOK, Observe
<1>3. /\ o.lane \in Lanes /\ Recolors(walk, walk', o.lane) /\ walk.gs[o.lane] \in Colors
      /\ walk'.gs[o.lane] = SetColor(walk.gs[o.lane], o, Now)
  BY <1>1, <1>2, WalkedColor
<1>4. lanes[o.lane] \in Branches /\ SameColor(epochs, lanes[o.lane], walk.gs[o.lane])
  BY <1>2, <1>3 DEF LanePairs, SameColors
<1>5. o.value \in Nat
  BY DEF IsOperator, OperatorRecords
<1> QED
  BY <1>1, <1>2, <1>3, <1>4, <1>5

(* A branch that stays while its colour changes: none, or a refused one.   *)
LEMMA PlanKept ==
    ASSUME NEW o, MirrorInv, IsOperator(o), Observe(o), o.kind = "set", NEW E,
           PlanOK(E, lanes, saved, walk),
           lanes[o.lane].root = 0 \/ E[lanes[o.lane].root].refusal # NoRefusal
    PROVE  PlanOK(E, lanes, saved, walk')
<1> DEFINE b == lanes[o.lane]
<1>1. o.lane \in Lanes /\ b \in Branches /\ Recolors(walk, walk', o.lane)
  BY SetterFacts
<1>2. lanes \in LanePairs /\ SameColors(E, lanes, walk.gs)
  BY PlanShape DEF PlanOK
<1>3. SameColor(E, b, walk'.gs[o.lane])
  BY <1>1, <1>2 DEF SameColors, SameColor
<1>4. PlanOK(E, [lanes EXCEPT ![o.lane] = b], saved, walk')
  <2>1. b.root = lanes[o.lane].root
    OBVIOUS
  <2> HIDE DEF b
  <2> QED
    BY <1>1, <1>3, <2>1, PlanSet
<1>5. [lanes EXCEPT ![o.lane] = b] = lanes
  BY <1>2 DEF LanePairs
<1> QED
  BY <1>4, <1>5

(* A setter on a lane without an epoch.                                    *)
LEMMA SetOutsideStep ==
    ASSUME NEW o, MirrorInv, IsOperator(o), SetOutsideEpoch(o)
    PROVE  PlanOK(epochs', lanes', saved', walk')
<1> DEFINE A == AfterDecision(epochs, Now, 0, NoFacts)
<1>1. /\ Observe(o) /\ o.kind = "set" /\ lanes[o.lane].root = 0
      /\ lanes' = lanes /\ saved' = saved /\ epochs' = RefusedIf(inPath, A, Now)
  BY DEF SetOutsideEpoch
<1>2. PlanOK(epochs, lanes, saved, walk) /\ Now \in Nat /\ epochs \in Seq(EpochType)
  BY <1>1, SetterFacts DEF MirrorInv
<1>3. PlanOK(epochs, lanes, saved, walk')
  BY <1>1, <1>2, PlanKept
<1>4. Marks(epochs, A)
  BY <1>2, AfterDecisionMarks
<1> HIDE DEF A
<1>5. A \in Seq(EpochType)
  BY <1>4 DEF Marks, Notes, Kept, Follows
<1>6. Marks(A, epochs')
  BY <1>1, <1>2, <1>5, RefusedIfMarks
<1>7. PlanOK(A, lanes, saved, walk')
  BY <1>3, <1>4, PlanMarkedAfter
<1>8. PlanOK(epochs', lanes, saved, walk')
  BY <1>6, <1>7, PlanMarkedAfter
<1> QED
  BY <1>1, <1>8

(* A setter the plan cannot use refuses the epoch it stands in.            *)
LEMMA RefuseSetterStep ==
    ASSUME NEW o, MirrorInv, IsOperator(o), RefuseSetter(o)
    PROVE  PlanOK(epochs', lanes', saved', walk')
<1> DEFINE root == lanes[o.lane].root
           before == RefusedIf(inPath, epochs, Now)
           refused == RefusedAmong(before, {root}, Now, Setting(o))
           A == AfterDecision(refused, Now, root, NoFacts)
<1>1. /\ Observe(o) /\ o.kind = "set" /\ root # 0 /\ Setting(o) # "eligible"
      /\ lanes' = lanes /\ saved' = saved /\ epochs' = RefusedIf(inPath, A, Now)
  BY DEF RefuseSetter
<1>2. /\ Now \in Nat /\ SameColor(epochs, lanes[o.lane], walk.gs[o.lane])
      /\ lanes[o.lane] \in Branches
  BY <1>1, SetterFacts
<1>3. PlanOK(before, lanes, saved, walk) /\ Marks(epochs, before)
  BY PlanRefusing
<1> HIDE DEF before
<1>4. before \in Seq(EpochType) /\ root \in 1 .. Len(before)
  <2>1. root \in 1 .. Len(epochs)
    BY <1>1, <1>2 DEF SameColor
  <2> QED
    BY <1>3, <2>1 DEF Marks, Notes, Kept, Follows
<1>5. Setting(o) \in Reasons
  BY <1>1 DEF Setting, Reasons
<1>6. Marks(before, refused) /\ refused[root].refusal # NoRefusal
  <2> HIDE DEF root
  <2> QED
    BY <1>2, <1>4, <1>5, RefusingMarks
<1> HIDE DEF refused
<1>7. PlanOK(refused, lanes, saved, walk)
  BY <1>3, <1>6, PlanMarkedAfter
<1>8. PlanOK(refused, lanes, saved, walk')
  BY <1>1, <1>6, <1>7, PlanKept
<1>9. refused \in Seq(EpochType)
  BY <1>6 DEF Marks, Notes, Kept, Follows
<1>10. Marks(refused, A)
  BY <1>2, <1>9, AfterDecisionMarks
<1> HIDE DEF A
<1>11. A \in Seq(EpochType)
  BY <1>10 DEF Marks, Notes, Kept, Follows
<1>12. Marks(A, epochs')
  BY <1>1, <1>2, <1>11, RefusedIfMarks
<1>13. PlanOK(A, lanes, saved, walk')
  BY <1>8, <1>10, PlanMarkedAfter
<1>14. PlanOK(epochs', lanes, saved, walk')
  BY <1>12, <1>13, PlanMarkedAfter
<1> QED
  BY <1>1, <1>14

(* An eligible setter moves the branch and the walker together.            *)
LEMMA SetInEpochStep ==
    ASSUME NEW o, MirrorInv, IsOperator(o), SetInEpoch(o)
    PROVE  PlanOK(epochs', lanes', saved', walk')
<1> DEFINE root == lanes[o.lane].root
           before == RefusedIf(inPath, epochs, Now)
           colour == walk.gs[o.lane]
           agrees == /\ walk.gs[o.lane].name = epochs[root].alias
                     /\ walk.gs[o.lane].space = AliasSpace[epochs[root].alias]
           C == WithCandidate(before, Now, root, o.value, TRUE)
           b == [root |-> root, value |-> o.value, source |-> Now]
           refused == RefusedAmong(before, {root}, Now, "StateMismatch")
<1>1. /\ Observe(o) /\ o.kind = "set" /\ root # 0 /\ Setting(o) = "eligible"
      /\ saved' = saved
      /\ agrees => epochs' = RefusedIf(inPath, C, Now) /\ lanes' = [lanes EXCEPT ![o.lane] = b]
      /\ ~agrees => epochs' = AfterDecision(refused, Now, root, NoFacts) /\ lanes' = lanes
  BY DEF SetInEpoch
<1>2. /\ Now \in Nat /\ o.lane \in Lanes /\ o.value \in Nat
      /\ lanes[o.lane] \in Branches /\ SameColor(epochs, lanes[o.lane], walk.gs[o.lane])
      /\ Recolors(walk, walk', o.lane) /\ walk.gs[o.lane] \in Colors
      /\ walk'.gs[o.lane] = SetColor(walk.gs[o.lane], o, Now)
  BY <1>1, SetterFacts
<1>3. PlanOK(before, lanes, saved, walk) /\ Marks(epochs, before)
  BY PlanRefusing
<1> HIDE DEF before
<1>4. root \in 1 .. Len(epochs)
  BY <1>1, <1>2 DEF SameColor
<1>5. /\ before \in Seq(EpochType) /\ root \in 1 .. Len(before)
      /\ before[root].alias = epochs[root].alias
      /\ epochs[root].refusal # NoRefusal => before[root].refusal # NoRefusal
  <2> HIDE DEF root
  <2> QED
    BY <1>3, <1>4 DEF Marks, Notes, Kept, Follows
<1>6. CASE agrees
  <2>1. o.name = NoName
    BY <1>1 DEF Setting
  <2>2. /\ walk'.gs[o.lane].name = epochs[root].alias
        /\ walk'.gs[o.lane].space = AliasSpace[epochs[root].alias]
        /\ walk'.gs[o.lane].value = o.value /\ walk'.gs[o.lane].source = Now
    <3>1. /\ SetColor(colour, o, Now).name = colour.name
          /\ SetColor(colour, o, Now).space = colour.space
          /\ SetColor(colour, o, Now).value = o.value
          /\ SetColor(colour, o, Now).source = Now
      <4>1. colour \in Colors
        BY <1>2
      <4> HIDE DEF colour
      <4> QED
        BY <2>1, <4>1 DEF SetColor, Colors
    <3> QED
      BY <1>2, <1>6, <3>1
  <2>3. b \in Branches /\ b.root = root /\ b.value = o.value /\ b.source = Now
    BY <1>2 DEF Branches
  <2> HIDE DEF b, root, C, agrees
  <2>4. SameColor(before, b, walk'.gs[o.lane])
    BY <1>5, <2>2, <2>3 DEF SameColor
  <2>5. PlanOK(before, [lanes EXCEPT ![o.lane] = b], saved, walk')
    <3>1. b.root = lanes[o.lane].root
      BY <2>3 DEF root
    <3> QED
      BY <1>2, <1>3, <2>3, <2>4, <3>1, PlanSet
  <2>6. Notes(before, C)
    BY <1>2, <1>5, CandidateNotes DEF C
  <2>7. C \in Seq(EpochType)
    BY <2>6 DEF Marks, Notes, Kept, Follows
  <2>8. Marks(C, epochs')
    <3>1. epochs' = RefusedIf(inPath, C, Now)
      BY <1>1, <1>6
    <3> QED
      BY <1>2, <2>7, <3>1, RefusedIfMarks
  <2>9. PlanOK(C, lanes', saved', walk')
    BY <1>1, <1>6, <2>5, <2>6, PlanNotedAfter
  <2> QED
    BY <2>8, <2>9, PlanMarkedAfter
<1>7. CASE ~agrees
  <2>1. epochs[root].refusal # NoRefusal
    BY <1>1, <1>2, <1>7 DEF SameColor
  <2>2. before[root].refusal # NoRefusal
    BY <1>5, <2>1
  <2>3. refused = before
    <3> HIDE DEF root
    <3> QED
      BY <1>5, <2>2, FirstRefusalStays
  <2>4. PlanOK(before, lanes, saved, walk')
    BY <1>1, <1>3, <2>2, PlanKept
  <2>5. epochs' = AfterDecision(before, Now, root, NoFacts) /\ lanes' = lanes
    BY <1>1, <1>7, <2>3
  <2> HIDE DEF root
  <2>6. Marks(before, epochs')
    BY <1>2, <1>5, <2>5, AfterDecisionMarks
  <2>7. PlanOK(epochs', lanes, saved, walk')
    BY <2>4, <2>6, PlanMarkedAfter
  <2> QED
    BY <1>1, <2>5, <2>7
<1> QED
  BY <1>6, <1>7

(* Operators that leave colours and branches alone.                        *)
PlainKinds(o) == o.kind \notin {"q", "Q", "select", "set", "device"}

(* Paths, text and XObjects read lanes and only mark epochs.               *)
LEMMA ConsumerStep ==
    ASSUME NEW o, MirrorInv, PaintPath(o) \/ ShowText(o) \/ InvokeXObject(o)
    PROVE  /\ Observe(o) /\ PlainKinds(o) /\ lanes' = lanes /\ saved' = saved
           /\ Marks(epochs, epochs')
<1>1. /\ Now \in Nat /\ epochs \in Seq(EpochType) /\ lanes \in LanePairs
      /\ SameColors(epochs, lanes, walk.gs)
  BY LenProperties DEF MirrorInv, Now, PlanOK
<1>2. \A condition : Marks(epochs, RefusedIf(condition, epochs, Now))
  BY <1>1, RefusedIfMarks
<1>3. \A read : Marks(epochs, ConsumedBoth(epochs, read, Now))
  BY <1>1, ConsumedBothMarks
<1>4. "TextShow" \in Reasons /\ "XObjectInvoke" \in Reasons
  BY DEF Reasons
<1>5. \A why \in Reasons : Marks(epochs, RefusedLive(epochs, Now, why))
  BY <1>1, RefusedLiveMarks
<1>6. CASE PaintPath(o)
  <2> DEFINE F == RefusedIf(inText, epochs, Now)
             G == ConsumedBoth(F, PaintedLanes(o), Now)
  <2>1. /\ Observe(o) /\ PlainKinds(o) /\ lanes' = lanes /\ saved' = saved
        /\ epochs' = G
    BY <1>6 DEF PaintPath, PlainKinds, KeepBranches
  <2>2. PlanOK(F, lanes, saved, walk) /\ Marks(epochs, F)
    BY PlanRefusing
  <2> HIDE DEF F
  <2>3. F \in Seq(EpochType) /\ SameColors(F, lanes, walk.gs)
    BY <2>2 DEF PlanOK
  <2>4. Marks(F, G)
    BY <1>1, <2>3, ConsumedBothMarks
  <2> HIDE DEF G
  <2>5. Marks(epochs, G)
    BY <1>1, <2>2, <2>4, MarksTransitive
  <2> QED
    BY <2>1, <2>5
<1>7. CASE ShowText(o)
  <2>1. Observe(o) /\ PlainKinds(o) /\ lanes' = lanes /\ saved' = saved
    BY <1>7 DEF ShowText, PlainKinds, KeepBranches
  <2>2. epochs' \in {RefusedLive(epochs, Now, "TextShow"), RefusedIf(TRUE, epochs, Now),
                     ConsumedBoth(epochs, ModeLanes(walk.gs.mode), Now)}
    BY <1>7 DEF ShowText
  <2> QED
    BY <1>2, <1>3, <1>4, <1>5, <2>1, <2>2
<1>8. CASE InvokeXObject(o)
  <2>1. Observe(o) /\ PlainKinds(o) /\ lanes' = lanes /\ saved' = saved
    BY <1>8 DEF InvokeXObject, PlainKinds, KeepBranches
  <2>2. epochs' \in {RefusedLive(epochs, Now, "XObjectInvoke"), RefusedIf(TRUE, epochs, Now),
                     ConsumedBoth(epochs, XObjectLanes[o.name], Now)}
    BY <1>8 DEF InvokeXObject
  <2> QED
    BY <1>2, <1>3, <1>4, <1>5, <2>1, <2>2
<1> QED
  BY <1>6, <1>7, <1>8

(* So do the operators that may only stand in the wrong place.             *)
LEMMA PlacementStep ==
    ASSUME NEW o, MirrorInv, IsOperator(o),
           \/ ObserveNeutral(o) \/ BeginPath(o) \/ ContinuePath(o) \/ BeginText(o)
           \/ EndText(o) \/ BeginMarked(o) \/ EndMarked(o) \/ Opaque(o)
    PROVE  /\ Observe(o) /\ PlainKinds(o) /\ lanes' = lanes /\ saved' = saved
           /\ Marks(epochs, epochs')
<1>1. Now \in Nat /\ epochs \in Seq(EpochType)
  BY LenProperties DEF MirrorInv, Now, PlanOK
<1>2. \A condition : Marks(epochs, RefusedIf(condition, epochs, Now))
  BY <1>1, RefusedIfMarks
<1>3. CASE ObserveNeutral(o)
  BY <1>2, <1>3 DEF ObserveNeutral, PlainKinds, KeepBranches
<1>4. CASE BeginPath(o)
  BY <1>2, <1>4 DEF BeginPath, PlainKinds, KeepBranches
<1>5. CASE ContinuePath(o)
  BY <1>2, <1>5 DEF ContinuePath, PlainKinds, KeepBranches
<1>6. CASE BeginText(o)
  BY <1>2, <1>6 DEF BeginText, PlainKinds, KeepBranches
<1>7. CASE EndText(o)
  BY <1>2, <1>7 DEF EndText, PlainKinds, KeepBranches
<1>8. CASE BeginMarked(o)
  BY <1>2, <1>8 DEF BeginMarked, PlainKinds, KeepBranches
<1>9. CASE EndMarked(o)
  BY <1>2, <1>9 DEF EndMarked, PlainKinds, KeepBranches
<1>10. CASE Opaque(o)
  <2>1. o.kind = "opaque" /\ o.name \in Reasons
    BY <1>10 DEF Opaque, IsOperator, Reasons
  <2>2. Marks(epochs, RefusedLive(epochs, Now, o.name))
    BY <1>1, <2>1, RefusedLiveMarks
  <2> QED
    BY <1>10, <2>1, <2>2 DEF Opaque, PlainKinds, KeepBranches
<1> QED
  BY <1>3, <1>4, <1>5, <1>6, <1>7, <1>8, <1>9, <1>10

(* The operators a page may bring.                                         *)
LEMMA NextAreOperators ==
    ASSUME MirrorInv, Len(word) < Len(page.cells), NEW o \in NextOperators
    PROVE  IsOperator(o)
<1>1. Len(word) \in Nat /\ \A n \in 1 .. Len(word) : IsOperator(word[n])
  BY LenProperties DEF MirrorInv
<1> DEFINE CellSet == [object : STRING, occurrence : Nat, place : Nat,
                       operators : SUBSET OperatorRecords]
<1>2. /\ page.cells \in Seq(CellSet)
      /\ \A at \in DOMAIN page.cells : \A x \in page.cells[at].operators : IsOperator(x)
  BY PageAssumption DEF MirrorInv
<1> HIDE DEF CellSet
<1>3. Len(page.cells) \in Nat /\ DOMAIN page.cells = 1 .. Len(page.cells)
  BY <1>2, LenProperties
<1>4. Len(word) + 1 \in DOMAIN page.cells
  BY <1>1, <1>3
<1>5. o \in Cell(Len(word) + 1).operators \/ \E n \in 1 .. Len(word) : o = word[n]
  BY DEF NextOperators
<1> QED
  BY <1>1, <1>2, <1>4, <1>5 DEF Cell

-----------------------------------------------------------------------------
(* The mirror holds at the start and after every step.                     *)
LEMMA MirrorStarts ==
    ASSUME Init
    PROVE  MirrorInv
<1>1. NoBranch \in Branches /\ NoBranch.root = 0
  BY DEF NoBranch, Branches
<1>2. NoLanes \in LanePairs /\ \A lane \in Lanes : NoLanes[lane].root = 0
  BY <1>1 DEF NoLanes, LanePairs
<1>3. WalkStart \in Walks /\ WalkStart.stack = <<>>
  <2>1. PageDefault \in Snapshots
    <3> DEFINE black == [space |-> "Gray", value |-> 0, name |-> NoName, source |-> 0]
    <3>1. black \in Colors
      BY DEF Colors, Strings
    <3>2. PageDefault = [stroke |-> black, fill |-> black, mode |-> 0, font |-> "unset"]
      BY DEF PageDefault
    <3> HIDE DEF black
    <3> QED
      BY <3>1, <3>2 DEF Snapshots, Strings
  <2>2. <<>> \in Seq(Snapshots)
    BY EmptySeq
  <2> QED
    BY <2>1, <2>2 DEF WalkStart, Walks
<1>4. Len(<<>>) = 0 /\ <<>> \in Seq(EpochType) /\ <<>> \in Seq(LanePairs)
      /\ <<>> \in Seq(OperatorRecords)
  BY EmptySeq
<1>5. SameColors(<<>>, NoLanes, WalkStart.gs)
  BY <1>2 DEF SameColors, SameColor
<1>6. PlanOK(<<>>, NoLanes, <<>>, WalkStart)
  BY <1>2, <1>3, <1>4, <1>5 DEF PlanOK
<1> QED
  BY <1>4, <1>6 DEF Init, MirrorInv

(* Closing the page only marks its epochs.                                 *)
LEMMA ClosingMarks ==
    ASSUME MirrorInv
    PROVE  Marks(epochs, ClosedEpochs)
<1>1. "UnbalancedSaveAtPageEnd" \in Reasons /\ "InvalidGraphicsObjectContext" \in Reasons
  BY DEF Reasons
<1>2. epochs \in Seq(EpochType)
  BY DEF MirrorInv, PlanOK
<1>3. Marks(epochs, RefusedAmong(epochs, DOMAIN epochs, 0, "UnbalancedSaveAtPageEnd"))
  BY <1>1, <1>2, RefusingMarks
<1>4. Marks(epochs, RefusedLive(epochs, 0, "InvalidGraphicsObjectContext"))
  BY <1>1, <1>2, RefusedLiveMarks
<1> QED
  BY <1>2, <1>3, <1>4, MarksReflexive DEF ClosedEpochs

(* No step breaks the mirror.                                              *)
LEMMA MirrorStays ==
    ASSUME MirrorInv, [Next]_vars
    PROVE  MirrorInv'
<1>1. ASSUME NEW o \in NextOperators, Len(word) < Len(page.cells), ObserveOperator(o)
      PROVE  MirrorInv'
  <2>1. IsOperator(o)
    BY <1>1, NextAreOperators
  <2>2. page' = page /\ word' = Append(word, o)
    BY <1>1 DEF ObserveOperator, Save, Restore, SelectAlias, SelectOther, SetOutsideEpoch,
       SetInEpoch, RefuseSetter, SetDeviceColor, PaintPath, ShowText, InvokeXObject,
       ObserveNeutral, BeginPath, ContinuePath, BeginText, EndText, BeginMarked, EndMarked,
       Opaque, AbandonPage, Observe
  <2>3. /\ word' \in Seq(OperatorRecords) /\ \A n \in 1 .. Len(word') : IsOperator(word'[n])
    <3>1. word \in Seq(OperatorRecords) /\ o \in OperatorRecords /\ Len(word) \in Nat
      BY <2>1, LenProperties DEF MirrorInv, IsOperator
    <3>2. /\ word' \in Seq(OperatorRecords) /\ Len(word') = Len(word) + 1
          /\ word'[Len(word) + 1] = o
          /\ \A n \in 1 .. Len(word) : word'[n] = word[n]
      BY <2>2, <3>1, AppendProperties
    <3>3. \A n \in 1 .. Len(word') : n \in 1 .. Len(word) \/ n = Len(word) + 1
      BY <3>1, <3>2
    <3> QED
      BY <2>1, <3>2, <3>3 DEF MirrorInv
  <2>4. PlanOK(epochs', lanes', saved', walk')
    <3>1. CASE Save(o)
      BY <2>1, <3>1, SaveStep
    <3>2. CASE Restore(o)
      BY <2>1, <3>2, RestoreStep
    <3>3. CASE SelectAlias(o)
      BY <2>1, <3>3, SelectAliasStep
    <3>4. CASE SelectOther(o)
      BY <2>1, <3>4, SelectOtherStep
    <3>5. CASE SetOutsideEpoch(o)
      BY <2>1, <3>5, SetOutsideStep
    <3>6. CASE SetInEpoch(o)
      BY <2>1, <3>6, SetInEpochStep
    <3>7. CASE RefuseSetter(o)
      BY <2>1, <3>7, RefuseSetterStep
    <3>8. CASE SetDeviceColor(o)
      BY <2>1, <3>8, DeviceStep
    <3>9. CASE PaintPath(o) \/ ShowText(o) \/ InvokeXObject(o)
      BY <2>1, <3>9, ConsumerStep, PlainStep DEF PlainKinds
    <3>10. CASE \/ ObserveNeutral(o) \/ BeginPath(o) \/ ContinuePath(o) \/ BeginText(o)
                \/ EndText(o) \/ BeginMarked(o) \/ EndMarked(o) \/ Opaque(o)
      BY <2>1, <3>10, PlacementStep, PlainStep DEF PlainKinds
    <3>11. CASE AbandonPage(o)
      BY <3>11 DEF AbandonPage, plan, MirrorInv
    <3> QED
      BY <1>1, <3>1, <3>2, <3>3, <3>4, <3>5, <3>6, <3>7, <3>8, <3>9, <3>10, <3>11
         DEF ObserveOperator
  <2> QED
    BY <2>2, <2>3, <2>4 DEF MirrorInv
<1>2. CASE Finish
  <2>1. /\ page' = page /\ word' = word /\ walk' = walk /\ lanes' = lanes /\ saved' = saved
        /\ epochs' = ClosedEpochs
    BY <1>2 DEF Finish, KeepBranches
  <2>2. epochs \in Seq(EpochType) /\ PlanOK(epochs, lanes, saved, walk)
    BY PlanShape DEF MirrorInv
  <2>3. Marks(epochs, ClosedEpochs)
    BY ClosingMarks
  <2>4. PlanOK(epochs', lanes, saved, walk)
    BY <2>1, <2>2, <2>3, PlanMarkedAfter
  <2> QED
    BY <2>1, <2>4 DEF MirrorInv
<1>3. CASE UNCHANGED vars
  BY <1>3 DEF vars, plan, MirrorInv
<1> QED
  BY <1>1, <1>2, <1>3 DEF Next

(* The carriers that PlanMirrorsWalker counts are the lanes in hand and the *)
(* saved places.                                                           *)
CarryingPlaces(l, s, i) ==
  {place \in (0 .. Len(s)) \X Lanes :
     (IF place[1] = 0 THEN l ELSE s[place[1]])[place[2]].root = i}

(* They are the tally of the plan.                                         *)
LEMMA CountCarrying ==
    ASSUME NEW l, NEW s \in Seq(LanePairs), NEW i
    PROVE  Cardinality(CarryingPlaces(l, s, i)) = Tally(l, s, i)
<1> DEFINE C == {place \in (0 .. Len(s)) \X Lanes :
                   (IF place[1] = 0 THEN l ELSE s[place[1]])[place[2]].root = i}
           H == Carriers(l, 0, i)
           S == SavedPlaces(s, i)
<1>1. Len(s) \in Nat
  BY LenProperties
<1>2. 0 .. Len(s) = {0} \union (1 .. Len(s)) /\ 0 \notin 1 .. Len(s)
  BY <1>1
<1>3. C = H \cup S
  <2>1. ASSUME NEW k \in 0 .. Len(s), NEW lane \in Lanes
        PROVE  <<k, lane>> \in C <=> <<k, lane>> \in H \/ <<k, lane>> \in S
    <3>1. CASE k = 0
      <4>1. <<k, lane>> \in C <=> l[lane].root = i
        BY <3>1
      <4>2. <<k, lane>> \in H <=> l[lane].root = i
        BY <3>1 DEF Carriers
      <4>3. <<k, lane>> \notin S
        BY <1>2, <3>1 DEF SavedPlaces
      <4> QED
        BY <4>1, <4>2, <4>3
    <3>2. CASE k # 0
      <4>1. k \in 1 .. Len(s)
        BY <1>2, <3>2
      <4>2. <<k, lane>> \in C <=> s[k][lane].root = i
        BY <3>2
      <4>3. <<k, lane>> \notin H
        BY <3>2 DEF Carriers
      <4>4. <<k, lane>> \in S <=> s[k][lane].root = i
        BY <4>1 DEF SavedPlaces
      <4> QED
        BY <4>2, <4>3, <4>4
    <3> QED
      BY <3>1, <3>2
  <2>2. C \subseteq (0 .. Len(s)) \X Lanes
    OBVIOUS
  <2>3. H \subseteq (0 .. Len(s)) \X Lanes
    BY <1>2 DEF Carriers
  <2>4. S \subseteq (0 .. Len(s)) \X Lanes
    BY <1>2 DEF SavedPlaces
  <2> HIDE DEF C, H, S
  <2>5. \A place \in (0 .. Len(s)) \X Lanes : place \in C <=> place \in H \/ place \in S
    BY <2>1
  <2> QED
    BY <2>2, <2>3, <2>4, <2>5
<1>4. IsFiniteSet(H) /\ Cardinality(H) = InHand(l, i) /\ InHand(l, i) \in Nat
  BY CountCarriers, CountInHand
<1>5. IsFiniteSet(S) /\ Cardinality(S) \in Nat
  BY SavedPlacesFinite
<1>6. H \cap S = {}
  BY <1>2 DEF Carriers, SavedPlaces
<1>7. Tally(l, s, i) = InHand(l, i) + Cardinality(S)
  BY DEF Tally
<1> HIDE DEF C, H, S
<1>8. Cardinality(H \cap S) = 0
  BY <1>6, FS_EmptySet
<1>9. Cardinality(H \cup S) = Cardinality(H) + Cardinality(S) - Cardinality(H \cap S)
  BY <1>4, <1>5, FS_Union
<1>10. Cardinality(C) = Tally(l, s, i)
  BY <1>3, <1>4, <1>5, <1>7, <1>8, <1>9
<1> QED
  BY <1>10 DEF C, CarryingPlaces

(* The mirror is what the invariant of the run says.                       *)
LEMMA MirrorImplies ==
    ASSUME MirrorInv
    PROVE  PlanMirrorsWalker
<1> DEFINE Pair(k) == IF k = 0 THEN lanes ELSE saved[k]
           Colours(k) == IF k = 0 THEN walk.gs ELSE walk.stack[k]
           Places == (0 .. Len(saved)) \X Lanes
           Carrying(i) == {place \in Places : Pair(place[1])[place[2]].root = i}
<1>1. PlanOK(epochs, lanes, saved, walk)
  BY DEF MirrorInv
<1>2. /\ Len(saved) = Len(walk.stack) /\ Len(saved) \in Nat /\ saved \in Seq(LanePairs)
      /\ epochs \in Seq(EpochType) /\ DOMAIN epochs = 1 .. Len(epochs)
      /\ SameColors(epochs, lanes, walk.gs)
      /\ \A k \in 1 .. Len(saved) : SameColors(epochs, saved[k], walk.stack[k])
      /\ \A i \in 1 .. Len(epochs) : /\ epochs[i] \in EpochType
                                     /\ epochs[i].live = Tally(lanes, saved, i)
  BY <1>1, PlanShape, LenProperties DEF PlanOK
<1>3. ASSUME NEW i \in DOMAIN epochs
      PROVE  epochs[i].live = Cardinality(Carrying(i))
  <2>1. Carrying(i) = CarryingPlaces(lanes, saved, i)
    BY DEF CarryingPlaces
  <2>2. Cardinality(CarryingPlaces(lanes, saved, i)) = Tally(lanes, saved, i)
    BY <1>2, CountCarrying
  <2> QED
    BY <1>2, <2>1, <2>2
<1>4. ASSUME NEW i \in DOMAIN epochs
      PROVE  epochs[i].refusal.why # "StateMismatch"
  <2>1. epochs[i].refusal.why \in Reasons \union {"none"}
    BY <1>2 DEF EpochType, Refusals
  <2> QED
    BY <2>1 DEF Reasons, OpaqueReasons
<1>5. \A k \in 0 .. Len(saved) : SameColors(epochs, Pair(k), Colours(k))
  BY <1>2
<1>6. ASSUME NEW i \in DOMAIN epochs, epochs[i].refusal = NoRefusal, NEW place \in Carrying(i)
      PROVE  /\ <<Colours(place[1])[place[2]].value, Colours(place[1])[place[2]].source>> =
                  <<Pair(place[1])[place[2]].value, Pair(place[1])[place[2]].source>>
             /\ Colours(place[1])[place[2]].name = epochs[i].alias
  <2> DEFINE b == Pair(place[1])[place[2]]
             c == Colours(place[1])[place[2]]
  <2>1. place[1] \in 0 .. Len(saved) /\ place[2] \in Lanes /\ b.root = i
    OBVIOUS
  <2>2. SameColor(epochs, b, c)
    BY <1>5, <2>1 DEF SameColors
  <2>3. b.root # 0
    BY <1>2, <2>1
  <2> HIDE DEF b, c
  <2>4. c.value = b.value /\ c.source = b.source /\ c.name = epochs[i].alias
    BY <1>6, <2>1, <2>2, <2>3 DEF SameColor
  <2> QED
    BY <2>4 DEF b, c
<1> QED
  BY <1>2, <1>3, <1>4, <1>6 DEF PlanMirrorsWalker

(* The plan keeps its own copy of what the walker does to colours: on      *)
(* every page, an epoch's count of live branches is the number of lanes in *)
(* hand and saved by q that carry it, every branch of an epoch not refused *)
(* is the walker's colour in that place, and no epoch is ever refused      *)
(* because plan and walker disagree (save, restore, select_color_space and *)
(* set_color_value of alias_epoch_plan.rs against walker.rs).              *)
THEOREM PlanAlwaysMirrorsWalker == Spec => []PlanMirrorsWalker
<1>1. Init => MirrorInv
  BY MirrorStarts
<1>2. MirrorInv /\ [Next]_vars => MirrorInv'
  BY MirrorStays
<1>3. MirrorInv => PlanMirrorsWalker
  BY MirrorImplies
<1> QED
  BY <1>1, <1>2, <1>3, PTL DEF Spec

-----------------------------------------------------------------------------
(* What stops: the roots that cannot run, and what is connected to them.   *)
StoppedFirst(E) ==
  {i \in DOMAIN E : \/ ~Executable(E[i])
                    \/ \E j \in DOMAIN E : Executable(E[j]) /\ Conflict(E[i], E[j])}
Sharing(E, S) == {i \in DOMAIN E : \E j \in S : RecordsOf(E[i]) \cap RecordsOf(E[j]) # {}}

StoppedLevels(E, L) ==
  L = [n \in 0 .. Len(E) |-> IF n = 0 THEN StoppedFirst(E) ELSE L[n - 1] \union Sharing(E, L[n - 1])]

(* The levels of the fixed point are defined by recursion, so they have to *)
(* be shown to exist.                                                      *)
LEMMA StoppedLevelsExist ==
    ASSUME NEW E, Len(E) \in Nat
    PROVE  \E L : StoppedLevels(E, L)
<1> DEFINE X == SUBSET DOMAIN E
           step(S) == S \union Sharing(E, S)
           g == [p \in X \X (1 .. Len(E)) |-> step(p[1])]
           first == StoppedFirst(E)
<1>1. first \in X
  BY DEF StoppedFirst
<1>2. ASSUME NEW S \in X PROVE step(S) \in X
  BY DEF Sharing
<1>3. ASSUME NEW n \in 1 .. Len(E), NEW S \in X PROVE g[<<S, n>>] = step(S)
  <2> HIDE DEF X, step
  <2>1. <<S, n>> \in X \X (1 .. Len(E)) /\ <<S, n>>[1] = S
    OBVIOUS
  <2>2. g[<<S, n>>] = step(<<S, n>>[1])
    BY <2>1, Zenon
  <2> QED
    BY <2>1, <2>2
<1> HIDE DEF X, g, step, first
<1>4. Steps(g, X, Len(E))
  BY <1>2, <1>3 DEF Steps
<1>5. PICK L : Recursion(L, first, g, X, Len(E))
  BY <1>1, <1>4, RecursionExists
<1>6. \A n \in 0 .. Len(E) : L[n] \in X
  BY <1>5 DEF Recursion
<1>7. ASSUME NEW n \in 0 .. Len(E)
      PROVE  L[n] = IF n = 0 THEN StoppedFirst(E) ELSE L[n - 1] \union Sharing(E, L[n - 1])
  <2>1. L[n] = IF n = 0 THEN first ELSE g[<<L[n - 1], n>>]
    BY <1>5 DEF Recursion
  <2>2. CASE n # 0
    <3>1. n \in 1 .. Len(E) /\ n - 1 \in 0 .. Len(E)
      BY <2>2
    <3>2. g[<<L[n - 1], n>>] = step(L[n - 1])
      BY <1>3, <1>6, <3>1
    <3> QED
      BY <2>1, <2>2, <3>2 DEF step
  <2> QED
    BY <2>1, <2>2 DEF first
<1>8. L = [n \in 0 .. Len(E) |-> L[n]]
  BY <1>5 DEF Recursion
<1> QED
  BY <1>7, <1>8 DEF StoppedLevels

(* Level by level.                                                         *)
LEMMA StoppedByLevels ==
    ASSUME NEW E, Len(E) \in Nat, DOMAIN E = 1 .. Len(E)
    PROVE  \E L : /\ L[0] = StoppedFirst(E) /\ Stopped(E) = L[Len(E)]
                  /\ \A n \in 1 .. Len(E) : L[n] = L[n - 1] \union Sharing(E, L[n - 1])
                  /\ \A n \in 0 .. Len(E) : L[n] \subseteq DOMAIN E
<1> DEFINE L == CHOOSE L : StoppedLevels(E, L)
<1>1. StoppedLevels(E, L)
  BY StoppedLevelsExist
<1>2. Stopped(E) = L[Len(E)]
  BY DEF Stopped, StoppedLevels, StoppedFirst, Sharing
<1> HIDE DEF L
<1>3. \A n \in 0 .. Len(E) : L[n] = IF n = 0 THEN StoppedFirst(E)
                                    ELSE L[n - 1] \union Sharing(E, L[n - 1])
  BY <1>1 DEF StoppedLevels
<1>4. 0 \in 0 .. Len(E) /\ \A n \in 1 .. Len(E) : n \in 0 .. Len(E) /\ n # 0
  OBVIOUS
<1>5. L[0] = StoppedFirst(E) /\ \A n \in 1 .. Len(E) : L[n] = L[n - 1] \union Sharing(E, L[n - 1])
  BY <1>3, <1>4
<1>6. ASSUME NEW n \in 0 .. Len(E) PROVE L[n] \subseteq DOMAIN E
  <2>1. CASE n = 0
    BY <1>5, <2>1 DEF StoppedFirst
  <2>2. CASE n # 0
    <3>1. n \in 1 .. Len(E)
      BY <2>2
    <3> DEFINE outside == {m \in 0 .. Len(E) : ~(L[m] \subseteq DOMAIN E)}
    <3>2. outside = {}
      <4> SUFFICES ASSUME outside # {} PROVE FALSE
        OBVIOUS
      <4>1. outside \subseteq Nat
        OBVIOUS
      <4>2. PICK m \in outside : \A k \in outside : m <= k
        <5> HIDE DEF outside
        <5> QED
          BY <4>1, LeastExists
      <4>3. m # 0
        BY <1>5, <4>2 DEF StoppedFirst
      <4>4. m \in 1 .. Len(E) /\ m - 1 \in 0 .. Len(E) /\ ~(m <= m - 1)
        BY <4>3
      <4>5. L[m - 1] \subseteq DOMAIN E
        BY <4>2, <4>4
      <4>6. L[m] \subseteq DOMAIN E
        BY <1>5, <4>4, <4>5 DEF Sharing
      <4> QED
        BY <4>2, <4>6
    <3> QED
      BY <3>2
  <2> QED
    BY <2>1, <2>2
<1> QED
  BY <1>2, <1>5, <1>6

(* A level holds the levels before it.                                     *)
LEMMA StoppedLevelsGrow ==
    ASSUME NEW N \in Nat, NEW L, NEW E,
           \A n \in 1 .. N : L[n] = L[n - 1] \union Sharing(E, L[n - 1]),
           NEW k \in 0 .. N
    PROVE  L[k] \subseteq L[N]
<1> DEFINE lost == {m \in k .. N : ~(L[k] \subseteq L[m])}
<1>1. lost = {}
  <2> SUFFICES ASSUME lost # {} PROVE FALSE
    OBVIOUS
  <2>1. lost \subseteq Nat
    OBVIOUS
  <2>2. PICK m \in lost : \A j \in lost : m <= j
    <3> HIDE DEF lost
    <3> QED
      BY <2>1, LeastExists
  <2>3. m # k
    BY <2>2
  <2>4. m - 1 \in k .. N /\ m \in 1 .. N /\ ~(m <= m - 1)
    BY <2>3
  <2>5. L[k] \subseteq L[m - 1] /\ L[m - 1] \subseteq L[m]
    BY <2>2, <2>4
  <2> QED
    BY <2>2, <2>5
<1>2. N \in k .. N
  OBVIOUS
<1> QED
  BY <1>1, <1>2

(* The last level is closed: until one level adds no root, each adds one   *)
(* at least, and there are as many levels as roots.                        *)
LEMMA StoppedIsClosed ==
    ASSUME NEW E, Len(E) \in Nat, DOMAIN E = 1 .. Len(E)
    PROVE  /\ Stopped(E) \subseteq DOMAIN E
           /\ \A i \in DOMAIN E : ~Executable(E[i]) => i \in Stopped(E)
           /\ Sharing(E, Stopped(E)) \subseteq Stopped(E)
<1> DEFINE N == Len(E)
<1>1. PICK L : /\ L[0] = StoppedFirst(E) /\ Stopped(E) = L[N]
               /\ \A n \in 1 .. N : L[n] = L[n - 1] \union Sharing(E, L[n - 1])
               /\ \A n \in 0 .. N : L[n] \subseteq DOMAIN E
  BY StoppedByLevels
<1>2. N \in Nat /\ DOMAIN E = 1 .. N
  OBVIOUS
<1> HIDE DEF N
<1>3. 0 \in 0 .. N /\ N \in 0 .. N
  BY <1>2
<1>4. ASSUME NEW k \in 0 .. N PROVE L[k] \subseteq L[N]
  BY <1>1, <1>2, StoppedLevelsGrow
<1>5. \A i \in DOMAIN E : ~Executable(E[i]) => i \in Stopped(E)
  BY <1>1, <1>3, <1>4 DEF StoppedFirst
<1>6. Sharing(E, L[N]) \subseteq L[N]
  <2> SUFFICES ASSUME NEW x \in Sharing(E, L[N]), x \notin L[N]
               PROVE  FALSE
    OBVIOUS
  <2>1. x \in 1 .. N
    BY <1>2 DEF Sharing
  <2>2. ASSUME NEW k \in 1 .. N, L[k] \subseteq L[k - 1]
        PROVE  FALSE
    <3> DEFINE grown == {m \in (k - 1) .. N : ~(L[m] \subseteq L[k - 1])}
    <3>1. Sharing(E, L[k - 1]) \subseteq L[k - 1]
      BY <1>1, <2>2
    <3>2. grown = {}
      <4> SUFFICES ASSUME grown # {} PROVE FALSE
        OBVIOUS
      <4>1. grown \subseteq Nat
        BY <1>2
      <4>2. PICK m \in grown : \A j \in grown : m <= j
        <5> HIDE DEF grown
        <5> QED
          BY <4>1, LeastExists
      <4>3. m # k - 1
        BY <4>2
      <4>4. m - 1 \in (k - 1) .. N /\ m \in 1 .. N /\ ~(m <= m - 1)
        BY <1>2, <4>3
      <4>5. L[m - 1] \subseteq L[k - 1]
        BY <4>2, <4>4
      <4>6. Sharing(E, L[m - 1]) \subseteq Sharing(E, L[k - 1])
        BY <4>5 DEF Sharing
      <4>7. L[m] \subseteq L[k - 1]
        BY <1>1, <3>1, <4>4, <4>5, <4>6
      <4> QED
        BY <4>2, <4>7
    <3>3. N \in (k - 1) .. N
      BY <1>2
    <3>4. L[N] \subseteq L[k - 1]
      BY <3>2, <3>3
    <3>5. Sharing(E, L[N]) \subseteq Sharing(E, L[k - 1])
      BY <3>4 DEF Sharing
    <3>6. k - 1 \in 0 .. N
      BY <1>2
    <3>7. x \in L[N]
      BY <1>4, <3>1, <3>5, <3>6
    <3> QED
      BY <3>7
  <2>3. IsFiniteSet(1 .. N) /\ Cardinality(1 .. N) = N
    BY <1>2, FS_Interval
  <2>4. ASSUME NEW k \in 0 .. N
        PROVE  /\ IsFiniteSet(L[k]) /\ L[k] \subseteq 1 .. N
               /\ Cardinality(L[k]) \in Nat /\ Cardinality(L[k]) <= N
    <3>1. L[k] \subseteq 1 .. N
      BY <1>1, <1>2
    <3>2. IsFiniteSet(L[k]) /\ Cardinality(L[k]) <= N
      BY <2>3, <3>1, FS_Subset
    <3>3. Cardinality(L[k]) \in Nat
      BY <3>2, FS_CardinalityType
    <3> QED
      BY <3>1, <3>2, <3>3
  <2> DEFINE few == {k \in 0 .. N : ~(k <= Cardinality(L[k]))}
  <2>5. few = {}
    <3> SUFFICES ASSUME few # {} PROVE FALSE
      OBVIOUS
    <3>1. few \subseteq Nat
      BY <1>2
    <3>2. PICK k \in few : \A m \in few : k <= m
      <4> HIDE DEF few
      <4> QED
        BY <3>1, LeastExists
    <3>3. k # 0
      <4>1. Cardinality(L[k]) \in Nat
        BY <2>4, <3>2
      <4> QED
        BY <3>2, <4>1
    <3>4. k - 1 \in 0 .. N /\ k \in 1 .. N /\ k \in 0 .. N /\ ~(k <= k - 1)
      BY <1>2, <3>3
    <3>5. k - 1 <= Cardinality(L[k - 1])
      BY <3>2, <3>4
    <3>6. L[k - 1] \subseteq L[k] /\ L[k - 1] # L[k]
      BY <1>1, <2>2, <3>4
    <3>7. /\ Cardinality(L[k - 1]) <= Cardinality(L[k])
          /\ Cardinality(L[k - 1]) # Cardinality(L[k])
      BY <2>4, <3>4, <3>6, FS_Subset
    <3>8. Cardinality(L[k - 1]) \in Nat /\ Cardinality(L[k]) \in Nat
      BY <2>4, <3>4
    <3>9. k <= Cardinality(L[k])
      BY <3>4, <3>5, <3>7, <3>8
    <3> QED
      BY <3>2, <3>9
  <2>6. N <= Cardinality(L[N])
    BY <1>3, <2>5
  <2>7. Cardinality(L[N]) = N
    BY <1>2, <1>3, <2>4, <2>6
  <2>8. L[N] = 1 .. N
    BY <1>3, <2>3, <2>4, <2>7, FS_Subset
  <2> QED
    BY <2>1, <2>8
<1>7. Stopped(E) \subseteq DOMAIN E
  BY <1>1, <1>3
<1> QED
  BY <1>1, <1>5, <1>6, <1>7

-----------------------------------------------------------------------------
(* The ledger of repeated records.  InDoubt are the records an object      *)
(* brings more than once; E are the epochs, D the decisions, w the         *)
(* operators walked.                                                       *)
ColourKinds == {"select", "set"}
InDoubt(n) == Localized(n) /\ Cell(n).object \in Repeated
Matches(facts, e, value) == facts.alias = e.alias /\ facts.lane = e.lane /\ facts.value = value

(* Candidates are walked colour operators, and no record is two.           *)
CandidatesOK(E, w) ==
  /\ \A i \in 1 .. Len(E) : \A c \in Candidates(E[i]) :
       c.at \in 1 .. Len(w) /\ Localized(c.at) /\ w[c.at].kind \in ColourKinds
  /\ \A i, j \in 1 .. Len(E) : \A c \in Candidates(E[i]), d \in Candidates(E[j]) :
       c.at = d.at => i = j /\ c = d

(* The roots of a poisoned record have been refused.                       *)
RootsOK(E, D) ==
  \A key \in DOMAIN D :
    /\ D[key].roots \subseteq 1 .. Len(E)
    /\ D[key].poisoned => \A i \in D[key].roots : E[i].refusal # NoRefusal

(* A candidate relies on the decision about its record, and agrees.        *)
BackedOK(E, D) ==
  \A i \in 1 .. Len(E) : \A c \in Candidates(E[i]) :
    InDoubt(c.at) =>
      /\ Record(c.at) \in DOMAIN D /\ i \in D[Record(c.at)].roots
      /\ D[Record(c.at)].poisoned \/ Matches(D[Record(c.at)].facts, E[i], c.value)

(* A decision for a candidate is borne out by every occurrence walked.     *)
Answered(E, D, n) ==
  /\ Record(n) \in DOMAIN D
  /\ \/ D[Record(n)].poisoned
     \/ D[Record(n)].facts.alias = NoName
     \/ \E i \in 1 .. Len(E) : \E c \in Candidates(E[i]) :
          c.at = n /\ Matches(D[Record(n)].facts, E[i], c.value)
AnsweredOK(E, D, w) ==
  \A n \in 1 .. Len(w) : InDoubt(n) /\ w[n].kind \in ColourKinds => Answered(E, D, n)

LedgerOK(E, D, w) ==
  /\ CandidatesOK(E, w) /\ RootsOK(E, D) /\ BackedOK(E, D) /\ AnsweredOK(E, D, w)

(* Marks and empty epochs leave the ledger as it is.                       *)
Extends(E, F) ==
  /\ Follows(E, F)
  /\ \A i \in 1 .. Len(E) : F[i].lane = E[i].lane /\ Candidates(F[i]) = Candidates(E[i])
  /\ \A i \in 1 .. Len(F) : ~(i \in 1 .. Len(E)) => Candidates(F[i]) = {}

(* What keeps candidates extends.                                          *)
LEMMA KeptExtends ==
    ASSUME NEW E, NEW F, Kept(E, F)
    PROVE  Extends(E, F)
BY DEF Kept, Extends, Candidates

(* What extends the epochs keeps the ledger.                               *)
LEMMA LedgerExtended ==
    ASSUME NEW E \in Seq(EpochType), NEW D, NEW w, LedgerOK(E, D, w), NEW F, Extends(E, F)
    PROVE  LedgerOK(F, D, w)
<1>1. Len(E) \in Nat /\ Len(F) \in Nat /\ \A i \in 1 .. Len(E) : i \in 1 .. Len(F)
  BY LenProperties DEF Extends, Follows
<1>2. \A i \in 1 .. Len(F) : \A c \in Candidates(F[i]) :
        /\ i \in 1 .. Len(E) /\ c \in Candidates(E[i])
        /\ F[i].alias = E[i].alias /\ F[i].lane = E[i].lane
  BY DEF Extends, Follows
<1>3. CandidatesOK(F, w)
  <2>1. CandidatesOK(E, w)
    BY DEF LedgerOK
  <2>2. ASSUME NEW i \in 1 .. Len(F), NEW c \in Candidates(F[i])
        PROVE  c.at \in 1 .. Len(w) /\ Localized(c.at) /\ w[c.at].kind \in ColourKinds
    BY <1>2, <2>1, Zenon DEF CandidatesOK
  <2>3. ASSUME NEW i \in 1 .. Len(F), NEW j \in 1 .. Len(F), NEW c \in Candidates(F[i]),
               NEW d \in Candidates(F[j]), c.at = d.at
        PROVE  i = j /\ c = d
    <3>1. i \in 1 .. Len(E) /\ c \in Candidates(E[i]) /\ j \in 1 .. Len(E) /\ d \in Candidates(E[j])
      BY <1>2, Zenon
    <3> QED
      BY <2>1, <2>3, <3>1, Zenon DEF CandidatesOK
  <2> QED
    BY <2>2, <2>3, Zenon DEF CandidatesOK
<1>4. RootsOK(F, D)
  <2> SUFFICES ASSUME NEW key \in DOMAIN D
               PROVE  /\ D[key].roots \subseteq 1 .. Len(F)
                      /\ D[key].poisoned => \A i \in D[key].roots : F[i].refusal # NoRefusal
    BY Zenon DEF RootsOK
  <2>1. /\ D[key].roots \subseteq 1 .. Len(E)
        /\ D[key].poisoned => \A i \in D[key].roots : E[i].refusal # NoRefusal
    BY Zenon DEF RootsOK, LedgerOK
  <2>2. \A i \in 1 .. Len(E) : E[i].refusal # NoRefusal => F[i].refusal # NoRefusal
    BY DEF Extends, Follows
  <2> QED
    BY <1>1, <2>1, <2>2, Zenon
<1>5. BackedOK(F, D)
  BY <1>2, Zenon DEF BackedOK, LedgerOK, Matches
<1>6. AnsweredOK(F, D, w)
  <2> SUFFICES ASSUME NEW n \in 1 .. Len(w), InDoubt(n), w[n].kind \in ColourKinds
               PROVE  Answered(F, D, n)
    BY DEF AnsweredOK
  <2>1. Answered(E, D, n)
    BY DEF AnsweredOK, LedgerOK
  <2>2. \A i \in 1 .. Len(E) : /\ Candidates(F[i]) = Candidates(E[i])
                               /\ F[i].alias = E[i].alias /\ F[i].lane = E[i].lane
    BY DEF Extends, Follows
  <2> QED
    BY <1>1, <2>1, <2>2, Zenon DEF Answered, Matches
<1> QED
  BY <1>3, <1>4, <1>5, <1>6 DEF LedgerOK

(* So do operators that are no colours.                                    *)
LEMMA LedgerWalked ==
    ASSUME NEW E, NEW D, LedgerOK(E, D, word), word \in Seq(OperatorRecords),
           NEW o \in OperatorRecords, o.kind \notin ColourKinds
    PROVE  LedgerOK(E, D, Append(word, o))
<1> DEFINE w == Append(word, o)
<1>1. /\ Len(word) \in Nat /\ Len(w) = Len(word) + 1 /\ w[Len(word) + 1] = o
      /\ \A n \in 1 .. Len(word) : w[n] = word[n]
  BY LenProperties, AppendProperties
<1> HIDE DEF w
<1>2. \A n \in 1 .. Len(word) : n \in 1 .. Len(w)
  BY <1>1
<1>3. \A n \in 1 .. Len(w) : n \in 1 .. Len(word) \/ n = Len(word) + 1
  BY <1>1
<1>4. CandidatesOK(E, w)
  BY <1>1, <1>2, Zenon DEF CandidatesOK, LedgerOK
<1>5. AnsweredOK(E, D, w)
  BY <1>1, <1>3, Zenon DEF AnsweredOK, LedgerOK
<1> QED
  BY <1>4, <1>5 DEF LedgerOK, w

(* F is D with one more decision about a record.                           *)
Settles(D, F, key, roots, facts) ==
  /\ DOMAIN F = DOMAIN D \union {key}
  /\ \A k \in DOMAIN D : k # key => F[k] = D[k]
  /\ F[key].roots = IF key \in DOMAIN D THEN D[key].roots \union roots ELSE roots
  /\ F[key].facts = IF key \in DOMAIN D THEN D[key].facts ELSE facts
  /\ F[key].poisoned <=> key \in DOMAIN D /\ (D[key].poisoned \/ D[key].facts # facts)
RootSet(root) == IF root = 0 THEN {} ELSE {root}

(* That is what note_record_decision does for a repeated object.           *)
LEMMA DecidedSettles ==
    ASSUME NEW at, NEW root, NEW facts, InDoubt(at)
    PROVE  Settles(decisions, Decided(at, root, facts), Record(at), RootSet(root), facts)
<1> DEFINE key == Record(at)
           roots == RootSet(root)
           grown == [roots |-> decisions[key].roots \union roots, facts |-> decisions[key].facts,
                     poisoned |-> decisions[key].poisoned \/ decisions[key].facts # facts]
           fresh == [roots |-> roots, facts |-> facts, poisoned |-> FALSE]
           new == IF key \in DOMAIN decisions THEN grown ELSE fresh
           F == Decided(at, root, facts)
<1>1. F = [k \in DOMAIN decisions \union {key} |-> IF k = key THEN new ELSE decisions[k]]
  BY DEF Decided, InDoubt, RootSet
<1>2. /\ grown.roots = decisions[key].roots \union roots /\ grown.facts = decisions[key].facts
      /\ grown.poisoned <=> decisions[key].poisoned \/ decisions[key].facts # facts
  OBVIOUS
<1>3. fresh.roots = roots /\ fresh.facts = facts /\ ~fresh.poisoned
  OBVIOUS
<1> HIDE DEF grown, fresh, F, key, roots
<1>4. F[key] = new
  BY <1>1
<1>5. /\ DOMAIN F = DOMAIN decisions \union {key}
      /\ \A k \in DOMAIN decisions : k # key => F[k] = decisions[k]
  BY <1>1
<1> HIDE DEF new
<1>6. Settles(decisions, F, key, roots, facts)
  <2>1. CASE key \in DOMAIN decisions
    <3>1. F[key] = grown
      BY <1>4, <2>1 DEF new
    <3> QED
      BY <1>2, <1>5, <2>1, <3>1, Zenon DEF Settles
  <2>2. CASE key \notin DOMAIN decisions
    <3>1. F[key] = fresh
      BY <1>4, <2>2 DEF new
    <3> QED
      BY <1>3, <1>5, <2>2, <3>1, Zenon DEF Settles
  <2> QED
    BY <2>1, <2>2
<1> QED
  BY <1>6 DEF F, key, roots

(* Nothing is decided of other records.                                    *)
LEMMA DecidedElsewhere ==
    ASSUME NEW at, NEW root, NEW facts, ~InDoubt(at)
    PROVE  Decided(at, root, facts) = decisions
BY DEF Decided, InDoubt

(* A decision that poisons its record refuses the roots that rely on it.   *)
LEMMA DecisionRefuses ==
    ASSUME NEW E \in Seq(EpochType), NEW at \in Nat, NEW root, NEW facts, Localized(at),
           Record(at) \in DOMAIN Decided(at, root, facts),
           Decided(at, root, facts)[Record(at)].poisoned,
           NEW i \in 1 .. Len(E), i \in Decided(at, root, facts)[Record(at)].roots
    PROVE  AfterDecision(E, at, root, facts)[i].refusal # NoRefusal
<1> DEFINE roots == Decided(at, root, facts)[Record(at)].roots
<1>1. "RepeatedReferenceMismatch" \in Reasons
  BY DEF Reasons
<1>2. AfterDecision(E, at, root, facts) = RefusedAmong(E, roots, at, "RepeatedReferenceMismatch")
  BY DEF AfterDecision
<1>3. i \in roots
  OBVIOUS
<1> HIDE DEF roots
<1> QED
  BY <1>1, <1>2, <1>3, RefusingMarks

(* The decided ledger has only refused roots of poisoned records.          *)
LEMMA RootsSettled ==
    ASSUME NEW E \in Seq(EpochType), RootsOK(E, decisions), NEW A, Follows(E, A), Len(A) = Len(E),
           NEW at \in Nat, NEW root \in 0 .. Len(E), NEW facts
    PROVE  RootsOK(AfterDecision(A, at, root, facts), Decided(at, root, facts))
<1> DEFINE B == AfterDecision(A, at, root, facts)
           D == Decided(at, root, facts)
<1>1. A \in Seq(EpochType) /\ Len(E) \in Nat
  BY LenProperties DEF Follows
<1>2. Marks(A, B)
  BY <1>1, AfterDecisionMarks
<1>3. /\ Len(B) = Len(E)
      /\ \A i \in 1 .. Len(E) : E[i].refusal # NoRefusal => B[i].refusal # NoRefusal
  <2> HIDE DEF B
  <2> QED
    BY <1>1, <1>2 DEF Marks, Notes, Kept, Follows
<1>4. ASSUME InDoubt(at), D[Record(at)].poisoned, NEW i \in 1 .. Len(E), i \in D[Record(at)].roots,
             Record(at) \in DOMAIN D
      PROVE  B[i].refusal # NoRefusal
  BY <1>1, <1>4, DecisionRefuses DEF InDoubt
<1> HIDE DEF B, D
<1> SUFFICES ASSUME NEW key \in DOMAIN D
             PROVE  /\ D[key].roots \subseteq 1 .. Len(B)
                    /\ D[key].poisoned => \A i \in D[key].roots : B[i].refusal # NoRefusal
  BY Zenon DEF RootsOK, B, D
<1>5. \A k \in DOMAIN decisions :
        /\ decisions[k].roots \subseteq 1 .. Len(E)
        /\ decisions[k].poisoned => \A i \in decisions[k].roots : E[i].refusal # NoRefusal
  BY Zenon DEF RootsOK
<1>6. CASE InDoubt(at) /\ key = Record(at)
  <2>1. Settles(decisions, D, key, RootSet(root), facts)
    BY <1>6, DecidedSettles DEF D
  <2>2. RootSet(root) \subseteq 1 .. Len(E)
    BY <1>1 DEF RootSet
  <2>3. D[key].roots = IF key \in DOMAIN decisions THEN decisions[key].roots \union RootSet(root)
                       ELSE RootSet(root)
    BY <2>1, Zenon DEF Settles
  <2>4. D[key].roots \subseteq 1 .. Len(E)
    BY <1>5, <2>2, <2>3, Zenon
  <2>5. D[key].poisoned => \A i \in D[key].roots : B[i].refusal # NoRefusal
    BY <1>4, <1>6, <2>4, Zenon
  <2> QED
    BY <1>3, <2>4, <2>5
<1>7. CASE ~(InDoubt(at) /\ key = Record(at))
  <2>1. key \in DOMAIN decisions /\ D[key] = decisions[key]
    <3>1. CASE InDoubt(at)
      <4>1. Settles(decisions, D, Record(at), RootSet(root), facts)
        BY <3>1, DecidedSettles DEF D
      <4> QED
        BY <1>7, <3>1, <4>1, Zenon DEF Settles
    <3>2. CASE ~InDoubt(at)
      BY <3>2, DecidedElsewhere DEF D
    <3> QED
      BY <3>1, <3>2
  <2> QED
    BY <1>3, <1>5, <2>1, Zenon
<1> QED
  BY <1>6, <1>7

(* A decision forgets nothing of the decisions before.                     *)
LEMMA DecidedKeeps ==
    ASSUME NEW at, NEW root, NEW facts, NEW key \in DOMAIN decisions
    PROVE  /\ key \in DOMAIN Decided(at, root, facts)
           /\ decisions[key].roots \subseteq Decided(at, root, facts)[key].roots
           /\ decisions[key].facts = Decided(at, root, facts)[key].facts
           /\ decisions[key].poisoned => Decided(at, root, facts)[key].poisoned
<1> DEFINE D == Decided(at, root, facts)
<1>1. CASE InDoubt(at)
  <2>1. Settles(decisions, D, Record(at), RootSet(root), facts)
    BY <1>1, DecidedSettles
  <2> HIDE DEF D
  <2>2. CASE key = Record(at)
    <3>1. /\ D[key].roots = decisions[key].roots \union RootSet(root)
          /\ D[key].facts = decisions[key].facts
          /\ D[key].poisoned <=> decisions[key].poisoned \/ decisions[key].facts # facts
          /\ key \in DOMAIN D
      BY <2>1, <2>2, Zenon DEF Settles
    <3>2. decisions[key].roots \subseteq D[key].roots
      BY <3>1
    <3> QED
      BY <3>1, <3>2, Zenon DEF D
  <2>3. CASE key # Record(at)
    <3>1. D[key] = decisions[key] /\ key \in DOMAIN D
      BY <2>1, <2>3 DEF Settles
    <3> QED
      BY <3>1, Zenon DEF D
  <2> QED
    BY <2>2, <2>3
<1>2. CASE ~InDoubt(at)
  BY <1>2, DecidedElsewhere, Zenon
<1> QED
  BY <1>1, <1>2

(* It says of its own record that the root relies on it, and agrees or is  *)
(* poisoned.                                                               *)
LEMMA DecidedTells ==
    ASSUME NEW at, NEW root, NEW facts, InDoubt(at)
    PROVE  /\ Record(at) \in DOMAIN Decided(at, root, facts)
           /\ RootSet(root) \subseteq Decided(at, root, facts)[Record(at)].roots
           /\ \/ Decided(at, root, facts)[Record(at)].poisoned
              \/ Decided(at, root, facts)[Record(at)].facts = facts
<1> DEFINE D == Decided(at, root, facts)
           key == Record(at)
<1>1. Settles(decisions, D, key, RootSet(root), facts)
  BY DecidedSettles
<1> HIDE DEF D, key
<1>2. key \in DOMAIN D
  BY <1>1 DEF Settles
<1>3. CASE key \in DOMAIN decisions
  <2>1. /\ D[key].roots = decisions[key].roots \union RootSet(root)
        /\ D[key].facts = decisions[key].facts
        /\ D[key].poisoned <=> decisions[key].poisoned \/ decisions[key].facts # facts
    BY <1>1, <1>3, Zenon DEF Settles
  <2>2. RootSet(root) \subseteq D[key].roots
    BY <2>1
  <2>3. D[key].poisoned \/ D[key].facts = facts
    BY <2>1, Zenon
  <2> QED
    BY <1>2, <2>2, <2>3, Zenon DEF D, key
<1>4. CASE key \notin DOMAIN decisions
  <2>1. D[key].roots = RootSet(root) /\ D[key].facts = facts
    BY <1>1, <1>4, Zenon DEF Settles
  <2> QED
    BY <1>2, <2>1, Zenon DEF D, key
<1> QED
  BY <1>3, <1>4

(* What an operator notes: its record as a candidate of one root, with the *)
(* facts it is decided by, or nothing, and then it is decided to be none.  *)
NotesOf(news, E, root, facts, at) ==
  \/ news = {} /\ (Localized(at) => facts.alias = NoName)
  \/ /\ root \in 1 .. Len(E) /\ Localized(at)
     /\ \E c : news = {c} /\ c.at = at /\ Matches(facts, E[root], c.value)
Added(E, A, root, news) ==
  /\ Notes(E, A)
  /\ \A i \in 1 .. Len(E) :
       /\ A[i].lane = E[i].lane
       /\ Candidates(A[i]) = Candidates(E[i]) \union (IF i = root THEN news ELSE {})

(* The ledger holds after the operator has been noted and decided.         *)
LEMMA LedgerSettled ==
    ASSUME NEW E \in Seq(EpochType), LedgerOK(E, decisions, word), word \in Seq(OperatorRecords),
           NEW o \in OperatorRecords, o.kind \in ColourKinds, NEW root \in 0 .. Len(E), NEW facts,
           NEW news, NotesOf(news, E, root, facts, Now), NEW A, Added(E, A, root, news)
    PROVE  LedgerOK(AfterDecision(A, Now, root, facts), Decided(Now, root, facts), Append(word, o))
<1> DEFINE B == AfterDecision(A, Now, root, facts)
           D == Decided(Now, root, facts)
           w == Append(word, o)
           Old(i) == Candidates(E[i])
           New(i) == IF i = root THEN news ELSE {}
<1>1. /\ Len(word) \in Nat /\ Len(w) = Len(word) + 1 /\ w[Len(word) + 1] = o
      /\ \A n \in 1 .. Len(word) : w[n] = word[n]
  BY LenProperties, AppendProperties
<1>2. Now \in Nat /\ Now = Len(word) + 1 /\ Now \in 1 .. Len(w) /\ w[Now] = o
      /\ ~(Now \in 1 .. Len(word)) /\ Len(E) \in Nat
  BY <1>1, LenProperties DEF Now
<1>3. \A n \in 1 .. Len(word) : n \in 1 .. Len(w) /\ w[n] = word[n]
  BY <1>1
<1>4. \A n \in 1 .. Len(w) : n \in 1 .. Len(word) \/ n = Now
  BY <1>1, <1>2
<1>5. RootsOK(B, D)
  <2>1. RootsOK(E, decisions)
    BY DEF LedgerOK
  <2>2. Follows(E, A) /\ Len(A) = Len(E)
    BY DEF Added, Notes
  <2> QED
    BY <1>2, <2>1, <2>2, RootsSettled
<1>6. /\ Len(B) = Len(E)
      /\ \A i \in 1 .. Len(E) : /\ B[i].alias = E[i].alias /\ B[i].lane = E[i].lane
                                /\ Candidates(B[i]) = Old(i) \union New(i)
  <2>1. A \in Seq(EpochType)
    BY DEF Added, Notes, Follows
  <2>2. Marks(A, B)
    BY <1>2, <2>1, AfterDecisionMarks
  <2> HIDE DEF B
  <2>3. Extends(A, B) /\ Len(B) = Len(A)
    BY <2>2, KeptExtends DEF Marks, Kept
  <2>4. Len(A) = Len(E) /\ \A i \in 1 .. Len(E) : A[i].alias = E[i].alias
    BY DEF Added, Notes, Follows
  <2>5. \A i \in 1 .. Len(E) : /\ B[i].alias = A[i].alias /\ B[i].lane = A[i].lane
                               /\ Candidates(B[i]) = Candidates(A[i])
    BY <2>3, <2>4 DEF Extends, Follows
  <2> QED
    BY <2>3, <2>4, <2>5 DEF Added
<1>7. \A key \in DOMAIN decisions :
        /\ key \in DOMAIN D /\ decisions[key].roots \subseteq D[key].roots
        /\ decisions[key].facts = D[key].facts /\ (decisions[key].poisoned => D[key].poisoned)
  BY DecidedKeeps, Zenon
<1>8. InDoubt(Now) => /\ Record(Now) \in DOMAIN D /\ RootSet(root) \subseteq D[Record(Now)].roots
                      /\ D[Record(Now)].poisoned \/ D[Record(Now)].facts = facts
  BY DecidedTells, Zenon
<1>9. \A i \in 1 .. Len(E) : \A c \in New(i) :
        /\ i = root /\ news = {c} /\ c.at = Now /\ Localized(Now) /\ Matches(facts, E[root], c.value)
  BY DEF NotesOf
<1> HIDE DEF B, D, w, Old, New
<1>10. CandidatesOK(E, word) /\ BackedOK(E, decisions) /\ AnsweredOK(E, decisions, word)
  BY DEF LedgerOK
<1>11. \A i \in 1 .. Len(E) : \A c \in Old(i) :
         c.at \in 1 .. Len(word) /\ Localized(c.at) /\ word[c.at].kind \in ColourKinds
  BY <1>10, Zenon DEF CandidatesOK, Old
<1>12. CandidatesOK(B, w)
  <2>1. ASSUME NEW i \in 1 .. Len(B), NEW c \in Candidates(B[i])
        PROVE  c.at \in 1 .. Len(w) /\ Localized(c.at) /\ w[c.at].kind \in ColourKinds
    <3>1. c \in Old(i) \/ c \in New(i)
      BY <1>6, <2>1
    <3>2. CASE c \in Old(i)
      <4>1. c.at \in 1 .. Len(word) /\ Localized(c.at) /\ word[c.at].kind \in ColourKinds
        BY <1>6, <1>11, <3>2
      <4> QED
        BY <1>3, <4>1
    <3>3. CASE c \in New(i)
      BY <1>2, <1>6, <1>9, <3>3
    <3> QED
      BY <3>1, <3>2, <3>3
  <2>2. ASSUME NEW i \in 1 .. Len(B), NEW j \in 1 .. Len(B), NEW c \in Candidates(B[i]),
               NEW d \in Candidates(B[j]), c.at = d.at
        PROVE  i = j /\ c = d
    <3>1. (c \in Old(i) \/ c \in New(i)) /\ (d \in Old(j) \/ d \in New(j))
      BY <1>6
    <3>2. CASE c \in Old(i) /\ d \in Old(j)
      BY <1>6, <1>10, <2>2, <3>2, Zenon DEF CandidatesOK, Old
    <3>3. CASE c \in New(i) /\ d \in New(j)
      <4>1. i = root /\ news = {c} /\ j = root /\ news = {d}
        BY <1>6, <1>9, <3>3, Zenon
      <4> QED
        BY <4>1
    <3>4. CASE c \in Old(i) /\ d \in New(j)
      <4>1. i \in 1 .. Len(E) /\ j \in 1 .. Len(E)
        BY <1>6
      <4>2. c.at \in 1 .. Len(word)
        BY <1>11, <3>4, <4>1
      <4>3. d.at = Now
        BY <1>9, <3>4, <4>1
      <4> QED
        BY <1>2, <2>2, <4>2, <4>3
    <3>5. CASE c \in New(i) /\ d \in Old(j)
      <4>1. i \in 1 .. Len(E) /\ j \in 1 .. Len(E)
        BY <1>6
      <4>2. d.at \in 1 .. Len(word)
        BY <1>11, <3>5, <4>1
      <4>3. c.at = Now
        BY <1>9, <3>5, <4>1
      <4> QED
        BY <1>2, <2>2, <4>2, <4>3
    <3> QED
      BY <3>1, <3>2, <3>3, <3>4, <3>5
  <2> QED
    BY <2>1, <2>2, Zenon DEF CandidatesOK
<1>13. BackedOK(B, D)
  <2> SUFFICES ASSUME NEW i \in 1 .. Len(B), NEW c \in Candidates(B[i]), InDoubt(c.at)
               PROVE  /\ Record(c.at) \in DOMAIN D /\ i \in D[Record(c.at)].roots
                      /\ D[Record(c.at)].poisoned \/ Matches(D[Record(c.at)].facts, B[i], c.value)
    BY Zenon DEF BackedOK
  <2>1. i \in 1 .. Len(E) /\ B[i].alias = E[i].alias /\ B[i].lane = E[i].lane
        /\ (c \in Old(i) \/ c \in New(i))
    BY <1>6
  <2>2. CASE c \in Old(i)
    <3> DEFINE key == Record(c.at)
    <3>1. /\ key \in DOMAIN decisions /\ i \in decisions[key].roots
          /\ decisions[key].poisoned \/ Matches(decisions[key].facts, E[i], c.value)
      BY <1>10, <2>1, <2>2, Zenon DEF BackedOK, Old
    <3> HIDE DEF key
    <3>2. /\ key \in DOMAIN D /\ decisions[key].roots \subseteq D[key].roots
          /\ decisions[key].facts = D[key].facts /\ (decisions[key].poisoned => D[key].poisoned)
      BY <1>7, <3>1, Zenon
    <3>3. i \in D[key].roots
      BY <3>1, <3>2
    <3> QED
      BY <2>1, <3>1, <3>2, <3>3, Zenon DEF Matches, key
  <2>3. CASE c \in New(i)
    <3>1. i = root /\ c.at = Now /\ Matches(facts, E[root], c.value)
      BY <1>9, <2>1, <2>3, Zenon
    <3>2. root \in RootSet(root)
      BY <1>2, <2>1, <3>1 DEF RootSet
    <3>3. i \in D[Record(Now)].roots
      BY <1>8, <3>1, <3>2
    <3> QED
      BY <1>8, <2>1, <3>1, <3>3, Zenon DEF Matches
  <2> QED
    BY <2>1, <2>2, <2>3
<1>14. AnsweredOK(B, D, w)
  <2> SUFFICES ASSUME NEW n \in 1 .. Len(w), InDoubt(n), w[n].kind \in ColourKinds
               PROVE  Answered(B, D, n)
    BY DEF AnsweredOK
  <2>1. CASE n \in 1 .. Len(word)
    <3> DEFINE key == Record(n)
    <3>1. Answered(E, decisions, n)
      BY <1>3, <1>10, <2>1 DEF AnsweredOK
    <3>2. key \in DOMAIN decisions
      BY <3>1 DEF Answered
    <3>3. /\ key \in DOMAIN D /\ decisions[key].facts = D[key].facts
          /\ (decisions[key].poisoned => D[key].poisoned)
      BY <1>7, <3>2, Zenon
    <3>4. ASSUME NEW i \in 1 .. Len(E), NEW c \in Candidates(E[i]), c.at = n,
                 Matches(decisions[key].facts, E[i], c.value)
          PROVE  Answered(B, D, n)
      <4>1. i \in 1 .. Len(B) /\ c \in Candidates(B[i]) /\ Matches(D[key].facts, B[i], c.value)
        BY <1>6, <3>3, <3>4 DEF Matches, Old
      <4> HIDE DEF key
      <4> QED
        BY <3>3, <3>4, <4>1, Zenon DEF Answered, key
    <3>5. CASE decisions[key].poisoned \/ decisions[key].facts.alias = NoName
      BY <3>3, <3>5, Zenon DEF Answered
    <3> QED
      BY <3>1, <3>4, <3>5, Zenon DEF Answered
  <2>2. CASE n = Now
    <3>1. CASE news = {}
      <4>1. facts.alias = NoName
        BY <2>2, <3>1 DEF NotesOf, InDoubt
      <4> QED
        BY <1>8, <2>2, <4>1, Zenon DEF Answered
    <3>2. CASE news # {}
      <4>1. PICK c : root \in 1 .. Len(E) /\ news = {c} /\ c.at = Now /\ Matches(facts, E[root], c.value)
        BY <3>2 DEF NotesOf
      <4>2. root \in 1 .. Len(B) /\ c \in Candidates(B[root]) /\ Matches(facts, B[root], c.value)
        BY <1>6, <4>1 DEF Matches, New
      <4> QED
        BY <1>8, <2>2, <4>1, <4>2, Zenon DEF Answered
    <3> QED
      BY <3>1, <3>2
  <2> QED
    BY <1>4, <2>1, <2>2
<1> QED
  BY <1>5, <1>12, <1>13, <1>14 DEF LedgerOK, B, D, w

(* A noted candidate is one more of its root's.                            *)
LEMMA CandidatesAdded ==
    ASSUME NEW E \in Seq(EpochType), NEW A, NEW root, NEW c \in [at : Nat, value : Nat],
           Adds(E, A, root, c)
    PROVE  Added(E, A, root, {c})
<1>1. ASSUME NEW i \in 1 .. Len(E)
      PROVE  Candidates(A[i]) = Candidates(E[i]) \union (IF i = root THEN {c} ELSE {})
  <2> DEFINE s == E[i].candidates
             t == A[i].candidates
  <2>1. s \in Seq([at : Nat, value : Nat]) /\ E[i] \in EpochType
    <3>1. E[i] \in EpochType
      BY ElementOfSeq
    <3> QED
      BY <3>1 DEF EpochType
  <2>2. t = IF i = root THEN Append(s, c) ELSE s
    BY DEF Adds
  <2>3. Candidates(A[i]) = {t[n] : n \in DOMAIN t} /\ Candidates(E[i]) = {s[n] : n \in DOMAIN s}
    BY DEF Candidates
  <2> HIDE DEF s, t
  <2>4. CASE i = root
    <3>1. t = Append(s, c)
      BY <2>2, <2>4
    <3>2. /\ Len(s) \in Nat /\ Len(t) = Len(s) + 1 /\ t[Len(s) + 1] = c
          /\ \A n \in 1 .. Len(s) : t[n] = s[n]
          /\ DOMAIN s = 1 .. Len(s) /\ DOMAIN t = 1 .. Len(t)
      BY <2>1, <3>1, AppendProperties, LenProperties
    <3>3. \A n \in DOMAIN t : n \in DOMAIN s \/ n = Len(s) + 1
      BY <3>2
    <3>4. Len(s) + 1 \in DOMAIN t /\ \A n \in DOMAIN s : n \in DOMAIN t
      BY <3>2
    <3>5. {t[n] : n \in DOMAIN t} = {s[n] : n \in DOMAIN s} \union {c}
      BY <3>2, <3>3, <3>4
    <3> QED
      BY <2>3, <2>4, <3>5
  <2>5. CASE i # root
    BY <2>2, <2>3, <2>5
  <2> QED
    BY <2>4, <2>5
<1> QED
  BY <1>1 DEF Added, Adds

(* A candidate that has been noted: the ledger holds after it.             *)
LEMMA LedgerCandidate ==
    ASSUME NEW E \in Seq(EpochType), LedgerOK(E, decisions, word), word \in Seq(OperatorRecords),
           NEW o \in OperatorRecords, o.kind \in ColourKinds, NEW root \in 1 .. Len(E),
           NEW value \in Nat, NEW explicit
    PROVE  LedgerOK(WithCandidate(E, Now, root, value, explicit),
                    Decided(Now, root, Facts(E, root, value, explicit)), Append(word, o))
<1> DEFINE facts == Facts(E, root, value, explicit)
           W == WithCandidate(E, Now, root, value, explicit)
           D == Decided(Now, root, facts)
           w == Append(word, o)
           c == [at |-> Now, value |-> value]
<1>1. Len(E) \in Nat /\ Now \in Nat /\ root \in 0 .. Len(E) /\ E[root] \in EpochType
  BY LenProperties, ElementOfSeq DEF Now
<1>2. Matches(facts, E[root], value)
  BY DEF Matches, Facts
<1>3. c.at = Now /\ c.value = value
  OBVIOUS
<1>4. CASE Localized(Now)
  <2>1. PICK A : Adds(E, A, root, c) /\ W = AfterDecision(A, Now, root, facts)
    BY <1>1, <1>4, CandidateAdded
  <2> DEFINE B == AfterDecision(A, Now, root, facts)
  <2>2. NotesOf({c}, E, root, facts, Now)
    <3> HIDE DEF facts, c
    <3> QED
      BY <1>2, <1>3, <1>4 DEF NotesOf
  <2>3. c \in [at : Nat, value : Nat]
    BY <1>1
  <2> HIDE DEF c
  <2>4. Added(E, A, root, {c})
    BY <2>1, <2>3, CandidatesAdded
  <2> HIDE DEF facts, D, w
  <2>5. LedgerOK(B, D, w)
    BY <1>1, <2>2, <2>4, LedgerSettled DEF D, w
  <2> HIDE DEF B, W
  <2> QED
    BY <2>1, <2>5 DEF B, W, facts, D, w
<1>5. CASE ~Localized(Now)
  <2> HIDE DEF facts
  <2>1. Marks(E, W)
    BY <1>1, <1>5, CandidateMissed
  <2>2. AfterDecision(W, Now, root, facts) = W
    BY <1>5 DEF AfterDecision
  <2>3. NotesOf({}, E, root, facts, Now)
    BY <1>5 DEF NotesOf
  <2> HIDE DEF W
  <2>4. Added(E, W, root, {})
    <3>1. Notes(E, W) /\ \A i \in 1 .. Len(E) : W[i].lane = E[i].lane /\ Candidates(W[i]) = Candidates(E[i])
      BY <2>1 DEF Marks, Kept, Candidates
    <3> QED
      BY <3>1 DEF Added
  <2>5. LedgerOK(AfterDecision(W, Now, root, facts), D, w)
    BY <1>1, <2>3, <2>4, LedgerSettled
  <2> QED
    BY <2>2, <2>5 DEF W, facts
<1> QED
  BY <1>4, <1>5

(* One that is decided to be no candidate.                                 *)
LEMMA LedgerMissed ==
    ASSUME NEW E \in Seq(EpochType), LedgerOK(E, decisions, word), word \in Seq(OperatorRecords),
           NEW o \in OperatorRecords, o.kind \in ColourKinds, NEW root \in 0 .. Len(E)
    PROVE  LedgerOK(AfterDecision(E, Now, root, NoFacts), Decided(Now, root, NoFacts), Append(word, o))
<1>1. NotesOf({}, E, root, NoFacts, Now)
  BY DEF NotesOf, NoFacts
<1>2. Added(E, E, root, {})
  <2>1. Notes(E, E)
    BY MarksReflexive DEF Marks
  <2> QED
    BY <2>1 DEF Added
<1> QED
  BY <1>1, <1>2, LedgerSettled

(* Keeping adds up.                                                        *)
LEMMA KeptTransitive ==
    ASSUME NEW E \in Seq(EpochType), NEW F, NEW G, Kept(E, F), Kept(F, G)
    PROVE  Kept(E, G)
BY DEF Kept, Follows

(* Moving counts and refusing keep the rest.                               *)
LEMMA MovesKeep ==
    ASSUME NEW E \in Seq(EpochType)
    PROVE  /\ \A branch : Kept(E, Dropped(E, branch))
           /\ Kept(E, Copied(E))
           /\ \A condition : Now \in Nat => Kept(E, RefusedIf(condition, E, Now))
<1>1. \A branch : Kept(E, Dropped(E, branch))
  BY DroppedCounts DEF Uncounts
<1>2. Kept(E, Copied(E))
  BY CopiedCounts
<1>3. \A condition : Now \in Nat => Kept(E, RefusedIf(condition, E, Now))
  BY RefusedIfMarks DEF Marks
<1> QED
  BY <1>1, <1>2, <1>3

(* The ledger of the plan.                                                 *)
LedgerNow == LedgerOK(epochs, decisions, word)

(* Keeping the candidates does.                                            *)
LEMMA LedgerKept ==
    ASSUME NEW E \in Seq(EpochType), NEW F, NEW D, NEW w, LedgerOK(E, D, w), Kept(E, F)
    PROVE  LedgerOK(F, D, w)
BY KeptExtends, LedgerExtended

(* What every step of the ledger starts from.                              *)
LEMMA LedgerFacts ==
    ASSUME MirrorInv
    PROVE  /\ epochs \in Seq(EpochType) /\ word \in Seq(OperatorRecords) /\ Now \in Nat
           /\ lanes \in LanePairs
BY LenProperties DEF MirrorInv, PlanOK, Now

(* An operator that is no colour of an alias.                              *)
LEMMA LedgerPlain ==
    ASSUME MirrorInv, LedgerNow, NEW o, IsOperator(o), o.kind \notin ColourKinds, Observe(o),
           Kept(epochs, epochs'), decisions' = decisions
    PROVE  LedgerOK(epochs', decisions', word')
<1>1. epochs \in Seq(EpochType) /\ word \in Seq(OperatorRecords) /\ o \in OperatorRecords
  BY LedgerFacts DEF IsOperator
<1>2. word' = Append(word, o)
  BY DEF Observe
<1>3. LedgerOK(epochs', decisions, word)
  BY <1>1, LedgerKept DEF LedgerNow
<1>4. LedgerOK(epochs', decisions, Append(word, o))
  BY <1>1, <1>3, LedgerWalked
<1> QED
  BY <1>2, <1>4

(* The steps of q, Q and the device operators.                             *)
LEMMA LedgerMoved ==
    ASSUME MirrorInv, LedgerNow, NEW o, IsOperator(o), Save(o) \/ Restore(o) \/ SetDeviceColor(o)
    PROVE  LedgerOK(epochs', decisions', word')
<1>1. epochs \in Seq(EpochType) /\ Now \in Nat
  BY LedgerFacts
<1>2. ASSUME NEW condition, NEW branch, NEW other
      PROVE  /\ Kept(epochs, Copied(RefusedIf(condition, epochs, Now)))
             /\ Kept(epochs, Dropped(Dropped(RefusedIf(condition, epochs, Now), branch), other))
             /\ Kept(epochs, RefusedIf(condition, Dropped(RefusedIf(condition, epochs, Now), branch), Now))
  <2> DEFINE F == RefusedIf(condition, epochs, Now)
             G == Dropped(F, branch)
             H == Dropped(G, other)
             K == RefusedIf(condition, G, Now)
  <2>1. Kept(epochs, F)
    BY <1>1, MovesKeep
  <2> HIDE DEF F
  <2>2. F \in Seq(EpochType)
    BY <2>1 DEF Kept, Follows
  <2>3. Kept(F, Copied(F)) /\ Kept(F, G)
    BY <2>2, MovesKeep
  <2>4. Kept(epochs, Copied(F))
    BY <1>1, <2>1, <2>3, KeptTransitive
  <2> HIDE DEF G
  <2>5. Kept(epochs, G) /\ G \in Seq(EpochType)
    <3>1. G \in Seq(EpochType)
      BY <2>3 DEF Kept, Follows
    <3> QED
      BY <1>1, <2>1, <2>3, <3>1, KeptTransitive
  <2>6. Kept(G, H) /\ Kept(G, K)
    BY <1>1, <2>5, MovesKeep
  <2> HIDE DEF H, K
  <2>7. Kept(epochs, H) /\ Kept(epochs, K)
    BY <1>1, <2>5, <2>6, KeptTransitive
  <2> QED
    BY <2>4, <2>7 DEF F, G, H, K
<1>3. CASE Save(o)
  <2>1. /\ o.kind = "q" /\ Observe(o) /\ decisions' = decisions
        /\ epochs' = Copied(RefusedIf(inText \/ inPath, epochs, Now))
    BY <1>3 DEF Save
  <2>2. o.kind \notin ColourKinds
    BY <2>1 DEF ColourKinds
  <2>3. Kept(epochs, epochs')
    BY <1>2, <2>1
  <2> QED
    BY <2>1, <2>2, <2>3, LedgerPlain
<1>4. CASE Restore(o)
  <2>1. /\ o.kind = "Q" /\ Observe(o) /\ decisions' = decisions
        /\ epochs' = Dropped(Dropped(RefusedIf(inText \/ inPath, epochs, Now), lanes["stroke"]),
                             lanes["fill"])
    BY <1>4 DEF Restore
  <2>2. o.kind \notin ColourKinds
    BY <2>1 DEF ColourKinds
  <2>3. Kept(epochs, epochs')
    BY <1>2, <2>1
  <2> QED
    BY <2>1, <2>2, <2>3, LedgerPlain
<1>5. CASE SetDeviceColor(o)
  <2>1. /\ o.kind = "device" /\ Observe(o) /\ decisions' = decisions
        /\ epochs' = RefusedIf(inPath, Dropped(RefusedIf(inPath, epochs, Now), lanes[o.lane]), Now)
    BY <1>5 DEF SetDeviceColor
  <2>2. o.kind \notin ColourKinds
    BY <2>1 DEF ColourKinds
  <2>3. Kept(epochs, epochs')
    BY <1>2, <2>1
  <2> QED
    BY <2>1, <2>2, <2>3, LedgerPlain
<1> QED
  BY <1>3, <1>4, <1>5

(* After a decision the plan may still refuse what stands in a path.       *)
LEMMA LedgerRefusing ==
    ASSUME NEW E \in Seq(EpochType), NEW D, NEW w, LedgerOK(E, D, w), Now \in Nat, NEW condition
    PROVE  LedgerOK(RefusedIf(condition, E, Now), D, w)
BY LedgerKept, MovesKeep

(* A colour operator that is decided to be no candidate, after epochs have *)
(* been refused and counted.                                               *)
LEMMA LedgerDeclined ==
    ASSUME MirrorInv, LedgerNow, NEW o, IsOperator(o), o.kind \in ColourKinds, Observe(o),
           NEW E, Kept(epochs, E), NEW root \in 0 .. Len(E), NEW condition,
           epochs' = RefusedIf(condition, AfterDecision(E, Now, root, NoFacts), Now),
           decisions' = Decided(Now, root, NoFacts)
    PROVE  LedgerOK(epochs', decisions', word')
<1> DEFINE A == AfterDecision(E, Now, root, NoFacts)
           D == Decided(Now, root, NoFacts)
           w == Append(word, o)
<1>1. /\ epochs \in Seq(EpochType) /\ word \in Seq(OperatorRecords) /\ o \in OperatorRecords
      /\ Now \in Nat
  BY LedgerFacts DEF IsOperator
<1>2. E \in Seq(EpochType)
  BY DEF Kept, Follows
<1>3. LedgerOK(E, decisions, word)
  BY <1>1, LedgerKept DEF LedgerNow
<1>4. LedgerOK(A, D, w)
  BY <1>1, <1>2, <1>3, LedgerMissed
<1>5. Marks(E, A)
  BY <1>1, <1>2, AfterDecisionMarks
<1>6. word' = w /\ epochs' = RefusedIf(condition, A, Now) /\ decisions' = D
  BY DEF Observe
<1> HIDE DEF A, D, w
<1>7. A \in Seq(EpochType)
  BY <1>5 DEF Marks, Kept, Follows
<1>8. LedgerOK(RefusedIf(condition, A, Now), D, w)
  BY <1>1, <1>4, <1>7, LedgerRefusing
<1> QED
  BY <1>6, <1>8

(* A colour operator that becomes a candidate.                             *)
LEMMA LedgerNoted ==
    ASSUME MirrorInv, LedgerNow, NEW o, IsOperator(o), o.kind \in ColourKinds, Observe(o),
           NEW E, Extends(epochs, E), NEW root \in 1 .. Len(E), NEW value \in Nat, NEW explicit,
           NEW condition,
           epochs' = RefusedIf(condition, WithCandidate(E, Now, root, value, explicit), Now),
           decisions' = Decided(Now, root, Facts(E, root, value, explicit))
    PROVE  LedgerOK(epochs', decisions', word')
<1> DEFINE A == WithCandidate(E, Now, root, value, explicit)
           D == Decided(Now, root, Facts(E, root, value, explicit))
           w == Append(word, o)
<1>1. /\ epochs \in Seq(EpochType) /\ word \in Seq(OperatorRecords) /\ o \in OperatorRecords
      /\ Now \in Nat
  BY LedgerFacts DEF IsOperator
<1>2. E \in Seq(EpochType)
  BY DEF Extends, Follows
<1>3. LedgerOK(E, decisions, word)
  BY <1>1, LedgerExtended DEF LedgerNow
<1>4. LedgerOK(A, D, w)
  BY <1>1, <1>2, <1>3, LedgerCandidate
<1>5. Notes(E, A)
  BY <1>1, <1>2, CandidateNotes
<1>6. word' = w /\ epochs' = RefusedIf(condition, A, Now) /\ decisions' = D
  BY DEF Observe
<1> HIDE DEF A, D, w
<1>7. A \in Seq(EpochType)
  BY <1>5 DEF Notes, Follows
<1>8. LedgerOK(RefusedIf(condition, A, Now), D, w)
  BY <1>1, <1>4, <1>7, LedgerRefusing
<1> QED
  BY <1>6, <1>8

(* The ledger speaks of the page, which stays.                             *)
LEMMA LedgerCarried ==
    ASSUME page' = page, LedgerOK(epochs', decisions', word')
    PROVE  LedgerNow'
<1>1. \A n : Cell(n)' = Cell(n)
  BY DEF Cell
<1>2. \A n : (Localized(n)' <=> Localized(n)) /\ Record(n)' = Record(n)
  BY DEF Localized, Record, Cell
<1>3. Repeated' = Repeated
  BY DEF Repeated, Cell
<1>4. \A n : InDoubt(n)' <=> InDoubt(n)
  BY <1>1, <1>2, <1>3 DEF InDoubt
<1>5. CandidatesOK(epochs, word)'
  BY <1>2 DEF CandidatesOK, LedgerOK, Candidates, ColourKinds
<1>6. RootsOK(epochs, decisions)'
  BY DEF RootsOK, LedgerOK
<1>7. BackedOK(epochs, decisions)'
  BY <1>2, <1>4 DEF BackedOK, LedgerOK, Candidates, Matches
<1>8. AnsweredOK(epochs, decisions, word)'
  BY <1>2, <1>4 DEF AnsweredOK, Answered, LedgerOK, Candidates, Matches, ColourKinds
<1> QED
  BY <1>5, <1>6, <1>7, <1>8 DEF LedgerNow, LedgerOK

(* F is E where no epoch has been refused or forgotten to be read.         *)
Quiet(E, F) ==
  /\ Kept(E, F)
  /\ \A i \in 1 .. Len(E) : /\ F[i].refusal = E[i].refusal
                            /\ E[i].consumed => F[i].consumed

(* So it is where nothing happens,                                         *)
LEMMA QuietReflexive ==
    ASSUME NEW E \in Seq(EpochType)
    PROVE  Quiet(E, E)
BY MarksReflexive DEF Quiet, Marks

(* and where that is so twice.                                             *)
LEMMA QuietTransitive ==
    ASSUME NEW E \in Seq(EpochType), NEW F, NEW G, Quiet(E, F), Quiet(F, G)
    PROVE  Quiet(E, G)
<1>1. Kept(E, G)
  BY KeptTransitive DEF Quiet
<1>2. Len(F) = Len(E)
  BY DEF Quiet, Kept
<1> QED
  BY <1>1, <1>2 DEF Quiet

(* Counts are all that q and Q and the end of a branch change.             *)
LEMMA MovesQuiet ==
    ASSUME NEW E \in Seq(EpochType)
    PROVE  Quiet(E, Copied(E)) /\ \A branch : Quiet(E, Dropped(E, branch))
<1>1. /\ DOMAIN E = 1 .. Len(E) /\ \A i \in 1 .. Len(E) : E[i] \in EpochType
  BY LenProperties, ElementOfSeq
<1>2. \A e \in EpochType : \A n : /\ [e EXCEPT !.live = n].refusal = e.refusal
                                  /\ [e EXCEPT !.live = n].consumed = e.consumed
  BY DEF EpochType
<1>3. Quiet(E, Copied(E))
  <2>1. ASSUME NEW i \in 1 .. Len(E)
        PROVE  /\ Copied(E)[i].refusal = E[i].refusal
               /\ Copied(E)[i].consumed = E[i].consumed
    <3> DEFINE n == E[i].live + Cardinality({lane \in Lanes : lanes[lane].root = i})
    <3>1. Copied(E)[i] = [E[i] EXCEPT !.live = n]
      BY <1>1 DEF Copied
    <3> HIDE DEF n
    <3> QED
      BY <1>1, <1>2, <3>1
  <2> QED
    BY <2>1, MovesKeep DEF Quiet
<1>4. ASSUME NEW branch PROVE Quiet(E, Dropped(E, branch))
  <2>1. ASSUME NEW i \in 1 .. Len(E)
        PROVE  /\ Dropped(E, branch)[i].refusal = E[i].refusal
               /\ Dropped(E, branch)[i].consumed = E[i].consumed
    <3> DEFINE n == E[i].live - 1
    <3>1. \/ Dropped(E, branch)[i] = E[i]
          \/ Dropped(E, branch)[i] = [E[i] EXCEPT !.live = n]
      BY <1>1 DEF Dropped
    <3> HIDE DEF n
    <3>2. /\ [E[i] EXCEPT !.live = n].refusal = E[i].refusal
          /\ [E[i] EXCEPT !.live = n].consumed = E[i].consumed
      BY <1>1, <1>2
    <3> QED
      BY <3>1, <3>2
  <2> QED
    BY <2>1, MovesKeep DEF Quiet
<1> QED
  BY <1>3, <1>4

(* A refusal falls on the roots it names and on nothing else.              *)
LEMMA RefusesOnly ==
    ASSUME NEW E \in Seq(EpochType), NEW roots, NEW at \in Nat, NEW why, NEW i \in 1 .. Len(E)
    PROVE  LET F == RefusedAmong(E, roots, at, why)
           IN  /\ F[i].consumed = E[i].consumed
               /\ F[i].refusal # NoRefusal => E[i].refusal # NoRefusal \/ i \in roots
<1> DEFINE F == RefusedAmong(E, roots, at, why)
           new == [at |-> at, why |-> why]
<1>1. E[i] \in EpochType /\ i \in DOMAIN E
  BY LenProperties, ElementOfSeq
<1>2. [E[i] EXCEPT !.refusal = new].consumed = E[i].consumed
  BY <1>1 DEF EpochType
<1>3. F[i] = IF i \in roots /\ E[i].refusal = NoRefusal
             THEN [E[i] EXCEPT !.refusal = new] ELSE E[i]
  BY <1>1 DEF RefusedAmong
<1> HIDE DEF F, new
<1> QED
  BY <1>2, <1>3 DEF F

(* An eligible selection makes a candidate of an epoch that has none yet.  *)
(* Outside a path it refuses that epoch alone, and only for its route.     *)
Opens(o, R, root) ==
  /\ Extends(epochs, R) /\ root \in 1 .. Len(R) /\ R[root].alias = o.name /\ R[root].lane = o.lane
  /\ epochs' = RefusedIf(inPath, WithCandidate(R, Now, root, 0, FALSE), Now)
  /\ decisions' = Decided(Now, root, Facts(R, root, 0, FALSE))
  /\ lanes' = [lanes EXCEPT ![o.lane] = [root |-> root, value |-> 0, source |-> Now]]
  /\ Len(R) = Len(epochs) + 1 /\ root = Len(R)
  /\ ~inPath => \A i \in 1 .. Len(epochs) :
                  /\ R[i].refusal # NoRefusal => epochs[i].refusal # NoRefusal
                  /\ epochs[i].consumed => R[i].consumed
  /\ R[root].refusal # NoRefusal =>
       ~Routed(AliasSpace[o.name]) \/ ~RouteIsRaw(AliasSpace[o.name])

(* It opens it.                                                            *)
LEMMA SelectionOpens ==
    ASSUME MirrorInv, NEW o, IsOperator(o), SelectAlias(o)
    PROVE  \E R : \E root : Opens(o, R, root)
<1> DEFINE D == Dropped(RefusedIf(inPath, epochs, Now), lanes[o.lane])
           space == AliasSpace[o.name]
           root == Len(D) + 1
           e == [alias |-> o.name, lane |-> o.lane, candidates |-> <<>>,
                 consumed |-> FALSE, live |-> 1, refusal |-> NoRefusal]
           G == Append(D, e)
           R == IF ~Routed(space) THEN RefusedAmong(G, {root}, Now, "NoPreparedRoute")
                ELSE IF ~RouteIsRaw(space)
                THEN RefusedAmong(G, {root}, Now, "RouteDefaultUnsafe") ELSE G
<1>1. /\ Observe(o) /\ o.kind = "select" /\ o.name \in Eligible
      /\ epochs' = RefusedIf(inPath, WithCandidate(R, Now, root, 0, FALSE), Now)
      /\ decisions' = Decided(Now, root, Facts(G, root, 0, FALSE))
      /\ lanes' = [lanes EXCEPT ![o.lane] = [root |-> root, value |-> 0, source |-> Now]]
  BY DEF SelectAlias
<1>2. epochs \in Seq(EpochType) /\ Now \in Nat /\ o.lane \in Lanes
  BY <1>1, LedgerFacts DEF IsOperator
<1>3. Kept(epochs, D)
  <2> DEFINE F == RefusedIf(inPath, epochs, Now)
  <2>1. Kept(epochs, F)
    BY <1>2, MovesKeep
  <2> HIDE DEF F
  <2>2. F \in Seq(EpochType)
    BY <2>1 DEF Kept, Follows
  <2>3. Kept(F, Dropped(F, lanes[o.lane]))
    BY <2>2, MovesKeep
  <2>4. Kept(epochs, Dropped(F, lanes[o.lane]))
    BY <1>2, <2>1, <2>3, KeptTransitive
  <2> QED
    BY <2>4 DEF F
<1>14. ~inPath => Quiet(epochs, D)
  <2>1. ~inPath => D = Dropped(epochs, lanes[o.lane])
    BY DEF RefusedIf
  <2> HIDE DEF D
  <2> QED
    BY <1>2, <2>1, MovesQuiet
<1> HIDE DEF D
<1>4. D \in Seq(EpochType) /\ Len(D) \in Nat /\ Len(D) = Len(epochs)
  BY <1>3, LenProperties DEF Kept, Follows
<1>5. /\ e \in EpochType /\ e.candidates = <<>> /\ e.alias = o.name /\ e.lane = o.lane
      /\ e.refusal = NoRefusal
  <2>1. NoRefusal \in Refusals
    BY DEF NoRefusal, Refusals
  <2>2. <<>> \in Seq([at : Nat, value : Nat])
    BY EmptySeq
  <2> QED
    BY <1>1, <1>2, <2>1, <2>2 DEF EpochType
<1> HIDE DEF e
<1>6. /\ G \in Seq(EpochType) /\ Len(G) = Len(D) + 1 /\ G[Len(D) + 1] = e
      /\ \A i \in 1 .. Len(D) : G[i] = D[i]
  BY <1>4, <1>5, AppendProperties
<1> HIDE DEF G
<1>7. Marks(G, R)
  <2>1. "NoPreparedRoute" \in Reasons /\ "RouteDefaultUnsafe" \in Reasons
    BY DEF Reasons
  <2> HIDE DEF root, space
  <2> QED
    BY <1>2, <1>6, <2>1, RefusingMarks, MarksReflexive
<1>15. ASSUME NEW i \in 1 .. Len(G)
       PROVE  /\ R[i].consumed = G[i].consumed
              /\ R[i].refusal # NoRefusal =>
                   G[i].refusal # NoRefusal \/ (i = root /\ (~Routed(space) \/ ~RouteIsRaw(space)))
  <2> HIDE DEF root, space
  <2> QED
    BY <1>2, <1>6, RefusesOnly
<1> HIDE DEF R
<1>8. /\ Follows(G, R) /\ Len(R) = Len(G)
      /\ \A i \in 1 .. Len(G) : R[i].lane = G[i].lane /\ R[i].candidates = G[i].candidates
  BY <1>7 DEF Marks, Kept
<1>9. root \in 1 .. Len(R) /\ root \in 1 .. Len(G) /\ Len(R) = Len(epochs) + 1 /\ root = Len(epochs) + 1
  BY <1>4, <1>6, <1>8
<1>10. Extends(epochs, R)
  <2>1. Follows(epochs, R)
    <3>1. Follows(epochs, D)
      BY <1>3 DEF Kept
    <3>2. Follows(D, G)
      BY <1>4, <1>6 DEF Follows
    <3>3. Follows(epochs, G)
      BY <1>2, <3>1, <3>2, FollowsTransitive
    <3> QED
      BY <1>2, <1>8, <3>3, FollowsTransitive
  <2>2. ASSUME NEW i \in 1 .. Len(epochs)
        PROVE  R[i].lane = epochs[i].lane /\ Candidates(R[i]) = Candidates(epochs[i])
    <3>1. i \in 1 .. Len(D) /\ i \in 1 .. Len(G)
      BY <1>4, <1>6
    <3>2. D[i].lane = epochs[i].lane /\ D[i].candidates = epochs[i].candidates
      BY <1>3 DEF Kept
    <3> QED
      BY <1>6, <1>8, <3>1, <3>2 DEF Candidates
  <2>3. ASSUME NEW i \in 1 .. Len(R), ~(i \in 1 .. Len(epochs))
        PROVE  Candidates(R[i]) = {}
    <3>1. i = Len(D) + 1 /\ i \in 1 .. Len(G)
      BY <1>4, <1>6, <1>8, <2>3
    <3>2. R[i].candidates = <<>>
      BY <1>5, <1>6, <1>8, <3>1
    <3>3. DOMAIN <<>> = {}
      OBVIOUS
    <3> QED
      BY <3>2, <3>3 DEF Candidates
  <2> QED
    BY <2>1, <2>2, <2>3 DEF Extends
<1>11. /\ R[root].alias = G[root].alias /\ R[root].lane = G[root].lane
       /\ R[root].alias = o.name /\ R[root].lane = o.lane
  <2>1. G[root] = e
    BY <1>6
  <2> HIDE DEF root
  <2> QED
    BY <1>5, <1>8, <1>9, <2>1 DEF Follows
<1>12. Facts(G, root, 0, FALSE) = Facts(R, root, 0, FALSE)
  BY <1>11 DEF Facts
<1>16. ASSUME ~inPath, NEW i \in 1 .. Len(epochs)
       PROVE  /\ R[i].refusal # NoRefusal => epochs[i].refusal # NoRefusal
              /\ epochs[i].consumed => R[i].consumed
  <2>1. i \in 1 .. Len(D) /\ i \in 1 .. Len(G) /\ i # root
    BY <1>4, <1>6
  <2>2. D[i].refusal = epochs[i].refusal /\ (epochs[i].consumed => D[i].consumed)
    BY <1>14, <1>16 DEF Quiet
  <2> HIDE DEF root
  <2> QED
    BY <1>6, <1>15, <2>1, <2>2
<1>17. R[root].refusal # NoRefusal => ~Routed(space) \/ ~RouteIsRaw(space)
  <2>1. G[root] = e /\ e.refusal = NoRefusal
    BY <1>5, <1>6
  <2> HIDE DEF root, space
  <2> QED
    BY <1>9, <1>15, <2>1
<1> HIDE DEF root
<1>13. Opens(o, R, root)
  BY <1>1, <1>9, <1>10, <1>11, <1>12, <1>16, <1>17 DEF Opens
<1> QED
  BY <1>13

(* An epoch opens.                                                         *)
LEMMA LedgerSelected ==
    ASSUME MirrorInv, LedgerNow, NEW o, IsOperator(o), SelectAlias(o)
    PROVE  LedgerOK(epochs', decisions', word')
<1>1. Observe(o) /\ o.kind \in ColourKinds
  BY DEF SelectAlias, ColourKinds
<1>2. PICK R : \E root : Opens(o, R, root)
  BY SelectionOpens
<1>3. PICK root : Opens(o, R, root)
  BY <1>2
<1>4. 0 \in Nat
  OBVIOUS
<1> QED
  BY <1>1, <1>3, <1>4, LedgerNoted DEF Opens

(* The other selections and setters.                                       *)
LEMMA LedgerColoured ==
    ASSUME MirrorInv, LedgerNow, NEW o, IsOperator(o),
           SelectOther(o) \/ SetOutsideEpoch(o) \/ RefuseSetter(o)
    PROVE  LedgerOK(epochs', decisions', word')
<1>1. epochs \in Seq(EpochType) /\ Now \in Nat /\ Len(epochs) \in Nat
  BY LedgerFacts, LenProperties
<1>2. \A condition : Kept(epochs, RefusedIf(condition, epochs, Now))
  BY <1>1, MovesKeep
<1>3. CASE SelectOther(o)
  <2> DEFINE F == RefusedIf(inPath, epochs, Now)
             D == Dropped(F, lanes[o.lane])
  <2>1. /\ Observe(o) /\ o.kind = "select" /\ decisions' = Decided(Now, 0, NoFacts)
        /\ epochs' = RefusedIf(inPath, AfterDecision(D, Now, 0, NoFacts), Now)
    BY <1>3 DEF SelectOther
  <2>2. Kept(epochs, F)
    BY <1>2
  <2> HIDE DEF F
  <2>3. F \in Seq(EpochType)
    BY <2>2 DEF Kept, Follows
  <2>4. Kept(F, D)
    BY <2>3, MovesKeep
  <2> HIDE DEF D
  <2>5. Kept(epochs, D)
    BY <1>1, <2>2, <2>4, KeptTransitive
  <2>6. 0 \in 0 .. Len(D) /\ o.kind \in ColourKinds
    BY <1>1, <2>1, <2>5 DEF Kept, ColourKinds
  <2> QED
    BY <2>1, <2>5, <2>6, LedgerDeclined
<1>4. CASE SetOutsideEpoch(o)
  <2>1. /\ Observe(o) /\ o.kind = "set" /\ decisions' = Decided(Now, 0, NoFacts)
        /\ epochs' = RefusedIf(inPath, AfterDecision(epochs, Now, 0, NoFacts), Now)
    BY <1>4 DEF SetOutsideEpoch
  <2>2. Kept(epochs, epochs) /\ 0 \in 0 .. Len(epochs) /\ o.kind \in ColourKinds
    BY <1>1, <2>1, MarksReflexive DEF Marks, ColourKinds
  <2> QED
    BY <2>1, <2>2, LedgerDeclined
<1>5. CASE RefuseSetter(o)
  <2> DEFINE root == lanes[o.lane].root
             F == RefusedIf(inPath, epochs, Now)
             G == RefusedAmong(F, {root}, Now, Setting(o))
  <2>1. /\ Observe(o) /\ o.kind = "set" /\ root # 0 /\ Setting(o) # "eligible"
        /\ decisions' = Decided(Now, root, NoFacts)
        /\ epochs' = RefusedIf(inPath, AfterDecision(G, Now, root, NoFacts), Now)
    BY <1>5 DEF RefuseSetter
  <2>2. root \in 1 .. Len(epochs)
    BY <2>1, SetterFacts DEF SameColor
  <2>3. Setting(o) \in Reasons
    BY <2>1 DEF Setting, Reasons
  <2>4. Kept(epochs, F)
    BY <1>2
  <2> HIDE DEF F
  <2>5. F \in Seq(EpochType)
    BY <2>4 DEF Kept, Follows
  <2> HIDE DEF root
  <2>6. Kept(F, G)
    BY <1>1, <2>3, <2>5, RefusingMarks DEF Marks
  <2> HIDE DEF G
  <2>7. Kept(epochs, G)
    BY <1>1, <2>4, <2>6, KeptTransitive
  <2>8. root \in 0 .. Len(G) /\ o.kind \in ColourKinds
    BY <1>1, <2>1, <2>2, <2>7 DEF Kept, ColourKinds
  <2> QED
    BY <2>1, <2>7, <2>8, LedgerDeclined
<1> QED
  BY <1>3, <1>4, <1>5

(* A setter of the epoch its lane carries.                                 *)
LEMMA LedgerSet ==
    ASSUME MirrorInv, LedgerNow, NEW o, IsOperator(o), SetInEpoch(o)
    PROVE  LedgerOK(epochs', decisions', word')
<1> DEFINE root == lanes[o.lane].root
           before == RefusedIf(inPath, epochs, Now)
           agrees == /\ walk.gs[o.lane].name = epochs[root].alias
                     /\ walk.gs[o.lane].space = AliasSpace[epochs[root].alias]
           refused == RefusedAmong(before, {root}, Now, "StateMismatch")
<1>1. /\ Observe(o) /\ o.kind = "set" /\ root # 0 /\ Setting(o) = "eligible"
      /\ agrees => /\ epochs' = RefusedIf(inPath, WithCandidate(before, Now, root, o.value, TRUE), Now)
                   /\ decisions' = Decided(Now, root, Facts(epochs, root, o.value, TRUE))
      /\ ~agrees => /\ epochs' = AfterDecision(refused, Now, root, NoFacts)
                    /\ decisions' = Decided(Now, root, NoFacts)
  BY DEF SetInEpoch
<1>2. /\ Now \in Nat /\ o.value \in Nat /\ SameColor(epochs, lanes[o.lane], walk.gs[o.lane])
      /\ epochs \in Seq(EpochType) /\ o.kind \in ColourKinds
  BY <1>1, SetterFacts DEF ColourKinds
<1>3. root \in 1 .. Len(epochs) /\ Len(epochs) \in Nat
  BY <1>1, <1>2, LenProperties DEF SameColor
<1>4. Kept(epochs, before)
  BY <1>2, MovesKeep
<1> HIDE DEF before
<1>5. /\ before \in Seq(EpochType) /\ root \in 1 .. Len(before) /\ root \in 0 .. Len(before)
      /\ before[root].alias = epochs[root].alias /\ before[root].lane = epochs[root].lane
      /\ epochs[root].refusal # NoRefusal => before[root].refusal # NoRefusal
  <2> HIDE DEF root
  <2> QED
    BY <1>3, <1>4 DEF Kept, Follows
<1>6. CASE agrees
  <2>1. Facts(epochs, root, o.value, TRUE) = Facts(before, root, o.value, TRUE)
    BY <1>5 DEF Facts
  <2>2. Extends(epochs, before)
    BY <1>4, KeptExtends
  <2>3. /\ epochs' = RefusedIf(inPath, WithCandidate(before, Now, root, o.value, TRUE), Now)
        /\ decisions' = Decided(Now, root, Facts(before, root, o.value, TRUE))
    BY <1>1, <1>6, <2>1
  <2> HIDE DEF root
  <2> QED
    BY <1>1, <1>2, <1>5, <2>2, <2>3, LedgerNoted
<1>7. CASE ~agrees
  <2>1. before[root].refusal # NoRefusal
    BY <1>1, <1>2, <1>5, <1>7 DEF SameColor
  <2>2. refused = before
    <3> HIDE DEF root
    <3> QED
      BY <1>5, <2>1, FirstRefusalStays
  <2>3. /\ epochs' = RefusedIf(FALSE, AfterDecision(before, Now, root, NoFacts), Now)
        /\ decisions' = Decided(Now, root, NoFacts)
    BY <1>1, <1>7, <2>2 DEF RefusedIf
  <2> HIDE DEF root
  <2> QED
    BY <1>1, <1>2, <1>4, <1>5, <2>3, LedgerDeclined
<1> QED
  BY <1>6, <1>7

(* So the ledger holds after every operator.                               *)
LEMMA LedgerStep ==
    ASSUME MirrorInv, LedgerNow, NEW o, IsOperator(o), ObserveOperator(o), ~AbandonPage(o)
    PROVE  LedgerOK(epochs', decisions', word')
<1>1. ASSUME Marks(epochs, epochs'), Observe(o), PlainKinds(o), decisions' = decisions
      PROVE  LedgerOK(epochs', decisions', word')
  BY <1>1, LedgerPlain DEF Marks, PlainKinds, ColourKinds
<1>2. CASE PaintPath(o) \/ ShowText(o) \/ InvokeXObject(o)
  <2>1. decisions' = decisions
    BY <1>2 DEF PaintPath, ShowText, InvokeXObject, KeepBranches
  <2> QED
    BY <1>1, <1>2, <2>1, ConsumerStep
<1>3. CASE \/ ObserveNeutral(o) \/ BeginPath(o) \/ ContinuePath(o) \/ BeginText(o)
           \/ EndText(o) \/ BeginMarked(o) \/ EndMarked(o) \/ Opaque(o)
  <2>1. decisions' = decisions
    BY <1>3 DEF ObserveNeutral, BeginPath, ContinuePath, BeginText, EndText, BeginMarked,
       EndMarked, Opaque, KeepBranches
  <2> QED
    BY <1>1, <1>3, <2>1, PlacementStep
<1>4. CASE SelectAlias(o)
  BY <1>4, LedgerSelected
<1>5. CASE SelectOther(o) \/ SetOutsideEpoch(o) \/ RefuseSetter(o)
  BY <1>5, LedgerColoured
<1>6. CASE SetInEpoch(o)
  BY <1>6, LedgerSet
<1>7. CASE Save(o) \/ Restore(o) \/ SetDeviceColor(o)
  BY <1>7, LedgerMoved
<1> QED
  BY <1>2, <1>3, <1>4, <1>5, <1>6, <1>7 DEF ObserveOperator

-----------------------------------------------------------------------------
(* What the other operators bring: the direct conversions of a page, and   *)
(* that a record met again is the same operator.                           *)
Convertible(o, n) ==
  /\ o.kind = "device" /\ InPlaceObject(n) /\ Localized(n)
  /\ o.value # BadValue /\ o.value \notin page.excluded \union page.failing
  /\ Routed(o.name) /\ RouteIsRaw(o.name)
DirectOK(w, d) == d = {n \in 1 .. Len(w) : Convertible(w[n], n)}
WordsAgree(w) ==
  \A m, n \in 1 .. Len(w) : Localized(m) /\ Record(m) = Record(n) => w[m] = w[n]

(* The walk goes on with operators like those of the same record before.   *)
LEMMA WordsStayAlike ==
    ASSUME word \in Seq(OperatorRecords), WordsAgree(word), NEW o \in NextOperators,
           o \in OperatorRecords
    PROVE  WordsAgree(Append(word, o))
<1> DEFINE w == Append(word, o)
           at == Len(word) + 1
           before == {n \in 1 .. Len(word) : Localized(at) /\ Record(n) = Record(at)}
<1>1. /\ Len(word) \in Nat /\ Len(w) = at /\ w[at] = o
      /\ \A n \in 1 .. Len(word) : w[n] = word[n]
  BY LenProperties, AppendProperties
<1>2. before # {} => o \in {word[n] : n \in before}
  BY DEF NextOperators
<1> HIDE DEF w
<1>3. \A n \in 1 .. Len(w) : n \in 1 .. Len(word) \/ n = at
  BY <1>1
<1> HIDE DEF at
<1>4. \A m, n : Record(m) = Record(n) => (Localized(m) <=> Localized(n))
  BY DEF Record, Localized
<1>5. ASSUME NEW n \in 1 .. Len(word), Localized(n), Record(n) = Record(at)
      PROVE  word[n] = o
  <2>1. n \in before
    BY <1>4, <1>5
  <2>2. PICK k \in before : o = word[k]
    BY <1>2, <2>1
  <2>3. k \in 1 .. Len(word) /\ Record(n) = Record(k)
    BY <1>5, <2>2
  <2> QED
    BY <1>5, <2>2, <2>3 DEF WordsAgree
<1>6. ASSUME NEW m \in 1 .. Len(w), NEW n \in 1 .. Len(w), Localized(m), Record(m) = Record(n)
      PROVE  w[m] = w[n]
  <2>1. Localized(n)
    BY <1>4, <1>6
  <2>2. CASE m \in 1 .. Len(word) /\ n \in 1 .. Len(word)
    BY <1>1, <1>6, <2>2 DEF WordsAgree
  <2>3. CASE m = at /\ n = at
    BY <2>3
  <2>4. CASE m \in 1 .. Len(word) /\ n = at
    BY <1>1, <1>5, <1>6, <2>4
  <2>5. CASE m = at /\ n \in 1 .. Len(word)
    BY <1>1, <1>5, <1>6, <2>1, <2>5
  <2> QED
    BY <1>3, <2>2, <2>3, <2>4, <2>5
<1> QED
  BY <1>6 DEF WordsAgree, w

(* The direct conversions are those of the operators walked.               *)
LEMMA DirectStays ==
    ASSUME word \in Seq(OperatorRecords), DirectOK(word, direct), NEW o, o \in OperatorRecords,
           ObserveOperator(o), ~AbandonPage(o)
    PROVE  DirectOK(word', direct')
<1> DEFINE w == Append(word, o)
<1>1. /\ Len(word) \in Nat /\ Len(w) = Now /\ w[Now] = o /\ Now \in 1 .. Len(w)
      /\ ~(Now \in 1 .. Len(word)) /\ \A n \in 1 .. Len(word) : w[n] = word[n]
  BY LenProperties, AppendProperties DEF Now
<1>2. \A n : n \in 1 .. Len(w) <=> n \in 1 .. Len(word) \/ n = Now
  BY <1>1 DEF Now
<1>3. word' = w
  BY DEF ObserveOperator, Save, Restore, SelectAlias, SelectOther, SetOutsideEpoch,
     SetInEpoch, RefuseSetter, SetDeviceColor, PaintPath, ShowText, InvokeXObject,
     ObserveNeutral, BeginPath, ContinuePath, BeginText, EndText, BeginMarked, EndMarked,
     Opaque, Observe
<1> HIDE DEF w
<1>4. direct' = direct \union {n \in {Now} : Convertible(o, n)}
  <2>1. CASE SetDeviceColor(o)
    BY <2>1 DEF SetDeviceColor, Convertible
  <2>2. CASE ~SetDeviceColor(o)
    <3>1. o.kind # "device" /\ direct' = direct
      BY <2>2 DEF ObserveOperator, Save, Restore, SelectAlias, SelectOther, SetOutsideEpoch,
         SetInEpoch, RefuseSetter, PaintPath, ShowText, InvokeXObject,
         ObserveNeutral, BeginPath, ContinuePath, BeginText, EndText, BeginMarked, EndMarked,
         Opaque, KeepConversion
    <3> QED
      BY <3>1 DEF Convertible
  <2> QED
    BY <2>1, <2>2
<1>5. direct = {n \in 1 .. Len(word) : Convertible(word[n], n)}
  BY DEF DirectOK
<1>6. direct' = {n \in 1 .. Len(w) : Convertible(w[n], n)}
  BY <1>1, <1>2, <1>4, <1>5
<1> QED
  BY <1>3, <1>6 DEF DirectOK

(* The cells of the page.                                                  *)
LEMMA PageCells ==
    ASSUME page \in Pages
    PROVE  /\ Len(page.cells) \in Nat /\ DOMAIN page.cells = 1 .. Len(page.cells)
           /\ IsFiniteSet(DOMAIN page.cells)
<1> DEFINE CellSet == [object : STRING, occurrence : Nat, place : Nat,
                       operators : SUBSET OperatorRecords]
<1>1. page.cells \in Seq(CellSet)
  BY PageAssumption
<1> HIDE DEF CellSet
<1>2. Len(page.cells) \in Nat /\ DOMAIN page.cells = 1 .. Len(page.cells)
  BY <1>1, LenProperties
<1>3. IsFiniteSet(1 .. Len(page.cells))
  BY <1>2, FS_Interval
<1> QED
  BY <1>2, <1>3

(* An object whose record is met twice is a repeated one: two cells of one *)
(* occurrence are never the same record.                                   *)
LEMMA MetTwice ==
    ASSUME page \in Pages, NEW m \in DOMAIN page.cells, NEW k \in DOMAIN page.cells,
           Localized(m), Record(m) = Record(k), m # k
    PROVE  InDoubt(m) /\ InDoubt(k)
<1> DEFINE C == {c \in DOMAIN page.cells : Cell(c).object = Cell(m).object}
           T == {Cell(c).occurrence : c \in C}
           f == [c \in C |-> Cell(c).occurrence]
           x == Cell(m).occurrence
           y == Cell(k).occurrence
<1>1. Cell(k).object = Cell(m).object /\ Cell(k).place = Cell(m).place /\ Localized(k)
  BY DEF Record, Localized
<1>2. x # y
  BY <1>1, OccurrenceAssumption DEF Localized, Cell
<1>3. x \in T /\ y \in T
  BY <1>1
<1>4. IsFiniteSet(C)
  BY PageCells, FS_Subset
<1>5. f \in Surjection(C, T)
  <2>1. f \in [C -> T]
    OBVIOUS
  <2>2. \A t \in T : \E c \in C : f[c] = t
    OBVIOUS
  <2> HIDE DEF f, C, T
  <2> QED
    BY <2>1, <2>2 DEF Surjection
<1>6. Repeated = {o \in {Cell(at).object : at \in DOMAIN page.cells} :
                    Cardinality({Cell(at).occurrence : at \in {c \in DOMAIN page.cells :
                                                                 Cell(c).object = o}}) > 1}
  BY DEF Repeated
<1>7. Cardinality(T) > 1 => Cell(m).object \in Repeated
  BY <1>6
<1> HIDE DEF f, C, T, x, y
<1>8. IsFiniteSet(T)
  BY <1>4, <1>5, FS_Surjection
<1>9. IsFiniteSet({x}) /\ Cardinality({x}) = 1
  BY FS_Singleton
<1>10. Cardinality({x} \cup {y}) = Cardinality({x}) + 1
  BY <1>2, <1>9, FS_AddElement
<1>11. Cardinality({x} \cup {y}) <= Cardinality(T)
  BY <1>3, <1>8, FS_Subset
<1>12. Cardinality(T) \in Nat
  BY <1>8, FS_CardinalityType
<1>13. Cardinality(T) > 1
  BY <1>9, <1>10, <1>11, <1>12
<1> QED
  BY <1>1, <1>7, <1>13 DEF InDoubt

(* The page is closed with the epochs E: what is rewritten comes from a    *)
(* candidate of an epoch that runs, or is converted where it stands.       *)
ClosingOK(E) ==
  /\ page \in Pages /\ word \in Seq(OperatorRecords) /\ Len(word) = Len(page.cells)
  /\ E \in Seq(EpochType) /\ LedgerOK(E, decisions, word)
  /\ WordsAgree(word) /\ DirectOK(word, direct)
PageRewrites(E) == AliasRewrites(E) \union DirectRewrites

FromAlias(E, r, i, c) ==
  /\ i \in 1 .. Len(E) /\ ~(i \in Stopped(E)) /\ c \in Candidates(E[i])
  /\ r = [at |-> c.at, by |-> Converted(E[i].lane, AliasSpace[E[i].alias], c.value)]
FromDirect(r, n) ==
  /\ n \in 1 .. Len(word) /\ Convertible(word[n], n)
  /\ r = [at |-> n, by |-> Converted(word[n].lane, word[n].name, word[n].value)]

(* These are all of them.                                                  *)
LEMMA RewritesAre ==
    ASSUME NEW E, ClosingOK(E), NEW r
    PROVE  r \in PageRewrites(E) <=> (\E i, c : FromAlias(E, r, i, c)) \/ \E n : FromDirect(r, n)
<1>1. DOMAIN E = 1 .. Len(E)
  BY LenProperties DEF ClosingOK
<1>2. r \in AliasRewrites(E) <=> \E i \in DOMAIN E \ Stopped(E) : r \in Rewrites(E[i])
  BY DEF AliasRewrites
<1>3. \A i : r \in Rewrites(E[i]) <=>
               \E c \in Candidates(E[i]) :
                 r = [at |-> c.at, by |-> Converted(E[i].lane, AliasSpace[E[i].alias], c.value)]
  BY DEF Rewrites
<1>4. r \in AliasRewrites(E) <=> \E i, c : FromAlias(E, r, i, c)
  BY <1>1, <1>2, <1>3, Zenon DEF FromAlias
<1>5. direct = {n \in 1 .. Len(word) : Convertible(word[n], n)}
  BY DEF ClosingOK, DirectOK
<1>6. r \in DirectRewrites <=> \E n : FromDirect(r, n)
  BY <1>5 DEF DirectRewrites, FromDirect
<1> QED
  BY <1>4, <1>6 DEF PageRewrites

(* A rewrite is of a localized colour operator.                            *)
LEMMA RewritesAreColours ==
    ASSUME NEW E, ClosingOK(E), NEW r \in PageRewrites(E)
    PROVE  /\ r.at \in 1 .. Len(word) /\ r.at \in DOMAIN page.cells /\ Localized(r.at)
           /\ word[r.at].kind \in {"select", "set", "device"}
<1>1. DOMAIN page.cells = 1 .. Len(word)
  BY PageCells DEF ClosingOK
<1>2. (\E i, c : FromAlias(E, r, i, c)) \/ \E n : FromDirect(r, n)
  BY RewritesAre
<1>3. ASSUME NEW i, NEW c, FromAlias(E, r, i, c)
      PROVE  r.at \in 1 .. Len(word) /\ Localized(r.at) /\ word[r.at].kind \in {"select", "set", "device"}
  <2>1. r.at = c.at /\ i \in 1 .. Len(E) /\ c \in Candidates(E[i])
    BY <1>3 DEF FromAlias
  <2>2. CandidatesOK(E, word)
    BY DEF ClosingOK, LedgerOK
  <2>3. c.at \in 1 .. Len(word) /\ Localized(c.at) /\ word[c.at].kind \in ColourKinds
    BY <2>1, <2>2, Zenon DEF CandidatesOK
  <2> QED
    BY <2>1, <2>3 DEF ColourKinds
<1>4. ASSUME NEW n, FromDirect(r, n)
      PROVE  r.at \in 1 .. Len(word) /\ Localized(r.at) /\ word[r.at].kind \in {"select", "set", "device"}
  BY <1>4 DEF FromDirect, Convertible
<1> QED
  BY <1>1, <1>2, <1>3, <1>4

(* No record is given two replacements.                                    *)
LEMMA OneRewriteEach ==
    ASSUME NEW E, ClosingOK(E), NEW r \in PageRewrites(E), NEW s \in PageRewrites(E), r.at = s.at
    PROVE  r = s
<1>1. /\ (\E i, c : FromAlias(E, r, i, c)) \/ \E n : FromDirect(r, n)
      /\ (\E i, c : FromAlias(E, s, i, c)) \/ \E n : FromDirect(s, n)
  BY RewritesAre
<1>2. CandidatesOK(E, word)
  BY DEF ClosingOK, LedgerOK
<1>3. ASSUME NEW i, NEW c, FromAlias(E, r, i, c), NEW j, NEW d, FromAlias(E, s, j, d)
      PROVE  r = s
  <2>1. /\ r.at = c.at /\ i \in 1 .. Len(E) /\ c \in Candidates(E[i])
        /\ s.at = d.at /\ j \in 1 .. Len(E) /\ d \in Candidates(E[j])
    BY <1>3 DEF FromAlias
  <2>2. i = j /\ c = d
    BY <1>2, <2>1, Zenon DEF CandidatesOK
  <2> QED
    BY <1>3, <2>2 DEF FromAlias
<1>4. ASSUME NEW m, FromDirect(r, m), NEW n, FromDirect(s, n)
      PROVE  r = s
  BY <1>4 DEF FromDirect
<1>5. ASSUME NEW x, NEW y, x.at = y.at, NEW i, NEW c, FromAlias(E, x, i, c), NEW n, FromDirect(y, n)
      PROVE  FALSE
  <2>1. x.at = c.at /\ i \in 1 .. Len(E) /\ c \in Candidates(E[i])
    BY <1>5 DEF FromAlias
  <2>2. word[c.at].kind \in ColourKinds
    BY <1>2, <2>1, Zenon DEF CandidatesOK
  <2>3. y.at = n /\ word[n].kind = "device"
    BY <1>5 DEF FromDirect, Convertible
  <2> QED
    BY <1>5, <2>1, <2>2, <2>3 DEF ColourKinds
<1> QED
  BY <1>1, <1>3, <1>4, <1>5

(* A rewrite of one occurrence is a rewrite of all that have the record.   *)
LEMMA RewritesAgree ==
    ASSUME NEW E, ClosingOK(E), NEW r \in PageRewrites(E), NEW k \in 1 .. Len(word),
           Record(k) = Record(r.at)
    PROVE  [at |-> k, by |-> r.by] \in PageRewrites(E)
<1> DEFINE m == r.at
           t == [at |-> k, by |-> r.by]
<1>1. /\ m \in 1 .. Len(word) /\ m \in DOMAIN page.cells /\ Localized(m)
      /\ DOMAIN page.cells = 1 .. Len(word)
  BY RewritesAreColours, PageCells DEF ClosingOK
<1>2. word[k] = word[m] /\ Localized(k)
  <2>1. word[m] = word[k]
    BY <1>1 DEF ClosingOK, WordsAgree
  <2> QED
    BY <1>1, <2>1 DEF Record, Localized
<1>3. (\E i, c : FromAlias(E, r, i, c)) \/ \E n : FromDirect(r, n)
  BY RewritesAre
<1>4. ASSUME NEW n, FromDirect(r, n)
      PROVE  t \in PageRewrites(E)
  <2>1. n = m /\ Convertible(word[m], m) /\ r.by = Converted(word[m].lane, word[m].name, word[m].value)
    BY <1>4 DEF FromDirect
  <2>2. InPlaceObject(k)
    BY <2>1 DEF Convertible, InPlaceObject, Record
  <2>3. FromDirect(t, k)
    BY <1>2, <2>1, <2>2 DEF FromDirect, Convertible
  <2> HIDE DEF t
  <2> QED
    BY <2>3, RewritesAre
<1>5. ASSUME NEW i, NEW c, FromAlias(E, r, i, c)
      PROVE  t \in PageRewrites(E)
  <2> DEFINE key == Record(m)
             facts == decisions[key].facts
  <2>1. /\ c.at = m /\ i \in 1 .. Len(E) /\ ~(i \in Stopped(E)) /\ c \in Candidates(E[i])
        /\ r.by = Converted(E[i].lane, AliasSpace[E[i].alias], c.value)
    BY <1>5 DEF FromAlias
  <2>2. CASE k = m
    <3>1. FromAlias(E, t, i, c)
      BY <2>1, <2>2 DEF FromAlias
    <3> HIDE DEF t
    <3> QED
      BY <3>1, RewritesAre
  <2>3. CASE k # m
    <3>1. /\ E \in Seq(EpochType) /\ CandidatesOK(E, word) /\ RootsOK(E, decisions)
          /\ BackedOK(E, decisions) /\ AnsweredOK(E, decisions, word)
      BY DEF ClosingOK, LedgerOK
    <3>2. Len(E) \in Nat /\ DOMAIN E = 1 .. Len(E) /\ E[i] \in EpochType
      BY <2>1, <3>1, LenProperties, ElementOfSeq
    <3>3. InDoubt(m) /\ InDoubt(k)
      <4>1. page \in Pages
        BY DEF ClosingOK
      <4> HIDE DEF m
      <4> QED
        BY <1>1, <2>3, <4>1, MetTwice DEF m
    <3>4. /\ key \in DOMAIN decisions /\ i \in decisions[key].roots
          /\ decisions[key].poisoned \/ Matches(facts, E[i], c.value)
      BY <2>1, <3>1, <3>3, Zenon DEF BackedOK
    <3>5. Executable(E[i])
      BY <2>1, <3>2, StoppedIsClosed
    <3>6. ~decisions[key].poisoned
      <4>1. E[i].refusal = NoRefusal
        BY <3>5 DEF Executable
      <4> HIDE DEF key
      <4> QED
        BY <3>1, <3>4, <4>1 DEF RootsOK
    <3>7. facts.alias = E[i].alias /\ facts.lane = E[i].lane /\ facts.value = c.value
      BY <3>4, <3>6, Zenon DEF Matches
    <3>8. facts.alias # NoName
      <4>1. E[i].alias \in Eligible
        BY <3>2 DEF EpochType
      <4> HIDE DEF facts
      <4> QED
        BY <3>7, <4>1, PolicyAssumption
    <3>9. word[k].kind \in ColourKinds
      <4>1. word[c.at].kind \in ColourKinds
        BY <2>1, <3>1, Zenon DEF CandidatesOK
      <4> QED
        BY <1>2, <2>1, <4>1
    <3>10. Answered(E, decisions, k)
      BY <3>1, <3>3, <3>9 DEF AnsweredOK
    <3>11. Record(k) = key
      OBVIOUS
    <3> HIDE DEF m
    <3>12. PICK j \in 1 .. Len(E) :
             \E d \in Candidates(E[j]) : d.at = k /\ Matches(facts, E[j], d.value)
      <4> HIDE DEF key
      <4> QED
        BY <3>6, <3>8, <3>10, <3>11, Zenon DEF Answered
    <3>13. PICK d \in Candidates(E[j]) : d.at = k /\ Matches(facts, E[j], d.value)
      BY <3>12
    <3>14. ~(j \in Stopped(E))
      <4> SUFFICES ASSUME j \in Stopped(E) PROVE FALSE
        OBVIOUS
      <4>1. key \in RecordsOf(E[i]) /\ key \in RecordsOf(E[j])
        BY <2>1, <3>11, <3>13 DEF RecordsOf
      <4>2. i \in Sharing(E, Stopped(E))
        BY <2>1, <3>2, <4>1 DEF Sharing
      <4>3. Sharing(E, Stopped(E)) \subseteq Stopped(E)
        BY <3>2, StoppedIsClosed
      <4> QED
        BY <2>1, <4>2, <4>3
    <3>15. E[j].alias = E[i].alias /\ E[j].lane = E[i].lane /\ d.value = c.value
      BY <3>7, <3>13, Zenon DEF Matches
    <3>16. FromAlias(E, t, j, d)
      BY <2>1, <3>13, <3>14, <3>15 DEF FromAlias
    <3> HIDE DEF t
    <3> QED
      BY <3>16, RewritesAre
  <2> QED
    BY <2>2, <2>3
<1> QED
  BY <1>3, <1>4, <1>5

(* Occurrences whose colours are cut alike are given the same splices.     *)
LEMMA OccurrencesReconciled ==
    ASSUME NEW E, ClosingOK(E), ColoursCutAlike
    PROVE  Reconciled(PageRewrites(E))
<1> DEFINE X == PageRewrites(E)
<1>1. page \in Pages /\ DOMAIN page.cells = 1 .. Len(word)
  BY PageCells DEF ClosingOK
<1>2. ASSUME NEW m \in DOMAIN page.cells, NEW n \in DOMAIN page.cells,
             Cell(m).object = Cell(n).object, NEW r \in X, Cell(r.at).occurrence = Cell(m).occurrence
      PROVE  <<Cell(r.at).place, r.by>> \in SplicesOf(X, Cell(n).occurrence)
  <2>1. /\ r.at \in 1 .. Len(word) /\ r.at \in DOMAIN page.cells /\ Localized(r.at)
        /\ word[r.at].kind \in {"select", "set", "device"}
    BY RewritesAreColours
  <2>2. Cell(r.at).object = Cell(n).object
    BY <1>1, <1>2, <2>1, OccurrenceAssumption DEF Cell
  <2>3. PICK k \in DOMAIN page.cells :
          Cell(k).occurrence = Cell(n).occurrence /\ Record(k) = Record(r.at)
    BY <2>1, <2>2 DEF ColoursCutAlike
  <2> DEFINE s == [at |-> k, by |-> r.by]
  <2>4. s \in X
    BY <1>1, <2>3, RewritesAgree
  <2>5. Cell(k).place = Cell(r.at).place
    BY <2>3 DEF Record
  <2>6. s.at = k /\ s.by = r.by
    OBVIOUS
  <2> HIDE DEF X, s
  <2>7. <<Cell(s.at).place, s.by>> \in SplicesOf(X, Cell(n).occurrence)
    BY <2>3, <2>4, <2>6 DEF SplicesOf
  <2> QED
    BY <2>5, <2>6, <2>7
<1> HIDE DEF X
<1>3. ASSUME NEW m \in DOMAIN page.cells, NEW n \in DOMAIN page.cells,
             Cell(m).object = Cell(n).object
      PROVE  SplicesOf(X, Cell(m).occurrence) \subseteq SplicesOf(X, Cell(n).occurrence)
  <2> SUFFICES ASSUME NEW x \in SplicesOf(X, Cell(m).occurrence)
               PROVE  x \in SplicesOf(X, Cell(n).occurrence)
    OBVIOUS
  <2>1. PICK r \in X : /\ Cell(r.at).occurrence = Cell(m).occurrence
                       /\ x = <<Cell(r.at).place, r.by>>
    BY DEF SplicesOf
  <2> QED
    BY <1>2, <1>3, <2>1
<1>4. Reconciled(X)
  BY <1>3 DEF Reconciled
<1> QED
  BY <1>4 DEF X

(* What finishing makes of them: no record gets two replacements.          *)
LEMMA ReplacementsAgree ==
    ASSUME NEW E, ClosingOK(E), NEW rw,
           rw = [n \in {r.at : r \in PageRewrites(E)} |->
                   (CHOOSE r \in PageRewrites(E) : r.at = n).by],
           NEW m \in DOMAIN rw, NEW n \in DOMAIN rw, Record(m) = Record(n)
    PROVE  rw[m] = rw[n]
<1> DEFINE X == PageRewrites(E)
           r == CHOOSE r \in X : r.at = m
           s == CHOOSE s \in X : s.at = n
<1>1. DOMAIN rw = {x.at : x \in X}
  OBVIOUS
<1>2. rw[m] = r.by /\ rw[n] = s.by
  OBVIOUS
<1>3. r \in X /\ r.at = m
  <2>1. \E x \in X : x.at = m
    BY <1>1
  <2> QED
    BY <2>1
<1>4. s \in X /\ s.at = n
  <2>1. \E x \in X : x.at = n
    BY <1>1
  <2> QED
    BY <2>1
<1> HIDE DEF r, s
<1> DEFINE t == [at |-> n, by |-> r.by]
<1>5. n \in 1 .. Len(word)
  BY <1>4, RewritesAreColours
<1>6. t \in X
  BY <1>3, <1>5, RewritesAgree
<1>7. t.at = s.at /\ t.by = r.by
  BY <1>4
<1> HIDE DEF t, X
<1>8. t = s
  BY <1>4, <1>6, <1>7, OneRewriteEach DEF X
<1> QED
  BY <1>2, <1>7, <1>8

(* The ledger, the words and the direct conversions hold while the page is *)
(* walked, and are what its end needs.                                     *)
AgreeInv ==
  /\ MirrorInv
  /\ outcome = "walking" => LedgerNow /\ WordsAgree(word) /\ DirectOK(word, direct)
  /\ OccurrencesAgree

(* They hold at the start.                                                 *)
LEMMA AgreeStarts ==
    ASSUME Init
    PROVE  AgreeInv
<1>1. MirrorInv
  BY MirrorStarts
<1>2. /\ word = <<>> /\ epochs = <<>> /\ direct = {} /\ DOMAIN decisions = {}
      /\ outcome = "walking"
  BY DEF Init
<1>3. Len(word) = 0 /\ Len(epochs) = 0 /\ 1 .. 0 = {}
  BY <1>2
<1>4. LedgerNow
  BY <1>2, <1>3 DEF LedgerNow, LedgerOK, CandidatesOK, RootsOK, BackedOK, AnsweredOK
<1>5. WordsAgree(word) /\ DirectOK(word, direct)
  BY <1>2, <1>3 DEF WordsAgree, DirectOK
<1>6. OccurrencesAgree
  BY <1>2 DEF OccurrencesAgree
<1> QED
  BY <1>1, <1>4, <1>5, <1>6 DEF AgreeInv

(* They speak of the page, which stays.                                    *)
LEMMA WordsCarried ==
    ASSUME page' = page, WordsAgree(word'), DirectOK(word', direct')
    PROVE  (WordsAgree(word) /\ DirectOK(word, direct))'
<1>1. \A n : /\ Localized(n)' <=> Localized(n)
             /\ Record(n)' = Record(n)
             /\ InPlaceObject(n)' <=> InPlaceObject(n)
  BY DEF Localized, Record, InPlaceObject, Cell
<1>2. \A space : (Routed(space)' <=> Routed(space)) /\ (RouteIsRaw(space)' <=> RouteIsRaw(space))
  BY DEF Routed, RouteIsRaw
<1>3. WordsAgree(word)'
  BY <1>1 DEF WordsAgree
<1>4. \A o, n : Convertible(o, n)' <=> Convertible(o, n)
  BY <1>1, <1>2 DEF Convertible
<1>5. DirectOK(word, direct)'
  BY <1>4 DEF DirectOK
<1> QED
  BY <1>3, <1>5

(* So does what the end of the page says, once it has ended.               *)
LEMMA OccurrencesCarried ==
    ASSUME page' = page, word' = word, rewritten' = rewritten, outcome' = outcome, OccurrencesAgree
    PROVE  OccurrencesAgree'
<1>1. \A n : (Localized(n)' <=> Localized(n)) /\ Record(n)' = Record(n) /\ Cell(n)' = Cell(n)
  BY DEF Localized, Record, Cell
<1>2. ColoursCutAlike' <=> ColoursCutAlike
  BY <1>1 DEF ColoursCutAlike
<1> QED
  BY <1>1, <1>2 DEF OccurrencesAgree

(* An operator walked keeps them.                                          *)
LEMMA AgreeWalked ==
    ASSUME AgreeInv, outcome = "walking", Len(word) < Len(page.cells), NEW o \in NextOperators,
           ObserveOperator(o)
    PROVE  (outcome = "walking" => LedgerNow /\ WordsAgree(word) /\ DirectOK(word, direct))'
           /\ OccurrencesAgree'
<1>1. MirrorInv /\ LedgerNow /\ WordsAgree(word) /\ DirectOK(word, direct)
  BY DEF AgreeInv
<1>2. IsOperator(o) /\ o \in OperatorRecords /\ word \in Seq(OperatorRecords)
  BY <1>1, NextAreOperators DEF IsOperator, MirrorInv
<1>3. page' = page /\ word' = Append(word, o)
  BY DEF ObserveOperator, Save, Restore, SelectAlias, SelectOther, SetOutsideEpoch,
     SetInEpoch, RefuseSetter, SetDeviceColor, PaintPath, ShowText, InvokeXObject,
     ObserveNeutral, BeginPath, ContinuePath, BeginText, EndText, BeginMarked, EndMarked,
     Opaque, AbandonPage, Observe
<1>4. outcome' \in {"walking", "refused"}
  BY DEF ObserveOperator, Save, Restore, SelectAlias, SelectOther, SetOutsideEpoch,
     SetInEpoch, RefuseSetter, SetDeviceColor, PaintPath, ShowText, InvokeXObject,
     ObserveNeutral, BeginPath, ContinuePath, BeginText, EndText, BeginMarked, EndMarked,
     Opaque, AbandonPage, KeepConversion
<1>5. OccurrencesAgree'
  BY <1>4 DEF OccurrencesAgree
<1>6. ASSUME outcome' = "walking"
      PROVE  LedgerNow' /\ (WordsAgree(word) /\ DirectOK(word, direct))'
  <2>1. ~AbandonPage(o)
    BY <1>6 DEF AbandonPage
  <2>2. LedgerOK(epochs', decisions', word')
    BY <1>1, <1>2, <2>1, LedgerStep
  <2>3. DirectOK(word', direct')
    BY <1>1, <1>2, <2>1, DirectStays
  <2>4. WordsAgree(word')
    BY <1>1, <1>2, <1>3, WordsStayAlike
  <2> QED
    BY <1>3, <2>2, <2>3, <2>4, LedgerCarried, WordsCarried
<1> QED
  BY <1>5, <1>6

(* What the end of the page needs of the plan.                             *)
LEMMA ClosingHolds ==
    ASSUME AgreeInv, Finish
    PROVE  ClosingOK(ClosedEpochs) /\ Marks(epochs, ClosedEpochs)
<1> DEFINE E == ClosedEpochs
<1>1. outcome = "walking" /\ Len(word) = Len(page.cells)
  BY DEF Finish
<1>2. MirrorInv /\ LedgerNow /\ WordsAgree(word) /\ DirectOK(word, direct)
  BY <1>1 DEF AgreeInv
<1>3. Marks(epochs, E)
  BY <1>2, ClosingMarks
<1> HIDE DEF E
<1>4. E \in Seq(EpochType) /\ LedgerOK(E, decisions, word)
  <2>1. Kept(epochs, E) /\ E \in Seq(EpochType)
    BY <1>3 DEF Marks, Kept, Follows
  <2>2. epochs \in Seq(EpochType)
    BY <1>2, LedgerFacts
  <2> QED
    BY <1>2, <2>1, <2>2, LedgerKept DEF LedgerNow
<1>5. ClosingOK(E)
  BY <1>1, <1>2, <1>4 DEF ClosingOK, MirrorInv
<1> QED
  BY <1>3, <1>5 DEF E

(* The end of the page bears them out.                                     *)
LEMMA AgreeFinished ==
    ASSUME AgreeInv, Finish
    PROVE  OccurrencesAgree' /\ outcome' # "walking"
<1> DEFINE E == ClosedEpochs
           X == PageRewrites(E)
<1>1. /\ page' = page /\ word' = word
      /\ Reconciled(X) => /\ outcome' = "edited"
                          /\ rewritten' = [n \in {r.at : r \in X} |-> (CHOOSE r \in X : r.at = n).by]
      /\ ~Reconciled(X) => outcome' = "irreconcilable"
  BY DEF Finish, PageRewrites
<1>2. ClosingOK(E)
  BY ClosingHolds
<1> HIDE DEF E
<1>3. \A n : (Localized(n)' <=> Localized(n)) /\ Record(n)' = Record(n) /\ Cell(n)' = Cell(n)
  BY <1>1 DEF Localized, Record, Cell
<1>4. ColoursCutAlike' <=> ColoursCutAlike
  BY <1>1, <1>3 DEF ColoursCutAlike
<1>5. CASE Reconciled(X)
  <2> DEFINE rw == rewritten'
  <2>1. rw = [n \in {r.at : r \in X} |-> (CHOOSE r \in X : r.at = n).by]
    BY <1>1, <1>5
  <2>2. \A m, n \in DOMAIN rw : Record(m) = Record(n) => rw[m] = rw[n]
    <3> HIDE DEF rw
    <3> QED
      BY <1>2, <2>1, ReplacementsAgree
  <2> QED
    BY <1>1, <1>3, <1>5, <2>2 DEF OccurrencesAgree
<1>6. CASE ~Reconciled(X)
  <2>1. ~ColoursCutAlike
    BY <1>2, <1>6, OccurrencesReconciled
  <2> HIDE DEF X
  <2> QED
    BY <1>1, <1>4, <1>6, <2>1 DEF OccurrencesAgree
<1> QED
  BY <1>5, <1>6

(* No step breaks them.                                                    *)
LEMMA AgreeStays ==
    ASSUME AgreeInv, [Next]_vars
    PROVE  AgreeInv'
<1>1. MirrorInv'
  BY MirrorStays DEF AgreeInv
<1>2. ASSUME outcome = "walking", Len(word) < Len(page.cells), NEW o \in NextOperators,
             ObserveOperator(o)
      PROVE  AgreeInv'
  BY <1>1, <1>2, AgreeWalked DEF AgreeInv
<1>3. CASE Finish
  BY <1>1, <1>3, AgreeFinished DEF AgreeInv
<1>4. CASE UNCHANGED vars
  <2>1. /\ page' = page /\ word' = word /\ epochs' = epochs /\ decisions' = decisions
        /\ direct' = direct /\ outcome' = outcome /\ rewritten' = rewritten
    BY <1>4 DEF vars, plan
  <2>2. OccurrencesAgree'
    BY <2>1, OccurrencesCarried DEF AgreeInv
  <2>3. ASSUME outcome' = "walking"
        PROVE  LedgerNow' /\ (WordsAgree(word) /\ DirectOK(word, direct))'
    <3>1. LedgerOK(epochs', decisions', word') /\ WordsAgree(word') /\ DirectOK(word', direct')
      BY <2>1, <2>3 DEF AgreeInv, LedgerNow
    <3> QED
      BY <2>1, <3>1, LedgerCarried, WordsCarried
  <2> QED
    BY <1>1, <2>2, <2>3 DEF AgreeInv
<1> QED
  BY <1>2, <1>3, <1>4 DEF Next

(* Running the epochs never costs a page its edit: on every page the       *)
(* occurrences of an object that stands twice in /Contents end with the    *)
(* same splices, unless what stands before one of them cuts its records    *)
(* otherwise, and no record is ever given two replacements                 *)
(* (note_record_decision, execute_alias_epochs and reconcile).             *)
THEOREM OccurrencesAlwaysAgree == Spec => []OccurrencesAgree
<1>1. Init => AgreeInv
  BY AgreeStarts
<1>2. AgreeInv /\ [Next]_vars => AgreeInv'
  BY AgreeStays
<1>3. AgreeInv => OccurrencesAgree
  BY DEF AgreeInv
<1> QED
  BY <1>1, <1>2, <1>3, PTL DEF Spec

-----------------------------------------------------------------------------
(* The walk of a program is defined by recursion, so it has to be shown to *)
(* exist.                                                                  *)
IsWalk(program, h, m) ==
  h = [n \in 0 .. m |-> IF n = 0 THEN WalkStart ELSE Walked(h[n - 1], program[n], n)]

(* There is a walk of every length.                                        *)
LEMMA WalksExist ==
    ASSUME NEW program, NEW N \in Nat
    PROVE  \E h : IsWalk(program, h, N)
<1> DEFINE missing == {m \in 0 .. N : ~ \E h : IsWalk(program, h, m)}
<1>1. missing = {}
  <2> SUFFICES ASSUME missing # {} PROVE FALSE
    OBVIOUS
  <2>1. missing \subseteq Nat
    OBVIOUS
  <2>2. PICK m \in missing : \A k \in missing : m <= k
    <3> HIDE DEF missing
    <3> QED
      BY <2>1, LeastExists
  <2>3. m # 0
    <3>1. IsWalk(program, [n \in 0 .. 0 |-> WalkStart], 0)
      BY DEF IsWalk
    <3> QED
      BY <2>2, <3>1
  <2>4. m \in 1 .. N /\ m - 1 \in 0 .. N /\ m - 1 \notin missing
    BY <2>1, <2>2, <2>3
  <2>5. PICK h : IsWalk(program, h, m - 1)
    BY <2>4
  <2> DEFINE next == Walked(h[m - 1], program[m], m)
             f == [n \in 0 .. m |-> IF n = m THEN next ELSE h[n]]
  <2>6. f[m] = next /\ \A n \in 0 .. (m - 1) : f[n] = h[n]
    BY <2>4
  <2>7. DOMAIN f = 0 .. m /\ f = [n \in 0 .. m |-> f[n]]
    OBVIOUS
  <2> HIDE DEF f
  <2>8. ASSUME NEW n \in 0 .. m
        PROVE  f[n] = IF n = 0 THEN WalkStart ELSE Walked(f[n - 1], program[n], n)
    <3>1. CASE n = m
      <4>1. m - 1 \in 0 .. (m - 1)
        BY <2>4
      <4>2. f[m - 1] = h[m - 1]
        BY <2>6, <4>1
      <4> QED
        BY <2>3, <2>6, <3>1, <4>2
    <3>2. CASE n # m /\ n # 0
      <4>1. n \in 0 .. (m - 1) /\ n - 1 \in 0 .. (m - 1)
        BY <2>4, <3>2
      <4>2. h[n] = Walked(h[n - 1], program[n], n)
        BY <2>5, <3>2, <4>1 DEF IsWalk
      <4> QED
        BY <2>6, <3>2, <4>1, <4>2
    <3>3. CASE n # m /\ n = 0
      <4>1. 0 \in 0 .. (m - 1)
        BY <2>4
      <4>2. h[0] = WalkStart
        BY <2>5, <4>1 DEF IsWalk
      <4> QED
        BY <2>6, <3>3, <4>1, <4>2
    <3> QED
      BY <3>1, <3>2, <3>3
  <2>9. IsWalk(program, f, m)
    BY <2>7, <2>8 DEF IsWalk
  <2> QED
    BY <2>2, <2>9
<1> QED
  BY <1>1

(* What it is then.                                                        *)
WalkOf(program, h) ==
  /\ h[0] = WalkStart
  /\ \A n \in 1 .. Len(program) : h[n] = Walked(h[n - 1], program[n], n)

(* The walk of a program is what its equation says.                        *)
LEMMA WalksAre ==
    ASSUME NEW program, Len(program) \in Nat
    PROVE  WalkOf(program, WalksOf(program))
<1> DEFINE h == CHOOSE h : IsWalk(program, h, Len(program))
<1>1. IsWalk(program, h, Len(program))
  BY WalksExist
<1>2. WalksOf(program) = h
  BY DEF WalksOf, IsWalk
<1> HIDE DEF h
<1>3. \A n \in 0 .. Len(program) :
        h[n] = IF n = 0 THEN WalkStart ELSE Walked(h[n - 1], program[n], n)
  BY <1>1 DEF IsWalk
<1>4. 0 \in 0 .. Len(program) /\ \A n \in 1 .. Len(program) : n \in 0 .. Len(program) /\ n # 0
  OBVIOUS
<1>5. h[0] = WalkStart
  BY <1>3, <1>4
<1>6. \A n \in 1 .. Len(program) : h[n] = Walked(h[n - 1], program[n], n)
  BY <1>3, <1>4
<1> QED
  BY <1>2, <1>5, <1>6 DEF WalkOf

(* An operator more leaves the walk before it alone.                       *)
LEMMA WalksExtend ==
    ASSUME NEW S, NEW p \in Seq(S), NEW o \in S
    PROVE  /\ \A n \in 0 .. Len(p) : WalksOf(Append(p, o))[n] = WalksOf(p)[n]
           /\ WalksOf(Append(p, o))[Len(p) + 1] = Walked(WalksOf(p)[Len(p)], o, Len(p) + 1)
<1> DEFINE N == Len(p)
           q == Append(p, o)
           g == WalksOf(p)
           h == WalksOf(q)
<1>1. /\ N \in Nat /\ Len(q) = N + 1 /\ q[N + 1] = o /\ \A n \in 1 .. N : q[n] = p[n]
  BY LenProperties, AppendProperties
<1>2. WalkOf(p, g) /\ WalkOf(q, h)
  BY <1>1, WalksAre
<1> HIDE DEF q, g, h
<1>3. /\ g[0] = WalkStart /\ h[0] = WalkStart
      /\ \A n \in 1 .. N : g[n] = Walked(g[n - 1], p[n], n) /\ h[n] = Walked(h[n - 1], p[n], n)
      /\ h[N + 1] = Walked(h[N], o, N + 1)
  <2>1. h[N + 1] = Walked(h[N + 1 - 1], o, N + 1)
    BY <1>1, <1>2 DEF WalkOf
  <2>2. N + 1 - 1 = N /\ \A n \in 1 .. N : n \in 1 .. (N + 1)
    BY <1>1
  <2>3. \A n \in 1 .. N : h[n] = Walked(h[n - 1], p[n], n)
    BY <1>1, <1>2, <2>2 DEF WalkOf
  <2> QED
    BY <1>2, <2>1, <2>2, <2>3 DEF WalkOf
<1> HIDE DEF N
<1> DEFINE other == {n \in 0 .. N : h[n] # g[n]}
<1>4. other = {}
  <2> SUFFICES ASSUME other # {} PROVE FALSE
    OBVIOUS
  <2>1. other \subseteq Nat
    OBVIOUS
  <2>2. PICK n \in other : \A k \in other : n <= k
    <3> HIDE DEF other
    <3> QED
      BY <2>1, LeastExists
  <2>3. n # 0
    BY <1>3, <2>2
  <2>4. n \in 1 .. N /\ n - 1 \in 0 .. N /\ n - 1 \notin other
    BY <1>1, <2>1, <2>2, <2>3
  <2>5. h[n - 1] = g[n - 1]
    BY <2>4
  <2>6. h[n] = g[n]
    BY <1>3, <2>4, <2>5
  <2> QED
    BY <2>2, <2>6
<1>5. N \in 0 .. N
  BY <1>1
<1>6. \A n \in 0 .. N : h[n] = g[n]
  BY <1>4
<1> QED
  BY <1>3, <1>5, <1>6 DEF N, q, g, h

-----------------------------------------------------------------------------
(* The history of a page: h is its walk, E the epochs, l and s the lanes   *)
(* and the saved ones, w the walk now and p the operators walked.  Every   *)
(* colour was set by a record walked before.                               *)
PastSources(w, n) ==
  \A lane \in Lanes : /\ w.gs[lane].source \in 0 .. n
                      /\ \A k \in 1 .. Len(w.stack) : w.stack[k][lane].source \in 0 .. n

PastOK(h, p) ==
  /\ \A n \in 0 .. Len(p) : h[n] \in Walks /\ PastSources(h[n], n)
  /\ \A n \in 1 .. Len(p) : ~WalkFails(h[n - 1], p[n])

(* A lane whose colour is a candidate's carries the candidate's epoch, and *)
(* carries epochs of its own lane only.                                    *)
HeldBy(E, branch, lane, source) ==
  /\ branch.root # 0 => E[branch.root].lane = lane
  /\ \A i \in 1 .. Len(E) : \A c \in Candidates(E[i]) : c.at = source => branch.root = i
Held(E, l, gs) == \A lane \in Lanes : HeldBy(E, l[lane], lane, gs[lane].source)
AllHeld(E, l, s, w) ==
  Held(E, l, w.gs) /\ \A k \in 1 .. Len(s) : Held(E, s[k], w.stack[k])

(* What cannot be looked into, and a setter that is left alone, refuse the *)
(* epochs whose colours they met.                                          *)
Heeds(E, o, n, lane, i, gs) ==
  ReadsUnproven(o, gs) \/ (o.kind = "set" /\ o.lane = lane) =>
    E[i].refusal # NoRefusal \/ (o.kind = "set" /\ \E d \in Candidates(E[i]) : d.at = n)
Heeded(E, h, p) ==
  \A n \in 1 .. Len(p) : \A lane \in Lanes :
    \A i \in 1 .. Len(E) : \A c \in Candidates(E[i]) :
      c.at = h[n - 1].gs[lane].source => Heeds(E, p[n], n, lane, i, h[n - 1].gs)

(* A candidate is the colour the walker had after its record.              *)
GenuineAt(e, c, o, gs) ==
  o.lane = e.lane /\ gs[e.lane].space = AliasSpace[e.alias] /\ gs[e.lane].value = c.value
Genuine(E, h, p) ==
  \A i \in 1 .. Len(E) : \A c \in Candidates(E[i]) : GenuineAt(E[i], c, p[c.at], h[c.at].gs)

HistoryOK(E, l, s, w, p, h) ==
  /\ h[Len(p)] = w /\ PastOK(h, p)
  /\ AllHeld(E, l, s, w) /\ Heeded(E, h, p) /\ Genuine(E, h, p)
HistoryNow == HistoryOK(epochs, lanes, saved, walk, word, WalksOf(word))

(* F is E with more refusals, more epochs, and candidates of one root.     *)
Extended(E, F, root, news) ==
  /\ Follows(E, F)
  /\ \A i \in 1 .. Len(E) : F[i].lane = E[i].lane /\ Candidates(E[i]) \subseteq Candidates(F[i])
  /\ \A i \in 1 .. Len(F) : \A c \in Candidates(F[i]) :
       (i \in 1 .. Len(E) /\ c \in Candidates(E[i])) \/ (i = root /\ c \in news)

(* What keeps candidates adds none.                                        *)
LEMMA KeptExtended ==
    ASSUME NEW E, NEW F, Kept(E, F)
    PROVE  Extended(E, F, 0, {})
BY DEF Kept, Extended, Candidates

(* Around a step that adds candidates the plan may open epochs and refuse. *)
LEMMA ExtendedBetween ==
    ASSUME NEW D \in Seq(EpochType), NEW E, Extends(D, E), NEW F, NEW root, NEW news,
           Extended(E, F, root, news), NEW G, Kept(F, G)
    PROVE  Extended(D, G, root, news)
<1>1. Len(D) \in Nat /\ Len(E) \in Nat /\ Len(F) \in Nat /\ Len(G) = Len(F)
  BY LenProperties DEF Extends, Extended, Kept, Follows
<1>2. Follows(D, E) /\ Follows(E, F) /\ Follows(F, G) /\ Len(D) <= Len(E) /\ Len(E) <= Len(F)
  BY DEF Extends, Extended, Kept, Follows
<1>3. Follows(D, G)
  <2>1. E \in Seq(EpochType) /\ Follows(D, F)
    BY <1>2, FollowsTransitive DEF Follows
  <2> QED
    BY <1>2, <2>1, FollowsTransitive
<1>4. \A i \in 1 .. Len(F) : G[i].lane = F[i].lane /\ Candidates(G[i]) = Candidates(F[i])
  BY DEF Kept, Candidates
<1>5. ASSUME NEW i \in 1 .. Len(D)
      PROVE  G[i].lane = D[i].lane /\ Candidates(D[i]) \subseteq Candidates(G[i])
  <2>1. i \in 1 .. Len(E) /\ i \in 1 .. Len(F)
    BY <1>1, <1>2
  <2>2. E[i].lane = D[i].lane /\ Candidates(E[i]) = Candidates(D[i])
    BY DEF Extends
  <2>3. F[i].lane = E[i].lane /\ Candidates(E[i]) \subseteq Candidates(F[i])
    BY <2>1 DEF Extended
  <2> QED
    BY <1>4, <2>1, <2>2, <2>3
<1>6. ASSUME NEW i \in 1 .. Len(G), NEW c \in Candidates(G[i])
      PROVE  (i \in 1 .. Len(D) /\ c \in Candidates(D[i])) \/ (i = root /\ c \in news)
  <2>1. i \in 1 .. Len(F) /\ c \in Candidates(F[i])
    BY <1>1, <1>4
  <2>2. (i \in 1 .. Len(E) /\ c \in Candidates(E[i])) \/ (i = root /\ c \in news)
    BY <2>1, Zenon DEF Extended
  <2>3. ASSUME i \in 1 .. Len(E), c \in Candidates(E[i])
        PROVE  i \in 1 .. Len(D) /\ c \in Candidates(D[i])
    BY <2>3 DEF Extends
  <2> QED
    BY <2>2, <2>3
<1> QED
  BY <1>3, <1>5, <1>6 DEF Extended

(* A candidate noted is the only one.                                      *)
NewsAt(n, value) == IF Localized(n) THEN {[at |-> n, value |-> value]} ELSE {}

(* A candidate noted extends the epochs by itself.                         *)
LEMMA CandidateExtends ==
    ASSUME NEW E \in Seq(EpochType), Now \in Nat, NEW root \in 1 .. Len(E), NEW value \in Nat,
           NEW explicit
    PROVE  LET W == WithCandidate(E, Now, root, value, explicit)
           IN  /\ Extended(E, W, root, NewsAt(Now, value))
               /\ Localized(Now) => [at |-> Now, value |-> value] \in Candidates(W[root])
<1> DEFINE W == WithCandidate(E, Now, root, value, explicit)
           c == [at |-> Now, value |-> value]
           facts == Facts(E, root, value, explicit)
<1>0. c \in [at : Nat, value : Nat]
  OBVIOUS
<1>1. CASE ~Localized(Now)
  <2>1. Marks(E, W)
    BY <1>1, CandidateMissed
  <2> HIDE DEF W
  <2>2. Extended(E, W, root, {})
    BY <2>1 DEF Marks, Kept, Extended, Candidates
  <2>3. NewsAt(Now, value) = {}
    BY <1>1 DEF NewsAt
  <2> QED
    BY <1>1, <2>2, <2>3 DEF W
<1>2. CASE Localized(Now)
  <2>1. PICK A : Adds(E, A, root, c) /\ W = AfterDecision(A, Now, root, facts)
    BY <1>2, CandidateAdded
  <2>2. NewsAt(Now, value) = {c}
    BY <1>2 DEF NewsAt
  <2> HIDE DEF c, facts
  <2>3. Added(E, A, root, {c})
    BY <1>0, <2>1, CandidatesAdded
  <2>4. A \in Seq(EpochType)
    BY <2>3 DEF Added, Notes, Follows
  <2>5. Marks(A, W)
    BY <2>1, <2>4, AfterDecisionMarks
  <2> HIDE DEF W
  <2>6. Follows(E, W) /\ Len(A) = Len(E) /\ Len(W) = Len(A)
    <3>1. Follows(E, A) /\ Follows(A, W) /\ Len(A) = Len(E) /\ Len(W) = Len(A)
      BY <2>3, <2>5 DEF Added, Marks, Notes
    <3> QED
      BY <3>1, FollowsTransitive
  <2>7. \A i \in 1 .. Len(E) :
          /\ W[i].lane = E[i].lane
          /\ Candidates(W[i]) = Candidates(E[i]) \union (IF i = root THEN {c} ELSE {})
    <3>1. \A i \in 1 .. Len(A) : W[i].lane = A[i].lane /\ Candidates(W[i]) = Candidates(A[i])
      BY <2>5 DEF Marks, Kept, Candidates
    <3> QED
      BY <2>3, <2>6, <3>1 DEF Added
  <2>8. Extended(E, W, root, {c})
    BY <2>6, <2>7 DEF Extended
  <2>9. c \in Candidates(W[root])
    BY <2>7
  <2> QED
    BY <2>2, <2>8, <2>9 DEF W, c
<1> QED
  BY <1>1, <1>2

(* A colour operator leaves its mark on its lane.                          *)
LEMMA ColourSource ==
    ASSUME NEW w \in Walks, NEW o, IsOperator(o), NEW at \in Nat,
           o.kind \in {"select", "set", "device"}
    PROVE  Walked(w, o, at).gs[o.lane].source = at
<1>1. /\ w.gs[o.lane] \in Colors
      /\ o.kind = "select" => Walked(w, o, at).gs[o.lane] = SelectedColor(o.name, at)
      /\ o.kind = "set" => Walked(w, o, at).gs[o.lane] = SetColor(w.gs[o.lane], o, at)
      /\ o.kind = "device" => Walked(w, o, at).gs[o.lane] = DeviceColor(o, at)
  BY WalkedColor
<1>2. SelectedColor(o.name, at).source = at /\ DeviceColor(o, at).source = at
  BY DEF SelectedColor, DeviceColor
<1>3. SetColor(w.gs[o.lane], o, at).source = at
  BY <1>1 DEF SetColor, Colors
<1> QED
  BY <1>1, <1>2, <1>3

(* No operator brings a colour from records to come.                       *)
LEMMA SourcesWalked ==
    ASSUME NEW w \in Walks, NEW o, IsOperator(o), NEW n \in Nat, ~WalkFails(w, o),
           PastSources(w, n)
    PROVE  Walked(w, o, n + 1) \in Walks /\ PastSources(Walked(w, o, n + 1), n + 1)
<1> DEFINE v == Walked(w, o, n + 1)
<1>1. /\ o \in OperatorRecords /\ n + 1 \in Nat /\ w.gs \in Snapshots
      /\ w.stack \in Seq(Snapshots) /\ Len(w.stack) \in Nat /\ \A x \in 0 .. n : x \in 0 .. (n + 1)
  BY LenProperties DEF IsOperator, Walks
<1>2. \A lane \in Lanes : /\ w.gs[lane].source \in 0 .. (n + 1)
                          /\ \A k \in 1 .. Len(w.stack) : w.stack[k][lane].source \in 0 .. (n + 1)
  BY <1>1 DEF PastSources
<1>3. CASE o.kind \notin {"q", "Q", "select", "set", "device"}
  <2>1. /\ v \in Walks /\ v.stack = w.stack
        /\ \A lane \in Lanes : v.gs[lane] = w.gs[lane]
    BY <1>1, <1>3, WalkedPlain
  <2> HIDE DEF v
  <2>2. PastSources(v, n + 1)
    BY <1>2, <2>1 DEF PastSources
  <2> QED
    BY <2>1, <2>2 DEF v
<1>4. CASE o.kind = "q"
  <2>1. v \in Walks /\ v.gs = w.gs /\ v.stack = Append(w.stack, w.gs)
    BY <1>1, <1>4, WalkedSave
  <2> HIDE DEF v
  <2>2. /\ Len(v.stack) = Len(w.stack) + 1 /\ v.stack[Len(w.stack) + 1] = w.gs
        /\ \A k \in 1 .. Len(w.stack) : v.stack[k] = w.stack[k]
    BY <1>1, <2>1, AppendProperties
  <2>3. \A k \in 1 .. Len(v.stack) : k \in 1 .. Len(w.stack) \/ k = Len(w.stack) + 1
    BY <1>1, <2>2
  <2>4. PastSources(v, n + 1)
    BY <1>2, <2>1, <2>2, <2>3 DEF PastSources
  <2> QED
    BY <2>1, <2>4 DEF v
<1>5. CASE o.kind = "Q"
  <2>1. /\ v \in Walks /\ w.stack # <<>> /\ v.gs = w.stack[Len(w.stack)]
        /\ v.stack = SubSeq(w.stack, 1, Len(w.stack) - 1)
    BY <1>1, <1>5, WalkedRestore
  <2> HIDE DEF v
  <2>2. Len(w.stack) \in 1 .. Len(w.stack)
    BY <1>1, <2>1, EmptySeq
  <2>3. /\ Len(v.stack) = Len(w.stack) - 1
        /\ \A k \in 1 .. Len(v.stack) : v.stack[k] = w.stack[k] /\ k \in 1 .. Len(w.stack)
    BY <1>1, <2>1, <2>2, SubSeqProperties
  <2>4. PastSources(v, n + 1)
    BY <1>2, <2>1, <2>2, <2>3 DEF PastSources
  <2> QED
    BY <2>1, <2>4 DEF v
<1>6. CASE o.kind \in {"select", "set", "device"}
  <2>1. o.lane \in Lanes /\ Recolors(w, v, o.lane) /\ v.gs[o.lane].source = n + 1
    BY <1>1, <1>6, WalkedColor, ColourSource
  <2> HIDE DEF v
  <2>2. PastSources(v, n + 1)
    BY <1>1, <1>2, <2>1 DEF PastSources, Recolors
  <2> QED
    BY <2>1, <2>2 DEF Recolors, v
<1> QED
  BY <1>3, <1>4, <1>5, <1>6

(* g is the walk h of p, one operator later.                               *)
OneLater(h, g, p, o) ==
  /\ \A n \in 0 .. Len(p) : g[n] = h[n]
  /\ g[Len(p) + 1] = Walked(h[Len(p)], o, Len(p) + 1)

(* A walk that did not fail stays a walk, one operator later.              *)
LEMMA PastStep ==
    ASSUME NEW p \in Seq(OperatorRecords), NEW o, IsOperator(o), NEW h, PastOK(h, p),
           ~WalkFails(h[Len(p)], o), NEW g, OneLater(h, g, p, o)
    PROVE  PastOK(g, Append(p, o))
<1> DEFINE N == Len(p)
           q == Append(p, o)
<1>1. /\ N \in Nat /\ Len(q) = N + 1 /\ q[N + 1] = o /\ \A n \in 1 .. N : q[n] = p[n]
  BY LenProperties, AppendProperties DEF IsOperator
<1> HIDE DEF q
<1>2. N \in 0 .. N
  BY <1>1
<1>3. h[N] \in Walks /\ PastSources(h[N], N)
  BY <1>2 DEF PastOK
<1>4. g[N + 1] \in Walks /\ PastSources(g[N + 1], N + 1)
  BY <1>1, <1>3, SourcesWalked DEF OneLater
<1>5. ASSUME NEW n \in 0 .. Len(q) PROVE g[n] \in Walks /\ PastSources(g[n], n)
  <2>1. CASE n = N + 1
    BY <1>4, <2>1
  <2>2. CASE n # N + 1
    <3>1. n \in 0 .. N
      BY <1>1, <2>2
    <3> QED
      BY <3>1 DEF OneLater, PastOK
  <2> QED
    BY <2>1, <2>2
<1>6. ASSUME NEW n \in 1 .. Len(q) PROVE ~WalkFails(g[n - 1], q[n])
  <2>1. CASE n = N + 1
    <3>1. n - 1 = N
      BY <1>1, <2>1
    <3>2. g[N] = h[N]
      BY <1>2 DEF OneLater
    <3> QED
      BY <1>1, <2>1, <3>1, <3>2
  <2>2. CASE n # N + 1
    <3>1. n \in 1 .. N /\ n - 1 \in 0 .. N
      BY <1>1, <2>2
    <3>2. g[n - 1] = h[n - 1] /\ ~WalkFails(h[n - 1], p[n])
      BY <3>1 DEF OneLater, PastOK
    <3> QED
      BY <1>1, <3>1, <3>2
  <2> QED
    BY <2>1, <2>2
<1> QED
  BY <1>5, <1>6 DEF PastOK, q

(* What has been heeded stays so.                                          *)
LEMMA HeedsExtended ==
    ASSUME NEW E, NEW F, NEW root, NEW news, Extended(E, F, root, news), NEW o, NEW n, NEW lane,
           NEW i \in 1 .. Len(E), NEW gs, Heeds(E, o, n, lane, i, gs)
    PROVE  Heeds(F, o, n, lane, i, gs)
<1>1. E[i].refusal # NoRefusal => F[i].refusal # NoRefusal
  BY DEF Extended, Follows
<1>2. Candidates(E[i]) \subseteq Candidates(F[i])
  BY DEF Extended
<1> QED
  BY <1>1, <1>2, Zenon DEF Heeds

(* An operator heeded by the lanes in hand keeps the history heeded.       *)
LEMMA HeededStep ==
    ASSUME NEW p \in Seq(OperatorRecords), NEW o \in OperatorRecords, NEW h, PastOK(h, p),
           NEW g, OneLater(h, g, p, o), NEW E, NEW F, NEW root, NEW news,
           Extended(E, F, root, news), \A c \in news : c.at = Len(p) + 1,
           NEW l, Held(E, l, h[Len(p)].gs), Heeded(E, h, p),
           \A lane \in Lanes : \A i \in 1 .. Len(E) :
             l[lane].root = i => Heeds(F, o, Len(p) + 1, lane, i, h[Len(p)].gs)
    PROVE  Heeded(F, g, Append(p, o))
<1> DEFINE N == Len(p)
           q == Append(p, o)
<1>1. /\ N \in Nat /\ Len(q) = N + 1 /\ q[N + 1] = o /\ \A n \in 1 .. N : q[n] = p[n]
  BY LenProperties, AppendProperties
<1> HIDE DEF q
<1> SUFFICES ASSUME NEW n \in 1 .. Len(q), NEW lane \in Lanes, NEW i \in 1 .. Len(F),
                    NEW c \in Candidates(F[i]), c.at = g[n - 1].gs[lane].source
             PROVE  Heeds(F, q[n], n, lane, i, g[n - 1].gs)
  BY DEF Heeded, q
<1>2. n - 1 \in 0 .. N /\ N + 1 \notin 0 .. (n - 1)
  BY <1>1
<1>3. g[n - 1] = h[n - 1] /\ PastSources(h[n - 1], n - 1)
  BY <1>2 DEF OneLater, PastOK
<1>4. c.at # N + 1
  BY <1>2, <1>3 DEF PastSources
<1>5. i \in 1 .. Len(E) /\ c \in Candidates(E[i])
  BY <1>4 DEF Extended
<1>6. CASE n = N + 1
  <2>1. n - 1 = N
    BY <1>1, <1>6
  <2>2. c.at = h[N].gs[lane].source
    BY <1>3, <2>1
  <2>3. l[lane].root = i
    BY <1>5, <2>2, Zenon DEF Held, HeldBy
  <2>4. Heeds(F, o, N + 1, lane, i, h[N].gs)
    BY <1>5, <2>3
  <2> QED
    BY <1>1, <1>3, <1>6, <2>1, <2>4
<1>7. CASE n # N + 1
  <2>1. n \in 1 .. N
    BY <1>1, <1>7
  <2>2. c.at = h[n - 1].gs[lane].source
    BY <1>3
  <2>3. Heeds(E, p[n], n, lane, i, h[n - 1].gs)
    BY <1>5, <2>1, <2>2, Zenon DEF Heeded
  <2>4. Heeds(F, p[n], n, lane, i, h[n - 1].gs)
    BY <1>5, <2>3, HeedsExtended
  <2> QED
    BY <1>1, <1>3, <2>1, <2>4
<1> QED
  BY <1>6, <1>7

(* Candidates stay genuine, and the new ones are.                          *)
LEMMA GenuineStep ==
    ASSUME NEW p \in Seq(OperatorRecords), NEW o \in OperatorRecords, NEW h,
           NEW g, OneLater(h, g, p, o), NEW E, CandidatesOK(E, p), NEW F, NEW root, NEW news,
           Extended(E, F, root, news), Genuine(E, h, p),
           \A c \in news : /\ c.at = Len(p) + 1
                           /\ GenuineAt(F[root], c, o, g[Len(p) + 1].gs)
    PROVE  Genuine(F, g, Append(p, o))
<1> DEFINE N == Len(p)
           q == Append(p, o)
<1>1. /\ N \in Nat /\ Len(q) = N + 1 /\ q[N + 1] = o /\ \A n \in 1 .. N : q[n] = p[n]
  BY LenProperties, AppendProperties
<1> HIDE DEF q
<1> SUFFICES ASSUME NEW i \in 1 .. Len(F), NEW c \in Candidates(F[i])
             PROVE  GenuineAt(F[i], c, q[c.at], g[c.at].gs)
  BY DEF Genuine, q
<1>2. CASE i \in 1 .. Len(E) /\ c \in Candidates(E[i])
  <2>1. c.at \in 1 .. N
    BY <1>2, Zenon DEF CandidatesOK
  <2>2. GenuineAt(E[i], c, p[c.at], h[c.at].gs)
    BY <1>2 DEF Genuine
  <2>3. F[i].alias = E[i].alias /\ F[i].lane = E[i].lane
    BY <1>2 DEF Extended, Follows
  <2>4. g[c.at] = h[c.at] /\ q[c.at] = p[c.at]
    <3>1. c.at \in 0 .. N
      BY <1>1, <2>1
    <3> QED
      BY <1>1, <2>1, <3>1 DEF OneLater
  <2> QED
    BY <2>2, <2>3, <2>4 DEF GenuineAt
<1>3. CASE i = root /\ c \in news
  BY <1>1, <1>3
<1> QED
  BY <1>2, <1>3 DEF Extended

(* What the lanes hold is not disturbed by candidates of a later record.   *)
LEMMA HeldExtended ==
    ASSUME NEW E, NEW F, NEW root, NEW news, Extended(E, F, root, news), NEW n \in Nat,
           \A c \in news : c.at = n + 1,
           NEW l, NEW gs, SameColors(E, l, gs), Held(E, l, gs),
           \A lane \in Lanes : gs[lane].source \in 0 .. n
    PROVE  Held(F, l, gs)
<1> SUFFICES ASSUME NEW lane \in Lanes
             PROVE  HeldBy(F, l[lane], lane, gs[lane].source)
  BY DEF Held
<1>1. HeldBy(E, l[lane], lane, gs[lane].source) /\ SameColor(E, l[lane], gs[lane])
  BY DEF Held, SameColors
<1>2. l[lane].root # 0 => F[l[lane].root].lane = lane
  <2>1. l[lane].root # 0 => l[lane].root \in 1 .. Len(E) /\ E[l[lane].root].lane = lane
    BY <1>1 DEF HeldBy, SameColor
  <2> QED
    BY <2>1 DEF Extended
<1>3. ASSUME NEW i \in 1 .. Len(F), NEW c \in Candidates(F[i]), c.at = gs[lane].source
      PROVE  l[lane].root = i
  <2>1. gs[lane].source # n + 1
    OBVIOUS
  <2>2. i \in 1 .. Len(E) /\ c \in Candidates(E[i])
    BY <1>3, <2>1 DEF Extended
  <2> QED
    BY <1>1, <1>3, <2>2, Zenon DEF HeldBy
<1> QED
  BY <1>2, <1>3, Zenon DEF HeldBy

(* Nor are the saved ones.                                                 *)
LEMMA AllHeldExtended ==
    ASSUME NEW E, NEW l, NEW s, NEW w, PlanOK(E, l, s, w), AllHeld(E, l, s, w),
           NEW F, NEW root, NEW news, Extended(E, F, root, news), NEW n \in Nat,
           \A c \in news : c.at = n + 1, PastSources(w, n)
    PROVE  AllHeld(F, l, s, w)
<1>1. /\ Len(s) = Len(w.stack) /\ SameColors(E, l, w.gs)
      /\ \A k \in 1 .. Len(s) : SameColors(E, s[k], w.stack[k])
  BY DEF PlanOK
<1>2. /\ \A lane \in Lanes : w.gs[lane].source \in 0 .. n
      /\ \A k \in 1 .. Len(s) : \A lane \in Lanes : w.stack[k][lane].source \in 0 .. n
  BY <1>1 DEF PastSources
<1>3. Held(F, l, w.gs)
  BY <1>1, <1>2, HeldExtended DEF AllHeld
<1>4. ASSUME NEW k \in 1 .. Len(s) PROVE Held(F, s[k], w.stack[k])
  <2>1. Held(E, s[k], w.stack[k]) /\ SameColors(E, s[k], w.stack[k])
    BY <1>1 DEF AllHeld
  <2> QED
    BY <1>2, <2>1, HeldExtended
<1> QED
  BY <1>3, <1>4 DEF AllHeld

(* Operators that change no colour.                                        *)
LEMMA HeldPlain ==
    ASSUME NEW E, NEW l, NEW s, NEW w, AllHeld(E, l, s, w), NEW v, v.stack = w.stack,
           \A lane \in Lanes : v.gs[lane] = w.gs[lane]
    PROVE  AllHeld(E, l, s, v)
BY DEF AllHeld, Held

(* q.                                                                      *)
LEMMA HeldSaved ==
    ASSUME NEW E, NEW l \in LanePairs, NEW s \in Seq(LanePairs), NEW w \in Walks,
           Len(s) = Len(w.stack), AllHeld(E, l, s, w),
           NEW v, v.gs = w.gs, v.stack = Append(w.stack, w.gs)
    PROVE  AllHeld(E, l, Append(s, l), v)
<1> DEFINE t == Append(s, l)
<1>1. /\ Len(s) \in Nat /\ Len(t) = Len(s) + 1 /\ t[Len(s) + 1] = l
      /\ \A k \in 1 .. Len(s) : t[k] = s[k]
  BY LenProperties, AppendProperties
<1>2. /\ v.stack[Len(s) + 1] = w.gs
      /\ \A k \in 1 .. Len(s) : v.stack[k] = w.stack[k]
  <2>1. w.stack \in Seq(Snapshots) /\ w.gs \in Snapshots
    BY DEF Walks
  <2> QED
    BY <2>1, AppendProperties
<1> HIDE DEF t
<1>3. \A k \in 1 .. Len(t) : k \in 1 .. Len(s) \/ k = Len(s) + 1
  BY <1>1
<1>4. Held(E, l, v.gs) /\ \A k \in 1 .. Len(t) : Held(E, t[k], v.stack[k])
  BY <1>1, <1>2, <1>3 DEF AllHeld
<1> QED
  BY <1>4 DEF AllHeld, t

(* Q.                                                                      *)
LEMMA HeldRestored ==
    ASSUME NEW E, NEW l, NEW s \in Seq(LanePairs), NEW w \in Walks,
           Len(s) = Len(w.stack), w.stack # <<>>, AllHeld(E, l, s, w),
           NEW v, v.gs = w.stack[Len(w.stack)], v.stack = SubSeq(w.stack, 1, Len(w.stack) - 1)
    PROVE  AllHeld(E, s[Len(s)], SubSeq(s, 1, Len(s) - 1), v)
<1> DEFINE n == Len(s)
           t == SubSeq(s, 1, n - 1)
<1>1. w.stack \in Seq(Snapshots) /\ n \in Nat /\ n = Len(w.stack) /\ n # 0
  BY LenProperties, EmptySeq DEF Walks
<1> HIDE DEF n
<1>2. n \in 1 .. n /\ n = Len(s) /\ v.gs = w.stack[n] /\ v.stack = SubSeq(w.stack, 1, n - 1)
  BY <1>1 DEF n
<1>3. Len(t) = n - 1 /\ \A k \in 1 .. (n - 1) : t[k] = s[k] /\ k \in 1 .. n
  BY <1>1, <1>2, SubSeqProperties
<1>4. \A k \in 1 .. (n - 1) : v.stack[k] = w.stack[k]
  BY <1>1, <1>2, SubSeqProperties
<1> HIDE DEF t
<1>5. Held(E, s[n], v.gs) /\ \A k \in 1 .. Len(t) : Held(E, t[k], v.stack[k])
  BY <1>2, <1>3, <1>4 DEF AllHeld
<1> QED
  BY <1>5 DEF AllHeld, n, t

(* A colour operator, whose lane is given the branch b.                    *)
LEMMA HeldColoured ==
    ASSUME NEW E, CandidatesOK(E, word), Len(word) \in Nat, NEW l \in LanePairs, NEW s, NEW w,
           NEW F, NEW root, NEW news, Extended(E, F, root, news), AllHeld(F, l, s, w),
           NEW v, NEW lane \in Lanes, Recolors(w, v, lane), v.gs[lane].source = Now,
           NEW b, b.root # 0 => F[b.root].lane = lane, news # {} => b.root = root
    PROVE  AllHeld(F, [l EXCEPT ![lane] = b], s, v)
<1> DEFINE m == [l EXCEPT ![lane] = b]
<1>1. m[lane] = b /\ \A x \in Lanes : x # lane => m[x] = l[x]
  BY DEF LanePairs
<1> HIDE DEF m
<1>2. ASSUME NEW i \in 1 .. Len(F), NEW c \in Candidates(F[i]), c.at = Now
      PROVE  b.root = i
  <2>1. ~(i \in 1 .. Len(E) /\ c \in Candidates(E[i]))
    <3> SUFFICES ASSUME i \in 1 .. Len(E), c \in Candidates(E[i])
                 PROVE  FALSE
      OBVIOUS
    <3>1. Now \notin 1 .. Len(word)
      BY DEF Now
    <3>2. c.at \in 1 .. Len(word)
      BY Zenon DEF CandidatesOK
    <3> QED
      BY <1>2, <3>1, <3>2
  <2>2. i = root /\ c \in news
    BY <2>1, Zenon DEF Extended
  <2> QED
    BY <2>2
<1>3. HeldBy(F, m[lane], lane, v.gs[lane].source)
  BY <1>1, <1>2, Zenon DEF HeldBy
<1>4. Held(F, m, v.gs)
  <2>1. ASSUME NEW x \in Lanes, x # lane
        PROVE  HeldBy(F, m[x], x, v.gs[x].source)
    BY <1>1, <2>1 DEF AllHeld, Held, Recolors
  <2> QED
    BY <1>3, <2>1 DEF Held
<1>5. v.stack = w.stack
  BY DEF Recolors
<1> QED
  BY <1>4, <1>5 DEF AllHeld, m

-----------------------------------------------------------------------------
(* What the plan does at an operator, towards the history.                 *)
Advances(o, root, news) ==
  /\ Extended(epochs, epochs', root, news)
  /\ \A c \in news : c.at = Now /\ GenuineAt(epochs'[root], c, o, walk'.gs)
  /\ \A lane \in Lanes : \A i \in 1 .. Len(epochs) :
       lanes[lane].root = i => Heeds(epochs', o, Now, lane, i, walk.gs)

(* With that and the lanes the history goes on.                            *)
LEMMA HistoryStep ==
    ASSUME MirrorInv, LedgerNow, HistoryNow, NEW o, IsOperator(o), Observe(o),
           NEW root, NEW news, Advances(o, root, news), AllHeld(epochs', lanes', saved', walk')
    PROVE  HistoryNow'
<1> DEFINE h == WalksOf(word)
           g == WalksOf(word')
           N == Len(word)
<1>1. /\ word \in Seq(OperatorRecords) /\ o \in OperatorRecords /\ N \in Nat /\ Now = N + 1
      /\ word' = Append(word, o) /\ walk' = Walked(walk, o, Now) /\ ~WalkFails(walk, o)
  BY LedgerFacts, LenProperties DEF IsOperator, Observe, Now
<1>2. /\ \A n \in 0 .. N : g[n] = h[n]
      /\ g[N + 1] = Walked(h[N], o, N + 1)
  BY <1>1, WalksExtend
<1> HIDE DEF h, g
<1>3. /\ h[N] = walk /\ PastOK(h, word) /\ AllHeld(epochs, lanes, saved, walk)
      /\ Heeded(epochs, h, word) /\ Genuine(epochs, h, word)
  BY DEF HistoryNow, HistoryOK, h
<1>4. OneLater(h, g, word, o) /\ g[Now] = walk'
  BY <1>1, <1>2, <1>3 DEF OneLater
<1>5. PastOK(g, word')
  BY <1>1, <1>3, <1>4, PastStep
<1>6. Heeded(epochs', g, word')
  <2>1. Held(epochs, lanes, h[N].gs)
    BY <1>3 DEF AllHeld
  <2>2. /\ \A lane \in Lanes : \A i \in 1 .. Len(epochs) :
             lanes[lane].root = i => Heeds(epochs', o, N + 1, lane, i, h[N].gs)
        /\ \A c \in news : c.at = N + 1
    BY <1>1, <1>3 DEF Advances
  <2> QED
    BY <1>1, <1>3, <1>4, <2>1, <2>2, HeededStep DEF Advances
<1>7. Genuine(epochs', g, word')
  <2>1. CandidatesOK(epochs, word)
    BY DEF LedgerNow, LedgerOK
  <2>2. \A c \in news : c.at = N + 1 /\ GenuineAt(epochs'[root], c, o, g[N + 1].gs)
    BY <1>1, <1>4 DEF Advances
  <2> QED
    BY <1>1, <1>3, <1>4, <2>1, <2>2, GenuineStep DEF Advances
<1>8. g[Len(word')] = walk'
  <2>1. Len(word') = N + 1
    BY <1>1, AppendProperties
  <2> QED
    BY <1>1, <1>4, <2>1
<1>9. HistoryOK(epochs', lanes', saved', walk', word', g)
  BY <1>5, <1>6, <1>7, <1>8 DEF HistoryOK
<1> QED
  BY <1>9 DEF HistoryNow, g

(* What every step of the history starts from.                             *)
LEMMA HistoryFacts ==
    ASSUME MirrorInv, HistoryNow
    PROVE  /\ PlanOK(epochs, lanes, saved, walk) /\ epochs \in Seq(EpochType) /\ lanes \in LanePairs
           /\ saved \in Seq(LanePairs) /\ Len(saved) = Len(walk.stack) /\ walk \in Walks
           /\ AllHeld(epochs, lanes, saved, walk) /\ PastSources(walk, Len(word))
           /\ Len(word) \in Nat /\ Now = Len(word) + 1 /\ Now \in Nat
<1>1. Len(word) \in Nat /\ Now = Len(word) + 1 /\ Now \in Nat
  BY LenProperties DEF MirrorInv, Now
<1>2. PlanOK(epochs, lanes, saved, walk)
  BY DEF MirrorInv
<1>3. AllHeld(epochs, lanes, saved, walk) /\ PastSources(walk, Len(word))
  <2>1. Len(word) \in 0 .. Len(word)
    BY <1>1
  <2> QED
    BY <2>1 DEF HistoryNow, HistoryOK, PastOK
<1> QED
  BY <1>1, <1>2, <1>3 DEF PlanOK

(* The lanes still hold what they held when the plan has moved.            *)
LEMMA HeldNow ==
    ASSUME MirrorInv, HistoryNow, NEW o, NEW root, NEW news, Advances(o, root, news)
    PROVE  AllHeld(epochs', lanes, saved, walk)
<1>1. Extended(epochs, epochs', root, news) /\ \A c \in news : c.at = Len(word) + 1
  BY HistoryFacts DEF Advances
<1> QED
  BY <1>1, HistoryFacts, AllHeldExtended

(* An epoch that a lane carries is live, and refused with the live ones.   *)
LEMMA CarriedIsLive ==
    ASSUME MirrorInv, NEW lane \in Lanes, NEW i \in 1 .. Len(epochs), lanes[lane].root = i
    PROVE  epochs[i].live > 0
<1>1. epochs[i].live = Tally(lanes, saved, i) /\ saved \in Seq(LanePairs)
  BY DEF MirrorInv, PlanOK
<1> DEFINE s == Cardinality(SavedPlaces(saved, i))
<1>2. s \in Nat
  BY <1>1, SavedPlacesFinite
<1>3. Tally(lanes, saved, i) = InHand(lanes, i) + s
  BY DEF Tally
<1> HIDE DEF s
<1>4. /\ OneIf(lanes, "stroke", i) \in {0, 1} /\ OneIf(lanes, "fill", i) \in {0, 1}
      /\ OneIf(lanes, lane, i) = 1
  BY DEF OneIf
<1>5. InHand(lanes, i) \in {1, 2}
  BY <1>4 DEF InHand, Lanes
<1> QED
  BY <1>1, <1>2, <1>3, <1>5

(* A live epoch is refused when the live ones are.                         *)
LEMMA LiveRefused ==
    ASSUME NEW E \in Seq(EpochType), NEW at \in Nat, NEW why \in Reasons, NEW i \in 1 .. Len(E),
           E[i].live > 0
    PROVE  RefusedLive(E, at, why)[i].refusal # NoRefusal
<1> DEFINE roots == {j \in DOMAIN E : E[j].live > 0}
<1>1. i \in roots
  BY LenProperties
<1>2. RefusedLive(E, at, why) = RefusedAmong(E, roots, at, why)
  BY DEF RefusedLive
<1> HIDE DEF roots
<1> QED
  BY <1>1, <1>2, RefusingMarks

(* What cannot be looked into refuses them all.                            *)
LEMMA UnprovenRefuses ==
    ASSUME MirrorInv, NEW o, IsOperator(o), ShowText(o) \/ InvokeXObject(o) \/ Opaque(o),
           ReadsUnproven(o, walk.gs), NEW i \in 1 .. Len(epochs), epochs[i].live > 0
    PROVE  epochs'[i].refusal # NoRefusal
<1>1. epochs \in Seq(EpochType) /\ Now \in Nat
  BY LedgerFacts
<1>2. /\ "TextShow" \in Reasons /\ "XObjectInvoke" \in Reasons
      /\ "InvalidGraphicsObjectContext" \in Reasons
  BY DEF Reasons
<1>3. \A why \in Reasons : RefusedLive(epochs, Now, why)[i].refusal # NoRefusal
  BY <1>1, LiveRefused
<1>4. RefusedIf(TRUE, epochs, Now) = RefusedLive(epochs, Now, "InvalidGraphicsObjectContext")
  BY DEF RefusedIf
<1>5. \E why \in Reasons : epochs' = RefusedLive(epochs, Now, why)
  <2>1. CASE ShowText(o)
    <3>1. o.kind = "show" /\ (walk.gs.font \notin AdmittedFonts \/ walk.gs.mode \notin 0 .. 7)
      BY <2>1 DEF ShowText, ReadsUnproven
    <3>2. epochs' \in {RefusedLive(epochs, Now, "TextShow"), RefusedIf(TRUE, epochs, Now)}
      BY <2>1, <3>1 DEF ShowText
    <3> QED
      BY <1>2, <1>4, <3>2
  <2>2. CASE InvokeXObject(o)
    <3>1. o.kind = "Do" /\ o.name \notin DOMAIN XObjectLanes
      BY <2>2 DEF InvokeXObject, ReadsUnproven
    <3>2. epochs' \in {RefusedLive(epochs, Now, "XObjectInvoke"), RefusedIf(TRUE, epochs, Now)}
      BY <2>2, <3>1 DEF InvokeXObject
    <3> QED
      BY <1>2, <1>4, <3>2
  <2>3. CASE Opaque(o)
    <3>1. o.name \in Reasons /\ epochs' = RefusedLive(epochs, Now, o.name)
      BY <2>3 DEF Opaque, IsOperator, Reasons
    <3> QED
      BY <3>1
  <2> QED
    BY <2>1, <2>2, <2>3
<1> QED
  BY <1>3, <1>5

(* Operators that leave colours and candidates alone.                      *)
LEMMA HistoryPlain ==
    ASSUME MirrorInv, LedgerNow, HistoryNow, NEW o, IsOperator(o), Observe(o), PlainKinds(o),
           lanes' = lanes, saved' = saved, Marks(epochs, epochs'),
           \A i \in 1 .. Len(epochs) :
             ReadsUnproven(o, walk.gs) /\ epochs[i].live > 0 => epochs'[i].refusal # NoRefusal
    PROVE  HistoryNow'
<1>1. Extended(epochs, epochs', 0, {})
  BY KeptExtended DEF Marks
<1>2. ASSUME NEW lane \in Lanes, NEW i \in 1 .. Len(epochs), lanes[lane].root = i
      PROVE  Heeds(epochs', o, Now, lane, i, walk.gs)
  <2>1. epochs[i].live > 0
    BY <1>2, CarriedIsLive
  <2>2. o.kind # "set"
    BY DEF PlainKinds
  <2> QED
    BY <2>1, <2>2 DEF Heeds
<1>3. Advances(o, 0, {})
  BY <1>1, <1>2 DEF Advances
<1>4. AllHeld(epochs', lanes, saved, walk)
  BY <1>3, HeldNow
<1>5. walk'.stack = walk.stack /\ \A lane \in Lanes : walk'.gs[lane] = walk.gs[lane]
  <2>1. walk' = Walked(walk, o, Now) /\ o \in OperatorRecords
    BY DEF Observe, IsOperator
  <2> QED
    BY <2>1, HistoryFacts, WalkedPlain DEF PlainKinds
<1>6. AllHeld(epochs', lanes', saved', walk')
  BY <1>4, <1>5, HeldPlain
<1> QED
  BY <1>3, <1>6, HistoryStep

(* q and Q.                                                                *)
LEMMA HistoryFrames ==
    ASSUME MirrorInv, LedgerNow, HistoryNow, NEW o, IsOperator(o), Save(o) \/ Restore(o)
    PROVE  HistoryNow'
<1>1. /\ Observe(o) /\ o.kind \in {"q", "Q"} /\ walk' = Walked(walk, o, Now) /\ ~WalkFails(walk, o)
  BY DEF Save, Restore, Observe
<1>2. Kept(epochs, epochs')
  <2> DEFINE F == RefusedIf(inText \/ inPath, epochs, Now)
             G == Dropped(F, lanes["stroke"])
  <2>1. epochs' = Copied(F) \/ epochs' = Dropped(G, lanes["fill"])
    BY DEF Save, Restore
  <2>2. Kept(epochs, F)
    BY HistoryFacts, MovesKeep
  <2> HIDE DEF F
  <2>3. F \in Seq(EpochType)
    BY <2>2 DEF Kept, Follows
  <2>4. Kept(F, Copied(F)) /\ Kept(F, G)
    BY <2>3, MovesKeep
  <2> HIDE DEF G
  <2>5. G \in Seq(EpochType)
    BY <2>4 DEF Kept, Follows
  <2>6. Kept(G, Dropped(G, lanes["fill"]))
    BY <2>5, MovesKeep
  <2>7. Kept(F, Dropped(G, lanes["fill"]))
    BY <2>3, <2>4, <2>6, KeptTransitive
  <2> QED
    BY <2>1, <2>2, <2>4, <2>7, HistoryFacts, KeptTransitive
<1>3. Extended(epochs, epochs', 0, {})
  BY <1>2, KeptExtended
<1>4. Advances(o, 0, {})
  <2>1. ~ReadsUnproven(o, walk.gs) /\ o.kind # "set"
    BY <1>1 DEF ReadsUnproven
  <2> QED
    BY <1>3, <2>1 DEF Advances, Heeds
<1>5. AllHeld(epochs', lanes, saved, walk)
  BY <1>4, HeldNow
<1>6. CASE Save(o)
  <2>1. o.kind = "q" /\ lanes' = lanes /\ saved' = Append(saved, lanes)
    BY <1>6 DEF Save
  <2>2. walk'.gs = walk.gs /\ walk'.stack = Append(walk.stack, walk.gs)
    BY <1>1, <2>1, HistoryFacts, WalkedSave
  <2>3. AllHeld(epochs', lanes', saved', walk')
    BY <1>5, <2>1, <2>2, HistoryFacts, HeldSaved
  <2> QED
    BY <1>1, <1>4, <2>3, HistoryStep
<1>7. CASE Restore(o)
  <2>1. o.kind = "Q" /\ lanes' = saved[Len(saved)] /\ saved' = SubSeq(saved, 1, Len(saved) - 1)
    BY <1>7 DEF Restore
  <2>2. /\ walk.stack # <<>> /\ walk'.gs = walk.stack[Len(walk.stack)]
        /\ walk'.stack = SubSeq(walk.stack, 1, Len(walk.stack) - 1)
    BY <1>1, <2>1, HistoryFacts, WalkedRestore
  <2>3. AllHeld(epochs', lanes', saved', walk')
    BY <1>5, <2>1, <2>2, HistoryFacts, HeldRestored
  <2> QED
    BY <1>1, <1>4, <2>3, HistoryStep
<1> QED
  BY <1>6, <1>7

(* A colour operator, whose lane is given the branch b.                    *)
LEMMA HistoryColoured ==
    ASSUME MirrorInv, LedgerNow, HistoryNow, NEW o, IsOperator(o), Observe(o),
           o.kind \in {"select", "set", "device"}, NEW root, NEW news, Advances(o, root, news),
           saved' = saved, NEW b, lanes' = [lanes EXCEPT ![o.lane] = b],
           b.root # 0 => epochs'[b.root].lane = o.lane, news # {} => b.root = root
    PROVE  HistoryNow'
<1>1. walk' = Walked(walk, o, Now)
  BY DEF Observe
<1>2. o.lane \in Lanes /\ Recolors(walk, walk', o.lane) /\ walk'.gs[o.lane].source = Now
  BY <1>1, HistoryFacts, WalkedColor, ColourSource
<1>3. AllHeld(epochs', lanes, saved, walk)
  BY HeldNow
<1>4. CandidatesOK(epochs, word) /\ Extended(epochs, epochs', root, news)
  BY DEF LedgerNow, LedgerOK, Advances
<1>5. AllHeld(epochs', [lanes EXCEPT ![o.lane] = b], saved, walk')
  BY <1>2, <1>3, <1>4, HistoryFacts, HeldColoured
<1>6. AllHeld(epochs', lanes', saved', walk')
  BY <1>5
<1> QED
  BY <1>6, HistoryStep

(* What is decided of a record keeps the epochs.                           *)
LEMMA KeptDecided ==
    ASSUME NEW E \in Seq(EpochType), Now \in Nat, NEW root, NEW facts, NEW condition
    PROVE  Kept(E, RefusedIf(condition, AfterDecision(E, Now, root, facts), Now))
<1> DEFINE A == AfterDecision(E, Now, root, facts)
<1>1. Kept(E, A)
  BY AfterDecisionMarks DEF Marks
<1> HIDE DEF A
<1>2. A \in Seq(EpochType)
  BY <1>1 DEF Kept, Follows
<1>3. Kept(A, RefusedIf(condition, A, Now))
  BY <1>2, MovesKeep
<1>4. Kept(E, RefusedIf(condition, A, Now))
  BY <1>1, <1>3, KeptTransitive
<1> QED
  BY <1>4 DEF A

(* So does the end of a branch.                                            *)
LEMMA KeptEnded ==
    ASSUME MirrorInv, NEW condition, NEW branch
    PROVE  Kept(epochs, Dropped(RefusedIf(condition, epochs, Now), branch))
<1> DEFINE F == RefusedIf(condition, epochs, Now)
<1>1. epochs \in Seq(EpochType) /\ Now \in Nat
  BY LedgerFacts
<1>2. Kept(epochs, F)
  BY <1>1, MovesKeep
<1> HIDE DEF F
<1>3. F \in Seq(EpochType)
  BY <1>2 DEF Kept, Follows
<1>4. Kept(F, Dropped(F, branch))
  BY <1>3, MovesKeep
<1>5. Kept(epochs, Dropped(F, branch))
  BY <1>1, <1>2, <1>4, KeptTransitive
<1> QED
  BY <1>5 DEF F

(* g, rg, k and the selections that open no epoch.                         *)
LEMMA HistoryEnded ==
    ASSUME MirrorInv, LedgerNow, HistoryNow, NEW o, IsOperator(o), SetDeviceColor(o) \/ SelectOther(o)
    PROVE  HistoryNow'
<1> DEFINE D == Dropped(RefusedIf(inPath, epochs, Now), lanes[o.lane])
<1>1. /\ Observe(o) /\ o.kind \in {"select", "set", "device"} /\ o.kind # "set" /\ o.kind \notin {"opaque", "show", "Do"}
      /\ lanes' = [lanes EXCEPT ![o.lane] = NoBranch] /\ saved' = saved
  BY DEF SetDeviceColor, SelectOther
<1>2. \/ epochs' = RefusedIf(inPath, D, Now)
      \/ epochs' = RefusedIf(inPath, AfterDecision(D, Now, 0, NoFacts), Now)
  BY DEF SetDeviceColor, SelectOther
<1>3. epochs \in Seq(EpochType) /\ Now \in Nat
  BY LedgerFacts
<1>4. Kept(epochs, D)
  BY KeptEnded
<1> HIDE DEF D
<1>5. D \in Seq(EpochType)
  BY <1>4 DEF Kept, Follows
<1>6. Kept(D, epochs')
  BY <1>2, <1>3, <1>5, MovesKeep, KeptDecided
<1>7. Kept(epochs, epochs')
  BY <1>3, <1>4, <1>6, KeptTransitive
<1>8. Advances(o, 0, {})
  <2>1. ~ReadsUnproven(o, walk.gs)
    BY <1>1 DEF ReadsUnproven
  <2> QED
    BY <1>1, <1>7, <2>1, KeptExtended DEF Advances, Heeds
<1>9. NoBranch.root = 0
  BY DEF NoBranch
<1> HIDE DEF HistoryNow
<1> QED
  BY <1>1, <1>8, <1>9, HistoryColoured

(* An epoch that a lane carries is the lane's.                             *)
LEMMA LaneOfBranch ==
    ASSUME MirrorInv, HistoryNow, NEW lane \in Lanes, lanes[lane].root # 0
    PROVE  lanes[lane].root \in 1 .. Len(epochs) /\ epochs[lanes[lane].root].lane = lane
<1>1. SameColors(epochs, lanes, walk.gs)
  BY DEF MirrorInv, PlanOK
<1>2. HeldBy(epochs, lanes[lane], lane, walk.gs[lane].source)
  BY HistoryFacts DEF AllHeld, Held
<1> QED
  BY <1>1, <1>2 DEF SameColors, SameColor, HeldBy

(* A setter that is no candidate: it stands outside every epoch, or its    *)
(* epoch is refused.                                                       *)
LEMMA HistoryLeft ==
    ASSUME MirrorInv, LedgerNow, HistoryNow, NEW o, IsOperator(o), o.kind = "set", Observe(o),
           Kept(epochs, epochs'), lanes' = lanes, saved' = saved,
           lanes[o.lane].root # 0 => epochs'[lanes[o.lane].root].refusal # NoRefusal
    PROVE  HistoryNow'
<1> DEFINE b == lanes[o.lane]
<1>1. Extended(epochs, epochs', 0, {}) /\ o.lane \in Lanes
  BY KeptExtended DEF IsOperator
<1>2. Advances(o, 0, {})
  <2>1. ~ReadsUnproven(o, walk.gs)
    BY DEF ReadsUnproven
  <2>2. ASSUME NEW lane \in Lanes, NEW i \in 1 .. Len(epochs), lanes[lane].root = i
        PROVE  Heeds(epochs', o, Now, lane, i, walk.gs)
    <3>1. i # 0
      OBVIOUS
    <3> QED
      BY <2>1, <2>2, <3>1 DEF Heeds
  <2> QED
    BY <1>1, <2>2 DEF Advances
<1>3. b.root # 0 => epochs'[b.root].lane = o.lane
  BY <1>1, LaneOfBranch DEF Kept
<1>4. lanes' = [lanes EXCEPT ![o.lane] = b]
  BY <1>1, HistoryFacts DEF LanePairs
<1>5. o.kind \in {"select", "set", "device"}
  OBVIOUS
<1> HIDE DEF b, HistoryNow
<1> QED
  BY <1>2, <1>3, <1>4, <1>5, HistoryColoured

(* The setters the plan leaves alone.                                      *)
LEMMA HistoryRefused ==
    ASSUME MirrorInv, LedgerNow, HistoryNow, NEW o, IsOperator(o),
           SetOutsideEpoch(o) \/ RefuseSetter(o)
    PROVE  HistoryNow'
<1>1. epochs \in Seq(EpochType) /\ Now \in Nat
  BY LedgerFacts
<1>2. CASE SetOutsideEpoch(o)
  <2>1. /\ o.kind = "set" /\ Observe(o) /\ lanes' = lanes /\ saved' = saved /\ lanes[o.lane].root = 0
        /\ epochs' = RefusedIf(inPath, AfterDecision(epochs, Now, 0, NoFacts), Now)
    BY <1>2 DEF SetOutsideEpoch
  <2>2. Kept(epochs, epochs')
    BY <1>1, <2>1, KeptDecided
  <2> QED
    BY <2>1, <2>2, HistoryLeft
<1>3. CASE RefuseSetter(o)
  <2> DEFINE root == lanes[o.lane].root
             F == RefusedIf(inPath, epochs, Now)
             G == RefusedAmong(F, {root}, Now, Setting(o))
  <2>1. /\ o.kind = "set" /\ Observe(o) /\ lanes' = lanes /\ saved' = saved /\ root # 0
        /\ Setting(o) # "eligible"
        /\ epochs' = RefusedIf(inPath, AfterDecision(G, Now, root, NoFacts), Now)
    BY <1>3 DEF RefuseSetter
  <2>2. root \in 1 .. Len(epochs)
    BY <2>1, SetterFacts DEF SameColor
  <2>3. Setting(o) \in Reasons
    BY <2>1 DEF Setting, Reasons
  <2>4. Kept(epochs, F)
    BY <1>1, MovesKeep
  <2> HIDE DEF F
  <2>5. F \in Seq(EpochType) /\ Len(F) = Len(epochs)
    BY <2>4 DEF Kept, Follows
  <2> HIDE DEF root
  <2>6. Kept(F, G) /\ G[root].refusal # NoRefusal
    BY <1>1, <2>2, <2>3, <2>5, RefusingMarks DEF Marks
  <2> HIDE DEF G
  <2>7. G \in Seq(EpochType) /\ Len(G) = Len(epochs)
    BY <2>5, <2>6 DEF Kept, Follows
  <2>8. Kept(G, epochs')
    BY <1>1, <2>1, <2>7, KeptDecided
  <2>9. epochs'[root].refusal # NoRefusal
    BY <2>2, <2>6, <2>7, <2>8 DEF Kept, Follows
  <2>10. Kept(epochs, epochs')
    <3>1. Kept(epochs, G)
      BY <1>1, <2>4, <2>6, KeptTransitive
    <3> QED
      BY <1>1, <2>8, <3>1, KeptTransitive
  <2> QED
    BY <2>1, <2>9, <2>10, HistoryLeft DEF root
<1> QED
  BY <1>2, <1>3

(* A candidate noted on the way.                                           *)
LEMMA HistoryNoted ==
    ASSUME MirrorInv, LedgerNow, HistoryNow, NEW o, IsOperator(o), o.kind \in ColourKinds,
           Observe(o), NEW E, Extends(epochs, E), NEW root \in 1 .. Len(E), E[root].lane = o.lane,
           NEW value \in Nat, NEW explicit, NEW condition,
           epochs' = RefusedIf(condition, WithCandidate(E, Now, root, value, explicit), Now),
           walk'.gs[o.lane].space = AliasSpace[E[root].alias], walk'.gs[o.lane].value = value,
           o.kind = "set" => Localized(Now) /\ lanes[o.lane].root = root,
           saved' = saved, NEW b, b.root = root, lanes' = [lanes EXCEPT ![o.lane] = b]
    PROVE  HistoryNow'
<1> DEFINE C == WithCandidate(E, Now, root, value, explicit)
           news == NewsAt(Now, value)
           c == [at |-> Now, value |-> value]
<1>1. epochs \in Seq(EpochType) /\ Now \in Nat /\ o.kind \in {"select", "set", "device"}
  BY LedgerFacts DEF ColourKinds
<1>2. E \in Seq(EpochType) /\ Len(E) \in Nat
  BY LenProperties DEF Extends, Follows
<1>3. Extended(E, C, root, news) /\ (Localized(Now) => c \in Candidates(C[root]))
  BY <1>1, <1>2, CandidateExtends
<1>4. \A d \in news : d.at = Now /\ d.value = value
  BY DEF NewsAt
<1>5. c.at = Now
  OBVIOUS
<1>6. epochs' = RefusedIf(condition, C, Now)
  OBVIOUS
<1> HIDE DEF C, news, c, HistoryNow
<1>7. C \in Seq(EpochType) /\ root \in 1 .. Len(C) /\ Len(C) \in Nat
  <2>1. C \in Seq(EpochType) /\ Len(E) <= Len(C)
    BY <1>3 DEF Extended, Follows
  <2> QED
    BY <1>2, <2>1, LenProperties
<1>8. Kept(C, epochs')
  BY <1>1, <1>6, <1>7, MovesKeep
<1>9. Extended(epochs, epochs', root, news)
  BY <1>1, <1>2, <1>3, <1>8, ExtendedBetween
<1>10. epochs'[root].alias = E[root].alias /\ epochs'[root].lane = o.lane
  <2>1. C[root].alias = E[root].alias /\ C[root].lane = E[root].lane
    BY <1>3 DEF Extended, Follows
  <2>2. epochs'[root].alias = C[root].alias /\ epochs'[root].lane = C[root].lane
    BY <1>7, <1>8 DEF Kept, Follows
  <2> QED
    BY <2>1, <2>2
<1>11. ASSUME Localized(Now) PROVE \E d \in Candidates(epochs'[root]) : d.at = Now
  <2>1. Candidates(epochs'[root]) = Candidates(C[root])
    BY <1>7, <1>8 DEF Kept, Candidates
  <2> QED
    BY <1>3, <1>5, <1>11, <2>1
<1>12. ASSUME NEW lane \in Lanes, NEW i \in 1 .. Len(epochs), lanes[lane].root = i
       PROVE  Heeds(epochs', o, Now, lane, i, walk.gs)
  <2>1. ~ReadsUnproven(o, walk.gs)
    BY <1>1 DEF ReadsUnproven
  <2>2. CASE o.kind = "set" /\ o.lane = lane
    BY <1>11, <1>12, <2>2, Zenon DEF Heeds
  <2>3. CASE ~(o.kind = "set" /\ o.lane = lane)
    BY <2>1, <2>3 DEF Heeds
  <2> QED
    BY <2>2, <2>3
<1>13. \A d \in news : d.at = Now /\ GenuineAt(epochs'[root], d, o, walk'.gs)
  BY <1>4, <1>10 DEF GenuineAt
<1>14. Advances(o, root, news)
  BY <1>9, <1>12, <1>13 DEF Advances
<1> QED
  BY <1>1, <1>10, <1>14, HistoryColoured

(* An epoch opens.                                                         *)
LEMMA HistorySelected ==
    ASSUME MirrorInv, LedgerNow, HistoryNow, NEW o, IsOperator(o), SelectAlias(o)
    PROVE  HistoryNow'
<1>1. /\ Observe(o) /\ o.kind = "select" /\ o.name \in Eligible /\ saved' = saved
      /\ o.kind \in ColourKinds
  BY DEF SelectAlias, ColourKinds
<1>2. PICK R : \E root : Opens(o, R, root)
  BY SelectionOpens
<1>3. PICK root : Opens(o, R, root)
  BY <1>2
<1>4. walk' = Walked(walk, o, Now) /\ walk'.gs[o.lane] = SelectedColor(o.name, Now)
  BY <1>1, HistoryFacts, WalkedColor DEF Observe
<1>5. walk'.gs[o.lane].space = AliasSpace[o.name] /\ walk'.gs[o.lane].value = 0
  BY <1>1, <1>4, PolicyAssumption DEF SelectedColor, Eligible
<1> DEFINE b == [root |-> root, value |-> 0, source |-> Now]
<1>6. b.root = root /\ lanes' = [lanes EXCEPT ![o.lane] = b]
  BY <1>3 DEF Opens
<1>7. /\ Extends(epochs, R) /\ root \in 1 .. Len(R) /\ R[root].alias = o.name /\ R[root].lane = o.lane
      /\ epochs' = RefusedIf(inPath, WithCandidate(R, Now, root, 0, FALSE), Now)
      /\ 0 \in Nat /\ o.kind # "set"
  BY <1>1, <1>3 DEF Opens
<1>8. walk'.gs[o.lane].space = AliasSpace[R[root].alias] /\ walk'.gs[o.lane].value = 0
  BY <1>5, <1>7
<1> HIDE DEF b, HistoryNow
<1> QED
  BY <1>1, <1>6, <1>7, <1>8, HistoryNoted

(* An eligible setter.                                                     *)
LEMMA HistorySet ==
    ASSUME MirrorInv, LedgerNow, HistoryNow, NEW o, IsOperator(o), SetInEpoch(o)
    PROVE  HistoryNow'
<1> DEFINE root == lanes[o.lane].root
           before == RefusedIf(inPath, epochs, Now)
           agrees == /\ walk.gs[o.lane].name = epochs[root].alias
                     /\ walk.gs[o.lane].space = AliasSpace[epochs[root].alias]
           refused == RefusedAmong(before, {root}, Now, "StateMismatch")
           b == [root |-> root, value |-> o.value, source |-> Now]
<1>1. /\ Observe(o) /\ o.kind = "set" /\ root # 0 /\ Setting(o) = "eligible" /\ saved' = saved
      /\ agrees => /\ epochs' = RefusedIf(inPath, WithCandidate(before, Now, root, o.value, TRUE), Now)
                   /\ lanes' = [lanes EXCEPT ![o.lane] = b]
      /\ ~agrees => /\ epochs' = AfterDecision(refused, Now, root, NoFacts)
                    /\ lanes' = lanes
  BY DEF SetInEpoch
<1>2. /\ Now \in Nat /\ o.value \in Nat /\ SameColor(epochs, lanes[o.lane], walk.gs[o.lane])
      /\ epochs \in Seq(EpochType) /\ o.kind \in ColourKinds /\ o.lane \in Lanes
      /\ walk.gs[o.lane] \in Colors /\ walk'.gs[o.lane] = SetColor(walk.gs[o.lane], o, Now)
  BY <1>1, SetterFacts DEF ColourKinds
<1>3. root \in 1 .. Len(epochs) /\ epochs[root].lane = o.lane
  BY <1>1, <1>2, LaneOfBranch
<1>4. Kept(epochs, before)
  BY <1>2, MovesKeep
<1> HIDE DEF before, HistoryNow
<1>5. /\ before \in Seq(EpochType) /\ root \in 1 .. Len(before)
      /\ before[root].alias = epochs[root].alias /\ before[root].lane = epochs[root].lane
      /\ epochs[root].refusal # NoRefusal => before[root].refusal # NoRefusal
  <2> HIDE DEF root
  <2> QED
    BY <1>3, <1>4 DEF Kept, Follows
<1>6. CASE agrees
  <2>1. walk'.gs[o.lane].space = AliasSpace[before[root].alias] /\ walk'.gs[o.lane].value = o.value
    <3>1. /\ SetColor(walk.gs[o.lane], o, Now).space = walk.gs[o.lane].space
          /\ SetColor(walk.gs[o.lane], o, Now).value = o.value
      BY <1>2 DEF SetColor, Colors
    <3> QED
      BY <1>2, <1>5, <1>6, <3>1
  <2>2. Localized(Now)
    BY <1>1 DEF Setting
  <2>3. Extends(epochs, before)
    BY <1>4, KeptExtends
  <2>4. /\ epochs' = RefusedIf(inPath, WithCandidate(before, Now, root, o.value, TRUE), Now)
        /\ lanes' = [lanes EXCEPT ![o.lane] = b] /\ b.root = root /\ lanes[o.lane].root = root
    BY <1>1, <1>6
  <2> HIDE DEF root, b
  <2> QED
    BY <1>1, <1>2, <1>3, <1>5, <2>1, <2>2, <2>3, <2>4, HistoryNoted
<1>7. CASE ~agrees
  <2>1. before[root].refusal # NoRefusal
    BY <1>1, <1>2, <1>5, <1>7 DEF SameColor
  <2>2. refused = before
    <3> HIDE DEF root
    <3> QED
      BY <1>5, <2>1, FirstRefusalStays
  <2>3. epochs' = RefusedIf(FALSE, AfterDecision(before, Now, root, NoFacts), Now) /\ lanes' = lanes
    BY <1>1, <1>7, <2>2 DEF RefusedIf
  <2> HIDE DEF root
  <2>4. Kept(before, epochs')
    BY <1>2, <1>5, <2>3, KeptDecided
  <2>5. Kept(epochs, epochs')
    BY <1>2, <1>4, <2>4, KeptTransitive
  <2>6. epochs'[root].refusal # NoRefusal
    BY <1>5, <2>1, <2>4 DEF Kept, Follows
  <2> QED
    BY <1>1, <2>3, <2>5, <2>6, HistoryLeft DEF root
<1> QED
  BY <1>6, <1>7

(* So the history goes on with every operator walked.                      *)
LEMMA HistoryWalked ==
    ASSUME MirrorInv, LedgerNow, HistoryNow, NEW o, IsOperator(o), ObserveOperator(o), ~AbandonPage(o)
    PROVE  HistoryNow'
<1>1. CASE PaintPath(o) \/ ShowText(o) \/ InvokeXObject(o)
  <2>1. ASSUME NEW i \in 1 .. Len(epochs), ReadsUnproven(o, walk.gs), epochs[i].live > 0
        PROVE  epochs'[i].refusal # NoRefusal
    <3>1. ~PaintPath(o)
      BY <2>1 DEF PaintPath, ReadsUnproven
    <3> QED
      BY <1>1, <2>1, <3>1, UnprovenRefuses
  <2> QED
    BY <1>1, <2>1, ConsumerStep, HistoryPlain
<1>2. CASE \/ ObserveNeutral(o) \/ BeginPath(o) \/ ContinuePath(o) \/ BeginText(o)
           \/ EndText(o) \/ BeginMarked(o) \/ EndMarked(o) \/ Opaque(o)
  <2>1. ASSUME NEW i \in 1 .. Len(epochs), ReadsUnproven(o, walk.gs), epochs[i].live > 0
        PROVE  epochs'[i].refusal # NoRefusal
    <3>1. o.kind \in {"opaque", "show", "Do"}
      BY <2>1 DEF ReadsUnproven
    <3>2. Opaque(o)
      BY <1>2, <3>1 DEF ObserveNeutral, BeginPath, ContinuePath, BeginText, EndText,
         BeginMarked, EndMarked
    <3> QED
      BY <2>1, <3>2, UnprovenRefuses
  <2> QED
    BY <1>2, <2>1, PlacementStep, HistoryPlain
<1>3. CASE SelectAlias(o)
  BY <1>3, HistorySelected
<1>4. CASE SetOutsideEpoch(o) \/ RefuseSetter(o)
  BY <1>4, HistoryRefused
<1>5. CASE SetInEpoch(o)
  BY <1>5, HistorySet
<1>6. CASE Save(o) \/ Restore(o)
  BY <1>6, HistoryFrames
<1>7. CASE SetDeviceColor(o) \/ SelectOther(o)
  BY <1>7, HistoryEnded
<1> QED
  BY <1>1, <1>2, <1>3, <1>4, <1>5, <1>6, <1>7 DEF ObserveOperator

-----------------------------------------------------------------------------
(* The page as it is written: rw replaces operators of p, whose walk is h, *)
(* and d are the replacements that convert where they stand.  A record is  *)
(* replaced by the converted form of the colour it set, and a colour whose *)
(* selection or setter was replaced is neither read by what cannot be      *)
(* looked into nor set by what stays.                                      *)
Converting(rw, routes, p, h) ==
  \A n \in DOMAIN rw :
    /\ n \in 1 .. Len(p) /\ p[n].kind \in {"select", "set", "device"}
    /\ h[n].gs[p[n].lane].space \in DOMAIN routes
    /\ rw[n] = [kind |-> "device", lane |-> p[n].lane,
                name |-> routes[h[n].gs[p[n].lane].space],
                value |-> h[n].gs[p[n].lane].value + 100]
Heeding(rw, d, p, h) ==
  \A n \in 1 .. Len(p) : \A lane \in Lanes :
    h[n - 1].gs[lane].source \in DOMAIN rw \ d =>
      /\ ~ReadsUnproven(p[n], h[n - 1].gs)
      /\ p[n].kind = "set" /\ p[n].lane = lane => n \in DOMAIN rw
WrittenOK(rw, d, routes, p, h) ==
  /\ p \in Seq(OperatorRecords) /\ \A n \in 1 .. Len(p) : IsOperator(p[n])
  /\ routes \in [DOMAIN routes -> STRING] /\ PastOK(h, p)
  /\ d \subseteq DOMAIN rw /\ \A n \in d : p[n].kind = "device"
  /\ Converting(rw, routes, p, h) /\ Heeding(rw, d, p, h)

(* Three colours in the same place: c of the page that was, e of the page  *)
(* that is written, s of the page without setters.                         *)
Alike(rw, d, routes, p, c, e, s) ==
  /\ c.source \in d => s.source = c.source
  /\ c.source \in DOMAIN rw => e.space = routes[c.space] /\ e.value = c.value + 100
  /\ ~(c.source \in DOMAIN rw) =>
       \/ e.space = c.space /\ e.value = c.value
       \/ p[c.source].kind = "set" /\ s.source \in d
AllAlike(rw, d, routes, p, u, v, w) ==
  \A lane \in Lanes : Alike(rw, d, routes, p, u[lane], v[lane], w[lane])
Together(rw, d, routes, p, u, v, w) ==
  /\ v \in Walks /\ w \in Walks
  /\ Len(v.stack) = Len(u.stack) /\ Len(w.stack) = Len(u.stack)
  /\ AllAlike(rw, d, routes, p, u.gs, v.gs, w.gs)
  /\ \A k \in 1 .. Len(u.stack) :
       AllAlike(rw, d, routes, p, u.stack[k], v.stack[k], w.stack[k])

(* What a record of the page becomes in the page that is written and in    *)
(* the page without setters.                                               *)
Replacing(rw, p, n) == IF n \in DOMAIN rw THEN rw[n] ELSE p[n]
Selecting(p, n) == IF p[n].kind = "set" THEN [p[n] EXCEPT !.kind = "neutral"] ELSE p[n]

(* The three stay together over operators that set no colour.              *)
LEMMA TogetherPlain ==
    ASSUME NEW rw, NEW d, NEW routes, NEW p, NEW u \in Walks, NEW v, NEW w,
           Together(rw, d, routes, p, u, v, w), NEW o, IsOperator(o), PlainKinds(o), NEW n \in Nat
    PROVE  Together(rw, d, routes, p, Walked(u, o, n), Walked(v, o, n), Walked(w, o, n))
<1> DEFINE x == Walked(u, o, n)
           y == Walked(v, o, n)
           z == Walked(w, o, n)
<1>1. v \in Walks /\ w \in Walks /\ o \in OperatorRecords
      /\ o.kind \notin {"q", "Q", "select", "set", "device"}
  BY DEF Together, IsOperator, PlainKinds
<1>2. /\ x \in Walks /\ x.stack = u.stack /\ \A lane \in Lanes : x.gs[lane] = u.gs[lane]
      /\ y \in Walks /\ y.stack = v.stack /\ \A lane \in Lanes : y.gs[lane] = v.gs[lane]
      /\ z \in Walks /\ z.stack = w.stack /\ \A lane \in Lanes : z.gs[lane] = w.gs[lane]
  BY <1>1, WalkedPlain
<1> HIDE DEF x, y, z
<1>3. AllAlike(rw, d, routes, p, x.gs, y.gs, z.gs)
  BY <1>2 DEF Together, AllAlike
<1>4. Together(rw, d, routes, p, x, y, z)
  BY <1>2, <1>3 DEF Together
<1> QED
  BY <1>4 DEF x, y, z

(* q.                                                                      *)
LEMMA TogetherSaved ==
    ASSUME NEW rw, NEW d, NEW routes, NEW p, NEW u \in Walks, NEW v, NEW w,
           Together(rw, d, routes, p, u, v, w), NEW o, o.kind = "q", NEW n
    PROVE  Together(rw, d, routes, p, Walked(u, o, n), Walked(v, o, n), Walked(w, o, n))
<1> DEFINE x == Walked(u, o, n)
           y == Walked(v, o, n)
           z == Walked(w, o, n)
           m == Len(u.stack)
<1>1. v \in Walks /\ w \in Walks
  BY DEF Together
<1>2. /\ x.gs = u.gs /\ x.stack = Append(u.stack, u.gs)
      /\ y \in Walks /\ y.gs = v.gs /\ y.stack = Append(v.stack, v.gs)
      /\ z \in Walks /\ z.gs = w.gs /\ z.stack = Append(w.stack, w.gs)
  BY <1>1, WalkedSave
<1> HIDE DEF x, y, z
<1>3. /\ u.stack \in Seq(Snapshots) /\ u.gs \in Snapshots /\ v.stack \in Seq(Snapshots)
      /\ v.gs \in Snapshots /\ w.stack \in Seq(Snapshots) /\ w.gs \in Snapshots
  BY <1>1 DEF Walks
<1>4. m \in Nat /\ Len(v.stack) = m /\ Len(w.stack) = m
  BY <1>3, LenProperties DEF Together
<1>5. /\ Len(x.stack) = m + 1 /\ x.stack[m + 1] = u.gs /\ \A k \in 1 .. m : x.stack[k] = u.stack[k]
      /\ Len(y.stack) = m + 1 /\ y.stack[m + 1] = v.gs /\ \A k \in 1 .. m : y.stack[k] = v.stack[k]
      /\ Len(z.stack) = m + 1 /\ z.stack[m + 1] = w.gs /\ \A k \in 1 .. m : z.stack[k] = w.stack[k]
  <2>1. \A t \in Seq(Snapshots), g \in Snapshots :
          /\ Len(Append(t, g)) = Len(t) + 1 /\ Append(t, g)[Len(t) + 1] = g
          /\ \A k \in 1 .. Len(t) : Append(t, g)[k] = t[k]
    BY AppendProperties
  <2> QED
    BY <1>2, <1>3, <1>4, <2>1
<1>6. ASSUME NEW k \in 1 .. Len(x.stack)
      PROVE  AllAlike(rw, d, routes, p, x.stack[k], y.stack[k], z.stack[k])
  <2>1. k \in 1 .. m \/ k = m + 1
    BY <1>4, <1>5
  <2> QED
    BY <1>5, <2>1 DEF Together
<1>7. Together(rw, d, routes, p, x, y, z)
  BY <1>2, <1>5, <1>6 DEF Together
<1> QED
  BY <1>7 DEF x, y, z

(* Q.                                                                      *)
LEMMA TogetherRestored ==
    ASSUME NEW rw, NEW d, NEW routes, NEW p, NEW u \in Walks, NEW v, NEW w,
           Together(rw, d, routes, p, u, v, w), NEW o, o.kind = "Q", ~WalkFails(u, o), NEW n
    PROVE  Together(rw, d, routes, p, Walked(u, o, n), Walked(v, o, n), Walked(w, o, n))
<1> DEFINE x == Walked(u, o, n)
           y == Walked(v, o, n)
           z == Walked(w, o, n)
           m == Len(u.stack)
<1>1. v \in Walks /\ w \in Walks
  BY DEF Together
<1>2. /\ u.stack \in Seq(Snapshots) /\ v.stack \in Seq(Snapshots) /\ w.stack \in Seq(Snapshots)
  BY <1>1 DEF Walks
<1>3. m \in Nat /\ m # 0 /\ Len(v.stack) = m /\ Len(w.stack) = m
  BY <1>2, LenProperties, EmptySeq DEF Together, WalkFails
<1>4. ~WalkFails(v, o) /\ ~WalkFails(w, o)
  <2>1. v.stack # <<>> /\ w.stack # <<>>
    BY <1>3, EmptySeq
  <2> QED
    BY <2>1 DEF WalkFails
<1>5. /\ x.gs = u.stack[m] /\ x.stack = SubSeq(u.stack, 1, m - 1)
      /\ y \in Walks /\ y.gs = v.stack[m] /\ y.stack = SubSeq(v.stack, 1, m - 1)
      /\ z \in Walks /\ z.gs = w.stack[m] /\ z.stack = SubSeq(w.stack, 1, m - 1)
  BY <1>1, <1>3, <1>4, WalkedRestore
<1> HIDE DEF x, y, z
<1>6. /\ Len(x.stack) = m - 1 /\ \A k \in 1 .. (m - 1) : x.stack[k] = u.stack[k]
      /\ Len(y.stack) = m - 1 /\ \A k \in 1 .. (m - 1) : y.stack[k] = v.stack[k]
      /\ Len(z.stack) = m - 1 /\ \A k \in 1 .. (m - 1) : z.stack[k] = w.stack[k]
  <2> HIDE DEF m
  <2> QED
    BY <1>2, <1>3, <1>5, SubSeqProperties DEF m
<1>7. m \in 1 .. m /\ \A k \in 1 .. (m - 1) : k \in 1 .. m
  BY <1>3
<1>8. AllAlike(rw, d, routes, p, x.gs, y.gs, z.gs)
  BY <1>5, <1>7 DEF Together
<1>9. ASSUME NEW k \in 1 .. Len(x.stack)
      PROVE  AllAlike(rw, d, routes, p, x.stack[k], y.stack[k], z.stack[k])
  BY <1>6, <1>7 DEF Together
<1>10. Together(rw, d, routes, p, x, y, z)
  BY <1>5, <1>6, <1>8, <1>9 DEF Together
<1> QED
  BY <1>10 DEF x, y, z

(* A colour operator that stays.                                           *)
Passes(o, n, c, e, s, x, y, z) ==
  \/ o.kind # "set" /\ x = y /\ x = z /\ x.source = n
  \/ o.kind = "set" /\ x = SetColor(c, o, n) /\ y = SetColor(e, o, n) /\ z = s

(* What stays keeps the three colours of its lane alike.                   *)
LEMMA TogetherLeft ==
    ASSUME NEW rw, NEW d, NEW routes, NEW p, NEW h, WrittenOK(rw, d, routes, p, h),
           NEW n \in 1 .. Len(p), ~(n \in DOMAIN rw), p[n].kind \in {"select", "set", "device"},
           NEW c \in Colors, c = h[n - 1].gs[p[n].lane], NEW e \in Colors, NEW s,
           Alike(rw, d, routes, p, c, e, s), NEW x, NEW y, NEW z,
           Passes(p[n], n, c, e, s, x, y, z)
    PROVE  Alike(rw, d, routes, p, x, y, z)
<1>1. d \subseteq DOMAIN rw /\ IsOperator(p[n]) /\ Heeding(rw, d, p, h)
  BY DEF WrittenOK
<1>2. CASE p[n].kind # "set"
  BY <1>1, <1>2 DEF Alike, Passes
<1>3. CASE p[n].kind = "set"
  <2>1. /\ x.source = n /\ x.space = c.space /\ x.value = p[n].value
        /\ y.space = e.space /\ y.value = p[n].value /\ z = s
    BY <1>3 DEF SetColor, Colors, Passes
  <2>2. p[n].lane \in Lanes
    BY <1>1, <1>3 DEF IsOperator
  <2>3. ~(c.source \in DOMAIN rw \ d)
    BY <1>1, <1>3, <2>2 DEF Heeding
  <2>4. CASE c.source \in d
    BY <1>1, <1>3, <2>1, <2>4 DEF Alike
  <2>5. CASE ~(c.source \in DOMAIN rw)
    BY <1>1, <1>3, <2>1, <2>5 DEF Alike
  <2> QED
    BY <2>3, <2>4, <2>5
<1> QED
  BY <1>2, <1>3

(* A colour operator that is replaced.                                     *)
LEMMA TogetherReplaced ==
    ASSUME NEW rw, NEW d, NEW routes, NEW p, NEW h, WrittenOK(rw, d, routes, p, h),
           NEW n \in DOMAIN rw, NEW x, x = h[n].gs[p[n].lane], x.source = n,
           NEW z, p[n].kind = "device" => z.source = n
    PROVE  Alike(rw, d, routes, p, x, DeviceColor(rw[n], n), z)
<1>1. rw[n] = [kind |-> "device", lane |-> p[n].lane, name |-> routes[x.space], value |-> x.value + 100]
  BY DEF WrittenOK, Converting
<1>2. DeviceColor(rw[n], n).space = routes[x.space] /\ DeviceColor(rw[n], n).value = x.value + 100
  BY <1>1 DEF DeviceColor
<1>3. n \in d => z.source = n
  BY DEF WrittenOK
<1> QED
  BY <1>2, <1>3 DEF Alike

(* What a colour operator brings to its lane.                              *)
Brings(w, v, lane, c) == Recolors(w, v, lane) /\ v.gs[lane] = c

(* The three stay together over the operators that set colours.            *)
LEMMA TogetherRecoloured ==
    ASSUME NEW rw, NEW d, NEW routes, NEW p, NEW u \in Walks, NEW v, NEW w,
           Together(rw, d, routes, p, u, v, w), NEW lane \in Lanes,
           NEW x, NEW c, Brings(u, x, lane, c), NEW y, NEW e, Brings(v, y, lane, e),
           NEW z, NEW s, Brings(w, z, lane, s), Alike(rw, d, routes, p, c, e, s)
    PROVE  Together(rw, d, routes, p, x, y, z)
<1>1. AllAlike(rw, d, routes, p, x.gs, y.gs, z.gs)
  <2> SUFFICES ASSUME NEW k \in Lanes
               PROVE  Alike(rw, d, routes, p, x.gs[k], y.gs[k], z.gs[k])
    BY DEF AllAlike
  <2>1. CASE k = lane
    BY <2>1 DEF Brings
  <2>2. CASE k # lane
    BY <2>2 DEF Brings, Recolors, Together, AllAlike
  <2> QED
    BY <2>1, <2>2
<1>2. x.stack = u.stack /\ y.stack = v.stack /\ z.stack = w.stack
  BY DEF Brings, Recolors
<1> QED
  BY <1>1, <1>2 DEF Together, Brings, Recolors

(* A colour operator, replaced or left.                                    *)
LEMMA TogetherColoured ==
    ASSUME NEW rw, NEW d, NEW routes, NEW p, NEW h, WrittenOK(rw, d, routes, p, h),
           NEW n \in 1 .. Len(p), n \in Nat, p[n].kind \in {"select", "set", "device"},
           h[n - 1] \in Walks, h[n] = Walked(h[n - 1], p[n], n), NEW v, NEW w,
           Together(rw, d, routes, p, h[n - 1], v, w)
    PROVE  Together(rw, d, routes, p, h[n], Walked(v, Replacing(rw, p, n), n),
                    Walked(w, Selecting(p, n), n))
<1> DEFINE o == p[n]
           lane == p[n].lane
           u == h[n - 1]
           x == h[n]
           y == Walked(v, Replacing(rw, p, n), n)
           z == Walked(w, Selecting(p, n), n)
<1>1. IsOperator(o) /\ lane \in Lanes /\ o \in OperatorRecords
  BY DEF WrittenOK, IsOperator
<1>2. v \in Walks /\ w \in Walks
  BY DEF Together
<1>3. \A t \in Walks : t.gs[lane] \in Colors
  <2>1. \A t \in Walks : t.gs \in Snapshots
    BY DEF Walks
  <2> QED
    BY <1>1, <2>1 DEF Snapshots, Lanes
<1>4. Alike(rw, d, routes, p, u.gs[lane], v.gs[lane], w.gs[lane])
  BY <1>1 DEF Together, AllAlike
<1>5. Brings(u, x, lane, x.gs[lane]) /\ x.gs[lane].source = n
  BY <1>1, WalkedColor, ColourSource DEF Brings
<1>6. /\ o.kind = "set" => x.gs[lane] = SetColor(u.gs[lane], o, n)
      /\ o.kind = "select" => x.gs[lane] = SelectedColor(o.name, n)
      /\ o.kind = "device" => x.gs[lane] = DeviceColor(o, n)
  BY <1>1, WalkedColor
<1>7. /\ Brings(w, z, lane, z.gs[lane])
      /\ o.kind = "set" => z.gs[lane] = w.gs[lane]
      /\ o.kind # "set" => z.gs[lane] = x.gs[lane]
  <2>1. CASE o.kind = "set"
    <3>1. Selecting(p, n) = [o EXCEPT !.kind = "neutral"]
      BY <2>1 DEF Selecting
    <3>2. Selecting(p, n).kind = "neutral"
      BY <1>1, <3>1 DEF OperatorRecords
    <3>3. z = w
      BY <3>2 DEF Walked
    <3> QED
      BY <1>2, <2>1, <3>3 DEF Brings, Recolors
  <2>2. CASE o.kind # "set"
    <3>1. z = Walked(w, o, n)
      BY <2>2 DEF Selecting
    <3>2. /\ Recolors(w, Walked(w, o, n), lane)
          /\ o.kind = "select" => Walked(w, o, n).gs[lane] = SelectedColor(o.name, n)
          /\ o.kind = "device" => Walked(w, o, n).gs[lane] = DeviceColor(o, n)
      BY <1>1, <1>2, WalkedColor
    <3> QED
      BY <1>6, <2>2, <3>1, <3>2 DEF Brings
  <2> QED
    BY <2>1, <2>2
<1>8. CASE n \in DOMAIN rw
  <2> DEFINE r == rw[n]
             c == x.gs[lane]
  <2>1. /\ r = [kind |-> "device", lane |-> lane, name |-> routes[c.space], value |-> c.value + 100]
        /\ c.space \in DOMAIN routes /\ routes \in [DOMAIN routes -> STRING]
    BY <1>8 DEF WrittenOK, Converting
  <2>2. c \in Colors
    BY <1>3, <1>5 DEF Brings, Recolors
  <2>3. y = Walked(v, r, n)
    BY <1>8 DEF Replacing
  <2>4. routes[c.space] \in STRING /\ c.value + 100 \in Nat
    BY <2>1, <2>2 DEF Colors
  <2> HIDE DEF r, c
  <2>5. r.kind = "device" /\ r.lane = lane /\ ColourOperator(r)
    BY <1>1, <2>1, <2>4 DEF ColourOperator, Strings
  <2>6. Recolors(v, Walked(v, r, n), lane) /\ Walked(v, r, n).gs[lane] = DeviceColor(r, n)
    BY <1>2, <2>5, ColourWalked
  <2>7. Brings(v, y, lane, DeviceColor(r, n))
    BY <2>3, <2>6 DEF Brings
  <2>8. o.kind = "device" => z.gs[lane].source = n
    BY <1>5, <1>7
  <2>9. Alike(rw, d, routes, p, x.gs[lane], DeviceColor(rw[n], n), z.gs[lane])
    BY <1>5, <1>8, <2>8, TogetherReplaced
  <2> HIDE DEF x, y, z, u, lane
  <2>10. Together(rw, d, routes, p, x, y, z)
    BY <1>1, <1>5, <1>7, <2>7, <2>9, TogetherRecoloured DEF r, u
  <2> QED
    BY <2>10 DEF x, y, z
<1>9. CASE ~(n \in DOMAIN rw)
  <2>1. y = Walked(v, o, n)
    BY <1>9 DEF Replacing
  <2>2. /\ Brings(v, y, lane, y.gs[lane])
        /\ o.kind = "set" => y.gs[lane] = SetColor(v.gs[lane], o, n)
        /\ o.kind # "set" => y.gs[lane] = x.gs[lane]
    <3>1. /\ Recolors(v, Walked(v, o, n), lane)
          /\ o.kind = "select" => Walked(v, o, n).gs[lane] = SelectedColor(o.name, n)
          /\ o.kind = "set" => Walked(v, o, n).gs[lane] = SetColor(v.gs[lane], o, n)
          /\ o.kind = "device" => Walked(v, o, n).gs[lane] = DeviceColor(o, n)
      BY <1>1, <1>2, WalkedColor
    <3> QED
      BY <1>6, <2>1, <3>1 DEF Brings
  <2>3. Passes(p[n], n, u.gs[lane], v.gs[lane], w.gs[lane], x.gs[lane], y.gs[lane], z.gs[lane])
    BY <1>5, <1>6, <1>7, <2>2 DEF Passes
  <2> HIDE DEF x, y, z
  <2>4. Alike(rw, d, routes, p, x.gs[lane], y.gs[lane], z.gs[lane])
    <3>1. u.gs[lane] \in Colors /\ v.gs[lane] \in Colors
      BY <1>2, <1>3
    <3> QED
      BY <1>4, <1>9, <2>3, <3>1, TogetherLeft
  <2> HIDE DEF u, lane
  <2>5. Together(rw, d, routes, p, x, y, z)
    BY <1>1, <1>5, <1>7, <2>2, <2>4, TogetherRecoloured DEF u
  <2> QED
    BY <2>5 DEF x, y, z
<1> QED
  BY <1>8, <1>9

(* They start together.                                                    *)
LEMMA TogetherStarts ==
    ASSUME NEW rw, NEW d, NEW routes, NEW p, NEW h, WrittenOK(rw, d, routes, p, h), h[0] = WalkStart
    PROVE  Together(rw, d, routes, p, WalkStart, WalkStart, WalkStart)
<1>1. Len(p) \in Nat
  BY LenProperties DEF WrittenOK
<1>2. WalkStart \in Walks
  <2>1. 0 \in 0 .. Len(p)
    BY <1>1
  <2> QED
    BY <2>1 DEF WrittenOK, PastOK
<1>3. WalkStart.gs = PageDefault /\ WalkStart.stack = <<>>
  BY DEF WalkStart
<1>4. ~(0 \in DOMAIN rw)
  <2>1. ~(0 \in 1 .. Len(p))
    OBVIOUS
  <2> QED
    BY <2>1 DEF WrittenOK, Converting
<1>5. ASSUME NEW lane \in Lanes
      PROVE  Alike(rw, d, routes, p, PageDefault[lane], PageDefault[lane], PageDefault[lane])
  <2>1. PageDefault[lane].source = 0
    BY DEF PageDefault, Lanes
  <2> QED
    BY <1>4, <2>1 DEF Alike
<1>6. Len(<<>>) = 0
  BY EmptySeq
<1> QED
  BY <1>2, <1>3, <1>5, <1>6 DEF Together, AllAlike

(* They stay together over a record of the page.                           *)
LEMMA TogetherStep ==
    ASSUME NEW rw, NEW d, NEW routes, NEW p, NEW h, WrittenOK(rw, d, routes, p, h),
           NEW n \in 1 .. Len(p), h[n] = Walked(h[n - 1], p[n], n), NEW v, NEW w,
           Together(rw, d, routes, p, h[n - 1], v, w)
    PROVE  Together(rw, d, routes, p, h[n], Walked(v, Replacing(rw, p, n), n),
                    Walked(w, Selecting(p, n), n))
<1>1. Len(p) \in Nat /\ n \in Nat /\ n - 1 \in 0 .. Len(p)
  <2>1. Len(p) \in Nat
    BY LenProperties DEF WrittenOK
  <2> QED
    BY <2>1
<1>2. h[n - 1] \in Walks /\ ~WalkFails(h[n - 1], p[n]) /\ IsOperator(p[n])
  BY <1>1 DEF WrittenOK, PastOK
<1>3. CASE p[n].kind \in {"select", "set", "device"}
  BY <1>1, <1>2, <1>3, TogetherColoured
<1>4. CASE ~(p[n].kind \in {"select", "set", "device"})
  <2>1. ~(n \in DOMAIN rw)
    BY <1>4 DEF WrittenOK, Converting
  <2>2. Replacing(rw, p, n) = p[n] /\ Selecting(p, n) = p[n]
    BY <1>4, <2>1 DEF Replacing, Selecting
  <2>3. CASE p[n].kind = "q"
    BY <1>2, <2>2, <2>3, TogetherSaved
  <2>4. CASE p[n].kind = "Q"
    BY <1>2, <2>2, <2>4, TogetherRestored
  <2>5. CASE PlainKinds(p[n])
    BY <1>1, <1>2, <2>2, <2>5, TogetherPlain
  <2> QED
    BY <1>4, <2>3, <2>4, <2>5 DEF PlainKinds
<1> QED
  BY <1>3, <1>4

(* So they are together all the way.                                       *)
LEMMA AllTogether ==
    ASSUME NEW rw, NEW d, NEW routes, NEW p, NEW h, WrittenOK(rw, d, routes, p, h),
           WalkOf(p, h), NEW q, Len(q) = Len(p), \A n \in 1 .. Len(p) : q[n] = Replacing(rw, p, n),
           NEW g, WalkOf(q, g),
           NEW s, Len(s) = Len(p), \A n \in 1 .. Len(p) : s[n] = Selecting(p, n), NEW f, WalkOf(s, f)
    PROVE  \A n \in 0 .. Len(p) : Together(rw, d, routes, p, h[n], g[n], f[n])
<1> DEFINE apart == {n \in 0 .. Len(p) : ~Together(rw, d, routes, p, h[n], g[n], f[n])}
<1>1. apart = {}
  <2> SUFFICES ASSUME apart # {} PROVE FALSE
    OBVIOUS
  <2>1. apart \subseteq Nat /\ Len(p) \in Nat
    BY LenProperties DEF WrittenOK
  <2>2. PICK n \in apart : \A k \in apart : n <= k
    <3> HIDE DEF apart
    <3> QED
      BY <2>1, LeastExists
  <2>3. n # 0
    BY <2>2, TogetherStarts DEF WalkOf
  <2>4. n \in 1 .. Len(p) /\ n - 1 \in 0 .. Len(p) /\ n - 1 \notin apart
    BY <2>1, <2>2, <2>3
  <2>5. Together(rw, d, routes, p, h[n - 1], g[n - 1], f[n - 1])
    BY <2>4
  <2>6. /\ h[n] = Walked(h[n - 1], p[n], n) /\ g[n] = Walked(g[n - 1], Replacing(rw, p, n), n)
        /\ f[n] = Walked(f[n - 1], Selecting(p, n), n)
    BY <2>4 DEF WalkOf
  <2>7. Together(rw, d, routes, p, h[n], g[n], f[n])
    BY <2>4, <2>5, <2>6, TogetherStep
  <2> QED
    BY <2>2, <2>7
<1> QED
  BY <1>1

(* The lanes that an operator reads are lanes.                             *)
LEMMA LanesRead ==
    ASSUME NEW o, IsOperator(o), NEW gs
    PROVE  Reads(o, gs) \subseteq Lanes
<1>1. CASE ReadsUnproven(o, gs)
  BY <1>1 DEF Reads
<1>2. CASE ~ReadsUnproven(o, gs) /\ o.kind = "paint"
  <2>1. Reads(o, gs) = PaintedLanes(o)
    BY <1>2 DEF Reads
  <2>2. o.name \in {"stroke", "fill", "both", "end"}
    BY <1>2 DEF IsOperator
  <2> QED
    BY <2>1, <2>2 DEF PaintedLanes, Lanes
<1>3. CASE ~ReadsUnproven(o, gs) /\ o.kind = "show"
  <2>1. Reads(o, gs) = ModeLanes(gs.mode)
    BY <1>3 DEF Reads
  <2>2. gs.mode \in 0 .. 7
    BY <1>3 DEF ReadsUnproven
  <2>3. gs.mode \in {0, 4} \/ gs.mode \in {1, 5} \/ gs.mode \in {2, 6} \/ gs.mode \in {3, 7}
    BY <2>2
  <2> QED
    BY <2>1, <2>3 DEF ModeLanes, Lanes
<1>4. CASE ~ReadsUnproven(o, gs) /\ o.kind = "Do"
  <2>1. Reads(o, gs) = XObjectLanes[o.name] /\ o.name \in DOMAIN XObjectLanes
    BY <1>4 DEF Reads, ReadsUnproven
  <2> QED
    BY <2>1, PolicyAssumption
<1>5. CASE ~ReadsUnproven(o, gs) /\ o.kind \notin {"paint", "show", "Do"}
  BY <1>5 DEF Reads
<1> QED
  BY <1>1, <1>2, <1>3, <1>4, <1>5

(* The page that is written, when it is.                                   *)
Written == WrittenOK(rewritten, direct, page.routes, word, WalksOf(word))

(* A page written like this means what it meant.                           *)
LEMMA WrittenMeansTheSame == Written => RewriteKeepsMeaning
<1> SUFFICES ASSUME Written PROVE KeepsMeaning(SetUnderDevice)
  BY DEF RewriteKeepsMeaning
<1> DEFINE h == WalksOf(word)
           g == WalksOf(Output)
           f == WalksOf(Selections)
<1>1. word \in Seq(OperatorRecords) /\ Len(word) \in Nat /\ DOMAIN word = 1 .. Len(word)
  BY LenProperties DEF Written, WrittenOK
<1>2. Len(Output) = Len(word) /\ \A n \in 1 .. Len(word) : Output[n] = Replacing(rewritten, word, n)
  BY <1>1 DEF Output, Replacing
<1>3. Len(Selections) = Len(word) /\ \A n \in 1 .. Len(word) : Selections[n] = Selecting(word, n)
  BY <1>1 DEF Selections, Selecting
<1>4. WalkOf(word, h) /\ WalkOf(Output, g) /\ WalkOf(Selections, f)
  BY <1>1, <1>2, <1>3, WalksAre
<1> HIDE DEF g, f
<1>5. \A n \in 0 .. Len(word) :
        Together(rewritten, direct, page.routes, word, h[n], g[n], f[n])
  BY <1>2, <1>3, <1>4, AllTogether DEF Written
<1> SUFFICES ASSUME NEW n \in DOMAIN word, NEW lane \in Reads(word[n], h[n - 1].gs)
             PROVE  \/ SetUnderDevice(h[n - 1].gs[lane], f[n - 1].gs[lane])
                    \/ Shown(g[n - 1].gs[lane]) = ShownAfter(n, h[n - 1].gs, h[n - 1].gs[lane])
  BY DEF KeepsMeaning, g, f
<1>6. n \in 1 .. Len(word) /\ n - 1 \in 0 .. Len(word) /\ IsOperator(word[n])
  BY <1>1 DEF Written, WrittenOK
<1> DEFINE c == h[n - 1].gs[lane]
           e == g[n - 1].gs[lane]
           s == f[n - 1].gs[lane]
<1>7. lane \in Lanes
  BY <1>6, LanesRead
<1>8. Alike(rewritten, direct, page.routes, word, c, e, s)
  BY <1>5, <1>6, <1>7 DEF Together, AllAlike
<1>9. c.source \in DOMAIN rewritten \ direct => ~ReadsUnproven(word[n], h[n - 1].gs)
  BY <1>6, <1>7 DEF Written, WrittenOK, Heeding
<1> HIDE DEF c, e, s, h
<1>10. CASE c.source \in DOMAIN rewritten
  BY <1>8, <1>9, <1>10 DEF Alike, Shown, ShownAfter, c, e
<1>11. CASE ~(c.source \in DOMAIN rewritten)
  BY <1>8, <1>11 DEF Alike, Shown, ShownAfter, SetUnderDevice, c, e, s
<1> QED
  BY <1>10, <1>11

-----------------------------------------------------------------------------
(* The page is closed with the epochs E and its history h: what the plan   *)
(* writes then.                                                            *)
HistoryEnds(E, h) ==
  /\ ClosingOK(E) /\ \A n \in 1 .. Len(word) : IsOperator(word[n])
  /\ WalkOf(word, h) /\ PastOK(h, word) /\ Heeded(E, h, word) /\ Genuine(E, h, word)
Writing(E) ==
  [n \in {r.at : r \in PageRewrites(E)} |-> (CHOOSE r \in PageRewrites(E) : r.at = n).by]

(* Each record that is replaced is a candidate of an epoch that runs, or   *)
(* converted where it stands.                                              *)
LEMMA WritingIs ==
    ASSUME NEW E, NEW n \in DOMAIN Writing(E)
    PROVE  \E r \in PageRewrites(E) : r.at = n /\ Writing(E)[n] = r.by
<1> DEFINE X == PageRewrites(E)
           r == CHOOSE r \in X : r.at = n
<1>1. DOMAIN Writing(E) = {x.at : x \in X} /\ Writing(E)[n] = r.by
  BY DEF Writing
<1>2. \E x \in X : x.at = n
  BY <1>1
<1>3. r \in X /\ r.at = n
  BY <1>2
<1> HIDE DEF r
<1> QED
  BY <1>1, <1>3

(* A record that runs with its epoch is replaced by its colour, converted. *)
LEMMA AliasConverts ==
    ASSUME NEW E, NEW h, HistoryEnds(E, h), NEW r, NEW i, NEW c, FromAlias(E, r, i, c)
    PROVE  /\ E[i].refusal = NoRefusal /\ word[r.at].lane \in Lanes
           /\ h[r.at].gs[word[r.at].lane].space \in DOMAIN page.routes
           /\ r.by = Converted(word[r.at].lane, h[r.at].gs[word[r.at].lane].space,
                               h[r.at].gs[word[r.at].lane].value)
<1>1. /\ i \in 1 .. Len(E) /\ ~(i \in Stopped(E)) /\ c \in Candidates(E[i]) /\ r.at = c.at
      /\ r.by = Converted(E[i].lane, AliasSpace[E[i].alias], c.value)
  BY DEF FromAlias
<1>2. Executable(E[i])
  <2>1. Len(E) \in Nat /\ DOMAIN E = 1 .. Len(E)
    BY LenProperties DEF HistoryEnds, ClosingOK
  <2> QED
    BY <1>1, <2>1, StoppedIsClosed
<1>3. GenuineAt(E[i], c, word[c.at], h[c.at].gs)
  BY <1>1 DEF HistoryEnds, Genuine
<1>4. E[i].lane \in Lanes
  <2>1. r \in PageRewrites(E)
    BY RewritesAre DEF HistoryEnds
  <2>2. r.at \in 1 .. Len(word) /\ word[r.at].kind \in {"select", "set", "device"}
    BY <2>1, RewritesAreColours DEF HistoryEnds
  <2>3. word[r.at].lane \in Lanes
    BY <2>2 DEF HistoryEnds, IsOperator
  <2> QED
    BY <1>1, <1>3, <2>3 DEF GenuineAt
<1> QED
  BY <1>1, <1>2, <1>3, <1>4 DEF Executable, Routed, GenuineAt

(* So is a record converted where it stands.                               *)
LEMMA DirectConverts ==
    ASSUME NEW E, NEW h, HistoryEnds(E, h), NEW r, NEW n, FromDirect(r, n)
    PROVE  /\ word[n].lane \in Lanes /\ h[n].gs[word[n].lane].space \in DOMAIN page.routes
           /\ r.by = Converted(word[n].lane, h[n].gs[word[n].lane].space,
                               h[n].gs[word[n].lane].value)
<1>1. /\ n \in 1 .. Len(word) /\ word[n].kind = "device" /\ Routed(word[n].name)
      /\ r.by = Converted(word[n].lane, word[n].name, word[n].value)
  BY DEF FromDirect, Convertible
<1>2. Len(word) \in Nat
  BY LenProperties DEF HistoryEnds, ClosingOK
<1>3. n \in Nat /\ n - 1 \in 0 .. Len(word)
  BY <1>1, <1>2
<1>4. h[n - 1] \in Walks /\ h[n] = Walked(h[n - 1], word[n], n) /\ IsOperator(word[n])
  BY <1>1, <1>3 DEF HistoryEnds, PastOK, WalkOf
<1>5. word[n].lane \in Lanes /\ h[n].gs[word[n].lane] = DeviceColor(word[n], n)
  BY <1>1, <1>3, <1>4, WalkedColor
<1>6. /\ h[n].gs[word[n].lane].space = word[n].name
      /\ h[n].gs[word[n].lane].value = word[n].value
  BY <1>5 DEF DeviceColor
<1> QED
  BY <1>1, <1>5, <1>6 DEF Routed

(* The records that are replaced become the colours they set, converted.   *)
LEMMA WritingConverts ==
    ASSUME NEW E, NEW h, HistoryEnds(E, h)
    PROVE  Converting(Writing(E), page.routes, word, h)
<1> SUFFICES ASSUME NEW n \in DOMAIN Writing(E)
             PROVE  /\ n \in 1 .. Len(word) /\ word[n].kind \in {"select", "set", "device"}
                    /\ h[n].gs[word[n].lane].space \in DOMAIN page.routes
                    /\ Writing(E)[n] = Converted(word[n].lane, h[n].gs[word[n].lane].space,
                                                 h[n].gs[word[n].lane].value)
  BY DEF Converting, Converted
<1>1. PICK r \in PageRewrites(E) : r.at = n /\ Writing(E)[n] = r.by
  BY WritingIs
<1>2. n \in 1 .. Len(word) /\ word[n].kind \in {"select", "set", "device"}
  BY <1>1, RewritesAreColours DEF HistoryEnds
<1>3. (\E i, c : FromAlias(E, r, i, c)) \/ \E m : FromDirect(r, m)
  BY <1>1, RewritesAre DEF HistoryEnds
<1>4. ASSUME NEW i, NEW c, FromAlias(E, r, i, c)
      PROVE  /\ h[n].gs[word[n].lane].space \in DOMAIN page.routes
             /\ r.by = Converted(word[n].lane, h[n].gs[word[n].lane].space,
                                 h[n].gs[word[n].lane].value)
  BY <1>1, <1>4, AliasConverts
<1>5. ASSUME NEW m, FromDirect(r, m)
      PROVE  /\ h[n].gs[word[n].lane].space \in DOMAIN page.routes
             /\ r.by = Converted(word[n].lane, h[n].gs[word[n].lane].space,
                                 h[n].gs[word[n].lane].value)
  <2>1. m = n
    BY <1>1, <1>5 DEF FromDirect
  <2> QED
    BY <1>5, <2>1, DirectConverts
<1> QED
  BY <1>1, <1>2, <1>3, <1>4, <1>5

(* A record is converted where it stands exactly when the plan says so.    *)
LEMMA WritingDirect ==
    ASSUME NEW E, ClosingOK(E)
    PROVE  /\ direct \subseteq DOMAIN Writing(E) /\ \A n \in direct : word[n].kind = "device"
           /\ \A n \in DOMAIN Writing(E) \ direct :
                \E r : r.at = n /\ \E i, c : FromAlias(E, r, i, c)
<1>1. direct = {n \in 1 .. Len(word) : Convertible(word[n], n)}
  BY DEF ClosingOK, DirectOK
<1>2. DOMAIN Writing(E) = {r.at : r \in PageRewrites(E)}
  BY DEF Writing
<1>3. ASSUME NEW n \in direct
      PROVE  n \in DOMAIN Writing(E) /\ word[n].kind = "device"
  <2> DEFINE r == [at |-> n, by |-> Converted(word[n].lane, word[n].name, word[n].value)]
  <2>1. FromDirect(r, n) /\ r.at = n
    BY <1>1 DEF FromDirect
  <2> HIDE DEF r
  <2>2. r \in PageRewrites(E)
    BY <2>1, RewritesAre
  <2> QED
    BY <1>1, <1>2, <2>1, <2>2 DEF Convertible
<1>4. ASSUME NEW n \in DOMAIN Writing(E), ~(n \in direct)
      PROVE  \E r : r.at = n /\ \E i, c : FromAlias(E, r, i, c)
  <2>1. PICK r \in PageRewrites(E) : r.at = n
    BY <1>2
  <2>2. ~ \E m : FromDirect(r, m)
    <3> SUFFICES ASSUME NEW m, FromDirect(r, m) PROVE FALSE
      OBVIOUS
    <3>1. m = n /\ n \in 1 .. Len(word) /\ Convertible(word[n], n)
      BY <2>1 DEF FromDirect
    <3> QED
      BY <1>1, <1>4, <3>1
  <2>3. \E i, c : FromAlias(E, r, i, c)
    BY <2>1, <2>2, RewritesAre
  <2> QED
    BY <2>1, <2>3
<1> QED
  BY <1>3, <1>4

(* What reads a colour of a record that runs with its epoch is known, and  *)
(* what sets a colour in its space is replaced too.                        *)
LEMMA WritingHeeds ==
    ASSUME NEW E, NEW h, HistoryEnds(E, h)
    PROVE  Heeding(Writing(E), direct, word, h)
<1>0. ClosingOK(E) /\ Heeded(E, h, word)
  BY DEF HistoryEnds
<1> SUFFICES ASSUME NEW n \in 1 .. Len(word), NEW lane \in Lanes,
                    h[n - 1].gs[lane].source \in DOMAIN Writing(E) \ direct
             PROVE  /\ ~ReadsUnproven(word[n], h[n - 1].gs)
                    /\ word[n].kind = "set" /\ word[n].lane = lane => n \in DOMAIN Writing(E)
  BY DEF Heeding
<1>1. \E r : r.at = h[n - 1].gs[lane].source /\ \E i, c : FromAlias(E, r, i, c)
  BY <1>0, WritingDirect
<1>2. PICK r, i, c : r.at = h[n - 1].gs[lane].source /\ FromAlias(E, r, i, c)
  BY <1>1
<1>3. /\ i \in 1 .. Len(E) /\ ~(i \in Stopped(E)) /\ c \in Candidates(E[i])
      /\ c.at = h[n - 1].gs[lane].source
  BY <1>2 DEF FromAlias
<1>4. Heeds(E, word[n], n, lane, i, h[n - 1].gs)
  BY <1>0, <1>3, Zenon DEF Heeded
<1>5. E[i].refusal = NoRefusal
  BY <1>2, AliasConverts
<1>6. ~ReadsUnproven(word[n], h[n - 1].gs)
  <2>1. ReadsUnproven(word[n], h[n - 1].gs) => word[n].kind # "set"
    BY DEF ReadsUnproven
  <2> QED
    BY <1>4, <1>5, <2>1 DEF Heeds
<1>7. ASSUME word[n].kind = "set", word[n].lane = lane
      PROVE  n \in DOMAIN Writing(E)
  <2>1. \E d \in Candidates(E[i]) : d.at = n
    BY <1>4, <1>5, <1>7 DEF Heeds
  <2>2. PICK d \in Candidates(E[i]) : d.at = n
    BY <2>1
  <2> DEFINE s == [at |-> d.at, by |-> Converted(E[i].lane, AliasSpace[E[i].alias], d.value)]
  <2>3. FromAlias(E, s, i, d) /\ s.at = n
    BY <1>3, <2>2 DEF FromAlias
  <2> HIDE DEF s
  <2>4. s \in PageRewrites(E)
    BY <1>0, <2>3, RewritesAre
  <2> QED
    BY <2>3, <2>4 DEF Writing
<1> QED
  BY <1>6, <1>7

(* A refusal more at the end of the page changes nothing of the history.   *)
LEMMA HistoryMarked ==
    ASSUME NEW E, NEW F, Marks(E, F), NEW h, NEW p, Heeded(E, h, p), Genuine(E, h, p)
    PROVE  Heeded(F, h, p) /\ Genuine(F, h, p)
<1>1. Extended(E, F, 0, {}) /\ Len(F) = Len(E)
  BY KeptExtended DEF Marks, Kept
<1>2. \A i \in 1 .. Len(E) : /\ F[i].alias = E[i].alias /\ F[i].lane = E[i].lane
                             /\ Candidates(F[i]) = Candidates(E[i])
  BY DEF Marks, Kept, Follows, Candidates
<1>3. Genuine(F, h, p)
  <2> SUFFICES ASSUME NEW i \in 1 .. Len(F), NEW c \in Candidates(F[i])
               PROVE  GenuineAt(F[i], c, p[c.at], h[c.at].gs)
    BY DEF Genuine
  <2>1. GenuineAt(E[i], c, p[c.at], h[c.at].gs)
    BY <1>1, <1>2 DEF Genuine
  <2> QED
    BY <1>1, <1>2, <2>1 DEF GenuineAt
<1>4. Heeded(F, h, p)
  <2> SUFFICES ASSUME NEW n \in 1 .. Len(p), NEW lane \in Lanes, NEW i \in 1 .. Len(F),
                      NEW c \in Candidates(F[i]), c.at = h[n - 1].gs[lane].source
               PROVE  Heeds(F, p[n], n, lane, i, h[n - 1].gs)
    BY DEF Heeded
  <2>1. i \in 1 .. Len(E) /\ c \in Candidates(E[i])
    BY <1>1, <1>2
  <2>2. Heeds(E, p[n], n, lane, i, h[n - 1].gs)
    BY <2>1, Zenon DEF Heeded
  <2> QED
    BY <1>1, <2>1, <2>2, HeedsExtended
<1> QED
  BY <1>3, <1>4

(* The end of the page writes what its history bears out.                  *)
LEMMA MeaningFinished ==
    ASSUME AgreeInv, HistoryNow, Finish, outcome' = "edited"
    PROVE  Written'
<1> DEFINE E == ClosedEpochs
           h == WalksOf(word)
<1>1. MirrorInv /\ ClosingOK(E) /\ Marks(epochs, E)
  BY ClosingHolds DEF AgreeInv
<1>2. Len(word) \in Nat /\ word \in Seq(OperatorRecords)
      /\ \A n \in 1 .. Len(word) : IsOperator(word[n])
  BY <1>1, LenProperties DEF MirrorInv
<1>3. WalkOf(word, h)
  BY <1>2, WalksAre
<1>4. PastOK(h, word) /\ Heeded(epochs, h, word) /\ Genuine(epochs, h, word)
  BY DEF HistoryNow, HistoryOK
<1>5. page' = page /\ word' = word /\ direct' = direct /\ rewritten' = Writing(E)
  BY DEF Finish, Writing, PageRewrites
<1> HIDE DEF h, E
<1>6. HistoryEnds(E, h)
  BY <1>1, <1>2, <1>3, <1>4, HistoryMarked DEF HistoryEnds
<1>7. page.routes \in [DOMAIN page.routes -> STRING]
  BY <1>1, PageAssumption DEF MirrorInv
<1>8. WrittenOK(Writing(E), direct, page.routes, word, h)
  BY <1>1, <1>2, <1>4, <1>6, <1>7, WritingConverts, WritingHeeds, WritingDirect DEF WrittenOK
<1>9. WrittenOK(rewritten', direct', page'.routes, word', WalksOf(word'))
  BY <1>5, <1>8 DEF h
<1> QED
  BY <1>9 DEF Written

-----------------------------------------------------------------------------
(* While the page is walked its history holds; once it is edited it is     *)
(* written as the history bears out.                                       *)
MeaningInv ==
  /\ AgreeInv
  /\ outcome = "walking" => HistoryNow
  /\ outcome = "edited" => Written

(* It holds at the start.                                                  *)
LEMMA MeaningStarts ==
    ASSUME Init
    PROVE  MeaningInv
<1>1. AgreeInv
  BY AgreeStarts
<1>2. /\ word = <<>> /\ walk = WalkStart /\ lanes = NoLanes /\ saved = <<>> /\ epochs = <<>>
      /\ outcome = "walking"
  BY DEF Init
<1>3. Len(word) = 0 /\ Len(epochs) = 0 /\ Len(saved) = 0 /\ 1 .. 0 = {} /\ 0 .. 0 = {0}
  BY <1>2
<1>4. WalksOf(word)[0] = WalkStart
  BY <1>3, WalksAre DEF WalkOf
<1>5. walk \in Walks
  BY <1>1 DEF AgreeInv, MirrorInv, PlanOK
<1>6. PastSources(WalkStart, 0)
  <2>1. WalkStart.stack = <<>> /\ \A lane \in Lanes : WalkStart.gs[lane].source = 0
    BY DEF WalkStart, PageDefault, Lanes
  <2>2. Len(WalkStart.stack) = 0
    BY <2>1
  <2> QED
    BY <1>3, <2>1, <2>2 DEF PastSources
<1> DEFINE h == WalksOf(word)
<1> HIDE DEF h
<1>7. PastOK(h, word)
  BY <1>2, <1>3, <1>4, <1>5, <1>6 DEF PastOK, h
<1>8. AllHeld(epochs, lanes, saved, walk)
  <2>1. \A lane \in Lanes : lanes[lane].root = 0
    BY <1>2 DEF NoLanes, NoBranch
  <2> QED
    BY <1>3, <2>1 DEF AllHeld, Held, HeldBy
<1>9. Heeded(epochs, h, word) /\ Genuine(epochs, h, word)
  BY <1>3 DEF Heeded, Genuine
<1>10. HistoryNow
  BY <1>2, <1>3, <1>4, <1>7, <1>8, <1>9 DEF HistoryNow, HistoryOK, h
<1> QED
  BY <1>1, <1>2, <1>10 DEF MeaningInv

(* No step breaks it.                                                      *)
LEMMA MeaningStays ==
    ASSUME MeaningInv, [Next]_vars
    PROVE  MeaningInv'
<1>1. AgreeInv /\ AgreeInv'
  BY AgreeStays DEF MeaningInv
<1>2. ASSUME outcome = "walking", NEW o \in NextOperators, Len(word) < Len(page.cells),
             ObserveOperator(o)
      PROVE  (outcome = "walking" => HistoryNow)' /\ (outcome = "edited" => Written)'
  <2>1. outcome' \in {"walking", "refused"}
    BY <1>2 DEF ObserveOperator, Save, Restore, SelectAlias, SelectOther, SetOutsideEpoch,
       SetInEpoch, RefuseSetter, SetDeviceColor, PaintPath, ShowText, InvokeXObject,
       ObserveNeutral, BeginPath, ContinuePath, BeginText, EndText, BeginMarked, EndMarked,
       Opaque, AbandonPage, KeepConversion
  <2>2. MirrorInv /\ LedgerNow /\ HistoryNow
    BY <1>1, <1>2 DEF AgreeInv, MeaningInv
  <2>3. IsOperator(o)
    BY <1>2, <2>2, NextAreOperators
  <2>4. ASSUME outcome' = "walking" PROVE HistoryNow'
    <3>1. ~AbandonPage(o)
      BY <2>4 DEF AbandonPage
    <3> QED
      BY <1>2, <2>2, <2>3, <3>1, HistoryWalked
  <2> QED
    BY <2>1, <2>4
<1>3. CASE Finish
  <2>1. outcome = "walking" /\ outcome' # "walking"
    BY <1>1, <1>3, AgreeFinished DEF Finish
  <2>2. HistoryNow
    BY <2>1 DEF MeaningInv
  <2>3. outcome' = "edited" => Written'
    BY <1>1, <1>3, <2>2, MeaningFinished
  <2> QED
    BY <1>1, <2>1, <2>3 DEF MeaningInv
<1>4. CASE UNCHANGED vars
  <2>1. /\ page' = page /\ word' = word /\ epochs' = epochs /\ lanes' = lanes /\ saved' = saved
        /\ walk' = walk /\ direct' = direct /\ outcome' = outcome /\ rewritten' = rewritten
    BY <1>4 DEF vars, plan
  <2>2. (HistoryNow => HistoryNow') /\ (Written => Written')
    BY <2>1 DEF HistoryNow, Written
  <2> QED
    BY <1>1, <2>1, <2>2 DEF MeaningInv
<1> QED
  BY <1>1, <1>2, <1>3, <1>4 DEF Next, MeaningInv

(* Conversion changes records one at a time and the page means the same:   *)
(* on every page that is edited each paint, text, image or form sees the   *)
(* converted form of a colour whose record was rewritten and the old       *)
(* colour where it was not; no setter stays behind under an alias that was *)
(* rewritten, and nothing that may read colours unseen meets a converted   *)
(* alias (convert_sequence with execute_alias_epochs).                     *)
THEOREM RewriteAlwaysKeepsMeaning == Spec => []RewriteKeepsMeaning
<1>1. Init => MeaningInv
  BY MeaningStarts
<1>2. MeaningInv /\ [Next]_vars => MeaningInv'
  BY MeaningStays
<1>3. MeaningInv => RewriteKeepsMeaning
  <2>1. outcome # "edited" => RewriteKeepsMeaning
    BY DEF RewriteKeepsMeaning
  <2> QED
    BY <2>1, WrittenMeansTheSame DEF MeaningInv
<1> QED
  BY <1>1, <1>2, <1>3, PTL DEF Spec

-----------------------------------------------------------------------------
(* An epoch that has been read, if anything could be made of it.           *)
Seen(e) == e.consumed \/ e.refusal # NoRefusal

(* A consumer sees the epoch of the lane it reads.                         *)
LEMMA ConsumedSees ==
    ASSUME NEW E \in Seq(EpochType), NEW lane \in Lanes, NEW at \in Nat,
           lanes \in LanePairs, SameColors(E, lanes, walk.gs)
    PROVE  /\ Quiet(E, Consumed(E, lane, at))
           /\ \A i \in 1 .. Len(E) : lanes[lane].root = i => Seen(Consumed(E, lane, at)[i])
<1> DEFINE root == lanes[lane].root
           branch == lanes[lane]
           colour == walk.gs[lane]
           agrees == /\ colour.name = E[branch.root].alias
                     /\ colour.space = AliasSpace[E[branch.root].alias]
                     /\ colour.value = branch.value
                     /\ colour.source = branch.source
           F == [E EXCEPT ![root].consumed = TRUE]
           G == RefusedAmong(E, {root}, at, "StateMismatch")
           C == Consumed(E, lane, at)
<1>1. C = IF root = 0 THEN E ELSE IF agrees THEN F ELSE G
  BY DEF Consumed, root, branch, colour, agrees, F, G
<1>2. SameColor(E, lanes[lane], walk.gs[lane])
  BY DEF SameColors
<1>3. /\ DOMAIN E = 1 .. Len(E) /\ Len(E) \in Nat /\ \A i \in 1 .. Len(E) : E[i] \in EpochType
  BY LenProperties, ElementOfSeq
<1>4. CASE root = 0
  BY <1>1, <1>3, <1>4, QuietReflexive
<1>5. CASE root # 0 /\ agrees
  <2>1. root \in 1 .. Len(E) /\ C = F
    BY <1>1, <1>2, <1>5 DEF SameColor
  <2>2. Kept(E, C)
    BY ConsumedMarks DEF Marks
  <2> HIDE DEF root, agrees, C
  <2>3. \A e \in EpochType : /\ [e EXCEPT !.consumed = TRUE].refusal = e.refusal
                             /\ [e EXCEPT !.consumed = TRUE].consumed = TRUE
    BY DEF EpochType
  <2>4. \A i \in 1 .. Len(E) : F[i] = IF i = root THEN [E[i] EXCEPT !.consumed = TRUE] ELSE E[i]
    BY <1>3, <2>1
  <2>5. \A i \in 1 .. Len(E) : /\ C[i].refusal = E[i].refusal
                               /\ E[i].consumed => C[i].consumed
                               /\ root = i => C[i].consumed
    <3> HIDE DEF F
    <3> QED
      BY <1>3, <2>1, <2>3, <2>4
  <2> QED
    BY <2>2, <2>5 DEF Quiet, Seen, root, C
<1>6. CASE root # 0 /\ ~agrees
  <2>1. root \in 1 .. Len(E) /\ E[root].refusal # NoRefusal
    BY <1>2, <1>6 DEF SameColor
  <2>2. C = E
    <3> HIDE DEF root, agrees
    <3> QED
      BY <1>1, <1>6, <2>1, FirstRefusalStays
  <2> QED
    BY <2>1, <2>2, QuietReflexive DEF Seen
<1> QED
  BY <1>4, <1>5, <1>6

(* What the lanes carry stays the walker's when nothing is refused.        *)
LEMMA QuietColours ==
    ASSUME NEW E \in Seq(EpochType), NEW F, Quiet(E, F), SameColors(E, lanes, walk.gs)
    PROVE  SameColors(F, lanes, walk.gs)
<1> SUFFICES ASSUME NEW lane \in Lanes
             PROVE  SameColor(F, lanes[lane], walk.gs[lane])
  BY DEF SameColors
<1>1. SameColor(E, lanes[lane], walk.gs[lane])
  BY DEF SameColors
<1>2. Len(F) = Len(E) /\ \A i \in 1 .. Len(E) : F[i].refusal = E[i].refusal /\ F[i].alias = E[i].alias
  BY DEF Quiet, Kept, Follows
<1> QED
  BY <1>1, <1>2 DEF SameColor

(* A consumer of several lanes sees the epochs of all of them.             *)
LEMMA ConsumedBothSees ==
    ASSUME NEW E \in Seq(EpochType), NEW read, NEW at \in Nat,
           lanes \in LanePairs, SameColors(E, lanes, walk.gs)
    PROVE  LET B == ConsumedBoth(E, read, at)
           IN  /\ Quiet(E, B)
               /\ \A lane \in Lanes : \A i \in 1 .. Len(E) :
                    lane \in read /\ lanes[lane].root = i => Seen(B[i])
<1> DEFINE S == IF "stroke" \in read THEN Consumed(E, "stroke", at) ELSE E
           B == ConsumedBoth(E, read, at)
<1>1. /\ Quiet(E, S)
      /\ \A i \in 1 .. Len(E) : "stroke" \in read /\ lanes["stroke"].root = i => Seen(S[i])
  BY ConsumedSees, QuietReflexive DEF Lanes
<1>2. B = IF "fill" \in read THEN Consumed(S, "fill", at) ELSE S
  BY DEF ConsumedBoth
<1> HIDE DEF S, B
<1>3. S \in Seq(EpochType) /\ Len(S) = Len(E) /\ SameColors(S, lanes, walk.gs)
  BY <1>1, QuietColours DEF Quiet, Kept, Follows
<1>4. /\ Quiet(S, B)
      /\ \A i \in 1 .. Len(E) : "fill" \in read /\ lanes["fill"].root = i => Seen(B[i])
  BY <1>2, <1>3, ConsumedSees, QuietReflexive DEF Lanes
<1>5. Quiet(E, B)
  BY <1>1, <1>4, QuietTransitive
<1>6. \A i \in 1 .. Len(E) : Seen(S[i]) => Seen(B[i])
  BY <1>3, <1>4 DEF Quiet, Seen
<1>7. \A lane \in Lanes : \A i \in 1 .. Len(E) :
        lane \in read /\ lanes[lane].root = i => Seen(B[i])
  BY <1>1, <1>4, <1>6 DEF Lanes
<1> QED
  BY <1>5, <1>7 DEF B

-----------------------------------------------------------------------------
(* The grammar of graphics objects, one operator at a time.                *)
Entered(before, kind) ==
  CASE before = "page" /\ kind = "BT" -> "text"
    [] before = "page" /\ kind = "m" -> "path"
    [] before = "page" /\ kind \notin {"BT", "ET", "m", "l", "show"} -> "page"
    [] before = "text" /\ kind = "ET" -> "page"
    [] before = "text" /\ kind \in {"select", "set", "device", "show", "Tr", "Tf",
                                   "gs", "neutral"} -> "text"
    [] before = "path" /\ kind \in {"m", "l"} -> "path"
    [] before = "path" /\ kind = "paint" -> "page"
    [] OTHER -> "misplaced"
InsideIs(p, f) == f[0] = "page" /\ \A n \in 1 .. Len(p) : f[n] = Entered(f[n - 1], p[n].kind)

(* The objects a program stands in, by recursion.                          *)
InsideLevels(program, f) ==
  f = [n \in 0 .. Len(program) |-> IF n = 0 THEN "page" ELSE Entered(f[n - 1], program[n].kind)]

(* Such a function exists.                                                 *)
LEMMA InsideExists ==
    ASSUME NEW program, Len(program) \in Nat
    PROVE  \E f : InsideLevels(program, f)
<1> DEFINE X == {"page", "text", "path", "misplaced"}
           N == Len(program)
           g == [s \in X \X (1 .. N) |-> Entered(s[1], program[s[2]].kind)]
<1>1. "page" \in X /\ N \in Nat
  OBVIOUS
<1>2. ASSUME NEW before, NEW kind PROVE Entered(before, kind) \in X
  BY DEF Entered
<1>3. ASSUME NEW n \in 1 .. N, NEW x \in X PROVE g[<<x, n>>] = Entered(x, program[n].kind)
  <2> HIDE DEF X, N
  <2>1. <<x, n>> \in X \X (1 .. N) /\ <<x, n>>[1] = x /\ <<x, n>>[2] = n
    OBVIOUS
  <2>2. g[<<x, n>>] = Entered(<<x, n>>[1], program[<<x, n>>[2]].kind)
    BY <2>1, Zenon
  <2> QED
    BY <2>1, <2>2
<1> HIDE DEF X, g, N
<1>4. Steps(g, X, N)
  <2>1. ASSUME NEW n \in 1 .. N, NEW x \in X PROVE g[<<x, n>>] \in X
    <3>1. g[<<x, n>>] = Entered(x, program[n].kind)
      BY <1>3
    <3>2. Entered(x, program[n].kind) \in X
      BY <1>2
    <3> QED
      BY <3>1, <3>2
  <2> QED
    BY <2>1 DEF Steps
<1>5. PICK f : Recursion(f, "page", g, X, N)
  BY <1>1, <1>4, RecursionExists
<1>6. \A n \in 0 .. N : f[n] \in X
  BY <1>5 DEF Recursion
<1>7. ASSUME NEW n \in 0 .. N
      PROVE  f[n] = IF n = 0 THEN "page" ELSE Entered(f[n - 1], program[n].kind)
  <2>1. f[n] = IF n = 0 THEN "page" ELSE g[<<f[n - 1], n>>]
    BY <1>5 DEF Recursion
  <2>2. CASE n # 0
    <3>1. n \in 1 .. N /\ n - 1 \in 0 .. N
      BY <1>1, <2>2
    <3>2. g[<<f[n - 1], n>>] = Entered(f[n - 1], program[n].kind)
      BY <1>3, <1>6, <3>1
    <3> QED
      BY <2>1, <2>2, <3>2
  <2> QED
    BY <2>1, <2>2
<1>8. f = [n \in 0 .. N |-> f[n]]
  BY <1>5 DEF Recursion
<1> QED
  BY <1>7, <1>8 DEF InsideLevels, N

(* What it is then.                                                        *)
LEMMA InsideAre ==
    ASSUME NEW program, Len(program) \in Nat
    PROVE  InsideIs(program, Inside(program))
<1> DEFINE f == CHOOSE f : InsideLevels(program, f)
<1>1. InsideLevels(program, f)
  BY InsideExists
<1>2. Inside(program) = f
  BY DEF Inside, InsideLevels, Entered
<1> HIDE DEF f
<1>3. \A n \in 0 .. Len(program) :
        f[n] = IF n = 0 THEN "page" ELSE Entered(f[n - 1], program[n].kind)
  BY <1>1 DEF InsideLevels
<1>4. 0 \in 0 .. Len(program) /\ \A n \in 1 .. Len(program) : n \in 0 .. Len(program) /\ n # 0
  OBVIOUS
<1>5. f[0] = "page"
  BY <1>3, <1>4
<1>6. \A n \in 1 .. Len(program) : f[n] = Entered(f[n - 1], program[n].kind)
  BY <1>3, <1>4
<1> QED
  BY <1>2, <1>5, <1>6 DEF InsideIs

-----------------------------------------------------------------------------
(* A page that has been plain so far: p is what was walked, h its walk and *)
(* f the objects it stood in.                                              *)
PlainRecord(o, n, gs) ==
  /\ Localized(n) /\ InPlaceObject(n) /\ o.kind \notin {"BMC", "EMC"} /\ ~ReadsUnproven(o, gs)
  /\ o.kind = "set" => o.value # BadValue /\ o.name = NoName
PlainSoFar(p, h, f) ==
  /\ Repeated = {} /\ InsideIs(p, f) /\ f[Len(p)] # "misplaced"
  /\ \A n \in 1 .. Len(p) : PlainRecord(p[n], n, h[n - 1].gs)

(* There the plan knows what object is open, nothing is refused without a  *)
(* reason that the page does not show, and what was read is known to be.   *)
Standing(place, t, x, m) ==
  /\ place \in {"page", "text", "path"} /\ m = 0
  /\ (t <=> place = "text") /\ (x <=> place = "path")
Faulty(e) ==
  \/ ~Routed(AliasSpace[e.alias]) \/ ~RouteIsRaw(AliasSpace[e.alias])
  \/ \E c \in Candidates(e) : c.value \in page.excluded
Justified(E) == \A i \in 1 .. Len(E) : E[i].refusal # NoRefusal => Faulty(E[i])
ReadSeen(E, h, p) ==
  \A n \in 1 .. Len(p) : \A lane \in Reads(p[n], h[n - 1].gs) :
    \A i \in 1 .. Len(E) : \A c \in Candidates(E[i]) :
      c.at = h[n - 1].gs[lane].source => Seen(E[i])
PlainOK(E, D, p, h, t, x, m) ==
  /\ Repeated = {} => DOMAIN D = {}
  /\ \A f : PlainSoFar(p, h, f) => /\ Standing(f[Len(p)], t, x, m)
                                   /\ Justified(E) /\ ReadSeen(E, h, p)

(* An operator of a plain page that stands in its place.                   *)
Stands(o, place) ==
  /\ Standing(place, inText, inPath, marked) /\ Entered(place, o.kind) # "misplaced"
  /\ PlainRecord(o, Now, walk.gs)

(* The plan knows which objects are open around it.                        *)
LEMMA PlainPlace ==
    ASSUME NEW o, NEW place, Stands(o, place)
    PROVE  /\ inPath => o.kind \in {"m", "l", "paint"}
           /\ inText => o.kind \in {"ET", "select", "set", "device", "show", "Tr", "Tf", "gs", "neutral"}
           /\ o.kind = "l" => inPath
           /\ o.kind \in {"show", "ET"} => inText
           /\ marked = 0 /\ o.kind \notin {"opaque", "BMC", "EMC"}
<1>1. o.kind \notin {"opaque", "BMC", "EMC"}
  BY DEF Stands, PlainRecord, ReadsUnproven
<1>2. CASE place = "page"
  BY <1>1, <1>2 DEF Stands, Standing, Entered
<1>3. CASE place = "text"
  BY <1>1, <1>3 DEF Stands, Standing, Entered
<1>4. CASE place = "path"
  BY <1>1, <1>4 DEF Stands, Standing, Entered
<1> QED
  BY <1>2, <1>3, <1>4 DEF Stands, Standing

(* The plan follows the grammar.                                           *)
LEMMA PlainPlaced ==
    ASSUME NEW o, NEW place, Stands(o, place), ObserveOperator(o), ~AbandonPage(o)
    PROVE  Standing(Entered(place, o.kind), inText', inPath', marked')
<1>1. o.kind \notin {"opaque", "BMC", "EMC"}
  BY PlainPlace
<1>2. CASE o.kind \in {"m", "BT", "ET", "paint"}
  <2>1. /\ o.kind = "m" => BeginPath(o)
        /\ o.kind = "BT" => BeginText(o)
        /\ o.kind = "ET" => EndText(o)
        /\ o.kind = "paint" => PaintPath(o)
    BY <1>2 DEF ObserveOperator, Save, Restore, SelectAlias, SelectOther, SetOutsideEpoch,
       SetInEpoch, RefuseSetter, SetDeviceColor, PaintPath, ShowText, InvokeXObject,
       ObserveNeutral, BeginPath, ContinuePath, BeginText, EndText, BeginMarked, EndMarked, Opaque
  <2>2. CASE o.kind = "m"
    <3>1. /\ inPath' = (inPath \/ ~inText) /\ inText' = inText /\ marked' = marked
      BY <2>1, <2>2 DEF BeginPath
    <3>2. place # "text" /\ Entered(place, "m") = "path"
      BY <2>2 DEF Stands, Standing, Entered
    <3>3. ~inText
      BY <3>2 DEF Stands, Standing
    <3>4. inPath' /\ ~inText' /\ marked' = 0
      BY <3>1, <3>3 DEF Stands, Standing
    <3> QED
      BY <2>2, <3>2, <3>4 DEF Standing
  <2>3. CASE o.kind = "BT"
    BY <2>1, <2>3 DEF BeginText, Stands, Standing, Entered
  <2>4. CASE o.kind = "ET"
    BY <2>1, <2>4 DEF EndText, Stands, Standing, Entered
  <2>5. CASE o.kind = "paint"
    BY <2>1, <2>5 DEF PaintPath, Stands, Standing, Entered
  <2> QED
    BY <1>2, <2>2, <2>3, <2>4, <2>5
<1>3. CASE o.kind \notin {"m", "BT", "ET", "paint"}
  <2>1. inText' = inText /\ inPath' = inPath /\ marked' = marked
    BY <1>1, <1>3 DEF ObserveOperator, Save, Restore, SelectAlias, SelectOther, SetOutsideEpoch,
       SetInEpoch, RefuseSetter, SetDeviceColor, PaintPath, ShowText, InvokeXObject,
       ObserveNeutral, BeginPath, ContinuePath, BeginText, EndText, BeginMarked, EndMarked, Opaque,
       KeepObjects
  <2>2. Entered(place, o.kind) = place
    BY <1>3 DEF Stands, Standing, Entered
  <2> QED
    BY <2>1, <2>2 DEF Stands
<1> QED
  BY <1>2, <1>3

(* A record that nothing is decided about.                                 *)
Undecided(at, root, facts) ==
  /\ Decided(at, root, facts) = decisions
  /\ \A E : AfterDecision(E, at, root, facts) = E

(* A page without repeated objects, so far.                                *)
CalmPage == Repeated = {} /\ DOMAIN decisions = {}

(* None of its records is decided about.                                   *)
LEMMA PlainDecides ==
    ASSUME CalmPage, NEW at, NEW root, NEW facts
    PROVE  Undecided(at, root, facts)
<1>1. Decided(at, root, facts) = decisions
  BY DEF Decided, CalmPage
<1> QED
  BY <1>1 DEF AfterDecision, Undecided, CalmPage

(* F refuses of E at most the epoch of a candidate the selector excludes.  *)
RefusesExcluded(E, F, root, value) ==
  \A i \in 1 .. Len(E) :
    /\ F[i].consumed = E[i].consumed
    /\ F[i].refusal # NoRefusal =>
         E[i].refusal # NoRefusal \/ (i = root /\ value \in page.excluded)

(* A candidate of a plain page does no more.                               *)
LEMMA CandidateRefuses ==
    ASSUME NEW E \in Seq(EpochType), NEW at \in Nat, NEW root \in 1 .. Len(E),
           NEW value \in Nat, NEW explicit, Localized(at), InPlaceObject(at), CalmPage
    PROVE  RefusesExcluded(E, WithCandidate(E, at, root, value, explicit), root, value)
<1> DEFINE selected == IF value \in page.excluded
                       THEN RefusedAmong(E, {root}, at, "SelectorExcluded") ELSE E
           c == [at |-> at, value |-> value]
           added == [selected EXCEPT ![root].candidates = Append(@, c)]
           W == WithCandidate(E, at, root, value, explicit)
<1>1. W = added
  <2>1. W = AfterDecision(added, at, root, Facts(E, root, value, explicit))
    BY DEF WithCandidate
  <2> DEFINE facts == Facts(E, root, value, explicit)
  <2> HIDE DEF added, W, facts
  <2>2. Undecided(at, root, facts)
    BY PlainDecides
  <2> QED
    BY <2>1, <2>2 DEF facts, Undecided
<1>2. \A i \in 1 .. Len(E) :
        /\ selected[i].consumed = E[i].consumed
        /\ selected[i].refusal # NoRefusal =>
             E[i].refusal # NoRefusal \/ (i = root /\ value \in page.excluded)
  BY RefusesOnly
<1>3. Marks(E, selected)
  <2>1. "SelectorExcluded" \in Reasons
    BY DEF Reasons
  <2> QED
    BY <2>1, RefusingMarks, MarksReflexive
<1> HIDE DEF selected
<1>4. selected \in Seq(EpochType) /\ Len(selected) = Len(E)
  BY <1>3 DEF Marks, Notes, Kept, Follows
<1>5. DOMAIN selected = 1 .. Len(E) /\ \A i \in 1 .. Len(E) : selected[i] \in EpochType
  BY <1>4, LenProperties, ElementOfSeq
<1> DEFINE more == Append(selected[root].candidates, c)
           e == [selected[root] EXCEPT !.candidates = more]
<1>6. added = [selected EXCEPT ![root] = e]
  BY <1>5
<1> HIDE DEF more
<1>7. e.consumed = selected[root].consumed /\ e.refusal = selected[root].refusal
  BY <1>5 DEF EpochType
<1> HIDE DEF e, added, W
<1>8. \A i \in 1 .. Len(E) : added[i] = IF i = root THEN e ELSE selected[i]
  BY <1>5, <1>6
<1>9. \A i \in 1 .. Len(E) : /\ W[i].consumed = selected[i].consumed
                             /\ W[i].refusal = selected[i].refusal
  BY <1>1, <1>7, <1>8
<1> QED
  BY <1>2, <1>9 DEF W, RefusesExcluded

(* What a step of a plain page does to the epochs: it reads what it ought  *)
(* to read, forgets no reading, and refuses nothing without a reason.      *)
Watches(o, root, news) ==
  /\ Extended(epochs, epochs', root, news) /\ \A c \in news : c.at = Now
  /\ \A i \in 1 .. Len(epochs) : Seen(epochs[i]) => Seen(epochs'[i])
  /\ Justified(epochs) => Justified(epochs')
  /\ \A lane \in Reads(o, walk.gs) : \A i \in 1 .. Len(epochs) :
       lanes[lane].root = i => Seen(epochs'[i])

(* An epoch keeps its faults.                                              *)
LEMMA FaultyStays ==
    ASSUME NEW E, NEW F, NEW root, NEW news, Extended(E, F, root, news),
           NEW i \in 1 .. Len(E), Faulty(E[i])
    PROVE  Faulty(F[i])
BY DEF Extended, Follows, Faulty

(* A step that refuses nothing.                                            *)
LEMMA QuietWatches ==
    ASSUME NEW o, Quiet(epochs, epochs'), epochs \in Seq(EpochType),
           \A lane \in Reads(o, walk.gs) : \A i \in 1 .. Len(epochs) :
             lanes[lane].root = i => Seen(epochs'[i])
    PROVE  Watches(o, 0, {})
<1>1. Extended(epochs, epochs', 0, {})
  BY KeptExtended DEF Quiet
<1>2. \A i \in 1 .. Len(epochs) : Seen(epochs[i]) => Seen(epochs'[i])
  BY DEF Quiet, Seen
<1>3. Len(epochs') = Len(epochs) /\ \A i \in 1 .. Len(epochs) : epochs'[i].refusal = epochs[i].refusal
  BY DEF Quiet, Kept
<1>4. Justified(epochs) => Justified(epochs')
  BY <1>1, <1>3, FaultyStays DEF Justified
<1> QED
  BY <1>1, <1>2, <1>4 DEF Watches

(* So nothing happens where an operator stands in its place.               *)
LEMMA NothingRefused ==
    ASSUME NEW E, NEW at
    PROVE  RefusedIf(FALSE, E, at) = E
BY DEF RefusedIf

(* An operator that reads nothing.                                         *)
LEMMA ReadsNothing ==
    ASSUME NEW o, NEW gs, ~ReadsUnproven(o, gs), o.kind \notin {"paint", "show", "Do"}
    PROVE  Reads(o, gs) = {}
BY DEF Reads

(* The placement of graphics objects.                                      *)
LEMMA PlainPlacements ==
    ASSUME MirrorInv, NEW o, NEW place, Stands(o, place),
           \/ ObserveNeutral(o) \/ BeginPath(o) \/ ContinuePath(o) \/ BeginText(o)
           \/ EndText(o) \/ BeginMarked(o) \/ EndMarked(o) \/ Opaque(o)
    PROVE  Watches(o, 0, {})
<1>1. epochs \in Seq(EpochType)
  BY LedgerFacts
<1>2. epochs' = epochs
  <2>1. /\ inPath => o.kind \in {"m", "l", "paint"}
        /\ inText => o.kind \in {"ET", "select", "set", "device", "show", "Tr", "Tf", "gs", "neutral"}
        /\ o.kind = "l" => inPath
        /\ o.kind = "ET" => inText
        /\ marked = 0 /\ o.kind \notin {"opaque", "BMC", "EMC"}
    BY PlainPlace
  <2>2. CASE ObserveNeutral(o)
    BY <2>1, <2>2 DEF ObserveNeutral, RefusedIf
  <2>3. CASE BeginPath(o)
    BY <2>1, <2>3 DEF BeginPath, RefusedIf
  <2>4. CASE ContinuePath(o)
    BY <2>1, <2>4 DEF ContinuePath, RefusedIf
  <2>5. CASE BeginText(o)
    BY <2>1, <2>5 DEF BeginText, RefusedIf
  <2>6. CASE EndText(o)
    BY <2>1, <2>6 DEF EndText, RefusedIf
  <2>7. CASE BeginMarked(o) \/ EndMarked(o) \/ Opaque(o)
    BY <2>1, <2>7 DEF BeginMarked, EndMarked, Opaque
  <2> QED
    BY <2>2, <2>3, <2>4, <2>5, <2>6, <2>7
<1>3. Quiet(epochs, epochs')
  BY <1>1, <1>2, QuietReflexive
<1>4. Reads(o, walk.gs) = {}
  <2>1. o.kind \notin {"paint", "show", "Do"}
    BY DEF ObserveNeutral, BeginPath, ContinuePath, BeginText, EndText, BeginMarked, EndMarked, Opaque
  <2> QED
    BY <2>1, ReadsNothing DEF Stands, PlainRecord
<1> QED
  BY <1>1, <1>3, <1>4, QuietWatches

-----------------------------------------------------------------------------
(* The consumers.                                                          *)
LEMMA PlainConsumers ==
    ASSUME MirrorInv, NEW o, IsOperator(o), NEW place, Stands(o, place),
           PaintPath(o) \/ ShowText(o) \/ InvokeXObject(o)
    PROVE  Watches(o, 0, {})
<1>1. /\ epochs \in Seq(EpochType) /\ Now \in Nat /\ lanes \in LanePairs
      /\ SameColors(epochs, lanes, walk.gs)
  BY LedgerFacts DEF MirrorInv, PlanOK
<1>2. /\ inPath => o.kind \in {"m", "l", "paint"}
      /\ inText => o.kind \in {"ET", "select", "set", "device", "show", "Tr", "Tf", "gs", "neutral"}
      /\ o.kind = "show" => inText
  BY PlainPlace
<1>3. ~ReadsUnproven(o, walk.gs)
  BY DEF Stands, PlainRecord
<1>4. epochs' = ConsumedBoth(epochs, Reads(o, walk.gs), Now)
  <2>1. CASE PaintPath(o)
    <3>1. /\ o.kind = "paint"
          /\ epochs' = ConsumedBoth(RefusedIf(inText, epochs, Now), PaintedLanes(o), Now)
      BY <2>1 DEF PaintPath
    <3>2. RefusedIf(inText, epochs, Now) = epochs
      BY <1>2, <3>1 DEF RefusedIf
    <3>3. Reads(o, walk.gs) = PaintedLanes(o)
      BY <1>3, <3>1 DEF Reads
    <3> QED
      BY <3>1, <3>2, <3>3
  <2>2. CASE ShowText(o)
    <3>1. o.kind = "show" /\ walk.gs.font \in AdmittedFonts /\ walk.gs.mode \in 0 .. 7
      BY <1>3, <2>2 DEF ShowText, ReadsUnproven
    <3>2. inText /\ ~inPath
      BY <1>2, <3>1
    <3>3. epochs' = ConsumedBoth(epochs, ModeLanes(walk.gs.mode), Now)
      BY <2>2, <3>1, <3>2 DEF ShowText
    <3>4. Reads(o, walk.gs) = ModeLanes(walk.gs.mode)
      BY <1>3, <3>1 DEF Reads
    <3> QED
      BY <3>3, <3>4
  <2>3. CASE InvokeXObject(o)
    <3>1. o.kind = "Do" /\ o.name \in DOMAIN XObjectLanes
      BY <1>3, <2>3 DEF InvokeXObject, ReadsUnproven
    <3>2. ~inText /\ ~inPath
      BY <1>2, <3>1
    <3>3. epochs' = ConsumedBoth(epochs, XObjectLanes[o.name], Now)
      BY <2>3, <3>1, <3>2 DEF InvokeXObject
    <3>4. Reads(o, walk.gs) = XObjectLanes[o.name]
      BY <1>3, <3>1 DEF Reads
    <3> QED
      BY <3>3, <3>4
  <2> QED
    BY <2>1, <2>2, <2>3
<1> DEFINE read == Reads(o, walk.gs)
<1>5. read \subseteq Lanes
  BY LanesRead
<1> HIDE DEF read
<1>6. /\ Quiet(epochs, ConsumedBoth(epochs, read, Now))
      /\ \A lane \in Lanes : \A i \in 1 .. Len(epochs) :
           lane \in read /\ lanes[lane].root = i => Seen(ConsumedBoth(epochs, read, Now)[i])
  BY <1>1, ConsumedBothSees
<1>7. \A lane \in Reads(o, walk.gs) : \A i \in 1 .. Len(epochs) :
        lanes[lane].root = i => Seen(epochs'[i])
  BY <1>4, <1>5, <1>6 DEF read
<1>8. Quiet(epochs, epochs')
  BY <1>4, <1>6 DEF read
<1> QED
  BY <1>1, <1>7, <1>8, QuietWatches

(* The operators that only count branches.                                 *)
LEMMA PlainCounted ==
    ASSUME MirrorInv, NEW o, IsOperator(o), NEW place, Stands(o, place), CalmPage,
           Save(o) \/ Restore(o) \/ SetDeviceColor(o) \/ SelectOther(o)
    PROVE  Watches(o, 0, {})
<1>1. epochs \in Seq(EpochType)
  BY LedgerFacts
<1>2. /\ inPath => o.kind \in {"m", "l", "paint"}
      /\ inText => o.kind \in {"ET", "select", "set", "device", "show", "Tr", "Tf", "gs", "neutral"}
  BY PlainPlace
<1>3. o.kind \in {"q", "Q", "device", "select"}
  BY DEF Save, Restore, SetDeviceColor, SelectOther
<1>4. ~inPath /\ (o.kind \in {"q", "Q"} => ~inText)
  BY <1>2, <1>3
<1>5. \A E : /\ RefusedIf(inPath, E, Now) = E
             /\ o.kind \in {"q", "Q"} => RefusedIf(inText \/ inPath, E, Now) = E
  BY <1>4 DEF RefusedIf
<1>6. Quiet(epochs, epochs')
  <2>1. CASE Save(o)
    <3>1. epochs' = Copied(RefusedIf(inText \/ inPath, epochs, Now)) /\ o.kind = "q"
      BY <2>1 DEF Save
    <3>2. epochs' = Copied(epochs)
      BY <1>5, <3>1
    <3> QED
      BY <1>1, <3>2, MovesQuiet
  <2>2. CASE Restore(o)
    <3>1. /\ epochs' = Dropped(Dropped(RefusedIf(inText \/ inPath, epochs, Now),
                                      lanes["stroke"]), lanes["fill"])
          /\ o.kind = "Q"
      BY <2>2 DEF Restore
    <3> DEFINE D == Dropped(epochs, lanes["stroke"])
    <3>2. epochs' = Dropped(D, lanes["fill"])
      BY <1>5, <3>1
    <3>3. Quiet(epochs, D)
      BY <1>1, MovesQuiet
    <3> HIDE DEF D
    <3>4. D \in Seq(EpochType)
      BY <3>3 DEF Quiet, Kept, Follows
    <3>5. Quiet(D, epochs')
      BY <3>2, <3>4, MovesQuiet
    <3> QED
      BY <1>1, <3>3, <3>5, QuietTransitive
  <2>3. CASE SetDeviceColor(o)
    <3>1. epochs' = RefusedIf(inPath, Dropped(RefusedIf(inPath, epochs, Now), lanes[o.lane]), Now)
      BY <2>3 DEF SetDeviceColor
    <3>2. epochs' = Dropped(epochs, lanes[o.lane])
      BY <1>5, <3>1
    <3> QED
      BY <1>1, <3>2, MovesQuiet
  <2>4. CASE SelectOther(o)
    <3> DEFINE D == Dropped(RefusedIf(inPath, epochs, Now), lanes[o.lane])
    <3>1. epochs' = RefusedIf(inPath, AfterDecision(D, Now, 0, NoFacts), Now)
      BY <2>4 DEF SelectOther
    <3>2. D = Dropped(epochs, lanes[o.lane])
      BY <1>5
    <3> HIDE DEF D
    <3>3. Undecided(Now, 0, NoFacts)
      BY PlainDecides
    <3>4. epochs' = Dropped(epochs, lanes[o.lane])
      BY <1>5, <3>1, <3>2, <3>3 DEF Undecided
    <3> QED
      BY <1>1, <3>4, MovesQuiet
  <2> QED
    BY <2>1, <2>2, <2>3, <2>4
<1>7. Reads(o, walk.gs) = {}
  BY <1>3, ReadsNothing DEF Stands, PlainRecord
<1> QED
  BY <1>1, <1>6, <1>7, QuietWatches

(* The setters that are no candidates: no epoch is open on the lane, or    *)
(* the one that is was refused before.                                     *)
LEMMA PlainDeclined ==
    ASSUME MirrorInv, NEW o, IsOperator(o), NEW place, Stands(o, place), CalmPage,
           SetOutsideEpoch(o) \/ RefuseSetter(o)
    PROVE  Watches(o, 0, {})
<1>1. o.kind = "set" /\ Observe(o)
  BY DEF SetOutsideEpoch, RefuseSetter
<1>2. /\ epochs \in Seq(EpochType) /\ SameColor(epochs, lanes[o.lane], walk.gs[o.lane])
  BY <1>1, SetterFacts
<1>3. ~inPath
  BY <1>1, PlainPlace
<1>4. \A E : RefusedIf(inPath, E, Now) = E
  BY <1>3 DEF RefusedIf
<1>5. \A F : \A root : AfterDecision(F, Now, root, NoFacts) = F
  <2>1. ASSUME NEW root PROVE Undecided(Now, root, NoFacts)
    BY PlainDecides
  <2> QED
    BY <2>1 DEF Undecided
<1>6. epochs' = epochs
  <2>1. CASE SetOutsideEpoch(o)
    BY <1>4, <1>5, <2>1 DEF SetOutsideEpoch
  <2>2. CASE RefuseSetter(o)
    <3> DEFINE root == lanes[o.lane].root
    <3>1. /\ root # 0 /\ Setting(o) # "eligible"
          /\ epochs' = RefusedIf(inPath, AfterDecision(RefusedAmong(RefusedIf(inPath, epochs, Now),
                                           {root}, Now, Setting(o)), Now, root, NoFacts), Now)
      BY <2>2 DEF RefuseSetter
    <3>2. o.value # BadValue /\ o.name = NoName /\ Localized(Now)
      BY <1>1 DEF Stands, PlainRecord
    <3>3. root \in 1 .. Len(epochs)
      BY <1>2, <3>1 DEF SameColor
    <3>4. epochs[root].alias \in Eligible
      <4> HIDE DEF root
      <4>1. epochs[root] \in EpochType
        BY <1>2, <3>3, ElementOfSeq
      <4> QED
        BY <4>1 DEF EpochType
    <3>5. epochs[root].refusal # NoRefusal
      <4>1. SUFFICES ASSUME epochs[root].refusal = NoRefusal PROVE FALSE
        OBVIOUS
      <4>2. /\ walk.gs[o.lane].name = epochs[root].alias
            /\ walk.gs[o.lane].space = AliasSpace[epochs[root].alias]
        BY <1>2, <3>1, <4>1 DEF SameColor
      <4>3. epochs[root].alias \in DOMAIN AliasSpace
        BY <3>4, PolicyAssumption
      <4> HIDE DEF root
      <4> QED
        BY <3>1, <3>2, <3>4, <4>2, <4>3 DEF Setting
    <3> HIDE DEF root
    <3>6. RefusedAmong(epochs, {root}, Now, Setting(o)) = epochs
      BY <1>2, <3>5, FirstRefusalStays
    <3> QED
      BY <1>4, <1>5, <3>1, <3>6
  <2> QED
    BY <2>1, <2>2
<1>7. Quiet(epochs, epochs')
  BY <1>2, <1>6, QuietReflexive
<1>8. Reads(o, walk.gs) = {}
  BY <1>1, ReadsNothing DEF Stands, PlainRecord
<1> QED
  BY <1>2, <1>7, <1>8, QuietWatches

-----------------------------------------------------------------------------
(* R is a stage between the epochs of a plain page and what they become: an *)
(* epoch may have been opened.                                             *)
Stage(R) ==
  /\ Extends(epochs, R)
  /\ \A i \in 1 .. Len(epochs) : Seen(epochs[i]) => Seen(R[i])
  /\ Justified(epochs) => Justified(R)

(* A colour operator that is a candidate.                                  *)
LEMMA PlainCandidate ==
    ASSUME MirrorInv, NEW o, NEW place, Stands(o, place), CalmPage,
           o.kind \in ColourKinds, NEW R, Stage(R), NEW root \in 1 .. Len(R),
           NEW value \in Nat, NEW explicit,
           epochs' = WithCandidate(R, Now, root, value, explicit)
    PROVE  Watches(o, root, NewsAt(Now, value))
<1> DEFINE W == WithCandidate(R, Now, root, value, explicit)
           news == NewsAt(Now, value)
           c == [at |-> Now, value |-> value]
<1>1. epochs \in Seq(EpochType) /\ Now \in Nat
  BY LedgerFacts
<1>2. Localized(Now) /\ InPlaceObject(Now) /\ ~ReadsUnproven(o, walk.gs)
  BY DEF Stands, PlainRecord
<1>3. R \in Seq(EpochType) /\ Extends(epochs, R)
  BY DEF Stage, Extends, Follows
<1>4. /\ Extended(R, W, root, news) /\ c \in Candidates(W[root])
  BY <1>1, <1>2, <1>3, CandidateExtends
<1>5. \A i \in 1 .. Len(R) :
        /\ W[i].consumed = R[i].consumed
        /\ W[i].refusal # NoRefusal =>
             R[i].refusal # NoRefusal \/ (i = root /\ value \in page.excluded)
  <2>1. R \in Seq(EpochType) /\ Now \in Nat /\ Localized(Now) /\ InPlaceObject(Now)
    BY <1>1, <1>2, <1>3
  <2>2. RefusesExcluded(R, W, root, value)
    BY <2>1, CandidateRefuses
  <2> HIDE DEF W, news, c
  <2> QED
    BY <2>2 DEF RefusesExcluded
<1>6. Notes(R, W)
  BY <1>1, <1>3, CandidateNotes
<1>7. news = {c}
  BY <1>2 DEF NewsAt
<1>8. c.value = value /\ c.at = Now
  OBVIOUS
<1> HIDE DEF W, news, c
<1>9. W \in Seq(EpochType) /\ Len(W) = Len(R) /\ Len(epochs) <= Len(R)
  BY <1>3, <1>6 DEF Notes, Follows, Extends
<1>10. Extended(epochs, W, root, news)
  <2>1. Kept(W, W)
    BY <1>9, MarksReflexive DEF Marks
  <2> QED
    BY <1>1, <1>3, <1>4, <2>1, ExtendedBetween
<1>11. ASSUME NEW i \in 1 .. Len(epochs), Seen(epochs[i]) PROVE Seen(W[i])
  <2>1. Seen(R[i])
    BY <1>11 DEF Stage
  <2>2. i \in 1 .. Len(R)
    <3>1. Len(R) \in Nat /\ Len(epochs) \in Nat
      BY <1>1, <1>3, LenProperties
    <3> QED
      BY <1>9, <3>1
  <2>3. R[i].refusal # NoRefusal => W[i].refusal # NoRefusal
    BY <1>6, <2>2 DEF Notes, Follows
  <2> QED
    BY <1>5, <2>1, <2>2, <2>3 DEF Seen
<1>12. ASSUME Justified(epochs), NEW i \in 1 .. Len(W), W[i].refusal # NoRefusal
       PROVE  Faulty(W[i])
  <2>1. i \in 1 .. Len(R)
    BY <1>9
  <2>2. CASE R[i].refusal # NoRefusal
    <3>1. Faulty(R[i])
      BY <1>12, <2>1, <2>2 DEF Stage, Justified
    <3> QED
      BY <1>4, <2>1, <3>1, FaultyStays
  <2>3. CASE i = root /\ value \in page.excluded
    BY <1>4, <1>8, <2>3 DEF Faulty
  <2> QED
    BY <1>5, <1>12, <2>1, <2>2, <2>3
<1>13. Justified(epochs) => Justified(W)
  BY <1>12 DEF Justified
<1>14. Reads(o, walk.gs) = {}
  BY <1>2, ReadsNothing DEF ColourKinds
<1>15. epochs' = W
  BY DEF W
<1>16. \A d \in news : d.at = Now
  BY <1>7, <1>8
<1>17. Watches(o, root, news)
  BY <1>10, <1>11, <1>13, <1>14, <1>15, <1>16 DEF Watches
<1> QED
  BY <1>17 DEF news

(* An epoch that opens.                                                    *)
LEMMA PlainSelected ==
    ASSUME MirrorInv, NEW o, IsOperator(o), NEW place, Stands(o, place), CalmPage, SelectAlias(o)
    PROVE  \E root, news : Watches(o, root, news)
<1>1. o.kind = "select"
  BY DEF SelectAlias
<1>2. PICK R : \E root : Opens(o, R, root)
  BY SelectionOpens
<1>3. PICK root : Opens(o, R, root)
  BY <1>2
<1>4. ~inPath
  BY <1>1, PlainPlace
<1>5. /\ Extends(epochs, R) /\ root \in 1 .. Len(R) /\ R[root].alias = o.name
      /\ Len(R) = Len(epochs) + 1 /\ root = Len(R)
      /\ epochs' = RefusedIf(inPath, WithCandidate(R, Now, root, 0, FALSE), Now)
      /\ \A i \in 1 .. Len(epochs) : /\ R[i].refusal # NoRefusal => epochs[i].refusal # NoRefusal
                                     /\ epochs[i].consumed => R[i].consumed
      /\ R[root].refusal # NoRefusal =>
           ~Routed(AliasSpace[o.name]) \/ ~RouteIsRaw(AliasSpace[o.name])
  BY <1>3, <1>4 DEF Opens
<1>6. epochs' = WithCandidate(R, Now, root, 0, FALSE)
  BY <1>4, <1>5 DEF RefusedIf
<1>7. \A i \in 1 .. Len(epochs) : Seen(epochs[i]) => Seen(R[i])
  BY <1>5 DEF Seen, Extends, Follows
<1>8. ASSUME Justified(epochs), NEW i \in 1 .. Len(R), R[i].refusal # NoRefusal
      PROVE  Faulty(R[i])
  <2>1. CASE i = root
    BY <1>5, <1>8, <2>1 DEF Faulty
  <2>2. CASE i # root
    <3>1. Len(epochs) \in Nat
      BY LedgerFacts, LenProperties
    <3>2. i \in 1 .. Len(epochs)
      BY <1>5, <2>2, <3>1
    <3>3. Faulty(epochs[i])
      BY <1>5, <1>8, <3>2 DEF Justified
    <3>4. R[i].alias = epochs[i].alias /\ Candidates(R[i]) = Candidates(epochs[i])
      BY <1>5, <3>2 DEF Extends, Follows
    <3> QED
      BY <3>3, <3>4 DEF Faulty
  <2> QED
    BY <2>1, <2>2
<1>9. Stage(R)
  BY <1>5, <1>7, <1>8 DEF Stage, Justified
<1>10. 0 \in Nat /\ o.kind \in ColourKinds
  BY <1>1 DEF ColourKinds
<1> QED
  BY <1>5, <1>6, <1>9, <1>10, PlainCandidate

(* A setter under it.                                                      *)
LEMMA PlainSet ==
    ASSUME MirrorInv, NEW o, IsOperator(o), NEW place, Stands(o, place), CalmPage, SetInEpoch(o)
    PROVE  \E root, news : Watches(o, root, news)
<1> DEFINE root == lanes[o.lane].root
           agrees == /\ walk.gs[o.lane].name = epochs[root].alias
                     /\ walk.gs[o.lane].space = AliasSpace[epochs[root].alias]
<1>1. o.kind = "set" /\ Observe(o) /\ root # 0
  BY DEF SetInEpoch
<1>2. /\ epochs \in Seq(EpochType) /\ SameColor(epochs, lanes[o.lane], walk.gs[o.lane])
      /\ o.value \in Nat
  BY <1>1, SetterFacts
<1>3. ~inPath
  BY <1>1, PlainPlace
<1>4. \A E : RefusedIf(inPath, E, Now) = E
  BY <1>3 DEF RefusedIf
<1>5. /\ agrees => epochs' = WithCandidate(epochs, Now, root, o.value, TRUE)
      /\ ~agrees => epochs' = AfterDecision(RefusedAmong(epochs, {root}, Now, "StateMismatch"),
                                            Now, root, NoFacts)
  BY <1>4 DEF SetInEpoch
<1>6. root \in 1 .. Len(epochs)
  BY <1>1, <1>2 DEF SameColor
<1>7. CASE agrees
  <2>1. epochs' = WithCandidate(epochs, Now, root, o.value, TRUE)
    BY <1>5, <1>7
  <2>2. Stage(epochs)
    <3>1. Extends(epochs, epochs)
      BY <1>2, MarksReflexive, KeptExtends DEF Marks
    <3> QED
      BY <3>1 DEF Stage
  <2>3. o.kind \in ColourKinds
    BY <1>1 DEF ColourKinds
  <2> HIDE DEF root
  <2> QED
    BY <1>2, <1>6, <2>1, <2>2, <2>3, PlainCandidate
<1>8. CASE ~agrees
  <2>1. epochs[root].refusal # NoRefusal
    BY <1>1, <1>2, <1>8 DEF SameColor
  <2> HIDE DEF root
  <2>2. RefusedAmong(epochs, {root}, Now, "StateMismatch") = epochs
    BY <1>2, <2>1, FirstRefusalStays
  <2>3. Undecided(Now, root, NoFacts)
    BY PlainDecides
  <2>4. epochs' = epochs
    BY <1>5, <1>8, <2>2, <2>3 DEF Undecided
  <2>5. Quiet(epochs, epochs')
    BY <1>2, <2>4, QuietReflexive
  <2>6. Reads(o, walk.gs) = {}
    BY <1>1, ReadsNothing DEF Stands, PlainRecord
  <2>7. Watches(o, 0, {})
    BY <1>2, <2>5, <2>6, QuietWatches
  <2> QED
    BY <2>7
<1> QED
  BY <1>7, <1>8

(* Every operator of a plain page.                                         *)
LEMMA PlainWatched ==
    ASSUME MirrorInv, NEW o, IsOperator(o), NEW place, Stands(o, place), CalmPage,
           ObserveOperator(o), ~AbandonPage(o)
    PROVE  \E root, news : Watches(o, root, news)
<1>1. CASE PaintPath(o) \/ ShowText(o) \/ InvokeXObject(o)
  BY <1>1, PlainConsumers
<1>2. CASE \/ ObserveNeutral(o) \/ BeginPath(o) \/ ContinuePath(o) \/ BeginText(o)
           \/ EndText(o) \/ BeginMarked(o) \/ EndMarked(o) \/ Opaque(o)
  BY <1>2, PlainPlacements
<1>3. CASE SelectAlias(o)
  BY <1>3, PlainSelected
<1>4. CASE SetOutsideEpoch(o) \/ RefuseSetter(o)
  BY <1>4, PlainDeclined
<1>5. CASE SetInEpoch(o)
  BY <1>5, PlainSet
<1>6. CASE Save(o) \/ Restore(o) \/ SetDeviceColor(o) \/ SelectOther(o)
  BY <1>6, PlainCounted
<1> QED
  BY <1>1, <1>2, <1>3, <1>4, <1>5, <1>6 DEF ObserveOperator

(* What has been read is known to be.                                      *)
LEMMA SeenStep ==
    ASSUME NEW p \in Seq(OperatorRecords), NEW o \in OperatorRecords, NEW h, PastOK(h, p),
           NEW g, OneLater(h, g, p, o), NEW E, NEW F, NEW root, NEW news,
           Extended(E, F, root, news), \A c \in news : c.at = Len(p) + 1,
           NEW l, Held(E, l, h[Len(p)].gs), ReadSeen(E, h, p),
           Reads(o, h[Len(p)].gs) \subseteq Lanes,
           \A n \in 1 .. Len(p) : Reads(p[n], h[n - 1].gs) \subseteq Lanes,
           \A i \in 1 .. Len(E) : Seen(E[i]) => Seen(F[i]),
           \A lane \in Reads(o, h[Len(p)].gs) : \A i \in 1 .. Len(E) :
             l[lane].root = i => Seen(F[i])
    PROVE  ReadSeen(F, g, Append(p, o))
<1> DEFINE N == Len(p)
           q == Append(p, o)
<1>1. /\ N \in Nat /\ Len(q) = N + 1 /\ q[N + 1] = o /\ \A n \in 1 .. N : q[n] = p[n]
  BY LenProperties, AppendProperties
<1> HIDE DEF q
<1> SUFFICES ASSUME NEW n \in 1 .. Len(q), NEW lane \in Reads(q[n], g[n - 1].gs),
                    NEW i \in 1 .. Len(F),
                    NEW c \in Candidates(F[i]), c.at = g[n - 1].gs[lane].source
             PROVE  Seen(F[i])
  BY DEF ReadSeen, q
<1>2. n - 1 \in 0 .. N /\ N + 1 \notin 0 .. (n - 1)
  BY <1>1
<1>3. g[n - 1] = h[n - 1] /\ PastSources(h[n - 1], n - 1)
  BY <1>2 DEF OneLater, PastOK
<1>4. lane \in Lanes
  <2>1. CASE n = N + 1
    BY <1>1, <1>3, <2>1
  <2>2. CASE n # N + 1
    <3>1. n \in 1 .. N
      BY <1>1, <2>2
    <3> QED
      BY <1>1, <1>3, <3>1
  <2> QED
    BY <2>1, <2>2
<1>5. c.at # N + 1
  BY <1>2, <1>3, <1>4 DEF PastSources
<1>6. i \in 1 .. Len(E) /\ c \in Candidates(E[i])
  BY <1>5 DEF Extended
<1>7. CASE n = N + 1
  <2>1. n - 1 = N
    BY <1>1, <1>7
  <2>2. c.at = h[N].gs[lane].source
    BY <1>3, <2>1
  <2>3. l[lane].root = i
    BY <1>4, <1>6, <2>2, Zenon DEF Held, HeldBy
  <2>4. lane \in Reads(o, h[N].gs)
    BY <1>1, <1>3, <1>7, <2>1
  <2> QED
    BY <1>6, <2>3, <2>4
<1>8. CASE n # N + 1
  <2>1. n \in 1 .. N
    BY <1>1, <1>8
  <2>2. c.at = h[n - 1].gs[lane].source /\ lane \in Reads(p[n], h[n - 1].gs)
    BY <1>1, <1>3, <2>1
  <2>3. Seen(E[i])
    BY <1>6, <2>1, <2>2, Zenon DEF ReadSeen
  <2> QED
    BY <1>6, <2>3
<1> QED
  BY <1>7, <1>8

-----------------------------------------------------------------------------
PlainWalk == PlainOK(epochs, decisions, word, WalksOf(word), inText, inPath, marked)

(* No step of a page without repeated objects is decided on.               *)
LEMMA PlainUndecided ==
    ASSUME NEW o, ObserveOperator(o), ~AbandonPage(o), CalmPage
    PROVE  decisions' = decisions
<1>1. \/ decisions' = decisions
      \/ \E root, facts : decisions' = Decided(Now, root, facts)
  <2>1. CASE SelectAlias(o)
    BY <2>1 DEF SelectAlias
  <2>2. CASE SetInEpoch(o)
    BY <2>2 DEF SetInEpoch
  <2>3. CASE SelectOther(o) \/ SetOutsideEpoch(o) \/ RefuseSetter(o)
    BY <2>3 DEF SelectOther, SetOutsideEpoch, RefuseSetter
  <2>4. CASE ~(\/ SelectAlias(o) \/ SetInEpoch(o) \/ SelectOther(o)
               \/ SetOutsideEpoch(o) \/ RefuseSetter(o))
    BY <2>4 DEF ObserveOperator, Save, Restore, SetDeviceColor, PaintPath, ShowText, InvokeXObject,
       ObserveNeutral, BeginPath, ContinuePath, BeginText, EndText, BeginMarked, EndMarked, Opaque,
       KeepBranches
  <2> QED
    BY <2>1, <2>2, <2>3, <2>4
<1>2. ASSUME NEW root, NEW facts PROVE Undecided(Now, root, facts)
  BY PlainDecides
<1> QED
  BY <1>1, <1>2 DEF Undecided

(* What is plain after an operator was plain before, and the operator      *)
(* stands in its place.                                                    *)
LEMMA PlainBefore ==
    ASSUME NEW p \in Seq(OperatorRecords), NEW o \in OperatorRecords, NEW h, NEW g,
           OneLater(h, g, p, o), NEW f, PlainSoFar(Append(p, o), g, f)
    PROVE  /\ PlainSoFar(p, h, f) /\ PlainRecord(o, Len(p) + 1, h[Len(p)].gs)
           /\ f[Len(p) + 1] = Entered(f[Len(p)], o.kind) /\ f[Len(p) + 1] # "misplaced"
<1> DEFINE N == Len(p)
           q == Append(p, o)
<1>1. /\ N \in Nat /\ Len(q) = N + 1 /\ q[N + 1] = o /\ \A n \in 1 .. N : q[n] = p[n]
  BY LenProperties, AppendProperties
<1>2. /\ Repeated = {} /\ f[0] = "page" /\ \A n \in 1 .. Len(q) : f[n] = Entered(f[n - 1], q[n].kind)
      /\ f[Len(q)] # "misplaced" /\ \A n \in 1 .. Len(q) : PlainRecord(q[n], n, g[n - 1].gs)
  BY DEF PlainSoFar, InsideIs
<1> HIDE DEF q
<1>3. N + 1 \in 1 .. Len(q) /\ N + 1 - 1 = N /\ N \in 0 .. N
      /\ \A n \in 1 .. N : n \in 1 .. Len(q) /\ n - 1 \in 0 .. N
  BY <1>1
<1>4. f[N + 1] = Entered(f[N], o.kind) /\ f[N + 1] # "misplaced"
  BY <1>1, <1>2, <1>3
<1>5. f[N] # "misplaced"
  BY <1>4 DEF Entered
<1>6. PlainRecord(o, N + 1, h[N].gs)
  <2>1. g[N] = h[N]
    BY <1>3 DEF OneLater
  <2>2. PlainRecord(q[N + 1], N + 1, g[N + 1 - 1].gs)
    BY <1>2, <1>3
  <2> QED
    BY <1>1, <1>3, <2>1, <2>2
<1>7. \A n \in 1 .. N : f[n] = Entered(f[n - 1], p[n].kind) /\ PlainRecord(p[n], n, h[n - 1].gs)
  <2> SUFFICES ASSUME NEW n \in 1 .. N
               PROVE  f[n] = Entered(f[n - 1], p[n].kind) /\ PlainRecord(p[n], n, h[n - 1].gs)
    OBVIOUS
  <2>1. q[n] = p[n] /\ g[n - 1] = h[n - 1]
    BY <1>1, <1>3 DEF OneLater
  <2> QED
    BY <1>2, <1>3, <2>1
<1> QED
  BY <1>2, <1>4, <1>5, <1>6, <1>7 DEF PlainSoFar, InsideIs

(* A plain page goes on as one.                                            *)
LEMMA PlainWalked ==
    ASSUME MirrorInv, HistoryNow, PlainWalk, NEW o, IsOperator(o), ObserveOperator(o), ~AbandonPage(o)
    PROVE  PlainOK(epochs', decisions', word', WalksOf(word'), inText', inPath', marked')
<1> DEFINE h == WalksOf(word)
           g == WalksOf(word')
           N == Len(word)
<1>1. Observe(o)
  BY DEF ObserveOperator, Save, Restore, SelectAlias, SelectOther, SetOutsideEpoch,
     SetInEpoch, RefuseSetter, SetDeviceColor, PaintPath, ShowText, InvokeXObject,
     ObserveNeutral, BeginPath, ContinuePath, BeginText, EndText, BeginMarked, EndMarked, Opaque
<1>2. /\ word \in Seq(OperatorRecords) /\ o \in OperatorRecords /\ N \in Nat /\ Now = N + 1
      /\ word' = Append(word, o)
      /\ \A n \in 1 .. Len(word) : IsOperator(word[n])
  BY <1>1, LedgerFacts, LenProperties DEF IsOperator, Observe, Now, MirrorInv
<1>3. /\ h[N] = walk /\ PastOK(h, word) /\ AllHeld(epochs, lanes, saved, walk)
  BY DEF HistoryNow, HistoryOK
<1>4. OneLater(h, g, word, o)
  <2>1. /\ \A n \in 0 .. N : g[n] = h[n]
        /\ g[N + 1] = Walked(h[N], o, N + 1)
    BY <1>2, WalksExtend
  <2> QED
    BY <2>1 DEF OneLater
<1>5. Repeated = {} => CalmPage
  BY DEF PlainWalk, PlainOK, CalmPage
<1>6. Repeated = {} => DOMAIN decisions' = {}
  <2>1. Repeated = {} => decisions' = decisions
    BY <1>5, PlainUndecided
  <2> QED
    BY <1>5, <2>1 DEF CalmPage
<1>7. \A f : PlainSoFar(word, h, f) => /\ Standing(f[N], inText, inPath, marked)
                                       /\ Justified(epochs) /\ ReadSeen(epochs, h, word)
  BY DEF PlainWalk, PlainOK
<1> HIDE DEF h, g
<1>8. ASSUME NEW f, PlainSoFar(word', g, f)
      PROVE  /\ Standing(f[Len(word')], inText', inPath', marked')
             /\ Justified(epochs') /\ ReadSeen(epochs', g, word')
  <2>1. /\ PlainSoFar(word, h, f) /\ PlainRecord(o, Now, h[N].gs)
        /\ f[Now] = Entered(f[N], o.kind) /\ f[Now] # "misplaced"
    BY <1>2, <1>4, <1>8, PlainBefore
  <2>2. /\ Standing(f[N], inText, inPath, marked) /\ Justified(epochs) /\ ReadSeen(epochs, h, word)
    BY <1>7, <2>1
  <2>3. CalmPage
    BY <1>5, <2>1 DEF PlainSoFar
  <2>4. Stands(o, f[N])
    BY <1>3, <2>1, <2>2 DEF Stands
  <2>5. PICK root : \E news : Watches(o, root, news)
    BY <2>3, <2>4, PlainWatched
  <2>6. PICK news : Watches(o, root, news)
    BY <2>5
  <2>7. Standing(Entered(f[N], o.kind), inText', inPath', marked')
    BY <2>4, PlainPlaced
  <2>8. Len(word') = Now
    BY <1>2, AppendProperties
  <2>9. ReadSeen(epochs', g, word')
    <3>1. Held(epochs, lanes, h[N].gs)
      BY <1>3 DEF AllHeld
    <3>2. /\ Reads(o, h[N].gs) \subseteq Lanes
          /\ \A n \in 1 .. N : Reads(word[n], h[n - 1].gs) \subseteq Lanes
      BY <1>2, LanesRead
    <3>3. /\ Extended(epochs, epochs', root, news) /\ \A c \in news : c.at = N + 1
          /\ \A i \in 1 .. Len(epochs) : Seen(epochs[i]) => Seen(epochs'[i])
          /\ \A lane \in Reads(o, h[N].gs) : \A i \in 1 .. Len(epochs) :
               lanes[lane].root = i => Seen(epochs'[i])
      BY <1>2, <1>3, <2>6 DEF Watches
    <3> QED
      BY <1>2, <1>3, <1>4, <2>2, <3>1, <3>2, <3>3, SeenStep
  <2>10. Justified(epochs')
    BY <2>2, <2>6 DEF Watches
  <2> QED
    BY <2>1, <2>7, <2>8, <2>9, <2>10
<1> QED
  BY <1>6, <1>8 DEF PlainOK, g

-----------------------------------------------------------------------------
(* Without repeated objects no two epochs share a record.                  *)
LEMMA RecordsApart ==
    ASSUME NEW E, ClosingOK(E), Repeated = {}, NEW i \in 1 .. Len(E), NEW j \in 1 .. Len(E),
           NEW c \in Candidates(E[i]), NEW d \in Candidates(E[j]), Record(c.at) = Record(d.at)
    PROVE  i = j /\ c = d
<1>1. CandidatesOK(E, word) /\ page \in Pages /\ Len(word) = Len(page.cells)
  BY DEF ClosingOK, LedgerOK
<1>2. c.at \in 1 .. Len(word) /\ d.at \in 1 .. Len(word) /\ Localized(c.at)
  BY <1>1, Zenon DEF CandidatesOK
<1>3. c.at \in DOMAIN page.cells /\ d.at \in DOMAIN page.cells
  BY <1>1, <1>2, PageCells
<1>4. c.at = d.at
  <2>1. c.at # d.at => InDoubt(c.at)
    BY <1>1, <1>2, <1>3, MetTwice
  <2>2. ~InDoubt(c.at)
    BY DEF InDoubt
  <2> QED
    BY <2>1, <2>2
<1> QED
  BY <1>1, <1>4, Zenon DEF CandidatesOK

(* So an epoch that may run is kept from it by no other.                   *)
LEMMA RunsAlone ==
    ASSUME NEW E, ClosingOK(E), Repeated = {}, NEW i \in 1 .. Len(E), Executable(E[i])
    PROVE  ~(i \in Stopped(E))
<1>1. Len(E) \in Nat /\ DOMAIN E = 1 .. Len(E)
  BY LenProperties DEF ClosingOK
<1>2. PICK L : /\ L[0] = StoppedFirst(E) /\ Stopped(E) = L[Len(E)]
               /\ \A n \in 1 .. Len(E) : L[n] = L[n - 1] \union Sharing(E, L[n - 1])
               /\ \A n \in 0 .. Len(E) : L[n] \subseteq DOMAIN E
  BY <1>1, StoppedByLevels
<1>3. ~(i \in L[0])
  <2>1. ASSUME NEW j \in DOMAIN E, Conflict(E[i], E[j]) PROVE FALSE
    <3>1. PICK r \in Rewrites(E[i]) :
            \E s \in Rewrites(E[j]) : Record(r.at) = Record(s.at) /\ r.by # s.by
      BY <2>1 DEF Conflict
    <3>2. PICK s \in Rewrites(E[j]) : Record(r.at) = Record(s.at) /\ r.by # s.by
      BY <3>1
    <3>3. PICK c \in Candidates(E[i]) :
            r = [at |-> c.at, by |-> Converted(E[i].lane, AliasSpace[E[i].alias], c.value)]
      BY DEF Rewrites
    <3>4. PICK d \in Candidates(E[j]) :
            s = [at |-> d.at, by |-> Converted(E[j].lane, AliasSpace[E[j].alias], d.value)]
      BY DEF Rewrites
    <3>5. r.at = c.at /\ s.at = d.at
      BY <3>3, <3>4
    <3>6. i = j /\ c = d
      BY <1>1, <2>1, <3>2, <3>5, RecordsApart
    <3> QED
      BY <3>2, <3>3, <3>4, <3>6
  <2> QED
    BY <1>2, <2>1 DEF StoppedFirst
<1>4. ASSUME NEW n \in 1 .. Len(E), ~(i \in L[n - 1]) PROVE ~(i \in L[n])
  <2>1. SUFFICES ASSUME i \in Sharing(E, L[n - 1]) PROVE FALSE
    BY <1>2, <1>4
  <2>2. PICK j \in L[n - 1] : RecordsOf(E[i]) \cap RecordsOf(E[j]) # {}
    BY <2>1 DEF Sharing
  <2>3. j \in 1 .. Len(E)
    <3>1. n - 1 \in 0 .. Len(E)
      BY <1>1
    <3> QED
      BY <1>1, <1>2, <3>1
  <2>4. PICK c \in Candidates(E[i]) : \E d \in Candidates(E[j]) : Record(c.at) = Record(d.at)
    BY <2>2 DEF RecordsOf
  <2>5. PICK d \in Candidates(E[j]) : Record(c.at) = Record(d.at)
    BY <2>4
  <2>6. i = j
    BY <2>3, <2>5, RecordsApart
  <2> QED
    BY <1>4, <2>6
<1> DEFINE late == {n \in 0 .. Len(E) : i \in L[n]}
<1>5. late = {}
  <2> SUFFICES ASSUME late # {} PROVE FALSE
    OBVIOUS
  <2>1. late \subseteq Nat
    BY <1>1
  <2>2. PICK n \in late : \A k \in late : n <= k
    <3> HIDE DEF late
    <3> QED
      BY <2>1, LeastExists
  <2>3. n # 0
    BY <1>3, <2>2
  <2>4. n - 1 \in 0 .. Len(E) /\ n \in 1 .. Len(E) /\ ~(n <= n - 1)
    BY <1>1, <2>2, <2>3
  <2>5. ~(i \in L[n - 1])
    BY <2>2, <2>4
  <2> QED
    BY <1>4, <2>2, <2>4, <2>5
<1>6. Len(E) \in 0 .. Len(E)
  BY <1>1
<1> QED
  BY <1>2, <1>5, <1>6

-----------------------------------------------------------------------------
(* What the claim says of epochs E, replacements rw and the word p.        *)
ReadBy(p) ==
  UNION {{WalksOf(p)[n - 1].gs[lane].source : lane \in Reads(p[n], WalksOf(p)[n - 1].gs)} :
           n \in DOMAIN p}
SetBy(e) == {c.at : c \in Candidates(e)}
Passable(e) ==
  /\ Routed(AliasSpace[e.alias]) /\ RouteIsRaw(AliasSpace[e.alias])
  /\ \A c \in Candidates(e) : c.value \notin page.excluded \union page.failing
EpochsConverted(E, rw, p) ==
  \A i \in DOMAIN E :
    SetBy(E[i]) \cap ReadBy(p) # {} /\ Passable(E[i]) => SetBy(E[i]) \subseteq DOMAIN rw

(* The claim is about the page alone, however it is primed.                *)
LEMMA PlainCarried ==
    ASSUME page' = page, word' = word, walk' = walk,
           outcome' = "edited" /\ PlainPage => EpochsConverted(epochs', rewritten', word)
    PROVE  PlainEpochIsConverted'
<1> SUFFICES ASSUME outcome' = "edited", PlainPage'
             PROVE  PlainEpochIsConverted'
  BY DEF PlainEpochIsConverted
<1>1. PlainPage
  <2>1. Repeated' = Repeated
    BY DEF Repeated, Cell
  <2>2. \A n : (Localized(n)' <=> Localized(n)) /\ (InPlaceObject(n)' <=> InPlaceObject(n))
    BY DEF Localized, InPlaceObject, Cell
  <2> QED
    BY <2>1, <2>2 DEF PlainPage
<1>2. EpochsConverted(epochs', rewritten', word)
  BY <1>1
<1>3. \A space : (Routed(space)' <=> Routed(space)) /\ (RouteIsRaw(space)' <=> RouteIsRaw(space))
  BY DEF Routed, RouteIsRaw
<1>4. EpochsConverted(epochs, rewritten, word)'
  BY <1>2, <1>3 DEF EpochsConverted, Passable
<1> QED
  BY <1>4 DEF PlainEpochIsConverted, EpochsConverted, Passable, SetBy, ReadBy

(* A plain page at its end: nothing is open.                               *)
LEMMA PlainEnds ==
    ASSUME MirrorInv, HistoryNow, PlainWalk, PlainPage
    PROVE  /\ ClosedEpochs = epochs /\ Repeated = {}
           /\ Justified(epochs) /\ ReadSeen(epochs, WalksOf(word), word)
<1> DEFINE h == WalksOf(word)
           f == Inside(word)
<1>1. Len(word) \in Nat /\ DOMAIN word = 1 .. Len(word) /\ Len(saved) = Len(walk.stack)
      /\ saved \in Seq(LanePairs)
  BY LenProperties, HistoryFacts DEF MirrorInv
<1>2. InsideIs(word, f)
  BY <1>1, InsideAre
<1>3. /\ Repeated = {} /\ f[Len(word)] = "page" /\ walk.stack = <<>>
      /\ \A n \in 1 .. Len(word) : PlainRecord(word[n], n, h[n - 1].gs)
  BY <1>1 DEF PlainPage, PlainRecord
<1> HIDE DEF h, f
<1>4. PlainSoFar(word, h, f)
  BY <1>2, <1>3 DEF PlainSoFar
<1>5. /\ Standing(f[Len(word)], inText, inPath, marked)
      /\ Justified(epochs) /\ ReadSeen(epochs, h, word)
  BY <1>4 DEF PlainWalk, PlainOK, h
<1>6. ~inText /\ ~inPath /\ ~(marked > 0)
  BY <1>3, <1>5 DEF Standing
<1>7. saved = <<>>
  <2>1. Len(saved) = 0
    BY <1>1, <1>3
  <2> QED
    BY <1>1, <2>1, EmptySeq
<1>8. ClosedEpochs = epochs
  BY <1>6, <1>7 DEF ClosedEpochs
<1> QED
  BY <1>3, <1>5, <1>8 DEF h

(* Its epochs are written when anything reads them.                        *)
LEMMA PlainWritten ==
    ASSUME ClosingOK(epochs), Repeated = {}, Justified(epochs),
           ReadSeen(epochs, WalksOf(word), word)
    PROVE  EpochsConverted(epochs, Writing(epochs), word)
<1> DEFINE h == WalksOf(word)
<1>1. /\ epochs \in Seq(EpochType) /\ DOMAIN epochs = 1 .. Len(epochs)
      /\ word \in Seq(OperatorRecords) /\ DOMAIN word = 1 .. Len(word)
  BY LenProperties DEF ClosingOK
<1> SUFFICES ASSUME NEW i \in 1 .. Len(epochs), SetBy(epochs[i]) \cap ReadBy(word) # {},
                    Passable(epochs[i]), NEW c \in Candidates(epochs[i])
             PROVE  c.at \in DOMAIN Writing(epochs)
  BY <1>1 DEF EpochsConverted, SetBy
<1>2. ~Faulty(epochs[i])
  BY DEF Passable, Faulty
<1>3. epochs[i].refusal = NoRefusal
  BY <1>2 DEF Justified
<1>4. Seen(epochs[i])
  <2>1. PICK d \in Candidates(epochs[i]) : d.at \in ReadBy(word)
    BY DEF SetBy
  <2>2. PICK n \in DOMAIN word :
          d.at \in {h[n - 1].gs[lane].source : lane \in Reads(word[n], h[n - 1].gs)}
    BY <2>1 DEF ReadBy
  <2>3. PICK lane \in Reads(word[n], h[n - 1].gs) : d.at = h[n - 1].gs[lane].source
    BY <2>2
  <2>4. n \in 1 .. Len(word)
    BY <1>1
  <2> HIDE DEF h
  <2>5. ReadSeen(epochs, h, word)
    BY DEF h
  <2> QED
    BY <2>3, <2>4, <2>5, Zenon DEF ReadSeen
<1>5. epochs[i].consumed
  BY <1>3, <1>4 DEF Seen
<1>6. epochs[i].candidates # <<>>
  BY DEF Candidates
<1>7. Executable(epochs[i])
  BY <1>3, <1>5, <1>6 DEF Executable, Passable
<1>8. ~(i \in Stopped(epochs))
  BY <1>7, RunsAlone
<1> DEFINE r == [at |-> c.at,
                 by |-> Converted(epochs[i].lane, AliasSpace[epochs[i].alias], c.value)]
<1>9. FromAlias(epochs, r, i, c)
  BY <1>8 DEF FromAlias
<1>10. r.at = c.at
  OBVIOUS
<1> HIDE DEF r
<1>11. r \in PageRewrites(epochs)
  BY <1>9, RewritesAre
<1> QED
  BY <1>10, <1>11 DEF Writing

(* So it is at the end of the page.                                        *)
LEMMA PlainFinished ==
    ASSUME AgreeInv, HistoryNow, PlainWalk, Finish
    PROVE  PlainEpochIsConverted'
<1>1. /\ page' = page /\ word' = word /\ walk' = walk /\ epochs' = ClosedEpochs
      /\ outcome' = "edited" => rewritten' = Writing(ClosedEpochs)
  BY DEF Finish, Writing, PageRewrites
<1>2. ASSUME outcome' = "edited", PlainPage
      PROVE  EpochsConverted(epochs', rewritten', word)
  <2>1. MirrorInv /\ ClosingOK(ClosedEpochs)
    BY ClosingHolds DEF AgreeInv
  <2>2. /\ ClosedEpochs = epochs /\ Repeated = {}
        /\ Justified(epochs) /\ ReadSeen(epochs, WalksOf(word), word)
    BY <1>2, <2>1, PlainEnds
  <2>3. EpochsConverted(epochs, Writing(epochs), word)
    BY <2>1, <2>2, PlainWritten
  <2> QED
    BY <1>1, <1>2, <2>2, <2>3
<1> QED
  BY <1>1, <1>2, PlainCarried

-----------------------------------------------------------------------------
(* While a plain page is walked nothing is refused without a reason, and   *)
(* at its end what is read is written.                                     *)
PlainInv ==
  /\ MeaningInv
  /\ outcome = "walking" => PlainWalk
  /\ PlainEpochIsConverted

(* It holds at the start.                                                  *)
LEMMA PlainStarts ==
    ASSUME Init
    PROVE  PlainInv
<1>1. MeaningInv
  BY MeaningStarts
<1>2. /\ word = <<>> /\ epochs = <<>> /\ outcome = "walking" /\ ~inText /\ ~inPath /\ marked = 0
      /\ decisions = [k \in {} |-> 0]
  BY DEF Init
<1>3. Len(word) = 0 /\ Len(epochs) = 0 /\ 1 .. 0 = {} /\ DOMAIN decisions = {}
  BY <1>2
<1>4. Justified(epochs) /\ \A h : ReadSeen(epochs, h, word)
  BY <1>3 DEF Justified, ReadSeen
<1>5. \A f : InsideIs(word, f) => Standing(f[Len(word)], inText, inPath, marked)
  BY <1>2, <1>3 DEF InsideIs, Standing
<1>6. PlainWalk
  BY <1>3, <1>4, <1>5 DEF PlainWalk, PlainOK, PlainSoFar
<1>7. PlainEpochIsConverted
  BY <1>2 DEF PlainEpochIsConverted
<1> QED
  BY <1>1, <1>6, <1>7 DEF PlainInv

(* The walk of a plain page is of the page alone.                          *)
LEMMA PlainWalkCarried ==
    ASSUME page' = page,
           PlainOK(epochs', decisions', word', WalksOf(word'), inText', inPath', marked')
    PROVE  PlainWalk'
<1>1. Repeated' = Repeated
  BY DEF Repeated, Cell
<1>2. \A n : (Localized(n)' <=> Localized(n)) /\ (InPlaceObject(n)' <=> InPlaceObject(n))
  BY DEF Localized, InPlaceObject, Cell
<1>3. \A e : Faulty(e)' <=> Faulty(e)
  BY DEF Faulty, Routed, RouteIsRaw
<1>4. \A p, h, f : PlainSoFar(p, h, f)' <=> PlainSoFar(p, h, f)
  BY <1>1, <1>2 DEF PlainSoFar, PlainRecord
<1>5. \A E : Justified(E)' <=> Justified(E)
  BY <1>3 DEF Justified
<1> QED
  BY <1>1, <1>4, <1>5 DEF PlainWalk, PlainOK

(* No step breaks it.                                                      *)
LEMMA PlainStays ==
    ASSUME PlainInv, [Next]_vars
    PROVE  PlainInv'
<1>1. MeaningInv /\ MeaningInv' /\ AgreeInv
  BY MeaningStays DEF PlainInv, MeaningInv
<1>2. ASSUME outcome = "walking", NEW o \in NextOperators, Len(word) < Len(page.cells),
             ObserveOperator(o)
      PROVE  (outcome = "walking" => PlainWalk)' /\ PlainEpochIsConverted'
  <2>1. outcome' \in {"walking", "refused"} /\ page' = page
    BY <1>2 DEF ObserveOperator, Save, Restore, SelectAlias, SelectOther, SetOutsideEpoch,
       SetInEpoch, RefuseSetter, SetDeviceColor, PaintPath, ShowText, InvokeXObject,
       ObserveNeutral, BeginPath, ContinuePath, BeginText, EndText, BeginMarked, EndMarked,
       Opaque, AbandonPage, KeepConversion, Observe
  <2>2. MirrorInv /\ HistoryNow /\ PlainWalk
    BY <1>1, <1>2 DEF AgreeInv, MeaningInv, PlainInv
  <2>3. IsOperator(o)
    BY <1>2, <2>2, NextAreOperators
  <2>4. ASSUME outcome' = "walking" PROVE PlainWalk'
    <3>1. ~AbandonPage(o)
      BY <2>4 DEF AbandonPage
    <3> QED
      BY <1>2, <2>1, <2>2, <2>3, <3>1, PlainWalked, PlainWalkCarried
  <2>5. PlainEpochIsConverted'
    BY <2>1 DEF PlainEpochIsConverted
  <2> QED
    BY <2>4, <2>5
<1>3. CASE Finish
  <2>1. outcome = "walking" /\ outcome' # "walking"
    BY <1>1, <1>3, AgreeFinished DEF Finish
  <2>2. HistoryNow /\ PlainWalk
    BY <1>1, <2>1 DEF MeaningInv, PlainInv
  <2>3. PlainEpochIsConverted'
    BY <1>1, <1>3, <2>2, PlainFinished
  <2> QED
    BY <1>1, <2>1, <2>3 DEF PlainInv
<1>4. CASE UNCHANGED vars
  <2>1. /\ page' = page /\ word' = word /\ epochs' = epochs /\ decisions' = decisions
        /\ walk' = walk /\ outcome' = outcome /\ rewritten' = rewritten
        /\ inText' = inText /\ inPath' = inPath /\ marked' = marked
    BY <1>4 DEF vars, plan
  <2>2. PlainWalk => PlainWalk'
    BY <2>1, PlainWalkCarried DEF PlainWalk
  <2>3. PlainEpochIsConverted'
    <3>1. outcome = "edited" /\ PlainPage => EpochsConverted(epochs, rewritten, word)
      BY DEF PlainInv, PlainEpochIsConverted, EpochsConverted, Passable, SetBy, ReadBy
    <3> QED
      BY <2>1, <3>1, PlainCarried
  <2> QED
    BY <1>1, <2>1, <2>2, <2>3 DEF PlainInv
<1> QED
  BY <1>1, <1>2, <1>3, <1>4 DEF Next, PlainInv

(* The plan refuses no more than it has to: on every plain page an epoch   *)
(* whose family has a link and whose values pass the selector and the link *)
(* is rewritten as soon as anything reads one of its colours, across any q *)
(* and Q (finish and execute_alias_epochs).                                *)
THEOREM PlainEpochIsAlwaysConverted == Spec => []PlainEpochIsConverted
<1>1. Init => PlainInv
  BY PlainStarts
<1>2. PlainInv /\ [Next]_vars => PlainInv'
  BY PlainStays
<1>3. PlainInv => PlainEpochIsConverted
  BY DEF PlainInv
<1> QED
  BY <1>1, <1>2, <1>3, PTL DEF Spec
=============================================================================
