----------------------------- MODULE AliasEpoch -----------------------------
(***************************************************************************)
(* The colour conversion of one page (presslint-write,                     *)
(* content_color_convert.rs) with the alias epoch plan that watches its    *)
(* walk (alias_epoch_plan.rs).                                             *)
(*                                                                         *)
(* A page is a sequence of cells, one per operator record of the logical   *)
(* /Contents.  A cell names the content object and the record's place in   *)
(* it, so that an object listed twice brings the same records twice; place *)
(* 0 is a record that straddles two streams.  A direct device operator is  *)
(* converted where it stands.  An alias selection opens an epoch: its      *)
(* selection and every setter under it are rewritten together, or none is. *)
(***************************************************************************)
EXTENDS PaintWalker, FiniteSets

CONSTANTS Pages,         \* [cells, routes, editable, excluded, failing]
          AliasSpace,    \* classified device aliases -> their family
          RawDevice,     \* families whose /Default* is absent or the identity
          XObjectLanes,  \* proven XObject names -> the lanes they read
          AdmittedFonts  \* fonts admitted as ordinary

(* A wrong operand shape, a value out of range. *)
BadValue == 99

Eligible == DOMAIN PaintSpace

ASSUME PolicyAssumption ==
  /\ Eligible \subseteq DOMAIN AliasSpace
  /\ \A name \in Eligible : /\ PaintSpace[name] = AliasSpace[name]
                            /\ AliasSpace[name] \in RawDevice
  /\ XObjectLanes \in [DOMAIN XObjectLanes -> SUBSET Lanes]
  /\ NoName \notin DOMAIN AliasSpace

(* Operators the plan cannot see through, by the refusal they bring. *)
OpaqueReasons == {"InlineImage", "Type3Operator", "CompatibilitySection", "UnknownOperator"}

OperatorRecords ==
  [kind : STRING, lane : Lanes \union {"none"}, name : STRING, value : Nat]

(* A colour operator belongs to a lane, a path paint strokes, fills, does  *)
(* both or ends the path.                                                  *)
IsOperator(o) ==
  /\ o \in OperatorRecords
  /\ o.kind \in {"select", "set", "device"} => o.lane \in Lanes
  /\ o.kind = "paint" => o.name \in {"stroke", "fill", "both", "end"}
  /\ o.kind = "opaque" => o.name \in OpaqueReasons

ASSUME PageAssumption ==
  \A p \in Pages :
    /\ p.cells \in Seq([object : STRING, occurrence : Nat, place : Nat,
                        operators : SUBSET OperatorRecords])
    /\ \A at \in DOMAIN p.cells : \A o \in p.cells[at].operators : IsOperator(o)
    /\ p.routes \in [DOMAIN p.routes -> STRING]

(* An occurrence is a stretch of the page that shows one object, and no two *)
(* records of it lie in the same place.                                     *)
ASSUME OccurrenceAssumption ==
  \A p \in Pages : \A m, n \in DOMAIN p.cells :
    p.cells[m].occurrence = p.cells[n].occurrence =>
      /\ p.cells[m].object = p.cells[n].object
      /\ p.cells[m].place = p.cells[n].place /\ p.cells[m].place # 0 => m = n

VARIABLES page,       \* the page being converted
          word,       \* the operators walked so far
          walk,       \* the walker: current snapshot and saved ones
          lanes,      \* the branch each lane carries
          saved,      \* the lane pairs saved by q
          epochs,     \* the root epochs in selection order
          inText, inPath, marked,  \* the open graphics objects
          decisions,  \* record of a repeated object -> what was decided for it
          direct,     \* the device operators converted where they stand
          outcome,    \* "walking", then how the page ended
          rewritten   \* record number -> the operator that replaces it

plan == <<lanes, saved, epochs, inText, inPath, marked, decisions>>
vars == <<page, word, walk, plan, direct, outcome, rewritten>>

-----------------------------------------------------------------------------
(* The logical sequence and its occurrences. *)
Cell(at) == page.cells[at]
Localized(at) == Cell(at).place # 0
Record(at) == <<Cell(at).object, Cell(at).place>>
InPlaceObject(at) == Cell(at).object \in page.editable

Repeated ==
  {o \in {Cell(at).object : at \in DOMAIN page.cells} :
     Cardinality({Cell(at).occurrence : at \in {c \in DOMAIN page.cells :
                                                  Cell(c).object = o}}) > 1}

(* What may stand next: a record met before is the same bytes again. *)
NextOperators ==
  LET at == Len(word) + 1
      before == {n \in 1 .. Len(word) : Localized(at) /\ Record(n) = Record(at)}
  IN  IF before = {} THEN Cell(at).operators ELSE {word[n] : n \in before}

Routed(space) == space \in DOMAIN page.routes
RouteIsRaw(space) == {space, page.routes[space]} \subseteq RawDevice
Converted(lane, space, value) ==
  [kind |-> "device", lane |-> lane, name |-> page.routes[space], value |-> value + 100]

-----------------------------------------------------------------------------
(* Epochs, branches and refusals.  The first refusal of an epoch stays. *)
NoBranch == [root |-> 0, value |-> 0, source |-> 0]
NoLanes == [lane \in Lanes |-> NoBranch]
NoRefusal == [at |-> 0, why |-> "none"]
NoFacts == [alias |-> NoName, lane |-> "none", value |-> 0, explicit |-> FALSE]

RefusedAmong(E, roots, at, why) ==
  [i \in DOMAIN E |-> IF i \in roots /\ E[i].refusal = NoRefusal
                      THEN [E[i] EXCEPT !.refusal = [at |-> at, why |-> why]] ELSE E[i]]

RefusedLive(E, at, why) ==
  RefusedAmong(E, {i \in DOMAIN E : E[i].live > 0}, at, why)

RefusedIf(condition, E, at) ==
  IF condition THEN RefusedLive(E, at, "InvalidGraphicsObjectContext") ELSE E

Dropped(E, branch) ==
  [i \in DOMAIN E |-> IF i = branch.root THEN [E[i] EXCEPT !.live = @ - 1] ELSE E[i]]

Copied(E) ==
  [i \in DOMAIN E |->
     [E[i] EXCEPT !.live = @ + Cardinality({lane \in Lanes : lanes[lane].root = i})]]

(* A decision about a record of a repeated object: every root that relied  *)
(* on it is kept, and once two occurrences differ the record is poisoned.  *)
Decided(at, root, facts) ==
  LET key == Record(at)
      roots == IF root = 0 THEN {} ELSE {root}
      known == key \in DOMAIN decisions
      new == IF known
             THEN [roots |-> decisions[key].roots \union roots, facts |-> decisions[key].facts,
                   poisoned |-> decisions[key].poisoned \/ decisions[key].facts # facts]
             ELSE [roots |-> roots, facts |-> facts, poisoned |-> FALSE]
  IN  IF Localized(at) /\ Cell(at).object \in Repeated
      THEN [k \in DOMAIN decisions \union {key} |-> IF k = key THEN new ELSE decisions[k]]
      ELSE decisions

AfterDecision(E, at, root, facts) ==
  LET D == Decided(at, root, facts)
  IN  IF Localized(at) /\ Record(at) \in DOMAIN D /\ D[Record(at)].poisoned
      THEN RefusedAmong(E, D[Record(at)].roots, at, "RepeatedReferenceMismatch") ELSE E

Facts(E, root, value, explicit) ==
  [alias |-> E[root].alias, lane |-> E[root].lane, value |-> value, explicit |-> explicit]

(* A candidate passes the selector, lies in one occurrence of an object    *)
(* that may be edited in place, and agrees with its other occurrences.     *)
WithCandidate(E, at, root, value, explicit) ==
  LET selected == IF value \in page.excluded
                  THEN RefusedAmong(E, {root}, at, "SelectorExcluded") ELSE E
      owned == IF InPlaceObject(at) THEN selected
               ELSE RefusedAmong(selected, {root}, at, "CandidateOwnershipVetoed")
      added == [owned EXCEPT ![root].candidates = Append(@, [at |-> at, value |-> value])]
  IN  IF ~Localized(at) THEN RefusedAmong(selected, {root}, at, "CandidateNotLocalized")
      ELSE AfterDecision(added, at, root, Facts(E, root, value, explicit))

(* A consumer accepts only the very colour the branch is pending on. *)
Consumed(E, lane, at) ==
  LET branch == lanes[lane]
      colour == walk.gs[lane]
      agrees == /\ colour.name = E[branch.root].alias
                /\ colour.space = AliasSpace[E[branch.root].alias]
                /\ colour.value = branch.value
                /\ colour.source = branch.source
  IN  IF branch.root = 0 THEN E
      ELSE IF agrees THEN [E EXCEPT ![branch.root].consumed = TRUE]
      ELSE RefusedAmong(E, {branch.root}, at, "StateMismatch")

ConsumedBoth(E, read, at) ==
  LET stroked == IF "stroke" \in read THEN Consumed(E, "stroke", at) ELSE E
  IN  IF "fill" \in read THEN Consumed(stroked, "fill", at) ELSE stroked

-----------------------------------------------------------------------------
Init ==
  /\ page \in Pages
  /\ word = <<>> /\ walk = WalkStart
  /\ lanes = NoLanes /\ saved = <<>> /\ epochs = <<>>
  /\ inText = FALSE /\ inPath = FALSE /\ marked = 0
  /\ decisions = [k \in {} |-> 0]
  /\ direct = {} /\ outcome = "walking" /\ rewritten = [n \in {} |-> 0]

Now == Len(word) + 1

(* The record is walked; only then does the plan observe it. *)
Observe(o) ==
  /\ ~WalkFails(walk, o)
  /\ word' = Append(word, o)
  /\ walk' = Walked(walk, o, Now)
  /\ UNCHANGED <<page, rewritten>>

KeepConversion == UNCHANGED <<direct, outcome>>
KeepObjects == UNCHANGED <<inText, inPath, marked>>
KeepBranches == UNCHANGED <<lanes, saved, decisions>>

(* q: both branches are copied and counted. *)
Save(o) ==
  /\ o.kind = "q" /\ Observe(o)
  /\ epochs' = Copied(RefusedIf(inText \/ inPath, epochs, Now))
  /\ saved' = Append(saved, lanes)
  /\ UNCHANGED <<lanes, decisions>> /\ KeepObjects /\ KeepConversion

(* Mutant: the branches begun inside the frame are forgotten, not dropped. *)
RestoreForgetting(o) ==
  /\ o.kind = "Q" /\ Observe(o)
  /\ epochs' = RefusedIf(inText \/ inPath, epochs, Now)
  /\ lanes' = saved[Len(saved)]
  /\ saved' = SubSeq(saved, 1, Len(saved) - 1)
  /\ UNCHANGED decisions /\ KeepObjects /\ KeepConversion

(* Q: the branches begun inside are dropped, the saved pair comes back. *)
Restore(o) ==
  /\ o.kind = "Q" /\ Observe(o)
  /\ LET refused == RefusedIf(inText \/ inPath, epochs, Now)
     IN  epochs' = Dropped(Dropped(refused, lanes["stroke"]), lanes["fill"])
  /\ lanes' = saved[Len(saved)]
  /\ saved' = SubSeq(saved, 1, Len(saved) - 1)
  /\ UNCHANGED decisions /\ KeepObjects /\ KeepConversion

(* cs or CS with an eligible alias opens an epoch. *)
SelectAlias(o) ==
  /\ o.kind = "select" /\ o.name \in Eligible /\ Observe(o)
  /\ LET before == Dropped(RefusedIf(inPath, epochs, Now), lanes[o.lane])
         space == AliasSpace[o.name]
         root == Len(before) + 1
         opened == Append(before, [alias |-> o.name, lane |-> o.lane, candidates |-> <<>>,
                                   consumed |-> FALSE, live |-> 1, refusal |-> NoRefusal])
         routed == IF ~Routed(space) THEN RefusedAmong(opened, {root}, Now, "NoPreparedRoute")
                   ELSE IF ~RouteIsRaw(space)
                   THEN RefusedAmong(opened, {root}, Now, "RouteDefaultUnsafe") ELSE opened
     IN  /\ epochs' = RefusedIf(inPath, WithCandidate(routed, Now, root, 0, FALSE), Now)
         /\ decisions' = Decided(Now, root, Facts(opened, root, 0, FALSE))
         /\ lanes' = [lanes EXCEPT ![o.lane] = [root |-> root, value |-> 0, source |-> Now]]
  /\ UNCHANGED saved /\ KeepObjects /\ KeepConversion

SelectOther(o) ==
  /\ o.kind = "select" /\ o.name \notin Eligible /\ Observe(o)
  /\ LET before == Dropped(RefusedIf(inPath, epochs, Now), lanes[o.lane])
     IN  epochs' = RefusedIf(inPath, AfterDecision(before, Now, 0, NoFacts), Now)
  /\ decisions' = Decided(Now, 0, NoFacts)
  /\ lanes' = [lanes EXCEPT ![o.lane] = NoBranch]
  /\ UNCHANGED saved /\ KeepObjects /\ KeepConversion

(* How a setter is classified: by the name selected before it. *)
Setting(o) ==
  LET before == walk.gs[o.lane]
  IN  IF before.name \notin DOMAIN AliasSpace THEN "UnclassifiedSetter"
      ELSE IF /\ before.name \in Eligible /\ before.space = AliasSpace[before.name]
              /\ o.value # BadValue /\ o.name = NoName /\ Localized(Now)
      THEN "eligible" ELSE "IneligibleSetter"

(* sc, SC, scn, SCN without a live epoch on the lane. *)
SetOutsideEpoch(o) ==
  /\ o.kind = "set" /\ lanes[o.lane].root = 0 /\ Observe(o)
  /\ epochs' = RefusedIf(inPath, AfterDecision(epochs, Now, 0, NoFacts), Now)
  /\ decisions' = Decided(Now, 0, NoFacts)
  /\ UNCHANGED <<lanes, saved>> /\ KeepObjects /\ KeepConversion

(* An eligible setter becomes a candidate and the branch's pending value. *)
SetInEpoch(o) ==
  /\ o.kind = "set" /\ lanes[o.lane].root # 0 /\ Setting(o) = "eligible" /\ Observe(o)
  /\ LET root == lanes[o.lane].root
         before == RefusedIf(inPath, epochs, Now)
         agrees == /\ walk.gs[o.lane].name = epochs[root].alias
                   /\ walk.gs[o.lane].space = AliasSpace[epochs[root].alias]
     IN  IF agrees
         THEN /\ epochs' = RefusedIf(inPath, WithCandidate(before, Now, root, o.value, TRUE), Now)
              /\ decisions' = Decided(Now, root, Facts(epochs, root, o.value, TRUE))
              /\ lanes' = [lanes EXCEPT ![o.lane] =
                             [root |-> root, value |-> o.value, source |-> Now]]
         ELSE /\ epochs' = AfterDecision(RefusedAmong(before, {root}, Now, "StateMismatch"),
                                         Now, root, NoFacts)  \* inPath has refused already
              /\ decisions' = Decided(Now, root, NoFacts)
              /\ UNCHANGED lanes
  /\ UNCHANGED saved /\ KeepObjects /\ KeepConversion

(* Any other setter refuses the epoch it stands in. *)
RefuseSetter(o) ==
  /\ o.kind = "set" /\ lanes[o.lane].root # 0 /\ Setting(o) # "eligible" /\ Observe(o)
  /\ LET root == lanes[o.lane].root
         refused == RefusedAmong(RefusedIf(inPath, epochs, Now), {root}, Now, Setting(o))
     IN  /\ epochs' = RefusedIf(inPath, AfterDecision(refused, Now, root, NoFacts), Now)
         /\ decisions' = Decided(Now, root, NoFacts)
  /\ UNCHANGED <<lanes, saved>> /\ KeepObjects /\ KeepConversion

(* g, rg, k end the lane's branch.  The operator itself is converted where *)
(* it stands; one that straddles two streams abandons the page.            *)
SetDeviceColor(o) ==
  /\ o.kind = "device" /\ Observe(o)
  /\ LET dropped == Dropped(RefusedIf(inPath, epochs, Now), lanes[o.lane])
     IN  epochs' = RefusedIf(inPath, dropped, Now)
  /\ lanes' = [lanes EXCEPT ![o.lane] = NoBranch]
  /\ LET convertible == /\ InPlaceObject(Now)
                        /\ o.value # BadValue /\ o.value \notin page.excluded
                        /\ Routed(o.name) /\ RouteIsRaw(o.name)
     IN  /\ outcome' = IF convertible /\ ~Localized(Now) THEN "refused" ELSE outcome
         /\ direct' = IF convertible /\ Localized(Now) /\ o.value \notin page.failing
                      THEN direct \union {Now} ELSE direct
  /\ UNCHANGED <<saved, decisions>> /\ KeepObjects

PaintedLanes(o) == CASE o.name = "stroke" -> {"stroke"} [] o.name = "fill" -> {"fill"}
                     [] o.name = "both" -> Lanes [] o.name = "end" -> {}

(* A path paint ends the path and reads the lanes of its kind. *)
PaintPath(o) ==
  /\ o.kind = "paint" /\ Observe(o)
  /\ epochs' = ConsumedBoth(RefusedIf(inText, epochs, Now), PaintedLanes(o), Now)
  /\ inPath' = FALSE
  /\ UNCHANGED <<inText, marked>> /\ KeepBranches /\ KeepConversion

(* The lanes a text rendering mode reads; other modes are unsupported. *)
ModeLanes(mode) == CASE mode \in {0, 4} -> {"fill"} [] mode \in {1, 5} -> {"stroke"}
                     [] mode \in {2, 6} -> Lanes [] mode \in {3, 7} -> {}

(* Text in an admitted font reads the lanes of the mode; any other font    *)
(* may run glyph programs that paint.                                      *)
ShowText(o) ==
  /\ o.kind = "show" /\ Observe(o)
  /\ epochs' = IF walk.gs.font \notin AdmittedFonts THEN RefusedLive(epochs, Now, "TextShow")
               ELSE IF ~inText \/ inPath THEN RefusedIf(TRUE, epochs, Now)
               ELSE IF walk.gs.mode \notin 0 .. 7 THEN RefusedLive(epochs, Now, "TextShow")
               ELSE ConsumedBoth(epochs, ModeLanes(walk.gs.mode), Now)
  /\ KeepBranches /\ KeepObjects /\ KeepConversion

(* Mutant: an XObject nothing is known of is taken for an image. *)
InvokeAnyXObject(o) ==
  /\ o.kind = "Do" /\ Observe(o)
  /\ epochs' = IF inText \/ inPath THEN RefusedIf(TRUE, epochs, Now)
               ELSE IF o.name \in DOMAIN XObjectLanes
               THEN ConsumedBoth(epochs, XObjectLanes[o.name], Now) ELSE epochs
  /\ KeepBranches /\ KeepObjects /\ KeepConversion

(* Do reads the lanes proven for the name; an unproven one is opaque. *)
InvokeXObject(o) ==
  /\ o.kind = "Do" /\ Observe(o)
  /\ epochs' = IF inText \/ inPath THEN RefusedIf(TRUE, epochs, Now)
               ELSE IF o.name \in DOMAIN XObjectLanes
               THEN ConsumedBoth(epochs, XObjectLanes[o.name], Now)
               ELSE RefusedLive(epochs, Now, "XObjectInvoke")
  /\ KeepBranches /\ KeepObjects /\ KeepConversion

(* cm and sh belong at page level, parameters and text state outside paths. *)
ObserveNeutral(o) ==
  /\ o.kind \in {"cm", "sh", "neutral", "Tr", "Tf", "gs"} /\ Observe(o)
  /\ epochs' = RefusedIf(inPath \/ (inText /\ o.kind \in {"cm", "sh"}), epochs, Now)
  /\ KeepBranches /\ KeepObjects /\ KeepConversion

(* m and re open or continue a path. *)
BeginPath(o) ==
  /\ o.kind = "m" /\ Observe(o)
  /\ epochs' = RefusedIf(inText, epochs, Now)
  /\ inPath' = (inPath \/ ~inText)
  /\ UNCHANGED <<inText, marked>> /\ KeepBranches /\ KeepConversion

(* Construction and clipping continue an open path. *)
ContinuePath(o) ==
  /\ o.kind = "l" /\ Observe(o)
  /\ epochs' = RefusedIf(inText \/ ~inPath, epochs, Now)
  /\ KeepBranches /\ KeepObjects /\ KeepConversion

BeginText(o) ==
  /\ o.kind = "BT" /\ Observe(o)
  /\ epochs' = RefusedIf(inText \/ inPath, epochs, Now)
  /\ inText' = TRUE
  /\ UNCHANGED <<inPath, marked>> /\ KeepBranches /\ KeepConversion

EndText(o) ==
  /\ o.kind = "ET" /\ Observe(o)
  /\ epochs' = RefusedIf(~inText, epochs, Now)
  /\ inText' = FALSE
  /\ UNCHANGED <<inPath, marked>> /\ KeepBranches /\ KeepConversion

BeginMarked(o) ==
  /\ o.kind = "BMC" /\ Observe(o)
  /\ epochs' = RefusedIf(inPath, epochs, Now)
  /\ marked' = marked + 1
  /\ UNCHANGED <<inText, inPath>> /\ KeepBranches /\ KeepConversion

EndMarked(o) ==
  /\ o.kind = "EMC" /\ Observe(o)
  /\ epochs' = RefusedIf(inPath \/ marked = 0, epochs, Now)
  /\ marked' = IF marked = 0 THEN 0 ELSE marked - 1
  /\ UNCHANGED <<inText, inPath>> /\ KeepBranches /\ KeepConversion

(* Inline images, d0 and d1, BX and EX, operators nobody knows. *)
Opaque(o) ==
  /\ o.kind = "opaque" /\ Observe(o)
  /\ epochs' = RefusedLive(epochs, Now, o.name)
  /\ KeepBranches /\ KeepObjects /\ KeepConversion

(* A walk error abandons the page with everything collected. *)
AbandonPage(o) ==
  /\ WalkFails(walk, o)
  /\ word' = Append(word, o)
  /\ outcome' = "refused"
  /\ UNCHANGED <<page, walk, plan, direct, rewritten>>

-----------------------------------------------------------------------------
(* The end of the page (finish): a frame left on the stack refuses every   *)
(* epoch, an object left open those still live.                            *)
ClosedEpochs ==
  IF saved # <<>> THEN RefusedAmong(epochs, DOMAIN epochs, 0, "UnbalancedSaveAtPageEnd")
  ELSE IF inText \/ inPath \/ marked > 0
  THEN RefusedLive(epochs, 0, "InvalidGraphicsObjectContext") ELSE epochs

Candidates(epoch) == {epoch.candidates[n] : n \in DOMAIN epoch.candidates}
RecordsOf(epoch) == {Record(c.at) : c \in Candidates(epoch)}

(* Mutant: an epoch needs a setter; its initial colour is forgotten. *)
ExecutableWithSetter(epoch) ==
  /\ epoch.refusal = NoRefusal /\ epoch.consumed
  /\ Routed(AliasSpace[epoch.alias]) /\ Len(epoch.candidates) > 1
  /\ \A c \in Candidates(epoch) : c.value \notin page.excluded \union page.failing

(* An epoch that may run: closed, read by something, every candidate's     *)
(* colour goes through the link.                                           *)
Executable(epoch) ==
  /\ epoch.refusal = NoRefusal /\ epoch.consumed
  /\ Routed(AliasSpace[epoch.alias]) /\ epoch.candidates # <<>>
  /\ \A c \in Candidates(epoch) : c.value \notin page.excluded \union page.failing

Rewrites(epoch) ==
  {[at |-> c.at, by |-> Converted(epoch.lane, AliasSpace[epoch.alias], c.value)] :
     c \in Candidates(epoch)}

Conflict(e, f) ==
  \E r \in Rewrites(e), s \in Rewrites(f) : Record(r.at) = Record(s.at) /\ r.by # s.by

(* Mutant: every root stops for itself. *)
StoppedAlone(E) == {i \in DOMAIN E : ~Executable(E[i])}

(* Roots that share a physical record run together: what cannot run keeps  *)
(* everything connected to it from running.                                *)
Stopped(E) ==
  LET stopped[n \in 0 .. Len(E)] ==
        IF n = 0
        THEN {i \in DOMAIN E : \/ ~Executable(E[i])
                               \/ \E j \in DOMAIN E : Executable(E[j]) /\ Conflict(E[i], E[j])}
        ELSE LET before == stopped[n - 1]
             IN  before \union {i \in DOMAIN E : \E j \in before :
                                   RecordsOf(E[i]) \cap RecordsOf(E[j]) # {}}
  IN  stopped[Len(E)]

AliasRewrites(E) == UNION {Rewrites(E[i]) : i \in DOMAIN E \ Stopped(E)}

DirectRewrites ==
  {[at |-> n, by |-> Converted(word[n].lane, word[n].name, word[n].value)] : n \in direct}

(* Every occurrence of one object must have been given the same splices. *)
SplicesOf(rewrites, occurrence) ==
  {<<Cell(r.at).place, r.by>> : r \in {x \in rewrites : Cell(x.at).occurrence = occurrence}}

Reconciled(rewrites) ==
  \A m, n \in DOMAIN page.cells :
     Cell(m).object = Cell(n).object =>
       SplicesOf(rewrites, Cell(m).occurrence) = SplicesOf(rewrites, Cell(n).occurrence)

(* Close the plan, run its epochs, reconcile the occurrences. *)
Finish ==
  /\ outcome = "walking" /\ Len(word) = Len(page.cells)
  /\ epochs' = ClosedEpochs
  /\ LET rewrites == AliasRewrites(ClosedEpochs) \union DirectRewrites
     IN  IF Reconciled(rewrites)
         THEN /\ outcome' = "edited"
              /\ rewritten' = [n \in {r.at : r \in rewrites} |->
                                 (CHOOSE r \in rewrites : r.at = n).by]
         ELSE outcome' = "irreconcilable" /\ UNCHANGED rewritten
  /\ UNCHANGED <<page, word, walk, direct, inText, inPath, marked>> /\ KeepBranches

ObserveOperator(o) ==
  \/ Save(o) \/ Restore(o) \/ SelectAlias(o) \/ SelectOther(o)
  \/ SetOutsideEpoch(o) \/ SetInEpoch(o) \/ RefuseSetter(o) \/ SetDeviceColor(o)
  \/ PaintPath(o) \/ ShowText(o) \/ InvokeXObject(o) \/ ObserveNeutral(o)
  \/ BeginPath(o) \/ ContinuePath(o) \/ BeginText(o) \/ EndText(o)
  \/ BeginMarked(o) \/ EndMarked(o) \/ Opaque(o) \/ AbandonPage(o)

Next ==
  \/ /\ outcome = "walking" /\ Len(word) < Len(page.cells)
     /\ \E o \in NextOperators : ObserveOperator(o)
  \/ Finish

Spec == Init /\ [][Next]_vars

-----------------------------------------------------------------------------
(* The plan keeps its own copy of what the walker does to colours (save    *)
(* and restore in alias_epoch_plan.rs).  The two never drift: the count of *)
(* an epoch's live branches is the number of lanes and saved lanes that    *)
(* carry it, every branch of an epoch not refused is the very colour the   *)
(* walker has in that place, and no refusal ever blames a disagreement.    *)
PlanMirrorsWalker ==
  LET Pair(k) == IF k = 0 THEN lanes ELSE saved[k]
      Colours(k) == IF k = 0 THEN walk.gs ELSE walk.stack[k]
      Places == (0 .. Len(saved)) \X Lanes
      Carrying(i) == {place \in Places : Pair(place[1])[place[2]].root = i}
  IN  /\ Len(saved) = Len(walk.stack)
      /\ \A i \in DOMAIN epochs :
           /\ epochs[i].live = Cardinality(Carrying(i))
           /\ epochs[i].refusal.why # "StateMismatch"
           /\ epochs[i].refusal = NoRefusal =>
                \A place \in Carrying(i) :
                  LET colour == Colours(place[1])[place[2]]
                      branch == Pair(place[1])[place[2]]
                  IN  /\ <<colour.value, colour.source>> = <<branch.value, branch.source>>
                      /\ colour.name = epochs[i].alias

-----------------------------------------------------------------------------
(* What a program shows: the walk before each of its operators, and the    *)
(* lanes an operator reads.  An opaque operator may read both.             *)
WalksOf(program) ==
  LET w[n \in 0 .. Len(program)] ==
        IF n = 0 THEN WalkStart ELSE LET before == w[n - 1] IN Walked(before, program[n], n)
  IN  w

ReadsUnproven(o, snapshot) ==
  \/ o.kind = "opaque"
  \/ o.kind = "show" /\ (snapshot.font \notin AdmittedFonts \/ snapshot.mode \notin 0 .. 7)
  \/ o.kind = "Do" /\ o.name \notin DOMAIN XObjectLanes

Reads(o, snapshot) ==
  IF ReadsUnproven(o, snapshot) THEN Lanes
  ELSE CASE o.kind = "paint" -> PaintedLanes(o)
         [] o.kind = "show" -> ModeLanes(snapshot.mode)
         [] o.kind = "Do" -> XObjectLanes[o.name]
         [] OTHER -> {}

Output == [n \in DOMAIN word |-> IF n \in DOMAIN rewritten THEN rewritten[n] ELSE word[n]]

Shown(colour) == <<colour.space, colour.value>>

(* A colour that ought to come out converted: its record was rewritten.    *)
(* What reads colours no proof covers must never see a converted alias.    *)
ShownAfter(n, snapshot, colour) ==
  IF colour.source \in DOMAIN rewritten
     /\ (ReadsUnproven(word[n], snapshot) => colour.source \in direct)
  THEN <<page.routes[colour.space], colour.value + 100>> ELSE Shown(colour)

(* The page without its setters: its walk knows what selected the space    *)
(* that a colour is in.                                                    *)
Selections ==
  [n \in DOMAIN word |-> IF word[n].kind = "set" THEN [word[n] EXCEPT !.kind = "neutral"]
                         ELSE word[n]]

(* An sc in a device space whose g, rg or k is converted. *)
SetUnderDevice(colour, selection) ==
  selection.source \in direct /\ word[colour.source].kind = "set"

KeepsMeaning(Exempt(_, _)) ==
  LET was == WalksOf(word)
      is == WalksOf(Output)
      chosen == WalksOf(Selections)
  IN  \A n \in DOMAIN word : \A lane \in Reads(word[n], was[n - 1].gs) :
        LET colour == was[n - 1].gs[lane]
        IN  \/ Exempt(colour, chosen[n - 1].gs[lane])
            \/ Shown(is[n - 1].gs[lane]) = ShownAfter(n, was[n - 1].gs, colour)

(* The alias pass changes records one at a time and the page has to mean   *)
(* the same: in the edited page every paint, text, image or form sees the  *)
(* converted form of its colour when the record that set the colour was    *)
(* rewritten and the old colour when it was not.  In particular no setter  *)
(* is left behind under a selection that was rewritten, and nothing that   *)
(* might read colours unseen meets a converted alias (convert_sequence     *)
(* with execute_alias_epochs).                                             *)
RewriteKeepsMeaning == outcome = "edited" => KeepsMeaning(SetUnderDevice)

(* The design principle (docs/design-principles.md:5) that an unsupported  *)
(* shape is skipped and never converted in part, for all colours: a g that *)
(* is converted takes the space from under an sc that stays.               *)
NothingConvertedInPart == outcome = "edited" => KeepsMeaning(LAMBDA colour, selection : FALSE)

(* Every occurrence of an object has the same colour records, except for   *)
(* those that straddle a boundary in all of them.                          *)
ColoursCutAlike ==
  \A m, n \in DOMAIN page.cells :
    Cell(m).object = Cell(n).object /\ Localized(m)
      /\ word[m].kind \in {"select", "set", "device"}
    => \E k \in DOMAIN page.cells :
         Cell(k).occurrence = Cell(n).occurrence /\ Record(k) = Record(m)

(* Running the epochs never costs the page: the occurrences of an object   *)
(* that stands twice in /Contents always end with the same splices, unless *)
(* what stands before one of them cuts its records otherwise, and no       *)
(* record is ever given two replacements (note_record_decision, the fixed  *)
(* point of execute_alias_epochs, reconcile).                              *)
OccurrencesAgree ==
  /\ outcome = "irreconcilable" => ~ColoursCutAlike
  /\ outcome = "edited" =>
       \A m, n \in DOMAIN rewritten : Record(m) = Record(n) => rewritten[m] = rewritten[n]

-----------------------------------------------------------------------------
(* Where an operator may stand, as a grammar of graphics objects. *)
Inside(program) ==
  LET in[n \in 0 .. Len(program)] ==
        IF n = 0 THEN "page"
        ELSE LET before == in[n - 1]
                 kind == program[n].kind
             IN  CASE before = "page" /\ kind = "BT" -> "text"
                   [] before = "page" /\ kind = "m" -> "path"
                   [] before = "page" /\ kind \notin {"BT", "ET", "m", "l", "show"} -> "page"
                   [] before = "text" /\ kind = "ET" -> "page"
                   [] before = "text" /\ kind \in {"select", "set", "device", "show", "Tr", "Tf",
                                                  "gs", "neutral"} -> "text"
                   [] before = "path" /\ kind \in {"m", "l"} -> "path"
                   [] before = "path" /\ kind = "paint" -> "page"
                   [] OTHER -> "misplaced"
  IN  in

(* A page without anything the plan has to refuse. *)
PlainPage ==
  /\ \A n \in DOMAIN word : Localized(n) /\ InPlaceObject(n)
  /\ Repeated = {}
  /\ Inside(word)[Len(word)] = "page" /\ walk.stack = <<>>
  /\ \A n \in DOMAIN word :
       /\ word[n].kind \notin {"BMC", "EMC"}
       /\ ~ReadsUnproven(word[n], WalksOf(word)[n - 1].gs)
       /\ word[n].kind = "set" => word[n].value # BadValue /\ word[n].name = NoName

(* The plan refuses no more than it has to: on a plain page an epoch whose *)
(* family has a link and whose values pass the selector and the link is    *)
(* rewritten as soon as anything reads one of its colours, across any q    *)
(* and Q (finish and execute_alias_epochs).                                *)
PlainEpochIsConverted ==
  outcome = "edited" /\ PlainPage =>
    LET walks == WalksOf(word)
        read == UNION {{walks[n - 1].gs[lane].source : lane \in Reads(word[n], walks[n - 1].gs)} :
                         n \in DOMAIN word}
    IN  \A i \in DOMAIN epochs :
          LET set == {c.at : c \in Candidates(epochs[i])}
              space == AliasSpace[epochs[i].alias]
          IN  /\ set \cap read # {}
              /\ Routed(space) /\ RouteIsRaw(space)
              /\ \A c \in Candidates(epochs[i]) : c.value \notin page.excluded \union page.failing
              => set \subseteq DOMAIN rewritten
=============================================================================
