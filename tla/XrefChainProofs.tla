--------------------------- MODULE XrefChainProofs ---------------------------
(***************************************************************************)
(* For every backend, file, start offset and pair of limits: the walk keeps *)
(* its type, and a map it delivers is the newest-wins map of the whole      *)
(* /Prev chain.  ChainIsNewestWins speaks of finished walks only, so it is  *)
(* strengthened to WalkInv, which says what a walk has in hand after any    *)
(* number of sections.  That nothing acceptable is refused needs AcceptInv  *)
(* too: every section followed passed every check, none twice, so the path  *)
(* is the beginning of any acceptable chain.                                *)
(***************************************************************************)
EXTENDS XrefChain, ChainLemmas

(* next is where the chain goes on after the sections of path.              *)
FollowsPrev ==
    /\ path = <<>> => next = start
    /\ path # <<>> => path[1] = start /\ next = file[path[Len(path)]].prev
    /\ \A i \in 1..(Len(path) - 1) : file[path[i]].prev = path[i + 1]
    /\ status = "built" => next = NoPrev

(* merged is the newest-wins map of the sections of path.                   *)
CoversPath == \A i \in DOMAIN path : Numbers(path[i]) \subseteq DOMAIN merged

NewestOfPath ==
    \A n \in DOMAIN merged : \E i \in DOMAIN path :
        /\ n \in Numbers(path[i])
        /\ \A j \in 1..(i - 1) : n \notin Numbers(path[j])
        /\ merged[n] = <<path[i], WinningIndex(backend, file[path[i]].entries, n)>>

SizeOfPath == \A i \in DOMAIN path : size >= file[path[i]].size

WalkInv == FollowsPrev /\ CoversPath /\ NewestOfPath /\ SizeOfPath

(* A walk starts with its type.                                             *)
LEMMA InitType == Init => TypeOK
<1> SUFFICES ASSUME Init PROVE TypeOK
  OBVIOUS
<1> QED
  BY ChainAssumption DEF Init, TypeOK

(* Every way the loop stops or goes on keeps the type: only a section that  *)
(* was opened is pushed.                                                    *)
LEMMA NextType == TypeOK /\ [Next]_vars => TypeOK'
<1> SUFFICES ASSUME TypeOK, [Next]_vars PROVE TypeOK'
  OBVIOUS
<1> USE DEF TypeOK, Stop
<1>1. CASE RejectSectionLimit \/ RejectOutOfBounds \/ RejectCycle
  BY <1>1 DEF RejectSectionLimit, RejectOutOfBounds, RejectCycle, Rejections
<1>2. ASSUME Opened PROVE visited' \subseteq DOMAIN file /\ visited \subseteq visited'
  BY <1>2 DEF Opened
<1>3. ASSUME Opened, \E reason \in Rejections : Stop(reason) PROVE TypeOK'
  <2>1. path \in Seq(visited')
    BY <1>2, <1>3
  <2> QED
    BY <1>2, <1>3, <2>1
<1>4. CASE RejectKind \/ RejectSection \/ RejectEntryLimit
  BY <1>3, <1>4 DEF RejectKind, RejectSection, RejectEntryLimit, Parsed, Rejections
<1>5. CASE MergeSection
  <2>1. Opened /\ next \in DOMAIN file /\ next \in visited'
    BY <1>5 DEF MergeSection, Parsed, Opened
  <2>2. file[next].prev \in Nat /\ file[next].size \in Nat
    BY <2>1, ChainAssumption
  <2>3. path' \in Seq(visited')
    <3>1. path \in Seq(visited')
      BY <1>2, <2>1
    <3> QED
      BY <1>5, <2>1, <3>1 DEF MergeSection
  <2> QED
    BY <1>2, <1>5, <2>1, <2>2, <2>3 DEF MergeSection
<1>6. CASE Finish \/ UNCHANGED vars
  BY <1>6 DEF Finish, vars
<1> QED
  BY <1>1, <1>4, <1>5, <1>6 DEF Next

(* The walk keeps the shape of its variables, for any file and limits.      *)
THEOREM TypeCorrect == Spec => []TypeOK
<1> QED
  BY InitType, NextType, PTL DEF Spec

(* Nothing has been merged before the first section.                        *)
LEMMA InitWalk == Init => WalkInv
  BY DEF Init, WalkInv, FollowsPrev, CoversPath, NewestOfPath, SizeOfPath

(* A step that leaves the walk's data alone, as every rejection does.       *)
LEMMA StopKeepsWalk ==
    ASSUME WalkInv, UNCHANGED <<backend, file, start, next, path, merged, size>>,
           status' = "built" => next = NoPrev
    PROVE  WalkInv'
  BY DEF WalkInv, FollowsPrev, CoversPath, NewestOfPath, SizeOfPath, Numbers

(* Pushing the next section extends the chain, fills the numbers no newer   *)
(* section mentions and leaves the others as they were.                     *)
LEMMA MergeKeepsWalk ==
    ASSUME TypeOK, WalkInv, MergeSection
    PROVE  WalkInv'
<1> DEFINE last == Len(path) + 1
<1>1. /\ path \in Seq(DOMAIN file) /\ next \in DOMAIN file
      /\ path' = Append(path, next) /\ merged' = MergedWith(next)
      /\ next' = file[next].prev
      /\ UNCHANGED <<backend, file, start, status>> /\ status = "walking"
      /\ size' = IF file[next].size > size THEN file[next].size ELSE size
  BY DEF TypeOK, MergeSection, Parsed, Opened, Admitted, HasNext
<1>2. /\ Len(path) \in Nat /\ Len(path') = last /\ path'[last] = next
      /\ DOMAIN path' = 1..last
      /\ \A i \in 1..Len(path) : path'[i] = path[i]
  BY <1>1
<1>3. backend' = backend /\ file' = file /\ DOMAIN path' = 1..last
  BY <1>1, <1>2
<1>4. \A i \in 1..last : Numbers(path[i])' = Numbers(path'[i])
  BY <1>1 DEF Numbers
<1>5. DOMAIN merged' = DOMAIN merged \union Numbers(next)
  BY <1>1 DEF MergedWith
<1>6. FollowsPrev'
  <2>1. path'[1] = start
    BY <1>1, <1>2 DEF WalkInv, FollowsPrev
  <2>2. \A i \in 1..(last - 1) : file[path'[i]].prev = path'[i + 1]
    <3> TAKE i \in 1..(last - 1)
    <3>1. CASE i = Len(path)
      BY <1>1, <1>2, <3>1 DEF WalkInv, FollowsPrev
    <3>2. CASE i # Len(path)
      BY <1>1, <1>2, <3>2 DEF WalkInv, FollowsPrev
    <3> QED
      BY <3>1, <3>2
  <2> QED
    BY <1>1, <1>2, <2>1, <2>2 DEF FollowsPrev
<1>7. CoversPath'
  BY <1>1, <1>2, <1>4, <1>5 DEF WalkInv, CoversPath
<1>8. NewestOfPath'
  <2> SUFFICES ASSUME NEW n \in DOMAIN merged'
               PROVE  \E i \in 1..last :
                        /\ n \in Numbers(path'[i])
                        /\ \A j \in 1..(i - 1) : n \notin Numbers(path'[j])
                        /\ merged'[n] = <<path'[i], WinningIndex(backend, file[path'[i]].entries, n)>>
    BY <1>3, Zenon DEF NewestOfPath, Numbers
  <2>1. CASE n \in DOMAIN merged
    <3>1. PICK i \in DOMAIN path :
             /\ n \in Numbers(path[i])
             /\ \A j \in 1..(i - 1) : n \notin Numbers(path[j])
             /\ merged[n] = <<path[i], WinningIndex(backend, file[path[i]].entries, n)>>
      BY <2>1 DEF WalkInv, NewestOfPath
    <3>2. merged'[n] = merged[n]
      BY <1>1, <2>1 DEF MergedWith
    <3>3. i \in 1..last /\ path'[i] = path[i] /\ \A j \in 1..(i - 1) : path'[j] = path[j]
      BY <1>1, <1>2
    <3> QED
      BY <3>1, <3>2, <3>3
  <2>2. CASE n \notin DOMAIN merged
    <3>1. n \in Numbers(next)
          /\ merged'[n] = <<next, WinningIndex(backend, file[next].entries, n)>>
      BY <1>1, <1>5, <2>2 DEF MergedWith
    <3>2. \A j \in 1..(last - 1) : n \notin Numbers(path'[j])
      BY <1>1, <1>2, <2>2 DEF WalkInv, CoversPath
    <3>3. last \in 1..last
      BY <1>2
    <3> QED
      BY <1>2, <3>1, <3>2, <3>3
  <2> QED
    BY <2>1, <2>2
<1>9. SizeOfPath'
  <2> SUFFICES ASSUME NEW i \in 1..last PROVE size' >= file[path'[i]].size
    BY <1>1, <1>2 DEF SizeOfPath
  <2>1. file[next].size \in Nat /\ size \in Nat
    BY <1>1, ChainAssumption DEF TypeOK
  <2>2. CASE i = last
    BY <1>1, <1>2, <2>1, <2>2
  <2>3. CASE i # last
    <3>1. i \in DOMAIN path /\ path'[i] = path[i]
      BY <1>1, <1>2, <2>3
    <3>2. file[path[i]].size \in Nat
      BY <1>1, <3>1, ChainAssumption DEF TypeOK
    <3>3. size >= file[path[i]].size
      BY <3>1 DEF WalkInv, SizeOfPath
    <3> QED
      BY <1>1, <2>1, <3>1, <3>2, <3>3
  <2> QED
    BY <2>2, <2>3
<1> QED
  BY <1>6, <1>7, <1>8, <1>9 DEF WalkInv

(* Every step keeps the walk's invariant.                                   *)
LEMMA NextWalk == TypeOK /\ WalkInv /\ [Next]_vars => WalkInv'
<1> SUFFICES ASSUME TypeOK, WalkInv, [Next]_vars PROVE WalkInv'
  OBVIOUS
<1>1. CASE RejectSectionLimit \/ RejectOutOfBounds \/ RejectCycle \/ RejectKind
           \/ RejectSection \/ RejectEntryLimit
  <2>1. UNCHANGED <<backend, file, start, next, path, merged, size>> /\ status' # "built"
    BY <1>1 DEF RejectSectionLimit, RejectOutOfBounds, RejectCycle, RejectKind,
                RejectSection, RejectEntryLimit, Stop
  <2> QED
    BY <2>1, StopKeepsWalk
<1>2. CASE MergeSection
  BY <1>2, MergeKeepsWalk
<1>3. CASE Finish
  BY <1>3, StopKeepsWalk DEF Finish
<1>4. CASE UNCHANGED vars
  <2>1. status = "built" => next = NoPrev
    BY DEF WalkInv, FollowsPrev
  <2> QED
    BY <1>4, <2>1, StopKeepsWalk DEF vars
<1> QED
  BY <1>1, <1>2, <1>3, <1>4 DEF Next

(* What the walk has in hand when it ends is what the property asks.  The   *)
(* chain is not empty because a section never starts at offset 0.           *)
LEMMA WalkGivesNewestWins == TypeOK /\ WalkInv => ChainIsNewestWins
<1> SUFFICES ASSUME TypeOK, WalkInv, status = "built" PROVE
        /\ IsChain(file, start, path)
        /\ \A i \in DOMAIN path : \A n \in Numbers(path[i]) : n \in DOMAIN merged
        /\ \A n \in DOMAIN merged : \E i \in DOMAIN path :
              /\ DefinedFirstBy([o \in DOMAIN file |-> Numbers(o)], path, i, n)
              /\ merged[n] = <<path[i], WinningIndex(backend, file[path[i]].entries, n)>>
        /\ \A i \in DOMAIN path : size >= file[path[i]].size
  BY DEF ChainIsNewestWins
<1>1. path \in Seq(DOMAIN file) /\ next = NoPrev
  BY DEF TypeOK, WalkInv, FollowsPrev
<1>2. path # <<>>
  BY <1>1, ChainAssumption DEF TypeOK, WalkInv, FollowsPrev, NoPrev
<1>3. IsChain(file, start, path)
  BY <1>1, <1>2 DEF WalkInv, FollowsPrev, IsChain
<1>4. \A i \in DOMAIN path : \A n \in Numbers(path[i]) : n \in DOMAIN merged
  BY DEF WalkInv, CoversPath
<1>5. ASSUME NEW n \in DOMAIN merged
      PROVE  \E i \in DOMAIN path :
                /\ DefinedFirstBy([o \in DOMAIN file |-> Numbers(o)], path, i, n)
                /\ merged[n] = <<path[i], WinningIndex(backend, file[path[i]].entries, n)>>
  <2>1. PICK i \in DOMAIN path :
           /\ n \in Numbers(path[i])
           /\ \A j \in 1..(i - 1) : n \notin Numbers(path[j])
           /\ merged[n] = <<path[i], WinningIndex(backend, file[path[i]].entries, n)>>
    BY DEF WalkInv, NewestOfPath
  <2>2. \A j \in 1..i : path[j] \in DOMAIN file
    BY <1>1, <2>1
  <2> QED
    BY <1>1, <2>1, <2>2 DEF DefinedFirstBy
<1> QED
  BY <1>3, <1>4, <1>5 DEF WalkInv, SizeOfPath

(* Whatever the file, the start offset and the limits, a map the builder    *)
(* delivers is the newest-wins map of the whole /Prev chain.                *)
THEOREM NewestWins == Spec => []ChainIsNewestWins
<1>1. Init => TypeOK /\ WalkInv
  BY InitType, InitWalk
<1>2. TypeOK /\ WalkInv /\ [Next]_vars => (TypeOK /\ WalkInv)'
  BY NextType, NextWalk
<1>3. TypeOK /\ WalkInv => ChainIsNewestWins
  BY WalkGivesNewestWins
<1> QED
  BY <1>1, <1>2, <1>3, PTL DEF Spec

----------------------------------------------------------------------------
(* Every section of path passed every check of its kind.                    *)
ChecksPassed ==
    \A i \in DOMAIN path :
        /\ file[path[i]].kind = backend
        /\ file[path[i]].parses
        /\ file[path[i]].prevOk
        /\ (i = 1 \/ backend = "Stream") => file[path[i]].rootOk

(* The limits hold of what has been followed and merged so far.             *)
WithinLimits ==
    /\ Len(path) <= MaxSections
    /\ Cardinality(DOMAIN merged) <= MaxEntries

(* No section is followed twice, and while the walk goes on exactly the     *)
(* followed sections have been opened.                                      *)
NothingTwice ==
    /\ \A i, j \in DOMAIN path : path[i] = path[j] => i = j
    /\ status = "walking" => visited = {path[i] : i \in DOMAIN path}

AcceptInv == ChecksPassed /\ WithinLimits /\ NothingTwice

(* A rejected walk was on a file without an acceptable chain.               *)
RefusedWithCause ==
    status \in Rejections => ~ \E w \in Walks(DOMAIN file, MaxSections) : Acceptable(w)

(* Nothing has been followed before the first section.                      *)
LEMMA InitAccept == Init => AcceptInv /\ RefusedWithCause
<1> SUFFICES ASSUME Init PROVE AcceptInv /\ RefusedWithCause
  OBVIOUS
<1>1. DOMAIN merged = {} /\ path = <<>> /\ DOMAIN path = {} /\ Len(path) = 0
  BY DEF Init
<1>2. Cardinality(DOMAIN merged) = 0
  BY <1>1, FS_EmptySet
<1>3. status = "walking" /\ visited = {}
  BY DEF Init
<1> QED
  BY <1>1, <1>2, <1>3, ChainAssumption
     DEF AcceptInv, ChecksPassed, WithinLimits, NothingTwice, RefusedWithCause, Rejections

(* A rejection leaves what was followed alone and ends the walk.            *)
LEMMA StopKeepsAccept ==
    ASSUME AcceptInv, UNCHANGED <<backend, file, path, merged>>,
           \/ status' # "walking"
           \/ UNCHANGED <<visited, status>>
    PROVE  AcceptInv'
  BY DEF AcceptInv, ChecksPassed, WithinLimits, NothingTwice

(* Pushing the next section keeps to the checks and the limits.             *)
LEMMA MergeKeepsAccept ==
    ASSUME TypeOK, AcceptInv, MergeSection
    PROVE  AcceptInv'
<1> DEFINE last == Len(path) + 1
<1>1. /\ path \in Seq(DOMAIN file) /\ path' = Append(path, next)
      /\ status = "walking" /\ UNCHANGED <<backend, file, status>>
      /\ Len(path) < MaxSections /\ next \notin visited /\ visited' = visited \union {next}
      /\ merged' = MergedWith(next) /\ Cardinality(DOMAIN MergedWith(next)) <= MaxEntries
      /\ file[next].kind = backend /\ file[next].parses /\ file[next].prevOk
      /\ NeedsRoot => file[next].rootOk
  BY DEF TypeOK, MergeSection, Parsed, Opened, Admitted, HasNext
<1>2. /\ Len(path) \in Nat /\ Len(path') = last /\ DOMAIN path' = 1..last
      /\ DOMAIN path = 1..Len(path) /\ path'[last] = next
      /\ \A i \in 1..Len(path) : path'[i] = path[i]
  BY <1>1
<1>3. ChecksPassed'
  <2> SUFFICES ASSUME NEW i \in 1..last
               PROVE  /\ file[path'[i]].kind = backend
                      /\ file[path'[i]].parses
                      /\ file[path'[i]].prevOk
                      /\ (i = 1 \/ backend = "Stream") => file[path'[i]].rootOk
    BY <1>1, <1>2 DEF ChecksPassed
  <2>1. CASE i = last
    <3>1. i = 1 => path = <<>>
      BY <1>1, <1>2, <2>1
    <3> QED
      BY <1>1, <1>2, <2>1, <3>1 DEF NeedsRoot
  <2>2. CASE i # last
    <3>1. i \in DOMAIN path /\ path'[i] = path[i]
      BY <1>2, <2>2
    <3> QED
      BY <3>1 DEF AcceptInv, ChecksPassed
  <2> QED
    BY <2>1, <2>2
<1>4. WithinLimits'
  BY <1>1, <1>2, ChainAssumption DEF WithinLimits
<1>5. visited = {path[i] : i \in DOMAIN path}
  BY <1>1 DEF AcceptInv, NothingTwice
<1>6. visited' = {path'[i] : i \in 1..last}
  BY <1>1, <1>2, <1>5
<1>7. ASSUME NEW i \in 1..last, NEW j \in 1..last, path'[i] = path'[j]
      PROVE  i = j
  <2>1. \A k \in 1..Len(path) : path'[k] \in visited
    BY <1>2, <1>5
  <2>2. CASE i # last /\ j # last
    BY <1>2, <1>7, <2>2 DEF AcceptInv, NothingTwice
  <2>3. CASE i = last \/ j = last
    BY <1>1, <1>2, <1>7, <2>1, <2>3
  <2> QED
    BY <2>2, <2>3
<1>8. NothingTwice'
  BY <1>2, <1>6, <1>7 DEF NothingTwice
<1> QED
  BY <1>3, <1>4, <1>8 DEF AcceptInv

(* Every step of the walk keeps AcceptInv.                                  *)
LEMMA NextAccept == TypeOK /\ AcceptInv /\ [Next]_vars => AcceptInv'
<1> SUFFICES ASSUME TypeOK, AcceptInv, [Next]_vars PROVE AcceptInv'
  OBVIOUS
<1>1. CASE RejectSectionLimit \/ RejectOutOfBounds \/ RejectCycle \/ RejectKind
           \/ RejectSection \/ RejectEntryLimit \/ Finish
  <2>1. UNCHANGED <<backend, file, path, merged>> /\ status' # "walking"
    BY <1>1 DEF RejectSectionLimit, RejectOutOfBounds, RejectCycle, RejectKind,
                RejectSection, RejectEntryLimit, Finish, Stop
  <2> QED
    BY <2>1, StopKeepsAccept
<1>2. CASE MergeSection
  BY <1>2, MergeKeepsAccept
<1>3. CASE UNCHANGED vars
  BY <1>3, StopKeepsAccept DEF vars
<1> QED
  BY <1>1, <1>2, <1>3 DEF Next

(* What has been followed is the beginning of any chain of the file, and    *)
(* where the walk goes on so does the chain.                                *)
LEMMA PathStartsChain ==
    ASSUME TypeOK, WalkInv, NEW w \in Seq(DOMAIN file), IsChain(file, start, w), HasNext
    PROVE  /\ Len(path) < Len(w)
           /\ next = w[Len(path) + 1]
           /\ \A i \in 1..Len(path) : path[i] = w[i]
<1>1. path \in Seq(DOMAIN file) /\ NoPrev \notin DOMAIN file /\ next # NoPrev
  BY ChainAssumption DEF TypeOK, HasNext, NoPrev
<1>2. w # <<>> /\ Len(w) \in Nat \ {0} /\ w[1] = start /\ file[w[Len(w)]].prev = NoPrev
  BY DEF IsChain
<1>3. CASE path = <<>>
  BY <1>2, <1>3 DEF WalkInv, FollowsPrev
<1>4. CASE path # <<>>
  <2>1. FollowsFrom(file, start, path) /\ FollowsFrom(file, start, w)
    BY <1>2, <1>4 DEF WalkInv, FollowsPrev, IsChain, FollowsFrom
  <2>2. \A i \in 1..Len(path) : i <= Len(w) => path[i] = w[i]
    BY <1>1, <2>1, WalksAgree
  <2>3. Len(path) \in Nat \ {0} /\ next = file[path[Len(path)]].prev
    BY <1>1, <1>4 DEF WalkInv, FollowsPrev
  <2>4. ~(Len(w) < Len(path))
    <3> SUFFICES ASSUME Len(w) < Len(path) PROVE FALSE
      OBVIOUS
    <3>1. Len(w) \in 1..(Len(path) - 1) /\ Len(w) + 1 \in 1..Len(path)
      BY <1>2, <2>3
    <3>2. path[Len(w) + 1] = NoPrev
      BY <1>2, <2>2, <3>1 DEF WalkInv, FollowsPrev
    <3> QED
      BY <1>1, <3>1, <3>2
  <2>5. Len(w) # Len(path)
    BY <1>1, <1>2, <2>2, <2>3
  <2>6. Len(path) \in 1..(Len(w) - 1)
    BY <1>2, <2>3, <2>4, <2>5
  <2> QED
    BY <2>2, <2>3, <2>6 DEF IsChain
<1> QED
  BY <1>3, <1>4

(* The numbers of a walk are finitely many, so a part of them is no larger. *)
LEMMA FewerNumbers ==
    ASSUME TypeOK, NEW w \in Seq(DOMAIN file),
           NEW part, part \subseteq UNION {Numbers(w[i]) : i \in DOMAIN w}
    PROVE  /\ Cardinality(part) \in Nat
           /\ Cardinality(UNION {Numbers(w[i]) : i \in DOMAIN w}) \in Nat
           /\ Cardinality(part) <= Cardinality(UNION {Numbers(w[i]) : i \in DOMAIN w})
<1>1. ASSUME NEW n \in Nat PROVE IsFiniteSet(1..n)
  BY FS_Interval
<1>2. ASSUME NEW i \in DOMAIN w PROVE IsFiniteSet(Numbers(w[i]))
  <2> DEFINE entries == file[w[i]].entries
             numberAt == [k \in DOMAIN entries |-> entries[k].num]
  <2>1. entries \in Seq([num : Nat, state : {"inuse", "free"}])
    BY ChainAssumption DEF TypeOK
  <2>2. DOMAIN entries = 1..Len(entries) /\ Len(entries) \in Nat
    BY <2>1
  <2> HIDE DEF entries
  <2>3. IsFiniteSet(DOMAIN entries)
    BY <1>1, <2>2
  <2>4. IsFiniteSet({numberAt[k] : k \in DOMAIN entries})
    <3> HIDE DEF numberAt
    <3>1. DOMAIN numberAt = DOMAIN entries /\ numberAt = [k \in DOMAIN entries |-> numberAt[k]]
      BY DEF numberAt
    <3> QED
      BY <2>3, <3>1, FiniteValues
  <2>5. {numberAt[k] : k \in DOMAIN entries} = {entries[k].num : k \in DOMAIN entries}
    OBVIOUS
  <2> QED
    BY <2>4, <2>5 DEF Numbers, EntryNumbers, entries
<1>3. DOMAIN w = 1..Len(w) /\ Len(w) \in Nat
  OBVIOUS
<1>4. IsFiniteSet({Numbers(w[i]) : i \in DOMAIN w})
  <2> DEFINE numbersAt == [i \in DOMAIN w |-> Numbers(w[i])]
  <2>1. DOMAIN numbersAt = DOMAIN w /\ numbersAt = [i \in DOMAIN w |-> numbersAt[i]]
    OBVIOUS
  <2>2. {numbersAt[i] : i \in DOMAIN w} = {Numbers(w[i]) : i \in DOMAIN w}
    OBVIOUS
  <2>3. IsFiniteSet(DOMAIN w)
    BY <1>1, <1>3
  <2>4. IsFiniteSet({numbersAt[i] : i \in DOMAIN w})
    <3> HIDE DEF numbersAt
    <3> QED
      BY <2>1, <2>3, FiniteValues
  <2> QED
    BY <2>2, <2>4
<1>5. IsFiniteSet(UNION {Numbers(w[i]) : i \in DOMAIN w})
  BY <1>2, <1>4, FS_UNION
<1> QED
  BY <1>5, FS_Subset, FS_CardinalityType

(* While the file has an acceptable chain the walk is on it: the section it *)
(* comes to passes every check.                                             *)
LEMMA AcceptableGoesOn ==
    ASSUME TypeOK, WalkInv, AcceptInv, HasNext,
           NEW w \in Walks(DOMAIN file, MaxSections), Acceptable(w)
    PROVE  /\ Len(path) < MaxSections
           /\ next \in DOMAIN file
           /\ next \notin visited
           /\ file[next].kind = backend
           /\ file[next].parses
           /\ NeedsRoot => file[next].rootOk
           /\ file[next].prevOk
           /\ Cardinality(DOMAIN MergedWith(next)) \in 0..MaxEntries
<1> DEFINE here == Len(path) + 1
<1>1. /\ w \in Seq(DOMAIN file) /\ Len(w) <= MaxSections
      /\ \A i, j \in DOMAIN w : w[i] = w[j] => i = j
  BY WalkIsInjective, ChainAssumption
<1>2. /\ Len(path) < Len(w) /\ next = w[here]
      /\ \A i \in 1..Len(path) : path[i] = w[i]
  BY <1>1, PathStartsChain DEF Acceptable
<1>3. path \in Seq(DOMAIN file) /\ Len(path) \in Nat /\ Len(w) \in Nat
  BY <1>1 DEF TypeOK
<1>4. here \in DOMAIN w /\ DOMAIN w = 1..Len(w) /\ DOMAIN path = 1..Len(path)
  BY <1>1, <1>2, <1>3
<1>5. next \notin visited
  <2> SUFFICES ASSUME NEW i \in 1..Len(path), next = path[i] PROVE FALSE
    BY <1>4 DEF AcceptInv, NothingTwice, HasNext
  <2>1. i \in DOMAIN w
    BY <1>2, <1>3, <1>4
  <2>2. w[i] = w[here]
    BY <1>2, Zenon
  <2>3. i = here
    BY <1>1, <1>4, <2>1, <2>2
  <2> QED
    BY <1>3, <2>3
<1>6. /\ file[next].kind = backend /\ file[next].parses /\ file[next].prevOk
      /\ (here = 1 \/ backend = "Stream") => file[next].rootOk
  BY <1>2, <1>4 DEF Acceptable
<1>7. path = <<>> => here = 1
  BY <1>3
<1>8. DOMAIN MergedWith(next) \subseteq UNION {Numbers(w[i]) : i \in DOMAIN w}
  <2>1. Numbers(next) \subseteq UNION {Numbers(w[i]) : i \in DOMAIN w}
    BY <1>2, <1>4
  <2>2. \A i \in DOMAIN path : i \in DOMAIN w /\ path[i] = w[i]
    BY <1>2, <1>3, <1>4
  <2>3. ASSUME NEW n \in DOMAIN merged PROVE n \in UNION {Numbers(w[i]) : i \in DOMAIN w}
    <3>1. PICK i \in DOMAIN path : n \in Numbers(path[i])
      BY DEF WalkInv, NewestOfPath
    <3> QED
      BY <2>2, <3>1
  <2>4. DOMAIN MergedWith(next) = DOMAIN merged \union Numbers(next)
    BY DEF MergedWith
  <2> QED
    BY <2>1, <2>3, <2>4
<1>9. Cardinality(DOMAIN MergedWith(next)) \in 0..MaxEntries
  <2>1. Cardinality(DOMAIN MergedWith(next)) <= Cardinality(UNION {Numbers(w[i]) : i \in DOMAIN w})
    BY <1>1, <1>8, FewerNumbers
  <2>2. Cardinality(UNION {Numbers(w[i]) : i \in DOMAIN w}) <= MaxEntries
    BY DEF Acceptable
  <2>3. /\ Cardinality(UNION {Numbers(w[i]) : i \in DOMAIN w}) \in Nat
        /\ Cardinality(DOMAIN MergedWith(next)) \in Nat
    BY <1>1, <1>8, FewerNumbers
  <2> QED
    BY <2>1, <2>2, <2>3, ChainAssumption
<1> QED
  BY <1>1, <1>2, <1>3, <1>4, <1>5, <1>6, <1>7, <1>9, ChainAssumption DEF NeedsRoot

(* So every rejection has its cause, and nothing else becomes one.          *)
LEMMA NextRefused ==
    TypeOK /\ WalkInv /\ AcceptInv /\ RefusedWithCause /\ [Next]_vars => RefusedWithCause'
<1> SUFFICES ASSUME TypeOK, WalkInv, AcceptInv, RefusedWithCause, [Next]_vars,
                    status' \in Rejections
             PROVE  (~ \E w \in Walks(DOMAIN file, MaxSections) : Acceptable(w))'
  BY DEF RefusedWithCause
<1>1. UNCHANGED <<backend, file, start>>
  BY DEF Next, RejectSectionLimit, RejectOutOfBounds, RejectCycle, RejectKind, RejectSection,
         RejectEntryLimit, MergeSection, Finish, Stop, vars
<1> SUFFICES ~ \E w \in Walks(DOMAIN file, MaxSections) : Acceptable(w)
  BY <1>1 DEF Acceptable, Numbers
<1>2. CASE RejectSectionLimit \/ RejectOutOfBounds \/ RejectCycle \/ RejectKind
           \/ RejectSection \/ RejectEntryLimit
  <2> SUFFICES ASSUME NEW w \in Walks(DOMAIN file, MaxSections), Acceptable(w) PROVE FALSE
    OBVIOUS
  <2>1. HasNext
    BY <1>2 DEF RejectSectionLimit, RejectOutOfBounds, RejectCycle, RejectKind, RejectSection,
                RejectEntryLimit, Parsed, Opened, Admitted
  <2>2. /\ Len(path) < MaxSections /\ next \in DOMAIN file /\ next \notin visited
        /\ file[next].kind = backend /\ file[next].parses /\ file[next].prevOk
        /\ NeedsRoot => file[next].rootOk
        /\ Cardinality(DOMAIN MergedWith(next)) \in 0..MaxEntries
    BY <2>1, AcceptableGoesOn
  <2>3. Len(path) \in Nat
    BY DEF TypeOK
  <2>4. ~RejectSectionLimit
    BY <2>2, <2>3, ChainAssumption DEF RejectSectionLimit
  <2>5. ~RejectOutOfBounds /\ ~RejectCycle /\ ~RejectKind /\ ~RejectSection
    BY <2>2 DEF RejectOutOfBounds, RejectCycle, RejectKind, RejectSection
  <2>6. ~RejectEntryLimit
    BY <2>2, ChainAssumption DEF RejectEntryLimit
  <2> QED
    BY <1>2, <2>4, <2>5, <2>6
<1>3. CASE MergeSection \/ Finish
  BY <1>3 DEF MergeSection, Finish, Parsed, Opened, Admitted, HasNext, Rejections
<1>4. CASE UNCHANGED vars
  BY <1>4 DEF vars, RefusedWithCause
<1> QED
  BY <1>2, <1>3, <1>4 DEF Next

(* A finished walk followed an acceptable chain.                            *)
LEMMA BuiltIsAcceptable ==
    ASSUME TypeOK, WalkInv, AcceptInv, status = "built"
    PROVE  path \in Walks(DOMAIN file, MaxSections) /\ Acceptable(path)
<1>1. path \in Seq(DOMAIN file)
  BY DEF TypeOK
<1>2. path \in Walks(DOMAIN file, MaxSections)
  BY <1>1, WalkIsInjective, ChainAssumption DEF AcceptInv, WithinLimits, NothingTwice
<1>3. IsChain(file, start, path)
  BY WalkGivesNewestWins DEF ChainIsNewestWins
<1>4. UNION {Numbers(path[i]) : i \in DOMAIN path} = DOMAIN merged
  <2>1. \A n \in DOMAIN merged : \E i \in DOMAIN path : n \in Numbers(path[i])
    BY DEF WalkInv, NewestOfPath
  <2>2. \A i \in DOMAIN path : Numbers(path[i]) \subseteq DOMAIN merged
    BY DEF WalkInv, CoversPath
  <2> QED
    BY <2>1, <2>2
<1> QED
  BY <1>2, <1>3, <1>4 DEF AcceptInv, ChecksPassed, WithinLimits, Acceptable

(* Whatever the file, the start offset and the limits, the builder delivers *)
(* a map exactly when the file has an acceptable chain within the limits.   *)
THEOREM BuiltIffAcceptable == Spec => []BuiltExactlyWhenAcceptable
<1> DEFINE Inv == TypeOK /\ WalkInv /\ AcceptInv /\ RefusedWithCause
<1>1. Init => Inv
  BY InitType, InitWalk, InitAccept
<1>2. Inv /\ [Next]_vars => Inv'
  BY NextType, NextWalk, NextAccept, NextRefused
<1>3. Inv => BuiltExactlyWhenAcceptable
  <2> SUFFICES ASSUME Inv, status # "walking"
               PROVE  status = "built" <=>
                         \E w \in Walks(DOMAIN file, MaxSections) : Acceptable(w)
    BY DEF BuiltExactlyWhenAcceptable
  <2>1. CASE status = "built"
    BY <2>1, BuiltIsAcceptable
  <2>2. CASE status \in Rejections
    BY <2>2 DEF RefusedWithCause, Rejections
  <2> QED
    BY <2>1, <2>2 DEF TypeOK
<1> QED
  BY <1>1, <1>2, <1>3, PTL DEF Spec
=============================================================================
