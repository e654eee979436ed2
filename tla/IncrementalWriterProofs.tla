----------------------- MODULE IncrementalWriterProofs -----------------------
(***************************************************************************)
(* Theorems about IncrementalWriter, for every document, request, limit and *)
(* order of calls: its type invariant, its four step properties, and that   *)
(* it implements ObjectStore.                                               *)
(*                                                                         *)
(* They rest on one invariant, DocInv: the bytes a session holds are a      *)
(* document, and chain and map are what the chain builder reads out of      *)
(* them.  It is preserved because what a call appends is a section again    *)
(* and goes in front of the chain; everything else is said of one step, in  *)
(* terms of Delivered, the contract all three backends' paths meet.         *)
(***************************************************************************)
EXTENDS IncrementalWriter, ChainLemmas

(* The chain and the map of a document to which a section is appended.      *)

(* The greatest of a bounded set of numbers.                                *)
LEMMA LargestIsGreatest ==
    ASSUME NEW bound \in Nat, NEW numbers, numbers \subseteq 0..bound, numbers # {}
    PROVE  /\ Largest(numbers) \in numbers
           /\ Largest(numbers) \in Nat
           /\ \A m \in numbers : m \in Nat /\ m <= Largest(numbers)
<1>1. \E n \in numbers : \A m \in numbers : m <= n
  BY GreatestExists
<1>2. Largest(numbers) \in numbers /\ \A m \in numbers : m <= Largest(numbers)
  BY <1>1 DEF Largest
<1>3. numbers \subseteq Nat
  OBVIOUS
<1> QED
  BY <1>2, <1>3, Zenon

(* What ChainOf finds is the chain.                                         *)
LEMMA ChainFound ==
    ASSUME NEW S, NEW d \in Seq(S), ChainOf(d) # <<>>
    PROVE  /\ ChainOf(d) \in Walks(1..Len(d), Len(d))
           /\ IsChain(d, Len(d), ChainOf(d))
           /\ \A i \in DOMAIN ChainOf(d) : d[ChainOf(d)[i]].kind = Newest(d).kind
  BY DEF ChainOf

(* A sequence of revisions has one chain at most, so ChainOf finds it.      *)
LEMMA ChainOfIs ==
    ASSUME NEW S, NEW d \in Seq(S), NEW w \in Walks(1..Len(d), Len(d)),
           IsChain(d, Len(d), w), \A i \in DOMAIN w : d[w[i]].kind = Newest(d).kind
    PROVE  ChainOf(d) = w
<1> DEFINE chains == {v \in Walks(1..Len(d), Len(d)) :
                         /\ IsChain(d, Len(d), v)
                         /\ \A i \in DOMAIN v : d[v[i]].kind = Newest(d).kind}
<1>1. w \in chains
  OBVIOUS
<1>2. ASSUME NEW v \in chains PROVE v = w
  <2>1. DOMAIN d = 1..Len(d) /\ Len(d) \in Nat /\ NoPrev \notin DOMAIN d
    BY DEF NoPrev
  <2>2. v \in Seq(DOMAIN d) /\ w \in Seq(DOMAIN d)
    BY <2>1, WalkIsInjective
  <2> QED
    BY <2>1, <2>2, ChainIsUnique
<1> QED
  BY <1>1, <1>2 DEF ChainOf

(* Appending a section of the same kind that points at the newest one puts  *)
(* it in front of the chain and leaves the rest of the chain as it was.     *)
LEMMA ChainOfAppend ==
    ASSUME NEW S, NEW d \in Seq(S), ChainOf(d) # <<>>, NEW revision,
           revision.prev = Len(d), revision.kind = Newest(d).kind
    PROVE  ChainOf(Append(d, revision)) = <<Len(d) + 1>> \o ChainOf(d)
<1> DEFINE w == ChainOf(d)
           e == Append(d, revision)
           v == <<Len(d) + 1>> \o w
<1>1. /\ w \in Seq(1..Len(d)) /\ Len(w) <= Len(d) /\ w # <<>>
      /\ \A i, j \in DOMAIN w : w[i] = w[j] => i = j
      /\ IsChain(d, Len(d), w)
      /\ \A i \in DOMAIN w : d[w[i]].kind = Newest(d).kind
  BY ChainFound, WalkIsInjective
<1> HIDE DEF w
<1>2. /\ e \in Seq(S \union {revision}) /\ Len(e) = Len(d) + 1 /\ Len(d) \in Nat
      /\ DOMAIN e = 1..(Len(d) + 1)
      /\ e[Len(d) + 1] = revision /\ \A o \in 1..Len(d) : e[o] = d[o]
  OBVIOUS
<1>3. /\ v \in Seq(1..(Len(d) + 1)) /\ Len(v) = Len(w) + 1 /\ Len(w) \in Nat \ {0}
      /\ DOMAIN v = 1..(Len(w) + 1) /\ DOMAIN w = 1..Len(w)
      /\ v[1] = Len(d) + 1 /\ \A i \in 1..Len(w) : v[i + 1] = w[i]
  BY <1>1
<1> HIDE DEF e, v
<1>4. ASSUME NEW i \in 2..(Len(w) + 1)
      PROVE  v[i] = w[i - 1] /\ v[i] \in 1..Len(d) /\ i - 1 \in 1..Len(w)
  <2>1. i - 1 \in 1..Len(w) /\ (i - 1) + 1 = i
    BY <1>3
  <2>2. v[(i - 1) + 1] = w[i - 1]
    BY <1>3, <2>1
  <2> QED
    BY <1>1, <2>1, <2>2
<1>5. ASSUME NEW i \in DOMAIN v, NEW j \in DOMAIN v, v[i] = v[j] PROVE i = j
  <2>1. CASE i = 1 /\ j # 1
    BY <1>2, <1>3, <1>4, <1>5, <2>1
  <2>2. CASE i # 1 /\ j = 1
    BY <1>2, <1>3, <1>4, <1>5, <2>2
  <2>3. CASE i # 1 /\ j # 1
    <3>1. i \in 2..(Len(w) + 1) /\ j \in 2..(Len(w) + 1)
      BY <1>3, <2>3
    <3>2. w[i - 1] = w[j - 1] /\ i - 1 \in DOMAIN w /\ j - 1 \in DOMAIN w
      BY <1>3, <1>4, <1>5, <3>1
    <3>3. i - 1 = j - 1
      BY <1>1, <3>2
    <3> QED
      BY <3>1, <3>3
  <2> QED
    BY <2>1, <2>2, <2>3
<1>6. v \in Walks(1..Len(e), Len(e))
  <2>1. Len(e) \in Nat /\ v \in Seq(1..Len(e)) /\ Len(v) <= Len(e)
    BY <1>1, <1>2, <1>3
  <2> QED
    BY <1>5, <2>1, WalkIsInjective
<1>7. IsChain(e, Len(e), v)
  <2>1. v # <<>> /\ v[1] = Len(e) /\ \A i \in DOMAIN v : v[i] \in DOMAIN e
    BY <1>2, <1>3, <1>4
  <2>2. ASSUME NEW i \in 1..(Len(v) - 1) PROVE e[v[i]].prev = v[i + 1]
    <3>1. CASE i = 1
      BY <1>1, <1>2, <1>3, <3>1 DEF IsChain
    <3>2. CASE i # 1
      <4>1. /\ i \in 2..(Len(w) + 1) /\ i - 1 \in 1..(Len(w) - 1)
            /\ i + 1 \in 2..(Len(w) + 1) /\ (i + 1) - 1 = (i - 1) + 1
        BY <1>3, <3>2
      <4>2. v[i] = w[i - 1] /\ v[i + 1] = w[(i - 1) + 1] /\ e[v[i]] = d[w[i - 1]]
        BY <1>2, <1>4, <4>1
      <4> QED
        BY <1>1, <4>1, <4>2 DEF IsChain
    <3> QED
      BY <3>1, <3>2
  <2>3. e[v[Len(v)]].prev = NoPrev
    <3>1. Len(v) \in 2..(Len(w) + 1) /\ Len(v) - 1 = Len(w)
      BY <1>3
    <3>2. v[Len(v)] = w[Len(w)] /\ v[Len(v)] \in 1..Len(d)
      BY <1>4, <3>1
    <3> QED
      BY <1>1, <1>2, <3>2 DEF IsChain
  <2> QED
    BY <2>1, <2>2, <2>3 DEF IsChain
<1>8. ASSUME NEW i \in DOMAIN v PROVE e[v[i]].kind = Newest(e).kind
  <2>1. Newest(e) = revision
    BY <1>2 DEF Newest
  <2>2. CASE i = 1
    BY <1>2, <1>3, <2>1, <2>2
  <2>3. CASE i # 1
    <3>1. i \in 2..(Len(w) + 1)
      BY <1>3, <2>3
    <3>2. v[i] = w[i - 1] /\ e[v[i]] = d[w[i - 1]] /\ i - 1 \in DOMAIN w
      BY <1>2, <1>3, <1>4, <3>1
    <3> QED
      BY <1>1, <2>1, <3>2
  <2> QED
    BY <2>2, <2>3
<1> QED
  BY <1>2, <1>6, <1>7, <1>8, ChainOfIs DEF e, v, w

(* A number that some section of a walk lists is first defined by exactly   *)
(* one of them.                                                             *)
LEMMA FirstDefinition ==
    ASSUME NEW numbers, NEW S, NEW w \in Seq(S), NEW n,
           NEW k \in DOMAIN w, n \in numbers[w[k]]
    PROVE  \E i \in DOMAIN w : DefinedFirstBy(numbers, w, i, n)
<1> DEFINE at == {i \in DOMAIN w : n \in numbers[w[i]]}
<1>1. at \subseteq Nat /\ at # {}
  OBVIOUS
<1>2. PICK i \in at : \A j \in at : i <= j
  <2> HIDE DEF at
  <2> QED
    BY <1>1, LeastExists
<1>3. \A j \in 1..(i - 1) : j \in DOMAIN w /\ ~(i <= j)
  BY <1>2
<1> QED
  BY <1>2, <1>3 DEF DefinedFirstBy

(* A number is first defined at one place of a walk.                        *)
LEMMA DefinedFirstOnce ==
    ASSUME NEW numbers, NEW S, NEW w \in Seq(S), NEW n,
           NEW i \in DOMAIN w, DefinedFirstBy(numbers, w, i, n),
           NEW j \in DOMAIN w, DefinedFirstBy(numbers, w, j, n)
    PROVE  i = j
<1>1. ~(i \in 1..(j - 1)) /\ ~(j \in 1..(i - 1))
  BY DEF DefinedFirstBy
<1> QED
  BY <1>1

(* The effective entry of a number is that of the section defining it first.*)
LEMMA EffectiveAt ==
    ASSUME NEW d, NEW w \in Seq(DOMAIN d), NEW n,
           NEW i \in DOMAIN w, DefinedFirstBy(MapNumbers(d), w, i, n)
    PROVE  n \in DOMAIN Effective(d, w) /\ Effective(d, w)[n] = d[w[i]].map[n]
<1>1. w[i] \in DOMAIN d /\ n \in DOMAIN d[w[i]].map
  BY DEF DefinedFirstBy, MapNumbers
<1>2. n \in EffectiveNumbers(d, w)
  BY <1>1 DEF EffectiveNumbers
<1>3. (CHOOSE k \in DOMAIN w : DefinedFirstBy(MapNumbers(d), w, k, n)) = i
  BY DefinedFirstOnce
<1> QED
  BY <1>2, <1>3 DEF Effective

(* Every effective entry comes from a section of the walk.                  *)
LEMMA EffectiveFrom ==
    ASSUME NEW d, NEW w \in Seq(DOMAIN d), NEW n \in DOMAIN Effective(d, w)
    PROVE  \E i \in DOMAIN w : DefinedFirstBy(MapNumbers(d), w, i, n)
<1>1. PICK k \in DOMAIN w : n \in DOMAIN d[w[k]].map
  BY DEF Effective, EffectiveNumbers
<1>2. n \in MapNumbers(d)[w[k]]
  BY <1>1 DEF MapNumbers
<1> QED
  BY <1>2, FirstDefinition

(* e is d with revision appended, and v the walk w with revision in front.  *)
InFront(revision, d, w, e, v) ==
    /\ Len(d) \in Nat /\ DOMAIN e = 1..(Len(d) + 1) /\ DOMAIN d = 1..Len(d)
    /\ e[Len(d) + 1] = revision /\ \A o \in 1..Len(d) : e[o] = d[o]
    /\ w \in Seq(DOMAIN d) /\ v \in Seq(DOMAIN e)
    /\ Len(w) \in Nat /\ DOMAIN v = 1..(Len(w) + 1) /\ DOMAIN w = 1..Len(w)
    /\ v[1] = Len(d) + 1
    /\ \A i \in 1..Len(w) : v[i + 1] = w[i] /\ w[i] \in 1..Len(d)

(* A section put in front of a walk shadows the entries it lists and leaves *)
(* the others as they were.                                                 *)
LEMMA EffectiveInFront ==
    ASSUME NEW d, NEW w, NEW revision, NEW e, NEW v, InFront(revision, d, w, e, v)
    PROVE  /\ \A n : n \in DOMAIN Effective(e, v) <=>
                 n \in DOMAIN Effective(d, w) \/ n \in DOMAIN revision.map
           /\ \A n \in DOMAIN revision.map : Effective(e, v)[n] = revision.map[n]
           /\ \A n \in DOMAIN Effective(d, w) \ DOMAIN revision.map :
                 Effective(e, v)[n] = Effective(d, w)[n]
<1>1. /\ Len(d) \in Nat /\ DOMAIN e = 1..(Len(d) + 1) /\ DOMAIN d = 1..Len(d)
      /\ e[Len(d) + 1] = revision /\ \A o \in 1..Len(d) : e[o] = d[o]
  BY DEF InFront
<1>2. /\ Len(w) \in Nat /\ DOMAIN v = 1..(Len(w) + 1) /\ DOMAIN w = 1..Len(w)
      /\ v[1] = Len(d) + 1
      /\ \A i \in 1..Len(w) : v[i + 1] = w[i] /\ w[i] \in 1..Len(d)
  BY DEF InFront
<1>3. v \in Seq(DOMAIN e) /\ w \in Seq(DOMAIN d)
  BY DEF InFront
<1>4. ASSUME NEW n \in DOMAIN revision.map
      PROVE  n \in DOMAIN Effective(e, v) /\ Effective(e, v)[n] = revision.map[n]
  <2>1. 1 \in DOMAIN v /\ e[v[1]] = revision
    BY <1>1, <1>2
  <2>2. DefinedFirstBy(MapNumbers(e), v, 1, n)
    BY <1>1, <1>2, <2>1 DEF DefinedFirstBy, MapNumbers
  <2>3. n \in DOMAIN Effective(e, v) /\ Effective(e, v)[n] = e[v[1]].map[n]
    BY <1>1, <1>3, <2>1, <2>2, EffectiveAt
  <2> QED
    BY <2>1, <2>3
<1>5. ASSUME NEW n \in DOMAIN Effective(d, w), n \notin DOMAIN revision.map
      PROVE  n \in DOMAIN Effective(e, v) /\ Effective(e, v)[n] = Effective(d, w)[n]
  <2>1. PICK i \in DOMAIN w : DefinedFirstBy(MapNumbers(d), w, i, n)
    BY <1>3, EffectiveFrom
  <2>2. Effective(d, w)[n] = d[w[i]].map[n]
    BY <1>3, <2>1, EffectiveAt
  <2>3. i \in 1..Len(w) /\ i + 1 \in DOMAIN v /\ v[i + 1] = w[i] /\ e[v[i + 1]] = d[w[i]]
    BY <1>1, <1>2
  <2>4. ASSUME NEW j \in 1..((i + 1) - 1) PROVE n \notin MapNumbers(e)[v[j]]
    <3>1. CASE j = 1
      BY <1>1, <1>2, <1>5, <3>1 DEF MapNumbers
    <3>2. CASE j # 1
      <4>1. j - 1 \in 1..(i - 1) /\ j - 1 \in 1..Len(w) /\ (j - 1) + 1 = j
        <5>1. i \in 1..Len(w) /\ Len(w) \in Nat
          BY <1>2, <2>3
        <5> QED
          BY <3>2, <5>1
      <4>2. v[j] = w[j - 1] /\ w[j - 1] \in 1..Len(d)
        <5>1. v[(j - 1) + 1] = w[j - 1]
          BY <1>2, <4>1
        <5> QED
          BY <1>2, <4>1, <5>1
      <4>3. MapNumbers(e)[v[j]] = MapNumbers(d)[w[j - 1]]
        <5>1. v[j] \in DOMAIN e /\ w[j - 1] \in DOMAIN d /\ e[v[j]] = d[w[j - 1]]
          BY <1>1, <4>2
        <5> QED
          BY <5>1 DEF MapNumbers
      <4> QED
        BY <2>1, <4>1, <4>3 DEF DefinedFirstBy
    <3> QED
      BY <3>1, <3>2
  <2>5. n \in MapNumbers(e)[v[i + 1]]
    <3>1. n \in MapNumbers(d)[w[i]]
      BY <2>1 DEF DefinedFirstBy
    <3> QED
      BY <1>1, <1>2, <2>3, <3>1 DEF MapNumbers
  <2>6. DefinedFirstBy(MapNumbers(e), v, i + 1, n)
    BY <2>4, <2>5 DEF DefinedFirstBy
  <2>7. n \in DOMAIN Effective(e, v) /\ Effective(e, v)[n] = e[v[i + 1]].map[n]
    BY <1>1, <1>3, <2>3, <2>6, EffectiveAt
  <2> QED
    BY <2>2, <2>3, <2>7
<1>6. ASSUME NEW n \in DOMAIN Effective(e, v), n \notin DOMAIN revision.map
      PROVE  n \in DOMAIN Effective(d, w)
  <2>1. PICK k \in DOMAIN v : n \in DOMAIN e[v[k]].map
    BY DEF Effective, EffectiveNumbers
  <2>2. k # 1
    BY <1>1, <1>2, <1>6, <2>1
  <2>3. k - 1 \in DOMAIN w /\ (k - 1) + 1 = k
    BY <1>2, <2>1, <2>2
  <2>4. v[k] = w[k - 1] /\ e[v[k]] = d[w[k - 1]]
    <3>1. v[(k - 1) + 1] = w[k - 1] /\ w[k - 1] \in 1..Len(d)
      BY <1>2, <2>3
    <3> QED
      BY <1>1, <2>3, <3>1
  <2> QED
    BY <2>1, <2>3, <2>4 DEF Effective, EffectiveNumbers
<1> QED
  BY <1>4, <1>5, <1>6

(* The map of a document to which a section is appended: the section's own  *)
(* entries over the old map.                                                *)
LEMMA EffectiveOfAppend ==
    ASSUME NEW S, NEW d \in Seq(S), NEW w \in Seq(1..Len(d)), NEW revision
    PROVE  LET after == Effective(Append(d, revision), <<Len(d) + 1>> \o w)
           IN  /\ \A n : n \in DOMAIN after <=>
                     n \in DOMAIN Effective(d, w) \/ n \in DOMAIN revision.map
               /\ \A n \in DOMAIN revision.map : after[n] = revision.map[n]
               /\ \A n \in DOMAIN Effective(d, w) \ DOMAIN revision.map :
                     after[n] = Effective(d, w)[n]
<1> DEFINE e == Append(d, revision)
           v == <<Len(d) + 1>> \o w
<1>1. InFront(revision, d, w, e, v)
  BY DEF InFront
<1> HIDE DEF e, v
<1>3. /\ \A n : n \in DOMAIN Effective(e, v) <=>
                 n \in DOMAIN Effective(d, w) \/ n \in DOMAIN revision.map
      /\ \A n \in DOMAIN revision.map : Effective(e, v)[n] = revision.map[n]
      /\ \A n \in DOMAIN Effective(d, w) \ DOMAIN revision.map :
            Effective(e, v)[n] = Effective(d, w)[n]
  BY <1>1, EffectiveInFront
<1> QED
  BY <1>3 DEF e, v

(* The effective /Size is one of the chain's and the largest.               *)
LEMMA EffectiveSizeIsLargest ==
    ASSUME NEW d, NEW w, w # <<>>, NEW S, w \in Seq(S),
           \A i \in DOMAIN w : d[w[i]].size \in Nat
    PROVE  /\ EffectiveSize(d, w) \in Nat
           /\ \A i \in DOMAIN w : d[w[i]].size <= EffectiveSize(d, w)
<1> DEFINE sizeAt == [i \in 1..Len(w) |-> d[w[i]].size]
           sizes == {d[w[i]].size : i \in DOMAIN w}
<1>1. Len(w) \in Nat \ {0} /\ DOMAIN w = 1..Len(w)
  OBVIOUS
<1>2. \A i \in 1..Len(w) : sizeAt[i] \in Nat
  BY <1>1
<1>3. PICK bound \in Nat : \A i \in 1..Len(w) : sizeAt[i] <= bound
  <2> HIDE DEF sizeAt
  <2> QED
    BY <1>1, <1>2, BoundExists
<1>4. sizes \subseteq 0..bound /\ sizes # {}
  BY <1>1, <1>2, <1>3
<1>5. \E s \in sizes : \A t \in sizes : t <= s
  <2> HIDE DEF sizes
  <2> QED
    BY <1>4, GreatestExists
<1>6. \E s \in sizes : \A i \in DOMAIN w : d[w[i]].size <= s
  BY <1>5
<1>7. EffectiveSize(d, w) \in sizes /\ \A i \in DOMAIN w : d[w[i]].size <= EffectiveSize(d, w)
  BY <1>6 DEF EffectiveSize
<1> QED
  BY <1>7

----------------------------------------------------------------------------
(* The invariant, and the numbers it makes object numbers.                  *)

(* The bytes a session holds are a document, and chain and map are what the *)
(* chain builder reads out of them.                                         *)
DocInv ==
    /\ IsDocument(doc)
    /\ chain = ChainOf(doc)
    /\ map = MapOf(doc)

(* The session opens on a document, and with what the chain builder reads.  *)
LEMMA InitDoc == Init => DocInv
  BY WriterAssumption DEF Init, DocInv

(* What the invariant says of the chain and the map.                        *)
LEMMA KnownDocument ==
    ASSUME DocInv
    PROVE  /\ doc \in Seq({doc[o] : o \in DOMAIN doc})
           /\ Len(doc) \in Nat \ {0} /\ DOMAIN doc = 1..Len(doc)
           /\ chain \in Seq(1..Len(doc)) /\ \A i \in DOMAIN chain : chain[i] \in DOMAIN doc
           /\ \A o \in DOMAIN doc : IsSection(doc[o])
           /\ IsSection(Newest(doc))
           /\ \A n \in DOMAIN map : n \in 0..MaxEntry /\ n \in Nat /\ IsEntry(map[n])
<1>1. /\ doc \in Seq({doc[o] : o \in DOMAIN doc}) /\ doc # <<>>
      /\ \A o \in DOMAIN doc : IsSection(doc[o])
  BY DEF DocInv, IsDocument
<1>2. Len(doc) \in Nat \ {0} /\ DOMAIN doc = 1..Len(doc)
  BY <1>1
<1>3. chain \in Seq(1..Len(doc))
  <2>1. CASE chain = <<>>
    BY <2>1
  <2>2. CASE chain # <<>>
    BY <1>1, <1>2, <2>2, ChainFound, WalkIsInjective DEF DocInv
  <2> QED
    BY <2>1, <2>2
<1>4. \A i \in DOMAIN chain : chain[i] \in DOMAIN doc
  BY <1>2, <1>3
<1>5. IsSection(Newest(doc))
  BY <1>1, <1>2 DEF Newest
<1>6. ASSUME NEW n \in DOMAIN map PROVE n \in 0..MaxEntry /\ n \in Nat /\ IsEntry(map[n])
  <2>1. chain \in Seq(DOMAIN doc) /\ map = Effective(doc, chain)
    BY <1>2, <1>3 DEF DocInv, MapOf
  <2>2. PICK i \in DOMAIN chain : DefinedFirstBy(MapNumbers(doc), chain, i, n)
    BY <1>6, <2>1, EffectiveFrom
  <2>3. map[n] = doc[chain[i]].map[n]
    BY <2>1, <2>2, EffectiveAt
  <2>4. chain[i] \in DOMAIN doc /\ n \in DOMAIN doc[chain[i]].map
    BY <1>4, <2>2 DEF DefinedFirstBy, MapNumbers
  <2>5. IsSection(doc[chain[i]])
    BY <1>1, <2>4
  <2>6. MaxNumber \in Nat /\ MaxEntry \in Nat /\ MaxNumber <= MaxEntry
    BY DocumentAssumption
  <2>7. n \in 0..MaxNumber \/ n \in 0..MaxEntry
    BY <2>4, <2>5 DEF IsSection
  <2> QED
    BY <2>3, <2>4, <2>5, <2>6, <2>7 DEF IsSection
<1> QED
  BY <1>1, <1>2, <1>3, <1>4, <1>5, <1>6

(* When the floor could be computed, the trailer and every entry passed.    *)
LEMMA NothingFails ==
    ASSUME DocInv, FloorFailure(doc, map) = "Ok"
    PROVE  /\ Newest(doc).unreported = {}
           /\ \A n \in DOMAIN map : EntryFailure(doc, map, n) = "Ok"
<1> DEFINE failing == FailingEntries(doc, map)
           first == CHOOSE n \in failing : \A m \in failing : n <= m
<1>1. Newest(doc).unreported = {}
  BY DEF FloorFailure
<1>2. failing = {} \/ EntryFailure(doc, map, first) = "Ok"
  BY DEF FloorFailure
<1>3. failing \subseteq Nat /\ \A n \in failing : EntryFailure(doc, map, n) # "Ok"
  BY KnownDocument DEF FailingEntries
<1>4. failing # {} => first \in failing
  <2> HIDE DEF failing
  <2> QED
    BY <1>3, LeastExists
<1>5. failing = {}
  BY <1>2, <1>3, <1>4
<1> QED
  BY <1>1, <1>5 DEF FailingEntries

(* A live object of a document whose floor could be computed lies in a      *)
(* revision of the document, its references are object numbers, and its     *)
(* scan reports them all.                                                   *)
LEMMA LiveReferences ==
    ASSUME DocInv, FloorFailure(doc, map) = "Ok", NEW n \in LiveEntries(map)
    PROVE  /\ ReferencesOf(doc, map, n) \subseteq ObjectNumbers
           /\ Reported(ScannedAt(doc, map, n)) = ReferencesOf(doc, map, n)
<1>1. n \in DOMAIN map /\ map[n].type \in {"inuse", "compressed"}
  BY DEF LiveEntries
<1>2. /\ Resolves(doc, map, n, EntryGeneration(map[n]))
      /\ ScannedAt(doc, map, n).unreported = {}
  <2>1. EntryFailure(doc, map, n) = "Ok"
    BY <1>1, NothingFails
  <2> QED
    BY <1>1, <2>1 DEF EntryFailure
<1>3. ASSUME NEW m, NEW g, OffsetResolution(doc, map, m, g) = "Ok"
      PROVE  IsBody(BodyOf(doc, map, m))
  <2>1. map[m].at \in DOMAIN doc /\ m \in DOMAIN doc[map[m].at].bodies
    BY <1>3 DEF OffsetResolution, HeaderMatches
  <2> QED
    BY <2>1, KnownDocument DEF BodyOf, IsSection
<1>4. CASE map[n].type = "compressed"
  <2>1. IsScan(ScannedAt(doc, map, n))
    BY <1>1, <1>2, <1>3, <1>4 DEF Resolves, ScannedAt, IsBody
  <2> QED
    BY <1>2, <2>1 DEF ReferencesOf, Reported, IsScan
<1>5. CASE map[n].type = "inuse"
  <2>1. OffsetResolution(doc, map, n, EntryGeneration(map[n])) = "Ok"
    BY <1>1, <1>2, <1>5 DEF Resolves
  <2>2. IsScan(ScannedAt(doc, map, n))
    BY <1>3, <1>5, <2>1 DEF ScannedAt, IsBody
  <2> QED
    BY <1>2, <2>2 DEF ReferencesOf, Reported, IsScan
<1> QED
  BY <1>1, <1>4, <1>5

(* So the floor proof sees every number that is occupied.                   *)
LEMMA OccupiedIsObserved ==
    ASSUME DocInv, FloorFailure(doc, map) = "Ok"
    PROVE  OccupiedNumbers(doc, chain, map) = ObservedNumbers(doc, chain, map)
<1>1. ReportedByTrailer(Newest(doc)) = TrailerReferences(Newest(doc))
  BY NothingFails DEF ReportedByTrailer
<1>2. \A n \in LiveEntries(map) :
         Reported(ScannedAt(doc, map, n)) = ReferencesOf(doc, map, n)
  BY LiveReferences
<1>3. UNION {Reported(ScannedAt(doc, map, n)) : n \in LiveEntries(map)}
        = UNION {ReferencesOf(doc, map, n) : n \in LiveEntries(map)}
  BY <1>2
<1> QED
  BY <1>1, <1>3 DEF OccupiedNumbers, ObservedNumbers

(* What an occupied number comes from.                                      *)
LEMMA OccupiedFrom ==
    ASSUME NEW o, o \in OccupiedNumbers(doc, chain, map)
    PROVE  \/ o \in DOMAIN map
           \/ o \in TrailerReferences(Newest(doc))
           \/ \E m \in LiveEntries(map) : o \in ReferencesOf(doc, map, m)
           \/ \E m \in DOMAIN map : o = map[m].at
           \/ \E i \in DOMAIN chain : o = doc[chain[i]].self
<1>1. o \in UNION {ReferencesOf(doc, map, m) : m \in LiveEntries(map)}
         => \E m \in LiveEntries(map) : o \in ReferencesOf(doc, map, m)
  OBVIOUS
<1>2. o \in StreamNumbers(doc, chain, map)
         => \/ \E m \in DOMAIN map : o = map[m].at
            \/ \E i \in DOMAIN chain : o = doc[chain[i]].self
  BY DEF StreamNumbers
<1> QED
  BY <1>1, <1>2 DEF OccupiedNumbers

(* So the allocation floor is a number.                                     *)
LEMMA FloorIsNatural ==
    ASSUME DocInv, FloorFailure(doc, map) = "Ok", NEW floor \in Floors
    PROVE  floor \in Nat
<1>1. ASSUME NEW n \in OccupiedNumbers(doc, chain, map) PROVE n \in Nat
  <2>0. ObjectNumbers \subseteq Nat
    BY DocumentAssumption DEF ObjectNumbers
  <2>1. CASE n \in DOMAIN map
    BY <2>1, KnownDocument
  <2>2. CASE n \in TrailerReferences(Newest(doc))
    BY <2>0, <2>2, KnownDocument DEF IsSection
  <2>3. CASE \E m \in LiveEntries(map) : n \in ReferencesOf(doc, map, m)
    BY <2>0, <2>3, LiveReferences
  <2>4. CASE \E m \in DOMAIN map : n = map[m].at
    BY <2>4, KnownDocument DEF IsEntry
  <2>5. CASE \E i \in DOMAIN chain : n = doc[chain[i]].self
    BY <2>0, <2>5, KnownDocument DEF IsSection
  <2> QED
    BY <2>1, <2>2, <2>3, <2>4, <2>5, OccupiedFrom
<1>2. \A i \in DOMAIN chain : doc[chain[i]].size \in Nat
  BY KnownDocument DEF IsSection
<1> QED
  BY <1>1, <1>2, OccupiedIsObserved DEF Floors, IsFloor, FloorBounds

----------------------------------------------------------------------------
(* What the checks on a request and the choice of a /Size guarantee.        *)

(* The objects of a request fit the file format.                            *)
Fitting(written) ==
    \A x \in written : /\ x.num \in ObjectNumbers
                        /\ x.gen \in 0..MaxGeneration /\ x.gen \in Nat
                        /\ IsBody(x.body)

(* A request's numbers are object numbers the format can hold.              *)
LEMMA RequestFits ==
    ASSUME NEW request, request \in DirtyRequests \/ request \in FreshRequests
    PROVE  /\ Fitting(request)
           /\ NumbersOf(request) \subseteq ObjectNumbers
           /\ NumbersOf(request) \subseteq Nat
           /\ IsFiniteSet(request)
  BY WriterAssumption, DocumentAssumption DEF Fitting, NumbersOf, ObjectNumbers

(* The floor lies above every number the document mentions and is no        *)
(* smaller than any /Size of its chain.                                     *)
LEMMA FloorIsAbove ==
    ASSUME DocInv, FloorFailure(doc, map) = "Ok", NEW floor \in Floors
    PROVE  /\ \A n \in OccupiedNumbers(doc, chain, map) : n + 1 <= floor
           /\ \A i \in DOMAIN chain : doc[chain[i]].size <= floor
  BY OccupiedIsObserved DEF Floors, IsFloor, FloorBounds

(* Every number of the map is occupied.                                     *)
LEMMA MapIsOccupied == DOMAIN map \subseteq OccupiedNumbers(doc, chain, map)
  BY DEF OccupiedNumbers

(* An accepted set of fresh objects takes the numbers from the floor on,    *)
(* all of them of generation zero.                                          *)
LEMMA FreshStartsAtFloor ==
    ASSUME NEW dirty, NEW fresh \in FreshRequests, NEW floor, fresh # {},
           FreshFailure(dirty, fresh, floor) = "Ok"
    PROVE  /\ floor \in NumbersOf(fresh)
           /\ NumbersOf(fresh) = floor..(floor + Cardinality(fresh) - 1)
           /\ Cardinality(fresh) \in Nat
           /\ \A x \in fresh : x.gen = 0
<1> DEFINE numbers == NumbersOf(fresh)
           least == CHOOSE n \in numbers : \A m \in numbers : n <= m
<1>1. numbers \subseteq Nat /\ numbers # {} /\ Cardinality(fresh) \in Nat
  BY RequestFits, FS_CardinalityType DEF NumbersOf
<1>2. least \in numbers /\ \A m \in numbers : least <= m
  BY <1>1, LeastExists
<1>3. least = floor /\ numbers = least..(least + Cardinality(fresh) - 1)
  BY DEF FreshFailure
<1>4. \A x \in fresh : x.gen = 0
  BY DEF FreshFailure
<1> QED
  BY <1>1, <1>2, <1>3, <1>4

(* An accepted dirty object is one of the document's, of the generation     *)
(* the document has it at.                                                  *)
LEMMA DirtyResolves ==
    ASSUME NEW dirty \in DirtyRequests, DirtyFailure(dirty) = "Ok", NEW x \in dirty
    PROVE  OffsetResolution(doc, map, x.num, x.gen) = "Ok" /\ x.num \in DOMAIN map
<1> DEFINE refused == {y \in dirty : OffsetResolution(doc, map, y.num, y.gen) # "Ok"}
           first == CHOOSE y \in refused : \A z \in refused : y.num <= z.num
<1>1. refused = {}
  <2> SUFFICES ASSUME refused # {} PROVE FALSE
    OBVIOUS
  <2>1. OffsetResolution(doc, map, first.num, first.gen) = "Ok"
    BY DEF DirtyFailure
  <2>2. NumbersOf(refused) \subseteq Nat /\ NumbersOf(refused) # {}
    BY RequestFits DEF NumbersOf
  <2>3. PICK n \in NumbersOf(refused) : \A m \in NumbersOf(refused) : n <= m
    BY <2>2, LeastExists
  <2>4. \E y \in refused : \A z \in refused : y.num <= z.num
    BY <2>3 DEF NumbersOf
  <2>5. first \in refused
    BY <2>4
  <2> QED
    BY <2>1, <2>5
<1> QED
  BY <1>1 DEF OffsetResolution

(* The xref stream of a fresh write gets a number above the reservation and *)
(* above every number the bodies written with it reference.                 *)
LEMMA SelfIsAbove ==
    ASSUME NEW dirty \in DirtyRequests, NEW fresh \in FreshRequests, fresh # {},
           \A x \in dirty \union fresh : ScansWhole(x.body)
    PROVE  /\ FreshSelf(dirty, fresh) \in Nat
           /\ \A n \in NumbersOf(fresh) : n < FreshSelf(dirty, fresh)
           /\ \A x \in dirty \union fresh : \A t \in x.body.refs :
                 t \in Nat /\ t < FreshSelf(dirty, fresh)
<1> DEFINE numbers == NumbersOf(fresh) \union UNION {Reported(x.body) : x \in dirty \union fresh}
<1>1. numbers \subseteq 0..MaxNumber /\ numbers # {} /\ MaxNumber \in Nat
  <2>1. \A x \in dirty \union fresh : x.num \in 0..MaxNumber /\ Reported(x.body) \subseteq 0..MaxNumber
    BY RequestFits DEF Fitting, IsBody, IsScan, ObjectNumbers
  <2>2. NumbersOf(fresh) \subseteq 0..MaxNumber /\ NumbersOf(fresh) # {}
    BY <2>1 DEF NumbersOf
  <2>3. UNION {Reported(x.body) : x \in dirty \union fresh} \subseteq 0..MaxNumber
    BY <2>1
  <2> QED
    BY <2>2, <2>3, DocumentAssumption
<1>2. FreshSelf(dirty, fresh) = Largest(numbers) + 1
  BY DEF FreshSelf
<1>3. /\ NumbersOf(fresh) \subseteq numbers
      /\ \A x \in dirty \union fresh : x.body.refs \subseteq numbers
  <2>1. \A x \in dirty \union fresh : x.body.refs = Reported(x.body)
    BY DEF ScansWhole, Reported
  <2> QED
    BY <2>1
<1> HIDE DEF numbers
<1>4. Largest(numbers) \in Nat /\ \A m \in numbers : m \in Nat /\ m <= Largest(numbers)
  BY <1>1, LargestIsGreatest
<1>5. FreshSelf(dirty, fresh) \in Nat /\ \A n \in numbers : n \in Nat /\ n < FreshSelf(dirty, fresh)
  BY <1>2, <1>4
<1> QED
  BY <1>3, <1>5, Zenon

(* The map has a highest number.                                            *)
LEMMA HighestIsAbove ==
    ASSUME DocInv
    PROVE  HighestNumber \in Nat /\ \A n \in DOMAIN map : n \in Nat /\ n <= HighestNumber
<1>1. /\ DOMAIN map \union {0} \subseteq 0..MaxEntry /\ MaxEntry \in Nat
      /\ DOMAIN map \union {0} # {}
  BY KnownDocument, DocumentAssumption
<1> QED
  BY <1>1, LargestIsGreatest DEF HighestNumber

(* The /Size of a section covers what the section lists and the whole chain *)
(* it extends.                                                              *)
CoversAll(size, numbers) ==
    /\ size \in Nat
    /\ \A n \in numbers \union DOMAIN map : n < size
    /\ \A i \in DOMAIN chain : doc[chain[i]].size <= size

(* Two and three numbers have a largest one.                                *)
LEMMA LargestOfThree ==
    ASSUME NEW a \in Nat, NEW b \in Nat, NEW c \in Nat
    PROVE  /\ Largest({a, b, c}) \in Nat
           /\ a <= Largest({a, b, c}) /\ b <= Largest({a, b, c}) /\ c <= Largest({a, b, c})
<1>1. {a, b, c} \subseteq 0..(a + b + c) /\ a + b + c \in Nat /\ {a, b, c} # {}
  OBVIOUS
<1> QED
  BY <1>1, LargestIsGreatest

(* The /Size of a new xref stream covers the old numbers and the stream's   *)
(* own.                                                                     *)
LEMMA StreamSizeCovers ==
    ASSUME DocInv, chain # <<>>, NEW self \in Nat, NEW numbers,
           \A n \in numbers : n \in Nat /\ (n \in DOMAIN map \/ n <= self)
    PROVE  CoversAll(StreamSize(self), numbers)
<1>1. /\ EffectiveSize(doc, chain) \in Nat
      /\ \A i \in DOMAIN chain : /\ doc[chain[i]].size \in Nat
                                 /\ doc[chain[i]].size <= EffectiveSize(doc, chain)
  BY KnownDocument, EffectiveSizeIsLargest DEF IsSection
<1>2. HighestNumber \in Nat /\ \A n \in DOMAIN map : n \in Nat /\ n <= HighestNumber
  BY HighestIsAbove
<1>3. /\ StreamSize(self) \in Nat
      /\ EffectiveSize(doc, chain) <= StreamSize(self)
      /\ HighestNumber + 1 <= StreamSize(self)
      /\ self + 1 <= StreamSize(self)
  <2>1. HighestNumber + 1 \in Nat /\ self + 1 \in Nat
    BY <1>2
  <2> DEFINE a == EffectiveSize(doc, chain)
             b == HighestNumber + 1
             c == self + 1
  <2>2. a \in Nat /\ b \in Nat /\ c \in Nat
    BY <1>1, <2>1
  <2>3. StreamSize(self) = Largest({a, b, c})
    BY DEF StreamSize
  <2> HIDE DEF a, b, c
  <2>4. /\ Largest({a, b, c}) \in Nat
        /\ a <= Largest({a, b, c}) /\ b <= Largest({a, b, c}) /\ c <= Largest({a, b, c})
    BY <2>2, LargestOfThree
  <2> QED
    BY <2>3, <2>4 DEF a, b, c
<1> QED
  BY <1>1, <1>2, <1>3 DEF CoversAll

(* The /Size of a new table covers the old numbers.                         *)
LEMMA TableSizeCovers ==
    ASSUME DocInv, chain # <<>>
    PROVE  CoversAll(PlainTableSize, DOMAIN map)
<1>1. /\ EffectiveSize(doc, chain) \in Nat
      /\ \A i \in DOMAIN chain : /\ doc[chain[i]].size \in Nat
                                 /\ doc[chain[i]].size <= EffectiveSize(doc, chain)
  BY KnownDocument, EffectiveSizeIsLargest DEF IsSection
<1>2. HighestNumber \in Nat /\ \A n \in DOMAIN map : n \in Nat /\ n <= HighestNumber
  BY HighestIsAbove
<1>3. {EffectiveSize(doc, chain), HighestNumber + 1}
          = {EffectiveSize(doc, chain), HighestNumber + 1, HighestNumber + 1}
  OBVIOUS
<1>4. /\ PlainTableSize \in Nat
      /\ EffectiveSize(doc, chain) <= PlainTableSize
      /\ HighestNumber + 1 <= PlainTableSize
  BY <1>1, <1>2, <1>3, LargestOfThree DEF PlainTableSize
<1> QED
  BY <1>1, <1>2, <1>4 DEF CoversAll

----------------------------------------------------------------------------
(* The revision a call delivers.                                            *)

(* The object of an xref stream numbered self.                              *)
OwnObject(self) ==
    [num |-> self, gen |-> 0,
     body |-> [gen |-> 0, refs |-> {Newest(doc).root} \union Newest(doc).info,
               unreported |-> CopiedUnreported, scans |-> TRUE, members |-> NoMembers]]

(* revision is one the writer would append to hold the objects of written.  *)
Lists(revision, written) ==
    /\ revision.kind = Newest(doc).kind
    /\ revision.prev = Len(doc)
    /\ revision.root = Newest(doc).root
    /\ revision.info = Newest(doc).info
    /\ revision.other = {}
    /\ revision.unreported = CopiedUnreported
    /\ revision.map = [n \in NumbersOf(written) |-> WrittenEntry(WithNumber(written, n))]
    /\ revision.bodies = [n \in NumbersOf(written) |-> WrittenBody(WithNumber(written, n))]

(* A table lists what was requested.                                        *)
LEMMA TableLists ==
    ASSUME NEW request, NEW size
    PROVE  /\ Lists(TableRevision(request, size), request)
           /\ TableRevision(request, size).size = size
           /\ TableRevision(request, size).self = 0
  BY DEF Lists, TableRevision, Revision

(* An xref stream lists what was requested and itself.                      *)
LEMMA StreamLists ==
    ASSUME NEW request, NEW self
    PROVE  /\ Lists(StreamRevision(request, self), request \union {OwnObject(self)})
           /\ StreamRevision(request, self).size = StreamSize(self)
           /\ StreamRevision(request, self).self = self
<1> DEFINE written == request \union {OwnObject(self)}
<1>1. StreamRevision(request, self)
        = Revision(StreamSize(self), self,
              [n \in NumbersOf(written) |-> WrittenEntry(WithNumber(written, n))],
              [n \in NumbersOf(written) |-> WrittenBody(WithNumber(written, n))])
  BY DEF StreamRevision, OwnObject
<1> HIDE DEF written
<1>2. Lists(StreamRevision(request, self), written)
  BY <1>1 DEF Lists, Revision
<1> QED
  BY <1>1, <1>2 DEF Revision, written

(* What the revision holds for each of the objects.                         *)
LEMMA ListedObject ==
    ASSUME NEW written, NEW revision, Lists(revision, written), Fitting(written)
    PROVE  /\ \A n : n \in DOMAIN revision.map <=> n \in NumbersOf(written)
           /\ \A n : n \in DOMAIN revision.bodies <=> n \in NumbersOf(written)
           /\ \A n \in NumbersOf(written) : \E x \in written :
                 /\ x.num = n
                 /\ revision.map[n] = WrittenEntry(x)
                 /\ revision.bodies[n] = WrittenBody(x)
                 /\ WrittenBody(x).gen = x.gen
                 /\ WrittenBody(x).refs = x.body.refs
                 /\ IsBody(WrittenBody(x))
<1>1. /\ \A n : n \in DOMAIN revision.map <=> n \in NumbersOf(written)
      /\ \A n : n \in DOMAIN revision.bodies <=> n \in NumbersOf(written)
  BY DEF Lists
<1>2. ASSUME NEW x \in written
      PROVE  /\ WrittenBody(x).gen = x.gen
             /\ WrittenBody(x).refs = x.body.refs
             /\ IsBody(WrittenBody(x))
  <2>1. IsBody(x.body) /\ x.gen \in 0..MaxGeneration
    BY DEF Fitting
  <2>2. DOMAIN x.body = {"gen", "refs", "unreported", "scans", "members"}
    BY <2>1 DEF IsBody
  <2>3. DOMAIN WrittenBody(x) = DOMAIN x.body
    BY DEF WrittenBody
  <2>4. /\ WrittenBody(x).gen = x.gen
        /\ WrittenBody(x).refs = x.body.refs
        /\ WrittenBody(x).unreported = x.body.unreported
        /\ WrittenBody(x).members = x.body.members
    BY <2>2 DEF WrittenBody
  <2>5. IsBody(WrittenBody(x))
    <3> DEFINE body == WrittenBody(x)
    <3>1. IsScan(body)
      BY <2>1, <2>4 DEF IsBody, IsScan, Reported
    <3>2. \A m \in DOMAIN body.members : IsScan(body.members[m])
      BY <2>1, <2>4 DEF IsBody
    <3>3. /\ DOMAIN body = {"gen", "refs", "unreported", "scans", "members"}
          /\ body.gen \in 0..MaxGeneration
      BY <2>1, <2>2, <2>3, <2>4
    <3> HIDE DEF body
    <3>4. IsBody(body)
      BY <3>1, <3>2, <3>3 DEF IsBody
    <3> QED
      BY <3>4 DEF body
  <2> QED
    BY <2>4, <2>5
<1>3. ASSUME NEW n \in NumbersOf(written)
      PROVE  \E x \in written : /\ x.num = n
                                /\ revision.map[n] = WrittenEntry(x)
                                /\ revision.bodies[n] = WrittenBody(x)
  <2>1. WithNumber(written, n) \in written /\ WithNumber(written, n).num = n
    BY DEF NumbersOf, WithNumber
  <2>2. /\ revision.map[n] = WrittenEntry(WithNumber(written, n))
        /\ revision.bodies[n] = WrittenBody(WithNumber(written, n))
    BY DEF Lists
  <2> QED
    BY <2>1, <2>2
<1> QED
  BY <1>1, <1>2, <1>3, Zenon

(* A call that delivered revision, written for the objects of written: the  *)
(* document's own objects keep their generation, new ones start at zero.    *)
Delivered(revision, written) ==
    /\ Deliver(revision)
    /\ chain # <<>>
    /\ Lists(revision, written)
    /\ Fitting(written)
    /\ \A x \in written : IF x.num \in DOMAIN map
                          THEN OffsetResolution(doc, map, x.num, x.gen) = "Ok"
                          ELSE x.gen = 0
    /\ revision.self \in ObjectNumbers
    /\ CoversAll(revision.size, NumbersOf(written))

(* An xref stream's own object fits, and its number is the only one it adds.*)
LEMMA WithOwnObject ==
    ASSUME DocInv, NEW request, Fitting(request), NEW self \in ObjectNumbers
    PROVE  /\ Fitting(request \union {OwnObject(self)})
           /\ NumbersOf(request \union {OwnObject(self)}) = NumbersOf(request) \union {self}
<1> DEFINE own == OwnObject(self)
<1>1. /\ own.num = self /\ own.gen = 0 /\ own.num \in ObjectNumbers
      /\ own.gen \in 0..MaxGeneration /\ own.gen \in Nat
  BY DocumentAssumption DEF OwnObject
<1>2. IsBody(own.body)
  <2> DEFINE refs == {Newest(doc).root} \union Newest(doc).info
  <2>1. own.body = [gen |-> 0, refs |-> refs, unreported |-> CopiedUnreported,
                    scans |-> TRUE, members |-> NoMembers]
    BY DEF OwnObject
  <2>2. /\ refs \subseteq Nat
        /\ CopiedUnreported \subseteq refs
        /\ refs \ CopiedUnreported \subseteq ObjectNumbers
    BY KnownDocument DEF IsSection, TrailerReferences, ReportedByTrailer, CopiedUnreported
  <2>3. 0 \in 0..MaxGeneration
    BY DocumentAssumption
  <2> HIDE DEF own, refs
  <2>4. IsScan(own.body)
    BY <2>1, <2>2 DEF IsScan, Reported
  <2> QED
    BY <2>1, <2>3, <2>4 DEF IsBody, NoMembers
<1> HIDE DEF own
<1>3. Fitting(request \union {own})
  BY <1>1, <1>2 DEF Fitting
<1>4. NumbersOf(request \union {own}) = NumbersOf(request) \union {self}
  BY <1>1 DEF NumbersOf
<1> QED
  BY <1>3, <1>4 DEF own

(* A source that is not refused has a newest section of a known kind.       *)
LEMMA ReadableChain ==
    ASSUME DocInv, SourceFailure = "Ok"
    PROVE  chain # <<>> /\ Newest(doc).kind \in {"Table", "Stream"}
  BY KnownDocument DEF SourceFailure, Readable, IsSection

(* What an accepted call writes: the objects it was given and, into an      *)
(* xref-stream file, the stream's own object at a number that is new.       *)
Writes(revision, written) ==
    /\ Delivered(revision, written)
    /\ call'.given \subseteq DOMAIN map
    /\ call'.fresh \intersect DOMAIN map = {}
    /\ call'.fresh \subseteq NumbersOf(written)
    /\ \A n \in NumbersOf(written) :
          n \in call'.given \union call'.fresh \/ (n = revision.self /\ n \notin DOMAIN map)

(* A write delivers what it was asked to write.                             *)
LEMMA WriteDelivers ==
    ASSUME DocInv, NEW dirty \in DirtyRequests, Write(dirty)
    PROVE  \E revision, written : Writes(revision, written)
<1>1. chain # <<>>
  BY ReadableChain DEF Write
<1>2. DirtyFailure(dirty) = "Ok" /\ call'.given = NumbersOf(dirty) /\ call'.fresh = {}
  BY DEF Write
<1>3. /\ Fitting(dirty)
      /\ \A x \in dirty : OffsetResolution(doc, map, x.num, x.gen) = "Ok" /\ x.num \in DOMAIN map
  BY <1>2, RequestFits, DirtyResolves
<1>4. NumbersOf(dirty) \subseteq DOMAIN map
  BY <1>3 DEF NumbersOf
<1>5. CASE Deliver(TableRevision(dirty, PlainTableSize))
  <2> DEFINE revision == TableRevision(dirty, PlainTableSize)
  <2>1. Lists(revision, dirty) /\ revision.size = PlainTableSize /\ revision.self = 0
    BY TableLists
  <2>2. 0 \in ObjectNumbers
    BY DocumentAssumption DEF ObjectNumbers
  <2>3. CoversAll(PlainTableSize, NumbersOf(dirty))
    BY <1>1, <1>4, TableSizeCovers DEF CoversAll
  <2> HIDE DEF revision
  <2>4. Delivered(revision, dirty)
    BY <1>1, <1>3, <1>5, <2>1, <2>2, <2>3 DEF Delivered, revision
  <2> QED
    BY <1>2, <1>4, <2>4 DEF Writes
<1>6. CASE PlainSelf <= MaxNumber /\ Deliver(StreamRevision(dirty, PlainSelf))
  <2> DEFINE revision == StreamRevision(dirty, PlainSelf)
             written == dirty \union {OwnObject(PlainSelf)}
  <2>1. PlainSelf \in Nat /\ \A n \in DOMAIN map : n \in Nat /\ n < PlainSelf
    BY HighestIsAbove DEF PlainSelf
  <2>2. PlainSelf \in ObjectNumbers /\ PlainSelf \notin DOMAIN map
    BY <1>6, <2>1, DocumentAssumption DEF ObjectNumbers
  <2>3. /\ Lists(revision, written)
        /\ revision.size = StreamSize(PlainSelf) /\ revision.self = PlainSelf
    BY StreamLists
  <2>4. Fitting(written) /\ NumbersOf(written) = NumbersOf(dirty) \union {PlainSelf}
    BY <1>3, <2>2, WithOwnObject
  <2>5. CoversAll(StreamSize(PlainSelf), NumbersOf(written))
    <3>1. \A n \in NumbersOf(written) : n \in Nat /\ (n \in DOMAIN map \/ n <= PlainSelf)
      BY <1>4, <2>1, <2>4
    <3> QED
      BY <1>1, <2>1, <3>1, StreamSizeCovers
  <2>6. OwnObject(PlainSelf).num = PlainSelf /\ OwnObject(PlainSelf).gen = 0
    BY DEF OwnObject
  <2>7. \A x \in written : IF x.num \in DOMAIN map
                           THEN OffsetResolution(doc, map, x.num, x.gen) = "Ok"
                           ELSE x.gen = 0
    BY <1>3, <2>2, <2>6
  <2> HIDE DEF revision, written
  <2>8. Delivered(revision, written)
    BY <1>1, <1>6, <2>2, <2>3, <2>4, <2>5, <2>7 DEF Delivered, revision
  <2> QED
    BY <1>2, <1>4, <2>2, <2>3, <2>4, <2>8 DEF Writes
<1> QED
  BY <1>5, <1>6 DEF Write

(* What a fresh write adds lies at the floor of the document or above, its  *)
(* xref stream included.                                                    *)
LEMMA FreshDelivers ==
    ASSUME DocInv, NEW dirty \in DirtyRequests, NEW fresh \in FreshRequests,
           WriteWithFresh(dirty, fresh)
    PROVE  \E revision, written, floor :
              /\ Writes(revision, written)
              /\ floor \in Floors /\ floor \in Nat
              /\ \A n \in NumbersOf(written) : n \in DOMAIN map \/ (n \in Nat /\ floor <= n)
              /\ revision.kind = "Stream" =>
                    /\ revision.self \in Nat /\ floor < revision.self
                    /\ revision.self = FreshSelf(dirty, fresh)
                    /\ written = (dirty \union fresh) \union {OwnObject(FreshSelf(dirty, fresh))}
<1>1. chain # <<>>
  BY ReadableChain DEF WriteWithFresh
<1>2. /\ DirtyFailure(dirty) = "Ok" /\ fresh # {}
      /\ call'.given = NumbersOf(dirty) /\ call'.fresh = NumbersOf(fresh)
  BY DEF WriteWithFresh
<1>3. /\ Fitting(dirty \union fresh)
      /\ \A x \in dirty : OffsetResolution(doc, map, x.num, x.gen) = "Ok" /\ x.num \in DOMAIN map
  BY <1>2, RequestFits, DirtyResolves DEF Fitting
<1>4. PICK floor \in Floors :
         /\ FreshFailure(dirty, fresh, floor) = "Ok"
         /\ \/ /\ Newest(doc).kind = "Table"
               /\ Deliver(TableRevision(dirty \union fresh, floor + Cardinality(fresh)))
            \/ /\ \A x \in dirty \union fresh : ScansWhole(x.body)
               /\ FreshSelf(dirty, fresh) <= MaxNumber
               /\ Deliver(StreamRevision(dirty \union fresh, FreshSelf(dirty, fresh)))
  BY DEF WriteWithFresh
<1>5. floor \in Nat
  BY FloorIsNatural DEF WriteWithFresh
<1>6. /\ floor \in NumbersOf(fresh)
      /\ NumbersOf(fresh) = floor..(floor + Cardinality(fresh) - 1)
      /\ Cardinality(fresh) \in Nat
      /\ \A x \in fresh : x.gen = 0
  BY <1>2, <1>4, FreshStartsAtFloor
<1>7. \A n \in DOMAIN map : n \in Nat /\ n < floor
  <2>1. \A n \in DOMAIN map : n \in Nat /\ n + 1 <= floor
    BY HighestIsAbove, FloorIsAbove, MapIsOccupied DEF WriteWithFresh
  <2> QED
    BY <1>5, <2>1
<1>8. \A n \in NumbersOf(fresh) : n \in Nat /\ floor <= n /\ n \notin DOMAIN map
  BY <1>5, <1>6, <1>7
<1>9. \A x \in fresh : x.num \in NumbersOf(fresh)
  BY DEF NumbersOf
<1>10. NumbersOf(dirty) \subseteq DOMAIN map
  BY <1>3 DEF NumbersOf
<1>11. NumbersOf(dirty \union fresh) = NumbersOf(dirty) \union NumbersOf(fresh)
  BY DEF NumbersOf
<1>12. \A x \in dirty \union fresh : IF x.num \in DOMAIN map
                                    THEN OffsetResolution(doc, map, x.num, x.gen) = "Ok"
                                    ELSE x.gen = 0
  BY <1>3, <1>6, <1>8, <1>9
<1>13. CASE /\ Newest(doc).kind = "Table"
            /\ Deliver(TableRevision(dirty \union fresh, floor + Cardinality(fresh)))
  <2> DEFINE size == floor + Cardinality(fresh)
             revision == TableRevision(dirty \union fresh, size)
  <2>1. Lists(revision, dirty \union fresh) /\ revision.size = size /\ revision.self = 0
    BY TableLists
  <2>2. 0 \in ObjectNumbers
    BY DocumentAssumption DEF ObjectNumbers
  <2>3. CoversAll(size, NumbersOf(dirty \union fresh))
    <3>1. size \in Nat /\ floor <= size
      BY <1>5, <1>6
    <3>2. \A n \in NumbersOf(fresh) : n < size
      BY <1>5, <1>6
    <3>3. \A n \in DOMAIN map : n < size
      BY <1>5, <1>7, <3>1
    <3>4. \A i \in DOMAIN chain : doc[chain[i]].size <= size
      <4>1. \A i \in DOMAIN chain : doc[chain[i]].size \in Nat /\ doc[chain[i]].size <= floor
        BY FloorIsAbove, KnownDocument DEF IsSection, WriteWithFresh
      <4> HIDE DEF size
      <4> QED
        BY <1>5, <3>1, <4>1
    <3> HIDE DEF size
    <3> QED
      BY <1>10, <1>11, <3>1, <3>2, <3>3, <3>4 DEF CoversAll
  <2>4. revision.kind = "Table"
    BY <1>13, <2>1 DEF Lists
  <2> HIDE DEF revision, size
  <2>5. Delivered(revision, dirty \union fresh)
    BY <1>1, <1>3, <1>12, <1>13, <2>1, <2>2, <2>3 DEF Delivered, revision, size
  <2>6. Writes(revision, dirty \union fresh)
    BY <1>2, <1>8, <1>10, <1>11, <2>5 DEF Writes
  <2>7. \A n \in NumbersOf(dirty \union fresh) : n \in DOMAIN map \/ (n \in Nat /\ floor <= n)
    BY <1>8, <1>10, <1>11
  <2> QED
    BY <1>5, <2>4, <2>6, <2>7
<1>14. CASE /\ \A x \in dirty \union fresh : ScansWhole(x.body)
            /\ FreshSelf(dirty, fresh) <= MaxNumber
            /\ Deliver(StreamRevision(dirty \union fresh, FreshSelf(dirty, fresh)))
  <2> DEFINE self == FreshSelf(dirty, fresh)
             revision == StreamRevision(dirty \union fresh, self)
             written == (dirty \union fresh) \union {OwnObject(self)}
  <2>1. self \in Nat /\ \A n \in NumbersOf(fresh) : n < self
    BY <1>2, <1>14, SelfIsAbove
  <2>2. floor < self /\ self \in ObjectNumbers /\ self \notin DOMAIN map
    <3>1. floor < self
      BY <1>6, <2>1
    <3>2. self \in ObjectNumbers
      BY <1>14, <2>1, DocumentAssumption DEF ObjectNumbers
    <3>3. self \notin DOMAIN map
      BY <1>5, <1>7, <2>1, <3>1
    <3> QED
      BY <3>1, <3>2, <3>3
  <2>3. Lists(revision, written) /\ revision.size = StreamSize(self) /\ revision.self = self
    BY StreamLists
  <2>4. /\ Fitting(written)
        /\ NumbersOf(written) = NumbersOf(dirty \union fresh) \union {self}
    BY <1>3, <2>2, WithOwnObject
  <2>5. CoversAll(StreamSize(self), NumbersOf(written))
    <3>1. \A n \in NumbersOf(written) : n \in Nat /\ (n \in DOMAIN map \/ n <= self)
      BY <1>7, <1>8, <1>10, <1>11, <2>1, <2>4
    <3> QED
      BY <1>1, <2>1, <3>1, StreamSizeCovers
  <2>6. OwnObject(self).num = self /\ OwnObject(self).gen = 0
    BY DEF OwnObject
  <2>7. \A x \in written : IF x.num \in DOMAIN map
                           THEN OffsetResolution(doc, map, x.num, x.gen) = "Ok"
                           ELSE x.gen = 0
    BY <1>12, <2>2, <2>6
  <2>8. \A n \in NumbersOf(written) : n \in DOMAIN map \/ (n \in Nat /\ floor <= n)
    BY <1>5, <1>8, <1>10, <1>11, <2>1, <2>2, <2>4
  <2> HIDE DEF revision, written
  <2>9. Delivered(revision, written)
    BY <1>1, <1>14, <2>2, <2>3, <2>4, <2>5, <2>7 DEF Delivered, revision
  <2>10. Writes(revision, written)
    BY <1>2, <1>8, <1>10, <1>11, <2>2, <2>3, <2>4, <2>9 DEF Writes
  <2> QED
    BY <1>5, <2>1, <2>2, <2>3, <2>8, <2>10 DEF written
<1> QED
  BY <1>4, <1>13, <1>14

(* A delivered revision is a section of the document that goes on with the  *)
(* chain the call was given.                                                *)
LEMMA DeliveredDoc ==
    ASSUME DocInv, NEW revision, NEW written, Delivered(revision, written)
    PROVE  /\ DocInv'
           /\ chain' = <<Len(doc) + 1>> \o chain
           /\ doc' = Append(doc, revision)
           /\ Len(doc') = Len(doc) + 1
           /\ Newest(doc') = revision
           /\ \A o \in DOMAIN doc : o \in DOMAIN doc' /\ doc'[o] = doc[o]
           /\ \A o \in DOMAIN doc' : o \in DOMAIN doc \/ o = Len(doc) + 1
<1>1. doc' = Append(doc, revision) /\ chain' = ChainOf(doc') /\ map' = MapOf(doc')
  BY DEF Delivered, Deliver
<1>2. /\ doc \in Seq({doc[o] : o \in DOMAIN doc}) /\ Len(doc) \in Nat \ {0}
      /\ DOMAIN doc = 1..Len(doc) /\ chain = ChainOf(doc)
      /\ \A o \in DOMAIN doc : IsSection(doc[o])
  BY KnownDocument DEF DocInv
<1>3. /\ Len(doc') = Len(doc) + 1 /\ DOMAIN doc' = 1..(Len(doc) + 1)
      /\ doc'[Len(doc) + 1] = revision /\ \A o \in DOMAIN doc : doc'[o] = doc[o]
  BY <1>1, <1>2
<1>4. Newest(doc') = revision
  BY <1>3 DEF Newest
<1>5. chain' = <<Len(doc) + 1>> \o chain
  <2>1. revision.prev = Len(doc) /\ revision.kind = Newest(doc).kind /\ chain # <<>>
    BY DEF Delivered, Lists
  <2>2. ChainOf(Append(doc, revision)) = <<Len(doc) + 1>> \o ChainOf(doc)
    BY <1>2, <2>1, ChainOfAppend
  <2> QED
    BY <1>1, <1>2, <2>2
<1>6. IsSection(revision)
  <2>1. Lists(revision, written) /\ Fitting(written)
    BY DEF Delivered
  <2>2. IsSection(Newest(doc))
    BY KnownDocument
  <2>3. revision.kind \in {"Table", "Stream"} /\ revision.prev \in Nat /\ revision.size \in Nat
    BY <1>2, <2>1, <2>2 DEF Lists, IsSection, Delivered, CoversAll
  <2>4. /\ TrailerReferences(revision) = {Newest(doc).root} \union Newest(doc).info
        /\ revision.unreported = Newest(doc).unreported \intersect Newest(doc).info
        /\ revision.root = Newest(doc).root /\ revision.self \in ObjectNumbers
    BY <2>1 DEF Lists, TrailerReferences, CopiedUnreported, Delivered
  <2>5. /\ TrailerReferences(revision) \subseteq Nat
        /\ ReportedByTrailer(revision) \union {revision.root, revision.self} \subseteq ObjectNumbers
        /\ revision.unreported \subseteq TrailerReferences(revision) \ {revision.root}
    BY <2>2, <2>4 DEF IsSection, TrailerReferences, ReportedByTrailer
  <2>6. /\ \A n \in NumbersOf(written) : n \in ObjectNumbers
        /\ \A n \in DOMAIN revision.map : n \in ObjectNumbers
        /\ DOMAIN revision.map \subseteq
              0..(IF revision.kind = "Table" THEN MaxNumber ELSE MaxEntry)
    <3>1. \A n \in NumbersOf(written) : n \in ObjectNumbers
      BY <2>1 DEF Fitting, NumbersOf
    <3>2. \A n \in DOMAIN revision.map : n \in 0..MaxNumber
      BY <2>1, <3>1, ListedObject DEF ObjectNumbers
    <3>3. 0..MaxNumber \subseteq 0..MaxEntry
      BY DocumentAssumption
    <3> QED
      BY <3>1, <3>2, <3>3 DEF ObjectNumbers
  <2>7. ASSUME NEW n \in DOMAIN revision.map PROVE IsEntry(revision.map[n])
    <3>1. PICK x \in written : revision.map[n] = WrittenEntry(x)
      BY <2>1, <2>7, ListedObject
    <3> QED
      BY <1>2, <3>1 DEF WrittenEntry, IsEntry
  <2>8. ASSUME NEW n \in DOMAIN revision.bodies
        PROVE  n \in ObjectNumbers /\ IsBody(revision.bodies[n])
    BY <2>1, <2>6, <2>8, ListedObject
  <2> QED
    BY <2>3, <2>5, <2>6, <2>7, <2>8 DEF IsSection
<1>7. IsDocument(doc')
  <2>1. doc' \in Seq({doc[o] : o \in DOMAIN doc} \union {revision}) /\ doc' # <<>>
    BY <1>1, <1>2
  <2>2. \A o \in DOMAIN doc' : doc'[o] \in {doc'[p] : p \in DOMAIN doc'}
    OBVIOUS
  <2>3. doc' \in Seq({doc'[o] : o \in DOMAIN doc'})
    BY <2>1, <2>2
  <2>4. \A o \in DOMAIN doc' : IsSection(doc'[o])
    BY <1>2, <1>3, <1>6
  <2> QED
    BY <2>1, <2>3, <2>4 DEF IsDocument
<1>8. DocInv'
  BY <1>1, <1>7 DEF DocInv
<1> QED
  BY <1>1, <1>2, <1>3, <1>4, <1>5, <1>8

(* Every call keeps DocInv.                                                 *)
LEMMA NextDoc == DocInv /\ [Next]_vars => DocInv'
<1> SUFFICES ASSUME DocInv, [Next]_vars PROVE DocInv'
  OBVIOUS
<1>1. CASE \E count \in Counts : Reserve(count)
  BY <1>1 DEF Reserve, DocInv
<1>2. ASSUME NEW dirty \in DirtyRequests, Write(dirty) PROVE DocInv'
  BY <1>2, WriteDelivers, DeliveredDoc DEF Writes
<1>3. ASSUME NEW dirty \in DirtyRequests, NEW fresh \in FreshRequests, WriteWithFresh(dirty, fresh)
      PROVE  DocInv'
  BY <1>3, FreshDelivers, DeliveredDoc DEF Writes
<1>4. CASE UNCHANGED vars
  BY <1>4 DEF vars, DocInv
<1> QED
  BY <1>1, <1>2, <1>3, <1>4 DEF Next

(* The map of the new bytes: what the revision lists over what was there.   *)
LEMMA MapAfter ==
    ASSUME DocInv, NEW revision, NEW written, Delivered(revision, written)
    PROVE  /\ \A n : n \in DOMAIN map' <=> n \in DOMAIN map \/ n \in NumbersOf(written)
           /\ \A n \in NumbersOf(written) : map'[n] = revision.map[n]
           /\ \A n \in DOMAIN map \ NumbersOf(written) : map'[n] = map[n]
<1>1. /\ doc' = Append(doc, revision) /\ map' = Effective(doc', chain')
      /\ chain' = <<Len(doc) + 1>> \o chain
  BY DeliveredDoc DEF Delivered, Deliver, MapOf
<1>2. doc \in Seq({doc[o] : o \in DOMAIN doc}) /\ chain \in Seq(1..Len(doc))
  BY KnownDocument
<1>3. map = Effective(doc, chain)
  BY DEF DocInv, MapOf
<1>4. \A n : n \in DOMAIN revision.map <=> n \in NumbersOf(written)
  BY ListedObject DEF Delivered
<1>5. /\ \A n : n \in DOMAIN map' <=> n \in DOMAIN map \/ n \in DOMAIN revision.map
      /\ \A n \in DOMAIN revision.map : map'[n] = revision.map[n]
      /\ \A n \in DOMAIN map \ DOMAIN revision.map : map'[n] = map[n]
  <2> DEFINE after == Effective(Append(doc, revision), <<Len(doc) + 1>> \o chain)
  <2>1. map' = after
    BY <1>1
  <2>2. /\ \A n : n \in DOMAIN after <=>
               n \in DOMAIN Effective(doc, chain) \/ n \in DOMAIN revision.map
        /\ \A n \in DOMAIN revision.map : after[n] = revision.map[n]
        /\ \A n \in DOMAIN Effective(doc, chain) \ DOMAIN revision.map :
              after[n] = Effective(doc, chain)[n]
    BY <1>2, EffectiveOfAppend
  <2> HIDE DEF after
  <2> QED
    BY <1>3, <2>1, <2>2
<1> QED
  BY <1>4, <1>5

----------------------------------------------------------------------------
(* The theorems.                                                            *)

(* What the caller holds is always a document; its reservation and what it  *)
(* passed are object numbers.                                               *)
THEOREM CallerHoldsDocument == Spec => []TypeOK
<1> DEFINE CallInv == /\ reservation \subseteq ObjectNumbers
                      /\ call.kind \in {"open", "reserve", "write", "fresh"}
                      /\ call.given \union call.fresh \subseteq ObjectNumbers
<1>1. Init => DocInv /\ CallInv
  BY InitDoc DEF Init
<1>2. ASSUME DocInv, CallInv, [Next]_vars PROVE CallInv'
  <2>1. ASSUME NEW count \in Counts, Reserve(count) PROVE CallInv'
    <3>1. call'.kind = "reserve" /\ call'.given = {} /\ call'.fresh = {}
      BY <2>1 DEF Reserve
    <3>2. CASE reservation' = {}
      BY <3>1, <3>2
    <3>3. CASE /\ FloorFailure(doc, map) = "Ok"
               /\ \E floor \in Floors : /\ floor + count - 1 <= MaxNumber
                                        /\ reservation' = floor..(floor + count - 1)
      <4>1. PICK floor \in Floors : /\ floor + count - 1 <= MaxNumber
                                    /\ reservation' = floor..(floor + count - 1)
        BY <3>3
      <4>2. floor \in Nat
        BY <1>2, <3>3, FloorIsNatural
      <4>3. count \in Nat /\ MaxNumber \in Nat
        BY WriterAssumption, DocumentAssumption
      <4>4. reservation' \subseteq ObjectNumbers
        BY <4>1, <4>2, <4>3 DEF ObjectNumbers
      <4> QED
        BY <3>1, <4>4
    <3> QED
      BY <2>1, <3>2, <3>3 DEF Reserve
  <2>2. ASSUME NEW dirty \in DirtyRequests, Write(dirty) PROVE CallInv'
    BY <1>2, <2>2, RequestFits DEF Write
  <2>3. ASSUME NEW dirty \in DirtyRequests, NEW fresh \in FreshRequests, WriteWithFresh(dirty, fresh)
        PROVE  CallInv'
    BY <1>2, <2>3, RequestFits DEF WriteWithFresh
  <2>4. CASE UNCHANGED vars
    BY <1>2, <2>4 DEF vars
  <2> QED
    BY <1>2, <2>1, <2>2, <2>3, <2>4 DEF Next
<1>3. DocInv /\ CallInv => TypeOK
  BY KnownDocument DEF DocInv, TypeOK
<1> HIDE DEF CallInv
<1> QED
  BY <1>1, <1>2, <1>3, NextDoc, PTL DEF Spec

(* Every step either leaves the bytes alone or delivers a revision.         *)
LEMMA StepDelivers ==
    ASSUME DocInv, [Next]_vars
    PROVE  \/ UNCHANGED <<doc, chain, map>>
           \/ \E revision, written : Delivered(revision, written)
<1>1. ASSUME NEW dirty \in DirtyRequests, Write(dirty)
      PROVE  \E revision, written : Delivered(revision, written)
  BY <1>1, WriteDelivers DEF Writes
<1>2. ASSUME NEW dirty \in DirtyRequests, NEW fresh \in FreshRequests, WriteWithFresh(dirty, fresh)
      PROVE  \E revision, written : Delivered(revision, written)
  BY <1>2, FreshDelivers DEF Writes
<1> QED
  BY <1>1, <1>2 DEF Next, Reserve, vars

(* For every document: the chain of a result is the new revision followed   *)
(* by the whole chain of the input.                                         *)
THEOREM ResultExtendsChain == Spec => ChainExtended
<1>1. ASSUME DocInv, [Next]_vars PROVE [Appended => chain' = <<Len(doc')>> \o chain]_vars
  <2>1. CASE UNCHANGED <<doc, chain, map>>
    BY <2>1 DEF Appended
  <2>2. ASSUME NEW revision, NEW written, Delivered(revision, written)
        PROVE  chain' = <<Len(doc')>> \o chain
    BY <1>1, <2>2, DeliveredDoc
  <2> QED
    BY <1>1, <2>1, <2>2, StepDelivers
<1> QED
  BY <1>1, InitDoc, NextDoc, PTL DEF Spec, ChainExtended

(* The /Size written covers the whole chain.                                *)
THEOREM WrittenSizeCoversChain == Spec => SizeCoversChain
<1>1. ASSUME DocInv, [Next]_vars
      PROVE  [Appended =>
                 /\ \A n \in DOMAIN map \union DOMAIN Newest(doc').map : n < Newest(doc').size
                 /\ \A i \in DOMAIN chain : doc[chain[i]].size <= Newest(doc').size]_vars
  <2>1. CASE UNCHANGED <<doc, chain, map>>
    BY <2>1 DEF Appended
  <2>2. ASSUME NEW revision, NEW written, Delivered(revision, written)
        PROVE  /\ \A n \in DOMAIN map \union DOMAIN Newest(doc').map : n < Newest(doc').size
               /\ \A i \in DOMAIN chain : doc[chain[i]].size <= Newest(doc').size
    <3>1. Newest(doc') = revision
      BY <1>1, <2>2, DeliveredDoc
    <3>2. CoversAll(revision.size, NumbersOf(written))
      BY <2>2 DEF Delivered
    <3>3. \A n : n \in DOMAIN revision.map <=> n \in NumbersOf(written)
      BY <2>2, ListedObject DEF Delivered
    <3> QED
      BY <3>1, <3>2, <3>3 DEF CoversAll
  <2> QED
    BY <1>1, <2>1, <2>2, StepDelivers
<1> QED
  BY <1>1, InitDoc, NextDoc, PTL DEF Spec, SizeCoversChain

(* One accepted fresh write allocates only numbers above everything         *)
(* occupied.                                                                *)
LEMMA FreshWriteIsUnoccupied ==
    ASSUME DocInv, NEW dirty \in DirtyRequests, NEW fresh \in FreshRequests,
           WriteWithFresh(dirty, fresh)
    PROVE  Allocated \intersect OccupiedNumbers(doc, chain, map) = {}
<1>1. PICK revision, written, floor :
         /\ Writes(revision, written)
         /\ floor \in Floors /\ floor \in Nat
         /\ \A n \in NumbersOf(written) : n \in DOMAIN map \/ (n \in Nat /\ floor <= n)
         /\ revision.kind = "Stream" => revision.self \in Nat /\ floor < revision.self
  BY FreshDelivers
<1>2. Newest(doc') = revision
  BY <1>1, DeliveredDoc DEF Writes
<1>3. \A n \in call'.fresh : n \in Nat /\ floor <= n
  BY <1>1 DEF Writes
<1>4. \A n \in Allocated : n \in Nat /\ floor <= n
  BY <1>1, <1>2, <1>3 DEF Allocated
<1>5. \A n \in OccupiedNumbers(doc, chain, map) : n + 1 <= floor
  BY <1>1, FloorIsAbove DEF WriteWithFresh
<1> SUFFICES ASSUME NEW n \in Allocated, n \in OccupiedNumbers(doc, chain, map) PROVE FALSE
  OBVIOUS
<1>6. n \in Nat /\ n + 1 <= floor /\ floor <= n
  BY <1>4, <1>5
<1> QED
  BY <1>1, <1>6

(* In every session, for every document and every order of calls, fresh     *)
(* identities collide with nothing.                                         *)
THEOREM FreshNeverCollides == Spec => FreshIsUnoccupied
<1>1. ASSUME DocInv, [Next]_vars
      PROVE  [Appended /\ call'.kind = "fresh" =>
                 Allocated \intersect OccupiedNumbers(doc, chain, map) = {}]_vars
  <2>1. CASE \E count \in Counts : Reserve(count)
    BY <2>1 DEF Reserve, Appended
  <2>2. CASE \E dirty \in DirtyRequests : Write(dirty)
    BY <2>2 DEF Write
  <2>3. CASE \E dirty \in DirtyRequests, fresh \in FreshRequests : WriteWithFresh(dirty, fresh)
    BY <1>1, <2>3, FreshWriteIsUnoccupied
  <2>4. CASE UNCHANGED vars
    BY <2>4
  <2> QED
    BY <1>1, <2>1, <2>2, <2>3, <2>4 DEF Next
<1> QED
  BY <1>1, InitDoc, NextDoc, PTL DEF Spec, FreshIsUnoccupied

(* The xref stream of an accepted fresh write is referenced by none of the  *)
(* bodies written with it, its own included: that references only what the  *)
(* trailer of the input does.                                               *)
LEMMA FreshSelfIsUnreferenced ==
    ASSUME DocInv, NEW dirty \in DirtyRequests, NEW fresh \in FreshRequests,
           WriteWithFresh(dirty, fresh), Newest(doc').kind = "Stream"
    PROVE  \A n \in DOMAIN Newest(doc').bodies :
              Newest(doc').self \notin Newest(doc').bodies[n].refs
<1> DEFINE self == FreshSelf(dirty, fresh)
<1>1. PICK revision, written, floor :
         /\ Writes(revision, written)
         /\ floor \in Floors /\ floor \in Nat
         /\ revision.kind = "Stream" =>
               /\ revision.self \in Nat /\ floor < revision.self
               /\ revision.self = self
               /\ written = (dirty \union fresh) \union {OwnObject(self)}
  BY FreshDelivers
<1>2. Newest(doc') = revision
  BY <1>1, DeliveredDoc DEF Writes
<1>3. revision.self = self /\ written = (dirty \union fresh) \union {OwnObject(self)}
  BY <1>1, <1>2
<1>4. fresh # {} /\ \A x \in dirty \union fresh : ScansWhole(x.body)
  <2>1. Newest(doc).kind = "Stream"
    BY <1>1, <1>2 DEF Writes, Delivered, Lists
  <2> QED
    BY <2>1 DEF WriteWithFresh
<1>5. /\ self \in Nat
      /\ \A x \in dirty \union fresh : \A t \in x.body.refs : t \in Nat /\ t < self
  BY <1>4, SelfIsAbove
<1>6. floor < self
  BY <1>1, <1>2, <1>3
<1>7. self \notin TrailerReferences(Newest(doc))
  <2>1. \A n \in TrailerReferences(Newest(doc)) : n + 1 <= floor
    BY <1>1, FloorIsAbove DEF OccupiedNumbers, WriteWithFresh
  <2> QED
    BY <1>1, <1>5, <1>6, <2>1
<1> SUFFICES ASSUME NEW n \in DOMAIN revision.bodies, self \in revision.bodies[n].refs
             PROVE  FALSE
  BY <1>2, <1>3
<1>8. PICK x \in written : self \in x.body.refs
  BY <1>1, ListedObject DEF Writes, Delivered
<1>9. CASE x \in dirty \union fresh
  BY <1>5, <1>8, <1>9
<1>10. CASE x = OwnObject(self)
  BY <1>7, <1>8, <1>10 DEF OwnObject, TrailerReferences
<1> QED
  BY <1>3, <1>8, <1>9, <1>10

(* Nor does a fresh write ever place its xref stream where a body written   *)
(* with it points.                                                          *)
THEOREM FreshSelfNeverReferenced == Spec => SelfIsUnreferenced
<1>1. ASSUME DocInv, [Next]_vars
      PROVE  [Appended /\ call'.kind = "fresh" /\ Newest(doc').kind = "Stream" =>
                 \A n \in DOMAIN Newest(doc').bodies :
                    Newest(doc').self \notin Newest(doc').bodies[n].refs]_vars
  <2>1. CASE \E count \in Counts : Reserve(count)
    BY <2>1 DEF Reserve
  <2>2. CASE \E dirty \in DirtyRequests : Write(dirty)
    BY <2>2 DEF Write
  <2>3. CASE \E dirty \in DirtyRequests, fresh \in FreshRequests : WriteWithFresh(dirty, fresh)
    BY <1>1, <2>3, FreshSelfIsUnreferenced
  <2>4. CASE UNCHANGED vars
    BY <2>4
  <2> QED
    BY <1>1, <2>1, <2>2, <2>3, <2>4 DEF Next
<1> QED
  BY <1>1, InitDoc, NextDoc, PTL DEF Spec, SelfIsUnreferenced

----------------------------------------------------------------------------
(* The refinement of ObjectStore.                                           *)

(* An object the revision does not list reads as it did, a dangling one     *)
(* whose offset now lies inside the file included.                          *)
LEMMA ObjectKept ==
    ASSUME DocInv, NEW revision, NEW written, Delivered(revision, written),
           NEW n \in DOMAIN map, n \notin NumbersOf(written)
    PROVE  /\ n \in DOMAIN map'
           /\ StoredObject(doc', map', n) = StoredObject(doc, map, n)
<1> DEFINE e == map[n]
<1>1. n \in DOMAIN map' /\ map'[n] = e
  BY MapAfter
<1>2. /\ \A o \in DOMAIN doc : o \in DOMAIN doc' /\ doc'[o] = doc[o]
      /\ \A o \in DOMAIN doc' : o \in DOMAIN doc \/ o = Len(doc) + 1
      /\ doc'[Len(doc) + 1] = revision
  BY DeliveredDoc DEF Newest
<1>3. n \notin DOMAIN revision.bodies
  BY ListedObject DEF Delivered
<1> HIDE DEF e
<1>4. HeaderMatches(doc', n, e) <=> HeaderMatches(doc, n, e)
  BY <1>2, <1>3 DEF HeaderMatches
<1>5. OffsetResolution(doc', map', n, e.gen) = OffsetResolution(doc, map, n, e.gen)
  BY <1>1, <1>4 DEF OffsetResolution, e
<1>6. OffsetResolution(doc, map, n, e.gen) = "Ok" => BodyOf(doc', map', n) = BodyOf(doc, map, n)
  BY <1>1, <1>2 DEF OffsetResolution, HeaderMatches, BodyOf, e
<1>7. CASE e.type = "compressed"
  BY <1>1, <1>7 DEF StoredObject, e
<1>8. CASE e.type # "compressed" /\ OffsetResolution(doc, map, n, e.gen) # "Ok"
  BY <1>1, <1>5, <1>8 DEF StoredObject, e
<1>9. CASE e.type # "compressed" /\ OffsetResolution(doc, map, n, e.gen) = "Ok"
  BY <1>1, <1>5, <1>6, <1>9 DEF StoredObject, e
<1> QED
  BY <1>1, <1>7, <1>8, <1>9

(* A stored object that resolves is in use.                                 *)
LEMMA ResolvedIsObject ==
    ASSUME NEW d, NEW eff, NEW n, NEW g, OffsetResolution(d, eff, n, g) = "Ok"
    PROVE  /\ n \in DOMAIN eff /\ eff[n].gen = g
           /\ eff[n].type \notin {"free", "compressed", "reserved"}
           /\ StoredObject(d, eff, n) =
                 [kind |-> "object", gen |-> g,
                  refs |-> BodyOf(d, eff, n).refs, members |-> BodyOf(d, eff, n).members]
           /\ StoredObject(d, eff, n).kind = "object"
           /\ StoredObject(d, eff, n).gen = g
<1>1. /\ n \in DOMAIN eff /\ eff[n].gen = g
      /\ eff[n].type \notin {"free", "compressed", "reserved"}
  BY DEF OffsetResolution
<1>2. StoredObject(d, eff, n) =
         [kind |-> "object", gen |-> g,
          refs |-> BodyOf(d, eff, n).refs, members |-> BodyOf(d, eff, n).members]
  BY <1>1 DEF StoredObject
<1> QED
  BY <1>1, <1>2

(* An object the revision lists becomes readable with its new body; it was  *)
(* readable at the same generation, or it is new and of generation zero.    *)
LEMMA ObjectWritten ==
    ASSUME DocInv, NEW revision, NEW written, Delivered(revision, written),
           NEW n \in NumbersOf(written)
    PROVE  /\ n \in DOMAIN map'
           /\ StoredObject(doc', map', n).kind = "object"
           /\ n \in DOMAIN map =>
                 /\ StoredObject(doc, map, n).kind = "object"
                 /\ StoredObject(doc', map', n).gen = StoredObject(doc, map, n).gen
           /\ n \notin DOMAIN map => StoredObject(doc', map', n).gen = 0
<1>1. PICK x \in written : /\ x.num = n
                           /\ revision.map[n] = WrittenEntry(x)
                           /\ revision.bodies[n] = WrittenBody(x)
                           /\ WrittenBody(x).gen = x.gen
  BY ListedObject DEF Delivered
<1>2. n \in DOMAIN map' /\ map'[n] = WrittenEntry(x)
  BY <1>1, MapAfter
<1>3. /\ map'[n].type = "inuse" /\ map'[n].gen = x.gen /\ map'[n].at = Len(doc) + 1
  BY <1>2 DEF WrittenEntry
<1>4. /\ doc'[Len(doc) + 1] = revision /\ Len(doc) + 1 \in DOMAIN doc'
  <2>1. doc' = Append(doc, revision)
    BY DEF Delivered, Deliver
  <2> QED
    BY <2>1, KnownDocument
<1>5. n \in DOMAIN revision.bodies
  BY ListedObject DEF Delivered
<1>6. HeaderMatches(doc', n, map'[n])
  BY <1>1, <1>3, <1>4, <1>5 DEF HeaderMatches
<1>7. OffsetResolution(doc', map', n, x.gen) = "Ok"
  BY <1>2, <1>3, <1>6 DEF OffsetResolution
<1>8. StoredObject(doc', map', n).kind = "object" /\ StoredObject(doc', map', n).gen = x.gen
  BY <1>7, ResolvedIsObject
<1>9. IF n \in DOMAIN map THEN OffsetResolution(doc, map, n, x.gen) = "Ok" ELSE x.gen = 0
  BY <1>1 DEF Delivered
<1> QED
  BY <1>2, <1>8, <1>9, ResolvedIsObject

Objects == [n \in DOMAIN map |-> StoredObject(doc, map, n)]

(* Delivering a revision replaces objects of the store.                     *)
LEMMA DeliveryReplaces ==
    ASSUME DocInv, NEW revision, NEW written, Writes(revision, written)
    PROVE  /\ Store!Replace
           /\ \A n \in Store!Added : n \in NumbersOf(written) /\ n \notin DOMAIN map
           /\ call'.fresh \subseteq Store!Added
<1>1. Delivered(revision, written)
  BY DEF Writes
<1>2. \A n : n \in DOMAIN map' <=> n \in DOMAIN map \/ n \in NumbersOf(written)
  BY <1>1, MapAfter
<1>3. /\ DOMAIN Objects = DOMAIN map /\ DOMAIN Objects' = DOMAIN map'
      /\ \A n \in DOMAIN map : Objects[n] = StoredObject(doc, map, n)
      /\ \A n \in DOMAIN map' : Objects'[n] = StoredObject(doc', map', n)
  BY DEF Objects
<1>4. DOMAIN Objects \subseteq DOMAIN Objects'
  BY <1>2, <1>3
<1>5. ASSUME NEW n \in DOMAIN Objects, Objects'[n] # Objects[n]
      PROVE  /\ n \in call'.given
             /\ Objects[n].kind = "object"
             /\ Objects'[n].kind = "object"
             /\ Objects'[n].gen = Objects[n].gen
  <2>1. n \in DOMAIN map /\ n \in DOMAIN map'
    BY <1>3, <1>4
  <2>2. StoredObject(doc', map', n) # StoredObject(doc, map, n)
    BY <1>3, <1>5, <2>1
  <2>3. n \in NumbersOf(written)
    BY <1>1, <2>1, <2>2, ObjectKept
  <2>4. n \in call'.given
    BY <2>1, <2>3 DEF Writes
  <2>5. /\ StoredObject(doc, map, n).kind = "object"
        /\ StoredObject(doc', map', n).kind = "object"
        /\ StoredObject(doc', map', n).gen = StoredObject(doc, map, n).gen
    BY <1>1, <2>1, <2>3, ObjectWritten
  <2> QED
    BY <1>3, <2>1, <2>4, <2>5
<1>6. ASSUME NEW n \in DOMAIN Objects' \ DOMAIN Objects
      PROVE  /\ Objects'[n].kind = "object" /\ Objects'[n].gen = 0
             /\ n \in NumbersOf(written) /\ n \notin DOMAIN map
             /\ n \in call'.fresh \/ n = revision.self
  <2>1. n \in DOMAIN map' /\ n \notin DOMAIN map /\ n \in NumbersOf(written)
    BY <1>2, <1>3
  <2>2. StoredObject(doc', map', n).kind = "object" /\ StoredObject(doc', map', n).gen = 0
    BY <1>1, <2>1, ObjectWritten
  <2> QED
    BY <1>3, <2>1, <2>2 DEF Writes
<1>7. \A m, n \in (DOMAIN Objects' \ DOMAIN Objects) \ call'.fresh : m = n
  BY <1>6
<1>8. TrailerReferences(Newest(doc')) \subseteq TrailerReferences(Newest(doc))
  BY <1>1, DeliveredDoc DEF Delivered, Lists, TrailerReferences
<1>9. call'.given \subseteq DOMAIN Objects /\ call'.fresh \subseteq DOMAIN Objects' \ DOMAIN Objects
  BY <1>2, <1>3 DEF Writes
<1>10. Store!Replace
  BY <1>4, <1>5, <1>6, <1>7, <1>8, <1>9
     DEF Store!Replace, Store!Private, Store!Added, Store!Live, Objects
<1>11. \A n \in Store!Added : n \in NumbersOf(written) /\ n \notin DOMAIN map
  BY <1>6 DEF Store!Added, Objects
<1> QED
  BY <1>9, <1>10, <1>11 DEF Store!Added, Objects

(* When every live object resolves, what the store mentions is occupied.    *)
LEMMA MentionedIsOccupied ==
    ASSUME DocInv, FloorFailure(doc, map) = "Ok"
    PROVE  Store!Mentioned \subseteq OccupiedNumbers(doc, chain, map)
<1>1. /\ DOMAIN Objects = DOMAIN map
      /\ \A n \in DOMAIN map : Objects[n] = StoredObject(doc, map, n)
  BY DEF Objects
<1>2. ASSUME NEW n \in DOMAIN map, Objects[n].kind = "object"
      PROVE  /\ map[n].type = "inuse"
             /\ Objects[n].refs = BodyOf(doc, map, n).refs
             /\ Objects[n].members = BodyOf(doc, map, n).members
  <2>1. map[n].type \in {"inuse", "free", "compressed", "reserved"}
    BY KnownDocument DEF IsEntry
  <2>2. map[n].type # "compressed" /\ OffsetResolution(doc, map, n, map[n].gen) = "Ok"
    <3>1. CASE map[n].type = "compressed"
      BY <1>1, <1>2, <3>1 DEF StoredObject
    <3>2. CASE map[n].type # "compressed" /\ OffsetResolution(doc, map, n, map[n].gen) # "Ok"
      BY <1>1, <1>2, <2>1, <3>2 DEF StoredObject
    <3> QED
      BY <3>1, <3>2
  <2> QED
    BY <1>1, <2>1, <2>2, ResolvedIsObject
<1>3. ASSUME NEW n \in DOMAIN map, Objects[n].kind = "member"
      PROVE  map[n].type = "compressed" /\ Objects[n].of = map[n].at
  <2>1. map[n].type \in {"inuse", "free", "compressed", "reserved"}
    BY KnownDocument DEF IsEntry
  <2>2. CASE map[n].type = "compressed"
    BY <1>1, <2>2 DEF StoredObject
  <2>3. CASE map[n].type # "compressed"
    BY <1>1, <1>3, <2>1, <2>3 DEF StoredObject
  <2> QED
    BY <2>2, <2>3
<1>4. ASSUME NEW n \in DOMAIN map, NEW t \in Store!Targets(n)
      PROVE  n \in LiveEntries(map) /\ t \in ReferencesOf(doc, map, n)
  <2>1. CASE Objects[n].kind = "object"
    <3>1. t \in Objects[n].refs
      BY <1>4, <2>1 DEF Store!Targets, Objects
    <3> QED
      BY <1>2, <2>1, <3>1 DEF LiveEntries, ReferencesOf, ScannedAt
  <2>2. CASE Objects[n].kind = "member"
    <3>1. /\ Objects[n].of \in DOMAIN Objects /\ Objects[Objects[n].of].kind = "object"
          /\ t \in Objects[Objects[n].of].members[n].refs
      BY <1>4, <2>2 DEF Store!Targets, Store!Live, Objects
    <3>2. map[n].type = "compressed" /\ Objects[n].of = map[n].at
      BY <1>3, <2>2
    <3>3. /\ map[n].at \in DOMAIN map
          /\ Objects[map[n].at].members = BodyOf(doc, map, map[n].at).members
      BY <1>1, <1>2, <3>1, <3>2
    <3> QED
      BY <3>1, <3>2, <3>3 DEF LiveEntries, ReferencesOf, ScannedAt
  <2>3. CASE Objects[n].kind \notin {"object", "member"}
    BY <1>4, <2>3 DEF Store!Targets, Objects
  <2> QED
    BY <2>1, <2>2, <2>3
<1>5. ASSUME NEW t \in Store!Mentioned PROVE t \in OccupiedNumbers(doc, chain, map)
  <2>1. CASE t \in TrailerReferences(Newest(doc))
    BY <2>1 DEF OccupiedNumbers
  <2>2. CASE \E n \in DOMAIN map : t \in Store!Targets(n)
    BY <1>4, <2>2 DEF OccupiedNumbers
  <2> QED
    BY <1>5, <2>1, <2>2 DEF Store!Mentioned
<1> QED
  BY <1>5

(* Appending revisions implements the object store: every session of the    *)
(* writer is one of the store, for every document, request and limit.       *)
THEOREM WriterImplementsStore == Spec => ImplementsObjectStore
<1>1. ASSUME DocInv, [Next]_vars PROVE [Store!Next]_(Store!vars)
  <2>1. ASSUME NEW count \in Counts, Reserve(count) PROVE Store!Rewrite
    <3>1. UNCHANGED <<doc, chain, map>> /\ call'.given = {} /\ call'.fresh = {}
      BY <2>1 DEF Reserve
    <3>2. Objects' = Objects
      BY <3>1 DEF Objects
    <3>3. TrailerReferences(Newest(doc')) = TrailerReferences(Newest(doc))
      BY <3>1
    <3> QED
      BY <3>1, <3>2, <3>3
         DEF Store!Rewrite, Store!Replace, Store!Private, Store!Added, Store!Live, Objects
  <2>2. ASSUME NEW dirty \in DirtyRequests, Write(dirty) PROVE Store!Rewrite
    <3>1. Store!Replace
      BY <1>1, <2>2, WriteDelivers, DeliveryReplaces
    <3>2. call'.fresh = {}
      BY <2>2 DEF Write
    <3> QED
      BY <3>1, <3>2 DEF Store!Rewrite
  <2>3. ASSUME NEW dirty \in DirtyRequests, NEW fresh \in FreshRequests, WriteWithFresh(dirty, fresh)
        PROVE  Store!Create
    <3>1. PICK revision, written, floor :
             /\ Writes(revision, written)
             /\ floor \in Floors /\ floor \in Nat
             /\ \A n \in NumbersOf(written) : n \in DOMAIN map \/ (n \in Nat /\ floor <= n)
      BY <1>1, <2>3, FreshDelivers
    <3>2. /\ Store!Replace /\ call'.fresh \subseteq Store!Added
          /\ \A n \in Store!Added : n \in Nat /\ floor <= n
      BY <1>1, <3>1, DeliveryReplaces
    <3>3. Store!Mentioned \subseteq OccupiedNumbers(doc, chain, map)
      BY <1>1, <2>3, MentionedIsOccupied DEF WriteWithFresh
    <3>4. Store!Added \intersect Store!Mentioned = {}
      <4> SUFFICES ASSUME NEW n \in Store!Added, n \in Store!Mentioned PROVE FALSE
        OBVIOUS
      <4>1. n \in Nat /\ floor \in Nat /\ floor <= n /\ n + 1 <= floor
        BY <1>1, <2>3, <3>1, <3>2, <3>3, FloorIsAbove DEF WriteWithFresh
      <4> QED
        BY <4>1
    <3>5. call'.fresh # {}
      BY <2>3 DEF WriteWithFresh, NumbersOf
    <3> QED
      BY <3>2, <3>4, <3>5 DEF Store!Create
  <2>4. CASE UNCHANGED vars
    BY <2>4 DEF vars, Store!vars
  <2> QED
    BY <1>1, <2>1, <2>2, <2>3, <2>4 DEF Next, Store!Next
<1>2. Store!Init
  BY DEF Store!Init
<1> QED
  BY <1>1, <1>2, InitDoc, NextDoc, PTL DEF Spec, ImplementsObjectStore, Store!Spec
=============================================================================
