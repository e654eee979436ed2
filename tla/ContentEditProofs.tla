-------------------------- MODULE ContentEditProofs --------------------------
(***************************************************************************)
(* Proofs about the page-content edit pipeline of ContentEdit, for every    *)
(* set of documents and requests: what its one revision rewrites is reached *)
(* by the selected page and by nobody else, and the report names every      *)
(* stream of a planned page once.                                           *)
(***************************************************************************)
EXTENDS ContentEdit, ConsumerIndexProofs

(* Two users with the same seeds and the same rules reach the same.         *)
LEMMA SameRulesSameReach ==
    ASSUME IsFile(file), NEW u, NEW v, IsUser(u), IsUser(v), NEW w \in BOOLEAN, NEW z \in BOOLEAN,
           u.seeds = v.seeds, u.own = v.own,
           \A x : EdgesFor(u, x, w) = EdgesFor(v, x, z)
    PROVE  ReachOf(u, w) \subseteq ReachOf(v, z)
<1>1. PICK L : /\ IsLevels(L, v, z)
               /\ ReachOf(v, z) = L[Horizon] \intersect DOMAIN file.objects
  BY ReachIsLastLevel
<1>2. IsClosed(L[Horizon], v, z)
  BY <1>1, LastLevelIsClosed
<1>3. \A x : EndsAt(u, x) <=> EndsAt(v, x)
  BY DEF EndsAt
<1>4. IsClosed(L[Horizon], u, w)
  BY <1>2, <1>3 DEF IsClosed
<1>5. Followed(u.seeds) \subseteq L[Horizon]
  <2>1. /\ Horizon \in Nat /\ L[0] = Followed(v.seeds)
    BY <1>1, LevelByLevel
  <2>2. 0 \in 0 .. Horizon /\ Horizon \in 0 .. Horizon /\ 0 <= Horizon
    BY <2>1
  <2> QED
    BY <1>1, <2>1, <2>2, LevelsGrow
<1>6. ReachOf(u, w) \subseteq L[Horizon]
  BY <1>4, <1>5, ReachIsLeast
<1>7. ReachOf(u, w) \subseteq DOMAIN file.objects
  BY ReachIsClosed
<1> QED
  BY <1>1, <1>6, <1>7

(* The user of a page.                                                      *)
LEMMA PageUser ==
    ASSUME IsFile(file), NEW i \in DOMAIN file.pages
    PROVE  /\ PageUsers[i].id = <<"Page", i>> /\ PageUsers[i].tree = FALSE
           /\ PageUsers[i].own = {Number(file.pages[i])}
           /\ PageUsers[i].seeds = [key |-> "", refs |-> <<file.pages[i]>>, lost |-> <<>>]
           /\ PageUsers[i] \in ToSet(PageUsers) /\ IsUser(PageUsers[i])
           /\ \E j \in DOMAIN TrueUsers : TrueUsers[j] = PageUsers[i]
<1> DEFINE id == <<"Page", i>>
           own == {Number(file.pages[i])}
           seeds == [key |-> "", refs |-> <<file.pages[i]>>, lost |-> <<>>]
<1>1. PageUsers[i] = [id |-> id, seeds |-> seeds, own |-> own, tree |-> FALSE]
  BY DEF PageUsers
<1>2. /\ PageUsers[i].id = id /\ PageUsers[i].tree = FALSE
      /\ PageUsers[i].own = own /\ PageUsers[i].seeds = seeds
  <2> HIDE DEF id, own, seeds
  <2> QED
    BY <1>1
<1> HIDE DEF seeds
<1>3. PageUsers[i] \in ToSet(PageUsers)
  BY DEF PageUsers, ToSet
<1>4. IsUser(PageUsers[i])
  BY <1>3, PagesAreUsers
<1>5. \E j \in DOMAIN TrueUsers : TrueUsers[j] = PageUsers[i]
  BY <1>3, UsersAreTrue DEF ToSet
<1> QED
  BY <1>2, <1>3, <1>4, <1>5 DEF seeds

(* A page that is listed twice reaches the same under both its indices, and *)
(* its /Parent is never followed.                                           *)
LEMMA SamePageSameReach ==
    ASSUME IsFile(file), NEW i \in DOMAIN file.pages, NEW j \in DOMAIN file.pages,
           file.pages[i] = file.pages[j], NEW w \in BOOLEAN, NEW z \in BOOLEAN
    PROVE  ReachOf(PageUsers[i], w) \subseteq ReachOf(PageUsers[j], z)
<1> DEFINE u == PageUsers[i]
           v == PageUsers[j]
<1>1. /\ IsUser(u) /\ IsUser(v) /\ u.tree = FALSE /\ v.tree = FALSE
      /\ u.own = v.own /\ u.seeds = v.seeds
  BY PageUser
<1> HIDE DEF u, v
<1>2. \A x : EdgesFor(u, x, w) = EdgesFor(v, x, z)
  BY <1>1 DEF EdgesFor
<1> QED
  BY <1>1, <1>2, SameRulesSameReach DEF u, v

(* Where the gate opens, the page is the only one to reach the object.      *)
LEMMA GateIsExact ==
    ASSUME IndexInv, done, NEW r, InPlace(r), NEW page \in DOMAIN file.contents,
           file.contents[page].inspected, r \in ToSet(file.contents[page].refs)
    PROVE  TrueReferrers(r) = {<<"Page", page>>}
<1>1. IsFile(file) /\ DOMAIN file.contents = DOMAIN file.pages
      /\ Len(file.pages) \in Nat /\ DOMAIN file.pages = 1 .. Len(file.pages)
  BY FilesAssumption, ContentsAssumption DEF IndexInv, IndexTypeOK, IsFile
<1>2. PICK owner \in DirectOwners(r) : /\ DirectOwners(r) = {owner}
                                       /\ Referrers(r) = {<<"Page", LastIndex(owner)>>}
  BY DEF InPlace
<1>3. file.pages[page] = owner
  BY <1>2 DEF DirectOwners
<1> DEFINE last == LastIndex(owner)
<1>4. last \in DOMAIN file.pages /\ file.pages[last] = owner
  <2> DEFINE indices == {i \in DOMAIN file.pages : file.pages[i] = owner}
  <2>1. indices \subseteq 0 .. Len(file.pages) /\ indices # {}
    BY <1>1, <1>3
  <2>2. PICK i \in indices : \A j \in indices : j <= i
    <3> HIDE DEF indices
    <3> QED
      BY <1>1, <2>1, GreatestExists
  <2> QED
    BY <2>2 DEF LastIndex
<1> HIDE DEF last
<1>5. facts = {}
  BY DEF InPlace
<1>6. TrueReferrers(r) \subseteq {<<"Page", last>>}
  <2> SUFFICES ASSUME NEW j \in DOMAIN TrueUsers, r \in ReachOf(TrueUsers[j], FALSE)
               PROVE  TrueUsers[j].id \in Referrers(r)
    BY <1>2 DEF TrueReferrers, last
  <2>1. <<r, TrueUsers[j].id>> \in consumers
    BY <1>5, IndexInvSaysAll DEF NothingMissingSilently
  <2> DEFINE pair == <<r, TrueUsers[j].id>>
  <2>2. pair[1] = r /\ pair[2] = TrueUsers[j].id /\ pair \in consumers
    BY <2>1
  <2> HIDE DEF pair
  <2> QED
    BY <2>2 DEF Referrers
<1>7. r \in ReachOf(PageUsers[last], TRUE)
  <2>1. PICK pair \in consumers : pair[1] = r /\ pair[2] = <<"Page", last>>
    BY <1>2 DEF Referrers, last
  <2>2. pair[2] # RootUser.id
    BY <2>1 DEF RootUser
  <2>3. PICK i \in DOMAIN TrueUsers : /\ TrueUsers[i].id = <<"Page", last>>
                                      /\ r \in ReachOf(TrueUsers[i], TRUE)
    BY <2>1, <2>2, IndexInvSaysAll DEF ListedIsReached
  <2>4. IsUser(TrueUsers[i])
    BY <1>1, UsersAreTrue DEF ToSet
  <2>5. TrueUsers[i] = PageUsers[last]
    BY <2>3, <2>4 DEF IsUser
  <2> QED
    BY <2>3, <2>5
<1>8. r \in ReachOf(PageUsers[page], FALSE)
  BY <1>1, <1>3, <1>4, <1>7, SamePageSameReach
<1>9. <<"Page", page>> \in TrueReferrers(r)
  <2>1. PICK j \in DOMAIN TrueUsers : TrueUsers[j] = PageUsers[page]
    BY <1>1, PageUser
  <2>2. TrueUsers[j].id = <<"Page", page>> /\ r \in ReachOf(TrueUsers[j], FALSE)
    BY <1>1, <1>8, <2>1, PageUser
  <2> QED
    BY <2>2 DEF TrueReferrers
<1> QED
  BY <1>6, <1>9

----------------------------------------------------------------------------
(* Counting in sequences.                                                   *)

(* How often a sequence has an element of a set.                            *)
Hits(s, M) == {i \in DOMAIN s : s[i] \in M}
Count(s, M) == Cardinality(Hits(s, M))

(* A count is a natural number, and zero exactly when nothing is hit.       *)
LEMMA CountType ==
    ASSUME NEW s, Len(s) \in Nat, DOMAIN s = 1 .. Len(s), NEW M
    PROVE  /\ IsFiniteSet(Hits(s, M)) /\ Count(s, M) \in Nat
           /\ (\A i \in DOMAIN s : s[i] \notin M) => Count(s, M) = 0
           /\ Count(s, M) = 0 => \A i \in DOMAIN s : s[i] \notin M
<1>1. IsFiniteSet(1 .. Len(s))
  BY FS_Interval
<1>2. IsFiniteSet(Hits(s, M))
  BY <1>1, FS_Subset DEF Hits
<1>3. Count(s, M) \in Nat
  BY <1>2, FS_CardinalityType DEF Count
<1>4. Count(s, M) = 0 <=> Hits(s, M) = {}
  BY <1>2, FS_EmptySet DEF Count
<1> QED
  BY <1>2, <1>3, <1>4 DEF Hits

(* Equal hits, equal counts; fewer hits, smaller counts.                    *)
LEMMA CountMonotone ==
    ASSUME NEW s, Len(s) \in Nat, DOMAIN s = 1 .. Len(s), NEW M, NEW N,
           \A i \in DOMAIN s : s[i] \in M => s[i] \in N
    PROVE  Count(s, M) <= Count(s, N)
<1>1. IsFiniteSet(Hits(s, N))
  BY CountType
<1>2. Hits(s, M) \in SUBSET Hits(s, N)
  BY DEF Hits
<1> QED
  BY <1>1, <1>2, FS_Subset DEF Count

(* The counts of two sequences add up.                                      *)
LEMMA CountConcat ==
    ASSUME NEW S, NEW s \in Seq(S), NEW t \in Seq(S), NEW M
    PROVE  Count(s \o t, M) = Count(s, M) + Count(t, M)
<1> DEFINE m == Len(s)
           n == Len(t)
           moved == {i \in (m + 1) .. (m + n) : t[i - m] \in M}
           shift == [i \in Hits(t, M) |-> i + m]
<1>1. /\ m \in Nat /\ n \in Nat /\ DOMAIN s = 1 .. m /\ DOMAIN t = 1 .. n
      /\ DOMAIN (s \o t) = 1 .. (m + n)
      /\ \A i \in 1 .. m : (s \o t)[i] = s[i]
      /\ \A i \in (m + 1) .. (m + n) : (s \o t)[i] = t[i - m]
  OBVIOUS
<1> HIDE DEF m, n
<1>2. /\ IsFiniteSet(Hits(s, M)) /\ IsFiniteSet(Hits(t, M))
      /\ Count(s, M) \in Nat /\ Count(t, M) \in Nat
  BY <1>1, CountType DEF m, n
<1>3. Hits(s \o t, M) = Hits(s, M) \union moved
  <2>1. 1 .. (m + n) = (1 .. m) \union ((m + 1) .. (m + n))
    BY <1>1
  <2>2. \A i : i \in Hits(s \o t, M) <=> i \in Hits(s, M) \/ i \in moved
    BY <1>1, <2>1 DEF Hits
  <2> QED
    BY <2>2
<1>4. Hits(s, M) \intersect moved = {}
  BY <1>1 DEF Hits
<1>5. shift \in Bijection(Hits(t, M), moved)
  <2>1. shift \in [Hits(t, M) -> moved]
    BY <1>1 DEF Hits
  <2>2. \A i, j \in Hits(t, M) : shift[i] = shift[j] => i = j
    BY <1>1 DEF Hits
  <2>3. \A i \in moved : i - m \in Hits(t, M) /\ shift[i - m] = i
    BY <1>1 DEF Hits
  <2> HIDE DEF shift
  <2> QED
    BY <2>1, <2>2, <2>3 DEF Bijection, Injection, Surjection, IsInjective
<1>6. IsFiniteSet(moved) /\ Cardinality(moved) = Count(t, M)
  BY <1>2, <1>5, FS_Bijection DEF Count, ExistsBijection
<1> HIDE DEF moved
<1>7. Cardinality(Hits(s, M) \union moved)
        = Cardinality(Hits(s, M)) + Cardinality(moved) - Cardinality(Hits(s, M) \intersect moved)
  BY <1>2, <1>6, FS_Union
<1>8. Cardinality(Hits(s, M) \intersect moved) = 0
  BY <1>4, FS_EmptySet
<1>9. Count(s \o t, M) = Count(s, M) + Count(t, M) - 0
  BY <1>3, <1>6, <1>7, <1>8 DEF Count
<1> QED
  BY <1>2, <1>9

(* One element is hit or not.                                               *)
LEMMA CountOne ==
    ASSUME NEW x, NEW M
    PROVE  Count(<<x>>, M) = IF x \in M THEN 1 ELSE 0
<1>1. Hits(<<x>>, M) = IF x \in M THEN {1} ELSE {}
  BY DEF Hits
<1> QED
  BY <1>1, FS_Singleton, FS_EmptySet DEF Count

(* Taking the head of one list and adding an element to another.            *)
LEMMA CountTail ==
    ASSUME NEW S, NEW s \in Seq(S), s # <<>>, NEW M
    PROVE  /\ Head(s) \in S /\ Tail(s) \in Seq(S)
           /\ Count(s, M) = Count(Tail(s), M) + (IF Head(s) \in M THEN 1 ELSE 0)
<1>1. Head(s) \in S /\ Tail(s) \in Seq(S) /\ s = <<Head(s)>> \o Tail(s)
  OBVIOUS
<1> DEFINE h == Head(s)
           t == Tail(s)
<1>2. <<h>> \in Seq(S)
  BY <1>1
<1>3. Len(t) \in Nat /\ DOMAIN t = 1 .. Len(t) /\ s = <<h>> \o t
  BY <1>1
<1> HIDE DEF h, t
<1>4. Count(<<h>> \o t, M) = Count(<<h>>, M) + Count(t, M)
  BY <1>1, <1>2, CountConcat DEF t
<1>5. Count(t, M) \in Nat
  BY <1>3, CountType
<1>6. Count(<<h>>, M) = IF h \in M THEN 1 ELSE 0
  BY CountOne
<1>7. Count(s, M) = Count(t, M) + (IF h \in M THEN 1 ELSE 0)
  BY <1>3, <1>4, <1>5, <1>6
<1> QED
  BY <1>1, <1>7 DEF h, t

(* An appended element is counted once.                                     *)
LEMMA CountAppend ==
    ASSUME NEW S, NEW s \in Seq(S), NEW x \in S, NEW M
    PROVE  /\ Append(s, x) \in Seq(S)
           /\ Count(Append(s, x), M) = Count(s, M) + (IF x \in M THEN 1 ELSE 0)
<1>1. Append(s, x) = s \o <<x>> /\ <<x>> \in Seq(S) /\ Append(s, x) \in Seq(S)
  OBVIOUS
<1>2. Count(s \o <<x>>, M) = Count(s, M) + Count(<<x>>, M)
  BY <1>1, CountConcat
<1> QED
  BY <1>1, <1>2, CountOne

(* The count of a flattened list, given the running sums of the counts.     *)
LEMMA CountFlatten ==
    ASSUME NEW S, NEW seqs \in Seq(Seq(S)), NEW M, NEW c, c[0] = 0,
           \A i \in 1 .. Len(seqs) : c[i] = c[i - 1] + Count(seqs[i], M)
    PROVE  Count(FlattenSeq(seqs), M) = c[Len(seqs)]
<1> DEFINE n == Len(seqs)
<1>1. PICK F : IsPrefixes(F, seqs, S)
  BY FlattenPrefixes
<1>2. /\ n \in Nat /\ F[0] = <<>> /\ F[n] = FlattenSeq(seqs) /\ \A i \in 0 .. n : F[i] \in Seq(S)
      /\ \A i \in 1 .. n : F[i] = F[i - 1] \o seqs[i] /\ seqs[i] \in Seq(S)
      /\ \A i \in 1 .. n : c[i] = c[i - 1] + Count(seqs[i], M)
  <2>1. n \in Nat /\ \A i \in 1 .. n : seqs[i] \in Seq(S)
    OBVIOUS
  <2> QED
    BY <1>1, <2>1 DEF IsPrefixes
<1> HIDE DEF n
<1> DEFINE wrong == {i \in 0 .. n : Count(F[i], M) # c[i]}
<1>3. wrong = {}
  <2> SUFFICES ASSUME wrong # {} PROVE FALSE
    OBVIOUS
  <2>1. wrong \subseteq Nat
    BY <1>2
  <2>2. PICK i \in wrong : \A k \in wrong : i <= k
    <3> HIDE DEF wrong
    <3> QED
      BY <2>1, LeastExists
  <2>3. i # 0
    <3>1. Count(<<>>, M) = 0
      <4>1. Hits(<<>>, M) = {}
        BY DEF Hits
      <4> QED
        BY <4>1, FS_EmptySet DEF Count
    <3> QED
      BY <1>2, <2>2, <3>1
  <2>4. i \in 1 .. n /\ i \in Nat /\ i - 1 \in 0 .. n /\ ~(i <= i - 1)
    BY <1>2, <2>2, <2>3
  <2>5. Count(F[i - 1], M) = c[i - 1]
    BY <2>2, <2>4
  <2>6. Count(F[i], M) = Count(F[i - 1], M) + Count(seqs[i], M)
    <3>1. F[i] = F[i - 1] \o seqs[i] /\ F[i - 1] \in Seq(S) /\ seqs[i] \in Seq(S)
      BY <1>2, <2>4
    <3> QED
      BY <3>1, CountConcat
  <2> QED
    BY <1>2, <2>2, <2>4, <2>5, <2>6
<1>4. n \in 0 .. n
  BY <1>2
<1> QED
  BY <1>2, <1>3, <1>4 DEF n

(* If only one of the lists has hits, its hits are all there are.           *)
LEMMA CountFlattenOne ==
    ASSUME NEW S, NEW seqs \in Seq(Seq(S)), NEW M, NEW j \in DOMAIN seqs,
           \A i \in DOMAIN seqs : i # j => Count(seqs[i], M) = 0
    PROVE  Count(FlattenSeq(seqs), M) = Count(seqs[j], M)
<1> DEFINE n == Len(seqs)
           amount == Count(seqs[j], M)
           c == [i \in 0 .. n |-> IF i < j THEN 0 ELSE amount]
<1>1. n \in Nat /\ DOMAIN seqs = 1 .. n /\ j \in 1 .. n /\ seqs[j] \in Seq(S)
  OBVIOUS
<1>2. amount \in Nat
  <2>1. Len(seqs[j]) \in Nat /\ DOMAIN seqs[j] = 1 .. Len(seqs[j])
    BY <1>1
  <2> QED
    BY <2>1, CountType
<1> HIDE DEF amount
<1>3. \A i \in 1 .. n : Count(seqs[i], M) = IF i = j THEN amount ELSE 0
  BY <1>1 DEF amount
<1> HIDE DEF n
<1>4. c[0] = 0 /\ c[n] = amount
  BY <1>1
<1>5. ASSUME NEW i \in 1 .. n PROVE c[i] = c[i - 1] + Count(seqs[i], M)
  <2>1. i \in 0 .. n /\ i - 1 \in 0 .. n
    BY <1>1
  <2>2. c[i] = (IF i < j THEN 0 ELSE amount) /\ c[i - 1] = IF i - 1 < j THEN 0 ELSE amount
    BY <2>1
  <2> HIDE DEF c
  <2>3. CASE i = j
    BY <1>1, <1>2, <1>3, <2>2, <2>3
  <2>4. CASE i # j
    BY <1>1, <1>2, <1>3, <2>2, <2>4
  <2> QED
    BY <2>3, <2>4
<1> HIDE DEF c
<1> QED
  BY <1>4, <1>5, CountFlatten DEF n, amount

(* What is kept is counted as often as before.                              *)
LEMMA CountKeeping ==
    ASSUME NEW s, Len(s) \in Nat, DOMAIN s = 1 .. Len(s), NEW kept, NEW M
    PROVE  Count(Keeping(s, kept), M) = Count(s, M \intersect kept)
<1> DEFINE n == Len(s)
           S == ToSet(s)
           N == M \intersect kept
           seqs == [i \in DOMAIN s |-> IF s[i] \in kept THEN <<s[i]>> ELSE <<>>]
           upTo(k) == Hits(s, N) \intersect (1 .. k)
           c == [k \in 0 .. n |-> Cardinality(upTo(k))]
<1>1. seqs \in Seq(Seq(S)) /\ Len(seqs) = n
  <2>1. \A i \in 1 .. n : s[i] \in S
    BY DEF ToSet
  <2> HIDE DEF S
  <2>2. \A i \in 1 .. n : <<s[i]>> \in Seq(S) /\ <<>> \in Seq(S)
    BY <2>1
  <2>3. \A i \in 1 .. n : (IF s[i] \in kept THEN <<s[i]>> ELSE <<>>) \in Seq(S)
    BY <2>2
  <2>4. seqs = [i \in 1 .. n |-> seqs[i]] /\ \A i \in 1 .. n : seqs[i] \in Seq(S)
    BY <2>3
  <2> HIDE DEF seqs
  <2> QED
    BY <2>4
<1>2. ASSUME NEW i \in 1 .. n PROVE Count(seqs[i], M) = IF s[i] \in N THEN 1 ELSE 0
  <2>1. CASE s[i] \in kept
    <3>1. seqs[i] = <<s[i]>>
      BY <2>1
    <3> HIDE DEF seqs
    <3> QED
      BY <2>1, <3>1, CountOne
  <2>2. CASE s[i] \notin kept
    <3>1. seqs[i] = <<>>
      BY <2>2
    <3>2. Hits(<<>>, M) = {}
      BY DEF Hits
    <3>3. Count(seqs[i], M) = 0
      BY <3>1, <3>2, FS_EmptySet DEF Count
    <3> HIDE DEF seqs
    <3> QED
      BY <2>2, <3>3
  <2> QED
    BY <2>1, <2>2
<1>3. Keeping(s, kept) = FlattenSeq(seqs)
  BY DEF Keeping
<1> HIDE DEF seqs
<1>4. \A k \in 0 .. n : IsFiniteSet(upTo(k)) /\ Cardinality(upTo(k)) \in Nat
  <2> TAKE k \in 0 .. n
  <2>1. IsFiniteSet(Hits(s, N))
    BY CountType
  <2>2. upTo(k) \in SUBSET Hits(s, N)
    OBVIOUS
  <2> QED
    BY <2>1, <2>2, FS_Subset, FS_CardinalityType
<1>5. c[0] = 0
  <2>1. upTo(0) = {}
    OBVIOUS
  <2> QED
    BY <2>1, FS_EmptySet
<1>6. ASSUME NEW i \in 1 .. n PROVE c[i] = c[i - 1] + Count(seqs[i], M)
  <2>1. i \in 0 .. n /\ i - 1 \in 0 .. n /\ i \notin upTo(i - 1) /\ i \in DOMAIN s
        /\ 1 .. i = (1 .. (i - 1)) \union {i}
    OBVIOUS
  <2>2. c[i] = Cardinality(upTo(i)) /\ c[i - 1] = Cardinality(upTo(i - 1))
    BY <2>1
  <2>3. IsFiniteSet(upTo(i - 1)) /\ Cardinality(upTo(i - 1)) \in Nat
    BY <1>4, <2>1
  <2>4. CASE s[i] \in N
    <3>1. upTo(i) = upTo(i - 1) \union {i}
      BY <2>1, <2>4 DEF Hits
    <3>2. Cardinality(upTo(i)) = Cardinality(upTo(i - 1)) + 1
      <4> HIDE DEF upTo
      <4> QED
        BY <2>1, <2>3, <3>1, FS_AddElement
    <3> QED
      BY <1>2, <2>2, <2>4, <3>2
  <2>5. CASE s[i] \notin N
    <3>1. upTo(i) = upTo(i - 1)
      BY <2>1, <2>5 DEF Hits
    <3> HIDE DEF upTo, N, c
    <3> QED
      BY <1>2, <2>2, <2>3, <2>5, <3>1
  <2> QED
    BY <2>4, <2>5
<1>7. c[n] = Count(s, N)
  <2>1. upTo(n) = Hits(s, N)
    BY DEF Hits
  <2>2. n \in 0 .. n
    OBVIOUS
  <2>3. c[n] = Cardinality(upTo(n))
    BY <2>2
  <2> HIDE DEF c, upTo
  <2> QED
    BY <2>1, <2>3 DEF Count
<1> HIDE DEF c, N
<1>8. Count(FlattenSeq(seqs), M) = c[n]
  BY <1>1, <1>5, <1>6, CountFlatten
<1> QED
  BY <1>3, <1>7, <1>8 DEF N

----------------------------------------------------------------------------
(* Two lemmas about the pipeline's lists.                                   *)
LEMMA PositionsKept ==
    ASSUME NEW refs \in Seq(References)
    PROVE  FirstOccurrences(refs) \in Seq(DOMAIN refs)
<1> DEFINE positions == [k \in DOMAIN refs |-> k]
           first == {k \in DOMAIN refs : \A j \in 1 .. (k - 1) : refs[j] # refs[k]}
<1>1. Len(refs) \in Nat /\ DOMAIN refs = 1 .. Len(refs)
  OBVIOUS
<1>2. DOMAIN positions = 1 .. Len(positions) /\ Len(positions) \in Nat
  BY <1>1
<1>3. ToSet(positions) \intersect first \subseteq DOMAIN refs
  BY DEF ToSet
<1>4. FirstOccurrences(refs) = Keeping(positions, first)
  BY DEF FirstOccurrences
<1> HIDE DEF positions, first
<1>5. FirstOccurrences(refs) \in Seq(ToSet(positions) \intersect first)
  BY <1>2, <1>4, KeepingElements
<1> QED
  BY <1>3, <1>5

(* A concatenation of sequences over a set is one over it.                  *)
LEMMA FlattenedStays ==
    ASSUME NEW X, NEW n \in Nat, NEW f, \A k \in 1 .. n : f[k] \in Seq(X)
    PROVE  FlattenSeq([k \in 1 .. n |-> f[k]]) \in Seq(X)
<1> DEFINE seqs == [k \in 1 .. n |-> f[k]]
<1>1. seqs \in Seq(Seq(X))
  OBVIOUS
<1> HIDE DEF seqs
<1> QED
  BY <1>1, FlattenElements DEF seqs

----------------------------------------------------------------------------
(* The inductive invariant: what is still to be planned belongs to a        *)
(* selected page, and what is planned is reached by its page alone.         *)
Outcomes == [page : DOMAIN file.contents, ordinal : Nat, object : References \union {NoObject},
             located : BOOLEAN]

Plannable ==
    {o \in Outcomes : /\ o.page \in ToSet(selected)
                      /\ o.located => /\ file.contents[o.page].inspected
                                      /\ o.object \in ToSet(file.contents[o.page].refs)
                                      /\ Resolvable(o.object)}

Granted ==
    {o \in Outcomes : /\ o.page \in ToSet(selected)
                      /\ TrueReferrers(o.object) = {<<"Page", o.page>>}}

EditTypeOK ==
    /\ request \in Requests
    /\ selected \in Seq(DOMAIN file.contents)
    /\ phase \in {"asked", "indexing", "editing", "written", "refused"}
    /\ phase = "asked" => pending = <<>> /\ edited = <<>> /\ rewritten = {}
    /\ phase = "editing" => done

GrantInv ==
    /\ pending \in Seq(Plannable)
    /\ edited \in Seq(Granted)
    /\ rewritten \subseteq {o.object : o \in Granted}

EditInv == IndexInv /\ EditTypeOK /\ GrantInv

(* What the documents are.                                                  *)
LEMMA ContentsFacts ==
    ASSUME IndexInv
    PROVE  /\ IsFile(file) /\ PageCount \in Nat /\ DOMAIN file.contents = 1 .. PageCount
           /\ DOMAIN file.contents = DOMAIN file.pages
           /\ \A i \in DOMAIN file.contents : file.contents[i].refs \in Seq(References)
<1>1. file \in Files /\ IsFile(file)
  BY FilesAssumption DEF IndexInv, IndexTypeOK
<1>2. /\ Len(file.contents) = Len(file.pages) /\ DOMAIN file.contents = DOMAIN file.pages
      /\ \A i \in DOMAIN file.contents : file.contents[i].refs \in Seq(References)
  BY <1>1, ContentsAssumption
<1>3. Len(file.pages) \in Nat /\ DOMAIN file.pages = 1 .. Len(file.pages)
  BY <1>1 DEF IsFile
<1> QED
  BY <1>1, <1>2, <1>3 DEF PageCount

(* The document stays the same, and so does what is planned of it.          *)
LEMMA PlansStay ==
    ASSUME file' = file
    PROVE  /\ Outcomes' = Outcomes
           /\ selected' = selected => Plannable' = Plannable /\ Granted' = Granted
<1>1. Outcomes' = Outcomes
  BY DEF Outcomes
<1>2. \A r : TrueReferrers(r)' = TrueReferrers(r)
  BY DocumentStays DEF TrueReferrers
<1>3. \A r : Resolvable(r)' = Resolvable(r)
  BY DEF Resolvable
<1> QED
  BY <1>1, <1>2, <1>3 DEF Plannable, Granted

(* A page's streams are plannable.                                          *)
LEMMA PageStreamsArePlannable ==
    ASSUME IndexInv, NEW page \in DOMAIN file.contents, page \in ToSet(selected)
    PROVE  PageStreams(page) \in Seq(Plannable)
<1> DEFINE contents == file.contents[page]
           kept == FirstOccurrences(contents.refs)
           whole == Outcome(page, 0, NoObject, FALSE)
           at(k) == Outcome(page, kept[k] - 1, contents.refs[kept[k]], Located(contents.refs[kept[k]]))
<1>1. /\ contents.refs \in Seq(References) /\ kept \in Seq(DOMAIN contents.refs)
      /\ Len(contents.refs) \in Nat /\ DOMAIN contents.refs = 1 .. Len(contents.refs)
  BY ContentsFacts, PositionsKept
<1>2. whole \in Plannable
  BY DEF Plannable, Outcomes, Outcome, NoObject, References
<1>3. CASE SkippedWhole(contents) \/ request.mode = "LogicalSequence"
  <2>1. PageStreams(page) = <<whole>>
    BY <1>3 DEF PageStreams
  <2> HIDE DEF whole
  <2> QED
    BY <1>2, <2>1
<1>4. CASE ~SkippedWhole(contents) /\ request.mode # "LogicalSequence"
  <2>1. PageStreams(page) = [k \in DOMAIN kept |-> at(k)]
    BY <1>4 DEF PageStreams
  <2>2. ASSUME NEW k \in DOMAIN kept PROVE at(k) \in Plannable
    <3> DEFINE i == kept[k]
               r == contents.refs[i]
    <3>1. i \in DOMAIN contents.refs /\ i - 1 \in Nat /\ r \in References /\ r \in ToSet(contents.refs)
      BY <1>1, <2>2 DEF ToSet
    <3>2. contents.inspected
      BY <1>4 DEF SkippedWhole
    <3>3. Located(r) \in BOOLEAN /\ (Located(r) => Resolvable(r))
      BY DEF Located
    <3>4. at(k) = Outcome(page, i - 1, r, Located(r))
      OBVIOUS
    <3> HIDE DEF i, r, at
    <3> QED
      BY <3>1, <3>2, <3>3, <3>4 DEF Plannable, Outcomes, Outcome
  <2>3. Len(kept) \in Nat /\ DOMAIN kept = 1 .. Len(kept)
    BY <1>1
  <2> HIDE DEF at, kept
  <2> QED
    BY <2>1, <2>2, <2>3
<1> QED
  BY <1>3, <1>4

(* What is granted is granted by the gate.                                  *)
LEMMA GateGrants ==
    ASSUME IndexInv, done, NEW o \in Plannable, o.located, InPlace(o.object)
    PROVE  o \in Granted
  BY ContentsFacts, GateIsExact DEF Plannable, Granted, Outcomes

----------------------------------------------------------------------------
(* Init and the steps.                                                      *)
LEMMA InitIsEditInv ==
    ASSUME EditInit
    PROVE  EditInv
<1>1. IndexInv
  BY InitIsIndexInv DEF EditInit
<1>2. EditTypeOK
  BY DEF EditInit, EditTypeOK
<1>3. GrantInv
  BY DEF EditInit, GrantInv
<1> QED
  BY <1>1, <1>2, <1>3 DEF EditInv

(* What has to be shown of a step that leaves the selection alone.          *)
LEMMA EditFrom ==
    ASSUME EditInv, IndexInv', file' = file, selected' = selected, request' = request,
           phase' \in {"indexing", "editing", "written", "refused"},
           phase' = "editing" => done',
           pending' \in Seq(Plannable), edited' \in Seq(Granted),
           rewritten' \subseteq {o.object : o \in Granted}
    PROVE  EditInv'
<1>1. Plannable' = Plannable /\ Granted' = Granted
  BY PlansStay
<1>2. GrantInv'
  BY <1>1 DEF GrantInv
<1>3. EditTypeOK'
  BY DEF EditInv, EditTypeOK
<1> QED
  BY <1>2, <1>3 DEF EditInv

(* The selection is of enumerated pages.                                    *)
LEMMA SelectPagesKeeps ==
    ASSUME EditInv, SelectPages, IndexInv'
    PROVE  EditInv'
<1>1. /\ file' = file /\ request' = request /\ phase' = "indexing"
      /\ pending' = <<>> /\ edited' = <<>> /\ rewritten' = {}
  BY DEF SelectPages, vars, EditInv, EditTypeOK
<1>2. Requested \subseteq 1 .. PageCount
  <2>1. request.indices \in Seq(Nat)
    BY RequestAssumption DEF EditInv, EditTypeOK
  <2>2. PageCount \in Nat
    BY ContentsFacts DEF EditInv
  <2>3. CASE request.all
    BY <2>3 DEF Requested
  <2>4. CASE ~request.all
    <3>1. \A n \in ToSet(request.indices) : n \in Nat /\ n < PageCount
      BY <2>1, <2>4 DEF SelectPages, Acceptable, ToSet
    <3> QED
      BY <2>2, <2>4, <3>1 DEF Requested
  <2> QED
    BY <2>3, <2>4
<1>3. selected' \in Seq(DOMAIN file.contents)
  <2>1. PageCount \in Nat /\ DOMAIN file.contents = 1 .. PageCount
    BY ContentsFacts DEF EditInv
  <2>2. Cardinality(Requested) \in Nat
    <3>1. IsFiniteSet(1 .. PageCount)
      BY <2>1, FS_Interval
    <3>2. IsFiniteSet(Requested)
      BY <1>2, <3>1, FS_Subset
    <3> QED
      BY <3>2, FS_CardinalityType
  <2>3. selected' \in [1 .. Cardinality(Requested) -> Requested]
    BY DEF SelectPages
  <2> DEFINE n == Cardinality(Requested)
  <2>4. selected' \in [1 .. n -> DOMAIN file.contents]
    <3> HIDE DEF n
    <3>1. selected' \in [1 .. n -> Requested]
      BY <2>3 DEF n
    <3> QED
      BY <1>2, <2>1, <3>1
  <2> HIDE DEF n
  <2>5. n \in Nat
    BY <2>2 DEF n
  <2> QED
    BY <2>4, <2>5
<1>4. EditTypeOK'
  BY <1>1, <1>3 DEF EditInv, EditTypeOK
<1>5. GrantInv'
  BY <1>1 DEF GrantInv
<1> QED
  BY <1>4, <1>5 DEF EditInv

(* What is to be planned is the streams of the selected pages.              *)
LEMMA StartEditingKeeps ==
    ASSUME EditInv, StartEditing, IndexInv'
    PROVE  EditInv'
<1>1. /\ file' = file /\ request' = request /\ selected' = selected /\ phase' = "editing"
      /\ edited' = edited /\ rewritten' = rewritten /\ done' = done /\ done
  BY DEF StartEditing, vars
<1>2. pending' \in Seq(Plannable)
  <2> DEFINE n == Len(selected)
  <2>1. n \in Nat /\ DOMAIN selected = 1 .. n
    BY DEF EditInv, EditTypeOK
  <2>2. \A k \in 1 .. n : PageStreams(selected[k]) \in Seq(Plannable)
    BY <2>1, PageStreamsArePlannable DEF EditInv, EditTypeOK, ToSet
  <2>3. pending' = FlattenSeq([k \in 1 .. n |-> PageStreams(selected[k])])
    BY <2>1 DEF StartEditing
  <2> HIDE DEF n
  <2> QED
    BY <2>1, <2>2, <2>3, FlattenedStays
<1> QED
  BY <1>1, <1>2, EditFrom DEF EditInv, GrantInv

(* A stream is planned only if the gate grants it to its page.              *)
LEMMA EditStreamKeeps ==
    ASSUME EditInv, EditStream, IndexInv'
    PROVE  EditInv'
<1>1. /\ file' = file /\ request' = request /\ selected' = selected /\ phase' = phase
      /\ phase = "editing" /\ rewritten' = rewritten /\ done' = done /\ done
      /\ pending # <<>> /\ pending \in Seq(Plannable) /\ edited \in Seq(Granted)
      /\ pending' = Tail(pending) /\ edited' = Append(edited, Head(pending))
  BY DEF EditStream, vars, EditInv, EditTypeOK, GrantInv
<1>2. Head(pending) \in Plannable /\ Tail(pending) \in Seq(Plannable)
  BY <1>1
<1>3. Head(pending) \in Granted
  BY <1>1, <1>2, GateGrants DEF EditStream, EditInv
<1>4. edited' \in Seq(Granted)
  BY <1>1, <1>3
<1> QED
  BY <1>1, <1>2, <1>4, EditFrom DEF EditInv, GrantInv

(* The streams of a page that PublishPage deals with, each object once.     *)
PageObjects(page) ==
    LET refs == file.contents[page].refs
        streams == [k \in DOMAIN refs |-> Outcome(page, k - 1, refs[k], TRUE)]
    IN  [k \in DOMAIN FirstOccurrences(refs) |-> streams[FirstOccurrences(refs)[k]]]

(* If the page's streams can all be read, those are plannable.              *)
LEMMA PageObjectsArePlannable ==
    ASSUME IndexInv, NEW page \in DOMAIN file.contents, page \in ToSet(selected),
           SequenceReady(file.contents[page])
    PROVE  /\ DOMAIN PageObjects(page) = 1 .. Len(PageObjects(page))
           /\ Len(PageObjects(page)) \in Nat
           /\ \A o \in ToSet(PageObjects(page)) : o \in Plannable /\ o.located
<1> DEFINE refs == file.contents[page].refs
           positions == FirstOccurrences(refs)
           streams == [k \in DOMAIN refs |-> Outcome(page, k - 1, refs[k], TRUE)]
           objects == PageObjects(page)
<1>1. /\ refs \in Seq(References) /\ positions \in Seq(DOMAIN refs)
      /\ Len(refs) \in Nat /\ DOMAIN refs = 1 .. Len(refs)
  BY ContentsFacts, PositionsKept
<1>2. file.contents[page].inspected /\ \A r \in ToSet(refs) : Resolvable(r)
  BY DEF SequenceReady, SkippedWhole, Located
<1>3. ASSUME NEW i \in DOMAIN refs PROVE streams[i] \in Plannable /\ streams[i].located
  <2> DEFINE r == refs[i]
  <2>1. i - 1 \in Nat /\ r \in References /\ r \in ToSet(refs) /\ Resolvable(r)
    BY <1>1, <1>2 DEF ToSet
  <2>2. streams[i] = Outcome(page, i - 1, r, TRUE)
    OBVIOUS
  <2> HIDE DEF r, streams
  <2> QED
    BY <1>2, <2>1, <2>2 DEF Plannable, Outcomes, Outcome
<1>4. DOMAIN positions = 1 .. Len(positions) /\ Len(positions) \in Nat
      /\ \A k \in DOMAIN positions : positions[k] \in DOMAIN refs
  BY <1>1
<1>5. objects = [k \in DOMAIN positions |-> streams[positions[k]]]
  BY DEF PageObjects
<1> HIDE DEF positions, streams, refs, objects
<1>6. DOMAIN objects = DOMAIN positions
      /\ \A k \in DOMAIN objects : objects[k] \in Plannable /\ objects[k].located
  BY <1>3, <1>4, <1>5
<1>7. DOMAIN objects = 1 .. Len(objects) /\ Len(objects) \in Nat
  BY <1>4, <1>5
<1>8. \A o \in ToSet(objects) : o \in Plannable /\ o.located
  BY <1>6 DEF ToSet
<1> QED
  BY <1>7, <1>8 DEF objects

(* A page of a logical edit: only streams that are the page's own change.   *)
LEMMA PublishPageKeeps ==
    ASSUME EditInv, PublishPage, IndexInv'
    PROVE  EditInv'
<1> DEFINE page == Head(pending).page
           own == {o \in ToSet(PageObjects(page)) : InPlace(o.object)}
<1>1. /\ file' = file /\ request' = request /\ selected' = selected /\ phase' = phase
      /\ phase = "editing" /\ rewritten' = rewritten /\ done' = done /\ done
      /\ pending # <<>> /\ pending \in Seq(Plannable) /\ edited \in Seq(Granted)
      /\ pending' = Tail(pending) /\ SequenceReady(file.contents[page])
  BY DEF PublishPage, vars, EditInv, EditTypeOK, GrantInv
<1>2. /\ page \in DOMAIN file.contents /\ page \in ToSet(selected)
      /\ Tail(pending) \in Seq(Plannable)
  <2>1. Head(pending) \in Plannable /\ Tail(pending) \in Seq(Plannable)
    BY <1>1
  <2> QED
    BY <2>1 DEF Plannable, Outcomes
<1>3. PICK changed \in SUBSET own : edited' = edited \o Keeping(PageObjects(page), changed)
  BY Zenon DEF PublishPage, PageObjects
<1> HIDE DEF page
<1> DEFINE objects == PageObjects(page)
<1>4. /\ DOMAIN objects = 1 .. Len(objects) /\ Len(objects) \in Nat
      /\ \A o \in ToSet(objects) : o \in Plannable /\ o.located
  BY <1>1, <1>2, PageObjectsArePlannable DEF EditInv
<1> HIDE DEF objects
<1>5. own \subseteq Granted
  BY <1>1, <1>4, GateGrants DEF EditInv, objects
<1>6. Keeping(objects, changed) \in Seq(Granted)
  <2>1. Keeping(objects, changed) \in Seq(ToSet(objects) \intersect changed)
    BY <1>4, KeepingElements
  <2>2. ToSet(objects) \intersect changed \subseteq Granted
    BY <1>3, <1>5
  <2> QED
    BY <2>1, <2>2
<1>7. edited' \in Seq(Granted)
  BY <1>1, <1>3, <1>6 DEF objects
<1> QED
  BY <1>1, <1>2, <1>7, EditFrom DEF EditInv, GrantInv

(* Only planned objects are written.                                        *)
LEMMA WriteDirtyObjectsKeeps ==
    ASSUME EditInv, WriteDirtyObjects, IndexInv'
    PROVE  EditInv'
<1>1. /\ file' = file /\ request' = request /\ selected' = selected /\ phase' = "written"
      /\ pending' = pending /\ edited' = edited /\ rewritten' = Merged(edited)
      /\ edited \in Seq(Granted)
  BY DEF WriteDirtyObjects, vars, EditInv, GrantInv
<1>2. Merged(edited) \subseteq {o.object : o \in Granted}
  <2>1. \A k \in DOMAIN edited : edited[k] \in Granted
    BY <1>1
  <2> QED
    BY <2>1 DEF Merged
<1> QED
  BY <1>1, <1>2, EditFrom DEF EditInv, GrantInv

(* Every step keeps the invariant.                                          *)
LEMMA StepKeepsEditInv ==
    ASSUME EditInv, [EditNext]_allVars
    PROVE  EditInv'
<1>1. IndexInv'
  <2>1. Next \/ UNCHANGED vars
    BY DEF EditNext, BuildIndex, SelectPages, RefuseRequest, StartEditing, SkipStream,
           EditStream, SkipPage, PublishPage, WriteDirtyObjects, allVars
  <2> QED
    BY <2>1, StepKeepsIndexInv DEF EditInv
<1>2. CASE RefuseRequest
  <2>1. /\ file' = file /\ request' = request /\ selected' = selected /\ phase' = "refused"
        /\ pending' = pending /\ edited' = edited /\ rewritten' = rewritten
    BY <1>2 DEF RefuseRequest, vars
  <2> QED
    BY <1>1, <2>1, EditFrom DEF EditInv, GrantInv
<1>3. CASE BuildIndex
  <2>1. /\ request' = request /\ selected' = selected /\ phase' = "indexing"
        /\ pending' = pending /\ edited' = edited /\ rewritten' = rewritten
    BY <1>3 DEF BuildIndex, edit
  <2>2. file' = file
    BY <1>3 DEF BuildIndex, Next, StartUser, RegisterRoot, SkipUser, EndUser,
                StopAtExpandedLimit, UnresolvedEdge, Expand, Finish
  <2> QED
    BY <1>1, <2>1, <2>2, EditFrom DEF EditInv, GrantInv
<1>4. CASE SkipStream \/ SkipPage
  <2>1. /\ file' = file /\ request' = request /\ selected' = selected /\ phase' = "editing"
        /\ phase = "editing" /\ done' = done /\ edited' = edited /\ rewritten' = rewritten
        /\ pending # <<>> /\ pending' = Tail(pending)
    BY <1>4 DEF SkipStream, SkipPage, vars
  <2>2. pending' \in Seq(Plannable)
    BY <2>1 DEF EditInv, GrantInv
  <2> QED
    BY <1>1, <2>1, <2>2, EditFrom DEF EditInv, EditTypeOK, GrantInv
<1>5. CASE UNCHANGED allVars
  <2>1. /\ file' = file /\ request' = request /\ selected' = selected /\ phase' = phase
        /\ pending' = pending /\ edited' = edited /\ rewritten' = rewritten /\ done' = done
    BY <1>5 DEF allVars, vars, edit
  <2>2. Plannable' = Plannable /\ Granted' = Granted
    BY <2>1, PlansStay
  <2> QED
    BY <1>1, <2>1, <2>2 DEF EditInv, EditTypeOK, GrantInv
<1> QED
  BY <1>1, <1>2, <1>3, <1>4, <1>5, SelectPagesKeeps, StartEditingKeeps, EditStreamKeeps,
     PublishPageKeeps, WriteDirtyObjectsKeeps DEF EditNext

(* The invariant holds.                                                     *)
THEOREM EditInvHolds == EditSpec => []EditInv
<1>1. EditInit => EditInv
  BY InitIsEditInv
<1>2. EditInv /\ [EditNext]_allVars => EditInv'
  BY StepKeepsEditInv
<1> QED
  BY <1>1, <1>2, PTL DEF EditSpec

(* Rewriting the planned streams in place changes the selected pages and    *)
(* nothing else, for every document and every request.                      *)
THEOREM OnlySelectedPagesEverChange == EditSpec => []OnlySelectedPagesChange
<1>1. EditInv => OnlySelectedPagesChange
  BY DEF EditInv, GrantInv, Granted, ToSet, OnlySelectedPagesChange
<1> QED
  BY <1>1, EditInvHolds, PTL

(* And the index stays sound and complete while the pipeline reads it.      *)
THEOREM PipelineKeepsIndex ==
    EditSpec => [](TypeOK /\ ListedIsReached /\ NothingMissingSilently)
<1>1. EditInv => TypeOK /\ ListedIsReached /\ NothingMissingSilently
  BY IndexInvSaysAll DEF EditInv
<1> QED
  BY <1>1, EditInvHolds, PTL

(* Each object of a page's references is kept once, at its first position.  *)
LEMMA CountObjects ==
    ASSUME NEW refs \in Seq(References), NEW g, NEW M, NEW r,
           \A i \in DOMAIN refs : g[i] \in M <=> refs[i] = r,
           NEW objects, DOMAIN objects = DOMAIN FirstOccurrences(refs),
           \A k \in DOMAIN objects : objects[k] = g[FirstOccurrences(refs)[k]]
    PROVE  Count(objects, M) = IF r \in ToSet(refs) THEN 1 ELSE 0
<1> DEFINE positions == FirstOccurrences(refs)
           identity == [k \in DOMAIN refs |-> k]
           first == {k \in DOMAIN refs : \A j \in 1 .. (k - 1) : refs[j] # refs[k]}
<1>1. /\ Len(refs) \in Nat /\ DOMAIN refs = 1 .. Len(refs)
      /\ DOMAIN identity = 1 .. Len(identity) /\ Len(identity) \in Nat
      /\ DOMAIN identity = DOMAIN refs /\ \A k \in DOMAIN refs : identity[k] = k
  OBVIOUS
<1>2. positions = Keeping(identity, first)
  BY DEF FirstOccurrences
<1> HIDE DEF identity
<1>3. \A k \in DOMAIN positions : positions[k] \in DOMAIN refs /\ positions[k] \in first
  <2>1. ToSet(identity) \intersect first \subseteq DOMAIN refs \intersect first
    BY <1>1 DEF ToSet
  <2>2. positions \in Seq(ToSet(identity) \intersect first)
    BY <1>1, <1>2, KeepingElements
  <2> HIDE DEF positions, first
  <2>3. \A k \in DOMAIN positions : positions[k] \in ToSet(identity) \intersect first
    BY <2>2
  <2> QED
    BY <2>1, <2>3
<1>4. DOMAIN objects = DOMAIN positions
      /\ \A k \in DOMAIN positions : objects[k] \in M <=> refs[positions[k]] = r
  <2> HIDE DEF positions
  <2> QED
    BY <1>3 DEF positions
<1>5. CASE r \notin ToSet(refs)
  <2>1. Hits(objects, M) = {}
    BY <1>3, <1>4, <1>5 DEF Hits, ToSet
  <2> QED
    BY <1>5, <2>1, FS_EmptySet DEF Count
<1>6. CASE r \in ToSet(refs)
  <2> DEFINE where == {i \in DOMAIN refs : refs[i] = r}
  <2>1. where \subseteq Nat /\ where # {}
    BY <1>1, <1>6 DEF ToSet
  <2>2. PICK i \in where : \A j \in where : i <= j
    <3> HIDE DEF where
    <3> QED
      BY <2>1, LeastExists
  <2>3. i \in first /\ i \in DOMAIN refs
    <3>1. \A j \in 1 .. (i - 1) : j \in DOMAIN refs /\ ~(i <= j)
      BY <1>1, <2>1, <2>2
    <3> QED
      BY <2>2, <3>1
  <2>4. ASSUME NEW k \in first, refs[k] = r PROVE k = i
    <3>1. i <= k /\ k \in Nat /\ i \in Nat /\ i \in 1 .. Len(refs)
      BY <1>1, <2>2, <2>4
    <3>2. i \notin 1 .. (k - 1)
      BY <2>2, <2>4
    <3> QED
      BY <3>1, <3>2
  <2>5. Hits(objects, M) = Hits(positions, {i})
    <3>1. \A k \in DOMAIN positions : refs[positions[k]] = r <=> positions[k] = i
      <4> HIDE DEF positions, first
      <4> QED
        BY <1>3, <2>2, <2>4
    <3> HIDE DEF positions
    <3> QED
      BY <1>4, <3>1 DEF Hits
  <2>6. Count(positions, {i}) = Count(identity, {i} \intersect first)
    <3> HIDE DEF first
    <3> QED
      BY <1>1, <1>2, CountKeeping
  <2>7. Hits(identity, {i} \intersect first) = {i}
    BY <1>1, <2>3 DEF Hits
  <2>8. Cardinality({i}) = 1
    BY FS_Singleton
  <2> HIDE DEF positions
  <2> QED
    BY <1>6, <2>5, <2>6, <2>7, <2>8 DEF Count
<1> QED
  BY <1>5, <1>6

----------------------------------------------------------------------------
(* What is said of one page: by the outcomes that wait, by the reports      *)
(* given, and by the deliveries.                                            *)
About(p, r) == {o \in Outcomes : o.page = p /\ o.object = r}
Entries == [outcome : Outcomes, owned : BOOLEAN]
EntriesAbout(p, r) == {e \in Entries : e.outcome \in About(p, r)}

Reports(edits, skips, p, r) == Count(edits, About(p, r)) + Count(skips, EntriesAbout(p, r))

ObjectsOf(p) == {NoObject} \union ToSet(file.contents[p].refs)
PlannedWhole(p) == SkippedWhole(file.contents[p]) \/ request.mode = "LogicalSequence"
Expected(p, r) ==
    IF PlannedWhole(p) THEN (IF r = NoObject THEN 1 ELSE 0)
    ELSE IF r \in ToSet(file.contents[p].refs) THEN 1 ELSE 0

(* Stream by stream, an outcome waits or is reported; nothing is delivered. *)
PlannedOnce(p, waiting, edits, skips, pubs) ==
    /\ \A r \in ObjectsOf(p) :
          Count(waiting, About(p, r)) + Reports(edits, skips, p, r) = Expected(p, r)
    /\ Count(pubs, {p}) = 0

(* A page of a logical edit waits, is skipped, or is delivered.             *)
PageWaits(p, waiting, edits, skips, pubs) ==
    /\ Count(waiting, About(p, NoObject)) = 1
    /\ \A r \in ObjectsOf(p) : Reports(edits, skips, p, r) = 0
    /\ Count(pubs, {p}) = 0

PageIsSkipped(p, waiting, edits, skips, pubs) ==
    /\ Count(waiting, About(p, NoObject)) = 0
    /\ \A r \in ObjectsOf(p) : Reports(edits, skips, p, r) = IF r = NoObject THEN 1 ELSE 0
    /\ Count(pubs, {p}) = 0

PageIsDelivered(p, waiting, edits, skips, pubs) ==
    /\ Count(waiting, About(p, NoObject)) = 0
    /\ Reports(edits, skips, p, NoObject) = 0
    /\ \A r \in ToSet(file.contents[p].refs) :
          \/ Reports(edits, skips, p, r) = 1
          \/ Reports(edits, skips, p, r) = 0 /\ InPlace(r)
    /\ Count(pubs, {p}) = 1

Accounted(p, waiting, edits, skips, pubs) ==
    IF request.mode = "LogicalSequence"
    THEN \/ PageWaits(p, waiting, edits, skips, pubs)
         \/ PageIsSkipped(p, waiting, edits, skips, pubs)
         \/ PageIsDelivered(p, waiting, edits, skips, pubs)
    ELSE PlannedOnce(p, waiting, edits, skips, pubs)

(* A logical edit has one outcome to plan for a page, and it names nothing. *)
WholePages == {o \in Outcomes : o.object = NoObject /\ o.located = FALSE}

ListsOK(waiting, edits, skips, pubs) ==
    /\ waiting \in Seq(Outcomes) /\ edits \in Seq(Outcomes)
    /\ skips \in Seq(Entries) /\ pubs \in Seq(DOMAIN file.contents)
    /\ request.mode = "LogicalSequence" => waiting \in Seq(WholePages)

ReportInv ==
    /\ \A j, k \in DOMAIN selected : j < k => selected[j] < selected[k]
    /\ ListsOK(pending, edited, skipped, published)
    /\ phase \in {"asked", "indexing"} =>
          pending = <<>> /\ edited = <<>> /\ skipped = <<>> /\ published = <<>>
    /\ phase = "written" => pending = <<>>
    /\ phase \in {"editing", "written"} =>
          \A k \in DOMAIN selected : Accounted(selected[k], pending, edited, skipped, published)

FullInv == EditInv /\ ReportInv

(* The account is of the document, the request and what the gate says.      *)
LEMMA AccountStays ==
    ASSUME file' = file, facts' = facts, consumers' = consumers, request' = request, NEW p,
           Accounted(p, pending', edited', skipped', published')
    PROVE  Accounted(p, pending, edited, skipped, published)'
<1>1. /\ Outcomes' = Outcomes /\ \A r : About(p, r)' = About(p, r)
      /\ \A r : EntriesAbout(p, r)' = EntriesAbout(p, r)
  <2>1. Outcomes' = Outcomes
    BY DEF Outcomes
  <2>2. Entries' = Entries /\ \A r : About(p, r)' = About(p, r)
    BY <2>1 DEF Entries, About
  <2> QED
    BY <2>1, <2>2 DEF EntriesAbout
<1>2. \A r : Reports(edited, skipped, p, r)' = Reports(edited', skipped', p, r)
  BY <1>1 DEF Reports, Count, Hits
<1>3. /\ \A r : Count(pending, About(p, r))' = Count(pending', About(p, r))
      /\ Count(published, {p})' = Count(published', {p})
  BY <1>1 DEF Count, Hits
<1>4. ObjectsOf(p)' = ObjectsOf(p) /\ \A r : Expected(p, r)' = Expected(p, r)
  BY DEF ObjectsOf, Expected, PlannedWhole, SkippedWhole
<1>5. \A r : InPlace(r)' = InPlace(r)
  BY DEF InPlace, DirectOwners, Referrers, LastIndex
<1>6. CASE request.mode = "LogicalSequence"
  <2>1. CASE PageWaits(p, pending', edited', skipped', published')
    BY <1>2, <1>3, <1>4, <1>6, <2>1 DEF Accounted, PageWaits
  <2>2. CASE PageIsSkipped(p, pending', edited', skipped', published')
    BY <1>2, <1>3, <1>4, <1>6, <2>2 DEF Accounted, PageIsSkipped
  <2>3. CASE PageIsDelivered(p, pending', edited', skipped', published')
    BY <1>2, <1>3, <1>5, <1>6, <2>3 DEF Accounted, PageIsDelivered
  <2> QED
    BY <1>6, <2>1, <2>2, <2>3 DEF Accounted
<1>7. CASE request.mode # "LogicalSequence"
  BY <1>2, <1>3, <1>4, <1>7 DEF Accounted, PlannedOnce
<1> QED
  BY <1>6, <1>7

(* All counts are natural numbers.                                          *)
LEMMA ReportTypes ==
    ASSUME NEW waiting, NEW edits, NEW skips, NEW pubs, ListsOK(waiting, edits, skips, pubs),
           NEW p, NEW r
    PROVE  /\ Count(waiting, About(p, r)) \in Nat /\ Count(edits, About(p, r)) \in Nat
           /\ Count(skips, EntriesAbout(p, r)) \in Nat /\ Count(pubs, {p}) \in Nat
           /\ Reports(edits, skips, p, r) \in Nat
<1>1. /\ Len(waiting) \in Nat /\ DOMAIN waiting = 1 .. Len(waiting)
      /\ Len(edits) \in Nat /\ DOMAIN edits = 1 .. Len(edits)
      /\ Len(skips) \in Nat /\ DOMAIN skips = 1 .. Len(skips)
      /\ Len(pubs) \in Nat /\ DOMAIN pubs = 1 .. Len(pubs)
  BY DEF ListsOK
<1>2. Count(waiting, About(p, r)) \in Nat /\ Count(edits, About(p, r)) \in Nat
  BY <1>1, CountType
<1>3. Count(skips, EntriesAbout(p, r)) \in Nat /\ Count(pubs, {p}) \in Nat
  BY <1>1, CountType
<1> QED
  BY <1>2, <1>3 DEF Reports

(* The first waiting outcome is taken off the list.                         *)
LEMMA TakesHead ==
    ASSUME NEW waiting \in Seq(Outcomes), waiting # <<>>, NEW p, NEW r
    PROVE  /\ Head(waiting) \in Outcomes /\ Tail(waiting) \in Seq(Outcomes)
           /\ Count(waiting, About(p, r)) = Count(Tail(waiting), About(p, r))
                 + (IF Head(waiting).page = p /\ Head(waiting).object = r THEN 1 ELSE 0)
<1>1. /\ Head(waiting) \in Outcomes /\ Tail(waiting) \in Seq(Outcomes)
      /\ Count(waiting, About(p, r)) = Count(Tail(waiting), About(p, r))
            + (IF Head(waiting) \in About(p, r) THEN 1 ELSE 0)
  BY CountTail
<1>2. Head(waiting) \in About(p, r) <=> Head(waiting).page = p /\ Head(waiting).object = r
  BY <1>1 DEF About
<1> QED
  BY <1>1, <1>2

(* A report is added to the reports of its page and object.                 *)
LEMMA AddsEdit ==
    ASSUME NEW edits \in Seq(Outcomes), NEW o \in Outcomes, NEW p, NEW r
    PROVE  /\ Append(edits, o) \in Seq(Outcomes)
           /\ Count(Append(edits, o), About(p, r)) = Count(edits, About(p, r))
                 + (IF o.page = p /\ o.object = r THEN 1 ELSE 0)
<1>1. /\ Append(edits, o) \in Seq(Outcomes)
      /\ Count(Append(edits, o), About(p, r)) = Count(edits, About(p, r))
            + (IF o \in About(p, r) THEN 1 ELSE 0)
  BY CountAppend
<1>2. o \in About(p, r) <=> o.page = p /\ o.object = r
  BY DEF About
<1> QED
  BY <1>1, <1>2

(* The same for what is left alone.                                         *)
LEMMA AddsSkip ==
    ASSUME NEW skips \in Seq(Entries), NEW o \in Outcomes, NEW owned \in BOOLEAN, NEW p, NEW r
    PROVE  /\ Append(skips, [outcome |-> o, owned |-> owned]) \in Seq(Entries)
           /\ Count(Append(skips, [outcome |-> o, owned |-> owned]), EntriesAbout(p, r))
                = Count(skips, EntriesAbout(p, r)) + (IF o.page = p /\ o.object = r THEN 1 ELSE 0)
<1> DEFINE e == [outcome |-> o, owned |-> owned]
<1>1. e \in Entries
  <2> HIDE DEF Outcomes
  <2> QED
    BY DEF Entries
<1>2. e \in EntriesAbout(p, r) <=> o.page = p /\ o.object = r
  <2>1. e.outcome = o
    OBVIOUS
  <2> HIDE DEF e
  <2> QED
    BY <1>1, <2>1 DEF EntriesAbout, About
<1> HIDE DEF e
<1>3. /\ Append(skips, e) \in Seq(Entries)
      /\ Count(Append(skips, e), EntriesAbout(p, r)) = Count(skips, EntriesAbout(p, r))
            + (IF e \in EntriesAbout(p, r) THEN 1 ELSE 0)
  BY <1>1, CountAppend
<1>4. /\ Append(skips, e) \in Seq(Entries)
      /\ Count(Append(skips, e), EntriesAbout(p, r))
           = Count(skips, EntriesAbout(p, r)) + (IF o.page = p /\ o.object = r THEN 1 ELSE 0)
  BY <1>2, <1>3
<1> QED
  BY <1>4 DEF e

(* A page has each of its outcomes to plan once, and none of another page.  *)
LEMMA PageStreamsCounted ==
    ASSUME IndexInv, NEW page \in DOMAIN file.contents
    PROVE  /\ PageStreams(page) \in Seq(Outcomes)
           /\ request.mode = "LogicalSequence" => PageStreams(page) \in Seq(WholePages)
           /\ \A r : Count(PageStreams(page), About(page, r)) = Expected(page, r)
           /\ \A p, r : p # page => Count(PageStreams(page), About(p, r)) = 0
<1> DEFINE refs == file.contents[page].refs
           kept == FirstOccurrences(refs)
           whole == Outcome(page, 0, NoObject, FALSE)
           g == [i \in DOMAIN refs |-> Outcome(page, i - 1, refs[i], Located(refs[i]))]
<1>1. refs \in Seq(References) /\ Len(refs) \in Nat /\ DOMAIN refs = 1 .. Len(refs)
      /\ kept \in Seq(DOMAIN refs)
  BY ContentsFacts, PositionsKept
<1>2. CASE PlannedWhole(page)
  <2>1. PageStreams(page) = <<whole>>
    BY <1>2 DEF PageStreams, PlannedWhole
  <2>2. /\ whole \in Outcomes /\ whole.page = page /\ whole.object = NoObject
        /\ whole.located = FALSE
    BY DEF Outcomes, Outcome, NoObject
  <2> HIDE DEF whole
  <2>3. whole \in WholePages
    BY <2>2 DEF WholePages
  <2>4. <<whole>> \in Seq(Outcomes) /\ <<whole>> \in Seq(WholePages)
    BY <2>2, <2>3
  <2>5. \A p, r : whole \in About(p, r) <=> p = page /\ r = NoObject
    BY <2>2 DEF About
  <2>6. \A p, r : Count(<<whole>>, About(p, r)) = IF p = page /\ r = NoObject THEN 1 ELSE 0
    BY <2>5, CountOne
  <2> QED
    BY <1>2, <2>1, <2>4, <2>6 DEF Expected
<1>3. CASE ~PlannedWhole(page)
  <2>1. PageStreams(page) = [k \in DOMAIN kept |->
              Outcome(page, kept[k] - 1, refs[kept[k]], Located(refs[kept[k]]))]
    BY <1>3 DEF PageStreams, PlannedWhole
  <2>2. \A k \in DOMAIN kept : kept[k] \in DOMAIN refs
    BY <1>1
  <2>3. PageStreams(page) = [k \in DOMAIN kept |-> g[kept[k]]]
    <3> HIDE DEF kept
    <3>1. \A k \in DOMAIN kept :
             g[kept[k]] = Outcome(page, kept[k] - 1, refs[kept[k]], Located(refs[kept[k]]))
      BY <2>2
    <3> HIDE DEF g
    <3> QED
      BY <2>1, <3>1
  <2>4. ASSUME NEW i \in DOMAIN refs
        PROVE  g[i] \in Outcomes /\ g[i].page = page /\ g[i].object = refs[i]
    <3> DEFINE r == refs[i]
    <3>1. i - 1 \in Nat /\ r \in References \union {NoObject}
      BY <1>1
    <3>2. Located(r) \in BOOLEAN
      BY DEF Located
    <3>3. g[i] = Outcome(page, i - 1, r, Located(r))
      OBVIOUS
    <3> HIDE DEF r, g
    <3>4. g[i] \in Outcomes /\ g[i].page = page /\ g[i].object = r
      BY <3>1, <3>2, <3>3 DEF Outcomes, Outcome
    <3> QED
      BY <3>4 DEF r
  <2> HIDE DEF g
  <2>5. \A k \in DOMAIN PageStreams(page) :
           /\ PageStreams(page)[k] \in Outcomes
           /\ PageStreams(page)[k].page = page
    <3> HIDE DEF kept
    <3> QED
      BY <2>2, <2>3, <2>4
  <2>6. PageStreams(page) \in Seq(Outcomes)
    <3>1. DOMAIN kept = 1 .. Len(kept) /\ Len(kept) \in Nat
      BY <1>1
    <3>2. DOMAIN PageStreams(page) = DOMAIN kept
      BY <2>3
    <3> HIDE DEF kept
    <3> QED
      BY <2>3, <2>5, <3>1, <3>2
  <2>7. ASSUME NEW r PROVE Count(PageStreams(page), About(page, r)) = Expected(page, r)
    <3>1. \A i \in DOMAIN refs : g[i] \in About(page, r) <=> refs[i] = r
      BY <2>4 DEF About
    <3>2. DOMAIN PageStreams(page) = DOMAIN kept
          /\ \A k \in DOMAIN PageStreams(page) : PageStreams(page)[k] = g[kept[k]]
      <4> HIDE DEF kept
      <4> QED
        BY <2>3
    <3>3. Count(PageStreams(page), About(page, r)) = IF r \in ToSet(refs) THEN 1 ELSE 0
      <4> DEFINE objects == PageStreams(page)
                 M == About(page, r)
      <4>1. /\ refs \in Seq(References) /\ \A i \in DOMAIN refs : g[i] \in M <=> refs[i] = r
            /\ DOMAIN objects = DOMAIN FirstOccurrences(refs)
            /\ \A k \in DOMAIN objects : objects[k] = g[FirstOccurrences(refs)[k]]
        BY <1>1, <3>1, <3>2
      <4> HIDE DEF refs, objects, M
      <4>2. Count(objects, M) = IF r \in ToSet(refs) THEN 1 ELSE 0
        BY <4>1, CountObjects
      <4> QED
        BY <4>2 DEF objects, M
    <3> QED
      BY <1>3, <3>3 DEF Expected
  <2>8. ASSUME NEW p, NEW r, p # page PROVE Count(PageStreams(page), About(p, r)) = 0
    <3>1. \A k \in DOMAIN PageStreams(page) : PageStreams(page)[k] \notin About(p, r)
      BY <2>5, <2>8 DEF About
    <3>2. /\ Len(PageStreams(page)) \in Nat
          /\ DOMAIN PageStreams(page) = 1 .. Len(PageStreams(page))
      BY <2>6
    <3> QED
      BY <3>1, <3>2, CountType
  <2>9. request.mode # "LogicalSequence"
    BY <1>3 DEF PlannedWhole
  <2> QED
    BY <2>6, <2>7, <2>8, <2>9
<1> QED
  BY <1>2, <1>3

(* No reference is the name of a whole page.                                *)
LEMMA NoObjectIsNoReference ==
    ASSUME IndexInv, NEW page \in DOMAIN file.contents
    PROVE  NoObject \notin ToSet(file.contents[page].refs)
<1>1. file.contents[page].refs \in Seq(References)
  BY ContentsFacts
<1>2. \A i \in DOMAIN file.contents[page].refs : file.contents[page].refs[i] \in References
  BY <1>1
<1>3. NoObject \notin References
  BY DEF NoObject, References
<1> QED
  BY <1>2, <1>3 DEF ToSet

(* What an ascending selection holds once, it plans once.                   *)
LEMMA AllPagesCounted ==
    ASSUME IndexInv, selected \in Seq(DOMAIN file.contents),
           \A j, k \in DOMAIN selected : j < k => selected[j] < selected[k],
           NEW waiting,
           waiting = FlattenSeq([k \in DOMAIN selected |-> PageStreams(selected[k])])
    PROVE  /\ waiting \in Seq(Outcomes)
           /\ request.mode = "LogicalSequence" => waiting \in Seq(WholePages)
           /\ \A k \in DOMAIN selected : \A r :
                 Count(waiting, About(selected[k], r)) = Expected(selected[k], r)
<1> DEFINE n == Len(selected)
           seqs == [k \in 1 .. n |-> PageStreams(selected[k])]
<1>1. n \in Nat /\ DOMAIN selected = 1 .. n
  OBVIOUS
<1>2. \A k \in 1 .. n : selected[k] \in DOMAIN file.contents
  BY <1>1
<1>3. waiting = FlattenSeq(seqs)
  BY <1>1
<1>4. \A k \in 1 .. n : /\ seqs[k] \in Seq(Outcomes)
                        /\ request.mode = "LogicalSequence" => seqs[k] \in Seq(WholePages)
  BY <1>2, PageStreamsCounted
<1>5. /\ seqs \in Seq(Seq(Outcomes)) /\ DOMAIN seqs = 1 .. n
      /\ request.mode = "LogicalSequence" => seqs \in Seq(Seq(WholePages))
  <2>1. seqs = [k \in 1 .. n |-> seqs[k]] /\ DOMAIN seqs = 1 .. n
    OBVIOUS
  <2> HIDE DEF seqs, n
  <2>2. seqs \in Seq(Seq(Outcomes))
    BY <1>1, <1>4, <2>1
  <2>3. ASSUME request.mode = "LogicalSequence" PROVE seqs \in Seq(Seq(WholePages))
    BY <1>1, <1>4, <2>1, <2>3
  <2> QED
    BY <2>1, <2>2, <2>3
<1>6. /\ waiting \in Seq(Outcomes)
      /\ request.mode = "LogicalSequence" => waiting \in Seq(WholePages)
  <2> HIDE DEF seqs
  <2> QED
    BY <1>3, <1>5, FlattenElements
<1>7. ASSUME NEW j \in DOMAIN selected, NEW r
      PROVE  Count(waiting, About(selected[j], r)) = Expected(selected[j], r)
  <2>1. \A k \in DOMAIN seqs : k # j => selected[k] # selected[j]
    <3>1. \A k \in 1 .. n : selected[k] \in Nat
      <4>1. DOMAIN file.contents \subseteq Nat
        BY ContentsFacts
      <4> QED
        BY <1>2, <4>1
    <3> HIDE DEF seqs, n
    <3>2. ASSUME NEW k \in 1 .. n, k # j PROVE selected[k] # selected[j]
      <4>1. CASE k < j
        <5>1. selected[k] < selected[j]
          BY <1>1, <4>1
        <5> QED
          BY <1>1, <3>1, <5>1
      <4>2. CASE j < k
        <5>1. selected[j] < selected[k]
          BY <1>1, <4>2
        <5> QED
          BY <1>1, <3>1, <5>1
      <4> QED
        BY <1>1, <3>2, <4>1, <4>2
    <3> QED
      BY <1>5, <3>2
  <2>2. \A k \in DOMAIN seqs : k # j => Count(seqs[k], About(selected[j], r)) = 0
    BY <1>2, <1>5, <2>1, PageStreamsCounted
  <2>3. Count(seqs[j], About(selected[j], r)) = Expected(selected[j], r)
    BY <1>1, <1>2, PageStreamsCounted
  <2> HIDE DEF seqs
  <2>4. Count(FlattenSeq(seqs), About(selected[j], r)) = Count(seqs[j], About(selected[j], r))
    BY <1>1, <1>5, <2>2, CountFlattenOne
  <2> QED
    BY <1>3, <2>3, <2>4
<1> QED
  BY <1>6, <1>7

----------------------------------------------------------------------------
(* The steps.  Empty lists first.                                           *)
LEMMA NothingReported ==
    /\ \A p, r : Reports(<<>>, <<>>, p, r) = 0
    /\ \A p : Count(<<>>, {p}) = 0
<1>1. \A M : Hits(<<>>, M) = {}
  BY DEF Hits
<1>2. \A M : Count(<<>>, M) = 0
  BY <1>1, FS_EmptySet DEF Count
<1> QED
  BY <1>2 DEF Reports

(* What has to be shown of a step of the editing phase.                     *)
LEMMA ReportFrom ==
    ASSUME FullInv, UNCHANGED vars, request' = request, selected' = selected,
           phase = "editing", phase' = "editing",
           ListsOK(pending', edited', skipped', published'),
           \A k \in DOMAIN selected :
               Accounted(selected[k], pending', edited', skipped', published')
    PROVE  ReportInv'
<1>1. file' = file /\ facts' = facts /\ consumers' = consumers
  BY DEF vars, report
<1>2. \A k \in DOMAIN selected : Accounted(selected[k], pending, edited, skipped, published)'
  BY <1>1, AccountStays
<1>3. (\A k \in DOMAIN selected : Accounted(selected[k], pending, edited, skipped, published))'
  BY <1>2
<1>4. ListsOK(pending, edited, skipped, published)'
  BY <1>1 DEF ListsOK, Entries, Outcomes, WholePages
<1>5. (\A j, k \in DOMAIN selected : j < k => selected[j] < selected[k])'
  BY DEF FullInv, ReportInv
<1> QED
  BY <1>3, <1>4, <1>5 DEF ReportInv

(* Steps that leave all lists empty.                                        *)
LEMMA EarlyStepsReport ==
    ASSUME FullInv, EditInv', file' = file, request' = request,
           phase' \in {"asked", "indexing", "refused"},
           pending' = <<>>, edited' = <<>>, skipped' = <<>>, published' = <<>>,
           (\A j, k \in DOMAIN selected : j < k => selected[j] < selected[k])'
    PROVE  ReportInv'
<1>1. \A S : <<>> \in Seq(S)
  OBVIOUS
<1>2. ListsOK(pending, edited, skipped, published)'
  BY <1>1 DEF ListsOK
<1> QED
  BY <1>2 DEF ReportInv

(* When editing starts, every stream waits and nothing is reported.         *)
LEMMA StartEditingReports ==
    ASSUME FullInv, StartEditing
    PROVE  ReportInv'
<1>1. /\ UNCHANGED vars /\ request' = request /\ selected' = selected /\ phase' = "editing"
      /\ edited' = <<>> /\ skipped' = <<>> /\ published' = <<>>
      /\ pending' = FlattenSeq([k \in DOMAIN selected |-> PageStreams(selected[k])])
  BY DEF StartEditing, FullInv, ReportInv
<1>2. IndexInv /\ selected \in Seq(DOMAIN file.contents)
      /\ \A j, k \in DOMAIN selected : j < k => selected[j] < selected[k]
  BY DEF FullInv, EditInv, EditTypeOK, ReportInv
<1> DEFINE waiting == pending'
<1>3. /\ waiting \in Seq(Outcomes)
      /\ request.mode = "LogicalSequence" => waiting \in Seq(WholePages)
      /\ \A k \in DOMAIN selected : \A r :
            Count(waiting, About(selected[k], r)) = Expected(selected[k], r)
  BY <1>1, <1>2, AllPagesCounted
<1>4. ListsOK(waiting, <<>>, <<>>, <<>>)
  <2>1. \A S : <<>> \in Seq(S)
    OBVIOUS
  <2> HIDE DEF waiting
  <2> QED
    BY <1>3, <2>1 DEF ListsOK
<1> HIDE DEF waiting
<1>5. ASSUME NEW k \in DOMAIN selected PROVE Accounted(selected[k], waiting, <<>>, <<>>, <<>>)
  <2> DEFINE p == selected[k]
  <2>1. \A r : Count(waiting, About(p, r)) = Expected(p, r) /\ Expected(p, r) \in Nat
    BY <1>3 DEF Expected
  <2>2. NoObject \in ObjectsOf(p)
    BY DEF ObjectsOf
  <2> HIDE DEF p
  <2>3. CASE request.mode = "LogicalSequence"
    <3>1. Count(waiting, About(p, NoObject)) = 1
      BY <2>1, <2>3 DEF Expected, PlannedWhole
    <3>2. PageWaits(p, waiting, <<>>, <<>>, <<>>)
      BY <3>1, NothingReported DEF PageWaits
    <3> QED
      BY <2>3, <3>2 DEF Accounted, p
  <2>4. CASE request.mode # "LogicalSequence"
    <3>1. PlannedOnce(p, waiting, <<>>, <<>>, <<>>)
      <4>1. \A r : Count(waiting, About(p, r)) + Reports(<<>>, <<>>, p, r) = Expected(p, r)
        BY <2>1, NothingReported
      <4> QED
        BY <4>1, NothingReported DEF PlannedOnce
    <3> QED
      BY <2>4, <3>1 DEF Accounted, p
  <2> QED
    BY <2>3, <2>4
<1>6. file' = file /\ facts' = facts /\ consumers' = consumers
  BY <1>1 DEF vars, report
<1>7. \A k \in DOMAIN selected : Accounted(selected[k], pending', edited', skipped', published')
  BY <1>1, <1>5 DEF waiting
<1>8. \A k \in DOMAIN selected : Accounted(selected[k], pending, edited, skipped, published)'
  BY <1>1, <1>6, <1>7, AccountStays
<1>9. (\A k \in DOMAIN selected : Accounted(selected[k], pending, edited, skipped, published))'
  BY <1>1, <1>8
<1>10. ListsOK(pending, edited, skipped, published)'
  <2>1. ListsOK(pending', edited', skipped', published')
    BY <1>1, <1>4 DEF waiting
  <2> QED
    BY <1>1, <1>6, <2>1 DEF ListsOK, Entries, Outcomes, WholePages
<1> QED
  BY <1>1, <1>2, <1>9, <1>10 DEF ReportInv

(* An outcome that waited is reported, once, and no other list moves.       *)
LEMMA OneMoves ==
    ASSUME ListsOK(pending, edited, skipped, published), pending # <<>>,
           request.mode # "LogicalSequence",
           NEW edits, NEW skips, ListsOK(Tail(pending), edits, skips, published),
           \A p, r : Reports(edits, skips, p, r) = Reports(edited, skipped, p, r)
               + (IF Head(pending).page = p /\ Head(pending).object = r THEN 1 ELSE 0),
           NEW p, Accounted(p, pending, edited, skipped, published)
    PROVE  Accounted(p, Tail(pending), edits, skips, published)
<1>1. ASSUME NEW r \in ObjectsOf(p)
      PROVE  Count(Tail(pending), About(p, r)) + Reports(edits, skips, p, r) = Expected(p, r)
  <2> DEFINE one == IF Head(pending).page = p /\ Head(pending).object = r THEN 1 ELSE 0
             before == Count(pending, About(p, r))
             after == Count(Tail(pending), About(p, r))
             given == Reports(edited, skipped, p, r)
  <2>1. before = after + one
    BY TakesHead DEF ListsOK
  <2>2. Reports(edits, skips, p, r) = given + one
    OBVIOUS
  <2>3. before + given = Expected(p, r)
    BY DEF Accounted, PlannedOnce
  <2>4. after \in Nat /\ given \in Nat /\ one \in Nat
    <3>1. after \in Nat
      BY ReportTypes
    <3>2. given \in Nat
      BY ReportTypes
    <3> QED
      BY <3>1, <3>2
  <2> HIDE DEF one, before, after, given
  <2>5. after + (given + one) = Expected(p, r)
    BY <2>1, <2>3, <2>4
  <2> QED
    BY <2>2, <2>5 DEF after
<1>2. Count(published, {p}) = 0
  BY DEF Accounted, PlannedOnce
<1> QED
  BY <1>1, <1>2 DEF Accounted, PlannedOnce

(* A stream is left alone.                                                  *)
LEMMA SkipStreamReports ==
    ASSUME FullInv, SkipStream
    PROVE  ReportInv'
<1> DEFINE h == Head(pending)
           owned == h.located /\ ~InPlace(h.object)
<1>1. /\ UNCHANGED vars /\ request' = request /\ selected' = selected
      /\ phase = "editing" /\ phase' = "editing"
      /\ pending # <<>> /\ request.mode # "LogicalSequence"
      /\ pending' = Tail(pending) /\ edited' = edited /\ published' = published
      /\ skipped' = Append(skipped, [outcome |-> h, owned |-> owned])
  BY DEF SkipStream
<1>2. ListsOK(pending, edited, skipped, published)
  BY DEF FullInv, ReportInv
<1>3. h \in Outcomes /\ Tail(pending) \in Seq(Outcomes)
  BY <1>1, <1>2 DEF ListsOK
<1>4. owned \in BOOLEAN
  BY <1>3 DEF Outcomes
<1> HIDE DEF h, owned
<1>5. ListsOK(pending', edited', skipped', published')
  BY <1>1, <1>2, <1>3, <1>4, AddsSkip DEF ListsOK
<1>6. ASSUME NEW p, NEW r
      PROVE  Reports(edited', skipped', p, r) = Reports(edited, skipped, p, r)
                 + (IF h.page = p /\ h.object = r THEN 1 ELSE 0)
  <2>1. Count(skipped', EntriesAbout(p, r)) = Count(skipped, EntriesAbout(p, r))
           + (IF h.page = p /\ h.object = r THEN 1 ELSE 0)
    BY <1>1, <1>2, <1>3, <1>4, AddsSkip DEF ListsOK
  <2>2. Count(edited, About(p, r)) \in Nat /\ Count(skipped, EntriesAbout(p, r)) \in Nat
    BY <1>2, ReportTypes
  <2> QED
    BY <1>1, <2>1, <2>2 DEF Reports
<1>7. ASSUME NEW k \in DOMAIN selected
      PROVE  Accounted(selected[k], pending', edited', skipped', published')
  <2>1. Accounted(selected[k], pending, edited, skipped, published)
    BY <1>1 DEF FullInv, ReportInv
  <2> QED
    BY <1>1, <1>2, <1>5, <1>6, <2>1, OneMoves DEF h
<1> QED
  BY <1>1, <1>5, <1>7, ReportFrom

(* A stream is planned.  A logical edit has nothing that is located.        *)
LEMMA EditStreamReports ==
    ASSUME FullInv, EditStream
    PROVE  ReportInv'
<1> DEFINE h == Head(pending)
<1>1. /\ UNCHANGED vars /\ request' = request /\ selected' = selected
      /\ phase = "editing" /\ phase' = "editing"
      /\ pending # <<>> /\ h.located
      /\ pending' = Tail(pending) /\ skipped' = skipped /\ published' = published
      /\ edited' = Append(edited, h)
  BY DEF EditStream
<1>2. ListsOK(pending, edited, skipped, published)
  BY DEF FullInv, ReportInv
<1>3. h \in Outcomes /\ Tail(pending) \in Seq(Outcomes)
  BY <1>1, <1>2 DEF ListsOK
<1>4. request.mode # "LogicalSequence"
  <2> SUFFICES ASSUME request.mode = "LogicalSequence" PROVE FALSE
    OBVIOUS
  <2>1. pending \in Seq(WholePages)
    BY <1>2 DEF ListsOK
  <2>2. h \in WholePages
    BY <1>1, <2>1
  <2> QED
    BY <1>1, <2>2 DEF WholePages
<1> HIDE DEF h
<1>5. ListsOK(pending', edited', skipped', published')
  BY <1>1, <1>2, <1>3, <1>4, AddsEdit DEF ListsOK
<1>6. ASSUME NEW p, NEW r
      PROVE  Reports(edited', skipped', p, r) = Reports(edited, skipped, p, r)
                 + (IF h.page = p /\ h.object = r THEN 1 ELSE 0)
  <2>1. Count(edited', About(p, r)) = Count(edited, About(p, r))
           + (IF h.page = p /\ h.object = r THEN 1 ELSE 0)
    BY <1>1, <1>2, <1>3, AddsEdit DEF ListsOK
  <2>2. Count(edited, About(p, r)) \in Nat /\ Count(skipped, EntriesAbout(p, r)) \in Nat
    BY <1>2, ReportTypes
  <2> QED
    BY <1>1, <2>1, <2>2 DEF Reports
<1>7. ASSUME NEW k \in DOMAIN selected
      PROVE  Accounted(selected[k], pending', edited', skipped', published')
  <2>1. Accounted(selected[k], pending, edited, skipped, published)
    BY <1>1 DEF FullInv, ReportInv
  <2> QED
    BY <1>1, <1>2, <1>4, <1>5, <1>6, <2>1, OneMoves DEF h
<1> QED
  BY <1>1, <1>5, <1>7, ReportFrom

(* In a logical edit the page at the head of the list is one that waits,    *)
(* and no other page's outcome leaves the list with it.                     *)
LEMMA HeadPageWaits ==
    ASSUME ListsOK(pending, edited, skipped, published), pending # <<>>,
           request.mode = "LogicalSequence"
    PROVE  /\ Head(pending) \in Outcomes /\ Head(pending).object = NoObject
           /\ Tail(pending) \in Seq(WholePages) /\ Tail(pending) \in Seq(Outcomes)
           /\ \A p : Accounted(p, pending, edited, skipped, published) =>
                 IF p = Head(pending).page
                 THEN /\ PageWaits(p, pending, edited, skipped, published)
                      /\ Count(Tail(pending), About(p, NoObject)) = 0
                 ELSE Count(Tail(pending), About(p, NoObject)) = Count(pending, About(p, NoObject))
<1> DEFINE h == Head(pending)
<1>1. h \in WholePages /\ Tail(pending) \in Seq(WholePages) /\ Tail(pending) \in Seq(Outcomes)
  BY DEF ListsOK
<1>2. h \in Outcomes /\ h.object = NoObject
  BY <1>1 DEF WholePages
<1> HIDE DEF h
<1>3. ASSUME NEW p, Accounted(p, pending, edited, skipped, published)
      PROVE  IF p = h.page
             THEN /\ PageWaits(p, pending, edited, skipped, published)
                  /\ Count(Tail(pending), About(p, NoObject)) = 0
             ELSE Count(Tail(pending), About(p, NoObject)) = Count(pending, About(p, NoObject))
  <2> DEFINE before == Count(pending, About(p, NoObject))
             after == Count(Tail(pending), About(p, NoObject))
  <2>1. before = after + (IF h.page = p THEN 1 ELSE 0)
    BY <1>2, TakesHead DEF ListsOK, h
  <2>2. after \in Nat
    <3>1. Len(Tail(pending)) \in Nat /\ DOMAIN Tail(pending) = 1 .. Len(Tail(pending))
      BY <1>1
    <3> QED
      BY <3>1, CountType
  <2>3. CASE p = h.page
    <3>1. before # 0
      <4> HIDE DEF before, after
      <4> QED
        BY <2>1, <2>2, <2>3
    <3>2. PageWaits(p, pending, edited, skipped, published)
      BY <1>3, <3>1 DEF Accounted, PageIsSkipped, PageIsDelivered
    <3>3. before = 1
      BY <3>2 DEF PageWaits
    <3> HIDE DEF before, after
    <3>4. after = 0
      BY <2>1, <2>2, <2>3, <3>3
    <3> QED
      BY <2>3, <3>2, <3>4 DEF after
  <2>4. CASE p # h.page
    <3>1. after = before
      <4> HIDE DEF before, after
      <4> QED
        BY <2>1, <2>2, <2>4
    <3> QED
      BY <2>4, <3>1
  <2> QED
    BY <2>3, <2>4
<1> QED
  BY <1>1, <1>2, <1>3 DEF h

(* The account of a page that the step does not touch.                      *)
LEMMA OtherPagesKeep ==
    ASSUME request.mode = "LogicalSequence", NEW p, Accounted(p, pending, edited, skipped, published),
           NEW waiting, NEW edits, NEW skips, NEW pubs,
           Count(waiting, About(p, NoObject)) = Count(pending, About(p, NoObject)),
           \A r : Reports(edits, skips, p, r) = Reports(edited, skipped, p, r),
           Count(pubs, {p}) = Count(published, {p})
    PROVE  Accounted(p, waiting, edits, skips, pubs)
<1>1. CASE PageWaits(p, pending, edited, skipped, published)
  BY <1>1 DEF Accounted, PageWaits
<1>2. CASE PageIsSkipped(p, pending, edited, skipped, published)
  BY <1>2 DEF Accounted, PageIsSkipped
<1>3. CASE PageIsDelivered(p, pending, edited, skipped, published)
  BY <1>3 DEF Accounted, PageIsDelivered
<1> QED
  BY <1>1, <1>2, <1>3 DEF Accounted

(* A page of a logical edit is skipped whole.                               *)
LEMMA SkipPageReports ==
    ASSUME FullInv, SkipPage
    PROVE  ReportInv'
<1> DEFINE h == Head(pending)
           owned == FALSE
<1>1. /\ UNCHANGED vars /\ request' = request /\ selected' = selected
      /\ phase = "editing" /\ phase' = "editing"
      /\ pending # <<>> /\ request.mode = "LogicalSequence"
      /\ pending' = Tail(pending) /\ edited' = edited /\ published' = published
      /\ skipped' = Append(skipped, [outcome |-> h, owned |-> owned])
  BY DEF SkipPage
<1>2. ListsOK(pending, edited, skipped, published)
  BY DEF FullInv, ReportInv
<1>3. /\ h \in Outcomes /\ h.object = NoObject
      /\ Tail(pending) \in Seq(WholePages) /\ Tail(pending) \in Seq(Outcomes)
  BY <1>1, <1>2, HeadPageWaits
<1>4. owned \in BOOLEAN
  OBVIOUS
<1> HIDE DEF h, owned
<1>5. ASSUME NEW p, NEW r
      PROVE  /\ Append(skipped, [outcome |-> h, owned |-> owned]) \in Seq(Entries)
             /\ Reports(edited', skipped', p, r) = Reports(edited, skipped, p, r)
                 + (IF h.page = p /\ NoObject = r THEN 1 ELSE 0)
             /\ Reports(edited, skipped, p, r) \in Nat
  <2>1. /\ Append(skipped, [outcome |-> h, owned |-> owned]) \in Seq(Entries)
        /\ Count(skipped', EntriesAbout(p, r)) = Count(skipped, EntriesAbout(p, r))
           + (IF h.page = p /\ h.object = r THEN 1 ELSE 0)
    BY <1>1, <1>2, <1>3, <1>4, AddsSkip DEF ListsOK
  <2>2. /\ Count(edited, About(p, r)) \in Nat /\ Count(skipped, EntriesAbout(p, r)) \in Nat
        /\ Reports(edited, skipped, p, r) \in Nat
    BY <1>2, ReportTypes
  <2> QED
    BY <1>1, <1>3, <2>1, <2>2 DEF Reports
<1>6. ListsOK(pending', edited', skipped', published')
  BY <1>1, <1>2, <1>3, <1>5 DEF ListsOK
<1>7. ASSUME NEW k \in DOMAIN selected
      PROVE  Accounted(selected[k], pending', edited', skipped', published')
  <2> DEFINE p == selected[k]
  <2>1. Accounted(p, pending, edited, skipped, published)
    BY <1>1 DEF FullInv, ReportInv
  <2> HIDE DEF p
  <2>2. CASE p = h.page
    <3>1. /\ PageWaits(p, pending, edited, skipped, published)
          /\ Count(Tail(pending), About(p, NoObject)) = 0
      BY <1>1, <1>2, <2>1, <2>2, HeadPageWaits DEF h
    <3>2. PageIsSkipped(p, pending', edited', skipped', published')
      <4>1. ASSUME NEW r \in ObjectsOf(p)
            PROVE  Reports(edited', skipped', p, r) = IF r = NoObject THEN 1 ELSE 0
        <5>1. Reports(edited, skipped, p, r) = 0
          BY <3>1 DEF PageWaits
        <5>2. Reports(edited', skipped', p, r) = 0 + (IF NoObject = r THEN 1 ELSE 0)
          BY <1>5, <2>2, <5>1
        <5> QED
          BY <5>2
      <4> QED
        BY <1>1, <3>1, <4>1 DEF PageIsSkipped, PageWaits
    <3> QED
      BY <1>1, <3>2 DEF Accounted, p
  <2>3. CASE p # h.page
    <3>1. Count(pending', About(p, NoObject)) = Count(pending, About(p, NoObject))
      BY <1>1, <1>2, <2>1, <2>3, HeadPageWaits DEF h
    <3>2. \A r : Reports(edited', skipped', p, r) = Reports(edited, skipped, p, r)
      BY <1>5, <2>3
    <3>3. Accounted(p, pending', edited', skipped', published')
      BY <1>1, <2>1, <3>1, <3>2, OtherPagesKeep
    <3> QED
      BY <3>3 DEF p
  <2> QED
    BY <2>2, <2>3
<1> QED
  BY <1>1, <1>6, <1>7, ReportFrom

AsSkips(outcomes) == [k \in DOMAIN outcomes |-> [outcome |-> outcomes[k], owned |-> TRUE]]

(* They are outcomes of that page, one for each object.                     *)
LEMMA PageObjectsCounted ==
    ASSUME IndexInv, NEW page \in DOMAIN file.contents
    PROVE  /\ PageObjects(page) \in Seq(Outcomes)
           /\ \A k \in DOMAIN PageObjects(page) :
                 /\ PageObjects(page)[k].page = page
                 /\ PageObjects(page)[k].object \in ToSet(file.contents[page].refs)
           /\ \A r \in ToSet(file.contents[page].refs) :
                 Count(PageObjects(page), About(page, r)) = 1
<1> DEFINE refs == file.contents[page].refs
           kept == FirstOccurrences(refs)
           g == [i \in DOMAIN refs |-> Outcome(page, i - 1, refs[i], TRUE)]
           objects == PageObjects(page)
<1>1. refs \in Seq(References) /\ Len(refs) \in Nat /\ DOMAIN refs = 1 .. Len(refs)
      /\ kept \in Seq(DOMAIN refs)
  BY ContentsFacts, PositionsKept
<1>2. DOMAIN objects = DOMAIN kept /\ \A k \in DOMAIN objects : objects[k] = g[kept[k]]
  <2>1. objects = [k \in DOMAIN kept |-> g[kept[k]]]
    BY DEF PageObjects
  <2> HIDE DEF objects, kept, g
  <2> QED
    BY <2>1
<1>3. ASSUME NEW i \in DOMAIN refs
      PROVE  /\ g[i] \in Outcomes /\ g[i].page = page /\ g[i].object = refs[i]
             /\ refs[i] \in ToSet(refs)
  <2> DEFINE r == refs[i]
  <2>1. i - 1 \in Nat /\ r \in References \union {NoObject} /\ r \in ToSet(refs)
    BY <1>1 DEF ToSet
  <2>2. g[i] = Outcome(page, i - 1, r, TRUE)
    OBVIOUS
  <2> HIDE DEF r, g
  <2>3. g[i] \in Outcomes /\ g[i].page = page /\ g[i].object = r
    BY <2>1, <2>2 DEF Outcomes, Outcome
  <2> QED
    BY <2>1, <2>3 DEF r
<1>4. DOMAIN kept = 1 .. Len(kept) /\ Len(kept) \in Nat /\ \A k \in DOMAIN kept : kept[k] \in DOMAIN refs
  BY <1>1
<1> HIDE DEF g
<1>5. \A k \in DOMAIN objects : /\ objects[k] \in Outcomes /\ objects[k].page = page
                                /\ objects[k].object \in ToSet(refs)
  <2> HIDE DEF objects, kept, refs
  <2> QED
    BY <1>2, <1>3, <1>4
<1>6. objects \in Seq(Outcomes)
  <2>1. objects = [k \in DOMAIN kept |-> objects[k]]
    BY DEF PageObjects
  <2> HIDE DEF objects, kept
  <2> QED
    BY <1>2, <1>4, <1>5, <2>1
<1>7. ASSUME NEW r \in ToSet(refs) PROVE Count(objects, About(page, r)) = 1
  <2> DEFINE M == About(page, r)
  <2>1. \A i \in DOMAIN refs : g[i] \in M <=> refs[i] = r
    BY <1>3 DEF About
  <2>2. /\ DOMAIN objects = DOMAIN FirstOccurrences(refs)
        /\ \A k \in DOMAIN objects : objects[k] = g[FirstOccurrences(refs)[k]]
    BY <1>2
  <2>3. refs \in Seq(References) /\ r \in ToSet(refs)
    BY <1>1
  <2> HIDE DEF refs, objects, M
  <2>4. Count(objects, M) = IF r \in ToSet(refs) THEN 1 ELSE 0
    BY <2>1, <2>2, <2>3, CountObjects
  <2> QED
    BY <2>3, <2>4 DEF objects, M
<1> QED
  BY <1>5, <1>6, <1>7

(* Listing outcomes as left alone counts them the same.                     *)
LEMMA AsSkipsCounted ==
    ASSUME NEW outcomes \in Seq(Outcomes), NEW p, NEW r
    PROVE  /\ AsSkips(outcomes) \in Seq(Entries)
           /\ Count(AsSkips(outcomes), EntriesAbout(p, r)) = Count(outcomes, About(p, r))
<1> DEFINE owned == TRUE
           s == AsSkips(outcomes)
<1>1. owned \in BOOLEAN
  OBVIOUS
<1>2. /\ Len(outcomes) \in Nat /\ DOMAIN outcomes = 1 .. Len(outcomes)
      /\ \A k \in DOMAIN outcomes : outcomes[k] \in Outcomes
  OBVIOUS
<1>3. s = [k \in DOMAIN outcomes |-> [outcome |-> outcomes[k], owned |-> owned]]
  BY DEF AsSkips
<1> HIDE DEF owned, s
<1>4. ASSUME NEW o \in Outcomes PROVE [outcome |-> o, owned |-> owned] \in Entries
  BY <1>1, <1>4 DEF Entries
<1>5. ASSUME NEW k \in DOMAIN outcomes PROVE s[k] \in Entries /\ s[k].outcome = outcomes[k]
  <2> DEFINE o == outcomes[k]
  <2>1. s[k] = [outcome |-> o, owned |-> owned] /\ o \in Outcomes
    BY <1>2, <1>3
  <2> HIDE DEF o
  <2>2. s[k] \in Entries /\ s[k].outcome = o
    BY <1>4, <2>1
  <2> QED
    BY <2>2 DEF o
<1>6. s \in Seq(Entries)
  <2>1. s = [k \in 1 .. Len(outcomes) |-> s[k]]
    BY <1>2, <1>3
  <2> QED
    BY <1>2, <1>5, <2>1
<1>7. Hits(s, EntriesAbout(p, r)) = Hits(outcomes, About(p, r))
  <2>1. DOMAIN s = DOMAIN outcomes
    BY <1>3
  <2>2. \A k \in DOMAIN outcomes : s[k] \in EntriesAbout(p, r) <=> outcomes[k] \in About(p, r)
    BY <1>5 DEF EntriesAbout
  <2> QED
    BY <2>1, <2>2 DEF Hits
<1> QED
  BY <1>6, <1>7 DEF Count, s

(* What a delivered page reports: each of its streams once, or not at all   *)
(* if it is the page's own, and nothing of any other page.                  *)
DeliversOnce(page, kept, shared) ==
    /\ kept \in Seq(Outcomes) /\ shared \in Seq(Outcomes)
    /\ \A p, r : p # page \/ r \notin ToSet(file.contents[page].refs) =>
          Count(kept, About(p, r)) = 0 /\ Count(shared, About(p, r)) = 0
    /\ \A r \in ToSet(file.contents[page].refs) :
          \/ Count(kept, About(page, r)) + Count(shared, About(page, r)) = 1
          \/ /\ Count(kept, About(page, r)) + Count(shared, About(page, r)) = 0
             /\ InPlace(r)

(* A page is delivered with some of its own streams changed: what it        *)
(* reports are those and every stream that is not its own.                  *)
LEMMA PublishedCounts ==
    ASSUME IndexInv, NEW page \in DOMAIN file.contents, NEW changed, NEW own,
           own = {o \in ToSet(PageObjects(page)) : InPlace(o.object)}, changed \in SUBSET own,
           NEW kept, kept = Keeping(PageObjects(page), changed),
           NEW shared, shared = Keeping(PageObjects(page), ToSet(PageObjects(page)) \ own)
    PROVE  DeliversOnce(page, kept, shared)
<1> DEFINE objects == PageObjects(page)
           refs == file.contents[page].refs
           others == ToSet(objects) \ own
<1>1. /\ objects \in Seq(Outcomes) /\ Len(objects) \in Nat /\ DOMAIN objects = 1 .. Len(objects)
      /\ \A k \in DOMAIN objects : /\ objects[k].page = page /\ objects[k].object \in ToSet(refs)
                                   /\ objects[k] \in Outcomes /\ objects[k] \in ToSet(objects)
      /\ \A r \in ToSet(refs) : Count(objects, About(page, r)) = 1
  <2>1. objects \in Seq(Outcomes)
    BY PageObjectsCounted
  <2>2. Len(objects) \in Nat /\ DOMAIN objects = 1 .. Len(objects)
        /\ \A k \in DOMAIN objects : objects[k] \in Outcomes /\ objects[k] \in ToSet(objects)
    <3> HIDE DEF objects
    <3> QED
      BY <2>1 DEF ToSet
  <2> QED
    BY <2>1, <2>2, PageObjectsCounted
<1> HIDE DEF objects, refs
<1>2. kept = Keeping(objects, changed) /\ shared = Keeping(objects, others)
      /\ own = {o \in ToSet(objects) : InPlace(o.object)}
  BY DEF objects
<1>3. \A M : /\ Count(kept, M) = Count(objects, M \intersect changed)
             /\ Count(shared, M) = Count(objects, M \intersect others)
  <2> HIDE DEF others
  <2> QED
    BY <1>1, <1>2, CountKeeping
<1>4. kept \in Seq(Outcomes) /\ shared \in Seq(Outcomes)
  <2>1. kept \in Seq(ToSet(objects) \intersect changed)
        /\ shared \in Seq(ToSet(objects) \intersect others)
    <3> HIDE DEF others
    <3> QED
      BY <1>1, <1>2, KeepingElements
  <2>2. ToSet(objects) \subseteq Outcomes
    BY <1>1 DEF ToSet
  <2> QED
    BY <2>1, <2>2
<1>5. ASSUME NEW p, NEW r, p # page \/ r \notin ToSet(refs)
      PROVE  Count(kept, About(p, r)) = 0 /\ Count(shared, About(p, r)) = 0
  <2>1. \A N : \A k \in DOMAIN objects : objects[k] \notin About(p, r) \intersect N
    BY <1>1, <1>5 DEF About
  <2>2. \A N : Count(objects, About(p, r) \intersect N) = 0
    BY <1>1, <2>1, CountType
  <2> QED
    BY <1>3, <2>2
<1>6. ASSUME NEW r \in ToSet(refs)
      PROVE  \/ Count(kept, About(page, r)) + Count(shared, About(page, r)) = 1
             \/ /\ Count(kept, About(page, r)) + Count(shared, About(page, r)) = 0
                /\ InPlace(r)
  <2> DEFINE M == About(page, r)
             a == Count(objects, M \intersect changed)
             b == Count(objects, M \intersect others)
  <2>1. a \in Nat /\ b \in Nat
    BY <1>1, CountType
  <2>2. Count(objects, M) = 1
    BY <1>1
  <2>3. \A o \in M : o.object = r
    BY DEF About
  <2> HIDE DEF M
  <2>4. CASE InPlace(r)
    <3>1. \A k \in DOMAIN objects : objects[k] \notin M \intersect others
      BY <1>1, <1>2, <2>3, <2>4
    <3>2. b = 0
      BY <1>1, <3>1, CountType
    <3>3. a <= 1
      <4>1. a <= Count(objects, M)
        BY <1>1, CountMonotone
      <4> QED
        BY <2>2, <4>1
    <3> HIDE DEF a, b
    <3>4. a + b = 1 \/ a + b = 0
      BY <2>1, <3>2, <3>3
    <3> QED
      BY <1>3, <2>4, <3>4 DEF a, b, M
  <2>5. CASE ~InPlace(r)
    <3>1. \A k \in DOMAIN objects : objects[k] \notin M \intersect changed
      BY <1>1, <1>2, <2>3, <2>5
    <3>2. a = 0
      BY <1>1, <3>1, CountType
    <3>3. \A k \in DOMAIN objects : objects[k] \in M <=> objects[k] \in M \intersect others
      BY <1>1, <1>2, <2>3, <2>5
    <3>4. Hits(objects, M) = Hits(objects, M \intersect others)
      BY <3>3 DEF Hits
    <3>5. b = 1
      BY <2>2, <3>4 DEF Count
    <3> HIDE DEF a, b
    <3>6. a + b = 1
      BY <3>2, <3>5
    <3> QED
      BY <1>3, <3>6 DEF a, b, M
  <2> QED
    BY <2>4, <2>5
<1> QED
  BY <1>4, <1>5, <1>6 DEF refs, DeliversOnce

(* A page of a logical edit is delivered.                                   *)
LEMMA PublishPageReports ==
    ASSUME FullInv, PublishPage
    PROVE  ReportInv'
<1> DEFINE page == Head(pending).page
           own == {o \in ToSet(PageObjects(page)) : InPlace(o.object)}
           shared == Keeping(PageObjects(page), ToSet(PageObjects(page)) \ own)
<1>1. /\ UNCHANGED vars /\ request' = request /\ selected' = selected
      /\ phase = "editing" /\ phase' = "editing"
      /\ pending # <<>> /\ request.mode = "LogicalSequence"
      /\ pending' = Tail(pending) /\ published' = Append(published, page)
  BY DEF PublishPage
<1>2. PICK changed \in SUBSET own : edited' = edited \o Keeping(PageObjects(page), changed)
  BY Zenon DEF PublishPage, PageObjects
<1>3. skipped' = skipped \o AsSkips(shared)
  BY Zenon DEF PublishPage, PageObjects, AsSkips
<1> DEFINE kept == Keeping(PageObjects(page), changed)
<1>4. ListsOK(pending, edited, skipped, published) /\ IndexInv
  BY DEF FullInv, ReportInv, EditInv
<1>5. /\ Head(pending) \in Outcomes
      /\ Tail(pending) \in Seq(WholePages) /\ Tail(pending) \in Seq(Outcomes)
      /\ \A p : Accounted(p, pending, edited, skipped, published) =>
            IF p = page
            THEN /\ PageWaits(p, pending, edited, skipped, published)
                 /\ Count(Tail(pending), About(p, NoObject)) = 0
            ELSE Count(Tail(pending), About(p, NoObject)) = Count(pending, About(p, NoObject))
  BY <1>1, <1>4, HeadPageWaits
<1>6. page \in DOMAIN file.contents
  BY <1>5 DEF Outcomes
<1> HIDE DEF page
<1>7. /\ kept \in Seq(Outcomes) /\ shared \in Seq(Outcomes)
      /\ \A p, r : p # page \/ r \notin ToSet(file.contents[page].refs) =>
            Count(kept, About(p, r)) = 0 /\ Count(shared, About(p, r)) = 0
      /\ \A r \in ToSet(file.contents[page].refs) :
            \/ Count(kept, About(page, r)) + Count(shared, About(page, r)) = 1
            \/ /\ Count(kept, About(page, r)) + Count(shared, About(page, r)) = 0
               /\ InPlace(r)
  <2>1. own = {o \in ToSet(PageObjects(page)) : InPlace(o.object)} /\ changed \in SUBSET own
        /\ kept = Keeping(PageObjects(page), changed)
        /\ shared = Keeping(PageObjects(page), ToSet(PageObjects(page)) \ own)
    OBVIOUS
  <2> HIDE DEF own, kept, shared
  <2>2. DeliversOnce(page, kept, shared)
    BY <1>4, <1>6, <2>1, PublishedCounts
  <2> QED
    BY <2>2, Zenon DEF DeliversOnce
<1>8. edited' = edited \o kept
  BY <1>2
<1> HIDE DEF own, kept, shared
<1>9. AsSkips(shared) \in Seq(Entries)
  BY <1>7, AsSkipsCounted
<1>10. ListsOK(pending', edited', skipped', published')
  <2>1. edited' \in Seq(Outcomes)
    BY <1>4, <1>7, <1>8 DEF ListsOK
  <2>2. skipped' \in Seq(Entries)
    BY <1>3, <1>4, <1>9 DEF ListsOK
  <2>3. published' \in Seq(DOMAIN file.contents)
    BY <1>1, <1>4, <1>6 DEF ListsOK
  <2> QED
    BY <1>1, <1>5, <2>1, <2>2, <2>3 DEF ListsOK
<1>11. ASSUME NEW p, NEW r
       PROVE  Reports(edited', skipped', p, r) = Reports(edited, skipped, p, r)
                  + (Count(kept, About(p, r)) + Count(shared, About(p, r)))
  <2>1. Count(edited', About(p, r)) = Count(edited, About(p, r)) + Count(kept, About(p, r))
    BY <1>4, <1>7, <1>8, CountConcat DEF ListsOK
  <2>2. Count(skipped', EntriesAbout(p, r))
          = Count(skipped, EntriesAbout(p, r)) + Count(AsSkips(shared), EntriesAbout(p, r))
    BY <1>3, <1>4, <1>9, CountConcat DEF ListsOK
  <2>3. Count(AsSkips(shared), EntriesAbout(p, r)) = Count(shared, About(p, r))
    BY <1>7, AsSkipsCounted
  <2>4. Count(edited, About(p, r)) \in Nat /\ Count(skipped, EntriesAbout(p, r)) \in Nat
    BY <1>4, ReportTypes
  <2>5. Count(kept, About(p, r)) \in Nat /\ Count(shared, About(p, r)) \in Nat
    <3>1. /\ Len(kept) \in Nat /\ DOMAIN kept = 1 .. Len(kept)
          /\ Len(shared) \in Nat /\ DOMAIN shared = 1 .. Len(shared)
      BY <1>7
    <3> QED
      BY <3>1, CountType
  <2> QED
    BY <2>1, <2>2, <2>3, <2>4, <2>5 DEF Reports
<1>12. ASSUME NEW p
       PROVE  Count(published', {p}) = Count(published, {p}) + (IF page = p THEN 1 ELSE 0)
  <2>1. Count(Append(published, page), {p}) = Count(published, {p})
            + (IF page \in {p} THEN 1 ELSE 0)
    BY <1>4, <1>6, CountAppend DEF ListsOK
  <2> QED
    BY <1>1, <2>1
<1>13. ASSUME NEW k \in DOMAIN selected
       PROVE  Accounted(selected[k], pending', edited', skipped', published')
  <2> DEFINE p == selected[k]
  <2>1. Accounted(p, pending, edited, skipped, published)
    BY <1>1 DEF FullInv, ReportInv
  <2> HIDE DEF p
  <2>2. \A r : Reports(edited, skipped, p, r) \in Nat
    BY <1>4, ReportTypes
  <2>3. CASE p = page
    <3>1. /\ PageWaits(p, pending, edited, skipped, published)
          /\ Count(pending', About(p, NoObject)) = 0
      BY <1>1, <1>5, <2>1, <2>3
    <3>2. Reports(edited', skipped', p, NoObject) = 0
      <4>1. Reports(edited, skipped, p, NoObject) = 0
        BY <3>1 DEF PageWaits, ObjectsOf
      <4>2. Count(kept, About(p, NoObject)) = 0 /\ Count(shared, About(p, NoObject)) = 0
        BY <1>4, <1>6, <1>7, <2>3, NoObjectIsNoReference
      <4> QED
        BY <1>11, <4>1, <4>2
    <3>3. ASSUME NEW r \in ToSet(file.contents[p].refs)
          PROVE  \/ Reports(edited', skipped', p, r) = 1
                 \/ Reports(edited', skipped', p, r) = 0 /\ InPlace(r)
      <4> DEFINE more == Count(kept, About(page, r)) + Count(shared, About(page, r))
      <4>1. Reports(edited, skipped, p, r) = 0
        BY <3>1 DEF PageWaits, ObjectsOf
      <4>2. more = 1 \/ (more = 0 /\ InPlace(r))
        BY <1>7, <2>3
      <4>3. Reports(edited', skipped', p, r) = 0 + more
        BY <1>11, <2>3, <4>1
      <4> HIDE DEF more
      <4> QED
        BY <4>2, <4>3
    <3>4. Count(published', {p}) = 1
      <4>1. Count(published, {p}) = 0
        BY <3>1 DEF PageWaits
      <4>2. Count(published', {p}) = 0 + 1
        BY <1>12, <2>3, <4>1
      <4> QED
        BY <4>2
    <3>5. PageIsDelivered(p, pending', edited', skipped', published')
      BY <3>1, <3>2, <3>3, <3>4 DEF PageIsDelivered
    <3> QED
      BY <1>1, <3>5 DEF Accounted, p
  <2>4. CASE p # page
    <3>1. Count(pending', About(p, NoObject)) = Count(pending, About(p, NoObject))
      BY <1>1, <1>5, <2>1, <2>4
    <3>2. ASSUME NEW r PROVE Reports(edited', skipped', p, r) = Reports(edited, skipped, p, r)
      <4>1. Count(kept, About(p, r)) = 0 /\ Count(shared, About(p, r)) = 0
        BY <1>7, <2>4
      <4>2. Reports(edited', skipped', p, r) = Reports(edited, skipped, p, r) + (0 + 0)
        BY <1>11, <4>1
      <4> QED
        BY <2>2, <4>2
    <3>3. Count(published', {p}) = Count(published, {p})
      <4>1. Count(published, {p}) \in Nat
        BY <1>4, ReportTypes
      <4>2. Count(published', {p}) = Count(published, {p}) + 0
        BY <1>12, <2>4
      <4> QED
        BY <4>1, <4>2
    <3>4. Accounted(p, pending', edited', skipped', published')
      BY <1>1, <2>1, <3>1, <3>2, <3>3, OtherPagesKeep
    <3> QED
      BY <3>4 DEF p
  <2> QED
    BY <2>3, <2>4
<1> QED
  BY <1>1, <1>10, <1>13, ReportFrom

(* Every step keeps the account.                                            *)
LEMMA StepKeepsReportInv ==
    ASSUME FullInv, [EditNext]_allVars
    PROVE  ReportInv'
<1>1. EditInv'
  BY StepKeepsEditInv DEF FullInv
<1>2. /\ \A j, k \in DOMAIN selected : j < k => selected[j] < selected[k]
      /\ phase \in {"asked", "indexing"} =>
            pending = <<>> /\ edited = <<>> /\ skipped = <<>> /\ published = <<>>
      /\ ListsOK(pending, edited, skipped, published)
  BY DEF FullInv, ReportInv
<1>3. CASE SelectPages
  <2>1. /\ file' = file /\ request' = request /\ phase' = "indexing"
        /\ pending' = <<>> /\ edited' = <<>> /\ skipped' = <<>> /\ published' = <<>>
    BY <1>2, <1>3 DEF SelectPages, vars
  <2>2. (\A j, k \in DOMAIN selected : j < k => selected[j] < selected[k])'
    BY <1>3 DEF SelectPages
  <2> QED
    BY <1>1, <2>1, <2>2, EarlyStepsReport
<1>4. CASE RefuseRequest
  <2>1. /\ file' = file /\ request' = request /\ phase' = "refused" /\ selected' = selected
        /\ pending' = <<>> /\ edited' = <<>> /\ skipped' = <<>> /\ published' = <<>>
    BY <1>2, <1>4 DEF RefuseRequest, vars
  <2>2. (\A j, k \in DOMAIN selected : j < k => selected[j] < selected[k])'
    BY <1>2, <2>1
  <2> QED
    BY <1>1, <2>1, <2>2, EarlyStepsReport
<1>5. CASE BuildIndex
  <2>1. /\ request' = request /\ phase' = "indexing" /\ selected' = selected
        /\ pending' = <<>> /\ edited' = <<>> /\ skipped' = <<>> /\ published' = <<>>
    BY <1>2, <1>5 DEF BuildIndex, edit
  <2>2. file' = file
    BY <1>5 DEF BuildIndex, Next, StartUser, RegisterRoot, SkipUser, EndUser,
                StopAtExpandedLimit, UnresolvedEdge, Expand, Finish
  <2>3. (\A j, k \in DOMAIN selected : j < k => selected[j] < selected[k])'
    BY <1>2, <2>1
  <2> QED
    BY <1>1, <2>1, <2>2, <2>3, EarlyStepsReport
<1>6. CASE WriteDirtyObjects \/ UNCHANGED allVars
  <2>1. /\ UNCHANGED vars /\ request' = request /\ selected' = selected
        /\ pending' = pending /\ edited' = edited /\ skipped' = skipped
        /\ published' = published
        /\ \/ phase = "editing" /\ phase' = "written" /\ pending = <<>>
           \/ phase' = phase
    BY <1>6 DEF WriteDirtyObjects, allVars, edit
  <2>2. file' = file /\ facts' = facts /\ consumers' = consumers
    BY <2>1 DEF vars, report
  <2>3. ASSUME phase' \in {"editing", "written"}
        PROVE  (\A k \in DOMAIN selected :
                   Accounted(selected[k], pending, edited, skipped, published))'
    <3>1. \A k \in DOMAIN selected :
             Accounted(selected[k], pending', edited', skipped', published')
      BY <2>1, <2>3 DEF FullInv, ReportInv
    <3>2. \A k \in DOMAIN selected : Accounted(selected[k], pending, edited, skipped, published)'
      BY <2>1, <2>2, <3>1, AccountStays
    <3> QED
      BY <2>1, <3>2
  <2>4. ListsOK(pending, edited, skipped, published)'
    BY <1>2, <2>1, <2>2 DEF ListsOK, Entries, Outcomes, WholePages
  <2>5. phase' = "written" => pending' = <<>>
    BY <2>1 DEF FullInv, ReportInv
  <2> QED
    BY <1>2, <2>1, <2>3, <2>4, <2>5 DEF ReportInv
<1> QED
  BY <1>3, <1>4, <1>5, <1>6, StartEditingReports, SkipStreamReports, EditStreamReports,
     SkipPageReports, PublishPageReports DEF EditNext

(* Before the first step, there is nothing to account for.                  *)
LEMMA NothingPlannedYet ==
    ASSUME EditInit
    PROVE  FullInv
<1>1. \A S : <<>> \in Seq(S)
  OBVIOUS
<1>2. ReportInv
  BY <1>1 DEF EditInit, ReportInv, ListsOK
<1> QED
  BY <1>2, InitIsEditInv DEF FullInv

(* The account holds.                                                       *)
THEOREM ReportInvHolds == EditSpec => []FullInv
<1>1. EditInit => FullInv
  BY NothingPlannedYet
<1>2. FullInv /\ [EditNext]_allVars => FullInv'
  BY StepKeepsReportInv, StepKeepsEditInv DEF FullInv
<1> QED
  BY <1>1, <1>2, PTL DEF EditSpec

(* When the revision is written, every distinct stream of every selected    *)
(* page has been reported once, or its page was left alone as a whole.      *)
THEOREM EveryStreamIsReported == EditSpec => []EveryStreamReported
<1>1. FullInv => EveryStreamReported
  <2> SUFFICES ASSUME FullInv, phase = "written", NEW k \in DOMAIN selected
               PROVE
            LET page == selected[k]
                streams == ToSet(file.contents[page].refs)
                reports(r) == Cardinality({i \in DOMAIN edited :
                                             edited[i].page = page /\ edited[i].object = r})
                              + Cardinality({i \in DOMAIN skipped :
                                    skipped[i].outcome.page = page /\ skipped[i].outcome.object = r})
                delivered == Cardinality({i \in DOMAIN published : published[i] = page})
            IN  \/ /\ reports(NoObject) = 1 /\ delivered = 0
                   /\ \A r \in streams : reports(r) = 0
                   /\ SkippedWhole(file.contents[page]) \/ request.mode = "LogicalSequence"
                \/ /\ reports(NoObject) = 0
                   /\ delivered = IF request.mode = "LogicalSequence" THEN 1 ELSE 0
                   /\ \A r \in streams :
                         \/ reports(r) = 1
                         \/ reports(r) = 0 /\ delivered = 1 /\ InPlace(r)
    BY DEF EveryStreamReported
  <2> DEFINE page == selected[k]
             streams == ToSet(file.contents[page].refs)
             reports(r) == Cardinality({i \in DOMAIN edited :
                                          edited[i].page = page /\ edited[i].object = r})
                           + Cardinality({i \in DOMAIN skipped :
                                 skipped[i].outcome.page = page /\ skipped[i].outcome.object = r})
             delivered == Cardinality({i \in DOMAIN published : published[i] = page})
  <2>1. /\ ListsOK(pending, edited, skipped, published) /\ pending = <<>> /\ IndexInv
        /\ Accounted(page, pending, edited, skipped, published)
        /\ page \in DOMAIN file.contents
    <3>1. selected \in Seq(DOMAIN file.contents)
      BY DEF FullInv, EditInv, EditTypeOK
    <3>2. page \in DOMAIN file.contents
      BY <3>1
    <3> QED
      BY <3>2 DEF FullInv, EditInv, ReportInv
  <2>2. ASSUME NEW r PROVE reports(r) = Reports(edited, skipped, page, r)
    <3>1. /\ \A i \in DOMAIN edited : edited[i] \in Outcomes
          /\ \A i \in DOMAIN skipped : skipped[i] \in Entries
      BY <2>1 DEF ListsOK
    <3> HIDE DEF page
    <3>2. {i \in DOMAIN edited : edited[i].page = page /\ edited[i].object = r}
            = Hits(edited, About(page, r))
      BY <3>1 DEF Hits, About
    <3>3. \A i \in DOMAIN skipped : skipped[i].outcome \in Outcomes
      BY <3>1 DEF Entries
    <3>4. {i \in DOMAIN skipped : skipped[i].outcome.page = page /\ skipped[i].outcome.object = r}
            = Hits(skipped, EntriesAbout(page, r))
      BY <3>1, <3>3 DEF Hits, About, EntriesAbout
    <3> QED
      BY <3>2, <3>4 DEF Reports, Count
  <2>3. delivered = Count(published, {page})
    BY DEF Count, Hits
  <2>4. NoObject \notin streams /\ ObjectsOf(page) = {NoObject} \union streams
    BY <2>1, NoObjectIsNoReference DEF ObjectsOf
  <2>5. \A r : Count(pending, About(page, r)) = 0 /\ Reports(edited, skipped, page, r) \in Nat
    <3>1. \A M : Hits(<<>>, M) = {}
      BY DEF Hits
    <3>2. \A M : Count(pending, M) = 0
      BY <2>1, <3>1, FS_EmptySet DEF Count
    <3> QED
      BY <2>1, <3>2, ReportTypes
  <2> HIDE DEF reports, delivered
  <2>6. CASE request.mode = "LogicalSequence"
    <3>1. ~PageWaits(page, pending, edited, skipped, published)
      BY <2>5 DEF PageWaits
    <3>2. CASE PageIsSkipped(page, pending, edited, skipped, published)
      <4>1. reports(NoObject) = 1 /\ delivered = 0 /\ \A r \in streams : reports(r) = 0
        BY <2>2, <2>3, <2>4, <3>2 DEF PageIsSkipped
      <4> QED
        BY <2>6, <4>1 DEF reports, delivered
    <3>3. CASE PageIsDelivered(page, pending, edited, skipped, published)
      <4>1. /\ reports(NoObject) = 0 /\ delivered = 1
            /\ \A r \in streams : reports(r) = 1 \/ (reports(r) = 0 /\ delivered = 1 /\ InPlace(r))
        BY <2>2, <2>3, <3>3 DEF PageIsDelivered
      <4> QED
        BY <2>6, <4>1 DEF reports, delivered
    <3> QED
      BY <2>1, <2>6, <3>1, <3>2, <3>3 DEF Accounted
  <2>7. CASE request.mode # "LogicalSequence"
    <3>1. /\ \A r \in ObjectsOf(page) : reports(r) = Expected(page, r)
          /\ delivered = 0
      <4>1. PlannedOnce(page, pending, edited, skipped, published)
        BY <2>1, <2>7 DEF Accounted
      <4>2. ASSUME NEW r \in ObjectsOf(page) PROVE reports(r) = Expected(page, r)
        <5>1. Count(pending, About(page, r)) + Reports(edited, skipped, page, r) = Expected(page, r)
          BY <4>1 DEF PlannedOnce
        <5>2. 0 + Reports(edited, skipped, page, r) = Expected(page, r)
          BY <2>5, <5>1
        <5> QED
          BY <2>2, <2>5, <5>2
      <4> QED
        BY <2>3, <4>1, <4>2 DEF PlannedOnce
    <3>2. CASE PlannedWhole(page)
      <4>1. /\ reports(NoObject) = 1 /\ delivered = 0 /\ \A r \in streams : reports(r) = 0
            /\ SkippedWhole(file.contents[page])
        BY <2>4, <2>7, <3>1, <3>2 DEF Expected, PlannedWhole
      <4> QED
        BY <4>1 DEF reports, delivered
    <3>3. CASE ~PlannedWhole(page)
      <4>1. /\ reports(NoObject) = 0 /\ delivered = 0 /\ \A r \in streams : reports(r) = 1
        BY <2>4, <2>7, <3>1, <3>3 DEF Expected
      <4> QED
        BY <2>7, <4>1 DEF reports, delivered
    <3> QED
      BY <3>2, <3>3
  <2> QED
    BY <2>6, <2>7
<1> QED
  BY <1>1, ReportInvHolds, PTL

----------------------------------------------------------------------------
(* The gate the other way round: what only the page leads to is the page's  *)
(* own.                                                                     *)

(* A page reaches the streams its leaf dictionary names.                    *)
LEMMA PageReachesItsStreams ==
    ASSUME IndexInv, NEW page \in DOMAIN file.contents, file.contents[page].inspected,
           NEW r \in ToSet(file.contents[page].refs), r \in DOMAIN file.objects,
           NEW withParent \in BOOLEAN
    PROVE  r \in ReachOf(PageUsers[page], withParent)
<1> DEFINE u == PageUsers[page]
           leaf == file.pages[page]
           entries == file.objects[leaf].entries
<1>1. /\ IsFile(file) /\ page \in DOMAIN file.pages /\ leaf \in DOMAIN file.objects
      /\ IsUser(u) /\ u.own = {Number(leaf)}
      /\ u.seeds = [key |-> "", refs |-> <<leaf>>, lost |-> <<>>]
  <2>1. IsFile(file) /\ page \in DOMAIN file.pages
    BY ContentsFacts
  <2>2. file.pages[page] \in DOMAIN file.objects
    BY <2>1 DEF IsFile
  <2> QED
    BY <2>1, <2>2, PageUser
<1>2. leaf \in Followed(u.seeds)
  <2> DEFINE seeds == [key |-> "", refs |-> <<leaf>>, lost |-> <<>>]
  <2>1. u.seeds.refs = <<leaf>>
    <3>1. seeds.refs = <<leaf>>
      OBVIOUS
    <3>2. u.seeds = seeds
      BY <1>1
    <3> HIDE DEF seeds, u, leaf
    <3> QED
      BY <3>1, <3>2
  <2>2. leaf \in ToSet(<<leaf>>)
    BY DEF ToSet
  <2> QED
    BY <2>1, <2>2 DEF Followed
<1>3. PICK k \in DOMAIN entries : /\ entries[k].key = "Contents"
                                  /\ ToSet(file.contents[page].refs) \subseteq Followed(entries[k])
  BY LeafContentsAssumption DEF IndexInv, IndexTypeOK
<1>4. r \in EdgesFor(u, leaf, withParent)
  <2>1. entries[k].key # "Parent" /\ r \in Followed(entries[k])
    BY <1>3
  <2> HIDE DEF u
  <2> QED
    BY <2>1 DEF EdgesFor
<1>5. ~EndsAt(u, leaf)
  BY <1>1 DEF EndsAt
<1> HIDE DEF u, leaf, entries
<1>6. leaf \in ReachOf(u, withParent)
  BY <1>1, <1>2, ReachIsClosed
<1>7. r \in ReachOf(u, withParent)
  BY <1>1, <1>4, <1>5, <1>6, ReachIsClosed
<1> QED
  BY <1>7 DEF u

(* Whoever reaches an object may be listed for it.                          *)
LEMMA ReachersArePossible ==
    ASSUME NEW i \in DOMAIN TrueUsers, NEW r, r \in ReachOf(TrueUsers[i], TRUE)
    PROVE  TrueUsers[i].id \in PossibleReferrers(r)
<1>1. i \in {j \in DOMAIN TrueUsers : r \in ReachOf(TrueUsers[j], TRUE)}
  OBVIOUS
<1> QED
  BY <1>1 DEF PossibleReferrers

(* Where only the page leads to the stream, the gate opens.                 *)
LEMMA GateOpens ==
    ASSUME IndexInv, done, facts = {}, NEW page \in DOMAIN file.contents,
           file.contents[page].inspected, NEW r \in ToSet(file.contents[page].refs),
           r \in DOMAIN file.objects, PossibleReferrers(r) = {<<"Page", page>>}
    PROVE  InPlace(r)
<1> DEFINE owner == file.pages[page]
<1>1. /\ IsFile(file) /\ DOMAIN file.contents = DOMAIN file.pages /\ page \in DOMAIN file.pages
  BY ContentsFacts
<1>2. ASSUME NEW j \in DOMAIN file.contents, file.contents[j].inspected,
             r \in ToSet(file.contents[j].refs)
      PROVE  j = page
  <2>1. r \in ReachOf(PageUsers[j], TRUE)
    BY <1>2, PageReachesItsStreams
  <2>2. PICK i \in DOMAIN TrueUsers : TrueUsers[i] = PageUsers[j]
    BY <1>1, PageUser
  <2>3. PageUsers[j].id = <<"Page", j>>
    BY <1>1, PageUser
  <2>4. <<"Page", j>> \in PossibleReferrers(r)
    BY <2>1, <2>2, <2>3, ReachersArePossible
  <2>5. <<"Page", j>> = <<"Page", page>>
    BY <2>4
  <2> QED
    BY <2>5
<1>3. DirectOwners(r) = {owner}
  BY <1>2 DEF DirectOwners
<1>4. LastIndex(owner) = page
  <2>1. ASSUME NEW j \in DOMAIN file.pages, file.pages[j] = owner PROVE j = page
    <3>1. r \in ReachOf(PageUsers[page], TRUE)
      BY PageReachesItsStreams
    <3>2. r \in ReachOf(PageUsers[j], TRUE)
      BY <1>1, <2>1, <3>1, SamePageSameReach
    <3>3. PICK i \in DOMAIN TrueUsers : TrueUsers[i] = PageUsers[j]
      BY <1>1, PageUser
    <3>4. PageUsers[j].id = <<"Page", j>>
      BY <1>1, PageUser
    <3>5. <<"Page", j>> \in PossibleReferrers(r)
      BY <3>2, <3>3, <3>4, ReachersArePossible
    <3>6. <<"Page", j>> = <<"Page", page>>
      BY <3>5
    <3> QED
      BY <3>6
  <2>2. page <= page
    <3>1. page \in Nat
      BY ContentsFacts
    <3> QED
      BY <3>1
  <2> DEFINE isLast(i) == file.pages[i] = owner
                          /\ \A j \in DOMAIN file.pages : file.pages[j] = owner => j <= i
  <2>3. isLast(page) /\ \A i \in DOMAIN file.pages : isLast(i) => i = page
    BY <1>1, <2>1, <2>2
  <2>4. LastIndex(owner) = CHOOSE i \in DOMAIN file.pages : isLast(i)
    BY DEF LastIndex
  <2> HIDE DEF isLast
  <2> QED
    BY <1>1, <2>3, <2>4
<1>5. Referrers(r) = {<<"Page", page>>}
  <2>1. ASSUME NEW pair \in consumers, pair[1] = r PROVE pair[2] = <<"Page", page>>
    <3>1. \/ r = file.root /\ pair[2] = RootUser.id
          \/ \E i \in DOMAIN TrueUsers : /\ TrueUsers[i].id = pair[2]
                                         /\ r \in ReachOf(TrueUsers[i], TRUE)
      BY <2>1, IndexInvSaysAll DEF ListedIsReached
    <3>2. pair[2] \in PossibleReferrers(r)
      <4>1. CASE r = file.root /\ pair[2] = RootUser.id
        BY <4>1 DEF PossibleReferrers
      <4>2. CASE \E i \in DOMAIN TrueUsers : /\ TrueUsers[i].id = pair[2]
                                             /\ r \in ReachOf(TrueUsers[i], TRUE)
        BY <4>2, ReachersArePossible
      <4> QED
        BY <3>1, <4>1, <4>2
    <3> QED
      BY <3>2
  <2>2. PICK i \in DOMAIN TrueUsers : TrueUsers[i] = PageUsers[page]
    BY <1>1, PageUser
  <2>3. PageUsers[page].id = <<"Page", page>> /\ r \in ReachOf(PageUsers[page], FALSE)
    BY <1>1, PageUser, PageReachesItsStreams
  <2> DEFINE pair == <<r, <<"Page", page>>>>
  <2>4. pair \in consumers /\ pair[1] = r /\ pair[2] = <<"Page", page>>
    BY <2>2, <2>3, IndexInvSaysAll DEF NothingMissingSilently
  <2> HIDE DEF pair
  <2>5. \E p \in consumers : p[1] = r /\ p[2] = <<"Page", page>>
    BY <2>4
  <2> QED
    BY <2>1, <2>5 DEF Referrers
<1> HIDE DEF owner
<1> QED
  BY <1>3, <1>4, <1>5 DEF InPlace

----------------------------------------------------------------------------
(* What is left alone as shared is shared.                                  *)
IsShared(entry) ==
    entry.owned /\ facts = {}
        => PossibleReferrers(entry.outcome.object) # {<<"Page", entry.outcome.page>>}

SharedInv ==
    /\ FullInv
    /\ \A k \in DOMAIN skipped : IsShared(skipped[k])

(* Once the index is done, a stream the gate refuses is.                    *)
LEMMA RefusedIsShared ==
    ASSUME IndexInv, done, NEW o \in Plannable, NEW owned,
           owned => o.located /\ ~InPlace(o.object)
    PROVE  IsShared([outcome |-> o, owned |-> owned])
<1> DEFINE entry == [outcome |-> o, owned |-> owned]
<1>1. entry.outcome = o /\ entry.owned = owned
  OBVIOUS
<1> HIDE DEF entry
<1> SUFFICES ASSUME owned, facts = {}, PossibleReferrers(o.object) = {<<"Page", o.page>>}
             PROVE  FALSE
  BY <1>1 DEF IsShared, entry
<1>2. /\ o.page \in DOMAIN file.contents /\ file.contents[o.page].inspected
      /\ o.object \in ToSet(file.contents[o.page].refs) /\ o.object \in DOMAIN file.objects
  BY DEF Plannable, Outcomes, Resolvable
<1> QED
  BY <1>2, GateOpens

(* It stays so.                                                             *)
LEMMA SharedStays ==
    ASSUME file' = file, NEW r
    PROVE  PossibleReferrers(r)' = PossibleReferrers(r)
  BY DocumentStays DEF PossibleReferrers, RootUser

(* Every step keeps it.                                                     *)
LEMMA StepKeepsSharedInv ==
    ASSUME SharedInv, [EditNext]_allVars
    PROVE  SharedInv'
<1>1. FullInv' /\ FullInv /\ EditInv /\ IndexInv /\ pending \in Seq(Plannable)
  BY StepKeepsReportInv, StepKeepsEditInv DEF SharedInv, FullInv, EditInv, GrantInv
<1>2. phase \in {"asked", "indexing"} => skipped = <<>>
  BY <1>1 DEF FullInv, ReportInv
<1>3. phase = "editing" => done
  BY <1>1 DEF EditInv, EditTypeOK
<1>4. CASE SelectPages \/ RefuseRequest \/ BuildIndex
  <2>1. skipped' = <<>>
    BY <1>2, <1>4 DEF SelectPages, RefuseRequest, BuildIndex, edit
  <2> QED
    BY <1>1, <2>1 DEF SharedInv
<1>5. ASSUME UNCHANGED vars, \A k \in DOMAIN skipped' : IsShared(skipped'[k])
      PROVE  SharedInv'
  <2>1. (\A k \in DOMAIN skipped : IsShared(skipped[k]))'
    BY <1>5, SharedStays DEF IsShared, vars, report
  <2> QED
    BY <1>1, <2>1 DEF SharedInv
<1>6. CASE StartEditing \/ EditStream \/ WriteDirtyObjects
  <2>1. UNCHANGED vars /\ skipped' = skipped
    BY <1>6 DEF StartEditing, EditStream, WriteDirtyObjects
  <2> QED
    BY <1>5, <2>1 DEF SharedInv
<1>7. CASE UNCHANGED allVars
  <2>1. UNCHANGED vars /\ skipped' = skipped
    BY <1>7 DEF allVars, edit
  <2> QED
    BY <1>5, <2>1 DEF SharedInv
<1>8. skipped \in Seq(Entries)
  BY <1>1 DEF FullInv, ReportInv, ListsOK
<1>9. CASE SkipStream \/ SkipPage
  <2>1. UNCHANGED vars /\ phase = "editing" /\ pending # <<>>
    BY <1>9 DEF SkipStream, SkipPage
  <2>2. Head(pending) \in Plannable
    BY <1>1, <2>1
  <2>3. PICK owned : /\ skipped' = Append(skipped, [outcome |-> Head(pending), owned |-> owned])
                     /\ owned => Head(pending).located /\ ~InPlace(Head(pending).object)
    BY <1>9 DEF SkipStream, SkipPage
  <2>4. IsShared([outcome |-> Head(pending), owned |-> owned])
    BY <1>1, <1>3, <2>1, <2>2, <2>3, RefusedIsShared
  <2> DEFINE last == [outcome |-> Head(pending), owned |-> owned]
  <2>5. skipped' = Append(skipped, last) /\ IsShared(last)
    BY <2>3, <2>4
  <2> HIDE DEF last
  <2>6. ASSUME NEW k \in DOMAIN skipped' PROVE IsShared(skipped'[k])
    <3>1. CASE k \in DOMAIN skipped
      BY <1>8, <2>5, <3>1 DEF SharedInv
    <3>2. CASE k \notin DOMAIN skipped
      BY <1>8, <2>5, <2>6, <3>2
    <3> QED
      BY <3>1, <3>2
  <2> QED
    BY <1>5, <2>1, <2>6
<1>10. CASE PublishPage
  <2> DEFINE page == Head(pending).page
             objects == PageObjects(page)
             own == {o \in ToSet(objects) : InPlace(o.object)}
             shared == Keeping(objects, ToSet(objects) \ own)
  <2>1. UNCHANGED vars /\ phase = "editing" /\ pending # <<>> /\ SequenceReady(file.contents[page])
    BY <1>10 DEF PublishPage
  <2>2. skipped' = skipped \o AsSkips(shared)
    BY <1>10, Zenon DEF PublishPage, PageObjects, AsSkips
  <2>3. page \in DOMAIN file.contents /\ page \in ToSet(selected)
    <3>1. Head(pending) \in Plannable
      BY <1>1, <2>1
    <3> QED
      BY <3>1 DEF Plannable, Outcomes
  <2> HIDE DEF page
  <2>4. /\ DOMAIN objects = 1 .. Len(objects) /\ Len(objects) \in Nat
        /\ \A o \in ToSet(objects) : o \in Plannable /\ o.located
    BY <1>1, <2>1, <2>3, PageObjectsArePlannable
  <2> HIDE DEF objects
  <2>5. shared \in Seq(ToSet(objects) \intersect (ToSet(objects) \ own))
    BY <2>4, KeepingElements
  <2>6. ToSet(objects) \intersect (ToSet(objects) \ own)
           \subseteq {o \in Plannable : o.located /\ ~InPlace(o.object)}
    BY <2>4
  <2> HIDE DEF shared, own
  <2>7. shared \in Seq({o \in Plannable : o.located /\ ~InPlace(o.object)})
    BY <2>5, <2>6
  <2>8. ASSUME NEW k \in DOMAIN shared PROVE IsShared(AsSkips(shared)[k])
    <3>1. shared[k] \in Plannable /\ shared[k].located /\ ~InPlace(shared[k].object)
      BY <2>7
    <3>2. AsSkips(shared)[k] = [outcome |-> shared[k], owned |-> TRUE]
      BY DEF AsSkips
    <3>3. IsShared([outcome |-> shared[k], owned |-> TRUE])
      BY <1>1, <1>3, <2>1, <3>1, RefusedIsShared
    <3> QED
      BY <3>2, <3>3
  <2>9. /\ Len(shared) \in Nat /\ DOMAIN shared = 1 .. Len(shared)
        /\ DOMAIN AsSkips(shared) = DOMAIN shared
    BY <2>7 DEF AsSkips
  <2>10. Len(AsSkips(shared)) = Len(shared)
    BY <2>9
  <2> DEFINE more == AsSkips(shared)
  <2>11. /\ Len(more) \in Nat /\ DOMAIN more = 1 .. Len(more) /\ skipped' = skipped \o more
         /\ \A k \in DOMAIN more : IsShared(more[k])
    BY <2>2, <2>8, <2>9, <2>10
  <2> HIDE DEF more
  <2>12. ASSUME NEW k \in DOMAIN skipped' PROVE IsShared(skipped'[k])
    <3>1. Len(skipped) \in Nat /\ DOMAIN skipped = 1 .. Len(skipped)
      BY <1>8
    <3>2. k \in 1 .. (Len(skipped) + Len(more))
          /\ skipped'[k] = IF k <= Len(skipped) THEN skipped[k] ELSE more[k - Len(skipped)]
      BY <2>11, <3>1
    <3>3. CASE k <= Len(skipped)
      <4>1. k \in DOMAIN skipped /\ skipped'[k] = skipped[k]
        BY <3>1, <3>2, <3>3
      <4> QED
        BY <4>1 DEF SharedInv
    <3>4. CASE ~(k <= Len(skipped))
      <4>1. k - Len(skipped) \in DOMAIN more /\ skipped'[k] = more[k - Len(skipped)]
        BY <2>11, <3>1, <3>2, <3>4
      <4> QED
        BY <2>11, <4>1
    <3> QED
      BY <3>3, <3>4
  <2> QED
    BY <1>5, <2>1, <2>12
<1> QED
  BY <1>4, <1>6, <1>7, <1>9, <1>10 DEF EditNext

(* It holds.                                                                *)
THEOREM SharedInvHolds == EditSpec => []SharedInv
<1>1. EditInit => SharedInv
  <2> SUFFICES ASSUME EditInit PROVE SharedInv
    OBVIOUS
  <2>1. FullInv
    BY NothingPlannedYet
  <2>2. skipped = <<>>
    BY DEF EditInit
  <2> QED
    BY <2>1, <2>2 DEF SharedInv
<1>2. SharedInv /\ [EditNext]_allVars => SharedInv'
  BY StepKeepsSharedInv
<1> QED
  BY <1>1, <1>2, PTL DEF EditSpec

(* The gate never refuses what it need not: if the index read the document  *)
(* whole, a located stream only its own page leads to is editable.          *)
THEOREM PrivateStreamsAreEditable == EditSpec => []PrivateStreamIsEditable
<1>1. SharedInv => PrivateStreamIsEditable
  BY DEF SharedInv, IsShared, PrivateStreamIsEditable
<1> QED
  BY <1>1, SharedInvHolds, PTL

=============================================================================
