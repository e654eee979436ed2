------------------------- MODULE ConsumerIndexProofs -------------------------
(***************************************************************************)
(* Proofs about the object consumer index of ConsumerIndex, for every set   *)
(* of documents and all four bounds.                                        *)
(***************************************************************************)
EXTENDS ConsumerIndex, NaturalOrder, FiniteSetTheorems, TLAPS

(* A concatenation has the elements of both sequences.                      *)
LEMMA ConcatElements ==
    ASSUME NEW S, NEW s \in Seq(S), NEW t \in Seq(S)
    PROVE  s \o t \in Seq(S) /\ ToSet(s \o t) = ToSet(s) \union ToSet(t)
<1>1. /\ s \o t \in Seq(S) /\ Len(s \o t) = Len(s) + Len(t)
      /\ Len(s) \in Nat /\ Len(t) \in Nat
      /\ DOMAIN s = 1 .. Len(s) /\ DOMAIN t = 1 .. Len(t)
      /\ DOMAIN (s \o t) = 1 .. (Len(s) + Len(t))
  OBVIOUS
<1>2. \A i \in 1 .. Len(s) : (s \o t)[i] = s[i] /\ i \in DOMAIN (s \o t)
  BY <1>1
<1>3. \A i \in 1 .. Len(t) : (s \o t)[Len(s) + i] = t[i] /\ Len(s) + i \in DOMAIN (s \o t)
  BY <1>1
<1>4. ASSUME NEW i \in DOMAIN (s \o t) PROVE (s \o t)[i] \in ToSet(s) \union ToSet(t)
  <2>1. CASE i <= Len(s)
    <3>1. i \in DOMAIN s /\ (s \o t)[i] = s[i]
      BY <1>1, <1>2, <2>1
    <3> QED
      BY <3>1 DEF ToSet
  <2>2. CASE ~(i <= Len(s))
    <3>1. i - Len(s) \in 1 .. Len(t) /\ i = Len(s) + (i - Len(s))
      BY <1>1, <2>2
    <3>2. (s \o t)[i] = t[i - Len(s)]
      BY <1>3, <3>1
    <3> QED
      BY <1>1, <3>1, <3>2 DEF ToSet
  <2> QED
    BY <2>1, <2>2
<1>5. ToSet(s) \subseteq ToSet(s \o t)
  BY <1>1, <1>2, Zenon DEF ToSet
<1>6. ToSet(t) \subseteq ToSet(s \o t)
  BY <1>1, <1>3, Zenon DEF ToSet
<1>7. ToSet(s \o t) \subseteq ToSet(s) \union ToSet(t)
  BY <1>4, Zenon DEF ToSet
<1> QED
  BY <1>1, <1>5, <1>6, <1>7

(* A concatenation from the left, one more sequence at a time.              *)
IsPrefixes(F, seqs, S) ==
    /\ F[0] = <<>> /\ F[Len(seqs)] = FlattenSeq(seqs)
    /\ \A i \in 0 .. Len(seqs) : F[i] \in Seq(S)
    /\ \A i \in 1 .. Len(seqs) : F[i] = F[i - 1] \o seqs[i]

(* FlattenSeq is such a concatenation.                                      *)
LEMMA FlattenPrefixes ==
    ASSUME NEW S, NEW seqs \in Seq(Seq(S))
    PROVE  \E F : IsPrefixes(F, seqs, S)
<1> DEFINE n == Len(seqs)
           IsFlat(F) == F = [i \in 1 .. n |-> IF i = 1 THEN seqs[i] ELSE F[i - 1] \o seqs[i]]
           g == [p \in Seq(S) \X (1 .. n) |-> p[1] \o seqs[p[2]]]
<1>1. n \in Nat /\ DOMAIN seqs = 1 .. n /\ \A i \in 1 .. n : seqs[i] \in Seq(S)
  OBVIOUS
<1>2. ASSUME NEW i \in 1 .. n, NEW x \in Seq(S)
      PROVE  g[<<x, i>>] = x \o seqs[i] /\ g[<<x, i>>] \in Seq(S)
  <2>1. <<x, i>> \in Seq(S) \X (1 .. n) /\ <<x, i>>[1] = x /\ <<x, i>>[2] = i
    OBVIOUS
  <2>2. g[<<x, i>>] = <<x, i>>[1] \o seqs[<<x, i>>[2]]
    BY <2>1, Zenon
  <2>3. seqs[i] \in Seq(S) /\ x \o seqs[i] \in Seq(S)
    BY <1>1
  <2> QED
    BY <2>1, <2>2, <2>3
<1> HIDE DEF g, n
<1>3. PICK E : Recursion(E, <<>>, g, Seq(S), n)
  <2>1. n \in Nat /\ Steps(g, Seq(S), n)
    BY <1>1, <1>2 DEF Steps
  <2>2. <<>> \in Seq(S)
    OBVIOUS
  <2> QED
    BY <2>1, <2>2, RecursionExists
<1>4. /\ E[0] = <<>> /\ \A i \in 0 .. n : E[i] \in Seq(S)
      /\ \A i \in 1 .. n : E[i] = E[i - 1] \o seqs[i]
  <2>1. E[0] = <<>> /\ \A i \in 0 .. n : E[i] \in Seq(S)
    <3>1. 0 \in 0 .. n
      BY <1>1
    <3> QED
      BY <1>3, <3>1 DEF Recursion
  <2>2. ASSUME NEW i \in 1 .. n PROVE E[i] = E[i - 1] \o seqs[i]
    <3>1. i \in 0 .. n /\ i - 1 \in 0 .. n /\ i # 0
      BY <1>1
    <3>2. E[i] = g[<<E[i - 1], i>>]
      BY <1>3, <3>1 DEF Recursion
    <3> QED
      BY <1>2, <2>1, <3>1, <3>2
  <2> QED
    BY <2>1, <2>2
<1>5. E[n] = FlattenSeq(seqs)
  <2>1. CASE n = 0
    <3>1. FlattenSeq(seqs) = <<>>
      <4>1. seqs = <<>>
        BY <1>1, <2>1
      <4> QED
        BY <4>1 DEF FlattenSeq
    <3> QED
      BY <1>4, <2>1, <3>1
  <2>2. CASE n # 0
    <3> DEFINE Flat == [i \in 1 .. n |-> E[i]]
               F == CHOOSE f : IsFlat(f)
    <3>1. IsFlat(Flat)
      <4>1. ASSUME NEW i \in 1 .. n PROVE E[i] = IF i = 1 THEN seqs[i] ELSE Flat[i - 1] \o seqs[i]
        <5>1. CASE i = 1
          <6> DEFINE k == i - 1
          <6>0. k = 0
            BY <5>1
          <6>1. E[i] = E[k] \o seqs[i]
            BY <1>4
          <6> HIDE DEF k
          <6>2. E[0] = <<>> /\ seqs[i] \in Seq(S)
            BY <1>1, <1>4
          <6> QED
            BY <5>1, <6>0, <6>1, <6>2
        <5>2. CASE i # 1
          <6>1. i - 1 \in 1 .. n
            BY <1>1, <5>2
          <6> QED
            BY <1>4, <5>2, <6>1
        <5> QED
          BY <5>1, <5>2
      <4> QED
        BY <4>1
    <3>2. IsFlat(F)
      BY <3>1
    <3>3. FlattenSeq(seqs) = F[n]
      BY <2>2 DEF FlattenSeq, n
    <3> DEFINE wrong == {i \in 1 .. n : F[i] # E[i]}
    <3> HIDE DEF F
    <3>4. wrong = {}
      <4> SUFFICES ASSUME wrong # {} PROVE FALSE
        OBVIOUS
      <4>1. wrong \subseteq Nat
        OBVIOUS
      <4>2. PICK i \in wrong : \A k \in wrong : i <= k
        <5> HIDE DEF wrong
        <5> QED
          BY <4>1, LeastExists
      <4>3. i \in 1 .. n /\ i \in Nat
        BY <1>1
      <4>4. F[i] = IF i = 1 THEN seqs[i] ELSE F[i - 1] \o seqs[i]
        BY <3>2, <4>3
      <4>5. CASE i = 1
        <5> DEFINE k == i - 1
        <5>0. k = 0
          BY <4>5
        <5>1. E[i] = E[k] \o seqs[i]
          BY <1>4, <4>3
        <5> HIDE DEF k
        <5>2. E[0] = <<>> /\ seqs[i] \in Seq(S)
          BY <1>1, <1>4, <4>3
        <5> QED
          BY <4>2, <4>4, <4>5, <5>0, <5>1, <5>2
      <4>6. CASE i # 1
        <5>1. i - 1 \in 1 .. n /\ ~(i <= i - 1)
          BY <1>1, <4>3, <4>6
        <5>2. F[i - 1] = E[i - 1]
          BY <4>2, <5>1
        <5> QED
          BY <1>4, <4>2, <4>3, <4>4, <4>6, <5>2
      <4> QED
        BY <4>5, <4>6
    <3>5. n \in 1 .. n
      BY <1>1, <2>2
    <3> QED
      BY <3>3, <3>4, <3>5
  <2> QED
    BY <2>1, <2>2
<1>6. IsPrefixes(E, seqs, S)
  BY <1>4, <1>5 DEF IsPrefixes, n
<1> QED
  BY <1>6

(* Flattening keeps the elements of all the sequences.                      *)
LEMMA FlattenElements ==
    ASSUME NEW S, NEW seqs \in Seq(Seq(S))
    PROVE  /\ FlattenSeq(seqs) \in Seq(S)
           /\ ToSet(FlattenSeq(seqs)) = UNION {ToSet(seqs[i]) : i \in DOMAIN seqs}
<1> DEFINE n == Len(seqs)
<1>1. n \in Nat /\ DOMAIN seqs = 1 .. n /\ \A i \in 1 .. n : seqs[i] \in Seq(S)
  OBVIOUS
<1>2. PICK F : IsPrefixes(F, seqs, S)
  BY FlattenPrefixes
<1> DEFINE wrong == {i \in 0 .. n : ToSet(F[i]) # UNION {ToSet(seqs[j]) : j \in 1 .. i}}
<1>3. /\ F[0] = <<>> /\ F[n] = FlattenSeq(seqs) /\ \A i \in 0 .. n : F[i] \in Seq(S)
      /\ \A i \in 1 .. n : F[i] = F[i - 1] \o seqs[i]
  BY <1>2 DEF IsPrefixes
<1> HIDE DEF n
<1>4. wrong = {}
  <2> SUFFICES ASSUME wrong # {} PROVE FALSE
    OBVIOUS
  <2>1. wrong \subseteq Nat
    BY <1>1
  <2>2. PICK i \in wrong : \A k \in wrong : i <= k
    <3> HIDE DEF wrong
    <3> QED
      BY <2>1, LeastExists
  <2>3. i # 0
    <3>1. ToSet(<<>>) = {} /\ 1 .. 0 = {}
      BY DEF ToSet
    <3> QED
      BY <1>3, <2>2, <3>1
  <2>4. i \in 1 .. n /\ i \in Nat /\ i - 1 \in 0 .. n /\ ~(i <= i - 1)
    BY <1>1, <2>2, <2>3
  <2>5. ToSet(F[i - 1]) = UNION {ToSet(seqs[j]) : j \in 1 .. (i - 1)}
    BY <2>2, <2>4
  <2>6. ToSet(F[i]) = ToSet(F[i - 1]) \union ToSet(seqs[i])
    <3>1. F[i] = F[i - 1] \o seqs[i] /\ F[i - 1] \in Seq(S) /\ seqs[i] \in Seq(S)
      BY <1>1, <1>3, <2>4
    <3> QED
      BY <3>1, ConcatElements
  <2>7. 1 .. i = (1 .. (i - 1)) \union {i}
    BY <2>4
  <2>8. UNION {ToSet(seqs[j]) : j \in 1 .. i}
          = (UNION {ToSet(seqs[j]) : j \in 1 .. (i - 1)}) \union ToSet(seqs[i])
    BY <2>7
  <2> QED
    BY <2>2, <2>5, <2>6, <2>8
<1>5. n \in 0 .. n
  BY <1>1
<1> QED
  BY <1>1, <1>3, <1>4, <1>5

(* Keeping keeps what it says.                                              *)
LEMMA KeepingElements ==
    ASSUME NEW s, Len(s) \in Nat, DOMAIN s = 1 .. Len(s), NEW kept
    PROVE  /\ Keeping(s, kept) \in Seq(ToSet(s) \intersect kept)
           /\ ToSet(Keeping(s, kept)) = ToSet(s) \intersect kept
<1> DEFINE S == ToSet(s) \intersect kept
           seqs == [i \in DOMAIN s |-> IF s[i] \in kept THEN <<s[i]>> ELSE <<>>]
<1>1. ASSUME NEW i \in DOMAIN s
      PROVE  seqs[i] \in Seq(S) /\ ToSet(seqs[i]) = {s[i]} \intersect kept
  <2>1. s[i] \in ToSet(s)
    BY DEF ToSet
  <2>2. CASE s[i] \in kept
    <3>1. seqs[i] = <<s[i]>> /\ s[i] \in S
      BY <2>1, <2>2
    <3> HIDE DEF S, seqs
    <3>2. <<s[i]>> \in Seq(S) /\ DOMAIN <<s[i]>> = {1}
      BY <3>1
    <3> QED
      BY <2>2, <3>1, <3>2 DEF ToSet
  <2>3. CASE s[i] \notin kept
    <3>1. seqs[i] = <<>> /\ <<>> \in Seq(S) /\ DOMAIN <<>> = {}
      BY <2>3
    <3> HIDE DEF S, seqs
    <3> QED
      BY <2>3, <3>1 DEF ToSet
  <2> QED
    BY <2>2, <2>3
<1>2. seqs \in Seq(Seq(S)) /\ DOMAIN seqs = DOMAIN s
  <2>1. seqs = [i \in 1 .. Len(s) |-> seqs[i]]
    OBVIOUS
  <2>2. \A i \in 1 .. Len(s) : seqs[i] \in Seq(S)
    BY <1>1
  <2> HIDE DEF seqs, S
  <2> QED
    BY <2>1, <2>2
<1>3. Keeping(s, kept) = FlattenSeq(seqs)
  BY DEF Keeping
<1> HIDE DEF seqs
<1>4. /\ FlattenSeq(seqs) \in Seq(S)
      /\ ToSet(FlattenSeq(seqs)) = UNION {ToSet(seqs[i]) : i \in DOMAIN seqs}
  <2> HIDE DEF S
  <2> QED
    BY <1>2, FlattenElements
<1>5. UNION {ToSet(seqs[i]) : i \in DOMAIN seqs} = S
  <2>1. \A i \in DOMAIN seqs : ToSet(seqs[i]) = {s[i]} \intersect kept
    BY <1>1, <1>2
  <2>2. S = UNION {{s[i]} \intersect kept : i \in DOMAIN seqs}
    BY <1>2 DEF ToSet
  <2> HIDE DEF S
  <2> QED
    BY <2>1, <2>2
<1> QED
  BY <1>3, <1>4, <1>5

----------------------------------------------------------------------------
(* The users of a document.                                                 *)
TrailerUsers == KeyUsers("TrailerKey", Without(file.trailer, "Root"))
CatalogUsers == KeyUsers("RootKey", file.objects[file.root].entries)

IsUser(u) ==
    /\ u.seeds.refs \in Seq(References) /\ u.seeds.lost \in Seq(References)
    /\ u.tree \in BOOLEAN
    /\ u.id = RootUser.id => u = RootUser
    /\ \A p : u.id = <<"Page", p>> => p \in DOMAIN file.pages /\ u = PageUsers[p]

(* A list of keys stays one without some of them.                           *)
LEMMA WithoutIsEntryList ==
    ASSUME NEW entries, IsEntryList(entries), NEW key
    PROVE  /\ IsEntryList(Without(entries, key))
           /\ ToSet(Without(entries, key)) = {e \in ToSet(entries) : e.key # key}
<1> DEFINE kept == {e \in ToSet(entries) : e.key # key}
           rest == Without(entries, key)
<1>1. rest \in Seq(ToSet(entries) \intersect kept) /\ ToSet(rest) = ToSet(entries) \intersect kept
  BY KeepingElements DEF Without, IsEntryList
<1>2. ToSet(entries) \intersect kept = kept
  OBVIOUS
<1> HIDE DEF rest
<1>3. \A e \in kept : /\ DOMAIN e = {"key", "refs", "lost"}
                      /\ e.refs \in Seq(References) /\ e.lost \in Seq(References)
  BY DEF IsEntryList, ToSet
<1> HIDE DEF kept
<1>4. Len(rest) \in Nat /\ DOMAIN rest = 1 .. Len(rest) /\ \A i \in DOMAIN rest : rest[i] \in kept
  BY <1>1, <1>2
<1>5. IsEntryList(rest)
  BY <1>3, <1>4 DEF IsEntryList
<1> QED
  BY <1>1, <1>2, <1>5 DEF rest, kept

(* Each key is a user.                                                      *)
LEMMA KeyUsersAreUsers ==
    ASSUME NEW kind \in {"TrailerKey", "RootKey"}, NEW entries, IsEntryList(entries)
    PROVE  /\ KeyUsers(kind, entries) \in Seq(ToSet(KeyUsers(kind, entries)))
           /\ \A u \in ToSet(KeyUsers(kind, entries)) : IsUser(u)
<1> DEFINE users == KeyUsers(kind, entries)
<1>1. /\ Len(entries) \in Nat /\ DOMAIN users = 1 .. Len(entries)
      /\ users = [i \in 1 .. Len(entries) |-> users[i]]
  BY DEF IsEntryList, KeyUsers
<1>2. \A i \in 1 .. Len(entries) : users[i] \in ToSet(users)
  BY <1>1 DEF ToSet
<1>3. ASSUME NEW i \in DOMAIN entries PROVE IsUser(users[i])
  <2>1. users[i] = [id |-> <<kind, entries[i].key>>, seeds |-> entries[i],
                    own |-> {}, tree |-> kind = "RootKey" /\ entries[i].key = "Pages"]
    BY DEF KeyUsers
  <2>2. entries[i].refs \in Seq(References) /\ entries[i].lost \in Seq(References)
    BY DEF IsEntryList
  <2>3. /\ users[i].seeds = entries[i] /\ users[i].id = <<kind, entries[i].key>>
        /\ users[i].tree = (kind = "RootKey" /\ entries[i].key = "Pages")
    BY <2>1
  <2>4. \A p : users[i].id # <<"Page", p>>
    BY <2>3
  <2>5. users[i].id # RootUser.id
    BY <2>3 DEF RootUser
  <2>6. users[i].tree \in BOOLEAN
    BY <2>3
  <2> HIDE DEF users
  <2> QED
    BY <2>2, <2>3, <2>4, <2>5, <2>6 DEF IsUser
<1>4. users \in Seq(ToSet(users))
  <2> HIDE DEF users
  <2> QED
    BY <1>1, <1>2
<1>5. \A u \in ToSet(users) : IsUser(u)
  BY <1>1, <1>3 DEF ToSet, IsEntryList
<1> QED
  BY <1>4, <1>5

(* So are the catalog and each page.                                        *)
LEMMA PagesAreUsers ==
    ASSUME IsFile(file)
    PROVE  /\ IsUser(RootUser)
           /\ PageUsers \in Seq(ToSet(PageUsers))
           /\ \A u \in ToSet(PageUsers) : IsUser(u)
<1>1. Len(file.pages) \in Nat /\ DOMAIN file.pages = 1 .. Len(file.pages)
      /\ \A i \in DOMAIN file.pages : file.pages[i] \in References
  BY DEF IsFile
<1>2. /\ DOMAIN PageUsers = 1 .. Len(file.pages)
      /\ PageUsers = [i \in 1 .. Len(file.pages) |-> PageUsers[i]]
  BY <1>1 DEF PageUsers
<1>3. \A i \in 1 .. Len(file.pages) : PageUsers[i] \in ToSet(PageUsers)
  BY <1>2 DEF ToSet
<1>4. PageUsers \in Seq(ToSet(PageUsers))
  BY <1>1, <1>2, <1>3
<1>5. ASSUME NEW i \in DOMAIN file.pages PROVE IsUser(PageUsers[i])
  <2> DEFINE refs == <<file.pages[i]>>
             id == <<"Page", i>>
             own == {Number(file.pages[i])}
             none == <<>>
             seeds == [key |-> "", refs |-> refs, lost |-> none]
  <2>1. PageUsers[i] = [id |-> id, seeds |-> seeds, own |-> own, tree |-> FALSE]
    BY DEF PageUsers
  <2>2. PageUsers[i].seeds.refs = <<file.pages[i]>> /\ PageUsers[i].seeds.lost = <<>>
        /\ PageUsers[i].tree = FALSE /\ PageUsers[i].id = <<"Page", i>>
    <3> HIDE DEF seeds, id, own, refs, none
    <3>1. PageUsers[i].seeds = seeds /\ PageUsers[i].tree = FALSE /\ PageUsers[i].id = id
      BY <2>1
    <3>2. seeds.refs = refs /\ seeds.lost = none
      BY DEF seeds
    <3> QED
      BY <3>1, <3>2 DEF id, refs, none
  <2>3. <<file.pages[i]>> \in Seq(References) /\ <<>> \in Seq(References)
    BY <1>1
  <2>4. PageUsers[i].id # RootUser.id
    BY <2>2 DEF RootUser
  <2>5. \A p : PageUsers[i].id = <<"Page", p>> => p = i
    BY <2>2
  <2> QED
    BY <2>2, <2>3, <2>4, <2>5 DEF IsUser
<1>6. \A u \in ToSet(PageUsers) : IsUser(u)
  BY <1>1, <1>2, <1>5 DEF ToSet
<1>7. IsUser(RootUser)
  <2>1. RootUser.seeds.refs = <<>> /\ RootUser.seeds.lost = <<>> /\ RootUser.tree = FALSE
        /\ RootUser.id = <<"Root", "Root">>
    BY DEF RootUser, NoSeeds
  <2>2. <<>> \in Seq(References)
    OBVIOUS
  <2>3. \A p : RootUser.id # <<"Page", p>>
    BY <2>1
  <2> QED
    BY <2>1, <2>2, <2>3 DEF IsUser
<1> QED
  BY <1>4, <1>6, <1>7

(* Who the users are, whatever of the trailer and the catalog can be read.  *)
LEMMA UserElements ==
    ASSUME IsFile(file), NEW trailerRead \in BOOLEAN, NEW catalogRead \in BOOLEAN,
           catalogRead => file.root \in DOMAIN file.objects
    PROVE  /\ UsersWith(trailerRead, catalogRead) \in Seq(ToSet(UsersWith(trailerRead, catalogRead)))
           /\ ToSet(UsersWith(trailerRead, catalogRead))
                = (IF trailerRead THEN ToSet(TrailerUsers) ELSE {}) \union {RootUser}
                  \union (IF catalogRead THEN ToSet(CatalogUsers) ELSE {}) \union ToSet(PageUsers)
           /\ \A u \in ToSet(UsersWith(trailerRead, catalogRead)) : IsUser(u)
<1> DEFINE first == IF trailerRead THEN TrailerUsers ELSE <<>>
           third == IF catalogRead THEN CatalogUsers ELSE <<>>
           all == ToSet(first) \union {RootUser} \union ToSet(third) \union ToSet(PageUsers)
<1>1. ToSet(<<>>) = {} /\ ToSet(<<RootUser>>) = {RootUser}
  BY DEF ToSet
<1>2. first \in Seq(ToSet(first)) /\ \A u \in ToSet(first) : IsUser(u)
  <2>1. CASE trailerRead
    <3>1. IsEntryList(Without(file.trailer, "Root"))
      BY WithoutIsEntryList DEF IsFile
    <3>2. /\ TrailerUsers \in Seq(ToSet(TrailerUsers))
          /\ \A u \in ToSet(TrailerUsers) : IsUser(u)
      BY <3>1, KeyUsersAreUsers DEF TrailerUsers
    <3> QED
      BY <2>1, <3>2
  <2>2. CASE ~trailerRead
    <3>1. first = <<>> /\ <<>> \in Seq({})
      BY <2>2
    <3> HIDE DEF first
    <3> QED
      BY <1>1, <3>1
  <2> QED
    BY <2>1, <2>2
<1>3. third \in Seq(ToSet(third)) /\ \A u \in ToSet(third) : IsUser(u)
  <2>1. CASE catalogRead
    <3>1. IsEntryList(file.objects[file.root].entries)
      BY <2>1 DEF IsFile
    <3>2. /\ CatalogUsers \in Seq(ToSet(CatalogUsers))
          /\ \A u \in ToSet(CatalogUsers) : IsUser(u)
      BY <3>1, KeyUsersAreUsers DEF CatalogUsers
    <3> QED
      BY <2>1, <3>2
  <2>2. CASE ~catalogRead
    <3>1. third = <<>> /\ <<>> \in Seq({})
      BY <2>2
    <3> HIDE DEF third
    <3> QED
      BY <1>1, <3>1
  <2> QED
    BY <2>1, <2>2
<1>4. UsersWith(trailerRead, catalogRead) = ((first \o <<RootUser>>) \o third) \o PageUsers
  BY DEF UsersWith, TrailerUsers, CatalogUsers
<1>5. \A u \in all : IsUser(u)
  BY <1>2, <1>3, PagesAreUsers
<1>6. PageUsers \in Seq(ToSet(PageUsers))
  BY PagesAreUsers
<1> HIDE DEF first, third
<1>7. first \in Seq(all) /\ third \in Seq(all) /\ <<RootUser>> \in Seq(all) /\ PageUsers \in Seq(all)
  <2>1. \A S : S \subseteq all => Seq(S) \subseteq Seq(all)
    <3> HIDE DEF all
    <3> QED
      OBVIOUS
  <2>2. ToSet(first) \subseteq all /\ ToSet(third) \subseteq all /\ ToSet(PageUsers) \subseteq all
        /\ RootUser \in all
    OBVIOUS
  <2> HIDE DEF all
  <2>3. <<RootUser>> \in Seq(all)
    BY <2>2
  <2> QED
    BY <1>2, <1>3, <1>6, <2>1, <2>2, <2>3, Zenon
<1> DEFINE whole == ((first \o <<RootUser>>) \o third) \o PageUsers
<1>8. whole \in Seq(all) /\ ToSet(whole) = all
  <2> HIDE DEF all
  <2>1. \A a \in Seq(all), b \in Seq(all) :
            a \o b \in Seq(all) /\ ToSet(a \o b) = ToSet(a) \union ToSet(b)
    BY ConcatElements
  <2> HIDE DEF whole
  <2> DEFINE root == <<RootUser>>
  <2>2. root \in Seq(all) /\ ToSet(root) = {RootUser}
    BY <1>1, <1>7
  <2>3. whole = ((first \o root) \o third) \o PageUsers
    BY DEF whole
  <2> HIDE DEF root
  <2>4. first \o root \in Seq(all) /\ ToSet(first \o root) = ToSet(first) \union ToSet(root)
    BY <1>7, <2>1, <2>2, Zenon
  <2>5. /\ (first \o root) \o third \in Seq(all)
        /\ ToSet((first \o root) \o third) = ToSet(first \o root) \union ToSet(third)
    BY <1>7, <2>1, <2>4, Zenon
  <2>6. /\ whole \in Seq(all)
        /\ ToSet(whole) = ToSet((first \o root) \o third) \union ToSet(PageUsers)
    BY <1>7, <2>1, <2>3, <2>5, Zenon
  <2> QED
    BY <2>2, <2>4, <2>5, <2>6 DEF all
<1>9. /\ ToSet(first) = IF trailerRead THEN ToSet(TrailerUsers) ELSE {}
      /\ ToSet(third) = IF catalogRead THEN ToSet(CatalogUsers) ELSE {}
  BY <1>1 DEF first, third
<1> HIDE DEF whole
<1> QED
  BY <1>4, <1>5, <1>8, <1>9 DEF whole

(* The users of the traversal are true ones, and all of them when trailer   *)
(* and catalog were read.                                                   *)
LEMMA UsersAreTrue ==
    ASSUME IsFile(file)
    PROVE  /\ Users \in Seq(ToSet(Users)) /\ TrueUsers \in Seq(ToSet(TrueUsers))
           /\ \A u \in ToSet(TrueUsers) : IsUser(u)
           /\ ToSet(Users) \subseteq ToSet(TrueUsers)
           /\ file.trailerOk /\ CatalogReadable => Users = TrueUsers
           /\ ToSet(PageUsers) \subseteq ToSet(TrueUsers)
<1>1. file.trailerOk \in BOOLEAN /\ CatalogReadable \in BOOLEAN
      /\ (file.root \in DOMAIN file.objects) \in BOOLEAN
      /\ (CatalogReadable => file.root \in DOMAIN file.objects)
  BY DEF IsFile, CatalogReadable, Resolvable
<1> DEFINE live == file.root \in DOMAIN file.objects
<1>2. /\ Users \in Seq(ToSet(Users))
      /\ ToSet(Users)
           = (IF file.trailerOk THEN ToSet(TrailerUsers) ELSE {}) \union {RootUser}
             \union (IF CatalogReadable THEN ToSet(CatalogUsers) ELSE {}) \union ToSet(PageUsers)
  <2> HIDE DEF live
  <2> QED
    BY <1>1, UserElements DEF Users
<1>3. /\ TrueUsers \in Seq(ToSet(TrueUsers))
      /\ ToSet(TrueUsers)
           = (IF TRUE THEN ToSet(TrailerUsers) ELSE {}) \union {RootUser}
             \union (IF live THEN ToSet(CatalogUsers) ELSE {}) \union ToSet(PageUsers)
      /\ \A u \in ToSet(TrueUsers) : IsUser(u)
  <2>1. live => file.root \in DOMAIN file.objects
    OBVIOUS
  <2>2. live \in BOOLEAN /\ TrueUsers = UsersWith(TRUE, live)
    BY DEF TrueUsers
  <2> HIDE DEF live
  <2> QED
    BY <2>1, <2>2, UserElements
<1>4. file.trailerOk /\ CatalogReadable => Users = TrueUsers
  <2> SUFFICES ASSUME file.trailerOk, CatalogReadable PROVE Users = TrueUsers
    OBVIOUS
  <2>1. file.trailerOk = TRUE /\ CatalogReadable = TRUE /\ (file.root \in DOMAIN file.objects) = TRUE
    BY <1>1
  <2> QED
    BY <2>1 DEF Users, TrueUsers
<1> QED
  BY <1>1, <1>2, <1>3, <1>4

----------------------------------------------------------------------------
(* What a user reaches is the least set that holds its seeds and is closed  *)
(* under the edges it may follow.                                           *)
Horizon == Cardinality(DOMAIN file.objects) + 1

Spread(user, near, withParent) ==
    UNION {EdgesFor(user, r, withParent) : r \in {q \in near : ~EndsAt(user, q)}}

IsLevels(L, user, withParent) ==
    L = [k \in 0 .. Horizon |-> IF k = 0 THEN Followed(user.seeds)
                                ELSE L[k - 1] \union Spread(user, L[k - 1], withParent)]

IsClosed(near, user, withParent) ==
    \A q \in near : ~EndsAt(user, q) => EdgesFor(user, q, withParent) \subseteq near

(* Only references are followed.                                            *)
LEMMA EdgesAreReferences ==
    ASSUME IsFile(file), NEW user, NEW r, ~EndsAt(user, r), NEW withParent
    PROVE  EdgesFor(user, r, withParent) \subseteq References
<1>1. r \in DOMAIN file.objects
  BY DEF EndsAt
<1>2. IsEntryList(file.objects[r].entries)
  BY <1>1 DEF IsFile
<1>3. ASSUME NEW s \in Seq(References) PROVE ToSet(s) \subseteq References
  BY DEF ToSet
<1>4. \A i \in DOMAIN file.objects[r].entries : Followed(file.objects[r].entries[i]) \subseteq References
  BY <1>2, <1>3 DEF IsEntryList, Followed
<1> QED
  BY <1>4 DEF EdgesFor

(* The levels of ReachOf are defined by recursion, so they have to be shown *)
(* to exist.                                                                *)
LEMMA LevelsExist ==
    ASSUME IsFile(file), NEW user, IsUser(user), NEW withParent
    PROVE  \E L : IsLevels(L, user, withParent) /\ \A k \in 0 .. Horizon : L[k] \subseteq References
<1> DEFINE X == SUBSET References
           step(S) == S \union Spread(user, S, withParent)
           g == [p \in X \X (1 .. Horizon) |-> step(p[1])]
           seeds == Followed(user.seeds)
<1>1. Horizon \in Nat /\ IsFiniteSet(DOMAIN file.objects)
  BY FS_CardinalityType DEF Horizon, IsFile
<1>2. seeds \in X
  BY DEF Followed, ToSet, IsUser
<1>3. ASSUME NEW S \in X PROVE step(S) \in X
  BY EdgesAreReferences DEF Spread
<1>4. ASSUME NEW k \in 1 .. Horizon, NEW S \in X PROVE g[<<S, k>>] = step(S)
  <2> HIDE DEF X, step
  <2>1. <<S, k>> \in X \X (1 .. Horizon) /\ <<S, k>>[1] = S
    OBVIOUS
  <2>2. g[<<S, k>>] = step(<<S, k>>[1])
    BY <2>1, Zenon
  <2> QED
    BY <2>1, <2>2
<1> HIDE DEF X, g, step, seeds
<1>5. Steps(g, X, Horizon)
  BY <1>3, <1>4 DEF Steps
<1>6. PICK L : Recursion(L, seeds, g, X, Horizon)
  BY <1>1, <1>2, <1>5, RecursionExists
<1>7. \A k \in 0 .. Horizon : L[k] \in X
  BY <1>6 DEF Recursion
<1>8. ASSUME NEW k \in 0 .. Horizon
      PROVE  L[k] = IF k = 0 THEN seeds ELSE L[k - 1] \union Spread(user, L[k - 1], withParent)
  <2>1. L[k] = IF k = 0 THEN seeds ELSE g[<<L[k - 1], k>>]
    BY <1>6 DEF Recursion
  <2>2. CASE k # 0
    <3>1. k \in 1 .. Horizon /\ k - 1 \in 0 .. Horizon
      BY <1>1, <2>2
    <3>2. g[<<L[k - 1], k>>] = step(L[k - 1])
      BY <1>4, <1>7, <3>1
    <3> QED
      BY <2>1, <2>2, <3>2 DEF step
  <2> QED
    BY <2>1, <2>2
<1>9. L = [k \in 0 .. Horizon |-> L[k]]
  BY <1>6 DEF Recursion
<1>10. IsLevels(L, user, withParent)
  BY <1>8, <1>9 DEF IsLevels, seeds
<1> QED
  BY <1>7, <1>10 DEF X

(* ReachOf is the last of some levels, cut down to the live objects.        *)
LEMMA ReachIsLastLevel ==
    ASSUME IsFile(file), NEW user, IsUser(user), NEW withParent
    PROVE  \E L : /\ IsLevels(L, user, withParent)
                  /\ ReachOf(user, withParent) = L[Horizon] \intersect DOMAIN file.objects
<1> DEFINE L == CHOOSE L : IsLevels(L, user, withParent)
<1>1. IsLevels(L, user, withParent)
  BY LevelsExist
<1>2. ReachOf(user, withParent) = L[Horizon] \intersect DOMAIN file.objects
  BY DEF ReachOf, IsLevels, Horizon, Spread
<1> QED
  BY <1>1, <1>2

(* Level by level: the seeds first, then what was there and what it leads   *)
(* to.                                                                      *)
LEMMA LevelByLevel ==
    ASSUME IsFile(file), NEW user, NEW withParent, NEW L, IsLevels(L, user, withParent)
    PROVE  /\ Horizon \in Nat /\ Horizon # 0
           /\ L[0] = Followed(user.seeds)
           /\ \A k \in 1 .. Horizon : L[k] = L[k - 1] \union Spread(user, L[k - 1], withParent)
<1>1. Horizon \in Nat /\ Horizon # 0
  BY FS_CardinalityType DEF Horizon, IsFile
<1>2. \A k \in 0 .. Horizon : L[k] = IF k = 0 THEN Followed(user.seeds)
                                     ELSE L[k - 1] \union Spread(user, L[k - 1], withParent)
  BY DEF IsLevels
<1>3. \A k \in 1 .. Horizon : k \in 0 .. Horizon /\ k # 0
  BY <1>1
<1>4. 0 \in 0 .. Horizon
  BY <1>1
<1> QED
  BY <1>1, <1>2, <1>3, <1>4

(* Nothing closed that holds the seeds is smaller.                          *)
LEMMA ReachIsLeast ==
    ASSUME IsFile(file), NEW user, IsUser(user), NEW withParent,
           NEW near, Followed(user.seeds) \subseteq near, IsClosed(near, user, withParent)
    PROVE  ReachOf(user, withParent) \subseteq near
<1>1. PICK L : /\ IsLevels(L, user, withParent)
               /\ ReachOf(user, withParent) = L[Horizon] \intersect DOMAIN file.objects
  BY ReachIsLastLevel
<1>2. /\ Horizon \in Nat /\ L[0] = Followed(user.seeds)
      /\ \A k \in 1 .. Horizon : L[k] = L[k - 1] \union Spread(user, L[k - 1], withParent)
  BY <1>1, LevelByLevel
<1> DEFINE beyond == {k \in 0 .. Horizon : ~(L[k] \subseteq near)}
<1>3. beyond = {}
  <2> SUFFICES ASSUME beyond # {} PROVE FALSE
    OBVIOUS
  <2>1. beyond \subseteq Nat
    OBVIOUS
  <2>2. PICK k \in beyond : \A m \in beyond : k <= m
    <3> HIDE DEF beyond
    <3> QED
      BY <2>1, LeastExists
  <2>3. k # 0
    BY <1>2, <2>2
  <2>4. k \in 1 .. Horizon /\ k - 1 \in 0 .. Horizon /\ ~(k <= k - 1)
    BY <1>2, <2>2, <2>3
  <2>5. L[k - 1] \subseteq near
    BY <2>2, <2>4
  <2>6. Spread(user, L[k - 1], withParent) \subseteq near
    BY <2>5 DEF Spread, IsClosed
  <2>7. L[k] \subseteq near
    BY <1>2, <2>4, <2>5, <2>6
  <2> QED
    BY <2>2, <2>7
<1>4. Horizon \in 0 .. Horizon
  BY <1>2
<1> QED
  BY <1>1, <1>3, <1>4

(* Levels only grow.                                                        *)
LEMMA LevelsGrow ==
    ASSUME IsFile(file), NEW user, NEW withParent, NEW L, IsLevels(L, user, withParent),
           NEW k \in 0 .. Horizon, NEW m \in 0 .. Horizon, k <= m
    PROVE  L[k] \subseteq L[m]
<1>1. /\ Horizon \in Nat
      /\ \A j \in 1 .. Horizon : L[j] = L[j - 1] \union Spread(user, L[j - 1], withParent)
  BY LevelByLevel
<1> DEFINE smaller == {j \in k .. m : ~(L[k] \subseteq L[j])}
<1>2. smaller = {}
  <2> SUFFICES ASSUME smaller # {} PROVE FALSE
    OBVIOUS
  <2>1. smaller \subseteq Nat
    OBVIOUS
  <2>2. PICK j \in smaller : \A i \in smaller : j <= i
    <3> HIDE DEF smaller
    <3> QED
      BY <2>1, LeastExists
  <2>3. j # k
    BY <2>2
  <2>4. j - 1 \in k .. m /\ j \in 1 .. Horizon /\ ~(j <= j - 1)
    BY <1>1, <2>3
  <2>5. L[k] \subseteq L[j - 1]
    BY <2>2, <2>4
  <2>6. L[j - 1] \subseteq L[j]
    BY <1>1, <2>4
  <2> QED
    BY <2>2, <2>5, <2>6
<1>3. m \in k .. m
  BY <1>1
<1> QED
  BY <1>2, <1>3

(* The last level is closed: until one level adds no object to expand, each *)
(* adds one at least, and there is one level more than there are objects.   *)
LEMMA LastLevelIsClosed ==
    ASSUME IsFile(file), NEW user, NEW withParent, NEW L, IsLevels(L, user, withParent)
    PROVE  IsClosed(L[Horizon], user, withParent)
<1> DEFINE count == Cardinality(DOMAIN file.objects)
           inner(k) == {q \in L[k] : ~EndsAt(user, q)}
<1>1. /\ Horizon \in Nat /\ count \in Nat /\ Horizon = count + 1
      /\ \A k \in 1 .. Horizon : L[k] = L[k - 1] \union Spread(user, L[k - 1], withParent)
  BY LevelByLevel, FS_CardinalityType DEF Horizon, IsFile
<1> HIDE DEF count
<1>2. \A k : inner(k) \subseteq DOMAIN file.objects
  BY DEF EndsAt
<1>3. \A k : IsFiniteSet(inner(k)) /\ Cardinality(inner(k)) \in Nat /\ Cardinality(inner(k)) <= count
  BY <1>2, FS_Subset, FS_CardinalityType DEF IsFile, count
<1> SUFFICES ASSUME NEW q \in L[Horizon], ~EndsAt(user, q),
                    NEW x \in EdgesFor(user, q, withParent), x \notin L[Horizon]
             PROVE  FALSE
  BY DEF IsClosed
<1>4. ASSUME NEW k \in 1 .. Horizon, inner(k) \subseteq inner(k - 1)
      PROVE  FALSE
  <2> DEFINE grown == {m \in k .. Horizon : ~(L[m] \subseteq L[k])}
  <2>1. Spread(user, L[k - 1], withParent) \subseteq L[k]
    BY <1>1
  <2>2. grown = {}
    <3> SUFFICES ASSUME grown # {} PROVE FALSE
      OBVIOUS
    <3>1. grown \subseteq Nat
      OBVIOUS
    <3>2. PICK m \in grown : \A j \in grown : m <= j
      <4> HIDE DEF grown
      <4> QED
        BY <3>1, LeastExists
    <3>3. m # k
      BY <3>2
    <3>4. m - 1 \in k .. Horizon /\ m \in 1 .. Horizon /\ ~(m <= m - 1)
      BY <1>1, <3>3
    <3>5. L[m - 1] \subseteq L[k]
      BY <3>2, <3>4
    <3>6. inner(m - 1) \subseteq inner(k - 1)
      BY <1>4, <3>5
    <3>7. Spread(user, L[m - 1], withParent) \subseteq Spread(user, L[k - 1], withParent)
      BY <3>6 DEF Spread
    <3>8. L[m] \subseteq L[k]
      BY <1>1, <2>1, <3>4, <3>5, <3>7
    <3> QED
      BY <3>2, <3>8
  <2>3. Horizon \in k .. Horizon
    BY <1>1
  <2>4. L[Horizon] \subseteq L[k]
    BY <2>2, <2>3
  <2>5. q \in inner(k - 1)
    BY <1>4, <2>4
  <2>6. x \in Spread(user, L[k - 1], withParent)
    BY <2>5 DEF Spread
  <2>7. k \in 0 .. Horizon /\ Horizon \in 0 .. Horizon /\ k <= Horizon
    BY <1>1
  <2>8. L[k] \subseteq L[Horizon]
    BY <2>7, LevelsGrow
  <2> QED
    BY <2>1, <2>6, <2>8
<1> DEFINE few == {k \in 0 .. Horizon : ~(k <= Cardinality(inner(k)))}
<1>5. few = {}
  <2> SUFFICES ASSUME few # {} PROVE FALSE
    OBVIOUS
  <2>1. few \subseteq Nat
    OBVIOUS
  <2>2. PICK k \in few : \A m \in few : k <= m
    <3> HIDE DEF few
    <3> QED
      BY <2>1, LeastExists
  <2>3. k # 0
    <3>1. Cardinality(inner(k)) \in Nat
      BY <1>3
    <3> QED
      BY <2>2, <3>1
  <2>4. k - 1 \in 0 .. Horizon /\ k \in 1 .. Horizon /\ k \in 0 .. Horizon /\ ~(k <= k - 1)
    BY <1>1, <2>3
  <2>5. k - 1 <= Cardinality(inner(k - 1))
    BY <2>2, <2>4
  <2>6. L[k - 1] \subseteq L[k]
    BY <1>1, <2>4
  <2>7. inner(k - 1) \subseteq inner(k) /\ inner(k - 1) # inner(k)
    BY <1>4, <2>4, <2>6
  <2> HIDE DEF inner
  <2>8. /\ Cardinality(inner(k - 1)) <= Cardinality(inner(k))
        /\ Cardinality(inner(k - 1)) # Cardinality(inner(k))
    BY <1>3, <2>7, FS_Subset
  <2>9. Cardinality(inner(k - 1)) \in Nat /\ Cardinality(inner(k)) \in Nat
    BY <1>3
  <2>10. k <= Cardinality(inner(k))
    BY <2>4, <2>5, <2>8, <2>9
  <2> QED
    BY <2>2, <2>10
<1>6. Horizon \in 0 .. Horizon
  BY <1>1
<1>7. Horizon <= Cardinality(inner(Horizon))
  BY <1>5, <1>6
<1> HIDE DEF inner
<1> QED
  BY <1>1, <1>3, <1>7

(* So the objects a user reaches are its seeds and what they lead to.       *)
LEMMA ReachIsClosed ==
    ASSUME IsFile(file), NEW user, IsUser(user), NEW withParent
    PROVE  /\ Followed(user.seeds) \intersect DOMAIN file.objects \subseteq ReachOf(user, withParent)
           /\ \A r \in ReachOf(user, withParent) :
                 ~EndsAt(user, r) =>
                    EdgesFor(user, r, withParent) \intersect DOMAIN file.objects
                       \subseteq ReachOf(user, withParent)
           /\ ReachOf(user, withParent) \subseteq DOMAIN file.objects
<1>1. PICK L : /\ IsLevels(L, user, withParent)
               /\ ReachOf(user, withParent) = L[Horizon] \intersect DOMAIN file.objects
  BY ReachIsLastLevel
<1>2. IsClosed(L[Horizon], user, withParent)
  BY <1>1, LastLevelIsClosed
<1>3. Horizon \in Nat /\ L[0] = Followed(user.seeds)
  BY <1>1, LevelByLevel
<1>4. 0 \in 0 .. Horizon /\ Horizon \in 0 .. Horizon /\ 0 <= Horizon
  BY <1>3
<1>5. Followed(user.seeds) \subseteq L[Horizon]
  BY <1>1, <1>3, <1>4, LevelsGrow
<1> QED
  BY <1>1, <1>2, <1>5 DEF IsClosed

----------------------------------------------------------------------------
(* What a scan's references make of the report and the walk.                *)
Ids == {u.id : u \in ToSet(Users)}

FactKinds ==
    {"MaxRecordedPairs", "MaxTraversalDepth", "MaxVisitedNodes", "MaxExpandedNodes",
     "ReferenceShapes", "BodyScan", "UnresolvedEdge", "MaxDecodedObjectStreamBytes",
     "NewestTrailerDictionary", "CatalogDictionary"}

States == [visited : SUBSET References, worklist : Seq(References \X Nat),
           consumers : SUBSET (References \X Ids), facts : SUBSET FactKinds,
           stopped : BOOLEAN]

Waiting(s) == {s.worklist[i][1] : i \in DOMAIN s.worklist}

Bounded(s) ==
    /\ IsFiniteSet(s.visited) /\ Cardinality(s.visited) <= MaxVisited
    /\ IsFiniteSet(s.consumers) /\ Cardinality(s.consumers) <= MaxPairs
    /\ s.stopped => s.facts \intersect {"MaxExpandedNodes", "MaxRecordedPairs"} # {}

Grows(s, t) ==
    /\ s.visited \subseteq t.visited /\ s.consumers \subseteq t.consumers
    /\ s.facts \subseteq t.facts

IsForeignPage(target) == target \in KnownPages /\ Number(target) \notin User.own

(* Registered if it is another page, else visited.                          *)
Handled(s, target) ==
    IF IsForeignPage(target) THEN <<target, User.id>> \in s.consumers ELSE target \in s.visited

Takes(s, t, targets) ==
    /\ t \in States
    /\ Grows(s, t)
    /\ Bounded(s) => Bounded(t)
    /\ t.visited \subseteq s.visited \union {x \in targets : ~IsForeignPage(x)}
    /\ t.consumers \subseteq s.consumers \union {<<x, User.id>> : x \in targets \intersect KnownPages}
    /\ Waiting(t) = Waiting(s) \union (t.visited \ s.visited)
    /\ t.facts = {} => \A x \in targets : Handled(t, x)

(* Handling no targets changes nothing ...                                  *)
LEMMA TakesNothing ==
    ASSUME NEW s \in States
    PROVE  Takes(s, s, {})
  BY DEF Takes, Grows

(* ... and handling some and then others handles all of them.               *)
LEMMA TakesCompose ==
    ASSUME NEW s, NEW t, NEW u, NEW X, NEW Y, Takes(s, t, X), Takes(t, u, Y)
    PROVE  Takes(s, u, X \union Y)
<1>1. u \in States /\ Grows(s, u) /\ (Bounded(s) => Bounded(u))
  BY DEF Takes, Grows
<1>2. /\ u.visited \subseteq s.visited \union {x \in X \union Y : ~IsForeignPage(x)}
      /\ u.consumers \subseteq s.consumers
           \union {<<x, User.id>> : x \in (X \union Y) \intersect KnownPages}
  <2>1. {<<x, User.id>> : x \in X \intersect KnownPages}
          \union {<<x, User.id>> : x \in Y \intersect KnownPages}
        = {<<x, User.id>> : x \in (X \union Y) \intersect KnownPages}
    OBVIOUS
  <2> QED
    BY <2>1 DEF Takes
<1>3. Waiting(u) = Waiting(s) \union (u.visited \ s.visited)
  <2>1. s.visited \subseteq t.visited /\ t.visited \subseteq u.visited
    BY DEF Takes, Grows
  <2> QED
    BY <2>1 DEF Takes
<1>4. ASSUME u.facts = {}, NEW x \in X \union Y PROVE Handled(u, x)
  <2>1. t.facts = {}
    BY <1>4 DEF Takes, Grows
  <2>2. CASE x \in Y
    BY <1>4, <2>2 DEF Takes
  <2>3. CASE x \in X
    <3>1. Handled(t, x)
      BY <2>1, <2>3 DEF Takes
    <3> QED
      BY <3>1 DEF Takes, Grows, Handled
  <2> QED
    BY <2>2, <2>3
<1> QED
  BY <1>1, <1>2, <1>3, <1>4 DEF Takes

(* Registering one target.                                                  *)
LEMMA RegisteredTakes ==
    ASSUME NEW s \in States, NEW target \in References, User.id \in Ids
    PROVE  LET t == Registered(s, target)
           IN  /\ t \in States
               /\ Grows(s, t)
               /\ Bounded(s) => Bounded(t)
               /\ t.visited = s.visited /\ t.worklist = s.worklist
               /\ t.consumers \subseteq s.consumers \union {<<target, User.id>>}
               /\ t.facts = {} => <<target, User.id>> \in t.consumers
<1> DEFINE t == Registered(s, target)
           pair == <<target, User.id>>
<1>0. /\ s.visited \in SUBSET References /\ s.worklist \in Seq(References \X Nat)
      /\ s.consumers \in SUBSET (References \X Ids) /\ s.facts \in SUBSET FactKinds
      /\ s.stopped \in BOOLEAN /\ pair \in References \X Ids
  BY DEF States
<1>1. CASE pair \in s.consumers
  BY <1>1 DEF Registered, Grows
<1>2. CASE pair \notin s.consumers /\ Cardinality(s.consumers) >= MaxPairs
  <2>1. t = [s EXCEPT !.facts = @ \union {"MaxRecordedPairs"}, !.stopped = TRUE]
    BY <1>2 DEF Registered
  <2>2. /\ t.visited = s.visited /\ t.worklist = s.worklist /\ t.consumers = s.consumers
        /\ t.facts = s.facts \union {"MaxRecordedPairs"} /\ t.stopped = TRUE
    BY <2>1 DEF States
  <2>3. t \in States
    <3>1. s.facts \union {"MaxRecordedPairs"} \in SUBSET FactKinds
      BY <1>0 DEF FactKinds
    <3> HIDE DEF t, pair
    <3> QED
      BY <1>0, <2>1, <3>1 DEF States
  <2> HIDE DEF t, pair
  <2>4. "MaxRecordedPairs" \in t.facts
    BY <2>2
  <2>5. Bounded(s) => Bounded(t)
    BY <2>2, <2>4 DEF Bounded
  <2> QED
    BY <2>2, <2>3, <2>4, <2>5 DEF t, pair, Grows
<1>3. CASE pair \notin s.consumers /\ ~(Cardinality(s.consumers) >= MaxPairs)
  <2>1. t = [s EXCEPT !.consumers = @ \union {pair}]
    BY <1>3 DEF Registered
  <2>2. /\ t.visited = s.visited /\ t.worklist = s.worklist
        /\ t.consumers = s.consumers \union {pair}
        /\ t.facts = s.facts /\ t.stopped = s.stopped
    BY <2>1 DEF States
  <2>3. t \in States
    <3> DEFINE more == s.consumers \union {pair}
    <3>1. more \in SUBSET (References \X Ids) /\ t = [s EXCEPT !.consumers = more]
      BY <1>0, <2>1
    <3> HIDE DEF t, pair, more
    <3> QED
      BY <3>1 DEF States
  <2> HIDE DEF t, pair
  <2>4. ASSUME Bounded(s) PROVE Bounded(t)
    <3>1. IsFiniteSet(s.consumers) /\ Cardinality(s.consumers) \in Nat
      BY <2>4, FS_CardinalityType DEF Bounded
    <3>2. /\ IsFiniteSet(s.consumers \union {pair})
          /\ Cardinality(s.consumers \union {pair}) = Cardinality(s.consumers) + 1
      BY <1>3, <3>1, FS_AddElement
    <3>3. Cardinality(t.consumers) <= MaxPairs
      BY <1>3, <2>2, <3>1, <3>2, BoundsAssumption
    <3> QED
      BY <2>2, <2>4, <3>2, <3>3 DEF Bounded
  <2> QED
    BY <2>2, <2>3, <2>4 DEF t, pair, Grows
<1> QED
  BY <1>1, <1>2, <1>3

(* Enqueueing one target.                                                   *)
LEMMA EnqueuedTakes ==
    ASSUME NEW s \in States, NEW target \in References, NEW depth \in Nat, User.id \in Ids
    PROVE  Takes(s, Enqueued(s, target, depth), {target})
<1> DEFINE t == Enqueued(s, target, depth)
<1>0. /\ s.visited \in SUBSET References /\ s.worklist \in Seq(References \X Nat)
      /\ s.consumers \in SUBSET (References \X Ids) /\ s.facts \in SUBSET FactKinds
      /\ s.stopped \in BOOLEAN
  BY DEF States
<1>1. CASE IsForeignPage(target)
  <2>1. t = Registered(s, target)
    BY <1>1 DEF Enqueued, IsForeignPage
  <2> HIDE DEF t
  <2>2. /\ t \in States /\ Grows(s, t) /\ (Bounded(s) => Bounded(t))
        /\ t.visited = s.visited /\ t.worklist = s.worklist
        /\ t.consumers \subseteq s.consumers \union {<<target, User.id>>}
        /\ (t.facts = {} => <<target, User.id>> \in t.consumers)
    BY <2>1, RegisteredTakes
  <2>3. target \in KnownPages
    BY <1>1 DEF IsForeignPage
  <2>4. Waiting(t) = Waiting(s)
    BY <2>2 DEF Waiting
  <2>5. t.facts = {} => \A x \in {target} : Handled(t, x)
    BY <1>1, <2>2 DEF Handled
  <2> QED
    BY <2>2, <2>3, <2>4, <2>5 DEF Takes, t
<1>2. CASE ~IsForeignPage(target) /\ target \in s.visited
  <2>1. t = s
    BY <1>2 DEF Enqueued, IsForeignPage
  <2>2. \A x \in {target} : Handled(s, x)
    BY <1>2 DEF Handled
  <2> HIDE DEF t
  <2>3. Takes(s, s, {target})
    BY <2>2 DEF Takes, Grows
  <2> QED
    BY <2>1, <2>3 DEF t
<1>3. CASE /\ ~IsForeignPage(target) /\ target \notin s.visited
           /\ (depth > MaxDepth \/ Cardinality(s.visited) >= MaxVisited)
  <2>1. PICK kind \in {"MaxTraversalDepth", "MaxVisitedNodes"} :
            t = [s EXCEPT !.facts = @ \union {kind}]
    BY <1>3 DEF Enqueued, IsForeignPage
  <2>2. /\ t.visited = s.visited /\ t.worklist = s.worklist /\ t.consumers = s.consumers
        /\ t.facts = s.facts \union {kind} /\ t.stopped = s.stopped
    BY <2>1 DEF States
  <2>3. t \in States
    <3>1. s.facts \union {kind} \in SUBSET FactKinds
      BY <1>0 DEF FactKinds
    <3> HIDE DEF t
    <3> QED
      BY <1>0, <2>1, <3>1 DEF States
  <2> HIDE DEF t
  <2>4. Waiting(t) = Waiting(s) /\ t.facts # {}
    BY <2>2 DEF Waiting
  <2>5. Bounded(s) => Bounded(t)
    BY <2>2 DEF Bounded
  <2> QED
    BY <2>2, <2>3, <2>4, <2>5 DEF Takes, Grows, t
<1>4. CASE /\ ~IsForeignPage(target) /\ target \notin s.visited
           /\ ~(depth > MaxDepth) /\ ~(Cardinality(s.visited) >= MaxVisited)
  <2> DEFINE item == <<target, depth>>
  <2>1. t = [s EXCEPT !.visited = @ \union {target}, !.worklist = Append(@, item)]
    BY <1>4 DEF Enqueued, IsForeignPage
  <2>2. /\ t.visited = s.visited \union {target} /\ t.worklist = Append(s.worklist, item)
        /\ t.consumers = s.consumers /\ t.facts = s.facts /\ t.stopped = s.stopped
    BY <2>1 DEF States
  <2>3. item \in References \X Nat /\ item[1] = target
    OBVIOUS
  <2> HIDE DEF item
  <2>4. t.worklist \in Seq(References \X Nat)
    BY <1>0, <2>2, <2>3
  <2>5. t \in States
    BY <1>0, <2>1, <2>2, <2>3, <2>4 DEF States
  <2> HIDE DEF t
  <2>6. Waiting(t) = Waiting(s) \union {target}
    <3>1. /\ DOMAIN t.worklist = DOMAIN s.worklist \union {Len(s.worklist) + 1}
          /\ \A i \in DOMAIN s.worklist : t.worklist[i] = s.worklist[i]
          /\ t.worklist[Len(s.worklist) + 1] = item
      BY <1>0, <2>2, <2>3
    <3> QED
      BY <2>3, <3>1 DEF Waiting
  <2>7. ASSUME Bounded(s) PROVE Bounded(t)
    <3>1. IsFiniteSet(s.visited) /\ Cardinality(s.visited) \in Nat
      BY <2>7, FS_CardinalityType DEF Bounded
    <3>2. /\ IsFiniteSet(s.visited \union {target})
          /\ Cardinality(s.visited \union {target}) = Cardinality(s.visited) + 1
      BY <1>4, <3>1, FS_AddElement
    <3>3. Cardinality(t.visited) <= MaxVisited
      BY <1>4, <2>2, <3>1, <3>2, BoundsAssumption
    <3> QED
      BY <2>2, <2>7, <3>2, <3>3 DEF Bounded
  <2>8. \A x \in {target} : Handled(t, x)
    BY <1>4, <2>2 DEF Handled
  <2> QED
    BY <1>4, <2>2, <2>5, <2>6, <2>7, <2>8 DEF Takes, Grows, t
<1> QED
  BY <1>1, <1>2, <1>3, <1>4

(* Enqueueing them all, in order.                                           *)
LEMMA EnqueuedAllTakes ==
    ASSUME NEW s \in States, NEW targets \in Seq(References), NEW depth \in Nat, User.id \in Ids
    PROVE  Takes(s, EnqueuedAll(s, targets, depth), ToSet(targets))
<1> DEFINE n == Len(targets)
           step(t, k) == Enqueued(t, targets[k], depth)
           g == [p \in States \X (1 .. n) |-> step(p[1], p[2])]
           IsRun(after) == after = [k \in 0 .. n |-> IF k = 0 THEN s ELSE step(after[k - 1], k)]
<1>1. n \in Nat /\ \A k \in 1 .. n : targets[k] \in References
  OBVIOUS
<1>2. ASSUME NEW t \in States, NEW k \in 1 .. n
      PROVE  /\ Takes(t, step(t, k), {targets[k]}) /\ step(t, k) \in States
             /\ g[<<t, k>>] = step(t, k)
  <2>1. Takes(t, step(t, k), {targets[k]})
    BY <1>1, EnqueuedTakes
  <2>2. <<t, k>> \in States \X (1 .. n) /\ <<t, k>>[1] = t /\ <<t, k>>[2] = k
    OBVIOUS
  <2> HIDE DEF step, n
  <2>3. g[<<t, k>>] = step(<<t, k>>[1], <<t, k>>[2])
    BY <2>2, Zenon
  <2> QED
    BY <2>1, <2>2, <2>3 DEF Takes
<1> HIDE DEF g, step, n
<1>3. Steps(g, States, n)
  BY <1>2 DEF Steps
<1>4. PICK E : Recursion(E, s, g, States, n)
  BY <1>1, <1>3, RecursionExists
<1>5. ASSUME NEW k \in 0 .. n PROVE E[k] = IF k = 0 THEN s ELSE step(E[k - 1], k)
  <2>1. E[k] = IF k = 0 THEN s ELSE g[<<E[k - 1], k>>]
    BY <1>4 DEF Recursion
  <2>2. CASE k # 0
    <3>1. k \in 1 .. n /\ k - 1 \in 0 .. n
      BY <1>1, <2>2
    <3>2. E[k - 1] \in States
      BY <1>4, <3>1 DEF Recursion
    <3> QED
      BY <1>2, <2>1, <2>2, <3>1, <3>2
  <2> QED
    BY <2>1, <2>2
<1>6. E = [k \in 0 .. n |-> E[k]]
  BY <1>4 DEF Recursion
<1>7. IsRun(E)
  BY <1>5, <1>6
<1> DEFINE after == CHOOSE f : IsRun(f)
<1>8. IsRun(after)
  BY <1>7
<1>9. EnqueuedAll(s, targets, depth) = after[n]
  BY DEF EnqueuedAll, n, step
<1> HIDE DEF after
<1>10. after[0] = s /\ \A k \in 1 .. n : after[k] = step(after[k - 1], k)
  <2>1. \A k \in 0 .. n : after[k] = IF k = 0 THEN s ELSE step(after[k - 1], k)
    BY <1>8
  <2>2. 0 \in 0 .. n /\ \A k \in 1 .. n : k \in 0 .. n /\ k # 0
    BY <1>1
  <2> QED
    BY <2>1, <2>2
<1> DEFINE first(k) == {targets[j] : j \in 1 .. k}
           wrong == {k \in 0 .. n : ~Takes(s, after[k], first(k))}
<1>11. wrong = {}
  <2> SUFFICES ASSUME wrong # {} PROVE FALSE
    OBVIOUS
  <2>1. wrong \subseteq Nat
    OBVIOUS
  <2>2. PICK k \in wrong : \A m \in wrong : k <= m
    <3> HIDE DEF wrong
    <3> QED
      BY <2>1, LeastExists
  <2>3. k # 0
    <3>1. first(0) = {}
      OBVIOUS
    <3>2. Takes(s, after[0], first(0))
      BY <1>10, <3>1, TakesNothing
    <3> QED
      BY <2>2, <3>2
  <2>4. k - 1 \in 0 .. n /\ k \in 1 .. n /\ ~(k <= k - 1)
    BY <1>1, <2>3
  <2>5. Takes(s, after[k - 1], first(k - 1))
    BY <2>2, <2>4
  <2>6. after[k - 1] \in States
    BY <2>5 DEF Takes
  <2>7. Takes(after[k - 1], after[k], {targets[k]})
    BY <1>2, <1>10, <2>4, <2>6
  <2>8. first(k) = first(k - 1) \union {targets[k]}
    <3>1. 1 .. k = (1 .. (k - 1)) \union {k}
      BY <2>4
    <3> QED
      BY <3>1
  <2>9. Takes(s, after[k], first(k))
    <3> HIDE DEF first
    <3> QED
      BY <2>5, <2>7, <2>8, TakesCompose
  <2> QED
    BY <2>2, <2>9
<1>12. n \in 0 .. n /\ first(n) = ToSet(targets)
  BY <1>1 DEF ToSet, n
<1>13. Takes(s, after[n], first(n))
  <2> HIDE DEF first
  <2> QED
    BY <1>11, <1>12
<1> QED
  BY <1>9, <1>12, <1>13

----------------------------------------------------------------------------
(* The inductive invariant.                                                 *)
IndexTypeOK ==
    /\ file \in Files
    /\ turn \in 1 .. (Len(Users) + 1)
    /\ running \in BOOLEAN /\ done \in BOOLEAN
    /\ State \in States /\ Bounded(State)
    /\ Waiting(State) \subseteq visited
    /\ expanded \in Nat /\ expanded <= MaxExpanded
    /\ running => turn <= Len(Users) /\ User.id # RootUser.id
    /\ running /\ treeNodes # {} => User.tree
    /\ done => turn > Len(Users)

(* Everything listed is reached, and everything visited too.                *)
ListedIn(pairs) ==
    \A pair \in pairs :
        \/ pair[1] = file.root /\ pair[2] = RootUser.id
        \/ \E i \in DOMAIN TrueUsers : /\ TrueUsers[i].id = pair[2]
                                      /\ pair[1] \in ReachOf(TrueUsers[i], TRUE)

VisitedIsReached(nodes) == nodes \intersect DOMAIN file.objects \subseteq ReachOf(User, TRUE)

OwnPagesOnly(nodes) == \A v \in nodes : ~IsForeignPage(v)

SoundInv ==
    /\ ListedIn(consumers)
    /\ running => VisitedIsReached(visited) /\ OwnPagesOnly(visited)

(* As long as there is no fact, the users before this one are listed for    *)
(* all they reach, and for this one, the seeds have been handled, and so    *)
(* has all that is behind an object no longer on the worklist.              *)
FinishedBefore(n, pairs) ==
    \A i \in 1 .. (n - 1) : \A r \in ReachOf(Users[i], FALSE) : <<r, Users[i].id>> \in pairs

ExpandedIn(s, v) ==
    /\ <<v, User.id>> \in s.consumers
    /\ \A x \in EdgesFor(User, v, FALSE) : Handled(s, x)

WalkedSoFar(s) ==
    /\ \A x \in Followed(User.seeds) : Handled(s, x)
    /\ \A v \in s.visited \ Waiting(s) : ExpandedIn(s, v)

CompleteInv ==
    facts = {} =>
        /\ file.trailerOk /\ CatalogReadable
        /\ FinishedBefore(turn, consumers)
        /\ running => WalkedSoFar(State)

IndexInv == IndexTypeOK /\ SoundInv /\ CompleteInv

(* The current user is one of the true users.                               *)
LEMMA UserIsTrue ==
    ASSUME IsFile(file), turn \in 1 .. Len(Users)
    PROVE  /\ IsUser(User) /\ User.id \in Ids
           /\ \E i \in DOMAIN TrueUsers : TrueUsers[i] = User
<1>1. Users \in Seq(ToSet(Users))
  BY UsersAreTrue
<1>2. User \in ToSet(Users)
  BY <1>1 DEF User, ToSet
<1>3. User \in ToSet(TrueUsers) /\ IsUser(User)
  BY <1>2, UsersAreTrue
<1> QED
  BY <1>2, <1>3 DEF Ids, ToSet

(* What is added for it is soundly added.                                   *)
LEMMA ReachedMayBeListed ==
    ASSUME IsFile(file), turn \in 1 .. Len(Users), NEW r \in ReachOf(User, TRUE)
    PROVE  ListedIn({<<r, User.id>>})
<1>1. PICK i \in DOMAIN TrueUsers : TrueUsers[i] = User
  BY UserIsTrue
<1>2. TrueUsers[i].id = User.id /\ r \in ReachOf(TrueUsers[i], TRUE)
  BY <1>1
<1> DEFINE pair == <<r, User.id>>
<1>3. pair[1] = r /\ pair[2] = User.id
  OBVIOUS
<1> HIDE DEF pair
<1>4. ListedIn({pair})
  BY <1>2, <1>3, Zenon DEF ListedIn
<1> QED
  BY <1>4 DEF pair

(* Targets the user reaches keep the visited set and the report sound.      *)
LEMMA TakesSoundly ==
    ASSUME IsFile(file), turn \in 1 .. Len(Users), NEW s, NEW t, NEW targets, Takes(s, t, targets),
           VisitedIsReached(targets), VisitedIsReached(s.visited), OwnPagesOnly(s.visited),
           ListedIn(s.consumers)
    PROVE  VisitedIsReached(t.visited) /\ OwnPagesOnly(t.visited) /\ ListedIn(t.consumers)
<1>1. KnownPages \subseteq DOMAIN file.objects
  BY DEF KnownPages, IsFile
<1>2. ASSUME NEW x \in targets \intersect KnownPages PROVE ListedIn({<<x, User.id>>})
  BY <1>1, ReachedMayBeListed DEF VisitedIsReached
<1>3. ListedIn(t.consumers)
  <2> SUFFICES ASSUME NEW pair \in t.consumers PROVE ListedIn({pair})
    BY DEF ListedIn
  <2>1. CASE pair \in s.consumers
    BY <2>1 DEF ListedIn
  <2>2. CASE pair \notin s.consumers
    <3>1. PICK x \in targets \intersect KnownPages : pair = <<x, User.id>>
      BY <2>2 DEF Takes
    <3> QED
      BY <1>2, <3>1
  <2> QED
    BY <2>1, <2>2
<1>4. VisitedIsReached(t.visited) /\ OwnPagesOnly(t.visited)
  BY DEF Takes, VisitedIsReached, OwnPagesOnly
<1> QED
  BY <1>3, <1>4

(* A fact more changes nothing else.                                        *)
LEMMA FactsAdded ==
    ASSUME NEW s \in States, NEW more \in SUBSET FactKinds
    PROVE  LET t == [s EXCEPT !.facts = @ \union more]
           IN  /\ t \in States /\ t.facts = s.facts \union more
               /\ t.visited = s.visited /\ t.worklist = s.worklist
               /\ t.consumers = s.consumers /\ t.stopped = s.stopped
               /\ Waiting(t) = Waiting(s)
               /\ Bounded(s) => Bounded(t)
<1> DEFINE new == s.facts \union more
           t == [s EXCEPT !.facts = new]
<1>1. new \in SUBSET FactKinds
  BY DEF States
<1>2. t \in States /\ t.facts = new
      /\ t.visited = s.visited /\ t.worklist = s.worklist
      /\ t.consumers = s.consumers /\ t.stopped = s.stopped
  <2> HIDE DEF new
  <2> QED
    BY <1>1 DEF States
<1> HIDE DEF t
<1>3. Waiting(t) = Waiting(s)
  BY <1>2 DEF Waiting
<1>4. Bounded(s) => Bounded(t)
  BY <1>2 DEF Bounded
<1> QED
  BY <1>2, <1>3, <1>4 DEF t

(* Installing a state makes it the state.                                   *)
LEMMA InstallState ==
    ASSUME NEW s \in States, Install(s)
    PROVE  State' = s
<1>1. s = [visited |-> s.visited, worklist |-> s.worklist, consumers |-> s.consumers,
           facts |-> s.facts, stopped |-> s.stopped]
  BY DEF States
<1>2. State' = [visited |-> visited', worklist |-> worklist', consumers |-> consumers',
                facts |-> facts', stopped |-> stopped']
  BY DEF State
<1> QED
  BY <1>1, <1>2 DEF Install

(* The record of the walk and the report holds their variables.             *)
LEMMA StateFields ==
    /\ State.visited = visited /\ State.worklist = worklist /\ State.consumers = consumers
    /\ State.facts = facts /\ State.stopped = stopped
  BY DEF State

(* Popping the worklist.                                                    *)
LEMMA PoppedFields ==
    ASSUME State \in States, Bounded(State), worklist # <<>>
    PROVE  /\ Popped \in States /\ Bounded(Popped)
           /\ Popped.visited = visited /\ Popped.consumers = consumers /\ Popped.facts = facts
           /\ Popped.stopped = stopped
           /\ Waiting(State) = Waiting(Popped) \union {Top[1]}
           /\ Top[1] \in References /\ Top[2] \in Nat
<1> DEFINE n == Len(worklist)
           rest == Front(worklist)
<1>1. worklist \in Seq(References \X Nat) /\ n \in Nat /\ n # 0 /\ DOMAIN worklist = 1 .. n
  BY StateFields DEF States
<1>2. /\ rest \in Seq(References \X Nat) /\ DOMAIN rest = 1 .. (n - 1)
      /\ \A i \in 1 .. (n - 1) : rest[i] = worklist[i]
  BY <1>1 DEF Front
<1>3. Top = worklist[n] /\ Top \in References \X Nat
  BY <1>1 DEF Top
<1> HIDE DEF rest
<1>4. Popped = [State EXCEPT !.worklist = rest]
  BY StateFields DEF Popped, rest
<1>5. /\ Popped \in States
      /\ Popped.visited = visited /\ Popped.consumers = consumers /\ Popped.facts = facts
      /\ Popped.stopped = stopped /\ Popped.worklist = rest
  BY <1>2, <1>4, StateFields DEF States
<1>6. Bounded(Popped)
  BY <1>5, StateFields DEF Bounded
<1>7. Waiting(State) = Waiting(Popped) \union {Top[1]}
  <2>1. 1 .. n = (1 .. (n - 1)) \union {n}
    BY <1>1
  <2>2. Waiting(State) = {worklist[i][1] : i \in 1 .. n}
    BY <1>1, StateFields DEF Waiting
  <2>3. Waiting(Popped) = {worklist[i][1] : i \in 1 .. (n - 1)}
    BY <1>2, <1>5 DEF Waiting
  <2> HIDE DEF n
  <2> QED
    BY <1>3, <2>1, <2>2, <2>3
<1> QED
  BY <1>3, <1>5, <1>6, <1>7

----------------------------------------------------------------------------
(* One object's scan.                                                       *)
LEMMA ScannedList ==
    ASSUME IsFile(file), Top[1] \in DOMAIN file.objects
    PROVE  /\ IsEntryList(ScannedEntries)
           /\ ToSet(ScannedEntries)
                = {e \in ToSet(Body.entries) : ~(PageRules /\ e.key = "Parent")}
<1>1. IsEntryList(Body.entries)
  BY DEF IsFile, Body
<1>2. CASE PageRules
  <2>1. ScannedEntries = Without(Body.entries, "Parent")
    BY <1>2 DEF ScannedEntries
  <2>2. /\ IsEntryList(ScannedEntries)
        /\ ToSet(ScannedEntries) = {e \in ToSet(Body.entries) : e.key # "Parent"}
    BY <1>1, <2>1, WithoutIsEntryList
  <2> QED
    BY <1>2, <2>2
<1>3. CASE ~PageRules
  BY <1>1, <1>3 DEF ScannedEntries
<1> QED
  BY <1>2, <1>3

(* The references of a scan are those of its entries.                       *)
LEMMA ScannedElements ==
    ASSUME IsFile(file), Top[1] \in DOMAIN file.objects
    PROVE  /\ ScannedReferences \in Seq(References)
           /\ \A x : x \in ToSet(ScannedReferences)
                       <=> \E e \in ToSet(ScannedEntries) : x \in ToSet(e.refs)
<1> DEFINE seqs == [i \in DOMAIN ScannedEntries |-> ScannedEntries[i].refs]
           n == Len(ScannedEntries)
<1>1. /\ n \in Nat /\ DOMAIN ScannedEntries = 1 .. n
      /\ \A i \in 1 .. n : ScannedEntries[i].refs \in Seq(References)
  BY ScannedList DEF IsEntryList
<1>2. seqs \in Seq(Seq(References)) /\ DOMAIN seqs = DOMAIN ScannedEntries
  <2>1. seqs = [i \in 1 .. n |-> seqs[i]] /\ \A i \in 1 .. n : seqs[i] \in Seq(References)
    BY <1>1
  <2> HIDE DEF seqs
  <2> QED
    BY <1>1, <2>1
<1>3. ScannedReferences = FlattenSeq(seqs)
  BY DEF ScannedReferences
<1>4. \A i \in DOMAIN seqs : seqs[i] = ScannedEntries[i].refs
  OBVIOUS
<1> HIDE DEF seqs
<1>5. /\ ScannedReferences \in Seq(References)
      /\ ToSet(ScannedReferences) = UNION {ToSet(seqs[i]) : i \in DOMAIN seqs}
  BY <1>2, <1>3, FlattenElements
<1>6. \A x : x \in ToSet(ScannedReferences)
               <=> \E i \in DOMAIN ScannedEntries : x \in ToSet(ScannedEntries[i].refs)
  BY <1>2, <1>4, <1>5
<1>7. \A x : (\E i \in DOMAIN ScannedEntries : x \in ToSet(ScannedEntries[i].refs))
               <=> \E e \in ToSet(ScannedEntries) : x \in ToSet(e.refs)
  <2> DEFINE R(e) == ToSet(e.refs)
  <2> HIDE DEF R
  <2>1. \A x : (\E i \in DOMAIN ScannedEntries : x \in R(ScannedEntries[i]))
               <=> \E e \in ToSet(ScannedEntries) : x \in R(e)
    BY DEF ToSet
  <2> QED
    BY <2>1 DEF R
<1> QED
  BY <1>5, <1>6, <1>7

(* A scan follows no edge that the user may not follow ...                  *)
LEMMA ScannedIsFollowed ==
    ASSUME IsFile(file), Top[1] \in DOMAIN file.objects
    PROVE  ToSet(ScannedReferences) \subseteq EdgesFor(User, Top[1], TRUE)
<1> SUFFICES ASSUME NEW x \in ToSet(ScannedReferences) PROVE x \in EdgesFor(User, Top[1], TRUE)
  OBVIOUS
<1>1. PICK e \in ToSet(ScannedEntries) : x \in ToSet(e.refs)
  BY ScannedElements
<1>2. e \in ToSet(Body.entries) /\ ~(PageRules /\ e.key = "Parent")
  BY <1>1, ScannedList
<1>3. PICK i \in DOMAIN Body.entries : e = Body.entries[i]
  BY <1>2 DEF ToSet
<1>4. x \in Followed(Body.entries[i])
  BY <1>1, <1>3 DEF Followed
<1>5. ~(Body.dict /\ (Number(Top[1]) \in User.own \/ (User.tree /\ ~TRUE))
        /\ Body.entries[i].key = "Parent")
  BY <1>2, <1>3 DEF PageRules
<1> QED
  BY <1>3, <1>4, <1>5 DEF EdgesFor, Body

(* ... and, when it found every reference, all that it must.                *)
LEMMA FollowedIsScanned ==
    ASSUME IsFile(file), Top[1] \in DOMAIN file.objects, Whole(ScannedEntries),
           IsTreeNode => User.tree
    PROVE  EdgesFor(User, Top[1], FALSE) \subseteq ToSet(ScannedReferences)
<1> SUFFICES ASSUME NEW x \in EdgesFor(User, Top[1], FALSE)
             PROVE  \E e \in ToSet(ScannedEntries) : x \in ToSet(e.refs)
  BY ScannedElements
<1>1. PICK i \in DOMAIN Body.entries :
          /\ x \in Followed(Body.entries[i])
          /\ ~(Body.dict /\ (Number(Top[1]) \in User.own \/ (User.tree /\ ~FALSE))
               /\ Body.entries[i].key = "Parent")
  BY DEF EdgesFor, Body
<1> DEFINE e == Body.entries[i]
<1>2. e \in ToSet(Body.entries)
  BY DEF ToSet
<1>3. ~(PageRules /\ e.key = "Parent")
  BY <1>1 DEF PageRules
<1>4. e \in ToSet(ScannedEntries)
  BY <1>2, <1>3, ScannedList
<1>5. e.lost = <<>>
  BY <1>4 DEF Whole, ToSet
<1>6. ToSet(e.lost) = {}
  BY <1>5 DEF ToSet
<1>7. x \in ToSet(e.refs)
  BY <1>1, <1>6 DEF Followed
<1> QED
  BY <1>4, <1>7

----------------------------------------------------------------------------
(* The document never changes, and what it says does not either.            *)
LEMMA DocumentStays ==
    ASSUME file' = file
    PROVE  /\ Users' = Users /\ TrueUsers' = TrueUsers /\ CatalogReadable' = CatalogReadable
           /\ Ids' = Ids /\ States' = States /\ KnownPages' = KnownPages
           /\ \A u, w : ReachOf(u, w)' = ReachOf(u, w)
           /\ \A u, r, w : EdgesFor(u, r, w)' = EdgesFor(u, r, w)
<1>1. CatalogReadable' = CatalogReadable /\ KnownPages' = KnownPages
  BY DEF CatalogReadable, Resolvable, KnownPages
<1>2. \A a, b : UsersWith(a, b)' = UsersWith(a, b)
  BY DEF UsersWith, PageUsers
<1>3. Users' = Users /\ TrueUsers' = TrueUsers
  BY <1>1, <1>2 DEF Users, TrueUsers
<1>4. Ids' = Ids /\ States' = States
  BY <1>3 DEF Ids, States
<1>5. \A u, r, w : EdgesFor(u, r, w)' = EdgesFor(u, r, w)
  BY DEF EdgesFor
<1>6. \A u, w : ReachOf(u, w)' = ReachOf(u, w)
  BY DEF ReachOf, EdgesFor, EndsAt, KnownPages
<1> QED
  BY <1>1, <1>3, <1>4, <1>5, <1>6

(* What has to be shown of the new state for SoundInv.                      *)
LEMMA SoundFrom ==
    ASSUME file' = file, ListedIn(consumers'),
           running' => turn' = turn /\ VisitedIsReached(visited') /\ OwnPagesOnly(visited')
    PROVE  SoundInv'
<1>1. ListedIn(consumers)'
  BY DocumentStays DEF ListedIn, RootUser
<1>2. ASSUME running' PROVE VisitedIsReached(visited)' /\ OwnPagesOnly(visited)'
  <2>1. User' = User
    BY <1>2, DocumentStays DEF User
  <2>2. ReachOf(User, TRUE)' = ReachOf(User, TRUE)
    BY <2>1, DocumentStays
  <2>3. KnownPages' = KnownPages
    BY DocumentStays
  <2>4. VisitedIsReached(visited)'
    BY <1>2, <2>2 DEF VisitedIsReached
  <2>5. OwnPagesOnly(visited)'
    BY <1>2, <2>1, <2>3 DEF OwnPagesOnly, IsForeignPage
  <2> QED
    BY <2>4, <2>5
<1> QED
  BY <1>1, <1>2 DEF SoundInv

(* The same for what has been handled ...                                   *)
LEMMA HandledFrom ==
    ASSUME file' = file, turn' = turn
    PROVE  \A x : Handled(State', x) <=> Handled(State, x)'
<1>1. User' = User /\ KnownPages' = KnownPages
  BY DocumentStays DEF User
<1>2. \A x : IsForeignPage(x)' <=> IsForeignPage(x)
  BY <1>1 DEF IsForeignPage
<1> QED
  BY <1>1, <1>2 DEF Handled

(* ... for the walk of the user at hand ...                                 *)
LEMMA WalkedFrom ==
    ASSUME file' = file, turn' = turn, WalkedSoFar(State')
    PROVE  WalkedSoFar(State)'
<1>1. User' = User
  BY DocumentStays DEF User
<1>2. \A x : Handled(State', x) <=> Handled(State, x)'
  BY HandledFrom
<1>3. \A x \in Followed(User.seeds)' : Handled(State, x)'
  <2>1. Followed(User.seeds)' = Followed(User.seeds)
    BY <1>1 DEF Followed
  <2> QED
    BY <1>2, <2>1 DEF WalkedSoFar
<1>4. ASSUME NEW v \in (State.visited \ Waiting(State))' PROVE ExpandedIn(State, v)'
  <2>1. v \in State'.visited \ Waiting(State')
    BY <1>4 DEF Waiting
  <2>2. ExpandedIn(State', v)
    BY <2>1 DEF WalkedSoFar
  <2>3. EdgesFor(User, v, FALSE)' = EdgesFor(User, v, FALSE)
    BY <1>1, DocumentStays
  <2> QED
    BY <1>1, <1>2, <2>2, <2>3 DEF ExpandedIn
<1> QED
  BY <1>3, <1>4 DEF WalkedSoFar

(* ... and for CompleteInv.                                                 *)
LEMMA CompleteFrom ==
    ASSUME file' = file,
           facts' = {} => /\ file.trailerOk /\ CatalogReadable
                          /\ FinishedBefore(turn', consumers')
                          /\ running' => turn' = turn /\ WalkedSoFar(State')
    PROVE  CompleteInv'
<1> SUFFICES ASSUME facts' = {}
             PROVE  /\ (file.trailerOk /\ CatalogReadable)'
                    /\ FinishedBefore(turn, consumers)'
                    /\ running' => WalkedSoFar(State)'
  BY DEF CompleteInv
<1>1. (file.trailerOk /\ CatalogReadable)'
  BY DocumentStays
<1>2. FinishedBefore(turn, consumers)'
  BY DocumentStays DEF FinishedBefore
<1>3. running' => WalkedSoFar(State)'
  BY WalkedFrom
<1> QED
  BY <1>1, <1>2, <1>3

----------------------------------------------------------------------------
(* The first state.                                                         *)
LEMMA InitIsIndexInv ==
    ASSUME Init
    PROVE  IndexInv
<1>1. file \in Files /\ IsFile(file)
  BY FilesAssumption DEF Init
<1>2. Len(Users) \in Nat
  BY <1>1, UsersAreTrue
<1>3. State \in States
  <2>1. facts \in SUBSET FactKinds
    BY DEF Init, FactKinds
  <2>2. {} \in SUBSET References /\ <<>> \in Seq(References \X Nat) /\ {} \in SUBSET (References \X Ids)
    OBVIOUS
  <2> QED
    BY <2>1, <2>2 DEF Init, State, States
<1>4. Bounded(State) /\ Waiting(State) \subseteq visited
  <2>1. IsFiniteSet({}) /\ Cardinality({}) = 0
    BY FS_EmptySet
  <2>2. State.visited = {} /\ State.consumers = {} /\ State.stopped = FALSE /\ State.worklist = <<>>
    BY StateFields DEF Init
  <2> QED
    BY <2>1, <2>2, BoundsAssumption DEF Bounded, Waiting
<1>5. IndexTypeOK
  <2>1. /\ turn = 1 /\ running = FALSE /\ done = FALSE /\ expanded = 0
    BY DEF Init
  <2>2. turn \in 1 .. (Len(Users) + 1) /\ expanded \in Nat /\ expanded <= MaxExpanded
    BY <1>2, <2>1, BoundsAssumption
  <2> QED
    BY <1>1, <1>3, <1>4, <2>1, <2>2 DEF IndexTypeOK
<1>6. SoundInv
  BY DEF SoundInv, ListedIn, Init
<1>7. CompleteInv
  <2>1. FinishedBefore(1, consumers)
    BY DEF FinishedBefore
  <2>2. facts = {} => file.trailerOk /\ CatalogReadable
    BY DEF Init
  <2> QED
    BY <2>1, <2>2 DEF CompleteInv, Init
<1> QED
  BY <1>5, <1>6, <1>7 DEF IndexInv

(* The current user's turn.                                                 *)
LEMMA TurnFacts ==
    ASSUME IndexInv, turn <= Len(Users)
    PROVE  /\ IsFile(file) /\ turn \in 1 .. Len(Users) /\ turn \in Nat /\ Len(Users) \in Nat
           /\ IsUser(User) /\ User.id \in Ids /\ User = Users[turn]
<1>1. IsFile(file)
  BY FilesAssumption DEF IndexInv, IndexTypeOK
<1>2. Len(Users) \in Nat
  BY <1>1, UsersAreTrue
<1>3. turn \in 1 .. Len(Users)
  BY <1>2 DEF IndexInv, IndexTypeOK
<1> QED
  BY <1>1, <1>2, <1>3, UserIsTrue DEF User

SeededBase == [State EXCEPT !.visited = {}, !.worklist = <<>>, !.facts = @ \union SeedFacts]

(* A user starts with an empty walk, and with the report as it is.          *)
LEMMA SeededBaseFields ==
    ASSUME State \in States
    PROVE  /\ SeededBase \in States /\ (Bounded(State) => Bounded(SeededBase))
           /\ SeededBase.visited = {} /\ SeededBase.worklist = <<>>
           /\ SeededBase.consumers = consumers /\ SeededBase.facts = facts \union SeedFacts
           /\ SeededBase.stopped = stopped
           /\ Waiting(SeededBase) = {}
<1> DEFINE new == facts \union SeedFacts
           none == {}
           empty == <<>>
<1>1. new \in SUBSET FactKinds
  BY StateFields DEF States, SeedFacts, FactKinds
<1>2. none \in SUBSET References /\ empty \in Seq(References \X Nat)
  OBVIOUS
<1>3. SeededBase = [State EXCEPT !.visited = none, !.worklist = empty, !.facts = new]
  BY StateFields DEF SeededBase
<1>4. /\ SeededBase \in States /\ SeededBase.visited = none /\ SeededBase.worklist = empty
      /\ SeededBase.consumers = consumers /\ SeededBase.facts = new /\ SeededBase.stopped = stopped
  <2> HIDE DEF new, none, empty
  <2> QED
    BY <1>1, <1>2, <1>3, StateFields DEF States
<1>5. Waiting(SeededBase) = {}
  BY <1>4 DEF Waiting
<1>6. Bounded(State) => Bounded(SeededBase)
  <2>1. IsFiniteSet({}) /\ Cardinality({}) = 0
    BY FS_EmptySet
  <2> QED
    BY <1>4, <2>1, StateFields, BoundsAssumption DEF Bounded
<1> QED
  BY <1>4, <1>5, <1>6

(* Seeding a user handles its seeds, and all that is visited is still       *)
(* waiting.                                                                 *)
LEMMA StartUserKeeps ==
    ASSUME IndexInv, StartUser
    PROVE  IndexInv'
<1> DEFINE refs == User.seeds.refs
           t == EnqueuedAll(SeededBase, refs, 0)
<1>1. /\ IsFile(file) /\ turn \in 1 .. Len(Users) /\ turn \in Nat /\ Len(Users) \in Nat
      /\ IsUser(User) /\ User.id \in Ids /\ User = Users[turn]
  BY TurnFacts DEF StartUser
<1>2. file' = file /\ turn' = turn /\ running' = TRUE /\ done' = done /\ done = FALSE
      /\ expanded' = expanded /\ Install(t)
  BY DEF StartUser, SeededBase, IndexInv, IndexTypeOK
<1>3. /\ SeededBase \in States /\ Bounded(SeededBase)
      /\ SeededBase.visited = {} /\ Waiting(SeededBase) = {}
      /\ SeededBase.consumers = consumers /\ SeededBase.facts = facts \union SeedFacts
  BY SeededBaseFields DEF IndexInv, IndexTypeOK
<1>4. Takes(SeededBase, t, ToSet(refs))
  <2>1. refs \in Seq(References) /\ 0 \in Nat
    BY <1>1 DEF IsUser
  <2> HIDE DEF refs
  <2> QED
    BY <1>1, <1>3, <2>1, EnqueuedAllTakes
<1> HIDE DEF t, refs
<1>5. State' = t /\ visited' = t.visited /\ consumers' = t.consumers /\ facts' = t.facts
  BY <1>2, <1>4, InstallState DEF Takes, Install
<1>6. Waiting(t) = t.visited
  BY <1>3, <1>4 DEF Takes
<1>7. IndexTypeOK'
  <2>1. User' = User
    BY <1>2, DocumentStays DEF User
  <2>2. treeNodes' # {} => User.tree
    BY <1>1 DEF StartUser, IsUser
  <2>3. State' \in States' /\ Bounded(State)' /\ (Waiting(State) \subseteq visited)'
    <3>1. State' \in States
      BY <1>4, <1>5 DEF Takes
    <3>2. Bounded(State') /\ Waiting(State') \subseteq visited'
      BY <1>3, <1>4, <1>5, <1>6 DEF Takes
    <3> QED
      BY <1>2, <3>1, <3>2, DocumentStays DEF Bounded, Waiting
  <2>4. User.id # RootUser.id
    BY DEF StartUser
  <2> QED
    BY <1>1, <1>2, <2>1, <2>2, <2>3, <2>4, DocumentStays DEF IndexInv, IndexTypeOK, RootUser
<1>8. SoundInv'
  <2>1. VisitedIsReached(ToSet(refs))
    BY <1>1, ReachIsClosed DEF VisitedIsReached, Followed, refs
  <2>2. /\ VisitedIsReached(SeededBase.visited) /\ OwnPagesOnly(SeededBase.visited)
        /\ ListedIn(SeededBase.consumers)
    BY <1>3 DEF VisitedIsReached, OwnPagesOnly, IndexInv, SoundInv
  <2>3. VisitedIsReached(t.visited) /\ OwnPagesOnly(t.visited) /\ ListedIn(t.consumers)
    BY <1>1, <1>4, <2>1, <2>2, TakesSoundly
  <2> QED
    BY <1>2, <1>5, <2>3, SoundFrom
<1>9. CompleteInv'
  <2> SUFFICES ASSUME facts' = {}
               PROVE  /\ file.trailerOk /\ CatalogReadable
                      /\ FinishedBefore(turn', consumers')
                      /\ WalkedSoFar(State')
    BY <1>2, CompleteFrom
  <2>1. SeedFacts = {} /\ facts = {}
    BY <1>3, <1>4, <1>5 DEF Takes, Grows
  <2>2. file.trailerOk /\ CatalogReadable /\ FinishedBefore(turn, consumers)
    BY <2>1 DEF IndexInv, CompleteInv
  <2>3. consumers \subseteq consumers'
    BY <1>3, <1>4, <1>5 DEF Takes, Grows
  <2>4. FinishedBefore(turn', consumers')
    BY <1>2, <2>2, <2>3 DEF FinishedBefore
  <2>5. User.seeds.lost = <<>>
    <3>1. Whole(<<User.seeds>>)
      BY <2>1 DEF SeedFacts
    <3>2. 1 \in DOMAIN <<User.seeds>> /\ <<User.seeds>>[1] = User.seeds
      OBVIOUS
    <3> QED
      BY <3>1, <3>2 DEF Whole
  <2>6. Followed(User.seeds) = ToSet(refs)
    BY <2>5 DEF Followed, ToSet, refs
  <2>7. \A x \in Followed(User.seeds) : Handled(t, x)
    BY <1>4, <1>5, <2>6 DEF Takes
  <2>8. WalkedSoFar(State')
    BY <1>5, <1>6, <2>7 DEF WalkedSoFar
  <2> QED
    BY <2>2, <2>4, <2>8
<1> QED
  BY <1>7, <1>8, <1>9 DEF IndexInv

(* The catalog's own user reaches nothing, so it is finished at once.       *)
LEMMA RegisterRootKeeps ==
    ASSUME IndexInv, RegisterRoot
    PROVE  IndexInv'
<1> DEFINE t == Registered(State, file.root)
<1>1. /\ IsFile(file) /\ turn \in 1 .. Len(Users) /\ turn \in Nat /\ Len(Users) \in Nat
      /\ IsUser(User) /\ User.id \in Ids /\ User = Users[turn]
  BY TurnFacts DEF RegisterRoot
<1>2. file' = file /\ turn' = turn + 1 /\ running' = FALSE /\ done' = done /\ done = FALSE
      /\ expanded' = expanded /\ Install(t) /\ User.id = RootUser.id
  BY DEF RegisterRoot, IndexInv, IndexTypeOK
<1>3. State \in States /\ Bounded(State) /\ file.root \in References
  BY <1>1 DEF IndexInv, IndexTypeOK, IsFile
<1>4. /\ t \in States /\ Grows(State, t) /\ Bounded(t)
      /\ t.visited = State.visited /\ t.worklist = State.worklist
      /\ t.consumers \subseteq State.consumers \union {<<file.root, User.id>>}
  BY <1>1, <1>3, RegisteredTakes
<1> HIDE DEF t
<1>5. State' = t /\ visited' = t.visited /\ consumers' = t.consumers /\ facts' = t.facts
  BY <1>2, <1>4, InstallState DEF Install
<1>6. IndexTypeOK'
  <2>1. State' \in States' /\ Bounded(State)' /\ (Waiting(State) \subseteq visited)'
    <3>1. State' \in States /\ Bounded(State')
      BY <1>4, <1>5
    <3>2. Waiting(t) = Waiting(State) /\ visited' = visited
      BY <1>4, <1>5, StateFields DEF Waiting
    <3>3. Waiting(State') \subseteq visited'
      BY <1>5, <3>2 DEF IndexInv, IndexTypeOK
    <3> QED
      BY <1>2, <3>1, <3>3, DocumentStays DEF Bounded, Waiting
  <2>2. turn' \in 1 .. (Len(Users) + 1)
    BY <1>1, <1>2
  <2> QED
    BY <1>2, <2>1, <2>2, DocumentStays DEF IndexInv, IndexTypeOK
<1>7. SoundInv'
  <2>1. ASSUME NEW pair \in consumers'
        PROVE  pair \in consumers \/ (pair[1] = file.root /\ pair[2] = RootUser.id)
    <3>1. pair \in consumers \/ pair = <<file.root, User.id>>
      BY <1>4, <1>5, StateFields
    <3>2. <<file.root, User.id>>[1] = file.root /\ <<file.root, User.id>>[2] = RootUser.id
      BY <1>2
    <3> QED
      BY <3>1, <3>2
  <2>2. ListedIn(consumers')
    BY <2>1 DEF ListedIn, IndexInv, SoundInv
  <2> QED
    BY <1>2, <2>2, SoundFrom
<1>8. CompleteInv'
  <2> SUFFICES ASSUME facts' = {}
               PROVE  file.trailerOk /\ CatalogReadable /\ FinishedBefore(turn', consumers')
    BY <1>2, CompleteFrom
  <2>1. facts = {} /\ consumers \subseteq consumers'
    BY <1>4, <1>5, StateFields DEF Grows
  <2>2. file.trailerOk /\ CatalogReadable /\ FinishedBefore(turn, consumers)
    BY <2>1 DEF IndexInv, CompleteInv
  <2>3. User = RootUser
    BY <1>1, <1>2 DEF IsUser
  <2>4. Followed(RootUser.seeds) \subseteq {}
    <3>1. RootUser.seeds = NoSeeds
      BY DEF RootUser
    <3>2. NoSeeds.refs = <<>> /\ NoSeeds.lost = <<>>
      BY DEF NoSeeds
    <3>3. ToSet(<<>>) = {}
      BY DEF ToSet
    <3> QED
      BY <3>1, <3>2, <3>3 DEF Followed
  <2>5. ReachOf(User, FALSE) \subseteq {}
    <3>1. IsClosed({}, User, FALSE)
      BY DEF IsClosed
    <3> QED
      BY <1>1, <2>3, <2>4, <3>1, ReachIsLeast
  <2>6. ASSUME NEW i \in 1 .. (turn' - 1), NEW r \in ReachOf(Users[i], FALSE)
        PROVE  <<r, Users[i].id>> \in consumers'
    <3>1. CASE i = turn
      BY <1>1, <2>5, <2>6, <3>1
    <3>2. CASE i # turn
      <4>1. i \in 1 .. (turn - 1)
        BY <1>1, <1>2, <3>2
      <4> QED
        BY <2>1, <2>2, <2>6, <4>1 DEF FinishedBefore
    <3> QED
      BY <3>1, <3>2
  <2> QED
    BY <2>2, <2>6 DEF FinishedBefore
<1> QED
  BY <1>6, <1>7, <1>8 DEF IndexInv

(* A build that has stopped has said why.                                   *)
LEMMA SkipUserKeeps ==
    ASSUME IndexInv, SkipUser
    PROVE  IndexInv'
<1> DEFINE t == [State EXCEPT !.facts = @ \union SeedFacts]
<1>1. /\ IsFile(file) /\ turn \in 1 .. Len(Users) /\ turn \in Nat /\ Len(Users) \in Nat
  BY TurnFacts DEF SkipUser
<1>2. /\ file' = file /\ turn' = turn + 1 /\ running' = FALSE /\ done' = done /\ done = FALSE
      /\ expanded' = expanded /\ stopped
      /\ visited' = visited /\ worklist' = worklist /\ consumers' = consumers
      /\ facts' = facts \union SeedFacts /\ stopped' = stopped
  BY DEF SkipUser, IndexInv, IndexTypeOK, walk
<1>3. State \in States /\ Bounded(State) /\ SeedFacts \in SUBSET FactKinds
  BY DEF IndexInv, IndexTypeOK, SeedFacts, FactKinds
<1>4. /\ t \in States /\ Bounded(t) /\ Waiting(t) = Waiting(State)
      /\ t.visited = State.visited /\ t.worklist = State.worklist
      /\ t.consumers = State.consumers /\ t.facts = State.facts \union SeedFacts
      /\ t.stopped = State.stopped
  BY <1>3, FactsAdded
<1>5. State' = t
  <2> HIDE DEF t
  <2>1. Install(t)
    BY <1>2, <1>4, StateFields DEF Install
  <2> QED
    BY <1>4, <2>1, InstallState
<1> HIDE DEF t
<1>6. IndexTypeOK'
  <2>1. State' \in States' /\ Bounded(State)' /\ (Waiting(State) \subseteq visited)'
    <3>1. State' \in States /\ Bounded(State') /\ Waiting(State') \subseteq visited'
      BY <1>2, <1>4, <1>5 DEF IndexInv, IndexTypeOK
    <3> QED
      BY <1>2, <3>1, DocumentStays DEF Bounded, Waiting
  <2>2. turn' \in 1 .. (Len(Users) + 1)
    BY <1>1, <1>2
  <2> QED
    BY <1>2, <2>1, <2>2, DocumentStays DEF IndexInv, IndexTypeOK
<1>7. SoundInv'
  BY <1>2, SoundFrom DEF IndexInv, SoundInv
<1>8. facts' # {}
  BY <1>2, <1>3, StateFields DEF Bounded
<1>9. CompleteInv'
  BY <1>8 DEF CompleteInv
<1> QED
  BY <1>6, <1>7, <1>9 DEF IndexInv

(* When the worklist is empty, what was handled is closed.                  *)
LEMMA EndUserKeeps ==
    ASSUME IndexInv, EndUser
    PROVE  IndexInv'
<1>1. running /\ turn <= Len(Users)
  BY DEF EndUser, IndexInv, IndexTypeOK
<1>2. /\ IsFile(file) /\ turn \in 1 .. Len(Users) /\ turn \in Nat /\ Len(Users) \in Nat
      /\ IsUser(User) /\ User.id \in Ids /\ User = Users[turn]
  BY <1>1, TurnFacts
<1>3. /\ file' = file /\ turn' = turn + 1 /\ running' = FALSE /\ done' = done
      /\ expanded' = expanded /\ (worklist = <<>> \/ stopped)
      /\ visited' = visited /\ worklist' = worklist /\ consumers' = consumers
      /\ facts' = facts /\ stopped' = stopped
  BY DEF EndUser, walk, report
<1>4. State' = State
  BY <1>3 DEF State
<1>5. IndexTypeOK'
  <2>1. State' \in States' /\ Bounded(State)' /\ (Waiting(State) \subseteq visited)'
    <3>1. State' \in States /\ Bounded(State') /\ Waiting(State') \subseteq visited'
      BY <1>3, <1>4 DEF IndexInv, IndexTypeOK
    <3> QED
      BY <1>3, <3>1, DocumentStays DEF Bounded, Waiting
  <2>2. turn' \in 1 .. (Len(Users) + 1)
    BY <1>2, <1>3
  <2>3. done = FALSE
    BY <1>2 DEF IndexInv, IndexTypeOK
  <2> QED
    BY <1>3, <2>1, <2>2, <2>3, DocumentStays DEF IndexInv, IndexTypeOK
<1>6. SoundInv'
  BY <1>3, SoundFrom DEF IndexInv, SoundInv
<1>7. CompleteInv'
  <2> SUFFICES ASSUME facts = {}
               PROVE  file.trailerOk /\ CatalogReadable /\ FinishedBefore(turn', consumers')
    BY <1>3, CompleteFrom
  <2>1. file.trailerOk /\ CatalogReadable /\ FinishedBefore(turn, consumers) /\ WalkedSoFar(State)
    BY <1>1 DEF IndexInv, CompleteInv
  <2>2. worklist = <<>>
    BY <1>3, StateFields DEF IndexInv, IndexTypeOK, Bounded
  <2>3. Waiting(State) = {}
    BY <2>2, StateFields DEF Waiting
  <2> DEFINE near == {x \in References : Handled(State, x)}
  <2>4. ASSUME NEW q \in near, ~EndsAt(User, q) PROVE ExpandedIn(State, q)
    <3>1. q \in State.visited
      BY <2>4 DEF Handled, IsForeignPage, EndsAt
    <3> QED
      BY <2>1, <2>3, <3>1 DEF WalkedSoFar
  <2>5. IsClosed(near, User, FALSE)
    <3> SUFFICES ASSUME NEW q \in near, ~EndsAt(User, q)
                 PROVE  EdgesFor(User, q, FALSE) \subseteq near
      BY DEF IsClosed
    <3>1. EdgesFor(User, q, FALSE) \subseteq References
      BY <1>2, EdgesAreReferences
    <3>2. ExpandedIn(State, q)
      BY <2>4
    <3> QED
      BY <3>1, <3>2 DEF ExpandedIn
  <2>6. Followed(User.seeds) \subseteq near
    <3>1. Followed(User.seeds) \subseteq References
      BY <1>2 DEF IsUser, Followed, ToSet
    <3> QED
      BY <2>1, <3>1 DEF WalkedSoFar
  <2>7. ReachOf(User, FALSE) \subseteq near
    <3> HIDE DEF near
    <3> QED
      BY <1>2, <2>5, <2>6, ReachIsLeast
  <2>8. ASSUME NEW r \in ReachOf(User, FALSE) PROVE <<r, User.id>> \in consumers
    <3>1. Handled(State, r)
      BY <2>7
    <3>2. CASE IsForeignPage(r)
      BY <3>1, <3>2, StateFields DEF Handled
    <3>3. CASE ~IsForeignPage(r)
      <4>1. r \in State.visited
        BY <3>1, <3>3 DEF Handled
      <4> QED
        BY <2>1, <2>3, <4>1, StateFields DEF WalkedSoFar, ExpandedIn
    <3> QED
      BY <3>2, <3>3
  <2>9. ASSUME NEW i \in 1 .. (turn' - 1), NEW r \in ReachOf(Users[i], FALSE)
        PROVE  <<r, Users[i].id>> \in consumers'
    <3>1. CASE i = turn
      BY <1>2, <1>3, <2>8, <2>9, <3>1
    <3>2. CASE i # turn
      <4>1. i \in 1 .. (turn - 1)
        BY <1>2, <1>3, <3>2
      <4> QED
        BY <1>3, <2>1, <2>9, <4>1 DEF FinishedBefore
    <3> QED
      BY <3>1, <3>2
  <2> QED
    BY <2>1, <2>9 DEF FinishedBefore
<1> QED
  BY <1>5, <1>6, <1>7 DEF IndexInv

(* While an object of the worklist is at hand.                              *)
LEMMA RunningFacts ==
    ASSUME IndexInv, running, worklist # <<>>
    PROVE  /\ IsFile(file) /\ turn \in 1 .. Len(Users) /\ turn \in Nat /\ Len(Users) \in Nat
           /\ IsUser(User) /\ User.id \in Ids /\ done = FALSE
           /\ Popped \in States /\ Bounded(Popped)
           /\ Popped.visited = visited /\ Popped.consumers = consumers /\ Popped.facts = facts
           /\ Popped.stopped = stopped
           /\ Waiting(State) = Waiting(Popped) \union {Top[1]}
           /\ Top[1] \in References /\ Top[2] \in Nat
           /\ Waiting(Popped) \subseteq visited /\ Top[1] \in visited
<1>1. turn <= Len(Users)
  BY DEF IndexInv, IndexTypeOK
<1>2. /\ IsFile(file) /\ turn \in 1 .. Len(Users) /\ turn \in Nat /\ Len(Users) \in Nat
      /\ IsUser(User) /\ User.id \in Ids
  BY <1>1, TurnFacts
<1>3. done = FALSE
  BY <1>2 DEF IndexInv, IndexTypeOK
<1>4. /\ Popped \in States /\ Bounded(Popped)
      /\ Popped.visited = visited /\ Popped.consumers = consumers /\ Popped.facts = facts
      /\ Popped.stopped = stopped
      /\ Waiting(State) = Waiting(Popped) \union {Top[1]}
      /\ Top[1] \in References /\ Top[2] \in Nat
  BY PoppedFields DEF IndexInv, IndexTypeOK
<1>5. Waiting(State) \subseteq visited
  BY DEF IndexInv, IndexTypeOK
<1> QED
  BY <1>2, <1>3, <1>4, <1>5

(* What a step within a user's run has to show.                             *)
LEMMA RunTypeFrom ==
    ASSUME IndexInv, running, file' = file, turn' = turn, running' = running, done' = done,
           treeNodes' # {} => User.tree,
           expanded' \in Nat, expanded' <= MaxExpanded,
           State' \in States, Bounded(State'), Waiting(State') \subseteq visited'
    PROVE  IndexTypeOK'
<1>1. User' = User
  BY DocumentStays DEF User
<1>2. State' \in States' /\ Bounded(State)' /\ (Waiting(State) \subseteq visited)'
  BY DocumentStays DEF Bounded, Waiting
<1> QED
  BY <1>1, <1>2, DocumentStays DEF IndexInv, IndexTypeOK, RootUser

(* Stopping at the bound tells so: from here on there is a fact.            *)
LEMMA StopAtExpandedLimitKeeps ==
    ASSUME IndexInv, StopAtExpandedLimit
    PROVE  IndexInv'
<1> DEFINE noted == [Popped EXCEPT !.facts = @ \union {"MaxExpandedNodes"}]
           t == [Popped EXCEPT !.facts = @ \union {"MaxExpandedNodes"}, !.stopped = TRUE]
<1>1. /\ file' = file /\ turn' = turn /\ running' = running /\ treeNodes' = treeNodes
      /\ expanded' = expanded /\ done' = done
      /\ running /\ worklist # <<>> /\ Install(t)
  BY DEF StopAtExpandedLimit
<1>2. /\ IsFile(file) /\ turn \in 1 .. Len(Users)
      /\ Popped \in States /\ Bounded(Popped)
      /\ Popped.visited = visited /\ Popped.consumers = consumers
      /\ Waiting(Popped) \subseteq visited
  BY <1>1, RunningFacts
<1>3. /\ noted \in States /\ Bounded(noted) /\ noted.visited = visited
      /\ noted.worklist = Popped.worklist
      /\ noted.consumers = consumers /\ noted.facts = Popped.facts \union {"MaxExpandedNodes"}
  <2>1. {"MaxExpandedNodes"} \in SUBSET FactKinds
    BY DEF FactKinds
  <2> QED
    BY <1>2, <2>1, FactsAdded
<1>4. t = [noted EXCEPT !.stopped = TRUE]
  BY <1>2 DEF States
<1> HIDE DEF noted, t
<1>5. /\ t \in States /\ t.visited = visited /\ t.consumers = consumers /\ t.worklist = Popped.worklist
      /\ t.facts = Popped.facts \union {"MaxExpandedNodes"}
  BY <1>3, <1>4 DEF States
<1>6. Bounded(t)
  BY <1>3, <1>5 DEF Bounded
<1>7. State' = t /\ visited' = visited /\ consumers' = consumers /\ facts' = t.facts
  BY <1>1, <1>5, InstallState DEF Install
<1>8. Waiting(t) \subseteq visited
  BY <1>2, <1>5 DEF Waiting
<1>9. IndexTypeOK'
  BY <1>1, <1>5, <1>6, <1>7, <1>8, RunTypeFrom DEF IndexInv, IndexTypeOK
<1>10. SoundInv'
  BY <1>1, <1>7, SoundFrom DEF IndexInv, SoundInv
<1>11. CompleteInv'
  BY <1>5, <1>7 DEF CompleteInv
<1> QED
  BY <1>9, <1>10, <1>11 DEF IndexInv

(* So does an edge that does not resolve.                                   *)
LEMMA UnresolvedEdgeKeeps ==
    ASSUME IndexInv, UnresolvedEdge
    PROVE  IndexInv'
<1> DEFINE why == IF Top[1] \in DOMAIN file.objects THEN {"MaxDecodedObjectStreamBytes"} ELSE {}
           more == {"UnresolvedEdge"} \union why
           t == [Popped EXCEPT !.facts = @ \union more]
<1>1. /\ file' = file /\ turn' = turn /\ running' = running /\ treeNodes' = treeNodes
      /\ expanded' = expanded + 1 /\ expanded < MaxExpanded /\ done' = done
      /\ running /\ worklist # <<>>
  BY DEF UnresolvedEdge, MayExpand
<1>2. Install(t)
  <2>1. Install([Popped EXCEPT !.facts = (@ \union {"UnresolvedEdge"}) \union why])
    BY DEF UnresolvedEdge
  <2>2. (Popped.facts \union {"UnresolvedEdge"}) \union why = Popped.facts \union more
    OBVIOUS
  <2> HIDE DEF why, more
  <2> QED
    BY <2>1, <2>2
<1>3. /\ IsFile(file) /\ turn \in 1 .. Len(Users)
      /\ Popped \in States /\ Bounded(Popped)
      /\ Popped.visited = visited /\ Popped.consumers = consumers
      /\ Waiting(Popped) \subseteq visited
  BY <1>1, RunningFacts
<1>4. more \in SUBSET FactKinds /\ "UnresolvedEdge" \in more
  BY DEF FactKinds
<1> HIDE DEF more
<1>5. /\ t \in States /\ Bounded(t) /\ t.visited = visited
      /\ t.consumers = consumers /\ t.facts = Popped.facts \union more
      /\ Waiting(t) = Waiting(Popped)
  BY <1>3, <1>4, FactsAdded
<1> HIDE DEF t
<1>6. State' = t /\ visited' = visited /\ consumers' = consumers /\ facts' = t.facts
  BY <1>2, <1>5, InstallState DEF Install
<1>7. expanded' \in Nat /\ expanded' <= MaxExpanded
  BY <1>1, BoundsAssumption DEF IndexInv, IndexTypeOK
<1>8. IndexTypeOK'
  BY <1>1, <1>3, <1>5, <1>6, <1>7, RunTypeFrom DEF IndexInv, IndexTypeOK
<1>9. SoundInv'
  BY <1>1, <1>6, SoundFrom DEF IndexInv, SoundInv
<1>10. CompleteInv'
  BY <1>4, <1>5, <1>6 DEF CompleteInv
<1> QED
  BY <1>8, <1>9, <1>10 DEF IndexInv

(* Expanding an object registers it and handles all that is behind it.      *)
LEMMA ExpandKeeps ==
    ASSUME IndexInv, Expand
    PROVE  IndexInv'
<1> DEFINE registered == Registered(Popped, Top[1])
           scanned == EnqueuedAll(registered, ScannedReferences, Top[2] + 1)
           cut == IF Whole(ScannedEntries) THEN {} ELSE {"ReferenceShapes"}
           last == IF Body.scan = "failed" THEN registered ELSE scanned
           more == IF Body.scan = "failed" THEN {"BodyScan"} ELSE cut
           X == IF Body.scan = "failed" THEN {} ELSE ToSet(ScannedReferences)
           t == [last EXCEPT !.facts = @ \union more]
<1>1. /\ file' = file /\ turn' = turn /\ running' = running
      /\ expanded' = expanded + 1 /\ expanded < MaxExpanded /\ done' = done
      /\ running /\ worklist # <<>> /\ Top[1] \in DOMAIN file.objects
      /\ Install(t)
  BY DEF Expand, MayExpand, Resolvable
<1>2. /\ IsFile(file) /\ turn \in 1 .. Len(Users) /\ IsUser(User) /\ User.id \in Ids
      /\ Popped \in States /\ Bounded(Popped)
      /\ Popped.visited = visited /\ Popped.consumers = consumers /\ Popped.facts = facts
      /\ Waiting(State) = Waiting(Popped) \union {Top[1]}
      /\ Top[1] \in References /\ Top[2] \in Nat
      /\ Waiting(Popped) \subseteq visited /\ Top[1] \in visited
  BY <1>1, RunningFacts
<1>3. /\ registered \in States /\ Grows(Popped, registered) /\ Bounded(registered)
      /\ registered.visited = visited /\ registered.worklist = Popped.worklist
      /\ registered.consumers \subseteq consumers \union {<<Top[1], User.id>>}
      /\ registered.facts = {} => <<Top[1], User.id>> \in registered.consumers
  BY <1>2, RegisteredTakes
<1>4. Waiting(registered) = Waiting(Popped)
  BY <1>3 DEF Waiting
<1> HIDE DEF registered
<1>5. Takes(registered, last, X)
  <2>1. CASE Body.scan = "failed"
    BY <1>3, <2>1, TakesNothing
  <2>2. CASE Body.scan # "failed"
    <3>1. ScannedReferences \in Seq(References) /\ Top[2] + 1 \in Nat
      BY <1>1, <1>2, ScannedElements
    <3>2. Takes(registered, scanned, ToSet(ScannedReferences))
      BY <1>2, <1>3, <3>1, EnqueuedAllTakes
    <3> HIDE DEF scanned
    <3> QED
      BY <2>2, <3>2
  <2> QED
    BY <2>1, <2>2
<1>6. more \in SUBSET FactKinds
  BY DEF FactKinds
<1> HIDE DEF last
<1>7. /\ t \in States /\ Bounded(t) /\ t.visited = last.visited /\ t.consumers = last.consumers
      /\ t.facts = last.facts \union more /\ Waiting(t) = Waiting(last)
  <2>1. last \in States /\ Bounded(last)
    BY <1>3, <1>5 DEF Takes
  <2> HIDE DEF more
  <2> QED
    BY <1>6, <2>1, FactsAdded
<1> HIDE DEF t
<1>8. State' = t /\ visited' = t.visited /\ consumers' = t.consumers /\ facts' = t.facts
  BY <1>1, <1>7, InstallState DEF Install
<1>9. IndexTypeOK'
  <2>1. expanded' \in Nat /\ expanded' <= MaxExpanded
    BY <1>1, BoundsAssumption DEF IndexInv, IndexTypeOK
  <2>2. treeNodes' # {} => User.tree
    <3>1. treeNodes # {} => User.tree
      BY <1>1 DEF IndexInv, IndexTypeOK
    <3>2. treeNodes' = treeNodes \/ IsTreeNode
      BY DEF Expand
    <3> QED
      BY <3>1, <3>2 DEF IsTreeNode
  <2>3. Waiting(t) \subseteq t.visited
    <3>1. /\ Waiting(t) = Waiting(registered) \union (last.visited \ registered.visited)
          /\ registered.visited \subseteq last.visited /\ t.visited = last.visited
      BY <1>5, <1>7 DEF Takes, Grows
    <3>2. Waiting(registered) \subseteq registered.visited
      BY <1>2, <1>3, <1>4
    <3> HIDE DEF X
    <3> QED
      BY <3>1, <3>2
  <2> QED
    BY <1>1, <1>7, <1>8, <2>1, <2>2, <2>3, RunTypeFrom
<1>10. SoundInv'
  <2>1. VisitedIsReached(visited) /\ OwnPagesOnly(visited) /\ ListedIn(consumers)
    BY <1>1 DEF IndexInv, SoundInv
  <2>2. Top[1] \in ReachOf(User, TRUE)
    BY <1>1, <1>2, <2>1 DEF VisitedIsReached
  <2>3. ListedIn({<<Top[1], User.id>>})
    BY <1>2, <2>2, ReachedMayBeListed
  <2>4. ListedIn(registered.consumers)
    BY <1>3, <2>1, <2>3 DEF ListedIn
  <2>5. VisitedIsReached(X)
    <3>1. ~EndsAt(User, Top[1])
      BY <1>1, <1>2, <2>1 DEF EndsAt, OwnPagesOnly, IsForeignPage
    <3>2. X \subseteq EdgesFor(User, Top[1], TRUE)
      BY <1>1, <1>2, ScannedIsFollowed
    <3> HIDE DEF X
    <3> QED
      BY <1>2, <2>2, <3>1, <3>2, ReachIsClosed DEF VisitedIsReached
  <2>6. VisitedIsReached(last.visited) /\ OwnPagesOnly(last.visited) /\ ListedIn(last.consumers)
    BY <1>2, <1>3, <1>5, <2>1, <2>4, <2>5, TakesSoundly
  <2> QED
    BY <1>1, <1>7, <1>8, <2>6, SoundFrom
<1>11. CompleteInv'
  <2> SUFFICES ASSUME facts' = {}
               PROVE  /\ file.trailerOk /\ CatalogReadable
                      /\ FinishedBefore(turn', consumers')
                      /\ WalkedSoFar(State')
    BY <1>1, CompleteFrom
  <2>1. more = {} /\ last.facts = {} /\ registered.facts = {} /\ facts = {}
    BY <1>2, <1>3, <1>5, <1>7, <1>8 DEF Takes, Grows
  <2>2. file.trailerOk /\ CatalogReadable /\ FinishedBefore(turn, consumers) /\ WalkedSoFar(State)
    BY <1>1, <2>1 DEF IndexInv, CompleteInv
  <2>3. consumers \subseteq registered.consumers /\ registered.consumers \subseteq t.consumers
        /\ visited \subseteq t.visited
    BY <1>2, <1>3, <1>5, <1>7 DEF Takes, Grows
  <2>4. FinishedBefore(turn', consumers')
    BY <1>1, <1>8, <2>2, <2>3 DEF FinishedBefore
  <2>5. \A x : Handled(State, x) => Handled(t, x)
    BY <2>3, StateFields DEF Handled
  <2>6. Body.scan # "failed" /\ Whole(ScannedEntries)
    BY <2>1
  <2>7. \A x \in ToSet(ScannedReferences) : Handled(t, x)
    <3>1. \A x \in ToSet(ScannedReferences) : Handled(last, x)
      BY <1>5, <2>1, <2>6 DEF Takes
    <3> QED
      BY <1>7, <3>1 DEF Handled
  <2>8. EdgesFor(User, Top[1], FALSE) \subseteq ToSet(ScannedReferences)
    <3>1. IsTreeNode => User.tree
      BY <1>1 DEF IsTreeNode, IndexInv, IndexTypeOK
    <3> QED
      BY <1>1, <1>2, <2>6, <3>1, FollowedIsScanned
  <2>9. ExpandedIn(t, Top[1])
    BY <1>3, <2>1, <2>3, <2>7, <2>8 DEF ExpandedIn
  <2>10. ASSUME NEW v \in t.visited \ Waiting(t) PROVE ExpandedIn(t, v)
    <3>1. v \in visited /\ v \notin Waiting(Popped)
      BY <1>3, <1>4, <1>5, <1>7, <2>10 DEF Takes
    <3>2. CASE v = Top[1]
      BY <2>9, <3>2
    <3>3. CASE v # Top[1]
      <4>1. v \in State.visited \ Waiting(State)
        BY <1>2, <3>1, <3>3, StateFields
      <4>2. ExpandedIn(State, v)
        BY <2>2, <4>1 DEF WalkedSoFar
      <4> QED
        BY <2>3, <2>5, <4>2, StateFields DEF ExpandedIn
    <3> QED
      BY <3>2, <3>3
  <2>11. WalkedSoFar(State')
    BY <1>8, <2>2, <2>5, <2>10 DEF WalkedSoFar
  <2> QED
    BY <2>2, <2>4, <2>11
<1> QED
  BY <1>9, <1>10, <1>11 DEF IndexInv

(* A step that leaves the walk and the report alone keeps everything, and   *)
(* the index may be done once every user has had its turn.                  *)
LEMMA IdleKeeps ==
    ASSUME IndexInv, file' = file, turn' = turn, running' = running, walk' = walk,
           report' = report, expanded' = expanded,
           done' = done \/ (done' = TRUE /\ turn > Len(Users))
    PROVE  IndexInv'
<1>1. /\ State' = State /\ visited' = visited /\ treeNodes' = treeNodes
      /\ consumers' = consumers /\ facts' = facts
  BY DEF State, walk, report
<1>2. User' = User
  BY DocumentStays DEF User
<1>3. State' \in States' /\ Bounded(State)' /\ (Waiting(State) \subseteq visited)'
  <2>1. State' \in States /\ Bounded(State') /\ Waiting(State') \subseteq visited'
    BY <1>1 DEF IndexInv, IndexTypeOK
  <2> QED
    BY <2>1, DocumentStays DEF Bounded, Waiting
<1>4. IndexTypeOK'
  <2> DEFINE over == turn > Len(Users)
  <2>0. done \in BOOLEAN /\ (done => over)
    BY DEF IndexInv, IndexTypeOK
  <2> HIDE DEF over
  <2>1. done' \in BOOLEAN /\ (done' => over)
    <3>1. CASE done' = done
      BY <2>0, <3>1
    <3>2. CASE done' = TRUE /\ over
      BY <3>2
    <3> QED
      BY <3>1, <3>2 DEF over
  <2>2. (running /\ treeNodes # {} => User.tree)'
    BY <1>1, <1>2 DEF IndexInv, IndexTypeOK
  <2> QED
    BY <1>1, <1>2, <1>3, <2>1, <2>2, DocumentStays DEF IndexInv, IndexTypeOK, RootUser, over
<1>5. SoundInv'
  BY <1>1, SoundFrom DEF IndexInv, SoundInv
<1>6. CompleteInv'
  <2> SUFFICES ASSUME facts' = {}
               PROVE  /\ file.trailerOk /\ CatalogReadable
                      /\ FinishedBefore(turn', consumers')
                      /\ running' => WalkedSoFar(State')
    BY CompleteFrom
  <2> QED
    BY <1>1 DEF IndexInv, CompleteInv
<1> QED
  BY <1>4, <1>5, <1>6 DEF IndexInv

(* Every step keeps the invariant.                                          *)
LEMMA StepKeepsIndexInv ==
    ASSUME IndexInv, [Next]_vars
    PROVE  IndexInv'
<1>1. CASE Finish
  BY <1>1, IdleKeeps DEF Finish
<1>2. CASE UNCHANGED vars
  BY <1>2, IdleKeeps DEF vars
<1> QED
  BY <1>1, <1>2, StartUserKeeps, RegisterRootKeeps, SkipUserKeeps, EndUserKeeps,
     StopAtExpandedLimitKeeps, UnresolvedEdgeKeeps, ExpandKeeps DEF Next

(* What the invariant says of the properties.                               *)
LEMMA IndexInvSaysAll ==
    ASSUME IndexInv
    PROVE  TypeOK /\ ListedIsReached /\ NothingMissingSilently
<1>1. TypeOK
  <2>1. {worklist[i][1] : i \in DOMAIN worklist} \subseteq visited
    BY StateFields DEF IndexInv, IndexTypeOK, Waiting
  <2>2. /\ Cardinality(visited) <= MaxVisited /\ Cardinality(consumers) <= MaxPairs
        /\ stopped => facts \intersect {"MaxExpandedNodes", "MaxRecordedPairs"} # {}
    BY StateFields DEF IndexInv, IndexTypeOK, Bounded
  <2> QED
    BY <2>1, <2>2 DEF IndexInv, IndexTypeOK, TypeOK
<1>2. ListedIsReached
  BY DEF IndexInv, SoundInv, ListedIn, ListedIsReached
<1>3. NothingMissingSilently
  <2> SUFFICES ASSUME done, facts = {},
                      NEW i \in DOMAIN TrueUsers, NEW r \in ReachOf(TrueUsers[i], FALSE)
               PROVE  <<r, TrueUsers[i].id>> \in consumers
    BY DEF NothingMissingSilently
  <2>1. file.trailerOk /\ CatalogReadable /\ FinishedBefore(turn, consumers)
    BY DEF IndexInv, CompleteInv
  <2>2. Users = TrueUsers
    BY <2>1 DEF Users, TrueUsers, CatalogReadable, Resolvable
  <2>3. IsFile(file) /\ turn \in 1 .. (Len(Users) + 1) /\ turn > Len(Users)
    BY FilesAssumption DEF IndexInv, IndexTypeOK
  <2>4. Len(Users) \in Nat /\ DOMAIN Users = 1 .. Len(Users)
    BY <2>3, UsersAreTrue
  <2>5. i \in 1 .. (turn - 1)
    BY <2>2, <2>3, <2>4
  <2> QED
    BY <2>1, <2>2, <2>5 DEF FinishedBefore
<1> QED
  BY <1>1, <1>2, <1>3

(* The invariant holds.                                                     *)
THEOREM IndexInvHolds == Spec => []IndexInv
<1>1. Init => IndexInv
  BY InitIsIndexInv
<1>2. IndexInv /\ [Next]_vars => IndexInv'
  BY StepKeepsIndexInv
<1> QED
  BY <1>1, <1>2, PTL DEF Spec

----------------------------------------------------------------------------
(* The walk keeps its shape and its bounds, for every document and every    *)
(* choice of the bounds.                                                    *)
THEOREM TypeCorrect == Spec => []TypeOK
  BY IndexInvHolds, IndexInvSaysAll, PTL

(* Nothing is ever listed for a user that does not reach it, whatever the   *)
(* document, and whatever bound cut the traversal short.                    *)
THEOREM ListedIsAlwaysReached == Spec => []ListedIsReached
  BY IndexInvHolds, IndexInvSaysAll, PTL

(* An index without a fact is complete: what the scan cannot read, follow   *)
(* or hold is always told.                                                  *)
THEOREM NothingIsMissingSilently == Spec => []NothingMissingSilently
  BY IndexInvHolds, IndexInvSaysAll, PTL

=============================================================================
