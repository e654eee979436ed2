---------------------------- MODULE ChainLemmas ----------------------------
(***************************************************************************)
(* What the proofs about chain builders and writers keep needing of /Prev   *)
(* chains: a file has at most one from a given section, and it is found     *)
(* among the walks that repeat no section.                                  *)
(***************************************************************************)
EXTENDS XrefSections, NaturalOrder, FiniteSetTheorems

(* The values of a function on a finite set are finitely many.              *)
LEMMA FiniteValues ==
    ASSUME NEW S, IsFiniteSet(S), NEW f, DOMAIN f = S, f = [x \in S |-> f[x]]
    PROVE  IsFiniteSet({f[x] : x \in S})
<1> DEFINE T == {f[x] : x \in S}
<1>1. f \in Surjection(S, T)
  BY DEF Surjection
<1> QED
  BY <1>1, FS_Surjection

(* A walk is a sequence of offsets that repeats none, and every such        *)
(* sequence within the limit is one.                                        *)
LEMMA WalkIsInjective ==
    ASSUME NEW offsets, NEW limit \in Nat, NEW w
    PROVE  w \in Walks(offsets, limit) <=>
              /\ w \in Seq(offsets)
              /\ Len(w) <= limit
              /\ \A i, j \in DOMAIN w : w[i] = w[j] => i = j
<1>1. ASSUME w \in Walks(offsets, limit)
      PROVE  /\ w \in Seq(offsets)
             /\ Len(w) <= limit
             /\ \A i, j \in DOMAIN w : w[i] = w[j] => i = j
  <2>1. PICK k \in 0..limit : /\ w \in [1..k -> offsets]
                              /\ \A i, j \in 1..k : w[i] = w[j] => i = j
    BY <1>1 DEF Walks
  <2>2. w \in Seq(offsets) /\ Len(w) = k
    BY <2>1
  <2> QED
    BY <2>1, <2>2
<1>2. ASSUME w \in Seq(offsets), Len(w) <= limit,
             \A i, j \in DOMAIN w : w[i] = w[j] => i = j
      PROVE  w \in Walks(offsets, limit)
  <2>1. Len(w) \in 0..limit /\ w \in [1..Len(w) -> offsets] /\ DOMAIN w = 1..Len(w)
    BY <1>2
  <2>2. w \in {u \in [1..Len(w) -> offsets] :
                 \A i, j \in 1..Len(w) : u[i] = u[j] => i = j}
    BY <1>2, <2>1
  <2>3. \E k \in 0..limit : w \in {u \in [1..k -> offsets] :
                                   \A i, j \in 1..k : u[i] = u[j] => i = j}
    BY <2>1, <2>2, Zenon
  <2> QED
    BY <2>3 DEF Walks
<1> QED
  BY <1>1, <1>2

(* The sections of path follow each other's /Prev from start.               *)
FollowsFrom(file, start, path) ==
    /\ path # <<>>
    /\ path[1] = start
    /\ \A i \in 1..(Len(path) - 1) : file[path[i]].prev = path[i + 1]

(* Two walks that follow /Prev from one section agree wherever both go.     *)
LEMMA WalksAgree ==
    ASSUME NEW file, NEW start, NEW S, NEW v \in Seq(S), NEW w \in Seq(S),
           FollowsFrom(file, start, v), FollowsFrom(file, start, w)
    PROVE  \A i \in 1..Len(v) : i <= Len(w) => v[i] = w[i]
<1> DEFINE apart == {k \in 1..Len(v) : k <= Len(w) /\ v[k] # w[k]}
<1> SUFFICES ASSUME apart # {} PROVE FALSE
  OBVIOUS
<1>1. apart \subseteq Nat
  OBVIOUS
<1>2. PICK k \in apart : \A m \in apart : k <= m
  <2> HIDE DEF apart
  <2> QED
    BY <1>1, LeastExists
<1>3. k # 1 /\ k \in 1..Len(v) /\ k \in 1..Len(w)
  BY <1>2 DEF FollowsFrom
<1>4. k - 1 \in 1..(Len(v) - 1) /\ k - 1 \in 1..(Len(w) - 1) /\ (k - 1) + 1 = k
  BY <1>3
<1>5. v[k - 1] = w[k - 1]
  BY <1>2, <1>4
<1>6. v[k] = file[v[k - 1]].prev /\ w[k] = file[w[k - 1]].prev
  BY <1>4 DEF FollowsFrom
<1> QED
  BY <1>2, <1>5, <1>6

(* A file has at most one whole chain from a section.                       *)
LEMMA ChainIsUnique ==
    ASSUME NEW file, NEW start, NoPrev \notin DOMAIN file,
           NEW v \in Seq(DOMAIN file), NEW w \in Seq(DOMAIN file),
           IsChain(file, start, v), IsChain(file, start, w)
    PROVE  v = w
<1>1. FollowsFrom(file, start, v) /\ FollowsFrom(file, start, w)
  BY DEF IsChain, FollowsFrom
<1>2. ASSUME NEW x \in Seq(DOMAIN file), NEW y \in Seq(DOMAIN file),
             IsChain(file, start, x), FollowsFrom(file, start, y),
             \A i \in 1..Len(y) : y[i] \in DOMAIN file, Len(x) < Len(y),
             \A i \in 1..Len(x) : i <= Len(y) => x[i] = y[i]
      PROVE  FALSE
  <2>1. Len(x) \in 1..(Len(y) - 1) /\ x[Len(x)] = y[Len(x)]
    BY <1>2 DEF IsChain
  <2>2. y[Len(x) + 1] = NoPrev /\ Len(x) + 1 \in 1..Len(y)
    BY <1>2, <2>1 DEF IsChain, FollowsFrom
  <2> QED
    BY <1>2, <2>2
<1>3. /\ \A i \in 1..Len(v) : i <= Len(w) => v[i] = w[i]
      /\ \A i \in 1..Len(w) : i <= Len(v) => w[i] = v[i]
  BY <1>1, WalksAgree
<1>4. Len(v) = Len(w)
  BY <1>1, <1>2, <1>3
<1> QED
  BY <1>3, <1>4
=============================================================================
