---------------------------- MODULE NaturalOrder ----------------------------
(***************************************************************************)
(* Least and greatest elements of sets of naturals, for the definitions     *)
(* that pick one with CHOOSE.  A set comprehension and LeastExists also     *)
(* replace an induction: the least counterexample of a claim.  So the       *)
(* functions that a bounded recursion defines are shown to exist.           *)
(***************************************************************************)
EXTENDS Naturals, WellFoundedInduction, TLAPS

(* A set of naturals that is not empty has a least element.                 *)
LEMMA LeastExists ==
    ASSUME NEW T, T \subseteq Nat, T # {}
    PROVE  \E x \in T : \A y \in T : x <= y
<1>1. IsWellFoundedOn(OpToRel(<, Nat), Nat)
  BY NatLessThanWellFounded
<1>2. PICK x \in T : \A y \in T : ~ (<<y, x>> \in OpToRel(<, Nat))
  BY <1>1, WFMin
<1>3. ASSUME NEW y \in T PROVE x <= y
  <2>1. ~(y < x)
    BY <1>2 DEF OpToRel
  <2> QED
    BY <2>1
<1> QED
  BY <1>3

(* A bounded one has a greatest element.                                    *)
LEMMA GreatestExists ==
    ASSUME NEW bound \in Nat, NEW T, T \subseteq 0..bound, T # {}
    PROVE  \E x \in T : \A y \in T : y <= x
<1> DEFINE upper == {u \in Nat : \A y \in T : y <= u}
<1>1. bound \in upper
  OBVIOUS
<1>2. PICK u \in upper : \A v \in upper : u <= v
  BY <1>1, LeastExists
<1>3. u \in T
  <2> SUFFICES ASSUME u \notin T PROVE FALSE
    OBVIOUS
  <2>1. \A y \in T : y \in Nat /\ y <= u /\ y # u
    OBVIOUS
  <2>2. PICK m \in T : m <= u /\ m # u /\ m \in Nat
    BY <2>1
  <2>3. u - 1 \in Nat /\ \A y \in T : y <= u - 1
    BY <2>1, <2>2
  <2> QED
    BY <1>2, <2>2, <2>3
<1> QED
  BY <1>3

(* Finitely many naturals have a bound.                                     *)
LEMMA BoundExists ==
    ASSUME NEW count \in Nat, NEW f, \A i \in 1..count : f[i] \in Nat
    PROVE  \E bound \in Nat : \A i \in 1..count : f[i] <= bound
<1> DEFINE unbounded == {k \in 0..count : ~ \E bound \in Nat : \A i \in 1..k : f[i] <= bound}
<1>0. count \in 0..count
  OBVIOUS
<1> SUFFICES ASSUME unbounded # {} PROVE FALSE
  BY <1>0
<1>1. unbounded \subseteq Nat
  OBVIOUS
<1>2. PICK k \in unbounded : \A m \in unbounded : k <= m
  <2> HIDE DEF unbounded
  <2> QED
    BY <1>1, LeastExists
<1>3. k # 0
  <2>1. \A i \in 1..0 : f[i] <= 0
    OBVIOUS
  <2> QED
    BY <1>2, <2>1
<1>4. k \in 1..count /\ k - 1 \in 0..count /\ ~(k <= k - 1)
  BY <1>2, <1>3
<1>5. k - 1 \notin unbounded
  BY <1>2, <1>4
<1>6. PICK bound \in Nat : \A i \in 1..(k - 1) : f[i] <= bound
  BY <1>4, <1>5
<1>7. f[k] \in Nat /\ \A i \in 1..(k - 1) : f[i] \in Nat
  BY <1>4
<1>8. \A i \in 1..k : i = k \/ i \in 1..(k - 1)
  BY <1>4
<1>9. bound + f[k] \in Nat /\ \A i \in 1..k : f[i] <= bound + f[k]
  <2>1. bound + f[k] \in Nat /\ f[k] <= bound + f[k]
    BY <1>7
  <2>2. ASSUME NEW i \in 1..(k - 1) PROVE f[i] <= bound + f[k]
    BY <1>6, <1>7
  <2> QED
    BY <1>8, <2>1, <2>2
<1> QED
  BY <1>2, <1>9

(* The functions that recursion over 0 .. n defines exist: the step is a    *)
(* function g of the value before and the index.                            *)
Steps(g, X, n) == \A k \in 1 .. n : \A x \in X : g[<<x, k>>] \in X

Recursion(E, a, g, X, n) ==
    /\ E = [k \in 0 .. n |-> IF k = 0 THEN a ELSE g[<<E[k - 1], k>>]]
    /\ \A k \in 0 .. n : E[k] \in X

(* If every step stays in X, there is such a function, and it is in X       *)
(* throughout.                                                              *)
LEMMA RecursionExists ==
    ASSUME NEW X, NEW a \in X, NEW n \in Nat, NEW g, Steps(g, X, n)
    PROVE  \E E : Recursion(E, a, g, X, n)
<1> DEFINE Fits(E, m) == /\ DOMAIN E = 0 .. m /\ E[0] = a
                         /\ \A k \in 1 .. m : E[k] = g[<<E[k - 1], k>>]
                         /\ \A k \in 0 .. m : E[k] \in X
           missing == {m \in 0 .. n : ~ \E E : E = [k \in 0 .. m |-> E[k]] /\ Fits(E, m)}
<1>1. missing = {}
  <2> SUFFICES ASSUME missing # {} PROVE FALSE
    OBVIOUS
  <2>1. missing \subseteq Nat
    OBVIOUS
  <2>2. PICK m \in missing : \A k \in missing : m <= k
    <3> HIDE DEF missing
    <3> QED
      BY <2>1, LeastExists
  <2>3. m # 0
    <3> DEFINE E == [k \in 0 .. 0 |-> a]
    <3>1. Fits(E, 0)
      OBVIOUS
    <3>2. E = [k \in 0 .. 0 |-> E[k]]
      OBVIOUS
    <3> HIDE DEF E
    <3> QED
      BY <2>2, <3>1, <3>2
  <2>4. m - 1 \in 0 .. n /\ m - 1 \notin missing /\ m \in 1 .. n
    BY <2>1, <2>2, <2>3
  <2>5. PICK E : Fits(E, m - 1)
    BY <2>4
  <2> DEFINE F == [k \in 0 .. m |-> IF k = m THEN g[<<E[m - 1], m>>] ELSE E[k]]
  <2>6. \A k \in 0 .. (m - 1) : F[k] = E[k]
    BY <2>4
  <2>7. F[m] = g[<<E[m - 1], m>>] /\ E[m - 1] \in X /\ F[m] \in X
    BY <2>4, <2>5 DEF Steps
  <2>8. DOMAIN F = 0 .. m /\ F = [k \in 0 .. m |-> F[k]]
    OBVIOUS
  <2> HIDE DEF F
  <2>9. ASSUME NEW k \in 1 .. m PROVE F[k] = g[<<F[k - 1], k>>]
    <3>1. CASE k = m
      <4>1. m - 1 \in 0 .. (m - 1)
        BY <2>4
      <4>2. F[m - 1] = E[m - 1]
        BY <2>6, <4>1
      <4> QED
        BY <2>7, <3>1, <4>2
    <3>2. CASE k # m
      <4>1. k \in 1 .. (m - 1) /\ k \in 0 .. (m - 1) /\ k - 1 \in 0 .. (m - 1)
        BY <2>4, <3>2
      <4>2. F[k] = E[k] /\ F[k - 1] = E[k - 1] /\ E[k] = g[<<E[k - 1], k>>]
        BY <2>5, <2>6, <4>1
      <4> QED
        BY <4>2
    <3> QED
      BY <3>1, <3>2
  <2>10. ASSUME NEW k \in 0 .. m PROVE F[k] \in X
    <3>1. CASE k = m
      BY <2>7, <3>1
    <3>2. CASE k # m
      <4>1. k \in 0 .. (m - 1)
        BY <2>4, <3>2
      <4> QED
        BY <2>5, <2>6, <4>1
    <3> QED
      BY <3>1, <3>2
  <2>11. F[0] = a
    BY <2>4, <2>5, <2>6
  <2>12. Fits(F, m)
    BY <2>8, <2>9, <2>10, <2>11
  <2> QED
    BY <2>2, <2>8, <2>12
<1>2. n \in 0 .. n
  OBVIOUS
<1>3. PICK E : E = [k \in 0 .. n |-> E[k]] /\ Fits(E, n)
  BY <1>1, <1>2
<1>4. ASSUME NEW k \in 0 .. n PROVE E[k] = IF k = 0 THEN a ELSE g[<<E[k - 1], k>>]
  <2>1. CASE k = 0
    BY <1>3, <2>1
  <2>2. CASE k # 0
    <3>1. k \in 1 .. n
      BY <2>2
    <3>2. E[k] = g[<<E[k - 1], k>>]
      BY <1>3, <3>1
    <3> QED
      BY <2>2, <3>2
  <2> QED
    BY <2>1, <2>2
<1>5. E = [k \in 0 .. n |-> IF k = 0 THEN a ELSE g[<<E[k - 1], k>>]]
  BY <1>3, <1>4
<1> QED
  BY <1>3, <1>5 DEF Recursion
=============================================================================
