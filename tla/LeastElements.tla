---------------------------- MODULE LeastElements ----------------------------
(***************************************************************************)
(* Least elements and folds, for the proofs.                               *)
(*                                                                         *)
(* The library states induction with an operator as parameter, which the   *)
(* provers cannot instantiate.  What they can use is that < on the         *)
(* naturals and strict inclusion on finite sets are well founded: where a  *)
(* proof would go by induction it takes a least counterexample instead.    *)
(* The folds of the community modules are recursive functions on the       *)
(* subsets of a set; that such a function exists is proved here as well.   *)
(***************************************************************************)
EXTENDS TLAPS, FiniteSetTheorems

-----------------------------------------------------------------------------
(* Numbers. *)

(* Every nonempty set of naturals has a least element. *)
LEMMA LeastNat ==
    ASSUME NEW T \in SUBSET Nat, T # {}
    PROVE  \E m \in T : \A n \in T : m <= n
  <1>1. PICK m \in T : \A n \in T : ~ (<<n, m>> \in OpToRel(<, Nat))
    BY NatLessThanWellFounded, WFMin, Zenon
  <1>2. ASSUME NEW n \in T PROVE m <= n
    <2>1. ~(n < m)
      <3>1. n \in Nat /\ m \in Nat
        OBVIOUS
      <3>. QED BY <1>1, <3>1, Zenon DEF OpToRel
    <2>. QED BY <2>1
  <1>. QED BY <1>2

(* ... and so has every set of integers that is bounded below, *)
LEMMA LeastInt ==
    ASSUME NEW T \in SUBSET Int, T # {}, NEW b \in Int, \A t \in T : b <= t
    PROVE  \E m \in T : \A n \in T : m <= n
  <1>. DEFINE N == {n \in Nat : n + b \in T}
  <1>1. N # {}
    <2>1. PICK t \in T : TRUE
      OBVIOUS
    <2>2. t - b \in Nat /\ (t - b) + b = t
      OBVIOUS
    <2>. QED BY <2>2
  <1>2. PICK m \in N : \A n \in N : m <= n
    BY <1>1, LeastNat
  <1>3. ASSUME NEW t \in T PROVE m + b <= t
    <2>1. t - b \in N
      OBVIOUS
    <2>2. m <= t - b
      BY <1>2, <2>1
    <2>. QED BY <2>2
  <1>. QED BY <1>3

(* while one that is bounded above has a greatest element. *)
LEMMA GreatestInt ==
    ASSUME NEW T \in SUBSET Int, T # {}, NEW b \in Int, \A t \in T : t <= b
    PROVE  \E m \in T : \A n \in T : n <= m
  <1>. DEFINE N == {n \in Nat : b - n \in T}
  <1>1. N # {}
    <2>1. PICK t \in T : TRUE
      OBVIOUS
    <2>2. b - t \in Nat /\ b - (b - t) = t
      OBVIOUS
    <2>. QED BY <2>2
  <1>2. PICK m \in N : \A n \in N : m <= n
    BY <1>1, LeastNat
  <1>3. ASSUME NEW t \in T PROVE t <= b - m
    <2>1. b - t \in N
      <3>1. b - t \in Nat /\ b - (b - t) = t
        OBVIOUS
      <3>. QED BY <3>1
    <2>2. m <= b - t
      BY <1>2, <2>1
    <2>. QED BY <2>2
  <1>. QED BY <1>3

(* The least of a set of names by a bounded key, names breaking ties. *)
LEMMA LeastByKey ==
    ASSUME NEW T \in SUBSET Nat, T # {}, NEW key \in [T -> Int], NEW b \in Int,
           \A t \in T : b <= key[t]
    PROVE  \E x \in T : \A y \in T \ {x} : key[x] < key[y] \/ (key[x] = key[y] /\ x < y)
  <1>. DEFINE K == {key[t] : t \in T}
  <1>1. K \in SUBSET Int /\ K # {} /\ \A k \in K : b <= k
    OBVIOUS
  <1>2. PICK k \in K : \A n \in K : k <= n
    BY <1>1, LeastInt
  <1>. DEFINE M == {t \in T : key[t] = k}
  <1>3. M \in SUBSET Nat /\ M # {}
    OBVIOUS
  <1>4. PICK x \in M : \A y \in M : x <= y
    BY <1>3, LeastNat
  <1>5. ASSUME NEW y \in T \ {x} PROVE key[x] < key[y] \/ (key[x] = key[y] /\ x < y)
    <2>1. k <= key[y] /\ key[x] = k /\ k \in Int /\ key[y] \in Int /\ x \in Nat /\ y \in Nat
      BY <1>2
    <2>2. key[y] = k => x <= y
      BY <1>4
    <2>. QED BY <2>1, <2>2
  <1>. QED BY <1>5

(* A bounded key takes a least value. *)
LEMMA LeastValue ==
    ASSUME NEW H, H # {}, NEW f \in [H -> Int], NEW b \in Int, \A x \in H : b <= f[x]
    PROVE  \E x \in H : \A y \in H : f[x] <= f[y]
  <1>. DEFINE K == {f[x] : x \in H}
  <1>1. K \in SUBSET Int /\ K # {} /\ \A k \in K : b <= k
    OBVIOUS
  <1>2. PICK k \in K : \A n \in K : k <= n
    BY <1>1, LeastInt
  <1>. QED BY <1>2

-----------------------------------------------------------------------------
(* Finite sets. *)

(* Among the subsets of a finite set that have a property one is minimal. *)
LEMMA LeastSubset ==
    ASSUME NEW S, IsFiniteSet(S), NEW T \in SUBSET (SUBSET S), T # {}
    PROVE  \E m \in T : \A y \in T : y \subseteq m => y = m
  <1>1. T \subseteq FiniteSubsetsOf(S)
    <2>1. \A y \in T : y \in SUBSET S /\ IsFiniteSet(y)
      BY FS_Subset
    <2>. QED BY <2>1 DEF FiniteSubsetsOf
  <1>2. IsWellFoundedOn(StrictSubsetOrdering(S), FiniteSubsetsOf(S))
    BY FS_StrictSubsetOrderingWellFounded
  <1>3. PICK m \in T : \A y \in T : ~ (<<y, m>> \in StrictSubsetOrdering(S))
    BY <1>1, <1>2, WFMin, Zenon
  <1>4. ASSUME NEW y \in T, y \subseteq m PROVE y = m
    <2>1. y \in SUBSET S /\ m \in SUBSET S
      OBVIOUS
    <2>. QED BY <1>1, <1>3, <1>4, <2>1, Zenon DEF StrictSubsetOrdering
  <1>. QED BY <1>4

(* A recursive function whose value on a set x is F[<<x, f>>], a value that   *)
(* depends on f only at the strict subsets of x in the domain D.             *)
Local(F, D, A) ==
    \A x \in D : \A g, h \in [D -> A] :
       (\A y \in D : y \subseteq x /\ y # x => g[y] = h[y]) => F[<<x, g>>] = F[<<x, h>>]

(* F is the body of such a function, on subsets of S and with values in A, *)
Recursive(S, F, D, A) ==
    /\ D \in SUBSET (SUBSET S)
    /\ F \in [D \X [D -> A] -> A]
    /\ Local(F, D, A)

(* and there is a function it defines. *)
HasRecursion(F, D, A) == \E f \in [D -> A] : \A x \in D : f[x] = F[<<x, f>>]

(* g is that function as far as x. *)
Below(g, x, F, D) == \A y \in D : y \subseteq x => g[y] = F[<<y, g>>]

(* Two functions agree as far as both are that function. *)
LEMMA RecursionUnique ==
    ASSUME NEW S, IsFiniteSet(S), NEW D \in SUBSET (SUBSET S), NEW A, NEW F, Local(F, D, A),
           NEW x \in D, NEW z \in D, NEW g \in [D -> A], NEW h \in [D -> A],
           Below(g, x, F, D), Below(h, z, F, D)
    PROVE  \A y \in D : y \subseteq x /\ y \subseteq z => g[y] = h[y]
  <1>. DEFINE Bad == {y \in D : y \subseteq x /\ y \subseteq z /\ g[y] # h[y]}
  <1>1. SUFFICES ASSUME Bad # {} PROVE FALSE
    OBVIOUS
  <1>2. PICK m \in Bad : \A y \in Bad : y \subseteq m => y = m
    <2>1. Bad \in SUBSET (SUBSET S)
      OBVIOUS
    <2>. HIDE DEF Bad
    <2>. QED BY <1>1, <2>1, LeastSubset
  <1>3. \A y \in D : y \subseteq m /\ y # m => g[y] = h[y]
    BY <1>2
  <1>4. F[<<m, g>>] = F[<<m, h>>]
    BY <1>3 DEF Local
  <1>5. g[m] = F[<<m, g>>] /\ h[m] = F[<<m, h>>]
    BY DEF Below
  <1>. QED BY <1>4, <1>5

(* There is such a function: where it exists below every strict subset of x, *)
(* their values make one that reaches x.                                     *)
LEMMA RecursionExists ==
    ASSUME NEW S, IsFiniteSet(S), NEW D, NEW A, NEW a0 \in A, NEW F, Recursive(S, F, D, A)
    PROVE  HasRecursion(F, D, A)
  <1>0. /\ D \in SUBSET (SUBSET S) /\ F \in [D \X [D -> A] -> A]
        /\ Local(F, D, A)
    BY Zenon DEF Recursive
  <1>. USE <1>0
  <1>. DEFINE Good(x) == \E g \in [D -> A] : Below(g, x, F, D)
              Val(x) == CHOOSE a \in A : \E g \in [D -> A] : Below(g, x, F, D) /\ g[x] = a
  <1>1. ASSUME NEW y \in D, Good(y), NEW x \in D, y \subseteq x,
               NEW h \in [D -> A], Below(h, x, F, D)
        PROVE  Val(y) \in A /\ Val(y) = h[y]
    <2>1. PICK g \in [D -> A] : Below(g, y, F, D)
      BY <1>1
    <2>2. \E a \in A : \E k \in [D -> A] : Below(k, y, F, D) /\ k[y] = a
      BY <2>1
    <2>3. Val(y) \in A /\ \E k \in [D -> A] : Below(k, y, F, D) /\ k[y] = Val(y)
      BY <2>2, Zenon
    <2>4. PICK k \in [D -> A] : Below(k, y, F, D) /\ k[y] = Val(y)
      BY <2>3
    <2>. HIDE DEF Val
    <2>5. y \subseteq y
      OBVIOUS
    <2>6. k[y] = h[y]
      BY <1>1, <2>4, <2>5, RecursionUnique
    <2>. QED BY <2>3, <2>4, <2>6
  <1>2. ASSUME NEW y \in D, Good(y) PROVE Val(y) \in A
    <2>1. PICK g \in [D -> A] : Below(g, y, F, D)
      BY <1>2
    <2>2. y \subseteq y
      OBVIOUS
    <2>. HIDE DEF Val
    <2>. QED BY <1>1, <1>2, <2>1, <2>2
  <1>3. ASSUME NEW y \in D, Good(y), NEW G \in [D -> A],
               \A z \in D : z \subseteq y /\ z # y => G[z] = Val(z)
        PROVE  Val(y) = F[<<y, G>>]
    <2>1. PICK g \in [D -> A] : Below(g, y, F, D)
      BY <1>3
    <2>2. y \subseteq y
      OBVIOUS
    <2>3. ASSUME NEW z \in D, z \subseteq y, z # y PROVE G[z] = g[z]
      <3>1. Below(g, z, F, D)
        BY <2>1, <2>3 DEF Below
      <3>. HIDE DEF Val
      <3>2. Val(z) = g[z]
        BY <1>1, <2>1, <2>3, <3>1
      <3>. QED BY <1>3, <2>3, <3>2
    <2>4. F[<<y, G>>] = F[<<y, g>>]
      BY <2>1, <2>3 DEF Local
    <2>5. g[y] = F[<<y, g>>]
      BY <2>1, <2>2 DEF Below
    <2>6. Val(y) = g[y]
      <3>. HIDE DEF Val
      <3>. QED BY <1>1, <1>3, <2>1, <2>2
    <2>. QED BY <2>4, <2>5, <2>6
  <1>4. \A x \in D : Good(x)
    <2>. DEFINE Bad == {x \in D : ~Good(x)}
    <2>1. SUFFICES ASSUME Bad # {} PROVE FALSE
      OBVIOUS
    <2>2. PICK x \in Bad : \A y \in Bad : y \subseteq x => y = x
      <3>1. Bad \in SUBSET (SUBSET S)
        OBVIOUS
      <3>. HIDE DEF Bad
      <3>. QED BY <2>1, <3>1, LeastSubset
    <2>3. x \in D /\ ~Good(x) /\ \A y \in D : y \subseteq x /\ y # x => Good(y)
      BY <2>2
    <2>. HIDE DEF Bad, Val, Good
    <2>. DEFINE under(z) == z \subseteq x /\ z # x
                G0 == [z \in D |-> IF under(z) THEN Val(z) ELSE a0]
                G == [z \in D |-> IF z = x THEN F[<<x, G0>>] ELSE G0[z]]
    <2>4. G0 \in [D -> A] /\ \A z \in D : under(z) => G0[z] = Val(z)
      BY <1>2, <2>3
    <2>5. G \in [D -> A] /\ G[x] = F[<<x, G0>>] /\ \A z \in D : under(z) => G[z] = Val(z)
      <3>1. F[<<x, G0>>] \in A
        BY <2>3, <2>4
      <3>. HIDE DEF G0
      <3>. QED BY <2>3, <2>4, <3>1
    <2>. HIDE DEF G0, G
    <2>6. F[<<x, G0>>] = F[<<x, G>>]
      BY <2>3, <2>4, <2>5 DEF Local
    <2>7. ASSUME NEW y \in D, y \subseteq x PROVE G[y] = F[<<y, G>>]
      <3>1. CASE y = x
        BY <2>5, <2>6, <3>1
      <3>2. CASE y # x
        <4>1. Good(y) /\ G[y] = Val(y)
          BY <2>3, <2>5, <2>7, <3>2
        <4>2. \A z \in D : z \subseteq y /\ z # y => G[z] = Val(z)
          BY <2>5, <2>7, <3>2
        <4>3. Val(y) = F[<<y, G>>]
          BY <1>3, <2>5, <4>1, <4>2
        <4>. QED BY <4>1, <4>3
      <3>. QED BY <3>1, <3>2
    <2>8. Below(G, x, F, D)
      BY <2>7 DEF Below
    <2>. QED BY <2>3, <2>5, <2>8 DEF Good
  <1>. DEFINE f == [x \in D |-> Val(x)]
  <1>. HIDE DEF Val, Good
  <1>5. f \in [D -> A] /\ \A z \in D : f[z] = Val(z)
    BY <1>2, <1>4
  <1>. HIDE DEF f
  <1>6. \A x \in D : f[x] = F[<<x, f>>]
    BY <1>3, <1>4, <1>5
  <1>. QED BY <1>5, <1>6, Zenon DEF HasRecursion

(* The element of a set that the folds of the library take first. *)
Pick(s) == CHOOSE x \in s : TRUE

(* It is an element. *)
LEMMA PickIn == \A s : s # {} => Pick(s) \in s
  <1>1. ASSUME NEW s, s # {} PROVE Pick(s) \in s
    <2>1. \E x \in s : TRUE
      BY <1>1
    <2>. QED BY <2>1, Zenon DEF Pick
  <1>. QED BY <1>1

(* There is a function that folds the subsets of S the way Folds defines it. *)
HasFold(S, A, base, op) ==
    \E f \in [SUBSET S -> A] : \A s \in SUBSET S :
        f[s] = IF s = {} THEN base ELSE op[<<Pick(s), f[s \ {Pick(s)}]>>]

(* For a finite set there is. *)
LEMMA FoldExists ==
    ASSUME NEW S, IsFiniteSet(S), NEW A, NEW base \in A, NEW op \in [S \X A -> A]
    PROVE  HasFold(S, A, base, op)
  <1>. DEFINE D == SUBSET S
              Val(s, g) == IF s = {} THEN base ELSE op[<<Pick(s), g[s \ {Pick(s)}]>>]
              F == [p \in D \X [D -> A] |-> Val(p[1], p[2])]
  <1>1. ASSUME NEW s \in D, s # {}
        PROVE  Pick(s) \in S /\ s \ {Pick(s)} \in D /\ s \ {Pick(s)} \subseteq s
               /\ s \ {Pick(s)} # s
    BY <1>1, PickIn
  <1>2. ASSUME NEW s \in D, NEW g \in [D -> A] PROVE Val(s, g) \in A /\ F[<<s, g>>] = Val(s, g)
    <2>1. Val(s, g) \in A
      <3>1. CASE s = {}
        BY <3>1
      <3>2. CASE s # {}
        <4>1. g[s \ {Pick(s)}] \in A /\ Pick(s) \in S
          BY <1>1, <3>2
        <4>. QED BY <3>2, <4>1
      <3>. QED BY <3>1, <3>2
    <2>. HIDE DEF D, Val
    <2>. QED BY <2>1
  <1>3. F \in [D \X [D -> A] -> A]
    <2>1. \A p \in D \X [D -> A] : Val(p[1], p[2]) \in A
      <3>. HIDE DEF D, Val, F
      <3>. QED BY <1>2
    <2>. HIDE DEF D, Val
    <2>. QED BY <2>1
  <1>4. Local(F, D, A)
    <2>1. SUFFICES ASSUME NEW s \in D, NEW g \in [D -> A], NEW h \in [D -> A],
                          \A y \in D : y \subseteq s /\ y # s => g[y] = h[y]
                   PROVE  F[<<s, g>>] = F[<<s, h>>]
      <3>. HIDE DEF F, D
      <3>. QED BY DEF Local
    <2>2. s # {} => g[s \ {Pick(s)}] = h[s \ {Pick(s)}]
      BY <1>1, <2>1
    <2>3. Val(s, g) = Val(s, h)
      BY <2>2
    <2>. HIDE DEF F, D, Val
    <2>. QED BY <1>2, <2>3
  <1>5. D \in SUBSET (SUBSET S)
    OBVIOUS
  <1>. HIDE DEF F, D, Val
  <1>6. HasRecursion(F, D, A)
    <2>1. Recursive(S, F, D, A)
      BY <1>3, <1>4, <1>5, Zenon DEF Recursive
    <2>. QED BY <2>1, RecursionExists
  <1>7. PICK f \in [D -> A] : \A s \in D : f[s] = F[<<s, f>>]
    BY <1>6, Zenon DEF HasRecursion
  <1>8. ASSUME NEW s \in D PROVE f[s] = Val(s, f)
    <2>1. F[<<s, f>>] = Val(s, f)
      BY <1>2
    <2>. QED BY <1>7, <2>1
  <1>. QED BY <1>8, Zenon DEF HasFold, D, Val
=============================================================================
