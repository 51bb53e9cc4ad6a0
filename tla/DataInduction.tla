---------------------------- MODULE DataInduction ----------------------------
(***************************************************************************)
(* Induction over data, in first-order form.                               *)
(*                                                                         *)
(* The induction theorems of the library take a predicate as a parameter.  *)
(* Here induction is the least element of a set of numbers, and recursion  *)
(* a functional, itself a function: the proofs about sorted names, joined  *)
(* keys and type trees rest on these two lemmas.                           *)
(***************************************************************************)
EXTENDS Integers, WellFoundedInduction, TLAPS

\* A non-empty set of numbers has a least element: a property holds of every number
\* if the least one without it leads to a contradiction.
LEMMA LeastElement ==
  ASSUME NEW T \in SUBSET Nat, T # {}
  PROVE  \E m \in T : \A k \in T : m <= k
<1> DEFINE Less == {ss \in Nat \X Nat : ss[1] < ss[2]}
<1>1. IsWellFoundedOn(Less, Nat)
  BY NatLessThanWellFounded DEF OpToRel
<1>2. \A x, y \in Nat : y < x => <<y, x>> \in Less
  OBVIOUS
<1> HIDE DEF Less
<1>3. PICK x \in T : \A y \in T : ~ (<<y, x>> \in Less)
  BY <1>1, WFMin
<1>4. ASSUME NEW y \in T PROVE x <= y
  <2>1. x \in Nat /\ y \in Nat
    OBVIOUS
  <2>2. ~(y < x)
    BY <1>2, <1>3, <2>1
  <2> QED
    BY <2>1, <2>2
<1> QED
  BY <1>4

\* A set to which every element belongs whose smaller ones all do is the whole.
LEMMA InductionByRank ==
  ASSUME NEW S, NEW rank \in [S -> Nat], NEW P,
         \A x \in S : (\A y \in S : rank[y] < rank[x] => y \in P) => x \in P
  PROVE  \A x \in S : x \in P
<1> DEFINE Bad == {n \in Nat : \E x \in S : rank[x] = n /\ x \notin P}
<1> SUFFICES ASSUME Bad # {} PROVE FALSE
  OBVIOUS
<1>1. PICK n \in Bad : \A k \in Bad : n <= k
  <2> HIDE DEF Bad
  <2>1. Bad \in SUBSET Nat
    BY DEF Bad
  <2> QED
    BY <2>1, LeastElement
<1>2. PICK x \in S : rank[x] = n /\ x \notin P
  BY <1>1
<1>3. ASSUME NEW y \in S, rank[y] < rank[x] PROVE y \in P
  <2>1. rank[y] \in Nat /\ ~(n <= rank[y])
    BY <1>2, <1>3
  <2> QED
    BY <1>1, <2>1
<1> QED
  BY <1>2, <1>3

\* F, which unfolds a definition on S once, looks only at elements of smaller rank.
Unfolds(F, S, T, rank) ==
  /\ rank \in [S -> Nat]
  /\ F \in [[S -> T] -> [S -> T]]
  /\ \A g, h \in [S -> T] : \A x \in S :
       (\A y \in S : rank[y] < rank[x] => g[y] = h[y]) => F[g][x] = F[h][x]

\* Such a definition has a solution, which the function so defined then is.
LEMMA RecursionByRank ==
  ASSUME NEW S, NEW T, NEW rank, NEW F, NEW t \in T, Unfolds(F, S, T, rank)
  PROVE  \E f \in [S -> T] : f = F[f]
<1> USE DEF Unfolds
<1> DEFINE Approx(g, n) == \A x \in S : rank[x] < n => g[x] = F[g][x]
<1>1. \A n \in Nat : \E g \in [S -> T] : Approx(g, n)
  <2> DEFINE Bad == {n \in Nat : ~ \E g \in [S -> T] : Approx(g, n)}
  <2> SUFFICES ASSUME Bad # {} PROVE FALSE
    OBVIOUS
  <2>1. PICK n \in Bad : \A k \in Bad : n <= k
    <3> HIDE DEF Bad
    <3>1. Bad \in SUBSET Nat
      BY DEF Bad
    <3> QED
      BY <3>1, LeastElement
  <2>2. Approx([x \in S |-> t], 0)
    OBVIOUS
  <2>3. n # 0
    BY <2>1, <2>2
  <2>4. n - 1 \in Nat /\ n - 1 \notin Bad
    BY <2>1, <2>3
  <2>5. PICK g \in [S -> T] : Approx(g, n - 1)
    BY <2>4
  <2>6. F[g] \in [S -> T]
    OBVIOUS
  <2>7. ASSUME NEW x \in S, rank[x] < n PROVE F[g][x] = F[F[g]][x]
    <3>1. \A y \in S : rank[y] < rank[x] => g[y] = F[g][y]
      BY <2>5, <2>7, <2>1
    <3> QED
      BY <3>1, <2>6
  <2> QED
    BY <2>1, <2>6, <2>7
<1>2. ASSUME NEW n \in Nat, NEW g \in [S -> T], Approx(g, n), NEW m \in Nat,
             NEW h \in [S -> T], Approx(h, m)
      PROVE  \A x \in S : rank[x] < n /\ rank[x] < m => g[x] = h[x]
  <2> DEFINE Bad == {k \in Nat : \E x \in S : /\ rank[x] = k /\ k < n /\ k < m
                                              /\ g[x] # h[x]}
  <2> SUFFICES ASSUME Bad # {} PROVE FALSE
    <3>1. \A x \in S : rank[x] \in Nat
      OBVIOUS
    <3> QED
      BY <3>1
  <2>1. PICK k \in Bad : \A j \in Bad : k <= j
    <3>1. Bad \in SUBSET Nat
      OBVIOUS
    <3> HIDE DEF Bad
    <3> QED
      BY <3>1, LeastElement
  <2>2. PICK x \in S : rank[x] = k /\ k < n /\ k < m /\ g[x] # h[x]
    BY <2>1
  <2>3. ASSUME NEW y \in S, rank[y] < rank[x] PROVE g[y] = h[y]
    <3>1. rank[y] \in Nat /\ rank[y] < n /\ rank[y] < m /\ ~(k <= rank[y])
      BY <2>2, <2>3
    <3>2. rank[y] \notin Bad
      BY <2>1, <3>1
    <3> QED
      BY <3>1, <3>2
  <2>4. F[g][x] = F[h][x]
    BY <2>3
  <2> QED
    BY <2>2, <2>4, <1>2
<1> DEFINE G == [n \in Nat |-> CHOOSE g \in [S -> T] : Approx(g, n)]
<1>3. \A n \in Nat : G[n] \in [S -> T] /\ Approx(G[n], n)
  BY <1>1
<1> DEFINE f == [x \in S |-> G[rank[x] + 1][x]]
<1>4. f \in [S -> T]
  <2>1. \A x \in S : rank[x] + 1 \in Nat
    OBVIOUS
  <2> HIDE DEF G, Approx
  <2> QED
    BY <1>3, <2>1
<1>5. ASSUME NEW x \in S PROVE f[x] = F[f][x]
  <2> DEFINE n == rank[x] + 1
  <2>1. n \in Nat /\ \A y \in S : rank[y] <= rank[x] => G[n][y] = f[y]
    <3>1. n \in Nat
      OBVIOUS
    <3>2. ASSUME NEW y \in S, rank[y] <= rank[x] PROVE G[n][y] = G[rank[y] + 1][y]
      <4>1. rank[y] + 1 \in Nat /\ rank[y] < n /\ rank[y] < rank[y] + 1
        BY <3>2
      <4> HIDE DEF G, Approx, n
      <4> QED
        BY <1>2, <1>3, <3>1, <4>1
    <3> HIDE DEF G
    <3> QED
      BY <3>1, <3>2
  <2>2. F[G[n]][x] = F[f][x]
    <3> HIDE DEF G, f, n, Approx
    <3>1. \A y \in S : rank[y] < rank[x] => G[n][y] = f[y]
      BY <2>1
    <3> QED
      BY <3>1, <1>3, <1>4, <2>1
  <2>3. G[n][x] = F[G[n]][x]
    <3>1. rank[x] < n
      OBVIOUS
    <3> HIDE DEF G, n
    <3> QED
      BY <1>3, <2>1, <3>1
  <2> QED
    BY <2>2, <2>3
<1>6. f = F[f]
  <2>1. F[f] \in [S -> T]
    BY <1>4
  <2> HIDE DEF f
  <2> QED
    BY <1>4, <1>5, <2>1
<1> QED
  BY <1>4, <1>6
=============================================================================
