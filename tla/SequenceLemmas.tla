---------------------------- MODULE SequenceLemmas ----------------------------
(***************************************************************************)
(* Facts about sequences: taking one element out (slices.Delete of one     *)
(* index, RemoveAt here), and going through one from left to right as the  *)
(* loops of ingestComponentState and upsertComponentsLocked do (FoldLeft   *)
(* here), whatever one round of the loop does; and about sums over a       *)
(* finite set (FoldFunction), its list (SetToSeq), and its maximum.        *)
(***************************************************************************)
EXTENDS SequencesExt, SequenceTheorems, FiniteSetTheorems, WellFoundedInduction, TLAPS

CONSTANT op(_, _, _)   \* what one round does: context, state so far, element

\* The state after the last round.
Fold(c, base, s) == FoldLeft(LAMBDA sofar, x : op(c, sofar, x), base, s)

-----------------------------------------------------------------------------
\* What RemoveAt(s, i) is: i is left out and what follows it moves up by one.
\* (Store.Claim: slices.Delete(s.pending, i, i+1).)
LEMMA RemoveAtIs ==
  ASSUME NEW T, NEW s \in Seq(T), NEW i \in 1 .. Len(s)
  PROVE  /\ RemoveAt(s, i) \in Seq(T)
         /\ Len(RemoveAt(s, i)) = Len(s) - 1
         /\ \A j \in 1 .. Len(s) - 1 :
              RemoveAt(s, i)[j] = IF j < i THEN s[j] ELSE s[j + 1]
<1> DEFINE front == SubSeq(s, 1, i - 1)
           back == SubSeq(s, i + 1, Len(s))
<1>1. /\ front \in Seq(T)
      /\ Len(front) = i - 1
      /\ \A j \in 1 .. i - 1 : front[j] = s[j]
  OBVIOUS
<1>2. /\ back \in Seq(T)
      /\ Len(back) = Len(s) - i
      /\ \A j \in 1 .. Len(s) - i : back[j] = s[i + j]
  OBVIOUS
<1>3. RemoveAt(s, i) = front \o back
  BY DEF RemoveAt
<1>4. /\ front \o back \in Seq(T)
      /\ Len(front \o back) = Len(front) + Len(back)
      /\ \A j \in 1 .. Len(front) + Len(back) :
           (front \o back)[j] = IF j <= Len(front) THEN front[j] ELSE back[j - Len(front)]
  BY <1>1, <1>2, ConcatProperties
<1> HIDE DEF front, back
<1>5. ASSUME NEW j \in 1 .. Len(s) - 1
      PROVE  (front \o back)[j] = IF j < i THEN s[j] ELSE s[j + 1]
  BY <1>1, <1>2, <1>4, SMTT(30)
<1> QED
  BY <1>1, <1>2, <1>3, <1>4, <1>5
-----------------------------------------------------------------------------
\* Every set of numbers has a least one: {1 .. n} is ordered by inclusion.
LEMMA LeastNatural ==
  ASSUME NEW B \in SUBSET Nat, B # {}
  PROVE  \E n \in B : \A m \in B : n <= m
<1> DEFINE below == {1 .. n : n \in B}
           less == StrictSubsetOrdering(Nat)
<1>1. below \subseteq FiniteSubsetsOf(Nat) /\ below # {}
  <2>1. ASSUME NEW n \in B PROVE IsFiniteSet(1 .. n) /\ 1 .. n \in SUBSET Nat
    BY FS_Interval
  <2> QED
    BY <2>1 DEF FiniteSubsetsOf
<1>2. \E s \in below : \A t \in below : <<t, s>> \notin less
  <2>1. IsWellFoundedOn(less, FiniteSubsetsOf(Nat))
    BY FS_StrictSubsetOrderingWellFounded
  <2> HIDE DEF less, below
  <2> QED
    BY <1>1, <2>1, WFMin
<1>3. PICK n \in B : \A m \in B : <<1 .. m, 1 .. n>> \notin less
  BY <1>2
<1>4. ASSUME NEW m \in B, m < n PROVE FALSE
  <2>1. 1 .. m \subseteq 1 .. n /\ n \in 1 .. n /\ n \notin 1 .. m
    BY <1>4
  <2>2. 1 .. m \in SUBSET Nat /\ 1 .. n \in SUBSET Nat
    OBVIOUS
  <2> QED
    BY <1>3, <2>1, <2>2 DEF StrictSubsetOrdering
<1> QED
  BY <1>4

\* Induction over the naturals, for a property given as a set.
LEMMA InductionInSet ==
  ASSUME NEW A, 0 \in A, \A n \in Nat : n \in A => n + 1 \in A
  PROVE  \A n \in Nat : n \in A
<1> SUFFICES ASSUME Nat \ A # {} PROVE FALSE
  OBVIOUS
<1> DEFINE B == Nat \ A
<1>0. B \in SUBSET Nat /\ B # {}
  OBVIOUS
<1> HIDE DEF B
<1>1. PICK n \in B : \A m \in B : n <= m
  BY <1>0, LeastNatural
<1> USE DEF B
<1>2. n # 0 /\ n - 1 \in Nat
  BY <1>1
<1>3. n - 1 \in A
  BY <1>1, <1>2
<1> QED
  BY <1>1, <1>2, <1>3

\* The index FoldLeft takes next is the last one left.
LEMMA MaxIs ==
  ASSUME NEW n \in Nat, NEW t \in SUBSET (1 .. n), t # {}
  PROVE  Max(t) \in t /\ \A y \in t : Max(t) >= y
<1> DEFINE B == {m \in Nat : \A y \in t : m >= y}
<1>1. B \in SUBSET Nat /\ n \in B
  OBVIOUS
<1> HIDE DEF B
<1>2. PICK m \in B : \A k \in B : m <= k
  BY <1>1, LeastNatural
<1> USE DEF B
<1>3. m \in t
  <2> SUFFICES ASSUME m \notin t PROVE FALSE
    OBVIOUS
  <2>1. \A y \in t : m > y /\ y \in Nat /\ y >= 1
    BY <1>2
  <2>2. PICK z \in t : TRUE
    OBVIOUS
  <2>3. m \in Nat /\ m > 1
    BY <1>2, <2>1, <2>2
  <2>4. \A y \in t : m - 1 >= y
    BY <2>1, <2>3
  <2>5. m - 1 \in B
    BY <2>3, <2>4
  <2> QED
    BY <2>3, <2>5, <1>2
<1> QED
  BY <1>2, <1>3 DEF Max


\* What FoldLeft is defined by: h has the state after each set of indices.
IsFold(h, c, base, s, n) ==
  h = [t \in SUBSET (1 .. n) |->
         IF t = {} THEN base ELSE op(c, h[t \ {Max(t)}], s[Max(t)])]

\* There is such a function, so that FoldLeft is what its definition says.
LEMMA FoldExists ==
  ASSUME NEW c, NEW base, NEW s, NEW n \in Nat
  PROVE  \E h : IsFold(h, c, base, s, n)
<1> DEFINE A == {k \in Nat : \E h : IsFold(h, c, base, s, k)}
<1>1. 0 \in A
  <2> DEFINE h == [t \in SUBSET (1 .. 0) |-> base]
  <2>1. IsFold(h, c, base, s, 0)
    BY DEF IsFold
  <2> QED
    BY <2>1
<1>2. ASSUME NEW k \in Nat, k \in A
      PROVE  k + 1 \in A
  <2>1. PICK h : IsFold(h, c, base, s, k)
    BY <1>2
  <2> DEFINE g == [t \in SUBSET (1 .. k + 1) |->
                     IF k + 1 \in t THEN op(c, h[t \ {k + 1}], s[k + 1]) ELSE h[t]]
  <2>2. ASSUME NEW t \in SUBSET (1 .. k + 1)
        PROVE  g[t] = IF t = {} THEN base ELSE op(c, g[t \ {Max(t)}], s[Max(t)])
    <3>1. CASE t = {}
      BY <2>1, <3>1 DEF IsFold
    <3>2. CASE k + 1 \in t
      <4>1. Max(t) \in t /\ \A y \in t : Max(t) >= y
        <5>1. k + 1 \in Nat /\ t # {}
          BY <3>2
        <5> QED
          BY <5>1, MaxIs
      <4>2. Max(t) = k + 1
        <5>1. Max(t) \in 1 .. k + 1 /\ Max(t) >= k + 1
          BY <3>2, <4>1
        <5> QED
          BY <5>1
      <4>3. t \ {k + 1} \in SUBSET (1 .. k + 1) /\ k + 1 \notin t \ {k + 1}
        OBVIOUS
      <4>4. g[t \ {k + 1}] = h[t \ {k + 1}]
        BY <4>3
      <4> QED
        BY <3>2, <4>2, <4>4
    <3>3. CASE t # {} /\ k + 1 \notin t
      <4>1. t \in SUBSET (1 .. k)
        BY <3>3
      <4>2. Max(t) \in t
        BY <3>3, <4>1, MaxIs
      <4>3. t \ {Max(t)} \in SUBSET (1 .. k) /\ k + 1 \notin t \ {Max(t)}
        BY <3>3, <4>1
      <4>4. g[t \ {Max(t)}] = h[t \ {Max(t)}] /\ g[t] = h[t]
        BY <3>3, <4>3
      <4> QED
        BY <2>1, <3>3, <4>1, <4>4 DEF IsFold
    <3> QED
      BY <3>1, <3>2, <3>3
  <2>3. IsFold(g, c, base, s, k + 1)
    BY <2>2 DEF IsFold
  <2> HIDE DEF g
  <2> QED
    BY <2>3
<1> HIDE DEF A
<1>3. n \in A
  BY <1>1, <1>2, InductionInSet
<1> QED
  BY <1>3 DEF A

\* A loop over a sequence goes through the states u[0], u[1], ...: one round takes
\* each of them to the next, and the last one is the result.
LEMMA FoldLeftIs ==
  ASSUME NEW c, NEW T, NEW s \in Seq(T), NEW base
  PROVE  \E u : /\ u[0] = base
                /\ \A i \in 1 .. Len(s) : u[i] = op(c, u[i - 1], s[i])
                /\ Fold(c, base, s) = u[Len(s)]
<1>n. PICK n \in Nat : n = Len(s) /\ DOMAIN s = 1 .. n
  OBVIOUS
<1> DEFINE h == CHOOSE h : IsFold(h, c, base, s, n)
           u == [i \in 0 .. n |-> h[1 .. i]]
<1>2. IsFold(h, c, base, s, n)
  BY FoldExists
<1>3. Fold(c, base, s) = h[1 .. n]
  BY <1>n DEF Fold, FoldLeft, MapThenFoldSet, IsFold
<1> HIDE DEF h
<1>4. u[0] = base
  BY <1>2 DEF IsFold
<1>5. ASSUME NEW i \in 1 .. n
      PROVE  u[i] = op(c, u[i - 1], s[i])
  <2>1. 1 .. i \in SUBSET (1 .. n) /\ 1 .. i # {} /\ i \in Nat
    <3>1. i \in Nat /\ i <= n /\ i \in 1 .. i
      OBVIOUS
    <3> QED
      BY <3>1
  <2>2. Max(1 .. i) = i
    <3>1. 1 .. i \in SUBSET (1 .. i) /\ i \in 1 .. i
      BY <2>1
    <3>2. Max(1 .. i) \in 1 .. i /\ Max(1 .. i) >= i
      BY <2>1, <3>1, MaxIs
    <3> QED
      BY <2>1, <3>2
  <2>3. (1 .. i) \ {i} = 1 .. i - 1 /\ i \in 0 .. n /\ i - 1 \in 0 .. n
    OBVIOUS
  <2>4. h[1 .. i] = op(c, h[(1 .. i) \ {Max(1 .. i)}], s[Max(1 .. i)])
    BY <1>2, <2>1 DEF IsFold
  <2> QED
    BY <2>2, <2>3, <2>4
<1>6. Fold(c, base, s) = u[n]
  <2>1. n \in 0 .. n
    OBVIOUS
  <2> QED
    BY <1>3, <2>1
<1> HIDE DEF u
<1> QED
  BY <1>n, <1>4, <1>5, <1>6
-----------------------------------------------------------------------------
(* Sums over a finite set. *)

SumOf(f) == FoldFunction(LAMBDA x, y : x + y, 0, f)

Pick(t) == CHOOSE x \in t : TRUE

\* What FoldFunction is defined by, on the given subsets of f's domain.
IsSum(h, f, D) ==
  h = [t \in D |-> IF t = {} THEN 0 ELSE f[Pick(t)] + h[t \ {Pick(t)}]]

Smaller(W, n) == {t \in SUBSET W : Cardinality(t) <= n}

\* Taking the next element out leaves a smaller subset.
LEMMA PickLeaves ==
  ASSUME NEW W, IsFiniteSet(W), NEW t \in SUBSET W, t # {}
  PROVE  /\ Pick(t) \in t /\ Pick(t) \in W
         /\ IsFiniteSet(t) /\ Cardinality(t) \in Nat
         /\ t \ {Pick(t)} \in SUBSET W
         /\ Cardinality(t \ {Pick(t)}) \in Nat
         /\ Cardinality(t \ {Pick(t)}) = Cardinality(t) - 1
<1>1. Pick(t) \in t
  BY DEF Pick
<1>2. IsFiniteSet(t)
  BY FS_Subset
<1>3. Cardinality(t) \in Nat
  BY <1>2, FS_CardinalityType
<1>4. PICK x : x = Pick(t)
  OBVIOUS
<1>5. IsFiniteSet(t \ {x})
  BY <1>2, FS_RemoveElement
<1>6. Cardinality(t \ {x}) = Cardinality(t) - 1
  BY <1>1, <1>2, <1>4, FS_RemoveElement
<1>7. Cardinality(t \ {x}) \in Nat
  BY <1>5, FS_CardinalityType
<1> QED
  BY <1>1, <1>2, <1>3, <1>4, <1>6, <1>7

LEMMA NothingLeft ==
  ASSUME NEW W, IsFiniteSet(W), NEW t \in SUBSET W, Cardinality(t) <= 0
  PROVE  t = {}
<1> SUFFICES ASSUME t # {} PROVE FALSE
  OBVIOUS
<1>1. PICK s : s = t \ {Pick(t)}
  OBVIOUS
<1>2. Cardinality(t) \in Nat /\ Cardinality(s) \in Nat
  BY <1>1, PickLeaves
<1>3. Cardinality(s) = Cardinality(t) - 1
  BY <1>1, PickLeaves
<1> QED
  BY <1>2, <1>3

LEMMA SumExists ==
  ASSUME NEW f, NEW W, IsFiniteSet(W)
  PROVE  \E h : IsSum(h, f, SUBSET W)
<1> DEFINE A == {n \in Nat : \E h : IsSum(h, f, Smaller(W, n))}
<1>1. 0 \in A
  <2> DEFINE h == [t \in Smaller(W, 0) |-> 0]
  <2>1. ASSUME NEW t \in Smaller(W, 0) PROVE t = {}
    <3>1. t \in SUBSET W /\ Cardinality(t) <= 0
      BY <2>1 DEF Smaller
    <3> QED
      BY <3>1, NothingLeft
  <2>2. IsSum(h, f, Smaller(W, 0))
    BY <2>1 DEF IsSum
  <2> QED
    BY <2>2
<1>2. ASSUME NEW n \in Nat, n \in A PROVE n + 1 \in A
  <2>1. PICK h : IsSum(h, f, Smaller(W, n))
    BY <1>2
  <2> DEFINE g == [t \in Smaller(W, n + 1) |->
                     IF t \in Smaller(W, n) THEN h[t] ELSE f[Pick(t)] + h[t \ {Pick(t)}]]
  <2>2. ASSUME NEW t \in Smaller(W, n + 1), t # {}
        PROVE  t \ {Pick(t)} \in Smaller(W, n) /\ t \ {Pick(t)} \in Smaller(W, n + 1)
    <3>1. t \in SUBSET W /\ Cardinality(t) <= n + 1
      BY DEF Smaller
    <3> QED
      BY <2>2, <3>1, PickLeaves DEF Smaller
  <2>3. {} \in Smaller(W, n)
    BY FS_EmptySet DEF Smaller
  <2>4. ASSUME NEW t \in Smaller(W, n + 1)
        PROVE  g[t] = IF t = {} THEN 0 ELSE f[Pick(t)] + g[t \ {Pick(t)}]
    <3>1. CASE t = {}
      BY <2>1, <2>3, <3>1 DEF IsSum
    <3>2. CASE t # {}
      <4>1. g[t \ {Pick(t)}] = h[t \ {Pick(t)}]
        BY <2>2, <3>2
      <4>2. t \in Smaller(W, n) => h[t] = f[Pick(t)] + h[t \ {Pick(t)}]
        BY <2>1, <3>2 DEF IsSum
      <4> QED
        BY <3>2, <4>1, <4>2
    <3> QED
      BY <3>1, <3>2
  <2>5. IsSum(g, f, Smaller(W, n + 1))
    BY <2>4 DEF IsSum
  <2> HIDE DEF g
  <2> QED
    BY <2>5
<1> HIDE DEF A
<1>3. Cardinality(W) \in A
  BY <1>1, <1>2, InductionInSet, FS_CardinalityType
<1>4. Smaller(W, Cardinality(W)) = SUBSET W
  BY FS_Subset DEF Smaller
<1> QED
  BY <1>3, <1>4 DEF A

\* The sum of a family of numbers, subset by subset.
LEMMA SumIs ==
  ASSUME NEW W, IsFiniteSet(W), NEW f, DOMAIN f = W
  PROVE  \E h : IsSum(h, f, SUBSET W) /\ SumOf(f) = h[W]
<1> DEFINE h == CHOOSE h : IsSum(h, f, SUBSET W)
<1>1. IsSum(h, f, SUBSET W)
  BY SumExists
<1>2. SumOf(f) = h[W]
  BY DEF SumOf, FoldFunction, FoldFunctionOnSet, MapThenFoldSet, IsSum, Pick
<1> HIDE DEF h
<1> QED
  BY <1>1, <1>2

\* Two families that differ by one in one place have sums that differ by one.
LEMMA SumRaised ==
  ASSUME NEW W, IsFiniteSet(W), NEW f \in [W -> Nat], NEW g \in [W -> Nat],
         NEW w \in W, g[w] = f[w] + 1, \A v \in W \ {w} : g[v] = f[v]
  PROVE  SumOf(f) \in Nat /\ SumOf(g) = SumOf(f) + 1
<1>1. PICK h : IsSum(h, f, SUBSET W) /\ SumOf(f) = h[W]
  BY SumIs
<1>2. PICK k : IsSum(k, g, SUBSET W) /\ SumOf(g) = k[W]
  BY SumIs
<1> DEFINE A == {n \in Nat : \A t \in SUBSET W : Cardinality(t) <= n =>
                   /\ h[t] \in Nat
                   /\ k[t] = h[t] + (IF w \in t THEN 1 ELSE 0)}
<1>3. ASSUME NEW t \in SUBSET W, t = {} PROVE h[t] = 0 /\ k[t] = 0
  BY <1>1, <1>2, <1>3 DEF IsSum
<1>4. 0 \in A
  <2>1. ASSUME NEW t \in SUBSET W, Cardinality(t) <= 0 PROVE t = {}
    BY <2>1, NothingLeft
  <2> QED
    BY <1>3, <2>1
<1>5. ASSUME NEW n \in Nat, n \in A PROVE n + 1 \in A
  <2> SUFFICES ASSUME NEW t \in SUBSET W, Cardinality(t) <= n + 1
               PROVE  h[t] \in Nat /\ k[t] = h[t] + (IF w \in t THEN 1 ELSE 0)
    OBVIOUS
  <2>1. CASE t = {}
    BY <1>3, <2>1
  <2>2. CASE t # {}
    <3>1. PICK x, s : x = Pick(t) /\ s = t \ {x}
      OBVIOUS
    <3>2. /\ x \in t /\ x \in W /\ s \in SUBSET W /\ Cardinality(t) \in Nat
          /\ Cardinality(s) = Cardinality(t) - 1
      BY <2>2, <3>1, PickLeaves
    <3>3. Cardinality(s) <= n
      BY <3>2
    <3>4. h[s] \in Nat /\ k[s] = h[s] + (IF w \in s THEN 1 ELSE 0)
      BY <1>5, <3>2, <3>3
    <3>5. h[t] = f[x] + h[s] /\ k[t] = g[x] + k[s]
      BY <1>1, <1>2, <2>2, <3>1 DEF IsSum
    <3>6. f[x] \in Nat /\ g[x] = f[x] + (IF x = w THEN 1 ELSE 0)
      BY <3>2
    <3>7. w \in t <=> x = w \/ w \in s
      BY <3>1, <3>2
    <3>8. x = w => w \notin s
      BY <3>1
    <3> QED
      BY <3>4, <3>5, <3>6, <3>7, <3>8
  <2> QED
    BY <2>1, <2>2
<1> HIDE DEF A
<1>6. Cardinality(W) \in A
  BY <1>4, <1>5, InductionInSet, FS_CardinalityType
<1>7. Cardinality(W) <= Cardinality(W)
  BY FS_CardinalityType
<1> QED
  BY <1>1, <1>2, <1>6, <1>7 DEF A

\* The sum of nothing but zeros.
LEMMA SumZero ==
  ASSUME NEW W, IsFiniteSet(W), NEW f \in [W -> {0}]
  PROVE  SumOf(f) = 0
<1>1. PICK h : IsSum(h, f, SUBSET W) /\ SumOf(f) = h[W]
  BY SumIs
<1> DEFINE A == {n \in Nat : \A t \in SUBSET W : Cardinality(t) <= n => h[t] = 0}
<1>2. ASSUME NEW t \in SUBSET W, t = {} PROVE h[t] = 0
  BY <1>1, <1>2 DEF IsSum
<1>3. 0 \in A
  BY <1>2, NothingLeft
<1>4. ASSUME NEW n \in Nat, n \in A PROVE n + 1 \in A
  <2> SUFFICES ASSUME NEW t \in SUBSET W, Cardinality(t) <= n + 1 PROVE h[t] = 0
    OBVIOUS
  <2>1. CASE t # {}
    <3>1. PICK x, s : x = Pick(t) /\ s = t \ {x}
      OBVIOUS
    <3>2. /\ x \in W /\ s \in SUBSET W /\ Cardinality(t) \in Nat
          /\ Cardinality(s) = Cardinality(t) - 1
      BY <2>1, <3>1, PickLeaves
    <3>3. Cardinality(s) <= n
      BY <3>2
    <3>4. h[s] = 0 /\ h[t] = f[x] + h[s] /\ f[x] = 0
      BY <1>1, <1>4, <2>1, <3>1, <3>2, <3>3 DEF IsSum
    <3> QED
      BY <3>4
  <2> QED
    BY <1>2, <2>1
<1> HIDE DEF A
<1>5. Cardinality(W) \in A
  BY <1>3, <1>4, InductionInSet, FS_CardinalityType
<1>6. Cardinality(W) <= Cardinality(W)
  BY FS_CardinalityType
<1> QED
  BY <1>1, <1>5, <1>6 DEF A
-----------------------------------------------------------------------------
(* Elements of a finite set. *)

\* SetToSeq(S) lists S.
LEMMA SetToSeqIs ==
  ASSUME NEW S, IsFiniteSet(S)
  PROVE  /\ SetToSeq(S) \in Seq(S)
         /\ \A x \in S : \E i \in DOMAIN SetToSeq(S) : SetToSeq(S)[i] = x
<1> DEFINE n == Cardinality(S)
           f == SetToSeq(S)
<1>1. n \in Nat /\ ExistsBijection(1 .. n, S)
  BY FS_CardinalityType
<1>2. \E g \in [1 .. n -> S] : IsInjective(g)
  BY <1>1 DEF ExistsBijection, Bijection, Injection
<1>3. f \in [1 .. n -> S] /\ IsInjective(f)
  BY <1>2 DEF SetToSeq
<1>4. IsFiniteSet(1 .. n) /\ Cardinality(1 .. n) = n
  BY <1>1, FS_Interval
<1> HIDE DEF f
<1>5. f \in Surjection(1 .. n, S)
  <2>1. f \in Injection(1 .. n, S)
    BY <1>3 DEF Injection
  <2> QED
    BY <1>4, <2>1, FS_Injection
<1> HIDE DEF n
<1>6. f \in Seq(S) /\ DOMAIN f = 1 .. n
  BY <1>1, <1>3
<1> QED
  BY <1>5, <1>6 DEF Surjection, f

\* Of a strict order, given as the set of its pairs, a finite set has a maximal
\* element.
LEMMA MaximalExists ==
  ASSUME NEW S, IsFiniteSet(S), S # {}, NEW R,
         \A x \in S : <<x, x>> \notin R,
         \A x, y, z \in S : <<x, y>> \in R /\ <<y, z>> \in R => <<x, z>> \in R
  PROVE  \E m \in S : \A x \in S : <<m, x>> \notin R
<1>1. PICK f : f = SetToSeq(S)
  OBVIOUS
<1>2. f \in Seq(S) /\ \A x \in S : \E i \in DOMAIN f : f[i] = x
  BY <1>1, SetToSeqIs
<1>3. PICK n \in Nat : n = Len(f) /\ DOMAIN f = 1 .. n
  BY <1>2
<1>4. \A i \in 1 .. n : f[i] \in S
  BY <1>2, <1>3
<1>5. n # 0
  BY <1>2, <1>3
<1> DEFINE A == {k \in Nat : k + 1 <= n =>
                   \E i \in 1 .. k + 1 : \A j \in 1 .. k + 1 : <<f[i], f[j]>> \notin R}
<1>6. 0 \in A
  BY <1>4
<1>7. ASSUME NEW k \in Nat, k \in A PROVE k + 1 \in A
  <2> SUFFICES ASSUME k + 2 <= n
               PROVE  \E i \in 1 .. k + 2 : \A j \in 1 .. k + 2 : <<f[i], f[j]>> \notin R
    OBVIOUS
  <2>1. PICK i \in 1 .. k + 1 : \A j \in 1 .. k + 1 : <<f[i], f[j]>> \notin R
    BY <1>7
  <2>2. f[i] \in S /\ f[k + 2] \in S
    BY <1>4
  <2>3. CASE <<f[i], f[k + 2]>> \notin R
    <3>1. \A j \in 1 .. k + 2 : <<f[i], f[j]>> \notin R
      <4>1. \A j \in 1 .. k + 2 : j \in 1 .. k + 1 \/ j = k + 2
        OBVIOUS
      <4> QED
        BY <2>1, <2>3, <4>1
    <3> QED
      BY <3>1
  <2>4. CASE <<f[i], f[k + 2]>> \in R
    <3>1. ASSUME NEW j \in 1 .. k + 2 PROVE <<f[k + 2], f[j]>> \notin R
      <4>1. f[j] \in S
        BY <1>4
      <4>2. CASE j = k + 2
        BY <2>2, <4>2
      <4>3. CASE j \in 1 .. k + 1
        <5>1. <<f[i], f[j]>> \notin R
          BY <2>1, <4>3
        <5> QED
          BY <2>2, <2>4, <4>1, <5>1
      <4> QED
        BY <4>2, <4>3
    <3> QED
      BY <3>1
  <2> QED
    BY <2>3, <2>4
<1> HIDE DEF A
<1>8. \A k \in Nat : k \in A
  BY <1>6, <1>7, InductionInSet
<1>9. n - 1 \in A /\ n - 1 \in Nat /\ (n - 1) + 1 = n
  BY <1>5, <1>8
<1>10. PICK i \in 1 .. n : \A j \in 1 .. n : <<f[i], f[j]>> \notin R
  BY <1>9 DEF A
<1> QED
  BY <1>2, <1>3, <1>4, <1>10
=============================================================================
