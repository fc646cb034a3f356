---------------------------- MODULE CountProofs ----------------------------
(***************************************************************************)
(* What the proofs need of finite sets of numbers, which have a least      *)
(* member and can be counted off, and of sums, MapThenSumSet, of the       *)
(* values of a function over a finite set: they are numbers, and any       *)
(* member can be taken out first.                                          *)
(***************************************************************************)
EXTENDS Integers, FiniteSetsExt, FiniteSetTheorems, WellFoundedInduction, TLAPS

\* A nonempty set of numbers has a least one.
LEMMA LeastNat ==
    ASSUME NEW T \in SUBSET Nat, T # {}
    PROVE  \E x \in T : \A y \in T : x <= y
<1>1. PICK x \in T : \A y \in T : ~(<<y, x>> \in OpToRel(<, Nat))
  BY NatLessThanWellFounded, WFMin, Zenon
<1>2. ASSUME NEW y \in T, ~(x <= y)
      PROVE  FALSE
  <2>1. x \in Nat /\ y \in Nat /\ y < x
    BY <1>2
  <2>2. <<y, x>> \in OpToRel(<, Nat)
    BY <2>1, Zenon DEF OpToRel
  <2> QED BY <1>1, <2>2
<1> QED BY <1>2

\* The members of a set of numbers can be counted off.
LEMMA NthMember ==
    ASSUME NEW n \in Nat, NEW K \in SUBSET (1..n), NEW j \in 1..Cardinality(K)
    PROVE  \E k \in K : Cardinality({i \in K : i <= k}) = j
<1> DEFINE upTo(k) == {i \in K : i <= k}
           T == {k \in 0..n : Cardinality(upTo(k)) >= j}
<1>1. /\ IsFiniteSet(K) /\ Cardinality(K) \in Nat
      /\ \A k : IsFiniteSet(upTo(k)) /\ Cardinality(upTo(k)) \in Nat
  <2>1. IsFiniteSet(K)
    <3>1. 1 \in Int /\ n \in Int
      OBVIOUS
    <3> QED BY <3>1, FS_Interval, FS_Subset, Zenon
  <2>2. \A k : upTo(k) \subseteq K
    OBVIOUS
  <2> HIDE DEF upTo
  <2> QED BY <2>1, <2>2, FS_Subset, FS_CardinalityType
<1>2. \A i \in K : i \in Nat /\ 1 <= i /\ i <= n
  OBVIOUS
<1>3. n \in T /\ T \in SUBSET Nat
  <2>1. upTo(n) = K
    BY <1>2
  <2> HIDE DEF upTo
  <2> QED BY <1>1, <2>1
<1>4. PICK k \in T : \A l \in T : k <= l
  <2> HIDE DEF T
  <2> QED BY <1>3, LeastNat
<1>5. k # 0
  <2>1. upTo(0) = {}
    <3>1. \A i \in K : ~(i <= 0)
      BY <1>2
    <3> QED BY <3>1
  <2>2. Cardinality(upTo(0)) = 0
    BY <2>1, FS_EmptySet
  <2> HIDE DEF upTo
  <2> QED BY <2>2, <1>4
<1>6. k \in 1..n /\ k - 1 \in 0..n /\ k - 1 \notin T
  <2>1. k \in 1..n
    BY <1>5
  <2>2. k - 1 \in 0..n /\ ~(k <= k - 1)
    BY <2>1
  <2> HIDE DEF T
  <2> QED BY <1>4, <2>1, <2>2
<1>7. Cardinality(upTo(k - 1)) < j /\ Cardinality(upTo(k)) >= j
  <2> HIDE DEF upTo
  <2> QED BY <1>1, <1>4, <1>6
<1>8. k \in K
  <2>1. SUFFICES ASSUME k \notin K PROVE FALSE
    OBVIOUS
  <2>2. \A i \in K : i <= k <=> i <= k - 1
    BY <1>2, <1>6, <2>1
  <2>3. upTo(k) = upTo(k - 1)
    BY <2>2
  <2> HIDE DEF upTo
  <2> QED BY <1>1, <1>7, <2>3
<1>9. Cardinality(upTo(k)) = Cardinality(upTo(k - 1)) + 1
  <2>1. \A i \in K : i <= k <=> i <= k - 1 \/ i = k
    BY <1>2, <1>6
  <2>2. upTo(k) = upTo(k - 1) \cup {k} /\ k \notin upTo(k - 1)
    <3>1. k <= k /\ ~(k <= k - 1)
      BY <1>6
    <3> QED BY <1>8, <2>1, <3>1
  <2> HIDE DEF upTo
  <2> QED BY <1>1, <2>2, FS_AddElement
<1>10. Cardinality(upTo(k)) = j
  <2> HIDE DEF upTo
  <2> QED BY <1>1, <1>7, <1>9
<1> QED BY <1>8, <1>10

\* Two members of a set of numbers are not counted off at the same number.
LEMMA NthIsOne ==
    ASSUME NEW n \in Nat, NEW K \in SUBSET (1..n)
    PROVE  \A k, m \in K :
              Cardinality({i \in K : i <= k}) = Cardinality({i \in K : i <= m}) => k = m
<1> DEFINE upTo(x) == {i \in K : i <= x}
<1>1. \A x : IsFiniteSet(upTo(x))
  <2>1. IsFiniteSet(K)
    <3>1. 1 \in Int /\ n \in Int
      OBVIOUS
    <3> QED BY <3>1, FS_Interval, FS_Subset, Zenon
  <2>2. \A x : upTo(x) \subseteq K
    OBVIOUS
  <2> HIDE DEF upTo
  <2> QED BY <2>1, <2>2, FS_Subset
<1>2. ASSUME NEW x \in K, NEW y \in K, Cardinality(upTo(x)) = Cardinality(upTo(y)), x < y
      PROVE  FALSE
  <2>1. upTo(x) \in SUBSET upTo(y)
    <3>1. \A i \in K : i <= x => i <= y
      BY <1>2
    <3> QED BY <3>1
  <2>2. y \in upTo(y) /\ y \notin upTo(x)
    BY <1>2
  <2> HIDE DEF upTo
  <2> QED BY <1>1, <1>2, <2>1, <2>2, FS_Subset
<1> HIDE DEF upTo
<1>3. ASSUME NEW k \in K, NEW m \in K, Cardinality(upTo(k)) = Cardinality(upTo(m))
      PROVE  k = m
  <2>1. k < m \/ m < k \/ k = m
    OBVIOUS
  <2> QED BY <1>2, <1>3, <2>1
<1> USE DEF upTo
<1> QED BY <1>3, Zenon

-----------------------------------------------------------------------------
(***************************************************************************)
(* Sums over the subsets of a finite set.                                  *)
(***************************************************************************)
Total(g, S) == MapThenSumSet(LAMBDA x : g[x], S)

Chosen(s) == CHOOSE x \in s : TRUE

\* The function that MapThenFoldSet defines to sum g over the subsets of S.
SumsUp(f, g, S) ==
    f = [s \in SUBSET S |->
            IF s = {} THEN 0 ELSE g[Chosen(s)] + f[s \ {Chosen(s)}]]

SumOf(f, g, S) == SumsUp(f, g, S) /\ f \in [SUBSET S -> Int]

AnyFirst(f, g, S) ==
    \A s \in SUBSET S : \A z \in s : f[s] = g[z] + f[s \ {z}]

Summands(g, S) == IsFiniteSet(S) /\ \A x \in S : g[x] \in Int

\* A subset without one of its members is smaller.
LEMMA OneLess ==
    ASSUME NEW S, IsFiniteSet(S), NEW s \in SUBSET S, NEW x \in s
    PROVE  /\ s \ {x} \in SUBSET S
           /\ Cardinality(s) \in Nat /\ Cardinality(s \ {x}) \in Nat
           /\ Cardinality(s \ {x}) < Cardinality(s)
<1>1. IsFiniteSet(s)
  BY FS_Subset
<1>2. Cardinality(s \ {x}) = Cardinality(s) - 1
  BY <1>1, FS_RemoveElement
<1>3. IsFiniteSet(s \ {x})
  BY <1>1, FS_RemoveElement
<1> QED BY <1>1, <1>2, <1>3, FS_CardinalityType

\* Induction over the subsets of S: if some are bad, so is one of which all
\* smaller ones are good.
LEMMA SmallestBad ==
    ASSUME NEW S, IsFiniteSet(S), NEW Bad \in SUBSET SUBSET S, Bad # {}
    PROVE  \E s \in Bad : \A x \in s : s \ {x} \notin Bad
<1> DEFINE Sizes == {Cardinality(s) : s \in Bad}
<1>1. \A s \in Bad : Cardinality(s) \in Nat
  BY FS_Subset, FS_CardinalityType
<1>2. Sizes \in SUBSET Nat /\ Sizes # {}
  BY <1>1
<1>3. PICK n \in Sizes : \A m \in Sizes : n <= m
  BY <1>2, LeastNat
<1>4. PICK s \in Bad : n = Cardinality(s)
  OBVIOUS
<1>5. ASSUME NEW x \in s, s \ {x} \in Bad
      PROVE  FALSE
  <2>1. n <= Cardinality(s \ {x})
    BY <1>3, <1>5
  <2> QED BY <1>4, <2>1, OneLess
<1> QED BY <1>5

LEMMA ChosenIn ==
    ASSUME NEW s, s # {}
    PROVE  Chosen(s) \in s
BY DEF Chosen

-----------------------------------------------------------------------------
(***************************************************************************)
(* The function exists, and there is one.                                  *)
(***************************************************************************)
\* f is right of the subsets of at most n members.
SumsUpTo(f, g, S, n) ==
    /\ f \in [SUBSET S -> Int]
    /\ \A s \in SUBSET S : Cardinality(s) <= n =>
          f[s] = IF s = {} THEN 0 ELSE g[Chosen(s)] + f[s \ {Chosen(s)}]

LEMMA OneMore ==
    ASSUME NEW g, NEW S, Summands(g, S), NEW n \in Nat,
           NEW f, SumsUpTo(f, g, S, n)
    PROVE  \E h : SumsUpTo(h, g, S, n + 1)
<1>1. PICK h : h = [s \in SUBSET S |->
                       IF s = {} THEN 0 ELSE g[Chosen(s)] + f[s \ {Chosen(s)}]]
  OBVIOUS
<1>2. \A s \in SUBSET S :
         s # {} => /\ Chosen(s) \in s
                   /\ s \ {Chosen(s)} \in SUBSET S
                   /\ Cardinality(s) \in Nat /\ Cardinality(s \ {Chosen(s)}) \in Nat
                   /\ Cardinality(s \ {Chosen(s)}) < Cardinality(s)
  BY ChosenIn, OneLess DEF Summands
<1>3. h \in [SUBSET S -> Int]
  <2>1. ASSUME NEW s \in SUBSET S, s # {}
        PROVE  g[Chosen(s)] + f[s \ {Chosen(s)}] \in Int
    <3>1. g[Chosen(s)] \in Int
      BY <1>2, <2>1 DEF Summands
    <3>2. f[s \ {Chosen(s)}] \in Int
      BY <1>2, <2>1 DEF SumsUpTo
    <3> QED BY <3>1, <3>2
  <2>2. \A s \in SUBSET S :
           (IF s = {} THEN 0 ELSE g[Chosen(s)] + f[s \ {Chosen(s)}]) \in Int
    BY <2>1
  <2> QED BY <1>1, <2>2, Zenon
<1>4. ASSUME NEW s \in SUBSET S, Cardinality(s) <= n + 1, s # {}
      PROVE  h[s] = g[Chosen(s)] + h[s \ {Chosen(s)}]
  <2>1. h[s] = g[Chosen(s)] + f[s \ {Chosen(s)}]
    BY <1>1, <1>4
  <2>2. PICK r \in SUBSET S : r = s \ {Chosen(s)}
    BY <1>2, <1>4
  <2>3. Cardinality(r) <= n
    BY <1>2, <1>4, <2>2
  <2>4. f[r] = h[r]
    BY <1>1, <2>3 DEF SumsUpTo
  <2> QED BY <2>1, <2>2, <2>4
<1> QED BY <1>1, <1>3, <1>4 DEF SumsUpTo

LEMMA SumsUpExists ==
    ASSUME NEW g, NEW S, Summands(g, S)
    PROVE  \E f : SumOf(f, g, S)
<1> DEFINE Bad == {n \in Nat : ~ \E f : SumsUpTo(f, g, S, n)}
<1>1. 0 \notin Bad
  <2>1. PICK f : f = [s \in SUBSET S |-> 0]
    OBVIOUS
  <2>2. \A s \in SUBSET S : Cardinality(s) <= 0 => s = {}
    BY FS_Subset, FS_EmptySet, FS_CardinalityType DEF Summands
  <2>3. SumsUpTo(f, g, S, 0)
    BY <2>1, <2>2 DEF SumsUpTo
  <2> QED BY <2>3
<1>2. ASSUME Bad # {}
      PROVE  FALSE
  <2>1. PICK n \in Bad : \A m \in Bad : n <= m
    BY <1>2, LeastNat
  <2>2. n # 0
    BY <1>1
  <2>3. PICK m \in Nat : n = m + 1
    <3>1. n - 1 \in Nat /\ n = (n - 1) + 1
      BY <2>2
    <3> QED BY <3>1
  <2>4. m \notin Bad
    BY <2>1, <2>3
  <2>5. PICK f : SumsUpTo(f, g, S, m)
    BY <2>4
  <2> QED BY <2>3, <2>5, OneMore
<1>3. Cardinality(S) \in Nat
  BY FS_CardinalityType DEF Summands
<1>4. PICK f : SumsUpTo(f, g, S, Cardinality(S))
  BY <1>2, <1>3
<1>5. \A s \in SUBSET S : Cardinality(s) <= Cardinality(S)
  BY FS_Subset DEF Summands
<1>6. SumsUp(f, g, S)
  BY <1>4, <1>5 DEF SumsUpTo, SumsUp
<1> QED BY <1>4, <1>6 DEF SumsUpTo, SumOf

\* Two such functions agree where both are defined.
LEMMA SumsAgree ==
    ASSUME NEW g, NEW S, IsFiniteSet(S), NEW f, SumsUp(f, g, S),
           NEW T \in SUBSET S, NEW h, NEW k, SumsUp(k, h, T),
           \A x \in T : g[x] = h[x]
    PROVE  \A s \in SUBSET T : f[s] = k[s]
<1> DEFINE Bad == {s \in SUBSET T : f[s] # k[s]}
<1>1. IsFiniteSet(T)
  BY FS_Subset
<1>2. ASSUME Bad # {}
      PROVE  FALSE
  <2>1. PICK s \in Bad : \A x \in s : s \ {x} \notin Bad
    BY <1>1, <1>2, SmallestBad
  <2>2. s \in SUBSET T /\ s \in SUBSET S
    OBVIOUS
  <2>3. s # {}
    BY <2>2 DEF SumsUp
  <2>4. Chosen(s) \in s
    BY <2>3, ChosenIn
  <2>5. f[s \ {Chosen(s)}] = k[s \ {Chosen(s)}]
    BY <2>1, <2>2, <2>4
  <2>6. f[s] = g[Chosen(s)] + f[s \ {Chosen(s)}]
    BY <2>2, <2>3 DEF SumsUp
  <2>7. k[s] = h[Chosen(s)] + k[s \ {Chosen(s)}]
    BY <2>2, <2>3 DEF SumsUp
  <2>8. g[Chosen(s)] = h[Chosen(s)]
    BY <2>2, <2>4
  <2> QED BY <2>1, <2>5, <2>6, <2>7, <2>8
<1> QED BY <1>2

\* The order in which members are taken out does not matter.
LEMMA AnyMemberFirst ==
    ASSUME NEW g, NEW S, Summands(g, S), NEW f, SumOf(f, g, S)
    PROVE  AnyFirst(f, g, S)
<1> DEFINE Bad == {r \in SUBSET S : \E x \in r : f[r] # g[x] + f[r \ {x}]}
<1>1. ASSUME Bad # {}
      PROVE  FALSE
  <2>1. PICK r \in Bad : \A x \in r : r \ {x} \notin Bad
    <3>1. Bad \in SUBSET SUBSET S
      OBVIOUS
    <3> HIDE DEF Bad
    <3> QED BY <1>1, <3>1, SmallestBad DEF Summands
  <2>2. PICK x \in r : f[r] # g[x] + f[r \ {x}]
    OBVIOUS
  <2>3. r \in SUBSET S /\ r # {}
    BY <2>2
  <2>4. PICK y \in r : y = Chosen(r)
    BY <2>3, ChosenIn
  <2>5. f[r] = g[y] + f[r \ {y}]
    BY <2>3, <2>4 DEF SumOf, SumsUp
  <2>6. x # y
    BY <2>2, <2>5
  <2>7. PICK q \in SUBSET S : q = (r \ {x}) \ {y}
    BY <2>3
  <2>8. f[r \ {y}] = g[x] + f[q]
    <3>1. r \ {y} \notin Bad /\ r \ {y} \in SUBSET S
      BY <2>1, <2>3
    <3>2. x \in r \ {y} /\ (r \ {y}) \ {x} = q
      BY <2>6, <2>7
    <3> QED BY <3>1, <3>2
  <2>9. f[r \ {x}] = g[y] + f[q]
    <3>1. r \ {x} \notin Bad /\ r \ {x} \in SUBSET S
      BY <2>1, <2>3
    <3>2. y \in r \ {x} /\ (r \ {x}) \ {y} = q
      BY <2>6, <2>7
    <3> QED BY <3>1, <3>2
  <2>10. g[x] \in Int /\ g[y] \in Int /\ f[q] \in Int
    BY <2>3 DEF Summands, SumOf
  <2> QED BY <2>2, <2>5, <2>8, <2>9, <2>10
<1> QED BY <1>1 DEF AnyFirst

-----------------------------------------------------------------------------
(***************************************************************************)
(* Sums.                                                                   *)
(***************************************************************************)
LEMMA TotalSumsUp ==
    ASSUME NEW g, NEW S, Summands(g, S)
    PROVE  \E f : SumOf(f, g, S) /\ Total(g, S) = f[S]
<1> DEFINE iter[s \in SUBSET S] ==
               IF s = {} THEN 0
               ELSE LET x == CHOOSE y \in s : TRUE IN g[x] + iter[s \ {x}]
<1>1. PICK h : SumOf(h, g, S)
  BY SumsUpExists
<1>2. \E f : f = [s \in SUBSET S |->
                 IF s = {} THEN 0
                 ELSE LET x == CHOOSE y \in s : TRUE IN g[x] + f[s \ {x}]]
  BY <1>1 DEF SumOf, SumsUp, Chosen
<1>3. SumsUp(iter, g, S)
  BY <1>2 DEF SumsUp, Chosen
<1>4. Total(g, S) = iter[S]
  BY DEF Total, MapThenSumSet, MapThenFoldSet
<1> HIDE DEF iter
<1>5. PICK f : f = iter
  OBVIOUS
<1>6. SumsUp(f, g, S) /\ Total(g, S) = f[S]
  BY <1>3, <1>4, <1>5
<1>7. \A s \in SUBSET S : f[s] = h[s]
  BY <1>1, <1>6, SumsAgree DEF Summands, SumOf
<1>8. f \in [SUBSET S -> Int]
  BY <1>1, <1>6, <1>7 DEF SumOf, SumsUp
<1> QED BY <1>6, <1>8 DEF SumOf

LEMMA TotalOfNone ==
    ASSUME NEW g
    PROVE  Total(g, {}) = 0
<1>1. Summands(g, {})
  BY FS_EmptySet DEF Summands
<1>2. PICK f : SumOf(f, g, {}) /\ Total(g, {}) = f[{}]
  BY <1>1, TotalSumsUp
<1>3. f[{}] = 0
  BY <1>2 DEF SumOf, SumsUp
<1> QED BY <1>2, <1>3

LEMMA TotalType ==
    ASSUME NEW g, NEW S, Summands(g, S)
    PROVE  Total(g, S) \in Int
<1>1. PICK f : SumOf(f, g, S) /\ Total(g, S) = f[S]
  BY TotalSumsUp
<1> QED BY <1>1 DEF SumOf

LEMMA TotalWithout ==
    ASSUME NEW g, NEW S, Summands(g, S), NEW z \in S
    PROVE  Total(g, S) = g[z] + Total(g, S \ {z})
<1>1. PICK f : SumOf(f, g, S) /\ Total(g, S) = f[S]
  BY TotalSumsUp
<1>2. Summands(g, S \ {z})
  BY FS_Subset DEF Summands
<1>3. PICK k : SumOf(k, g, S \ {z}) /\ Total(g, S \ {z}) = k[S \ {z}]
  BY <1>2, TotalSumsUp
<1>4. f[S \ {z}] = k[S \ {z}]
  BY <1>1, <1>3, SumsAgree DEF Summands, SumOf
<1>5. f[S] = g[z] + f[S \ {z}]
  <2>1. AnyFirst(f, g, S)
    BY <1>1, AnyMemberFirst
  <2> QED BY <2>1 DEF AnyFirst
<1> QED BY <1>1, <1>3, <1>4, <1>5

\* Only the values at the members of S matter.
LEMMA TotalSame ==
    ASSUME NEW g, NEW h, NEW S, Summands(g, S), \A x \in S : g[x] = h[x]
    PROVE  Total(g, S) = Total(h, S)
<1>1. Summands(h, S)
  BY DEF Summands
<1>2. PICK f : SumOf(f, g, S) /\ Total(g, S) = f[S]
  BY TotalSumsUp
<1>3. PICK k : SumOf(k, h, S) /\ Total(h, S) = k[S]
  BY <1>1, TotalSumsUp
<1>4. f[S] = k[S]
  BY <1>2, <1>3, SumsAgree DEF Summands, SumOf
<1> QED BY <1>2, <1>3, <1>4

LEMMA TotalOfZeros ==
    ASSUME NEW S, IsFiniteSet(S)
    PROVE  Total([x \in S |-> 0], S) = 0
<1> DEFINE g == [x \in S |-> 0]
           none == [s \in SUBSET S |-> 0]
<1>1. Summands(g, S)
  BY DEF Summands
<1>2. \A s \in SUBSET S : s # {} => Chosen(s) \in s
  BY ChosenIn
<1>3. SumsUp(none, g, S) /\ none \in [SUBSET S -> Int]
  <2>1. ASSUME NEW s \in SUBSET S
        PROVE  none[s] = IF s = {} THEN 0 ELSE g[Chosen(s)] + none[s \ {Chosen(s)}]
    <3>1. CASE s = {}
      BY <3>1
    <3>2. CASE s # {}
      <4>1. g[Chosen(s)] = 0 /\ none[s \ {Chosen(s)}] = 0
        BY <1>2, <3>2
      <4> QED BY <3>2, <4>1
    <3> QED BY <3>1, <3>2
  <2> QED BY <2>1 DEF SumsUp
<1>4. PICK f : SumOf(f, g, S) /\ Total(g, S) = f[S]
  BY <1>1, TotalSumsUp
<1>5. none[S] = 0 /\ SumOf(none, g, S)
  BY <1>3 DEF SumOf
<1> HIDE DEF g, none
<1>6. f[S] = none[S]
  BY <1>1, <1>4, <1>5, SumsAgree DEF Summands, SumOf
<1> QED BY <1>4, <1>5, <1>6 DEF g
=============================================================================
