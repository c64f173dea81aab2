--------------------------- MODULE NumbersProofs ---------------------------
(***************************************************************************)
(* Proofs about the algorithms that turn film and measurements into        *)
(* numbers: tracks of any number of players and frames, plays of films of  *)
(* any length with any number of corrections, the sieve for every position *)
(* and any group of metrics, and grades of any film by any rule file.      *)
(***************************************************************************)
EXTENDS MetricSieve, FilmGrading, PlayFile, PlayerTracking, TLAPS,
        WellFoundedInduction, FiniteSetTheorems, SequenceTheorems

-----------------------------------------------------------------------------
(* The least and the greatest of a set of numbers.                         *)

LEMMA LeastExists ==
  ASSUME NEW S \in SUBSET Nat, S # {}
  PROVE  \E k \in S : \A l \in S : k <= l
<1>1. \E k \in S : \A l \in S : ~ (<<l, k>> \in OpToRel(<, Nat))
  BY NatLessThanWellFounded, WFMin
<1>2. \E k \in S : \A l \in S : ~ (l < k)
  BY <1>1 DEF OpToRel
<1> QED
  BY <1>2

LEMMA MinIsLeast ==
  ASSUME NEW S \in SUBSET Nat, S # {}
  PROVE  Min(S) \in S /\ \A n \in S : Min(S) <= n
  BY LeastExists DEF Min

LEMMA MaxIsGreatest ==
  ASSUME NEW S \in SUBSET Nat, S # {}, NEW bound \in Nat, \A n \in S : n <= bound
  PROVE  Max(S) \in S /\ \A n \in S : n <= Max(S)
<1> DEFINE T == {k \in 0 .. bound : bound - k \in S}
<1>1. T \in SUBSET Nat
  OBVIOUS
<1>2. PICK n \in S : TRUE
  OBVIOUS
<1>3. bound - n \in T
  BY <1>2
<1>4. PICK k \in T : \A l \in T : k <= l
  <2> HIDE DEF T
  <2> QED
    BY <1>1, <1>3, MinIsLeast
<1>5. ASSUME NEW m \in S PROVE m <= bound - k
  <2>1. bound - m \in T
    OBVIOUS
  <2> QED
    BY <1>4, <2>1
<1>6. bound - k \in S
  BY <1>4
<1> QED
  BY <1>5, <1>6 DEF Max

\* Induction over the numbers and over finite sets, of the members of a set.
LEMMA NumbersByOne ==
  ASSUME NEW T \in SUBSET Nat, 0 \in T, \A n \in T : n + 1 \in T
  PROVE  T = Nat
<1> SUFFICES ASSUME Nat \ T # {} PROVE FALSE
  OBVIOUS
<1>1. PICK k \in Nat \ T : \A l \in Nat \ T : k <= l
  BY LeastExists
<1>2. k - 1 \in T
  BY <1>1
<1> QED
  BY <1>1, <1>2

LEMMA SetsByOne ==
  ASSUME NEW S, IsFiniteSet(S), NEW F, {} \in F,
         \A s \in SUBSET S : s # {} /\ (\A x \in s : s \ {x} \in F) => s \in F
  PROVE  SUBSET S \subseteq F
<1> DEFINE N == {n \in Nat : \A s \in SUBSET S : Cardinality(s) = n => s \in F}
<1>1. \A s \in SUBSET S : IsFiniteSet(s) /\ Cardinality(s) \in Nat
  BY FS_Subset, FS_CardinalityType
<1>2. 0 \in N
  BY <1>1, FS_EmptySet
<1>3. ASSUME NEW n \in N PROVE n + 1 \in N
  <2>1. ASSUME NEW s \in SUBSET S, Cardinality(s) = n + 1 PROVE s \in F
    <3>1. n \in Nat /\ Cardinality(s) # 0
      BY <2>1
    <3>2. s # {}
      BY <3>1, FS_EmptySet
    <3>3. ASSUME NEW x \in s PROVE s \ {x} \in F
      <4>1. IsFiniteSet(s) /\ Cardinality(s \ {x}) = Cardinality(s) - 1
        BY <1>1, FS_RemoveElement
      <4>2. Cardinality(s \ {x}) = n
        BY <2>1, <3>1, <4>1
      <4> QED
        BY <4>2
    <3> QED
      BY <3>2, <3>3
  <2> QED
    BY <2>1
<1>4. N = Nat
  <2> HIDE DEF N
  <2>1. N \in SUBSET Nat
    BY DEF N
  <2> QED
    BY <1>2, <1>3, <2>1, NumbersByOne
<1> QED
  BY <1>1, <1>4

\* Of finitely many numbers one is the greatest, and one the least.
LEMMA HighestExists ==
  ASSUME NEW f, NEW S, IsFiniteSet(S), S # {}, \A x \in S : f[x] \in Int
  PROVE  \E x \in S : \A y \in S : f[y] <= f[x]
<1> DEFINE Top1(s) == \E x \in s : \A y \in s : f[y] <= f[x]
           F == {s \in SUBSET S : s = {} \/ Top1(s)}
<1>1. {} \in F
  OBVIOUS
<1>2. ASSUME NEW s \in SUBSET S, s # {}, \A x \in s : s \ {x} \in F PROVE s \in F
  <2>1. PICK x \in s : TRUE
    BY <1>2
  <2>2. CASE s \ {x} = {}
    <3>1. s = {x} /\ f[x] \in Int
      BY <2>1, <2>2
    <3> QED
      BY <3>1
  <2>3. CASE s \ {x} # {}
    <3>1. PICK z \in s \ {x} : \A y \in s \ {x} : f[y] <= f[z]
      BY <1>2, <2>1, <2>3
    <3>2. \A y \in s : f[y] \in Int
      OBVIOUS
    <3>3. CASE f[x] <= f[z]
      BY <3>1, <3>2, <3>3
    <3>4. CASE f[z] < f[x]
      <4>1. \A y \in s : f[y] <= f[x]
        BY <3>1, <3>2, <3>4
      <4> QED
        BY <2>1, <4>1
    <3> QED
      BY <2>1, <3>1, <3>2, <3>3, <3>4
  <2> QED
    BY <2>2, <2>3
<1>3. SUBSET S \subseteq F
  <2> HIDE DEF F
  <2> QED
    BY <1>1, <1>2, SetsByOne
<1>4. S \in F
  BY <1>3
<1> QED
  BY <1>4

LEMMA LowestExists ==
  ASSUME NEW f, NEW S, IsFiniteSet(S), S # {}, \A x \in S : f[x] \in Int
  PROVE  \E x \in S : \A y \in S : f[x] <= f[y]
<1> DEFINE g == [x \in S |-> -f[x]]
<1>1. \A x \in S : g[x] \in Int
  OBVIOUS
<1>2. PICK x \in S : \A y \in S : g[y] <= g[x]
  <2> HIDE DEF g
  <2> QED
    BY <1>1, HighestExists
<1> QED
  BY <1>2

LEMMA GreatestExists ==
  ASSUME NEW n \in Nat, NEW f, NEW S \in SUBSET (1 .. n), S # {},
         \A k \in S : f[k] \in Nat
  PROVE  \E m \in S : \A k \in S : f[k] <= f[m]
<1>1. IsFiniteSet(1 .. n)
  BY FS_Interval
<1>2. IsFiniteSet(S)
  BY <1>1, FS_Subset
<1>3. \A k \in S : f[k] \in Int
  OBVIOUS
<1> QED
  BY <1>2, <1>3, HighestExists

-----------------------------------------------------------------------------
(* Sums over finite sets: SumFunctionOnSet of the community modules.       *)

\* g adds up f over the subsets of S.
Added(g, f, s) ==
  IF s = {} THEN 0 ELSE LET x == CHOOSE x \in s : TRUE IN f[x] + g[s \ {x}]
Adds(g, f, S) == g = [s \in SUBSET S |-> Added(g, f, s)]

LEMMA SumIsChosen ==
  ASSUME NEW f, NEW S
  PROVE  SumFunctionOnSet(f, S) = (CHOOSE g : Adds(g, f, S))[S]
  BY DEF SumFunctionOnSet, FoldFunctionOnSet, MapThenFoldSet, Adds, Added

LEMMA AddersExist ==
  ASSUME NEW f, NEW S, IsFiniteSet(S)
  PROVE  \E g : Adds(g, f, S)
<1> DEFINE Small(n) == {s \in SUBSET S : Cardinality(s) <= n}
           Good(g, n) == g = [s \in Small(n) |-> Added(g, f, s)]
           N == {n \in Nat : \E g : Good(g, n)}
<1>1. \A T \in SUBSET S : IsFiniteSet(T) /\ Cardinality(T) \in Nat /\ Cardinality(T) <= Cardinality(S)
  BY FS_Subset, FS_CardinalityType
<1>2. 0 \in N
  <2>1. Small(0) = {{}}
    BY <1>1, FS_EmptySet
  <2> DEFINE g == [s \in Small(0) |-> 0]
  <2>2. Good(g, 0)
    BY <2>1 DEF Added
  <2> QED
    BY <2>2
<1>3. ASSUME NEW n \in N PROVE n + 1 \in N
  <2>1. PICK g : Good(g, n)
    OBVIOUS
  <2> DEFINE h == [s \in Small(n + 1) |-> Added(g, f, s)]
  <2>2. \A s \in Small(n) : s \in Small(n + 1) /\ h[s] = g[s]
    <3>1. \A s \in Small(n) : s \in Small(n + 1)
      BY <1>1
    <3>2. \A s \in Small(n) : g[s] = Added(g, f, s)
      BY <2>1
    <3> HIDE DEF Small
    <3> QED
      BY <3>1, <3>2
  <2>3. ASSUME NEW s \in Small(n + 1) PROVE Added(g, f, s) = Added(h, f, s)
    <3>1. CASE s = {}
      BY <3>1 DEF Added
    <3>2. CASE s # {}
      <4> DEFINE x == CHOOSE x \in s : TRUE
      <4>1. x \in s
        BY <3>2
      <4>2. s \ {x} \in Small(n)
        <5>1. s \in SUBSET S /\ Cardinality(s) <= n + 1 /\ IsFiniteSet(s) /\ n \in Nat
          BY <1>1
        <5> HIDE DEF x
        <5>2. Cardinality(s \ {x}) = Cardinality(s) - 1
          BY <4>1, <5>1, FS_RemoveElement
        <5>3. Cardinality(s) \in Nat
          BY <1>1, <5>1
        <5>4. Cardinality(s \ {x}) <= n
          BY <5>1, <5>2, <5>3
        <5> QED
          BY <5>1, <5>4
      <4> HIDE DEF x, h, Small
      <4>3. h[s \ {x}] = g[s \ {x}]
        BY <2>2, <4>2
      <4> QED
        BY <3>2, <4>3 DEF Added, x
    <3> QED
      BY <3>1, <3>2
  <2>4. Good(h, n + 1)
    BY <2>3
  <2>5. n + 1 \in Nat
    OBVIOUS
  <2> HIDE DEF Good, h
  <2> QED
    BY <2>4, <2>5
<1>4. N = Nat
  <2> HIDE DEF N
  <2>1. N \in SUBSET Nat
    BY DEF N
  <2> QED
    BY <1>2, <1>3, <2>1, NumbersByOne
<1>5. PICK g : Good(g, Cardinality(S))
  BY <1>1, <1>4
<1>6. Small(Cardinality(S)) = SUBSET S
  BY <1>1
<1> QED
  BY <1>5, <1>6 DEF Adds

LEMMA AddersAgree ==
  ASSUME NEW f, NEW S, NEW T \in SUBSET S, IsFiniteSet(S), NEW g, NEW h,
         Adds(g, f, S), Adds(h, f, T)
  PROVE  \A s \in SUBSET T : g[s] = h[s]
<1> DEFINE F == {s \in SUBSET T : g[s] = h[s]}
<1>1. \A s \in SUBSET T : g[s] = Added(g, f, s) /\ h[s] = Added(h, f, s)
  BY DEF Adds
<1>2. {} \in F
  BY <1>1 DEF Added
<1>3. ASSUME NEW s \in SUBSET T, s # {}, \A x \in s : s \ {x} \in F PROVE s \in F
  <2> DEFINE x == CHOOSE x \in s : TRUE
  <2>1. x \in s
    BY <1>3
  <2>2. g[s \ {x}] = h[s \ {x}]
    BY <1>3, <2>1
  <2>3. g[s] = f[x] + g[s \ {x}] /\ h[s] = f[x] + h[s \ {x}]
    BY <1>1, <1>3 DEF Added
  <2> QED
    BY <2>2, <2>3
<1>4. IsFiniteSet(T)
  BY FS_Subset
<1>5. SUBSET T \subseteq F
  <2> HIDE DEF F
  <2> QED
    BY <1>2, <1>3, <1>4, SetsByOne
<1> QED
  BY <1>5

LEMMA SumOfNone == ASSUME NEW f PROVE SumFunctionOnSet(f, {}) = 0
<1> DEFINE g == CHOOSE g : Adds(g, f, {})
<1>1. Adds(g, f, {})
  BY AddersExist, FS_EmptySet
<1> HIDE DEF g
<1>2. g[{}] = 0
  BY <1>1 DEF Adds, Added
<1> QED
  BY <1>2, SumIsChosen DEF g

LEMMA SumChosen ==
  ASSUME NEW f, NEW S, IsFiniteSet(S), S # {}
  PROVE  LET x == CHOOSE x \in S : TRUE IN
         SumFunctionOnSet(f, S) = f[x] + SumFunctionOnSet(f, S \ {x})
<1> DEFINE x == CHOOSE x \in S : TRUE
           T == S \ {x}
           g == CHOOSE g : Adds(g, f, S)
           h == CHOOSE h : Adds(h, f, T)
<1>1. IsFiniteSet(T)
  BY FS_Subset
<1>2. Adds(g, f, S)
  BY AddersExist
<1>3. Adds(h, f, T)
  <2> HIDE DEF T
  <2> QED
    BY <1>1, AddersExist
<1>4. SumFunctionOnSet(f, S) = g[S] /\ SumFunctionOnSet(f, T) = h[T]
  BY SumIsChosen
<1>5. g[S] = f[x] + g[T]
  <2> HIDE DEF g
  <2> QED
    BY <1>2 DEF Adds, Added
<1>6. T \in SUBSET S
  OBVIOUS
<1> HIDE DEF g, h, T
<1>7. g[T] = h[T]
  BY <1>2, <1>3, <1>6, AddersAgree
<1> QED
  BY <1>4, <1>5, <1>7 DEF T

\* A sum of integers is one, and any of them may be added last.
LEMMA SumIsInt ==
  ASSUME NEW f, NEW S, IsFiniteSet(S), \A x \in S : f[x] \in Int
  PROVE  SumFunctionOnSet(f, S) \in Int
<1> DEFINE F == {s \in SUBSET S : SumFunctionOnSet(f, s) \in Int}
<1>1. {} \in F
  BY SumOfNone
<1>2. ASSUME NEW s \in SUBSET S, s # {}, \A x \in s : s \ {x} \in F PROVE s \in F
  <2> DEFINE x == CHOOSE x \in s : TRUE
  <2>1. x \in s
    BY <1>2
  <2>2. IsFiniteSet(s)
    BY FS_Subset
  <2>3. SumFunctionOnSet(f, s) = f[x] + SumFunctionOnSet(f, s \ {x})
    BY <1>2, <2>2, SumChosen
  <2>4. f[x] \in Int /\ SumFunctionOnSet(f, s \ {x}) \in Int
    BY <1>2, <2>1
  <2> QED
    BY <2>3, <2>4
<1>3. SUBSET S \subseteq F
  <2> HIDE DEF F
  <2> QED
    BY <1>1, <1>2, SetsByOne
<1> QED
  BY <1>3

LEMMA SumOfAny ==
  ASSUME NEW f, NEW S, IsFiniteSet(S), \A x \in S : f[x] \in Int
  PROVE  \A x \in S : SumFunctionOnSet(f, S) = f[x] + SumFunctionOnSet(f, S \ {x})
<1> DEFINE Whichever(s) == \A y \in s : SumFunctionOnSet(f, s) = f[y] + SumFunctionOnSet(f, s \ {y})
           F == {s \in SUBSET S : Whichever(s)}
<1>1. {} \in F
  OBVIOUS
<1>2. ASSUME NEW s \in SUBSET S, s # {}, \A x \in s : s \ {x} \in F PROVE s \in F
  <2> DEFINE x == CHOOSE x \in s : TRUE
  <2>1. x \in s
    BY <1>2
  <2>2. IsFiniteSet(s)
    BY FS_Subset
  <2>3. SumFunctionOnSet(f, s) = f[x] + SumFunctionOnSet(f, s \ {x})
    BY <1>2, <2>2, SumChosen
  <2> HIDE DEF x
  <2>4. ASSUME NEW y \in s, y # x
        PROVE  SumFunctionOnSet(f, s) = f[y] + SumFunctionOnSet(f, s \ {y})
    <3> DEFINE rest == (s \ {x}) \ {y}
    <3>1. (s \ {y}) \ {x} = rest
      OBVIOUS
    <3>2. SumFunctionOnSet(f, s \ {x}) = f[y] + SumFunctionOnSet(f, rest)
      BY <1>2, <2>1, <2>4
    <3>3. SumFunctionOnSet(f, s \ {y}) = f[x] + SumFunctionOnSet(f, (s \ {y}) \ {x})
      BY <1>2, <2>1, <2>4
    <3>4. f[x] \in Int /\ f[y] \in Int
      BY <2>1
    <3>5. IsFiniteSet(rest) /\ \A z \in rest : f[z] \in Int
      BY <2>2, FS_Subset
    <3>6. SumFunctionOnSet(f, rest) \in Int
      <4> HIDE DEF rest
      <4> QED
        BY <3>5, SumIsInt
    <3>7. SumFunctionOnSet(f, s \ {y}) = f[x] + SumFunctionOnSet(f, rest)
      BY <3>1, <3>3
    <3> HIDE DEF rest
    <3> QED
      BY <2>3, <3>2, <3>4, <3>6, <3>7
  <2> QED
    BY <2>3, <2>4
<1>3. SUBSET S \subseteq F
  <2> HIDE DEF F
  <2> QED
    BY <1>1, <1>2, SetsByOne
<1> QED
  BY <1>3

LEMMA SumsOfParts ==
  ASSUME NEW f, NEW S, IsFiniteSet(S), \A x \in S : f[x] \in Int
  PROVE  \A s \in SUBSET S :
           /\ SumFunctionOnSet(f, s) \in Int
           /\ \A x \in s : SumFunctionOnSet(f, s) = f[x] + SumFunctionOnSet(f, s \ {x})
<1> SUFFICES ASSUME NEW s \in SUBSET S
             PROVE  /\ SumFunctionOnSet(f, s) \in Int
                    /\ \A x \in s : SumFunctionOnSet(f, s) = f[x] + SumFunctionOnSet(f, s \ {x})
  OBVIOUS
<1>1. IsFiniteSet(s) /\ \A x \in s : f[x] \in Int
  BY FS_Subset
<1> QED
  BY <1>1, SumIsInt, SumOfAny

LEMMA SumGrows ==
  ASSUME NEW f, NEW g, NEW S, IsFiniteSet(S),
         \A x \in S : f[x] \in Int /\ g[x] \in Int /\ f[x] <= g[x]
  PROVE  SumFunctionOnSet(f, S) <= SumFunctionOnSet(g, S)
<1> DEFINE F == {s \in SUBSET S : SumFunctionOnSet(f, s) <= SumFunctionOnSet(g, s)}
<1>1. {} \in F
  BY SumOfNone
<1>2. ASSUME NEW s \in SUBSET S, s # {}, \A x \in s : s \ {x} \in F PROVE s \in F
  <2>1. PICK x \in s : TRUE
    BY <1>2
  <2>2. SumFunctionOnSet(f, s \ {x}) <= SumFunctionOnSet(g, s \ {x})
    BY <1>2
  <2>3. /\ SumFunctionOnSet(f, s) = f[x] + SumFunctionOnSet(f, s \ {x})
        /\ SumFunctionOnSet(g, s) = g[x] + SumFunctionOnSet(g, s \ {x})
        /\ SumFunctionOnSet(f, s \ {x}) \in Int /\ SumFunctionOnSet(g, s \ {x}) \in Int
    <3>1. s \ {x} \in SUBSET S
      OBVIOUS
    <3> QED
      BY <3>1, SumsOfParts
  <2> QED
    BY <2>2, <2>3
<1>3. SUBSET S \subseteq F
  <2> HIDE DEF F
  <2> QED
    BY <1>1, <1>2, SetsByOne
<1> QED
  BY <1>3

LEMMA SumSame ==
  ASSUME NEW f, NEW g, NEW S, IsFiniteSet(S), \A x \in S : f[x] \in Int /\ f[x] = g[x]
  PROVE  SumFunctionOnSet(f, S) = SumFunctionOnSet(g, S)
<1>1. SumFunctionOnSet(f, S) <= SumFunctionOnSet(g, S)
  BY SumGrows
<1>2. SumFunctionOnSet(g, S) <= SumFunctionOnSet(f, S)
  BY SumGrows
<1>3. SumFunctionOnSet(f, S) \in Int /\ SumFunctionOnSet(g, S) \in Int
  BY SumIsInt
<1> QED
  BY <1>1, <1>2, <1>3

LEMMA SumScaled ==
  ASSUME NEW f, NEW S, IsFiniteSet(S), \A x \in S : f[x] \in Int, NEW k \in Int
  PROVE  SumFunctionOnSet([x \in S |-> k * f[x]], S) = k * SumFunctionOnSet(f, S)
<1> DEFINE g == [x \in S |-> k * f[x]]
           F == {s \in SUBSET S : SumFunctionOnSet(g, s) = k * SumFunctionOnSet(f, s)}
<1>0. \A x \in S : g[x] = k * f[x] /\ g[x] \in Int
  OBVIOUS
<1> HIDE DEF g
<1>1. {} \in F
  BY SumOfNone
<1>2. ASSUME NEW s \in SUBSET S, s # {}, \A x \in s : s \ {x} \in F PROVE s \in F
  <2>1. PICK x \in s : TRUE
    BY <1>2
  <2> DEFINE a == SumFunctionOnSet(f, s \ {x})
             b == SumFunctionOnSet(g, s \ {x})
  <2>2. b = k * a
    BY <1>2
  <2>3. /\ SumFunctionOnSet(f, s) = f[x] + a
        /\ SumFunctionOnSet(g, s) = g[x] + b
        /\ a \in Int
    <3>1. s \ {x} \in SUBSET S
      OBVIOUS
    <3> QED
      BY <1>0, <3>1, SumsOfParts
  <2> HIDE DEF a, b
  <2>4. k * f[x] + k * a = k * (f[x] + a)
    BY <2>3
  <2> QED
    BY <1>0, <2>2, <2>3, <2>4
<1>3. SUBSET S \subseteq F
  <2> HIDE DEF F
  <2> QED
    BY <1>1, <1>2, SetsByOne
<1> QED
  BY <1>3 DEF g

\* A sum over a set is one over any set that corresponds to it.
LEMMA SumMoved ==
  ASSUME NEW f, NEW g, NEW S, IsFiniteSet(S), NEW m,
         \A x, y \in S : m[x] = m[y] => x = y,
         \A x \in S : f[x] \in Int /\ g[m[x]] = f[x]
  PROVE  LET moved == {m[x] : x \in S} IN
         IsFiniteSet(moved) /\ SumFunctionOnSet(g, moved) = SumFunctionOnSet(f, S)
<1> DEFINE Moved(s) == {m[x] : x \in s}
           F == {s \in SUBSET S : /\ IsFiniteSet(Moved(s))
                                  /\ SumFunctionOnSet(g, Moved(s)) = SumFunctionOnSet(f, s)}
<1>1. {} \in F
  BY SumOfNone, FS_EmptySet
<1>2. ASSUME NEW s \in SUBSET S, s # {}, \A x \in s : s \ {x} \in F PROVE s \in F
  <2>1. PICK x \in s : TRUE
    BY <1>2
  <2> DEFINE A == Moved(s \ {x})
             B == Moved(s)
  <2>2. IsFiniteSet(A) /\ SumFunctionOnSet(g, A) = SumFunctionOnSet(f, s \ {x})
    BY <1>2
  <2>3. B = A \cup {m[x]} /\ m[x] \in B /\ B \ {m[x]} = A
    OBVIOUS
  <2>4. \A z \in B : g[z] \in Int
    OBVIOUS
  <2>5. SumFunctionOnSet(f, s) = f[x] + SumFunctionOnSet(f, s \ {x}) /\ g[m[x]] = f[x]
    BY SumsOfParts
  <2> HIDE DEF A, B
  <2>6. IsFiniteSet(B)
    BY <2>2, <2>3, FS_AddElement
  <2>7. SumFunctionOnSet(g, B) = g[m[x]] + SumFunctionOnSet(g, A)
    BY <2>3, <2>4, <2>6, SumOfAny
  <2>8. SumFunctionOnSet(g, B) = SumFunctionOnSet(f, s)
    BY <2>2, <2>5, <2>7
  <2> QED
    BY <2>6, <2>8 DEF B
<1>3. SUBSET S \subseteq F
  <2> HIDE DEF F
  <2> QED
    BY <1>1, <1>2, SetsByOne
<1> QED
  BY <1>3

-----------------------------------------------------------------------------
(* PlayerTracking: the invariant.                                          *)

OutputIsTracked ==
  \A i \in DOMAIN output : output[i].id \in DOMAIN tracks /\ tracks[output[i].id].lost = 0

\* So lost is 0 in the output of a track that began, and of no other.
OthersAreOlder == \A id \in DOMAIN tracks \ Claimed : tracks[id].lost # 0

SureFirst == high # <<>> => \A k \in DOMAIN output : output[k].of.sure

\* A high score began a track because it matched nothing that is left.
NothingMissed ==
  \A i \in DOMAIN output : output[i].of.sure /\ output[i].lost = 0 =>
    \A id \in Candidates : IoU(tracks[id].at, output[i].of.at) < MatchIoU

Track == [at : Place, lost : 0 .. MaxLost + 1]

\* All of the invariant but what is about the detections to come.
OutputInv ==
  /\ tracks \in Seq(Track) /\ output \in Seq(Association)
  /\ OutputIsTracked /\ OthersAreOlder /\ NothingMissed /\ TracksAreSound

TrackingInv ==
  /\ OutputInv /\ SureFirst
  /\ high \in Seq([at : Place, sure : {TRUE}]) /\ low \in Seq([at : Place, sure : {FALSE}])
  /\ Len(tracks) + Len(high) + Len(low) <= MaxTracks

-----------------------------------------------------------------------------
(* PlayerTracking: one turn of the loop.                                   *)

LEMMA OverlapIsNatural ==
  ASSUME NEW a \in Place, NEW b \in Place
  PROVE  IoU(a, b) \in Nat
<1> DEFINE d == IF a < b THEN b - a ELSE a - b
<1>1. d \in Nat
  BY TrackingAssumption
<1>2. d < Len(Overlap) => Overlap[d + 1] \in Nat
  <2>1. Len(Overlap) \in Nat
    BY TrackingAssumption
  <2> HIDE DEF d
  <2> QED
    BY <1>1, <2>1, TrackingAssumption
<1> QED
  BY <1>2 DEF IoU

LEMMA CandidatesAreTracks ==
  ASSUME tracks \in Seq(Track)
  PROVE  /\ Len(tracks) \in Nat /\ DOMAIN tracks = 1 .. Len(tracks)
         /\ Candidates \subseteq DOMAIN tracks
         /\ \A id \in DOMAIN tracks : tracks[id] \in Track
  BY DEF Candidates

\* max() over the candidates is one of them and overlaps most.
LEMMA BestIsBest ==
  ASSUME tracks \in Seq(Track), NEW at \in Place, Candidates # {}
  PROVE  /\ BestOf(Candidates, at) \in Candidates
         /\ \A k \in Candidates :
              IoU(tracks[k].at, at) <= IoU(tracks[BestOf(Candidates, at)].at, at)
<1> DEFINE f == [k \in DOMAIN tracks |-> IoU(tracks[k].at, at)]
           best == {id \in Candidates : \A k \in Candidates : f[k] <= f[id]}
<1>1. \A k \in Candidates : f[k] = IoU(tracks[k].at, at) /\ f[k] \in Nat
  BY CandidatesAreTracks, OverlapIsNatural DEF Track
<1>2. Candidates \in SUBSET (1 .. Len(tracks)) /\ Len(tracks) \in Nat
  BY CandidatesAreTracks
<1>3. \E m \in Candidates : \A k \in Candidates : f[k] <= f[m]
  <2> HIDE DEF f
  <2> QED
    BY <1>1, <1>2, GreatestExists
<1>4. BestOf(Candidates, at) = Min(best)
  <2>1. best = {id \in Candidates :
                  \A k \in Candidates : IoU(tracks[k].at, at) <= IoU(tracks[id].at, at)}
    BY <1>1
  <2> QED
    BY <2>1 DEF BestOf
<1>5. best # {} /\ best \in SUBSET Nat
  <2>1. best # {}
    BY <1>3
  <2>2. 1 .. Len(tracks) \subseteq Nat
    OBVIOUS
  <2> QED
    BY <1>2, <2>1, <2>2
<1>6. Min(best) \in best
  <2> HIDE DEF best
  <2> QED
    BY <1>5, MinIsLeast
<1> QED
  BY <1>1, <1>4, <1>6

\* What a turn does: the detection continues a candidate it overlaps enough
\* or, where there is none, begins the next track.
Continues(det, best) ==
  /\ best \in Candidates /\ IoU(tracks[best].at, det.at) >= MatchIoU
  /\ tracks' = [tracks EXCEPT ![best] = [at |-> det.at, lost |-> 0]]
  /\ output' = Append(output, [of |-> det, id |-> best,
                               was |-> tracks[best].at, lost |-> tracks[best].lost])

StartsTrack(det) ==
  /\ \A id \in Candidates : IoU(tracks[id].at, det.at) < MatchIoU
  /\ tracks' = Append(tracks, [at |-> det.at, lost |-> 0])
  /\ output' = Append(output, [of |-> det, id |-> Len(tracks) + 1,
                               was |-> det.at, lost |-> 0])

LEMMA TurnSplits ==
  ASSUME tracks \in Seq(Track), NEW det \in Detection, AssociateOne(det)
  PROVE  StartsTrack(det) \/ \E best \in Candidates : Continues(det, best)
<1>1. det.at \in Place
  BY DEF Detection
<1> DEFINE best == IF Candidates = {} THEN 0 ELSE BestOf(Candidates, det.at)
<1>2. CASE Candidates = {}
  BY <1>2 DEF AssociateOne, StartsTrack
<1>3. CASE Candidates # {}
  <2>1. best \in Candidates /\ best # 0
    BY <1>1, <1>3, BestIsBest, CandidatesAreTracks
  <2>2. \A k \in Candidates : IoU(tracks[k].at, det.at) <= IoU(tracks[best].at, det.at)
    BY <1>1, <1>3, BestIsBest
  <2>3. \A k \in Candidates : IoU(tracks[k].at, det.at) \in Nat
    BY <1>1, CandidatesAreTracks, OverlapIsNatural DEF Track
  <2>4. CASE IoU(tracks[best].at, det.at) >= MatchIoU
    <3>1. Continues(det, best)
      BY <2>1, <2>4 DEF AssociateOne, Continues
    <3> QED
      BY <2>1, <3>1
  <2>5. CASE ~(IoU(tracks[best].at, det.at) >= MatchIoU)
    <3>1. \A k \in Candidates : IoU(tracks[k].at, det.at) < MatchIoU
      <4> HIDE DEF best
      <4> QED
        BY <2>1, <2>2, <2>3, <2>5, TrackingAssumption
    <3> QED
      BY <2>1, <2>5, <3>1 DEF AssociateOne, StartsTrack
  <2> QED
    BY <2>4, <2>5
<1> QED
  BY <1>2, <1>3

\* What both do to the output.
LEMMA OneMoreOutput ==
  ASSUME output \in Seq(Association), NEW a \in Association, output' = Append(output, a)
  PROVE  /\ output' \in Seq(Association)
         /\ Len(output) \in Nat
         /\ DOMAIN output = 1 .. Len(output) /\ DOMAIN output' = 1 .. Len(output) + 1
         /\ \A i \in DOMAIN output : output'[i] = output[i] /\ output[i] \in Association
         /\ output'[Len(output) + 1] = a
         /\ Claimed' = Claimed \cup {a.id}
<1>1. output' \in Seq(Association) /\ Len(output) \in Nat
  OBVIOUS
<1>2. DOMAIN output = 1 .. Len(output) /\ DOMAIN output' = 1 .. Len(output) + 1
  OBVIOUS
<1>3. /\ \A i \in DOMAIN output : output'[i] = output[i] /\ output[i] \in Association
      /\ output'[Len(output) + 1] = a
  OBVIOUS
<1>4. DOMAIN output' = DOMAIN output \cup {Len(output) + 1}
  BY <1>1, <1>2
<1>5. Claimed' = Claimed \cup {a.id}
  BY <1>3, <1>4 DEF Claimed
<1> QED
  BY <1>1, <1>2, <1>3, <1>5

\* A detection that is unlike those before it leaves them sound.
LEMMA StaysSound ==
  ASSUME OutputInv, NEW a \in Association, output' = Append(output, a),
         a.id \notin Claimed,
         a.lost # 0 => IoU(a.was, a.of.at) >= MatchIoU /\ a.lost <= MaxLost,
         a.of.sure => \A k \in DOMAIN output : output[k].of.sure,
         a.lost # 0 /\ ~a.of.sure =>
           \A i \in DOMAIN output : output[i].of.sure /\ output[i].lost = 0 =>
             IoU(a.was, output[i].of.at) < MatchIoU
  PROVE  TracksAreSound'
<1>1. output \in Seq(Association) /\ TracksAreSound
  BY DEF OutputInv
<1> DEFINE n == Len(output) + 1
<1>2. /\ DOMAIN output' = DOMAIN output \cup {n} /\ n \notin DOMAIN output
      /\ \A i \in DOMAIN output : output'[i] = output[i]
      /\ output'[n] = a
  BY <1>1, OneMoreOutput
<1> HIDE DEF n
<1>3. OneTrackEach'
  BY <1>1, <1>2 DEF TracksAreSound, OneTrackEach, Claimed
<1>4. TracksAreContinuous'
  <2> SUFFICES ASSUME NEW i \in DOMAIN output', output'[i].lost # 0
               PROVE  /\ IoU(output'[i].was, output'[i].of.at) >= MatchIoU
                      /\ output'[i].lost <= MaxLost
    BY DEF TracksAreContinuous, IoU
  <2> QED
    BY <1>1, <1>2 DEF TracksAreSound, TracksAreContinuous
<1>5. LowScoresOnlyRecover'
  <2> SUFFICES ASSUME NEW i \in DOMAIN output', NEW k \in DOMAIN output',
                      output'[i].of.sure, output'[i].lost = 0,
                      ~output'[k].of.sure, output'[k].lost # 0
               PROVE  IoU(output'[k].was, output'[i].of.at) < MatchIoU
    BY DEF LowScoresOnlyRecover, IoU
  <2> QED
    BY <1>1, <1>2 DEF TracksAreSound, LowScoresOnlyRecover
<1> QED
  BY <1>3, <1>4, <1>5 DEF TracksAreSound

\* Detections are handed out with the sure ones first.
InOrder(det) == det.sure => \A k \in DOMAIN output : output[k].of.sure

LEMMA ContinuedIsSound ==
  ASSUME OutputInv, NEW det \in Detection, InOrder(det), Len(tracks) <= MaxTracks,
         NEW best \in Candidates, Continues(det, best)
  PROVE  OutputInv' /\ Len(tracks') = Len(tracks)
<1> DEFINE here == [at |-> det.at, lost |-> 0]
           a == [of |-> det, id |-> best, was |-> tracks[best].at, lost |-> tracks[best].lost]
<1>1. /\ tracks \in Seq(Track) /\ output \in Seq(Association)
      /\ tracks' = [tracks EXCEPT ![best] = here] /\ output' = Append(output, a)
  BY DEF OutputInv, Continues
<1>2. /\ best \in DOMAIN tracks /\ tracks[best] \in Track /\ best \notin Claimed
      /\ best \in 1 .. MaxTracks /\ tracks[best].lost <= MaxLost /\ tracks[best].lost # 0
  <2>1. DOMAIN tracks = 1 .. Len(tracks) /\ Len(tracks) \in Nat
    BY <1>1
  <2> QED
    BY <1>1, <2>1, TrackingAssumption DEF Candidates, OutputInv, OthersAreOlder
<1>3. here \in Track /\ a \in Association
  BY <1>2, TrackingAssumption DEF Track, Detection, Association
<1>4. /\ tracks' \in Seq(Track) /\ DOMAIN tracks' = DOMAIN tracks /\ Len(tracks') = Len(tracks)
      /\ tracks'[best] = here /\ \A id \in DOMAIN tracks \ {best} : tracks'[id] = tracks[id]
  BY <1>1, <1>2, <1>3
<1> DEFINE n == Len(output) + 1
<1>5. /\ output' \in Seq(Association) /\ DOMAIN output' = DOMAIN output \cup {n}
      /\ \A i \in DOMAIN output : output'[i] = output[i]
      /\ output'[n] = a /\ Claimed' = Claimed \cup {best}
  BY <1>1, <1>3, OneMoreOutput
<1> HIDE DEF n
<1>6. OutputIsTracked'
  <2>1. OutputIsTracked
    BY DEF OutputInv
  <2> QED
    BY <1>2, <1>4, <1>5, <2>1 DEF OutputIsTracked
<1>7. OthersAreOlder'
  BY <1>4, <1>5 DEF OutputInv, OthersAreOlder
<1>8. Candidates' = Candidates \ {best}
  BY <1>4, <1>5 DEF Candidates
<1>9. NothingMissed'
  <2> SUFFICES ASSUME NEW i \in DOMAIN output', output'[i].of.sure, output'[i].lost = 0,
                      NEW id \in Candidates'
               PROVE  IoU(tracks'[id].at, output'[i].of.at) < MatchIoU
    BY DEF NothingMissed, IoU
  <2>1. tracks'[id] = tracks[id] /\ id \in Candidates
    BY <1>4, <1>8, CandidatesAreTracks, <1>1
  <2>2. i \in DOMAIN output /\ output'[i] = output[i]
    BY <1>2, <1>5
  <2> QED
    BY <2>1, <2>2 DEF OutputInv, NothingMissed
<1>10. TracksAreSound'
  <2>1. a.lost # 0 => IoU(a.was, a.of.at) >= MatchIoU /\ a.lost <= MaxLost
    BY <1>2 DEF Continues
  <2>2. a.of.sure => \A k \in DOMAIN output : output[k].of.sure
    BY DEF InOrder
  <2>3. \A i \in DOMAIN output : output[i].of.sure /\ output[i].lost = 0 =>
          IoU(a.was, output[i].of.at) < MatchIoU
    BY DEF OutputInv, NothingMissed
  <2> HIDE DEF a
  <2>4. a.id \notin Claimed
    BY <1>2 DEF a
  <2> QED
    BY <1>1, <1>3, <2>1, <2>2, <2>3, <2>4, StaysSound
<1> QED
  BY <1>4, <1>5, <1>6, <1>7, <1>9, <1>10 DEF OutputInv

LEMMA StartedIsSound ==
  ASSUME OutputInv, NEW det \in Detection, InOrder(det), Len(tracks) < MaxTracks,
         StartsTrack(det)
  PROVE  OutputInv' /\ Len(tracks') = Len(tracks) + 1
<1> DEFINE here == [at |-> det.at, lost |-> 0]
           new == Len(tracks) + 1
           a == [of |-> det, id |-> new, was |-> det.at, lost |-> 0]
<1>1. /\ tracks \in Seq(Track) /\ output \in Seq(Association)
      /\ tracks' = Append(tracks, here) /\ output' = Append(output, a)
  BY DEF OutputInv, StartsTrack
<1>2. /\ Len(tracks) \in Nat /\ DOMAIN tracks = 1 .. Len(tracks)
      /\ new \in 1 .. MaxTracks /\ new \notin DOMAIN tracks
  BY <1>1, TrackingAssumption
<1>3. here \in Track /\ a \in Association
  BY <1>2, TrackingAssumption DEF Track, Detection, Association
<1>4. /\ tracks' \in Seq(Track) /\ DOMAIN tracks' = DOMAIN tracks \cup {new}
      /\ Len(tracks') = Len(tracks) + 1
      /\ tracks'[new] = here /\ \A id \in DOMAIN tracks : tracks'[id] = tracks[id]
  BY <1>1, <1>2, <1>3
<1> HIDE DEF new
<1> DEFINE n == Len(output) + 1
<1>5. /\ output' \in Seq(Association) /\ DOMAIN output' = DOMAIN output \cup {n}
      /\ \A i \in DOMAIN output : output'[i] = output[i]
      /\ output'[n] = a /\ Claimed' = Claimed \cup {new}
  BY <1>1, <1>3, OneMoreOutput
<1> HIDE DEF n
<1>6. OutputIsTracked /\ Claimed \subseteq DOMAIN tracks /\ new \notin Claimed
  BY <1>2 DEF OutputInv, OutputIsTracked, Claimed
<1>7. OutputIsTracked'
  BY <1>4, <1>5, <1>6 DEF OutputIsTracked
<1>8. OthersAreOlder'
  BY <1>4, <1>5 DEF OutputInv, OthersAreOlder
<1>9. Candidates' = Candidates
  BY <1>2, <1>4, <1>5 DEF Candidates
<1>10. NothingMissed'
  <2> SUFFICES ASSUME NEW i \in DOMAIN output', output'[i].of.sure, output'[i].lost = 0,
                      NEW id \in Candidates'
               PROVE  IoU(tracks'[id].at, output'[i].of.at) < MatchIoU
    BY DEF NothingMissed, IoU
  <2>1. tracks'[id] = tracks[id] /\ id \in Candidates
    BY <1>4, <1>9, CandidatesAreTracks, <1>1
  <2>2. CASE i \in DOMAIN output
    BY <1>5, <2>1, <2>2 DEF OutputInv, NothingMissed
  <2>3. CASE i = n
    <3>1. output'[i].of.at = det.at
      BY <1>5, <2>3
    <3>2. IoU(tracks[id].at, det.at) < MatchIoU
      BY <2>1 DEF StartsTrack
    <3> QED
      BY <2>1, <3>1, <3>2
  <2> QED
    BY <1>5, <2>2, <2>3
<1>11. TracksAreSound'
  <2>1. a.of.sure => \A k \in DOMAIN output : output[k].of.sure
    BY DEF InOrder
  <2>2. a.lost = 0 /\ a.id \notin Claimed
    BY <1>6
  <2> HIDE DEF a
  <2> QED
    BY <1>1, <1>3, <2>1, <2>2, StaysSound
<1> QED
  BY <1>4, <1>5, <1>7, <1>8, <1>10, <1>11 DEF OutputInv

LEMMA TurnKeepsOutput ==
  ASSUME OutputInv, NEW det \in Detection, InOrder(det), Len(tracks) < MaxTracks,
         AssociateOne(det)
  PROVE  /\ OutputInv' /\ Len(tracks') <= Len(tracks) + 1
         /\ det.sure => \A k \in DOMAIN output' : output'[k].of.sure
<1>1. tracks \in Seq(Track) /\ Len(tracks) \in Nat /\ output \in Seq(Association)
  BY DEF OutputInv
<1>2. OutputInv' /\ Len(tracks') <= Len(tracks) + 1
  <2>1. Len(tracks) <= MaxTracks
    BY <1>1, TrackingAssumption
  <2>2. CASE StartsTrack(det)
    <3>1. OutputInv' /\ Len(tracks') = Len(tracks) + 1
      BY <2>2, StartedIsSound
    <3> QED
      BY <1>1, <3>1
  <2>3. ASSUME NEW best \in Candidates, Continues(det, best)
        PROVE  OutputInv' /\ Len(tracks') <= Len(tracks) + 1
    <3>1. OutputInv' /\ Len(tracks') = Len(tracks)
      BY <2>1, <2>3, ContinuedIsSound
    <3> QED
      BY <1>1, <3>1
  <2> QED
    BY <1>1, <2>2, <2>3, TurnSplits
<1>3. \E x : output' = Append(output, x) /\ x.of = det
  BY DEF AssociateOne
<1>4. det.sure => \A k \in DOMAIN output' : output'[k].of.sure
  <2>1. PICK x : output' = Append(output, x) /\ x.of = det
    BY <1>3
  <2>2. output' \in Seq(Association)
    BY <1>2 DEF OutputInv
  <2>3. Len(output') = Len(output) + 1 /\ Len(output) \in Nat
    BY <1>1, <2>1, <2>2
  <2>4. DOMAIN output = 1 .. Len(output) /\ DOMAIN output' = 1 .. Len(output) + 1
    BY <1>1, <2>2, <2>3
  <2>5. (\A k \in 1 .. Len(output) : output'[k] = output[k]) /\ output'[Len(output) + 1] = x
    BY <1>1, <2>1
  <2> QED
    BY <2>1, <2>3, <2>4, <2>5 DEF InOrder
<1> QED
  BY <1>2, <1>4

-----------------------------------------------------------------------------
(* PlayerTracking: all steps.                                              *)

LEMMA AssociateKeeps ==
  ASSUME TrackingInv, Associate
  PROVE  TrackingInv'
<1> DEFINE Sure == [at : Place, sure : {TRUE}]
           Unsure == [at : Place, sure : {FALSE}]
<1>1. /\ OutputInv /\ high \in Seq(Sure) /\ low \in Seq(Unsure)
      /\ Len(tracks) \in Nat /\ MaxTracks \in Nat
      /\ Len(tracks) + Len(high) + Len(low) <= MaxTracks
  BY TrackingAssumption DEF TrackingInv, OutputInv
<1>2. CASE high # <<>> /\ AssociateOne(Head(high)) /\ high' = Tail(high) /\ UNCHANGED low
  <2> HIDE DEF Sure, Unsure
  <2>0. /\ Head(high) \in Sure /\ Tail(high) \in Seq(Sure)
        /\ Len(Tail(high)) = Len(high) - 1
    BY <1>1, <1>2, HeadTailProperties
  <2>1. /\ Head(high) \in Sure /\ high' \in Seq(Sure)
        /\ Len(high') = Len(high) - 1 /\ Len(high) \in Nat /\ Len(high) # 0
        /\ Len(low) \in Nat
    BY <1>1, <1>2, <2>0, LenProperties, EmptySeq
  <2>2. Head(high) \in Detection /\ InOrder(Head(high)) /\ Head(high).sure
    BY <1>2, <2>1 DEF Detection, InOrder, TrackingInv, SureFirst, Sure
  <2>3. Len(tracks) < MaxTracks
    BY <1>1, <2>1
  <2>4. /\ OutputInv' /\ Len(tracks') <= Len(tracks) + 1
        /\ \A k \in DOMAIN output' : output'[k].of.sure
    BY <1>1, <1>2, <2>2, <2>3, TurnKeepsOutput
  <2>5. Len(tracks') \in Nat
    BY <2>4 DEF OutputInv
  <2>6. Len(tracks') + Len(high') + Len(low') <= MaxTracks
    BY <1>1, <1>2, <2>1, <2>4, <2>5
  <2> QED
    BY <1>1, <1>2, <2>1, <2>4, <2>6 DEF TrackingInv, SureFirst, Sure, Unsure
<1>3. CASE high = <<>> /\ low # <<>> /\ AssociateOne(Head(low)) /\ low' = Tail(low) /\ UNCHANGED high
  <2> HIDE DEF Sure, Unsure
  <2>0. /\ Head(low) \in Unsure /\ Tail(low) \in Seq(Unsure)
        /\ Len(Tail(low)) = Len(low) - 1
    BY <1>1, <1>3, HeadTailProperties
  <2>1. /\ Head(low) \in Unsure /\ low' \in Seq(Unsure)
        /\ Len(low') = Len(low) - 1 /\ Len(low) \in Nat /\ Len(low) # 0
        /\ Len(high) = 0
    BY <1>1, <1>3, <2>0, LenProperties, EmptySeq
  <2>2. Head(low) \in Detection /\ InOrder(Head(low))
    BY <2>1 DEF Detection, InOrder, Unsure
  <2>3. Len(tracks) < MaxTracks
    BY <1>1, <2>1
  <2>4. OutputInv' /\ Len(tracks') <= Len(tracks) + 1
    BY <1>1, <1>3, <2>2, <2>3, TurnKeepsOutput
  <2>5. Len(tracks') \in Nat
    BY <2>4 DEF OutputInv
  <2>6. Len(tracks') + Len(high') + Len(low') <= MaxTracks
    BY <1>1, <1>3, <2>1, <2>4, <2>5
  <2> QED
    BY <1>1, <1>3, <2>1, <2>4, <2>6 DEF TrackingInv, SureFirst, Sure, Unsure
<1> QED
  BY <1>2, <1>3 DEF Associate

LEMMA FunctionIsSequence ==
  ASSUME NEW S, NEW n \in Nat, NEW q \in [1 .. n -> S]
  PROVE  q \in Seq(S) /\ Len(q) = n
  OBVIOUS

LEMMA FrameKeeps ==
  ASSUME TrackingInv, BeginFrame
  PROVE  TrackingInv'
<1>1. tracks \in Seq(Track) /\ Len(tracks) \in Nat /\ DOMAIN tracks = 1 .. Len(tracks)
  BY DEF TrackingInv, OutputInv
<1>2. PICK n \in 0 .. MaxDetected : \E m \in 0 .. MaxDetected - n :
        /\ high' \in [1 .. n -> [at : Place, sure : {TRUE}]]
        /\ low' \in [1 .. m -> [at : Place, sure : {FALSE}]]
        /\ Len(tracks) + n + m <= MaxTracks
  BY Zenon DEF BeginFrame
<1>3. PICK m \in 0 .. MaxDetected - n :
        /\ high' \in [1 .. n -> [at : Place, sure : {TRUE}]]
        /\ low' \in [1 .. m -> [at : Place, sure : {FALSE}]]
        /\ Len(tracks) + n + m <= MaxTracks
  BY <1>2, Zenon
<1>n. n \in Nat /\ m \in Nat
  BY TrackingAssumption
<1>4. /\ high' \in Seq([at : Place, sure : {TRUE}]) /\ Len(high') = n
      /\ low' \in Seq([at : Place, sure : {FALSE}]) /\ Len(low') = m
  <2> DEFINE Sure == [at : Place, sure : {TRUE}]
             Unsure == [at : Place, sure : {FALSE}]
  <2>1. high' \in [1 .. n -> Sure] /\ low' \in [1 .. m -> Unsure]
    BY <1>3, Zenon
  <2> HIDE DEF Sure, Unsure
  <2>2. high' \in Seq(Sure) /\ Len(high') = n /\ low' \in Seq(Unsure) /\ Len(low') = m
    BY <1>n, <2>1, FunctionIsSequence
  <2> QED
    BY <2>2, Zenon DEF Sure, Unsure
<1>5. \A id \in DOMAIN tracks : Older(tracks[id]) \in Track /\ Older(tracks[id]).lost # 0
  <2> SUFFICES ASSUME NEW id \in DOMAIN tracks
               PROVE  Older(tracks[id]) \in Track /\ Older(tracks[id]).lost # 0
    OBVIOUS
  <2>1. tracks[id] \in Track
    BY <1>1
  <2>2. (IF tracks[id].lost > MaxLost THEN tracks[id].lost ELSE tracks[id].lost + 1)
          \in 1 .. MaxLost + 1
    BY <2>1, TrackingAssumption DEF Track
  <2> QED
    BY <2>1, <2>2 DEF Older, Track
<1>6. tracks' = [id \in 1 .. Len(tracks) |-> Older(tracks[id])] /\ output' = <<>>
  BY <1>1 DEF BeginFrame
<1>7. tracks' \in Seq(Track) /\ Len(tracks') = Len(tracks) /\ DOMAIN tracks' = DOMAIN tracks
  BY <1>1, <1>5, <1>6
<1>8. output' \in Seq(Association) /\ DOMAIN output' = {}
  BY <1>6
<1>9. OthersAreOlder'
  BY <1>1, <1>5, <1>6 DEF OthersAreOlder
<1>10. OutputIsTracked' /\ NothingMissed' /\ TracksAreSound'
  BY <1>8 DEF OutputIsTracked, NothingMissed, TracksAreSound, OneTrackEach,
              TracksAreContinuous, LowScoresOnlyRecover
<1> QED
  BY <1>3, <1>n, <1>4, <1>7, <1>8, <1>9, <1>10 DEF TrackingInv, OutputInv, SureFirst

LEMMA TrackingInvariant == TrackingSpec => []TrackingInv
<1>1. TrackingInit => TrackingInv
  <2> SUFFICES ASSUME TrackingInit PROVE TrackingInv
    OBVIOUS
  <2>1. /\ tracks \in Seq(Track) /\ output \in Seq(Association)
        /\ high \in Seq([at : Place, sure : {TRUE}]) /\ low \in Seq([at : Place, sure : {FALSE}])
        /\ DOMAIN tracks = {} /\ DOMAIN output = {}
        /\ Len(tracks) = 0 /\ Len(high) = 0 /\ Len(low) = 0
    BY DEF TrackingInit
  <2>2. OutputInv
    BY <2>1 DEF OutputInv, OutputIsTracked, OthersAreOlder, NothingMissed, TracksAreSound,
                OneTrackEach, TracksAreContinuous, LowScoresOnlyRecover
  <2> QED
    BY <2>1, <2>2, TrackingAssumption DEF TrackingInv, SureFirst
<1>2. TrackingInv /\ [TrackingNext]_trackingVars => TrackingInv'
  <2>1. TrackingInv /\ UNCHANGED trackingVars => TrackingInv'
    BY DEF trackingVars, TrackingInv, OutputInv, SureFirst, OutputIsTracked, OthersAreOlder,
           NothingMissed, TracksAreSound, OneTrackEach, TracksAreContinuous,
           LowScoresOnlyRecover, Claimed, Candidates, IoU
  <2> QED
    BY <2>1, AssociateKeeps, FrameKeeps DEF TrackingNext
<1> QED
  BY <1>1, <1>2, PTL DEF TrackingSpec

\* A track is one player (_associate, tracker.py): in a frame no two
\* detections share one, a lost one is only picked up where it overlaps and
\* in time, and low scores take nothing from high ones; for any number of
\* players, any sizes of boxes and any thresholds.
THEOREM TracksArePlayers == TrackingSpec => []TracksAreSound
<1>1. TrackingInv => TracksAreSound
  BY DEF TrackingInv, OutputInv
<1> QED
  BY <1>1, TrackingInvariant, PTL

-----------------------------------------------------------------------------
(* PlayFile: the order of the moments plays begin at.                      *)

Before(S, t) == Cardinality({u \in S : u < t})

LEMMA BeforeIsARank ==
  ASSUME NEW S \in SUBSET Nat, IsFiniteSet(S)
  PROVE  /\ \A t \in S : Before(S, t) \in 0 .. Cardinality(S) - 1
         /\ \A t, v \in S : t < v => Before(S, t) < Before(S, v)
<1> DEFINE Under(t) == {u \in S : u < t}
<1>1. /\ Cardinality(S) \in Nat
      /\ \A t \in S : IsFiniteSet(Under(t)) /\ Cardinality(Under(t)) \in Nat
  <2>1. \A T \in SUBSET S : IsFiniteSet(T) /\ Cardinality(T) \in Nat
    BY FS_Subset, FS_CardinalityType
  <2> QED
    BY <2>1
<1>2. ASSUME NEW t \in S PROVE Cardinality(Under(t)) \in 0 .. Cardinality(S) - 1
  <2>1. IsFiniteSet(S \ {t}) /\ Cardinality(S \ {t}) = Cardinality(S) - 1
    BY FS_RemoveElement
  <2>2. Under(t) \in SUBSET (S \ {t})
    OBVIOUS
  <2>3. Cardinality(Under(t)) <= Cardinality(S \ {t})
    BY <2>1, <2>2, FS_Subset
  <2> HIDE DEF Under
  <2> QED
    BY <1>1, <2>1, <2>3
<1>3. ASSUME NEW t \in S, NEW v \in S, t < v
      PROVE  Cardinality(Under(t)) < Cardinality(Under(v))
  <2>1. /\ IsFiniteSet(Under(v) \ {t})
        /\ Cardinality(Under(v) \ {t}) = Cardinality(Under(v)) - 1
    <3>1. t \in Under(v)
      BY <1>3
    <3> HIDE DEF Under
    <3> QED
      BY <1>1, <3>1, FS_RemoveElement
  <2>2. Under(t) \in SUBSET (Under(v) \ {t})
    <3>1. \A u \in S : u < t => u < v /\ u # t
      BY <1>3
    <3> QED
      BY <3>1
  <2>3. Cardinality(Under(t)) <= Cardinality(Under(v) \ {t})
    BY <2>1, <2>2, FS_Subset
  <2> HIDE DEF Under
  <2> QED
    BY <1>1, <2>1, <2>3
<1> QED
  BY <1>2, <1>3 DEF Before

\* Every rank is some moment's: there are as many of the one as of the other.
LEMMA RanksAreTaken ==
  ASSUME NEW S \in SUBSET Nat, IsFiniteSet(S), NEW i \in 1 .. Cardinality(S)
  PROVE  \E t \in S : Before(S, t) = i - 1
<1> DEFINE n == Cardinality(S)
           f == [t \in S |-> Before(S, t)]
           taken == {f[t] : t \in S}
<1>1. n \in Nat
  BY FS_CardinalityType
<1>2. \A t \in S : f[t] \in 0 .. n - 1
  BY BeforeIsARank
<1>3. \A t, v \in S : f[t] = f[v] => t = v
  <2> SUFFICES ASSUME NEW t \in S, NEW v \in S, f[t] = f[v] PROVE t = v
    OBVIOUS
  <2>1. f[t] \in Nat /\ f[v] \in Nat /\ t \in Nat /\ v \in Nat
    BY <1>1, <1>2
  <2>2. t < v => f[t] < f[v]
    BY BeforeIsARank
  <2>3. v < t => f[v] < f[t]
    BY BeforeIsARank
  <2> HIDE DEF f
  <2> QED
    BY <2>1, <2>2, <2>3
<1>4. f \in [S -> taken] /\ \A k \in taken : \E t \in S : f[t] = k
  OBVIOUS
<1>5. f \in Bijection(S, taken)
  BY <1>3, <1>4, Zenon DEF Bijection, Injection, Surjection, IsInjective
<1>6. Cardinality(taken) = n
  BY <1>5, FS_Bijection DEF ExistsBijection
<1>7. IsFiniteSet(0 .. n - 1) /\ Cardinality(0 .. n - 1) = n
  <2>1. n - 1 \in Int /\ 0 \in Int /\ (~(0 > n - 1) \/ n = 0)
    BY <1>1
  <2> HIDE DEF n
  <2> QED
    BY <1>1, <2>1, FS_Interval
<1>8. taken \in SUBSET (0 .. n - 1)
  BY <1>2
<1>9. taken = 0 .. n - 1
  <2> HIDE DEF taken, n
  <2> QED
    BY <1>6, <1>7, <1>8, FS_Subset
<1>10. i - 1 \in taken
  BY <1>1, <1>9
<1> QED
  BY <1>10

\* The i-th of a set, for every i there is one of, in order.
LEMMA NthIs ==
  ASSUME NEW S \in SUBSET Nat, IsFiniteSet(S)
  PROVE  /\ Cardinality(S) \in Nat
         /\ \A i \in 1 .. Cardinality(S) : Nth(S, i) \in S /\ Before(S, Nth(S, i)) = i - 1
         /\ \A t \in S : \E i \in 1 .. Cardinality(S) : Nth(S, i) = t
         /\ \A i \in 1 .. Cardinality(S) - 1 :
              /\ Nth(S, i) < Nth(S, i + 1)
              /\ \A t \in S : t <= Nth(S, i) \/ Nth(S, i + 1) <= t
<1>1. Cardinality(S) \in Nat
  BY FS_CardinalityType
<1>2. ASSUME NEW i \in 1 .. Cardinality(S)
      PROVE  Nth(S, i) \in S /\ Before(S, Nth(S, i)) = i - 1
  BY <1>2, RanksAreTaken DEF Nth, Before
<1>3. ASSUME NEW t \in S, NEW v \in S, Before(S, t) <= Before(S, v) PROVE t <= v
  <2>1. Before(S, t) \in Nat /\ Before(S, v) \in Nat /\ t \in Nat /\ v \in Nat
    BY <1>1, BeforeIsARank
  <2>2. v < t => Before(S, v) < Before(S, t)
    BY BeforeIsARank
  <2> QED
    BY <1>3, <2>1, <2>2
<1>4. ASSUME NEW t \in S PROVE \E i \in 1 .. Cardinality(S) : Nth(S, i) = t
  <2> DEFINE i == Before(S, t) + 1
  <2>1. i \in 1 .. Cardinality(S) /\ Before(S, t) = i - 1 /\ Before(S, t) \in Nat
    BY <1>1, BeforeIsARank
  <2>2. Nth(S, i) \in S /\ Before(S, Nth(S, i)) = Before(S, t)
    BY <1>2, <2>1
  <2>3. Nth(S, i) <= t /\ t <= Nth(S, i)
    <3>1. Before(S, Nth(S, i)) <= Before(S, t) /\ Before(S, t) <= Before(S, Nth(S, i))
      BY <2>1, <2>2
    <3> HIDE DEF i
    <3> QED
      BY <1>3, <2>2, <3>1
  <2>4. Nth(S, i) \in Nat /\ t \in Nat
    BY <2>2
  <2> HIDE DEF i
  <2> QED
    BY <2>1, <2>3, <2>4
<1>5. ASSUME NEW i \in 1 .. Cardinality(S) - 1
      PROVE  /\ Nth(S, i) < Nth(S, i + 1)
             /\ \A t \in S : t <= Nth(S, i) \/ Nth(S, i + 1) <= t
  <2>1. /\ i \in 1 .. Cardinality(S) /\ i + 1 \in 1 .. Cardinality(S)
    BY <1>1
  <2>2. /\ Nth(S, i) \in S /\ Before(S, Nth(S, i)) = i - 1
        /\ Nth(S, i + 1) \in S /\ Before(S, Nth(S, i + 1)) = i
    BY <1>2, <2>1
  <2> DEFINE t == Nth(S, i)
             v == Nth(S, i + 1)
  <2>3. t \in S /\ v \in S /\ Before(S, t) = i - 1 /\ Before(S, v) = i
    BY <2>2
  <2> HIDE DEF t, v
  <2>4. t < v
    <3>1. i - 1 <= i /\ i - 1 # i
      BY <2>1
    <3>2. t <= v /\ t # v
      BY <1>3, <2>3, <3>1
    <3> QED
      BY <2>3, <3>2
  <2>5. ASSUME NEW u \in S PROVE u <= t \/ v <= u
    <3>1. Before(S, u) \in Nat
      BY <1>1, BeforeIsARank
    <3>2. Before(S, u) <= Before(S, t) \/ Before(S, v) <= Before(S, u)
      BY <2>1, <2>3, <3>1
    <3> QED
      BY <1>3, <2>3, <3>2
  <2> QED
    BY <2>4, <2>5 DEF t, v
<1> QED
  BY <1>1, <1>2, <1>4, <1>5

-----------------------------------------------------------------------------
(* PlayFile: what is estimated.                                            *)

Moments == 0 .. Horizon

\* The tracked seconds not after another play has begun.
NoLater(S, first) == {t \in S : ~\E b \in Begins(S) : first < b /\ b <= t}

LEMMA BeginsAreStamps ==
  ASSUME NEW S \in SUBSET Moments
  PROVE  /\ Horizon \in Nat /\ S \in SUBSET Nat /\ \A t \in S : t <= Horizon
         /\ Begins(S) \in SUBSET S /\ Begins(S) \in SUBSET Nat /\ IsFiniteSet(Begins(S))
<1>1. Horizon \in Nat /\ S \in SUBSET Nat /\ \A t \in S : t <= Horizon
  BY PlayAssumption DEF Moments
<1>2. Begins(S) \in SUBSET S /\ Begins(S) \in SUBSET Nat /\ \A t \in Begins(S) : t <= Horizon
  BY <1>1 DEF Begins
<1> QED
  BY <1>1, <1>2, FS_BoundedSetOfNaturals

LEMMA SecondBefore ==
  ASSUME NEW n \in Nat
  PROVE  Max({0, n - 1}) = IF n = 0 THEN 0 ELSE n - 1
<1> DEFINE m == IF n = 0 THEN 0 ELSE n - 1
<1>1. m \in {0, n - 1} /\ \A x \in {0, n - 1} : m >= x /\ x \in Int
  OBVIOUS
<1>2. \A x \in {0, n - 1} : (\A y \in {0, n - 1} : x >= y) => x = m
  OBVIOUS
<1> QED
  BY <1>1, <1>2 DEF Max

LEMMA PlayIs ==
  ASSUME NEW S \in SUBSET Moments, NEW first \in Begins(S),
         NEW play, play = PlayFrom(S, first)
  PROVE  /\ play.history = <<>> /\ ~play.now.excluded /\ play.now \in Times
         /\ play.now.snap = first
         /\ play.now.start = IF first = 0 THEN 0 ELSE first - 1
         /\ \E last \in NoLater(S, first) :
              /\ play.now.end = last + 1 /\ first <= last
              /\ \A t \in NoLater(S, first) : t <= last
<1> DEFINE last == Max(NoLater(S, first))
<1>1. first \in S /\ first \in Nat /\ first <= Horizon /\ Horizon \in Nat
  BY BeginsAreStamps
<1>2. NoLater(S, first) \in SUBSET Nat /\ \A t \in NoLater(S, first) : t <= Horizon
  BY BeginsAreStamps DEF NoLater
<1>3. first \in NoLater(S, first)
  BY <1>1, BeginsAreStamps DEF NoLater
<1>4. last \in NoLater(S, first) /\ \A t \in NoLater(S, first) : t <= last
  BY <1>1, <1>2, <1>3, MaxIsGreatest
<1>5. last \in Nat /\ last <= Horizon /\ first <= last
  BY <1>2, <1>3, <1>4
<1> HIDE DEF last
<1>6. play = [now |-> [start |-> IF first = 0 THEN 0 ELSE first - 1, snap |-> first,
                       end |-> last + 1, excluded |-> FALSE],
              history |-> <<>>]
  BY <1>1, SecondBefore DEF PlayFrom, NoLater, last
<1>7. /\ (IF first = 0 THEN 0 ELSE first - 1) \in Moment /\ first \in Moment
      /\ last + 1 \in Moment
  BY <1>1, <1>5 DEF Moment
<1>8. play.now \in Times
  BY <1>6, <1>7 DEF Times
<1> QED
  BY <1>4, <1>5, <1>6, <1>8

\* Each tracked second comes after some play has begun.
LEMMA SomePlayBegan ==
  ASSUME NEW S \in SUBSET Moments, NEW t \in S
  PROVE  \E b \in Begins(S) : b <= t /\ t \in NoLater(S, b)
<1> DEFINE begun == {b \in Begins(S) : b <= t}
<1>1. t \in Nat /\ S \in SUBSET Nat /\ Begins(S) \in SUBSET Nat
  BY BeginsAreStamps
<1>2. PICK first \in S : \A u \in S : first <= u
  BY <1>1, MinIsLeast
<1>3. first \in Begins(S)
  <2>1. \A u \in S : ~(u < first)
    BY <1>1, <1>2
  <2> QED
    BY <2>1, Zenon DEF Begins
<1>4. begun \in SUBSET Nat /\ first \in begun /\ \A b \in begun : b <= t
  BY <1>1, <1>2, <1>3
<1>5. Max(begun) \in begun /\ \A b \in begun : b <= Max(begun)
  <2> HIDE DEF begun
  <2> QED
    BY <1>1, <1>4, MaxIsGreatest
<1>6. PICK m \in begun : \A b \in begun : b <= m
  BY <1>5
<1>7. ~\E b \in Begins(S) : m < b /\ b <= t
  BY <1>1, <1>6
<1> QED
  BY <1>6, <1>7 DEF NoLater

LEMMA SegmentIs ==
  ASSUME NEW S \in SUBSET Moments
  PROVE  /\ Segment(S) \in Seq(Play) /\ Len(Segment(S)) = Cardinality(Begins(S))
         /\ \A i \in DOMAIN Segment(S) :
              /\ Nth(Begins(S), i) \in Begins(S)
              /\ Segment(S)[i] = PlayFrom(S, Nth(Begins(S), i))
              /\ Segment(S)[i].history = <<>>
<1> DEFINE n == Cardinality(Begins(S))
<1>1. n \in Nat /\ \A i \in 1 .. n : Nth(Begins(S), i) \in Begins(S)
  BY BeginsAreStamps, NthIs
<1>2. Segment(S) = [i \in 1 .. n |-> PlayFrom(S, Nth(Begins(S), i))]
  BY DEF Segment
<1>3. \A b \in Begins(S) : PlayFrom(S, b) \in Play /\ PlayFrom(S, b).history = <<>>
  <2> SUFFICES ASSUME NEW b \in Begins(S)
               PROVE  PlayFrom(S, b) \in Play /\ PlayFrom(S, b).history = <<>>
    OBVIOUS
  <2>1. PlayFrom(S, b).now \in Times /\ PlayFrom(S, b).history = <<>>
    BY PlayIs
  <2>2. PlayFrom(S, b) = [now |-> PlayFrom(S, b).now, history |-> PlayFrom(S, b).history]
    BY DEF PlayFrom
  <2>3. PlayFrom(S, b).history \in Seq(Audit)
    BY <2>1, EmptySeq
  <2> QED
    BY <2>1, <2>2, <2>3 DEF Play
<1> HIDE DEF n
<1>4. Segment(S) \in [1 .. n -> Play]
  BY <1>1, <1>2, <1>3
<1>5. Segment(S) \in Seq(Play) /\ Len(Segment(S)) = n /\ DOMAIN Segment(S) = 1 .. n
  BY <1>1, <1>4, FunctionIsSequence, LenProperties
<1> QED
  BY <1>1, <1>2, <1>3, <1>5 DEF n

LEMMA EstimateCovers ==
  ASSUME stamps \in SUBSET Moments
  PROVE  UNION {Covered(Segment(stamps)[i]) : i \in DOMAIN Segment(stamps)} = stamps
<1> DEFINE est == Segment(stamps)
           B == Begins(stamps)
<1>1. DOMAIN est = 1 .. Cardinality(B)
  BY SegmentIs, LenProperties
<1>2. ASSUME NEW t \in stamps PROVE \E i \in DOMAIN est : t \in Covered(est[i])
  <2>1. PICK b \in B : b <= t /\ t \in NoLater(stamps, b)
    BY SomePlayBegan
  <2>2. PICK i \in 1 .. Cardinality(B) : Nth(B, i) = b
    BY BeginsAreStamps, NthIs
  <2>3. est[i] = PlayFrom(stamps, b) /\ i \in DOMAIN est
    BY <1>1, <2>2, SegmentIs
  <2>4. /\ ~est[i].now.excluded /\ est[i].now.start = IF b = 0 THEN 0 ELSE b - 1
        /\ \E last \in NoLater(stamps, b) :
             est[i].now.end = last + 1 /\ \A u \in NoLater(stamps, b) : u <= last
    <3> HIDE DEF est
    <3> QED
      BY <2>3, PlayIs
  <2>5. t \in Nat /\ b \in Nat /\ NoLater(stamps, b) \subseteq Nat
    BY BeginsAreStamps DEF NoLater
  <2>6. est[i].now.start <= t /\ t <= est[i].now.end
    <3> HIDE DEF est
    <3> QED
      BY <2>1, <2>4, <2>5
  <2> QED
    BY <2>3, <2>4, <2>6 DEF Covered
<1>3. \A i \in DOMAIN est : Covered(est[i]) \subseteq stamps
  BY DEF Covered
<1> HIDE DEF est
<1>4. UNION {Covered(est[i]) : i \in DOMAIN est} = stamps
  BY <1>2, <1>3
<1> QED
  BY <1>4 DEF est

LEMMA EstimateIsApart ==
  ASSUME stamps \in SUBSET Moments, NEW i \in 1 .. Len(Segment(stamps)) - 1
  PROVE  Segment(stamps)[i].now.end < Segment(stamps)[i + 1].now.start
<1> DEFINE B == Begins(stamps)
           b == Nth(B, i)
           c == Nth(B, i + 1)
<1>1. /\ Len(Segment(stamps)) = Cardinality(B) /\ Cardinality(B) \in Nat
      /\ DOMAIN Segment(stamps) = 1 .. Cardinality(B)
  BY SegmentIs, LenProperties, BeginsAreStamps, NthIs
<1>2. i \in DOMAIN Segment(stamps) /\ i + 1 \in DOMAIN Segment(stamps)
  BY <1>1
<1>3. /\ b \in B /\ Segment(stamps)[i] = PlayFrom(stamps, b)
      /\ c \in B /\ Segment(stamps)[i + 1] = PlayFrom(stamps, c)
  BY <1>2, SegmentIs
<1>4. b < c
  BY <1>1, BeginsAreStamps, NthIs
<1> HIDE DEF b, c
<1>5. PICK last \in NoLater(stamps, b) : Segment(stamps)[i].now.end = last + 1
  BY <1>3, PlayIs
<1>6. Segment(stamps)[i + 1].now.start = IF c = 0 THEN 0 ELSE c - 1
  BY <1>3, PlayIs
<1>7. b \in Nat /\ c \in Nat /\ last \in Nat /\ last \in stamps
  BY <1>3, BeginsAreStamps DEF NoLater
<1>8. last < c
  BY <1>3, <1>4, <1>7 DEF NoLater
<1>9. c - last > Gap
  BY <1>3, <1>7, <1>8 DEF Begins
<1> QED
  BY <1>5, <1>6, <1>7, <1>9, PlayAssumption

LEMMA EstimateIsOrdered ==
  ASSUME stamps \in SUBSET Moments, NEW i \in DOMAIN Segment(stamps)
  PROVE  Segment(stamps)[i].now.start >= 0 /\ Ordered(Segment(stamps)[i].now)
<1>1. PICK b \in Begins(stamps) : Segment(stamps)[i] = PlayFrom(stamps, b)
  BY SegmentIs
<1>2. b \in Nat /\ NoLater(stamps, b) \subseteq Nat
  BY BeginsAreStamps DEF NoLater
<1> DEFINE now == Segment(stamps)[i].now
<1>3. /\ now.snap = b /\ now.start = IF b = 0 THEN 0 ELSE b - 1
      /\ \E last \in NoLater(stamps, b) : now.end = last + 1 /\ b <= last
  BY <1>1, PlayIs
<1> HIDE DEF now
<1>4. now.start >= 0 /\ Ordered(now)
  BY <1>2, <1>3 DEF Ordered
<1> QED
  BY <1>4 DEF now

-----------------------------------------------------------------------------
(* PlayFile: the invariant.                                                *)

\* Estimated plays, each with the corrections made to it, of the first n.
Unbroken(file, estimate, n) ==
  /\ file \in Seq(Play)
  /\ \A i \in DOMAIN file :
       LET h == file[i].history IN
       /\ \A k \in DOMAIN h : h[k].by <= n
       /\ h = <<>> => file[i].now = estimate[i].now
       /\ h # <<>> => /\ h[1].original = estimate[i].now
                     /\ h[Len(h)].new = file[i].now
       /\ \A k \in 1 .. Len(h) - 1 : h[k].new = h[k + 1].original /\ h[k].by < h[k + 1].by

\* A file with every correction another one has.
HasCorrectionsOf(file, other) ==
  \A i \in DOMAIN other : i \in DOMAIN file /\ IsPrefix(other[i].history, file[i].history)

PlayInv ==
  /\ stamps \in SUBSET Moments
  /\ analyses \in 0 .. MaxRuns /\ rewriting \in BOOLEAN /\ corrections \in 0 .. MaxCorrections
  /\ plays # Cut => /\ Unbroken(plays, Segment(stamps), corrections)
                    /\ Len(plays) \in {0, Len(Segment(stamps))}
  /\ pending # Idle => /\ Unbroken(pending, Segment(stamps), corrections)
                       /\ Len(pending) = Len(Segment(stamps))
  /\ pending # Idle /\ plays # Cut => HasCorrectionsOf(pending, plays)

-----------------------------------------------------------------------------
(* PlayFile: prefixes, and a correction of a file.                         *)

LEMMA PrefixOfItself ==
  ASSUME NEW S, NEW s \in Seq(S)
  PROVE  IsPrefix(s, s)
  BY LenProperties DEF IsPrefix

LEMMA NothingIsPrefix ==
  ASSUME NEW S, NEW s \in Seq(S)
  PROVE  IsPrefix(<<>>, s)
<1>1. Len(s) \in Nat /\ Len(<<>>) = 0
  BY LenProperties, EmptySeq
<1>2. SubSeq(<<>>, 1, 0) = <<>> /\ SubSeq(s, 1, 0) = <<>>
  BY SubSeqEmpty
<1> QED
  BY <1>1, <1>2 DEF IsPrefix

LEMMA PrefixOfMore ==
  ASSUME NEW S, NEW s \in Seq(S), NEW e \in S
  PROVE  IsPrefix(s, Append(s, e))
<1> DEFINE t == Append(s, e)
           n == Len(s)
<1>1. /\ t \in Seq(S) /\ Len(t) = n + 1 /\ n \in Nat
      /\ \A i \in 1 .. n : t[i] = s[i] /\ s[i] \in S
  BY AppendProperties, LenProperties, ElementOfSeq
<1> HIDE DEF t, n
<1>2. \A i \in 1 .. n : t[i] \in S /\ s[i] \in S
  BY <1>1
<1>3. /\ SubSeq(s, 1, n) \in Seq(S) /\ SubSeq(t, 1, n) \in Seq(S)
      /\ Len(SubSeq(s, 1, n)) = n /\ Len(SubSeq(t, 1, n)) = n
  BY <1>1, <1>2, SubSeqProperties
<1>4. \A i \in 1 .. n : SubSeq(s, 1, n)[i] = s[i] /\ SubSeq(t, 1, n)[i] = t[i]
  BY <1>1, <1>2, SubSeqProperties
<1>5. SubSeq(s, 1, n) = SubSeq(t, 1, n)
  BY <1>1, <1>3, <1>4, SeqEqual
<1> QED
  BY <1>1, <1>5 DEF IsPrefix, n, t

LEMMA HistoriesAreSequences ==
  ASSUME NEW file \in Seq(Play), NEW i \in DOMAIN file
  PROVE  file[i].history \in Seq(Audit)
<1>1. file[i] \in Play
  BY LenProperties, ElementOfSeq
<1> QED
  BY <1>1 DEF Play

\* A later correction breaks none.
LEMMA UnbrokenStays ==
  ASSUME NEW file, NEW estimate, NEW n \in Nat, Unbroken(file, estimate, n)
  PROVE  Unbroken(file, estimate, n + 1)
<1>1. ASSUME NEW i \in DOMAIN file, NEW k \in DOMAIN file[i].history
      PROVE  file[i].history[k].by <= n + 1
  <2>1. file[i] \in Play
    BY LenProperties, ElementOfSeq DEF Unbroken
  <2>2. file[i].history[k] \in Audit
    BY <2>1, LenProperties, ElementOfSeq DEF Play
  <2>3. file[i].history[k].by \in Nat
    BY <2>2, PlayAssumption DEF Audit
  <2> QED
    BY <2>3 DEF Unbroken
<1> QED
  BY <1>1 DEF Unbroken

LEMMA ReplacedInSequence ==
  ASSUME NEW S, NEW s \in Seq(S), NEW i \in DOMAIN s, NEW e \in S,
         NEW r, r = [s EXCEPT ![i] = e]
  PROVE  /\ r \in Seq(S) /\ Len(r) = Len(s) /\ DOMAIN r = DOMAIN s
         /\ r[i] = e /\ \A j \in DOMAIN s \ {i} : r[j] = s[j]
<1>1. Len(s) \in Nat /\ s \in [1 .. Len(s) -> S]
  BY LenProperties
<1>2. /\ r \in [1 .. Len(s) -> S] /\ DOMAIN r = DOMAIN s
      /\ r[i] = e /\ \A j \in DOMAIN s \ {i} : r[j] = s[j]
  BY <1>1
<1> QED
  BY <1>1, <1>2, FunctionIsSequence

\* The audit entry of a correction, the next after the n-th, and the file
\* with it.
Entry(file, i, times, n) == [original |-> file[i].now, new |-> times, by |-> n + 1]

Corrected(file, i, times, n) ==
  [file EXCEPT ![i] =
    [now |-> times, history |-> Append(file[i].history, Entry(file, i, times, n))]]

LEMMA CorrectedIsUnbroken ==
  ASSUME NEW file, NEW estimate, NEW n \in 0 .. MaxCorrections, n < MaxCorrections,
         Unbroken(file, estimate, n), NEW i \in DOMAIN file, NEW times \in Times
  PROVE  /\ Unbroken(Corrected(file, i, times, n), estimate, n + 1)
         /\ Len(Corrected(file, i, times, n)) = Len(file)
         /\ HasCorrectionsOf(Corrected(file, i, times, n), file)
<1> DEFINE new == Corrected(file, i, times, n)
           entry == Entry(file, i, times, n)
<1> DEFINE h == file[i].history
           more == Append(h, entry)
           last == Len(h) + 1
<1>1. n \in Nat /\ n + 1 \in 1 .. MaxCorrections
  BY PlayAssumption
<1>2. file \in Seq(Play) /\ DOMAIN file = 1 .. Len(file) /\ \A j \in DOMAIN file : file[j] \in Play
  BY LenProperties, ElementOfSeq DEF Unbroken
<1>3. file[i].now \in Times /\ h \in Seq(Audit)
  BY <1>2 DEF Play
<1>4. entry \in Audit
  BY <1>1, <1>3 DEF Audit, Entry
<1> HIDE DEF h
<1>5. /\ more \in Seq(Audit) /\ Len(more) = last /\ Len(h) \in Nat /\ DOMAIN h = 1 .. Len(h)
      /\ DOMAIN more = 1 .. last /\ more # <<>>
      /\ \A k \in 1 .. Len(h) : more[k] = h[k]
      /\ more[last] = entry
  BY <1>3, <1>4, AppendProperties, LenProperties
<1> DEFINE play == [now |-> times, history |-> more]
<1>6. play \in Play /\ play.now = times /\ play.history = more
  BY <1>5 DEF Play
<1>e. new = [file EXCEPT ![i] = play]
  BY DEF h, Corrected
<1>10. entry.by = n + 1 /\ entry.original = file[i].now /\ entry.new = times
  BY DEF Entry
<1> HIDE DEF more, last, play, new, entry
<1>7. /\ new \in Seq(Play) /\ Len(new) = Len(file) /\ DOMAIN new = DOMAIN file
      /\ new[i].now = times /\ new[i].history = more
      /\ \A j \in DOMAIN file \ {i} : new[j] = file[j]
  <2>1. \A r : r = [file EXCEPT ![i] = play] =>
          /\ r \in Seq(Play) /\ Len(r) = Len(file) /\ DOMAIN r = DOMAIN file
          /\ r[i] = play /\ \A j \in DOMAIN file \ {i} : r[j] = file[j]
    BY <1>2, <1>6, ReplacedInSequence
  <2> QED
    BY <1>6, <1>e, <2>1
<1>8. /\ \A k \in DOMAIN h : h[k].by <= n
      /\ h = <<>> => file[i].now = estimate[i].now
      /\ h # <<>> => /\ h[1].original = estimate[i].now
                    /\ h[Len(h)].new = file[i].now
      /\ \A k \in 1 .. Len(h) - 1 : h[k].new = h[k + 1].original /\ h[k].by < h[k + 1].by
  BY DEF Unbroken, h
<1>9. \A k \in DOMAIN h : h[k].by \in Nat
  <2>1. \A k \in DOMAIN h : h[k] \in Audit
    BY <1>3, <1>5, ElementOfSeq
  <2> QED
    BY <2>1, PlayAssumption DEF Audit
<1>11. \A k \in DOMAIN more : more[k].by <= n + 1
  <2> SUFFICES ASSUME NEW k \in DOMAIN more PROVE more[k].by <= n + 1
    OBVIOUS
  <2>1. CASE k = last
    BY <1>1, <1>5, <1>10, <2>1
  <2>2. CASE k \in 1 .. Len(h)
    <3>1. more[k] = h[k] /\ h[k].by \in Nat /\ h[k].by <= n
      BY <1>5, <1>8, <1>9, <2>2
    <3> QED
      BY <1>1, <3>1
  <2>3. k \in 1 .. Len(h) \/ k = last
    BY <1>5 DEF last
  <2> QED
    BY <2>1, <2>2, <2>3
<1>12. more[1].original = estimate[i].now
  <2>1. CASE h = <<>>
    <3>1. last = 1
      BY <2>1, EmptySeq DEF last
    <3> QED
      BY <1>5, <1>8, <1>10, <2>1, <3>1
  <2>2. CASE h # <<>>
    <3>1. 1 \in 1 .. Len(h)
      BY <1>3, <1>5, <2>2, EmptySeq
    <3> QED
      BY <1>5, <1>8, <2>2, <3>1
  <2> QED
    BY <2>1, <2>2
<1>13. more[Len(more)].new = times
  BY <1>5, <1>10
<1>14. ASSUME NEW k \in 1 .. Len(more) - 1
       PROVE  more[k].new = more[k + 1].original /\ more[k].by < more[k + 1].by
  <2>1. Len(more) - 1 = Len(h)
    BY <1>5 DEF last
  <2>2. k \in 1 .. Len(h) /\ more[k] = h[k] /\ k \in DOMAIN h
    BY <1>5, <2>1
  <2>3. CASE k = Len(h)
    <3>1. h # <<>> /\ more[k + 1] = entry
      BY <1>3, <1>5, <2>2, <2>3, EmptySeq DEF last
    <3>2. h[k].new = entry.original
      BY <1>8, <1>10, <2>3, <3>1
    <3>3. h[k].by <= n /\ h[k].by \in Nat
      BY <1>8, <1>9, <2>2
    <3>4. h[k].by < entry.by
      BY <1>1, <1>10, <3>3
    <3> QED
      BY <2>2, <3>1, <3>2, <3>4
  <2>4. CASE k # Len(h)
    <3>1. k \in 1 .. Len(h) - 1 /\ k + 1 \in 1 .. Len(h)
      BY <1>5, <2>2, <2>4
    <3>2. more[k + 1] = h[k + 1]
      BY <1>5, <3>1
    <3> QED
      BY <1>8, <2>2, <3>1, <3>2
  <2> QED
    BY <2>3, <2>4
<1>15. Unbroken(new, estimate, n + 1)
  <2>1. Unbroken(file, estimate, n + 1)
    BY <1>1, UnbrokenStays
  <2> SUFFICES ASSUME NEW j \in DOMAIN new
               PROVE  LET g == new[j].history IN
                      /\ \A k \in DOMAIN g : g[k].by <= n + 1
                      /\ g = <<>> => new[j].now = estimate[j].now
                      /\ g # <<>> => /\ g[1].original = estimate[j].now
                                    /\ g[Len(g)].new = new[j].now
                      /\ \A k \in 1 .. Len(g) - 1 : g[k].new = g[k + 1].original /\ g[k].by < g[k + 1].by
    BY <1>7 DEF Unbroken
  <2>2. CASE j = i
    <3>1. new[j].history = more /\ new[j].now = times
      BY <1>7, <2>2
    <3>2. more[1].original = estimate[j].now
      BY <1>12, <2>2
    <3> QED
      BY <1>5, <1>11, <1>13, <1>14, <3>1, <3>2
  <2>3. CASE j # i
    <3>1. new[j] = file[j] /\ j \in DOMAIN file
      BY <1>7, <2>3
    <3> QED
      BY <2>1, <3>1 DEF Unbroken
  <2> QED
    BY <2>2, <2>3
<1>16. IsPrefix(h, more)
  BY <1>3, <1>4, PrefixOfMore DEF more, entry
<1>17. \A j \in DOMAIN file : IsPrefix(file[j].history, new[j].history)
  <2> SUFFICES ASSUME NEW j \in DOMAIN file PROVE IsPrefix(file[j].history, new[j].history)
    OBVIOUS
  <2>1. CASE j = i
    BY <1>7, <1>16, <2>1 DEF h
  <2>2. CASE j # i
    <3>1. file[j].history \in Seq(Audit)
      BY <1>2 DEF Play
    <3> QED
      BY <1>7, <2>2, <3>1, PrefixOfItself
  <2> QED
    BY <2>1, <2>2
<1> QED
  BY <1>7, <1>15, <1>17 DEF HasCorrectionsOf, new

-----------------------------------------------------------------------------
(* PlayFile: all steps.                                                    *)

LEMMA EstimateIsUnbroken ==
  ASSUME NEW S \in SUBSET Moments, NEW n
  PROVE  Unbroken(Segment(S), Segment(S), n)
<1>1. Segment(S) \in Seq(Play) /\ \A i \in DOMAIN Segment(S) : Segment(S)[i].history = <<>>
  BY SegmentIs
<1>2. DOMAIN <<>> = {} /\ 1 .. Len(<<>>) - 1 = {}
  OBVIOUS
<1> QED
  BY <1>1, <1>2 DEF Unbroken

\* A new estimate has no correction that another file could lack.
LEMMA CorrectionsOfEstimate ==
  ASSUME NEW S \in SUBSET Moments, NEW file, NEW n, Unbroken(file, Segment(S), n),
         Len(file) = Len(Segment(S))
  PROVE  HasCorrectionsOf(file, Segment(S))
<1>1. /\ Segment(S) \in Seq(Play) /\ file \in Seq(Play)
      /\ \A i \in DOMAIN Segment(S) : Segment(S)[i].history = <<>>
  BY SegmentIs DEF Unbroken
<1>2. DOMAIN file = DOMAIN Segment(S)
  BY <1>1, LenProperties
<1>3. ASSUME NEW i \in DOMAIN file PROVE IsPrefix(<<>>, file[i].history)
  <2>1. file[i].history \in Seq(Audit)
    BY <1>1, HistoriesAreSequences
  <2> QED
    BY <2>1, NothingIsPrefix
<1> QED
  BY <1>1, <1>2, <1>3 DEF HasCorrectionsOf

LEMMA CorrectionKeeps ==
  ASSUME PlayInv, plays # Cut, NEW i \in DOMAIN plays, NEW times \in Asked, CorrectPlay(i, times)
  PROVE  PlayInv'
<1> DEFINE est == Segment(stamps)
<1>1. /\ pending = Idle /\ corrections \in 0 .. MaxCorrections /\ corrections < MaxCorrections
      /\ corrections' = corrections + 1 /\ UNCHANGED <<stamps, plays, analyses, rewriting>>
      /\ times \in Times
  BY AskedAssumption DEF PlayInv, CorrectPlay, CorrectWith
<1>2. Unbroken(plays, est, corrections) /\ Len(plays) \in {0, Len(est)}
  BY DEF PlayInv
<1>3. Len(plays) = Len(est)
  <2>1. Len(plays) \in Nat /\ DOMAIN plays = 1 .. Len(plays)
    BY <1>2, LenProperties DEF Unbroken
  <2> QED
    BY <1>2, <2>1
<1>4. pending' = Corrected(plays, i, times, corrections)
  BY <1>1 DEF CorrectPlay, CorrectWith, Corrected, Entry
<1>5. /\ Unbroken(pending', est, corrections + 1)
      /\ Len(pending') = Len(plays) /\ HasCorrectionsOf(pending', plays)
  <2> HIDE DEF est
  <2> QED
    BY <1>1, <1>2, <1>4, CorrectedIsUnbroken
<1>6. corrections \in Nat /\ corrections + 1 \in 0 .. MaxCorrections
  BY <1>1, PlayAssumption
<1>7. Unbroken(plays, est, corrections + 1)
  BY <1>2, <1>6, UnbrokenStays
<1>8. Segment(stamps)' = est
  BY <1>1
<1> HIDE DEF est
<1> QED
  BY <1>1, <1>2, <1>3, <1>5, <1>6, <1>7, <1>8 DEF PlayInv, est

LEMMA PlayStepKeeps ==
  ASSUME PlayInv, [PlayNext]_playVars
  PROVE  PlayInv'
<1> DEFINE est == Segment(stamps)
<1>1. CASE TruncatePlays
  <2>1. /\ analyses' \in 0 .. MaxRuns
        /\ plays' = Cut /\ rewriting' = TRUE /\ UNCHANGED <<stamps, pending, corrections>>
    BY <1>1, PlayAssumption DEF TruncatePlays, PlayInv
  <2> QED
    BY <2>1 DEF PlayInv
<1>2. CASE FillPlays
  <2>1. /\ plays' \in {est, Cut} /\ rewriting' = FALSE
        /\ UNCHANGED <<stamps, analyses, pending, corrections>>
    BY <1>2 DEF FillPlays
  <2>2. Unbroken(est, est, corrections) /\ stamps \in SUBSET Moments
    BY EstimateIsUnbroken DEF PlayInv
  <2>3. pending # Idle => HasCorrectionsOf(pending, est)
    BY <2>2, CorrectionsOfEstimate DEF PlayInv
  <2> QED
    BY <2>1, <2>2, <2>3 DEF PlayInv
<1>3. CASE WorkerLeaves
  BY <1>3 DEF WorkerLeaves, PlayInv
<1>4. CASE plays # Cut /\ \E i \in DOMAIN plays : \E times \in Asked : CorrectPlay(i, times)
  BY <1>4, CorrectionKeeps
<1>5. CASE WritePlays
  BY <1>5 DEF WritePlays, PlayInv
<1>6. CASE WebLeaves
  BY <1>6 DEF WebLeaves, PlayInv
<1>7. CASE UNCHANGED playVars
  BY <1>7 DEF playVars, PlayInv
<1> QED
  BY <1>1, <1>2, <1>3, <1>4, <1>5, <1>6, <1>7 DEF PlayNext

LEMMA PlayInvariant == PlaySpec => []PlayInv
<1>1. PlayInit => PlayInv
  <2> SUFFICES ASSUME PlayInit PROVE PlayInv
    OBVIOUS
  <2>1. stamps \in SUBSET Moments
    BY DEF PlayInit, Moments
  <2>2. Unbroken(<<>>, Segment(stamps), corrections) /\ Len(<<>>) = 0
    <3>1. <<>> \in Seq(Play) /\ DOMAIN <<>> = {} /\ Len(<<>>) = 0
      BY EmptySeq
    <3> QED
      BY <3>1 DEF Unbroken
  <2>3. 0 \in 0 .. MaxRuns /\ 0 \in 0 .. MaxCorrections
    BY PlayAssumption
  <2> QED
    BY <2>1, <2>2, <2>3 DEF PlayInit, PlayInv
<1> QED
  BY <1>1, PlayStepKeeps, PTL DEF PlaySpec

\* Plays are estimated of all that was tracked (PlaySegmenter.segment): no
\* second is left out or counted twice, whatever is tracked in a film of any
\* length; this needs a gap of at least the two seconds that are added.
THEOREM EstimatesPartitionFilms == PlaySpec => []EstimateIsPartition
<1>1. PlayInv => EstimateIsPartition
  BY EstimateCovers, EstimateIsApart, EstimateIsOrdered DEF PlayInv, EstimateIsPartition
<1> QED
  BY <1>1, PlayInvariant, PTL

\* The corrections of a play lead from its estimate to what it is now
\* (correct_play, correct_play_boundary), though the file was estimated anew,
\* or written back, in between.
THEOREM CorrectionsAreTraceable == PlaySpec => []HistoryIsUnbroken
<1>1. PlayInv => HistoryIsUnbroken
  BY DEF PlayInv, Unbroken, HistoryIsUnbroken
<1> QED
  BY <1>1, PlayInvariant, PTL

\* A correction is lost to an analysis that ends or with the whole file, and
\* to nothing else: whoever writes the file back has all there was in it.
THEOREM CorrectionsStay == PlaySpec => LostOnlyToAnalysis
<1>1. ASSUME PlayInv, [PlayNext]_playVars
      PROVE  plays # Cut /\ plays' # Cut /\ rewriting' = rewriting =>
               \A i \in DOMAIN plays : IsPrefix(plays[i].history, plays'[i].history)
  <2> SUFFICES ASSUME plays # Cut, plays' # Cut, rewriting' = rewriting, NEW i \in DOMAIN plays
               PROVE  IsPrefix(plays[i].history, plays'[i].history)
    OBVIOUS
  <2>1. CASE plays' = plays
    <3>1. plays[i].history \in Seq(Audit)
      BY <1>1, HistoriesAreSequences DEF PlayInv, Unbroken
    <3> QED
      BY <2>1, <3>1, PrefixOfItself
  <2>2. CASE WritePlays
    <3>1. pending # Idle /\ plays' = pending
      BY <2>2 DEF WritePlays
    <3>2. HasCorrectionsOf(pending, plays)
      BY <1>1, <3>1 DEF PlayInv
    <3> QED
      BY <3>1, <3>2 DEF HasCorrectionsOf
  <2>3. ~TruncatePlays /\ ~FillPlays /\ ~WorkerLeaves
    BY <1>1 DEF TruncatePlays, FillPlays, WorkerLeaves, PlayInv
  <2>4. plays' = plays \/ WritePlays
    BY <1>1, <2>3 DEF PlayNext, CorrectPlay, CorrectWith, WebLeaves, playVars
  <2> QED
    BY <2>1, <2>2, <2>4
<1> QED
  BY <1>1, PlayInvariant, PTL DEF PlaySpec, LostOnlyToAnalysis

-----------------------------------------------------------------------------
(* MetricSieve: what the ladders have in common.                           *)

Lift == {"bench", "squat", "gpa"}

\* Times have no lower bound and lifts and grades no upper one, and a tier
\* asks for both scores or for none.
Plain(matrix) ==
  /\ DOMAIN matrix \subseteq Metric
  /\ \A m \in DOMAIN matrix :
       /\ matrix[m][1] \in Nat /\ matrix[m][2] \in Nat
       /\ m \in Laser => matrix[m][1] = 0
       /\ m \in Lift => matrix[m][2] = Unbounded
  /\ Score \subseteq DOMAIN matrix \/ Score \cap DOMAIN matrix = {}

\* What a tier asks of the forty, and whether that is all it asks besides the
\* frame.
AsksForty(matrix, hi) == "forty" \in DOMAIN matrix /\ matrix["forty"] = UpTo(hi)
AsksLittle(matrix) == DOMAIN matrix \subseteq {"forty"} \cup Frame

LEMMA PartsAreKnown ==
  ASSUME NEW x \in Nat, NEW y \in Nat, NEW a \in Nat, NEW b \in Nat
  PROVE  /\ Plain(Run40(x)) /\ AsksForty(Run40(x), x) /\ AsksLittle(Run40(x))
         /\ Plain(Body(Span(a, b), Span(x, y))) /\ AsksLittle(Body(Span(a, b), Span(x, y)))
         /\ "forty" \notin DOMAIN Body(Span(a, b), Span(x, y))
         /\ Plain(Lifts(x, y)) /\ "forty" \notin DOMAIN Lifts(x, y)
         /\ Plain(School) /\ "forty" \notin DOMAIN School
         /\ Plain([m \in {"shuttle"} |-> UpTo(x)])
         /\ "forty" \notin DOMAIN [m \in {"shuttle"} |-> UpTo(x)]
<1> USE DEF Plain, Metric, Laser, Frame, Score, Lift, Span, AtLeast, UpTo, Unbounded
<1>1. Plain(Run40(x)) /\ AsksForty(Run40(x), x) /\ AsksLittle(Run40(x))
  BY DEF Run40, AsksForty, AsksLittle
<1>2. /\ Plain(Body(Span(a, b), Span(x, y))) /\ AsksLittle(Body(Span(a, b), Span(x, y)))
      /\ "forty" \notin DOMAIN Body(Span(a, b), Span(x, y))
  BY DEF Body, AsksLittle
<1>3. Plain(Lifts(x, y)) /\ "forty" \notin DOMAIN Lifts(x, y)
  BY DEF Lifts
<1>4. Plain(School) /\ "forty" \notin DOMAIN School
  BY DEF School
<1>5. /\ Plain([m \in {"shuttle"} |-> UpTo(x)])
      /\ "forty" \notin DOMAIN [m \in {"shuttle"} |-> UpTo(x)]
  OBVIOUS
<1> QED
  BY <1>1, <1>2, <1>3, <1>4, <1>5

LEMMA BothAreKnown ==
  ASSUME NEW f, NEW g, Plain(f), Plain(g)
  PROVE  /\ Plain(Also(f, g))
         /\ AsksLittle(f) /\ AsksLittle(g) => AsksLittle(Also(f, g))
         /\ \A hi : AsksForty(f, hi) => AsksForty(Also(f, g), hi)
         /\ \A hi : "forty" \notin DOMAIN f /\ AsksForty(g, hi) => AsksForty(Also(f, g), hi)
         /\ "forty" \notin DOMAIN f /\ "forty" \notin DOMAIN g => "forty" \notin DOMAIN Also(f, g)
<1>1. /\ DOMAIN Also(f, g) = DOMAIN f \cup DOMAIN g
      /\ \A m \in DOMAIN f : Also(f, g)[m] = f[m]
      /\ \A m \in DOMAIN g \ DOMAIN f : Also(f, g)[m] = g[m]
  BY DEF Also
<1>2. Plain(Also(f, g))
  BY <1>1 DEF Plain
<1> QED
  BY <1>1, <1>2 DEF AsksLittle, AsksForty

\* A lower tier asks for little, and for no faster a forty than the top one.
Easier(top, lower) ==
  /\ AsksLittle(lower)
  /\ \/ "forty" \notin DOMAIN lower
     \/ \E x, y \in Nat : x <= y /\ AsksForty(top, x) /\ AsksForty(lower, y)

Steady(ladder) ==
  /\ \E n \in Nat \ {0} : DOMAIN ladder = 1 .. n
  /\ \A i \in DOMAIN ladder : Plain(ladder[i].matrix)
  /\ \A i \in DOMAIN ladder \ {1} : Easier(ladder[1].matrix, ladder[i].matrix)

LEMMA TwoTiers ==
  ASSUME NEW f, NEW g, NEW t, NEW u, Plain(f), Plain(g), Easier(f, g)
  PROVE  Steady(<<Rung(t, f), Rung(u, g)>>)
  BY DEF Steady, Rung

LEMMA ThreeTiers ==
  ASSUME NEW f, NEW g, NEW h, NEW t, NEW u, NEW v,
         Plain(f), Plain(g), Plain(h), Easier(f, g), Easier(f, h)
  PROVE  Steady(<<Rung(t, f), Rung(u, g), Rung(v, h)>>)
  BY DEF Steady, Rung

\* The kinds of tier there are, by what they ask for.
LowTier(hi, a, b, x, y) == Also(Run40(hi), Body(Span(a, b), Span(x, y)))
TopTier(hi, a, b, x, y) == Also(School, LowTier(hi, a, b, x, y))
LiftTier(bench, squat, tier) == Also(Lifts(bench, squat), tier)
AgileTier(hi, a, b, x, y, shuttle) ==
  Also([m \in {"shuttle"} |-> UpTo(shuttle)], TopTier(hi, a, b, x, y))

LEMMA LowTierIs ==
  ASSUME NEW hi \in Nat, NEW a \in Nat, NEW b \in Nat, NEW x \in Nat, NEW y \in Nat
  PROVE  /\ Plain(LowTier(hi, a, b, x, y)) /\ AsksForty(LowTier(hi, a, b, x, y), hi)
         /\ AsksLittle(LowTier(hi, a, b, x, y))
<1> DEFINE f == Run40(hi)
           g == Body(Span(a, b), Span(x, y))
<1>1. /\ Plain(f) /\ AsksForty(f, hi) /\ AsksLittle(f)
      /\ Plain(g) /\ AsksLittle(g)
  BY PartsAreKnown
<1> HIDE DEF f, g
<1>2. Plain(Also(f, g)) /\ AsksForty(Also(f, g), hi) /\ AsksLittle(Also(f, g))
  BY <1>1, BothAreKnown
<1> QED
  BY <1>2 DEF LowTier, f, g

\* What a tier asks for besides goes before.
LEMMA MoreAsked ==
  ASSUME NEW f, NEW g, NEW hi, Plain(f), "forty" \notin DOMAIN f,
         Plain(g), AsksForty(g, hi)
  PROVE  Plain(Also(f, g)) /\ AsksForty(Also(f, g), hi)
  BY BothAreKnown

LEMMA TopTierIs ==
  ASSUME NEW hi \in Nat, NEW a \in Nat, NEW b \in Nat, NEW x \in Nat, NEW y \in Nat
  PROVE  Plain(TopTier(hi, a, b, x, y)) /\ AsksForty(TopTier(hi, a, b, x, y), hi)
<1> DEFINE f == School
           g == LowTier(hi, a, b, x, y)
<1>1. Plain(f) /\ "forty" \notin DOMAIN f
  BY PartsAreKnown
<1>2. Plain(g) /\ AsksForty(g, hi)
  BY LowTierIs
<1> HIDE DEF f, g
<1>3. Plain(Also(f, g)) /\ AsksForty(Also(f, g), hi)
  BY <1>1, <1>2, MoreAsked
<1> QED
  BY <1>3 DEF TopTier, f, g

LEMMA LiftTierIs ==
  ASSUME NEW bench \in Nat, NEW squat \in Nat, NEW tier, Plain(tier)
  PROVE  /\ Plain(LiftTier(bench, squat, tier))
         /\ \A hi : AsksForty(tier, hi) => AsksForty(LiftTier(bench, squat, tier), hi)
<1> DEFINE f == Lifts(bench, squat)
<1>1. Plain(f) /\ "forty" \notin DOMAIN f
  BY PartsAreKnown
<1> HIDE DEF f
<1>2. Plain(Also(f, tier)) /\ \A hi : AsksForty(tier, hi) => AsksForty(Also(f, tier), hi)
  BY <1>1, BothAreKnown
<1> QED
  BY <1>2 DEF LiftTier, f

LEMMA AgileTierIs ==
  ASSUME NEW hi \in Nat, NEW a \in Nat, NEW b \in Nat, NEW x \in Nat, NEW y \in Nat,
         NEW shuttle \in Nat
  PROVE  Plain(AgileTier(hi, a, b, x, y, shuttle)) /\ AsksForty(AgileTier(hi, a, b, x, y, shuttle), hi)
<1> DEFINE f == [m \in {"shuttle"} |-> UpTo(shuttle)]
           g == TopTier(hi, a, b, x, y)
<1>1. Plain(f) /\ "forty" \notin DOMAIN f
  BY PartsAreKnown
<1>2. Plain(g) /\ AsksForty(g, hi)
  BY TopTierIs
<1> HIDE DEF f, g
<1>3. Plain(Also(f, g)) /\ AsksForty(Also(f, g), hi)
  BY <1>1, <1>2, MoreAsked
<1> QED
  BY <1>3 DEF AgileTier, f, g

LEMMA LaddersAreSteady ==
  ASSUME NEW p \in DOMAIN Ladder
  PROVE  Steady(Ladder[p])
<1>1. Steady(Ladder["QB"])
  <2> DEFINE f == TopTier(490, 74, 78, 200, 240)
             g == LowTier(500, 72, 77, 180, 225)
  <2>1. Plain(f) /\ AsksForty(f, 490)
    BY TopTierIs
  <2>2. Plain(g) /\ AsksForty(g, 500) /\ AsksLittle(g)
    BY LowTierIs
  <2>3. Ladder["QB"] = <<Rung("D1_FBS", f), Rung("D2_D3_NAIA_JUCO", g)>>
    BY DEF Ladder, TopTier, LowTier
  <2> HIDE DEF f, g
  <2>4. Easier(f, g)
    BY <2>1, <2>2 DEF Easier
  <2> QED
    BY <2>1, <2>2, <2>3, <2>4, TwoTiers
<1>2. Steady(Ladder["RB"])
  <2> DEFINE f == LiftTier(300, 450, TopTier(460, 69, 73, 190, 230))
             g == LowTier(490, 68, 72, 180, 220)
  <2>1. Plain(f) /\ AsksForty(f, 460)
    BY TopTierIs, LiftTierIs
  <2>2. Plain(g) /\ AsksForty(g, 490) /\ AsksLittle(g)
    BY LowTierIs
  <2>3. Ladder["RB"] = <<Rung("D1_FBS", f), Rung("D1_FCS_D2", g)>>
    BY DEF Ladder, LiftTier, TopTier, LowTier
  <2> HIDE DEF f, g
  <2>4. Easier(f, g)
    BY <2>1, <2>2 DEF Easier
  <2> QED
    BY <2>1, <2>2, <2>3, <2>4, TwoTiers
<1>3. Steady(Ladder["WR"])
  <2> DEFINE f == TopTier(460, 72, 76, 180, 220)
             g == LowTier(490, 70, 75, 170, 210)
  <2>1. Plain(f) /\ AsksForty(f, 460)
    BY TopTierIs
  <2>2. Plain(g) /\ AsksForty(g, 490) /\ AsksLittle(g)
    BY LowTierIs
  <2>3. Ladder["WR"] = <<Rung("D1_FBS", f), Rung("D1_FCS_D2", g)>>
    BY DEF Ladder, TopTier, LowTier
  <2> HIDE DEF f, g
  <2>4. Easier(f, g)
    BY <2>1, <2>2 DEF Easier
  <2> QED
    BY <2>1, <2>2, <2>3, <2>4, TwoTiers
<1>4. Steady(Ladder["TE"])
  <2> DEFINE f == LiftTier(300, 450, TopTier(480, 76, 79, 230, 270))
             g == LowTier(520, 74, 78, 220, 260)
  <2>1. Plain(f) /\ AsksForty(f, 480)
    BY TopTierIs, LiftTierIs
  <2>2. Plain(g) /\ AsksForty(g, 520) /\ AsksLittle(g)
    BY LowTierIs
  <2>3. Ladder["TE"] = <<Rung("D1_FBS", f), Rung("D1_FCS_D2", g)>>
    BY DEF Ladder, LiftTier, TopTier, LowTier
  <2> HIDE DEF f, g
  <2>4. Easier(f, g)
    BY <2>1, <2>2 DEF Easier
  <2> QED
    BY <2>1, <2>2, <2>3, <2>4, TwoTiers
<1>5. Steady(Ladder["OL"])
  <2> DEFINE f == LiftTier(350, 500, TopTier(530, 76, 80, 280, 330))
             g == Body(Span(74, 78), Span(270, 310))
  <2>1. Plain(f) /\ AsksForty(f, 530)
    BY TopTierIs, LiftTierIs
  <2>2. Plain(g) /\ "forty" \notin DOMAIN g /\ AsksLittle(g)
    BY PartsAreKnown
  <2>3. Ladder["OL"] = <<Rung("D1_FBS", f), Rung("D1_FCS_D2", g)>>
    BY DEF Ladder, LiftTier, TopTier, LowTier
  <2> HIDE DEF f, g
  <2>4. Easier(f, g)
    BY <2>1, <2>2 DEF Easier
  <2> QED
    BY <2>1, <2>2, <2>3, <2>4, TwoTiers
<1>6. Steady(Ladder["DL"])
  <2> DEFINE f == LiftTier(350, 500, TopTier(510, 75, 78, 250, 320))
             g == LowTier(520, 74, 77, 240, 300)
             h == LowTier(530, 72, 76, 230, 280)
  <2>1. Plain(f) /\ AsksForty(f, 510)
    BY TopTierIs, LiftTierIs
  <2>2. Plain(g) /\ AsksForty(g, 520) /\ AsksLittle(g)
    BY LowTierIs
  <2>3. Plain(h) /\ AsksForty(h, 530) /\ AsksLittle(h)
    BY LowTierIs
  <2>4. Ladder["DL"] = <<Rung("D1_FBS", f), Rung("D1_FCS", g), Rung("D2_D3_NAIA_JUCO", h)>>
    BY DEF Ladder, LiftTier, TopTier, LowTier
  <2> HIDE DEF f, g, h
  <2>5. Easier(f, g) /\ Easier(f, h)
    BY <2>1, <2>2, <2>3 DEF Easier
  <2> QED
    BY <2>1, <2>2, <2>3, <2>4, <2>5, ThreeTiers
<1>7. Steady(Ladder["DE"])
  <2> DEFINE f == LiftTier(350, 500, TopTier(480, 75, 78, 240, 280))
             g == LowTier(490, 74, 77, 230, 270)
             h == LowTier(510, 72, 76, 220, 260)
  <2>1. Plain(f) /\ AsksForty(f, 480)
    BY TopTierIs, LiftTierIs
  <2>2. Plain(g) /\ AsksForty(g, 490) /\ AsksLittle(g)
    BY LowTierIs
  <2>3. Plain(h) /\ AsksForty(h, 510) /\ AsksLittle(h)
    BY LowTierIs
  <2>4. Ladder["DE"] = <<Rung("D1_FBS", f), Rung("D1_FCS", g), Rung("D2_D3_NAIA_JUCO", h)>>
    BY DEF Ladder, LiftTier, TopTier, LowTier
  <2> HIDE DEF f, g, h
  <2>5. Easier(f, g) /\ Easier(f, h)
    BY <2>1, <2>2, <2>3 DEF Easier
  <2> QED
    BY <2>1, <2>2, <2>3, <2>4, <2>5, ThreeTiers
<1>8. Steady(Ladder["LB"])
  <2> DEFINE f == TopTier(470, 73, 76, 220, 250)
             g == LowTier(480, 72, 75, 210, 240)
             h == LowTier(500, 71, 74, 200, 230)
  <2>1. Plain(f) /\ AsksForty(f, 470)
    BY TopTierIs
  <2>2. Plain(g) /\ AsksForty(g, 480) /\ AsksLittle(g)
    BY LowTierIs
  <2>3. Plain(h) /\ AsksForty(h, 500) /\ AsksLittle(h)
    BY LowTierIs
  <2>4. Ladder["LB"] = <<Rung("D1_FBS", f), Rung("D1_FCS", g), Rung("D2_D3_NAIA_JUCO", h)>>
    BY DEF Ladder, TopTier, LowTier
  <2> HIDE DEF f, g, h
  <2>5. Easier(f, g) /\ Easier(f, h)
    BY <2>1, <2>2, <2>3 DEF Easier
  <2> QED
    BY <2>1, <2>2, <2>3, <2>4, <2>5, ThreeTiers
<1>9. Steady(Ladder["DB"])
  <2> DEFINE f == AgileTier(460, 70, 74, 175, 210, 420)
             g == LowTier(470, 69, 73, 170, 200)
             h == LowTier(490, 68, 72, 165, 190)
  <2>1. Plain(f) /\ AsksForty(f, 460)
    BY AgileTierIs
  <2>2. Plain(g) /\ AsksForty(g, 470) /\ AsksLittle(g)
    BY LowTierIs
  <2>3. Plain(h) /\ AsksForty(h, 490) /\ AsksLittle(h)
    BY LowTierIs
  <2>4. Ladder["DB"] = <<Rung("D1_FBS", f), Rung("D1_FCS", g), Rung("D2_D3_NAIA_JUCO", h)>>
    BY DEF Ladder, AgileTier, TopTier, LowTier
  <2> HIDE DEF f, g, h
  <2>5. Easier(f, g) /\ Easier(f, h)
    BY <2>1, <2>2, <2>3 DEF Easier
  <2> QED
    BY <2>1, <2>2, <2>3, <2>4, <2>5, ThreeTiers
<1>10. DOMAIN Ladder = {"QB", "RB", "WR", "TE", "OL", "DL", "DE", "LB", "DB"}
  BY DEF Ladder
<1> QED
  BY <1>1, <1>2, <1>3, <1>4, <1>5, <1>6, <1>7, <1>8, <1>9, <1>10

-----------------------------------------------------------------------------
(* MetricSieve: where the walk down a ladder ends.                         *)

Ends(ladder, i, given) ==
  Blank(Checks(ladder[i], given)) \/ ~HardFail(Checks(ladder[i], given))

FallsThrough(ladder, given) ==
  /\ \A i \in DOMAIN ladder : ~Ends(ladder, i, given)
  /\ RunSieve(ladder, given) =
       IF Flagged(Checks(ladder[1], given)) THEN Projection(1, {1}, TRUE)
       ELSE Projection(0, {}, FALSE)

EndsAt(ladder, end, given) ==
  /\ Ends(ladder, end, given)
  /\ \A i \in 1 .. end - 1 : ~Ends(ladder, i, given)
  /\ RunSieve(ladder, given) =
       IF Blank(Checks(ladder[end], given)) THEN Projection(0, {}, FALSE)
       ELSE Projection(end, end .. Len(ladder), FALSE)

LEMMA WalkEnds ==
  ASSUME NEW n \in Nat, NEW ladder, DOMAIN ladder = 1 .. n, NEW given
  PROVE  FallsThrough(ladder, given) \/ \E end \in DOMAIN ladder : EndsAt(ladder, end, given)
<1> DEFINE ends == {i \in DOMAIN ladder : Ends(ladder, i, given)}
<1>1. RunSieve(ladder, given) =
        IF ends = {}
          THEN IF Flagged(Checks(ladder[1], given))
                 THEN Projection(1, {1}, TRUE) ELSE Projection(0, {}, FALSE)
        ELSE IF Blank(Checks(ladder[Min(ends)], given)) THEN Projection(0, {}, FALSE)
        ELSE Projection(Min(ends), Min(ends) .. Len(ladder), FALSE)
  BY Zenon DEF RunSieve, Ends
<1>2. \A i \in DOMAIN ladder : i \in ends <=> Ends(ladder, i, given)
  OBVIOUS
<1>3. ends \in SUBSET Nat /\ ends \subseteq DOMAIN ladder
  OBVIOUS
<1> HIDE DEF ends
<1>4. CASE ends = {}
  <2>1. \A i \in DOMAIN ladder : ~Ends(ladder, i, given)
    BY <1>2, <1>4
  <2>2. RunSieve(ladder, given) =
          IF Flagged(Checks(ladder[1], given)) THEN Projection(1, {1}, TRUE)
          ELSE Projection(0, {}, FALSE)
    BY <1>1, <1>4, Zenon
  <2> QED
    BY <2>1, <2>2 DEF FallsThrough
<1>5. CASE ends # {}
  <2> DEFINE end == Min(ends)
  <2>1. end \in ends /\ \A i \in ends : end <= i
    BY <1>3, <1>5, MinIsLeast
  <2>2. RunSieve(ladder, given) =
          IF Blank(Checks(ladder[end], given)) THEN Projection(0, {}, FALSE)
          ELSE Projection(end, end .. Len(ladder), FALSE)
    BY <1>1, <1>5, Zenon
  <2> HIDE DEF end
  <2>3. end \in 1 .. n /\ Ends(ladder, end, given)
    BY <1>2, <1>3, <2>1
  <2>4. ASSUME NEW i \in 1 .. end - 1 PROVE ~Ends(ladder, i, given)
    <3>1. i \in DOMAIN ladder /\ ~(end <= i)
      BY <2>3
    <3> QED
      BY <1>2, <2>1, <3>1
  <2> QED
    BY <2>2, <2>3, <2>4 DEF EndsAt
<1> QED
  BY <1>4, <1>5

\* If the one fails no tier that the other passes, finds no tier blank that
\* the other does not, and is flagged wherever the other is, it ranks as high.
LEMMA Outranks ==
  ASSUME NEW n \in Nat \ {0}, NEW ladder, DOMAIN ladder = 1 .. n, NEW better, NEW worse,
         \A i \in DOMAIN ladder :
           /\ HardFail(Checks(ladder[i], better)) => HardFail(Checks(ladder[i], worse))
           /\ Blank(Checks(ladder[i], better)) => Blank(Checks(ladder[i], worse)),
         FallsThrough(ladder, worse) /\ Flagged(Checks(ladder[1], worse)) =>
           /\ Flagged(Checks(ladder[1], better))
           /\ \A i \in DOMAIN ladder : ~Ends(ladder, i, better)
  PROVE  AtLeastAsHigh(RunSieve(ladder, better), RunSieve(ladder, worse))
<1>1. \A i \in DOMAIN ladder : Ends(ladder, i, worse) => 
         Ends(ladder, i, better) \/ Blank(Checks(ladder[i], worse))
  BY DEF Ends
<1>2. \A i \in DOMAIN ladder : Blank(Checks(ladder[i], better)) => Ends(ladder, i, worse)
  BY DEF Ends
<1>3. CASE FallsThrough(ladder, worse) /\ ~Flagged(Checks(ladder[1], worse))
  BY <1>3 DEF FallsThrough, Projection, AtLeastAsHigh
<1>4. CASE FallsThrough(ladder, worse) /\ Flagged(Checks(ladder[1], worse))
  <2>1. FallsThrough(ladder, better) /\ Flagged(Checks(ladder[1], better))
    BY <1>4, WalkEnds DEF EndsAt
  <2> QED
    BY <1>4, <2>1 DEF FallsThrough, Projection, AtLeastAsHigh
<1>5. ASSUME NEW end \in DOMAIN ladder, EndsAt(ladder, end, worse)
      PROVE  AtLeastAsHigh(RunSieve(ladder, better), RunSieve(ladder, worse))
  <2>1. CASE Blank(Checks(ladder[end], worse))
    BY <1>5, <2>1 DEF EndsAt, Projection, AtLeastAsHigh
  <2>2. CASE ~Blank(Checks(ladder[end], worse))
    <3>1. Ends(ladder, end, better)
      BY <1>1, <1>5, <2>2 DEF EndsAt
    <3>2. PICK first \in DOMAIN ladder : EndsAt(ladder, first, better)
      BY <3>1, WalkEnds DEF FallsThrough
    <3>3. first \in 1 .. end
      BY <3>1, <3>2 DEF EndsAt
    <3>4. ~Blank(Checks(ladder[first], better))
      <4>1. SUFFICES ASSUME Blank(Checks(ladder[first], better)) PROVE FALSE
        OBVIOUS
      <4>2. Ends(ladder, first, worse) /\ Blank(Checks(ladder[first], worse))
        BY <1>2, <4>1
      <4>3. first = end
        BY <1>5, <3>3, <4>2 DEF EndsAt
      <4> QED
        BY <2>2, <4>2, <4>3
    <3> DEFINE a == RunSieve(ladder, better)
               b == RunSieve(ladder, worse)
    <3>5. a = Projection(first, first .. Len(ladder), FALSE)
      BY <3>2, <3>4, Zenon DEF EndsAt
    <3>6. b = Projection(end, end .. Len(ladder), FALSE)
      BY <1>5, <2>2, Zenon DEF EndsAt
    <3>7. a.rung = first /\ b.rung = end
      BY <3>5, <3>6 DEF Projection
    <3> QED
      BY <3>3, <3>7 DEF AtLeastAsHigh
  <2> QED
    BY <2>1, <2>2
<1> QED
  BY <1>3, <1>4, <1>5, WalkEnds

-----------------------------------------------------------------------------
(* MetricSieve: what a better measurement, or another score, changes.      *)

\* What a prospect may have been measured to.
Sheet == [Metric -> (1 .. Unbounded - 1) \cup {NotGiven}]

LEMMA ChecksAre ==
  ASSUME NEW rung, NEW given
  PROVE  /\ DOMAIN Checks(rung, given) =
              {k \in DOMAIN rung.matrix : k \in Score => given[k] # NotGiven}
         /\ \A m \in DOMAIN Checks(rung, given) :
              Checks(rung, given)[m] = InRange(given[m], rung.matrix[m])
  BY DEF Checks

\* The one's checks are the other's, but for some that turned out better.
Improves(better, worse) ==
  /\ DOMAIN better = DOMAIN worse
  /\ \A m \in DOMAIN worse :
       /\ better[m] = "unknown" <=> worse[m] = "unknown"
       /\ better[m] = "failed" => worse[m] = "failed"
       /\ worse[m] = "passed" => better[m] = "passed"
       /\ m \in Frame \cup Score => better[m] = worse[m]

LEMMA ImprovedChecks ==
  ASSUME NEW better, NEW worse, Improves(better, worse)
  PROVE  /\ HardFail(better) => HardFail(worse)
         /\ Blank(better) => Blank(worse)
         /\ Flagged(worse) => Flagged(better)
<1>1. HardFail(better) => HardFail(worse)
  BY DEF Improves, HardFail
<1>2. Blank(better) => Blank(worse)
  BY DEF Improves, Blank
<1>3. Flagged(worse) => Flagged(better)
  BY DEF Improves, Flagged
<1> QED
  BY <1>1, <1>2, <1>3

\* The second sheet differs in a metric measured both times, the better one.
Bettered(m, worse, better) ==
  /\ m \in Metric \ (Frame \cup Score) /\ worse[m] # NotGiven /\ better[m] # NotGiven
  /\ \A k \in Metric \ {m} : better[k] = worse[k]
  /\ IF m \in Laser THEN better[m] < worse[m] ELSE worse[m] < better[m]

LEMMA BetteredImproves ==
  ASSUME NEW rung, Plain(rung.matrix), NEW worse \in Sheet, NEW better \in Sheet,
         NEW m, Bettered(m, worse, better), NotGiven \notin Nat
  PROVE  Improves(Checks(rung, better), Checks(rung, worse))
<1> DEFINE a == Checks(rung, better)
           b == Checks(rung, worse)
<1>1. DOMAIN a = DOMAIN b /\ DOMAIN b \subseteq DOMAIN rung.matrix
  <2>1. /\ DOMAIN a = {k \in DOMAIN rung.matrix : k \in Score => better[k] # NotGiven}
        /\ DOMAIN b = {k \in DOMAIN rung.matrix : k \in Score => worse[k] # NotGiven}
    BY ChecksAre
  <2>2. \A k \in Score : better[k] = worse[k]
    BY DEF Bettered, Metric
  <2> HIDE DEF a, b
  <2> QED
    BY <2>1, <2>2
<1>2. \A k \in DOMAIN b : a[k] = InRange(better[k], rung.matrix[k])
                            /\ b[k] = InRange(worse[k], rung.matrix[k])
  BY <1>1, ChecksAre
<1> HIDE DEF a, b
<1>3. \A k \in DOMAIN b \ {m} : a[k] = b[k]
  BY <1>1, <1>2 DEF Bettered, Plain
<1>4. ASSUME m \in DOMAIN b
      PROVE  /\ a[m] # "unknown" /\ b[m] # "unknown"
             /\ a[m] = "failed" => b[m] = "failed"
             /\ b[m] = "passed" => a[m] = "passed"
  <2>1. better[m] \in 1 .. Unbounded - 1 /\ worse[m] \in 1 .. Unbounded - 1
    BY DEF Bettered, Sheet
  <2>2. rung.matrix[m][1] \in Nat /\ rung.matrix[m][2] \in Nat
    BY <1>1, <1>4 DEF Plain
  <2>3. /\ a[m] = InRange(better[m], rung.matrix[m])
        /\ b[m] = InRange(worse[m], rung.matrix[m])
        /\ better[m] # NotGiven /\ worse[m] # NotGiven
    BY <1>2, <1>4 DEF Bettered
  <2>4. CASE m \in Laser
    <3>1. better[m] < worse[m] /\ rung.matrix[m][1] = 0
      BY <1>1, <1>4, <2>4 DEF Bettered, Plain
    <3> QED
      BY <2>1, <2>2, <2>3, <3>1 DEF InRange
  <2>5. CASE m \notin Laser
    <3>1. m \in Lift
      BY <2>5 DEF Bettered, Metric, Lift
    <3>2. worse[m] < better[m] /\ rung.matrix[m][2] = Unbounded
      BY <1>1, <1>4, <2>5, <3>1 DEF Bettered, Plain
    <3>3. Unbounded \in Nat
      BY DEF Unbounded
    <3>4. better[m] <= Unbounded /\ worse[m] <= Unbounded
      BY <2>1, <3>3
    <3>5. better[m] \in Nat /\ worse[m] \in Nat
      BY <2>1
    <3> QED
      BY <2>2, <2>3, <3>2, <3>4, <3>5 DEF InRange
  <2> QED
    BY <2>4, <2>5
<1>5. m \notin Frame \cup Score
  BY DEF Bettered
<1>6. Improves(a, b)
  BY <1>1, <1>3, <1>4, <1>5 DEF Improves
<1> QED
  BY <1>6 DEF a, b

\* Who is flagged for speed fails the frame of every tier.
LEMMA FlaggedFailFrames ==
  ASSUME NEW ladder, Steady(ladder), NEW given \in Sheet, NotGiven \notin Nat,
         FallsThrough(ladder, given), Flagged(Checks(ladder[1], given)),
         NEW i \in DOMAIN ladder
  PROVE  \E m \in DOMAIN Checks(ladder[i], given) \cap Frame :
           Checks(ladder[i], given)[m] = "failed"
<1> DEFINE top == ladder[1].matrix
           matrix == ladder[i].matrix
           c == Checks(ladder[i], given)
<1>1. CASE i = 1
  BY <1>1 DEF Flagged
<1>2. CASE i # 1
  <2>1. Easier(top, matrix) /\ Plain(matrix)
    BY <1>2 DEF Steady
  <2>2. HardFail(c)
    BY DEF FallsThrough, Ends
  <2>3. DOMAIN c \subseteq DOMAIN matrix /\ DOMAIN c \subseteq {"forty"} \cup Frame
        /\ \A m \in DOMAIN c : c[m] = InRange(given[m], matrix[m])
    BY <2>1, ChecksAre DEF Easier, AsksLittle
  <2>4. PICK m \in DOMAIN c : c[m] = "failed"
    <3> HIDE DEF c
    <3> QED
      BY <2>2, <2>3 DEF HardFail, Frame, Score
  <2>5. ASSUME m = "forty" PROVE FALSE
    <3>1. PICK x, y \in Nat : x <= y /\ AsksForty(top, x) /\ AsksForty(matrix, y)
      BY <2>1, <2>3, <2>4, <2>5 DEF Easier
    <3>2. top["forty"] = UpTo(x) /\ matrix["forty"] = UpTo(y) /\ "forty" \in DOMAIN top
      BY <3>1 DEF AsksForty
    <3>3. InRange(given["forty"], UpTo(y)) = "failed"
      BY <2>3, <2>4, <2>5, <3>2
    <3>4. given["forty"] # NotGiven /\ given["forty"] \in Nat
      BY <3>3 DEF InRange, Sheet, Metric, Laser
    <3>5. "forty" \in DOMAIN Checks(ladder[1], given)
          /\ Checks(ladder[1], given)["forty"] = InRange(given["forty"], UpTo(x))
      <4>1. "forty" \in DOMAIN Checks(ladder[1], given)
        <5>1. "forty" \notin Score
          BY DEF Score
        <5>2. DOMAIN Checks(ladder[1], given) =
                {k \in DOMAIN ladder[1].matrix : k \in Score => given[k] # NotGiven}
          BY ChecksAre, Zenon
        <5> QED
          BY <3>2, <5>1, <5>2
      <4>2. Checks(ladder[1], given)["forty"] = InRange(given["forty"], top["forty"])
        BY <4>1, ChecksAre, Zenon
      <4> QED
        BY <3>2, <4>1, <4>2
    <3>6. InRange(given["forty"], UpTo(x)) = "passed"
      <4>1. InRange(given["forty"], UpTo(x)) # "unknown"
        BY <3>4 DEF InRange
      <4> QED
        BY <3>5, <4>1 DEF Flagged, Laser
    <3>7. given["forty"] <= x
      BY <3>1, <3>4, <3>6 DEF InRange, UpTo
    <3> QED
      BY <3>1, <3>3, <3>4, <3>7 DEF InRange, UpTo
  <2> QED
    BY <2>3, <2>4, <2>5
<1> QED
  BY <1>1, <1>2

LEMMA FrameEnds ==
  ASSUME NEW ladder, NEW i, NEW given,
         \E m \in DOMAIN Checks(ladder[i], given) \cap Frame :
           Checks(ladder[i], given)[m] = "failed"
  PROVE  ~Ends(ladder, i, given)
  BY DEF Ends, Blank, HardFail, Frame, Score

LEMMA BetteredOutranks ==
  ASSUME NEW ladder, Steady(ladder), NEW worse \in Sheet, NEW better \in Sheet,
         NEW m, Bettered(m, worse, better), NotGiven \notin Nat
  PROVE  AtLeastAsHigh(RunSieve(ladder, better), RunSieve(ladder, worse))
<1>1. PICK n \in Nat \ {0} : DOMAIN ladder = 1 .. n
  BY DEF Steady
<1>2. \A i \in DOMAIN ladder : Improves(Checks(ladder[i], better), Checks(ladder[i], worse))
  BY BetteredImproves DEF Steady
<1>3. \A i \in DOMAIN ladder :
        /\ HardFail(Checks(ladder[i], better)) => HardFail(Checks(ladder[i], worse))
        /\ Blank(Checks(ladder[i], better)) => Blank(Checks(ladder[i], worse))
  BY <1>2, ImprovedChecks
<1>4. ASSUME FallsThrough(ladder, worse), Flagged(Checks(ladder[1], worse))
      PROVE  /\ Flagged(Checks(ladder[1], better))
             /\ \A i \in DOMAIN ladder : ~Ends(ladder, i, better)
  <2>1. Flagged(Checks(ladder[1], better))
    BY <1>1, <1>2, <1>4, ImprovedChecks
  <2>2. ASSUME NEW i \in DOMAIN ladder PROVE ~Ends(ladder, i, better)
    <3>1. \E k \in DOMAIN Checks(ladder[i], worse) \cap Frame :
            Checks(ladder[i], worse)[k] = "failed"
      BY <1>4, FlaggedFailFrames
    <3>2. \E k \in DOMAIN Checks(ladder[i], better) \cap Frame :
            Checks(ladder[i], better)[k] = "failed"
      BY <1>2, <3>1 DEF Improves
    <3> QED
      BY <3>2, FrameEnds
  <2> QED
    BY <2>1, <2>2
<1> QED
  BY <1>1, <1>3, <1>4, Outranks

\* The one's checks are the other's and one of a score, where the other has
\* the other score's.
Widens(more, fewer) ==
  /\ DOMAIN fewer \subseteq DOMAIN more /\ DOMAIN more \ DOMAIN fewer \subseteq Score
  /\ \A m \in DOMAIN fewer : more[m] = fewer[m]
  /\ DOMAIN more # DOMAIN fewer => DOMAIN fewer \cap Score # {}

LEMMA WidenedChecks ==
  ASSUME NEW more, NEW fewer, Widens(more, fewer)
  PROVE  /\ HardFail(more) => HardFail(fewer)
         /\ Blank(more) => Blank(fewer)
         /\ Flagged(fewer) => Flagged(more)
<1>1. HardFail(more) => HardFail(fewer)
  <2>1. ASSUME NEW m \in DOMAIN more \ Score, more[m] = "failed" PROVE HardFail(fewer)
    BY <2>1 DEF Widens, HardFail
  <2>2. ASSUME DOMAIN more \cap Score # {}, \A m \in DOMAIN more \cap Score : more[m] # "passed"
        PROVE  HardFail(fewer)
    <3>1. DOMAIN fewer \cap Score # {}
      BY <2>2 DEF Widens
    <3>2. \A m \in DOMAIN fewer \cap Score : fewer[m] # "passed"
      BY <2>2 DEF Widens
    <3> QED
      BY <3>1, <3>2 DEF HardFail
  <2> QED
    BY <2>1, <2>2 DEF HardFail
<1>2. Blank(more) => Blank(fewer)
  BY DEF Widens, Blank
<1>3. Flagged(fewer) => Flagged(more)
  <2>1. Score \cap (Laser \cup Frame) = {}
    BY DEF Score, Laser, Frame
  <2>2. DOMAIN more \cap (Laser \cup Frame) = DOMAIN fewer \cap (Laser \cup Frame)
    BY <2>1 DEF Widens
  <2> QED
    BY <2>2 DEF Widens, Flagged
<1> QED
  BY <1>1, <1>2, <1>3

\* The second sheet has the other score, too.
GivesOther(m, worse, better) ==
  /\ m \in Score /\ worse[m] = NotGiven /\ better[m] # NotGiven
  /\ \E other \in Score \ {m} : worse[other] # NotGiven
  /\ \A k \in Metric \ {m} : better[k] = worse[k]

LEMMA ScoredWidens ==
  ASSUME NEW rung, Plain(rung.matrix), NEW worse, NEW better, NEW m, GivesOther(m, worse, better)
  PROVE  Widens(Checks(rung, better), Checks(rung, worse))
<1> DEFINE a == Checks(rung, better)
           b == Checks(rung, worse)
<1>1. /\ DOMAIN a = {k \in DOMAIN rung.matrix : k \in Score => better[k] # NotGiven}
      /\ DOMAIN b = {k \in DOMAIN rung.matrix : k \in Score => worse[k] # NotGiven}
  BY ChecksAre
<1>2. /\ \A k \in DOMAIN a : a[k] = InRange(better[k], rung.matrix[k])
      /\ \A k \in DOMAIN b : b[k] = InRange(worse[k], rung.matrix[k])
  BY ChecksAre
<1> HIDE DEF a, b
<1>3. Score \subseteq Metric /\ DOMAIN rung.matrix \subseteq Metric
  BY DEF Score, Metric, Plain
<1>4. DOMAIN b \subseteq DOMAIN a /\ DOMAIN a \ DOMAIN b \subseteq {m} /\ m \notin DOMAIN b
  BY <1>1, <1>3 DEF GivesOther
<1>5. \A k \in DOMAIN b : a[k] = b[k]
  BY <1>1, <1>2, <1>3, <1>4 DEF GivesOther
<1>6. ASSUME DOMAIN a # DOMAIN b PROVE DOMAIN b \cap Score # {}
  <2>1. m \in DOMAIN rung.matrix \cap Score
    BY <1>1, <1>4, <1>6 DEF GivesOther
  <2>2. Score \subseteq DOMAIN rung.matrix
    BY <2>1 DEF Plain
  <2> QED
    BY <1>1, <2>2 DEF GivesOther
<1>7. Widens(a, b)
  BY <1>4, <1>5, <1>6 DEF Widens, GivesOther
<1> QED
  BY <1>7 DEF a, b

LEMMA ScoredOutranks ==
  ASSUME NEW ladder, Steady(ladder), NEW worse \in Sheet, NEW better,
         NEW m, GivesOther(m, worse, better), NotGiven \notin Nat
  PROVE  AtLeastAsHigh(RunSieve(ladder, better), RunSieve(ladder, worse))
<1>1. PICK n \in Nat \ {0} : DOMAIN ladder = 1 .. n
  BY DEF Steady
<1>2. \A i \in DOMAIN ladder : Widens(Checks(ladder[i], better), Checks(ladder[i], worse))
  BY ScoredWidens DEF Steady
<1>3. \A i \in DOMAIN ladder :
        /\ HardFail(Checks(ladder[i], better)) => HardFail(Checks(ladder[i], worse))
        /\ Blank(Checks(ladder[i], better)) => Blank(Checks(ladder[i], worse))
  BY <1>2, WidenedChecks
<1>4. ASSUME FallsThrough(ladder, worse), Flagged(Checks(ladder[1], worse))
      PROVE  /\ Flagged(Checks(ladder[1], better))
             /\ \A i \in DOMAIN ladder : ~Ends(ladder, i, better)
  <2>1. Flagged(Checks(ladder[1], better))
    BY <1>1, <1>2, <1>4, WidenedChecks
  <2>2. ASSUME NEW i \in DOMAIN ladder PROVE ~Ends(ladder, i, better)
    <3>1. \E k \in DOMAIN Checks(ladder[i], worse) \cap Frame :
            Checks(ladder[i], worse)[k] = "failed"
      BY <1>4, FlaggedFailFrames
    <3>2. \E k \in DOMAIN Checks(ladder[i], better) \cap Frame :
            Checks(ladder[i], better)[k] = "failed"
      BY <1>2, <3>1 DEF Widens
    <3> QED
      BY <3>2, FrameEnds
  <2> QED
    BY <2>1, <2>2
<1> QED
  BY <1>1, <1>3, <1>4, Outranks

-----------------------------------------------------------------------------
(* MetricSieve: a prospect's sheet, and what follows at every step.        *)

SieveInv == position \in Position /\ metrics \in Sheet

LEMMA SieveInvariant == SieveSpec => []SieveInv
<1>1. SieveInit => SieveInv
  BY DEF SieveInit, SieveInv, Sheet
<1>2. SieveInv /\ [SieveNext]_sieveVars => SieveInv'
  <2>1. ASSUME SieveInv, NEW m \in Metric, Measure(m) PROVE SieveInv'
    <3>1. PICK value \in Tried(position, m) : metrics' = [metrics EXCEPT ![m] = value]
      BY <2>1 DEF Measure
    <3>2. value \in 1 .. Unbounded - 1
      BY DEF Tried
    <3> QED
      BY <2>1, <3>1, <3>2 DEF SieveInv, Sheet, Measure
  <2> QED
    BY <2>1 DEF SieveNext, SieveInv, sieveVars
<1> QED
  BY <1>1, <1>2, PTL DEF SieveSpec

LEMMA PositionIsKnown ==
  ASSUME SieveInv
  PROVE  Steady(Ladder[position])
  BY SieveAssumption, LaddersAreSteady DEF SieveInv

\* One measurement changes one entry of the sheet.
LEMMA OneIsMeasured ==
  ASSUME SieveInv, NEW m \in Metric, Measure(m)
  PROVE  /\ \A k \in Metric \ {m} : metrics'[k] = metrics[k]
         /\ metrics'[m] \in 1 .. Unbounded - 1
         /\ metrics \in Sheet /\ metrics' \in Sheet /\ position' = position
<1>1. PICK value \in Tried(position, m) : metrics' = [metrics EXCEPT ![m] = value]
  BY DEF Measure
<1>2. value \in 1 .. Unbounded - 1
  BY DEF Tried
<1> QED
  BY <1>1, <1>2 DEF SieveInv, Sheet, Measure

\* No prospect, of any position and whatever is measured in whatever order,
\* loses a tier by a better time, lift or grade average, or by giving the
\* second of SAT and ACT (metric_sieve.py:114, :162).
THEOREM MoreCostsNoTier == SieveSpec => MoreIsNeverWorse
<1> USE SieveAssumption
<1>1. ASSUME SieveInv, SieveNext, NEW m \in Metric \ (Frame \cup Score),
             metrics'[m] # metrics[m], metrics[m] # NotGiven
      PROVE  IF (metrics'[m] < metrics[m]) = (m \in Laser)
             THEN AtLeastAsHigh(Projected(metrics'), Projected(metrics))
             ELSE AtLeastAsHigh(Projected(metrics), Projected(metrics'))
  <2>1. Measure(m)
    BY <1>1, OneIsMeasured DEF SieveNext
  <2>2. /\ metrics \in Sheet /\ metrics' \in Sheet /\ position' = position
        /\ \A k \in Metric \ {m} : metrics'[k] = metrics[k]
        /\ metrics'[m] \in 1 .. Unbounded - 1
    BY <1>1, <2>1, OneIsMeasured
  <2>3. metrics[m] \in Nat /\ metrics'[m] \in Nat /\ metrics'[m] # NotGiven
    BY <1>1, <2>2 DEF Sheet
  <2>4. Steady(Ladder[position])
    BY <1>1, PositionIsKnown
  <2>5. CASE (metrics'[m] < metrics[m]) = (m \in Laser)
    <3>1. Bettered(m, metrics, metrics')
      BY <1>1, <2>2, <2>3, <2>5 DEF Bettered
    <3> QED
      BY <2>2, <2>4, <2>5, <3>1, BetteredOutranks DEF Projected
  <2>6. CASE (metrics'[m] < metrics[m]) # (m \in Laser)
    <3>1. Bettered(m, metrics', metrics)
      BY <1>1, <2>2, <2>3, <2>6 DEF Bettered
    <3> QED
      BY <2>2, <2>4, <2>6, <3>1, BetteredOutranks DEF Projected
  <2> QED
    BY <2>5, <2>6
<1>2. ASSUME SieveInv, SieveNext, NEW m \in Score,
             metrics[m] = NotGiven, metrics'[m] # NotGiven,
             \E other \in Score \ {m} : metrics[other] # NotGiven
      PROVE  AtLeastAsHigh(Projected(metrics'), Projected(metrics))
  <2>1. Measure(m)
    BY <1>2, OneIsMeasured DEF SieveNext, Score, Metric
  <2>2. /\ metrics \in Sheet /\ position' = position
        /\ \A k \in Metric \ {m} : metrics'[k] = metrics[k]
    BY <1>2, <2>1, OneIsMeasured DEF Score, Metric
  <2>3. GivesOther(m, metrics, metrics')
    BY <1>2, <2>2 DEF GivesOther
  <2>4. Steady(Ladder[position])
    BY <1>2, PositionIsKnown
  <2> QED
    BY <2>2, <2>3, <2>4, ScoredOutranks DEF Projected
<1>3. SieveInv /\ [SieveNext]_sieveVars =>
        [\A m \in Metric \ (Frame \cup Score) :
           metrics'[m] # metrics[m] /\ metrics[m] # NotGiven =>
             IF (metrics'[m] < metrics[m]) = (m \in Laser)
             THEN AtLeastAsHigh(Projected(metrics'), Projected(metrics))
             ELSE AtLeastAsHigh(Projected(metrics), Projected(metrics'))]_sieveVars
  BY <1>1
<1>4. SieveInv /\ [SieveNext]_sieveVars =>
        [\A m \in Score :
           metrics[m] = NotGiven /\ metrics'[m] # NotGiven
             /\ (\E other \in Score \ {m} : metrics[other] # NotGiven) =>
             AtLeastAsHigh(Projected(metrics'), Projected(metrics))]_sieveVars
  BY <1>2
<1> QED
  BY <1>3, <1>4, SieveInvariant, PTL
    DEF SieveSpec, MoreIsNeverWorse, BetterIsNeverWorse, SecondScoreNeverHurts

Fails(ladder, i, given, S) ==
  \E m \in DOMAIN Checks(ladder[i], given) \cap S : Checks(ladder[i], given)[m] = "failed"

\* Every tier that is failed is failed by a check: a score that was given is
\* not unknown.
LEMMA EndedByAFailure ==
  ASSUME NEW ladder, Steady(ladder), NEW given \in Sheet, NEW i \in DOMAIN ladder,
         ~Ends(ladder, i, given)
  PROVE  Fails(ladder, i, given, Metric)
<1> DEFINE c == Checks(ladder[i], given)
<1>1. HardFail(c)
  BY DEF Ends
<1>2. DOMAIN c \subseteq Metric
      /\ \A m \in DOMAIN c \cap Score : c[m] = "passed" \/ c[m] = "failed"
  <2>1. DOMAIN c = {k \in DOMAIN ladder[i].matrix : k \in Score => given[k] # NotGiven}
    BY ChecksAre
  <2>2. \A m \in DOMAIN c : c[m] = InRange(given[m], ladder[i].matrix[m])
    BY ChecksAre
  <2>3. DOMAIN ladder[i].matrix \subseteq Metric
    BY DEF Steady, Plain
  <2> HIDE DEF c
  <2> QED
    BY <2>1, <2>2, <2>3 DEF InRange
<1> HIDE DEF c
<1>3. \E m \in DOMAIN c \cap Metric : c[m] = "failed"
  BY <1>1, <1>2 DEF HardFail
<1> QED
  BY <1>3 DEF Fails, c

\* No prospect, of any position and whatever was measured, is projected to a
\* tier they fail, or below one they do not; and a game changer is one for
\* what was measured (run_sieve(), metric_sieve.py).
THEOREM ProjectionsAreEarned == SieveSpec => []ProjectionIsEarned
<1>1. SieveInv => ProjectionIsEarned
  <2> SUFFICES ASSUME SieveInv PROVE ProjectionIsEarned
    OBVIOUS
  <2> DEFINE ladder == Ladder[position]
             best == RunSieve(ladder, metrics)
  <2>1. Steady(ladder) /\ metrics \in Sheet
    BY PositionIsKnown DEF SieveInv
  <2>2. PICK n \in Nat \ {0} : DOMAIN ladder = 1 .. n
    BY <2>1 DEF Steady
  <2>3. /\ best.rung # 0 /\ ~best.gameChanger =>
              /\ ~Fails(ladder, best.rung, metrics, Metric \ Score)
              /\ \A i \in 1 .. best.rung - 1 : Fails(ladder, i, metrics, Metric)
        /\ best.gameChanger =>
              /\ \A i \in DOMAIN ladder : Fails(ladder, i, metrics, Metric)
              /\ Fails(ladder, 1, metrics, Frame) /\ ~Fails(ladder, 1, metrics, Laser)
              /\ \E m \in Laser : metrics[m] # NotGiven
    <3> HIDE DEF ladder
    <3>1. CASE FallsThrough(ladder, metrics) /\ Flagged(Checks(ladder[1], metrics))
      <4>1. best.gameChanger
        BY <3>1 DEF FallsThrough, Projection
      <4>2. \A i \in DOMAIN ladder : Fails(ladder, i, metrics, Metric)
        BY <2>1, <3>1, EndedByAFailure DEF FallsThrough
      <4>3. Fails(ladder, 1, metrics, Frame) /\ ~Fails(ladder, 1, metrics, Laser)
        BY <3>1 DEF Flagged, Fails
      <4>4. \E m \in Laser : metrics[m] # NotGiven
        <5>1. PICK m \in DOMAIN Checks(ladder[1], metrics) \cap Laser :
                Checks(ladder[1], metrics)[m] # "unknown"
          BY <3>1 DEF Flagged
        <5>2. Checks(ladder[1], metrics)[m] = InRange(metrics[m], ladder[1].matrix[m])
          BY <5>1, ChecksAre
        <5> QED
          BY <5>1, <5>2 DEF InRange
      <4> QED
        BY <4>1, <4>2, <4>3, <4>4
    <3>2. CASE FallsThrough(ladder, metrics) /\ ~Flagged(Checks(ladder[1], metrics))
      BY <3>2 DEF FallsThrough, Projection
    <3>3. ASSUME NEW end \in DOMAIN ladder, EndsAt(ladder, end, metrics),
                 Blank(Checks(ladder[end], metrics))
          PROVE  best.rung = 0 /\ ~best.gameChanger
      BY <3>3 DEF EndsAt, Projection
    <3>4. ASSUME NEW end \in DOMAIN ladder, EndsAt(ladder, end, metrics),
                 ~Blank(Checks(ladder[end], metrics))
          PROVE  /\ best.rung = end /\ ~best.gameChanger
                 /\ ~Fails(ladder, end, metrics, Metric \ Score)
                 /\ \A i \in 1 .. end - 1 : Fails(ladder, i, metrics, Metric)
      <4>1. best = Projection(end, end .. Len(ladder), FALSE)
        BY <3>4, Zenon DEF EndsAt
      <4>2. best.rung = end /\ ~best.gameChanger
        BY <4>1 DEF Projection
      <4>3. ~HardFail(Checks(ladder[end], metrics))
        BY <3>4 DEF EndsAt, Ends
      <4>4. ~Fails(ladder, end, metrics, Metric \ Score)
        BY <4>3 DEF HardFail, Fails
      <4>5. \A i \in 1 .. end - 1 : i \in DOMAIN ladder /\ ~Ends(ladder, i, metrics)
        BY <2>2, <3>4 DEF EndsAt
      <4>6. \A i \in 1 .. end - 1 : Fails(ladder, i, metrics, Metric)
        BY <2>1, <4>5, EndedByAFailure
      <4> QED
        BY <4>2, <4>4, <4>6
    <3> HIDE DEF best
    <3> QED
      BY <2>2, <3>1, <3>2, <3>3, <3>4, WalkEnds
  <2> QED
    BY <2>3, Zenon DEF ProjectionIsEarned, Projected, Fails
<1> QED
  BY <1>1, SieveInvariant, PTL

-----------------------------------------------------------------------------
(* FilmGrading: the invariant.                                             *)

GradingInv == GradingTypeOK /\ EventsAreOnFilm

LEMMA SecondsAreNumbers == Second \subseteq Int
  BY DEF Second

LEMMA ClaimKeeps ==
  ASSUME GradingInv, NEW trait \in Official, NEW value \in Delta,
         NEW at \in Second \cup {Unknown}, Claim(trait, value, at)
  PROVE  GradingInv'
<1>1. refused' \in BOOLEAN /\ reading' = reading /\ reading \in PlayNo
  BY DEF Claim, GradingInv, GradingTypeOK
<1>2. CASE events' = events
  <2>1. GradingTypeOK'
    BY <1>1, <1>2 DEF GradingInv, GradingTypeOK
  <2>2. EventsAreOnFilm'
    BY <1>2 DEF GradingInv, EventsAreOnFilm
  <2> QED
    BY <2>1, <2>2 DEF GradingInv
<1>3. CASE events' # events
  <2> DEFINE e == [trait |-> trait, value |-> value, at |-> at, play |-> reading]
  <2>1. at \in Second /\ Within(reading, at) /\ events' = Append(events, e)
    BY <1>3 DEF Claim
  <2>2. e \in Event
    BY <1>1, <2>1 DEF Event
  <2>3. events \in Seq(Event) /\ Len(events) < MaxEvents /\ MaxEvents \in Nat
    BY GradingAssumption DEF Claim, GradingInv, GradingTypeOK
  <2>4. e.play = reading /\ e.at = at /\ at \in Int
    BY <2>1, SecondsAreNumbers
  <2> HIDE DEF e
  <2>5. events' \in Seq(Event) /\ Len(events') <= MaxEvents
    BY <2>1, <2>2, <2>3
  <2>6. ASSUME NEW i \in DOMAIN events'
        PROVE  events'[i].at \in Ranges[events'[i].play][1] .. Ranges[events'[i].play][2]
    <3>1. CASE i = Len(events) + 1
      <4>1. events'[i] = e
        BY <2>1, <2>3, <3>1
      <4>2. Ranges[reading] \in Nat \X Nat
        BY <1>1, GradingAssumption DEF PlayNo
      <4> QED
        BY <2>1, <2>4, <4>1, <4>2 DEF Within
    <3>2. CASE i # Len(events) + 1
      <4>1. i \in DOMAIN events /\ events'[i] = events[i]
        BY <2>1, <2>3, <3>2
      <4> QED
        BY <4>1 DEF GradingInv, EventsAreOnFilm
    <3> QED
      BY <3>1, <3>2
  <2>7. GradingTypeOK'
    BY <1>1, <2>5 DEF GradingTypeOK
  <2>8. EventsAreOnFilm'
    BY <2>6 DEF EventsAreOnFilm
  <2> QED
    BY <2>7, <2>8 DEF GradingInv
<1> QED
  BY <1>2, <1>3

LEMMA GradingInvariant == GradingSpec => []GradingInv
<1>1. GradingInit => GradingInv
  <2> SUFFICES ASSUME GradingInit PROVE GradingInv
    OBVIOUS
  <2>1. events = <<>> /\ reading = 1 /\ refused = FALSE
    BY DEF GradingInit
  <2>2. GradingTypeOK
    <3>1. events \in Seq(Event) /\ Len(events) = 0
      BY <2>1
    <3>2. MaxEvents \in Nat
      BY GradingAssumption
    <3>3. Len(events) <= MaxEvents
      BY <3>1, <3>2
    <3>4. reading \in PlayNo \cup {1} /\ refused \in BOOLEAN
      BY <2>1
    <3> QED
      BY <3>1, <3>3, <3>4 DEF GradingTypeOK
  <2>3. DOMAIN events = {}
    BY <2>1
  <2>4. EventsAreOnFilm
    BY <2>3 DEF EventsAreOnFilm
  <2> QED
    BY <2>2, <2>4 DEF GradingInv
<1>2. GradingInv /\ [GradingNext]_gradingVars => GradingInv'
  <2> SUFFICES ASSUME GradingInv, [GradingNext]_gradingVars PROVE GradingInv'
    OBVIOUS
  <2>1. ASSUME NEW trait \in Official, NEW value \in Delta,
               NEW at \in Second \cup {Unknown}, Claim(trait, value, at)
        PROVE  GradingInv'
    BY <2>1, ClaimKeeps
  <2>2. CASE NextPlay
    <3>1. reading' \in PlayNo
      BY <2>2, GradingAssumption DEF NextPlay, GradingInv, GradingTypeOK, PlayNo
    <3>2. GradingTypeOK'
      BY <2>2, <3>1 DEF NextPlay, GradingInv, GradingTypeOK
    <3>3. EventsAreOnFilm'
      BY <2>2 DEF NextPlay, GradingInv, EventsAreOnFilm
    <3> QED
      BY <3>2, <3>3 DEF GradingInv
  <2>3. CASE UNCHANGED gradingVars
    BY <2>3 DEF gradingVars, GradingInv, GradingTypeOK, EventsAreOnFilm
  <2> QED
    BY <2>1, <2>2, <2>3 DEF GradingNext
<1> QED
  BY <1>1, <1>2, PTL DEF GradingSpec

-----------------------------------------------------------------------------
(* FilmGrading: trait scores.                                              *)

LEMMA EventsAre ==
  ASSUME NEW es \in Seq(Event)
  PROVE  /\ Len(es) \in Nat /\ DOMAIN es = 1 .. Len(es) /\ IsFiniteSet(DOMAIN es)
         /\ \A i \in DOMAIN es : es[i].trait \in Official /\ es[i].value \in Int
<1>1. \A i \in DOMAIN es : es[i] \in Event
  OBVIOUS
<1>2. \A e \in Event : e.trait \in Official /\ e.value \in Delta
  BY DEF Event
<1>3. Delta \subseteq Int
  BY GradingAssumption
<1>4. Len(es) \in Nat /\ DOMAIN es = 1 .. Len(es)
  OBVIOUS
<1>5. IsFiniteSet(1 .. Len(es))
  BY <1>4, FS_Interval
<1> QED
  BY <1>1, <1>2, <1>3, <1>4, <1>5

LEMMA SamplesAre ==
  ASSUME NEW es \in Seq(Event), NEW t
  PROVE  /\ SamplesOf(es, t) \subseteq DOMAIN es /\ IsFiniteSet(SamplesOf(es, t))
         /\ \A i \in SamplesOf(es, t) : ValuesOf(es)[i] = es[i].value /\ ValuesOf(es)[i] \in Int
         /\ SumFunctionOnSet(ValuesOf(es), SamplesOf(es, t)) \in Int
<1>1. SamplesOf(es, t) \subseteq DOMAIN es
  BY DEF SamplesOf
<1>2. \A i \in DOMAIN es : ValuesOf(es)[i] = es[i].value /\ es[i].value \in Int
  BY EventsAre DEF ValuesOf
<1>3. IsFiniteSet(SamplesOf(es, t))
  BY <1>1, EventsAre, FS_Subset
<1>4. \A i \in SamplesOf(es, t) : ValuesOf(es)[i] = es[i].value /\ ValuesOf(es)[i] \in Int
  BY <1>1, <1>2
<1> QED
  BY <1>1, <1>3, <1>4, SumIsInt

LEMMA ClampIsSteady ==
  /\ \A n \in Int : Clamp(n) \in 0 .. Top
  /\ \A n, k \in Int : n <= k => Clamp(n) <= Clamp(k)
  BY GradingAssumption DEF Clamp

LEMMA ScoreIsOnScale ==
  ASSUME NEW es \in Seq(Event), NEW t
  PROVE  TraitScore(es, t) \in 0 .. Top
<1>1. Base + SumFunctionOnSet(ValuesOf(es), SamplesOf(es, t)) \in Int
  BY SamplesAre, GradingAssumption
<1> QED
  BY <1>1, ClampIsSteady DEF TraitScore

LEMMA ImageIsFinite ==
  ASSUME NEW S, IsFiniteSet(S), NEW f
  PROVE  IsFiniteSet({f[x] : x \in S})
<1> DEFINE F == {s \in SUBSET S : IsFiniteSet({f[x] : x \in s})}
<1>1. {} \in F
  BY FS_EmptySet
<1>2. ASSUME NEW s \in SUBSET S, s # {}, \A x \in s : s \ {x} \in F PROVE s \in F
  <2>1. PICK x \in s : TRUE
    BY <1>2
  <2> DEFINE A == {f[y] : y \in s \ {x}}
  <2>2. IsFiniteSet(A)
    BY <1>2
  <2>3. {f[y] : y \in s} = A \cup {f[x]}
    OBVIOUS
  <2> HIDE DEF A
  <2>4. IsFiniteSet(A \cup {f[x]})
    BY <2>2, FS_AddElement
  <2> QED
    BY <2>3, <2>4
<1>3. SUBSET S \subseteq F
  <2> HIDE DEF F
  <2> QED
    BY <1>1, <1>2, SetsByOne
<1> QED
  BY <1>3

LEMMA ScoredAreFew ==
  ASSUME NEW es \in Seq(Event)
  PROVE  IsFiniteSet(Scored(es)) /\ Scored(es) \subseteq Official
<1> DEFINE f == [i \in DOMAIN es |-> es[i].trait]
<1>1. IsFiniteSet(DOMAIN es)
  BY EventsAre
<1>2. IsFiniteSet({f[i] : i \in DOMAIN es})
  <2> HIDE DEF f
  <2> QED
    BY <1>1, ImageIsFinite
<1>3. Scored(es) \subseteq {f[i] : i \in DOMAIN es}
  BY DEF Scored, SamplesOf
<1>4. Scored(es) \subseteq Official
  BY GradingAssumption DEF Scored
<1> QED
  BY <1>2, <1>3, <1>4, FS_Subset

-----------------------------------------------------------------------------
(* FilmGrading: a mean lies between what it is of.                         *)

\* The two ends of MeanScore: what is added up, and the weight of it.
Total(es, T, times) == SumFunctionOnSet([t \in T |-> TraitScore(es, t) * times[t]], T)

Weights(T, times) == /\ IsFiniteSet(T) /\ T # {}
                     /\ \A t \in T : times[t] \in Nat \ {0}

LEMMA MeanIs ==
  ASSUME NEW es, NEW T, NEW times, T # {}
  PROVE  /\ MeanScore(es, T, times)[1] = Total(es, T, times)
         /\ MeanScore(es, T, times)[2] = SumFunctionOnSet(times, T)
<1> DEFINE f == [t \in T |-> TraitScore(es, t) * times[t]]
<1>1. DOMAIN f = T
  OBVIOUS
<1>2. SumFunction(f) = SumFunctionOnSet(f, T)
  BY <1>1, Zenon DEF SumFunction
<1>3. MeanScore(es, T, times) = <<SumFunction(f), SumFunctionOnSet(times, T)>>
  BY DEF MeanScore
<1> HIDE DEF f
<1> QED
  BY <1>2, <1>3 DEF Total, f

LEMMA TermsAre ==
  ASSUME NEW es \in Seq(Event), NEW T, NEW times, Weights(T, times), NEW t \in T
  PROVE  /\ TraitScore(es, t) \in Int /\ times[t] \in Int
         /\ TraitScore(es, t) * times[t] \in Int
<1>1. TraitScore(es, t) \in Int
  BY ScoreIsOnScale
<1>2. times[t] \in Int
  BY DEF Weights
<1> QED
  BY <1>1, <1>2

LEMMA TotalsAre ==
  ASSUME NEW es \in Seq(Event), NEW T, NEW times, Weights(T, times)
  PROVE  Total(es, T, times) \in Int /\ SumFunctionOnSet(times, T) \in Nat
<1> DEFINE f == [t \in T |-> TraitScore(es, t) * times[t]]
           none == [t \in T |-> 0 * times[t]]
<1>0. IsFiniteSet(T) /\ \A t \in T : times[t] \in Int /\ 0 <= times[t]
  BY DEF Weights
<1>1. \A t \in T : f[t] \in Int
  BY TermsAre
<1>2. SumFunctionOnSet(f, T) \in Int
  <2> HIDE DEF f
  <2> QED
    BY <1>0, <1>1, SumIsInt
<1>3. SumFunctionOnSet(times, T) \in Int
  BY <1>0, SumIsInt
<1>4. \A t \in T : none[t] \in Int /\ none[t] <= times[t]
  BY <1>0
<1>5. SumFunctionOnSet(none, T) = 0 * SumFunctionOnSet(times, T)
  BY <1>0, SumScaled
<1>6. SumFunctionOnSet(none, T) <= SumFunctionOnSet(times, T)
  <2> HIDE DEF none
  <2> QED
    BY <1>0, <1>4, SumGrows
<1> HIDE DEF none
<1> QED
  BY <1>2, <1>3, <1>5, <1>6 DEF Total

\* If every score is at most, or at least, a bound, the total is that of
\* traits that all have it.
LEMMA TotalIsAtMost ==
  ASSUME NEW es \in Seq(Event), NEW T, NEW times, Weights(T, times),
         NEW bound \in Int, \A t \in T : TraitScore(es, t) <= bound
  PROVE  Total(es, T, times) <= bound * SumFunctionOnSet(times, T)
<1> DEFINE f == [t \in T |-> TraitScore(es, t) * times[t]]
           g == [t \in T |-> bound * times[t]]
<1>0. IsFiniteSet(T) /\ \A t \in T : times[t] \in Int /\ 0 <= times[t]
  BY DEF Weights
<1>1. ASSUME NEW t \in T PROVE f[t] \in Int /\ g[t] \in Int /\ f[t] <= g[t]
  <2> DEFINE a == TraitScore(es, t)
             w == times[t]
  <2>1. a \in Int /\ w \in Int /\ 0 <= w /\ a <= bound
    BY <1>0, TermsAre
  <2>2. f[t] = a * w /\ g[t] = bound * w
    OBVIOUS
  <2> HIDE DEF a, w, f, g
  <2>3. a * w <= bound * w
    BY <2>1
  <2> QED
    BY <2>1, <2>2, <2>3
<1>2. SumFunctionOnSet(g, T) = bound * SumFunctionOnSet(times, T)
  BY <1>0, SumScaled
<1>3. SumFunctionOnSet(f, T) <= SumFunctionOnSet(g, T)
  <2> HIDE DEF f, g
  <2> QED
    BY <1>0, <1>1, SumGrows
<1> QED
  BY <1>2, <1>3 DEF Total

LEMMA TotalIsAtLeast ==
  ASSUME NEW es \in Seq(Event), NEW T, NEW times, Weights(T, times),
         NEW bound \in Int, \A t \in T : bound <= TraitScore(es, t)
  PROVE  bound * SumFunctionOnSet(times, T) <= Total(es, T, times)
<1> DEFINE f == [t \in T |-> TraitScore(es, t) * times[t]]
           g == [t \in T |-> bound * times[t]]
<1>0. IsFiniteSet(T) /\ \A t \in T : times[t] \in Int /\ 0 <= times[t]
  BY DEF Weights
<1>1. ASSUME NEW t \in T PROVE f[t] \in Int /\ g[t] \in Int /\ g[t] <= f[t]
  <2> DEFINE a == TraitScore(es, t)
             w == times[t]
  <2>1. a \in Int /\ w \in Int /\ 0 <= w /\ bound <= a
    BY <1>0, TermsAre
  <2>2. f[t] = a * w /\ g[t] = bound * w
    OBVIOUS
  <2> HIDE DEF a, w, f, g
  <2>3. bound * w <= a * w
    BY <2>1
  <2> QED
    BY <2>1, <2>2, <2>3
<1>2. SumFunctionOnSet(g, T) = bound * SumFunctionOnSet(times, T)
  BY <1>0, SumScaled
<1>3. SumFunctionOnSet(g, T) <= SumFunctionOnSet(f, T)
  <2> HIDE DEF f, g
  <2> QED
    BY <1>0, <1>1, SumGrows
<1> QED
  BY <1>2, <1>3 DEF Total

LEMMA AtMostOfOne ==
  ASSUME NEW a \in Int, NEW grade, grade[1] \in Int, grade[2] \in Nat
  PROVE  /\ AtMost(<<a, 1>>, grade) <=> a * grade[2] <= grade[1]
         /\ AtMost(grade, <<a, 1>>) <=> grade[1] <= a * grade[2]
  BY DEF AtMost

LEMMA MeanIsBetween ==
  ASSUME NEW es \in Seq(Event), NEW T, NEW times, Weights(T, times)
  PROVE  LET grade == MeanScore(es, T, times) IN
         /\ \E t \in T : AtMost(<<TraitScore(es, t), 1>>, grade)
         /\ \E t \in T : AtMost(grade, <<TraitScore(es, t), 1>>)
         /\ AtMost(<<0, 1>>, grade) /\ AtMost(grade, <<Top, 1>>)
<1> DEFINE grade == MeanScore(es, T, times)
           f == [t \in T |-> TraitScore(es, t)]
           n == Total(es, T, times)
           w == SumFunctionOnSet(times, T)
<1>0. IsFiniteSet(T) /\ T # {} /\ \A t \in T : f[t] \in Int /\ f[t] \in 0 .. Top
  BY ScoreIsOnScale DEF Weights
<1>1. grade[1] = n /\ grade[2] = w
  BY <1>0, MeanIs
<1>2. n \in Int /\ w \in Nat
  BY TotalsAre
<1>3. PICK most \in T : \A t \in T : f[t] <= f[most]
  <2> HIDE DEF f
  <2> QED
    BY <1>0, HighestExists
<1>4. PICK least \in T : \A t \in T : f[least] <= f[t]
  <2> HIDE DEF f
  <2> QED
    BY <1>0, LowestExists
<1>5. n <= f[most] * w
  BY <1>0, <1>3, TotalIsAtMost
<1>6. f[least] * w <= n
  BY <1>0, <1>4, TotalIsAtLeast
<1>7. f[most] * w <= Top * w /\ 0 <= f[least] * w /\ 0 * w = 0 /\ Top \in Nat
  <2>1. f[most] \in 0 .. Top /\ f[least] \in 0 .. Top /\ Top \in Nat
    BY <1>0, GradingAssumption
  <2> HIDE DEF f, w, n
  <2> QED
    BY <1>2, <2>1
<1>8. f[most] \in Int /\ f[least] \in Int
  BY <1>0
<1>9. /\ AtMost(<<f[least], 1>>, grade) /\ AtMost(grade, <<f[most], 1>>)
      /\ AtMost(<<0, 1>>, grade) /\ AtMost(grade, <<Top, 1>>)
  <2>1. /\ f[least] * grade[2] <= grade[1] /\ grade[1] <= f[most] * grade[2]
        /\ 0 * grade[2] <= grade[1] /\ grade[1] <= Top * grade[2]
    <3>1. /\ f[least] * w \in Int /\ f[most] * w \in Int /\ Top * w \in Int
      BY <1>2, <1>7, <1>8
    <3> HIDE DEF f, w, n, grade
    <3>2. 0 * w <= n /\ n <= Top * w
      BY <1>2, <1>5, <1>6, <1>7, <3>1
    <3> QED
      BY <1>1, <1>5, <1>6, <3>2
  <2>2. grade[1] \in Int /\ grade[2] \in Nat /\ 0 \in Int /\ Top \in Int
    BY <1>1, <1>2, <1>7
  <2> HIDE DEF f, w, n, grade
  <2>3. AtMost(<<f[least], 1>>, grade) /\ AtMost(grade, <<f[most], 1>>)
    BY <1>8, <2>1, <2>2, AtMostOfOne
  <2>4. AtMost(<<0, 1>>, grade) /\ AtMost(grade, <<Top, 1>>)
    BY <2>1, <2>2, AtMostOfOne
  <2> QED
    BY <2>3, <2>4
<1> HIDE DEF grade
<1> QED
  BY <1>9 DEF grade

LEMMA SamplesWeigh ==
  ASSUME NEW es \in Seq(Event), NEW T, T \subseteq Scored(es), T # {}
  PROVE  /\ Weights(T, WeightOf)
         /\ Weights(T, [t \in Official |-> Cardinality(SamplesOf(es, t))])
<1>1. IsFiniteSet(T) /\ T \subseteq Official
  BY ScoredAreFew, FS_Subset
<1>2. \A t \in T : WeightOf[t] \in Nat \ {0}
  BY <1>1, GradingAssumption
<1>3. ASSUME NEW t \in T PROVE Cardinality(SamplesOf(es, t)) \in Nat \ {0}
  <2>1. IsFiniteSet(SamplesOf(es, t)) /\ SamplesOf(es, t) # {}
    BY SamplesAre DEF Scored
  <2> QED
    BY <2>1, FS_CardinalityType, FS_EmptySet
<1> QED
  BY <1>1, <1>2, <1>3 DEF Weights

LEMMA BoundedGrades ==
  ASSUME GradingInv
  PROVE  GradeIsBounded
<1> DEFINE between(grade, T) ==
             /\ \E t \in T : AtMost(<<TraitScore(events, t), 1>>, grade)
             /\ \E t \in T : AtMost(grade, <<TraitScore(events, t), 1>>)
<1>0. events \in Seq(Event)
  BY DEF GradingInv, GradingTypeOK
<1>1. ASSUME Scored(events) # {}
      PROVE  /\ between(PositionGrade(events), Scored(events))
             /\ AtMost(<<0, 1>>, PositionGrade(events)) /\ AtMost(PositionGrade(events), <<Top, 1>>)
  <2>1. Weights(Scored(events), WeightOf)
    BY <1>0, <1>1, SamplesWeigh
  <2> QED
    BY <1>0, <2>1, MeanIsBetween DEF PositionGrade
<1>2. ASSUME NEW name \in DOMAIN Shown, Summary(events, name) # Unknown
      PROVE  between(Summary(events, name), Scored(events) \cap Shown[name])
  <2> DEFINE T == Scored(events) \cap Shown[name]
             times == [t \in Official |-> Cardinality(SamplesOf(events, t))]
  <2>1. T # {}
    BY <1>2 DEF Summary, MeanScore
  <2>2. T \subseteq Scored(events)
    OBVIOUS
  <2>3. Weights(T, times)
    <3> HIDE DEF T
    <3> QED
      BY <1>0, <2>1, <2>2, SamplesWeigh
  <2>4. Summary(events, name) = MeanScore(events, T, times)
    BY DEF Summary
  <2> HIDE DEF T, times
  <2>5. between(MeanScore(events, T, times), T)
    BY <1>0, <2>3, MeanIsBetween
  <2> QED
    BY <2>4, <2>5 DEF T
<1> QED
  BY <1>1, <1>2 DEF GradeIsBounded

-----------------------------------------------------------------------------
(* FilmGrading: the order of the events.                                   *)

\* What is scored of two films, trait by trait, is all a grade depends on.
LEMMA SameScoresSameGrade ==
  ASSUME NEW es, NEW ds, Scored(es) = Scored(ds),
         \A t \in Official : TraitScore(es, t) = TraitScore(ds, t)
  PROVE  PositionGrade(es) = PositionGrade(ds)
<1> DEFINE T == Scored(es)
           f == [t \in T |-> TraitScore(es, t) * WeightOf[t]]
           g == [t \in T |-> TraitScore(ds, t) * WeightOf[t]]
<1>1. f = g
  BY GradingAssumption DEF Scored
<1>2. PositionGrade(es) =
        IF T = {} THEN Unknown ELSE <<SumFunction(f), SumFunctionOnSet(WeightOf, T)>>
  BY DEF PositionGrade, MeanScore
<1>3. PositionGrade(ds) =
        IF T = {} THEN Unknown ELSE <<SumFunction(g), SumFunctionOnSet(WeightOf, T)>>
  BY DEF PositionGrade, MeanScore
<1> HIDE DEF f, g, T
<1> QED
  BY <1>1, <1>2, <1>3

LEMMA BackwardsIsTheSame ==
  ASSUME GradingInv
  PROVE  OrderNeverMatters
<1> DEFINE n == Len(events)
           back == [i \in DOMAIN events |-> events[n + 1 - i]]
           m == [i \in DOMAIN events |-> n + 1 - i]
<1>1. events \in Seq(Event)
  BY DEF GradingInv, GradingTypeOK
<1>2. n \in Nat /\ DOMAIN events = 1 .. n
  BY <1>1, EventsAre
<1>3. DOMAIN back = 1 .. n /\ \A i \in 1 .. n : back[i] = events[n + 1 - i]
  BY <1>2
<1>4. \A i \in 1 .. n : m[i] = n + 1 - i /\ m[i] \in 1 .. n /\ m[m[i]] = i
  BY <1>2
<1> HIDE DEF n, back, m
<1>5. \A i \in 1 .. n : back[m[i]] = events[i] /\ back[i] = events[m[i]]
  BY <1>2, <1>3, <1>4
<1>6. ASSUME NEW t
      PROVE  SamplesOf(back, t) = {m[i] : i \in SamplesOf(events, t)}
  BY <1>2, <1>3, <1>4, <1>5 DEF SamplesOf
<1>7. ASSUME NEW t \in Official
      PROVE  TraitScore(events, t) = TraitScore(back, t)
  <2> DEFINE S == SamplesOf(events, t)
             f == ValuesOf(events)
             g == ValuesOf(back)
             moved == {m[i] : i \in S}
  <2>1. IsFiniteSet(S) /\ S \subseteq 1 .. n /\ \A i \in S : f[i] \in Int /\ f[i] = events[i].value
    BY <1>1, <1>2, SamplesAre
  <2>2. \A i \in S : g[m[i]] = events[i].value
    BY <1>3, <1>4, <1>5, <2>1 DEF ValuesOf
  <2>3. \A i, j \in S : m[i] = m[j] => i = j
    BY <1>4, <2>1
  <2>4. SumFunctionOnSet(g, moved) = SumFunctionOnSet(f, S)
    <3>1. \A i \in S : f[i] \in Int /\ g[m[i]] = f[i]
      BY <2>1, <2>2
    <3>2. IsFiniteSet(S)
      BY <2>1
    <3> HIDE DEF S, f, g
    <3> QED
      BY <2>3, <3>1, <3>2, SumMoved, SMTT(30)
  <2>5. SamplesOf(back, t) = moved
    BY <1>6
  <2>6. /\ TraitScore(events, t) = Clamp(Base + SumFunctionOnSet(f, S))
        /\ TraitScore(back, t) = Clamp(Base + SumFunctionOnSet(g, SamplesOf(back, t)))
    BY DEF TraitScore
  <2> HIDE DEF S, f, g, moved
  <2> QED
    BY <2>4, <2>5, <2>6, Zenon
<1>8. Scored(events) = Scored(back)
  <2>1. ASSUME NEW t PROVE SamplesOf(back, t) = {} <=> SamplesOf(events, t) = {}
    <3> DEFINE S == SamplesOf(events, t)
    <3>1. SamplesOf(back, t) = {m[i] : i \in S}
      BY <1>6
    <3> HIDE DEF S
    <3>2. {m[i] : i \in S} = {} <=> S = {}
      OBVIOUS
    <3> QED
      BY <3>1, <3>2 DEF S
  <2> QED
    BY <2>1 DEF Scored
<1>9. PositionGrade(events) = PositionGrade(back)
  BY <1>7, <1>8, SameScoresSameGrade
<1> QED
  BY <1>9 DEF OrderNeverMatters, back, n

(***************************************************************************)
(* Whatever the plays and the answers about them, for any rule file and    *)
(* weights: a film is worth the same grade in any order, grades and        *)
(* summaries lie between the scores they are of, and every event is in the *)
(* evidence of its play (grading/engine.py: TruGradeFilmEngine.grade,      *)
(* football/truth_report.py: five_trait_summary, ai/football_reasoner.py:  *)
(* evidence_for_timestamp).                                                *)
(***************************************************************************)
THEOREM GradesAreSound == GradingSpec => []GradeIsSound
<1>1. GradingInv => GradeIsSound
  BY BoundedGrades, BackwardsIsTheSame DEF GradingInv, GradeIsSound
<1> QED
  BY <1>1, GradingInvariant, PTL

-----------------------------------------------------------------------------
(* FilmGrading: one event more.                                            *)

LEMMA OneEventMore ==
  ASSUME NEW es \in Seq(Event), NEW e \in Event
  PROVE  LET ds == Append(es, e) IN
         /\ ds \in Seq(Event)
         /\ \A t : t # e.trait => /\ SamplesOf(ds, t) = SamplesOf(es, t)
                                  /\ TraitScore(ds, t) = TraitScore(es, t)
         /\ SamplesOf(ds, e.trait) # {}
         /\ e.value >= 0 => TraitScore(es, e.trait) <= TraitScore(ds, e.trait)
         /\ e.value <= 0 => TraitScore(ds, e.trait) <= TraitScore(es, e.trait)
<1> DEFINE ds == Append(es, e)
           last == Len(es) + 1
<1>1. ds \in Seq(Event) /\ Len(es) \in Nat /\ DOMAIN es = 1 .. Len(es)
  BY EventsAre
<1>2. /\ DOMAIN ds = DOMAIN es \cup {last} /\ last \notin DOMAIN es
      /\ ds[last] = e /\ \A i \in DOMAIN es : ds[i] = es[i]
  BY <1>1
<1> HIDE DEF ds, last
<1>3. \A t : t # e.trait => SamplesOf(ds, t) = SamplesOf(es, t)
  BY <1>2 DEF SamplesOf
<1>4. SamplesOf(ds, e.trait) = SamplesOf(es, e.trait) \cup {last}
  BY <1>2 DEF SamplesOf
<1>5. ASSUME NEW t
      PROVE  SumFunctionOnSet(ValuesOf(ds), SamplesOf(es, t))
               = SumFunctionOnSet(ValuesOf(es), SamplesOf(es, t))
  <2> DEFINE S == SamplesOf(es, t)
             f == ValuesOf(es)
             g == ValuesOf(ds)
  <2>1. IsFiniteSet(S) /\ S \subseteq DOMAIN es /\ \A i \in S : f[i] \in Int /\ f[i] = es[i].value
    BY SamplesAre
  <2>2. \A i \in S : g[i] = es[i].value
    BY <1>2, <2>1 DEF ValuesOf
  <2>3. \A i \in S : f[i] \in Int /\ f[i] = g[i]
    BY <2>1, <2>2
  <2> HIDE DEF S, f, g
  <2>4. SumFunctionOnSet(f, S) = SumFunctionOnSet(g, S)
    BY <2>1, <2>3, SumSame
  <2> QED
    BY <2>4 DEF S, f, g
<1>6. \A t : t # e.trait => TraitScore(ds, t) = TraitScore(es, t)
  BY <1>3, <1>5 DEF TraitScore
<1> DEFINE a == SumFunctionOnSet(ValuesOf(es), SamplesOf(es, e.trait))
           b == SumFunctionOnSet(ValuesOf(ds), SamplesOf(ds, e.trait))
<1>7. a \in Int /\ e.value \in Int /\ b = e.value + a
  <2>1. SamplesOf(es, e.trait) \subseteq DOMAIN es
    BY SamplesAre
  <2>2. SamplesOf(ds, e.trait) \ {last} = SamplesOf(es, e.trait)
    BY <1>2, <1>4, <2>1
  <2>3. /\ IsFiniteSet(SamplesOf(ds, e.trait))
        /\ \A i \in SamplesOf(ds, e.trait) : ValuesOf(ds)[i] \in Int
        /\ a \in Int
    BY <1>1, SamplesAre DEF ds
  <2>4. ValuesOf(ds)[last] = e.value
    BY <1>2 DEF ValuesOf
  <2>5. b = ValuesOf(ds)[last] + SumFunctionOnSet(ValuesOf(ds), SamplesOf(ds, e.trait) \ {last})
    BY <1>4, <2>3, SumOfAny
  <2>6. ValuesOf(ds)[last] \in Int
    BY <1>4, <2>3
  <2> QED
    BY <1>5, <2>2, <2>3, <2>4, <2>5, <2>6
<1>8. TraitScore(es, e.trait) = Clamp(Base + a) /\ TraitScore(ds, e.trait) = Clamp(Base + b)
  BY DEF TraitScore
<1> HIDE DEF a, b
<1>9. /\ e.value >= 0 => TraitScore(es, e.trait) <= TraitScore(ds, e.trait)
      /\ e.value <= 0 => TraitScore(ds, e.trait) <= TraitScore(es, e.trait)
  <2>1. Base + a \in Int /\ Base + b \in Int
    BY <1>7, GradingAssumption
  <2>2. e.value >= 0 => Base + a <= Base + b
    BY <1>7, GradingAssumption
  <2>3. e.value <= 0 => Base + b <= Base + a
    BY <1>7, GradingAssumption
  <2> QED
    BY <1>8, <2>1, <2>2, <2>3, ClampIsSteady
<1>10. SamplesOf(ds, e.trait) # {}
  BY <1>4
<1> QED
  BY <1>1, <1>3, <1>6, <1>9, <1>10 DEF ds

\* If no score falls, the grade of the same traits does not.
LEMMA HigherScoresHigherGrade ==
  ASSUME NEW es \in Seq(Event), NEW ds \in Seq(Event), Scored(es) = Scored(ds),
         Scored(es) # {}, \A t \in Scored(es) : TraitScore(es, t) <= TraitScore(ds, t)
  PROVE  AtMost(PositionGrade(es), PositionGrade(ds))
<1> DEFINE T == Scored(es)
           f == [t \in T |-> TraitScore(es, t) * WeightOf[t]]
           g == [t \in T |-> TraitScore(ds, t) * WeightOf[t]]
           w == SumFunctionOnSet(WeightOf, T)
           n == Total(es, T, WeightOf)
           k == Total(ds, T, WeightOf)
<1>1. Weights(T, WeightOf)
  BY SamplesWeigh
<1>2. /\ PositionGrade(es)[1] = n /\ PositionGrade(es)[2] = w
      /\ PositionGrade(ds)[1] = k /\ PositionGrade(ds)[2] = w
  BY MeanIs DEF PositionGrade
<1>3. n \in Int /\ k \in Int /\ w \in Nat
  BY <1>1, TotalsAre
<1>4. ASSUME NEW t \in T PROVE f[t] \in Int /\ g[t] \in Int /\ f[t] <= g[t]
  <2> DEFINE a == TraitScore(es, t)
             b == TraitScore(ds, t)
             v == WeightOf[t]
  <2>1. a \in Int /\ b \in Int
    BY ScoreIsOnScale
  <2>2. v \in Int /\ 0 <= v
    BY <1>1 DEF Weights
  <2>3. a <= b
    OBVIOUS
  <2>4. f[t] = a * v /\ g[t] = b * v
    OBVIOUS
  <2> HIDE DEF a, b, v, f, g
  <2>5. a * v <= b * v
    BY <2>1, <2>2, <2>3
  <2> QED
    BY <2>1, <2>2, <2>4, <2>5
<1>5. n <= k
  <2>1. IsFiniteSet(T)
    BY <1>1 DEF Weights
  <2>2. n = SumFunctionOnSet(f, T) /\ k = SumFunctionOnSet(g, T)
    BY DEF Total
  <2> HIDE DEF f, g, T, n, k
  <2> QED
    BY <1>4, <2>1, <2>2, SumGrows
<1> HIDE DEF n, k, w
<1>6. n * w <= k * w
  BY <1>3, <1>5
<1> QED
  BY <1>2, <1>6 DEF AtMost

LEMMA OneMoreCounts ==
  ASSUME NEW es \in Seq(Event), NEW e \in Event, e.trait \in Scored(es)
  PROVE  LET ds == Append(es, e) IN
         /\ e.value >= 0 => AtMost(PositionGrade(es), PositionGrade(ds))
         /\ e.value <= 0 => AtMost(PositionGrade(ds), PositionGrade(es))
<1> DEFINE ds == Append(es, e)
<1>1. /\ ds \in Seq(Event) /\ SamplesOf(ds, e.trait) # {}
      /\ \A t : t # e.trait => /\ SamplesOf(ds, t) = SamplesOf(es, t)
                               /\ TraitScore(ds, t) = TraitScore(es, t)
      /\ e.value >= 0 => TraitScore(es, e.trait) <= TraitScore(ds, e.trait)
      /\ e.value <= 0 => TraitScore(ds, e.trait) <= TraitScore(es, e.trait)
  BY OneEventMore
<1> HIDE DEF ds
<1>2. Scored(es) = Scored(ds) /\ Scored(es) # {}
  BY <1>1 DEF Scored
<1>3. \A t : TraitScore(es, t) \in Int /\ TraitScore(ds, t) \in Int
  BY <1>1, ScoreIsOnScale
<1>4. ASSUME e.value >= 0 PROVE AtMost(PositionGrade(es), PositionGrade(ds))
  <2>1. \A t \in Scored(es) : TraitScore(es, t) <= TraitScore(ds, t)
    BY <1>1, <1>3, <1>4
  <2> QED
    BY <1>1, <1>2, <2>1, HigherScoresHigherGrade
<1>5. ASSUME e.value <= 0 PROVE AtMost(PositionGrade(ds), PositionGrade(es))
  <2>1. \A t \in Scored(ds) : TraitScore(ds, t) <= TraitScore(es, t)
    BY <1>1, <1>3, <1>5
  <2> QED
    BY <1>1, <1>2, <2>1, HigherScoresHigherGrade
<1> QED
  BY <1>4, <1>5 DEF ds

(***************************************************************************)
(* For any rule file, weights and number of events: one more good play on  *)
(* a trait that has been scored never lowers the grade and one more bad    *)
(* play never raises it (grading/engine.py: TruGradeFilmEngine.grade).     *)
(***************************************************************************)
THEOREM MoreCountsTheSameWay == GradingSpec => MoreOfTheSameCounts
<1> DEFINE Step ==
             \A t \in Scored(events) :
               Len(events') > Len(events) /\ events'[Len(events')].trait = t =>
                 LET value == events'[Len(events')].value IN
                 /\ value >= 0 => AtMost(PositionGrade(events), PositionGrade(events'))
                 /\ value <= 0 => AtMost(PositionGrade(events'), PositionGrade(events))
<1>1. GradingInv /\ [GradingNext]_gradingVars => [Step]_gradingVars
  <2> SUFFICES ASSUME GradingInv, GradingNext, NEW t \in Scored(events),
                      Len(events') > Len(events), events'[Len(events')].trait = t
               PROVE  LET value == events'[Len(events')].value IN
                      /\ value >= 0 => AtMost(PositionGrade(events), PositionGrade(events'))
                      /\ value <= 0 => AtMost(PositionGrade(events'), PositionGrade(events))
    OBVIOUS
  <2>1. events \in Seq(Event) /\ Len(events) \in Nat
    BY DEF GradingInv, GradingTypeOK
  <2>2. PICK trait \in Official, value \in Delta, at \in Second \cup {Unknown} :
          Claim(trait, value, at)
    <3>1. ~NextPlay
      BY <2>1 DEF NextPlay
    <3> QED
      BY <3>1 DEF GradingNext
  <2> DEFINE e == [trait |-> trait, value |-> value, at |-> at, play |-> reading]
  <2>3. events' = Append(events, e) /\ at \in Second
    BY <2>1, <2>2 DEF Claim
  <2>4. e \in Event
    BY <2>2, <2>3 DEF Event, Claim
  <2> HIDE DEF e
  <2>5. events'[Len(events')] = e
    BY <2>1, <2>3
  <2>6. e.trait \in Scored(events)
    BY <2>5
  <2>7. /\ e.value >= 0 => AtMost(PositionGrade(events), PositionGrade(events'))
        /\ e.value <= 0 => AtMost(PositionGrade(events'), PositionGrade(events))
    BY <2>1, <2>3, <2>4, <2>6, OneMoreCounts
  <2> QED
    BY <2>5, <2>7
<1>2. GradingSpec => [][Step]_gradingVars
  <2> HIDE DEF Step
  <2> QED
    BY <1>1, GradingInvariant, PTL DEF GradingSpec
<1> QED
  BY <1>2 DEF MoreOfTheSameCounts
=============================================================================
