----------------------------- MODULE SumLemmas -----------------------------
(***************************************************************************)
(* Least numbers, smallest sets, extremes of finite sets of numbers, what    *)
(* MapThenSumSet and FlattenSeq of the community modules return, the         *)
(* elements of sequences, and what the operators of Sorting return for every *)
(* finite set: what the proofs of several components need.                   *)
(* The induction theorems of the library take an operator, which the provers *)
(* cannot instantiate: here every induction is a smallest counterexample, by *)
(* the minimal element of a well-founded order.                              *)
(***************************************************************************)
EXTENDS Sorting, FiniteSetTheorems, SequenceTheorems, TLAPS

-----------------------------------------------------------------------------
(* Smallest counterexamples *)

\* A set of natural numbers that is not empty has a least element.
LEMMA LeastNatural ==
  ASSUME NEW S \in SUBSET Nat, S # {}
  PROVE  \E m \in S : \A n \in S : m <= n
<1> DEFINE Less == {pair \in Nat \X Nat : pair[1] < pair[2]}
<1>1. IsWellFoundedOn(Less, Nat)
  BY NatLessThanWellFounded DEF OpToRel
<1>2. \E m \in S : \A n \in S : <<n, m>> \notin Less
  <2> HIDE DEF Less
  <2> QED
    BY <1>1, WFMin
<1>3. PICK m \in S : \A n \in S : <<n, m>> \notin Less
  BY <1>2
<1>4. ASSUME NEW n \in S PROVE m <= n
  <2>1. <<n, m>> \notin Less /\ n \in Nat /\ m \in Nat
    BY <1>3
  <2> QED
    BY <2>1
<1> QED
  BY <1>4

\* What holds of 0 and passes from each number to the next holds of all: the
\* set of the numbers up to n of which it holds is given.
LEMMA UpToNumber ==
  ASSUME NEW n \in Nat, NEW P, 0 \in P, \A i \in 0..(n - 1) : i \in P => i + 1 \in P
  PROVE  \A i \in 0..n : i \in P
<1> SUFFICES ASSUME NEW j \in 0..n, j \notin P PROVE FALSE
  OBVIOUS
<1> DEFINE Bad == {i \in 0..n : i \notin P}
<1>1. PICK i \in Bad : \A k \in Bad : i <= k
  <2> Bad \subseteq Nat /\ Bad # {}
    OBVIOUS
  <2> HIDE DEF Bad
  <2> QED
    BY LeastNatural
<1>2. i # 0 /\ i - 1 \in 0..(n - 1) /\ i - 1 \notin Bad
  BY <1>1
<1> QED
  BY <1>1, <1>2

\* In a set of finite sets that is not empty one is of least cardinality.
LEMMA SmallestSet ==
  ASSUME NEW C, C # {}, \A s \in C : IsFiniteSet(s)
  PROVE  \E m \in C : \A s \in C : Cardinality(m) <= Cardinality(s)
<1> DEFINE N == {Cardinality(s) : s \in C}
<1>1. N \in SUBSET Nat /\ N # {}
  BY FS_CardinalityType
<1>2. PICK k \in N : \A n \in N : k <= n
  <2> HIDE DEF N
  <2> QED
    BY <1>1, LeastNatural
<1> QED
  BY <1>2

\* The values of a function on a finite set are finitely many.
LEMMA FiniteImage ==
  ASSUME NEW S, IsFiniteSet(S), NEW f
  PROVE  IsFiniteSet({f[x] : x \in S})
<1> DEFINE T == {f[x] : x \in S}
           g == [x \in S |-> f[x]]
<1>1. g \in Surjection(S, T)
  BY DEF Surjection
<1> QED
  BY <1>1, FS_Surjection

\* A finite set of integers that is not empty has a largest and a smallest element.
LEMMA ExtremesExist ==
  ASSUME NEW S \in SUBSET Int, IsFiniteSet(S), S # {}
  PROVE  /\ Max(S) \in S /\ \A x \in S : x <= Max(S)
         /\ Min(S) \in S /\ \A x \in S : Min(S) <= x
<1>1. \E m \in S : \A x \in S : m >= x
  <2> DEFINE Above(x) == {y \in S : y > x}
             N == {Cardinality(Above(x)) : x \in S}
  <2>1. \A x \in S : IsFiniteSet(Above(x)) /\ Cardinality(Above(x)) \in Nat
    BY FS_Subset, FS_CardinalityType
  <2>2. PICK n \in N : \A k \in N : n <= k
    <3>1. N \in SUBSET Nat /\ N # {}
      BY <2>1
    <3> HIDE DEF N
    <3> QED
      BY <3>1, LeastNatural
  <2>3. PICK m \in S : n = Cardinality(Above(m))
    OBVIOUS
  <2>4. ASSUME NEW x \in S, x > m PROVE FALSE
    <3>1. Above(x) \subseteq Above(m) /\ x \in Above(m) /\ x \notin Above(x)
      <4>1. m \in Int /\ x \in Int /\ \A y \in S : y \in Int
        OBVIOUS
      <4>2. ~(x > x) /\ \A y \in S : y > x => y > m
        BY <2>4, <4>1
      <4> QED
        BY <2>4, <4>2
    <3>2. Cardinality(Above(x)) < Cardinality(Above(m))
      <4> HIDE DEF Above
      <4>1. Above(x) # Above(m)
        BY <3>1
      <4> QED
        BY <2>1, <3>1, <4>1, FS_Subset
    <3>3. n <= Cardinality(Above(x))
      BY <2>2
    <3>4. n \in Nat /\ n = Cardinality(Above(m)) /\ Cardinality(Above(x)) \in Nat
      BY <2>1, <2>3
    <3> HIDE DEF Above
    <3> QED
      BY <3>2, <3>3, <3>4
  <2> QED
    BY <2>4
<1>2. \E m \in S : \A x \in S : m =< x
  <2> DEFINE Below(x) == {y \in S : y < x}
             N == {Cardinality(Below(x)) : x \in S}
  <2>1. \A x \in S : IsFiniteSet(Below(x)) /\ Cardinality(Below(x)) \in Nat
    BY FS_Subset, FS_CardinalityType
  <2>2. PICK n \in N : \A k \in N : n <= k
    <3>1. N \in SUBSET Nat /\ N # {}
      BY <2>1
    <3> HIDE DEF N
    <3> QED
      BY <3>1, LeastNatural
  <2>3. PICK m \in S : n = Cardinality(Below(m))
    OBVIOUS
  <2>4. ASSUME NEW x \in S, x < m PROVE FALSE
    <3>1. Below(x) \subseteq Below(m) /\ x \in Below(m) /\ x \notin Below(x)
      <4>1. m \in Int /\ x \in Int /\ \A y \in S : y \in Int
        OBVIOUS
      <4>2. ~(x < x) /\ \A y \in S : y < x => y < m
        BY <2>4, <4>1
      <4> QED
        BY <2>4, <4>2
    <3>2. Cardinality(Below(x)) < Cardinality(Below(m))
      <4> HIDE DEF Below
      <4>1. Below(x) # Below(m)
        BY <3>1
      <4> QED
        BY <2>1, <3>1, <4>1, FS_Subset
    <3>3. n <= Cardinality(Below(x))
      BY <2>2
    <3>4. n \in Nat /\ n = Cardinality(Below(m)) /\ Cardinality(Below(x)) \in Nat
      BY <2>1, <2>3
    <3> HIDE DEF Below
    <3> QED
      BY <3>2, <3>3, <3>4
  <2> QED
    BY <2>4
<1>3. Max(S) \in S /\ \A x \in S : Max(S) >= x
  BY <1>1 DEF Max
<1>4. Min(S) \in S /\ \A x \in S : Min(S) =< x
  BY <1>2 DEF Min
<1> QED
  BY <1>3, <1>4

\* A number above all of a set does not change what the least one is.
LEMMA LeastStays ==
  ASSUME NEW n \in Nat, NEW S \in SUBSET (1..n)
  PROVE  Min(S \cup {n + 1}) = IF S = {} THEN n + 1 ELSE Min(S)
<1> DEFINE T == S \cup {n + 1}
<1>1. S \in SUBSET Int /\ T \in SUBSET Int /\ T # {} /\ n + 1 \in T
  OBVIOUS
<1>2. IsFiniteSet(S) /\ IsFiniteSet(T)
  <2>1. IsFiniteSet(1..n)
    BY FS_Interval
  <2>2. IsFiniteSet(S)
    BY <2>1, FS_Subset
  <2> QED
    BY <2>2, FS_AddElement
<1>3. Min(T) \in T /\ \A x \in T : Min(T) <= x
  <2> HIDE DEF T
  <2> QED
    BY <1>1, <1>2, ExtremesExist
<1>4. S # {} => Min(S) \in S /\ \A x \in S : Min(S) <= x
  BY <1>1, <1>2, ExtremesExist
<1>5. CASE S = {}
  BY <1>3, <1>5
<1>6. CASE S # {}
  <2>1. Min(S) \in S /\ Min(T) <= Min(S)
    BY <1>3, <1>4, <1>6
  <2>2. Min(S) \in 1..n /\ Min(T) \in Int
    BY <1>1, <1>3, <2>1
  <2>3. Min(T) # n + 1
    BY <2>1, <2>2
  <2>4. Min(T) \in S
    BY <1>3, <2>3
  <2>5. Min(S) <= Min(T)
    BY <1>4, <1>6, <2>4
  <2> HIDE DEF T
  <2>6. Min(T) = Min(S)
    BY <2>1, <2>2, <2>5
  <2> QED
    BY <1>6, <2>6 DEF T
<1> QED
  BY <1>5, <1>6

\* The numbers up to n are n.
LEMMA NumbersUpTo ==
  ASSUME NEW n \in Nat
  PROVE  IsFiniteSet(1..n) /\ Cardinality(1..n) = n
<1>1. 1 \in Int /\ n \in Int
  OBVIOUS
<1>2. IsFiniteSet(1..n) /\ Cardinality(1..n) = IF 1 > n THEN 0 ELSE n - 1 + 1
  BY <1>1, FS_Interval
<1> QED
  BY <1>2

-----------------------------------------------------------------------------
(* Sums *)

\* The sum of the values of f over a set.
Total(f, S) == MapThenSumSet(LAMBDA x : f[x], S)

\* The element that MapThenSumSet takes next.
Taken(s) == CHOOSE x \in s : TRUE

\* A function that sums f up over the subsets of S, as MapThenSumSet does.
SumsUp(g, f, S) ==
  g = [s \in SUBSET S |-> IF s = {} THEN 0 ELSE f[Taken(s)] + g[s \ {Taken(s)}]]

\* Such a function exists: it is built up by cardinality.
LEMMA SumsExist ==
  ASSUME NEW S, IsFiniteSet(S), NEW f, \A x \in S : f[x] \in Int
  PROVE  \E g \in [SUBSET S -> Int] : SumsUp(g, f, S)
<1> DEFINE Upto(n) == {s \in SUBSET S : Cardinality(s) <= n}
           Sum(g, n) == \A s \in Upto(n) :
             g[s] = IF s = {} THEN 0 ELSE f[Taken(s)] + g[s \ {Taken(s)}]
           Exists(n) == \E g \in [Upto(n) -> Int] : Sum(g, n)
           P == {n \in Nat : Exists(n)}
<1>0. \A s \in SUBSET S : IsFiniteSet(s) /\ Cardinality(s) \in Nat
  BY FS_Subset, FS_CardinalityType
<1>1. \A s \in SUBSET S : s # {} => /\ Taken(s) \in s
                                    /\ s \ {Taken(s)} \in SUBSET S
                                    /\ Cardinality(s \ {Taken(s)}) = Cardinality(s) - 1
  BY <1>0, FS_RemoveElement DEF Taken
<1>2. 0 \in P
  <2> DEFINE g == [s \in Upto(0) |-> 0]
  <2>1. \A s \in Upto(0) : s = {}
    BY <1>0, FS_EmptySet
  <2>2. g \in [Upto(0) -> Int] /\ Sum(g, 0)
    BY <2>1
  <2> QED
    BY <2>2
<1>3. ASSUME NEW n \in Nat, n \in P PROVE n + 1 \in P
  <2>1. PICK g \in [Upto(n) -> Int] : Sum(g, n)
    BY <1>3
  <2> DEFINE h == [s \in Upto(n + 1) |->
               IF s = {} THEN 0 ELSE f[Taken(s)] + g[s \ {Taken(s)}]]
  <2>2. \A s \in Upto(n + 1) : s # {} => /\ Taken(s) \in s
                                         /\ s \ {Taken(s)} \in Upto(n)
    BY <1>0, <1>1
  <2>3. h \in [Upto(n + 1) -> Int]
    BY <2>1, <2>2
  <2>4. \A s \in Upto(n) : s \in Upto(n + 1) /\ h[s] = g[s]
    BY <1>0, <2>1
  <2>5. Sum(h, n + 1)
    BY <2>2, <2>4
  <2>6. Exists(n + 1)
    <3> HIDE DEF h
    <3> QED
      BY <2>3, <2>5
  <2> HIDE DEF Exists
  <2> QED
    BY <2>6
<1>4. Cardinality(S) \in P
  <2> HIDE DEF P
  <2>1. Cardinality(S) \in Nat
    BY <1>0
  <2> QED
    BY <1>2, <1>3, <2>1, UpToNumber
<1>5. PICK g \in [Upto(Cardinality(S)) -> Int] : Sum(g, Cardinality(S))
  BY <1>4
<1>6. Upto(Cardinality(S)) = SUBSET S
  BY FS_Subset, FS_CardinalityType
<1>7. SumsUp(g, f, S)
  BY <1>5, <1>6 DEF SumsUp
<1> QED
  BY <1>5, <1>6, <1>7

\* It is the only one.
LEMMA SumsAreUnique ==
  ASSUME NEW S, IsFiniteSet(S), NEW f, NEW g, NEW h, SumsUp(g, f, S), SumsUp(h, f, S)
  PROVE  g = h
<1>1. ASSUME NEW t \in SUBSET S, g[t] # h[t] PROVE FALSE
  <2> DEFINE Bad == {s \in SUBSET S : g[s] # h[s]}
  <2>1. \A s \in SUBSET S : IsFiniteSet(s) /\ Cardinality(s) \in Nat
    BY FS_Subset, FS_CardinalityType
  <2>2. PICK m \in Bad : \A s \in Bad : Cardinality(m) <= Cardinality(s)
    <3> Bad # {} /\ \A s \in Bad : IsFiniteSet(s)
      BY <1>1, <2>1
    <3> HIDE DEF Bad
    <3> QED
      BY SmallestSet
  <2>3. m # {} /\ Taken(m) \in m
    BY <2>2 DEF SumsUp, Taken
  <2>4. Cardinality(m \ {Taken(m)}) = Cardinality(m) - 1
    BY <2>1, <2>3, FS_RemoveElement
  <2>5. m \ {Taken(m)} \notin Bad
    BY <2>1, <2>2, <2>4
  <2> QED
    BY <2>2, <2>3, <2>5 DEF SumsUp
<1> QED
  BY <1>1 DEF SumsUp

\* MapThenSumSet returns what a function returns that sums up.
LEMMA TotalIsSum ==
  ASSUME NEW S, IsFiniteSet(S), NEW f, NEW g, SumsUp(g, f, S)
  PROVE  Total(f, S) = g[S]
<1> DEFINE sums == CHOOSE h : SumsUp(h, f, S)
<1>1. Total(f, S) = sums[S]
  BY Zenon DEF Total, MapThenSumSet, MapThenFoldSet, SumsUp, Taken
<1>2. SumsUp(sums, f, S)
  BY Zenon
<1> QED
  BY <1>1, <1>2, SumsAreUnique

\* The sum over the empty set is 0; sums of integers are integers; and a sum is
\* the value of any one element, and the sum over the others.
LEMMA TotalProperties ==
  ASSUME NEW S, IsFiniteSet(S), NEW f, \A x \in S : f[x] \in Int
  PROVE  /\ Total(f, {}) = 0
         /\ \A T \in SUBSET S : Total(f, T) \in Int
         /\ \A T \in SUBSET S : \A x \in T : Total(f, T) = f[x] + Total(f, T \ {x})
<1>1. PICK g \in [SUBSET S -> Int] : SumsUp(g, f, S)
  BY SumsExist
<1>0. \A T \in SUBSET S : IsFiniteSet(T) /\ Cardinality(T) \in Nat
  BY FS_Subset, FS_CardinalityType
<1>2. ASSUME NEW T \in SUBSET S PROVE Total(f, T) = g[T]
  <2> DEFINE h == [s \in SUBSET T |-> g[s]]
  <2>1. SumsUp(h, f, T)
    BY <1>1 DEF SumsUp
  <2>2. Total(f, T) = h[T]
    <3> HIDE DEF h
    <3> QED
      BY <1>0, <2>1, TotalIsSum
  <2> QED
    BY <2>2
<1>3. \A T \in SUBSET S : T # {} => /\ Taken(T) \in T
                                    /\ Total(f, T) = f[Taken(T)] + Total(f, T \ {Taken(T)})
  BY <1>1, <1>2 DEF SumsUp, Taken
<1>4. Total(f, {}) = 0 /\ \A T \in SUBSET S : Total(f, T) \in Int
  <2>1. {} \in SUBSET S /\ g[{}] = 0
    BY <1>1 DEF SumsUp
  <2> QED
    BY <1>2, <2>1
<1>5. ASSUME NEW U \in SUBSET S, \E x \in U : Total(f, U) # f[x] + Total(f, U \ {x})
      PROVE  FALSE
  <2> DEFINE Bad == {T \in SUBSET S : \E x \in T : Total(f, T) # f[x] + Total(f, T \ {x})}
  <2>1. PICK m \in Bad : \A s \in Bad : Cardinality(m) <= Cardinality(s)
    <3> Bad # {} /\ \A s \in Bad : IsFiniteSet(s)
      BY <1>0, <1>5
    <3> HIDE DEF Bad
    <3> QED
      BY SmallestSet
  <2>2. PICK x \in m : Total(f, m) # f[x] + Total(f, m \ {x})
    BY <2>1
  <2> DEFINE y == Taken(m)
  <2>3. y \in m /\ y # x /\ Total(f, m) = f[y] + Total(f, m \ {y})
    BY <1>3, <2>1, <2>2
  <2> HIDE DEF y
  <2>4. \A z \in m : Cardinality(m \ {z}) = Cardinality(m) - 1
    BY <1>0, FS_RemoveElement
  <2>5. m \ {x} \notin Bad /\ m \ {y} \notin Bad
    BY <1>0, <2>1, <2>3, <2>4
  <2>6. /\ Total(f, m \ {y}) = f[x] + Total(f, (m \ {y}) \ {x})
        /\ Total(f, m \ {x}) = f[y] + Total(f, (m \ {x}) \ {y})
    BY <2>3, <2>5
  <2> DEFINE rest == Total(f, (m \ {x}) \ {y})
  <2>7. Total(f, (m \ {y}) \ {x}) = rest
    <3>1. (m \ {y}) \ {x} = (m \ {x}) \ {y}
      OBVIOUS
    <3> QED
      BY <3>1
  <2>8. f[x] \in Int /\ f[y] \in Int /\ rest \in Int
    BY <1>4, <2>3
  <2>9. Total(f, m) = f[y] + (f[x] + rest) /\ Total(f, m \ {x}) = f[y] + rest
    BY <2>3, <2>6, <2>7
  <2> HIDE DEF Bad, rest
  <2> QED
    BY <2>2, <2>8, <2>9
<1> QED
  BY <1>4, <1>5

\* Functions with the same values have the same sum.
LEMMA SameTotal ==
  ASSUME NEW S, IsFiniteSet(S), NEW f, NEW g, \A x \in S : f[x] \in Int /\ g[x] = f[x]
  PROVE  Total(g, S) = Total(f, S)
<1>1. PICK h \in [SUBSET S -> Int] : SumsUp(h, f, S)
  BY SumsExist
<1>2. SumsUp(h, g, S)
  <2>1. \A s \in SUBSET S : s # {} => Taken(s) \in S
    BY DEF Taken
  <2> QED
    BY <1>1, <2>1 DEF SumsUp
<1> QED
  BY <1>1, <1>2, TotalIsSum

\* One more element adds its value.
LEMMA TotalGrows ==
  ASSUME NEW S, IsFiniteSet(S), NEW x, x \notin S, NEW f, NEW g,
         \A y \in S : f[y] \in Int /\ g[y] = f[y], g[x] \in Int
  PROVE  Total(g, S \cup {x}) = Total(f, S) + g[x]
<1>1. IsFiniteSet(S \cup {x}) /\ (S \cup {x}) \ {x} = S
  BY FS_AddElement
<1>2. Total(g, S) = Total(f, S) /\ Total(f, S) \in Int
  <2>1. S \in SUBSET S
    OBVIOUS
  <2> QED
    BY <2>1, SameTotal, TotalProperties
<1>3. Total(g, S \cup {x}) = g[x] + Total(g, (S \cup {x}) \ {x})
  <2>1. S \cup {x} \in SUBSET (S \cup {x}) /\ x \in S \cup {x}
    OBVIOUS
  <2>2. \A y \in S \cup {x} : g[y] \in Int
    OBVIOUS
  <2> QED
    BY <1>1, <2>1, <2>2, TotalProperties
<1>4. Total(g, S \cup {x}) = g[x] + Total(g, S)
  BY <1>1, <1>3, Zenon
<1> HIDE DEF Total
<1> QED
  BY <1>2, <1>4

\* A sum in which one value changes changes by the same amount.
LEMMA TotalChangesBy ==
  ASSUME NEW S, IsFiniteSet(S), NEW f, NEW g, NEW x \in S,
         \A y \in S : f[y] \in Int /\ g[y] \in Int,
         \A y \in S \ {x} : g[y] = f[y]
  PROVE  Total(g, S) = Total(f, S) + (g[x] - f[x])
<1>1. IsFiniteSet(S \ {x})
  BY FS_RemoveElement
<1>2. Total(g, S \ {x}) = Total(f, S \ {x})
  BY <1>1, SameTotal
<1>3. Total(f, S) = f[x] + Total(f, S \ {x}) /\ Total(f, S \ {x}) \in Int
  <2>1. S \in SUBSET S /\ S \ {x} \in SUBSET S
    OBVIOUS
  <2> QED
    BY <2>1, TotalProperties
<1>4. Total(g, S) = g[x] + Total(g, S \ {x})
  <2>1. S \in SUBSET S
    OBVIOUS
  <2> QED
    BY <2>1, TotalProperties
<1> QED
  BY <1>2, <1>3, <1>4

\* A sum of zeros is zero, and one of natural numbers is not less than each.
LEMMA TotalOfNaturals ==
  ASSUME NEW S, IsFiniteSet(S), NEW f, \A x \in S : f[x] \in Nat
  PROVE  /\ Total(f, S) \in Nat
         /\ \A x \in S : f[x] <= Total(f, S)
         /\ (\A x \in S : f[x] = 0) => Total(f, S) = 0
<1>0. \A T \in SUBSET S : IsFiniteSet(T) /\ Cardinality(T) \in Nat
  BY FS_Subset, FS_CardinalityType
<1> DEFINE Fine(T) == /\ Total(f, T) >= 0
                      /\ (\A x \in T : f[x] = 0) => Total(f, T) = 0
           Bad == {T \in SUBSET S : ~Fine(T)}
<1>1. /\ Total(f, {}) = 0
      /\ \A T \in SUBSET S : Total(f, T) \in Int
      /\ \A T \in SUBSET S : \A x \in T : Total(f, T) = f[x] + Total(f, T \ {x})
  BY TotalProperties
<1>2. Bad = {}
  <2> SUFFICES ASSUME Bad # {} PROVE FALSE
    OBVIOUS
  <2>1. PICK m \in Bad : \A s \in Bad : Cardinality(m) <= Cardinality(s)
    <3> \A s \in Bad : IsFiniteSet(s)
      BY <1>0
    <3> HIDE DEF Bad
    <3> QED
      BY SmallestSet
  <2>2. PICK x \in m : TRUE
    BY <1>1, <2>1
  <2>3. Cardinality(m \ {x}) = Cardinality(m) - 1
    BY <1>0, <2>2, FS_RemoveElement
  <2>4. m \ {x} \notin Bad
    BY <1>0, <2>1, <2>3
  <2> QED
    BY <1>1, <2>1, <2>2, <2>4
<1>3. \A T \in SUBSET S : Fine(T)
  BY <1>2
<1>4. ASSUME NEW x \in S PROVE f[x] <= Total(f, S)
  <2>1. Total(f, S \ {x}) >= 0 /\ Total(f, S \ {x}) \in Int
    BY <1>1, <1>3
  <2> QED
    BY <1>1, <2>1
<1> QED
  BY <1>1, <1>3, <1>4

\* A sum over the numbers up to m + 1 is the sum up to m, and the last value.
LEMMA TotalToNext ==
  ASSUME NEW m \in Nat, NEW f, \A k \in 1..(m + 1) : f[k] \in Int
  PROVE  Total(f, 1..(m + 1)) = Total(f, 1..m) + f[m + 1]
<1> DEFINE S == 1..m
           x == m + 1
<1>1. IsFiniteSet(S) /\ x \notin S /\ 1..(m + 1) = S \cup {x}
  BY FS_Interval
<1>2. f[x] \in Int /\ \A y \in S : f[y] \in Int /\ f[y] = f[y]
  OBVIOUS
<1> HIDE DEF S, x
<1>3. Total(f, S \cup {x}) = Total(f, S) + f[x]
  BY <1>1, <1>2, TotalGrows
<1>4. Total(f, 1..(m + 1)) = Total(f, S) + f[x]
  BY <1>1, <1>3, Zenon
<1> QED
  BY <1>4 DEF S, x

\* A sum over the numbers from 1 on is the first value and the sum of the
\* values moved down by one.
LEMMA TotalShifts ==
  ASSUME NEW n \in Nat, NEW f, NEW g,
         \A k \in 1..(n + 1) : f[k] \in Int, \A k \in 1..n : g[k] = f[k + 1]
  PROVE  Total(f, 1..(n + 1)) = f[1] + Total(g, 1..n)
<1> DEFINE P == {m \in 0..n : Total(f, 1..(m + 1)) = f[1] + Total(g, 1..m)}
<1>1. 0 \in P
  <2>1. IsFiniteSet({}) /\ 1..0 = {} /\ 1..1 = {} \cup {1}
    BY FS_EmptySet
  <2>2. \A h : Total(h, {}) = 0
    BY <2>1, TotalProperties
  <2>3. Total(f, {} \cup {1}) = Total(f, {}) + f[1]
    BY <2>1, TotalGrows
  <2>4. Total(f, 1..1) = f[1]
    BY <2>1, <2>2, <2>3
  <2>5. Total(g, 1..0) = 0
    BY <2>1, <2>2
  <2> HIDE DEF Total
  <2> QED
    BY <2>4, <2>5
<1>2. ASSUME NEW m \in 0..(n - 1), m \in P PROVE m + 1 \in P
  <2>1. IsFiniteSet(1..m)
    BY FS_Interval
  <2>2. /\ f[m + 2] \in Int /\ \A k \in 1..(m + 1) : f[k] \in Int
        /\ g[m + 1] = f[m + 2] /\ \A k \in 1..m : g[k] \in Int
    OBVIOUS
  <2>3. Total(f, 1..(m + 2)) = Total(f, 1..(m + 1)) + f[m + 2]
    <3>1. m + 1 \in Nat /\ (m + 1) + 1 = m + 2
      OBVIOUS
    <3>2. \A k \in 1..((m + 1) + 1) : f[k] \in Int
      BY <2>2
    <3>3. Total(f, 1..((m + 1) + 1)) = Total(f, 1..(m + 1)) + f[(m + 1) + 1]
      BY <3>1, <3>2, TotalToNext
    <3> QED
      BY <3>1, <3>3
  <2>4. Total(g, 1..(m + 1)) = Total(g, 1..m) + g[m + 1]
    <3>1. \A k \in 1..(m + 1) : g[k] \in Int
      OBVIOUS
    <3> QED
      BY <3>1, TotalToNext
  <2>5. Total(g, 1..m) \in Int
    BY <2>1, <2>2, TotalProperties
  <2>6. Total(f, 1..(m + 1)) = f[1] + Total(g, 1..m) /\ f[1] \in Int
    BY <1>2
  <2>7. (m + 1) + 1 = m + 2 /\ m + 1 \in 0..n
    OBVIOUS
  <2> HIDE DEF Total
  <2>8. Total(f, 1..(m + 2)) = f[1] + Total(g, 1..(m + 1))
    BY <2>2, <2>3, <2>4, <2>5, <2>6
  <2> QED
    BY <2>7, <2>8
<1>3. n \in P
  <2> HIDE DEF P
  <2> QED
    BY <1>1, <1>2, UpToNumber
<1> QED
  BY <1>3

\* The sum of opposite numbers is the opposite number.
LEMMA TotalNegated ==
  ASSUME NEW S, IsFiniteSet(S), NEW f, NEW g, \A x \in S : f[x] \in Int /\ g[x] = -f[x]
  PROVE  Total(g, S) = -Total(f, S)
<1>1. PICK h \in [SUBSET S -> Int] : SumsUp(h, f, S)
  BY SumsExist
<1> DEFINE opposite == [s \in SUBSET S |-> -h[s]]
<1>2. SumsUp(opposite, g, S)
  <2>1. \A s \in SUBSET S : s # {} => Taken(s) \in S /\ s \ {Taken(s)} \in SUBSET S
    BY DEF Taken
  <2>2. \A s \in SUBSET S : h[s] = IF s = {} THEN 0 ELSE f[Taken(s)] + h[s \ {Taken(s)}]
    BY <1>1 DEF SumsUp
  <2>3. ASSUME NEW s \in SUBSET S
        PROVE  opposite[s] = IF s = {} THEN 0 ELSE g[Taken(s)] + opposite[s \ {Taken(s)}]
    <3>1. CASE s = {}
      BY <2>2, <3>1
    <3>2. CASE s # {}
      <4>1. PICK x \in S, t \in SUBSET S : x = Taken(s) /\ t = s \ {Taken(s)}
        BY <2>1, <3>2
      <4>2. h[s] = f[x] + h[t] /\ f[x] \in Int /\ h[t] \in Int /\ g[x] = -f[x]
        BY <1>1, <2>2, <3>2, <4>1
      <4>3. opposite[s] = -h[s] /\ opposite[t] = -h[t]
        OBVIOUS
      <4>4. opposite[s] = g[x] + opposite[t]
        BY <4>2, <4>3
      <4> QED
        BY <3>2, <4>1, <4>4
    <3> QED
      BY <3>1, <3>2
  <2>4. opposite = [s \in SUBSET S |->
                     IF s = {} THEN 0 ELSE g[Taken(s)] + opposite[s \ {Taken(s)}]]
    <3> DEFINE other == [s \in SUBSET S |->
                          IF s = {} THEN 0 ELSE g[Taken(s)] + opposite[s \ {Taken(s)}]]
    <3>1. \A s \in SUBSET S : opposite[s] = other[s]
      BY <2>3
    <3>2. DOMAIN opposite = SUBSET S /\ DOMAIN other = SUBSET S
      OBVIOUS
    <3>3. opposite = [s \in SUBSET S |-> opposite[s]] /\ other = [s \in SUBSET S |-> other[s]]
      OBVIOUS
    <3> HIDE DEF other, opposite
    <3>4. opposite = other
      BY <3>1, <3>3
    <3> QED
      BY <3>4 DEF other
  <2> QED
    BY <2>4 DEF SumsUp
<1>3. Total(f, S) = h[S] /\ Total(g, S) = opposite[S]
  <2> HIDE DEF opposite
  <2> QED
    BY <1>1, <1>2, TotalIsSum
<1> QED
  BY <1>3

-----------------------------------------------------------------------------
(* Sequences *)

\* Appending to what is concatenated.
LEMMA AppendAfterConcat ==
  ASSUME NEW S, NEW s \in Seq(S), NEW t \in Seq(S), NEW x \in S
  PROVE  s \o Append(t, x) = Append(s \o t, x)
<1>1. Append(t, x) = t \o <<x>> /\ Append(s \o t, x) = (s \o t) \o <<x>>
  BY AppendIsConcat, ConcatProperties
<1> QED
  BY <1>1, ConcatAssociative

\* A function that FlattenSeq takes its result from.
Flattens(f, seqs, n) ==
  f = [i \in 1..n |-> IF i = 1 THEN seqs[i] ELSE f[i - 1] \o seqs[i]]

\* There is one for each number of sequences.
LEMMA FlattensExist ==
  ASSUME NEW seqs, NEW n \in Nat
  PROVE  \E f : Flattens(f, seqs, n)
<1> DEFINE S == {m \in Nat : ~ \E f : Flattens(f, seqs, m)}
<1> SUFFICES ASSUME S # {} PROVE FALSE
  OBVIOUS
<1>1. PICK m \in S : \A k \in S : m <= k
  BY LeastNatural
<1>2. CASE m = 0
  <2> DEFINE f == [i \in 1..0 |-> 0]
  <2>1. Flattens(f, seqs, 0)
    <3>1. 1..0 = {}
      OBVIOUS
    <3> QED
      BY <3>1 DEF Flattens
  <2> QED
    BY <1>2, <2>1
<1>3. CASE m # 0
  <2>1. m - 1 \in Nat /\ m - 1 \notin S
    BY <1>1, <1>3
  <2>2. PICK g : Flattens(g, seqs, m - 1)
    BY <2>1
  <2> DEFINE f == [i \in 1..m |-> IF i = m THEN IF i = 1 THEN seqs[i] ELSE g[i - 1] \o seqs[i]
                                  ELSE g[i]]
  <2>3. \A i \in 1..(m - 1) : g[i] = IF i = 1 THEN seqs[i] ELSE g[i - 1] \o seqs[i]
    BY <2>2 DEF Flattens
  <2>4. \A i \in 1..m : f[i] = IF i = 1 THEN seqs[i] ELSE f[i - 1] \o seqs[i]
    <3> SUFFICES ASSUME NEW i \in 1..m
                 PROVE  f[i] = IF i = 1 THEN seqs[i] ELSE f[i - 1] \o seqs[i]
      OBVIOUS
    <3>1. i # 1 => i - 1 \in 1..m /\ i - 1 # m /\ f[i - 1] = g[i - 1]
      BY <2>1
    <3>2. CASE i = m
      BY <3>1, <3>2
    <3>3. CASE i # m
      <4>1. i \in 1..(m - 1) /\ f[i] = g[i]
        BY <2>1, <3>3
      <4> QED
        BY <2>3, <3>1, <4>1
    <3> QED
      BY <3>2, <3>3
  <2>5. f = [i \in 1..m |-> f[i]]
    OBVIOUS
  <2> HIDE DEF f
  <2>6. Flattens(f, seqs, m)
    BY <2>4, <2>5 DEF Flattens
  <2> QED
    BY <2>6
<1> QED
  BY <1>2, <1>3

\* The results for the first of the sequences do not depend on the others.
LEMMA FlattensAgree ==
  ASSUME NEW seqs, NEW first, NEW f, NEW g, NEW m \in Nat, NEW n \in 0..m,
         Flattens(f, seqs, m), Flattens(g, first, n),
         \A i \in 1..n : first[i] = seqs[i]
  PROVE  \A i \in 1..n : f[i] = g[i]
<1> DEFINE S == {i \in 1..n : f[i] # g[i]}
<1> SUFFICES ASSUME S # {} PROVE FALSE
  OBVIOUS
<1>1. PICK i \in S : \A k \in S : i <= k
  <2>1. S \in SUBSET Nat
    OBVIOUS
  <2> HIDE DEF S
  <2> QED
    BY <2>1, LeastNatural
<1>2. /\ f[i] = IF i = 1 THEN seqs[i] ELSE f[i - 1] \o seqs[i]
      /\ g[i] = IF i = 1 THEN first[i] ELSE g[i - 1] \o first[i]
  <2>1. i \in 1..m /\ i \in 1..n
    OBVIOUS
  <2> QED
    BY <2>1 DEF Flattens
<1>3. i # 1 => i - 1 \in 1..n /\ i - 1 \notin S
  BY <1>1
<1> QED
  BY <1>2, <1>3

\* FlattenSeq of sequences that are not none is the last of its results.
LEMMA FlattenIsLast ==
  ASSUME NEW n \in Nat \ {0}, NEW S, NEW seqs \in [1..n -> S]
  PROVE  \E f : Flattens(f, seqs, n) /\ FlattenSeq(seqs) = f[n]
<1>1. Len(seqs) = n
  OBVIOUS
<1> DEFINE f == CHOOSE h : Flattens(h, seqs, n)
<1>2. FlattenSeq(seqs) = IF Len(seqs) = 0 THEN seqs
        ELSE (CHOOSE h : h = [i \in 1..Len(seqs) |->
                               IF i = 1 THEN seqs[i] ELSE h[i - 1] \o seqs[i]])[Len(seqs)]
  BY Zenon DEF FlattenSeq
<1>3. FlattenSeq(seqs) = f[n]
  BY <1>1, <1>2 DEF Flattens
<1>4. Flattens(f, seqs, n)
  BY FlattensExist
<1> QED
  BY <1>3, <1>4

\* The flattening of one sequence is that sequence.
LEMMA FlattenOne ==
  ASSUME NEW S, NEW seqs \in [1..1 -> S]
  PROVE  FlattenSeq(seqs) = seqs[1]
<1>0. 1 \in Nat \ {0}
  OBVIOUS
<1>1. PICK f : Flattens(f, seqs, 1) /\ FlattenSeq(seqs) = f[1]
  BY <1>0, FlattenIsLast
<1> QED
  BY <1>1 DEF Flattens

\* One sequence more is appended to the flattening of the others.
LEMMA FlattenMore ==
  ASSUME NEW n \in Nat \ {0}, NEW S, NEW seqs \in [1..(n + 1) -> S], NEW first \in [1..n -> S],
         \A i \in 1..n : first[i] = seqs[i]
  PROVE  FlattenSeq(seqs) = FlattenSeq(first) \o seqs[n + 1]
<1>0. n + 1 \in Nat \ {0}
  OBVIOUS
<1>1. PICK f : Flattens(f, seqs, n + 1) /\ FlattenSeq(seqs) = f[n + 1]
  BY <1>0, FlattenIsLast
<1>2. PICK g : Flattens(g, first, n) /\ FlattenSeq(first) = g[n]
  BY FlattenIsLast
<1>3. n \in 0..(n + 1) /\ n + 1 \in Nat
  OBVIOUS
<1>4. f[n] = g[n]
  BY <1>1, <1>2, <1>3, FlattensAgree
<1>5. f[n + 1] = f[n] \o seqs[n + 1]
  <2>1. PICK m \in 1..(n + 1) : m = n + 1
    OBVIOUS
  <2>2. m # 1 /\ m - 1 = n
    BY <2>1
  <2>3. \A i \in 1..(n + 1) : i # 1 => f[i] = f[i - 1] \o seqs[i]
    BY <1>1 DEF Flattens
  <2>4. f[m] = f[m - 1] \o seqs[m]
    BY <2>2, <2>3
  <2>5. f[m] = f[n] \o seqs[m]
    BY <2>2, <2>4
  <2> QED
    BY <2>1, <2>5
<1> QED
  BY <1>1, <1>2, <1>4, <1>5

-----------------------------------------------------------------------------
(* Sequences and what is in them *)

\* A sequence is one of what is in it.
LEMMA SeqOfItsElements ==
  ASSUME NEW S, NEW s \in Seq(S)
  PROVE  /\ s \in Seq(ToSet(s)) /\ ToSet(s) \subseteq S
         /\ Len(s) \in Nat /\ DOMAIN s = 1..Len(s)
         /\ \A i \in 1..Len(s) : s[i] \in ToSet(s)
         /\ \A x \in ToSet(s) : \E i \in 1..Len(s) : s[i] = x
<1>1. Len(s) \in Nat /\ DOMAIN s = 1..Len(s) /\ s \in [1..Len(s) -> S]
  OBVIOUS
<1>2. ToSet(s) = {s[i] : i \in 1..Len(s)}
  BY <1>1 DEF ToSet
<1>3. s \in [1..Len(s) -> ToSet(s)]
  BY <1>1, <1>2
<1>4. s \in Seq(ToSet(s))
  BY <1>1, <1>3, SeqDef
<1> QED
  BY <1>1, <1>2, <1>4

\* What one more element is in.
LEMMA AppendedElements ==
  ASSUME NEW S, NEW s \in Seq(S), NEW x, NEW t, t = Append(s, x)
  PROVE  /\ t \in Seq(ToSet(t)) /\ ToSet(t) = ToSet(s) \cup {x}
         /\ Len(s) \in Nat /\ Len(t) = Len(s) + 1
         /\ DOMAIN s = 1..Len(s) /\ DOMAIN t = 1..(Len(s) + 1)
         /\ \A i \in 1..Len(s) : t[i] = s[i]
         /\ t[Len(s) + 1] = x
<1>1. s \in Seq(S \cup {x}) /\ x \in S \cup {x}
  <2>1. Len(s) \in Nat /\ s \in [1..Len(s) -> S \cup {x}]
    OBVIOUS
  <2> QED
    BY <2>1, SeqDef
<1> DEFINE X == S \cup {x}
<1> HIDE DEF X
<1>2. s \in Seq(X) /\ x \in X
  BY <1>1 DEF X
<1>3. /\ t \in Seq(X) /\ Len(t) = Len(s) + 1 /\ Len(s) \in Nat
      /\ \A i \in 1..Len(s) : t[i] = s[i]
      /\ t[Len(s) + 1] = x
  BY <1>2, AppendProperties
<1>4. DOMAIN s = 1..Len(s) /\ DOMAIN t = 1..(Len(s) + 1)
  BY <1>2, <1>3
<1>5. t \in Seq(ToSet(t))
  BY <1>3, SeqOfItsElements
<1>6. ToSet(t) = ToSet(s) \cup {x}
  <2>1. ToSet(t) = {t[i] : i \in 1..(Len(s) + 1)} /\ ToSet(s) = {s[i] : i \in 1..Len(s)}
    BY <1>4 DEF ToSet
  <2>2. \A i \in 1..(Len(s) + 1) : i \in 1..Len(s) \/ i = Len(s) + 1
    BY <1>3
  <2>3. \A i \in 1..Len(s) : i \in 1..(Len(s) + 1)
    BY <1>3
  <2>4. Len(s) + 1 \in 1..(Len(s) + 1)
    BY <1>3
  <2> QED
    BY <1>3, <2>1, <2>2, <2>3, <2>4
<1> QED
  BY <1>3, <1>4, <1>5, <1>6

\* The elements of a sequence but the first.
LEMMA TailElements ==
  ASSUME NEW S, NEW s \in Seq(S), s # <<>>
  PROVE  /\ Head(s) = s[1] /\ 1 \in DOMAIN s /\ Head(s) \in S
         /\ Tail(s) \in Seq(S) /\ Len(s) \in Nat /\ Len(Tail(s)) = Len(s) - 1
         /\ DOMAIN s = 1..Len(s)
         /\ \A i \in DOMAIN Tail(s) : i + 1 \in DOMAIN s /\ Tail(s)[i] = s[i + 1] /\ i \in Nat \ {0}
  OBVIOUS

\* An element that is inserted after all others is appended.
LEMMA InsertedLast ==
  ASSUME NEW S, NEW s \in Seq(S), NEW x \in S
  PROVE  InsertAt(s, Len(s) + 1, x) = Append(s, x)
<1>1. PICK n \in Nat : n = Len(s)
  OBVIOUS
<1>2. InsertAt(s, n + 1, x) = SubSeq(s, 1, n) \o <<x>> \o SubSeq(s, n + 1, n)
  <2>1. n + 1 - 1 = n
    OBVIOUS
  <2> QED
    BY <1>1, <2>1 DEF InsertAt
<1>3. SubSeq(s, 1, n) = s
  BY <1>1
<1>4. SubSeq(s, n + 1, n) = <<>>
  BY <1>1
<1>5. s \o <<x>> = Append(s, x)
  OBVIOUS
<1>6. Append(s, x) \o <<>> = Append(s, x)
  <2>1. Append(s, x) \in Seq(S)
    OBVIOUS
  <2>2. \A t \in Seq(S) : t \o <<>> = t
    OBVIOUS
  <2> QED
    BY Zenon, <2>1, <2>2
<1> QED
  BY <1>1, <1>2, <1>3, <1>4, <1>5, <1>6

\* SetToSeq has each element of a finite set.
LEMMA SetToSeqProperties ==
  ASSUME NEW S, IsFiniteSet(S)
  PROVE  /\ SetToSeq(S) \in [1..Cardinality(S) -> S] /\ Cardinality(S) \in Nat
         /\ \A x \in S : \E i \in 1..Cardinality(S) : SetToSeq(S)[i] = x
<1>1. Cardinality(S) \in Nat /\ ExistsBijection(1..Cardinality(S), S)
  BY FS_CardinalityType
<1>2. PICK f \in Bijection(1..Cardinality(S), S) : TRUE
  BY <1>1 DEF ExistsBijection
<1>3. f \in [1..Cardinality(S) -> S] /\ IsInjective(f)
  BY <1>2 DEF Bijection, Injection, Surjection, IsInjective
<1> DEFINE s == SetToSeq(S)
<1>4. s \in [1..Cardinality(S) -> S] /\ IsInjective(s)
  <2>1. s = CHOOSE g \in [1..Cardinality(S) -> S] : IsInjective(g)
    BY DEF SetToSeq
  <2> HIDE DEF s
  <2> QED
    BY <1>3, <2>1
<1> HIDE DEF s
<1>5. s \in Injection(1..Cardinality(S), S)
  BY <1>4 DEF Injection
<1>6. IsFiniteSet(1..Cardinality(S)) /\ Cardinality(1..Cardinality(S)) = Cardinality(S)
  BY <1>1, FS_Interval
<1>7. s \in Surjection(1..Cardinality(S), S)
  BY <1>5, <1>6, FS_Injection
<1> QED
  BY <1>1, <1>4, <1>7 DEF Surjection, s

-----------------------------------------------------------------------------
(* Sorting *)

\* A sequence has the elements of a set, each after those that R puts before it.
Sorts(s, S, R) ==
  /\ s \in [1..Cardinality(S) -> S]
  /\ \A i, j \in 1..Cardinality(S) : i < j => <<s[i], s[j]>> \in R
  /\ \A x \in S : \E i \in 1..Cardinality(S) : s[i] = x

\* Ranked puts a finite set in a strict order that tells its elements apart: the place
\* of each is after as many as come before it.
LEMMA RankedSorts ==
  ASSUME NEW S, IsFiniteSet(S), NEW R,
         \A x \in S : <<x, x>> \notin R,
         \A x, y \in S : x # y => <<x, y>> \in R \/ <<y, x>> \in R,
         \A x, y, z \in S : <<x, y>> \in R /\ <<y, z>> \in R => <<x, z>> \in R
  PROVE  Sorts(Ranked(S, R), S, R)
<1> DEFINE n == Cardinality(S)
           Below(x) == {y \in S : <<y, x>> \in R}
           rank == [x \in S |-> Cardinality(Below(x)) + 1]
<1>1. n \in Nat /\ \A x \in S : IsFiniteSet(Below(x)) /\ Cardinality(Below(x)) \in Nat
  BY FS_Subset, FS_CardinalityType
<1>2. ASSUME NEW x \in S PROVE rank[x] \in 1..n
  <2>1. Below(x) \in SUBSET S /\ Below(x) # S
    OBVIOUS
  <2>2. Cardinality(Below(x)) <= n /\ Cardinality(Below(x)) # n
    <3> HIDE DEF Below
    <3> QED
      BY <2>1, FS_Subset
  <2> HIDE DEF Below, n
  <2> QED
    BY <1>1, <2>2
<1>3. ASSUME NEW x \in S, NEW y \in S, <<x, y>> \in R PROVE rank[x] < rank[y]
  <2>1. Below(x) \in SUBSET Below(y) /\ x \in Below(y) /\ x \notin Below(x)
    BY <1>3
  <2>2. Cardinality(Below(x)) < Cardinality(Below(y))
    <3> HIDE DEF Below
    <3> QED
      BY <1>1, <2>1, FS_Subset
  <2> HIDE DEF Below
  <2> QED
    BY <1>1, <2>2
<1>4. ASSUME NEW x \in S, NEW y \in S, rank[x] = rank[y] PROVE x = y
  <2>1. rank[x] \in Int /\ rank[y] \in Int
    BY <1>2
  <2> HIDE DEF rank
  <2>2. <<x, y>> \notin R /\ <<y, x>> \notin R
    BY <1>3, <1>4, <2>1
  <2> QED
    BY <2>2
<1> HIDE DEF rank, Below
<1>5. \A k \in 1..n : \E x \in S : rank[x] = k
  <2>1. rank \in Injection(S, 1..n)
    <3>1. rank \in [S -> 1..n]
      BY <1>2 DEF rank
    <3> QED
      BY <1>4, <3>1 DEF Injection, IsInjective
  <2>2. IsFiniteSet(1..n) /\ Cardinality(1..n) = n
    BY <1>1, FS_Interval
  <2>3. rank \in Surjection(S, 1..n)
    BY <2>1, <2>2, FS_Injection
  <2> QED
    BY <2>3 DEF Surjection
<1> DEFINE s == [k \in 1..n |-> CHOOSE x \in S : rank[x] = k]
<1>6. Ranked(S, R) = s
  <2>1. ASSUME NEW k \in 1..n, NEW x \in S
        PROVE  rank[x] = k <=> Cardinality(Below(x)) = k - 1
    <3>1. rank[x] = Cardinality(Below(x)) + 1
      BY DEF rank
    <3>2. Cardinality(Below(x)) \in Nat /\ k \in Int
      BY <1>1
    <3> QED
      BY <3>1, <3>2
  <2>2. \A k \in 1..n : (CHOOSE x \in S : rank[x] = k)
                       = (CHOOSE x \in S : Cardinality(Below(x)) = k - 1)
    BY Zenon, <2>1
  <2>3. Ranked(S, R) = [k \in 1..n |-> CHOOSE x \in S : Cardinality(Below(x)) = k - 1]
    BY Zenon DEF Ranked, Below, n
  <2> HIDE DEF n, Below, rank
  <2> QED
    BY Zenon, <2>2, <2>3
<1>7. \A k \in 1..n : s[k] \in S /\ rank[s[k]] = k
  BY <1>5
<1>8. s \in [1..n -> S]
  BY <1>7
<1>9. \A x \in S : rank[x] \in 1..n /\ s[rank[x]] = x
  <2> HIDE DEF s
  <2> QED
    BY <1>2, <1>4, <1>7
<1> HIDE DEF s
<1>10. ASSUME NEW i \in 1..n, NEW j \in 1..n, i < j
      PROVE  <<s[i], s[j]>> \in R
  <2>1. s[i] \in S /\ s[j] \in S /\ rank[s[i]] = i /\ rank[s[j]] = j
    BY <1>7
  <2>2. s[i] # s[j]
    BY <1>10, <2>1
  <2>3. <<s[j], s[i]>> \notin R
    <3> SUFFICES ASSUME <<s[j], s[i]>> \in R PROVE FALSE
      OBVIOUS
    <3>1. rank[s[j]] < rank[s[i]]
      BY <1>3, <2>1
    <3> QED
      BY <1>1, <1>10, <2>1, <3>1
  <2> QED
    BY <2>1, <2>2, <2>3
<1> QED
  BY <1>6, <1>8, <1>9, <1>10 DEF n, Sorts

\* Ascending has each number of the set, in order.
LEMMA AscendingProperties ==
  ASSUME NEW S \in SUBSET Int, IsFiniteSet(S)
  PROVE  /\ Cardinality(S) \in Nat
         /\ Ascending(S) \in [1..Cardinality(S) -> S]
         /\ Ascending(S) \in Seq(S)
         /\ \A i, j \in 1..Cardinality(S) : i < j => Ascending(S)[i] < Ascending(S)[j]
         /\ \A x \in S : \E i \in 1..Cardinality(S) : Ascending(S)[i] = x
<1> DEFINE n == Cardinality(S)
           Less == {pair \in S \X S : pair[1] < pair[2]}
           a == Ascending(S)
<1>1. n \in Nat
  BY FS_CardinalityType
<1>2. a = Ranked(S, Less)
  BY DEF Ascending
<1>3. \A x, y \in S : <<x, y>> \in Less <=> x < y
  OBVIOUS
<1>4. Sorts(Ranked(S, Less), S, Less)
  <2>1. \A x \in S : x \in Int
    OBVIOUS
  <2> HIDE DEF Less
  <2>2. \A x \in S : <<x, x>> \notin Less
    BY <1>3, <2>1
  <2>3. \A x, y \in S : x # y => <<x, y>> \in Less \/ <<y, x>> \in Less
    BY <1>3, <2>1
  <2>4. \A x, y, z \in S : <<x, y>> \in Less /\ <<y, z>> \in Less => <<x, z>> \in Less
    BY <1>3, <2>1
  <2> QED
    BY <2>2, <2>3, <2>4, RankedSorts
<1> HIDE DEF a, Less, n
<1>5. /\ a \in [1..n -> S]
      /\ \A i, j \in 1..n : i < j => <<a[i], a[j]>> \in Less
      /\ \A x \in S : \E i \in 1..n : a[i] = x
  BY <1>2, <1>4 DEF Sorts, n
<1>6. \A i, j \in 1..n : i < j => a[i] < a[j]
  BY <1>3, <1>5
<1>7. a \in Seq(S)
  BY <1>1, <1>5, SeqDef
<1> QED
  BY <1>1, <1>5, <1>6, <1>7 DEF a, n

\* There is only one sequence of the numbers of a set in order.
LEMMA AscendingIsUnique ==
  ASSUME NEW S \in SUBSET Int, NEW n \in Nat, NEW a \in [1..n -> S],
         \A i, j \in 1..n : i < j => a[i] < a[j],
         \A x \in S : \E i \in 1..n : a[i] = x
  PROVE  IsFiniteSet(S) /\ Cardinality(S) = n /\ a = Ascending(S)
<1>1. \A i, j \in 1..n : i # j => a[i] # a[j]
  <2> SUFFICES ASSUME NEW i \in 1..n, NEW j \in 1..n, i # j PROVE a[i] # a[j]
    OBVIOUS
  <2>1. a[i] \in Int /\ a[j] \in Int
    <3>1. a[i] \in S /\ a[j] \in S
      OBVIOUS
    <3> QED
      BY <3>1
  <2>2. i < j \/ j < i
    OBVIOUS
  <2>3. a[i] < a[j] \/ a[j] < a[i]
    BY <2>2
  <2> QED
    BY <2>1, <2>3
<1>2. a \in Bijection(1..n, S)
  BY <1>1 DEF Bijection, Injection, Surjection, IsInjective
<1>3. IsFiniteSet(S) /\ Cardinality(S) = n
  <2>1. ExistsBijection(1..n, S)
    BY <1>2 DEF ExistsBijection
  <2> QED
    BY <2>1, FS_NatBijection, FS_CountingElements
<1> DEFINE b == Ascending(S)
<1>4. /\ b \in [1..n -> S]
      /\ \A i, j \in 1..n : i < j => b[i] < b[j]
      /\ \A x \in S : \E i \in 1..n : b[i] = x
  BY <1>3, AscendingProperties
<1> HIDE DEF b
<1> DEFINE D == {i \in 1..n : a[i] # b[i]}
<1>5. ASSUME D # {} PROVE FALSE
  <2>1. D \in SUBSET Nat
    OBVIOUS
  <2>2. PICK i \in D : \A j \in D : i <= j
    <3> HIDE DEF D
    <3> QED
      BY <1>5, <2>1, LeastNatural
  <2>3. PICK j \in 1..n : b[j] = a[i]
    BY <1>4
  <2>4. PICK k \in 1..n : a[k] = b[i]
    BY <1>4
  <2>5. i \in 1..n /\ a[i] # b[i] /\ a[i] \in Int /\ b[i] \in Int
    BY <1>4
  <2>6. i < j
    <3>1. j # i
      BY <2>3, <2>5
    <3>2. j < i => j \notin D
      BY <2>2
    <3>3. j < i => a[j] = b[j] /\ a[j] < a[i]
      BY <2>5, <3>2
    <3>4. ~(j < i)
      BY <2>3, <2>5, <3>3
    <3> QED
      BY <2>5, <3>1, <3>4
  <2>7. i < k
    <3>1. k # i
      BY <2>4, <2>5
    <3>2. k < i => k \notin D
      BY <2>2
    <3>3. k < i => a[k] = b[k] /\ b[k] < b[i]
      BY <1>4, <2>5, <3>2
    <3>4. ~(k < i)
      BY <2>4, <2>5, <3>3
    <3> QED
      BY <2>5, <3>1, <3>4
  <2>8. b[i] < a[i]
    BY <1>4, <2>3, <2>5, <2>6
  <2>9. a[i] < b[i]
    BY <2>4, <2>5, <2>7
  <2> QED
    BY <2>5, <2>8, <2>9
<1> QED
  BY <1>3, <1>4, <1>5 DEF b

\* What is picked, and the places.
Picks(p, s, P, g) ==
  /\ g \in [1..Cardinality(P) -> P]
  /\ \A i, j \in 1..Cardinality(P) : i < j => g[i] < g[j]
  /\ \A x \in P : \E i \in 1..Cardinality(P) : g[i] = x
  /\ p = [k \in 1..Cardinality(P) |-> s[g[k]]]

\* The elements of a sequence at some places are at increasing places.
LEMMA PickedProperties ==
  ASSUME NEW s, NEW P \in SUBSET Int, IsFiniteSet(P)
  PROVE  \E g : Picks(Picked(s, P), s, P, g)
<1> DEFINE g == Ascending(P)
<1>1. /\ g \in [1..Cardinality(P) -> P]
      /\ \A i, j \in 1..Cardinality(P) : i < j => g[i] < g[j]
      /\ \A x \in P : \E i \in 1..Cardinality(P) : g[i] = x
  BY AscendingProperties
<1>2. Picked(s, P) = [k \in DOMAIN g |-> s[g[k]]]
  BY DEF Picked
<1> HIDE DEF g
<1> QED
  BY <1>1, <1>2 DEF Picks

\* A sequence has each bar of a set, in the order of their times.
TimeOrdered(s, B, n) ==
  /\ s \in [1..n -> B] /\ s \in Seq(B)
  /\ \A i, j \in 1..n : i < j => s[i].time < s[j].time
  /\ \A b \in B : \E i \in 1..n : s[i] = b

\* ByTime has each bar, in the order of their times.
LEMMA ByTimeProperties ==
  ASSUME NEW B, IsFiniteSet(B), \A b \in B : b.time \in Int,
         \A b, c \in B : b.time = c.time => b = c
  PROVE  \E n \in Nat : TimeOrdered(ByTime(B), B, n)
<1> DEFINE T == {b.time : b \in B}
           a == Ascending(T)
           n == Cardinality(T)
           s == ByTime(B)
<1>1. T \in SUBSET Int /\ IsFiniteSet(T)
  <2> DEFINE f == [b \in B |-> b.time]
  <2>1. f \in Surjection(B, T)
    BY DEF Surjection
  <2>2. IsFiniteSet(T)
    BY <2>1, FS_Surjection
  <2> QED
    BY <2>2
<1>2. /\ n \in Nat /\ a \in [1..n -> T] /\ DOMAIN a = 1..n
      /\ \A i, j \in 1..n : i < j => a[i] < a[j]
      /\ \A t \in T : \E i \in 1..n : a[i] = t
  <2> HIDE DEF T
  <2> QED
    BY <1>1, AscendingProperties
<1>3. s = [k \in DOMAIN a |-> CHOOSE b \in B : b.time = a[k]]
  BY DEF ByTime
<1> HIDE DEF a, n, s
<1>4. \A k \in 1..n : s[k] \in B /\ s[k].time = a[k]
  <2> SUFFICES ASSUME NEW k \in 1..n PROVE s[k] \in B /\ s[k].time = a[k]
    OBVIOUS
  <2>1. a[k] \in T
    BY <1>2
  <2>2. \E b \in B : b.time = a[k]
    BY <2>1
  <2>3. s[k] = CHOOSE b \in B : b.time = a[k]
    BY <1>2, <1>3
  <2> QED
    BY <2>2, <2>3
<1>5. s \in [1..n -> B]
  BY <1>2, <1>3, <1>4
<1>6. \A i, j \in 1..n : i < j => s[i].time < s[j].time
  BY <1>2, <1>4
<1>7. ASSUME NEW b \in B PROVE \E i \in 1..n : s[i] = b
  <2>1. b.time \in T
    OBVIOUS
  <2>2. PICK i \in 1..n : a[i] = b.time
    BY <1>2, <2>1
  <2>3. s[i] \in B /\ s[i].time = b.time
    BY <1>4, <2>2
  <2> QED
    BY <2>3
<1>8. s \in Seq(B)
  BY <1>2, <1>5, SeqDef
<1> QED
  BY <1>2, <1>5, <1>6, <1>7, <1>8 DEF TimeOrdered, s

\* There is only one sequence of bars in the order of their times.
LEMMA ByTimeIsUnique ==
  ASSUME NEW B, NEW n \in Nat, NEW s \in [1..n -> B], \A b \in B : b.time \in Int,
         \A i, j \in 1..n : i < j => s[i].time < s[j].time,
         \A b \in B : \E i \in 1..n : s[i] = b
  PROVE  IsFiniteSet(B) /\ s = ByTime(B)
<1> DEFINE T == {b.time : b \in B}
           a == [k \in 1..n |-> s[k].time]
<1>1. \A k \in 1..n : s[k] \in B /\ s[k].time \in Int
  OBVIOUS
<1>2. T \in SUBSET Int /\ a \in [1..n -> T]
  BY <1>1
<1>3. \A i, j \in 1..n : i < j => a[i] < a[j]
  OBVIOUS
<1>4. \A t \in T : \E i \in 1..n : a[i] = t
  <2> SUFFICES ASSUME NEW t \in T PROVE \E i \in 1..n : a[i] = t
    OBVIOUS
  <2>1. PICK b \in B : t = b.time
    OBVIOUS
  <2>2. PICK i \in 1..n : s[i] = b
    OBVIOUS
  <2>3. a[i] = t
    BY <2>1, <2>2
  <2> QED
    BY <2>3
<1>5. a = Ascending(T)
  <2> HIDE DEF T, a
  <2> QED
    BY <1>2, <1>3, <1>4, AscendingIsUnique
<1>6. ByTime(B) = [k \in DOMAIN a |-> CHOOSE b \in B : b.time = a[k]]
  <2>1. ByTime(B) = [k \in DOMAIN Ascending(T) |-> CHOOSE b \in B : b.time = Ascending(T)[k]]
    BY DEF ByTime
  <2> HIDE DEF a
  <2> QED
    BY <1>5, <2>1
<1>7. ASSUME NEW k \in 1..n PROVE ByTime(B)[k] = s[k]
  <2>1. ASSUME NEW b \in B, b.time = a[k] PROVE b = s[k]
    <3>1. PICK i \in 1..n : s[i] = b
      OBVIOUS
    <3>2. s[i].time = s[k].time
      BY <2>1, <3>1
    <3>3. ~(i < k) /\ ~(k < i)
      <4>1. s[i].time \in Int /\ s[k].time \in Int
        BY <1>1
      <4>2. ~(s[i].time < s[k].time) /\ ~(s[k].time < s[i].time)
        BY <3>2, <4>1
      <4> QED
        BY <4>2
    <3>4. i = k
      BY <3>3
    <3> QED
      BY <3>1, <3>4
  <2>2. s[k] \in B /\ s[k].time = a[k]
    BY <1>1
  <2>3. (CHOOSE b \in B : b.time = a[k]) = s[k]
    <3> HIDE DEF a
    <3> QED
      BY <2>1, <2>2
  <2> QED
    BY <1>6, <2>3
<1>8. ByTime(B) = s
  BY <1>6, <1>7
<1>9. IsFiniteSet(B)
  <2>1. s \in Surjection(1..n, B)
    BY DEF Surjection
  <2>2. IsFiniteSet(1..n)
    BY FS_Interval
  <2> QED
    BY <2>1, <2>2, FS_Surjection
<1> QED
  BY <1>8, <1>9
============================================================================
