------------------------------ MODULE SumLemmas ------------------------------
(***************************************************************************)
(* What the sum of a function on a finite set is when one of its values    *)
(* changes: the ledgers are such sums.  SumFunction is defined by a        *)
(* recursive function on subsets; that it exists, and what it computes, is *)
(* shown by taking a smallest counterexample.                              *)
(***************************************************************************)
EXTENDS Integers, FiniteSets, Functions, FiniteSetTheorems,
        WellFoundedInduction, TLAPS

\* A nonempty set of naturals has a least element.
LEMMA LeastNumber ==
    ASSUME NEW T \in SUBSET Nat, T # {}
    PROVE  \E n \in T : \A m \in T : n <= m
<1> DEFINE Less == {pair \in Nat \X Nat : pair[1] < pair[2]}
<1>1. IsWellFoundedOn(Less, Nat)
  BY NatLessThanWellFounded, Zenon DEF OpToRel
<1>2. PICK n \in T : \A m \in T : ~ (<<m, n>> \in Less)
  <2> HIDE DEF Less
  <2> QED
    BY <1>1, WFMin
<1>3. ASSUME NEW m \in T PROVE n <= m
  <2>1. m < n => <<m, n>> \in Less
    OBVIOUS
  <2> QED
    BY <1>2, <2>1
<1> QED
  BY <1>3

Pick(s) == CHOOSE x \in s : TRUE

\* The equation that the recursive function of the sum satisfies on sets.
SumEquation(f, g, sets) ==
    g = [s \in sets |->
            IF s = {} THEN 0 ELSE f[Pick(s)] + g[s \ {Pick(s)}]]

\* SumFunction is defined by that equation.
LEMMA SumDefinition ==
    ASSUME NEW f
    PROVE  SumFunction(f) =
             (CHOOSE g : SumEquation(f, g, SUBSET DOMAIN f))[DOMAIN f]
BY Zenon DEF SumFunction, SumFunctionOnSet, FoldFunctionOnSet, MapThenFoldSet, SumEquation, Pick

\* What holds of 0, and of n + 1 whenever it holds of n, holds of every natural.
LEMMA SetOfNaturals ==
    ASSUME NEW C, 0 \in C, \A n \in Nat : n \in C => n + 1 \in C
    PROVE  Nat \subseteq C
<1> SUFFICES ASSUME Nat \ C # {} PROVE FALSE
  OBVIOUS
<1>1. PICK n \in Nat \ C : \A m \in Nat \ C : n <= m
  BY LeastNumber
<1>2. n - 1 \in Nat /\ n - 1 \notin Nat \ C
  BY <1>1
<1> QED
  BY <1>1, <1>2

\* What holds of the empty set, and of a set whenever it holds of the set without
\* the element that is picked from it, holds of every subset of a finite set.
LEMMA SubsetInduction ==
    ASSUME NEW S, IsFiniteSet(S), NEW C, {} \in C,
           \A s \in SUBSET S : s # {} /\ s \ {Pick(s)} \in C => s \in C
    PROVE  SUBSET S \subseteq C
<1> DEFINE K == {k \in Nat : \A s \in SUBSET S : Cardinality(s) = k => s \in C}
<1>1. \A s \in SUBSET S : IsFiniteSet(s) /\ Cardinality(s) \in Nat
  BY FS_Subset, FS_CardinalityType
<1>2. 0 \in K
  BY <1>1, FS_EmptySet
<1>3. ASSUME NEW k \in Nat, k \in K, NEW s \in SUBSET S, Cardinality(s) = k + 1
      PROVE  s \in C
  <2>1. s # {}
    BY <1>3, FS_EmptySet
  <2>2. Pick(s) \in s
    BY <2>1 DEF Pick
  <2>3. Cardinality(s \ {Pick(s)}) = k
    BY <1>1, <1>3, <2>2, FS_RemoveElement
  <2> QED
    BY <1>3, <2>1, <2>3
<1>4. Nat \subseteq K
  <2>1. \A k \in Nat : k \in K => k + 1 \in K
    BY <1>3
  <2> HIDE DEF K
  <2> QED
    BY <1>2, <2>1, SetOfNaturals
<1> QED
  BY <1>1, <1>4

\* The equation has a solution on the subsets of a finite set.
LEMMA SumEquationSolved ==
    ASSUME NEW f, NEW S, IsFiniteSet(S)
    PROVE  \E g : SumEquation(f, g, SUBSET S)
<1> DEFINE UpTo(k) == {s \in SUBSET S : Cardinality(s) <= k}
           K == {k \in Nat : \E g : SumEquation(f, g, UpTo(k))}
<1>1. \A s \in SUBSET S : IsFiniteSet(s) /\ Cardinality(s) \in Nat
  BY FS_Subset, FS_CardinalityType
<1>2. 0 \in K
  <2>1. UpTo(0) = {{}}
    BY <1>1, FS_EmptySet
  <2>2. SumEquation(f, [s \in {{}} |-> 0], {{}})
    BY DEF SumEquation
  <2> QED
    BY <2>1, <2>2
<1>3. ASSUME NEW k \in Nat, k \in K
      PROVE  k + 1 \in K
  <2>1. PICK g : SumEquation(f, g, UpTo(k))
    BY <1>3
  <2> DEFINE h == [s \in UpTo(k + 1) |->
                      IF s = {} THEN 0
                      ELSE f[Pick(s)] + g[s \ {Pick(s)}]]
  <2>2. ASSUME NEW s \in UpTo(k + 1), s # {}
        PROVE  s \ {Pick(s)} \in UpTo(k)
    <3>1. Pick(s) \in s
      BY <2>2 DEF Pick
    <3> QED
      BY <1>1, <2>2, <3>1, FS_RemoveElement
  <2>3. ASSUME NEW s \in UpTo(k)
        PROVE  g[s] = h[s]
    <3>1. s \in UpTo(k + 1)
      BY <1>1
    <3> QED
      BY <2>1, <3>1 DEF SumEquation
  <2>4. h = [s \in UpTo(k + 1) |->
                IF s = {} THEN 0 ELSE f[Pick(s)] + h[s \ {Pick(s)}]]
    <3> HIDE DEF UpTo
    <3> QED
      BY <2>2, <2>3
  <2>5. SumEquation(f, h, UpTo(k + 1))
    BY <2>4 DEF SumEquation
  <2> HIDE DEF h, UpTo
  <2> QED
    BY <2>5
<1>4. Cardinality(S) \in K
  <2>1. Nat \subseteq K
    <3> HIDE DEF K
    <3> QED
      BY <1>2, <1>3, SetOfNaturals
  <2> QED
    BY <1>1, <2>1
<1>5. UpTo(Cardinality(S)) = SUBSET S
  BY <1>1, FS_Subset
<1> QED
  BY <1>4, <1>5

\* The partial sums over the subsets of a finite domain.
Partial(f) == CHOOSE g : SumEquation(f, g, SUBSET DOMAIN f)

LEMMA PartialSums ==
    ASSUME NEW f, IsFiniteSet(DOMAIN f)
    PROVE  /\ SumFunction(f) = Partial(f)[DOMAIN f]
           /\ Partial(f)[{}] = 0
           /\ \A s \in SUBSET DOMAIN f :
                 s # {} => Partial(f)[s] = f[Pick(s)] + Partial(f)[s \ {Pick(s)}]
<1>1. SumEquation(f, Partial(f), SUBSET DOMAIN f)
  BY SumEquationSolved DEF Partial
<1>2. SumFunction(f) = Partial(f)[DOMAIN f]
  BY SumDefinition DEF Partial
<1> HIDE DEF Partial
<1> QED
  BY <1>1, <1>2 DEF SumEquation

\* The sum of naturals is a natural, and 0 when they all are.
LEMMA SumType ==
    ASSUME NEW S, IsFiniteSet(S), NEW f \in [S -> Nat]
    PROVE  /\ SumFunction(f) \in Nat
           /\ (\A x \in S : f[x] = 0) => SumFunction(f) = 0
<1> DEFINE C == {s \in SUBSET S : /\ Partial(f)[s] \in Nat
                                  /\ (\A x \in S : f[x] = 0) => Partial(f)[s] = 0}
<1>1. DOMAIN f = S
  OBVIOUS
<1>2. {} \in C
  BY <1>1, PartialSums
<1>3. ASSUME NEW s \in SUBSET S, s # {}, s \ {Pick(s)} \in C
      PROVE  s \in C
  <2>1. Pick(s) \in S
    BY <1>3 DEF Pick
  <2>2. Partial(f)[s] = f[Pick(s)] + Partial(f)[s \ {Pick(s)}]
    BY <1>1, <1>3, PartialSums
  <2> QED
    BY <1>3, <2>1, <2>2
<1>4. S \in C
  <2> HIDE DEF C
  <2> QED
    BY <1>2, <1>3, SubsetInduction
<1> QED
  BY <1>1, <1>4, PartialSums

\* When one value of a function changes, its sum changes by the same difference.
LEMMA SumStep ==
    ASSUME NEW S, IsFiniteSet(S), NEW f \in [S -> Int], NEW g \in [S -> Int],
           NEW r \in S, \A x \in S \ {r} : g[x] = f[x]
    PROVE  SumFunction(g) = SumFunction(f) + g[r] - f[r]
<1> DEFINE C == {s \in SUBSET S :
                    /\ Partial(f)[s] \in Int
                    /\ Partial(g)[s] = IF r \in s
                                       THEN Partial(f)[s] + g[r] - f[r]
                                       ELSE Partial(f)[s]}
<1>1. DOMAIN f = S /\ DOMAIN g = S
  OBVIOUS
<1>2. {} \in C
  BY <1>1, PartialSums
<1>3. ASSUME NEW s \in SUBSET S, s # {}, s \ {Pick(s)} \in C
      PROVE  s \in C
  <2>1. Pick(s) \in s
    BY <1>3 DEF Pick
  <2>2. /\ Partial(f)[s] = f[Pick(s)] + Partial(f)[s \ {Pick(s)}]
        /\ Partial(g)[s] = g[Pick(s)] + Partial(g)[s \ {Pick(s)}]
    BY <1>1, <1>3, PartialSums
  <2>3. CASE r \in s \ {Pick(s)}
    BY <1>3, <2>1, <2>2, <2>3
  <2>4. CASE r = Pick(s)
    BY <1>3, <2>1, <2>2, <2>4
  <2>5. CASE r \notin s
    BY <1>3, <2>1, <2>2, <2>5
  <2> QED
    BY <2>3, <2>4, <2>5
<1>4. S \in C
  <2> HIDE DEF C
  <2> QED
    BY <1>2, <1>3, SubsetInduction
<1> QED
  BY <1>1, <1>4, PartialSums

\* The same, of a function whose value is replaced.
LEMMA SumUpdate ==
    ASSUME NEW S, IsFiniteSet(S), NEW f \in [S -> Int], NEW r \in S,
           NEW v \in Int
    PROVE  SumFunction([f EXCEPT ![r] = v]) = SumFunction(f) + v - f[r]
<1> DEFINE g == [f EXCEPT ![r] = v]
<1>1. g \in [S -> Int]
  OBVIOUS
<1>2. g[r] = v
  OBVIOUS
<1>3. \A x \in S \ {r} : g[x] = f[x]
  OBVIOUS
<1> HIDE DEF g
<1>4. SumFunction(g) = SumFunction(f) + g[r] - f[r]
  BY <1>1, <1>3, SumStep
<1> QED
  BY <1>2, <1>4 DEF g
\* An element can be taken out of a sum in any order.
LEMMA SumAnyOrder ==
    ASSUME NEW S, IsFiniteSet(S), NEW f \in [S -> Int]
    PROVE  \A s \in SUBSET S :
              /\ Partial(f)[s] \in Int
              /\ \A x \in s : Partial(f)[s] = f[x] + Partial(f)[s \ {x}]
<1> DEFINE C == {s \in SUBSET S : Partial(f)[s] \in Int}
           K == {k \in Nat : \A s \in SUBSET S : Cardinality(s) = k =>
                    \A x \in s : Partial(f)[s] = f[x] + Partial(f)[s \ {x}]}
<1>1. DOMAIN f = S /\ \A s \in SUBSET S : IsFiniteSet(s) /\ Cardinality(s) \in Nat
  BY FS_Subset, FS_CardinalityType
<1>2. \A s \in SUBSET S :
         s # {} => Pick(s) \in s /\ Partial(f)[s] = f[Pick(s)] + Partial(f)[s \ {Pick(s)}]
  BY <1>1, PartialSums DEF Pick
<1>3. SUBSET S \subseteq C
  <2>1. {} \in C
    BY <1>1, PartialSums
  <2>2. ASSUME NEW s \in SUBSET S, s # {}, s \ {Pick(s)} \in C PROVE s \in C
    <3>1. f[Pick(s)] \in Int /\ Partial(f)[s \ {Pick(s)}] \in Int
      BY <1>2, <2>2
    <3>2. Partial(f)[s] = f[Pick(s)] + Partial(f)[s \ {Pick(s)}]
      BY <1>2, <2>2
    <3>3. Partial(f)[s] \in Int
      BY <3>1, <3>2
    <3> QED
      BY <3>3
  <2> HIDE DEF C
  <2> QED
    BY <2>1, <2>2, SubsetInduction
<1>4. 0 \in K
  BY <1>1, FS_EmptySet
<1>5. ASSUME NEW k \in Nat, k \in K, NEW s \in SUBSET S, Cardinality(s) = k + 1, NEW x \in s
      PROVE  Partial(f)[s] = f[x] + Partial(f)[s \ {x}]
  <2>1. PICK p \in s : Partial(f)[s] = f[p] + Partial(f)[s \ {p}]
    BY <1>2
  <2>2. \A y \in s : Cardinality(s \ {y}) = k
    <3> HIDE DEF K
    <3>1. IsFiniteSet(s) /\ Cardinality(s) = k + 1
      BY <1>1, <1>5
    <3>2. \A y \in s : Cardinality(s \ {y}) = Cardinality(s) - 1
      BY <3>1, FS_RemoveElement
    <3> QED
      BY <3>1, <3>2
  <2>3. CASE p # x
    <3>1. Partial(f)[s \ {p}] = f[x] + Partial(f)[(s \ {p}) \ {x}]
      BY <1>5, <2>2, <2>3
    <3>2. Partial(f)[s \ {x}] = f[p] + Partial(f)[(s \ {x}) \ {p}]
      BY <1>5, <2>2, <2>3
    <3>3. (s \ {p}) \ {x} = (s \ {x}) \ {p} /\ (s \ {p}) \ {x} \in SUBSET S
      OBVIOUS
    <3>4. Partial(f)[(s \ {p}) \ {x}] \in Int /\ f[p] \in Int /\ f[x] \in Int
      BY <1>3, <3>3
    <3>5. Partial(f)[s] = f[p] + (f[x] + Partial(f)[(s \ {p}) \ {x}])
      BY <2>1, <3>1
    <3>6. f[x] + Partial(f)[s \ {x}] = f[x] + (f[p] + Partial(f)[(s \ {p}) \ {x}])
      BY <3>2, <3>3
    <3>7. \A a, b, c \in Int : a + (b + c) = b + (a + c)
      OBVIOUS
    <3> HIDE DEF K
    <3> QED
      BY <3>4, <3>5, <3>6, <3>7, Zenon
  <2> QED
    BY <2>1, <2>3
<1>6. Nat \subseteq K
  <2>1. \A k \in Nat : k \in K => k + 1 \in K
    BY <1>5
  <2> HIDE DEF K
  <2> QED
    BY <1>4, <2>1, SetOfNaturals
<1> QED
  BY <1>1, <1>3, <1>6

\* An element that the domain of a function loses is lost to its sum.
LEMMA SumWithout ==
    ASSUME NEW T, IsFiniteSet(T), NEW e \in T,
           NEW f \in [T \ {e} -> Int], NEW g \in [T -> Int]
    PROVE  (\A x \in T \ {e} : g[x] = f[x]) => SumFunction(g) = SumFunction(f) + g[e]
<1>0. \A s \in SUBSET T : /\ Partial(g)[s] \in Int
                         /\ \A x \in s : Partial(g)[s] = g[x] + Partial(g)[s \ {x}]
  BY SumAnyOrder
<1> SUFFICES ASSUME \A x \in T \ {e} : g[x] = f[x]
             PROVE  SumFunction(g) = SumFunction(f) + g[e]
  OBVIOUS
<1> DEFINE S == T \ {e}
           C == {s \in SUBSET S : Partial(g)[s] = Partial(f)[s]}
<1>1. DOMAIN f = S /\ DOMAIN g = T /\ IsFiniteSet(S)
  BY FS_RemoveElement
<1>2. {} \in C
  BY <1>1, PartialSums
<1>3. ASSUME NEW s \in SUBSET S, s # {}, s \ {Pick(s)} \in C
      PROVE  s \in C
  <2>1. Pick(s) \in S /\ s \in SUBSET T
    BY <1>3 DEF Pick
  <2>2. /\ Partial(f)[s] = f[Pick(s)] + Partial(f)[s \ {Pick(s)}]
        /\ Partial(g)[s] = g[Pick(s)] + Partial(g)[s \ {Pick(s)}]
    BY <1>1, <1>3, <2>1, PartialSums
  <2> QED
    BY <1>3, <2>1, <2>2
<1>4. S \in C
  <2> HIDE DEF C, S
  <2> QED
    BY <1>1, <1>2, <1>3, SubsetInduction
<1>5. Partial(g)[T] = g[e] + Partial(g)[S] /\ Partial(g)[S] \in Int
  <2>1. T \in SUBSET T /\ S \in SUBSET T
    OBVIOUS
  <2> HIDE DEF C
  <2> QED
    BY <1>0, <2>1
<1>6. SumFunction(g) = Partial(g)[T] /\ SumFunction(f) = Partial(f)[S]
  BY <1>1, PartialSums
<1>7. Partial(g)[S] = Partial(f)[S] /\ g[e] \in Int
  BY <1>4
<1> HIDE DEF S
<1> QED
  BY <1>5, <1>6, <1>7

\* What is appended to a sequence is added to the sum over it.
LEMMA SumAppended ==
    ASSUME NEW n \in Nat, NEW f \in [1 .. n -> Int], NEW g \in [1 .. n + 1 -> Int],
           \A i \in 1 .. n : g[i] = f[i]
    PROVE  SumFunction(g) = SumFunction(f) + g[n + 1]
<1> DEFINE T == 1 .. n + 1
           e == n + 1
<1>1. IsFiniteSet(T) /\ e \in T
  BY FS_Interval
<1>2. T \ {e} = 1 .. n
  OBVIOUS
<1>3. f \in [T \ {e} -> Int] /\ g \in [T -> Int] /\ \A x \in T \ {e} : g[x] = f[x]
  BY <1>2
<1> HIDE DEF T, e
<1>4. SumFunction(g) = SumFunction(f) + g[e]
  BY <1>1, <1>3, SumWithout
<1> QED
  BY <1>4 DEF e

\* The sum of a value over a set is as many times that value.
LEMMA SumConstant ==
    ASSUME NEW S, IsFiniteSet(S), NEW b \in Nat
    PROVE  SumFunction([x \in S |-> b]) = b * Cardinality(S)
<1> DEFINE f == [x \in S |-> b]
           C == {s \in SUBSET S : Partial(f)[s] = b * Cardinality(s)}
<1>1. DOMAIN f = S /\ \A x \in S : f[x] = b
  OBVIOUS
<1> HIDE DEF f
<1>2. {} \in C
  <2>1. Partial(f)[{}] = 0 /\ Cardinality({}) = 0
    BY <1>1, PartialSums, FS_EmptySet
  <2> QED
    BY <2>1
<1>3. ASSUME NEW s \in SUBSET S, s # {}, s \ {Pick(s)} \in C
      PROVE  s \in C
  <2>1. Pick(s) \in s
    BY <1>3 DEF Pick
  <2>2. Partial(f)[s] = b + b * Cardinality(s \ {Pick(s)})
    BY <1>1, <1>3, <2>1, PartialSums
  <2>3. IsFiniteSet(s) /\ Cardinality(s) \in Nat
    BY FS_Subset, FS_CardinalityType
  <2>4. PICK k \in Nat : k = Cardinality(s \ {Pick(s)}) /\ Cardinality(s) = k + 1
    <3>1. IsFiniteSet(s \ {Pick(s)}) /\ Cardinality(s \ {Pick(s)}) = Cardinality(s) - 1
      BY <2>1, <2>3, FS_RemoveElement
    <3>2. Cardinality(s \ {Pick(s)}) \in Nat
      BY <3>1, FS_CardinalityType
    <3> QED
      BY <2>3, <3>1, <3>2
  <2>5. b + b * k = b * (k + 1)
    OBVIOUS
  <2> QED
    BY <2>2, <2>4, <2>5
<1>4. S \in C
  <2> HIDE DEF C
  <2> QED
    BY <1>2, <1>3, SubsetInduction
<1> QED
  BY <1>1, <1>4, PartialSums DEF f
\* The sum of integers is an integer.
LEMMA SumOfIntegers ==
    ASSUME NEW S, IsFiniteSet(S), NEW f \in [S -> Int]
    PROVE  SumFunction(f) \in Int
<1>1. \A s \in SUBSET S : Partial(f)[s] \in Int
  BY SumAnyOrder
<1>2. DOMAIN f = S
  OBVIOUS
<1> QED
  BY <1>1, <1>2, PartialSums
\* The same, of a function one of whose values is increased.
LEMMA SumIncreased ==
    ASSUME NEW S, IsFiniteSet(S), NEW f \in [S -> Int], NEW r \in S, NEW d \in Int
    PROVE  SumFunction([f EXCEPT ![r] = @ + d]) = SumFunction(f) + d
<1>1. PICK g : g = [f EXCEPT ![r] = @ + d]
  OBVIOUS
<1>2. g \in [S -> Int] /\ g[r] = f[r] + d /\ \A x \in S \ {r} : g[x] = f[x]
  BY <1>1
<1>3. SumFunction(g) = SumFunction(f) + g[r] - f[r]
  BY <1>2, SumStep
<1>4. SumFunction(f) \in Int /\ f[r] \in Int
  BY SumOfIntegers
<1> QED
  BY <1>1, <1>2, <1>3, <1>4
=============================================================================
