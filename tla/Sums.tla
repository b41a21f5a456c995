-------------------------------- MODULE Sums --------------------------------
(***************************************************************************)
(* What the sum over a finite set is: the fold of the library, unrolled.   *)
(***************************************************************************)
EXTENDS Integers, FiniteSets, Functions, FiniteSetTheorems, WellFoundedInduction, TLAPS

\* The element that the fold takes first.
First(s) == CHOOSE x \in s : TRUE

\* It is one of the set.
LEMMA FirstIsElement == ASSUME NEW s, s # {} PROVE First(s) \in s
BY DEF First

\* The numbers are well-founded: each set of them has a smallest one.
LEMMA SmallestOf == ASSUME NEW T, T \subseteq Nat, T # {} PROVE \E n \in T : \A k \in T : n <= k
<1>1. PICK n \in T : \A k \in T : <<k, n>> \notin OpToRel(<, Nat)
    BY NatLessThanWellFounded, WFMin
<1>2. \A k \in T : ~(k < n)
    BY <1>1 DEF OpToRel
<1>3. \A k \in T : n <= k
    BY <1>2
<1> QED
    BY <1>3

\* Without an operator as a parameter: a set of parts of S that has the empty one, and each part with its rest, has all.
LEMMA PartInduction ==
    ASSUME NEW S, IsFiniteSet(S), NEW P, {} \in P,
           \A s \in SUBSET S : s # {} /\ s \ {First(s)} \in P => s \in P
    PROVE  \A s \in SUBSET S : s \in P
<1> SUFFICES ASSUME NEW bad \in SUBSET S, bad \notin P PROVE FALSE
    OBVIOUS
<1> DEFINE sizes == {n \in Nat : \E s \in SUBSET S : s \notin P /\ Cardinality(s) = n}
<1>1. \A s \in SUBSET S : IsFiniteSet(s) /\ Cardinality(s) \in Nat
    BY FS_Subset, FS_CardinalityType
<1>2. sizes # {} /\ sizes \subseteq Nat
    <2>1. Cardinality(bad) \in sizes
        BY <1>1
    <2> QED
        BY <2>1
<1>3. PICK n \in sizes : \A k \in sizes : n <= k
    BY <1>2, SmallestOf
<1>4. PICK s \in SUBSET S : s \notin P /\ Cardinality(s) = n
    BY <1>3
<1>5. s # {}
    BY <1>4
<1> DEFINE rest == s \ {First(s)}
<1>6. rest \in SUBSET S /\ Cardinality(rest) = n - 1 /\ Cardinality(rest) \in Nat
    BY <1>1, <1>4, <1>5, FirstIsElement, FS_RemoveElement
<1>7. rest \notin P
    BY <1>4, <1>5
<1> HIDE DEF rest
<1>8. n - 1 \in sizes
    BY <1>6, <1>7
<1> QED
    BY <1>2, <1>3, <1>8

\* The sum over each part of a set, added up from its first element.
IsSum(sum, f, S) ==
    sum = [s \in SUBSET S |-> IF s = {} THEN 0 ELSE f[First(s)] + sum[s \ {First(s)}]]

\* There is such a function, for each finite set: it grows with the size of the parts.
LEMMA SumExists == ASSUME NEW S, IsFiniteSet(S), NEW f PROVE \E sum : IsSum(sum, f, S)
<1> DEFINE Small(n) == {s \in SUBSET S : Cardinality(s) <= n}
           Step(sum, s) == IF s = {} THEN 0 ELSE f[First(s)] + sum[s \ {First(s)}]
           done == {n \in Nat : \E sum : sum = [s \in Small(n) |-> Step(sum, s)]}
<1>1. \A s \in SUBSET S : IsFiniteSet(s) /\ Cardinality(s) \in Nat
    BY FS_Subset, FS_CardinalityType
<1>2. \A s \in SUBSET S : s # {} => s \ {First(s)} \in SUBSET S /\ Cardinality(s \ {First(s)}) = Cardinality(s) - 1
    BY <1>1, FirstIsElement, FS_RemoveElement
<1>3. 0 \in done
    <2>1. ASSUME NEW s \in Small(0) PROVE s = {}
        <3>1. s \in SUBSET S /\ Cardinality(s) = 0
            BY <1>1
        <3> QED
            BY <1>1, <3>1, FS_EmptySet
    <2> DEFINE sum == [s \in Small(0) |-> 0]
    <2>2. sum = [s \in Small(0) |-> Step(sum, s)]
        BY <2>1
    <2> QED
        BY <2>2
<1>4. ASSUME NEW n \in Nat, n \in done PROVE n + 1 \in done
    <2>1. PICK sum : sum = [s \in Small(n) |-> Step(sum, s)]
        BY <1>4
    <2> DEFINE next == [s \in Small(n + 1) |-> Step(sum, s)]
    <2>2. ASSUME NEW s \in Small(n) PROVE s \in Small(n + 1) /\ next[s] = sum[s]
        <3>1. s \in Small(n + 1)
            BY <1>1
        <3>2. sum[s] = Step(sum, s)
            BY <2>1
        <3> HIDE DEF Step, Small
        <3> QED
            BY <3>1, <3>2
    <2>3. \A s \in Small(n + 1) : s # {} => s \ {First(s)} \in Small(n)
        BY <1>1, <1>2
    <2>4. \A s \in Small(n + 1) : Step(next, s) = Step(sum, s)
        BY <2>2, <2>3
    <2> HIDE DEF Step
    <2>5. next = [s \in Small(n + 1) |-> Step(next, s)]
        BY <2>4
    <2>6. \E any : any = [s \in Small(n + 1) |-> Step(any, s)]
        BY <2>5
    <2>7. n + 1 \in Nat
        OBVIOUS
    <2> HIDE DEF Small, next
    <2> QED
        BY <2>6, <2>7
<1> HIDE DEF done
<1>5. \A n \in Nat : n \in done
    <2> SUFFICES ASSUME Nat \ done # {} PROVE FALSE
        OBVIOUS
    <2>1. PICK n \in Nat \ done : \A k \in Nat \ done : n <= k
        BY SmallestOf
    <2>2. n # 0 /\ n - 1 \in Nat /\ (n - 1) + 1 = n
        BY <1>3
    <2>3. n - 1 \in done
        BY <2>1, <2>2
    <2>4. (n - 1) + 1 \in done
        BY <1>4, <2>2, <2>3
    <2> QED
        BY <2>1, <2>2, <2>4
<1>6. Cardinality(S) \in done
    BY <1>1, <1>5
<1>7. Small(Cardinality(S)) = SUBSET S
    BY <1>1, FS_Subset
<1> QED
    BY <1>6, <1>7 DEF done, IsSum

\* SumFunction of the library is the value of that function for the whole domain.
LEMMA SumFunctionIs ==
    ASSUME NEW f
    PROVE  SumFunction(f) = (CHOOSE sum : IsSum(sum, f, DOMAIN f))[DOMAIN f]
BY DEF IsSum, First, SumFunction, SumFunctionOnSet, FoldFunctionOnSet, MapThenFoldSet

\* The sums of the parts of a set of whole numbers.
AreSums(sum, f, S) ==
    /\ sum \in [SUBSET S -> Int]
    /\ SumFunction(f) = sum[S]
    /\ sum[{}] = 0
    /\ \A s \in SUBSET S : s # {} => First(s) \in s /\ sum[s] = f[First(s)] + sum[s \ {First(s)}]

\* They exist, and each is a whole number.
LEMMA SumsOfParts ==
    ASSUME NEW S, IsFiniteSet(S), NEW f \in [S -> Int]
    PROVE  \E sum : AreSums(sum, f, S)
<1> DEFINE sum == CHOOSE sum : IsSum(sum, f, S)
<1>1. IsSum(sum, f, S) /\ SumFunction(f) = sum[S]
    BY SumExists, SumFunctionIs
<1> HIDE DEF sum
<1>2. sum = [s \in SUBSET S |-> IF s = {} THEN 0 ELSE f[First(s)] + sum[s \ {First(s)}]]
    BY <1>1 DEF IsSum
<1>3. sum[{}] = 0
    BY <1>2
<1>4. \A s \in SUBSET S : s # {} => First(s) \in s /\ sum[s] = f[First(s)] + sum[s \ {First(s)}]
    BY <1>2, FirstIsElement
<1> DEFINE whole == {s \in SUBSET S : sum[s] \in Int}
<1>5. {} \in whole
    BY <1>3
<1>6. ASSUME NEW s \in SUBSET S, s # {}, s \ {First(s)} \in whole PROVE s \in whole
    <2>1. f[First(s)] \in Int
        BY <1>4, <1>6
    <2>2. sum[s \ {First(s)}] \in Int
        BY <1>6
    <2>3. sum[s] = f[First(s)] + sum[s \ {First(s)}]
        BY <1>4, <1>6
    <2>4. sum[s] \in Int
        BY <2>1, <2>2, <2>3
    <2> QED
        BY <2>4
<1> HIDE DEF whole
<1>7. \A s \in SUBSET S : s \in whole
    BY <1>5, <1>6, PartInduction
<1>8. sum \in [SUBSET S -> Int]
    <2>1. \A s \in SUBSET S : sum[s] \in Int
        BY <1>7 DEF whole
    <2> QED
        BY <1>2, <2>1
<1> QED
    BY <1>1, <1>3, <1>4, <1>8 DEF AreSums

\* A sum of whole numbers is one.
LEMMA SumIsWhole == ASSUME NEW S, IsFiniteSet(S), NEW f \in [S -> Int] PROVE SumFunction(f) \in Int
<1>1. PICK sum : AreSums(sum, f, S)
    BY SumsOfParts
<1>2. sum \in [SUBSET S -> Int] /\ SumFunction(f) = sum[S] /\ S \in SUBSET S
    BY <1>1 DEF AreSums
<1> QED
    BY <1>2

\* A sum of zeros is zero.
LEMMA SumOfZeros == ASSUME NEW S, IsFiniteSet(S) PROVE SumFunction([x \in S |-> 0]) = 0
<1> DEFINE f == [x \in S |-> 0]
<1>1. PICK sum : AreSums(sum, f, S)
    BY SumsOfParts
<1> USE DEF AreSums
<1> DEFINE zero == {s \in SUBSET S : sum[s] = 0}
<1>2. {} \in zero
    BY <1>1
<1>3. ASSUME NEW s \in SUBSET S, s # {}, s \ {First(s)} \in zero PROVE s \in zero
    <2>1. f[First(s)] = 0
        BY <1>1, <1>3
    <2> HIDE DEF f
    <2> QED
        BY <1>1, <1>3, <2>1
<1> HIDE DEF zero
<1>4. S \in zero
    BY <1>2, <1>3, PartInduction
<1> QED
    BY <1>1, <1>4 DEF zero

\* When one of the numbers changes, the sum changes by the same amount.
LEMMA SumOfChange ==
    ASSUME NEW S, IsFiniteSet(S), NEW f \in [S -> Int], NEW g \in [S -> Int], NEW k \in S,
           \A x \in S : x # k => g[x] = f[x]
    PROVE  SumFunction(g) = SumFunction(f) + (g[k] - f[k])
<1>1. PICK sum : AreSums(sum, f, S)
    BY SumsOfParts
<1>2. PICK next : AreSums(next, g, S)
    BY SumsOfParts
<1> USE DEF AreSums
<1> DEFINE change == g[k] - f[k]
           changed == {s \in SUBSET S : next[s] = sum[s] + IF k \in s THEN change ELSE 0}
<1>3. change \in Int
    OBVIOUS
<1>4. {} \in changed
    BY <1>1, <1>2
<1>5. ASSUME NEW s \in SUBSET S, s # {}, s \ {First(s)} \in changed PROVE s \in changed
    <2> DEFINE rest == s \ {First(s)}
    <2>1. First(s) \in s /\ sum[s] = f[First(s)] + sum[rest] /\ next[s] = g[First(s)] + next[rest]
        BY <1>1, <1>2, <1>5
    <2>2. sum[s] \in Int /\ next[s] \in Int /\ sum[rest] \in Int /\ next[rest] \in Int /\ f[First(s)] \in Int
        <3>1. rest \in SUBSET S /\ First(s) \in S
            BY <2>1
        <3> HIDE DEF rest
        <3> QED
            BY <1>1, <1>2, <3>1
    <2>3. next[rest] = sum[rest] + IF k \in rest THEN change ELSE 0
        BY <1>5
    <2>4. CASE First(s) = k
        <3>1. k \notin rest /\ k \in s /\ g[k] = f[k] + change
            BY <2>1, <2>4
        <3> HIDE DEF rest, change
        <3>2. next[s] = sum[s] + change
            BY <1>3, <2>1, <2>2, <2>3, <2>4, <3>1
        <3> QED
            BY <3>1, <3>2
    <2>5. CASE First(s) # k
        <3>1. (k \in rest <=> k \in s) /\ g[First(s)] = f[First(s)]
            BY <2>1, <2>5
        <3> HIDE DEF rest, change
        <3>2. next[s] = sum[s] + IF k \in s THEN change ELSE 0
            BY <1>3, <2>1, <2>2, <2>3, <3>1
        <3> QED
            BY <3>2
    <2> QED
        BY <2>4, <2>5
<1> HIDE DEF changed
<1>6. S \in changed
    BY <1>4, <1>5, PartInduction
<1> QED
    BY <1>1, <1>2, <1>6 DEF changed
=============================================================================
