---------------------------- MODULE NumberFacts ----------------------------
(***************************************************************************)
(* What SQL's MIN and MAX return, and what a sum comes to: the facts about *)
(* numbers the proofs use.                                                 *)
(***************************************************************************)
EXTENDS Integers, FiniteSetsExt, TLAPS, WellFoundedInduction, FiniteSetTheorems

\* A non-empty set of numbers has a least one.
LEMMA NatLeast ==
    ASSUME NEW S \in SUBSET Nat, S # {}
    PROVE  \E x \in S : \A y \in S : x <= y
<1> DEFINE R == OpToRel(<, Nat)
<1>1. \A x, y \in Nat : <<y, x>> \in R <=> y < x
  BY DEF OpToRel
<1>2. IsWellFoundedOn(R, Nat)
  BY NatLessThanWellFounded
<1> HIDE DEF R
<1>3. PICK x \in S : \A y \in S : ~(<<y, x>> \in R)
  BY <1>2, WFMin
<1>4. \A y \in S : ~(y < x)
  BY <1>1, <1>3
<1> QED BY <1>4

\* MIN of a column that has values is one of them.
LEMMA MinType ==
    ASSUME NEW S \in SUBSET Nat, S # {}
    PROVE  /\ Min(S) \in S
           /\ \A y \in S : Min(S) <= y
BY NatLeast DEF Min

\* A value that is no greater than any other is the MIN.
LEMMA MinIs ==
    ASSUME NEW S \in SUBSET Nat, NEW x \in S, \A y \in S : x <= y
    PROVE  Min(S) = x
<1>1. Min(S) \in S /\ Min(S) <= x
  BY MinType
<1>2. PICK m \in S : m = Min(S)
  BY <1>1
<1>3. m \in Int /\ x \in Int /\ m <= x /\ x <= m
  BY <1>1, <1>2
<1>4. m = x
  BY <1>3
<1> QED BY <1>2, <1>4

\* A value that is no less than any other is the MAX.
LEMMA MaxIs ==
    ASSUME NEW S \in SUBSET Nat, NEW x \in S, \A y \in S : y <= x
    PROVE  Max(S) = x
<1>1. \E m \in S : \A y \in S : m >= y
  OBVIOUS
<1>2. Max(S) \in S /\ \A y \in S : Max(S) >= y
  BY <1>1 DEF Max
<1>3. PICK m \in S : m = Max(S)
  BY <1>2
<1>4. m \in Int /\ x \in Int /\ m >= x /\ m <= x
  BY <1>2, <1>3
<1>5. m = x
  BY <1>4
<1> QED BY <1>3, <1>5

\* MAX of a column that has values is one of them: a table is finite.
LEMMA MaxType ==
    ASSUME NEW S \in SUBSET Nat, S # {}, IsFiniteSet(S)
    PROVE  /\ Max(S) \in S
           /\ \A y \in S : Max(S) >= y
<1> DEFINE Capped(T) == \E m \in T : \A y \in T : m >= y
           Odd == {n \in Nat : \E T \in SUBSET Nat :
                     IsFiniteSet(T) /\ T # {} /\ Cardinality(T) = n /\ ~Capped(T)}
<1>1. Odd = {}
  <2> SUFFICES ASSUME Odd # {} PROVE FALSE
    OBVIOUS
  <2>1. PICK n \in Odd : \A k \in Odd : n <= k
    BY NatLeast
  <2>2. PICK T \in SUBSET Nat :
           IsFiniteSet(T) /\ T # {} /\ Cardinality(T) = n /\ ~Capped(T)
    BY <2>1
  <2>3. PICK x \in T : TRUE
    BY <2>2
  <2>4. IsFiniteSet(T \ {x}) /\ Cardinality(T \ {x}) = n - 1
    BY <2>2, <2>3, FS_RemoveElement
  <2>5. n - 1 \in Nat
    BY <2>4, FS_CardinalityType
  <2>6. n - 1 \notin Odd
    BY <2>1, <2>5
  <2>7. CASE T \ {x} = {}
    <3>1. T = {x}
      BY <2>3, <2>7
    <3> QED BY <2>2, <3>1
  <2>8. CASE T \ {x} # {}
    <3>1. Capped(T \ {x})
      BY <2>4, <2>5, <2>6, <2>8
    <3>2. PICK m \in T \ {x} : \A y \in T \ {x} : m >= y
      BY <3>1
    <3>3. m \in Nat /\ x \in Nat
      BY <2>2, <2>3, <3>2
    <3>4. Capped(T)
      <4>1. CASE m >= x
        BY <3>2, <4>1
      <4>2. CASE x >= m
        <5>1. \A y \in T : x >= y
          BY <2>2, <3>2, <3>3, <4>2
        <5> QED BY <2>3, <5>1
      <4> QED BY <3>3, <4>1, <4>2
    <3> QED BY <2>2, <3>4
  <2> QED BY <2>7, <2>8
<1>2. Cardinality(S) \in Nat
  BY FS_CardinalityType
<1>3. Capped(S)
  BY <1>1, <1>2
<1> QED BY <1>3 DEF Max

\* A column of a finite table is finite.
LEMMA ColumnFinite ==
    ASSUME NEW S, IsFiniteSet(S), NEW f
    PROVE  IsFiniteSet({f[x] : x \in S})
<1> DEFINE T == {f[x] : x \in S}
           g == [x \in S |-> f[x]]
<1>1. g \in Surjection(S, T)
  BY DEF Surjection
<1> HIDE DEF g, T
<1>2. IsFiniteSet(T)
  BY <1>1, FS_Surjection
<1> QED BY <1>2 DEF T

\* Two numbers with the same quotient are in one bucket: the second lies
\* between the start of the first one's and the start of the next.
LEMMA SameBucket ==
    ASSUME NEW B \in Nat \ {0}, NEW x \in Nat, NEW y \in Nat, x \div B = y \div B
    PROVE  y >= x - (x % B) /\ y < x - (x % B) + B
<1>1. /\ x % B = x - B * (x \div B)
      /\ y % B = y - B * (y \div B)
  BY Z3
<1>2. y % B \in 0 .. B - 1 /\ x % B \in Int /\ B * (y \div B) \in Int
  OBVIOUS
<1>3. PICK q \in Int : q = B * (y \div B)
  BY <1>2
<1>4. x % B = x - q /\ y % B = y - q
  BY <1>1, <1>3
<1> QED BY <1>2, <1>4

-----------------------------------------------------------------------------
(* Induction, with the set of what has been shown in place of a predicate. *)

\* What holds of 0 and of the successor of every number it holds of holds of
\* every number.
LEMMA NumbersBySteps ==
    ASSUME NEW G \in SUBSET Nat, 0 \in G, \A n \in G : n + 1 \in G
    PROVE  G = Nat
<1> SUFFICES ASSUME Nat \ G # {} PROVE FALSE
  OBVIOUS
<1>1. PICK n \in Nat \ G : \A k \in Nat \ G : n <= k
  BY NatLeast
<1>2. n # 0 /\ n - 1 \in Nat
  OBVIOUS
<1>3. n - 1 \in G
  BY <1>1, <1>2
<1> QED BY <1>2, <1>3

\* What holds of the empty set and of a set with one element more than one it
\* holds of holds of every finite set.
LEMMA SetsBySteps ==
    ASSUME NEW S, IsFiniteSet(S), NEW G \in SUBSET (SUBSET S), {} \in G,
           \A T \in G : \A x \in S \ T : T \cup {x} \in G
    PROVE  S \in G
<1> DEFINE N == {n \in Nat : \A T \in SUBSET S : Cardinality(T) = n => T \in G}
<1>1. \A T \in SUBSET S : IsFiniteSet(T) /\ Cardinality(T) \in Nat
  BY FS_Subset, FS_CardinalityType
<1>2. 0 \in N
  BY <1>1, FS_EmptySet
<1>3. ASSUME NEW n \in N PROVE n + 1 \in N
  <2> SUFFICES ASSUME NEW T \in SUBSET S, Cardinality(T) = n + 1 PROVE T \in G
    OBVIOUS
  <2>1. T # {}
    BY FS_EmptySet
  <2>2. PICK x \in T : TRUE
    BY <2>1
  <2>3. Cardinality(T \ {x}) = n
    BY <1>1, <2>2, FS_RemoveElement
  <2>4. T \ {x} \in G
    BY <2>3
  <2>5. (T \ {x}) \cup {x} = T
    BY <2>2
  <2> QED BY <2>4, <2>5
<1> HIDE DEF N
<1>4. N = Nat
  <2>1. N \in SUBSET Nat
    BY DEF N
  <2> QED BY <1>2, <1>3, <2>1, NumbersBySteps
<1> QED BY <1>1, <1>4 DEF N

-----------------------------------------------------------------------------
(* Sums, which the community modules' fold adds up one chosen element at a *)
(* time.                                                                   *)

\* The values of a function added up.
Added(f) == MapThenSumSet(LAMBDA x : f[x], DOMAIN f)

\* The element a fold takes next.
NextOf(s) == CHOOSE x \in s : TRUE

\* sum is the sum of f over every subset of S, taken in that order.
Running(sum, f, S) ==
    sum = [s \in SUBSET S |-> IF s = {} THEN 0 ELSE f[NextOf(s)] + sum[s \ {NextOf(s)}]]

\* There is one for every function of a finite set: by the size of a subset.
LEMMA RunningExists ==
    ASSUME NEW S, IsFiniteSet(S), NEW f
    PROVE  \E sum : Running(sum, f, S)
<1> DEFINE upto(n) == {s \in SUBSET S : Cardinality(s) <= n}
           good(sum, n) == sum = [s \in upto(n) |-> IF s = {} THEN 0
                                                   ELSE f[NextOf(s)] + sum[s \ {NextOf(s)}]]
           N == {n \in Nat : \E sum : good(sum, n)}
<1>1. \A T \in SUBSET S : IsFiniteSet(T) /\ Cardinality(T) \in Nat
  BY FS_Subset, FS_CardinalityType
<1>2. \A s \in SUBSET S : s # {} => /\ NextOf(s) \in s /\ s \ {NextOf(s)} \in SUBSET S
                                    /\ Cardinality(s \ {NextOf(s)}) = Cardinality(s) - 1
  BY <1>1, FS_RemoveElement DEF NextOf
<1>3. 0 \in N
  <2> DEFINE zero == [s \in upto(0) |-> 0]
  <2>1. \A s \in upto(0) : s = {}
    BY <1>1, FS_EmptySet
  <2>2. good(zero, 0)
    BY <2>1
  <2> QED BY <2>2
<1>4. ASSUME NEW n \in N PROVE n + 1 \in N
  <2>1. PICK sum : good(sum, n)
    BY <1>4
  <2> DEFINE new == [s \in upto(n + 1) |->
                        IF s = {} THEN 0 ELSE f[NextOf(s)] + sum[s \ {NextOf(s)}]]
  <2>5. n \in Nat /\ n + 1 \in Nat
    BY <1>4
  <2>6. \A s \in upto(n) : s \in upto(n + 1)
    BY <1>1, <2>5
  <2>7. \A s \in upto(n) : sum[s] = IF s = {} THEN 0 ELSE f[NextOf(s)] + sum[s \ {NextOf(s)}]
    <3> HIDE DEF upto
    <3> QED BY <2>1
  <2>8. \A s \in upto(n + 1) : new[s] = IF s = {} THEN 0 ELSE f[NextOf(s)] + sum[s \ {NextOf(s)}]
    OBVIOUS
  <2>2. \A s \in upto(n) : new[s] = sum[s]
    <3> HIDE DEF upto, new
    <3> QED BY <2>6, <2>7, <2>8
  <2>3. \A s \in upto(n + 1) : s # {} => s \ {NextOf(s)} \in upto(n)
    BY <1>1, <1>2
  <2>4. good(new, n + 1)
    BY <2>2, <2>3
  <2> HIDE DEF good, new
  <2> QED BY <2>4, <2>5
<1>5. N = Nat
  <2>1. N \in SUBSET Nat
    OBVIOUS
  <2> HIDE DEF N
  <2> QED BY <1>3, <1>4, <2>1, NumbersBySteps
<1>6. PICK sum : good(sum, Cardinality(S))
  BY <1>1, <1>5
<1>7. upto(Cardinality(S)) = SUBSET S
  <2> SUFFICES ASSUME NEW s \in SUBSET S PROVE Cardinality(s) <= Cardinality(S)
    OBVIOUS
  <2> QED BY FS_Subset
<1>8. Running(sum, f, S)
  BY <1>6, <1>7 DEF Running
<1> QED BY <1>8

\* The sum is the last of a running sum.
LEMMA AddedRuns ==
    ASSUME NEW f, IsFiniteSet(DOMAIN f)
    PROVE  \E sum : Running(sum, f, DOMAIN f) /\ Added(f) = sum[DOMAIN f]
<1> DEFINE sum == CHOOSE s : Running(s, f, DOMAIN f)
<1>1. Added(f) = sum[DOMAIN f]
  BY DEF Added, MapThenSumSet, MapThenFoldSet, Running, NextOf
<1>2. Running(sum, f, DOMAIN f)
  BY RunningExists
<1> QED BY <1>1, <1>2

\* The values of f over S are integers.
Ints(f, S) == \A x \in S : f[x] \in Int

\* A running sum of integers is one, whatever element is taken first.
LEMMA RunningTakes ==
    ASSUME NEW S, IsFiniteSet(S), NEW f, Ints(f, S), NEW sum, Running(sum, f, S)
    PROVE  /\ sum[{}] = 0
           /\ \A s \in SUBSET S : sum[s] \in Int
           /\ \A s \in SUBSET S : \A x \in s : sum[s] = f[x] + sum[s \ {x}]
<1> DEFINE fine(s) == /\ sum[s] \in Int
                      /\ \A x \in s : sum[s] = f[x] + sum[s \ {x}]
           N == {n \in Nat : \A s \in SUBSET S : Cardinality(s) <= n => fine(s)}
<1>1. \A T \in SUBSET S : IsFiniteSet(T) /\ Cardinality(T) \in Nat
  BY FS_Subset, FS_CardinalityType
<1>2. \A s \in SUBSET S : s # {} => /\ NextOf(s) \in s
                                    /\ sum[s] = f[NextOf(s)] + sum[s \ {NextOf(s)}]
  BY DEF Running, NextOf
<1>3. sum[{}] = 0
  BY DEF Running
<1>4. \A s \in SUBSET S : \A x \in s : /\ s \ {x} \in SUBSET S
                                       /\ Cardinality(s \ {x}) = Cardinality(s) - 1
  BY <1>1, FS_RemoveElement
<1>5. 0 \in N
  <2>1. \A s \in SUBSET S : Cardinality(s) <= 0 => s = {}
    BY <1>1, FS_EmptySet
  <2>2. fine({})
    BY <1>3
  <2> HIDE DEF fine
  <2> QED BY <2>1, <2>2
<1>6. ASSUME NEW n \in N PROVE n + 1 \in N
  <2> SUFFICES ASSUME NEW s \in SUBSET S, Cardinality(s) <= n + 1, s # {} PROVE fine(s)
    <3>1. fine({})
      BY <1>3
    <3>2. n + 1 \in Nat
      BY <1>6
    <3> HIDE DEF fine
    <3> QED BY <3>1, <3>2
  <2> DEFINE m == NextOf(s)
  <2>1. m \in s /\ sum[s] = f[m] + sum[s \ {m}]
    BY <1>2
  <2>2. \A x \in s : fine(s \ {x})
    <3> SUFFICES ASSUME NEW x \in s PROVE Cardinality(s \ {x}) <= n /\ s \ {x} \in SUBSET S
      BY <1>6
    <3> QED BY <1>1, <1>4
  <2>3. \A x \in s : f[x] \in Int
    BY DEF Ints
  <2> HIDE DEF m
  <2>4. sum[s] \in Int
    <3>1. sum[s \ {m}] \in Int
      BY <2>1, <2>2
    <3> QED BY <2>1, <2>3, <3>1
  <2>5. ASSUME NEW x \in s PROVE sum[s] = f[x] + sum[s \ {x}]
    <3>1. CASE x = m
      BY <2>1, <3>1
    <3>2. CASE x # m
      <4>1. x \in s \ {m} /\ m \in s \ {x}
        BY <2>1, <3>2
      <4>2. (s \ {m}) \ {x} = (s \ {x}) \ {m}
        OBVIOUS
      <4>3. sum[s \ {m}] = f[x] + sum[(s \ {m}) \ {x}]
        BY <2>1, <2>2, <4>1
      <4>4. sum[s \ {x}] = f[m] + sum[(s \ {x}) \ {m}]
        BY <2>2, <4>1
      <4>5. sum[(s \ {m}) \ {x}] \in Int
        <5>1. /\ (s \ {m}) \ {x} \in SUBSET S /\ Cardinality((s \ {m}) \ {x}) <= n
          <6>1. Cardinality((s \ {m}) \ {x}) = Cardinality(s \ {m}) - 1 /\ Cardinality(s \ {m}) = Cardinality(s) - 1
            BY <1>4, <2>1, <4>1
          <6> QED BY <1>1, <6>1
        <5> QED BY <1>6, <5>1
      <4>6. f[x] \in Int /\ f[m] \in Int
        BY <2>1, <2>3
      <4>7. PICK r \in Int : r = sum[(s \ {m}) \ {x}]
        BY <4>5
      <4>8. sum[s] = f[m] + (f[x] + r) /\ sum[s \ {x}] = f[m] + r
        BY <2>1, <4>2, <4>3, <4>4, <4>7
      <4> QED BY <4>6, <4>8
    <3> QED BY <3>1, <3>2
  <2> QED BY <2>4, <2>5
<1>7. N = Nat
  <2>1. N \in SUBSET Nat
    OBVIOUS
  <2> HIDE DEF N
  <2> QED BY <1>5, <1>6, <2>1, NumbersBySteps
<1>8. ASSUME NEW s \in SUBSET S PROVE fine(s)
  <2>1. Cardinality(s) \in N
    BY <1>1, <1>7
  <2> QED BY <1>1, <2>1
<1> QED BY <1>3, <1>8

\* Two running sums agree where they add up the same values.
LEMMA RunningAgree ==
    ASSUME NEW S, IsFiniteSet(S), NEW f, \A x \in S : f[x] \in Int, NEW sum, Running(sum, f, S),
           NEW T \in SUBSET S, NEW g, \A x \in T : g[x] = f[x], NEW other, Running(other, g, T)
    PROVE  sum[T] = other[T]
<1> DEFINE G == {s \in SUBSET T : sum[s] = other[s]}
<1>1. IsFiniteSet(T)
  BY FS_Subset
<1>2. /\ sum[{}] = 0
      /\ \A s \in SUBSET S : \A x \in s : sum[s] = f[x] + sum[s \ {x}]
  BY RunningTakes DEF Ints
<1>3. /\ other[{}] = 0
      /\ \A s \in SUBSET T : \A x \in s : other[s] = g[x] + other[s \ {x}]
  <2>1. Ints(g, T)
    BY DEF Ints
  <2>2. /\ other[{}] = 0
        /\ \A s \in SUBSET T : other[s] \in Int
        /\ \A s \in SUBSET T : \A x \in s : other[s] = g[x] + other[s \ {x}]
    BY <1>1, <2>1, RunningTakes
  <2> QED BY <2>2
<1>4. {} \in G
  BY <1>2, <1>3
<1>5. ASSUME NEW s \in G, NEW x \in T \ s PROVE s \cup {x} \in G
  <2>1. s \cup {x} \in SUBSET T /\ s \cup {x} \in SUBSET S /\ (s \cup {x}) \ {x} = s
    OBVIOUS
  <2>2. sum[s \cup {x}] = f[x] + sum[s]
    BY <1>2, <2>1
  <2>3. other[s \cup {x}] = g[x] + other[s]
    BY <1>3, <2>1
  <2> QED BY <2>1, <2>2, <2>3
<1> HIDE DEF G
<1>6. T \in G
  <2>1. G \in SUBSET (SUBSET T)
    BY DEF G
  <2> QED BY <1>1, <1>4, <1>5, <2>1, SetsBySteps
<1> QED BY <1>6 DEF G

\* A sum of integers is one; nothing adds up to 0.
LEMMA AddedType ==
    ASSUME NEW f, IsFiniteSet(DOMAIN f), \A x \in DOMAIN f : f[x] \in Int
    PROVE  /\ Added(f) \in Int
           /\ DOMAIN f = {} => Added(f) = 0
<1>1. PICK sum : Running(sum, f, DOMAIN f) /\ Added(f) = sum[DOMAIN f]
  BY AddedRuns
<1>2. Ints(f, DOMAIN f)
  BY DEF Ints
<1> QED BY <1>1, <1>2, RunningTakes

\* One value more.
LEMMA AddedMore ==
    ASSUME NEW f, IsFiniteSet(DOMAIN f), \A x \in DOMAIN f : f[x] \in Int,
           NEW g, NEW x \in DOMAIN f, DOMAIN g = DOMAIN f \ {x},
           \A y \in DOMAIN g : g[y] = f[y]
    PROVE  Added(f) = f[x] + Added(g)
<1>1. IsFiniteSet(DOMAIN g) /\ DOMAIN g \in SUBSET (DOMAIN f)
  BY FS_Subset
<1>2. PICK sum : Running(sum, f, DOMAIN f) /\ Added(f) = sum[DOMAIN f]
  BY AddedRuns
<1>3. PICK other : Running(other, g, DOMAIN g) /\ Added(g) = other[DOMAIN g]
  BY <1>1, AddedRuns
<1>4. sum[DOMAIN f] = f[x] + sum[DOMAIN g]
  <2>1. \A s \in SUBSET DOMAIN f : \A y \in s : sum[s] = f[y] + sum[s \ {y}]
    <3>1. Ints(f, DOMAIN f)
      BY DEF Ints
    <3>2. PICK D : D = DOMAIN f
      OBVIOUS
    <3>3. IsFiniteSet(D) /\ Ints(f, D) /\ Running(sum, f, D)
      BY <1>2, <3>1, <3>2
    <3>4. /\ sum[{}] = 0
          /\ \A s \in SUBSET D : sum[s] \in Int
          /\ \A s \in SUBSET D : \A y \in s : sum[s] = f[y] + sum[s \ {y}]
      BY ONLY <3>3, RunningTakes
    <3> QED BY <3>2, <3>4
  <2> QED BY <2>1
<1>5. sum[DOMAIN g] = other[DOMAIN g]
  BY <1>1, <1>2, <1>3, RunningAgree
<1> QED BY <1>2, <1>3, <1>4, <1>5

\* The part of a function that is over T.
Narrowed(f, T) == [x \in T |-> f[x]]

\* A set and one element more.
LEMMA AddedElement ==
    ASSUME NEW f, NEW T, IsFiniteSet(T), NEW x, x \notin T, \A y \in T \cup {x} : f[y] \in Int
    PROVE  Added(Narrowed(f, T \cup {x})) = f[x] + Added(Narrowed(f, T))
<1> DEFINE a == Narrowed(f, T \cup {x})
           b == Narrowed(f, T)
<1>1. /\ DOMAIN a = T \cup {x} /\ \A y \in T \cup {x} : a[y] = f[y]
      /\ DOMAIN b = T /\ \A y \in T : b[y] = f[y]
  BY DEF Narrowed
<1>2. IsFiniteSet(DOMAIN a)
  BY <1>1, FS_AddElement
<1>3. DOMAIN b = DOMAIN a \ {x} /\ x \in DOMAIN a
  BY <1>1
<1> HIDE DEF a, b
<1>4. Added(a) = a[x] + Added(b)
  BY <1>1, <1>2, <1>3, AddedMore
<1> QED BY <1>1, <1>4 DEF a, b

\* The sum over a part is a number.
LEMMA AddedOver ==
    ASSUME NEW f, NEW T, IsFiniteSet(T), \A y \in T : f[y] \in Int
    PROVE  Added(Narrowed(f, T)) \in Int /\ (T = {} => Added(Narrowed(f, T)) = 0)
<1>1. DOMAIN Narrowed(f, T) = T /\ \A y \in T : Narrowed(f, T)[y] = f[y]
  BY DEF Narrowed
<1> QED BY <1>1, AddedType

\* A sum of naturals is one.
LEMMA AddedNat ==
    ASSUME NEW f, NEW S, IsFiniteSet(S), \A y \in S : f[y] \in Nat
    PROVE  Added(Narrowed(f, S)) \in Nat
<1> DEFINE G == {T \in SUBSET S : Added(Narrowed(f, T)) \in Nat}
<1>1. {} \in G
  BY AddedOver, FS_EmptySet
<1>2. ASSUME NEW T \in G, NEW x \in S \ T PROVE T \cup {x} \in G
  <2>1. IsFiniteSet(T)
    BY FS_Subset
  <2>2. Added(Narrowed(f, T \cup {x})) = f[x] + Added(Narrowed(f, T))
    BY <2>1, AddedElement
  <2>3. f[x] \in Nat /\ Added(Narrowed(f, T)) \in Nat
    OBVIOUS
  <2> QED BY <2>2, <2>3
<1> HIDE DEF G
<1>3. S \in G
  <2>1. G \in SUBSET (SUBSET S)
    BY DEF G
  <2> QED BY <1>1, <1>2, <2>1, SetsBySteps
<1> QED BY <1>3 DEF G

\* Two sets that share nothing.
LEMMA AddedUnion ==
    ASSUME NEW f, NEW A, NEW C, IsFiniteSet(A), IsFiniteSet(C), A \cap C = {},
           \A y \in A \cup C : f[y] \in Int
    PROVE  Added(Narrowed(f, A \cup C)) = Added(Narrowed(f, A)) + Added(Narrowed(f, C))
<1> DEFINE G == {T \in SUBSET C : Added(Narrowed(f, A \cup T)) = Added(Narrowed(f, A)) + Added(Narrowed(f, T))}
<1>1. {} \in G
  <2>1. A \cup {} = A
    OBVIOUS
  <2>2. Added(Narrowed(f, A)) \in Int
    BY AddedOver
  <2>3. Added(Narrowed(f, {})) = 0
    BY AddedOver, FS_EmptySet
  <2> QED BY <2>1, <2>2, <2>3
<1>2. ASSUME NEW T \in G, NEW x \in C \ T PROVE T \cup {x} \in G
  <2>1. IsFiniteSet(T) /\ IsFiniteSet(A \cup T)
    BY FS_Subset, FS_Union
  <2>2. x \notin A \cup T /\ A \cup (T \cup {x}) = (A \cup T) \cup {x}
    OBVIOUS
  <2>3. Added(Narrowed(f, (A \cup T) \cup {x})) = f[x] + Added(Narrowed(f, A \cup T))
    <3>1. \A y \in (A \cup T) \cup {x} : f[y] \in Int
      OBVIOUS
    <3> QED BY <2>1, <2>2, <3>1, AddedElement
  <2>4. Added(Narrowed(f, T \cup {x})) = f[x] + Added(Narrowed(f, T))
    BY <2>1, AddedElement
  <2>5. f[x] \in Int /\ Added(Narrowed(f, A)) \in Int /\ Added(Narrowed(f, T)) \in Int
    BY <2>1, AddedOver
  <2>6. Added(Narrowed(f, A \cup T)) = Added(Narrowed(f, A)) + Added(Narrowed(f, T))
    OBVIOUS
  <2>7. Added(Narrowed(f, A \cup (T \cup {x}))) = Added(Narrowed(f, A)) + Added(Narrowed(f, T \cup {x}))
    <3>1. PICK a \in Int, t \in Int, i \in Int :
             a = Added(Narrowed(f, A)) /\ t = Added(Narrowed(f, T)) /\ i = f[x]
      BY <2>5
    <3>2. i + (a + t) = a + (i + t)
      OBVIOUS
    <3> QED BY <2>2, <2>3, <2>4, <2>6, <3>1, <3>2
  <2> QED BY <2>7
<1> HIDE DEF G
<1>3. C \in G
  <2>1. G \in SUBSET (SUBSET C)
    BY DEF G
  <2> QED BY <1>1, <1>2, <2>1, SetsBySteps
<1> QED BY <1>3 DEF G

\* The blocks of a partition share out the sum.
LEMMA AddedParts ==
    ASSUME NEW f, NEW D, IsFiniteSet(D), \A y \in D : f[y] \in Int,
           NEW B, IsFiniteSet(B), NEW part, \A b \in B : part[b] \subseteq D,
           \A b, c \in B : b # c => part[b] \cap part[c] = {},
           \A y \in D : \E b \in B : y \in part[b]
    PROVE  Added([b \in B |-> Added(Narrowed(f, part[b]))]) = Added(Narrowed(f, D))
<1> DEFINE sums == [b \in B |-> Added(Narrowed(f, part[b]))]
           within(T) == UNION {part[b] : b \in T}
           G == {T \in SUBSET B : Added(Narrowed(sums, T)) = Added(Narrowed(f, within(T)))}
<1>1. \A b \in B : sums[b] = Added(Narrowed(f, part[b])) /\ sums[b] \in Int /\ IsFiniteSet(part[b])
  <2> SUFFICES ASSUME NEW b \in B
               PROVE  IsFiniteSet(part[b]) /\ Added(Narrowed(f, part[b])) \in Int
    OBVIOUS
  <2>1. IsFiniteSet(part[b])
    BY FS_Subset
  <2> QED BY <2>1, AddedOver
<1> HIDE DEF sums
<1>2. \A T \in SUBSET B : IsFiniteSet(within(T)) /\ within(T) \subseteq D
  <2> SUFFICES ASSUME NEW T \in SUBSET B PROVE within(T) \subseteq D
    BY FS_Subset
  <2> QED OBVIOUS
<1>3. {} \in G
  <2>1. within({}) = {}
    OBVIOUS
  <2> QED BY <2>1, AddedOver, FS_EmptySet
<1>4. ASSUME NEW T \in G, NEW x \in B \ T PROVE T \cup {x} \in G
  <2>1. IsFiniteSet(T)
    BY FS_Subset
  <2>2. within(T \cup {x}) = within(T) \cup part[x]
    OBVIOUS
  <2>3. within(T) \cap part[x] = {}
    OBVIOUS
  <2>4. Added(Narrowed(f, within(T) \cup part[x])) = Added(Narrowed(f, within(T))) + Added(Narrowed(f, part[x]))
    <3>1. \A y \in within(T) \cup part[x] : f[y] \in Int
      BY <1>2
    <3>2. IsFiniteSet(within(T)) /\ IsFiniteSet(part[x])
      BY <1>1, <1>2
    <3> HIDE DEF within
    <3> QED BY <2>3, <3>1, <3>2, AddedUnion
  <2>5. Added(Narrowed(sums, T \cup {x})) = sums[x] + Added(Narrowed(sums, T))
    <3>1. \A b \in T \cup {x} : sums[b] \in Int
      BY <1>1
    <3> QED BY <2>1, <3>1, AddedElement
  <2>6. Added(Narrowed(sums, T)) \in Int /\ sums[x] \in Int
    BY <1>1, <2>1, AddedOver
  <2>7. Added(Narrowed(sums, T)) = Added(Narrowed(f, within(T)))
    OBVIOUS
  <2>8. sums[x] = Added(Narrowed(f, part[x]))
    BY <1>1
  <2>9. T \cup {x} \in SUBSET B
    OBVIOUS
  <2> HIDE DEF within
  <2>10. Added(Narrowed(sums, T \cup {x})) = Added(Narrowed(f, within(T \cup {x})))
    <3>1. PICK i \in Int, t \in Int : i = sums[x] /\ t = Added(Narrowed(sums, T))
      BY <2>6
    <3>2. i + t = t + i
      OBVIOUS
    <3> QED BY <2>2, <2>4, <2>5, <2>7, <2>8, <3>1, <3>2
  <2> QED BY <2>9, <2>10
<1> HIDE DEF G
<1>5. B \in G
  <2>1. G \in SUBSET (SUBSET B)
    BY DEF G
  <2> QED BY <1>3, <1>4, <2>1, SetsBySteps
<1>6. within(B) = D
  OBVIOUS
<1>7. Narrowed(sums, B) = sums
  BY DEF Narrowed, sums
<1> QED BY <1>5, <1>6, <1>7 DEF G, sums

\* A set has as many elements as the ones it adds up to.
LEMMA AddedOnes ==
    ASSUME NEW S, IsFiniteSet(S), NEW f, \A y \in S : f[y] = 1
    PROVE  Added(Narrowed(f, S)) = Cardinality(S)
<1> DEFINE G == {T \in SUBSET S : Added(Narrowed(f, T)) = Cardinality(T)}
<1>1. {} \in G
  BY AddedOver, FS_EmptySet
<1>2. ASSUME NEW T \in G, NEW x \in S \ T PROVE T \cup {x} \in G
  <2>1. IsFiniteSet(T) /\ Cardinality(T) \in Nat
    BY FS_Subset, FS_CardinalityType
  <2>2. Added(Narrowed(f, T \cup {x})) = f[x] + Added(Narrowed(f, T))
    <3>1. \A y \in T \cup {x} : f[y] \in Int
      OBVIOUS
    <3> QED BY <2>1, <3>1, AddedElement
  <2>3. Cardinality(T \cup {x}) = Cardinality(T) + 1
    BY <2>1, FS_AddElement
  <2> QED BY <2>1, <2>2, <2>3
<1> HIDE DEF G
<1>3. S \in G
  <2>1. G \in SUBSET (SUBSET S)
    BY DEF G
  <2> QED BY <1>1, <1>2, <2>1, SetsBySteps
<1> QED BY <1>3 DEF G

\* The blocks of a partition share out the number of elements.
LEMMA CountedParts ==
    ASSUME NEW D, IsFiniteSet(D), NEW B, IsFiniteSet(B), NEW part, \A b \in B : part[b] \subseteq D,
           \A b, c \in B : b # c => part[b] \cap part[c] = {},
           \A y \in D : \E b \in B : y \in part[b]
    PROVE  Added([b \in B |-> Cardinality(part[b])]) = Cardinality(D)
<1> DEFINE one == [y \in D |-> 1]
<1>1. \A y \in D : one[y] = 1 /\ one[y] \in Int
  OBVIOUS
<1> HIDE DEF one
<1>2. Added([b \in B |-> Added(Narrowed(one, part[b]))]) = Added(Narrowed(one, D))
  BY <1>1, AddedParts
<1>3. \A b \in B : Added(Narrowed(one, part[b])) = Cardinality(part[b])
  <2> SUFFICES ASSUME NEW b \in B PROVE Added(Narrowed(one, part[b])) = Cardinality(part[b])
    OBVIOUS
  <2>1. IsFiniteSet(part[b])
    BY FS_Subset
  <2> QED BY <1>1, <2>1, AddedOnes
<1>4. [b \in B |-> Added(Narrowed(one, part[b]))] = [b \in B |-> Cardinality(part[b])]
  BY <1>3
<1>5. Added(Narrowed(one, D)) = Cardinality(D)
  BY <1>1, AddedOnes
<1> QED BY <1>2, <1>4, <1>5

\* A sum does not depend on what its terms are named by.
LEMMA AddedImage ==
    ASSUME NEW f, NEW B, IsFiniteSet(B), NEW g,
           \A b, c \in B : b # c => g[b] # g[c], Ints(f, {g[b] : b \in B})
    PROVE  Added([b \in B |-> f[g[b]]]) = Added(Narrowed(f, {g[b] : b \in B}))
<1> DEFINE D == {g[b] : b \in B}
           part == [b \in B |-> {g[b]}]
<1>1. IsFiniteSet(D)
  BY ColumnFinite
<1>2. \A y \in D : f[y] \in Int
  BY DEF Ints
<1>3. /\ \A b \in B : part[b] = {g[b]}
      /\ \A b \in B : part[b] \subseteq D
      /\ \A b, c \in B : b # c => part[b] \cap part[c] = {}
      /\ \A y \in D : \E b \in B : y \in part[b]
  OBVIOUS
<1>4. ASSUME NEW b \in B PROVE Added(Narrowed(f, part[b])) = f[g[b]]
  <2> DEFINE x == g[b]
  <2>1. f[x] \in Int /\ part[b] = {} \cup {x}
    BY <1>2, <1>3
  <2> HIDE DEF x, part, D
  <2>2. Added(Narrowed(f, {} \cup {x})) = f[x] + Added(Narrowed(f, {}))
    BY <2>1, FS_EmptySet, AddedElement
  <2>3. Added(Narrowed(f, {})) = 0
    BY FS_EmptySet, AddedOver
  <2>4. Added(Narrowed(f, part[b])) = f[x]
    BY <2>1, <2>2, <2>3
  <2> QED BY <2>4 DEF x
<1> HIDE DEF D, part
<1>5. Added([b \in B |-> Added(Narrowed(f, part[b]))]) = Added(Narrowed(f, D))
  BY <1>1, <1>2, <1>3, AddedParts
<1>6. [b \in B |-> Added(Narrowed(f, part[b]))] = [b \in B |-> f[g[b]]]
  BY <1>4
<1> QED BY <1>5, <1>6 DEF D

\* A part of a sum of naturals is no more than the sum.
LEMMA AddedLess ==
    ASSUME NEW f, NEW S, IsFiniteSet(S), \A y \in S : f[y] \in Nat, NEW T \in SUBSET S
    PROVE  Added(Narrowed(f, T)) <= Added(Narrowed(f, S))
<1> DEFINE R == S \ T
<1>1. IsFiniteSet(T) /\ IsFiniteSet(R) /\ T \cap R = {} /\ T \cup R = S
  BY FS_Subset
<1>2. \A y \in T : f[y] \in Nat
  OBVIOUS
<1>3. \A y \in R : f[y] \in Nat
  OBVIOUS
<1>4. \A y \in T \cup R : f[y] \in Int
  OBVIOUS
<1> HIDE DEF R
<1>5. Added(Narrowed(f, T \cup R)) = Added(Narrowed(f, T)) + Added(Narrowed(f, R))
  BY <1>1, <1>4, AddedUnion
<1>6. Added(Narrowed(f, T)) \in Nat /\ Added(Narrowed(f, R)) \in Nat
  BY <1>1, <1>2, <1>3, AddedNat
<1>7. PICK a, b \in Nat : Added(Narrowed(f, T)) = a /\ Added(Narrowed(f, R)) = b
  BY <1>6
<1> QED BY <1>1, <1>5, <1>7

\* Quotient and remainder.
LEMMA Divided ==
    ASSUME NEW d \in Nat \ {0}, NEW x \in Nat
    PROVE  /\ x \div d \in Nat /\ x % d \in 0 .. d - 1 /\ (x \div d) * d \in Nat
           /\ x = ((x \div d) * d) + (x % d)
<1>1. x \div d \in Nat /\ x % d \in 0 .. d - 1
  BY Z3
<1>2. x % d = x - d * (x \div d)
  BY Z3
<1>3. PICK q \in Nat : q = x \div d
  BY <1>1
<1>4. d * q = q * d /\ q * d \in Nat
  BY Z3
<1> QED BY <1>1, <1>2, <1>3, <1>4

\* A multiple of fewer is less by one at least.
LEMMA FewerTimes ==
    ASSUME NEW d \in Nat, NEW a \in Int, NEW b \in Int, a < b
    PROVE  a * d \in Int /\ b * d \in Int /\ a * d + d <= b * d
<1>1. PICK k \in Nat : b = a + 1 + k
  <2>1. b - a - 1 \in Nat /\ b = a + 1 + (b - a - 1)
    OBVIOUS
  <2> QED BY <2>1
<1>2. b * d = a * d + d + k * d /\ k * d >= 0 /\ a * d \in Int /\ k * d \in Int
  BY <1>1, Z3
<1> QED BY <1>2

\* The difference of two multiples is one.
LEMMA MultiplesApart ==
    ASSUME NEW d \in Nat \ {0}, NEW x \in Nat, NEW y \in Nat, x % d = 0, y % d = 0, x < y
    PROVE  /\ (y - x) \div d \in Nat /\ (y - x) \div d >= 1
           /\ ((y - x) \div d) * d = y - x
<1> DEFINE p == x \div d
           q == y \div d
<1>1. p \in Nat /\ q \in Nat /\ x = p * d /\ y = q * d
  BY Divided
<1> HIDE DEF p, q
<1>2. PICK n \in Nat : n = y - x
  OBVIOUS
<1>3. /\ n \div d \in Nat /\ n % d \in 0 .. d - 1 /\ (n \div d) * d \in Nat
      /\ n = ((n \div d) * d) + (n % d)
  BY Divided
<1>4. PICK k \in Nat, r \in Nat : k = n \div d /\ r = n % d /\ r < d /\ n = k * d + r /\ k * d \in Nat
  BY <1>3
<1>5. (q - p) * d = n /\ q - p \in Int
  BY <1>1, <1>2, Z3
<1>6. q - p = k
  <2>1. CASE q - p < k
    <3>1. (q - p) * d + d <= k * d
      BY <1>5, <2>1, FewerTimes
    <3> QED BY <1>4, <1>5, <3>1
  <2>2. CASE k < q - p
    <3>1. k * d + d <= (q - p) * d
      BY <1>5, <2>2, FewerTimes
    <3> QED BY <1>4, <1>5, <3>1
  <2> QED BY <1>4, <1>5, <2>1, <2>2
<1>7. k * d = n
  BY <1>5, <1>6
<1>8. k # 0
  <2> SUFFICES ASSUME k = 0 PROVE FALSE
    OBVIOUS
  <2>1. k * d = 0
    BY Z3
  <2> QED BY <1>2, <1>7, <2>1
<1> QED BY <1>2, <1>4, <1>7, <1>8

\* Division keeps the order.
LEMMA DividedRises ==
    ASSUME NEW d \in Nat \ {0}, NEW x \in Nat, NEW y \in Nat, x <= y
    PROVE  x \div d \in Nat /\ y \div d \in Nat /\ x \div d <= y \div d
<1>1. PICK p \in Nat, r \in Nat : p = x \div d /\ p * d \in Nat /\ r < d /\ x = p * d + r
  BY Divided
<1>2. PICK q \in Nat, s \in Nat : q = y \div d /\ q * d \in Nat /\ s < d /\ y = q * d + s
  BY Divided
<1>3. CASE q < p
  <2>1. q * d + d <= p * d
    BY <1>3, FewerTimes
  <2> QED BY <1>1, <1>2, <2>1
<1> QED BY <1>1, <1>2, <1>3

\* The same, for the two of them.
LEMMA DividedParts ==
    ASSUME NEW d \in Nat \ {0}, NEW x \in Nat
    PROVE  \E p, r \in Nat : /\ p = x \div d /\ r = x % d /\ r < d /\ p * d \in Nat
                             /\ x = p * d + r
BY Divided

\* Two numbers with the same remainder are a multiple apart.
LEMMA SameRemainder ==
    ASSUME NEW d \in Nat \ {0}, NEW x \in Nat, NEW y \in Nat, x % d = y % d, x < y
    PROVE  x + d <= y
<1>1. PICK p \in Nat, r \in Nat : /\ p = x \div d /\ r = x % d /\ r < d /\ p * d \in Nat
                                  /\ x = p * d + r
  BY DividedParts
<1>2. PICK q \in Nat, s \in Nat : /\ q = y \div d /\ s = y % d /\ s < d /\ q * d \in Nat
                                  /\ y = q * d + s
  BY DividedParts
<1>3. p < q
  <2>1. CASE q < p
    <3>1. q * d + d <= p * d
      BY <2>1, FewerTimes
    <3> QED BY <1>1, <1>2, <3>1
  <2>2. CASE p = q
    BY <1>1, <1>2, <2>2
  <2> QED BY <2>1, <2>2
<1>4. p * d + d <= q * d
  BY <1>3, FewerTimes
<1> QED BY <1>1, <1>2, <1>4

\* What is a number of times d, and a remainder, has these two.
LEMMA DividedIs ==
    ASSUME NEW d \in Nat \ {0}, NEW p \in Nat, NEW r \in Nat, r < d
    PROVE  /\ p * d + r \in Nat
           /\ (p * d + r) \div d = p /\ (p * d + r) % d = r
<1>1. PICK m \in Nat : m = p * d
  <2>1. p * d \in Nat
    BY Z3
  <2> QED BY <2>1
<1>2. PICK x \in Nat : x = m + r
  BY <1>1
<1>3. PICK q \in Nat, s \in Nat : /\ q = x \div d /\ s = x % d /\ s < d /\ q * d \in Nat
                                  /\ x = q * d + s
  BY Divided
<1>4. q = p
  <2>1. CASE q < p
    <3>1. q * d + d <= p * d
      BY <2>1, FewerTimes
    <3> QED BY <1>1, <1>2, <1>3, <3>1
  <2>2. CASE p < q
    <3>1. p * d + d <= q * d
      BY <2>2, FewerTimes
    <3> QED BY <1>1, <1>2, <1>3, <3>1
  <2> QED BY <2>1, <2>2
<1>5. s = r
  BY <1>1, <1>2, <1>3, <1>4
<1> QED BY <1>1, <1>2, <1>3, <1>4, <1>5
=============================================================================
