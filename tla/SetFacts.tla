------------------------------ MODULE SetFacts ------------------------------
(***************************************************************************)
(* Facts about finite sets that the proofs of the components rest on: sums  *)
(* over them, for what AppSource holds and AppDest mints, and ranks in them, *)
(* for the order of the storage slots.                                       *)
(***************************************************************************)
EXTENDS Functions, FiniteSetTheorems, TLAPS

\* Among some subsets of a finite set there is a least one: what induction over
\* finite sets comes down to.
LEMMA LeastSubset ==
  ASSUME NEW S, IsFiniteSet(S), NEW C \in SUBSET SUBSET S, C # {}
  PROVE  \E T \in C : \A U \in C : U \subseteq T => U = T
<1>1. IsWellFoundedOn(StrictSubsetOrdering(S), SUBSET S)
  BY FS_StrictSubsetOrderingWellFounded, FS_FiniteSubsetsOfFinite
<1>2. PICK T \in C : \A U \in C : <<U, T>> \notin StrictSubsetOrdering(S)
  BY <1>1, WFMin
<1>3. \A U \in C : U \subseteq T => U = T
  BY <1>2 DEF StrictSubsetOrdering
<1> QED
  BY <1>3

\* A set of naturals has a least element.
LEMMA LeastNatural ==
  ASSUME NEW C \in SUBSET Nat, C # {}
  PROVE  \E n \in C : \A m \in C : n <= m
<1>1. PICK k \in C : k \in Nat
  OBVIOUS
<1> DEFINE S == 0..k
           D == {T \in SUBSET S : \E m \in C : m <= k /\ T = 0..m}
<1>2. IsFiniteSet(S)
  <2>1. 0 \in Int /\ k \in Int
    BY <1>1
  <2> QED
    BY <2>1, FS_Interval
<1>3. D \in SUBSET SUBSET S
  OBVIOUS
<1>4. \A m \in C : m <= k => 0..m \in D
  BY <1>1
<1>5. D # {}
  BY <1>1, <1>4
<1>6. \A T \in D : \E m \in C : m <= k /\ T = 0..m
  OBVIOUS
<1> HIDE DEF S, D
<1>7. PICK T \in D : \A U \in D : U \subseteq T => U = T
  BY <1>2, <1>3, <1>5, LeastSubset
<1>8. PICK n \in C : n <= k /\ T = 0..n
  BY <1>6
<1>9. ASSUME NEW m \in C PROVE n <= m
  <2>1. SUFFICES ASSUME m < n PROVE FALSE
    OBVIOUS
  <2>2. m <= k /\ 0..m \subseteq 0..n
    BY <1>1, <1>8, <2>1
  <2>3. 0..m = 0..n
    BY <1>4, <1>7, <1>8, <2>2
  <2>4. n \in 0..n /\ n \notin 0..m
    BY <2>1
  <2> QED
    BY <2>3, <2>4
<1> QED
  BY <1>9

-----------------------------------------------------------------------------
(* Sums. The library sums a function by taking the elements of a set one by  *)
(* one, in an order nothing is known of.                                     *)

Pick(S) == CHOOSE x \in S : TRUE

\* g has the sum of f over each subset of S.
SumsTo(g, f, S) ==
  g = [s \in SUBSET S |-> IF s = {} THEN 0 ELSE f[Pick(s)] + g[s \ {Pick(s)}]]

LEMMA SumIsChosen ==
  ASSUME NEW f, NEW S
  PROVE  SumFunctionOnSet(f, S) = (CHOOSE g : SumsTo(g, f, S))[S]
BY Zenon DEF SumFunctionOnSet, FoldFunctionOnSet, MapThenFoldSet, SumsTo, Pick

LEMMA PickInSet == \A S : S # {} => Pick(S) \in S
BY DEF Pick

\* What SumsTo says of one subset.
LEMMA SumsToStep ==
  ASSUME NEW f, NEW S, NEW g, SumsTo(g, f, S), NEW s \in SUBSET S
  PROVE  g[s] = IF s = {} THEN 0 ELSE f[Pick(s)] + g[s \ {Pick(s)}]
BY DEF SumsTo

\* Two functions that have the sums agree, on whatever both are defined on.
LEMMA SumsAgree ==
  ASSUME NEW f, NEW S, NEW T, IsFiniteSet(S), NEW g, NEW h,
         SumsTo(g, f, S), SumsTo(h, f, T), NEW s \in SUBSET S, s \in SUBSET T
  PROVE  g[s] = h[s]
<1> DEFINE C == {r \in SUBSET S : r \in SUBSET T /\ g[r] # h[r]}
<1>1. SUFFICES ASSUME C # {} PROVE FALSE
  OBVIOUS
<1>2. PICK r \in C : \A q \in C : q \subseteq r => q = r
  <2>1. C \in SUBSET SUBSET S
    OBVIOUS
  <2> HIDE DEF C
  <2> QED
    BY <1>1, <2>1, LeastSubset
<1>3. r # {} => /\ r \ {Pick(r)} \in SUBSET S /\ r \ {Pick(r)} \in SUBSET T
                /\ r \ {Pick(r)} \subseteq r /\ r \ {Pick(r)} # r
  BY PickInSet
<1>4. r # {} => g[r \ {Pick(r)}] = h[r \ {Pick(r)}]
  BY <1>2, <1>3
<1>5. r \in SUBSET S /\ r \in SUBSET T /\ g[r] # h[r]
  OBVIOUS
<1>6. g[r] = IF r = {} THEN 0 ELSE f[Pick(r)] + g[r \ {Pick(r)}]
  BY <1>5, SumsToStep
<1>7. h[r] = IF r = {} THEN 0 ELSE f[Pick(r)] + h[r \ {Pick(r)}]
  BY <1>5, SumsToStep
<1> HIDE DEF C
<1> QED
  BY <1>4, <1>5, <1>6, <1>7

\* There is a function that has the sums.
LEMMA SumsExist ==
  ASSUME NEW f, NEW S, IsFiniteSet(S)
  PROVE  \E g : SumsTo(g, f, S)
<1> DEFINE C == {T \in SUBSET S : ~\E g : SumsTo(g, f, T)}
<1>1. SUFFICES ASSUME C # {} PROVE FALSE
  <2>1. C = {}
    BY <1>1
  <2> QED
    BY <2>1
<1>2. PICK T \in C : \A U \in C : U \subseteq T => U = T
  <2>1. C \in SUBSET SUBSET S
    OBVIOUS
  <2> HIDE DEF C
  <2> QED
    BY <1>1, <2>1, LeastSubset
<1>3. ASSUME NEW U \in SUBSET T, U # T PROVE \E g : SumsTo(g, f, U)
  BY <1>2, <1>3
<1> DEFINE has(U) == CHOOSE g : SumsTo(g, f, U)
           g == [s \in SUBSET T |->
                   IF s = {} THEN 0 ELSE f[Pick(s)] + has(s \ {Pick(s)})[s \ {Pick(s)}]]
<1>4. ASSUME NEW U \in SUBSET T, U # T PROVE SumsTo(has(U), f, U)
  BY <1>3, <1>4
<1>5. ASSUME NEW U \in SUBSET T, U # T PROVE g[U] = has(U)[U]
  <2>1. CASE U = {}
    BY <1>4, <1>5, <2>1, SumsToStep
  <2>2. CASE U # {}
    <3> DEFINE V == U \ {Pick(U)}
    <3>1. V \in SUBSET T /\ V # T /\ V \in SUBSET U /\ V \in SUBSET V /\ U \in SUBSET U
      BY PickInSet, <2>2
    <3>2. SumsTo(has(V), f, V) /\ SumsTo(has(U), f, U)
      BY <3>1, <1>4, <1>5
    <3>3. IsFiniteSet(U)
      BY <1>2, FS_Subset
    <3>4. has(U)[V] = has(V)[V]
      <4> HIDE DEF has, V
      <4> QED
        BY <3>1, <3>2, <3>3, SumsAgree
    <3>5. has(U)[U] = f[Pick(U)] + has(U)[V]
      <4>1. has(U)[U] = IF U = {} THEN 0 ELSE f[Pick(U)] + has(U)[U \ {Pick(U)}]
        <5> HIDE DEF has, V
        <5> QED
          BY <3>1, <3>2, SumsToStep
      <4> QED
        BY <4>1, <2>2
    <3>6. g[U] = f[Pick(U)] + has(V)[V]
      <4> HIDE DEF has
      <4> QED
        BY <2>2, <1>5
    <3> QED
      BY <3>4, <3>5, <3>6
  <2> QED
    BY <2>1, <2>2
<1>6. ASSUME NEW s \in SUBSET T, s # {}
      PROVE  g[s \ {Pick(s)}] = has(s \ {Pick(s)})[s \ {Pick(s)}]
  <2>1. s \ {Pick(s)} \in SUBSET T /\ s \ {Pick(s)} # T
    BY PickInSet, <1>6
  <2> HIDE DEF has, g
  <2> QED
    BY <2>1, <1>5
<1>7. g = [s \in SUBSET T |-> IF s = {} THEN 0 ELSE f[Pick(s)] + g[s \ {Pick(s)}]]
  <2>1. ASSUME NEW s \in SUBSET T
        PROVE  g[s] = IF s = {} THEN 0 ELSE f[Pick(s)] + g[s \ {Pick(s)}]
    <3>1. g[s] = IF s = {} THEN 0 ELSE f[Pick(s)] + has(s \ {Pick(s)})[s \ {Pick(s)}]
      <4> HIDE DEF has
      <4> QED
        OBVIOUS
    <3> HIDE DEF has, g
    <3> QED
      BY <3>1, <1>6
  <2> DEFINE h == [s \in SUBSET T |-> IF s = {} THEN 0 ELSE f[Pick(s)] + g[s \ {Pick(s)}]]
  <2>2. g = [s \in SUBSET T |-> g[s]]
    <3> HIDE DEF has
    <3> QED
      OBVIOUS
  <2> HIDE DEF has, g
  <2> QED
    BY <2>1, <2>2
<1>8. SumsTo(g, f, T)
  <2> HIDE DEF has, g
  <2> QED
    BY <1>7 DEF SumsTo
<1> QED
  <2> HIDE DEF has, g
  <2> QED
    BY <1>2, <1>8

\* The sum over nothing.
LEMMA SumEmpty ==
  ASSUME NEW f
  PROVE  SumFunctionOnSet(f, {}) = 0
<1>1. IsFiniteSet({})
  BY FS_EmptySet
<1>2. PICK g : SumsTo(g, f, {}) /\ SumFunctionOnSet(f, {}) = g[{}]
  BY <1>1, SumIsChosen, SumsExist
<1> QED
  BY <1>2, SumsToStep

\* A sum is that of one element and the rest.
LEMMA SumPick ==
  ASSUME NEW f, NEW S, IsFiniteSet(S), S # {}
  PROVE  SumFunctionOnSet(f, S) = f[Pick(S)] + SumFunctionOnSet(f, S \ {Pick(S)})
<1> DEFINE R == S \ {Pick(S)}
<1>1. IsFiniteSet(R)
  BY FS_Subset
<1>2. R \in SUBSET S /\ R \in SUBSET R /\ S \in SUBSET S
  OBVIOUS
<1> HIDE DEF R
<1>3. PICK g : SumsTo(g, f, S) /\ SumFunctionOnSet(f, S) = g[S]
  BY SumIsChosen, SumsExist
<1>4. PICK h : SumsTo(h, f, R) /\ SumFunctionOnSet(f, R) = h[R]
  BY <1>1, SumIsChosen, SumsExist
<1>5. g[R] = h[R]
  BY <1>2, <1>3, <1>4, SumsAgree
<1>6. g[S] = IF S = {} THEN 0 ELSE f[Pick(S)] + g[R]
  BY <1>2, <1>3, SumsToStep DEF R
<1> QED
  BY <1>3, <1>4, <1>5, <1>6 DEF R

\* Sums of integers are integers.
LEMMA SumInt ==
  ASSUME NEW S, IsFiniteSet(S), NEW f, \A x \in S : f[x] \in Int
  PROVE  SumFunctionOnSet(f, S) \in Int
<1> DEFINE C == {T \in SUBSET S : SumFunctionOnSet(f, T) \notin Int}
<1>1. SUFFICES ASSUME C # {} PROVE FALSE
  OBVIOUS
<1>2. PICK T \in C : \A U \in C : U \subseteq T => U = T
  <2>1. C \in SUBSET SUBSET S
    OBVIOUS
  <2> HIDE DEF C
  <2> QED
    BY <1>1, <2>1, LeastSubset
<1>3. T # {} /\ IsFiniteSet(T)
  <2>1. T \in SUBSET S /\ SumFunctionOnSet(f, T) \notin Int
    OBVIOUS
  <2>2. T # {}
    BY <2>1, SumEmpty
  <2> QED
    BY <2>1, <2>2, FS_Subset
<1>4. Pick(T) \in T /\ T \ {Pick(T)} \in SUBSET S
  BY <1>3, PickInSet
<1>5. SumFunctionOnSet(f, T \ {Pick(T)}) \in Int
  BY <1>2, <1>4
<1> QED
  BY <1>3, <1>4, <1>5, SumPick

\* A sum depends on what is summed only.
LEMMA SumCongruent ==
  ASSUME NEW S, IsFiniteSet(S), NEW f, NEW g, \A x \in S : f[x] = g[x]
  PROVE  SumFunctionOnSet(f, S) = SumFunctionOnSet(g, S)
<1> DEFINE C == {T \in SUBSET S : SumFunctionOnSet(f, T) # SumFunctionOnSet(g, T)}
<1>1. SUFFICES ASSUME C # {} PROVE FALSE
  OBVIOUS
<1>2. PICK T \in C : \A U \in C : U \subseteq T => U = T
  <2>1. C \in SUBSET SUBSET S
    OBVIOUS
  <2> HIDE DEF C
  <2> QED
    BY <1>1, <2>1, LeastSubset
<1>3. T # {} /\ IsFiniteSet(T)
  BY SumEmpty, FS_Subset
<1>4. Pick(T) \in T /\ T \ {Pick(T)} \in SUBSET S
  BY <1>3, PickInSet
<1>5. SumFunctionOnSet(f, T \ {Pick(T)}) = SumFunctionOnSet(g, T \ {Pick(T)})
  BY <1>2, <1>4
<1> QED
  BY <1>3, <1>4, <1>5, SumPick

\* A sum of zeros.
LEMMA SumZero ==
  ASSUME NEW S, IsFiniteSet(S), NEW f, \A x \in S : f[x] = 0
  PROVE  SumFunctionOnSet(f, S) = 0
<1> DEFINE C == {T \in SUBSET S : SumFunctionOnSet(f, T) # 0}
<1>1. SUFFICES ASSUME C # {} PROVE FALSE
  OBVIOUS
<1>2. PICK T \in C : \A U \in C : U \subseteq T => U = T
  <2>1. C \in SUBSET SUBSET S
    OBVIOUS
  <2> HIDE DEF C
  <2> QED
    BY <1>1, <2>1, LeastSubset
<1>3. T # {} /\ IsFiniteSet(T)
  BY SumEmpty, FS_Subset
<1>4. Pick(T) \in T /\ T \ {Pick(T)} \in SUBSET S
  BY <1>3, PickInSet
<1>5. SumFunctionOnSet(f, T \ {Pick(T)}) = 0 /\ f[Pick(T)] = 0
  BY <1>2, <1>4
<1>6. SumFunctionOnSet(f, T) = 0
  BY <1>3, <1>5, SumPick
<1> QED
  BY <1>6

\* Whichever element is taken first.
LEMMA SumRemove ==
  ASSUME NEW S, IsFiniteSet(S), NEW f, \A y \in S : f[y] \in Int, NEW x \in S
  PROVE  SumFunctionOnSet(f, S) = f[x] + SumFunctionOnSet(f, S \ {x})
<1> DEFINE Removes(T, y) == SumFunctionOnSet(f, T) = f[y] + SumFunctionOnSet(f, T \ {y})
           C == {T \in SUBSET S : \E y \in T : ~Removes(T, y)}
<1>1. SUFFICES ASSUME C # {} PROVE FALSE
  BY <1>1
<1>2. PICK T \in C : \A U \in C : U \subseteq T => U = T
  <2>1. C \in SUBSET SUBSET S
    OBVIOUS
  <2> HIDE DEF C
  <2> QED
    BY <1>1, <2>1, LeastSubset
<1>3. PICK y \in T : ~Removes(T, y)
  OBVIOUS
<1> DEFINE c == Pick(T)
<1>4. T # {} /\ IsFiniteSet(T) /\ T \in SUBSET S /\ y \in T
  BY FS_Subset
<1>5. c \in T
  BY <1>4, PickInSet
<1>6. Removes(T, c)
  BY <1>4, SumPick
<1>7. c # y
  BY <1>3, <1>6
<1>8. ASSUME NEW a \in T, NEW b \in T, a # b
      PROVE  Removes(T \ {a}, b)
  <2>1. T \ {a} \in SUBSET S /\ T \ {a} # T /\ b \in T \ {a}
    BY <1>8
  <2>2. T \ {a} \notin C
    BY <1>2, <2>1
  <2> HIDE DEF Removes
  <2> QED
    BY <2>1, <2>2
<1>9. Removes(T \ {c}, y) /\ Removes(T \ {y}, c)
  <2> HIDE DEF Removes, c, C
  <2> QED
    BY <1>5, <1>7, <1>8
<1>10. (T \ {c}) \ {y} = (T \ {y}) \ {c}
  OBVIOUS
<1>11. f[c] \in Int /\ f[y] \in Int /\ SumFunctionOnSet(f, (T \ {y}) \ {c}) \in Int
  <2>1. IsFiniteSet((T \ {y}) \ {c}) /\ (T \ {y}) \ {c} \in SUBSET S
    BY <1>4, FS_Subset
  <2> QED
    BY <2>1, <1>4, <1>5, SumInt
<1>12. Removes(T, y)
  <2>1. SumFunctionOnSet(f, T) = f[c] + SumFunctionOnSet(f, T \ {c})
    BY <1>6
  <2>2. SumFunctionOnSet(f, T \ {c}) = f[y] + SumFunctionOnSet(f, (T \ {y}) \ {c})
    BY <1>9, <1>10
  <2>3. SumFunctionOnSet(f, T \ {y}) = f[c] + SumFunctionOnSet(f, (T \ {y}) \ {c})
    BY <1>9
  <2> HIDE DEF c, C
  <2> QED
    BY <2>1, <2>2, <2>3, <1>11
<1> QED
  BY <1>3, <1>12

\* A sum over more, of what is not negative, is no less.
LEMMA SumGrows ==
  ASSUME NEW S, IsFiniteSet(S), NEW f, \A x \in S : f[x] \in Nat, NEW R \in SUBSET S
  PROVE  SumFunctionOnSet(f, R) <= SumFunctionOnSet(f, S)
<1> DEFINE C == {T \in SUBSET S :
                   R \subseteq T /\ ~(SumFunctionOnSet(f, R) <= SumFunctionOnSet(f, T))}
<1>1. SUFFICES ASSUME C # {} PROVE FALSE
  OBVIOUS
<1>2. PICK T \in C : \A U \in C : U \subseteq T => U = T
  <2>1. C \in SUBSET SUBSET S
    OBVIOUS
  <2> HIDE DEF C
  <2> QED
    BY <1>1, <2>1, LeastSubset
<1>3. IsFiniteSet(T) /\ IsFiniteSet(R) /\ T \in SUBSET S /\ R \subseteq T
  BY FS_Subset
<1>4. SumFunctionOnSet(f, T) \in Int /\ SumFunctionOnSet(f, R) \in Int
  BY <1>3, SumInt
<1>5. T # R
  BY <1>4
<1>6. PICK x \in T : x \notin R
  BY <1>3, <1>5
<1>7. T \ {x} \notin C /\ T \ {x} \in SUBSET S /\ R \subseteq T \ {x} /\ IsFiniteSet(T \ {x})
  BY <1>2, <1>3, <1>6, FS_Subset
<1>8. SumFunctionOnSet(f, R) <= SumFunctionOnSet(f, T \ {x})
  BY <1>7
<1>9. SumFunctionOnSet(f, T) = f[x] + SumFunctionOnSet(f, T \ {x})
  BY <1>3, SumRemove
<1>10. SumFunctionOnSet(f, T \ {x}) \in Int /\ f[x] \in Nat
  BY <1>3, <1>7, SumInt
<1>11. ~(SumFunctionOnSet(f, R) <= SumFunctionOnSet(f, T))
  OBVIOUS
<1> HIDE DEF C
<1> QED
  BY <1>4, <1>8, <1>9, <1>10, <1>11

\* A sum of what is nowhere more is no more.
LEMMA SumDominated ==
  ASSUME NEW S, IsFiniteSet(S), NEW f, NEW g,
         \A x \in S : f[x] \in Int /\ g[x] \in Int /\ f[x] <= g[x]
  PROVE  SumFunctionOnSet(f, S) <= SumFunctionOnSet(g, S)
<1> DEFINE C == {T \in SUBSET S : ~(SumFunctionOnSet(f, T) <= SumFunctionOnSet(g, T))}
<1>1. SUFFICES ASSUME C # {} PROVE FALSE
  OBVIOUS
<1>2. PICK T \in C : \A U \in C : U \subseteq T => U = T
  <2>1. C \in SUBSET SUBSET S
    OBVIOUS
  <2> HIDE DEF C
  <2> QED
    BY <1>1, <2>1, LeastSubset
<1>3. T # {} /\ IsFiniteSet(T)
  <2>1. T \in SUBSET S /\ ~(SumFunctionOnSet(f, T) <= SumFunctionOnSet(g, T))
    OBVIOUS
  <2>2. T # {}
    BY <2>1, SumEmpty
  <2> QED
    BY <2>1, <2>2, FS_Subset
<1>4. Pick(T) \in T /\ T \ {Pick(T)} \in SUBSET S /\ IsFiniteSet(T \ {Pick(T)})
  BY <1>3, PickInSet, FS_Subset
<1>5. SumFunctionOnSet(f, T \ {Pick(T)}) <= SumFunctionOnSet(g, T \ {Pick(T)})
  BY <1>2, <1>4
<1>6. /\ SumFunctionOnSet(f, T) = f[Pick(T)] + SumFunctionOnSet(f, T \ {Pick(T)})
      /\ SumFunctionOnSet(g, T) = g[Pick(T)] + SumFunctionOnSet(g, T \ {Pick(T)})
  BY <1>3, SumPick
<1>7. /\ SumFunctionOnSet(f, T \ {Pick(T)}) \in Int
      /\ SumFunctionOnSet(g, T \ {Pick(T)}) \in Int
  BY <1>4, SumInt
<1>8. f[Pick(T)] \in Int /\ g[Pick(T)] \in Int /\ f[Pick(T)] <= g[Pick(T)]
  BY <1>4
<1>9. ~(SumFunctionOnSet(f, T) <= SumFunctionOnSet(g, T))
  OBVIOUS
<1> HIDE DEF C
<1> QED
  BY <1>5, <1>6, <1>7, <1>8, <1>9

\* Adding an amount to one element.
LEMMA SumUpdate ==
  ASSUME NEW S, IsFiniteSet(S), NEW f, NEW g, \A y \in S : f[y] \in Int,
         NEW x \in S, NEW a \in Int, g[x] = f[x] + a, \A y \in S \ {x} : g[y] = f[y]
  PROVE  SumFunctionOnSet(g, S) = SumFunctionOnSet(f, S) + a
<1>1. IsFiniteSet(S \ {x})
  BY FS_Subset
<1>2. SumFunctionOnSet(g, S \ {x}) = SumFunctionOnSet(f, S \ {x})
  BY <1>1, SumCongruent
<1>3. \A y \in S : g[y] \in Int
  OBVIOUS
<1>4. SumFunctionOnSet(f, S) = f[x] + SumFunctionOnSet(f, S \ {x})
  BY SumRemove
<1>5. SumFunctionOnSet(g, S) = g[x] + SumFunctionOnSet(g, S \ {x})
  BY <1>3, SumRemove
<1>6. SumFunctionOnSet(f, S \ {x}) \in Int
  BY <1>1, SumInt
<1> QED
  BY <1>2, <1>4, <1>5, <1>6

\* Adding an element.
LEMMA SumAdd ==
  ASSUME NEW S, IsFiniteSet(S), NEW x, x \notin S, NEW f, \A y \in S \cup {x} : f[y] \in Int
  PROVE  SumFunctionOnSet(f, S \cup {x}) = f[x] + SumFunctionOnSet(f, S)
<1>1. IsFiniteSet(S \cup {x}) /\ (S \cup {x}) \ {x} = S
  BY FS_AddElement
<1>2. SumFunctionOnSet(f, S \cup {x}) = f[x] + SumFunctionOnSet(f, (S \cup {x}) \ {x})
  BY <1>1, SumRemove
<1> QED
  BY <1>1, <1>2

-----------------------------------------------------------------------------
(* Ranks. The i-th of a set of numbers is the one that i - 1 are below.       *)

Below(S, x) == {y \in S : y < x}

LEMMA BelowFewer ==
  ASSUME NEW S \in SUBSET Int, IsFiniteSet(S), NEW x \in S, NEW z
  PROVE  /\ Cardinality(Below(S, x)) \in 0..Cardinality(S) - 1
         /\ z \in S /\ x < z => Cardinality(Below(S, x)) < Cardinality(Below(S, z))
<1>1. ASSUME NEW A, NEW B, IsFiniteSet(B), A \subseteq B, A # B
      PROVE  Cardinality(A) \in Nat /\ Cardinality(B) \in Nat /\ Cardinality(A) < Cardinality(B)
  BY <1>1, FS_Subset, FS_CardinalityType
<1>2. Below(S, x) \subseteq S /\ x \in S /\ x \notin Below(S, x)
  BY DEF Below
<1>3. Cardinality(Below(S, x)) \in 0..Cardinality(S) - 1
  <2>1. /\ Cardinality(Below(S, x)) \in Nat /\ Cardinality(S) \in Nat
        /\ Cardinality(Below(S, x)) < Cardinality(S)
    BY <1>1, <1>2
  <2> QED
    BY <2>1
<1>4. ASSUME z \in S, x < z
      PROVE  Cardinality(Below(S, x)) < Cardinality(Below(S, z))
  <2>1. Below(S, x) \subseteq Below(S, z) /\ x \in Below(S, z) /\ Below(S, z) \subseteq S
    <3>1. \A y \in S : y \in Int
      OBVIOUS
    <3>2. \A y \in S : y < x => y < z
      BY <3>1, <1>4
    <3> QED
      BY <3>2, <1>4 DEF Below
  <2>2. IsFiniteSet(Below(S, z))
    BY <2>1, FS_Subset
  <2> QED
    BY <2>1, <2>2, <1>1, <1>2
<1> QED
  BY <1>3, <1>4

\* No two have the same rank.
LEMMA RankUnique ==
  ASSUME NEW S \in SUBSET Int, IsFiniteSet(S), NEW x \in S, NEW z \in S,
         Cardinality(Below(S, x)) = Cardinality(Below(S, z))
  PROVE  x = z
<1>1. Cardinality(Below(S, x)) \in Int
  BY BelowFewer
<1>2. ~(x < z)
  BY <1>1, BelowFewer
<1>3. ~(z < x)
  BY <1>1, BelowFewer
<1> QED
  BY <1>2, <1>3

\* Every rank is taken.
LEMMA RankTaken ==
  ASSUME NEW S \in SUBSET Int, IsFiniteSet(S), NEW i \in 1..Cardinality(S)
  PROVE  \E x \in S : Cardinality(Below(S, x)) = i - 1
<1> DEFINE n == Cardinality(S)
           rank == [x \in S |-> Cardinality(Below(S, x))]
<1>1. n \in Nat
  BY FS_CardinalityType
<1>2. rank \in [S -> 0..n - 1]
  BY BelowFewer
<1>3. \A x, z \in S : rank[x] = rank[z] => x = z
  BY RankUnique
<1>4. IsFiniteSet(0..n - 1) /\ Cardinality(0..n - 1) = n
  <2>1. 0 \in Int /\ n - 1 \in Int
    BY <1>1
  <2> HIDE DEF n
  <2> QED
    BY <1>1, <2>1, FS_Interval
<1>5. rank \in Injection(S, 0..n - 1)
  <2> HIDE DEF rank, n
  <2> QED
    BY <1>2, <1>3 DEF Injection, IsInjective
<1>6. rank \in Surjection(S, 0..n - 1)
  <2> HIDE DEF rank
  <2> QED
    BY <1>4, <1>5, FS_Injection
<1>7. PICK x \in S : rank[x] = i - 1
  <2>1. i - 1 \in 0..n - 1
    BY <1>1
  <2> HIDE DEF rank, n
  <2> QED
    BY <1>6, <2>1 DEF Surjection
<1> QED
  BY <1>7
=============================================================================
