---------------------------- MODULE CollectionLemmas ----------------------------
(***************************************************************************)
(* What the operators of the community modules that the models add up and  *)
(* edit lists with return, for every function, finite set and sequence.    *)
(*                                                                         *)
(* The library's induction theorems take an operator.  The lemmas here are *)
(* about sets instead: every set of naturals that is not empty has a least *)
(* element, so a set that has 0 and is closed under successor is Nat; and  *)
(* of a set of finite sets there is a smallest.  The first gives a sum its *)
(* defining equation, which a recursive function does not have before some *)
(* function is shown to satisfy it, and the second its properties.         *)
(***************************************************************************)
EXTENDS Integers, SequencesExt, FiniteSetTheorems, SequenceTheorems, WellFoundedInduction, TLAPS

\* A set of naturals has a least element.
LEMMA Least ==
  ASSUME NEW T \in SUBSET Nat, T # {}
  PROVE  \E n \in T : \A m \in T : n <= m
<1>1. PICK n \in T : \A m \in T : ~(<<m, n>> \in OpToRel(<, Nat))
  BY NatLessThanWellFounded, WFMin
<1>2. \A m \in T : <<m, n>> \in OpToRel(<, Nat) <=> m < n
  BY DEF OpToRel
<1>3. \A m \in T : ~(m < n)
  BY <1>1, <1>2, Zenon
<1> HIDE <1>1, <1>2
<1>4. \A m \in T : n <= m
  BY <1>3
<1> QED BY <1>4

\* Induction: a set of naturals with 0 and every successor is Nat.
LEMMA Induction ==
  ASSUME NEW T \in SUBSET Nat, 0 \in T, \A n \in T : n + 1 \in T
  PROVE  T = Nat
<1>1. SUFFICES ASSUME Nat \ T # {} PROVE FALSE
  OBVIOUS
<1>2. PICK n \in Nat \ T : \A m \in Nat \ T : n <= m
  <2>1. Nat \ T \in SUBSET Nat
    OBVIOUS
  <2> QED BY Least, <1>1, <2>1
<1>3. n # 0 /\ n - 1 \in Nat /\ n - 1 < n
  BY <1>2
<1>4. n - 1 \in T
  BY <1>2, <1>3
<1> QED BY <1>4, <1>3, <1>2

\* Of some finite sets, one has the fewest elements.
LEMMA Smallest ==
  ASSUME NEW F, F # {}, \A U \in F : IsFiniteSet(U)
  PROVE  \E U \in F : \A V \in F : Cardinality(U) <= Cardinality(V)
<1> DEFINE T == {Cardinality(U) : U \in F}
<1>1. T \in SUBSET Nat /\ T # {}
  BY FS_CardinalityType
<1>2. PICK n \in T : \A m \in T : n <= m
  BY <1>1, Least
<1> QED BY <1>2

-----------------------------------------------------------------------------
(* the equation of a sum *)

Pick(s) == CHOOSE x \in s : TRUE

\* The equation of the recursive function behind the sum of f, on the sets of D.
Sums(f, D, g) ==
  /\ g \in [D -> Int]
  /\ \A s \in D : g[s] = IF s = {} THEN 0 ELSE f[Pick(s)] + g[s \ {Pick(s)}]

\* One function satisfies it on the subsets of a finite set: by induction on
\* their size.
LEMMA SumsExist ==
  ASSUME NEW S, IsFiniteSet(S), NEW f, \A x \in S : f[x] \in Int
  PROVE  \E g : Sums(f, SUBSET S, g)
<1> DEFINE D(n) == {s \in SUBSET S : Cardinality(s) <= n}
           T == {n \in Nat : \E g : Sums(f, D(n), g)}
<1>1. \A s \in SUBSET S : IsFiniteSet(s) /\ Cardinality(s) \in Nat
  BY FS_Subset, FS_CardinalityType
<1>2. 0 \in T
  <2>1. D(0) = {{}}
    BY <1>1, FS_EmptySet
  <2> DEFINE g == [s \in D(0) |-> 0]
  <2>2. Sums(f, D(0), g)
    BY <2>1 DEF Sums
  <2> QED BY <2>2
<1>3. ASSUME NEW n \in T
      PROVE  n + 1 \in T
  <2>1. n \in Nat /\ n + 1 \in Nat
    OBVIOUS
  <2>2. PICK g : Sums(f, D(n), g)
    OBVIOUS
  <2>3. ASSUME NEW s \in D(n + 1), s # {}
        PROVE  Pick(s) \in s /\ Pick(s) \in S /\ s \ {Pick(s)} \in D(n)
    <3>1. Pick(s) \in s /\ s \in SUBSET S
      BY <2>3 DEF Pick
    <3>2. Cardinality(s \ {Pick(s)}) = Cardinality(s) - 1
      BY <1>1, <3>1, FS_RemoveElement
    <3>3. s \ {Pick(s)} \in SUBSET S
      BY <3>1
    <3> QED BY <1>1, <2>1, <3>1, <3>2, <3>3
  <2>4. D(n) \subseteq D(n + 1)
    BY <1>1, <2>1
  <2> DEFINE h == [s \in D(n + 1) |-> IF s = {} THEN 0 ELSE f[Pick(s)] + g[s \ {Pick(s)}]]
  <2>5. h \in [D(n + 1) -> Int]
    <3>1. ASSUME NEW s \in D(n + 1)
          PROVE  (IF s = {} THEN 0 ELSE f[Pick(s)] + g[s \ {Pick(s)}]) \in Int
      <4>1. CASE s = {}
        BY <4>1
      <4>2. CASE s # {}
        <5>1. f[Pick(s)] \in Int
          BY <2>3, <4>2
        <5>2. g[s \ {Pick(s)}] \in Int
          BY <2>2, <2>3, <4>2 DEF Sums
        <5> QED BY <4>2, <5>1, <5>2
      <4> QED BY <4>1, <4>2
    <3> QED BY <3>1
  <2>6. \A s \in D(n) : h[s] = g[s]
    BY <2>2, <2>4 DEF Sums
  <2>7. ASSUME NEW s \in D(n + 1)
        PROVE  h[s] = IF s = {} THEN 0 ELSE f[Pick(s)] + h[s \ {Pick(s)}]
    <3>1. CASE s = {}
      BY <3>1
    <3>2. CASE s # {}
      <4>1. h[s \ {Pick(s)}] = g[s \ {Pick(s)}]
        BY <2>3, <2>6, <3>2
      <4> QED BY <3>2, <4>1
    <3> QED BY <3>1, <3>2
  <2> HIDE DEF h
  <2>8. Sums(f, D(n + 1), h)
    BY <2>5, <2>7 DEF Sums
  <2> QED BY <2>1, <2>8
<1>4. T = Nat
  <2>1. T \in SUBSET Nat
    OBVIOUS
  <2> HIDE DEF T
  <2> QED BY <1>2, <1>3, <2>1, Induction
<1>5. Cardinality(S) \in Nat
  BY FS_CardinalityType
<1>6. D(Cardinality(S)) = SUBSET S
  BY <1>1, FS_Subset
<1>7. PICK g : Sums(f, D(Cardinality(S)), g)
  BY <1>4, <1>5
<1> QED BY <1>6, <1>7

\* The equation leaves no choice, whatever larger set its function is given on.
LEMMA SumsAgree ==
  ASSUME NEW S, IsFiniteSet(S), NEW f, NEW D, NEW g, NEW e, NEW E, NEW h,
         SUBSET S \subseteq D, Sums(f, D, g), SUBSET S \subseteq E, Sums(e, E, h),
         \A x \in S : f[x] = e[x]
  PROVE  g[S] = h[S]
<1> DEFINE F == {s \in SUBSET S : g[s] # h[s]}
<1>1. SUFFICES ASSUME F # {} PROVE FALSE
  OBVIOUS
<1>2. \A s \in SUBSET S : IsFiniteSet(s) /\ Cardinality(s) \in Nat
  BY FS_Subset, FS_CardinalityType
<1>3. PICK s \in F : \A t \in F : Cardinality(s) <= Cardinality(t)
  <2>1. \A U \in F : IsFiniteSet(U)
    BY <1>2
  <2> HIDE DEF F
  <2> QED BY <1>1, <2>1, Smallest
<1>4. s # {}
  BY <1>3 DEF Sums
<1>5. Pick(s) \in s
  BY <1>4 DEF Pick
<1>6. s \ {Pick(s)} \in SUBSET S /\ Cardinality(s \ {Pick(s)}) = Cardinality(s) - 1
  BY <1>2, <1>5, FS_RemoveElement
<1>7. g[s \ {Pick(s)}] = h[s \ {Pick(s)}]
  BY <1>2, <1>3, <1>6
<1>8. f[Pick(s)] = e[Pick(s)]
  BY <1>5
<1>9. g[s] = f[Pick(s)] + g[s \ {Pick(s)}] /\ h[s] = e[Pick(s)] + h[s \ {Pick(s)}]
  BY <1>4 DEF Sums
<1> QED BY <1>3, <1>7, <1>8, <1>9

\* The sum is the value of that function on the whole set.
LEMMA SumIs ==
  ASSUME NEW S, IsFiniteSet(S), NEW f, \A x \in S : f[x] \in Int
  PROVE  \E g : Sums(f, SUBSET S, g) /\ SumFunctionOnSet(f, S) = g[S]
<1> DEFINE IsIter(g) == g = [s \in SUBSET S |->
                               IF s = {} THEN 0
                               ELSE f[CHOOSE x \in s : TRUE] + g[s \ {CHOOSE x \in s : TRUE}]]
           iter == CHOOSE g : IsIter(g)
<1>1. PICK h : Sums(f, SUBSET S, h)
  BY SumsExist
<1>2. h \in [SUBSET S -> Int]
      /\ \A s \in SUBSET S :
           h[s] = IF s = {} THEN 0
                  ELSE f[CHOOSE x \in s : TRUE] + h[s \ {CHOOSE x \in s : TRUE}]
  BY <1>1 DEF Sums, Pick
<1>3. IsIter(h)
  BY <1>2
<1>4. SumFunctionOnSet(f, S) = iter[S]
  BY DEF SumFunctionOnSet, FoldFunctionOnSet, MapThenFoldSet
<1> HIDE DEF IsIter
<1>5. IsIter(iter)
  BY <1>3
<1> HIDE DEF iter
<1>6. PICK g : g = iter
  OBVIOUS
<1>7. g = [s \in SUBSET S |-> IF s = {} THEN 0 ELSE f[Pick(s)] + g[s \ {Pick(s)}]]
  BY <1>5, <1>6 DEF IsIter, Pick
<1>8. \A s \in SUBSET S : g[s] = IF s = {} THEN 0 ELSE f[Pick(s)] + g[s \ {Pick(s)}]
  BY <1>7
<1>9. g \in [SUBSET S -> Int]
  <2> DEFINE F == {s \in SUBSET S : g[s] \notin Int}
  <2>1. SUFFICES ASSUME F # {} PROVE FALSE
    BY <1>7
  <2>2. \A s \in SUBSET S : IsFiniteSet(s) /\ Cardinality(s) \in Nat
    BY FS_Subset, FS_CardinalityType
  <2>3. PICK s \in F : \A t \in F : Cardinality(s) <= Cardinality(t)
    <3>1. \A U \in F : IsFiniteSet(U)
      BY <2>2
    <3> HIDE DEF F
    <3> QED BY <2>1, <3>1, Smallest
  <2>4. s # {}
    BY <1>8, <2>3
  <2>5. Pick(s) \in s
    BY <2>4 DEF Pick
  <2>6. s \ {Pick(s)} \in SUBSET S /\ Cardinality(s \ {Pick(s)}) = Cardinality(s) - 1
    BY <2>2, <2>5, FS_RemoveElement
  <2>7. g[s \ {Pick(s)}] \in Int
    BY <2>2, <2>3, <2>6
  <2>8. f[Pick(s)] \in Int
    BY <2>5
  <2>9. g[s] = f[Pick(s)] + g[s \ {Pick(s)}] /\ g[s] \notin Int
    BY <1>8, <2>3, <2>4
  <2> QED BY <2>7, <2>8, <2>9
<1> QED BY <1>4, <1>6, <1>8, <1>9 DEF Sums
-----------------------------------------------------------------------------
(* what the proofs of the components cite *)

\* Nothing adds up to 0.
LEMMA SumOfNone ==
  ASSUME NEW f
  PROVE  SumFunctionOnSet(f, {}) = 0
BY SumIs, FS_EmptySet DEF Sums

\* A sum of integers is one.
LEMMA SumType ==
  ASSUME NEW S, IsFiniteSet(S), NEW f, \A x \in S : f[x] \in Int
  PROVE  SumFunctionOnSet(f, S) \in Int
<1>1. PICK g : Sums(f, SUBSET S, g) /\ SumFunctionOnSet(f, S) = g[S]
  BY SumIs
<1>2. g \in [SUBSET S -> Int] /\ S \in SUBSET S
  BY <1>1 DEF Sums
<1> QED BY <1>1, <1>2

\* Only the values on the set count.
LEMMA SumSame ==
  ASSUME NEW S, IsFiniteSet(S), NEW f, NEW e, \A x \in S : f[x] \in Int /\ f[x] = e[x]
  PROVE  SumFunctionOnSet(f, S) = SumFunctionOnSet(e, S)
<1>1. PICK g : Sums(f, SUBSET S, g) /\ SumFunctionOnSet(f, S) = g[S]
  BY SumIs
<1>2. PICK h : Sums(e, SUBSET S, h) /\ SumFunctionOnSet(e, S) = h[S]
  BY SumIs
<1> QED BY <1>1, <1>2, SumsAgree

\* Any element may be taken out of a sum: no order of adding up matters.
LEMMA SumLess ==
  ASSUME NEW S, IsFiniteSet(S), NEW f, \A x \in S : f[x] \in Int, NEW x \in S
  PROVE  SumFunctionOnSet(f, S) = f[x] + SumFunctionOnSet(f, S \ {x})
<1>1. PICK g : Sums(f, SUBSET S, g) /\ SumFunctionOnSet(f, S) = g[S]
  BY SumIs
<1>2. SumFunctionOnSet(f, S \ {x}) = g[S \ {x}]
  <2>1. IsFiniteSet(S \ {x}) /\ SUBSET (S \ {x}) \subseteq SUBSET S
    BY FS_Subset
  <2>2. PICK h : Sums(f, SUBSET (S \ {x}), h) /\ SumFunctionOnSet(f, S \ {x}) = h[S \ {x}]
    BY <2>1, SumIs
  <2> QED BY <1>1, <2>1, <2>2, SumsAgree
<1>3. \A s \in SUBSET S : IsFiniteSet(s) /\ Cardinality(s) \in Nat /\ g[s] \in Int
  BY <1>1, FS_Subset, FS_CardinalityType DEF Sums
<1> DEFINE F == {s \in SUBSET S : \E y \in s : g[s] # f[y] + g[s \ {y}]}
<1>4. F = {}
  <2>1. SUFFICES ASSUME F # {} PROVE FALSE
    OBVIOUS
  <2>2. PICK s \in F : \A t \in F : Cardinality(s) <= Cardinality(t)
    <3>1. \A U \in F : IsFiniteSet(U)
      BY <1>3
    <3> HIDE DEF F
    <3> QED BY <2>1, <3>1, Smallest
  <2>3. PICK y \in s : g[s] # f[y] + g[s \ {y}]
    BY <2>2
  <2> DEFINE c == Pick(s)
  <2>4. c \in s /\ g[s] = f[c] + g[s \ {c}]
    BY <1>1, <2>3 DEF Sums, Pick
  <2> HIDE DEF c
  <2>5. y # c
    BY <2>3, <2>4
  <2>6. ASSUME NEW a \in s
        PROVE  s \ {a} \in SUBSET S /\ s \ {a} \notin F
    <3>1. IsFiniteSet(s) /\ Cardinality(s) \in Nat
      BY <1>3
    <3>2. Cardinality(s \ {a}) = Cardinality(s) - 1
      BY <3>1, FS_RemoveElement
    <3>3. s \ {a} \in SUBSET S
      OBVIOUS
    <3>4. ~(Cardinality(s) <= Cardinality(s \ {a}))
      BY <3>1, <3>2
    <3>5. s \ {a} \notin F
      BY <2>2, <3>4
    <3> QED BY <3>3, <3>5
  <2>7. g[s \ {c}] = f[y] + g[(s \ {c}) \ {y}]
    BY <2>4, <2>5, <2>6
  <2>8. g[s \ {y}] = f[c] + g[(s \ {y}) \ {c}]
    BY <2>4, <2>5, <2>6
  <2>9. (s \ {c}) \ {y} = (s \ {y}) \ {c} /\ (s \ {c}) \ {y} \in SUBSET S
    BY <2>2
  <2>10. f[c] \in Int /\ f[y] \in Int /\ g[(s \ {c}) \ {y}] \in Int
    BY <1>3, <2>2, <2>4, <2>9
  <2>11. PICK rest \in Int : rest = g[(s \ {c}) \ {y}]
    BY <2>10
  <2>12. g[s] = f[c] + (f[y] + rest) /\ g[s \ {y}] = f[c] + rest
    BY <2>4, <2>7, <2>8, <2>9, <2>11
  <2>13. f[c] + (f[y] + rest) = f[y] + (f[c] + rest)
    BY <2>10
  <2> QED BY <2>3, <2>12, <2>13
<1> QED BY <1>1, <1>2, <1>4

\* One more value.
LEMMA SumMore ==
  ASSUME NEW S, IsFiniteSet(S), NEW x, x \notin S, NEW f, \A y \in S \cup {x} : f[y] \in Int
  PROVE  SumFunctionOnSet(f, S \cup {x}) = f[x] + SumFunctionOnSet(f, S)
<1>1. IsFiniteSet(S \cup {x}) /\ (S \cup {x}) \ {x} = S
  BY FS_AddElement
<1> QED BY <1>1, SumLess

\* One value is another: the sum differs by as much.
LEMMA SumChanged ==
  ASSUME NEW S, IsFiniteSet(S), NEW f, NEW e, NEW x \in S,
         \A y \in S : f[y] \in Int /\ e[y] \in Int, \A y \in S \ {x} : e[y] = f[y]
  PROVE  SumFunctionOnSet(e, S) = SumFunctionOnSet(f, S) + (e[x] - f[x])
<1>1. IsFiniteSet(S \ {x})
  BY FS_Subset
<1>2. /\ SumFunctionOnSet(e, S) = e[x] + SumFunctionOnSet(e, S \ {x})
      /\ SumFunctionOnSet(f, S) = f[x] + SumFunctionOnSet(f, S \ {x})
  BY SumLess
<1>3. SumFunctionOnSet(e, S \ {x}) = SumFunctionOnSet(f, S \ {x})
  BY <1>1, SumSame
<1>4. SumFunctionOnSet(f, S \ {x}) \in Int
  BY <1>1, SumType
<1> QED BY <1>2, <1>3, <1>4

\* A sum lies between as many times a lower and an upper bound of the values.
LEMMA SumBounds ==
  ASSUME NEW S, IsFiniteSet(S), NEW f, NEW lo \in Int, NEW hi \in Int,
         \A x \in S : f[x] \in Int /\ lo <= f[x] /\ f[x] <= hi
  PROVE  /\ lo * Cardinality(S) <= SumFunctionOnSet(f, S)
         /\ SumFunctionOnSet(f, S) <= hi * Cardinality(S)
<1> DEFINE Sum(s) == SumFunctionOnSet(f, s)
           F == {s \in SUBSET S : ~(lo * Cardinality(s) <= Sum(s) /\ Sum(s) <= hi * Cardinality(s))}
<1>1. SUFFICES ASSUME F # {} PROVE FALSE
  OBVIOUS
<1>2. \A s \in SUBSET S : IsFiniteSet(s) /\ Cardinality(s) \in Nat
  BY FS_Subset, FS_CardinalityType
<1>3. PICK s \in F : \A t \in F : Cardinality(s) <= Cardinality(t)
  <2>1. \A U \in F : IsFiniteSet(U)
    BY <1>2
  <2> HIDE DEF F
  <2> QED BY <1>1, <2>1, Smallest
<1>4. s # {}
  <2>1. Sum({}) = 0 /\ Cardinality({}) = 0
    BY SumOfNone, FS_EmptySet
  <2>2. lo * Cardinality({}) <= Sum({}) /\ Sum({}) <= hi * Cardinality({})
    <3> HIDE DEF Sum
    <3> QED BY <2>1
  <2>3. {} \notin F
    BY <2>2
  <2> QED BY <1>3, <2>3
<1>5. PICK x \in s : TRUE
  BY <1>4
<1> DEFINE n == Cardinality(s \ {x})
<1>6. s \ {x} \in SUBSET S /\ n = Cardinality(s) - 1 /\ n \in Nat
  BY <1>2, FS_RemoveElement
<1>7. s \ {x} \notin F
  BY <1>2, <1>3, <1>6
<1>8. Sum(s) = f[x] + Sum(s \ {x}) /\ Sum(s \ {x}) \in Int
  BY <1>2, <1>6, SumLess, SumType
<1>9. lo * n <= Sum(s \ {x}) /\ Sum(s \ {x}) <= hi * n
  BY <1>6, <1>7
<1>10. lo * Cardinality(s) = lo * n + lo /\ hi * Cardinality(s) = hi * n + hi
  <2>1. Cardinality(s) = n + 1
    BY <1>2, <1>6
  <2> HIDE DEF n
  <2> QED BY <1>6, <2>1
<1>11. f[x] \in Int /\ lo <= f[x] /\ f[x] <= hi
  BY <1>5
<1>12. lo * n \in Int /\ hi * n \in Int
  BY <1>6
<1>13. lo * Cardinality(s) <= Sum(s) /\ Sum(s) <= hi * Cardinality(s)
  <2> HIDE DEF n, Sum
  <2> QED BY <1>8, <1>9, <1>10, <1>11, <1>12
<1> QED BY <1>3, <1>13

\* A sum of naturals is one.
LEMMA SumNatural ==
  ASSUME NEW S, IsFiniteSet(S), NEW f, \A x \in S : f[x] \in Nat
  PROVE  SumFunctionOnSet(f, S) \in Nat
<1> DEFINE Sum(s) == SumFunctionOnSet(f, s)
           F == {s \in SUBSET S : Sum(s) \notin Nat}
<1>1. SUFFICES ASSUME F # {} PROVE FALSE
  OBVIOUS
<1>2. \A s \in SUBSET S : IsFiniteSet(s) /\ Cardinality(s) \in Nat
  BY FS_Subset, FS_CardinalityType
<1>3. PICK s \in F : \A t \in F : Cardinality(s) <= Cardinality(t)
  <2>1. \A U \in F : IsFiniteSet(U)
    BY <1>2
  <2> HIDE DEF F
  <2> QED BY <1>1, <2>1, Smallest
<1>4. s # {}
  BY SumOfNone
<1>5. PICK x \in s : TRUE
  BY <1>4
<1>6. s \ {x} \in SUBSET S /\ Cardinality(s \ {x}) = Cardinality(s) - 1
  BY <1>2, FS_RemoveElement
<1>7. Sum(s \ {x}) \in Nat
  BY <1>2, <1>3, <1>6
<1>8. Sum(s) = f[x] + Sum(s \ {x}) /\ f[x] \in Nat
  <2>1. \A y \in s : f[y] \in Nat /\ f[y] \in Int
    BY <1>3
  <2> QED BY <1>2, <1>3, <2>1, SumLess
<1>9. Sum(s) \in Nat
  <2> HIDE DEF Sum
  <2> QED BY <1>7, <1>8
<1> QED BY <1>3, <1>9
-----------------------------------------------------------------------------
(* lists *)

\* The least element of a set of naturals.
LEMMA MinIs ==
  ASSUME NEW T \in SUBSET Nat, T # {}
  PROVE  Min(T) \in T /\ \A m \in T : Min(T) <= m
BY Least DEF Min

\* The greatest element of a finite set of naturals.
LEMMA MaxIs ==
  ASSUME NEW T \in SUBSET Nat, T # {}, IsFiniteSet(T)
  PROVE  Max(T) \in T /\ \A m \in T : m <= Max(T)
<1> DEFINE Top(s) == \E n \in s : \A m \in s : m <= n
           F == {s \in SUBSET T : s # {} /\ ~Top(s)}
<1>1. SUFFICES Top(T)
  BY DEF Max
<1>2. SUFFICES ASSUME F # {} PROVE FALSE
  OBVIOUS
<1>3. \A s \in SUBSET T : IsFiniteSet(s) /\ Cardinality(s) \in Nat
  BY FS_Subset, FS_CardinalityType
<1>4. PICK s \in F : \A t \in F : Cardinality(s) <= Cardinality(t)
  <2>1. \A U \in F : IsFiniteSet(U)
    BY <1>3
  <2> HIDE DEF F
  <2> QED BY <1>2, <2>1, Smallest
<1>5. PICK x \in s : TRUE
  BY <1>4
<1>6. s \ {x} \in SUBSET T /\ Cardinality(s \ {x}) = Cardinality(s) - 1
  BY <1>3, FS_RemoveElement
<1>7. s \ {x} # {}
  BY <1>4, <1>5
<1>8. s \ {x} \notin F
  <2>1. ~(Cardinality(s) <= Cardinality(s \ {x}))
    BY <1>3, <1>4, <1>6
  <2> HIDE DEF F
  <2> QED BY <1>4, <2>1
<1>9. PICK n \in s \ {x} : \A m \in s \ {x} : m <= n
  BY <1>6, <1>7, <1>8
<1>10. Top(s)
  <2>1. x \in Nat /\ n \in Nat
    BY <1>4, <1>5
  <2>2. CASE x <= n
    BY <1>9, <2>2
  <2>3. CASE n <= x
    <3>1. \A m \in s : m <= x
      BY <1>4, <1>9, <2>1, <2>3
    <3> QED BY <3>1
  <2> QED BY <2>1, <2>2, <2>3
<1> QED BY <1>4, <1>10

\* A bounded list.
LEMMA BoundedList ==
  ASSUME NEW A, NEW n \in Nat, NEW l
  PROVE  l \in SeqOf(A, n) <=> l \in Seq(A) /\ Len(l) <= n
<1>1. ASSUME l \in SeqOf(A, n)
      PROVE  l \in Seq(A) /\ Len(l) <= n
  <2>1. PICK m \in 0 .. n : l \in [1 .. m -> A]
    BY <1>1 DEF SeqOf
  <2>2. m \in Nat /\ l \in Seq(A)
    BY <2>1, SeqDef
  <2>3. Len(l) = m
    BY <2>1, <2>2, LenProperties
  <2> QED BY <2>1, <2>2, <2>3
<1>2. ASSUME l \in Seq(A), Len(l) <= n
      PROVE  l \in SeqOf(A, n)
  <2>1. Len(l) \in 0 .. n /\ l \in [1 .. Len(l) -> A]
    BY <1>2, LenProperties
  <2> QED BY <2>1 DEF SeqOf
<1> QED BY <1>1, <1>2

\* One element less, the others in their order.
LEMMA OneLess ==
  ASSUME NEW A, NEW l \in Seq(A), NEW i \in 1 .. Len(l)
  PROVE  /\ RemoveAt(l, i) \in Seq(A)
         /\ Len(RemoveAt(l, i)) = Len(l) - 1
         /\ \A k \in 1 .. Len(l) - 1 : RemoveAt(l, i)[k] = IF k < i THEN l[k] ELSE l[k + 1]
<1>1. Len(l) \in Nat /\ \A k \in 1 .. Len(l) : l[k] \in A
  BY LenProperties
<1> DEFINE a == SubSeq(l, 1, i - 1)
           b == SubSeq(l, i + 1, Len(l))
<1>2. a \in Seq(A) /\ Len(a) = i - 1 /\ \A k \in 1 .. i - 1 : a[k] = l[k]
  <2>1. \A k \in 1 .. i - 1 : l[k] \in A
    BY <1>1
  <2>2. /\ a \in Seq(A) /\ Len(a) = (IF 1 <= i - 1 THEN i - 1 - 1 + 1 ELSE 0)
        /\ \A k \in 1 .. i - 1 - 1 + 1 : a[k] = l[1 + k - 1]
    BY <2>1, <1>1, SubSeqProperties
  <2> HIDE DEF a
  <2> QED BY <2>2, <1>1
<1>3. /\ b \in Seq(A) /\ Len(b) = Len(l) - i
      /\ \A k \in 1 .. Len(l) - i : b[k] = l[k + i]
  <2>1. \A k \in i + 1 .. Len(l) : l[k] \in A
    BY <1>1
  <2>2. /\ b \in Seq(A) /\ Len(b) = (IF i + 1 <= Len(l) THEN Len(l) - (i + 1) + 1 ELSE 0)
        /\ \A k \in 1 .. Len(l) - (i + 1) + 1 : b[k] = l[(i + 1) + k - 1]
    BY <2>1, <1>1, SubSeqProperties
  <2> HIDE DEF b
  <2> QED BY <2>2, <1>1
<1>4. RemoveAt(l, i) = a \o b
  BY DEF RemoveAt
<1> HIDE DEF a, b
<1>5. /\ a \o b \in Seq(A) /\ Len(a \o b) = Len(a) + Len(b)
      /\ \A k \in 1 .. Len(a) + Len(b) : (a \o b)[k] = IF k <= Len(a) THEN a[k] ELSE b[k - Len(a)]
  BY <1>2, <1>3, ConcatProperties
<1>6. ASSUME NEW k \in 1 .. Len(l) - 1
      PROVE  (a \o b)[k] = IF k < i THEN l[k] ELSE l[k + 1]
  <2>1. CASE k < i
    BY <1>1, <1>2, <1>3, <1>5, <2>1
  <2>2. CASE ~(k < i)
    <3>1. (a \o b)[k] = b[k - (i - 1)] /\ k - (i - 1) \in 1 .. Len(l) - i
      BY <1>1, <1>2, <1>3, <1>5, <2>2
    <3>2. (k - (i - 1)) + i = k + 1
      BY <1>1
    <3> QED BY <1>3, <2>2, <3>1, <3>2
  <2> QED BY <2>1, <2>2
<1> QED BY <1>1, <1>2, <1>3, <1>4, <1>5, <1>6

\* Of a list without repetition, removing the first occurrence of an element
\* leaves all other elements, and only them.
LEMMA RemovedOnce ==
  ASSUME NEW A, NEW l \in Seq(A), IsInjective(l), NEW e, NEW r, r = RemoveFirst(l, e)
  PROVE  /\ r \in Seq(A) /\ Len(r) <= Len(l) /\ IsInjective(r)
         /\ \A k \in 1 .. Len(r) : r[k] # e /\ \E m \in 1 .. Len(l) : r[k] = l[m]
<1>1. Len(l) \in Nat /\ DOMAIN l = 1 .. Len(l)
  BY LenProperties
<1>2. CASE ~\E i \in 1 .. Len(l) : l[i] = e
  BY <1>1, <1>2 DEF RemoveFirst
<1>3. CASE \E i \in 1 .. Len(l) : l[i] = e
  <2> DEFINE I == {i \in 1 .. Len(l) : l[i] = e}
  <2>1. r = RemoveAt(l, Min(I))
    BY <1>3 DEF RemoveFirst, SelectInSeq
  <2>2. Min(I) \in I
    BY <1>3, MinIs
  <2>3. PICK i \in 1 .. Len(l) : l[i] = e /\ r = RemoveAt(l, i)
    BY <2>1, <2>2
  <2>4. /\ r \in Seq(A) /\ Len(r) = Len(l) - 1
        /\ \A k \in 1 .. Len(l) - 1 : r[k] = IF k < i THEN l[k] ELSE l[k + 1]
    BY <2>3, OneLess
  <2>5. DOMAIN r = 1 .. Len(r)
    BY <2>4, LenProperties
  <2>6. \A j, k \in 1 .. Len(l) : l[j] = l[k] => j = k
    BY <1>1 DEF IsInjective
  <2>7. ASSUME NEW k \in 1 .. Len(r)
        PROVE  \E m \in 1 .. Len(l) : m = (IF k < i THEN k ELSE k + 1) /\ r[k] = l[m] /\ m # i
    BY <1>1, <2>3, <2>4
  <2>8. \A k \in 1 .. Len(r) : r[k] # e /\ \E m \in 1 .. Len(l) : r[k] = l[m]
    BY <2>3, <2>6, <2>7
  <2>9. IsInjective(r)
    <3>1. ASSUME NEW j \in 1 .. Len(r), NEW k \in 1 .. Len(r), r[j] = r[k]
          PROVE  j = k
      <4>1. PICK m \in 1 .. Len(l) : m = (IF j < i THEN j ELSE j + 1) /\ r[j] = l[m]
        BY <2>7
      <4>2. PICK n \in 1 .. Len(l) : n = (IF k < i THEN k ELSE k + 1) /\ r[k] = l[n]
        BY <2>7
      <4>3. m = n
        BY <2>6, <3>1, <4>1, <4>2
      <4> QED BY <1>1, <2>4, <4>1, <4>2, <4>3
    <3> QED BY <2>5, <3>1 DEF IsInjective
  <2> QED BY <1>1, <2>4, <2>8, <2>9
<1> QED BY <1>2, <1>3

\* A list with a new head, cut off at a length.
LEMMA Headed ==
  ASSUME NEW A, NEW l \in Seq(A), NEW x \in A, NEW n \in Nat, n <= Len(l) + 1,
         NEW r, r = SubSeq(<<x>> \o l, 1, n)
  PROVE  /\ r \in Seq(A) /\ Len(r) = n
         /\ \A k \in 1 .. n : r[k] = IF k = 1 THEN x ELSE l[k - 1]
<1>1. Len(l) \in Nat
  BY LenProperties
<1>2. <<x>> \in Seq(A) /\ Len(<<x>>) = 1 /\ <<x>>[1] = x
  OBVIOUS
<1>3. PICK h : h = <<x>> \o l
  OBVIOUS
<1>4. /\ h \in Seq(A) /\ Len(h) = 1 + Len(l)
      /\ \A k \in 1 .. 1 + Len(l) : h[k] = IF k <= 1 THEN <<x>>[k] ELSE l[k - 1]
  BY <1>2, <1>3, ConcatProperties
<1>5. \A k \in 1 .. n : h[k] \in A
  BY <1>1, <1>4, LenProperties
<1>6. /\ r \in Seq(A) /\ Len(r) = (IF 1 <= n THEN n - 1 + 1 ELSE 0)
      /\ \A k \in 1 .. n - 1 + 1 : r[k] = h[1 + k - 1]
  BY <1>3, <1>5, SubSeqProperties
<1>7. ASSUME NEW k \in 1 .. n
      PROVE  r[k] = IF k = 1 THEN x ELSE l[k - 1]
  <2>1. r[k] = h[k] /\ k \in 1 .. 1 + Len(l)
    BY <1>1, <1>6
  <2> QED BY <1>2, <1>4, <2>1
<1> QED BY <1>6, <1>7
=============================================================================
