------------------------------ MODULE SumLemmas ------------------------------
(***************************************************************************)
(* Facts about sums over finite sets, and their least and greatest         *)
(* elements, for the proofs about accounts, exposures and scores.          *)
(* SumFunctionOnSet(w, S) of the community modules adds w[x] for x \in S   *)
(* in the order of a CHOOSE; nothing below depends on that order.          *)
(* Induction is stated over sets (of numbers, of subsets), which the       *)
(* provers can instantiate, instead of over predicates.                    *)
(***************************************************************************)
EXTENDS Functions, FiniteSetsExt, FiniteSetTheorems, TLAPS

\* Induction over the natural numbers: a set that holds 0 and is closed under
\* successor holds every number.
LEMMA NatSetInduction ==
  ASSUME NEW N, 0 \in N, \A n \in Nat : n \in N => n + 1 \in N
  PROVE  Nat \subseteq N
<1> DEFINE Missing == Nat \ N
<1> SUFFICES ASSUME Missing # {} PROVE FALSE
  OBVIOUS
<1>1. \E m \in Missing : \A k \in Missing : ~ (<<k, m>> \in OpToRel(<, Nat))
  <2>1. Missing \subseteq Nat
    OBVIOUS
  <2> HIDE DEF Missing
  <2>2. QED
    BY <2>1, NatLessThanWellFounded, WFMin
<1>2. PICK m \in Missing : \A k \in Missing : ~ (<<k, m>> \in OpToRel(<, Nat))
  BY <1>1
<1>3. \A k \in Missing : ~ (k < m)
  BY <1>2 DEF OpToRel
<1>4. m \in Nat /\ m # 0
  OBVIOUS
<1>5. m - 1 \in Nat /\ m - 1 < m /\ (m - 1) + 1 = m
  BY <1>4
<1>6. m - 1 \in N
  BY <1>3, <1>5
<1>7. QED
  BY <1>5, <1>6

\* Induction over the subsets of a finite set: a family that holds the empty set
\* and is closed under adding one element holds the whole set.
LEMMA SubsetInduction ==
  ASSUME NEW S, IsFiniteSet(S), NEW F, {} \in F,
         \A T \in SUBSET S : \A x \in S \ T : T \in F => T \cup {x} \in F
  PROVE  S \in F
<1> DEFINE N == {n \in Nat : \A T \in SUBSET S : Cardinality(T) = n => T \in F}
<1>1. \A T \in SUBSET S : IsFiniteSet(T) /\ Cardinality(T) \in Nat
  BY FS_Subset, FS_CardinalityType
<1>2. 0 \in N
  BY <1>1, FS_EmptySet
<1>3. ASSUME NEW n \in Nat, n \in N
      PROVE  n + 1 \in N
  <2> SUFFICES ASSUME NEW T \in SUBSET S, Cardinality(T) = n + 1
               PROVE  T \in F
    OBVIOUS
  <2>1. T # {}
    <3>1. n + 1 # 0
      OBVIOUS
    <3>2. QED
      BY <3>1, FS_EmptySet
  <2>2. PICK x \in T : TRUE
    BY <2>1
  <2>3. Cardinality(T \ {x}) = n
    <3>1. Cardinality(T \ {x}) = Cardinality(T) - 1
      BY <1>1, FS_RemoveElement
    <3> HIDE DEF N
    <3>2. QED
      BY <3>1
  <2>4. T \ {x} \in F
    BY <1>3, <2>3
  <2>5. (T \ {x}) \cup {x} = T /\ x \in S \ (T \ {x}) /\ T \ {x} \in SUBSET S
    OBVIOUS
  <2>6. (T \ {x}) \cup {x} \in F
    BY <2>4, <2>5
  <2>7. QED
    BY <2>5, <2>6
<1>4. Nat \subseteq N
  <2> HIDE DEF N
  <2>1. QED
    BY <1>2, <1>3, NatSetInduction
<1>5. QED
  BY <1>1, <1>4

\* The image of a finite set is finite.
LEMMA ImageFinite ==
  ASSUME NEW S, IsFiniteSet(S), NEW g
  PROVE  IsFiniteSet({g[x] : x \in S})
<1> DEFINE F == {T \in SUBSET S : IsFiniteSet({g[x] : x \in T})}
<1>1. {} \in F
  <2>1. {g[x] : x \in {}} = {}
    OBVIOUS
  <2>2. QED
    BY <2>1, FS_EmptySet
<1>2. ASSUME NEW T \in SUBSET S, NEW x \in S \ T, T \in F
      PROVE  T \cup {x} \in F
  <2>1. {g[y] : y \in T \cup {x}} = {g[y] : y \in T} \cup {g[x]}
    OBVIOUS
  <2>2. IsFiniteSet({g[y] : y \in T} \cup {g[x]})
    BY <1>2, FS_AddElement
  <2>3. QED
    BY <2>1, <2>2
<1>3. S \in F
  <2> HIDE DEF F
  <2>1. QED
    BY <1>1, <1>2, SubsetInduction
<1>4. QED
  BY <1>3

-----------------------------------------------------------------------------
(***************************************************************************)
(* The recursive function behind a sum exists, so it satisfies its own     *)
(* equation.                                                               *)
(***************************************************************************)

Pick(s) == CHOOSE x \in s : TRUE

SumFrom(w, h, s) == IF s = {} THEN 0 ELSE w[Pick(s)] + h[s \ {Pick(s)}]

\* h holds the sum of w over every subset of S.
Sums(w, h, S) == h = [s \in SUBSET S |-> SumFrom(w, h, s)]

LEMMA SumsExist ==
  ASSUME NEW S, IsFiniteSet(S), NEW w
  PROVE  \E h : Sums(w, h, S)
<1> DEFINE Small(n) == {s \in SUBSET S : Cardinality(s) <= n}
           N == {n \in Nat : \E h : h = [s \in Small(n) |-> SumFrom(w, h, s)]}
<1>1. \A s \in SUBSET S : IsFiniteSet(s) /\ Cardinality(s) \in Nat
  BY FS_Subset, FS_CardinalityType
<1>2. 0 \in N
  <2>1. \A s \in Small(0) : s = {}
    BY <1>1, FS_EmptySet
  <2> DEFINE h == [s \in Small(0) |-> 0]
  <2>2. h = [s \in Small(0) |-> SumFrom(w, h, s)]
    BY <2>1 DEF SumFrom
  <2>3. QED
    BY <2>2
<1>3. ASSUME NEW n \in Nat, n \in N
      PROVE  n + 1 \in N
  <2>1. PICK h : h = [s \in Small(n) |-> SumFrom(w, h, s)]
    BY <1>3
  <2> DEFINE g == [s \in Small(n + 1) |-> SumFrom(w, h, s)]
  <2>2. \A s \in Small(n) : s \in Small(n + 1) /\ g[s] = h[s]
    <3>1. \A s \in Small(n) : s \in Small(n + 1)
      BY <1>1
    <3>2. \A s \in Small(n) : h[s] = SumFrom(w, h, s)
      BY <2>1
    <3>3. QED
      BY <3>1, <3>2
  <2>3. ASSUME NEW s \in Small(n + 1), s # {}
        PROVE  s \ {Pick(s)} \in Small(n)
    <3>1. Pick(s) \in s
      BY <2>3 DEF Pick
    <3>2. Cardinality(s \ {Pick(s)}) = Cardinality(s) - 1
      BY <1>1, <3>1, FS_RemoveElement
    <3>3. QED
      BY <1>1, <3>2
  <2>4. \A s \in Small(n + 1) : g[s] = SumFrom(w, g, s)
    BY <2>2, <2>3 DEF SumFrom
  <2>5. g = [s \in Small(n + 1) |-> SumFrom(w, g, s)]
    <3>1. g = [s \in Small(n + 1) |-> g[s]]
      OBVIOUS
    <3> HIDE DEF g, Small
    <3>2. QED
      BY <2>4, <3>1
  <2>6. \E f : f = [s \in Small(n + 1) |-> SumFrom(w, f, s)]
    <3> HIDE DEF g
    <3>1. QED
      BY <2>5
  <2>7. QED
    BY <2>6
<1>4. Nat \subseteq N
  <2> HIDE DEF N
  <2>1. QED
    BY <1>2, <1>3, NatSetInduction
<1>5. Cardinality(S) \in N
  BY <1>4, FS_CardinalityType
<1>6. Small(Cardinality(S)) = SUBSET S
  BY <1>1, FS_Subset
<1>7. QED
  BY <1>5, <1>6 DEF Sums

\* What the sum of the community modules is, one level of its recursion at a time.
LEMMA SumEquation ==
  ASSUME NEW S, IsFiniteSet(S), NEW w
  PROVE  \E h : Sums(w, h, S) /\ SumFunctionOnSet(w, S) = h[S]
<1>1. \E h : Sums(w, h, S)
  BY SumsExist
<1>2. \E h : h = [s \in SUBSET S |->
                  IF s = {} THEN 0
                  ELSE w[CHOOSE x \in s : TRUE] + h[s \ {CHOOSE x \in s : TRUE}]]
  BY <1>1, Zenon DEF Sums, SumFrom, Pick
<1> DEFINE sum == CHOOSE h : h = [s \in SUBSET S |->
                    IF s = {} THEN 0
                    ELSE w[CHOOSE x \in s : TRUE] + h[s \ {CHOOSE x \in s : TRUE}]]
<1>3. SumFunctionOnSet(w, S) = sum[S]
  BY DEF SumFunctionOnSet, FoldFunctionOnSet, MapThenFoldSet
<1>4. sum = [s \in SUBSET S |->
                  IF s = {} THEN 0
                  ELSE w[CHOOSE x \in s : TRUE] + sum[s \ {CHOOSE x \in s : TRUE}]]
  BY <1>2, Zenon
<1> HIDE DEF sum
<1>5. QED
  BY <1>3, <1>4, Zenon DEF Sums, SumFrom, Pick

LEMMA SumEmpty ==
  ASSUME NEW w
  PROVE  SumFunctionOnSet(w, {}) = 0
<1>1. PICK h : Sums(w, h, {}) /\ SumFunctionOnSet(w, {}) = h[{}]
  BY SumEquation, FS_EmptySet
<1>2. h[{}] = SumFrom(w, h, {})
  BY <1>1 DEF Sums
<1>3. QED
  BY <1>1, <1>2 DEF SumFrom

\* In a sum of integers any one member can be taken out.
LEMMA SumParts ==
  ASSUME NEW S, IsFiniteSet(S), NEW w, NEW h, Sums(w, h, S), \A x \in S : w[x] \in Int
  PROVE  \A T \in SUBSET S : h[T] \in Int /\ \A x \in T : h[T] = w[x] + h[T \ {x}]
<1> DEFINE Good(T) == h[T] \in Int /\ \A x \in T : h[T] = w[x] + h[T \ {x}]
           N == {n \in Nat : \A T \in SUBSET S : Cardinality(T) <= n => Good(T)}
<1>1. \A s \in SUBSET S : IsFiniteSet(s) /\ Cardinality(s) \in Nat
  BY FS_Subset, FS_CardinalityType
<1>2. \A T \in SUBSET S : h[T] = SumFrom(w, h, T)
  BY DEF Sums
<1>3. Good({})
  BY <1>2 DEF SumFrom
<1>4. 0 \in N
  <2>1. \A T \in SUBSET S : Cardinality(T) <= 0 => T = {}
    BY <1>1, FS_EmptySet
  <2> HIDE DEF Good
  <2>2. QED
    BY <1>3, <2>1
<1>5. ASSUME NEW n \in Nat, n \in N
      PROVE  n + 1 \in N
  <2> SUFFICES ASSUME NEW T \in SUBSET S, Cardinality(T) <= n + 1, T # {}
               PROVE  Good(T)
    <3> HIDE DEF Good
    <3>1. QED
      BY <1>3
  <2>1. ASSUME NEW x \in T
        PROVE  /\ T \ {x} \in SUBSET S /\ Cardinality(T \ {x}) <= n
               /\ Good(T \ {x}) /\ w[x] \in Int
    <3>1. Cardinality(T \ {x}) = Cardinality(T) - 1
      BY <1>1, FS_RemoveElement
    <3>2. Cardinality(T \ {x}) <= n /\ T \ {x} \in SUBSET S
      BY <1>1, <3>1
    <3> HIDE DEF Good
    <3>3. QED
      BY <1>5, <3>2
  <2> DEFINE p == Pick(T)
  <2>2. p \in T
    BY DEF Pick
  <2>3. h[T] = w[p] + h[T \ {p}]
    BY <1>2 DEF SumFrom
  <2> HIDE DEF p
  <2>4. h[T] \in Int
    <3>1. w[p] \in Int /\ h[T \ {p}] \in Int
      BY <2>1, <2>2
    <3>2. QED
      BY <2>3, <3>1
  <2>5. ASSUME NEW x \in T, x # p
        PROVE  h[T] = w[x] + h[T \ {x}]
    <3> DEFINE rest == (T \ {p}) \ {x}
    <3>1. rest = (T \ {x}) \ {p}
      OBVIOUS
    <3>2. h[T \ {p}] = w[x] + h[rest]
      BY <2>1, <2>2, <2>5
    <3>3. h[T \ {x}] = w[p] + h[rest]
      BY <2>1, <2>2, <2>5, <3>1
    <3>4. rest \in SUBSET S /\ h[rest] \in Int
      <4>1. p \in T \ {x} /\ rest = (T \ {x}) \ {p}
        BY <2>2, <2>5
      <4>2. Cardinality((T \ {x}) \ {p}) <= n
        <5>1. Cardinality((T \ {x}) \ {p}) = Cardinality(T \ {x}) - 1
          BY <1>1, <2>1, <4>1, FS_RemoveElement
        <5>2. Cardinality(T \ {x}) \in Nat /\ Cardinality(T \ {x}) <= n
          BY <1>1, <2>1
        <5>3. QED
          BY <5>1, <5>2
      <4> HIDE DEF Good
      <4>3. Good(rest)
        BY <1>5, <4>1, <4>2
      <4>4. QED
        BY <4>3 DEF Good
    <3> HIDE DEF rest
    <3>5. w[x] \in Int /\ w[p] \in Int
      BY <2>1, <2>2
    <3>6. QED
      BY <2>3, <3>2, <3>3, <3>4, <3>5
  <2>6. QED
    BY <2>3, <2>4, <2>5
<1>6. Nat \subseteq N
  <2> HIDE DEF N
  <2>1. QED
    BY <1>4, <1>5, NatSetInduction
<1>7. ASSUME NEW T \in SUBSET S
      PROVE  Good(T)
  <2>1. Cardinality(T) \in N /\ Cardinality(T) \in Nat
    BY <1>1, <1>6
  <2> HIDE DEF Good
  <2>2. QED
    BY <2>1
<1>8. QED
  BY <1>7

\* A sum depends on nothing but the values of its members.
LEMMA SumsAgree ==
  ASSUME NEW S, IsFiniteSet(S), NEW R, IsFiniteSet(R), NEW v, NEW w, NEW g, NEW h,
         Sums(v, g, S), Sums(w, h, R), \A x \in S \cap R : v[x] = w[x]
  PROVE  \A T \in SUBSET (S \cap R) : g[T] = h[T]
<1> DEFINE N == {n \in Nat : \A T \in SUBSET (S \cap R) : Cardinality(T) <= n => g[T] = h[T]}
<1>1. \A T \in SUBSET (S \cap R) : IsFiniteSet(T) /\ Cardinality(T) \in Nat
  BY FS_Subset, FS_CardinalityType
<1>2. \A T \in SUBSET (S \cap R) : g[T] = SumFrom(v, g, T) /\ h[T] = SumFrom(w, h, T)
  BY DEF Sums
<1>3. 0 \in N
  <2>1. \A T \in SUBSET (S \cap R) : Cardinality(T) <= 0 => T = {}
    BY <1>1, FS_EmptySet
  <2>2. QED
    BY <1>2, <2>1 DEF SumFrom
<1>4. ASSUME NEW n \in Nat, n \in N
      PROVE  n + 1 \in N
  <2> SUFFICES ASSUME NEW T \in SUBSET (S \cap R), Cardinality(T) <= n + 1
               PROVE  g[T] = h[T]
    OBVIOUS
  <2>1. CASE T = {}
    BY <1>2, <2>1 DEF SumFrom
  <2>2. CASE T # {}
    <3> DEFINE p == Pick(T)
    <3>1. p \in T
      BY <2>2 DEF Pick
    <3>2. Cardinality(T \ {p}) = Cardinality(T) - 1
      BY <1>1, <3>1, FS_RemoveElement
    <3>3. g[T \ {p}] = h[T \ {p}]
      <4>1. Cardinality(T \ {p}) <= n /\ T \ {p} \in SUBSET (S \cap R)
        BY <1>1, <3>2
      <4> HIDE DEF p
      <4>2. QED
        BY <1>4, <4>1
    <3>4. g[T] = v[p] + g[T \ {p}] /\ h[T] = w[p] + h[T \ {p}]
      BY <1>2, <2>2 DEF SumFrom
    <3> HIDE DEF p
    <3>5. QED
      BY <3>1, <3>3, <3>4
  <2>3. QED
    BY <2>1, <2>2
<1>5. Nat \subseteq N
  <2> HIDE DEF N
  <2>1. QED
    BY <1>3, <1>4, NatSetInduction
<1>6. ASSUME NEW T \in SUBSET (S \cap R)
      PROVE  g[T] = h[T]
  <2>1. Cardinality(T) \in N /\ Cardinality(T) \in Nat
    BY <1>1, <1>5
  <2>2. QED
    BY <2>1
<1>7. QED
  BY <1>6

-----------------------------------------------------------------------------
(***************************************************************************)
(* The facts to cite.                                                      *)
(***************************************************************************)

LEMMA SumCongruence ==
  ASSUME NEW S, IsFiniteSet(S), NEW v, NEW w, \A x \in S : v[x] = w[x]
  PROVE  SumFunctionOnSet(v, S) = SumFunctionOnSet(w, S)
<1>1. PICK g : Sums(v, g, S) /\ SumFunctionOnSet(v, S) = g[S]
  BY SumEquation
<1>2. PICK h : Sums(w, h, S) /\ SumFunctionOnSet(w, S) = h[S]
  BY SumEquation
<1>3. S \in SUBSET (S \cap S)
  OBVIOUS
<1>4. g[S] = h[S]
  BY <1>1, <1>2, <1>3, SumsAgree
<1>5. QED
  BY <1>1, <1>2, <1>4

LEMMA SumInt ==
  ASSUME NEW S, IsFiniteSet(S), NEW w, \A x \in S : w[x] \in Int
  PROVE  SumFunctionOnSet(w, S) \in Int
<1>1. PICK h : Sums(w, h, S) /\ SumFunctionOnSet(w, S) = h[S]
  BY SumEquation
<1>2. QED
  BY <1>1, SumParts

LEMMA SumRemove ==
  ASSUME NEW S, IsFiniteSet(S), NEW w, \A y \in S : w[y] \in Int, NEW x \in S
  PROVE  SumFunctionOnSet(w, S) = w[x] + SumFunctionOnSet(w, S \ {x})
<1>1. PICK h : Sums(w, h, S) /\ SumFunctionOnSet(w, S) = h[S]
  BY SumEquation
<1>2. IsFiniteSet(S \ {x})
  BY FS_RemoveElement
<1>3. PICK g : Sums(w, g, S \ {x}) /\ SumFunctionOnSet(w, S \ {x}) = g[S \ {x}]
  BY <1>2, SumEquation
<1>4. g[S \ {x}] = h[S \ {x}]
  <2>1. S \ {x} \in SUBSET ((S \ {x}) \cap S)
    OBVIOUS
  <2>2. QED
    BY <1>1, <1>2, <1>3, <2>1, SumsAgree
<1>5. h[S] = w[x] + h[S \ {x}]
  BY <1>1, SumParts
<1>6. QED
  BY <1>1, <1>3, <1>4, <1>5

LEMMA SumAdd ==
  ASSUME NEW S, IsFiniteSet(S), NEW w, NEW x, x \notin S,
         \A y \in S \cup {x} : w[y] \in Int
  PROVE  SumFunctionOnSet(w, S \cup {x}) = w[x] + SumFunctionOnSet(w, S)
<1>1. IsFiniteSet(S \cup {x}) /\ (S \cup {x}) \ {x} = S
  BY FS_AddElement
<1>2. QED
  BY <1>1, SumRemove

\* Changing the value of one member leaves the rest of the sum as it was.
LEMMA SumChange ==
  ASSUME NEW S, IsFiniteSet(S), NEW v, NEW w, NEW x \in S,
         \A y \in S : v[y] \in Int /\ w[y] \in Int /\ (y # x => v[y] = w[y])
  PROVE  \E rest \in Int : /\ SumFunctionOnSet(v, S) = v[x] + rest
                           /\ SumFunctionOnSet(w, S) = w[x] + rest
<1>1. IsFiniteSet(S \ {x})
  BY FS_RemoveElement
<1>2. /\ SumFunctionOnSet(v, S) = v[x] + SumFunctionOnSet(v, S \ {x})
      /\ SumFunctionOnSet(w, S) = w[x] + SumFunctionOnSet(w, S \ {x})
  BY SumRemove
<1>3. SumFunctionOnSet(v, S \ {x}) = SumFunctionOnSet(w, S \ {x})
  BY <1>1, SumCongruence
<1>4. SumFunctionOnSet(v, S \ {x}) \in Int
  BY <1>1, SumInt
<1>5. QED
  BY <1>2, <1>3, <1>4

LEMMA SumZero ==
  ASSUME NEW S, IsFiniteSet(S), NEW w, \A x \in S : w[x] = 0
  PROVE  SumFunctionOnSet(w, S) = 0
<1> DEFINE F == {T \in SUBSET S : SumFunctionOnSet(w, T) = 0}
<1>1. {} \in F
  BY SumEmpty
<1>2. ASSUME NEW T \in SUBSET S, NEW x \in S \ T, T \in F
      PROVE  T \cup {x} \in F
  <2>1. IsFiniteSet(T) /\ \A y \in T \cup {x} : w[y] \in Int
    BY FS_Subset
  <2>2. SumFunctionOnSet(w, T \cup {x}) = w[x] + SumFunctionOnSet(w, T)
    BY <2>1, SumAdd
  <2>3. QED
    BY <1>2, <2>2
<1>3. S \in F
  <2> HIDE DEF F
  <2>1. QED
    BY <1>1, <1>2, SubsetInduction
<1>4. QED
  BY <1>3

\* Raising values never lowers the sum.
LEMMA SumMonotone ==
  ASSUME NEW S, IsFiniteSet(S), NEW v, NEW w,
         \A x \in S : v[x] \in Int /\ w[x] \in Int /\ v[x] <= w[x]
  PROVE  SumFunctionOnSet(v, S) <= SumFunctionOnSet(w, S)
<1> DEFINE F == {T \in SUBSET S : SumFunctionOnSet(v, T) <= SumFunctionOnSet(w, T)}
<1>1. {} \in F
  BY SumEmpty
<1>2. ASSUME NEW T \in SUBSET S, NEW x \in S \ T, T \in F
      PROVE  T \cup {x} \in F
  <2>1. IsFiniteSet(T) /\ \A y \in T \cup {x} : v[y] \in Int /\ w[y] \in Int
    BY FS_Subset
  <2>2. /\ SumFunctionOnSet(v, T \cup {x}) = v[x] + SumFunctionOnSet(v, T)
        /\ SumFunctionOnSet(w, T \cup {x}) = w[x] + SumFunctionOnSet(w, T)
    BY <2>1, SumAdd
  <2>3. SumFunctionOnSet(v, T) \in Int /\ SumFunctionOnSet(w, T) \in Int
    BY <2>1, SumInt
  <2>4. v[x] \in Int /\ w[x] \in Int /\ v[x] <= w[x]
    OBVIOUS
  <2>5. SumFunctionOnSet(v, T) <= SumFunctionOnSet(w, T)
    BY <1>2
  <2>6. SumFunctionOnSet(v, T \cup {x}) <= SumFunctionOnSet(w, T \cup {x})
    BY <2>2, <2>3, <2>4, <2>5
  <2>7. QED
    BY <2>6
<1>3. S \in F
  <2> HIDE DEF F
  <2>1. QED
    BY <1>1, <1>2, SubsetInduction
<1>4. QED
  BY <1>3

\* A part of a sum of natural numbers is at most the whole.
LEMMA SumSubset ==
  ASSUME NEW S, IsFiniteSet(S), NEW w, \A x \in S : w[x] \in Nat, NEW R \in SUBSET S
  PROVE  /\ SumFunctionOnSet(w, R) \in Nat
         /\ SumFunctionOnSet(w, R) <= SumFunctionOnSet(w, S)
<1> DEFINE v == [x \in S |-> IF x \in R THEN w[x] ELSE 0]
           zero == [x \in S |-> 0]
           G == {T \in SUBSET S : SumFunctionOnSet(v, T) = SumFunctionOnSet(w, T \cap R)}
<1>1. {} \in G
  <2>1. {} \cap R = {}
    OBVIOUS
  <2>2. QED
    BY <2>1, SumEmpty
<1>2. ASSUME NEW T \in SUBSET S, NEW x \in S \ T, T \in G
      PROVE  T \cup {x} \in G
  <2>1. /\ IsFiniteSet(T) /\ IsFiniteSet(T \cap R)
        /\ \A y \in T \cup {x} : v[y] \in Int /\ w[y] \in Int
    BY FS_Subset
  <2>2. SumFunctionOnSet(v, T \cup {x}) = v[x] + SumFunctionOnSet(v, T)
    BY <2>1, SumAdd
  <2>3. SumFunctionOnSet(v, T) = SumFunctionOnSet(w, T \cap R)
    BY <1>2
  <2>4. SumFunctionOnSet(v, T) \in Int
    BY <2>1, SumInt
  <2>5. CASE x \in R
    <3>1. (T \cup {x}) \cap R = (T \cap R) \cup {x} /\ x \notin T \cap R
      BY <2>5
    <3>2. SumFunctionOnSet(w, (T \cap R) \cup {x}) = w[x] + SumFunctionOnSet(w, T \cap R)
      BY <2>1, <3>1, SumAdd
    <3>3. v[x] = w[x]
      BY <2>5
    <3> HIDE DEF v
    <3>4. QED
      BY <2>2, <2>3, <3>1, <3>2, <3>3
  <2>6. CASE x \notin R
    <3>1. (T \cup {x}) \cap R = T \cap R
      BY <2>6
    <3>2. v[x] = 0
      BY <2>6
    <3> HIDE DEF v
    <3>3. SumFunctionOnSet(v, T \cup {x}) = SumFunctionOnSet(v, T)
      BY <2>2, <2>4, <3>2
    <3>4. QED
      BY <2>3, <3>1, <3>3
  <2>7. QED
    BY <2>5, <2>6
<1>3. S \in G
  <2> HIDE DEF G
  <2>1. QED
    BY <1>1, <1>2, SubsetInduction
<1>4. S \cap R = R
  OBVIOUS
<1>5. SumFunctionOnSet(v, S) = SumFunctionOnSet(w, R)
  BY <1>3, <1>4
<1>6. \A x \in S : /\ v[x] \in Int /\ w[x] \in Int /\ zero[x] \in Int
                   /\ v[x] <= w[x] /\ zero[x] <= v[x] /\ zero[x] = 0
  OBVIOUS
<1> HIDE DEF v, zero
<1>7. SumFunctionOnSet(v, S) <= SumFunctionOnSet(w, S)
  BY <1>6, SumMonotone
<1>8. SumFunctionOnSet(zero, S) <= SumFunctionOnSet(v, S)
  BY <1>6, SumMonotone
<1>9. SumFunctionOnSet(zero, S) = 0
  BY <1>6, SumZero
<1>10. SumFunctionOnSet(v, S) \in Int
  BY <1>6, SumInt
<1>11. QED
  BY <1>5, <1>7, <1>8, <1>9, <1>10

-----------------------------------------------------------------------------
(***************************************************************************)
(* The least and the greatest element of a set.                            *)
(***************************************************************************)

LEMMA MinOfTwo ==
  ASSUME NEW a \in Int, NEW b \in Int
  PROVE  /\ Min({a, b}) \in {a, b}
         /\ Min({a, b}) <= a /\ Min({a, b}) <= b
<1>1. \E x \in {a, b} : \A y \in {a, b} : x <= y
  <2>1. CASE a <= b
    BY <2>1
  <2>2. CASE b <= a
    BY <2>2
  <2>3. QED
    BY <2>1, <2>2
<1>2. QED
  BY <1>1 DEF Min

LEMMA MaxOfTwo ==
  ASSUME NEW a \in Int, NEW b \in Int
  PROVE  /\ Max({a, b}) \in {a, b}
         /\ Max({a, b}) >= a /\ Max({a, b}) >= b
<1>1. \E x \in {a, b} : \A y \in {a, b} : x >= y
  <2>1. CASE a >= b
    BY <2>1
  <2>2. CASE b >= a
    BY <2>2
  <2>3. QED
    BY <2>1, <2>2
<1>2. QED
  BY <1>1 DEF Max

LEMMA MaxOfSet ==
  ASSUME NEW S \in SUBSET Int, IsFiniteSet(S), S # {}
  PROVE  Max(S) \in S /\ \A y \in S : y <= Max(S)
<1> DEFINE F == {T \in SUBSET S : T # {} => \E x \in T : \A y \in T : y <= x}
<1>1. {} \in F
  OBVIOUS
<1>2. ASSUME NEW T \in SUBSET S, NEW x \in S \ T, T \in F
      PROVE  T \cup {x} \in F
  <2>1. CASE T = {}
    BY <2>1
  <2>2. CASE T # {}
    <3>1. PICK m \in T : \A y \in T : y <= m
      BY <1>2, <2>2
    <3>2. CASE x <= m
      BY <3>1, <3>2
    <3>3. CASE m <= x
      BY <3>1, <3>3
    <3>4. QED
      BY <3>1, <3>2, <3>3
  <2>3. QED
    BY <2>1, <2>2
<1> HIDE DEF F
<1>3. S \in F
  BY <1>1, <1>2, SubsetInduction
<1>4. \E x \in S : \A y \in S : x >= y
  BY <1>3 DEF F
<1>5. QED
  BY <1>4 DEF Max

\* A measure of the elements of a finite set has a least value.
LEMMA LeastOfSet ==
  ASSUME NEW S, IsFiniteSet(S), S # {}, NEW w, \A x \in S : w[x] \in Int
  PROVE  \E x \in S : \A y \in S : w[x] <= w[y]
<1> DEFINE F == {T \in SUBSET S : T # {} => \E x \in T : \A y \in T : w[x] <= w[y]}
<1>1. {} \in F
  OBVIOUS
<1>2. ASSUME NEW T \in SUBSET S, NEW x \in S \ T, T \in F
      PROVE  T \cup {x} \in F
  <2>1. CASE T = {}
    BY <2>1
  <2>2. CASE T # {}
    <3>1. PICK m \in T : \A y \in T : w[m] <= w[y]
      BY <1>2, <2>2
    <3>2. CASE w[x] <= w[m]
      BY <3>1, <3>2
    <3>3. CASE w[m] <= w[x]
      BY <3>1, <3>3
    <3>4. QED
      BY <3>1, <3>2, <3>3
  <2>3. QED
    BY <2>1, <2>2
<1> HIDE DEF F
<1>3. S \in F
  BY <1>1, <1>2, SubsetInduction
<1>4. QED
  BY <1>3 DEF F

\* A set of numbers that is not empty has a smallest one.
LEMMA NatLeast ==
  ASSUME NEW S \in SUBSET Nat, S # {}
  PROVE  \E x \in S : \A y \in S : x <= y
<1> SUFFICES ASSUME \A x \in S : \E y \in S : ~ (x <= y) PROVE FALSE
  OBVIOUS
<1> DEFINE N == {n \in Nat : \A m \in S : n <= m}
<1>1. 0 \in N
  OBVIOUS
<1>2. ASSUME NEW n \in Nat, n \in N PROVE n + 1 \in N
  <2>1. n \notin S /\ \A m \in S : n <= m
    BY <1>2
  <2>2. \A m \in S : n + 1 <= m
    BY <2>1
  <2>3. QED
    BY <2>2
<1>3. Nat \subseteq N
  <2> HIDE DEF N
  <2>1. QED
    BY <1>1, <1>2, NatSetInduction
<1>4. PICK s \in S : TRUE
  OBVIOUS
<1>5. s + 1 \in N
  BY <1>3
<1>6. QED
  BY <1>5

=============================================================================
