-------------------------- MODULE CollectionTheorems --------------------------
(***************************************************************************)
(* Sums over finite sets, and lists that are arranged.                     *)
(*                                                                         *)
(* SumFunctionOnSet(w, S) of the community modules is a recursive function *)
(* over the subsets of S that picks the elements in an order nobody knows. *)
(* What one expects of a sum is shown by induction over finite sets: the   *)
(* strict subset relation is well-founded on them, so a set of subsets     *)
(* that holds T whenever it holds every strict subset of T holds them all. *)
(*                                                                         *)
(* In a list that is arranged each position it keeps has one place: no two *)
(* have as many before them, so each number of positions is that of one.   *)
(***************************************************************************)
EXTENDS Integers, Sequences, FiniteSets, FiniteSetsExt, Functions, Lists, FiniteSetTheorems, FunctionTheorems, TLAPS

\* Induction over the subsets of a finite set.
LEMMA SubsetInduction ==
  ASSUME NEW S, IsFiniteSet(S), NEW K,
         \A T \in SUBSET S : (\A U \in SUBSET T : U # T => U \in K) => T \in K
  PROVE  \A T \in SUBSET S : T \in K
<1>1. PICK Bad : Bad = (SUBSET S) \ K
  OBVIOUS
<1>2. CASE Bad # {}
  <2>1. Bad \subseteq FiniteSubsetsOf(S)
    BY <1>1, FS_FiniteSubsetsOfFinite
  <2>2. IsWellFoundedOn(StrictSubsetOrdering(S), FiniteSubsetsOf(S))
    BY FS_StrictSubsetOrderingWellFounded
  <2>3. \E T \in Bad : \A U \in Bad : ~ (<<U, T>> \in StrictSubsetOrdering(S))
    BY <1>2, <2>1, <2>2, WFMin
  <2>4. PICK T \in Bad : \A U \in Bad : <<U, T>> \notin StrictSubsetOrdering(S)
    BY <2>3
  <2>5. T \in SUBSET S /\ T \notin K
    BY <1>1
  <2>6. ASSUME NEW U \in SUBSET T, U # T PROVE U \in K
    <3>1. U \in SUBSET S
      BY <2>5
    <3>2. <<U, T>> \in StrictSubsetOrdering(S)
      BY <2>5, <2>6, <3>1 DEF StrictSubsetOrdering
    <3>3. QED
      BY <1>1, <2>4, <3>1, <3>2
  <2>7. QED
    BY <2>5, <2>6
<1>3. QED
  BY <1>1, <1>2

(* The ends of finite sets of numbers.                                       *)
LEMMA GreatestExists ==
  ASSUME NEW S, IsFiniteSet(S), S \subseteq Int, S # {}
  PROVE  Max(S) \in S /\ \A x \in S : x <= Max(S)
<1>1. PICK K : K = {T \in SUBSET S : T # {} => \E m \in T : \A x \in T : x <= m}
  OBVIOUS
<1>2. ASSUME NEW T \in SUBSET S, \A U \in SUBSET T : U # T => U \in K PROVE T \in K
  <2> SUFFICES ASSUME NEW y \in T PROVE \E m \in T : \A x \in T : x <= m
    BY <1>1
  <2>1. T \ {y} \in K
    BY <1>2
  <2>2. CASE T \ {y} = {}
    <3>1. \A x \in T : x <= y
      BY <2>2
    <3>2. QED
      BY <3>1
  <2>3. CASE T \ {y} # {}
    <3>1. PICK m \in T \ {y} : \A x \in T \ {y} : x <= m
      BY <1>1, <2>1, <2>3
    <3>2. CASE y <= m
      <4>1. \A x \in T : x <= m
        BY <3>1, <3>2
      <4>2. QED
        BY <4>1
    <3>3. CASE ~(y <= m)
      <4>1. \A x \in T : x <= y
        BY <3>1, <3>3
      <4>2. QED
        BY <4>1
    <3>4. QED
      BY <3>2, <3>3
  <2>4. QED
    BY <2>2, <2>3
<1>3. S \in K
  BY <1>2, SubsetInduction
<1>4. \E m \in S : \A x \in S : m >= x
  BY <1>1, <1>3
<1>5. Max(S) \in S /\ \A x \in S : Max(S) >= x
  BY <1>4 DEF Max
<1>6. QED
  BY <1>5

LEMMA LeastExists ==
  ASSUME NEW S, IsFiniteSet(S), S \subseteq Int, S # {}
  PROVE  Min(S) \in S /\ \A x \in S : Min(S) <= x
<1>1. PICK K : K = {T \in SUBSET S : T # {} => \E m \in T : \A x \in T : m <= x}
  OBVIOUS
<1>2. ASSUME NEW T \in SUBSET S, \A U \in SUBSET T : U # T => U \in K PROVE T \in K
  <2> SUFFICES ASSUME NEW y \in T PROVE \E m \in T : \A x \in T : m <= x
    BY <1>1
  <2>1. T \ {y} \in K
    BY <1>2
  <2>2. CASE T \ {y} = {}
    <3>1. \A x \in T : y <= x
      BY <2>2
    <3>2. QED
      BY <3>1
  <2>3. CASE T \ {y} # {}
    <3>1. PICK m \in T \ {y} : \A x \in T \ {y} : m <= x
      BY <1>1, <2>1, <2>3
    <3>2. CASE m <= y
      <4>1. \A x \in T : m <= x
        BY <3>1, <3>2
      <4>2. QED
        BY <4>1
    <3>3. CASE ~(m <= y)
      <4>1. \A x \in T : y <= x
        BY <3>1, <3>3
      <4>2. QED
        BY <4>1
    <3>4. QED
      BY <3>2, <3>3
  <2>4. QED
    BY <2>2, <2>3
<1>3. S \in K
  BY <1>2, SubsetInduction
<1>4. \E m \in S : \A x \in S : m =< x
  BY <1>1, <1>3
<1>5. QED
  BY <1>4 DEF Min

\* Induction up to a number.
LEMMA CountUp ==
  ASSUME NEW last \in Nat, NEW K, 0 \in K, \A n \in 0 .. last - 1 : n \in K => n + 1 \in K
  PROVE  0 .. last \subseteq K
<1>1. PICK missing : missing = (0 .. last) \ K
  OBVIOUS
<1>2. CASE missing # {}
  <2>1. IsFiniteSet(missing) /\ missing \subseteq Int
    <3>1. IsFiniteSet(0 .. last) /\ missing \in SUBSET (0 .. last)
      BY <1>1, FS_Interval
    <3>2. IsFiniteSet(missing)
      BY <3>1, FS_Subset
    <3>3. missing \subseteq Int
      BY <1>1
    <3>4. QED
      BY <3>2, <3>3
  <2>2. PICK n \in missing : \A x \in missing : n <= x
    BY <1>2, <2>1, LeastExists
  <2>3. n \in 1 .. last
    BY <1>1, <2>2
  <2>4. n - 1 \in 0 .. last - 1 /\ n - 1 \notin missing
    BY <2>1, <2>2, <2>3
  <2>5. (n - 1) + 1 \in K
    BY <1>1, <2>4
  <2>6. QED
    BY <1>1, <2>3, <2>5
<1>3. QED
  BY <1>1, <1>2

\* The recursion that SumFunctionOnSet solves.
SumStep(f, w, s) == IF s = {} THEN 0 ELSE LET x == CHOOSE x \in s : TRUE IN w[x] + f[s \ {x}]
Solves(f, w, S) == f = [s \in SUBSET S |-> SumStep(f, w, s)]

LEMMA SumIsSolution ==
  ASSUME NEW w, NEW S
  PROVE  SumFunctionOnSet(w, S) = (CHOOSE f : Solves(f, w, S))[S]
BY DEF SumFunctionOnSet, FoldFunctionOnSet, MapThenFoldSet, Solves, SumStep

\* A step looks at one smaller set.
LEMMA StepLooksBelow ==
  ASSUME NEW w, NEW s, s # {}
  PROVE  \E x \in s : \A f : SumStep(f, w, s) = w[x] + f[s \ {x}]
<1> DEFINE x == CHOOSE x \in s : TRUE
<1>1. x \in s
  OBVIOUS
<1>2. \A f : SumStep(f, w, s) = w[x] + f[s \ {x}]
  BY DEF SumStep
<1>3. QED
  BY <1>1, <1>2

\* Two solutions agree where both are defined.
LEMMA SolutionsAgree ==
  ASSUME NEW w, NEW S, IsFiniteSet(S), NEW T \in SUBSET S, NEW f, Solves(f, w, S),
         NEW g, Solves(g, w, T)
  PROVE  \A s \in SUBSET T : f[s] = g[s]
<1>1. PICK K : K = {s \in SUBSET T : f[s] = g[s]}
  OBVIOUS
<1>2. ASSUME NEW s \in SUBSET T, \A u \in SUBSET s : u # s => u \in K PROVE s \in K
  <2>1. f[s] = SumStep(f, w, s) /\ g[s] = SumStep(g, w, s)
    BY DEF Solves
  <2>2. CASE s = {}
    BY <1>1, <2>1, <2>2 DEF SumStep
  <2>3. CASE s # {}
    <3>1. PICK x \in s : \A h : SumStep(h, w, s) = w[x] + h[s \ {x}]
      BY <2>3, StepLooksBelow
    <3>2. s \ {x} \in K
      BY <1>2
    <3>3. QED
      BY <1>1, <2>1, <3>1, <3>2
  <2>4. QED
    BY <2>2, <2>3
<1>3. IsFiniteSet(T)
  BY FS_Subset
<1>4. \A s \in SUBSET T : s \in K
  BY <1>2, <1>3, SubsetInduction
<1>5. QED
  BY <1>1, <1>4

\* There is a solution, put together from those on smaller sets.
LEMMA SolutionExists ==
  ASSUME NEW w, NEW S, IsFiniteSet(S)
  PROVE  \E f : Solves(f, w, S)
<1>1. PICK K : K = {T \in SUBSET S : \E f : Solves(f, w, T)}
  OBVIOUS
<1>2. ASSUME NEW T \in SUBSET S, \A U \in SUBSET T : U # T => U \in K PROVE T \in K
  <2> DEFINE F(U) == CHOOSE f : Solves(f, w, U)
             At(U, s) == F(U)[s]
  <2>1. \A U \in SUBSET T : U # T => Solves(F(U), w, U)
    BY <1>1, <1>2
  <2>2. PICK below : below = [U \in SUBSET T |-> F(U)]
    OBVIOUS
  <2>3. \A U \in SUBSET T : U # T => Solves(below[U], w, U)
    BY <2>1, <2>2
  <2> HIDE DEF F, At
  <2>4. ASSUME NEW U \in SUBSET T, U # T, NEW V \in SUBSET U
        PROVE  below[U][V] = below[V][V]
    <3>1. IsFiniteSet(U)
      BY FS_Subset
    <3>2. Solves(below[U], w, U) /\ Solves(below[V], w, V)
      BY <2>3, <2>4
    <3>3. PICK f, g : f = below[U] /\ g = below[V]
      OBVIOUS
    <3>4. Solves(f, w, U) /\ Solves(g, w, V)
      BY <3>2, <3>3
    <3>5. \A s \in SUBSET V : f[s] = g[s]
      BY <3>1, <3>4, SolutionsAgree
    <3>6. QED
      BY <3>3, <3>5
  <2>5. PICK last : last = [s \in SUBSET T |-> below[s][s]]
    OBVIOUS
  <2>6. PICK g : g = [s \in SUBSET T |-> SumStep(last, w, s)]
    OBVIOUS
  <2>7. ASSUME NEW s \in SUBSET T, s # T PROVE g[s] = last[s]
    <3>1. last[s] = SumStep(below[s], w, s)
      BY <2>3, <2>5, <2>7 DEF Solves
    <3>2. CASE s = {}
      BY <2>6, <3>1, <3>2 DEF SumStep
    <3>3. CASE s # {}
      <4>1. PICK x \in s : \A h : SumStep(h, w, s) = w[x] + h[s \ {x}]
        BY <3>3, StepLooksBelow
      <4>2. below[s][s \ {x}] = last[s \ {x}]
        BY <2>4, <2>5, <2>7
      <4>3. QED
        BY <2>6, <3>1, <4>1, <4>2
    <3>4. QED
      BY <3>2, <3>3
  <2>8. ASSUME NEW s \in SUBSET T PROVE SumStep(g, w, s) = SumStep(last, w, s)
    <3>1. CASE s = {}
      BY <3>1 DEF SumStep
    <3>2. CASE s # {}
      <4>1. PICK x \in s : \A h : SumStep(h, w, s) = w[x] + h[s \ {x}]
        BY <3>2, StepLooksBelow
      <4>2. s \ {x} \in SUBSET T /\ s \ {x} # T
        OBVIOUS
      <4>3. QED
        BY <2>7, <4>1, <4>2
    <3>3. QED
      BY <3>1, <3>2
  <2>9. Solves(g, w, T)
    BY <2>6, <2>8 DEF Solves
  <2>10. QED
    BY <1>1, <2>9
<1>3. S \in K
  BY <1>2, SubsetInduction
<1>4. QED
  BY <1>1, <1>3

-----------------------------------------------------------------------------
\* The sum over a nonempty set, by the element that is picked first.
LEMMA SumPicks ==
  ASSUME NEW w, NEW S, IsFiniteSet(S), S # {}
  PROVE  \E x \in S : SumFunctionOnSet(w, S) = w[x] + SumFunctionOnSet(w, S \ {x})
<1>1. PICK f : Solves(f, w, S) /\ f = CHOOSE h : Solves(h, w, S)
  BY SolutionExists
<1>2. f[S] = SumStep(f, w, S)
  BY <1>1 DEF Solves
<1>3. PICK x \in S : \A h : SumStep(h, w, S) = w[x] + h[S \ {x}]
  BY StepLooksBelow
<1>4. IsFiniteSet(S \ {x})
  BY FS_Subset
<1>5. PICK g : Solves(g, w, S \ {x}) /\ g = CHOOSE h : Solves(h, w, S \ {x})
  BY <1>4, SolutionExists
<1>6. f[S \ {x}] = g[S \ {x}]
  BY <1>1, <1>5, SolutionsAgree
<1>7. QED
  BY <1>1, <1>2, <1>3, <1>5, <1>6, SumIsSolution

\* The sum over no elements.
LEMMA SumOfNone ==
  ASSUME NEW w
  PROVE  SumFunctionOnSet(w, {}) = 0
<1>1. PICK f : Solves(f, w, {}) /\ f = CHOOSE h : Solves(h, w, {})
  BY SolutionExists, FS_EmptySet
<1>2. QED
  BY <1>1, SumIsSolution DEF Solves, SumStep

\* A sum looks at the summands of its set and at no others.
LEMMA SumsAgree ==
  ASSUME NEW S, IsFiniteSet(S), NEW w, NEW v, \A x \in S : w[x] = v[x]
  PROVE  SumFunctionOnSet(w, S) = SumFunctionOnSet(v, S)
<1>1. PICK f : Solves(f, w, S) /\ f = CHOOSE h : Solves(h, w, S)
  BY SolutionExists
<1>2. PICK g : Solves(g, v, S) /\ g = CHOOSE h : Solves(h, v, S)
  BY SolutionExists
<1>3. PICK K : K = {T \in SUBSET S : f[T] = g[T]}
  OBVIOUS
<1>4. ASSUME NEW T \in SUBSET S, \A U \in SUBSET T : U # T => U \in K PROVE T \in K
  <2>1. f[T] = SumStep(f, w, T) /\ g[T] = SumStep(g, v, T)
    BY <1>1, <1>2 DEF Solves
  <2>2. CASE T = {}
    BY <1>3, <2>1, <2>2 DEF SumStep
  <2>3. CASE T # {}
    <3>1. PICK x : x = CHOOSE y \in T : TRUE
      OBVIOUS
    <3>2. x \in T
      BY <2>3, <3>1
    <3>3. f[T] = w[x] + f[T \ {x}] /\ g[T] = v[x] + g[T \ {x}]
      BY <2>1, <2>3, <3>1 DEF SumStep
    <3>4. f[T \ {x}] = g[T \ {x}]
      BY <1>3, <1>4, <3>2
    <3>5. QED
      BY <1>3, <3>2, <3>3, <3>4
  <2>4. QED
    BY <2>2, <2>3
<1>5. S \in K
  BY <1>4, SubsetInduction
<1>6. QED
  BY <1>1, <1>2, <1>3, <1>5, SumIsSolution

\* A sum of natural numbers is one.
LEMMA SumIsNatural ==
  ASSUME NEW S, IsFiniteSet(S), NEW w, \A x \in S : w[x] \in Nat
  PROVE  SumFunctionOnSet(w, S) \in Nat
<1>1. PICK K : K = {T \in SUBSET S : SumFunctionOnSet(w, T) \in Nat}
  OBVIOUS
<1>2. ASSUME NEW T \in SUBSET S, \A U \in SUBSET T : U # T => U \in K PROVE T \in K
  <2>1. CASE T = {}
    BY <1>1, <2>1, SumOfNone
  <2>2. CASE T # {}
    <3>1. IsFiniteSet(T)
      BY FS_Subset
    <3>2. PICK x \in T : SumFunctionOnSet(w, T) = w[x] + SumFunctionOnSet(w, T \ {x})
      BY <2>2, <3>1, SumPicks
    <3>3. SumFunctionOnSet(w, T \ {x}) \in Nat
      BY <1>1, <1>2
    <3>4. QED
      BY <1>1, <3>2, <3>3
  <2>3. QED
    BY <2>1, <2>2
<1>3. S \in K
  BY <1>2, SubsetInduction
<1>4. QED
  BY <1>1, <1>3

\* Any element may be summed first, whichever is picked.
LEMMA SumRemoves ==
  ASSUME NEW S, IsFiniteSet(S), NEW w, \A x \in S : w[x] \in Nat, NEW y \in S
  PROVE  SumFunctionOnSet(w, S) = w[y] + SumFunctionOnSet(w, S \ {y})
<1>1. PICK K : K = {T \in SUBSET S : \A x \in T :
                      SumFunctionOnSet(w, T) = w[x] + SumFunctionOnSet(w, T \ {x})}
  OBVIOUS
<1>2. \A T \in SUBSET S : SumFunctionOnSet(w, T) \in Nat
  BY SumIsNatural, FS_Subset
<1>3. ASSUME NEW T \in SUBSET S, \A U \in SUBSET T : U # T => U \in K PROVE T \in K
  <2> SUFFICES ASSUME NEW x \in T
               PROVE  SumFunctionOnSet(w, T) = w[x] + SumFunctionOnSet(w, T \ {x})
    BY <1>1
  <2>1. IsFiniteSet(T)
    BY FS_Subset
  <2>2. PICK z \in T : SumFunctionOnSet(w, T) = w[z] + SumFunctionOnSet(w, T \ {z})
    BY <2>1, SumPicks
  <2>3. CASE z # x
    <3>1. T \ {z} \in K /\ T \ {x} \in K
      BY <1>3
    <3>2. SumFunctionOnSet(w, T \ {z}) = w[x] + SumFunctionOnSet(w, (T \ {z}) \ {x})
      BY <1>1, <2>3, <3>1
    <3>3. SumFunctionOnSet(w, T \ {x}) = w[z] + SumFunctionOnSet(w, (T \ {x}) \ {z})
      BY <1>1, <2>3, <3>1
    <3>4. (T \ {z}) \ {x} = (T \ {x}) \ {z}
      OBVIOUS
    <3>5. PICK n \in Nat : n = SumFunctionOnSet(w, (T \ {x}) \ {z})
      BY <1>2
    <3>6. w[x] \in Nat /\ w[z] \in Nat
      OBVIOUS
    <3>7. SumFunctionOnSet(w, T) = w[z] + (w[x] + n) /\ SumFunctionOnSet(w, T \ {x}) = w[z] + n
      BY <2>2, <3>2, <3>3, <3>4, <3>5
    <3>8. QED
      BY <3>6, <3>7
  <2>4. QED
    BY <2>2, <2>3
<1>4. S \in K
  BY <1>3, SubsetInduction
<1>5. QED
  BY <1>1, <1>4

\* One more element adds its summand.
LEMMA SumAdds ==
  ASSUME NEW S, IsFiniteSet(S), NEW w, NEW y, y \notin S, \A x \in S \cup {y} : w[x] \in Nat
  PROVE  SumFunctionOnSet(w, S \cup {y}) = w[y] + SumFunctionOnSet(w, S)
<1>1. IsFiniteSet(S \cup {y})
  BY FS_AddElement
<1>2. (S \cup {y}) \ {y} = S
  OBVIOUS
<1>3. SumFunctionOnSet(w, S \cup {y}) = w[y] + SumFunctionOnSet(w, (S \cup {y}) \ {y})
  BY <1>1, SumRemoves
<1>4. QED
  BY <1>2, <1>3

-----------------------------------------------------------------------------
\* The sum of a function over its whole domain: adding one element to it,
LEMMA SumExtends ==
  ASSUME NEW v, IsFiniteSet(DOMAIN v), NEW w, NEW y, y \notin DOMAIN v,
         DOMAIN w = (DOMAIN v) \cup {y}, w[y] \in Nat,
         \A x \in DOMAIN v : v[x] \in Nat /\ w[x] = v[x]
  PROVE  SumFunction(w) = w[y] + SumFunction(v)
<1>1. SumFunctionOnSet(w, (DOMAIN v) \cup {y}) = w[y] + SumFunctionOnSet(w, DOMAIN v)
  BY SumAdds
<1>2. SumFunctionOnSet(w, DOMAIN v) = SumFunctionOnSet(v, DOMAIN v)
  BY SumsAgree
<1>3. QED
  BY <1>1, <1>2 DEF SumFunction

\* taking out one element that may be in it,
LEMMA SumWithout ==
  ASSUME NEW v, IsFiniteSet(DOMAIN v), \A x \in DOMAIN v : v[x] \in Nat, NEW y
  PROVE  SumFunction(v) = (IF y \in DOMAIN v THEN v[y] ELSE 0)
                            + SumFunctionOnSet(v, (DOMAIN v) \ {y})
<1>1. CASE y \in DOMAIN v
  BY <1>1, SumRemoves DEF SumFunction
<1>2. CASE y \notin DOMAIN v
  <2>1. (DOMAIN v) \ {y} = DOMAIN v
    BY <1>2
  <2>2. SumFunctionOnSet(v, DOMAIN v) \in Nat
    BY SumIsNatural
  <2>3. QED
    BY <1>2, <2>1, <2>2 DEF SumFunction
<1>3. QED
  BY <1>1, <1>2

\* adding elements that count nothing,
LEMMA SumIgnoresZeros ==
  ASSUME NEW v, NEW w, IsFiniteSet(DOMAIN w), DOMAIN v \subseteq DOMAIN w,
         \A x \in DOMAIN v : v[x] \in Nat /\ w[x] = v[x],
         \A x \in DOMAIN w : x \notin DOMAIN v => w[x] = 0
  PROVE  SumFunction(w) = SumFunction(v)
<1>0. PICK S, T : S = DOMAIN v /\ T = DOMAIN w /\ S \in SUBSET T
  OBVIOUS
<1>1. PICK K : K = {U \in SUBSET T : SumFunctionOnSet(w, U) = SumFunctionOnSet(w, U \cap S)}
  OBVIOUS
<1>2. IsFiniteSet(T) /\ \A x \in T : w[x] \in Nat
  BY <1>0
<1>3. \A U \in SUBSET T : IsFiniteSet(U) /\ SumFunctionOnSet(w, U) \in Nat
  BY <1>2, FS_Subset, SumIsNatural
<1>4. ASSUME NEW U \in SUBSET T, \A R \in SUBSET U : R # U => R \in K PROVE U \in K
  <2>1. CASE U \subseteq S
    <3>1. U \cap S = U
      BY <2>1
    <3>2. QED
      BY <1>1, <3>1
  <2>2. ASSUME NEW x \in U, x \notin S PROVE U \in K
    <3>1. SumFunctionOnSet(w, U) = w[x] + SumFunctionOnSet(w, U \ {x})
      BY <1>2, <1>3, SumRemoves
    <3>2. w[x] = 0 /\ SumFunctionOnSet(w, U \ {x}) \in Nat
      BY <1>0, <1>3, <2>2
    <3>3. (U \ {x}) \cap S = U \cap S /\ U \ {x} \in K
      BY <1>4, <2>2
    <3>4. QED
      BY <1>1, <3>1, <3>2, <3>3
  <2>3. QED
    BY <2>1, <2>2
<1>5. T \in K
  BY <1>2, <1>4, SubsetInduction
<1>6. T \cap S = S /\ IsFiniteSet(S)
  BY <1>0, <1>2, FS_Subset
<1>7. SumFunctionOnSet(w, S) = SumFunctionOnSet(v, S)
  BY <1>0, <1>6, SumsAgree
<1>8. QED
  BY <1>0, <1>1, <1>5, <1>6, <1>7 DEF SumFunction

\* and giving other names to its elements.
LEMMA SumRenames ==
  ASSUME NEW v, IsFiniteSet(DOMAIN v), NEW f,
         \A c, d \in DOMAIN v : f[c] = f[d] => c = d,
         NEW w, DOMAIN w = {f[d] : d \in DOMAIN v},
         \A d \in DOMAIN v : v[d] \in Nat /\ w[f[d]] = v[d]
  PROVE  SumFunction(v) = SumFunction(w)
<1>0. PICK D : D = DOMAIN v
  OBVIOUS
<1> USE <1>0
<1>1. PICK K : K = {T \in SUBSET D : IsFiniteSet({f[d] : d \in T})
                      /\ SumFunctionOnSet(v, T) = SumFunctionOnSet(w, {f[d] : d \in T})}
  OBVIOUS
<1>2. ASSUME NEW T \in SUBSET D, \A U \in SUBSET T : U # T => U \in K PROVE T \in K
  <2>1. CASE T = {}
    <3>1. {f[d] : d \in T} = {}
      BY <2>1
    <3>2. QED
      BY <1>1, <2>1, <3>1, SumOfNone, FS_EmptySet
  <2>2. ASSUME NEW x \in T PROVE T \in K
    <3>1. PICK image : image = {f[d] : d \in T \ {x}}
      OBVIOUS
    <3>2. T \ {x} \in K
      BY <1>2
    <3>3. IsFiniteSet(image) /\ SumFunctionOnSet(v, T \ {x}) = SumFunctionOnSet(w, image)
      BY <1>1, <3>1, <3>2
    <3>4. f[x] \notin image /\ {f[d] : d \in T} = image \cup {f[x]}
      BY <3>1
    <3>5. IsFiniteSet(image \cup {f[x]})
      BY <3>3, FS_AddElement
    <3>6. SumFunctionOnSet(w, image \cup {f[x]}) = w[f[x]] + SumFunctionOnSet(w, image)
      <4>1. \A z \in image \cup {f[x]} : w[z] \in Nat
        BY <3>1
      <4>2. QED
        BY <3>3, <3>4, <4>1, SumAdds
    <3>7. SumFunctionOnSet(v, T) = v[x] + SumFunctionOnSet(v, T \ {x})
      <4>1. IsFiniteSet(T) /\ \A z \in T : v[z] \in Nat
        BY FS_Subset
      <4>2. QED
        BY <4>1, SumRemoves
    <3>8. QED
      BY <1>1, <3>3, <3>4, <3>5, <3>6, <3>7
  <2>3. QED
    BY <2>1, <2>2
<1>3. D \in K
  BY <1>2, SubsetInduction
<1>4. QED
  BY <1>1, <1>3 DEF SumFunction

-----------------------------------------------------------------------------
(* Lists.                                                                    *)
LEMMA PlacesAreTaken ==
  ASSUME NEW P, IsFiniteSet(P), P \subseteq Int, NEW key \in [P -> Int]
  PROVE  /\ Cardinality(P) \in Nat
         /\ \A n \in 1 .. Cardinality(P) :
              \E i \in P : Cardinality({j \in P : Earlier(j, i, key)}) = n - 1
         /\ \A i \in P : Cardinality({j \in P : Earlier(j, i, key)}) \in 0 .. Cardinality(P) - 1
         /\ \A i, j \in P : Earlier(i, j, key) =>
              Cardinality({k \in P : Earlier(k, i, key)}) < Cardinality({k \in P : Earlier(k, j, key)})
<1> DEFINE n == Cardinality(P)
           Before(i) == {j \in P : Earlier(j, i, key)}
           place == [i \in P |-> Cardinality(Before(i)) + 1]
<1>1. n \in Nat
  BY FS_CardinalityType
<1>2. \A i \in P : IsFiniteSet(Before(i)) /\ i \notin Before(i) /\ Before(i) \subseteq P
  <2>1. ASSUME NEW i \in P PROVE IsFiniteSet(Before(i))
    BY FS_Subset
  <2>2. ASSUME NEW i \in P PROVE ~Earlier(i, i, key)
    BY DEF Earlier
  <2>3. QED
    BY <2>1, <2>2
<1>3. ASSUME NEW i \in P, NEW j \in P, Earlier(i, j, key)
      PROVE  Cardinality(Before(i)) < Cardinality(Before(j))
  <2>1. Before(i) \subseteq Before(j)
    <3>1. ASSUME NEW k \in P, Earlier(k, i, key) PROVE Earlier(k, j, key)
      BY <1>3, <3>1 DEF Earlier
    <3>2. QED
      BY <3>1
  <2>2. i \in Before(j)
    BY <1>3
  <2>3. IsFiniteSet(Before(j)) /\ i \notin Before(i)
    BY <1>2
  <2>4. Before(i) # Before(j)
    BY <2>2, <2>3
  <2> DEFINE A == Before(i)
             B == Before(j)
  <2> HIDE DEF Before, A, B
  <2>5. IsFiniteSet(A) /\ IsFiniteSet(B) /\ A \in SUBSET B /\ A # B
    BY <1>2, <2>1, <2>4 DEF A, B
  <2>6. Cardinality(A) <= Cardinality(B) /\ (Cardinality(A) = Cardinality(B) => A = B)
    BY <2>5, FS_Subset
  <2>7. Cardinality(A) \in Nat /\ Cardinality(B) \in Nat
    BY <2>5, FS_CardinalityType
  <2>8. Cardinality(A) < Cardinality(B)
    BY <2>5, <2>6, <2>7
  <2>9. QED
    BY <2>8 DEF A, B
<1>4. ASSUME NEW i \in P PROVE Cardinality(Before(i)) \in 0 .. n - 1
  <2>1. IsFiniteSet(Before(i)) /\ i \notin Before(i) /\ Before(i) \subseteq P
    BY <1>2
  <2>2. Before(i) # P
    BY <2>1
  <2> DEFINE A == Before(i)
  <2> HIDE DEF Before, A
  <2>3. IsFiniteSet(A) /\ A \in SUBSET P /\ A # P
    BY <2>1, <2>2 DEF A
  <2>4. Cardinality(A) <= n /\ (Cardinality(A) = n => A = P)
    BY <2>3, FS_Subset
  <2>5. Cardinality(A) \in Nat
    BY <2>3, FS_CardinalityType
  <2>6. Cardinality(A) \in 0 .. n - 1
    BY <1>1, <2>3, <2>4, <2>5
  <2>7. QED
    BY <2>6 DEF A
<1>5. place \in [P -> 1 .. n]
  BY <1>1, <1>4
<1>6. \A i, j \in P : place[i] = place[j] => i = j
  <2>1. SUFFICES ASSUME NEW i \in P, NEW j \in P, i # j PROVE place[i] # place[j]
    OBVIOUS
  <2>2. Earlier(i, j, key) \/ Earlier(j, i, key)
    BY <2>1 DEF Earlier
  <2>3. Cardinality(Before(i)) \in Nat /\ Cardinality(Before(j)) \in Nat
    BY <1>1, <1>4
  <2>4. Cardinality(Before(i)) # Cardinality(Before(j))
    BY <1>3, <2>2, <2>3
  <2>5. QED
    BY <2>3, <2>4
<1>7. place \in Injection(P, 1 .. n)
  BY <1>5, <1>6 DEF Injection, IsInjective
<1>8. IsFiniteSet(1 .. n) /\ Cardinality(1 .. n) = n
  BY <1>1, FS_Interval
<1>9. place \in Surjection(P, 1 .. n)
  BY <1>7, <1>8, FS_Injection
<1>10. \A m \in 1 .. n : \E i \in P : place[i] = m
  BY <1>9 DEF Surjection
<1>11. ASSUME NEW m \in 1 .. n PROVE \E i \in P : Cardinality(Before(i)) = m - 1
  <2>1. PICK i \in P : place[i] = m
    BY <1>10
  <2>2. PICK c \in 0 .. n - 1 : c = Cardinality(Before(i))
    BY <1>4
  <2>3. c + 1 = m
    BY <2>1, <2>2
  <2>4. c = m - 1
    BY <1>1, <2>2, <2>3
  <2>5. QED
    BY <2>2, <2>4
<1>12. QED
  BY <1>1, <1>3, <1>4, <1>11

\* A list has the elements of s at the positions P, each once, by their numbers.
Lists(list, s, P, key, n, at) ==
  /\ n = Cardinality(P) /\ list = [k \in 1 .. n |-> s[at[k]]]
  /\ \A i \in P : \E k \in 1 .. n : at[k] = i
  /\ \A k, l \in 1 .. n : k < l => Earlier(at[k], at[l], key)

LEMMA ArrangedIs ==
  ASSUME NEW s, NEW P, IsFiniteSet(P), P \subseteq Int, NEW key \in [P -> Int]
  PROVE  \E n \in Nat : \E at \in [1 .. n -> P] : Lists(Arranged(s, key), s, P, key, n, at)
<1> DEFINE place == [i \in P |-> Cardinality({j \in P : Earlier(j, i, key)})]
<1>1. PICK n \in Nat : n = Cardinality(P)
  BY FS_CardinalityType
<1>2. /\ \A m \in 1 .. n : \E i \in P : place[i] = m - 1
      /\ \A i \in P : place[i] \in 0 .. n - 1
      /\ \A i, j \in P : Earlier(i, j, key) => place[i] < place[j]
  <2>1. \A i \in P : place[i] = Cardinality({j \in P : Earlier(j, i, key)})
    OBVIOUS
  <2> HIDE DEF place
  <2>2. /\ \A m \in 1 .. n : \E i \in P : Cardinality({j \in P : Earlier(j, i, key)}) = m - 1
        /\ \A i \in P : Cardinality({j \in P : Earlier(j, i, key)}) \in 0 .. n - 1
        /\ \A i, j \in P : Earlier(i, j, key) =>
              Cardinality({k \in P : Earlier(k, i, key)}) < Cardinality({k \in P : Earlier(k, j, key)})
    <3>1. /\ \A m \in 1 .. Cardinality(P) :
               \E i \in P : Cardinality({j \in P : Earlier(j, i, key)}) = m - 1
          /\ \A i \in P : Cardinality({j \in P : Earlier(j, i, key)}) \in 0 .. Cardinality(P) - 1
          /\ \A i, j \in P : Earlier(i, j, key) =>
               Cardinality({k \in P : Earlier(k, i, key)}) < Cardinality({k \in P : Earlier(k, j, key)})
      BY PlacesAreTaken, Zenon
    <3>2. QED
      BY <1>1, <3>1, Zenon
  <2>3. \A m \in 1 .. n : \E i \in P : place[i] = m - 1
    BY <2>1, <2>2
  <2>4. \A i, j \in P : Earlier(i, j, key) => place[i] < place[j]
    BY <2>1, <2>2
  <2>5. QED
    BY <2>1, <2>2, <2>3, <2>4
<1>3. DOMAIN key = P
  OBVIOUS
<1>4. Arranged(s, key) = [m \in 1 .. n |-> s[CHOOSE i \in P : place[i] = m - 1]]
  BY <1>1, <1>3 DEF Arranged
<1> DEFINE at == [m \in 1 .. n |-> CHOOSE i \in P : place[i] = m - 1]
<1> HIDE DEF place
<1>5. \A m \in 1 .. n : at[m] \in P /\ place[at[m]] = m - 1
  BY <1>2
<1>6. at \in [1 .. n -> P]
  BY <1>5
<1>7. Arranged(s, key) = [k \in 1 .. n |-> s[at[k]]]
  BY <1>4
<1>8. \A i, j \in P : i = j \/ Earlier(i, j, key) \/ Earlier(j, i, key)
  BY DEF Earlier
<1> HIDE DEF at
<1>9. ASSUME NEW i \in P PROVE \E k \in 1 .. n : at[k] = i
  <2>1. PICK m \in 0 .. n - 1 : m = place[i]
    BY <1>2
  <2>2. m + 1 \in 1 .. n
    OBVIOUS
  <2>3. at[m + 1] \in P /\ place[at[m + 1]] = place[i]
    BY <1>5, <2>1, <2>2
  <2> DEFINE j == at[m + 1]
  <2> HIDE DEF j
  <2>4. j \in P /\ place[j] = place[i] /\ place[i] \in Int /\ j = at[m + 1]
    BY <2>1, <2>3 DEF j
  <2>5. ~Earlier(i, j, key) /\ ~Earlier(j, i, key)
    <3>1. (Earlier(i, j, key) => place[i] < place[j]) /\ (Earlier(j, i, key) => place[j] < place[i])
      BY <1>2, <2>4
    <3>2. QED
      BY <2>4, <3>1
  <2>6. j = i
    BY <1>8, <2>4, <2>5
  <2>7. QED
    BY <2>2, <2>4, <2>6
<1>10. ASSUME NEW k \in 1 .. n, NEW l \in 1 .. n, k < l PROVE Earlier(at[k], at[l], key)
  <2>1. at[k] \in P /\ at[l] \in P /\ place[at[k]] = k - 1 /\ place[at[l]] = l - 1
    BY <1>5
  <2>2. at[k] # at[l]
    BY <1>10, <2>1
  <2>3. ~Earlier(at[l], at[k], key)
    <3>1. Earlier(at[l], at[k], key) => place[at[l]] < place[at[k]]
      BY <1>2, <2>1
    <3>2. QED
      BY <1>10, <2>1, <3>1
  <2>4. QED
    BY <1>8, <2>1, <2>2, <2>3
<1>11. Lists(Arranged(s, key), s, P, key, n, at)
  BY <1>1, <1>7, <1>9, <1>10 DEF Lists
<1>12. QED
  BY <1>6, <1>11

-----------------------------------------------------------------------------
(* What is made of a list step by step: the first value, and each next one   *)
(* of the one before it.                                                     *)
Recursion(g, N, T, base, step) ==
  g \in [0 .. N -> T] /\ g[0] = base /\ \A n \in 1 .. N : g[n] = step[n][g[n - 1]]

LEMMA RecursionExists ==
  ASSUME NEW N \in Nat, NEW T, NEW base \in T,
         NEW step, \A n \in 1 .. N : \A x \in T : step[n][x] \in T
  PROVE  \E g : Recursion(g, N, T, base, step)
<1> DEFINE Good(g, m) == g[0] = base /\ \A n \in 1 .. m : g[n] = step[n][g[n - 1]]
           Holds(m) == \E g \in [0 .. m -> T] : Good(g, m)
<1>1. PICK K : \A m \in 0 .. N : m \in K <=> Holds(m)
  <2>1. \A m \in 0 .. N : m \in {k \in 0 .. N : Holds(k)} <=> Holds(m)
    OBVIOUS
  <2> HIDE DEF Holds
  <2>2. QED
    BY <2>1
<1>2. Holds(0)
  <2> DEFINE g == [n \in 0 .. 0 |-> base]
  <2>1. g \in [0 .. 0 -> T] /\ Good(g, 0)
    OBVIOUS
  <2> HIDE DEF g, Good
  <2>2. QED
    BY <2>1
<1>3. ASSUME NEW m \in 0 .. N - 1, Holds(m) PROVE Holds(m + 1)
  <2> HIDE DEF Good
  <2>1. PICK g \in [0 .. m -> T] : Good(g, m)
    BY <1>3
  <2> DEFINE last == step[m + 1][g[m]]
             h == [n \in 0 .. m + 1 |-> IF n = m + 1 THEN last ELSE g[n]]
  <2>2. m + 1 \in 1 .. N /\ g[m] \in T
    OBVIOUS
  <2>3. last \in T
    BY <2>2
  <2> HIDE DEF last
  <2>4. h \in [0 .. m + 1 -> T]
    BY <2>3
  <2>5. ASSUME NEW n \in 1 .. m + 1 PROVE h[n] = step[n][h[n - 1]]
    <3>1. CASE n = m + 1
      <4>1. h[n] = last /\ h[n - 1] = g[m] /\ n - 1 = m
        BY <3>1
      <4> HIDE DEF h
      <4>2. QED
        BY <3>1, <4>1 DEF last
    <3>2. CASE n # m + 1
      <4>1. n \in 1 .. m /\ h[n] = g[n] /\ h[n - 1] = g[n - 1]
        BY <3>2
      <4> HIDE DEF h
      <4>2. QED
        BY <2>1, <4>1 DEF Good
    <3>3. QED
      BY <3>1, <3>2
  <2>6. h[0] = base
    BY <2>1 DEF Good
  <2> HIDE DEF h
  <2>7. Good(h, m + 1)
    BY <2>5, <2>6 DEF Good
  <2>8. QED
    BY <2>4, <2>7
<1> HIDE DEF Holds
<1>4. 0 \in K /\ \A n \in 0 .. N - 1 : n \in K => n + 1 \in K
  BY <1>1, <1>2, <1>3
<1>5. 0 .. N \subseteq K
  BY <1>4, CountUp
<1>6. Holds(N)
  BY <1>1, <1>5
<1>7. QED
  BY <1>6 DEF Holds, Good, Recursion

\* A list is kept element by element.
KeptStep(f, s, P, n) ==
  IF n = 0 THEN <<>> ELSE IF n \in P THEN Append(f[n - 1], s[n]) ELSE f[n - 1]
KeptBuilt(f, s, P, N) == f = [n \in 0 .. N |-> KeptStep(f, s, P, n)]

KeptSteps(f, s, P) ==
  /\ f[0] = <<>> /\ f[Len(s)] = Kept(s, P)
  /\ \A n \in 1 .. Len(s) : f[n] = IF n \in P THEN Append(f[n - 1], s[n]) ELSE f[n - 1]

LEMMA KeptBuilds ==
  ASSUME NEW S, NEW s \in Seq(S), NEW P
  PROVE  \E f : KeptSteps(f, s, P)
<1>1. PICK N \in Nat : N = Len(s)
  OBVIOUS
<1>2. PICK step : step = [n \in 1 .. N |-> [x \in Seq(S) |-> IF n \in P THEN Append(x, s[n]) ELSE x]]
  OBVIOUS
<1>3. ASSUME NEW n \in 1 .. N, NEW x \in Seq(S)
      PROVE  /\ step[n][x] = IF n \in P THEN Append(x, s[n]) ELSE x
             /\ step[n][x] \in Seq(S)
  BY <1>1, <1>2
<1>4. PICK g : Recursion(g, N, Seq(S), <<>>, step)
  <2>1. <<>> \in Seq(S)
    OBVIOUS
  <2>2. \A n \in 1 .. N : \A x \in Seq(S) : step[n][x] \in Seq(S)
    BY <1>3
  <2>3. QED
    BY <2>1, <2>2, RecursionExists
<1>5. ASSUME NEW n \in 1 .. N
      PROVE  g[n] = IF n \in P THEN Append(g[n - 1], s[n]) ELSE g[n - 1]
  <2>1. n - 1 \in 0 .. N /\ g[n - 1] \in Seq(S)
    BY <1>4 DEF Recursion
  <2>2. QED
    BY <1>3, <1>4, <2>1 DEF Recursion
<1>6. KeptBuilt(g, s, P, N)
  <2>1. g = [n \in 0 .. N |-> g[n]]
    BY <1>4 DEF Recursion
  <2>2. \A n \in 0 .. N : g[n] = KeptStep(g, s, P, n)
    <3>1. ASSUME NEW n \in 0 .. N PROVE g[n] = KeptStep(g, s, P, n)
      <4>1. CASE n = 0
        BY <1>4, <4>1 DEF KeptStep, Recursion
      <4>2. CASE n # 0
        <5>1. n \in 1 .. N
          BY <4>2
        <5>2. QED
          BY <1>5, <4>2, <5>1 DEF KeptStep
      <4>3. QED
        BY <4>1, <4>2
    <3>2. QED
      BY <3>1
  <2>3. QED
    BY <2>1, <2>2 DEF KeptBuilt
<1>7. Kept(s, P) = (CHOOSE f : KeptBuilt(f, s, P, Len(s)))[Len(s)]
  BY DEF Kept, KeptBuilt, KeptStep
<1>8. PICK f : f = CHOOSE h : KeptBuilt(h, s, P, N)
  OBVIOUS
<1>9. KeptBuilt(f, s, P, N)
  BY <1>6, <1>8
<1>10. \A n \in 0 .. N : f[n] = KeptStep(f, s, P, n)
  BY <1>9 DEF KeptBuilt
<1>11. f[0] = <<>> /\ \A n \in 1 .. N : f[n] = IF n \in P THEN Append(f[n - 1], s[n]) ELSE f[n - 1]
  BY <1>10 DEF KeptStep
<1>12. f[Len(s)] = Kept(s, P)
  BY <1>1, <1>7, <1>8
<1>13. KeptSteps(f, s, P)
  BY <1>1, <1>11, <1>12 DEF KeptSteps
<1>14. QED
  BY <1>13

\* A list has the elements of s at the positions P, each once and in their order.
Picks(list, s, P, n, at) ==
  /\ n = Cardinality(P) /\ list = [k \in 1 .. n |-> s[at[k]]]
  /\ \A i \in P : \E k \in 1 .. n : at[k] = i
  /\ \A k, l \in 1 .. n : k < l => at[k] < at[l]

LEMMA KeptIs ==
  ASSUME NEW S, NEW s \in Seq(S), NEW P \in SUBSET (1 .. Len(s))
  PROVE  \E n \in Nat : \E at \in [1 .. n -> P] : Picks(Kept(s, P), s, P, n, at)
<1>0. PICK f : KeptSteps(f, s, P)
  BY KeptBuilds
<1>1. /\ f[0] = <<>> /\ f[Len(s)] = Kept(s, P)
      /\ \A n \in 1 .. Len(s) : f[n] = IF n \in P THEN Append(f[n - 1], s[n]) ELSE f[n - 1]
  BY <1>0 DEF KeptSteps
<1> DEFINE Part(m) == P \cap (1 .. m)
           Holds(m) == \E n \in Nat : \E at \in [1 .. n -> Part(m)] : Picks(f[m], s, Part(m), n, at)
<1>2. PICK K : \A m \in 0 .. Len(s) : m \in K <=> Holds(m)
  <2>1. \A m \in 0 .. Len(s) : m \in {k \in 0 .. Len(s) : Holds(k)} <=> Holds(m)
    OBVIOUS
  <2> HIDE DEF Holds
  <2>2. QED
    BY <2>1
<1>3. Holds(0)
  <2>1. Part(0) = {} /\ Cardinality(Part(0)) = 0
    BY FS_EmptySet
  <2> DEFINE at == [k \in 1 .. 0 |-> 0]
  <2>2. at \in [1 .. 0 -> Part(0)] /\ Picks(f[0], s, Part(0), 0, at)
    BY <1>1, <2>1 DEF Picks
  <2> HIDE DEF at, Part
  <2>3. QED
    BY <2>2
<1>4. ASSUME NEW m \in 0 .. Len(s) - 1, Holds(m) PROVE Holds(m + 1)
  <2>0. PICK n \in Nat : \E at \in [1 .. n -> Part(m)] : Picks(f[m], s, Part(m), n, at)
    BY <1>4
  <2>1. PICK at \in [1 .. n -> Part(m)] : Picks(f[m], s, Part(m), n, at)
    BY <2>0
  <2>2. f[m + 1] = IF m + 1 \in P THEN Append(f[m], s[m + 1]) ELSE f[m]
    <3>1. m + 1 \in 1 .. Len(s) /\ (m + 1) - 1 = m
      OBVIOUS
    <3>2. QED
      BY <1>1, <3>1
  <2>3. CASE m + 1 \notin P
    <3>1. Part(m + 1) = Part(m)
      BY <2>3
    <3>2. QED
      BY <1>4, <2>2, <2>3, <3>1
  <2>4. CASE m + 1 \in P
    <3>1. Part(m + 1) = Part(m) \cup {m + 1} /\ m + 1 \notin Part(m)
      BY <2>4
    <3>2. IsFiniteSet(Part(m))
      <4>1. IsFiniteSet(1 .. m)
        BY FS_Interval
      <4>2. QED
        BY <4>1, FS_Subset
    <3>3. Cardinality(Part(m + 1)) = n + 1
      BY <2>1, <3>1, <3>2, FS_AddElement DEF Picks
    <3> DEFINE bt == [k \in 1 .. n + 1 |-> IF k = n + 1 THEN m + 1 ELSE at[k]]
    <3>4. bt \in [1 .. n + 1 -> Part(m + 1)]
      BY <3>1
    <3>5. \A i \in Part(m + 1) : \E k \in 1 .. n + 1 : bt[k] = i
      <4>1. ASSUME NEW i \in Part(m) PROVE \E k \in 1 .. n + 1 : bt[k] = i
        <5>1. PICK k \in 1 .. n : at[k] = i
          BY <2>1 DEF Picks
        <5>2. k \in 1 .. n + 1 /\ bt[k] = i
          BY <5>1
        <5>3. QED
          BY <5>2
      <4>2. n + 1 \in 1 .. n + 1 /\ bt[n + 1] = m + 1
        OBVIOUS
      <4>3. QED
        BY <3>1, <4>1, <4>2
    <3>6. ASSUME NEW k \in 1 .. n + 1, NEW l \in 1 .. n + 1, k < l PROVE bt[k] < bt[l]
      <4>1. CASE l = n + 1
        <5>1. at[k] \in Part(m)
          BY <3>6, <4>1
        <5>2. QED
          BY <3>6, <4>1, <5>1
      <4>2. CASE l # n + 1
        <5>1. k \in 1 .. n /\ l \in 1 .. n
          BY <3>6, <4>2
        <5>2. bt[k] = at[k] /\ bt[l] = at[l]
          BY <5>1
        <5> HIDE DEF bt, Part
        <5>3. at[k] < at[l]
          BY <2>1, <3>6, <5>1 DEF Picks
        <5>4. QED
          BY <5>2, <5>3
      <4>3. QED
        BY <4>1, <4>2
    <3>7. f[m + 1] = [k \in 1 .. n + 1 |-> s[bt[k]]]
      <4>1. f[m] = [k \in 1 .. n |-> s[at[k]]]
        BY <2>1 DEF Picks
      <4>2. f[m] \in Seq(S) /\ Len(f[m]) = n
        BY <4>1
      <4>3. Append(f[m], s[m + 1]) = [k \in 1 .. n + 1 |-> IF k = n + 1 THEN s[m + 1] ELSE f[m][k]]
        BY <4>2
      <4>4. QED
        BY <2>2, <2>4, <4>1, <4>3
    <3> HIDE DEF bt
    <3>8. Picks(f[m + 1], s, Part(m + 1), n + 1, bt)
      BY <3>3, <3>5, <3>6, <3>7 DEF Picks
    <3> HIDE DEF Part
    <3>9. QED
      BY <3>4, <3>8
  <2>5. QED
    BY <2>3, <2>4
<1> HIDE DEF Holds
<1>5. 0 \in K /\ \A m \in 0 .. Len(s) - 1 : m \in K => m + 1 \in K
  BY <1>2, <1>3, <1>4
<1>6. Len(s) \in Nat
  OBVIOUS
<1>7. 0 .. Len(s) \subseteq K
  BY <1>5, <1>6, CountUp
<1>8. Holds(Len(s))
  BY <1>2, <1>6, <1>7
<1>9. Part(Len(s)) = P
  OBVIOUS
<1>10. QED
  <2> HIDE DEF Part
  <2>1. QED
    BY <1>1, <1>8, <1>9 DEF Holds

\* The numbers of a set in their order, and the list of what is at them.
Enumerates(at, n, P) ==
  /\ at \in [1 .. n -> P]
  /\ \A i \in P : \E k \in 1 .. n : at[k] = i
  /\ \A k, l \in 1 .. n : k < l => at[k] < at[l]

IsKept(list, s, P, n, at) ==
  Enumerates(at, n, P) /\ n = Cardinality(P) /\ list = [k \in 1 .. n |-> s[at[k]]]

LEMMA EnumerationIs ==
  ASSUME NEW P \in SUBSET Int, NEW n \in Nat, NEW at, Enumerates(at, n, P)
  PROVE  /\ \A k \in 1 .. n : at[k] \in P /\ at[k] \in Int
         /\ \A i \in P : \E k \in 1 .. n : at[k] = i
         /\ \A k, l \in 1 .. n : k < l => at[k] < at[l]
<1>1. at \in [1 .. n -> P]
  BY DEF Enumerates
<1>2. \A k \in 1 .. n : at[k] \in P
  BY <1>1
<1>3. \A k \in 1 .. n : at[k] \in Int
  BY <1>2
<1>4. QED
  BY <1>2, <1>3 DEF Enumerates

LEMMA EnumerationLeads ==
  ASSUME NEW P \in SUBSET Int, NEW n \in Nat, NEW at, Enumerates(at, n, P),
         NEW m \in Nat, NEW bt, Enumerates(bt, m, P)
  PROVE  n <= m /\ \A k \in 1 .. n : at[k] = bt[k]
<1>0. /\ \A k \in 1 .. n : at[k] \in P /\ at[k] \in Int
      /\ \A i \in P : \E k \in 1 .. n : at[k] = i
      /\ \A k, l \in 1 .. n : k < l => at[k] < at[l]
      /\ \A k \in 1 .. m : bt[k] \in P /\ bt[k] \in Int
      /\ \A i \in P : \E k \in 1 .. m : bt[k] = i
      /\ \A k, l \in 1 .. m : k < l => bt[k] < bt[l]
  <2>1. /\ \A k \in 1 .. n : at[k] \in P /\ at[k] \in Int
        /\ \A i \in P : \E k \in 1 .. n : at[k] = i
        /\ \A k, l \in 1 .. n : k < l => at[k] < at[l]
    BY EnumerationIs
  <2>2. /\ \A k \in 1 .. m : bt[k] \in P /\ bt[k] \in Int
        /\ \A i \in P : \E k \in 1 .. m : bt[k] = i
        /\ \A k, l \in 1 .. m : k < l => bt[k] < bt[l]
    BY EnumerationIs
  <2>3. QED
    BY <2>1, <2>2
<1> DEFINE Holds(k) == k <= m /\ \A j \in 1 .. k : at[j] = bt[j]
<1>1. PICK K : \A k \in 0 .. n : k \in K <=> Holds(k)
  <2>1. \A k \in 0 .. n : k \in {l \in 0 .. n : Holds(l)} <=> Holds(k)
    OBVIOUS
  <2> HIDE DEF Holds
  <2>2. QED
    BY <2>1
<1>2. ASSUME NEW k \in 0 .. n - 1, Holds(k) PROVE Holds(k + 1)
  <2>1. k + 1 \in 1 .. n /\ at[k + 1] \in P
    BY <1>0
  <2>2. PICK l \in 1 .. m : bt[l] = at[k + 1]
    BY <1>0, <2>1
  <2>3. ASSUME NEW j \in 1 .. k PROVE at[j] < at[k + 1] /\ at[j] = bt[j] /\ at[j] \in Int
    <3>1. j \in 1 .. n /\ j < k + 1
      OBVIOUS
    <3>2. at[j] < at[k + 1] /\ at[j] \in Int
      BY <1>0, <2>1, <3>1
    <3>3. QED
      BY <1>2, <3>2
  <2>4. l > k
    BY <1>0, <2>1, <2>2, <2>3
  <2>5. k + 1 \in 1 .. m /\ bt[k + 1] \in P
    BY <1>0, <2>4
  <2>6. PICK j \in 1 .. n : at[j] = bt[k + 1]
    BY <1>0, <2>5
  <2>7. ASSUME NEW i \in 1 .. k PROVE bt[i] < bt[k + 1] /\ bt[i] \in Int
    <3>1. i \in 1 .. m /\ i < k + 1
      BY <2>5
    <3>2. QED
      BY <1>0, <2>5, <3>1
  <2>8. j > k
    BY <1>0, <2>3, <2>5, <2>6, <2>7
  <2>9. at[k + 1] <= at[j]
    <3>1. j = k + 1 \/ k + 1 < j
      BY <2>8
    <3>2. QED
      BY <1>0, <2>1, <3>1
  <2>10. bt[k + 1] <= bt[l]
    <3>1. l = k + 1 \/ k + 1 < l
      BY <2>4
    <3>2. QED
      BY <1>0, <2>5, <3>1
  <2>11. at[k + 1] = bt[k + 1]
    <3>1. at[k + 1] \in Int /\ bt[k + 1] \in Int
      BY <1>0, <2>1, <2>5
    <3>2. QED
      BY <2>2, <2>6, <2>9, <2>10, <3>1
  <2>12. QED
    BY <1>2, <2>5, <2>11
<1>3. Holds(0)
  OBVIOUS
<1> HIDE DEF Holds
<1>4. 0 \in K /\ \A k \in 0 .. n - 1 : k \in K => k + 1 \in K
  BY <1>1, <1>2, <1>3
<1>5. 0 .. n \subseteq K
  BY <1>4, CountUp
<1>6. Holds(n)
  BY <1>1, <1>5
<1>7. QED
  BY <1>6 DEF Holds

LEMMA EnumerationsAgree ==
  ASSUME NEW P \in SUBSET Int, NEW n \in Nat, NEW at, Enumerates(at, n, P),
         NEW m \in Nat, NEW bt, Enumerates(bt, m, P)
  PROVE  n = m /\ at = bt
<1>1. n <= m /\ \A k \in 1 .. n : at[k] = bt[k]
  BY EnumerationLeads
<1>2. m <= n
  BY EnumerationLeads
<1>3. n = m
  BY <1>1, <1>2
<1>4. at \in [1 .. n -> P] /\ bt \in [1 .. n -> P]
  BY <1>3 DEF Enumerates
<1>5. QED
  BY <1>1, <1>3, <1>4

\* What is kept is the list of an enumeration,
LEMMA KeptEnumerates ==
  ASSUME NEW S, NEW s \in Seq(S), NEW P \in SUBSET (1 .. Len(s))
  PROVE  \E n \in Nat : \E at : IsKept(Kept(s, P), s, P, n, at)
<1>1. PICK n \in Nat : \E at \in [1 .. n -> P] : Picks(Kept(s, P), s, P, n, at)
  BY KeptIs
<1>2. PICK at \in [1 .. n -> P] : Picks(Kept(s, P), s, P, n, at)
  BY <1>1
<1>3. QED
  BY <1>2 DEF Picks, Enumerates, IsKept

\* and a list of an enumeration is what is kept.
LEMMA KeptUnique ==
  ASSUME NEW S, NEW s \in Seq(S), NEW P \in SUBSET (1 .. Len(s)),
         NEW m \in Nat, NEW bt, Enumerates(bt, m, P)
  PROVE  Kept(s, P) = [k \in 1 .. m |-> s[bt[k]]] /\ m = Cardinality(P)
<1>1. PICK n \in Nat : \E at : IsKept(Kept(s, P), s, P, n, at)
  BY KeptEnumerates
<1>2. PICK at : IsKept(Kept(s, P), s, P, n, at)
  BY <1>1
<1>3. n = m /\ at = bt
  <2>1. P \in SUBSET Int
    OBVIOUS
  <2>2. Enumerates(at, n, P)
    BY <1>2 DEF IsKept
  <2>3. QED
    BY <2>1, <2>2, EnumerationsAgree
<1>4. QED
  BY <1>2, <1>3 DEF IsKept

\* Its elements are those of the positions.
LEMMA KeptElements ==
  ASSUME NEW S, NEW s \in Seq(S), NEW P \in SUBSET (1 .. Len(s))
  PROVE  /\ Kept(s, P) \in Seq(S) /\ Len(Kept(s, P)) = Cardinality(P) /\ IsFiniteSet(P)
         /\ \A k \in 1 .. Len(Kept(s, P)) : \E i \in P : Kept(s, P)[k] = s[i]
         /\ \A i \in P : \E k \in 1 .. Len(Kept(s, P)) : Kept(s, P)[k] = s[i]
         /\ Kept(s, P) = <<>> <=> P = {}
<1>1. PICK n \in Nat : \E at : IsKept(Kept(s, P), s, P, n, at)
  BY KeptEnumerates
<1>2. PICK at : IsKept(Kept(s, P), s, P, n, at)
  BY <1>1
<1>3. \A k \in 1 .. n : at[k] \in P /\ s[at[k]] \in S
  <2>1. \A k \in 1 .. n : at[k] \in P
    BY <1>2 DEF Enumerates, IsKept
  <2>2. \A i \in P : s[i] \in S
    OBVIOUS
  <2>3. QED
    BY <2>1, <2>2
<1>4. Kept(s, P) = [k \in 1 .. n |-> s[at[k]]] /\ Kept(s, P) \in Seq(S) /\ Len(Kept(s, P)) = n
  BY <1>2, <1>3 DEF IsKept
<1>5. IsFiniteSet(P)
  <2>1. IsFiniteSet(1 .. Len(s))
    BY FS_Interval
  <2>2. QED
    BY <2>1, FS_Subset
<1>6. \A k \in 1 .. n : \E i \in P : Kept(s, P)[k] = s[i]
  BY <1>3, <1>4
<1>7. \A i \in P : \E k \in 1 .. n : Kept(s, P)[k] = s[i]
  BY <1>2, <1>4 DEF Enumerates, IsKept
<1>8. Kept(s, P) = <<>> <=> n = 0
  BY <1>4
<1>9. n = 0 <=> P = {}
  <2>1. n = 0 => 1 .. n = {}
    OBVIOUS
  <2>2. n # 0 => 1 \in 1 .. n
    OBVIOUS
  <2>3. QED
    BY <1>3, <1>6, <1>7, <2>1, <2>2
<1>10. QED
  BY <1>2, <1>4, <1>5, <1>6, <1>7, <1>8, <1>9 DEF IsKept

\* All of a list.
LEMMA KeptWhole ==
  ASSUME NEW S, NEW s \in Seq(S)
  PROVE  Kept(s, 1 .. Len(s)) = s
<1>1. PICK n \in Nat : n = Len(s)
  OBVIOUS
<1> DEFINE at == [k \in 1 .. n |-> k]
<1>2. Enumerates(at, n, 1 .. n)
  BY DEF Enumerates
<1>3. Kept(s, 1 .. n) = [k \in 1 .. n |-> s[at[k]]]
  <2> HIDE DEF at
  <2>1. 1 .. n \in SUBSET (1 .. Len(s))
    BY <1>1
  <2>2. QED
    BY <1>1, <1>2, <2>1, KeptUnique
<1>4. \A k \in 1 .. n : at[k] = k
  OBVIOUS
<1> HIDE DEF at
<1>5. Kept(s, 1 .. n) = [k \in 1 .. n |-> s[k]]
  BY <1>3, <1>4
<1>6. QED
  BY <1>1, <1>5

\* The positions among P of the values in V.
Selects(Q, s, P, V) == Q = {i \in P : s[i] \in V}

\* What is kept of what was kept: V holds the values that are kept the second time.
LEMMA KeptOfKept ==
  ASSUME NEW S, NEW s \in Seq(S), NEW P \in SUBSET (1 .. Len(s)), NEW V,
         NEW Q, Selects(Q, s, P, V),
         NEW list, list = Kept(s, P), NEW R, Selects(R, list, 1 .. Len(list), V)
  PROVE  Kept(list, R) = Kept(s, Q)
<1>0. Q = {i \in P : s[i] \in V} /\ R = {k \in 1 .. Len(list) : list[k] \in V}
  BY DEF Selects
<1>1. PICK n \in Nat : \E at : IsKept(Kept(s, P), s, P, n, at)
  BY KeptEnumerates
<1>2. PICK at : IsKept(list, s, P, n, at)
  BY <1>1
<1>3. list \in Seq(S) /\ Len(list) = n /\ R \in SUBSET (1 .. Len(list))
  <2>1. list \in Seq(S)
    BY KeptElements
  <2>2. Len(list) = n
    BY <1>2 DEF IsKept
  <2>3. QED
    BY <1>0, <2>1, <2>2
<1>4. PICK m \in Nat : \E bt : IsKept(Kept(list, R), list, R, m, bt)
  BY <1>3, KeptEnumerates
<1>5. PICK bt : IsKept(Kept(list, R), list, R, m, bt)
  BY <1>4
<1>6. \A k \in 1 .. m : bt[k] \in R /\ bt[k] \in 1 .. n
  BY <1>3, <1>5 DEF Enumerates, IsKept
<1>7. \A k \in 1 .. n : at[k] \in P /\ list[k] = s[at[k]]
  BY <1>2 DEF Enumerates, IsKept
<1>8. PICK ct : ct = [k \in 1 .. m |-> at[bt[k]]]
  OBVIOUS
<1>9. ct \in [1 .. m -> Q]
  <2>1. \A k \in 1 .. m : at[bt[k]] \in Q
    BY <1>0, <1>6, <1>7
  <2>2. QED
    BY <1>8, <2>1
<1>10. \A i \in Q : \E k \in 1 .. m : ct[k] = i
  <2>1. SUFFICES ASSUME NEW i \in Q PROVE \E k \in 1 .. m : ct[k] = i
    OBVIOUS
  <2>2. PICK l \in 1 .. n : at[l] = i
    BY <1>0, <1>2 DEF Enumerates, IsKept
  <2>3. l \in R
    BY <1>0, <1>3, <1>7, <2>2
  <2>4. PICK k \in 1 .. m : bt[k] = l
    BY <1>5, <2>3 DEF Enumerates, IsKept
  <2>5. QED
    BY <1>8, <2>2, <2>4
<1>11. \A k, l \in 1 .. m : k < l => ct[k] < ct[l]
  BY <1>2, <1>5, <1>6, <1>8 DEF Enumerates, IsKept
<1>12. Enumerates(ct, m, Q)
  BY <1>9, <1>10, <1>11 DEF Enumerates
<1>13. Q \in SUBSET (1 .. Len(s))
  BY <1>0
<1>14. Kept(s, Q) = [k \in 1 .. m |-> s[ct[k]]]
  BY <1>12, <1>13, KeptUnique
<1>15. \A k \in 1 .. m : list[bt[k]] = s[ct[k]]
  BY <1>6, <1>7, <1>8
<1>16. Kept(list, R) = [k \in 1 .. m |-> list[bt[k]]]
  BY <1>5 DEF IsKept
<1>17. QED
  BY <1>14, <1>15, <1>16

\* Its first and its last element are those of the first and the last position.
LEMMA KeptEnds ==
  ASSUME NEW S, NEW s \in Seq(S), NEW P \in SUBSET (1 .. Len(s)), P # {},
         NEW list, list = Kept(s, P)
  PROVE  /\ Len(list) > 0
         /\ \E i \in P : list[1] = s[i] /\ \A j \in P : i <= j
         /\ \E i \in P : list[Len(list)] = s[i] /\ \A j \in P : j <= i
<1>1. PICK n \in Nat : \E at : IsKept(Kept(s, P), s, P, n, at)
  BY KeptEnumerates
<1>2. PICK at : IsKept(list, s, P, n, at)
  BY <1>1
<1>3. list = [k \in 1 .. n |-> s[at[k]]] /\ Len(list) = n
  BY <1>2 DEF IsKept
<1>4. /\ \A k \in 1 .. n : at[k] \in P /\ at[k] \in Int
      /\ \A i \in P : \E k \in 1 .. n : at[k] = i
      /\ \A k, l \in 1 .. n : k < l => at[k] < at[l]
  <2>1. P \in SUBSET Int /\ Enumerates(at, n, P)
    BY <1>2 DEF IsKept
  <2>2. QED
    BY <2>1, EnumerationIs
<1>5. n > 0
  <2>1. PICK i : i \in P
    OBVIOUS
  <2>2. PICK k \in 1 .. n : at[k] = i
    BY <1>4, <2>1
  <2>3. QED
    BY <2>2
<1>6. \A j \in P : at[1] <= j
  <2>1. SUFFICES ASSUME NEW j \in P PROVE at[1] <= j
    OBVIOUS
  <2>2. PICK k \in 1 .. n : at[k] = j
    BY <1>4
  <2>3. k = 1 \/ 1 < k
    OBVIOUS
  <2>4. QED
    BY <1>4, <1>5, <2>2, <2>3
<1>7. \A j \in P : j <= at[n]
  <2>1. SUFFICES ASSUME NEW j \in P PROVE j <= at[n]
    OBVIOUS
  <2>2. PICK k \in 1 .. n : at[k] = j
    BY <1>4
  <2>3. k = n \/ k < n
    OBVIOUS
  <2>4. QED
    BY <1>4, <1>5, <2>2, <2>3
<1>8. 1 \in 1 .. n /\ n \in 1 .. n
  BY <1>5
<1>9. QED
  BY <1>3, <1>4, <1>5, <1>6, <1>7, <1>8

-----------------------------------------------------------------------------
(* Sums of lists.                                                            *)
SummedStep(f, s, n) == IF n = 0 THEN 0 ELSE f[n - 1] + s[n]
SummedBuilt(f, s, N) == f = [n \in 0 .. N |-> SummedStep(f, s, n)]

LEMMA SummedBuilds ==
  ASSUME NEW s \in Seq(Int)
  PROVE  \E f : /\ f \in [0 .. Len(s) -> Int] /\ f[0] = 0 /\ f[Len(s)] = Summed(s)
                /\ \A n \in 1 .. Len(s) : f[n] = f[n - 1] + s[n]
<1>1. PICK N \in Nat : N = Len(s)
  OBVIOUS
<1>2. PICK step : step = [n \in 1 .. N |-> [x \in Int |-> x + s[n]]]
  OBVIOUS
<1>3. ASSUME NEW n \in 1 .. N, NEW x \in Int
      PROVE  step[n][x] = x + s[n] /\ step[n][x] \in Int
  BY <1>1, <1>2
<1>4. PICK g : Recursion(g, N, Int, 0, step)
  <2>1. \A n \in 1 .. N : \A x \in Int : step[n][x] \in Int
    BY <1>3
  <2>2. 0 \in Int
    OBVIOUS
  <2>3. \E g : Recursion(g, N, Int, 0, step)
    BY <2>1, <2>2, RecursionExists
  <2>4. QED
    BY <2>3
<1>5. ASSUME NEW n \in 1 .. N PROVE g[n] = g[n - 1] + s[n]
  <2>1. n - 1 \in 0 .. N /\ g[n - 1] \in Int
    BY <1>4 DEF Recursion
  <2>2. QED
    BY <1>3, <1>4, <2>1 DEF Recursion
<1>6. SummedBuilt(g, s, N)
  <2>1. g = [n \in 0 .. N |-> g[n]]
    BY <1>4 DEF Recursion
  <2>2. ASSUME NEW n \in 0 .. N PROVE g[n] = SummedStep(g, s, n)
    <3>1. CASE n = 0
      BY <1>4, <3>1 DEF SummedStep, Recursion
    <3>2. CASE n # 0
      <4>1. n \in 1 .. N
        BY <3>2
      <4>2. QED
        BY <1>5, <3>2, <4>1 DEF SummedStep
    <3>3. QED
      BY <3>1, <3>2
  <2>3. QED
    BY <2>1, <2>2 DEF SummedBuilt
<1>7. Summed(s) = (CHOOSE f : SummedBuilt(f, s, Len(s)))[Len(s)]
  BY DEF Summed, SummedBuilt, SummedStep
<1>8. PICK f : f = CHOOSE h : SummedBuilt(h, s, N)
  OBVIOUS
<1>9. SummedBuilt(f, s, N)
  BY <1>6, <1>8
<1>10. \A n \in 0 .. N : f[n] = SummedStep(f, s, n)
  BY <1>9 DEF SummedBuilt
<1>11. f[0] = 0 /\ \A n \in 1 .. N : f[n] = f[n - 1] + s[n]
  BY <1>10 DEF SummedStep
<1>12. \A n \in 0 .. N : f[n] \in Int
  <2>1. PICK K : K = {n \in 0 .. N : f[n] \in Int}
    OBVIOUS
  <2>2. 0 \in K
    BY <1>11, <2>1
  <2>3. ASSUME NEW n \in 0 .. N - 1, n \in K PROVE n + 1 \in K
    <3>1. n + 1 \in 1 .. N /\ (n + 1) - 1 = n /\ s[n + 1] \in Int
      BY <1>1
    <3>2. f[n + 1] = f[n] + s[n + 1]
      BY <1>11, <3>1
    <3>3. QED
      BY <2>1, <2>3, <3>1, <3>2
  <2>4. 0 .. N \subseteq K
    BY <2>2, <2>3, CountUp
  <2>5. QED
    BY <2>1, <2>4
<1>13. DOMAIN f = 0 .. N /\ f = [n \in 0 .. N |-> f[n]]
  BY <1>9 DEF SummedBuilt
<1>14. f \in [0 .. N -> Int]
  BY <1>12, <1>13
<1>15. f[Len(s)] = Summed(s)
  BY <1>1, <1>7, <1>8
<1>16. QED
  BY <1>1, <1>11, <1>14, <1>15

\* One more summand.
LEMMA SummedAppend ==
  ASSUME NEW s \in Seq(Int), NEW e \in Int
  PROVE  Summed(Append(s, e)) = Summed(s) + e /\ Summed(s) \in Int
<1>1. PICK t : t = Append(s, e) /\ t \in Seq(Int)
  <2>1. Append(s, e) \in Seq(Int)
    OBVIOUS
  <2>2. QED
    BY <2>1
<1>2. PICK N \in Nat : N = Len(s) /\ Len(t) = N + 1 /\ t[N + 1] = e /\ \A n \in 1 .. N : t[n] = s[n]
  BY <1>1
<1>3. PICK f : /\ f \in [0 .. N -> Int] /\ f[0] = 0 /\ f[N] = Summed(s)
               /\ \A n \in 1 .. N : f[n] = f[n - 1] + s[n]
  BY ZenonT(40), <1>2, SummedBuilds
<1>4. PICK g : /\ g \in [0 .. N + 1 -> Int] /\ g[0] = 0 /\ g[N + 1] = Summed(t)
               /\ \A n \in 1 .. N + 1 : g[n] = g[n - 1] + t[n]
  <2>1. \E g : /\ g \in [0 .. Len(t) -> Int] /\ g[0] = 0 /\ g[Len(t)] = Summed(t)
               /\ \A n \in 1 .. Len(t) : g[n] = g[n - 1] + t[n]
    BY <1>1, SummedBuilds
  <2>2. QED
    BY <1>2, <2>1
<1>5. PICK K : K = {n \in 0 .. N : g[n] = f[n]}
  OBVIOUS
<1>6. 0 \in K
  BY <1>3, <1>4, <1>5
<1>7. ASSUME NEW n \in 0 .. N - 1, n \in K PROVE n + 1 \in K
  <2>1. n + 1 \in 1 .. N /\ (n + 1) - 1 = n /\ n + 1 \in 1 .. N + 1
    OBVIOUS
  <2>2. f[n + 1] = f[n] + s[n + 1] /\ g[n + 1] = g[n] + t[n + 1]
    BY <1>3, <1>4, <2>1
  <2>3. QED
    BY <1>2, <1>5, <1>7, <2>1, <2>2
<1>8. N \in K
  <2>1. 0 .. N \subseteq K
    BY <1>6, <1>7, CountUp
  <2>2. QED
    BY <2>1
<1>9. N + 1 \in 1 .. N + 1 /\ (N + 1) - 1 = N /\ N \in 0 .. N
  OBVIOUS
<1>10. g[N + 1] = g[N] + e
  BY <1>2, <1>4, <1>9
<1>11. QED
  BY <1>1, <1>3, <1>4, <1>5, <1>8, <1>9, <1>10

LEMMA SummedEmpty == Summed(<<>>) = 0
<1>1. PICK s : s = <<>> /\ s \in Seq(Int)
  <2>1. <<>> \in Seq(Int)
    OBVIOUS
  <2>2. PICK s : s = <<>>
    OBVIOUS
  <2>3. QED
    BY <2>1, <2>2
<1>2. Len(s) = 0
  BY <1>1
<1>3. PICK f : /\ f \in [0 .. Len(s) -> Int] /\ f[0] = 0 /\ f[Len(s)] = Summed(s)
               /\ \A n \in 1 .. Len(s) : f[n] = f[n - 1] + s[n]
  BY <1>1, SummedBuilds
<1>4. QED
  BY <1>1, <1>2, <1>3

\* Greater summands have the greater sum.
LEMMA SummedAtMost ==
  ASSUME NEW s \in Seq(Int), NEW t \in Seq(Int), Len(s) = Len(t),
         \A i \in 1 .. Len(s) : s[i] <= t[i]
  PROVE  Summed(s) <= Summed(t) /\ Summed(s) \in Int /\ Summed(t) \in Int
<1>1. PICK N \in Nat : N = Len(s) /\ N = Len(t)
  OBVIOUS
<1>2. PICK f : /\ f \in [0 .. N -> Int] /\ f[0] = 0 /\ f[N] = Summed(s)
               /\ \A n \in 1 .. N : f[n] = f[n - 1] + s[n]
  BY <1>1, SummedBuilds
<1>3. PICK g : /\ g \in [0 .. N -> Int] /\ g[0] = 0 /\ g[N] = Summed(t)
               /\ \A n \in 1 .. N : g[n] = g[n - 1] + t[n]
  BY <1>1, SummedBuilds
<1>4. PICK K : K = {n \in 0 .. N : f[n] <= g[n]}
  OBVIOUS
<1>5. 0 \in K
  BY <1>2, <1>3, <1>4
<1>6. ASSUME NEW n \in 0 .. N - 1, n \in K PROVE n + 1 \in K
  <2>1. n + 1 \in 1 .. N /\ (n + 1) - 1 = n /\ n \in 0 .. N
    OBVIOUS
  <2>2. f[n + 1] = f[n] + s[n + 1] /\ g[n + 1] = g[n] + t[n + 1]
    BY <1>2, <1>3, <2>1
  <2>3. s[n + 1] \in Int /\ t[n + 1] \in Int /\ f[n] \in Int /\ g[n] \in Int /\ s[n + 1] <= t[n + 1]
    BY <1>1, <1>2, <1>3, <2>1
  <2>4. QED
    BY SMTT(40), <1>4, <1>6, <2>1, <2>2, <2>3
<1>7. N \in K
  <2>1. 0 .. N \subseteq K
    BY <1>5, <1>6, CountUp
  <2>2. QED
    BY <2>1
<1>8. QED
  BY <1>2, <1>3, <1>4, <1>7

\* Summands within bounds.
LEMMA SummedWithin ==
  ASSUME NEW s \in Seq(Int), NEW low \in Int, NEW high \in Int,
         \A i \in 1 .. Len(s) : low <= s[i] /\ s[i] <= high
  PROVE  Len(s) * low <= Summed(s) /\ Summed(s) <= Len(s) * high /\ Summed(s) \in Int
<1>1. PICK N \in Nat : N = Len(s)
  OBVIOUS
<1>2. PICK f : /\ f \in [0 .. N -> Int] /\ f[0] = 0 /\ f[N] = Summed(s)
               /\ \A n \in 1 .. N : f[n] = f[n - 1] + s[n]
  BY <1>1, SummedBuilds
<1>3. PICK K : K = {n \in 0 .. N : n * low <= f[n] /\ f[n] <= n * high}
  OBVIOUS
<1>4. 0 \in K
  BY <1>2, <1>3
<1>5. ASSUME NEW n \in 0 .. N - 1, n \in K PROVE n + 1 \in K
  <2>1. n + 1 \in 1 .. N /\ (n + 1) - 1 = n /\ n \in 0 .. N
    OBVIOUS
  <2>2. f[n + 1] = f[n] + s[n + 1]
    BY <1>2, <2>1
  <2>3. s[n + 1] \in Int /\ f[n] \in Int /\ low <= s[n + 1] /\ s[n + 1] <= high
    BY <1>1, <1>2, <2>1
  <2>4. (n + 1) * low = n * low + low /\ (n + 1) * high = n * high + high
        /\ n * low \in Int /\ n * high \in Int
    OBVIOUS
  <2>5. n * low <= f[n] /\ f[n] <= n * high
    BY <1>3, <1>5
  <2>6. (n + 1) * low <= f[n + 1] /\ f[n + 1] <= (n + 1) * high
    <3>1. PICK a \in Int, b \in Int : a = n * low /\ b = n * high
      BY <2>4
    <3>2. a + low <= f[n] + s[n + 1] /\ f[n] + s[n + 1] <= b + high
      BY SMTT(40), <2>3, <2>5, <3>1
    <3>3. QED
      BY <2>2, <2>4, <3>1, <3>2
  <2>7. QED
    BY <1>3, <2>1, <2>6
<1>6. N \in K
  <2>1. 0 .. N \subseteq K
    BY <1>4, <1>5, CountUp
  <2>2. QED
    BY <2>1
<1>7. QED
  BY <1>1, <1>2, <1>3, <1>6

\* The sum of what is kept: the other positions count nothing.
LEMMA SummedOfKept ==
  ASSUME NEW s \in Seq(Int), NEW P \in SUBSET (1 .. Len(s))
  PROVE  Summed(Kept(s, P)) = Summed([i \in 1 .. Len(s) |-> IF i \in P THEN s[i] ELSE 0])
<1>1. PICK N \in Nat : N = Len(s)
  OBVIOUS
<1>2. PICK t : t = [i \in 1 .. N |-> IF i \in P THEN s[i] ELSE 0]
  OBVIOUS
<1>3. t \in Seq(Int) /\ Len(t) = N /\ \A i \in 1 .. N : t[i] = IF i \in P THEN s[i] ELSE 0
  BY <1>1, <1>2
<1>4. PICK g : /\ g \in [0 .. N -> Int] /\ g[0] = 0 /\ g[N] = Summed(t)
               /\ \A n \in 1 .. N : g[n] = g[n - 1] + t[n]
  BY <1>3, SummedBuilds
<1>5. PICK f : /\ f[0] = <<>> /\ f[N] = Kept(s, P)
               /\ \A n \in 1 .. N : f[n] = IF n \in P THEN Append(f[n - 1], s[n]) ELSE f[n - 1]
  <2>1. PICK f : KeptSteps(f, s, P)
    BY KeptBuilds
  <2>2. QED
    BY <1>1, <2>1, Zenon DEF KeptSteps
<1>6. PICK K : K = {n \in 0 .. N : f[n] \in Seq(Int) /\ Summed(f[n]) = g[n]}
  OBVIOUS
<1>7. 0 \in K
  <2>1. f[0] = <<>> /\ Summed(<<>>) = g[0]
    BY <1>4, <1>5, SummedEmpty
  <2>2. <<>> \in Seq(Int) /\ 0 \in 0 .. N
    OBVIOUS
  <2>3. f[0] \in Seq(Int) /\ Summed(f[0]) = g[0]
    BY <2>1, <2>2, Zenon
  <2>4. QED
    BY <1>6, <2>2, <2>3, Zenon
<1>8. ASSUME NEW n \in 0 .. N - 1, n \in K PROVE n + 1 \in K
  <2>1. n + 1 \in 1 .. N /\ (n + 1) - 1 = n /\ n \in 0 .. N
    OBVIOUS
  <2>2. f[n] \in Seq(Int) /\ Summed(f[n]) = g[n] /\ g[n] \in Int /\ s[n + 1] \in Int
    BY SMTT(40), <1>1, <1>4, <1>6, <1>8, <2>1
  <2>3. g[n + 1] = g[n] + t[n + 1]
    BY <1>4, <2>1
  <2>4. CASE n + 1 \in P
    <3>1. f[n + 1] = Append(f[n], s[n + 1]) /\ t[n + 1] = s[n + 1]
      BY <1>3, <1>5, <2>1, <2>4
    <3>2. PICK list \in Seq(Int), e \in Int : list = f[n] /\ e = s[n + 1]
      BY <2>2
    <3>3. Summed(Append(list, e)) = Summed(list) + e /\ Append(list, e) \in Seq(Int)
      BY SummedAppend
    <3>4. Summed(f[n + 1]) = g[n + 1] /\ f[n + 1] \in Seq(Int)
      BY <2>2, <2>3, <3>1, <3>2, <3>3, Zenon
    <3>5. n + 1 \in 0 .. N
      BY <2>1
    <3>6. QED
      BY <1>6, <3>4, <3>5
  <2>5. CASE n + 1 \notin P
    <3>1. f[n + 1] = f[n] /\ t[n + 1] = 0
      BY <1>3, <1>5, <2>1, <2>5
    <3>2. QED
      BY <1>6, <2>1, <2>2, <2>3, <3>1
  <2>6. QED
    BY <2>4, <2>5
<1>9. N \in K
  <2>1. 0 .. N \subseteq K
    BY <1>7, <1>8, CountUp
  <2>2. QED
    BY <2>1
<1>10. QED
  BY <1>1, <1>2, <1>4, <1>5, <1>6, <1>9

-----------------------------------------------------------------------------
(* Lists that are equal, or go together.                                     *)
LEMMA ListedIs ==
  ASSUME NEW S, NEW s \in Seq(S)
  PROVE  Listed(s) = s
BY DEF Listed

\* At the same positions of two lists the same places are kept.
LEMMA KeptTogether ==
  ASSUME NEW S, NEW s \in Seq(S), NEW T, NEW t \in Seq(T), Len(s) = Len(t),
         NEW P \in SUBSET (1 .. Len(s))
  PROVE  /\ Len(Kept(t, P)) = Len(Kept(s, P)) /\ Len(Kept(s, P)) \in Nat
         /\ \A k \in 1 .. Len(Kept(s, P)) :
              \E i \in P : Kept(s, P)[k] = s[i] /\ Kept(t, P)[k] = t[i]
<1>1. PICK n \in Nat : \E at : IsKept(Kept(s, P), s, P, n, at)
  BY KeptEnumerates
<1>2. PICK at : IsKept(Kept(s, P), s, P, n, at)
  BY <1>1
<1>3. Kept(s, P) = [k \in 1 .. n |-> s[at[k]]] /\ Enumerates(at, n, P)
  BY <1>2 DEF IsKept
<1>4. Kept(t, P) = [k \in 1 .. n |-> t[at[k]]]
  BY <1>3, KeptUnique
<1>5. \A k \in 1 .. n : at[k] \in P
  BY <1>3 DEF Enumerates
<1>6. Len(Kept(s, P)) = n /\ Len(Kept(t, P)) = n
  BY <1>3, <1>4
<1>7. QED
  BY <1>3, <1>4, <1>5, <1>6

\* What is kept of two lists that agree at the positions.
LEMMA KeptAgree ==
  ASSUME NEW S, NEW s \in Seq(S), NEW T, NEW t \in Seq(T),
         NEW P, P \in SUBSET (1 .. Len(s)), P \in SUBSET (1 .. Len(t)), \A i \in P : s[i] = t[i]
  PROVE  Kept(s, P) = Kept(t, P)
<1>1. PICK n \in Nat : \E at : IsKept(Kept(s, P), s, P, n, at)
  BY KeptEnumerates
<1>2. PICK at : IsKept(Kept(s, P), s, P, n, at)
  BY <1>1
<1>3. Kept(s, P) = [k \in 1 .. n |-> s[at[k]]] /\ Enumerates(at, n, P)
  BY <1>2 DEF IsKept
<1>4. Kept(t, P) = [k \in 1 .. n |-> t[at[k]]]
  BY <1>3, KeptUnique
<1>5. \A k \in 1 .. n : at[k] \in P
  BY <1>3 DEF Enumerates
<1>6. \A k \in 1 .. n : s[at[k]] = t[at[k]]
  BY <1>5
<1>7. QED
  BY <1>3, <1>4, <1>6

-----------------------------------------------------------------------------
(* The drawdown of a sum.                                                    *)
Levels == [total : Int, peak : Int, fall : Int]
LevelStep(f, steps, n) == IF n = 0 THEN Level0 ELSE AfterStep(f[n - 1], steps[n])
LevelBuilt(f, steps, N) == f = [n \in 0 .. N |-> LevelStep(f, steps, n)]

LEMMA AfterStepIs ==
  ASSUME NEW level \in Levels, NEW step \in Int
  PROVE  /\ AfterStep(level, step) \in Levels
         /\ AfterStep(level, step).total = level.total + step
         /\ AfterStep(level, step).peak >= level.peak
         /\ AfterStep(level, step).peak >= AfterStep(level, step).total
         /\ AfterStep(level, step).peak \in {level.peak, AfterStep(level, step).total}
         /\ AfterStep(level, step).fall >= level.fall
         /\ AfterStep(level, step).fall >= AfterStep(level, step).peak - AfterStep(level, step).total
         /\ AfterStep(level, step).fall \in
              {level.fall, AfterStep(level, step).peak - AfterStep(level, step).total}
<1>1. PICK total \in Int : total = level.total + step
  BY DEF Levels
<1>2. PICK peak \in Int : peak = Greater(level.peak, total)
  BY DEF Levels, Greater
<1>3. PICK fall \in Int : fall = Greater(level.fall, peak - total)
  BY DEF Levels, Greater
<1>4. AfterStep(level, step) = [total |-> total, peak |-> peak, fall |-> fall]
  BY <1>1, <1>2, <1>3 DEF AfterStep
<1>5. peak >= level.peak /\ peak >= total /\ peak \in {level.peak, total}
  BY <1>2 DEF Greater, Levels
<1>6. fall >= level.fall /\ fall >= peak - total /\ fall \in {level.fall, peak - total}
  BY <1>3 DEF Greater, Levels
<1>7. QED
  BY <1>1, <1>4, <1>5, <1>6 DEF Levels

LEMMA LevelsBuild ==
  ASSUME NEW steps \in Seq(Int)
  PROVE  \E f : /\ f \in [0 .. Len(steps) -> Levels] /\ f[0] = Level0
                /\ MaxDrawdown(steps) = f[Len(steps)].fall
                /\ \A n \in 1 .. Len(steps) : f[n] = AfterStep(f[n - 1], steps[n])
<1>1. PICK N \in Nat : N = Len(steps)
  OBVIOUS
<1>2. PICK step : step = [n \in 1 .. N |-> [x \in Levels |-> AfterStep(x, steps[n])]]
  OBVIOUS
<1>3. ASSUME NEW n \in 1 .. N, NEW x \in Levels
      PROVE  step[n][x] = AfterStep(x, steps[n]) /\ step[n][x] \in Levels
  <2>1. steps[n] \in Int
    BY <1>1
  <2>2. AfterStep(x, steps[n]) \in Levels
    BY <2>1, AfterStepIs
  <2>3. QED
    BY <1>2, <2>2
<1>4. Level0 \in Levels
  BY DEF Level0, Levels
<1>5. PICK g : Recursion(g, N, Levels, Level0, step)
  <2>1. \A n \in 1 .. N : \A x \in Levels : step[n][x] \in Levels
    BY <1>3
  <2>2. \E g : Recursion(g, N, Levels, Level0, step)
    BY <1>4, <2>1, RecursionExists
  <2>3. QED
    BY <2>2
<1>6. ASSUME NEW n \in 1 .. N PROVE g[n] = AfterStep(g[n - 1], steps[n])
  <2>1. n - 1 \in 0 .. N /\ g[n - 1] \in Levels
    BY <1>5 DEF Recursion
  <2>2. QED
    BY <1>3, <1>5, <2>1 DEF Recursion
<1>7. LevelBuilt(g, steps, N)
  <2>1. g = [n \in 0 .. N |-> g[n]]
    BY <1>5 DEF Recursion
  <2>2. ASSUME NEW n \in 0 .. N PROVE g[n] = LevelStep(g, steps, n)
    <3>1. CASE n = 0
      BY <1>5, <3>1 DEF LevelStep, Recursion
    <3>2. CASE n # 0
      <4>1. n \in 1 .. N
        BY <3>2
      <4>2. QED
        BY <1>6, <3>2, <4>1 DEF LevelStep
    <3>3. QED
      BY <3>1, <3>2
  <2>3. QED
    BY <2>1, <2>2 DEF LevelBuilt
<1>8. MaxDrawdown(steps) = (CHOOSE f : LevelBuilt(f, steps, Len(steps)))[Len(steps)].fall
  BY DEF MaxDrawdown, LevelBuilt, LevelStep
<1>9. PICK f : f = CHOOSE h : LevelBuilt(h, steps, N)
  OBVIOUS
<1>10. LevelBuilt(f, steps, N)
  BY <1>7, <1>9
<1>11. \A n \in 0 .. N : f[n] = LevelStep(f, steps, n)
  BY <1>10 DEF LevelBuilt
<1>12. f[0] = Level0 /\ \A n \in 1 .. N : f[n] = AfterStep(f[n - 1], steps[n])
  BY <1>11 DEF LevelStep
<1>13. \A n \in 0 .. N : f[n] \in Levels
  <2>1. PICK K : K = {n \in 0 .. N : f[n] \in Levels}
    OBVIOUS
  <2>2. 0 \in K
    BY <1>4, <1>12, <2>1
  <2>3. ASSUME NEW n \in 0 .. N - 1, n \in K PROVE n + 1 \in K
    <3>1. n + 1 \in 1 .. N /\ n + 1 \in 0 .. N /\ (n + 1) - 1 = n /\ steps[n + 1] \in Int
      BY <1>1
    <3>2. f[n + 1] = AfterStep(f[n], steps[n + 1]) /\ f[n] \in Levels
      BY <1>12, <2>1, <2>3, <3>1
    <3>3. f[n + 1] \in Levels
      BY <3>1, <3>2, AfterStepIs
    <3>4. QED
      BY <2>1, <3>1, <3>3
  <2>4. 0 .. N \subseteq K
    BY <2>2, <2>3, CountUp
  <2>5. QED
    BY <2>1, <2>4
<1>14. f = [n \in 0 .. N |-> f[n]]
  BY <1>10 DEF LevelBuilt
<1>15. f \in [0 .. N -> Levels]
  BY <1>13, <1>14
<1>16. MaxDrawdown(steps) = f[Len(steps)].fall
  BY <1>1, <1>8, <1>9
<1>17. QED
  BY <1>1, <1>12, <1>15, <1>16

\* The drawdown is at least what was lost on balance, and at most all losses.
LEMMA DrawdownFits ==
  ASSUME NEW steps \in Seq(Int), NEW losses \in Seq(Int), Len(losses) = Len(steps),
         \A i \in 1 .. Len(steps) : losses[i] >= 0 /\ losses[i] >= -steps[i]
  PROVE  /\ MaxDrawdown(steps) \in Nat
         /\ MaxDrawdown(steps) >= -Summed(steps)
         /\ MaxDrawdown(steps) <= Summed(losses)
<1>1. PICK N \in Nat : N = Len(steps) /\ N = Len(losses)
  OBVIOUS
<1>2. PICK f : /\ f \in [0 .. N -> Levels] /\ f[0] = Level0
               /\ MaxDrawdown(steps) = f[N].fall
               /\ \A n \in 1 .. N : f[n] = AfterStep(f[n - 1], steps[n])
  <2>1. PICK f : /\ f \in [0 .. Len(steps) -> Levels] /\ f[0] = Level0
                 /\ MaxDrawdown(steps) = f[Len(steps)].fall
                 /\ \A n \in 1 .. Len(steps) : f[n] = AfterStep(f[n - 1], steps[n])
    BY LevelsBuild
  <2>2. QED
    BY <1>1, <2>1, Zenon
<1>3. PICK g : /\ g \in [0 .. N -> Int] /\ g[0] = 0 /\ g[N] = Summed(losses)
               /\ \A n \in 1 .. N : g[n] = g[n - 1] + losses[n]
  BY <1>1, SummedBuilds
<1>4. PICK h : /\ h \in [0 .. N -> Int] /\ h[0] = 0 /\ h[N] = Summed(steps)
               /\ \A n \in 1 .. N : h[n] = h[n - 1] + steps[n]
  BY <1>1, SummedBuilds
<1>5. PICK K : K = {n \in 0 .. N : /\ f[n].total = h[n] /\ f[n].peak >= f[n].total /\ f[n].peak >= 0
                                   /\ f[n].fall >= f[n].peak - f[n].total
                                   /\ f[n].fall <= g[n] /\ f[n].peak - f[n].total <= g[n]}
  OBVIOUS
<1>6. 0 \in K
  BY <1>2, <1>3, <1>4, <1>5 DEF Level0
<1>7. ASSUME NEW n \in 0 .. N - 1, n \in K PROVE n + 1 \in K
  <2>1. n + 1 \in 1 .. N /\ (n + 1) - 1 = n /\ n \in 0 .. N /\ n + 1 \in 0 .. N
    OBVIOUS
  <2>2. PICK step \in Int, loss \in Int : step = steps[n + 1] /\ loss = losses[n + 1]
    BY <1>1, <2>1
  <2>3. loss >= 0 /\ loss >= -step
    BY <1>1, <2>1, <2>2
  <2>4. PICK a \in Levels, b \in Levels : a = f[n] /\ b = f[n + 1]
    BY <1>2, <2>1
  <2>5. b = AfterStep(a, step)
    BY <1>2, <2>1, <2>2, <2>4
  <2>6. /\ b.total = a.total + step /\ b.peak >= a.peak /\ b.peak >= b.total
        /\ b.peak \in {a.peak, b.total} /\ b.fall >= a.fall /\ b.fall >= b.peak - b.total
        /\ b.fall \in {a.fall, b.peak - b.total}
    BY <2>5, AfterStepIs
  <2>7. PICK p \in Int, q \in Int : p = g[n] /\ q = g[n + 1] /\ q = p + loss
    BY <1>3, <2>1, <2>2
  <2>8. h[n + 1] = h[n] + step /\ h[n] \in Int
    BY <1>4, <2>1, <2>2
  <2>9. /\ a.total = h[n] /\ a.peak >= a.total /\ a.peak >= 0 /\ a.fall >= a.peak - a.total
        /\ a.fall <= p /\ a.peak - a.total <= p
    BY <1>5, <1>7, <2>4, <2>7
  <2>10. /\ a.total \in Int /\ a.peak \in Int /\ a.fall \in Int
         /\ b.total \in Int /\ b.peak \in Int /\ b.fall \in Int
    BY <2>4 DEF Levels
  <2>11. b.total = h[n + 1]
    BY <2>6, <2>8, <2>9
  <2>12. p >= 0
    BY <2>9, <2>10
  <2>13. b.peak - b.total <= q
    <3>1. CASE b.peak = a.peak
      <4>1. b.peak - b.total = (a.peak - a.total) - step
        BY <2>6, <2>10, <3>1
      <4>2. PICK fallen \in Int : fallen = a.peak - a.total
        BY <2>10
      <4>3. fallen <= p
        BY <2>9, <4>2
      <4>4. fallen - step <= p + loss
        BY <2>3, <4>3
      <4>5. QED
        BY <2>7, <4>1, <4>2, <4>4
    <3>2. CASE b.peak = b.total
      BY <2>3, <2>7, <2>10, <2>12, <3>2
    <3>3. QED
      BY <2>6, <3>1, <3>2
  <2>14. b.peak >= 0 /\ b.fall <= q
    <3>1. b.peak >= 0
      BY <2>6, <2>9, <2>10
    <3>2. CASE b.fall = a.fall
      BY <2>3, <2>7, <2>9, <2>10, <3>1, <3>2
    <3>3. CASE b.fall = b.peak - b.total
      BY <2>13, <3>1, <3>3
    <3>4. QED
      BY <2>6, <3>2, <3>3
  <2>15. QED
    BY <1>5, <2>1, <2>4, <2>6, <2>7, <2>11, <2>13, <2>14
<1>8. N \in K
  <2>1. 0 .. N \subseteq K
    BY <1>6, <1>7, CountUp
  <2>2. QED
    BY <2>1
<1>9. f[N] \in Levels
  BY <1>2
<1>10. f[N].fall \in Int /\ f[N].peak \in Int /\ f[N].total \in Int
  BY <1>9 DEF Levels
<1>11. /\ f[N].total = Summed(steps) /\ f[N].peak >= f[N].total /\ f[N].peak >= 0
       /\ f[N].fall >= f[N].peak - f[N].total /\ f[N].fall <= Summed(losses)
  BY <1>3, <1>4, <1>5, <1>8
<1>12. QED
  BY <1>2, <1>10, <1>11

-----------------------------------------------------------------------------
(* Counting.                                                                 *)
\* There are no more values of a function than places.
LEMMA ImageIsFinite ==
  ASSUME NEW S, IsFiniteSet(S), NEW f
  PROVE  IsFiniteSet({f[x] : x \in S}) /\ Cardinality({f[x] : x \in S}) <= Cardinality(S)
<1>1. PICK T : T = {f[x] : x \in S}
  OBVIOUS
<1>2. PICK g : g = [x \in S |-> f[x]]
  OBVIOUS
<1>3. g \in Surjection(S, T)
  BY <1>1, <1>2 DEF Surjection
<1>4. QED
  BY <1>1, <1>3, FS_Surjection

\* A set in two parts.
LEMMA CountSplit ==
  ASSUME NEW S, IsFiniteSet(S), NEW A, NEW B, A \cup B = S, A \cap B = {}
  PROVE  /\ Cardinality(S) = Cardinality(A) + Cardinality(B)
         /\ IsFiniteSet(A) /\ IsFiniteSet(B)
         /\ Cardinality(S) \in Nat /\ Cardinality(A) \in Nat /\ Cardinality(B) \in Nat
<1>1. A \subseteq S /\ B \subseteq S
  OBVIOUS
<1>2. IsFiniteSet(A) /\ IsFiniteSet(B)
  BY <1>1, FS_Subset
<1>3. Cardinality(A \cup B) = Cardinality(A) + Cardinality(B) - Cardinality(A \cap B)
  BY <1>2, FS_Union
<1>4. Cardinality(A \cap B) = 0
  BY FS_EmptySet
<1>5. Cardinality(A) \in Nat /\ Cardinality(B) \in Nat /\ Cardinality(S) \in Nat
  BY <1>2, FS_CardinalityType
<1>6. QED
  BY <1>2, <1>3, <1>4, <1>5

-----------------------------------------------------------------------------
(* The least and the greatest of two.                                        *)
LEMMA MinOfTwo ==
  ASSUME NEW a \in Int, NEW b \in Int
  PROVE  Min({a, b}) = IF a <= b THEN a ELSE b
BY DEF Min

LEMMA MaxOfTwo ==
  ASSUME NEW a \in Int, NEW b \in Int
  PROVE  Max({a, b}) = IF a >= b THEN a ELSE b
BY DEF Max

\* A natural number shared out.
LEMMA ShareIsNatural ==
  ASSUME NEW a \in Nat, NEW m \in Nat \ {0}
  PROVE  a \div m \in Nat
<1>1. PICK q \in Int : q = a \div m
  OBVIOUS
<1>2. a < m * (q + 1)
  BY <1>1
<1>3. q >= 0
  BY <1>2
<1>4. QED
  BY <1>1, <1>3

-----------------------------------------------------------------------------
(* Parts of a list of results.                                               *)
WithStatus(results, label) == {i \in DOMAIN results : results[i].status = label}
Counted(results) == {i \in DOMAIN results : results[i].counted}

Splits(S, A, B) == A \cup B = S /\ A \cap B = {}
CountsAddUp(S, A, B) ==
  /\ Cardinality(S) = Cardinality(A) + Cardinality(B) /\ IsFiniteSet(A) /\ IsFiniteSet(B)
  /\ Cardinality(S) \in Nat /\ Cardinality(A) \in Nat /\ Cardinality(B) \in Nat

LEMMA PartsCount ==
  ASSUME NEW S, IsFiniteSet(S), NEW A, NEW B, Splits(S, A, B)
  PROVE  CountsAddUp(S, A, B)
BY CountSplit DEF Splits, CountsAddUp
=============================================================================
