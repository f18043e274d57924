-------------------------------- MODULE Sums --------------------------------
(***************************************************************************)
(* Lemmas about MapThenSumSet, the sum over a finite set that the balance   *)
(* and the reports are stated with: it adds up in any order, so element by  *)
(* element and part by part.                                                *)
(*                                                                         *)
(* The operator folds in the order in which CHOOSE picks elements.  Total   *)
(* is the same fold of weights given as a function; the lemmas speak of it, *)
(* and FoldIsTotal carries them over.                                        *)
(***************************************************************************)
EXTENDS Integers, FiniteSetsExt, FiniteSetTheorems, TLAPS

Any(s) == CHOOSE x \in s : TRUE

Fold(f, w, S) ==
    [s \in SUBSET S |-> IF s = {} THEN 0 ELSE w[Any(s)] + f[s \ {Any(s)}]]

Folding(w, S) == CHOOSE f : f = Fold(f, w, S)

Total(w, S) == Folding(w, S)[S]

\* What holds of a set when it holds of its smaller parts holds of every finite
\* set.  The property is given as the set of those that have it.
LEMMA SubsetInduction ==
    ASSUME NEW S, IsFiniteSet(S), NEW Good,
           \A T \in SUBSET S :
               (\A U \in SUBSET T : U # T => U \in Good) => T \in Good
    PROVE  \A T \in SUBSET S : T \in Good
<1> DEFINE Bad == (SUBSET S) \ Good
<1> SUFFICES ASSUME Bad # {} PROVE FALSE
  OBVIOUS
<1> DEFINE R == StrictSubsetOrdering(S)
<1>1. IsWellFoundedOn(R, SUBSET S)
  <2>1. IsWellFoundedOn(R, FiniteSubsetsOf(S))
    BY FS_StrictSubsetOrderingWellFounded
  <2>2. FiniteSubsetsOf(S) = SUBSET S
    BY FS_FiniteSubsetsOfFinite
  <2> QED BY <2>1, <2>2
<1>2. PICK T \in Bad : \A U \in Bad : <<U, T>> \notin R
  <2> HIDE DEF R, Bad
  <2>1. Bad \subseteq SUBSET S
    BY DEF Bad
  <2> QED BY <1>1, <2>1, WFMin
<1>3. ASSUME NEW U \in SUBSET T, U # T PROVE U \in Good
  BY <1>2, <1>3 DEF StrictSubsetOrdering
<1> QED BY <1>2, <1>3

LEMMA AnyIsElement == \A s : s # {} => Any(s) \in s
BY DEF Any

\* Two folds agree on the parts they share.
LEMMA FoldsAgree ==
    ASSUME NEW w, NEW S, NEW T, NEW f, NEW g, f = Fold(f, w, S), g = Fold(g, w, T),
           NEW U, IsFiniteSet(U), U \subseteq S, U \subseteq T
    PROVE  f[U] = g[U]
<1> DEFINE Good == {s \in SUBSET U : f[s] = g[s]}
<1>1. ASSUME NEW s \in SUBSET U, \A r \in SUBSET s : r # s => r \in Good
      PROVE  s \in Good
  <2>1. /\ f[s] = IF s = {} THEN 0 ELSE w[Any(s)] + f[s \ {Any(s)}]
        /\ g[s] = IF s = {} THEN 0 ELSE w[Any(s)] + g[s \ {Any(s)}]
    BY DEF Fold
  <2>2. s # {} => f[s \ {Any(s)}] = g[s \ {Any(s)}]
    BY <1>1, AnyIsElement
  <2> QED BY <2>1, <2>2
<1>2. U \in Good
  <2> HIDE DEF Good
  <2> QED BY <1>1, SubsetInduction
<1> QED BY <1>2

LEMMA FoldExists ==
    ASSUME NEW w, NEW S, IsFiniteSet(S)
    PROVE  \A T \in SUBSET S : Folding(w, T) = Fold(Folding(w, T), w, T)
<1> DEFINE Good == {T \in SUBSET S : Folding(w, T) = Fold(Folding(w, T), w, T)}
<1>1. ASSUME NEW T \in SUBSET S, \A U \in SUBSET T : U # T => U \in Good
      PROVE  T \in Good
  <2> DEFINE f == [s \in SUBSET T |->
                     IF s = {} THEN 0 ELSE w[Any(s)] + Total(w, s \ {Any(s)})]
  <2>1. ASSUME NEW s \in SUBSET T, s # {}
        PROVE  f[s \ {Any(s)}] = Total(w, s \ {Any(s)})
    <3> DEFINE r == s \ {Any(s)}
               g == Folding(w, r)
    <3>1. r \in SUBSET T /\ r # T /\ IsFiniteSet(r)
      BY <2>1, AnyIsElement, FS_Subset
    <3>2. g = Fold(g, w, r)
      BY <1>1, <3>1
    <3>3. CASE r = {}
      BY <3>1, <3>2, <3>3 DEF Fold, Total
    <3>4. CASE r # {}
      <4> DEFINE q == r \ {Any(r)}
      <4>1. q \in SUBSET T /\ q # T /\ IsFiniteSet(q) /\ q \subseteq r
        BY <3>1, FS_Subset
      <4>2. Folding(w, q) = Fold(Folding(w, q), w, q)
        BY <1>1, <4>1
      <4>3. g[q] = Total(w, q)
        BY <3>2, <4>1, <4>2, FoldsAgree DEF Total
      <4>4. g[r] = w[Any(r)] + g[q]
        BY <3>2, <3>4 DEF Fold
      <4>5. f[r] = w[Any(r)] + Total(w, q)
        BY <3>1, <3>4
      <4> QED BY <4>3, <4>4, <4>5 DEF Total
    <3> QED BY <3>3, <3>4
  <2>2. f = Fold(f, w, T)
    BY <2>1 DEF Fold
  <2>3. \E h : h = Fold(h, w, T)
    BY <2>2
  <2> QED BY <2>3 DEF Folding
<1>2. \A T \in SUBSET S : T \in Good
  <2> HIDE DEF Good
  <2> QED BY <1>1, SubsetInduction
<1> QED BY <1>2

\* The sum is one element and the sum of the rest.
LEMMA TotalStep ==
    ASSUME NEW w, NEW S, IsFiniteSet(S)
    PROVE  /\ S = {} => Total(w, S) = 0
           /\ S # {} => Total(w, S) = w[Any(S)] + Total(w, S \ {Any(S)})
<1> DEFINE f == Folding(w, S)
<1>1. f = Fold(f, w, S)
  BY FoldExists
<1>2. CASE S = {}
  BY <1>1, <1>2 DEF Fold, Total
<1>3. CASE S # {}
  <2> DEFINE r == S \ {Any(S)}
  <2>1. f[S] = w[Any(S)] + f[r]
    BY <1>1, <1>3 DEF Fold
  <2>2. r \subseteq S /\ IsFiniteSet(r)
    BY FS_Subset
  <2>3. Folding(w, r) = Fold(Folding(w, r), w, r)
    BY <2>2, FoldExists
  <2>4. f[r] = Total(w, r)
    BY <1>1, <2>2, <2>3, FoldsAgree DEF Total
  <2> QED BY <1>3, <2>1, <2>4 DEF Total
<1> QED BY <1>2, <1>3

LEMMA TotalTyped ==
    ASSUME NEW w, NEW S, IsFiniteSet(S), \A x \in S : w[x] \in Int
    PROVE  Total(w, S) \in Int
<1> DEFINE Good == {T \in SUBSET S : Total(w, T) \in Int}
<1>1. ASSUME NEW T \in SUBSET S, \A U \in SUBSET T : U # T => U \in Good
      PROVE  T \in Good
  <2>1. IsFiniteSet(T)
    BY FS_Subset
  <2>2. CASE T = {}
    <3>1. Total(w, T) = 0
      BY <2>1, <2>2, TotalStep
    <3> QED BY <3>1
  <2>3. CASE T # {}
    <3>1. Any(T) \in T /\ T \ {Any(T)} \in Good
      BY <1>1, <2>3, AnyIsElement
    <3> QED BY <2>1, <2>3, <3>1, TotalStep
  <2> QED BY <2>2, <2>3
<1>2. \A T \in SUBSET S : T \in Good
  <2> HIDE DEF Good
  <2> QED BY <1>1, SubsetInduction
<1> QED BY <1>2

\* Any element may be taken first.
LEMMA TotalRemove ==
    ASSUME NEW w, NEW S, IsFiniteSet(S), \A x \in S : w[x] \in Int, NEW x \in S
    PROVE  Total(w, S) = w[x] + Total(w, S \ {x})
<1> DEFINE Good == {T \in SUBSET S : \A y \in T : Total(w, T) = w[y] + Total(w, T \ {y})}
<1>1. ASSUME NEW T \in SUBSET S, \A U \in SUBSET T : U # T => U \in Good
      PROVE  T \in Good
  <2> SUFFICES ASSUME NEW y \in T PROVE Total(w, T) = w[y] + Total(w, T \ {y})
    OBVIOUS
  <2> DEFINE a == Any(T)
  <2>1. IsFiniteSet(T) /\ IsFiniteSet(T \ {a}) /\ IsFiniteSet(T \ {y})
    BY FS_Subset
  <2>2. a \in T /\ Total(w, T) = w[a] + Total(w, T \ {a})
    BY <2>1, TotalStep, AnyIsElement
  <2>3. CASE a # y
    <3> DEFINE r == T \ {a, y}
    <3>1. T \ {a} \in Good /\ T \ {y} \in Good
      BY <1>1, <2>2
    <3>2. (T \ {a}) \ {y} = r /\ (T \ {y}) \ {a} = r
      OBVIOUS
    <3>3. /\ Total(w, T \ {a}) = w[y] + Total(w, r)
          /\ Total(w, T \ {y}) = w[a] + Total(w, r)
      BY <2>2, <2>3, <3>1, <3>2
    <3>4. /\ w[a] \in Int /\ w[y] \in Int
          /\ Total(w, r) \in Int
      <4>1. IsFiniteSet(r) /\ \A z \in r : w[z] \in Int
        BY FS_Subset
      <4> QED BY <4>1, <2>2, TotalTyped
    <3> QED BY <2>2, <3>3, <3>4
  <2> QED BY <2>2, <2>3
<1>2. \A T \in SUBSET S : T \in Good
  <2> HIDE DEF Good
  <2> QED BY <1>1, SubsetInduction
<1> QED BY <1>2

\* Equal weights, equal sums.
LEMMA TotalSame ==
    ASSUME NEW v, NEW w, NEW S, IsFiniteSet(S), \A x \in S : v[x] = w[x]
    PROVE  Total(v, S) = Total(w, S)
<1> DEFINE Good == {T \in SUBSET S : Total(v, T) = Total(w, T)}
<1>1. ASSUME NEW T \in SUBSET S, \A U \in SUBSET T : U # T => U \in Good
      PROVE  T \in Good
  <2>1. IsFiniteSet(T)
    BY FS_Subset
  <2>2. CASE T = {}
    BY <2>1, <2>2, TotalStep
  <2>3. CASE T # {}
    <3>1. Any(T) \in T /\ T \ {Any(T)} \in Good
      BY <1>1, <2>3, AnyIsElement
    <3> QED BY <2>1, <2>3, <3>1, TotalStep
  <2> QED BY <2>2, <2>3
<1>2. \A T \in SUBSET S : T \in Good
  <2> HIDE DEF Good
  <2> QED BY <1>1, SubsetInduction
<1> QED BY <1>2

\* The sum of sums is the sum over both; a negated sum is that of the negated.
LEMMA TotalPlus ==
    ASSUME NEW u, NEW v, NEW w, NEW S, IsFiniteSet(S),
           \A x \in S : v[x] \in Int /\ w[x] \in Int /\ u[x] = v[x] + w[x]
    PROVE  Total(u, S) = Total(v, S) + Total(w, S)
<1> DEFINE Good == {T \in SUBSET S : Total(u, T) = Total(v, T) + Total(w, T)}
<1>1. ASSUME NEW T \in SUBSET S, \A U \in SUBSET T : U # T => U \in Good
      PROVE  T \in Good
  <2>1. IsFiniteSet(T)
    BY FS_Subset
  <2>2. CASE T = {}
    <3>1. Total(u, T) = 0 /\ Total(v, T) = 0 /\ Total(w, T) = 0
      BY <2>1, <2>2, TotalStep
    <3> QED BY <3>1
  <2>3. CASE T # {}
    <3> DEFINE r == T \ {Any(T)}
    <3>1. Any(T) \in T /\ r \in Good
      BY <1>1, <2>3, AnyIsElement
    <3>2. IsFiniteSet(r)
      BY FS_Subset
    <3>3. Total(v, r) \in Int /\ Total(w, r) \in Int
      <4>1. \A x \in r : v[x] \in Int /\ w[x] \in Int
        OBVIOUS
      <4> QED BY <3>2, <4>1, TotalTyped
    <3>4. /\ Total(u, T) = u[Any(T)] + Total(u, r)
          /\ Total(v, T) = v[Any(T)] + Total(v, r)
          /\ Total(w, T) = w[Any(T)] + Total(w, r)
      BY <2>1, <2>3, TotalStep
    <3> QED BY <3>1, <3>3, <3>4
  <2> QED BY <2>2, <2>3
<1>2. \A T \in SUBSET S : T \in Good
  <2> HIDE DEF Good
  <2> QED BY <1>1, SubsetInduction
<1> QED BY <1>2

LEMMA TotalNegated ==
    ASSUME NEW v, NEW w, NEW S, IsFiniteSet(S),
           \A x \in S : w[x] \in Int /\ v[x] = -w[x]
    PROVE  Total(v, S) = -Total(w, S)
<1> DEFINE null == [x \in S |-> 0]
<1>1. PICK zero : \A x \in S : zero[x] = 0
  <2>1. \A x \in S : null[x] = 0
    OBVIOUS
  <2> QED BY <2>1
<1>2. Total(zero, S) = Total(v, S) + Total(w, S)
  <2>1. \A x \in S : v[x] \in Int /\ w[x] \in Int /\ zero[x] = v[x] + w[x]
    BY <1>1
  <2> QED BY <2>1, TotalPlus
<1>3. Total(zero, S) = Total(zero, S) + Total(zero, S)
  <2>1. \A x \in S : zero[x] \in Int /\ zero[x] \in Int /\ zero[x] = zero[x] + zero[x]
    BY <1>1
  <2> QED BY <2>1, TotalPlus
<1>4. Total(v, S) \in Int /\ Total(w, S) \in Int /\ Total(zero, S) \in Int
  <2>1. \A x \in S : v[x] \in Int /\ w[x] \in Int /\ zero[x] \in Int
    BY <1>1
  <2> QED BY <2>1, TotalTyped
<1>5. ASSUME NEW x \in Int, NEW y \in Int, NEW z \in Int, z = z + z, z = x + y
      PROVE  x = -y
  BY <1>5
<1> QED BY <1>2, <1>3, <1>4, <1>5

\* A part and the rest.
LEMMA TotalSplit ==
    ASSUME NEW w, NEW S, IsFiniteSet(S), \A x \in S : w[x] \in Int, NEW A, NEW B,
           A \cup B = S, A \cap B = {}
    PROVE  Total(w, S) = Total(w, A) + Total(w, B)
<1> DEFINE Good == {T \in SUBSET A : Total(w, T \cup B) = Total(w, T) + Total(w, B)}
<1>0. IsFiniteSet(A) /\ IsFiniteSet(B) /\ Total(w, B) \in Int
  <2>1. IsFiniteSet(A) /\ IsFiniteSet(B)
    BY FS_Subset
  <2>2. \A x \in B : w[x] \in Int
    OBVIOUS
  <2> QED BY <2>1, <2>2, TotalTyped
<1>1. ASSUME NEW T \in SUBSET A, \A U \in SUBSET T : U # T => U \in Good
      PROVE  T \in Good
  <2>1. IsFiniteSet(T) /\ IsFiniteSet(T \cup B)
    BY <1>0, FS_Subset, FS_Union
  <2>2. CASE T = {}
    <3>1. T \cup B = B /\ Total(w, T) = 0
      BY <2>1, <2>2, TotalStep
    <3> QED BY <1>0, <3>1
  <2>3. CASE T # {}
    <3> DEFINE a == Any(T)
               r == T \ {a}
    <3>1. a \in T /\ r \in Good
      BY <1>1, <2>3, AnyIsElement
    <3>2. (T \cup B) \ {a} = r \cup B
      BY <3>1
    <3>3. IsFiniteSet(r) /\ (\A x \in r : w[x] \in Int) /\ w[a] \in Int
      BY <2>1, <3>1, FS_Subset
    <3>4. Total(w, T) = w[a] + Total(w, r)
      BY <2>1, <2>3, TotalStep
    <3>5. Total(w, T \cup B) = w[a] + Total(w, r \cup B)
      <4>1. a \in T \cup B /\ \A x \in T \cup B : w[x] \in Int
        BY <3>1
      <4>2. Total(w, T \cup B) = w[a] + Total(w, (T \cup B) \ {a})
        BY <2>1, <4>1, TotalRemove
      <4> QED BY <3>2, <4>2
    <3>6. Total(w, r) \in Int
      BY <3>3, TotalTyped
    <3> QED BY <1>0, <3>1, <3>3, <3>4, <3>5, <3>6
  <2> QED BY <2>2, <2>3
<1>2. \A T \in SUBSET A : T \in Good
  <2> HIDE DEF Good
  <2> QED BY <1>0, <1>1, SubsetInduction
<1> QED BY <1>2

\* A sum is the sum over the parts: `parts` has a set per index, no two meet.
LEMMA TotalParts ==
    ASSUME NEW w, NEW D, IsFiniteSet(D), NEW parts,
           \A d \in D : IsFiniteSet(parts[d]),
           \A d, e \in D : d # e => parts[d] \cap parts[e] = {},
           \A d \in D : \A x \in parts[d] : w[x] \in Int
    PROVE  Total([d \in D |-> Total(w, parts[d])], D) = Total(w, UNION {parts[d] : d \in D})
<1> DEFINE v == [d \in D |-> Total(w, parts[d])]
           Joined(E) == UNION {parts[d] : d \in E}
           Good == {E \in SUBSET D : /\ IsFiniteSet(Joined(E))
                                     /\ Total(v, E) = Total(w, Joined(E))}
<1>0. \A d \in D : v[d] \in Int
  <2> SUFFICES ASSUME NEW d \in D PROVE Total(w, parts[d]) \in Int
    OBVIOUS
  <2> QED BY TotalTyped
<1>1. ASSUME NEW E \in SUBSET D, \A U \in SUBSET E : U # E => U \in Good
      PROVE  E \in Good
  <2>1. IsFiniteSet(E)
    BY FS_Subset
  <2>2. CASE E = {}
    <3>1. Joined(E) = {} /\ IsFiniteSet({})
      BY <2>2, FS_EmptySet
    <3>2. Total(v, E) = 0 /\ Total(w, {}) = 0
      BY <2>1, <2>2, <3>1, TotalStep
    <3> QED BY <3>1, <3>2
  <2>3. CASE E # {}
    <3> DEFINE a == Any(E)
               r == E \ {a}
    <3>1. a \in E /\ r \in Good
      BY <1>1, <2>3, AnyIsElement
    <3>2. Joined(E) = parts[a] \cup Joined(r) /\ parts[a] \cap Joined(r) = {}
      BY <3>1
    <3>3. IsFiniteSet(Joined(E))
      <4>1. IsFiniteSet(parts[a]) /\ IsFiniteSet(Joined(r))
        BY <3>1
      <4> DEFINE J == Joined(E)
                 A == parts[a]
                 B == Joined(r)
      <4>2. J = A \cup B /\ IsFiniteSet(A) /\ IsFiniteSet(B)
        BY <3>2, <4>1
      <4> HIDE DEF J, A, B
      <4>3. IsFiniteSet(J)
        BY <4>2, FS_Union
      <4> QED BY <4>3 DEF J
    <3>4. \A x \in Joined(E) : w[x] \in Int
      OBVIOUS
    <3>5. Total(w, Joined(E)) = Total(w, parts[a]) + Total(w, Joined(r))
      <4> DEFINE J == Joined(E)
                 A == parts[a]
                 B == Joined(r)
      <4>1. IsFiniteSet(J) /\ (\A x \in J : w[x] \in Int) /\ A \cup B = J /\ A \cap B = {}
        BY <3>2, <3>3, <3>4
      <4> HIDE DEF J, A, B
      <4>2. Total(w, J) = Total(w, A) + Total(w, B)
        BY <4>1, TotalSplit
      <4> QED BY <4>2 DEF J, A, B
    <3>6. Total(v, E) = v[a] + Total(v, r)
      BY <2>1, <2>3, TotalStep
    <3>7. v[a] = Total(w, parts[a])
      BY <3>1
    <3> QED BY <3>1, <3>3, <3>5, <3>6, <3>7
  <2> QED BY <2>2, <2>3
<1>2. \A E \in SUBSET D : E \in Good
  <2> HIDE DEF Good
  <2> QED BY <1>1, SubsetInduction
<1> QED BY <1>2

\* To count is to sum ones.
LEMMA TotalOnes ==
    ASSUME NEW w, NEW S, IsFiniteSet(S), \A x \in S : w[x] = 1
    PROVE  Total(w, S) = Cardinality(S)
<1> DEFINE Good == {T \in SUBSET S : Total(w, T) = Cardinality(T)}
<1>1. ASSUME NEW T \in SUBSET S, \A U \in SUBSET T : U # T => U \in Good
      PROVE  T \in Good
  <2>1. IsFiniteSet(T)
    BY FS_Subset
  <2>2. CASE T = {}
    <3>1. Total(w, T) = 0 /\ Cardinality(T) = 0
      BY <2>1, <2>2, TotalStep, FS_EmptySet
    <3> QED BY <3>1
  <2>3. CASE T # {}
    <3> DEFINE a == Any(T)
               r == T \ {a}
    <3>1. a \in T /\ r \in Good
      BY <1>1, <2>3, AnyIsElement
    <3>2. Cardinality(r) = Cardinality(T) - 1 /\ Cardinality(T) \in Nat
      BY <2>1, <3>1, FS_RemoveElement, FS_CardinalityType
    <3>3. Total(w, T) = 1 + Total(w, r)
      BY <2>1, <2>3, <3>1, TotalStep
    <3> QED BY <3>1, <3>2, <3>3
  <2> QED BY <2>2, <2>3
<1>2. \A T \in SUBSET S : T \in Good
  <2> HIDE DEF Good
  <2> QED BY <1>1, SubsetInduction
<1> QED BY <1>2

\* What is left to do for a sum given by an operator: any function that unfolds
\* like MapThenSumSet with these weights is the fold.
LEMMA FoldIsTotal ==
    ASSUME NEW w, NEW S, IsFiniteSet(S), NEW f, f = Fold(f, w, S)
    PROVE  f[S] = Total(w, S)
<1>1. Folding(w, S) = Fold(Folding(w, S), w, S)
  BY FoldExists
<1> QED BY <1>1, FoldsAgree DEF Total
=============================================================================
