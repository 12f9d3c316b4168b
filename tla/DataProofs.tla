----------------------------- MODULE DataProofs ----------------------------
(***************************************************************************)
(* Lemmas about the data the models are built from: the sums value is      *)
(* counted with (MapThenSumSet of a finite set), sequences whose elements  *)
(* have no set, and folds over a sequence (FoldLeft).  The library's       *)
(* induction theorems cannot be instantiated, so each induction is stated  *)
(* of a set of counterexamples, which would have a smallest element.       *)
(***************************************************************************)
EXTENDS Integers, SequencesExt, FiniteSetsExt, FiniteSetTheorems, SequenceTheorems, WellFoundedInduction, TLAPS

\* The sum of v[x] over the elements x of S.
Total(v, S) == MapThenSumSet(LAMBDA x : v[x], S)

\* The element a fold takes first.
Pick(s) == CHOOSE x \in s : TRUE

\* f is the recursive function by which the sum over S is computed.
SumFn(f, v, S) ==
    f = [s \in SUBSET S |-> IF s = {} THEN 0 ELSE v[Pick(s)] + f[s \ {Pick(s)}]]

\* v and w give the elements of S the same values.
SameOn(S, v, w) == \A x \in S : v[x] = w[x]

-----------------------------------------------------------------------------
\* A nonempty set of subsets of a finite set has a minimal element.
LEMMA MinimalSubset ==
    ASSUME NEW S, IsFiniteSet(S), NEW Bad, Bad \subseteq SUBSET S, Bad # {}
    PROVE  \E X \in Bad : \A Y \in Bad : Y \subseteq X => Y = X
<1>1. IsWellFoundedOn(StrictSubsetOrdering(S), SUBSET S)
  BY FS_StrictSubsetOrderingWellFounded, FS_FiniteSubsetsOfFinite
<1>2. \E X \in Bad : \A Y \in Bad : ~ (<<Y, X>> \in StrictSubsetOrdering(S))
  BY <1>1, WFMin
<1> QED BY <1>2 DEF StrictSubsetOrdering

\* A nonempty set has an element to take first.
LEMMA Picked == ASSUME NEW s, s # {} PROVE Pick(s) \in s
BY DEF Pick

\* What is computed over a set depends on the values of its elements only.
LEMMA SumFnAgree ==
    ASSUME NEW S, NEW T, NEW U, IsFiniteSet(U), U \subseteq S, U \subseteq T,
           NEW v, NEW w, SameOn(U, v, w),
           NEW f, NEW g, SumFn(f, v, S), SumFn(g, w, T)
    PROVE  f[U] = g[U]
<1> DEFINE Bad == {X \in SUBSET U : f[X] # g[X]}
<1> SUFFICES ASSUME Bad # {} PROVE FALSE
  OBVIOUS
<1>1. PICK X \in Bad : \A Y \in Bad : Y \subseteq X => Y = X
  <2> HIDE DEF Bad
  <2>1. Bad \subseteq SUBSET U
    BY DEF Bad
  <2> QED BY <2>1, MinimalSubset
<1>2. /\ f[X] = IF X = {} THEN 0 ELSE v[Pick(X)] + f[X \ {Pick(X)}]
      /\ g[X] = IF X = {} THEN 0 ELSE w[Pick(X)] + g[X \ {Pick(X)}]
  BY DEF SumFn
<1>3. X # {} /\ Pick(X) \in X
  BY <1>2, Picked
<1>4. f[X \ {Pick(X)}] = g[X \ {Pick(X)}]
  BY <1>1, <1>3
<1> QED BY <1>2, <1>3, <1>4 DEF SameOn

\* The recursion defines a function on the subsets of a finite set.
LEMMA SumFnExists ==
    ASSUME NEW S, IsFiniteSet(S), NEW v
    PROVE  \E f : SumFn(f, v, S)
<1> DEFINE Bad == {X \in SUBSET S : ~ \E f : SumFn(f, v, X)}
<1> SUFFICES ASSUME Bad # {} PROVE FALSE
  OBVIOUS
<1>1. PICK X \in Bad : \A Y \in Bad : Y \subseteq X => Y = X
  <2> HIDE DEF Bad
  <2>1. Bad \subseteq SUBSET S
    BY DEF Bad
  <2> QED BY <2>1, MinimalSubset
<1> DEFINE part == [U \in SUBSET X |-> CHOOSE f : SumFn(f, v, U)]
           F == [s \in SUBSET X |-> IF s = {} THEN 0
                                    ELSE v[Pick(s)] + part[s \ {Pick(s)}][s \ {Pick(s)}]]
<1>2. \A U \in SUBSET X : U # X => SumFn(part[U], v, U)
  <2> SUFFICES ASSUME NEW U \in SUBSET X, U # X PROVE SumFn(part[U], v, U)
    OBVIOUS
  <2>1. \E f : SumFn(f, v, U)
    BY <1>1
  <2>2. part[U] = CHOOSE f : SumFn(f, v, U)
    OBVIOUS
  <2> HIDE DEF part
  <2> QED BY <2>1, <2>2
<1> HIDE DEF part, Bad
<1>3. \A U \in SUBSET X : U # X => F[U] = part[U][U]
  <2> SUFFICES ASSUME NEW U \in SUBSET X, U # X PROVE F[U] = part[U][U]
    OBVIOUS
  <2>1. part[U][U] = IF U = {} THEN 0 ELSE v[Pick(U)] + part[U][U \ {Pick(U)}]
    BY <1>2 DEF SumFn
  <2>2. CASE U = {}
    BY <2>1, <2>2
  <2>3. CASE U # {}
    <3> DEFINE R == U \ {Pick(U)}
    <3>1. Pick(U) \in U
      BY <2>3, Picked
    <3>2. SumFn(part[U], v, U) /\ SumFn(part[R], v, R) /\ R \subseteq U
      BY <1>2, <3>1
    <3>3. IsFiniteSet(R)
      BY FS_Subset, <1>1 DEF Bad
    <3>4. part[U][R] = part[R][R]
      <4> HIDE DEF R
      <4> QED BY <3>2, <3>3, SumFnAgree DEF SameOn
    <3> QED BY <2>1, <2>3, <3>4
  <2> QED BY <2>2, <2>3
<1>4. \A s \in SUBSET X : s # {} =>
         s \ {Pick(s)} \in SUBSET X /\ s \ {Pick(s)} # X
  BY Picked
<1>5. \A s \in SUBSET X :
        F[s] = IF s = {} THEN 0 ELSE v[Pick(s)] + F[s \ {Pick(s)}]
  BY <1>3, <1>4
<1>6. SumFn(F, v, X)
  <2>1. F = [s \in SUBSET X |-> F[s]]
    OBVIOUS
  <2> HIDE DEF F
  <2> QED BY <1>5, <2>1 DEF SumFn
<1> QED BY <1>1, <1>6 DEF Bad

\* The library's fold is that function.
LEMMA TotalIsSumFn ==
    ASSUME NEW S, IsFiniteSet(S), NEW v
    PROVE  \E f : SumFn(f, v, S) /\ Total(v, S) = f[S]
<1> DEFINE F(f) == f = [s \in SUBSET S |->
                          IF s = {} THEN 0
                          ELSE v[CHOOSE x \in s : TRUE] + f[s \ {CHOOSE x \in s : TRUE}]]
<1>1. \E f : F(f)
  <2>1. PICK f : SumFn(f, v, S)
    BY SumFnExists
  <2>2. F(f)
    BY <2>1 DEF SumFn, Pick
  <2> HIDE DEF F
  <2> QED BY <2>2
<1>2. Total(v, S) = (CHOOSE f : F(f))[S]
  BY DEF Total, MapThenSumSet, MapThenFoldSet
<1>3. F(CHOOSE f : F(f))
  <2> HIDE DEF F
  <2> QED BY <1>1
<1>4. \A f : F(f) => SumFn(f, v, S)
  BY DEF SumFn, Pick
<1> HIDE DEF F
<1> QED BY <1>2, <1>3, <1>4

-----------------------------------------------------------------------------
\* Sums of the same values over the same set are equal.
LEMMA TotalAgree ==
    ASSUME NEW S, IsFiniteSet(S), NEW v, NEW w, SameOn(S, v, w)
    PROVE  Total(v, S) = Total(w, S)
<1>1. PICK f : SumFn(f, v, S) /\ Total(v, S) = f[S]
  BY TotalIsSumFn
<1>2. PICK g : SumFn(g, w, S) /\ Total(w, S) = g[S]
  BY TotalIsSumFn
<1>3. f[S] = g[S]
  BY <1>1, <1>2, SumFnAgree
<1> QED BY <1>1, <1>2, <1>3

\* The sum over nothing is 0.
LEMMA TotalEmpty == ASSUME NEW v PROVE Total(v, {}) = 0
<1>1. PICK f : SumFn(f, v, {}) /\ Total(v, {}) = f[{}]
  BY TotalIsSumFn, FS_EmptySet
<1> QED BY <1>1 DEF SumFn

\* One step of the fold.
LEMMA TotalPick ==
    ASSUME NEW S, IsFiniteSet(S), S # {}, NEW v
    PROVE  Total(v, S) = v[Pick(S)] + Total(v, S \ {Pick(S)})
<1> DEFINE R == S \ {Pick(S)}
<1>1. PICK f : SumFn(f, v, S) /\ Total(v, S) = f[S]
  BY TotalIsSumFn
<1>2. IsFiniteSet(R) /\ R \subseteq S
  BY FS_Subset
<1>3. PICK g : SumFn(g, v, R) /\ Total(v, R) = g[R]
  BY <1>2, TotalIsSumFn
<1>4. f[S] = v[Pick(S)] + f[R]
  BY <1>1 DEF SumFn
<1>5. f[R] = g[R]
  BY <1>1, <1>2, <1>3, SumFnAgree DEF SameOn
<1> QED BY <1>1, <1>3, <1>4, <1>5

\* A sum of numbers is a number.
LEMMA TotalNat ==
    ASSUME NEW S, IsFiniteSet(S), NEW v, \A x \in S : v[x] \in Nat
    PROVE  Total(v, S) \in Nat
<1> DEFINE Bad == {X \in SUBSET S : Total(v, X) \notin Nat}
<1> SUFFICES ASSUME Bad # {} PROVE FALSE
  OBVIOUS
<1>1. PICK X \in Bad : \A Y \in Bad : Y \subseteq X => Y = X
  <2> HIDE DEF Bad
  <2>1. Bad \subseteq SUBSET S
    BY DEF Bad
  <2> QED BY <2>1, MinimalSubset
<1>2. X # {} /\ IsFiniteSet(X)
  <2>1. Total(v, X) \notin Nat /\ X \in SUBSET S
    OBVIOUS
  <2>2. X # {}
    BY <2>1, TotalEmpty
  <2> QED BY <2>1, <2>2, FS_Subset
<1>3. Pick(X) \in X /\ Total(v, X) = v[Pick(X)] + Total(v, X \ {Pick(X)})
  BY <1>2, Picked, TotalPick
<1>4. Total(v, X \ {Pick(X)}) \in Nat
  BY <1>1, <1>3
<1> QED BY <1>3, <1>4

\* The order in which a sum of numbers is taken does not matter.
LEMMA TotalRemove ==
    ASSUME NEW S, IsFiniteSet(S), NEW v, \A x \in S : v[x] \in Nat, NEW x \in S
    PROVE  Total(v, S) = v[x] + Total(v, S \ {x})
<1> DEFINE Bad == {X \in SUBSET S : \E y \in X : Total(v, X) # v[y] + Total(v, X \ {y})}
<1> SUFFICES ASSUME Bad # {} PROVE FALSE
  OBVIOUS
<1>1. PICK X \in Bad : \A Y \in Bad : Y \subseteq X => Y = X
  <2> HIDE DEF Bad
  <2>1. Bad \subseteq SUBSET S
    BY DEF Bad
  <2> QED BY <2>1, MinimalSubset
<1>2. PICK y \in X : Total(v, X) # v[y] + Total(v, X \ {y})
  BY <1>1
<1>3. X \subseteq S
  OBVIOUS
<1> DEFINE c == Pick(X)
           R == X \ {c}
           Q == X \ {y}
<1>4. c \in X
  BY <1>2, Picked
<1>5. IsFiniteSet(X) /\ Total(v, X) = v[c] + Total(v, R)
  BY <1>2, <1>3, FS_Subset, TotalPick
<1>6. y # c
  BY <1>2, <1>5
<1>7. R \notin Bad /\ Q \notin Bad /\ R \subseteq S /\ Q \subseteq S
  BY <1>1, <1>2, <1>3, <1>4
<1>8. y \in R /\ c \in Q /\ R \ {y} = Q \ {c}
  BY <1>2, <1>4, <1>6
<1>9. Total(v, R) = v[y] + Total(v, R \ {y})
  BY <1>7, <1>8
<1>10. Total(v, Q) = v[c] + Total(v, Q \ {c})
  BY <1>7, <1>8
<1>11. Total(v, R \ {y}) \in Nat
  <2>1. IsFiniteSet(R \ {y})
    BY <1>7, FS_Subset
  <2> QED BY <1>7, <2>1, TotalNat
<1>12. v[c] \in Nat /\ v[y] \in Nat
  BY <1>2, <1>3, <1>4
<1> HIDE DEF c, R, Q
<1> QED BY <1>2, <1>5, <1>8, <1>9, <1>10, <1>11, <1>12 DEF Q

\* A new element adds its value.
LEMMA TotalAdd ==
    ASSUME NEW S, IsFiniteSet(S), NEW v, NEW x, x \notin S,
           \A y \in S \cup {x} : v[y] \in Nat
    PROVE  Total(v, S \cup {x}) = v[x] + Total(v, S)
<1>1. IsFiniteSet(S \cup {x})
  BY FS_AddElement
<1>2. (S \cup {x}) \ {x} = S
  OBVIOUS
<1> QED BY <1>1, <1>2, TotalRemove

\* The recursive function, wherever it comes from, computes the sum.
LEMMA SumFnTotal ==
    ASSUME NEW S, IsFiniteSet(S), NEW v, NEW f, SumFn(f, v, S)
    PROVE  f[S] = Total(v, S)
<1>1. PICK g : SumFn(g, v, S) /\ Total(v, S) = g[S]
  BY TotalIsSumFn
<1>2. f[S] = g[S]
  BY <1>1, SumFnAgree DEF SameOn
<1> QED BY <1>1, <1>2

\* Elements of value 0 may be left out.
LEMMA TotalZeros ==
    ASSUME NEW S, IsFiniteSet(S), NEW T, T \subseteq S,
           NEW v, \A x \in S : v[x] \in Nat, \A x \in S \ T : v[x] = 0
    PROVE  Total(v, S) = Total(v, T)
<1> DEFINE Bad == {X \in SUBSET S : Total(v, X) # Total(v, X \cap T)}
<1> SUFFICES ASSUME Bad # {} PROVE FALSE
  <2>1. S \cap T = T
    OBVIOUS
  <2> QED BY <2>1
<1>1. PICK X \in Bad : \A Y \in Bad : Y \subseteq X => Y = X
  <2> HIDE DEF Bad
  <2>1. Bad \subseteq SUBSET S
    BY DEF Bad
  <2> QED BY <2>1, MinimalSubset
<1>2. X \subseteq S /\ Total(v, X) # Total(v, X \cap T)
  OBVIOUS
<1>3. PICK x \in X : x \notin T
  <2>1. X # X \cap T
    BY <1>2
  <2> QED BY <2>1
<1> DEFINE R == X \ {x}
<1>4. IsFiniteSet(X) /\ IsFiniteSet(R) /\ R \subseteq S
  BY <1>2, FS_Subset
<1>5. Total(v, X) = 0 + Total(v, R)
  BY <1>2, <1>3, <1>4, TotalRemove
<1>6. Total(v, R) \in Nat
  <2> HIDE DEF R
  <2> QED BY <1>4, TotalNat
<1>7. Total(v, R) = Total(v, R \cap T) /\ R \cap T = X \cap T
  BY <1>1, <1>3, <1>4
<1> HIDE DEF R
<1> QED BY <1>2, <1>5, <1>6, <1>7

\* The sum over two disjoint sets.
LEMMA TotalUnion ==
    ASSUME NEW S, IsFiniteSet(S), NEW T, IsFiniteSet(T), S \cap T = {},
           NEW v, \A x \in S \cup T : v[x] \in Nat
    PROVE  Total(v, S \cup T) = Total(v, S) + Total(v, T)
<1> DEFINE Bad == {X \in SUBSET T : Total(v, S \cup X) # Total(v, S) + Total(v, X)}
<1> SUFFICES ASSUME Bad # {} PROVE FALSE
  OBVIOUS
<1>1. PICK X \in Bad : \A Y \in Bad : Y \subseteq X => Y = X
  <2> HIDE DEF Bad
  <2>1. Bad \subseteq SUBSET T
    BY DEF Bad
  <2> QED BY <2>1, MinimalSubset
<1>2. X \subseteq T /\ Total(v, S \cup X) # Total(v, S) + Total(v, X)
  OBVIOUS
<1>3. Total(v, S) \in Nat
  BY TotalNat
<1>4. PICK x \in X : TRUE
  <2>1. S \cup {} = S
    OBVIOUS
  <2> QED BY <1>2, <1>3, <2>1, TotalEmpty
<1> DEFINE R == X \ {x}
<1>5. IsFiniteSet(X) /\ IsFiniteSet(R) /\ IsFiniteSet(S \cup X) /\ R \subseteq T
  BY <1>2, FS_Subset, FS_Union
<1>6. Total(v, X) = v[x] + Total(v, R)
  BY <1>2, <1>5, TotalRemove
<1>7. Total(v, S \cup X) = v[x] + Total(v, S \cup R)
  <2>1. (S \cup X) \ {x} = S \cup R
    BY <1>2
  <2> QED BY <1>2, <1>5, <2>1, TotalRemove
<1>8. Total(v, S \cup R) = Total(v, S) + Total(v, R)
  BY <1>1, <1>5
<1>9. Total(v, R) \in Nat /\ v[x] \in Nat
  <2> HIDE DEF R
  <2> QED BY <1>2, <1>5, TotalNat
<1> HIDE DEF R
<1> QED BY <1>2, <1>3, <1>6, <1>7, <1>8, <1>9

\* The sum over the image of an injective function.
LEMMA TotalImage ==
    ASSUME NEW S, IsFiniteSet(S), NEW f, \A x, y \in S : f[x] = f[y] => x = y,
           NEW v, NEW w, \A x \in S : v[f[x]] = w[x] /\ w[x] \in Nat
    PROVE  /\ IsFiniteSet({f[x] : x \in S})
           /\ Total(v, {f[x] : x \in S}) = Total(w, S)
<1> DEFINE Im(X) == {f[x] : x \in X}
<1>1. IsFiniteSet(Im(S))
  <2>1. f \in Surjection(S, Im(S)) \/ [x \in S |-> f[x]] \in Surjection(S, Im(S))
    BY DEF Surjection
  <2> QED BY <2>1, FS_Surjection
<1> DEFINE Bad == {X \in SUBSET S : Total(v, Im(X)) # Total(w, X)}
<1> SUFFICES ASSUME Bad # {} PROVE FALSE
  BY <1>1
<1>2. PICK X \in Bad : \A Y \in Bad : Y \subseteq X => Y = X
  <2> HIDE DEF Bad
  <2>1. Bad \subseteq SUBSET S
    BY DEF Bad
  <2> QED BY <2>1, MinimalSubset
<1>3. X \subseteq S /\ Total(v, Im(X)) # Total(w, X)
  OBVIOUS
<1>4. PICK x \in X : TRUE
  <2>1. Im({}) = {}
    OBVIOUS
  <2> HIDE DEF Im
  <2> QED BY <1>3, <2>1, TotalEmpty
<1> DEFINE R == X \ {x}
<1>5. R \subseteq S /\ Im(X) \ {f[x]} = Im(R) /\ f[x] \in Im(X)
  BY <1>3
<1>6. Im(X) \subseteq Im(S) /\ \A y \in Im(X) : v[y] \in Nat
  BY <1>3
<1>7. IsFiniteSet(X) /\ IsFiniteSet(Im(X))
  <2> HIDE DEF Im
  <2> QED BY <1>1, <1>3, <1>6, FS_Subset
<1>8. Total(w, X) = w[x] + Total(w, R)
  BY <1>3, <1>7, TotalRemove
<1>9. Total(v, Im(X)) = v[f[x]] + Total(v, Im(R))
  <2> HIDE DEF Im, R
  <2> QED BY <1>5, <1>6, <1>7, TotalRemove
<1>10. Total(v, Im(R)) = Total(w, R)
  BY <1>2, <1>5
<1>11. v[f[x]] = w[x]
  BY <1>3
<1> HIDE DEF Im, R
<1> QED BY <1>3, <1>8, <1>9, <1>10, <1>11

\* Changing one value changes the sum by as much.
LEMMA TotalChange ==
    ASSUME NEW S, IsFiniteSet(S), NEW v, NEW w, NEW x \in S,
           \A y \in S : v[y] \in Nat /\ w[y] \in Nat, SameOn(S \ {x}, v, w)
    PROVE  /\ Total(v, S) \in Nat /\ Total(w, S) \in Nat
           /\ Total(w, S) = Total(v, S) - v[x] + w[x]
<1> DEFINE R == S \ {x}
<1>1. IsFiniteSet(R) /\ \A y \in R : v[y] \in Nat
  BY FS_Subset
<1>2. Total(v, S) = v[x] + Total(v, R) /\ Total(w, S) = w[x] + Total(w, R)
  BY TotalRemove
<1>3. Total(v, R) = Total(w, R)
  <2> HIDE DEF R
  <2> QED BY <1>1, TotalAgree DEF R
<1>4. Total(v, R) \in Nat
  <2> HIDE DEF R
  <2> QED BY <1>1, TotalNat
<1> HIDE DEF R
<1> QED BY <1>2, <1>3, <1>4

\* The sum over one element.
LEMMA TotalOne ==
    ASSUME NEW v, NEW x, v[x] \in Nat
    PROVE  Total(v, {x}) = v[x]
<1>1. Total(v, {} \cup {x}) = v[x] + Total(v, {})
  BY FS_EmptySet, TotalAdd
<1>2. {} \cup {x} = {x}
  OBVIOUS
<1> QED BY <1>1, <1>2, TotalEmpty

\* The sum over two elements.
LEMMA TotalTwo ==
    ASSUME NEW v, NEW x, NEW y, x # y, v[x] \in Nat, v[y] \in Nat
    PROVE  Total(v, {x, y}) = v[x] + v[y]
<1>1. Total(v, {x} \cup {y}) = v[y] + Total(v, {x})
  BY FS_Singleton, TotalAdd
<1>2. {x} \cup {y} = {x, y}
  OBVIOUS
<1> QED BY <1>1, <1>2, TotalOne

-----------------------------------------------------------------------------
\* f is the recursive function that applies step once for every element of S.
IterFn(f, base, step, S) ==
    f = [s \in SUBSET S |-> IF s = {} THEN base ELSE step[f[s \ {Pick(s)}]]]

\* How often step is applied does not depend on the set around.
LEMMA IterFnAgree ==
    ASSUME NEW S, NEW T, NEW U, IsFiniteSet(U), U \subseteq S, U \subseteq T,
           NEW base, NEW step, NEW f, NEW g, IterFn(f, base, step, S), IterFn(g, base, step, T)
    PROVE  f[U] = g[U]
<1> DEFINE Bad == {X \in SUBSET U : f[X] # g[X]}
<1> SUFFICES ASSUME Bad # {} PROVE FALSE
  OBVIOUS
<1>1. PICK X \in Bad : \A Y \in Bad : Y \subseteq X => Y = X
  <2> HIDE DEF Bad
  <2>1. Bad \subseteq SUBSET U
    BY DEF Bad
  <2> QED BY <2>1, MinimalSubset
<1>2. /\ f[X] = IF X = {} THEN base ELSE step[f[X \ {Pick(X)}]]
      /\ g[X] = IF X = {} THEN base ELSE step[g[X \ {Pick(X)}]]
  BY DEF IterFn
<1>3. X # {} /\ Pick(X) \in X
  BY <1>2, Picked
<1>4. f[X \ {Pick(X)}] = g[X \ {Pick(X)}]
  BY <1>1, <1>3
<1> QED BY <1>2, <1>3, <1>4

\* The recursion defines a function on the subsets of a finite set.
LEMMA IterFnExists ==
    ASSUME NEW S, IsFiniteSet(S), NEW base, NEW step
    PROVE  \E f : IterFn(f, base, step, S)
<1> DEFINE Bad == {X \in SUBSET S : ~ \E f : IterFn(f, base, step, X)}
<1> SUFFICES ASSUME Bad # {} PROVE FALSE
  OBVIOUS
<1>1. PICK X \in Bad : \A Y \in Bad : Y \subseteq X => Y = X
  <2> HIDE DEF Bad
  <2>1. Bad \subseteq SUBSET S
    BY DEF Bad
  <2> QED BY <2>1, MinimalSubset
<1> DEFINE part == [U \in SUBSET X |-> CHOOSE f : IterFn(f, base, step, U)]
           F == [s \in SUBSET X |-> IF s = {} THEN base
                                    ELSE step[part[s \ {Pick(s)}][s \ {Pick(s)}]]]
<1>2. \A U \in SUBSET X : U # X => IterFn(part[U], base, step, U)
  <2> SUFFICES ASSUME NEW U \in SUBSET X, U # X PROVE IterFn(part[U], base, step, U)
    OBVIOUS
  <2>1. \E f : IterFn(f, base, step, U)
    BY <1>1
  <2>2. part[U] = CHOOSE f : IterFn(f, base, step, U)
    OBVIOUS
  <2> HIDE DEF part
  <2> QED BY <2>1, <2>2
<1> HIDE DEF part, Bad
<1>3. \A U \in SUBSET X : U # X => F[U] = part[U][U]
  <2> SUFFICES ASSUME NEW U \in SUBSET X, U # X PROVE F[U] = part[U][U]
    OBVIOUS
  <2>1. part[U][U] = IF U = {} THEN base ELSE step[part[U][U \ {Pick(U)}]]
    BY <1>2, ZenonT(60) DEF IterFn
  <2>2. CASE U = {}
    BY <2>1, <2>2
  <2>3. CASE U # {}
    <3> DEFINE R == U \ {Pick(U)}
    <3>1. Pick(U) \in U
      BY <2>3, Picked
    <3>2. IterFn(part[U], base, step, U) /\ IterFn(part[R], base, step, R) /\ R \subseteq U
      BY <1>2, <3>1
    <3>3. IsFiniteSet(R)
      BY FS_Subset, <1>1 DEF Bad
    <3>4. part[U][R] = part[R][R]
      <4> HIDE DEF R
      <4> QED BY <3>2, <3>3, IterFnAgree
    <3> QED BY <2>1, <2>3, <3>4
  <2> QED BY <2>2, <2>3
<1>4. \A s \in SUBSET X : s # {} =>
         s \ {Pick(s)} \in SUBSET X /\ s \ {Pick(s)} # X
  BY Picked
<1>5. \A s \in SUBSET X :
        F[s] = IF s = {} THEN base ELSE step[F[s \ {Pick(s)}]]
  BY <1>3, <1>4
<1>6. IterFn(F, base, step, X)
  <2>1. F = [s \in SUBSET X |-> F[s]]
    OBVIOUS
  <2> HIDE DEF F
  <2> QED BY <1>5, <2>1 DEF IterFn
<1> QED BY <1>1, <1>6 DEF Bad

\* What step keeps inside a set stays there.
LEMMA IterFnStays ==
    ASSUME NEW S, IsFiniteSet(S), NEW R, NEW base \in R, NEW step \in [R -> R],
           NEW f, IterFn(f, base, step, S)
    PROVE  \A U \in SUBSET S : f[U] \in R
<1> DEFINE Bad == {X \in SUBSET S : f[X] \notin R}
<1> SUFFICES ASSUME Bad # {} PROVE FALSE
  OBVIOUS
<1>1. PICK X \in Bad : \A Y \in Bad : Y \subseteq X => Y = X
  <2> HIDE DEF Bad
  <2>1. Bad \subseteq SUBSET S
    BY DEF Bad
  <2> QED BY <2>1, MinimalSubset
<1>2. f[X] = IF X = {} THEN base ELSE step[f[X \ {Pick(X)}]]
  BY DEF IterFn
<1>3. X # {} /\ Pick(X) \in X
  BY <1>2, Picked
<1>4. f[X \ {Pick(X)}] \in R
  BY <1>1, <1>3
<1> QED BY <1>2, <1>3, <1>4

-----------------------------------------------------------------------------
(***************************************************************************)
(* Sequences whose elements have no set, and least and last numbers.       *)
(***************************************************************************)

IsSequence(s) == \E n \in Nat : s = [k \in 1 .. n |-> s[k]]

\* A sequence is one over the set of its elements.
LEMMA SequenceOf ==
    ASSUME NEW s, IsSequence(s)
    PROVE  s \in Seq({s[k] : k \in DOMAIN s})
<1>1. PICK n \in Nat : s = [k \in 1 .. n |-> s[k]]
  BY DEF IsSequence
<1>2. DOMAIN s = 1 .. n
  BY <1>1
<1> DEFINE S == {s[k] : k \in DOMAIN s}
<1>3. s \in [1 .. n -> S]
  BY <1>1, <1>2
<1> HIDE DEF S
<1> QED BY <1>3

\* A sequence over a set is a sequence.
LEMMA SeqIsSequence == ASSUME NEW S, NEW s \in Seq(S) PROVE IsSequence(s)
<1>1. s = [k \in 1 .. Len(s) |-> s[k]] /\ Len(s) \in Nat
  OBVIOUS
<1> QED BY <1>1 DEF IsSequence

\* Taking away the element at a position keeps the others.
LEMMA RemovedAt ==
    ASSUME NEW S, NEW s \in Seq(S), NEW i \in DOMAIN s
    PROVE  /\ RemoveAt(s, i) \in Seq(S) /\ Len(RemoveAt(s, i)) = Len(s) - 1
           /\ \A k \in DOMAIN s : k # i => \E j \in DOMAIN RemoveAt(s, i) : RemoveAt(s, i)[j] = s[k]
<1> DEFINE t == SubSeq(s, 1, i - 1)
           u == SubSeq(s, i + 1, Len(s))
<1>1. /\ Len(s) \in Nat /\ i \in 1 .. Len(s) /\ DOMAIN s = 1 .. Len(s)
  OBVIOUS
<1>2. /\ t \in Seq(S) /\ Len(t) = i - 1 /\ \A k \in 1 .. i - 1 : t[k] = s[k]
  BY <1>1
<1>3. /\ u \in Seq(S) /\ Len(u) = Len(s) - i /\ \A k \in 1 .. Len(s) - i : u[k] = s[k + i]
  BY <1>1
<1>4. RemoveAt(s, i) = t \o u
  BY DEF RemoveAt
<1> HIDE DEF t, u
<1> DEFINE r == t \o u
<1>5. /\ r \in Seq(S) /\ Len(r) = Len(s) - 1 /\ DOMAIN r = 1 .. Len(s) - 1
      /\ \A k \in 1 .. i - 1 : r[k] = s[k]
      /\ \A k \in i .. Len(s) - 1 : r[k] = s[k + 1]
  <2>1. /\ r \in Seq(S) /\ Len(r) = Len(t) + Len(u) /\ DOMAIN r = 1 .. Len(r)
        /\ \A k \in 1 .. Len(t) : r[k] = t[k]
        /\ \A k \in Len(t) + 1 .. Len(t) + Len(u) : r[k] = u[k - Len(t)]
    <3>1. t \in Seq(S) /\ u \in Seq(S)
      BY <1>2, <1>3
    <3> QED BY <3>1, ConcatProperties
  <2> HIDE DEF r
  <2>2. \A k \in i .. Len(s) - 1 : r[k] = s[k + 1]
    <3> SUFFICES ASSUME NEW k \in i .. Len(s) - 1 PROVE r[k] = s[k + 1]
      OBVIOUS
    <3>1. k \in Len(t) + 1 .. Len(t) + Len(u) /\ k - Len(t) = k - i + 1
      BY <1>1, <1>2, <1>3
    <3>2. u[k - i + 1] = s[k - i + 1 + i] /\ k - i + 1 + i = k + 1
      BY <1>1, <1>3
    <3> QED BY <2>1, <3>1, <3>2
  <2> QED BY <1>1, <1>2, <1>3, <2>1, <2>2
<1> HIDE DEF r
<1>6. \A k \in DOMAIN s : k # i => \E j \in DOMAIN r : r[j] = s[k]
  <2> SUFFICES ASSUME NEW k \in DOMAIN s, k # i PROVE \E j \in DOMAIN r : r[j] = s[k]
    OBVIOUS
  <2>1. CASE k < i
    <3>1. k \in 1 .. i - 1 /\ k \in DOMAIN r
      BY <1>1, <1>5, <2>1
    <3> QED BY <1>5, <3>1
  <2>2. CASE k > i
    <3>1. k - 1 \in i .. Len(s) - 1 /\ k - 1 \in DOMAIN r /\ k - 1 + 1 = k
      BY <1>1, <1>5, <2>2
    <3>2. r[k - 1] = s[k]
      BY <1>5, <3>1
    <3> QED BY <3>1, <3>2
  <2> QED BY <1>1, <2>1, <2>2
<1> QED BY <1>4, <1>5, <1>6 DEF r

\* Dropping the positions before one keeps those from it on.
LEMMA Dropped ==
    ASSUME NEW S, NEW s \in Seq(S), NEW i \in 1 .. Len(s) + 1
    PROVE  /\ SubSeq(s, i, Len(s)) \in Seq(S) /\ Len(SubSeq(s, i, Len(s))) =< Len(s)
           /\ \A k \in DOMAIN s : k >= i =>
                \E j \in DOMAIN SubSeq(s, i, Len(s)) : SubSeq(s, i, Len(s))[j] = s[k]
<1> DEFINE t == SubSeq(s, i, Len(s))
<1>1. Len(s) \in Nat /\ DOMAIN s = 1 .. Len(s)
  OBVIOUS
<1>2. /\ t \in Seq(S) /\ Len(t) = Len(s) - i + 1 /\ DOMAIN t = 1 .. Len(t)
      /\ \A j \in 1 .. Len(t) : t[j] = s[j + i - 1]
  BY <1>1
<1> HIDE DEF t
<1>3. \A k \in DOMAIN s : k >= i => \E j \in DOMAIN t : t[j] = s[k]
  <2> SUFFICES ASSUME NEW k \in DOMAIN s, k >= i PROVE \E j \in DOMAIN t : t[j] = s[k]
    OBVIOUS
  <2>1. k - i + 1 \in 1 .. Len(t) /\ k - i + 1 + i - 1 = k
    BY <1>1, <1>2
  <2>2. t[k - i + 1] = s[k]
    BY <1>2, <2>1
  <2> QED BY <1>2, <2>1, <2>2
<1> QED BY <1>1, <1>2, <1>3 DEF t

\* What is left after dropping the first k.
LEMMA Rest ==
    ASSUME NEW S, NEW s \in Seq(S), NEW k \in 0 .. Len(s)
    PROVE  /\ SubSeq(s, k + 1, Len(s)) \in Seq(S)
           /\ DOMAIN SubSeq(s, k + 1, Len(s)) = 1 .. Len(s) - k
           /\ \A j \in 1 .. Len(s) - k : j + k \in DOMAIN s /\ SubSeq(s, k + 1, Len(s))[j] = s[j + k]
<1> DEFINE i == k + 1
           t == SubSeq(s, i, Len(s))
<1>1. Len(s) \in Nat /\ DOMAIN s = 1 .. Len(s) /\ i \in 1 .. Len(s) + 1 /\ i - 1 = k
  OBVIOUS
<1> HIDE DEF i
<1>2. /\ t \in Seq(S) /\ Len(t) = Len(s) - i + 1 /\ DOMAIN t = 1 .. Len(t)
      /\ \A j \in 1 .. Len(t) : t[j] = s[j + i - 1]
  BY <1>1
<1> HIDE DEF t
<1>3. Len(t) = Len(s) - k /\ \A j \in Nat : j + i - 1 = j + k
  BY <1>1, <1>2
<1>4. \A j \in 1 .. Len(s) - k : j + k \in DOMAIN s /\ t[j] = s[j + k]
  BY <1>1, <1>2, <1>3
<1> QED BY <1>2, <1>3, <1>4 DEF t, i

\* Appending keeps what is there and adds one.
LEMMA Appended ==
    ASSUME NEW s, IsSequence(s), NEW e
    PROVE  /\ IsSequence(Append(s, e))
           /\ Len(s) \in Nat /\ DOMAIN s = 1 .. Len(s)
           /\ DOMAIN Append(s, e) = 1 .. Len(s) + 1
           /\ \A k \in DOMAIN s : Append(s, e)[k] = s[k]
           /\ Append(s, e)[Len(s) + 1] = e
           /\ \A k \in DOMAIN Append(s, e) :
                Append(s, e)[k] = e \/ (k \in DOMAIN s /\ Append(s, e)[k] = s[k])
<1> DEFINE S == {s[k] : k \in DOMAIN s} \cup {e}
           t == Append(s, e)
<1>1. s \in Seq(S) /\ e \in S
  <2>1. s \in Seq({s[k] : k \in DOMAIN s})
    BY SequenceOf
  <2>2. \A A, B : A \subseteq B => Seq(A) \subseteq Seq(B)
    OBVIOUS
  <2>3. {s[k] : k \in DOMAIN s} \subseteq S
    OBVIOUS
  <2> HIDE DEF S
  <2>4. Seq({s[k] : k \in DOMAIN s}) \subseteq Seq(S)
    BY <2>2, <2>3
  <2> QED BY <2>1, <2>4 DEF S
<1> HIDE DEF S
<1>2. t \in Seq(S) /\ Len(t) = Len(s) + 1 /\ Len(s) \in Nat
  BY <1>1
<1>3. /\ DOMAIN s = 1 .. Len(s) /\ DOMAIN t = 1 .. Len(s) + 1
      /\ \A k \in 1 .. Len(s) : t[k] = s[k]
      /\ t[Len(s) + 1] = e
  BY <1>1, <1>2
<1>4. t = [k \in 1 .. Len(s) + 1 |-> t[k]]
  <2> HIDE DEF t
  <2>1. t \in [1 .. Len(t) -> S]
    BY <1>2
  <2> QED BY <1>2, <2>1
<1>5. IsSequence(t)
  <2> HIDE DEF t
  <2> QED BY <1>2, <1>4 DEF IsSequence
<1>6. \A k \in DOMAIN t : k \in DOMAIN s \/ k = Len(s) + 1
  <2> HIDE DEF t
  <2> QED BY <1>2, <1>3
<1>7. \A k \in DOMAIN t : t[k] = e \/ (k \in DOMAIN s /\ t[k] = s[k])
  <2> HIDE DEF t
  <2> QED BY <1>3, <1>6
<1> QED BY <1>2, <1>3, <1>5, <1>7

\* Two sequences one after the other hold the elements of both.
LEMMA Concatenated ==
    ASSUME NEW s, IsSequence(s), NEW t, IsSequence(t)
    PROVE  /\ IsSequence(s \o t)
           /\ Len(s) \in Nat /\ DOMAIN s = 1 .. Len(s)
           /\ \A k \in DOMAIN (s \o t) :
                \/ k \in DOMAIN s /\ (s \o t)[k] = s[k]
                \/ k - Len(s) \in DOMAIN t /\ k \in Int /\ (s \o t)[k] = t[k - Len(s)]
           /\ \A k \in DOMAIN s : k \in DOMAIN (s \o t) /\ (s \o t)[k] = s[k]
           /\ \A k \in DOMAIN t : Len(s) + k \in DOMAIN (s \o t) /\ (s \o t)[Len(s) + k] = t[k]
<1> DEFINE S == {s[k] : k \in DOMAIN s} \cup {t[k] : k \in DOMAIN t}
<1>1. s \in Seq(S) /\ t \in Seq(S)
  <2>1. s \in Seq({s[k] : k \in DOMAIN s}) /\ t \in Seq({t[k] : k \in DOMAIN t})
    BY SequenceOf
  <2>2. \A A, B : A \subseteq B => Seq(A) \subseteq Seq(B)
    OBVIOUS
  <2>3. {s[k] : k \in DOMAIN s} \subseteq S /\ {t[k] : k \in DOMAIN t} \subseteq S
    OBVIOUS
  <2> HIDE DEF S
  <2>4. Seq({s[k] : k \in DOMAIN s}) \subseteq Seq(S) /\ Seq({t[k] : k \in DOMAIN t}) \subseteq Seq(S)
    BY <2>2, <2>3
  <2> QED BY <2>1, <2>4
<1> HIDE DEF S
<1>2. s \o t \in Seq(S)
  BY <1>1
<1>3. IsSequence(s \o t)
  BY <1>2, SeqIsSequence
<1>4. /\ Len(s) \in Nat /\ DOMAIN s = 1 .. Len(s) /\ Len(t) \in Nat /\ DOMAIN t = 1 .. Len(t)
      /\ DOMAIN (s \o t) = 1 .. Len(s) + Len(t)
  BY <1>1
<1>5. \A k \in 1 .. Len(s) + Len(t) : (s \o t)[k] = IF k =< Len(s) THEN s[k] ELSE t[k - Len(s)]
  BY <1>1
<1> QED BY <1>3, <1>4, <1>5

\* Replacing an element leaves the others.
LEMMA Replaced ==
    ASSUME NEW s, IsSequence(s), NEW h \in DOMAIN s, NEW e
    PROVE  /\ IsSequence([s EXCEPT ![h] = e])
           /\ DOMAIN [s EXCEPT ![h] = e] = DOMAIN s
           /\ [s EXCEPT ![h] = e][h] = e
           /\ \A k \in DOMAIN s : k # h => [s EXCEPT ![h] = e][k] = s[k]
<1>1. PICK n \in Nat : s = [k \in 1 .. n |-> s[k]]
  BY DEF IsSequence
<1> DEFINE t == [s EXCEPT ![h] = e]
<1>2. DOMAIN t = 1 .. n /\ t = [k \in 1 .. n |-> t[k]]
  BY <1>1
<1>3. IsSequence(t)
  <2> HIDE DEF t
  <2> QED BY <1>2 DEF IsSequence
<1> QED BY <1>3

\* The empty sequence is one.
LEMMA EmptySequence == IsSequence(<< >>)
<1>1. << >> = [k \in 1 .. 0 |-> << >>[k]]
  OBVIOUS
<1> QED BY <1>1 DEF IsSequence

\* A nonempty set of numbers has a least element, which Min is.
LEMMA LeastIsMin ==
    ASSUME NEW S, S \subseteq Nat, S # {}
    PROVE  Min(S) \in S /\ \A m \in S : Min(S) =< m
<1>1. \E n \in S : \A m \in S : ~ (<<m, n>> \in OpToRel(<, Nat))
  BY NatLessThanWellFounded, WFMin
<1>2. PICK n \in S : \A m \in S : ~ (m < n)
  BY <1>1 DEF OpToRel
<1>3. \A m \in S : n =< m
  BY <1>2
<1> QED BY <1>3 DEF Min

\* A finite set of positions has a last one, which Max is.
LEMMA LastIsMax ==
    ASSUME NEW n \in Nat, NEW S, S \subseteq 1 .. n, S # {}
    PROVE  Max(S) \in S
<1> DEFINE T == {n - x : x \in S}
<1>1. T \subseteq Nat /\ T # {}
  <2>1. \A x \in S : n - x \in Nat
    OBVIOUS
  <2>2. PICK x \in S : TRUE
    OBVIOUS
  <2>3. n - x \in T
    OBVIOUS
  <2> QED BY <2>1, <2>3
<1> HIDE DEF T
<1>2. \E k \in T : \A m \in T : ~ (<<m, k>> \in OpToRel(<, Nat))
  BY <1>1, NatLessThanWellFounded, WFMin
<1>3. PICK k \in T : \A m \in T : ~ (m < k)
  BY <1>1, <1>2 DEF OpToRel
<1>4. PICK x \in S : k = n - x
  BY DEF T
<1>5. \A y \in S : x >= y
  <2> SUFFICES ASSUME NEW y \in S PROVE x >= y
    OBVIOUS
  <2>1. n - y \in T
    BY DEF T
  <2> QED BY <1>3, <1>4, <2>1
<1> QED BY <1>5 DEF Max

\* A finite set of numbers that is not empty has a greatest element, which Max is.
LEMMA FiniteMax ==
    ASSUME NEW S, IsFiniteSet(S), S \subseteq Int, S # {}
    PROVE  Max(S) \in S /\ \A y \in S : Max(S) >= y
<1> DEFINE Bad == {X \in SUBSET S : X # {} /\ ~ \E x \in X : \A y \in X : x >= y}
<1> SUFFICES ASSUME Bad # {} PROVE FALSE
  <2>1. \E x \in S : \A y \in S : x >= y
    OBVIOUS
  <2> QED BY <2>1 DEF Max
<1>1. PICK X \in Bad : \A Y \in Bad : Y \subseteq X => Y = X
  <2> HIDE DEF Bad
  <2>1. Bad \subseteq SUBSET S
    BY DEF Bad
  <2> QED BY ONLY IsFiniteSet(S), Bad # {}, <2>1, MinimalSubset
<1>2. PICK e \in X : TRUE
  OBVIOUS
<1>3. X \ {e} \notin Bad /\ X \subseteq Int
  BY <1>1, <1>2
<1>4. CASE X = {e}
  BY <1>3, <1>4
<1>5. CASE X # {e}
  <2>1. PICK m \in X \ {e} : \A y \in X \ {e} : m >= y
    BY <1>2, <1>3, <1>5
  <2>2. m \in Int /\ e \in Int
    BY <1>3
  <2>3. CASE m >= e
    BY <2>1, <2>3
  <2>4. CASE e >= m
    <3>1. \A y \in X : e >= y
      BY <1>3, <2>1, <2>2, <2>4
    <3> QED BY <1>2, <3>1
  <2> QED BY <2>2, <2>3, <2>4
<1> QED BY <1>4, <1>5

-----------------------------------------------------------------------------
(***************************************************************************)
(* Folds: take[s] is the element of s that is folded last.                 *)
(***************************************************************************)

Takes(take, S) == \A s \in SUBSET S : s # {} => take[s] \in s

\* f is the recursive function by which steps are folded onto a base over S.
FoldFn(f, base, step, take, S) ==
    f = [s \in SUBSET S |-> IF s = {} THEN base ELSE step[<<take[s], f[s \ {take[s]}]>>]]

\* Two such functions agree on the sets both are defined of.
LEMMA FoldFnAgree ==
    ASSUME NEW S, NEW T, NEW U, IsFiniteSet(U), U \subseteq S, U \subseteq T,
           NEW take, Takes(take, U), NEW base, NEW step,
           NEW f, NEW g, FoldFn(f, base, step, take, S), FoldFn(g, base, step, take, T)
    PROVE  f[U] = g[U]
<1> DEFINE Bad == {X \in SUBSET U : f[X] # g[X]}
<1> SUFFICES ASSUME Bad # {} PROVE FALSE
  OBVIOUS
<1>1. PICK X \in Bad : \A Y \in Bad : Y \subseteq X => Y = X
  <2> HIDE DEF Bad
  <2>1. Bad \subseteq SUBSET U
    BY DEF Bad
  <2> QED BY <2>1, MinimalSubset
<1>2. /\ f[X] = IF X = {} THEN base ELSE step[<<take[X], f[X \ {take[X]}]>>]
      /\ g[X] = IF X = {} THEN base ELSE step[<<take[X], g[X \ {take[X]}]>>]
  BY DEF FoldFn
<1>3. X # {} /\ take[X] \in X
  BY <1>2 DEF Takes
<1>4. f[X \ {take[X]}] = g[X \ {take[X]}]
  BY <1>1, <1>3
<1> QED BY <1>2, <1>3, <1>4

\* The recursion defines a function.
LEMMA FoldFnExists ==
    ASSUME NEW S, IsFiniteSet(S), NEW take, Takes(take, S), NEW base, NEW step
    PROVE  \E f : FoldFn(f, base, step, take, S)
<1> DEFINE Bad == {X \in SUBSET S : ~ \E f : FoldFn(f, base, step, take, X)}
<1> SUFFICES ASSUME Bad # {} PROVE FALSE
  OBVIOUS
<1>1. PICK X \in Bad : \A Y \in Bad : Y \subseteq X => Y = X
  <2> HIDE DEF Bad
  <2>1. Bad \subseteq SUBSET S
    BY DEF Bad
  <2> QED BY <2>1, MinimalSubset
<1> DEFINE part == [U \in SUBSET X |-> CHOOSE f : FoldFn(f, base, step, take, U)]
           F == [s \in SUBSET X |->
                   IF s = {} THEN base
                   ELSE step[<<take[s], part[s \ {take[s]}][s \ {take[s]}]>>]]
<1>2. \A U \in SUBSET X : U # X => FoldFn(part[U], base, step, take, U)
  <2> SUFFICES ASSUME NEW U \in SUBSET X, U # X PROVE FoldFn(part[U], base, step, take, U)
    OBVIOUS
  <2>1. \E f : FoldFn(f, base, step, take, U)
    BY <1>1
  <2>2. part[U] = CHOOSE f : FoldFn(f, base, step, take, U)
    OBVIOUS
  <2> HIDE DEF part
  <2> QED BY <2>1, <2>2
<1>3. X \subseteq S /\ IsFiniteSet(X)
  BY FS_Subset
<1> HIDE DEF part, Bad
<1>4. \A s \in SUBSET X : s # {} => take[s] \in s /\ s \ {take[s]} \in SUBSET X /\ s \ {take[s]} # X
  BY <1>3 DEF Takes
<1>5. \A U \in SUBSET X : U # X => F[U] = part[U][U]
  <2> SUFFICES ASSUME NEW U \in SUBSET X, U # X PROVE F[U] = part[U][U]
    OBVIOUS
  <2>1. part[U][U] = IF U = {} THEN base ELSE step[<<take[U], part[U][U \ {take[U]}]>>]
    BY <1>2 DEF FoldFn
  <2>2. CASE U = {}
    BY <2>1, <2>2
  <2>3. CASE U # {}
    <3> DEFINE R == U \ {take[U]}
    <3>1. take[U] \in U
      BY <1>4, <2>3
    <3>2. FoldFn(part[U], base, step, take, U) /\ FoldFn(part[R], base, step, take, R) /\ R \subseteq U
      BY <1>2, <3>1
    <3>3. IsFiniteSet(R) /\ Takes(take, R)
      <4>1. R \subseteq X /\ R \subseteq S
        BY <1>3
      <4> HIDE DEF R
      <4> QED BY <1>3, <4>1, FS_Subset DEF Takes
    <3>4. part[U][R] = part[R][R]
      <4> HIDE DEF R
      <4> QED BY <3>2, <3>3, FoldFnAgree
    <3> QED BY <2>1, <2>3, <3>4
  <2> QED BY <2>2, <2>3
<1>6. \A s \in SUBSET X :
        F[s] = IF s = {} THEN base ELSE step[<<take[s], F[s \ {take[s]}]>>]
  BY <1>4, <1>5
<1>7. FoldFn(F, base, step, take, X)
  <2>1. F = [s \in SUBSET X |-> F[s]]
    OBVIOUS
  <2> HIDE DEF F
  <2> QED BY <1>6, <2>1 DEF FoldFn
<1> QED BY <1>1, <1>7 DEF Bad

\* What holds of the base and is kept by each step holds of the whole.
LEMMA FoldKeeps ==
    ASSUME NEW S, IsFiniteSet(S), NEW take, Takes(take, S), NEW Good, NEW f,
           f[{}] \in Good,
           \A s \in SUBSET S : s # {} /\ f[s \ {take[s]}] \in Good => f[s] \in Good
    PROVE  f[S] \in Good
<1> DEFINE Bad == {X \in SUBSET S : f[X] \notin Good}
<1> SUFFICES ASSUME Bad # {} PROVE FALSE
  OBVIOUS
<1>1. PICK X \in Bad : \A Y \in Bad : Y \subseteq X => Y = X
  <2> HIDE DEF Bad
  <2>1. Bad \subseteq SUBSET S
    BY DEF Bad
  <2> QED BY <2>1, MinimalSubset
<1>2. X # {} /\ X \subseteq S
  OBVIOUS
<1>3. take[X] \in X
  BY <1>2 DEF Takes
<1>4. f[X \ {take[X]}] \in Good
  BY <1>1, <1>3
<1> QED BY <1>2, <1>4

\* The positions of a sequence are finitely many, and Max takes one.
LEMMA Positions ==
    ASSUME NEW n \in Nat
    PROVE  IsFiniteSet(1 .. n) /\ Takes([s \in SUBSET (1 .. n) |-> Max(s)], 1 .. n)
<1>1. 1 \in Int /\ n \in Int
  OBVIOUS
<1>2. \A s \in SUBSET (1 .. n) : s # {} => Max(s) \in s
  BY LastIsMax
<1> QED BY <1>1, <1>2, FS_Interval DEF Takes

\* f folds step onto base, over the positions of seq, and stays inside W.
FoldsTo(f, step, base, seq, W) ==
    /\ f = [s \in SUBSET (1 .. Len(seq)) |-> f[s]]
    /\ \A s \in SUBSET (1 .. Len(seq)) :
         /\ f[s] \in W
         /\ s = {} => f[s] = base
         /\ s # {} => /\ Max(s) \in s /\ s \ {Max(s)} \in SUBSET (1 .. Len(seq))
                      /\ f[s] = step[<<seq[Max(s)], f[s \ {Max(s)}]>>]

\* A step that stays inside W can be folded.
LEMMA FoldOver ==
    ASSUME NEW L, NEW seq \in Seq(L), NEW W, NEW base \in W, NEW step \in [L \X W -> W]
    PROVE  \E f : FoldsTo(f, step, base, seq, W)
<1> DEFINE n == Len(seq)
           P == 1 .. n
           take == [s \in SUBSET P |-> Max(s)]
           step2 == [xr \in P \X W |-> step[<<seq[xr[1]], xr[2]>>]]
<1>1. n \in Nat /\ \A k \in P : seq[k] \in L
  OBVIOUS
<1> HIDE DEF n
<1>2. IsFiniteSet(P) /\ Takes(take, P)
  BY <1>1, Positions
<1>3. \A s \in SUBSET P : s # {} => take[s] = Max(s) /\ take[s] \in s /\ take[s] \in P
  BY <1>2 DEF Takes
<1>4. \A s \in SUBSET P : IsFiniteSet(s) /\ Takes(take, s)
  BY <1>2, FS_Subset DEF Takes
<1>5. \A x \in P, w \in W : step2[<<x, w>>] = step[<<seq[x], w>>] /\ step2[<<x, w>>] \in W
  <2> SUFFICES ASSUME NEW x \in P, NEW w \in W
               PROVE  step2[<<x, w>>] = step[<<seq[x], w>>] /\ step2[<<x, w>>] \in W
    OBVIOUS
  <2>1. <<x, w>> \in P \X W /\ <<seq[x], w>> \in L \X W
    BY <1>1
  <2> HIDE DEF P
  <2> QED BY <2>1
<1>6. PICK f : FoldFn(f, base, step2, take, P)
  <2> HIDE DEF P, take, step2
  <2> QED BY <1>2, FoldFnExists
<1> HIDE DEF P, take, step2
<1>7. /\ f = [s \in SUBSET P |-> f[s]]
      /\ \A s \in SUBSET P : f[s] = IF s = {} THEN base ELSE step2[<<take[s], f[s \ {take[s]}]>>]
  BY <1>6 DEF FoldFn
<1>8. \A s \in SUBSET P : f[s] \in W
  <2> SUFFICES ASSUME NEW S \in SUBSET P PROVE f[S] \in W
    OBVIOUS
  <2>1. f[{}] \in W
    BY <1>7
  <2>2. \A s \in SUBSET S : s # {} /\ f[s \ {take[s]}] \in W => f[s] \in W
    BY <1>3, <1>5, <1>7
  <2> QED BY <1>4, <2>1, <2>2, FoldKeeps
<1>9. \A s \in SUBSET P : s # {} =>
        /\ Max(s) \in s /\ s \ {Max(s)} \in SUBSET P
        /\ f[s] = step[<<seq[Max(s)], f[s \ {Max(s)}]>>]
  <2> SUFFICES ASSUME NEW s \in SUBSET P, s # {}
               PROVE  /\ Max(s) \in s /\ s \ {Max(s)} \in SUBSET P
                      /\ f[s] = step[<<seq[Max(s)], f[s \ {Max(s)}]>>]
    OBVIOUS
  <2>1. Max(s) \in s /\ s \ {Max(s)} \in SUBSET P /\ Max(s) \in P /\ take[s] = Max(s)
    BY <1>3
  <2>2. f[s] = step2[<<Max(s), f[s \ {Max(s)}]>>] /\ f[s \ {Max(s)}] \in W
    BY <1>7, <1>8, <2>1
  <2> QED BY <1>5, <2>1, <2>2
<1>10. \A s \in SUBSET P : s = {} => f[s] = base
  BY <1>7
<1>11. FoldsTo(f, step, base, seq, W)
  BY <1>7, <1>8, <1>9, <1>10 DEF P, n, FoldsTo
<1> QED BY <1>11

\* What holds at the start and is kept by each element holds at the end.
LEMMA FoldHolds ==
    ASSUME NEW n \in Nat, NEW g, NEW Good, g[{}] \in Good,
           \A s \in SUBSET (1 .. n) : s # {} /\ Max(s) \in s /\ g[s \ {Max(s)}] \in Good => g[s] \in Good
    PROVE  g[1 .. n] \in Good
<1> DEFINE P == 1 .. n
           take == [s \in SUBSET P |-> Max(s)]
<1>1. IsFiniteSet(P) /\ Takes(take, P)
  BY Positions
<1>2. \A s \in SUBSET P : s # {} => take[s] = Max(s) /\ take[s] \in s
  BY <1>1 DEF Takes
<1>3. \A s \in SUBSET P : s # {} /\ g[s \ {take[s]}] \in Good => g[s] \in Good
  <2> HIDE DEF take
  <2> QED BY <1>2
<1> HIDE DEF take, P
<1>4. g[P] \in Good
  BY <1>1, <1>3, FoldKeeps
<1> QED BY <1>4 DEF P

\* A set of sets of positions that holds the empty one, and with every set the
\* one that has a last position more, holds them all.
LEMMA RoundInduction ==
    ASSUME NEW n \in Nat, NEW Good, {} \in Good,
           \A s \in SUBSET (1 .. n) : s # {} /\ Max(s) \in s /\ s \ {Max(s)} \in Good => s \in Good
    PROVE  1 .. n \in Good
<1> DEFINE g == [s \in SUBSET (1 .. n) |-> s]
<1>1. g[{}] \in Good
  OBVIOUS
<1>2. \A s \in SUBSET (1 .. n) : s # {} /\ Max(s) \in s /\ g[s \ {Max(s)}] \in Good => g[s] \in Good
  OBVIOUS
<1>3. g[1 .. n] = 1 .. n
  OBVIOUS
<1> HIDE DEF g
<1> QED BY <1>1, <1>2, <1>3, FoldHolds

-----------------------------------------------------------------------------
(***************************************************************************)
(* Quotients                                                               *)
(***************************************************************************)

\* Quotients are what the remainder leaves.
LEMMA Quotient ==
    ASSUME NEW d \in Nat \ {0}, NEW n \in Nat, NEW q \in Nat, NEW r \in Nat,
           n = q * d + r, r < d
    PROVE  n \div d = q
<1> DEFINE p == n \div d
           s == n % d
<1>1. p \in Nat /\ s \in Nat /\ s < d /\ n = d * p + s
  OBVIOUS
<1> HIDE DEF p, s
<1>2. \A x, y \in Nat : x < y => y * d >= x * d + d
  <2> SUFFICES ASSUME NEW x \in Nat, NEW y \in Nat, x < y PROVE y * d >= x * d + d
    OBVIOUS
  <2>1. PICK z \in Nat : y = x + 1 + z
    <3>1. y - x - 1 \in Nat /\ y = x + 1 + (y - x - 1)
      OBVIOUS
    <3> QED BY <3>1
  <2>2. y * d = x * d + d + z * d /\ z * d \in Nat /\ x * d \in Nat
    BY <2>1
  <2> QED BY <2>2
<1>3. ~(p < q) /\ ~(q < p)
  <2>1. p * d \in Nat /\ q * d \in Nat /\ d * p = p * d
    BY <1>1
  <2> QED BY <1>1, <1>2, <2>1
<1>4. p = q
  BY <1>1, <1>3
<1> QED BY <1>4 DEF p

\* Dividing by two after dividing by d.
LEMMA Halved ==
    ASSUME NEW d \in Nat \ {0}, NEW n \in Nat
    PROVE  n \div (2 * d) = (n \div d) \div 2
<1> DEFINE q == n \div d
           r == n % d
           p == q \div 2
           b == q % 2
<1>1. q \in Nat /\ r \in Nat /\ r < d /\ n = d * q + r
  OBVIOUS
<1> HIDE DEF q, r
<1>2. p \in Nat /\ b \in {0, 1} /\ q = 2 * p + b
  BY <1>1
<1> HIDE DEF p, b
<1>3. d * q = p * (2 * d) + b * d
  BY <1>1, <1>2
<1>4. b * d + r \in Nat /\ b * d + r < 2 * d /\ 2 * d \in Nat \ {0}
  BY <1>1, <1>2
<1>5. n = p * (2 * d) + (b * d + r)
  <2>1. p * (2 * d) \in Nat /\ b * d \in Nat
    BY <1>2
  <2> QED BY <1>1, <1>3, <2>1
<1>6. n \div (2 * d) = p
  BY <1>2, <1>4, <1>5, Quotient
<1> QED BY <1>6 DEF p, q

-----------------------------------------------------------------------------
(***************************************************************************)
(* Sets put in order                                                       *)
(***************************************************************************)

\* Of two elements one comes first.
StrictOrder(S, R) ==
    /\ \A x \in S : <<x, x>> \notin R
    /\ \A x, y \in S : x # y => <<x, y>> \in R \/ <<y, x>> \in R
    /\ \A x, y, z \in S : <<x, y>> \in R /\ <<y, z>> \in R => <<x, z>> \in R

\* At each place the element that so many are before.
Ranked(S, R) ==
    [i \in 1 .. Cardinality(S) |-> CHOOSE n \in S : Cardinality({m \in S : <<m, n>> \in R}) = i - 1]

\* Each element has one place, and the places are in order.
LEMMA RankedInOrder ==
    ASSUME NEW S, IsFiniteSet(S), NEW R, StrictOrder(S, R), NEW s, s = Ranked(S, R)
    PROVE  /\ Cardinality(S) \in Nat /\ s \in [1 .. Cardinality(S) -> S]
           /\ \A x \in S : \E i \in 1 .. Cardinality(S) : s[i] = x
           /\ \A i, j \in 1 .. Cardinality(S) : i < j => s[i] # s[j] /\ <<s[i], s[j]>> \in R
<1> DEFINE below(x) == {m \in S : <<m, x>> \in R}
<1>1. PICK n : n = Cardinality(S)
  OBVIOUS
<1>2. PICK rank : rank = [x \in S |-> Cardinality(below(x))]
  OBVIOUS
<1>3. n \in Nat
  BY <1>1, FS_CardinalityType
<1>4. \A x \in S : rank[x] = Cardinality(below(x))
  BY <1>2
<1>5. \A x \in S : IsFiniteSet(below(x)) /\ rank[x] \in Nat /\ rank[x] < n
  <2> SUFFICES ASSUME NEW x \in S PROVE IsFiniteSet(below(x)) /\ rank[x] \in Nat /\ rank[x] < n
    OBVIOUS
  <2>1. below(x) \in SUBSET S /\ below(x) # S
    BY DEF StrictOrder
  <2> HIDE DEF below
  <2>2. IsFiniteSet(below(x)) /\ Cardinality(below(x)) <= n /\ Cardinality(below(x)) # n
    BY <1>1, <2>1, FS_Subset
  <2>3. Cardinality(below(x)) \in Nat
    BY <2>2, FS_CardinalityType
  <2> QED BY <1>3, <1>4, <2>2, <2>3
<1>6. \A x, y \in S : <<x, y>> \in R => rank[x] < rank[y]
  <2> SUFFICES ASSUME NEW x \in S, NEW y \in S, <<x, y>> \in R PROVE rank[x] < rank[y]
    OBVIOUS
  <2>1. below(x) \in SUBSET below(y) /\ below(x) # below(y)
    BY DEF StrictOrder
  <2>2. rank[x] = Cardinality(below(x)) /\ rank[y] = Cardinality(below(y)) /\ IsFiniteSet(below(y))
    BY <1>4, <1>5
  <2>3. rank[x] \in Nat /\ rank[y] \in Nat
    BY <1>5
  <2> HIDE DEF below
  <2>4. Cardinality(below(x)) <= Cardinality(below(y)) /\ Cardinality(below(x)) # Cardinality(below(y))
    BY <2>1, <2>2, FS_Subset
  <2> QED BY <2>2, <2>3, <2>4
<1>7. \A i \in 1 .. n : s[i] = CHOOSE x \in S : rank[x] = i - 1
  <2> SUFFICES ASSUME NEW i \in 1 .. n PROVE s[i] = CHOOSE x \in S : rank[x] = i - 1
    OBVIOUS
  <2>1. s[i] = CHOOSE x \in S : Cardinality(below(x)) = i - 1
    BY <1>1 DEF Ranked
  <2>2. \A x : (x \in S /\ Cardinality(below(x)) = i - 1) <=> (x \in S /\ rank[x] = i - 1)
    BY <1>4
  <2> HIDE DEF below
  <2> QED BY <2>1, <2>2
<1>8. DOMAIN s = 1 .. n /\ s = [i \in 1 .. n |-> s[i]]
  <2> DEFINE at(i) == CHOOSE x \in S : Cardinality(below(x)) = i - 1
  <2>1. s = [i \in 1 .. n |-> at(i)]
    BY <1>1 DEF Ranked
  <2> HIDE DEF at
  <2> QED BY <2>1
<1>9. \A x \in S : rank[x] \in Nat /\ rank[x] < n
  BY <1>5
<1>10. DOMAIN rank = S /\ rank = [x \in S |-> rank[x]]
  BY <1>2
<1> HIDE DEF below
<1>11. rank \in [S -> 0 .. n - 1]
  <2>1. \A x \in S : rank[x] \in 0 .. n - 1
    BY <1>3, <1>9
  <2> QED BY <1>10, <2>1
<1>12. \A x, y \in S : rank[x] = rank[y] => x = y
  <2> SUFFICES ASSUME NEW x \in S, NEW y \in S, rank[x] = rank[y], x # y PROVE FALSE
    OBVIOUS
  <2>1. <<x, y>> \in R \/ <<y, x>> \in R
    BY DEF StrictOrder
  <2>2. rank[x] < rank[y] \/ rank[y] < rank[x]
    BY <1>6, <2>1
  <2> QED BY <1>9, <2>2
<1>13. \A i \in 0 .. n - 1 : \E x \in S : rank[x] = i
  <2>1. rank \in Injection(S, 0 .. n - 1)
    BY <1>11, <1>12 DEF Injection, IsInjective
  <2>2. IsFiniteSet(0 .. n - 1) /\ Cardinality(0 .. n - 1) = n
    <3>1. 0 \in Int /\ n - 1 \in Int
      BY <1>3
    <3>2. IsFiniteSet(0 .. n - 1) /\ Cardinality(0 .. n - 1) = IF 0 > n - 1 THEN 0 ELSE (n - 1) - 0 + 1
      BY <3>1, FS_Interval
    <3> QED BY <1>3, <3>2
  <2>3. rank \in Surjection(S, 0 .. n - 1)
    BY <1>1, <2>1, <2>2, FS_Injection
  <2> QED BY <2>3 DEF Surjection
<1>14. \A i \in 1 .. n : s[i] \in S /\ rank[s[i]] = i - 1
  <2> SUFFICES ASSUME NEW i \in 1 .. n PROVE s[i] \in S /\ rank[s[i]] = i - 1
    OBVIOUS
  <2>1. i - 1 \in 0 .. n - 1
    BY <1>3
  <2>2. \E x \in S : rank[x] = i - 1
    BY <1>13, <2>1
  <2>3. s[i] = CHOOSE x \in S : rank[x] = i - 1
    BY <1>7
  <2> QED BY <2>2, <2>3
<1>15. \A x \in S : \E i \in 1 .. n : s[i] = x
  <2> SUFFICES ASSUME NEW x \in S PROVE \E i \in 1 .. n : s[i] = x
    OBVIOUS
  <2>1. rank[x] \in Nat /\ rank[x] < n
    BY <1>9
  <2>2. rank[x] + 1 \in 1 .. n /\ (rank[x] + 1) - 1 = rank[x]
    BY <1>3, <2>1
  <2>3. rank[s[rank[x] + 1]] = rank[x] /\ s[rank[x] + 1] \in S
    BY <1>14, <2>2
  <2> QED BY <1>12, <2>2, <2>3
<1>16. \A i, j \in 1 .. n : i < j => s[i] # s[j] /\ <<s[i], s[j]>> \in R
  <2> SUFFICES ASSUME NEW i \in 1 .. n, NEW j \in 1 .. n, i < j
               PROVE  s[i] # s[j] /\ <<s[i], s[j]>> \in R
    OBVIOUS
  <2>1. /\ s[i] \in S /\ s[j] \in S /\ rank[s[i]] = i - 1 /\ rank[s[j]] = j - 1
        /\ i \in Nat /\ j \in Nat
    BY <1>3, <1>14
  <2>2. ~ (rank[s[j]] < rank[s[i]]) /\ s[i] # s[j]
    BY <2>1
  <2> QED BY <1>6, <2>1, <2>2 DEF StrictOrder
<1>17. s \in [1 .. n -> S]
  BY <1>8, <1>14
<1> QED BY <1>1, <1>3, <1>15, <1>16, <1>17

\* Where no value is above t.
LEMMA TotalAtMost ==
    ASSUME NEW S, IsFiniteSet(S), NEW v, NEW t \in Nat, \A x \in S : v[x] \in Nat /\ v[x] <= t
    PROVE  Total(v, S) <= Cardinality(S) * t
<1> DEFINE Bad == {U \in SUBSET S : ~ (Total(v, U) <= Cardinality(U) * t)}
<1> SUFFICES ASSUME Bad # {} PROVE FALSE
  OBVIOUS
<1>1. PICK X \in Bad : \A Y \in Bad : Y \subseteq X => Y = X
  <2> HIDE DEF Bad
  <2>1. Bad \subseteq SUBSET S
    BY DEF Bad
  <2> QED BY <2>1, MinimalSubset
<1>2. X \in SUBSET S /\ IsFiniteSet(X) /\ ~ (Total(v, X) <= Cardinality(X) * t)
  BY FS_Subset
<1>3. CASE X = {}
  <2>1. Total(v, {}) = 0 /\ Cardinality({}) = 0
    BY TotalEmpty, FS_EmptySet
  <2> QED BY <1>2, <1>3, <2>1
<1>4. CASE X # {}
  <2>1. PICK x \in X : TRUE
    BY <1>4
  <2> DEFINE Y == X \ {x}
             c == Cardinality(Y)
  <2>2. Y \in SUBSET S /\ Y \subseteq X /\ Y # X
    BY <1>2, <2>1
  <2>3. Total(v, Y) <= Cardinality(Y) * t
    <3> HIDE DEF Y
    <3> QED BY <1>1, <2>2
  <2>4. c \in Nat /\ Cardinality(X) = c + 1
    <3>1. IsFiniteSet(Y) /\ Cardinality(Y) = Cardinality(X) - 1 /\ Cardinality(X) \in Nat
      BY <1>2, <2>1, FS_RemoveElement, FS_CardinalityType
    <3>2. Cardinality(Y) \in Nat
      <4> HIDE DEF Y
      <4> QED BY <3>1, FS_CardinalityType
    <3> QED BY <3>1, <3>2
  <2>5. Total(v, X) = v[x] + Total(v, Y)
    BY <1>2, TotalRemove
  <2>6. Total(v, Y) \in Nat
    <3>1. IsFiniteSet(Y) /\ \A y \in Y : v[y] \in Nat
      BY <1>2, <2>2, FS_Subset
    <3> HIDE DEF Y
    <3> QED BY <3>1, TotalNat
  <2>7. v[x] \in Nat /\ v[x] <= t
    BY <1>2, <2>1
  <2> HIDE DEF Y
  <2>8. Total(v, Y) <= c * t
    BY <2>3
  <2> HIDE DEF c
  <2>9. (c + 1) * t = c * t + t /\ c * t \in Nat
    BY <2>4
  <2> QED BY <1>2, <2>4, <2>5, <2>6, <2>7, <2>8, <2>9
<1> QED BY <1>3, <1>4

\* Where no value is below t.
LEMMA TotalAtLeast ==
    ASSUME NEW S, IsFiniteSet(S), NEW v, NEW t \in Nat, \A x \in S : v[x] \in Nat /\ v[x] >= t
    PROVE  Total(v, S) >= Cardinality(S) * t
<1> DEFINE Bad == {U \in SUBSET S : ~ (Total(v, U) >= Cardinality(U) * t)}
<1> SUFFICES ASSUME Bad # {} PROVE FALSE
  OBVIOUS
<1>1. PICK X \in Bad : \A Y \in Bad : Y \subseteq X => Y = X
  <2> HIDE DEF Bad
  <2>1. Bad \subseteq SUBSET S
    BY DEF Bad
  <2> QED BY <2>1, MinimalSubset
<1>2. X \in SUBSET S /\ IsFiniteSet(X) /\ ~ (Total(v, X) >= Cardinality(X) * t)
  BY FS_Subset
<1>3. CASE X = {}
  <2>1. Total(v, {}) = 0 /\ Cardinality({}) = 0
    BY TotalEmpty, FS_EmptySet
  <2> QED BY <1>2, <1>3, <2>1
<1>4. CASE X # {}
  <2>1. PICK x \in X : TRUE
    BY <1>4
  <2> DEFINE Y == X \ {x}
             c == Cardinality(Y)
  <2>2. Y \in SUBSET S /\ Y \subseteq X /\ Y # X
    BY <1>2, <2>1
  <2>3. Total(v, Y) >= Cardinality(Y) * t
    <3> HIDE DEF Y
    <3> QED BY <1>1, <2>2
  <2>4. c \in Nat /\ Cardinality(X) = c + 1
    <3>1. IsFiniteSet(Y) /\ Cardinality(Y) = Cardinality(X) - 1 /\ Cardinality(X) \in Nat
      BY <1>2, <2>1, FS_RemoveElement, FS_CardinalityType
    <3>2. Cardinality(Y) \in Nat
      <4> HIDE DEF Y
      <4> QED BY <3>1, FS_CardinalityType
    <3> QED BY <3>1, <3>2
  <2>5. Total(v, X) = v[x] + Total(v, Y)
    BY <1>2, TotalRemove
  <2>6. Total(v, Y) \in Nat
    <3>1. IsFiniteSet(Y) /\ \A y \in Y : v[y] \in Nat
      BY <1>2, <2>2, FS_Subset
    <3> HIDE DEF Y
    <3> QED BY <3>1, TotalNat
  <2>7. v[x] \in Nat /\ v[x] >= t
    BY <1>2, <2>1
  <2> HIDE DEF Y
  <2>8. Total(v, Y) >= c * t
    BY <2>3
  <2> HIDE DEF c
  <2>9. (c + 1) * t = c * t + t /\ c * t \in Nat
    BY <2>4
  <2> QED BY <1>2, <2>4, <2>5, <2>6, <2>7, <2>8, <2>9
<1> QED BY <1>3, <1>4

\* Of so many positions of an ascending sequence the last have the largest sum.
LEMMA LastAreLargest ==
    ASSUME NEW n \in Nat, NEW v, \A i \in 1 .. n : v[i] \in Nat,
           \A i, j \in 1 .. n : i < j => v[i] <= v[j],
           NEW A \in SUBSET (1 .. n)
    PROVE  /\ Cardinality(A) \in 0 .. n
           /\ Total(v, A) <= Total(v, n - Cardinality(A) + 1 .. n)
<1> DEFINE P == 1 .. n
           c == Cardinality(A)
           T == n - c + 1 .. n
           t == v[n - c + 1]
<1>1. IsFiniteSet(P) /\ Cardinality(P) = n
  <2>1. 1 \in Int /\ n \in Int
    OBVIOUS
  <2>2. IsFiniteSet(P) /\ Cardinality(P) = IF 1 > n THEN 0 ELSE n - 1 + 1
    BY <2>1, FS_Interval
  <2> QED BY <2>2
<1>2. IsFiniteSet(A) /\ c \in Nat /\ c <= n
  BY <1>1, FS_Subset, FS_CardinalityType
<1> HIDE DEF c
<1>3. IsFiniteSet(T) /\ Cardinality(T) = c /\ T \subseteq P
  <2>1. n - c + 1 \in Int /\ n \in Int
    BY <1>2
  <2>2. IsFiniteSet(T) /\ Cardinality(T) = IF n - c + 1 > n THEN 0 ELSE n - (n - c + 1) + 1
    BY <2>1, FS_Interval
  <2> QED BY <1>2, <2>2
<1>4. CASE c = 0
  <2>1. A = {} /\ T = {}
    <3>1. Cardinality(A) = 0 /\ Cardinality(T) = 0
      BY <1>3, <1>4 DEF c
    <3> HIDE DEF T
    <3> QED BY <1>2, <1>3, <3>1, FS_EmptySet
  <2>2. Total(v, A) = 0 /\ Total(v, T) = 0
    BY <2>1, TotalEmpty
  <2> QED BY <1>2, <2>2 DEF c
<1>5. CASE c # 0
  <2> DEFINE X == A \ T
             Y == T \ A
             Z == A \cap T
  <2>1. n - c + 1 \in P /\ t \in Nat
    BY <1>2, <1>5
  <2>2. \A i \in P : /\ i \in T => v[i] >= t
                     /\ i \notin T => v[i] <= t
    <3> SUFFICES ASSUME NEW i \in P PROVE (i \in T => v[i] >= t) /\ (i \notin T => v[i] <= t)
      OBVIOUS
    <3>1. CASE i = n - c + 1
      BY <1>2, <2>1, <3>1
    <3>2. CASE i < n - c + 1
      BY <1>2, <2>1, <3>2
    <3>3. CASE i > n - c + 1
      BY <1>2, <2>1, <3>3
    <3> QED BY <1>2, <3>1, <3>2, <3>3
  <2> HIDE DEF T, P, t
  <2>3. IsFiniteSet(X) /\ IsFiniteSet(Y) /\ IsFiniteSet(Z)
    <3>1. X \in SUBSET A /\ Y \in SUBSET T /\ Z \in SUBSET A
      OBVIOUS
    <3> HIDE DEF X, Y, Z
    <3> QED BY <1>2, <1>3, <3>1, FS_Subset
  <2>4. X \cap Z = {} /\ Y \cap Z = {} /\ A = X \cup Z /\ T = Y \cup Z
    OBVIOUS
  <2>5. /\ \A i \in A : i \in P /\ v[i] \in Nat
        /\ \A i \in T : i \in P /\ v[i] \in Nat
    BY <1>3 DEF P
  <2>6. /\ \A i \in X : v[i] \in Nat /\ v[i] <= t
        /\ \A i \in Y : v[i] \in Nat /\ v[i] >= t
        /\ \A i \in Z : v[i] \in Nat
    BY <2>2, <2>5
  <2> HIDE DEF X, Y, Z
  <2>7. Total(v, A) = Total(v, X) + Total(v, Z) /\ Total(v, T) = Total(v, Y) + Total(v, Z)
    <3>1. Total(v, X \cup Z) = Total(v, X) + Total(v, Z)
      BY <2>3, <2>4, <2>6, TotalUnion
    <3>2. Total(v, Y \cup Z) = Total(v, Y) + Total(v, Z)
      BY <2>3, <2>4, <2>6, TotalUnion
    <3> QED BY <2>4, <3>1, <3>2
  <2>8. Cardinality(X) = Cardinality(Y) /\ Cardinality(X) \in Nat
    <3>1. X \cap Z = {} /\ Cardinality(X \cap Z) = 0 /\ Cardinality(Y \cap Z) = 0
      BY <2>4, FS_EmptySet
    <3>2. /\ Cardinality(A) = Cardinality(X) + Cardinality(Z)
          /\ Cardinality(T) = Cardinality(Y) + Cardinality(Z)
      <4>1. Cardinality(X \cup Z) = Cardinality(X) + Cardinality(Z) - Cardinality(X \cap Z)
        BY <2>3, FS_Union
      <4>2. Cardinality(Y \cup Z) = Cardinality(Y) + Cardinality(Z) - Cardinality(Y \cap Z)
        BY <2>3, FS_Union
      <4>3. Cardinality(X) \in Nat /\ Cardinality(Y) \in Nat /\ Cardinality(Z) \in Nat
        BY <2>3, FS_CardinalityType
      <4> QED BY <2>4, <3>1, <4>1, <4>2, <4>3
    <3>3. Cardinality(X) \in Nat /\ Cardinality(Y) \in Nat /\ Cardinality(Z) \in Nat
      BY <2>3, FS_CardinalityType
    <3> QED BY <1>3, <3>2, <3>3 DEF c
  <2>9. Total(v, X) <= Cardinality(X) * t /\ Total(v, Y) >= Cardinality(X) * t
    <3>1. Total(v, X) <= Cardinality(X) * t
      BY <2>1, <2>3, <2>6, TotalAtMost
    <3>2. Total(v, Y) >= Cardinality(Y) * t
      BY <2>1, <2>3, <2>6, TotalAtLeast
    <3> QED BY <2>8, <3>1, <3>2
  <2>10. Total(v, X) \in Nat /\ Total(v, Y) \in Nat /\ Total(v, Z) \in Nat
    BY <2>3, <2>6, TotalNat
  <2>11. Cardinality(X) * t \in Nat
    BY <2>1, <2>8
  <2>12. Total(v, A) <= Total(v, T)
    BY <2>7, <2>9, <2>10, <2>11
  <2> QED BY <1>2, <2>12 DEF c, T
<1> QED BY <1>4, <1>5

=============================================================================
