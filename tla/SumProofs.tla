------------------------------ MODULE SumProofs ------------------------------
(***************************************************************************)
(* Facts about sums over finite sets, which the conservation theorems rest *)
(* on.  What holds of all finite sets is shown with a smallest one of      *)
(* which it does not hold.                                                 *)
(***************************************************************************)
EXTENDS Integers, FiniteSets, Functions, FiniteSetTheorems, TLAPS

\* The element that the fold takes next.
First(s) == CHOOSE x \in s : TRUE

\* The sums of the subsets of S, as the fold computes them.
Sums(f, S, it) ==
    it = [s \in SUBSET S |-> IF s = {} THEN 0 ELSE f[First(s)] + it[s \ {First(s)}]]

\* Numbers for the elements of S.
Numbers(f, S) == \A x \in S : f[x] \in Int

LEMMA SumUnfolds ==
    ASSUME NEW f, NEW S
    PROVE  SumFunctionOnSet(f, S) = (CHOOSE it : Sums(f, S, it))[S]
  BY DEF SumFunctionOnSet, FoldFunctionOnSet, MapThenFoldSet, Sums, First

LEMMA FirstIsIn == ASSUME NEW S, S # {} PROVE First(S) \in S
  BY DEF First

\* Some set of B has no smaller one in B.
LEMMA SmallestSet ==
    ASSUME NEW S, IsFiniteSet(S), NEW B, B \subseteq SUBSET S, B # {}
    PROVE  \E T \in B : \A U \in SUBSET T : U # T => U \notin B
<1> DEFINE R == StrictSubsetOrdering(S)
<1>1. IsWellFoundedOn(R, SUBSET S)
  <2>1. IsWellFoundedOn(R, FiniteSubsetsOf(S))
    BY FS_StrictSubsetOrderingWellFounded
  <2>2. FiniteSubsetsOf(S) = SUBSET S
    BY FS_FiniteSubsetsOfFinite
  <2> QED
    BY <2>1, <2>2
<1>2. \A T \in SUBSET S : \A U \in SUBSET T : U # T => <<U, T>> \in R
  BY DEF StrictSubsetOrdering
<1> HIDE DEF R
<1>3. PICK T \in B : \A U \in B : ~(<<U, T>> \in R)
  BY <1>1, WFMin
<1>4. ASSUME NEW U \in SUBSET T, U # T PROVE U \notin B
  BY Zenon, <1>2, <1>3, <1>4
<1> QED
  BY <1>3, <1>4

LEMMA SubsetsAreFinite == ASSUME NEW S, IsFiniteSet(S), NEW T \in SUBSET S PROVE IsFiniteSet(T)
  BY FS_Subset

-----------------------------------------------------------------------------
(* The fold computes what its equation says.                               *)

\* Folds over two sets agree on what both contain.
LEMMA SumsAgree ==
    ASSUME NEW f, NEW S, NEW T, IsFiniteSet(S), T \subseteq S,
           NEW it, Sums(f, S, it), NEW jt, Sums(f, T, jt)
    PROVE  \A U \in SUBSET T : it[U] = jt[U]
<1> DEFINE B == {U \in SUBSET T : it[U] # jt[U]}
<1> SUFFICES ASSUME B # {} PROVE FALSE
  OBVIOUS
<1>1. B \subseteq SUBSET S
  OBVIOUS
<1>2. PICK U \in B : \A V \in SUBSET U : V # U => V \notin B
  <2> HIDE DEF B
  <2> QED
    BY <1>1, SmallestSet
<1>3. U \in SUBSET T /\ U \in SUBSET S /\ it[U] # jt[U]
  BY <1>2
<1>4. /\ it[U] = IF U = {} THEN 0 ELSE f[First(U)] + it[U \ {First(U)}]
      /\ jt[U] = IF U = {} THEN 0 ELSE f[First(U)] + jt[U \ {First(U)}]
  BY Zenon, <1>3 DEF Sums
<1>5. U # {} /\ it[U \ {First(U)}] # jt[U \ {First(U)}]
  BY <1>3, <1>4
<1>6. U \ {First(U)} \in SUBSET U /\ U \ {First(U)} # U
  BY <1>5, FirstIsIn
<1> QED
  BY <1>2, <1>3, <1>5, <1>6

\* What the equation asks for there is.
LEMMA SumsExist ==
    ASSUME NEW f, NEW S, IsFiniteSet(S)
    PROVE  \A T \in SUBSET S : \E it : Sums(f, T, it)
<1> DEFINE B == {T \in SUBSET S : ~ \E it : Sums(f, T, it)}
           sum(U) == (CHOOSE it : Sums(f, U, it))[U]
           Rest(U) == U \ {First(U)}
<1> SUFFICES ASSUME B # {} PROVE FALSE
  OBVIOUS
<1>1. PICK T \in B : \A U \in SUBSET T : U # T => U \notin B
  <2>1. B \subseteq SUBSET S
    OBVIOUS
  <2> HIDE DEF B
  <2> QED
    BY <2>1, SmallestSet
<1>2. T \in SUBSET S /\ ~ \E it : Sums(f, T, it)
  BY <1>1
<1>3. \A U \in SUBSET T : U # T => \E it : Sums(f, U, it)
  BY <1>1, <1>2
<1>4. ASSUME NEW U \in SUBSET T, U # T
      PROVE  sum(U) = IF U = {} THEN 0 ELSE f[First(U)] + sum(Rest(U))
  <2>1. PICK it : it = (CHOOSE jt : Sums(f, U, jt)) /\ Sums(f, U, it)
    BY <1>3, <1>4
  <2>2. it[U] = IF U = {} THEN 0 ELSE f[First(U)] + it[Rest(U)]
    BY Zenon, <2>1 DEF Sums
  <2>3. CASE U # {}
    <3>1. Rest(U) \in SUBSET T /\ Rest(U) # T /\ Rest(U) \subseteq U /\ IsFiniteSet(U)
      BY <1>2, <1>4, <2>3, FirstIsIn, SubsetsAreFinite
    <3>2. PICK jt : jt = (CHOOSE kt : Sums(f, Rest(U), kt)) /\ Sums(f, Rest(U), jt)
      BY <1>3, <3>1
    <3>3. it[Rest(U)] = jt[Rest(U)]
      <4> HIDE DEF Rest
      <4> QED
        BY <2>1, <3>1, <3>2, SumsAgree
    <3> QED
      BY <2>1, <2>2, <2>3, <3>2, <3>3
  <2> QED
    BY <2>1, <2>2, <2>3
<1> DEFINE it == [U \in SUBSET T |-> IF U = {} THEN 0 ELSE f[First(U)] + sum(Rest(U))]
<1>5. ASSUME NEW U \in SUBSET T, U # {} PROVE it[Rest(U)] = sum(Rest(U))
  <2>1. Rest(U) \in SUBSET T /\ Rest(U) # T
    BY <1>5, FirstIsIn
  <2> DEFINE V == Rest(U)
  <2> HIDE DEF V, sum, Rest
  <2>2. sum(V) = IF V = {} THEN 0 ELSE f[First(V)] + sum(Rest(V))
    BY <1>4, <2>1 DEF V
  <2> QED
    BY <2>1, <2>2 DEF V
<1>6. Sums(f, T, it)
  <2> HIDE DEF sum
  <2> SUFFICES it = [s \in SUBSET T |-> IF s = {} THEN 0 ELSE f[First(s)] + it[s \ {First(s)}]]
    BY Zenon DEF Sums
  <2> QED
    BY Zenon, <1>5
<1> QED
  BY <1>2, <1>6

LEMMA SumIs ==
    ASSUME NEW f, NEW S, IsFiniteSet(S)
    PROVE  SumFunctionOnSet(f, S) =
              IF S = {} THEN 0 ELSE f[First(S)] + SumFunctionOnSet(f, S \ {First(S)})
<1>1. PICK it : it = (CHOOSE jt : Sums(f, S, jt)) /\ Sums(f, S, it)
  BY SumsExist
<1>2. SumFunctionOnSet(f, S) = it[S]
  BY <1>1, SumUnfolds
<1>3. it[S] = IF S = {} THEN 0 ELSE f[First(S)] + it[S \ {First(S)}]
  BY Zenon, <1>1 DEF Sums
<1>4. CASE S # {}
  <2> DEFINE T == S \ {First(S)}
  <2>1. T \in SUBSET S
    OBVIOUS
  <2> HIDE DEF T
  <2>2. PICK jt : jt = (CHOOSE kt : Sums(f, T, kt)) /\ Sums(f, T, jt)
    BY <2>1, SumsExist
  <2>3. SumFunctionOnSet(f, T) = jt[T]
    BY <2>2, SumUnfolds
  <2>4. it[T] = jt[T]
    BY <1>1, <2>1, <2>2, SumsAgree
  <2> QED
    BY <1>2, <1>3, <1>4, <2>3, <2>4 DEF T
<1> QED
  BY <1>2, <1>3, <1>4

-----------------------------------------------------------------------------
(* Sums of numbers.                                                        *)

\* The order in which elements are taken does not matter.
LEMMA SumRemove ==
    ASSUME NEW f, NEW S, IsFiniteSet(S), Numbers(f, S)
    PROVE  /\ SumFunctionOnSet(f, S) \in Int
           /\ \A x \in S : SumFunctionOnSet(f, S) = f[x] + SumFunctionOnSet(f, S \ {x})
<1> DEFINE sum(T) == SumFunctionOnSet(f, T)
           Good(T) == sum(T) \in Int /\ \A x \in T : sum(T) = f[x] + sum(T \ {x})
           B == {T \in SUBSET S : ~Good(T)}
<1> SUFFICES ASSUME B # {} PROVE FALSE
  OBVIOUS
<1>1. PICK T \in B : \A U \in SUBSET T : U # T => U \notin B
  <2>1. B \subseteq SUBSET S
    OBVIOUS
  <2> HIDE DEF B
  <2> QED
    BY <2>1, SmallestSet
<1>2. T \in SUBSET S /\ ~Good(T) /\ IsFiniteSet(T)
  BY <1>1, SubsetsAreFinite
<1>3. \A U \in SUBSET T : U # T => Good(U)
  BY <1>1, <1>2
<1>4. sum(T) = IF T = {} THEN 0 ELSE f[First(T)] + sum(T \ {First(T)})
  BY Zenon, <1>2, SumIs
<1> HIDE DEF sum, B
<1>5. T # {}
  BY <1>2, <1>4
<1>y. PICK y : y = First(T)
  OBVIOUS
<1>6. y \in T /\ f[y] \in Int /\ sum(T) = f[y] + sum(T \ {y})
  BY <1>2, <1>4, <1>5, <1>y, FirstIsIn DEF Numbers
<1>7. Good(T \ {y})
  BY <1>3, <1>6
<1>8. sum(T) \in Int
  BY <1>6, <1>7
<1>9. ASSUME NEW x \in T PROVE sum(T) = f[x] + sum(T \ {x})
  <2>1. CASE x = y
    BY <1>6, <2>1
  <2>2. CASE x # y
    <3>1. x \in T \ {y} /\ y \in T \ {x} /\ f[x] \in Int
      BY <1>2, <1>6, <2>2 DEF Numbers
    <3>2. Good(T \ {x}) /\ Good(T \ {x, y})
      BY <1>3, <1>6
    <3>3. sum(T \ {y}) = f[x] + sum((T \ {y}) \ {x})
      BY <1>7, <3>1
    <3>4. sum(T \ {x}) = f[y] + sum((T \ {x}) \ {y})
      BY <3>1, <3>2
    <3>5. (T \ {y}) \ {x} = T \ {x, y} /\ (T \ {x}) \ {y} = T \ {x, y}
      OBVIOUS
    <3>6. PICK a, b, c, d \in Int : a = sum(T \ {x, y}) /\ b = f[x] /\ c = f[y] /\ d = sum(T \ {x})
      BY <1>6, <3>1, <3>2
    <3>7. sum(T) = c + (b + a) /\ d = c + a
      BY Zenon, <1>6, <3>3, <3>4, <3>5, <3>6
    <3>8. c + (b + a) = b + (c + a)
      BY <3>6
    <3> QED
      BY <3>6, <3>7, <3>8
  <2> QED
    BY <2>1, <2>2
<1> QED
  BY <1>2, <1>8, <1>9

LEMMA SumEmpty == ASSUME NEW f PROVE SumFunctionOnSet(f, {}) = 0
  BY Zenon, SumIs, FS_EmptySet

LEMMA SumAdd ==
    ASSUME NEW f, NEW S, IsFiniteSet(S), NEW x, x \notin S, Numbers(f, S \cup {x})
    PROVE  /\ SumFunctionOnSet(f, S) \in Int /\ SumFunctionOnSet(f, S \cup {x}) \in Int
           /\ SumFunctionOnSet(f, S \cup {x}) = f[x] + SumFunctionOnSet(f, S)
<1>1. IsFiniteSet(S \cup {x}) /\ Numbers(f, S)
  BY FS_AddElement DEF Numbers
<1>2. (S \cup {x}) \ {x} = S
  OBVIOUS
<1>3. SumFunctionOnSet(f, S) \in Int
  BY <1>1, SumRemove
<1>4. /\ SumFunctionOnSet(f, S \cup {x}) \in Int
      /\ SumFunctionOnSet(f, S \cup {x}) = f[x] + SumFunctionOnSet(f, (S \cup {x}) \ {x})
  <2> DEFINE T == S \cup {x}
  <2>1. x \in T
    OBVIOUS
  <2> HIDE DEF T
  <2> QED
    BY <1>1, <2>1, SumRemove DEF T
<1> QED
  BY Zenon, <1>2, <1>3, <1>4

\* Two functions that agree on a set have the same sum over it.
LEMMA SumSame ==
    ASSUME NEW f, NEW g, NEW S, IsFiniteSet(S), Numbers(f, S), \A x \in S : f[x] = g[x]
    PROVE  SumFunctionOnSet(f, S) = SumFunctionOnSet(g, S)
<1> DEFINE B == {T \in SUBSET S : SumFunctionOnSet(f, T) # SumFunctionOnSet(g, T)}
<1> SUFFICES ASSUME B # {} PROVE FALSE
  OBVIOUS
<1>1. PICK T \in B : \A U \in SUBSET T : U # T => U \notin B
  <2>1. B \subseteq SUBSET S
    OBVIOUS
  <2> HIDE DEF B
  <2> QED
    BY <2>1, SmallestSet
<1>2. T \in SUBSET S /\ IsFiniteSet(T) /\ SumFunctionOnSet(f, T) # SumFunctionOnSet(g, T)
  BY <1>1, SubsetsAreFinite
<1>3. T # {}
  BY <1>2, SumEmpty
<1>4. PICK x \in T : TRUE
  BY <1>3
<1>5. SumFunctionOnSet(f, T \ {x}) = SumFunctionOnSet(g, T \ {x})
  BY <1>1, <1>2, <1>4
<1>6. Numbers(f, T) /\ Numbers(g, T) /\ f[x] = g[x]
  BY <1>2, <1>4 DEF Numbers
<1>7. /\ SumFunctionOnSet(f, T) = f[x] + SumFunctionOnSet(f, T \ {x})
      /\ SumFunctionOnSet(g, T) = g[x] + SumFunctionOnSet(g, T \ {x})
  BY <1>2, <1>4, <1>6, SumRemove
<1> QED
  BY <1>2, <1>5, <1>6, <1>7

\* The sum over two sets with nothing in common is the sum of the two sums.
LEMMA SumDisjoint ==
    ASSUME NEW f, NEW S, NEW R, IsFiniteSet(S), IsFiniteSet(R),
           Numbers(f, S), Numbers(f, R), S \cap R = {}
    PROVE  SumFunctionOnSet(f, S \cup R) = SumFunctionOnSet(f, S) + SumFunctionOnSet(f, R)
<1> DEFINE sum(T) == SumFunctionOnSet(f, T)
           B == {T \in SUBSET S : sum(T \cup R) # sum(T) + sum(R)}
<1> SUFFICES ASSUME B # {} PROVE FALSE
  OBVIOUS
<1>1. PICK T \in B : \A U \in SUBSET T : U # T => U \notin B
  <2>1. B \subseteq SUBSET S
    OBVIOUS
  <2> HIDE DEF B
  <2> QED
    BY <2>1, SmallestSet
<1>2. T \in SUBSET S /\ IsFiniteSet(T) /\ sum(T \cup R) # sum(T) + sum(R)
  BY <1>1, SubsetsAreFinite
<1>3. sum(R) \in Int /\ sum({}) = 0
  BY SumEmpty, SumRemove
<1>4. T # {}
  <2>1. PICK c : c = sum(R)
    OBVIOUS
  <2>2. {} \cup R = R /\ 0 + c = c
    BY <1>3, <2>1
  <2>3. sum({} \cup R) = sum({}) + sum(R)
    BY <1>3, <2>1, <2>2
  <2> HIDE DEF sum
  <2> QED
    BY <1>2, <2>3
<1>5. PICK x \in T : TRUE
  BY <1>4
<1>6. sum((T \ {x}) \cup R) = sum(T \ {x}) + sum(R)
  BY <1>1, <1>2, <1>5
<1>7. /\ Numbers(f, T) /\ Numbers(f, T \ {x}) /\ Numbers(f, T \cup R)
      /\ IsFiniteSet(T \cup R) /\ IsFiniteSet(T \ {x}) /\ f[x] \in Int
  BY Zenon, <1>2, <1>5, FS_Union, SubsetsAreFinite DEF Numbers
<1>8. sum(T) = f[x] + sum(T \ {x}) /\ sum(T \ {x}) \in Int
  BY <1>2, <1>5, <1>7, SumRemove
<1>9. sum(T \cup R) = f[x] + sum((T \cup R) \ {x})
  <2> DEFINE V == T \cup R
  <2>1. x \in V
    OBVIOUS
  <2> HIDE DEF V
  <2> QED
    BY <1>7, <2>1, SumRemove DEF V
<1>10. (T \cup R) \ {x} = (T \ {x}) \cup R
  BY <1>2, <1>5
<1>11. PICK a, b, c \in Int : a = f[x] /\ b = sum(T \ {x}) /\ c = sum(R)
  BY <1>3, <1>7, <1>8
<1> HIDE DEF sum, B
<1>12. sum(T \cup R) = a + (b + c) /\ sum(T) = a + b
  BY Zenon, <1>6, <1>8, <1>9, <1>10, <1>11
<1>13. a + (b + c) = (a + b) + c
  BY <1>11
<1> QED
  BY <1>2, <1>11, <1>12, <1>13

\* A sum over indices is the sum over what they stand for, when no two stand
\* for the same.
LEMMA SumRenamed ==
    ASSUME NEW f, NEW g, NEW h, NEW S, IsFiniteSet(S), Numbers(f, S),
           \A x \in S : f[x] = g[h[x]],
           \A x, y \in S : h[x] = h[y] => x = y
    PROVE  SumFunctionOnSet(f, S) = SumFunctionOnSet(g, {h[x] : x \in S})
<1> DEFINE H(T) == {h[x] : x \in T}
           B == {T \in SUBSET S : SumFunctionOnSet(f, T) # SumFunctionOnSet(g, H(T))}
<1> SUFFICES ASSUME B # {} PROVE FALSE
  BY Zenon
<1>1. PICK T \in B : \A U \in SUBSET T : U # T => U \notin B
  <2>1. B \subseteq SUBSET S
    OBVIOUS
  <2> HIDE DEF B
  <2> QED
    BY <2>1, SmallestSet
<1>2. T \in SUBSET S /\ IsFiniteSet(T) /\ SumFunctionOnSet(f, T) # SumFunctionOnSet(g, H(T))
  BY <1>1, SubsetsAreFinite
<1>3. T # {}
  <2>1. H({}) = {}
    OBVIOUS
  <2> QED
    BY <1>2, <2>1, SumEmpty
<1>4. PICK x \in T : TRUE
  BY <1>3
<1>5. SumFunctionOnSet(f, T \ {x}) = SumFunctionOnSet(g, H(T \ {x}))
  BY <1>1, <1>2, <1>4
<1>6. Numbers(f, T) /\ Numbers(g, H(T)) /\ f[x] = g[h[x]] /\ h[x] \in H(T)
  BY <1>2, <1>4 DEF Numbers
<1>7. IsFiniteSet(H(T))
  <2> DEFINE V == H(T)
             k == [u \in T |-> h[u]]
  <2>1. k \in Surjection(T, V)
    BY DEF Surjection
  <2> HIDE DEF V, k
  <2>2. IsFiniteSet(V)
    BY <1>2, <2>1, FS_Surjection
  <2> QED
    BY <2>2 DEF V
<1>8. H(T) \ {h[x]} = H(T \ {x})
  BY <1>2, <1>4
<1>9. SumFunctionOnSet(f, T) = f[x] + SumFunctionOnSet(f, T \ {x})
  BY <1>2, <1>4, <1>6, SumRemove
<1>10. SumFunctionOnSet(g, H(T)) = g[h[x]] + SumFunctionOnSet(g, H(T) \ {h[x]})
  <2> DEFINE V == H(T)
             y == h[x]
  <2>1. IsFiniteSet(V) /\ Numbers(g, V) /\ y \in V
    BY <1>6, <1>7
  <2> HIDE DEF V, y
  <2>2. SumFunctionOnSet(g, V) = g[y] + SumFunctionOnSet(g, V \ {y})
    BY <2>1, SumRemove
  <2> QED
    BY <2>2 DEF V, y
<1> HIDE DEF H, B
<1> QED
  BY <1>2, <1>5, <1>6, <1>8, <1>9, <1>10

\* Numbers f of A become g: the ones that change are h[i] for i in D, without
\* repetition, and x and y list them before and after.
Moved(A, f, g, D, h, x, y) ==
    /\ \A i \in D : h[i] \in A /\ x[i] = f[h[i]] /\ y[i] = g[h[i]]
    /\ \A i, j \in D : h[i] = h[j] => i = j
    /\ \A a \in A : (\A i \in D : h[i] # a) => f[a] = g[a]

\* The sum changes by what the lists before and after differ.
LEMMA SumMoved ==
    ASSUME NEW A, IsFiniteSet(A), NEW f, NEW g, Numbers(f, A), Numbers(g, A),
           NEW D, IsFiniteSet(D), NEW h, NEW x, NEW y, Moved(A, f, g, D, h, x, y)
    PROVE  /\ SumFunctionOnSet(f, A) \in Int /\ SumFunctionOnSet(g, A) \in Int
           /\ SumFunctionOnSet(x, D) \in Int /\ SumFunctionOnSet(y, D) \in Int
           /\ SumFunctionOnSet(g, A)
              = SumFunctionOnSet(f, A) + (SumFunctionOnSet(y, D) - SumFunctionOnSet(x, D))
<1> DEFINE S == {h[i] : i \in D}
           R == A \ S
<1> USE DEF Moved
<1>1. S \subseteq A /\ S \cup R = A /\ S \cap R = {} /\ R \subseteq A
  OBVIOUS
<1>2. IsFiniteSet(S) /\ IsFiniteSet(R)
  BY <1>1, FS_Subset
<1>3. Numbers(x, D) /\ Numbers(y, D)
  BY DEF Numbers
<1>4. SumFunctionOnSet(x, D) = SumFunctionOnSet(f, S)
  BY <1>3, SumRenamed
<1>5. SumFunctionOnSet(y, D) = SumFunctionOnSet(g, S)
  BY <1>3, SumRenamed
<1>6. \A a \in R : f[a] = g[a]
  OBVIOUS
<1> HIDE DEF S, R, Moved
<1>7. /\ Numbers(f, S) /\ Numbers(f, R)
      /\ Numbers(g, S) /\ Numbers(g, R)
  BY <1>1 DEF Numbers
<1>8. SumFunctionOnSet(f, R) = SumFunctionOnSet(g, R)
  BY <1>2, <1>6, <1>7, SumSame
<1>9. SumFunctionOnSet(f, S \cup R) = SumFunctionOnSet(f, S) + SumFunctionOnSet(f, R)
  BY <1>1, <1>2, <1>7, SumDisjoint
<1>10. SumFunctionOnSet(g, S \cup R) = SumFunctionOnSet(g, S) + SumFunctionOnSet(g, R)
  BY <1>1, <1>2, <1>7, SumDisjoint
<1>11. /\ SumFunctionOnSet(f, A) \in Int /\ SumFunctionOnSet(g, A) \in Int
       /\ SumFunctionOnSet(x, D) \in Int /\ SumFunctionOnSet(y, D) \in Int
       /\ SumFunctionOnSet(f, R) \in Int
  BY <1>2, <1>3, <1>7, SumRemove
<1>12. PICK a, b, c \in Int : /\ a = SumFunctionOnSet(x, D) /\ b = SumFunctionOnSet(y, D)
                              /\ c = SumFunctionOnSet(f, R)
  BY <1>11
<1>13. SumFunctionOnSet(f, A) = a + c /\ SumFunctionOnSet(g, A) = b + c
  BY Zenon, <1>1, <1>4, <1>5, <1>8, <1>9, <1>10, <1>12
<1>14. b + c = (a + c) + (b - a)
  BY <1>12
<1> QED
  BY <1>11, <1>12, <1>13, <1>14

\* Nothing adds up to nothing.
LEMMA SumZeros ==
    ASSUME NEW f, NEW S, IsFiniteSet(S), \A x \in S : f[x] = 0
    PROVE  SumFunctionOnSet(f, S) = 0
<1> DEFINE B == {T \in SUBSET S : SumFunctionOnSet(f, T) # 0}
<1> SUFFICES ASSUME B # {} PROVE FALSE
  OBVIOUS
<1>1. PICK T \in B : \A U \in SUBSET T : U # T => U \notin B
  <2>1. B \subseteq SUBSET S
    OBVIOUS
  <2> HIDE DEF B
  <2> QED
    BY <2>1, SmallestSet
<1>2. T \in SUBSET S /\ IsFiniteSet(T) /\ SumFunctionOnSet(f, T) # 0
  BY <1>1, SubsetsAreFinite
<1>3. PICK x \in T : TRUE
  BY <1>2, SumEmpty
<1>4. SumFunctionOnSet(f, T \ {x}) = 0
  BY <1>1, <1>2, <1>3
<1>5. Numbers(f, T) /\ f[x] = 0
  BY <1>2, <1>3 DEF Numbers
<1>6. SumFunctionOnSet(f, T) = f[x] + SumFunctionOnSet(f, T \ {x})
  BY <1>2, <1>3, <1>5, SumRemove
<1> QED
  BY <1>2, <1>4, <1>5, <1>6

\* One number of many changes.
LEMMA SumChanged ==
    ASSUME NEW S, IsFiniteSet(S), NEW f, NEW g, Numbers(f, S), Numbers(g, S),
           NEW p \in S, \A x \in S : x # p => f[x] = g[x]
    PROVE  /\ SumFunctionOnSet(f, S) \in Int /\ SumFunctionOnSet(g, S) \in Int
           /\ f[p] \in Int /\ g[p] \in Int
           /\ SumFunctionOnSet(g, S) = SumFunctionOnSet(f, S) + (g[p] - f[p])
<1> DEFINE R == S \ {p}
<1>1. IsFiniteSet(R) /\ Numbers(f, R) /\ \A x \in R : f[x] = g[x]
  BY SubsetsAreFinite DEF Numbers
<1>2. /\ SumFunctionOnSet(f, S) = f[p] + SumFunctionOnSet(f, R)
      /\ SumFunctionOnSet(g, S) = g[p] + SumFunctionOnSet(g, R)
      /\ SumFunctionOnSet(f, S) \in Int /\ SumFunctionOnSet(g, S) \in Int
  BY SumRemove
<1> HIDE DEF R
<1>3. SumFunctionOnSet(f, R) = SumFunctionOnSet(g, R) /\ SumFunctionOnSet(f, R) \in Int
  BY <1>1, SumSame, SumRemove
<1>4. f[p] \in Int /\ g[p] \in Int
  BY DEF Numbers
<1>5. PICK a, b, c \in Int : a = f[p] /\ b = g[p] /\ c = SumFunctionOnSet(f, R)
  BY <1>3, <1>4
<1>6. b + c = (a + c) + (b - a)
  BY <1>5
<1> QED
  BY <1>2, <1>3, <1>4, <1>5, <1>6

\* One number more.
LEMMA SumGrown ==
    ASSUME NEW S, IsFiniteSet(S), NEW f, NEW g, NEW p, p \notin S, NEW R, R = S \cup {p},
           Numbers(f, S), Numbers(g, R), \A x \in S : f[x] = g[x]
    PROVE  /\ SumFunctionOnSet(f, S) \in Int /\ g[p] \in Int
           /\ SumFunctionOnSet(g, R) = SumFunctionOnSet(f, S) + g[p]
<1>1. /\ SumFunctionOnSet(g, S) \in Int
      /\ SumFunctionOnSet(g, S \cup {p}) = g[p] + SumFunctionOnSet(g, S)
  BY SumAdd
<1>2. SumFunctionOnSet(f, S) = SumFunctionOnSet(g, S)
  BY SumSame
<1>3. g[p] \in Int
  BY DEF Numbers
<1>4. PICK a, b \in Int : a = g[p] /\ b = SumFunctionOnSet(g, S)
  BY <1>1, <1>3
<1>5. a + b = b + a
  BY <1>4
<1> QED
  BY <1>1, <1>2, <1>3, <1>4, <1>5

\* The first number of a list and the rest.
LEMMA SumTail ==
    ASSUME NEW n \in Nat, n > 0, NEW f, NEW g, Numbers(f, 1..n),
           \A i \in 1..(n - 1) : g[i] = f[i + 1]
    PROVE  /\ f[1] \in Int /\ SumFunctionOnSet(g, 1..(n - 1)) \in Int
           /\ SumFunctionOnSet(f, 1..n) = f[1] + SumFunctionOnSet(g, 1..(n - 1))
<1> DEFINE S == 1..n
           R == 1..(n - 1)
           h == [i \in R |-> i + 1]
<1>1. IsFiniteSet(S) /\ IsFiniteSet(R) /\ 1 \in S
  BY FS_Interval
<1>2. \A i \in R : h[i] = i + 1 /\ h[i] \in S
  OBVIOUS
<1>3. Numbers(g, R) /\ f[1] \in Int
  BY <1>1, <1>2 DEF Numbers
<1>4. {h[i] : i \in R} = S \ {1}
  <2>1. ASSUME NEW k \in S \ {1} PROVE k \in {h[i] : i \in R}
    <3>1. k - 1 \in R /\ h[k - 1] = k
      OBVIOUS
    <3> QED
      BY <3>1
  <2>2. \A i \in R : h[i] \in S \ {1}
    OBVIOUS
  <2> QED
    BY <2>1, <2>2
<1>5. \A i \in R : g[i] = f[h[i]]
  OBVIOUS
<1>6. \A i, j \in R : h[i] = h[j] => i = j
  OBVIOUS
<1>n. Numbers(f, S)
  OBVIOUS
<1> HIDE DEF S, R, h
<1>7. SumFunctionOnSet(f, S) = f[1] + SumFunctionOnSet(f, S \ {1})
  BY <1>1, <1>n, SumRemove
<1>8. SumFunctionOnSet(g, R) \in Int
  BY <1>1, <1>3, SumRemove
<1>9. SumFunctionOnSet(g, R) = SumFunctionOnSet(f, {h[i] : i \in R})
  BY <1>1, <1>3, <1>5, <1>6, SumRenamed
<1> QED
  BY Zenon, <1>3, <1>4, <1>7, <1>8, <1>9 DEF S, R

\* Differences add up to the difference of the sums.
LEMMA SumDifference ==
    ASSUME NEW S, IsFiniteSet(S), NEW f, NEW g, NEW d, Numbers(f, S), Numbers(g, S),
           \A x \in S : d[x] = g[x] - f[x]
    PROVE  /\ SumFunctionOnSet(f, S) \in Int /\ SumFunctionOnSet(g, S) \in Int
           /\ SumFunctionOnSet(d, S) = SumFunctionOnSet(g, S) - SumFunctionOnSet(f, S)
<1>1. SumFunctionOnSet(f, S) \in Int /\ SumFunctionOnSet(g, S) \in Int
  BY SumRemove
<1> DEFINE F(T) == SumFunctionOnSet(f, T)
           G(T) == SumFunctionOnSet(g, T)
           H(T) == SumFunctionOnSet(d, T)
           B == {T \in SUBSET S : H(T) # G(T) - F(T)}
<1> SUFFICES ASSUME B # {} PROVE FALSE
  BY <1>1
<1>2. PICK T \in B : \A U \in SUBSET T : U # T => U \notin B
  <2>1. B \subseteq SUBSET S
    OBVIOUS
  <2> HIDE DEF B
  <2> QED
    BY <2>1, SmallestSet
<1>3. T \in SUBSET S /\ IsFiniteSet(T) /\ H(T) # G(T) - F(T)
  BY <1>2, SubsetsAreFinite
<1>4. T # {}
  <2>1. H({}) = 0 /\ G({}) = 0 /\ F({}) = 0
    BY SumEmpty
  <2> HIDE DEF F, G, H
  <2> QED
    BY <1>3, <2>1
<1>5. PICK x \in T : TRUE
  BY <1>4
<1>6. H(T \ {x}) = G(T \ {x}) - F(T \ {x})
  BY <1>2, <1>3, <1>5
<1>7. /\ Numbers(f, T) /\ Numbers(g, T) /\ Numbers(d, T)
      /\ Numbers(f, T \ {x}) /\ Numbers(g, T \ {x}) /\ IsFiniteSet(T \ {x})
      /\ f[x] \in Int /\ g[x] \in Int /\ d[x] = g[x] - f[x]
  BY <1>3, <1>5, SubsetsAreFinite DEF Numbers
<1>8. F(T) = f[x] + F(T \ {x}) /\ G(T) = g[x] + G(T \ {x}) /\ H(T) = d[x] + H(T \ {x})
  BY <1>3, <1>5, <1>7, SumRemove
<1>9. F(T \ {x}) \in Int /\ G(T \ {x}) \in Int
  BY <1>7, SumRemove
<1>10. PICK a, b, p, q \in Int : a = f[x] /\ b = g[x] /\ p = F(T \ {x}) /\ q = G(T \ {x})
  BY <1>7, <1>9
<1> HIDE DEF F, G, H, B
<1>11. H(T) = (b - a) + (q - p) /\ G(T) = b + q /\ F(T) = a + p
  BY <1>6, <1>7, <1>8, <1>10
<1>12. (b - a) + (q - p) = (b + q) - (a + p)
  BY <1>10
<1> QED
  BY <1>3, <1>11, <1>12

\* The elements C of L are replaced by N.
LEMMA SumReplaced ==
    ASSUME NEW L, IsFiniteSet(L), NEW C, C \subseteq L, NEW N, IsFiniteSet(N), L \cap N = {},
           NEW M, M = (L \ C) \cup N, NEW f, NEW g, Numbers(f, L), Numbers(g, M),
           \A k \in L \ C : f[k] = g[k]
    PROVE  /\ SumFunctionOnSet(f, L) \in Int /\ SumFunctionOnSet(g, M) \in Int
           /\ SumFunctionOnSet(f, C) \in Int /\ SumFunctionOnSet(g, N) \in Int
           /\ SumFunctionOnSet(g, M)
              = SumFunctionOnSet(f, L) + (SumFunctionOnSet(g, N) - SumFunctionOnSet(f, C))
<1> DEFINE R == L \ C
<1>1. /\ R \cup C = L /\ R \cap C = {} /\ R \cup N = M /\ R \cap N = {}
      /\ R \subseteq L /\ \A k \in R : f[k] = g[k]
  OBVIOUS
<1> HIDE DEF R
<1>2. IsFiniteSet(R) /\ IsFiniteSet(C) /\ IsFiniteSet(M)
  BY Zenon, <1>1, FS_Subset, FS_Union
<1>3. Numbers(f, R) /\ Numbers(f, C) /\ Numbers(g, R) /\ Numbers(g, N)
  BY <1>1 DEF Numbers
<1>4. SumFunctionOnSet(f, R) = SumFunctionOnSet(g, R)
  BY <1>1, <1>2, <1>3, SumSame
<1>5. SumFunctionOnSet(f, R \cup C) = SumFunctionOnSet(f, R) + SumFunctionOnSet(f, C)
  BY <1>1, <1>2, <1>3, SumDisjoint
<1>6. SumFunctionOnSet(g, R \cup N) = SumFunctionOnSet(g, R) + SumFunctionOnSet(g, N)
  BY <1>1, <1>2, <1>3, SumDisjoint
<1>7. /\ SumFunctionOnSet(f, L) \in Int /\ SumFunctionOnSet(g, M) \in Int
      /\ SumFunctionOnSet(f, C) \in Int /\ SumFunctionOnSet(g, N) \in Int
      /\ SumFunctionOnSet(f, R) \in Int
  BY <1>2, <1>3, SumRemove
<1>8. PICK a, b, c \in Int : /\ a = SumFunctionOnSet(f, C) /\ b = SumFunctionOnSet(g, N)
                             /\ c = SumFunctionOnSet(f, R)
  BY <1>7
<1>9. SumFunctionOnSet(f, L) = c + a /\ SumFunctionOnSet(g, M) = c + b
  BY Zenon, <1>1, <1>4, <1>5, <1>6, <1>8
<1>10. c + b = (c + a) + (b - a)
  BY <1>8
<1> QED
  BY <1>7, <1>8, <1>9, <1>10

\* Elements that count for nothing may be left out.
LEMMA SumOfSome ==
    ASSUME NEW S, IsFiniteSet(S), NEW f, Numbers(f, S), NEW T, T \subseteq S,
           \A x \in S \ T : f[x] = 0
    PROVE  SumFunctionOnSet(f, S) = SumFunctionOnSet(f, T)
<1> DEFINE R == S \ T
<1>1. R \cup T = S /\ R \cap T = {} /\ R \subseteq S /\ \A x \in R : f[x] = 0
  OBVIOUS
<1> HIDE DEF R
<1>2. IsFiniteSet(R) /\ IsFiniteSet(T) /\ Numbers(f, R) /\ Numbers(f, T)
  BY <1>1, FS_Subset DEF Numbers
<1>3. SumFunctionOnSet(f, R) = 0
  BY <1>1, <1>2, SumZeros
<1>4. SumFunctionOnSet(f, R \cup T) = SumFunctionOnSet(f, R) + SumFunctionOnSet(f, T)
  BY <1>1, <1>2, SumDisjoint
<1>5. PICK a \in Int : a = SumFunctionOnSet(f, T)
  BY <1>2, SumRemove
<1> QED
  BY <1>1, <1>3, <1>4, <1>5
=============================================================================
