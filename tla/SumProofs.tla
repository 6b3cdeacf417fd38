------------------------------ MODULE SumProofs ------------------------------
(***************************************************************************)
(* Sums over finite sets, as the folds of FiniteSetsExt define them: what  *)
(* the tallies of a report and the bytes of a document are made of.        *)
(***************************************************************************)
EXTENDS FiniteSetsExt, FiniteSetTheorems, TLAPS

(* Induction over the subsets of a finite set, for a set of good subsets   *)
(* where the library has a predicate.                                      *)
LEMMA SubsetInduction ==
  ASSUME NEW S, IsFiniteSet(S), NEW Good \in SUBSET SUBSET S,
         \A T \in SUBSET S :
           (\A U \in SUBSET T : U # T => U \in Good) => T \in Good
  PROVE  \A T \in SUBSET S : T \in Good
<1> DEFINE Bad == (SUBSET S) \ Good
           R == StrictSubsetOrdering(S)
<1>1. IsWellFoundedOn(R, FiniteSubsetsOf(S))
  BY FS_StrictSubsetOrderingWellFounded
<1>2. FiniteSubsetsOf(S) = SUBSET S
  BY FS_FiniteSubsetsOfFinite
<1>3. SUFFICES ASSUME Bad # {} PROVE FALSE
  OBVIOUS
<1>4. PICK T \in Bad : \A U \in Bad : ~ (<<U, T>> \in R)
  <2>1. Bad \subseteq FiniteSubsetsOf(S)
    BY <1>2
  <2> HIDE DEF R, Bad
  <2> QED
    BY <1>1, <1>3, <2>1, WFMin
<1>5. \A U \in SUBSET T : U # T => U \in Good
  BY <1>4 DEF StrictSubsetOrdering
<1> QED
  BY <1>4, <1>5

(* Induction over the natural numbers, likewise.                           *)
LEMMA NatSetInduction ==
  ASSUME NEW Good, 0 \in Good, \A n \in Nat : n \in Good => n + 1 \in Good
  PROVE  \A n \in Nat : n \in Good
<1> DEFINE Bad == Nat \ Good
           R == OpToRel(<, Nat)
<1>1. SUFFICES ASSUME Bad # {} PROVE FALSE
  OBVIOUS
<1>2. PICK n \in Bad : \A m \in Bad : ~ (<<m, n>> \in R)
  <2>1. Bad \subseteq Nat
    OBVIOUS
  <2> HIDE DEF R, Bad
  <2>2. IsWellFoundedOn(R, Nat)
    BY NatLessThanWellFounded DEF R
  <2> QED
    BY <1>1, <2>1, <2>2, WFMin
<1>3. \A m \in Nat : m < n => m \in Good
  BY <1>2 DEF OpToRel
<1> HIDE DEF R
<1>4. n \in Nat /\ n \notin Good /\ n # 0
  OBVIOUS
<1>5. n - 1 \in Nat /\ n - 1 < n
  BY <1>4
<1>6. n - 1 + 1 \in Good
  BY <1>3, <1>5
<1> QED
  BY <1>4, <1>6

-----------------------------------------------------------------------------
First(s) == CHOOSE x \in s : TRUE

(* it adds up the values of g, over each of the sets in D.                 *)
Unfolds(it, g, D) ==
  it = [s \in D |-> IF s = {} THEN 0 ELSE g[First(s)] + it[s \ {First(s)}]]

SumOver(g, S) == MapThenSumSet(LAMBDA x : g[x], S)

(* What the fold of the library comes down to.                             *)
LEMMA SumOverDef ==
  ASSUME NEW g, NEW S
  PROVE  SumOver(g, S) = (CHOOSE it : Unfolds(it, g, SUBSET S))[S]
BY DEF SumOver, MapThenSumSet, MapThenFoldSet, Unfolds, First

(* One element less is one subset smaller.                                 *)
LEMMA WithoutFirst ==
  ASSUME NEW S, IsFiniteSet(S), NEW s \in SUBSET S, s # {}
  PROVE  /\ First(s) \in s
         /\ s \ {First(s)} \in SUBSET S
         /\ s \ {First(s)} # s
         /\ IsFiniteSet(s) /\ Cardinality(s) \in Nat
         /\ Cardinality(s \ {First(s)}) = Cardinality(s) - 1
<1>1. First(s) \in s
  BY DEF First
<1>2. IsFiniteSet(s)
  BY FS_Subset
<1> QED
  BY <1>1, <1>2, FS_RemoveElement, FS_CardinalityType

(* The sums over all subsets of a finite set exist, the smaller ones first.*)
LEMMA UnfoldsExists ==
  ASSUME NEW S, IsFiniteSet(S), NEW g
  PROVE  \E it : Unfolds(it, g, SUBSET S)
<1> DEFINE Small(n) == {s \in SUBSET S : Cardinality(s) <= n}
           Good == {n \in Nat : \E it : Unfolds(it, g, Small(n))}
<1>1. \A s \in SUBSET S : IsFiniteSet(s) /\ Cardinality(s) \in Nat
  BY FS_Subset, FS_CardinalityType
<1>2. 0 \in Good
  <2> DEFINE it == [s \in Small(0) |-> 0]
  <2>1. \A s \in Small(0) : s = {}
    BY <1>1, FS_EmptySet
  <2>2. Unfolds(it, g, Small(0))
    BY <2>1 DEF Unfolds
  <2> QED
    BY <2>2
<1>3. ASSUME NEW n \in Nat, n \in Good PROVE n + 1 \in Good
  <2>1. PICK it : Unfolds(it, g, Small(n))
    BY <1>3
  <2> DEFINE Step(s) == IF s = {} THEN 0 ELSE g[First(s)] + it[s \ {First(s)}]
             jt == [s \in Small(n + 1) |-> Step(s)]
  <2>2. Small(n) \subseteq Small(n + 1)
    BY <1>1
  <2>3. \A s \in Small(n) : it[s] = Step(s)
    BY <2>1 DEF Unfolds
  <2>4. \A s \in Small(n) : jt[s] = it[s]
    BY <2>2, <2>3
  <2>5. \A s \in Small(n + 1) : s # {} => s \ {First(s)} \in Small(n)
    BY <1>1, WithoutFirst
  <2>6. \A s \in Small(n + 1) :
          jt[s] = IF s = {} THEN 0 ELSE g[First(s)] + jt[s \ {First(s)}]
    <3> HIDE DEF Small
    <3> QED
      BY <2>4, <2>5
  <2>7. Unfolds(jt, g, Small(n + 1))
    <3> HIDE DEF Small
    <3> QED
      BY <2>6 DEF Unfolds
  <2> HIDE DEF jt, Small
  <2>8. \E f : Unfolds(f, g, Small(n + 1))
    BY <2>7
  <2>9. n + 1 \in Nat
    OBVIOUS
  <2> QED
    BY <2>8, <2>9
<1>4. Cardinality(S) \in Good
  <2> HIDE DEF Good
  <2> QED
    BY <1>1, <1>2, <1>3, NatSetInduction
<1>5. Small(Cardinality(S)) = SUBSET S
  BY FS_Subset
<1> QED
  BY <1>4, <1>5

(* Where the values agree the sums agree, whichever sets each is over.     *)
LEMMA UnfoldsAgree ==
  ASSUME NEW S, IsFiniteSet(S), NEW g, NEW h, \A x \in S : g[x] = h[x],
         NEW C, NEW D, SUBSET S \subseteq C, SUBSET S \subseteq D,
         NEW it, Unfolds(it, g, C), NEW jt, Unfolds(jt, h, D)
  PROVE  \A T \in SUBSET S : it[T] = jt[T]
<1> DEFINE Good == {T \in SUBSET S : it[T] = jt[T]}
<1>1. ASSUME NEW T \in SUBSET S, \A U \in SUBSET T : U # T => U \in Good
      PROVE  T \in Good
  <2>1. /\ it[T] = IF T = {} THEN 0 ELSE g[First(T)] + it[T \ {First(T)}]
        /\ jt[T] = IF T = {} THEN 0 ELSE h[First(T)] + jt[T \ {First(T)}]
    BY DEF Unfolds
  <2>2. CASE T = {}
    BY <2>1, <2>2
  <2>3. CASE T # {}
    <3>1. First(T) \in T
      BY <2>3 DEF First
    <3>2. T \ {First(T)} \in Good
      BY <1>1, <3>1
    <3> QED
      BY <2>1, <2>3, <3>1, <3>2
  <2> QED
    BY <2>2, <2>3
<1> HIDE DEF Good
<1>2. Good \in SUBSET SUBSET S
  BY DEF Good
<1>3. \A T \in SUBSET S : T \in Good
  BY <1>1, <1>2, SubsetInduction
<1> QED
  BY <1>3 DEF Good

(* A sum is the value of any function that unfolds like it.                *)
LEMMA SumUnfolds ==
  ASSUME NEW S, IsFiniteSet(S), NEW g, NEW D, SUBSET S \subseteq D,
         NEW it, Unfolds(it, g, D)
  PROVE  SumOver(g, S) = it[S]
<1> DEFINE jt == CHOOSE f : Unfolds(f, g, SUBSET S)
<1>1. Unfolds(jt, g, SUBSET S)
  BY UnfoldsExists
<1> HIDE DEF jt
<1>2. \A T \in SUBSET S : jt[T] = it[T]
  <2> DEFINE C == SUBSET S
  <2>1. Unfolds(jt, g, C) /\ SUBSET S \subseteq C
    BY <1>1
  <2> HIDE DEF C
  <2> QED
    BY <2>1, UnfoldsAgree
<1> QED
  BY <1>2, SumOverDef DEF jt

(* Nothing adds up to 0, and a sum is one of its values plus the others.   *)
LEMMA SumFirst ==
  ASSUME NEW S, IsFiniteSet(S), NEW g
  PROVE  SumOver(g, S) = IF S = {} THEN 0
                         ELSE g[First(S)] + SumOver(g, S \ {First(S)})
<1>1. PICK it : Unfolds(it, g, SUBSET S)
  BY UnfoldsExists
<1>2. it[S] = IF S = {} THEN 0 ELSE g[First(S)] + it[S \ {First(S)}]
  BY <1>1 DEF Unfolds
<1>3. SumOver(g, S) = it[S]
  BY <1>1, SumUnfolds
<1>4. SumOver(g, S \ {First(S)}) = it[S \ {First(S)}]
  <2>1. IsFiniteSet(S \ {First(S)})
    BY FS_RemoveElement
  <2>2. SUBSET (S \ {First(S)}) \subseteq SUBSET S
    OBVIOUS
  <2> QED
    BY <1>1, <2>1, <2>2, SumUnfolds
<1> QED
  BY <1>2, <1>3, <1>4

(* Sums of equal values are equal.                                         *)
LEMMA SumEqual ==
  ASSUME NEW S, IsFiniteSet(S), NEW g, NEW h, \A x \in S : g[x] = h[x]
  PROVE  SumOver(g, S) = SumOver(h, S)
<1>1. PICK it : Unfolds(it, g, SUBSET S)
  BY UnfoldsExists
<1>2. PICK jt : Unfolds(jt, h, SUBSET S)
  BY UnfoldsExists
<1>3. it[S] = jt[S]
  BY <1>1, <1>2, UnfoldsAgree
<1> QED
  BY <1>1, <1>2, <1>3, SumUnfolds

(* Sums of natural numbers are natural numbers.                            *)
LEMMA SumType ==
  ASSUME NEW S, IsFiniteSet(S), NEW g, \A x \in S : g[x] \in Nat
  PROVE  SumOver(g, S) \in Nat
<1> DEFINE Good == {T \in SUBSET S : SumOver(g, T) \in Nat}
<1>1. ASSUME NEW T \in SUBSET S, \A U \in SUBSET T : U # T => U \in Good
      PROVE  T \in Good
  <2>1. IsFiniteSet(T)
    BY FS_Subset
  <2>2. CASE T = {}
    <3>1. SumOver(g, T) = 0
      BY <2>1, <2>2, SumFirst
    <3> QED
      BY <3>1
  <2>3. CASE T # {}
    <3>1. First(T) \in T /\ T \ {First(T)} \in Good
      BY <1>1, <2>3 DEF First
    <3>2. g[First(T)] \in Nat /\ SumOver(g, T \ {First(T)}) \in Nat
      BY <3>1
    <3> QED
      BY <2>1, <2>3, <3>2, SumFirst
  <2> QED
    BY <2>2, <2>3
<1> HIDE DEF Good
<1>2. Good \in SUBSET SUBSET S
  BY DEF Good
<1>3. S \in Good
  BY <1>1, <1>2, SubsetInduction
<1> QED
  BY <1>3 DEF Good

(* The order in which the fold takes the elements does not matter.         *)
LEMMA SumRemove ==
  ASSUME NEW S, IsFiniteSet(S), NEW g, \A x \in S : g[x] \in Nat, NEW x \in S
  PROVE  SumOver(g, S) = g[x] + SumOver(g, S \ {x})
<1> DEFINE Good == {T \in SUBSET S :
                      \A y \in T : SumOver(g, T) = g[y] + SumOver(g, T \ {y})}
<1>1. ASSUME NEW T \in SUBSET S, \A U \in SUBSET T : U # T => U \in Good
      PROVE  T \in Good
  <2>1. SUFFICES ASSUME NEW y \in T
                 PROVE  SumOver(g, T) = g[y] + SumOver(g, T \ {y})
    OBVIOUS
  <2> DEFINE f == First(T)
             A == T \ {f}
             B == T \ {y}
             C == T \ {f, y}
  <2>2. f \in T
    BY DEF First
  <2>3. /\ IsFiniteSet(T) /\ IsFiniteSet(A) /\ IsFiniteSet(B) /\ IsFiniteSet(C)
        /\ A \in SUBSET S /\ B \in SUBSET S /\ C \in SUBSET S
    BY FS_Subset
  <2>4. SumOver(g, T) = g[f] + SumOver(g, A)
    BY <2>2, <2>3, SumFirst
  <2>5. CASE y = f
    BY <2>4, <2>5
  <2>6. CASE y # f
    <3> HIDE DEF f
    <3>1. A \in Good /\ B \in Good
      BY <1>1, <2>2
    <3>2. /\ y \in A /\ A \ {y} = C
          /\ f \in B /\ B \ {f} = C
      BY <2>2, <2>6
    <3>3. /\ SumOver(g, A) = g[y] + SumOver(g, C)
          /\ SumOver(g, B) = g[f] + SumOver(g, C)
      BY <3>1, <3>2
    <3>4. SumOver(g, C) \in Nat /\ g[y] \in Nat /\ g[f] \in Nat
      BY <2>2, <2>3, SumType
    <3> HIDE DEF A, C
    <3> QED
      BY <2>4, <3>3, <3>4
  <2> QED
    BY <2>5, <2>6
<1> HIDE DEF Good
<1>2. Good \in SUBSET SUBSET S
  BY DEF Good
<1>3. S \in Good
  BY <1>1, <1>2, SubsetInduction
<1> QED
  BY <1>3 DEF Good

(* One element more adds its value.                                        *)
LEMMA SumAdd ==
  ASSUME NEW S, IsFiniteSet(S), NEW x, x \notin S, NEW g,
         \A y \in S : g[y] \in Nat, g[x] \in Nat
  PROVE  SumOver(g, S \cup {x}) = SumOver(g, S) + g[x]
<1> DEFINE T == S \cup {x}
<1>1. IsFiniteSet(T)
  BY FS_AddElement
<1>2. \A y \in T : g[y] \in Nat
  OBVIOUS
<1>3. x \in T /\ T \ {x} = S
  OBVIOUS
<1> HIDE DEF T
<1>4. SumOver(g, T) = g[x] + SumOver(g, S)
  BY <1>1, <1>2, <1>3, SumRemove
<1>5. SumOver(g, S) \in Nat
  BY SumType
<1> QED
  BY <1>4, <1>5 DEF T

(* A sum is that of a part and of the rest.                                *)
LEMMA SumSplit ==
  ASSUME NEW S, IsFiniteSet(S), NEW g, \A x \in S : g[x] \in Nat, NEW T \in SUBSET S
  PROVE  SumOver(g, T) + SumOver(g, S \ T) = SumOver(g, S)
<1> DEFINE Good == {U \in SUBSET S : SumOver(g, U) + SumOver(g, S \ U) = SumOver(g, S)}
<1>1. ASSUME NEW U \in SUBSET S, \A V \in SUBSET U : V # U => V \in Good
      PROVE  U \in Good
  <2>1. CASE U = {}
    <3>1. SumOver(g, {}) = 0
      BY FS_EmptySet, SumFirst
    <3>2. S \ {} = S /\ SumOver(g, S) \in Nat
      BY SumType
    <3> QED
      BY <2>1, <3>1, <3>2
  <2>2. CASE U # {}
    <3>1. PICK x \in U : TRUE
      BY <2>2
    <3> DEFINE V == U \ {x}
               R == S \ U
    <3>2. V \in Good
      BY <1>1
    <3>3. V \in SUBSET S /\ x \notin V /\ V \cup {x} = U /\ x \notin R /\ S \ V = R \cup {x}
      OBVIOUS
    <3>4. IsFiniteSet(V) /\ IsFiniteSet(R) /\ g[x] \in Nat
      BY <3>3, FS_Subset
    <3>5. (\A y \in V : g[y] \in Nat) /\ (\A y \in R : g[y] \in Nat)
      OBVIOUS
    <3>6. SumOver(g, V) \in Nat /\ SumOver(g, R) \in Nat
      BY <3>4, <3>5, SumType
    <3>7. SumOver(g, V) + SumOver(g, S \ V) = SumOver(g, S)
      BY <3>2
    <3> HIDE DEF V, R
    <3>8. SumOver(g, U) = SumOver(g, V) + g[x]
      BY <3>3, <3>4, <3>5, SumAdd
    <3>9. SumOver(g, S \ V) = SumOver(g, R) + g[x]
      BY <3>3, <3>4, <3>5, SumAdd
    <3>10. SumOver(g, U) + SumOver(g, R) = SumOver(g, S)
      BY <3>4, <3>6, <3>7, <3>8, <3>9
    <3> QED
      BY <3>10 DEF R
  <2> QED
    BY <2>1, <2>2
<1> HIDE DEF Good
<1>2. Good \in SUBSET SUBSET S
  BY DEF Good
<1>3. \A U \in SUBSET S : U \in Good
  BY <1>1, <1>2, SubsetInduction
<1> QED
  BY <1>3 DEF Good

(* Two parts with nothing in common count as much as both.                 *)
LEMMA ApartCount ==
  ASSUME NEW S, IsFiniteSet(S), NEW A, A \subseteq S, NEW B, B \subseteq S,
         \A x \in A : x \notin B, NEW C, C = A \cup B
  PROVE  /\ Cardinality(A) \in Nat /\ Cardinality(B) \in Nat
         /\ Cardinality(C) = Cardinality(A) + Cardinality(B)
<1>1. IsFiniteSet(A) /\ IsFiniteSet(B)
  BY FS_Subset
<1>2. Cardinality(A) \in Nat /\ Cardinality(B) \in Nat
  BY <1>1, FS_CardinalityType
<1>3. Cardinality(A \cup B) = Cardinality(A) + Cardinality(B) - Cardinality(A \cap B)
  BY <1>1, FS_Union
<1>4. Cardinality(A \cap B) = 0
  <2>1. A \cap B = {}
    OBVIOUS
  <2> QED
    BY <2>1, FS_EmptySet
<1> QED
  BY <1>2, <1>3, <1>4

(* What is told apart by a class of its own adds up over the classes.      *)
LEMMA ClassesAddUp ==
  ASSUME NEW D, IsFiniteSet(D), NEW f, NEW X \in SUBSET D, NEW g,
         \A c \in {f[i] : i \in D} : g[c] = Cardinality({i \in X : f[i] = c})
  PROVE  SumOver(g, {f[i] : i \in D}) = Cardinality(X)
<1> DEFINE C == {f[i] : i \in D}
           Of(U) == {i \in X : f[i] \in U}
           Good == {U \in SUBSET C : SumOver(g, U) = Cardinality(Of(U))}
<1>1. IsFiniteSet(C)
  <2>1. [i \in D |-> f[i]] \in Surjection(D, C)
    BY DEF Surjection
  <2> QED
    BY <2>1, FS_Surjection
<1>2. IsFiniteSet(X)
  BY FS_Subset
<1>3. ASSUME NEW U \in SUBSET C, \A V \in SUBSET U : V # U => V \in Good
      PROVE  U \in Good
  <2>1. CASE U = {}
    <3>1. SumOver(g, {}) = 0
      BY FS_EmptySet, SumFirst
    <3>2. Of({}) = {} /\ Cardinality({}) = 0
      BY FS_EmptySet
    <3> QED
      BY <2>1, <3>1, <3>2
  <2>2. CASE U # {}
    <3>1. PICK c \in U : TRUE
      BY <2>2
    <3> DEFINE V == U \ {c}
               One == {i \in X : f[i] = c}
    <3>2. V \in Good
      BY <1>3
    <3>3. c \notin V /\ V \cup {c} = U
      OBVIOUS
    <3>5. SumOver(g, V) = Cardinality(Of(V)) /\ V \in SUBSET C
      BY <3>2
    <3>6. g[c] = Cardinality(One)
      OBVIOUS
    <3>7. \A y \in V : g[y] \in Nat
      <4>1. ASSUME NEW y \in V PROVE g[y] \in Nat
        <5>1. g[y] = Cardinality({i \in X : f[i] = y}) /\ {i \in X : f[i] = y} \in SUBSET X
          OBVIOUS
        <5> QED
          BY <1>2, <5>1, FS_Subset, FS_CardinalityType
      <4> QED
        BY <4>1
    <3> HIDE DEF One, Of, C
    <3>8. /\ Cardinality(Of(V)) \in Nat /\ Cardinality(One) \in Nat
          /\ Cardinality(Of(U)) = Cardinality(Of(V)) + Cardinality(One)
      <4> DEFINE A == Of(V)
                 B == One
      <4> HIDE DEF A, B
      <4>1. A \subseteq X /\ B \subseteq X /\ (\A x \in A : x \notin B) /\ Of(U) = A \cup B
        BY <3>1 DEF One, Of, A, B
      <4>2. Cardinality(A) \in Nat /\ Cardinality(B) \in Nat
        BY <1>2, <4>1, ApartCount
      <4>3. Cardinality(Of(U)) = Cardinality(A) + Cardinality(B)
        BY <1>2, <4>1, ApartCount
      <4> QED
        BY <4>2, <4>3 DEF A, B
    <3>9. IsFiniteSet(V)
      BY <1>1, <3>5, FS_Subset
    <3> HIDE DEF V
    <3>10. SumOver(g, V \cup {c}) = SumOver(g, V) + g[c]
      BY <3>3, <3>6, <3>7, <3>8, <3>9, SumAdd
    <3>11. SumOver(g, U) = Cardinality(Of(U))
      BY <3>3, <3>5, <3>6, <3>8, <3>10
    <3> QED
      BY <3>11
  <2> QED
    BY <2>1, <2>2
<1>4. Of(C) = X
  OBVIOUS
<1> HIDE DEF Good
<1>5. Good \in SUBSET SUBSET C
  BY DEF Good
<1>6. C \in Good
  <2> HIDE DEF C
  <2> QED
    BY <1>1, <1>3, <1>5, SubsetInduction
<1> QED
  BY <1>4, <1>6 DEF Good
=============================================================================
