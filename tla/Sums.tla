-------------------------------- MODULE Sums --------------------------------
(***************************************************************************)
(* Facts about SumFunction, the sum of the values of a function with a     *)
(* finite domain, for the proofs that compare a balance with the sum of    *)
(* the rows it comes from.                                                 *)
(*                                                                         *)
(* The sum is a fold, and the fold a recursive function on the subsets of  *)
(* a set.  Induction over those subsets is taken from the well-founded     *)
(* order of set inclusion: a set of subsets that is not empty has a least  *)
(* member (LeastSubset), and to refute a claim is to look at the least     *)
(* subset for which it fails.  Predicates are sets here, so that the       *)
(* lemmas are first-order facts.                                           *)
(***************************************************************************)
EXTENDS Functions, FiniteSetTheorems, TLAPS

-----------------------------------------------------------------------------
(* Induction over the subsets of a finite set.                             *)

\* Of some subsets of a finite set, one includes none of the others.
LEMMA LeastSubset ==
    ASSUME NEW S, IsFiniteSet(S), NEW U, U \subseteq SUBSET S, U # {}
    PROVE  \E T \in U: \A V \in U: V \subseteq T => V = T
<1>. DEFINE R == StrictSubsetOrdering(S)
<1>1. U \subseteq FiniteSubsetsOf(S)
  BY FS_FiniteSubsetsOfFinite
<1>2. \E T \in U: \A V \in U: ~(<<V, T>> \in R)
  <2>. HIDE DEF R
  <2>. QED  BY <1>1, FS_StrictSubsetOrderingWellFounded, WFMin DEF R
<1>. QED  BY <1>2 DEF StrictSubsetOrdering

\* The member that the fold takes first.
Picked(s) == CHOOSE x \in s: TRUE

LEMMA PickedIn == ASSUME NEW s, s # {} PROVE Picked(s) \in s
BY DEF Picked

\* What holds of the empty set, and of a set if it does without the member
\* picked from it, holds of every finite set.
LEMMA PickInduction ==
    ASSUME NEW S, IsFiniteSet(S), NEW P, {} \in P,
           \A T \in SUBSET S: T # {} /\ T \ {Picked(T)} \in P => T \in P
    PROVE  S \in P
<1>. DEFINE U == (SUBSET S) \ P
<1>. SUFFICES ASSUME U # {} PROVE FALSE
  OBVIOUS
<1>1. PICK T \in U: \A V \in U: V \subseteq T => V = T
  <2>1. U \subseteq SUBSET S
    OBVIOUS
  <2>. HIDE DEF U
  <2>. QED  BY <2>1, LeastSubset
<1>2. T # {} /\ Picked(T) \in T
  BY PickedIn
<1>3. T \ {Picked(T)} \in P
  BY <1>1, <1>2
<1>. QED  BY <1>2, <1>3

-----------------------------------------------------------------------------
(* The sum is what its recursive definition says.                          *)

IsFold(f, S, it) ==
    it = [s \in SUBSET S |-> IF s = {} THEN 0 ELSE f[Picked(s)] + it[s \ {Picked(s)}]]

LEMMA SumIsFold ==
    ASSUME NEW f, NEW S
    PROVE  SumFunctionOnSet(f, S) = (CHOOSE it: IsFold(f, S, it))[S]
BY DEF SumFunctionOnSet, FoldFunctionOnSet, MapThenFoldSet, IsFold, Picked

\* The fold over a set gives each part of it what the fold over that part does.
LEMMA FoldsAgree ==
    ASSUME NEW f, NEW S, IsFiniteSet(S), NEW i, IsFold(f, S, i),
           NEW T \in SUBSET S, NEW j, IsFold(f, T, j)
    PROVE  i[T] = j[T]
<1>. DEFINE P == {s \in SUBSET T: i[s] = j[s]}
<1>1. {} \in P
  BY DEF IsFold
<1>2. ASSUME NEW s \in SUBSET T, s # {}, s \ {Picked(s)} \in P
      PROVE  s \in P
  <2>1. /\ i[s] = f[Picked(s)] + i[s \ {Picked(s)}]
        /\ j[s] = f[Picked(s)] + j[s \ {Picked(s)}]
    BY <1>2 DEF IsFold
  <2>. QED  BY <1>2, <2>1
<1>3. T \in P
  <2>. HIDE DEF P
  <2>. QED  BY <1>1, <1>2, PickInduction, FS_Subset
<1>. QED  BY <1>3

\* There is one: for the least set without, glue those of its smaller parts.
LEMMA FoldExists ==
    ASSUME NEW f, NEW S, IsFiniteSet(S)
    PROVE  \E it: IsFold(f, S, it)
<1>. DEFINE U == {s \in SUBSET S: ~ \E it: IsFold(f, s, it)}
            Fold(s) == CHOOSE it: IsFold(f, s, it)
            Step(s, v) == IF s = {} THEN 0 ELSE f[Picked(s)] + v
<1>. SUFFICES ASSUME U # {} PROVE FALSE
  OBVIOUS
<1>1. PICK T \in U: \A V \in U: V \subseteq T => V = T
  <2>. HIDE DEF U
  <2>1. U \subseteq SUBSET S
    BY DEF U
  <2>. QED  BY <2>1, LeastSubset
<1>2. \A s \in SUBSET T: s # T => IsFold(f, s, Fold(s))
  BY <1>1
<1>. DEFINE it == [s \in SUBSET T |-> Step(s, Fold(s \ {Picked(s)})[s \ {Picked(s)}])]
<1>3. ASSUME NEW s \in SUBSET T, s # {}
      PROVE  it[s \ {Picked(s)}] = Fold(s \ {Picked(s)})[s \ {Picked(s)}]
  <2>. DEFINE t == s \ {Picked(s)}
              u == t \ {Picked(t)}
  <2>1. Picked(s) \in s
    BY <1>3, PickedIn
  <2>2. t \in SUBSET T /\ t # T /\ u \in SUBSET T /\ u # T
    BY <2>1
  <2>3. IsFold(f, t, Fold(t)) /\ IsFold(f, u, Fold(u))
    BY <1>2, <2>2
  <2>4. it[t] = Step(t, Fold(u)[u])
    BY <2>2
  <2>5. Fold(t)[t] = Step(t, Fold(t)[u])
    <3>. HIDE DEF Fold
    <3>. QED  BY <2>3 DEF IsFold
  <2>6. Fold(t)[u] = Fold(u)[u]
    <3>1. IsFiniteSet(t)
      BY <2>2, FS_Subset
    <3>. HIDE DEF Fold
    <3>. QED  BY <2>3, <3>1, FoldsAgree
  <2>. QED  BY <2>4, <2>5, <2>6
<1>4. IsFold(f, T, it)
  <2>. HIDE DEF Fold
  <2>. QED  BY <1>3 DEF IsFold
<1>. QED  BY <1>1, <1>4

LEMMA SumStep ==
    ASSUME NEW f, NEW S, IsFiniteSet(S)
    PROVE  SumFunctionOnSet(f, S) =
               IF S = {} THEN 0
               ELSE f[Picked(S)] + SumFunctionOnSet(f, S \ {Picked(S)})
<1>. DEFINE Fold(s) == CHOOSE it: IsFold(f, s, it)
            T == S \ {Picked(S)}
<1>1. IsFold(f, S, Fold(S)) /\ IsFold(f, T, Fold(T))
  <2>1. IsFiniteSet(T)
    BY FS_Subset
  <2>. QED  BY <2>1, FoldExists
<1>2. SumFunctionOnSet(f, S) = Fold(S)[S] /\ SumFunctionOnSet(f, T) = Fold(T)[T]
  BY SumIsFold
<1>3. Fold(S)[T] = Fold(T)[T]
  <2>. HIDE DEF Fold
  <2>. QED  BY <1>1, FoldsAgree
<1>4. Fold(S)[S] = IF S = {} THEN 0 ELSE f[Picked(S)] + Fold(S)[T]
  <2>. HIDE DEF Fold
  <2>. QED  BY <1>1 DEF IsFold
<1>. QED  BY <1>2, <1>3, <1>4

LEMMA SumEmpty == ASSUME NEW f PROVE SumFunctionOnSet(f, {}) = 0
BY SumStep, FS_EmptySet

-----------------------------------------------------------------------------
(* The values of a sum.                                                    *)

\* What holds of zero, and is kept by adding what f yields, holds of the sum.
LEMMA SumIn ==
    ASSUME NEW S, IsFiniteSet(S), NEW f, NEW V, 0 \in V,
           \A x \in S, v \in V: f[x] + v \in V
    PROVE  SumFunctionOnSet(f, S) \in V
<1>. DEFINE P == {T \in SUBSET S: SumFunctionOnSet(f, T) \in V}
<1>1. {} \in P
  BY SumEmpty
<1>2. ASSUME NEW T \in SUBSET S, T # {}, T \ {Picked(T)} \in P
      PROVE  T \in P
  <2>1. SumFunctionOnSet(f, T) = f[Picked(T)] + SumFunctionOnSet(f, T \ {Picked(T)})
    BY <1>2, SumStep, FS_Subset
  <2>2. Picked(T) \in S
    BY <1>2, PickedIn
  <2>3. f[Picked(T)] + SumFunctionOnSet(f, T \ {Picked(T)}) \in V
    BY <1>2, <2>2
  <2>. QED  BY <2>1, <2>3
<1>3. S \in P
  <2>. HIDE DEF P
  <2>. QED  BY <1>1, <1>2, PickInduction
<1>. QED  BY <1>3

LEMMA SumInt ==
    ASSUME NEW S, IsFiniteSet(S), NEW f, \A x \in S: f[x] \in Int
    PROVE  SumFunctionOnSet(f, S) \in Int
BY SumIn

LEMMA SumNat ==
    ASSUME NEW S, IsFiniteSet(S), NEW f, \A x \in S: f[x] \in Nat
    PROVE  SumFunctionOnSet(f, S) \in Nat
<1>1. \A x \in S, v \in Nat: f[x] + v \in Nat
  OBVIOUS
<1>. QED  BY <1>1, SumIn

\* Any member may come first, not only the one that the fold picks.
LEMMA SumRemove ==
    ASSUME NEW S, IsFiniteSet(S), NEW f, \A s \in S: f[s] \in Int, NEW x \in S
    PROVE  SumFunctionOnSet(f, S) = f[x] + SumFunctionOnSet(f, S \ {x})
<1>. DEFINE Sum(T) == SumFunctionOnSet(f, T)
            U == {T \in SUBSET S: \E y \in T: Sum(T) # f[y] + Sum(T \ {y})}
<1>. SUFFICES ASSUME U # {} PROVE FALSE
  OBVIOUS
<1>1. PICK T \in U: \A V \in U: V \subseteq T => V = T
  <2>. HIDE DEF U
  <2>1. U \subseteq SUBSET S
    BY DEF U
  <2>. QED  BY <2>1, LeastSubset
<1>2. PICK y \in T: Sum(T) # f[y] + Sum(T \ {y})
  OBVIOUS
<1>. DEFINE p == Picked(T)
<1>3. p \in T /\ IsFiniteSet(T)
  BY <1>2, PickedIn, FS_Subset
<1>4. Sum(T) = f[p] + Sum(T \ {p})
  BY <1>2, <1>3, SumStep
<1>5. y # p
  BY <1>2, <1>4
<1>6. /\ Sum(T \ {p}) = f[y] + Sum((T \ {p}) \ {y})
      /\ Sum(T \ {y}) = f[p] + Sum((T \ {y}) \ {p})
  <2>1. T \ {p} \notin U /\ T \ {y} \notin U
    BY <1>1, <1>2, <1>3
  <2>. QED  BY <2>1, <1>2, <1>3, <1>5
<1>7. Sum((T \ {p}) \ {y}) = Sum((T \ {y}) \ {p})
  <2>1. (T \ {p}) \ {y} = (T \ {y}) \ {p}
    OBVIOUS
  <2>. HIDE DEF Sum
  <2>. QED  BY <2>1, Zenon
<1>8. Sum((T \ {p}) \ {y}) \in Int /\ f[p] \in Int /\ f[y] \in Int
  <2>1. IsFiniteSet((T \ {p}) \ {y})
    BY <1>3, FS_Subset
  <2>. QED  BY <2>1, <1>2, <1>3, SumInt
<1>. HIDE DEF Sum, U, p
<1>. QED  BY <1>2, <1>4, <1>6, <1>7, <1>8

-----------------------------------------------------------------------------
(* Sums of related functions.                                              *)

\* What agrees on a set has one sum over it.
LEMMA SumAgrees ==
    ASSUME NEW S, IsFiniteSet(S), NEW f, NEW g, \A x \in S: f[x] = g[x]
    PROVE  SumFunctionOnSet(f, S) = SumFunctionOnSet(g, S)
<1>. DEFINE P == {T \in SUBSET S: SumFunctionOnSet(f, T) = SumFunctionOnSet(g, T)}
<1>1. {} \in P
  BY SumEmpty
<1>2. ASSUME NEW T \in SUBSET S, T # {}, T \ {Picked(T)} \in P
      PROVE  T \in P
  <2>1. f[Picked(T)] = g[Picked(T)]
    BY <1>2, PickedIn
  <2>. QED  BY <1>2, <2>1, SumStep, FS_Subset
<1>3. S \in P
  <2>. HIDE DEF P
  <2>. QED  BY <1>1, <1>2, PickInduction
<1>. QED  BY <1>3

\* The sum of a sum.
LEMMA SumOfSums ==
    ASSUME NEW S, IsFiniteSet(S), NEW f, NEW g, NEW h,
           \A x \in S: f[x] \in Int /\ g[x] \in Int /\ h[x] = f[x] + g[x]
    PROVE  SumFunctionOnSet(h, S) = SumFunctionOnSet(f, S) + SumFunctionOnSet(g, S)
<1>. DEFINE P == {T \in SUBSET S: SumFunctionOnSet(h, T)
                                      = SumFunctionOnSet(f, T) + SumFunctionOnSet(g, T)}
<1>1. {} \in P
  BY SumEmpty
<1>2. ASSUME NEW T \in SUBSET S, T # {}, T \ {Picked(T)} \in P
      PROVE  T \in P
  <2>. DEFINE x == Picked(T)
              R == T \ {Picked(T)}
  <2>1. x \in T /\ IsFiniteSet(T) /\ IsFiniteSet(R) /\ R \subseteq S
    BY <1>2, PickedIn, FS_Subset
  <2>2. /\ SumFunctionOnSet(h, T) = h[x] + SumFunctionOnSet(h, R)
        /\ SumFunctionOnSet(f, T) = f[x] + SumFunctionOnSet(f, R)
        /\ SumFunctionOnSet(g, T) = g[x] + SumFunctionOnSet(g, R)
    BY <1>2, <2>1, SumStep
  <2>3. SumFunctionOnSet(h, R) = SumFunctionOnSet(f, R) + SumFunctionOnSet(g, R)
    BY <1>2
  <2>4. f[x] \in Int /\ g[x] \in Int /\ h[x] = f[x] + g[x]
    BY <2>1
  <2>. HIDE DEF x, R
  <2>5. SumFunctionOnSet(f, R) \in Int /\ SumFunctionOnSet(g, R) \in Int
    BY <2>1, SumInt
  <2>6. SumFunctionOnSet(h, T) = SumFunctionOnSet(f, T) + SumFunctionOnSet(g, T)
    BY <2>2, <2>3, <2>4, <2>5
  <2>. QED  BY <2>6
<1>3. S \in P
  <2>. HIDE DEF P
  <2>. QED  BY <1>1, <1>2, PickInduction
<1>. QED  BY <1>3

\* One for each member of a part of a set.
LEMMA SumOfOnes ==
    ASSUME NEW S, IsFiniteSet(S), NEW B \in SUBSET S, NEW f,
           \A x \in S: f[x] = IF x \in B THEN 1 ELSE 0
    PROVE  SumFunctionOnSet(f, S) = Cardinality(B)
<1>. DEFINE P == {T \in SUBSET S: SumFunctionOnSet(f, T) = Cardinality(B \cap T)}
<1>1. {} \in P
  <2>1. B \cap {} = {} /\ Cardinality({}) = 0
    BY FS_EmptySet
  <2>. QED  BY <2>1, SumEmpty
<1>2. ASSUME NEW T \in SUBSET S, T # {}, T \ {Picked(T)} \in P
      PROVE  T \in P
  <2>. DEFINE x == Picked(T)
              C == B \cap T
  <2>1. x \in T /\ IsFiniteSet(T) /\ IsFiniteSet(C)
    BY <1>2, PickedIn, FS_Subset
  <2>2. SumFunctionOnSet(f, T) = f[x] + SumFunctionOnSet(f, T \ {x})
    BY <1>2, <2>1, SumStep
  <2>3. SumFunctionOnSet(f, T \ {x}) = Cardinality(B \cap (T \ {x}))
    BY <1>2
  <2>4. B \cap (T \ {x}) = C \ {x}
    OBVIOUS
  <2>5. f[x] = IF x \in C THEN 1 ELSE 0
    BY <2>1
  <2>. HIDE DEF x, C
  <2>6. /\ Cardinality(C \ {x}) = IF x \in C THEN Cardinality(C) - 1 ELSE Cardinality(C)
        /\ Cardinality(C) \in Nat
    BY <2>1, FS_RemoveElement, FS_CardinalityType
  <2>7. Cardinality(B \cap (T \ {x})) = Cardinality(C \ {x})
    BY <2>4, Zenon
  <2>8. SumFunctionOnSet(f, T) = Cardinality(C)
    BY <2>2, <2>3, <2>5, <2>6, <2>7
  <2>. QED  BY <2>8 DEF C
<1>3. S \in P
  <2>. HIDE DEF P
  <2>. QED  BY <1>1, <1>2, PickInduction
<1>4. B \cap S = B
  OBVIOUS
<1>. QED  BY <1>3, <1>4

-----------------------------------------------------------------------------
(* Sums over a whole domain.                                               *)

LEMMA SumIsInt ==
    ASSUME NEW S, IsFiniteSet(S), NEW f \in [S -> Int]
    PROVE  SumFunction(f) \in Int
BY SumInt DEF SumFunction

LEMMA SumIsNat ==
    ASSUME NEW S, IsFiniteSet(S), NEW f \in [S -> Nat]
    PROVE  SumFunction(f) \in Nat
BY SumNat DEF SumFunction

LEMMA SumOfZeros ==
    ASSUME NEW S, IsFiniteSet(S), NEW f \in [S -> Int], \A x \in S: f[x] = 0
    PROVE  SumFunction(f) = 0
<1>1. \A x \in S, v \in {0}: f[x] + v \in {0}
  OBVIOUS
<1>2. SumFunctionOnSet(f, S) \in {0}
  BY <1>1, SumIn
<1>. QED  BY <1>2 DEF SumFunction

\* One value changes, and the sum by as much.
LEMMA SumChange ==
    ASSUME NEW S, IsFiniteSet(S), NEW f \in [S -> Int], NEW g \in [S -> Int], NEW x \in S,
           \A s \in S \ {x}: g[s] = f[s]
    PROVE  SumFunction(g) = SumFunction(f) - f[x] + g[x]
<1>1. IsFiniteSet(S \ {x})
  BY FS_Subset
<1>2. SumFunctionOnSet(f, S \ {x}) = SumFunctionOnSet(g, S \ {x})
  BY <1>1, SumAgrees
<1>3. SumFunctionOnSet(f, S \ {x}) \in Int
  BY <1>1, SumInt
<1>4. /\ SumFunctionOnSet(f, S) = f[x] + SumFunctionOnSet(f, S \ {x})
      /\ SumFunctionOnSet(g, S) = g[x] + SumFunctionOnSet(g, S \ {x})
  BY SumRemove
<1>5. /\ SumFunction(f) = SumFunctionOnSet(f, S)
      /\ SumFunction(g) = SumFunctionOnSet(g, S)
  BY DEF SumFunction
<1>. QED  BY <1>2, <1>3, <1>4, <1>5

\* Each value grows by that of another function, and so does the sum.
LEMMA SumGrows ==
    ASSUME NEW S, IsFiniteSet(S), NEW f \in [S -> Int], NEW g \in [S -> Int],
           NEW h \in [S -> Int], \A x \in S: h[x] = f[x] + g[x]
    PROVE  SumFunction(h) = SumFunction(f) + SumFunction(g)
BY SumOfSums DEF SumFunction

\* The values of a part of a set grow by one.
LEMMA SumCounts ==
    ASSUME NEW S, IsFiniteSet(S), NEW f \in [S -> Int], NEW B \in SUBSET S
    PROVE  SumFunction([x \in S |-> IF x \in B THEN f[x] + 1 ELSE f[x]])
               = SumFunction(f) + Cardinality(B)
<1>. DEFINE one == [x \in S |-> IF x \in B THEN 1 ELSE 0]
            g == [x \in S |-> IF x \in B THEN f[x] + 1 ELSE f[x]]
<1>1. SumFunctionOnSet(one, S) = Cardinality(B)
  BY SumOfOnes
<1>2. SumFunction(one) = SumFunctionOnSet(one, S)
  BY DEF SumFunction
<1>3. /\ one \in [S -> Int] /\ g \in [S -> Int]
      /\ \A x \in S: g[x] = f[x] + one[x]
  OBVIOUS
<1>. HIDE DEF one, g
<1>4. SumFunction(g) = SumFunction(f) + SumFunction(one)
  BY <1>3, SumGrows
<1>. QED  BY <1>1, <1>2, <1>4 DEF g
=============================================================================
