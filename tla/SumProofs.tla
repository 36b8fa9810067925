----------------------------- MODULE SumProofs -----------------------------
(***************************************************************************)
(* What a sum over a finite set does when a member comes or goes.          *)
(* SumFunctionOnSet picks the members in the order of CHOOSE; the lemmas   *)
(* say that this order does not matter.  An induction over finite sets is  *)
(* stated by its least counterexample, a set whose strict subsets are none. *)
(***************************************************************************)
EXTENDS Integers, FiniteSets, Functions, FiniteSetTheorems, TLAPS

\* A collection of subsets of a finite set has a member with none below it.
LEMMA LeastSubset ==
  ASSUME NEW S, IsFiniteSet(S), NEW B \in SUBSET (SUBSET S), B # {}
  PROVE  \E T \in B : \A U \in B : ~(U \subseteq T /\ U # T)
<1>1. B \subseteq FiniteSubsetsOf(S)
  BY FS_FiniteSubsetsOfFinite, Zenon
<1>2. PICK T \in B : \A U \in B : ~(<<U, T>> \in StrictSubsetOrdering(S))
  BY <1>1, FS_StrictSubsetOrderingWellFounded, WFMin, Zenon
<1> QED  BY <1>2 DEF StrictSubsetOrdering

-----------------------------------------------------------------------------
(* The recursion behind the fold *)

Picked(s) == CHOOSE x \in s : TRUE

LEMMA PickIn == ASSUME NEW s, s # {}  PROVE Picked(s) \in s
BY DEF Picked

SumStep(f, g, s) == IF s = {} THEN 0 ELSE f[Picked(s)] + g[s \ {Picked(s)}]

\* g holds the sums of f over the subsets of T.
Solves(f, T, g) == g = [s \in SUBSET T |-> SumStep(f, g, s)]

LEMMA Unfolded ==
  ASSUME NEW f, NEW T
  PROVE  SumFunctionOnSet(f, T) = (CHOOSE g : Solves(f, T, g))[T]
BY DEF SumFunctionOnSet, FoldFunctionOnSet, MapThenFoldSet, Solves, SumStep, Picked

\* Solutions agree wherever both are defined.
LEMMA SolutionsAgree ==
  ASSUME NEW f, NEW T, NEW U, NEW g, NEW h, Solves(f, T, g), Solves(f, U, h),
         NEW S, S \subseteq T, S \subseteq U, IsFiniteSet(S)
  PROVE  g[S] = h[S]
<1> DEFINE B == {s \in SUBSET S : g[s] # h[s]}
<1> SUFFICES ASSUME B # {}  PROVE FALSE  OBVIOUS
<1>1. PICK s \in B : \A r \in B : ~(r \subseteq s /\ r # s)
  <2>1. B \in SUBSET (SUBSET S)  OBVIOUS
  <2> HIDE DEF B
  <2> QED  BY <2>1, LeastSubset
<1>2. /\ s \in SUBSET T /\ s \in SUBSET U /\ s \in SUBSET S
      /\ g[s] = SumStep(f, g, s) /\ h[s] = SumStep(f, h, s) /\ g[s] # h[s]
  BY DEF Solves
<1>3. CASE s = {}  BY <1>2, <1>3 DEF SumStep
<1>4. CASE s # {}
  <2>1. s \ {Picked(s)} \in SUBSET S /\ s \ {Picked(s)} # s  BY <1>2, <1>4, PickIn
  <2>2. g[s \ {Picked(s)}] = h[s \ {Picked(s)}]  BY <1>1, <2>1
  <2> QED  BY <1>2, <1>4, <2>2 DEF SumStep
<1> QED  BY <1>3, <1>4

\* There is a solution on every finite set: on the least set without one, the
\* sums of the strict subsets' solutions are one.
LEMMA SolutionExists ==
  ASSUME NEW f, NEW T, IsFiniteSet(T)
  PROVE  \E g : Solves(f, T, g)
<1> DEFINE B == {s \in SUBSET T : ~\E g : Solves(f, s, g)}
<1> SUFFICES ASSUME B # {}  PROVE FALSE  OBVIOUS
<1>1. PICK s \in B : \A r \in B : ~(r \subseteq s /\ r # s)
  <2>1. B \in SUBSET (SUBSET T)  OBVIOUS
  <2> HIDE DEF B
  <2> QED  BY <2>1, LeastSubset
<1> DEFINE G(r) == CHOOSE g : Solves(f, r, g)
           h == [r \in SUBSET s |-> IF r = {} THEN 0
                                    ELSE f[Picked(r)] + G(r \ {Picked(r)})[r \ {Picked(r)}]]
<1>2. ASSUME NEW r \in SUBSET s, r # s
      PROVE  Solves(f, r, G(r)) /\ IsFiniteSet(r)
  <2>1. r \in SUBSET T /\ r \notin B  BY <1>1, <1>2
  <2> QED  BY <2>1, FS_Subset
<1> HIDE DEF G
<1>3. ASSUME NEW r \in SUBSET s, r # s
      PROVE  h[r] = G(r)[r]
  <2>1. G(r)[r] = SumStep(f, G(r), r)  BY <1>2, <1>3 DEF Solves
  <2>2. CASE r = {}  BY <2>1, <2>2 DEF SumStep
  <2>3. CASE r # {}
    <3> DEFINE q == r \ {Picked(r)}
    <3>1. q \in SUBSET s /\ q # s /\ q \subseteq r  BY <1>3
    <3>2. /\ Solves(f, r, G(r)) /\ Solves(f, q, G(q)) /\ IsFiniteSet(q)
      BY <1>2, <1>3, <3>1
    <3>3. G(r)[q] = G(q)[q]  BY ONLY <3>1, <3>2, SolutionsAgree
    <3> QED  BY <2>1, <2>3, <3>3 DEF SumStep
  <2> QED  BY <2>2, <2>3
<1>4. ASSUME NEW r \in SUBSET s  PROVE h[r] = SumStep(f, h, r)
  <2>1. CASE r = {}  BY <2>1 DEF SumStep
  <2>2. CASE r # {}
    <3> DEFINE q == r \ {Picked(r)}
    <3>1. q \in SUBSET s /\ q # s  BY <2>2, PickIn
    <3>2. h[q] = G(q)[q]  BY <1>3, <3>1
    <3> QED  BY <2>2, <3>2 DEF SumStep
  <2> QED  BY <2>1, <2>2
<1>5. Solves(f, s, h)  BY <1>4 DEF Solves
<1> QED  BY <1>1, <1>5

-----------------------------------------------------------------------------
(* Sums *)

LEMMA SumEmpty == ASSUME NEW f  PROVE SumFunctionOnSet(f, {}) = 0
<1>1. PICK g : g = CHOOSE h : Solves(f, {}, h)  OBVIOUS
<1>2. Solves(f, {}, g)  BY <1>1, SolutionExists, FS_EmptySet
<1>3. {} \in SUBSET {} /\ g[{}] = SumStep(f, g, {})  BY <1>2 DEF Solves
<1> QED  BY <1>1, <1>3, Unfolded DEF SumStep

LEMMA SumOfPick ==
  ASSUME NEW f, NEW S, IsFiniteSet(S), S # {}
  PROVE  SumFunctionOnSet(f, S) = f[Picked(S)] + SumFunctionOnSet(f, S \ {Picked(S)})
<1> DEFINE R == S \ {Picked(S)}
<1>1. PICK g : g = CHOOSE h : Solves(f, S, h)  OBVIOUS
<1>2. PICK k : k = CHOOSE h : Solves(f, R, h)  OBVIOUS
<1>3. IsFiniteSet(R)  BY FS_Subset
<1>4. Solves(f, S, g) /\ Solves(f, R, k)
  BY <1>1, <1>2, <1>3, SolutionExists
<1>5. g[R] = k[R]  BY <1>3, <1>4, SolutionsAgree
<1>6. g[S] = f[Picked(S)] + g[R]
  <2>1. S \in SUBSET S  OBVIOUS
  <2>2. g[S] = SumStep(f, g, S)  BY <1>4, <2>1 DEF Solves
  <2> QED  BY <2>2 DEF SumStep
<1> QED  BY <1>1, <1>2, <1>5, <1>6, Unfolded

\* A sum of integers is one.
LEMMA SumType ==
  ASSUME NEW f, NEW S, IsFiniteSet(S), \A x \in S : f[x] \in Int
  PROVE  SumFunctionOnSet(f, S) \in Int
<1> DEFINE B == {T \in SUBSET S : SumFunctionOnSet(f, T) \notin Int}
<1> SUFFICES ASSUME B # {}  PROVE FALSE  OBVIOUS
<1>1. PICK T \in B : \A U \in B : ~(U \subseteq T /\ U # T)
  <2>1. B \in SUBSET (SUBSET S)  OBVIOUS
  <2> HIDE DEF B
  <2> QED  BY <2>1, LeastSubset
<1>2. CASE T = {}  BY <1>2, SumEmpty
<1>3. CASE T # {}
  <2>1. Picked(T) \in T /\ IsFiniteSet(T)  BY <1>3, PickIn, FS_Subset
  <2>2. SumFunctionOnSet(f, T \ {Picked(T)}) \in Int  BY <1>1, <2>1
  <2>3. SumFunctionOnSet(f, T) = f[Picked(T)] + SumFunctionOnSet(f, T \ {Picked(T)})
    BY <1>3, <2>1, SumOfPick
  <2> QED  BY <2>1, <2>2, <2>3
<1> QED  BY <1>2, <1>3

\* Any member may be taken out first.
LEMMA SumOfMember ==
  ASSUME NEW f, NEW S, IsFiniteSet(S), \A x \in S : f[x] \in Int, NEW x \in S
  PROVE  SumFunctionOnSet(f, S) = f[x] + SumFunctionOnSet(f, S \ {x})
<1> DEFINE Sum(T) == SumFunctionOnSet(f, T)
           B == {T \in SUBSET S : \E y \in T : Sum(T) # f[y] + Sum(T \ {y})}
<1> SUFFICES ASSUME B # {}  PROVE FALSE  OBVIOUS
<1>1. PICK T \in B : \A U \in B : ~(U \subseteq T /\ U # T)
  <2>1. B \in SUBSET (SUBSET S)  OBVIOUS
  <2> HIDE DEF B
  <2> QED  BY <2>1, LeastSubset
<1>2. PICK y \in T : Sum(T) # f[y] + Sum(T \ {y})  OBVIOUS
<1> DEFINE z == Picked(T)
<1>3. IsFiniteSet(T) /\ z \in T  BY FS_Subset, PickIn
<1>4. Sum(T) = f[z] + Sum(T \ {z})  BY <1>3, SumOfPick
<1> HIDE DEF z
<1>5. y # z  BY <1>2, <1>4
<1>6. T \ {z} \notin B /\ T \ {y} \notin B  BY <1>1, <1>3
<1>7. /\ Sum(T \ {z}) = f[y] + Sum((T \ {z}) \ {y})
      /\ Sum(T \ {y}) = f[z] + Sum((T \ {y}) \ {z})
  BY <1>3, <1>5, <1>6
<1>8. (T \ {z}) \ {y} = (T \ {y}) \ {z} /\ IsFiniteSet((T \ {y}) \ {z})
  BY <1>3, FS_Subset
<1>9. Sum((T \ {y}) \ {z}) \in Int /\ f[y] \in Int /\ f[z] \in Int
  BY <1>3, <1>8, SumType
<1>10. PICK a \in Int, b \in Int, c \in Int :
         a = f[y] /\ b = f[z] /\ c = Sum((T \ {y}) \ {z})
  BY <1>9
<1>11. Sum(T) = b + (a + c) /\ Sum(T \ {y}) = b + c
  BY <1>4, <1>7, <1>8, <1>10
<1> QED  BY <1>2, <1>10, <1>11

\* A new member adds its value.
LEMMA SumWithNew ==
  ASSUME NEW f, NEW S, IsFiniteSet(S), NEW x, x \notin S,
         \A y \in S \cup {x} : f[y] \in Int
  PROVE  SumFunctionOnSet(f, S \cup {x}) = f[x] + SumFunctionOnSet(f, S)
<1>1. IsFiniteSet(S \cup {x}) /\ x \in S \cup {x} /\ (S \cup {x}) \ {x} = S
  BY FS_AddElement
<1>2. SumFunctionOnSet(f, S \cup {x}) = f[x] + SumFunctionOnSet(f, (S \cup {x}) \ {x})
  BY <1>1, SumOfMember
<1> QED  BY <1>1, <1>2

\* Only the values on the set matter.
LEMMA SumSame ==
  ASSUME NEW f, NEW g, NEW S, IsFiniteSet(S), \A x \in S : f[x] = g[x]
  PROVE  SumFunctionOnSet(f, S) = SumFunctionOnSet(g, S)
<1> DEFINE B == {T \in SUBSET S : SumFunctionOnSet(f, T) # SumFunctionOnSet(g, T)}
<1> SUFFICES ASSUME B # {}  PROVE FALSE  OBVIOUS
<1>1. PICK T \in B : \A U \in B : ~(U \subseteq T /\ U # T)
  <2>1. B \in SUBSET (SUBSET S)  OBVIOUS
  <2> HIDE DEF B
  <2> QED  BY <2>1, LeastSubset
<1>2. CASE T = {}  BY <1>2, SumEmpty
<1>3. CASE T # {}
  <2>1. Picked(T) \in T /\ IsFiniteSet(T)  BY <1>3, PickIn, FS_Subset
  <2>2. SumFunctionOnSet(f, T \ {Picked(T)}) = SumFunctionOnSet(g, T \ {Picked(T)})
    BY <1>1, <2>1
  <2>3. /\ SumFunctionOnSet(f, T) = f[Picked(T)] + SumFunctionOnSet(f, T \ {Picked(T)})
        /\ SumFunctionOnSet(g, T) = g[Picked(T)] + SumFunctionOnSet(g, T \ {Picked(T)})
    BY <1>3, <2>1, SumOfPick
  <2> QED  BY <2>1, <2>2, <2>3
<1> QED  BY <1>2, <1>3

\* A sum of terms that are not negative is not negative.
LEMMA SumNonNegative ==
  ASSUME NEW f, NEW S, IsFiniteSet(S), \A x \in S : f[x] \in Nat
  PROVE  SumFunctionOnSet(f, S) \in Nat
<1> DEFINE B == {T \in SUBSET S : SumFunctionOnSet(f, T) \notin Nat}
<1> SUFFICES ASSUME B # {}  PROVE FALSE  OBVIOUS
<1>1. PICK T \in B : \A U \in B : ~(U \subseteq T /\ U # T)
  <2>1. B \in SUBSET (SUBSET S)  OBVIOUS
  <2> HIDE DEF B
  <2> QED  BY <2>1, LeastSubset
<1>2. CASE T = {}  BY <1>2, SumEmpty
<1>3. CASE T # {}
  <2>1. Picked(T) \in T /\ IsFiniteSet(T)  BY <1>3, PickIn, FS_Subset
  <2>2. SumFunctionOnSet(f, T \ {Picked(T)}) \in Nat  BY <1>1, <2>1
  <2>3. SumFunctionOnSet(f, T) = f[Picked(T)] + SumFunctionOnSet(f, T \ {Picked(T)})
    BY <1>3, <2>1, SumOfPick
  <2> QED  BY <2>1, <2>2, <2>3
<1> QED  BY <1>2, <1>3

\* Where every term is zero, so is the sum.
LEMMA SumZero ==
  ASSUME NEW f, NEW S, IsFiniteSet(S), \A x \in S : f[x] = 0
  PROVE  SumFunctionOnSet(f, S) = 0
<1> DEFINE B == {T \in SUBSET S : SumFunctionOnSet(f, T) # 0}
<1> SUFFICES ASSUME B # {}  PROVE FALSE  OBVIOUS
<1>1. PICK T \in B : \A U \in B : ~(U \subseteq T /\ U # T)
  <2>1. B \in SUBSET (SUBSET S)  OBVIOUS
  <2> HIDE DEF B
  <2> QED  BY <2>1, LeastSubset
<1>2. CASE T = {}  BY <1>2, SumEmpty
<1>3. CASE T # {}
  <2>1. Picked(T) \in T /\ IsFiniteSet(T)  BY <1>3, PickIn, FS_Subset
  <2>2. SumFunctionOnSet(f, T \ {Picked(T)}) = 0  BY <1>1, <2>1
  <2>3. SumFunctionOnSet(f, T) = f[Picked(T)] + SumFunctionOnSet(f, T \ {Picked(T)})
    BY <1>3, <2>1, SumOfPick
  <2> QED  BY <2>1, <2>2, <2>3
<1> QED  BY <1>2, <1>3

\* A sum splits over disjoint sets.
LEMMA SumUnion ==
  ASSUME NEW f, NEW S, NEW T, IsFiniteSet(S), IsFiniteSet(T), S \cap T = {},
         \A x \in S \cup T : f[x] \in Int
  PROVE  SumFunctionOnSet(f, S \cup T) = SumFunctionOnSet(f, S) + SumFunctionOnSet(f, T)
<1> DEFINE Sum(U) == SumFunctionOnSet(f, U)
           B == {R \in SUBSET S : Sum(R \cup T) # Sum(R) + Sum(T)}
<1> SUFFICES ASSUME B # {}  PROVE FALSE  OBVIOUS
<1>1. PICK R \in B : \A U \in B : ~(U \subseteq R /\ U # R)
  <2>1. B \in SUBSET (SUBSET S)  OBVIOUS
  <2> HIDE DEF B
  <2> QED  BY <2>1, LeastSubset
<1>2. Sum(R \cup T) # Sum(R) + Sum(T)  OBVIOUS
<1>3. IsFiniteSet(R) /\ IsFiniteSet(R \cup T) /\ Sum(T) \in Int
  BY FS_Subset, FS_Union, SumType
<1>4. CASE R = {}
  <2>1. Sum(R) = 0 /\ R \cup T = T  BY <1>4, SumEmpty
  <2>2. Sum(T) # 0 + Sum(T)  BY ONLY <1>2, <2>1
  <2> QED  BY ONLY <1>3, <2>2
<1>5. CASE R # {}
  <2>1. PICK x : x \in R  BY <1>5
  <2> DEFINE Q == R \ {x}
  <2>2. Q \notin B /\ Q \in SUBSET S  BY <1>1, <2>1
  <2>3. Sum(Q \cup T) = Sum(Q) + Sum(T)  BY <2>2
  <2>4. IsFiniteSet(Q) /\ Sum(Q) \in Int /\ f[x] \in Int
    BY <1>3, <2>1, FS_Subset, SumType
  <2>5. Sum(R) = f[x] + Sum(Q)  BY <1>3, <2>1, SumOfMember
  <2>6. Sum(R \cup T) = f[x] + Sum(Q \cup T)
    <3> DEFINE W == R \cup T
    <3>1. W \ {x} = Q \cup T
      <4>1. R \subseteq S  OBVIOUS
      <4>2. x \in S /\ x \notin T  BY <4>1, <2>1
      <4> QED  BY <4>2
    <3>2. IsFiniteSet(W) /\ x \in W /\ \A y \in W : f[y] \in Int
      BY <1>3, <2>1
    <3> HIDE DEF W
    <3>3. Sum(W) = f[x] + Sum(W \ {x})  BY <3>2, SumOfMember
    <3> QED  BY <3>1, <3>3 DEF W
  <2>7. PICK a \in Int, b \in Int, c \in Int : a = f[x] /\ b = Sum(Q) /\ c = Sum(T)
    BY <1>3, <2>4
  <2>8. Sum(R \cup T) = a + (b + c) /\ Sum(R) = a + b
    BY <2>3, <2>5, <2>6, <2>7
  <2> QED  BY <1>2, <2>7, <2>8
<1> QED  BY <1>4, <1>5

\* A part of a sum of naturals is no more than the whole.
LEMMA SumOfPart ==
  ASSUME NEW f, NEW S, NEW T, IsFiniteSet(S), T \subseteq S, \A x \in S : f[x] \in Nat
  PROVE  SumFunctionOnSet(f, T) <= SumFunctionOnSet(f, S)
<1>1. IsFiniteSet(T) /\ IsFiniteSet(S \ T) /\ S = T \cup (S \ T)  BY FS_Subset
<1>2. SumFunctionOnSet(f, T \cup (S \ T)) = SumFunctionOnSet(f, T) + SumFunctionOnSet(f, S \ T)
  <2>1. T \cap (S \ T) = {} /\ \A x \in T \cup (S \ T) : f[x] \in Int  OBVIOUS
  <2> QED  BY <1>1, <2>1, SumUnion
<1>3. PICK a \in Nat, b \in Nat : a = SumFunctionOnSet(f, T) /\ b = SumFunctionOnSet(f, S \ T)
  BY <1>1, SumNonNegative
<1>4. SumFunctionOnSet(f, S) = a + b /\ a <= a + b  BY <1>1, <1>2, <1>3
<1> QED  BY <1>3, <1>4

\* A sum moves by what one of its terms moves.
LEMMA SumMoved ==
  ASSUME NEW f, NEW g, NEW S, IsFiniteSet(S), NEW x \in S,
         \A y \in S : f[y] \in Int,
         g[x] \in Int, \A y \in S \ {x} : g[y] = f[y]
  PROVE  SumFunctionOnSet(g, S) = SumFunctionOnSet(f, S) + (g[x] - f[x])
<1>1. IsFiniteSet(S \ {x}) /\ \A y \in S : g[y] \in Int  BY FS_Subset
<1>2. SumFunctionOnSet(g, S \ {x}) = SumFunctionOnSet(f, S \ {x})
  BY <1>1, SumSame
<1>3. /\ SumFunctionOnSet(g, S) = g[x] + SumFunctionOnSet(g, S \ {x})
      /\ SumFunctionOnSet(f, S) = f[x] + SumFunctionOnSet(f, S \ {x})
  BY <1>1, SumOfMember
<1>4. SumFunctionOnSet(f, S \ {x}) \in Int /\ f[x] \in Int  BY <1>1, SumType
<1> QED  BY <1>2, <1>3, <1>4
=============================================================================
