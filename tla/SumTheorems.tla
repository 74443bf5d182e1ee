---------------------------- MODULE SumTheorems -----------------------------
(***************************************************************************)
(* The laws of SumFunctionOnSet (Functions) over finite sets of indices:   *)
(* what the models add up is a sum of an integer function, and what their  *)
(* actions do is to change the function at one index.                      *)
(*                                                                         *)
(* The provers take no theorem with an operator parameter, so there is no  *)
(* induction principle to cite.  Each law is proved by least               *)
(* counterexample: a family of subsets of a finite set, if it is not       *)
(* empty, has a member none of whose elements can be taken out within the  *)
(* family (MinimalMember).                                                 *)
(***************************************************************************)
EXTENDS Integers, Functions, FiniteSetTheorems, WellFoundedInduction, TLAPS

\* Every set of naturals that is not empty has a least element.
LEMMA LeastNat ==
  ASSUME NEW T \in SUBSET Nat, T # {}
  PROVE  \E m \in T : \A n \in T : m <= n
  <1> DEFINE R == OpToRel(<, Nat)
  <1>1. IsWellFoundedOn(R, Nat)
    BY NatLessThanWellFounded
  <1>2. \A m, n \in Nat : n < m => <<n, m>> \in R
    BY DEF OpToRel
  <1> HIDE DEF R
  <1>3. PICK x \in T : \A y \in T : ~ (<<y, x>> \in R)
    BY <1>1, WFMin
  <1>4. \A y \in T : x <= y
    <2> TAKE y \in T
    <2>1. x \in Nat /\ y \in Nat /\ (y < x => <<y, x>> \in R) /\ ~ (<<y, x>> \in R)
      BY <1>2, <1>3, Zenon
    <2>2. ~(y < x)
      BY <2>1, Zenon
    <2>3. QED
      BY <2>1, <2>2
  <1>5. QED
    BY <1>4

\* A family of subsets of a finite set has a member that is minimal.
LEMMA MinimalMember ==
  ASSUME NEW S, IsFiniteSet(S), NEW F \in SUBSET SUBSET S, F # {}
  PROVE  \E s \in F : IsFiniteSet(s) /\ \A x \in s : s \ {x} \notin F
  <1> DEFINE Sizes == {n \in Nat : \E s \in F : Cardinality(s) = n}
  <1>1. \A s \in SUBSET S : IsFiniteSet(s) /\ Cardinality(s) \in Nat
    BY FS_Subset, FS_CardinalityType
  <1>2. Sizes # {} /\ Sizes \in SUBSET Nat
    BY <1>1
  <1>3. PICK m \in Sizes : \A n \in Sizes : m <= n
    <2> HIDE DEF Sizes
    <2>1. QED
      BY <1>2, LeastNat
  <1>4. PICK s \in F : Cardinality(s) = m
    BY <1>3
  <1>5. ASSUME NEW x \in s, s \ {x} \in F
        PROVE  FALSE
    <2>1. Cardinality(s \ {x}) = m - 1
      BY <1>1, <1>4, FS_RemoveElement
    <2>2. m - 1 \in Sizes
      BY <1>1, <1>5, <2>1
    <2>3. m \in Nat /\ m <= m - 1
      <3> HIDE DEF Sizes
      <3>1. QED
        BY <1>2, <1>3, <2>2
    <2>4. QED
      BY <2>3
  <1>6. QED
    BY <1>1, <1>5

\* The subsets of S of at most n elements.
UpTo(S, n) == {s \in SUBSET S : Cardinality(s) <= n}

\* Only the empty set has no element.
LEMMA UpToZero ==
  ASSUME NEW S, IsFiniteSet(S)
  PROVE  \A s \in UpTo(S, 0) : s = {}
  BY FS_Subset, FS_EmptySet, FS_CardinalityType DEF UpTo

\* Every subset has at most as many elements as the set.
LEMMA UpToAll ==
  ASSUME NEW S, IsFiniteSet(S)
  PROVE  /\ Cardinality(S) \in Nat
         /\ UpTo(S, Cardinality(S)) = SUBSET S
  BY FS_Subset, FS_CardinalityType DEF UpTo

\* One element less.
LEMMA UpToLess ==
  ASSUME NEW S, IsFiniteSet(S), NEW n \in Nat, NEW s \in UpTo(S, n + 1), NEW x \in s
  PROVE  s \ {x} \in UpTo(S, n) /\ s \ {x} \in UpTo(S, n + 1)
  <1>1. s \in SUBSET S /\ IsFiniteSet(s) /\ Cardinality(s) <= n + 1
    BY FS_Subset DEF UpTo
  <1>2. Cardinality(s) \in Nat /\ Cardinality(s \ {x}) = Cardinality(s) - 1
    BY <1>1, FS_RemoveElement, FS_CardinalityType
  <1>3. QED
    BY <1>1, <1>2 DEF UpTo

-----------------------------------------------------------------------------
(* The recursion behind SumFunctionOnSet has one solution. *)

Pick(s) == CHOOSE x \in s : TRUE

SumStep(g, f, s) == IF s = {} THEN 0 ELSE f[Pick(s)] + g[s \ {Pick(s)}]

IsSum(g, f, S) == g = [s \in SUBSET S |-> SumStep(g, f, s)]

\* What is picked from a set is in it.
LEMMA PickIn == \A s : s # {} => Pick(s) \in s
  BY DEF Pick

\* SumFunctionOnSet is a solution of the recursion, if there is one.
LEMMA SumIsChosen ==
  ASSUME NEW f, NEW S
  PROVE  SumFunctionOnSet(f, S) = (CHOOSE g : IsSum(g, f, S))[S]
  BY DEF SumFunctionOnSet, FoldFunctionOnSet, MapThenFoldSet, IsSum, SumStep, Pick

\* Solutions over a set and over a subset of it agree there.
LEMMA SumUnique ==
  ASSUME NEW f, NEW S, IsFiniteSet(S), NEW T \in SUBSET S,
         NEW g, IsSum(g, f, S), NEW h, IsSum(h, f, T)
  PROVE  h[T] = g[T]
  <1> DEFINE F == {s \in SUBSET T : h[s] # g[s]}
  <1>1. ASSUME F # {} PROVE FALSE
    <2>1. IsFiniteSet(T) /\ F \in SUBSET SUBSET T
      BY FS_Subset
    <2>2. PICK s \in F : IsFiniteSet(s) /\ \A x \in s : s \ {x} \notin F
      <3> HIDE DEF F
      <3>1. QED
        BY <1>1, <2>1, MinimalMember
    <2>3. /\ g[s] = SumStep(g, f, s)
          /\ h[s] = SumStep(h, f, s)
      BY DEF IsSum
    <2>4. s # {}
      BY <2>3 DEF SumStep
    <2>5. h[s \ {Pick(s)}] = g[s \ {Pick(s)}]
      BY <2>2, <2>4, PickIn
    <2>6. QED
      BY <2>3, <2>4, <2>5 DEF SumStep
  <1>2. QED
    BY <1>1

\* A solution over the subsets of at most n elements.
Solves(g, f, S, n) == g = [s \in UpTo(S, n) |-> SumStep(g, f, s)]

\* The equations have a solution on the empty set.
LEMMA SumStart ==
  ASSUME NEW f, NEW S, IsFiniteSet(S)
  PROVE  \E g : Solves(g, f, S, 0)
  <1> DEFINE g == [s \in UpTo(S, 0) |-> 0]
  <1>1. Solves(g, f, S, 0)
    BY UpToZero DEF SumStep, Solves
  <1>2. QED
    BY <1>1

\* A solution up to n elements gives one up to n + 1.
LEMMA SumExtends ==
  ASSUME NEW f, NEW S, IsFiniteSet(S), NEW n \in Nat, NEW g, Solves(g, f, S, n)
  PROVE  \E h : Solves(h, f, S, n + 1)
  <1> DEFINE h == [s \in UpTo(S, n + 1) |-> SumStep(g, f, s)]
  <1>1. ASSUME NEW s \in UpTo(S, n + 1)
        PROVE  SumStep(g, f, s) = SumStep(h, f, s)
    <2>1. CASE s = {}
      BY <2>1 DEF SumStep
    <2>2. CASE s # {}
      <3> DEFINE r == s \ {Pick(s)}
      <3>1. r \in UpTo(S, n) /\ r \in UpTo(S, n + 1)
        BY <2>2, PickIn, UpToLess
      <3>2. g[r] = SumStep(g, f, r) /\ h[r] = SumStep(g, f, r)
        BY <3>1 DEF Solves
      <3> HIDE DEF h
      <3>3. QED
        BY <3>2, <2>2 DEF SumStep
    <2>3. QED
      BY <2>1, <2>2
  <1>2. Solves(h, f, S, n + 1)
    BY <1>1 DEF Solves
  <1>3. QED
    BY <1>2

\* They have one on all subsets of a finite set: there is no least size without.
LEMMA SumExists ==
  ASSUME NEW f, NEW S, IsFiniteSet(S)
  PROVE  \E g : IsSum(g, f, S)
  <1> DEFINE Bad == {n \in Nat : ~ \E g : Solves(g, f, S, n)}
  <1>1. ASSUME Bad # {} PROVE FALSE
    <2>1. Bad \in SUBSET Nat
      OBVIOUS
    <2>2. PICK m \in Bad : \A n \in Bad : m <= n
      <3> HIDE DEF Bad
      <3>1. QED
        BY <1>1, <2>1, LeastNat
    <2>3. m # 0
      BY <2>2, SumStart
    <2>4. m - 1 \in Nat /\ m - 1 \notin Bad
      <3>1. m \in Nat
        BY <2>2
      <3> HIDE DEF Bad
      <3>2. QED
        BY <2>2, <2>3, <3>1
    <2>5. PICK g : Solves(g, f, S, m - 1)
      BY <2>4
    <2>6. \E h : Solves(h, f, S, (m - 1) + 1)
      BY <2>4, <2>5, SumExtends
    <2>7. QED
      BY <2>2, <2>6
  <1>2. PICK g : Solves(g, f, S, Cardinality(S))
    BY <1>1, UpToAll
  <1>3. QED
    BY <1>2, UpToAll DEF IsSum, Solves

\* The library's sum is that solution.
LEMMA SumSolves ==
  ASSUME NEW f, NEW S, IsFiniteSet(S)
  PROVE  \E g : IsSum(g, f, S) /\ \A T \in SUBSET S : SumFunctionOnSet(f, T) = g[T]
  <1>1. PICK g : IsSum(g, f, S)
    BY SumExists
  <1>2. ASSUME NEW T \in SUBSET S
        PROVE  SumFunctionOnSet(f, T) = g[T]
    <2>1. IsFiniteSet(T)
      BY FS_Subset
    <2> DEFINE h == CHOOSE h : IsSum(h, f, T)
    <2>2. IsSum(h, f, T)
      BY <2>1, SumExists
    <2>3. SumFunctionOnSet(f, T) = h[T]
      BY SumIsChosen
    <2> HIDE DEF h
    <2>4. QED
      BY <1>1, <2>2, <2>3, SumUnique
  <1>3. QED
    BY <1>1, <1>2

-----------------------------------------------------------------------------
(* The laws. *)

\* A sum over no index is zero.
THEOREM SumEmpty == \A f : SumFunctionOnSet(f, {}) = 0
  <1> TAKE f
  <1>1. PICK g : IsSum(g, f, {}) /\ \A T \in SUBSET {} : SumFunctionOnSet(f, T) = g[T]
    BY SumSolves, FS_EmptySet
  <1>2. {} \in SUBSET {}
    OBVIOUS
  <1>3. QED
    BY <1>1, <1>2 DEF IsSum, SumStep

\* The equation SumFunctionOnSet is defined by.
LEMMA SumPick ==
  ASSUME NEW f, NEW S, IsFiniteSet(S), S # {}
  PROVE  /\ Pick(S) \in S
         /\ SumFunctionOnSet(f, S) = f[Pick(S)] + SumFunctionOnSet(f, S \ {Pick(S)})
  <1>1. PICK g : IsSum(g, f, S) /\ \A T \in SUBSET S : SumFunctionOnSet(f, T) = g[T]
    BY SumSolves
  <1>2. S \in SUBSET S /\ S \ {Pick(S)} \in SUBSET S
    OBVIOUS
  <1>3. QED
    BY <1>1, <1>2, PickIn DEF IsSum, SumStep

\* The sum of an integer function is an integer.
THEOREM SumType ==
  ASSUME NEW D, NEW f \in [D -> Int], NEW S \in SUBSET D, IsFiniteSet(S)
  PROVE  SumFunctionOnSet(f, S) \in Int
  <1> DEFINE F == {s \in SUBSET S : SumFunctionOnSet(f, s) \notin Int}
  <1>1. ASSUME F # {} PROVE FALSE
    <2>1. PICK s \in F : IsFiniteSet(s) /\ \A x \in s : s \ {x} \notin F
      <3>1. F \in SUBSET SUBSET S
        OBVIOUS
      <3> HIDE DEF F
      <3>2. QED
        BY <1>1, <3>1, MinimalMember
    <2>2. s # {}
      BY SumEmpty
    <2>3. /\ Pick(s) \in s
          /\ SumFunctionOnSet(f, s) = f[Pick(s)] + SumFunctionOnSet(f, s \ {Pick(s)})
      BY <2>1, <2>2, SumPick
    <2>4. SumFunctionOnSet(f, s \ {Pick(s)}) \in Int /\ f[Pick(s)] \in Int
      BY <2>1, <2>3
    <2>5. QED
      BY <2>3, <2>4
  <1>2. QED
    BY <1>1

\* Any index can be taken out: the order of a sum does not matter.
THEOREM SumTake ==
  ASSUME NEW D, NEW f \in [D -> Int], NEW S \in SUBSET D, IsFiniteSet(S), NEW x \in S
  PROVE  SumFunctionOnSet(f, S) = f[x] + SumFunctionOnSet(f, S \ {x})
  <1> DEFINE Taken(s, y) == SumFunctionOnSet(f, s) = f[y] + SumFunctionOnSet(f, s \ {y})
             F == {s \in SUBSET S : \E y \in s : ~ Taken(s, y)}
  <1>1. ASSUME F # {} PROVE FALSE
    <2>1. PICK s \in F : IsFiniteSet(s) /\ \A z \in s : s \ {z} \notin F
      <3>1. F \in SUBSET SUBSET S
        OBVIOUS
      <3> HIDE DEF F
      <3>2. QED
        BY <1>1, <3>1, MinimalMember
    <2>2. PICK y \in s : ~ Taken(s, y)
      OBVIOUS
    <2> DEFINE p == Pick(s)
    <2>3. p \in s /\ Taken(s, p)
      BY <2>1, SumPick
    <2> HIDE DEF p
    <2>4. p # y
      BY <2>2, <2>3
    <2>5. Taken(s \ {p}, y) /\ Taken(s \ {y}, p)
      <3>1. /\ s \ {p} \in SUBSET S /\ s \ {p} \notin F
            /\ s \ {y} \in SUBSET S /\ s \ {y} \notin F
            /\ y \in s \ {p} /\ p \in s \ {y}
        BY <2>1, <2>3, <2>4
      <3> HIDE DEF Taken
      <3>2. QED
        BY <3>1
    <2>6. (s \ {p}) \ {y} = (s \ {y}) \ {p}
      OBVIOUS
    <2>7. /\ f[p] \in Int /\ f[y] \in Int
          /\ SumFunctionOnSet(f, (s \ {y}) \ {p}) \in Int
      <3>1. IsFiniteSet((s \ {y}) \ {p}) /\ (s \ {y}) \ {p} \in SUBSET D
        BY <2>1, FS_Subset
      <3>2. QED
        BY <2>3, <3>1, SumType
    <2>8. /\ SumFunctionOnSet(f, s) # f[y] + SumFunctionOnSet(f, s \ {y})
          /\ SumFunctionOnSet(f, s) = f[p] + SumFunctionOnSet(f, s \ {p})
          /\ SumFunctionOnSet(f, s \ {p}) = f[y] + SumFunctionOnSet(f, (s \ {y}) \ {p})
          /\ SumFunctionOnSet(f, s \ {y}) = f[p] + SumFunctionOnSet(f, (s \ {y}) \ {p})
      BY <2>2, <2>3, <2>5, <2>6
    <2> HIDE DEF F
    <2>9. QED
      BY <2>7, <2>8
  <1>2. QED
    BY <1>1

\* Only the values at the indices matter.
THEOREM SumAgree ==
  ASSUME NEW S, IsFiniteSet(S), NEW f, NEW h, \A x \in S : f[x] = h[x]
  PROVE  SumFunctionOnSet(f, S) = SumFunctionOnSet(h, S)
  <1> DEFINE F == {s \in SUBSET S : SumFunctionOnSet(f, s) # SumFunctionOnSet(h, s)}
  <1>1. ASSUME F # {} PROVE FALSE
    <2>1. PICK s \in F : IsFiniteSet(s) /\ \A x \in s : s \ {x} \notin F
      <3>1. F \in SUBSET SUBSET S
        OBVIOUS
      <3> HIDE DEF F
      <3>2. QED
        BY <1>1, <3>1, MinimalMember
    <2>2. SumFunctionOnSet(f, s) # SumFunctionOnSet(h, s) /\ s # {}
      BY SumEmpty
    <2>3. /\ Pick(s) \in s
          /\ SumFunctionOnSet(f, s) = f[Pick(s)] + SumFunctionOnSet(f, s \ {Pick(s)})
          /\ SumFunctionOnSet(h, s) = h[Pick(s)] + SumFunctionOnSet(h, s \ {Pick(s)})
      BY <2>1, <2>2, SumPick
    <2>4. SumFunctionOnSet(f, s \ {Pick(s)}) = SumFunctionOnSet(h, s \ {Pick(s)})
      BY <2>1, <2>3
    <2>5. f[Pick(s)] = h[Pick(s)]
      BY <2>3
    <2> HIDE DEF F
    <2>6. QED
      BY <2>2, <2>3, <2>4, <2>5
  <1>2. QED
    BY <1>1

\* A change at one index changes the sum by as much.
THEOREM SumChange ==
  ASSUME NEW D, NEW f \in [D -> Int], NEW h \in [D -> Int],
         NEW S \in SUBSET D, IsFiniteSet(S), NEW x \in S,
         \A y \in S \ {x} : f[y] = h[y]
  PROVE  SumFunctionOnSet(h, S) = SumFunctionOnSet(f, S) + (h[x] - f[x])
  <1>1. IsFiniteSet(S \ {x}) /\ S \ {x} \in SUBSET D
    BY FS_RemoveElement
  <1>2. SumFunctionOnSet(f, S) = f[x] + SumFunctionOnSet(f, S \ {x})
    BY SumTake
  <1>3. SumFunctionOnSet(h, S) = h[x] + SumFunctionOnSet(h, S \ {x})
    BY SumTake
  <1>4. SumFunctionOnSet(f, S \ {x}) = SumFunctionOnSet(h, S \ {x})
    BY <1>1, SumAgree
  <1>5. SumFunctionOnSet(f, S \ {x}) \in Int /\ f[x] \in Int /\ h[x] \in Int
    BY <1>1, SumType
  <1>6. QED
    BY <1>2, <1>3, <1>4, <1>5

\* A sum of zeros is zero.
THEOREM SumOfZeros ==
  ASSUME NEW S, IsFiniteSet(S), NEW f, \A x \in S : f[x] = 0
  PROVE  SumFunctionOnSet(f, S) = 0
  <1> DEFINE F == {s \in SUBSET S : SumFunctionOnSet(f, s) # 0}
  <1>1. ASSUME F # {} PROVE FALSE
    <2>1. PICK s \in F : IsFiniteSet(s) /\ \A x \in s : s \ {x} \notin F
      <3>1. F \in SUBSET SUBSET S
        OBVIOUS
      <3> HIDE DEF F
      <3>2. QED
        BY <1>1, <3>1, MinimalMember
    <2>2. s # {}
      BY SumEmpty
    <2>3. /\ Pick(s) \in s
          /\ SumFunctionOnSet(f, s) = f[Pick(s)] + SumFunctionOnSet(f, s \ {Pick(s)})
      BY <2>1, <2>2, SumPick
    <2>4. SumFunctionOnSet(f, s \ {Pick(s)}) = 0 /\ f[Pick(s)] = 0
      BY <2>1, <2>3
    <2>5. QED
      BY <2>3, <2>4
  <1>2. QED
    BY <1>1
=============================================================================
