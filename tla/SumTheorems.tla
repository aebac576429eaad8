---------------------------- MODULE SumTheorems -----------------------------
(***************************************************************************)
(* Sums over finite sets: what SumFunctionOnSet of the community module    *)
(* Functions computes.  Every account of money, shares or quantities in    *)
(* these modules is such a sum, and what a step does to an account follows *)
(* from the theorems here.                                                 *)
(*                                                                         *)
(* They are proved by induction over finite sets, which is stated here for *)
(* a set G of the subsets that are good: a set of bad subsets has a        *)
(* smallest member, as strict inclusion is well founded on finite subsets. *)
(***************************************************************************)
EXTENDS Integers, Functions, FiniteSetTheorems, WellFoundedInduction, TLAPS

-----------------------------------------------------------------------------
(* Induction.                                                              *)

\* A set of bad subsets of a finite set has a member from which no single
\* element can be removed such that it stays bad.
LEMMA LeastSubset ==
    ASSUME NEW S, IsFiniteSet(S), NEW Bad \in SUBSET SUBSET S, Bad # {}
    PROVE  \E T \in Bad : \A x \in T : T \ {x} \notin Bad
<1>1. IsWellFoundedOn(StrictSubsetOrdering(S), FiniteSubsetsOf(S))
  BY FS_StrictSubsetOrderingWellFounded
<1>2. Bad \subseteq FiniteSubsetsOf(S)
  BY FS_FiniteSubsetsOfFinite
<1>3. PICK T \in Bad : \A U \in Bad : <<U, T>> \notin StrictSubsetOrdering(S)
  BY <1>1, <1>2, WFMin
<1>4. ASSUME NEW x \in T  PROVE T \ {x} \notin Bad
  <2>1. T \ {x} # T /\ T \ {x} \subseteq T /\ T \ {x} \in SUBSET S /\ T \in SUBSET S
    OBVIOUS
  <2>2. <<T \ {x}, T>> \in StrictSubsetOrdering(S)
    BY <2>1 DEF StrictSubsetOrdering
  <2>. QED  BY <1>3, <2>2
<1>. QED  BY <1>4

\* What holds at 0, and at k + 1 whenever it holds at k, holds at n.
LEMMA IntervalInduction ==
    ASSUME NEW n \in Nat, NEW G, 0 \in G,
           \A k \in 0 .. n - 1 : k \in G => k + 1 \in G
    PROVE  n \in G
<1>. DEFINE Bad == {1 .. k : k \in {j \in 0 .. n : j \notin G}}
<1>. SUFFICES ASSUME n \notin G PROVE FALSE
  OBVIOUS
<1>1. Bad \in SUBSET SUBSET (1 .. n) /\ 1 .. n \in Bad
  OBVIOUS
<1>2. IsFiniteSet(1 .. n)
  BY FS_Interval
<1>3. PICK T \in Bad : \A x \in T : T \ {x} \notin Bad
  <2>. HIDE DEF Bad
  <2>. QED  BY <1>1, <1>2, LeastSubset
<1>4. PICK k \in 0 .. n : k \notin G /\ T = 1 .. k
  OBVIOUS
<1>5. k \in T /\ k - 1 \in 0 .. n - 1
  BY <1>4
<1>6. T \ {k} = 1 .. k - 1
  BY <1>4
<1>7. k - 1 \notin G
  BY <1>4, <1>5
<1>. QED  BY <1>3, <1>5, <1>6, <1>7

-----------------------------------------------------------------------------
(* The recursion behind SumFunctionOnSet.                                  *)

\* The element that is added next, one step of the recursion, and the function
\* that is the sum of every subset of S.
Chosen(s) == CHOOSE x \in s : TRUE
SumBody(f, g, s) == IF s = {} THEN 0 ELSE f[Chosen(s)] + g[s \ {Chosen(s)}]
IsSumRec(g, f, S) == g = [s \in SUBSET S |-> SumBody(f, g, s)]
SumRec(f, S) == CHOOSE g : g = [s \in SUBSET S |-> SumBody(f, g, s)]

\* The element that is added next is one of the set.
LEMMA ChosenIn == ASSUME NEW s, s # {} PROVE Chosen(s) \in s
  BY DEF Chosen

\* The sum of the community module is that function at the whole set.
LEMMA SumUnfold ==
    ASSUME NEW f, NEW S
    PROVE  SumFunctionOnSet(f, S) = SumRec(f, S)[S]
  BY DEF SumFunctionOnSet, FoldFunctionOnSet, MapThenFoldSet, SumRec, SumBody, Chosen

\* The recursion defines a function, by induction on the size of the subsets.
LEMMA SumRecExists ==
    ASSUME NEW f, NEW S, IsFiniteSet(S)
    PROVE  IsSumRec(SumRec(f, S), f, S)
<1>. DEFINE UpTo(n) == {s \in SUBSET S : Cardinality(s) <= n}
            Has(n) == \E g : g = [s \in UpTo(n) |-> SumBody(f, g, s)]
            G == {n \in 0 .. Cardinality(S) : Has(n)}
<1>1. \A s \in SUBSET S : IsFiniteSet(s) /\ Cardinality(s) \in Nat /\ Cardinality(s) <= Cardinality(S)
  BY FS_Subset, FS_CardinalityType
<1>2. \A s \in SUBSET S : s # {} => /\ s \ {Chosen(s)} \in SUBSET S
                                    /\ Cardinality(s \ {Chosen(s)}) = Cardinality(s) - 1
  BY <1>1, FS_RemoveElement, ChosenIn
<1>0. Cardinality(S) \in Nat
  BY <1>1
<1>3. 0 \in G
  <2>. DEFINE g == [s \in UpTo(0) |-> 0]
  <2>1. \A s \in UpTo(0) : s = {}
    BY <1>1, FS_EmptySet
  <2>2. \A s \in UpTo(0) : SumBody(f, g, s) = 0
    BY <2>1 DEF SumBody
  <2>3. g = [s \in UpTo(0) |-> SumBody(f, g, s)]
    BY <2>2
  <2>4. Has(0)
    <3>. HIDE DEF g, UpTo
    <3>. QED  BY <2>3
  <2>. HIDE DEF Has
  <2>. QED  BY <2>4, <1>0
<1>4. ASSUME NEW n \in 0 .. Cardinality(S) - 1, n \in G  PROVE n + 1 \in G
  <2>1. PICK g : g = [s \in UpTo(n) |-> SumBody(f, g, s)]
    BY <1>4
  <2>. DEFINE h == [s \in UpTo(n + 1) |-> IF s \in UpTo(n) THEN g[s] ELSE SumBody(f, g, s)]
  <2>2. ASSUME NEW s \in UpTo(n + 1), s # {}
        PROVE  s \ {Chosen(s)} \in UpTo(n) /\ h[s \ {Chosen(s)}] = g[s \ {Chosen(s)}]
    <3>1. s \ {Chosen(s)} \in UpTo(n) /\ s \ {Chosen(s)} \in UpTo(n + 1)
      BY <1>0, <1>1, <1>2, <2>2
    <3>. QED  BY <3>1
  <2>3. ASSUME NEW s \in UpTo(n + 1)  PROVE h[s] = SumBody(f, h, s)
    <3>1. SumBody(f, h, s) = SumBody(f, g, s)
      <4>. HIDE DEF h, UpTo
      <4>. QED  BY <2>2 DEF SumBody
    <3>2. s \in UpTo(n) => g[s] = SumBody(f, g, s)
      <4>. HIDE DEF UpTo
      <4>. QED BY <2>1
    <3>. QED  BY <3>1, <3>2
  <2>4. h = [s \in UpTo(n + 1) |-> SumBody(f, h, s)]
    <3>1. h = [s \in UpTo(n + 1) |-> h[s]]
      OBVIOUS
    <3>. HIDE DEF h
    <3>. QED  BY <3>1, <2>3
  <2>5. Has(n + 1)
    <3>. HIDE DEF h, UpTo
    <3>. QED  BY <2>4
  <2>. HIDE DEF Has
  <2>. QED  BY <2>5, <1>0
<1>5. Cardinality(S) \in G
  <2>. HIDE DEF G
  <2>. QED  BY <1>0, <1>3, <1>4, IntervalInduction
<1>6. UpTo(Cardinality(S)) = SUBSET S
  BY <1>1
<1>7. \E g : g = [s \in SUBSET S |-> SumBody(f, g, s)]
  BY <1>5, <1>6
<1>. QED  BY <1>7 DEF SumRec, IsSumRec

\* What that function is at a subset.
LEMMA SumRecAt ==
    ASSUME NEW f, NEW S, IsFiniteSet(S), NEW T \in SUBSET S
    PROVE  SumRec(f, S)[T] = SumBody(f, SumRec(f, S), T)
<1>1. IsSumRec(SumRec(f, S), f, S)
  BY SumRecExists
<1>2. ASSUME NEW g, IsSumRec(g, f, S)  PROVE g[T] = SumBody(f, g, T)
  BY <1>2 DEF IsSumRec
<1>. QED  BY <1>1, <1>2

\* Every subset is summed as if it were the whole.
LEMMA SumRecRestrict ==
    ASSUME NEW f, NEW S, IsFiniteSet(S), NEW T \in SUBSET S
    PROVE  SumRec(f, S)[T] = SumFunctionOnSet(f, T)
<1>. DEFINE Bad == {U \in SUBSET T : SumRec(f, S)[U] # SumRec(f, T)[U]}
<1>1. IsFiniteSet(T)
  BY FS_Subset
<1>2. ASSUME Bad # {}  PROVE FALSE
  <2>1. PICK U \in Bad : \A x \in U : U \ {x} \notin Bad
    <3>1. Bad \in SUBSET SUBSET T
      OBVIOUS
    <3>. HIDE DEF Bad
    <3>. QED  BY <1>1, <1>2, <3>1, LeastSubset
  <2>2. SumRec(f, S)[U] = SumBody(f, SumRec(f, S), U) /\ SumRec(f, T)[U] = SumBody(f, SumRec(f, T), U)
    BY <1>1, SumRecAt
  <2>3. U # {} => SumRec(f, S)[U \ {Chosen(U)}] = SumRec(f, T)[U \ {Chosen(U)}]
    BY <2>1, ChosenIn
  <2>. QED  BY <2>1, <2>2, <2>3 DEF SumBody
<1>. QED  BY <1>2, SumUnfold

\* One step of the recursion, as a fact about sums.
LEMMA SumChosen ==
    ASSUME NEW f, NEW S, IsFiniteSet(S), S # {}
    PROVE  SumFunctionOnSet(f, S) = f[Chosen(S)] + SumFunctionOnSet(f, S \ {Chosen(S)})
<1>1. SumRec(f, S)[S] = SumBody(f, SumRec(f, S), S)
  BY SumRecAt
<1>2. SumRec(f, S)[S \ {Chosen(S)}] = SumFunctionOnSet(f, S \ {Chosen(S)})
  BY SumRecRestrict
<1>. QED  BY <1>1, <1>2, SumRecRestrict DEF SumBody

-----------------------------------------------------------------------------
(* Sums.                                                                   *)

\* Nothing sums to 0.
THEOREM SumEmpty ==
    ASSUME NEW f
    PROVE  SumFunctionOnSet(f, {}) = 0
<1>1. IsFiniteSet({})
  BY FS_EmptySet
<1>2. SumRec(f, {})[{}] = SumBody(f, SumRec(f, {}), {})
  BY <1>1, SumRecAt
<1>. QED  BY <1>2, SumUnfold DEF SumBody

\* A sum of integers is an integer.
THEOREM SumInt ==
    ASSUME NEW f, NEW S, IsFiniteSet(S), \A x \in S : f[x] \in Int
    PROVE  SumFunctionOnSet(f, S) \in Int
<1>. DEFINE Bad == {T \in SUBSET S : SumFunctionOnSet(f, T) \notin Int}
<1>1. ASSUME Bad # {}  PROVE FALSE
  <2>1. PICK T \in Bad : \A x \in T : T \ {x} \notin Bad
    <3>1. Bad \in SUBSET SUBSET S
      OBVIOUS
    <3>. HIDE DEF Bad
    <3>. QED  BY <1>1, <3>1, LeastSubset
  <2>2. CASE T = {}
    BY <2>1, <2>2, SumEmpty
  <2>3. CASE T # {}
    <3>1. IsFiniteSet(T)
      BY FS_Subset
    <3>2. Chosen(T) \in T
      BY <2>3, ChosenIn
    <3>3. SumFunctionOnSet(f, T) = f[Chosen(T)] + SumFunctionOnSet(f, T \ {Chosen(T)})
      BY <2>3, <3>1, SumChosen
    <3>4. SumFunctionOnSet(f, T \ {Chosen(T)}) \in Int /\ f[Chosen(T)] \in Int
      BY <2>1, <3>2
    <3>. QED  BY <2>1, <3>3, <3>4
  <2>. QED  BY <2>2, <2>3
<1>. QED  BY <1>1

\* Any element can be taken out of a sum: the order of addition is irrelevant.
THEOREM SumRemove ==
    ASSUME NEW f, NEW S, IsFiniteSet(S), \A x \in S : f[x] \in Int, NEW a \in S
    PROVE  SumFunctionOnSet(f, S) = f[a] + SumFunctionOnSet(f, S \ {a})
<1>. DEFINE Bad == {T \in SUBSET S : \E x \in T : SumFunctionOnSet(f, T) # f[x] + SumFunctionOnSet(f, T \ {x})}
<1>1. ASSUME Bad # {}  PROVE FALSE
  <2>1. PICK T \in Bad : \A x \in T : T \ {x} \notin Bad
    <3>1. Bad \in SUBSET SUBSET S
      OBVIOUS
    <3>. HIDE DEF Bad
    <3>. QED  BY <1>1, <3>1, LeastSubset
  <2>2. PICK x \in T : SumFunctionOnSet(f, T) # f[x] + SumFunctionOnSet(f, T \ {x})
    BY <2>1
  <2>. DEFINE p == Chosen(T)
  <2>3. p \in T /\ IsFiniteSet(T) /\ IsFiniteSet(T \ {p}) /\ IsFiniteSet(T \ {x}) 
    BY <2>2, FS_Subset, ChosenIn
  <2>4. SumFunctionOnSet(f, T) = f[p] + SumFunctionOnSet(f, T \ {p})
    BY <2>2, <2>3, SumChosen
  <2>5. p # x
    BY <2>2, <2>4
  <2>6. SumFunctionOnSet(f, T \ {p}) = f[x] + SumFunctionOnSet(f, (T \ {p}) \ {x})
    BY <2>1, <2>3, <2>5
  <2>7. SumFunctionOnSet(f, T \ {x}) = f[p] + SumFunctionOnSet(f, (T \ {x}) \ {p})
    BY <2>1, <2>3, <2>5
  <2>8. (T \ {p}) \ {x} = (T \ {x}) \ {p}
    OBVIOUS
  <2>9. SumFunctionOnSet(f, (T \ {x}) \ {p}) \in Int /\ f[p] \in Int /\ f[x] \in Int
    <3>1. IsFiniteSet((T \ {x}) \ {p})
      BY FS_Subset
    <3>. QED  BY <3>1, <2>3, SumInt
  <2>. HIDE DEF p, Bad
  <2>10. SumFunctionOnSet(f, T \ {p}) = f[x] + SumFunctionOnSet(f, (T \ {x}) \ {p})
    BY <2>6, <2>8
  <2>. QED  BY <2>2, <2>4, <2>7, <2>9, <2>10
<1>. QED  BY <1>1

\* The sum with one element more.
THEOREM SumAdd ==
    ASSUME NEW f, NEW S, IsFiniteSet(S), NEW a, a \notin S,
           \A x \in S \union {a} : f[x] \in Int
    PROVE  SumFunctionOnSet(f, S \union {a}) = SumFunctionOnSet(f, S) + f[a]
<1>1. IsFiniteSet(S \union {a}) /\ (S \union {a}) \ {a} = S
  BY FS_AddElement
<1>2. SumFunctionOnSet(f, S \union {a}) = f[a] + SumFunctionOnSet(f, S)
  BY <1>1, SumRemove
<1>3. SumFunctionOnSet(f, S) \in Int
  BY SumInt
<1>. QED  BY <1>2, <1>3

\* Functions that agree on the set have the same sum.
THEOREM SumSame ==
    ASSUME NEW f, NEW g, NEW S, IsFiniteSet(S), \A x \in S : f[x] = g[x]
    PROVE  SumFunctionOnSet(f, S) = SumFunctionOnSet(g, S)
<1>. DEFINE Bad == {T \in SUBSET S : SumFunctionOnSet(f, T) # SumFunctionOnSet(g, T)}
<1>1. ASSUME Bad # {}  PROVE FALSE
  <2>1. PICK T \in Bad : \A x \in T : T \ {x} \notin Bad
    <3>1. Bad \in SUBSET SUBSET S
      OBVIOUS
    <3>. HIDE DEF Bad
    <3>. QED  BY <1>1, <3>1, LeastSubset
  <2>2. T # {}
    BY <2>1, SumEmpty
  <2>3. IsFiniteSet(T) /\ Chosen(T) \in T
    BY <2>2, FS_Subset, ChosenIn
  <2>4. /\ SumFunctionOnSet(f, T) = f[Chosen(T)] + SumFunctionOnSet(f, T \ {Chosen(T)})
        /\ SumFunctionOnSet(g, T) = g[Chosen(T)] + SumFunctionOnSet(g, T \ {Chosen(T)})
    BY <2>2, <2>3, SumChosen
  <2>. QED  BY <2>1, <2>3, <2>4
<1>. QED  BY <1>1

\* The sum after the value of one element has changed.
THEOREM SumChange ==
    ASSUME NEW f, NEW g, NEW S, IsFiniteSet(S), NEW a \in S,
           \A x \in S : f[x] \in Int, g[a] \in Int,
           \A x \in S \ {a} : g[x] = f[x]
    PROVE  SumFunctionOnSet(g, S) = SumFunctionOnSet(f, S) - f[a] + g[a]
<1>1. /\ SumFunctionOnSet(f, S) = f[a] + SumFunctionOnSet(f, S \ {a})
      /\ SumFunctionOnSet(g, S) = g[a] + SumFunctionOnSet(g, S \ {a})
  BY SumRemove
<1>2. IsFiniteSet(S \ {a})
  BY FS_Subset
<1>3. SumFunctionOnSet(g, S \ {a}) = SumFunctionOnSet(f, S \ {a})
  BY <1>2, SumSame
<1>4. SumFunctionOnSet(f, S \ {a}) \in Int
  BY <1>2, SumInt
<1>. QED  BY <1>1, <1>3, <1>4

\* A sum over two disjoint sets.
THEOREM SumUnion ==
    ASSUME NEW f, NEW S, IsFiniteSet(S), NEW R, IsFiniteSet(R), S \intersect R = {},
           \A x \in S \union R : f[x] \in Int
    PROVE  SumFunctionOnSet(f, S \union R) = SumFunctionOnSet(f, S) + SumFunctionOnSet(f, R)
<1>. DEFINE Bad == {T \in SUBSET R :
              SumFunctionOnSet(f, S \union T)
                # SumFunctionOnSet(f, S) + SumFunctionOnSet(f, T)}
<1>1. ASSUME Bad # {}  PROVE FALSE
  <2>1. PICK T \in Bad : \A x \in T : T \ {x} \notin Bad
    <3>1. Bad \in SUBSET SUBSET R
      OBVIOUS
    <3>. HIDE DEF Bad
    <3>. QED  BY <1>1, <3>1, LeastSubset
  <2>2. SumFunctionOnSet(f, S) \in Int
    BY SumInt
  <2>3. T # {}
    <3>1. S \union {} = S
      OBVIOUS
    <3>. QED  BY <2>1, <2>2, <3>1, SumEmpty
  <2>4. PICK a \in T : TRUE
    BY <2>3
  <2>5. IsFiniteSet(T) /\ IsFiniteSet(T \ {a}) /\ IsFiniteSet(S \union T)
    BY FS_Subset, FS_Union
  <2>6. SumFunctionOnSet(f, T) = f[a] + SumFunctionOnSet(f, T \ {a})
    BY <2>4, <2>5, SumRemove
  <2>7. SumFunctionOnSet(f, S \union T) = f[a] + SumFunctionOnSet(f, S \union (T \ {a}))
    <3>1. (S \union T) \ {a} = S \union (T \ {a})
      BY <2>4
    <3>. QED  BY <2>4, <2>5, <3>1, SumRemove
  <2>8. SumFunctionOnSet(f, S \union (T \ {a}))
          = SumFunctionOnSet(f, S) + SumFunctionOnSet(f, T \ {a})
    BY <2>1, <2>4
  <2>9. SumFunctionOnSet(f, T \ {a}) \in Int /\ f[a] \in Int
    BY <2>4, <2>5, SumInt
  <2>10. SumFunctionOnSet(f, S \union T)
           # SumFunctionOnSet(f, S) + SumFunctionOnSet(f, T)
    BY <2>1
  <2>. HIDE DEF Bad
  <2>. QED  BY <2>2, <2>6, <2>7, <2>8, <2>9, <2>10
<1>2. SumFunctionOnSet(f, S \union R)
        = SumFunctionOnSet(f, S) + SumFunctionOnSet(f, R)
  BY <1>1
<1>. QED  BY <1>2

\* Renaming the elements one to one does not change the sum.
THEOREM SumRename ==
    ASSUME NEW f, NEW S, IsFiniteSet(S), NEW g, NEW R, IsFiniteSet(R),
           NEW b \in [S -> R],
           \A x, y \in S : b[x] = b[y] => x = y,
           \A z \in R : \E x \in S : z = b[x],
           \A x \in S : f[x] \in Int /\ f[x] = g[b[x]]
    PROVE  SumFunctionOnSet(f, S) = SumFunctionOnSet(g, R)
<1>. DEFINE Image(T) == {b[x] : x \in T}
            Bad == {T \in SUBSET S : SumFunctionOnSet(f, T) # SumFunctionOnSet(g, Image(T))}
<1>1. ASSUME Bad # {}  PROVE FALSE
  <2>1. PICK T \in Bad : \A x \in T : T \ {x} \notin Bad
    <3>1. Bad \in SUBSET SUBSET S
      OBVIOUS
    <3>. HIDE DEF Bad
    <3>. QED  BY <1>1, <3>1, LeastSubset
  <2>2. T # {}
    <3>1. Image({}) = {}
      OBVIOUS
    <3>. QED  BY <2>1, <3>1, SumEmpty
  <2>3. PICK a \in T : TRUE
    BY <2>2
  <2>4. IsFiniteSet(T) /\ IsFiniteSet(Image(T))
    <3>1. Image(T) \in SUBSET R
      OBVIOUS
    <3>. HIDE DEF Image
    <3>. QED  BY <3>1, FS_Subset
  <2>5. b[a] \in Image(T) /\ Image(T) \ {b[a]} = Image(T \ {a})
    BY <2>3
  <2>6. \A z \in Image(T) : g[z] \in Int
    OBVIOUS
  <2>7. SumFunctionOnSet(f, T) = f[a] + SumFunctionOnSet(f, T \ {a})
    BY <2>3, <2>4, SumRemove
  <2>8. SumFunctionOnSet(g, Image(T)) = g[b[a]] + SumFunctionOnSet(g, Image(T) \ {b[a]})
    <3>. HIDE DEF Image, Bad
    <3>. QED  BY <2>4, <2>5, <2>6, SumRemove
  <2>9. SumFunctionOnSet(f, T \ {a}) = SumFunctionOnSet(g, Image(T \ {a}))
    BY <2>1, <2>3
  <2>10. f[a] = g[b[a]]
    BY <2>3
  <2>11. SumFunctionOnSet(f, T) # SumFunctionOnSet(g, Image(T))
    BY <2>1
  <2>. HIDE DEF Image, Bad
  <2>. QED  BY <2>5, <2>7, <2>8, <2>9, <2>10, <2>11
<1>2. Image(S) = R
  OBVIOUS
<1>. QED  BY <1>1, <1>2

\* A sum of naturals is a natural, and at least each of its summands.
THEOREM SumNat ==
    ASSUME NEW f, NEW S, IsFiniteSet(S), \A x \in S : f[x] \in Nat
    PROVE  /\ SumFunctionOnSet(f, S) \in Nat
           /\ \A a \in S : f[a] <= SumFunctionOnSet(f, S)
<1>. DEFINE Bad == {T \in SUBSET S : SumFunctionOnSet(f, T) \notin Nat}
<1>1. ASSUME Bad # {}  PROVE FALSE
  <2>1. PICK T \in Bad : \A x \in T : T \ {x} \notin Bad
    <3>1. Bad \in SUBSET SUBSET S
      OBVIOUS
    <3>. HIDE DEF Bad
    <3>. QED  BY <1>1, <3>1, LeastSubset
  <2>2. T # {}
    BY <2>1, SumEmpty
  <2>3. IsFiniteSet(T) /\ Chosen(T) \in T
    BY <2>2, FS_Subset, ChosenIn
  <2>4. SumFunctionOnSet(f, T) = f[Chosen(T)] + SumFunctionOnSet(f, T \ {Chosen(T)})
    BY <2>2, <2>3, SumChosen
  <2>5. SumFunctionOnSet(f, T \ {Chosen(T)}) \in Nat /\ f[Chosen(T)] \in Nat
    BY <2>1, <2>3
  <2>. QED  BY <2>1, <2>4, <2>5
<1>2. \A T \in SUBSET S : SumFunctionOnSet(f, T) \in Nat
  BY <1>1
<1>3. ASSUME NEW a \in S  PROVE f[a] <= SumFunctionOnSet(f, S)
  <2>1. SumFunctionOnSet(f, S) = f[a] + SumFunctionOnSet(f, S \ {a})
    BY SumRemove
  <2>2. SumFunctionOnSet(f, S \ {a}) \in Nat
    BY <1>2
  <2>. QED  BY <2>1, <2>2
<1>. QED  BY <1>2, <1>3

-----------------------------------------------------------------------------
(* Sums over the positions of a sequence: f gives the value at each.       *)

\* A sequence with one element more, at its end.
THEOREM SumAppend ==
    ASSUME NEW n \in Nat, NEW f, NEW g, \A i \in 1 .. n : f[i] \in Int /\ g[i] = f[i],
           g[n + 1] \in Int
    PROVE  SumFunctionOnSet(g, 1 .. n + 1) = SumFunctionOnSet(f, 1 .. n) + g[n + 1]
<1>0. PICK S : S = 1 .. n
  OBVIOUS
<1>1. n + 1 \notin S /\ 1 .. n + 1 = S \union {n + 1} /\ \A i \in S \union {n + 1} : g[i] \in Int
  BY <1>0
<1>2. IsFiniteSet(S)
  BY <1>0, FS_Interval
<1>3. SumFunctionOnSet(g, S) = SumFunctionOnSet(f, S)
  BY <1>0, <1>2, SumSame
<1>4. SumFunctionOnSet(g, S \union {n + 1}) = SumFunctionOnSet(g, S) + g[n + 1]
  BY <1>1, <1>2, SumAdd
<1>. QED  BY <1>0, <1>1, <1>3, <1>4

\* The same values at positions that all lie m further on.
LEMMA SumShift ==
    ASSUME NEW m \in Nat, NEW n \in Nat, NEW f, NEW g,
           \A i \in 1 .. n : f[i] \in Int /\ f[i] = g[i + m]
    PROVE  SumFunctionOnSet(f, 1 .. n) = SumFunctionOnSet(g, m + 1 .. m + n)
<1>1. PICK S, R : S = 1 .. n /\ R = m + 1 .. m + n
  OBVIOUS
<1>2. IsFiniteSet(S) /\ IsFiniteSet(R)
  BY <1>1, FS_Interval
<1>3. PICK b : b = [i \in S |-> i + m]
  OBVIOUS
<1>4. b \in [S -> R]
  BY <1>1, <1>3
<1>5. \A x, y \in S : b[x] = b[y] => x = y
  BY <1>1, <1>3
<1>6. ASSUME NEW z \in R  PROVE \E x \in S : z = b[x]
  <2>1. z - m \in S /\ z = b[z - m]
    BY <1>1, <1>3
  <2>. QED  BY <2>1
<1>7. \A x \in S : f[x] \in Int /\ f[x] = g[b[x]]
  BY <1>1, <1>3
<1>8. SumFunctionOnSet(f, S) = SumFunctionOnSet(g, R)
  BY <1>2, <1>4, <1>5, <1>6, <1>7, SumRename
<1>. QED  BY <1>1, <1>8

\* The sequences f and then g are the sequence h.
THEOREM SumConcat ==
    ASSUME NEW m \in Nat, NEW n \in Nat, NEW f, NEW g, NEW h,
           \A i \in 1 .. m : f[i] \in Int /\ h[i] = f[i],
           \A i \in 1 .. n : g[i] \in Int /\ h[i + m] = g[i]
    PROVE  SumFunctionOnSet(h, 1 .. m + n)
             = SumFunctionOnSet(f, 1 .. m) + SumFunctionOnSet(g, 1 .. n)
<1>1. /\ IsFiniteSet(1 .. m) /\ IsFiniteSet(m + 1 .. m + n)
      /\ 1 .. m + n = (1 .. m) \union (m + 1 .. m + n)
      /\ (1 .. m) \intersect (m + 1 .. m + n) = {}
  BY FS_Interval
<1>2. ASSUME NEW i \in (1 .. m) \union (m + 1 .. m + n)  PROVE h[i] \in Int
  <2>1. i \in 1 .. m \/ (i - m \in 1 .. n /\ i = (i - m) + m)
    BY <1>2
  <2>. QED  BY <2>1
<1>3. SumFunctionOnSet(h, (1 .. m) \union (m + 1 .. m + n))
        = SumFunctionOnSet(h, 1 .. m) + SumFunctionOnSet(h, m + 1 .. m + n)
  BY <1>1, <1>2, SumUnion
<1>4. SumFunctionOnSet(h, 1 .. m) = SumFunctionOnSet(f, 1 .. m)
  BY <1>1, SumSame
<1>5. SumFunctionOnSet(g, 1 .. n) = SumFunctionOnSet(h, m + 1 .. m + n)
  BY SumShift
<1>. QED  BY <1>1, <1>3, <1>4, <1>5

\* A sequence without its first element.
THEOREM SumTail ==
    ASSUME NEW n \in Nat \ {0}, NEW f, NEW g, \A i \in 1 .. n : f[i] \in Int,
           \A i \in 1 .. n - 1 : g[i] = f[i + 1]
    PROVE  SumFunctionOnSet(f, 1 .. n) = f[1] + SumFunctionOnSet(g, 1 .. n - 1)
<1>1. PICK m \in Nat, k \in Nat : m = 1 /\ k = n - 1
  OBVIOUS
<1>2. PICK S, R : S = 1 .. n /\ R = S \ {m}
  OBVIOUS
<1>3. m \in S /\ R = m + 1 .. m + k /\ \A i \in S : f[i] \in Int
  BY <1>1, <1>2
<1>4. IsFiniteSet(S)
  BY <1>2, FS_Interval
<1>5. ASSUME NEW a \in S
      PROVE  SumFunctionOnSet(f, S) = f[a] + SumFunctionOnSet(f, S \ {a})
  <2>1. \A x \in S : f[x] \in Int
    BY <1>3
  <2>. QED  BY ONLY <1>4, <2>1, SumRemove
<1>6. \A i \in 1 .. k : g[i] \in Int /\ g[i] = f[i + m]
  BY <1>1
<1>7. SumFunctionOnSet(g, 1 .. k) = SumFunctionOnSet(f, m + 1 .. m + k)
  <2>1. m \in Nat /\ k \in Nat
    OBVIOUS
  <2>. QED  BY <1>6, <2>1, SumShift, Z3
<1>. QED  BY <1>1, <1>2, <1>3, <1>5, <1>7

-----------------------------------------------------------------------------
(* Remainders, for counters of a fixed width.                              *)

\* Quotient and remainder.
LEMMA Division ==
    ASSUME NEW a \in Int, NEW m \in Nat \ {0}
    PROVE  \E k \in Int, r \in 0 .. m - 1 : a = m * k + r /\ a % m = r
<1>1. a = m * (a \div m) + (a % m) /\ a % m \in 0 .. m - 1 /\ a \div m \in Int
  BY SMTT(30)
<1>. QED  BY <1>1

\* The remainder is the only one.
LEMMA Remainder ==
    ASSUME NEW m \in Nat \ {0}, NEW r \in 0 .. m - 1, NEW k \in Int
    PROVE  (m * k + r) % m = r
  BY SMTT(30)

\* Reducing before an addition does not change the result.
THEOREM ModAdd ==
    ASSUME NEW a \in Int, NEW b \in Int, NEW m \in Nat \ {0}
    PROVE  ((a % m) + b) % m = (a + b) % m
<1>1. PICK k \in Int, r \in 0 .. m - 1 : a = m * k + r /\ a % m = r
  BY Division
<1>2. PICK l \in Int, t \in 0 .. m - 1 : r + b = m * l + t /\ (r + b) % m = t
  <2>1. r + b \in Int
    OBVIOUS
  <2>. QED  BY <2>1, Division
<1>3. a + b = m * (k + l) + t
  <2>1. m * (k + l) = m * k + m * l /\ m * k \in Int /\ m * l \in Int
    OBVIOUS
  <2>. QED  BY <1>1, <1>2, <2>1
<1>4. (m * (k + l) + t) % m = t
  BY Remainder
<1>. QED  BY <1>1, <1>2, <1>3, <1>4
=============================================================================
