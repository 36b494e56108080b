-------------------------- MODULE FoundationProofs --------------------------
(***************************************************************************)
(* What the proofs about several modules rest on: the combination of two   *)
(* checks, induction over a finite set, and sums over finite sets of any   *)
(* size.  Every total that a proof needs is SumFunctionOnSet of the        *)
(* community module Functions, a fold that takes the elements in an order  *)
(* nobody knows: the lemmas say that the order is immaterial, and how a    *)
(* sum follows its index set and its summands.                             *)
(***************************************************************************)
EXTENDS Rejections, Functions, FiniteSets, FiniteSetTheorems, WellFoundedInduction, TLAPS

\* The answers of evaluate that are not reject codes.
Success == {"Idempotent", "ValidatedUnsigned"}

\* What `?` gives back is one of the two.
LEMMA EitherRejects ==
    ASSUME NEW a, NEW b
    PROVE  /\ (a ?? b) = IF a = Ok THEN b ELSE a
           /\ (a ?? b) \in Success => a \in Success \/ b \in Success
           /\ (a ?? b) = Ok => a = Ok /\ b = Ok
<1>1. CASE a = Ok
    BY <1>1 DEF ??, Ok
<1>2. CASE a # Ok
    BY <1>2 DEF ??, Ok
<1> QED
    BY <1>1, <1>2

-----------------------------------------------------------------------------
(* Induction. *)

\* A set of numbers that is not empty has a least one.
LEMMA LeastExists ==
    ASSUME NEW S \in SUBSET Nat, S # {}
    PROVE  \E n \in S : \A m \in S : n <= m
<1>1. PICK n \in S : \A m \in S : ~(<<m, n>> \in OpToRel(<, Nat))
    BY NatLessThanWellFounded, WFMin
<1>2. \A m \in S : ~(m < n)
    BY <1>1 DEF OpToRel
<1> QED
    BY <1>2

\* Induction over a finite set, for a family of its subsets: whoever grows by one
\* element at a time reaches the whole set.
LEMMA FamilyInduction ==
    ASSUME NEW S, IsFiniteSet(S), NEW F, {} \in F,
           \A T \in SUBSET S : \A x \in S \ T : T \in F => T \cup {x} \in F
    PROVE  S \in F
<1> DEFINE Bad == {T \in SUBSET S : T \notin F}
           Sizes == {Cardinality(T) : T \in Bad}
<1>1. \A T \in SUBSET S : IsFiniteSet(T) /\ Cardinality(T) \in Nat
    BY FS_Subset, FS_CardinalityType
<1>2. Sizes \in SUBSET Nat
    BY <1>1
<1>3. ASSUME Bad # {} PROVE FALSE
    <2>1. PICK T \in Bad : \A U \in Bad : Cardinality(T) <= Cardinality(U)
        <3>1. Sizes # {}
            BY <1>3
        <3>2. \E n \in Sizes : \A m \in Sizes : n <= m
            BY <1>2, <3>1, LeastExists
        <3> QED
            BY <3>2
    <2>2. PICK x \in T : TRUE
        OBVIOUS
    <2>3. IsFiniteSet(T \ {x}) /\ Cardinality(T \ {x}) = Cardinality(T) - 1
        BY <1>1, <2>2, FS_RemoveElement
    <2>4. T \ {x} \in F
        BY <1>1, <2>1, <2>3
    <2>5. T = (T \ {x}) \cup {x} /\ x \in S \ (T \ {x}) /\ T \ {x} \in SUBSET S
        BY <2>2
    <2> QED
        BY <2>4, <2>5
<1> QED
    BY <1>3

\* A function has finitely many values on a finite set.
LEMMA ImageIsFinite ==
    ASSUME NEW S, IsFiniteSet(S), NEW g
    PROVE  IsFiniteSet({g[x] : x \in S}) /\ Cardinality({g[x] : x \in S}) <= Cardinality(S)
<1> DEFINE T == {g[x] : x \in S}
           f == [x \in S |-> g[x]]
<1>1. f \in Surjection(S, T)
    BY DEF Surjection
<1> HIDE DEF f, T
<1>2. IsFiniteSet(T) /\ Cardinality(T) <= Cardinality(S)
    BY <1>1, FS_Surjection
<1> QED
    BY <1>2 DEF T

-----------------------------------------------------------------------------
(* The fold computes what its recursion says. *)

Pick(S) == CHOOSE x \in S : TRUE

\* g is the table of the partial sums of f over the sets of D.
Table(g, f, D) ==
    g = [s \in D |-> IF s = {} THEN 0 ELSE f[Pick(s)] + g[s \ {Pick(s)}]]

SmallSubsets(S, n) == {s \in SUBSET S : Cardinality(s) <= n}

\* The table exists, level by level.
LEMMA TableExists ==
    ASSUME NEW S, IsFiniteSet(S), NEW f
    PROVE  \E g : Table(g, f, SUBSET S)
<1>1. \A s \in SUBSET S : /\ IsFiniteSet(s) /\ Cardinality(s) \in Nat
                          /\ Cardinality(s) <= Cardinality(S)
                          /\ Cardinality(s) = 0 <=> s = {}
    BY FS_Subset, FS_CardinalityType, FS_EmptySet
<1>2. \A s \in SUBSET S : s # {} => /\ Pick(s) \in s
                                    /\ s \ {Pick(s)} \in SUBSET S
                                    /\ Cardinality(s \ {Pick(s)}) = Cardinality(s) - 1
    BY <1>1, FS_RemoveElement DEF Pick
<1> DEFINE Bad == {n \in Nat : ~\E g : Table(g, f, SmallSubsets(S, n))}
<1>3. ASSUME Bad # {} PROVE FALSE
    <2>1. PICK n \in Bad : \A m \in Bad : n <= m
        BY <1>3, LeastExists
    <2>2. n # 0
        <3>1. SmallSubsets(S, 0) = {{}}
            BY <1>1 DEF SmallSubsets
        <3>2. Table([s \in {{}} |-> 0], f, {{}})
            BY DEF Table
        <3> QED
            BY <2>1, <3>1, <3>2
    <2>3. n - 1 \in Nat /\ n - 1 \notin Bad
        BY <2>1, <2>2
    <2>4. PICK g : Table(g, f, SmallSubsets(S, n - 1))
        BY <2>3
    <2> DEFINE h == [s \in SmallSubsets(S, n) |->
                        IF s = {} THEN 0 ELSE f[Pick(s)] + g[s \ {Pick(s)}]]
    <2>5. ASSUME NEW s \in SmallSubsets(S, n - 1) PROVE h[s] = g[s]
        <3>1. s \in SmallSubsets(S, n)
            BY <1>1, <2>3, <2>5 DEF SmallSubsets
        <3>2. g[s] = IF s = {} THEN 0 ELSE f[Pick(s)] + g[s \ {Pick(s)}]
            BY <2>4 DEF Table
        <3> QED
            BY <3>1, <3>2
    <2>6. ASSUME NEW s \in SmallSubsets(S, n), s # {}
          PROVE  g[s \ {Pick(s)}] = h[s \ {Pick(s)}]
        <3>1. s \ {Pick(s)} \in SmallSubsets(S, n - 1)
            BY <1>1, <1>2, <2>3, <2>6 DEF SmallSubsets
        <3> QED
            BY <2>5, <3>1
    <2>7. h = [s \in SmallSubsets(S, n) |->
                  IF s = {} THEN 0 ELSE f[Pick(s)] + h[s \ {Pick(s)}]]
        BY <2>6
    <2> HIDE DEF h
    <2> QED
        BY <2>1, <2>7 DEF Table
<1>4. SmallSubsets(S, Cardinality(S)) = SUBSET S
    BY <1>1 DEF SmallSubsets
<1>5. Cardinality(S) \in Nat \ Bad
    BY <1>1, <1>3
<1> QED
    BY <1>4, <1>5

\* Two tables agree on a set that both have.
LEMMA TableUnique ==
    ASSUME NEW S, IsFiniteSet(S), NEW T, IsFiniteSet(T), NEW f, NEW g, NEW h,
           Table(g, f, SUBSET S), Table(h, f, SUBSET T), NEW U \in SUBSET (S \cap T)
    PROVE  g[U] = h[U]
<1> DEFINE Bad == {s \in SUBSET (S \cap T) : g[s] # h[s]}
           Sizes == {Cardinality(s) : s \in Bad}
<1>1. \A s \in SUBSET (S \cap T) : IsFiniteSet(s) /\ Cardinality(s) \in Nat
    BY FS_Subset, FS_CardinalityType
<1>2. ASSUME Bad # {} PROVE FALSE
    <2>1. PICK s \in Bad : \A u \in Bad : Cardinality(s) <= Cardinality(u)
        <3>1. Sizes \in SUBSET Nat /\ Sizes # {}
            BY <1>1, <1>2
        <3>2. \E n \in Sizes : \A m \in Sizes : n <= m
            BY <3>1, LeastExists
        <3> QED
            BY <3>2
    <2>2. /\ g[s] = IF s = {} THEN 0 ELSE f[Pick(s)] + g[s \ {Pick(s)}]
          /\ h[s] = IF s = {} THEN 0 ELSE f[Pick(s)] + h[s \ {Pick(s)}]
        <3>1. s \in SUBSET S /\ s \in SUBSET T
            OBVIOUS
        <3> QED
            BY <3>1 DEF Table
    <2>3. CASE s = {}
        BY <2>2, <2>3
    <2>4. CASE s # {}
        <3>1. Pick(s) \in s
            BY <2>4 DEF Pick
        <3>2. Cardinality(s \ {Pick(s)}) = Cardinality(s) - 1
            BY <1>1, <3>1, FS_RemoveElement
        <3>3. s \ {Pick(s)} \notin Bad
            BY <1>1, <2>1, <3>2
        <3>4. g[s \ {Pick(s)}] = h[s \ {Pick(s)}]
            BY <3>3
        <3> QED
            BY <2>2, <3>4
    <2> QED
        BY <2>3, <2>4
<1> QED
    BY <1>2

\* The sum is an entry of its table.
LEMMA SumIsTable ==
    ASSUME NEW S, IsFiniteSet(S), NEW f
    PROVE  \E g : Table(g, f, SUBSET S) /\ SumFunctionOnSet(f, S) = g[S]
<1> DEFINE g == CHOOSE iter : iter = [s \in SUBSET S |->
                    IF s = {} THEN 0 ELSE f[CHOOSE x \in s : TRUE] + iter[s \ {CHOOSE x \in s : TRUE}]]
<1>1. SumFunctionOnSet(f, S) = g[S]
    BY DEF SumFunctionOnSet, FoldFunctionOnSet, MapThenFoldSet
<1>2. PICK h : Table(h, f, SUBSET S)
    BY TableExists
<1>3. h = [s \in SUBSET S |->
              IF s = {} THEN 0 ELSE f[CHOOSE x \in s : TRUE] + h[s \ {CHOOSE x \in s : TRUE}]]
    BY <1>2 DEF Table, Pick
<1>4. g = [s \in SUBSET S |->
              IF s = {} THEN 0 ELSE f[CHOOSE x \in s : TRUE] + g[s \ {CHOOSE x \in s : TRUE}]]
    BY <1>3
<1>5. Table(g, f, SUBSET S)
    BY <1>4 DEF Table, Pick
<1> QED
    BY <1>1, <1>5

\* Its recursion.
LEMMA SumUnfolds ==
    ASSUME NEW S, IsFiniteSet(S), NEW f
    PROVE  /\ SumFunctionOnSet(f, {}) = 0
           /\ S # {} => SumFunctionOnSet(f, S)
                            = f[Pick(S)] + SumFunctionOnSet(f, S \ {Pick(S)})
<1>1. SumFunctionOnSet(f, {}) = 0
    <2>1. PICK g : Table(g, f, SUBSET {}) /\ SumFunctionOnSet(f, {}) = g[{}]
        BY SumIsTable, FS_EmptySet
    <2> QED
        BY <2>1 DEF Table
<1>2. ASSUME S # {}
      PROVE  SumFunctionOnSet(f, S) = f[Pick(S)] + SumFunctionOnSet(f, S \ {Pick(S)})
    <2> DEFINE R == S \ {Pick(S)}
    <2>1. IsFiniteSet(R) /\ R \in SUBSET (S \cap R)
        BY FS_RemoveElement
    <2> HIDE DEF R
    <2>2. PICK g : Table(g, f, SUBSET S) /\ SumFunctionOnSet(f, S) = g[S]
        BY SumIsTable
    <2>3. PICK h : Table(h, f, SUBSET R) /\ SumFunctionOnSet(f, R) = h[R]
        BY <2>1, SumIsTable
    <2>4. g[R] = h[R]
        BY <2>1, <2>2, <2>3, TableUnique
    <2>5. g[S] = f[Pick(S)] + g[S \ {Pick(S)}]
        BY <1>2, <2>2 DEF Table
    <2> QED
        BY <2>2, <2>3, <2>4, <2>5 DEF R
<1> QED
    BY <1>1, <1>2

-----------------------------------------------------------------------------
(* Facts about sums of natural numbers. *)

\* A sum of natural numbers is one, and the summand taken out first is any.
LEMMA SumStep ==
    ASSUME NEW S, IsFiniteSet(S), NEW f, \A x \in S : f[x] \in Nat
    PROVE  /\ SumFunctionOnSet(f, S) \in Nat
           /\ \A x \in S : SumFunctionOnSet(f, S) = f[x] + SumFunctionOnSet(f, S \ {x})
<1> DEFINE Good(T) == /\ SumFunctionOnSet(f, T) \in Nat
                      /\ \A x \in T : SumFunctionOnSet(f, T)
                                         = f[x] + SumFunctionOnSet(f, T \ {x})
           Bad == {T \in SUBSET S : ~Good(T)}
           Sizes == {Cardinality(T) : T \in Bad}
<1>1. \A T \in SUBSET S : IsFiniteSet(T) /\ Cardinality(T) \in Nat
    BY FS_Subset, FS_CardinalityType
<1>2. ASSUME Bad # {} PROVE FALSE
    <2>1. PICK T \in Bad : \A U \in Bad : Cardinality(T) <= Cardinality(U)
        <3>1. Sizes \in SUBSET Nat /\ Sizes # {}
            BY <1>1, <1>2
        <3>2. \E n \in Sizes : \A m \in Sizes : n <= m
            BY <3>1, LeastExists
        <3> QED
            BY <3>2
    <2>2. ASSUME NEW U \in SUBSET T, NEW x \in U PROVE Good(U \ {x})
        <3>1. /\ IsFiniteSet(T) /\ Cardinality(T) \in Nat
              /\ IsFiniteSet(U) /\ Cardinality(U) \in Nat
              /\ Cardinality(U) <= Cardinality(T)
            BY <1>1, FS_Subset
        <3>2. Cardinality(U \ {x}) = Cardinality(U) - 1
            BY <3>1, FS_RemoveElement
        <3>3. U \ {x} \in (SUBSET S) \ Bad
            <4>1. Cardinality(U \ {x}) < Cardinality(T)
                BY <3>1, <3>2
            <4>2. U \ {x} \in SUBSET S /\ Cardinality(U \ {x}) \in Nat
                BY <1>1
            <4> HIDE DEF Bad
            <4> QED
                BY <2>1, <3>1, <4>1, <4>2
        <3> QED
            BY <3>3 DEF Bad
    <2>3. T # {}
        BY <2>1, SumUnfolds, FS_EmptySet
    <2> HIDE DEF Good
    <2> DEFINE p == Pick(T)
    <2>4. p \in T
        BY <2>3 DEF Pick
    <2>5. SumFunctionOnSet(f, T) = f[p] + SumFunctionOnSet(f, T \ {p})
        BY <1>1, <2>3, SumUnfolds
    <2> HIDE DEF p
    <2>6. SumFunctionOnSet(f, T \ {p}) \in Nat
        BY <2>2, <2>4 DEF Good
    <2>7. ASSUME NEW x \in T, x # p
          PROVE  SumFunctionOnSet(f, T) = f[x] + SumFunctionOnSet(f, T \ {x})
        <3> DEFINE R == (T \ {p}) \ {x}
        <3>1. Good(T \ {p}) /\ Good(T \ {x})
            <4>1. T \in SUBSET T
                OBVIOUS
            <4> QED
                BY <2>2, <2>4, <4>1
        <3>2. (T \ {x}) \ {p} = R /\ x \in T \ {p} /\ p \in T \ {x}
            BY <2>4, <2>7
        <3>3. Good(R)
            <4>1. T \ {p} \in SUBSET T
                OBVIOUS
            <4> QED
                BY <4>1, <2>2, <2>7, <3>2
        <3> DEFINE sum == SumFunctionOnSet(f, R)
        <3>4. SumFunctionOnSet(f, T \ {p}) = f[x] + sum
            BY <3>1, <3>2 DEF Good
        <3>5. SumFunctionOnSet(f, T \ {x}) = f[p] + sum
            BY <3>1, <3>2 DEF Good
        <3>6. f[x] \in Nat /\ f[p] \in Nat /\ sum \in Nat
            BY <2>4, <3>3 DEF Good
        <3> HIDE DEF sum
        <3> QED
            BY <2>5, <3>4, <3>5, <3>6
    <2>8. f[p] \in Nat
        BY <2>4
    <2>9. Good(T)
        BY <2>5, <2>6, <2>7, <2>8 DEF Good
    <2> QED
        BY <2>1, <2>9
<1>3. Good(S)
    BY <1>2
<1> QED
    BY <1>3

\* One more element adds its summand: the step of every proof by FamilyInduction.
LEMMA SumAdd ==
    ASSUME NEW S, IsFiniteSet(S), NEW f, \A x \in S : f[x] \in Nat,
           NEW x, x \notin S, f[x] \in Nat
    PROVE  /\ SumFunctionOnSet(f, S) \in Nat
           /\ SumFunctionOnSet(f, S \cup {x}) = SumFunctionOnSet(f, S) + f[x]
<1> DEFINE all == S \cup {x}
<1>1. IsFiniteSet(all) /\ x \in all /\ all \ {x} = S /\ \A y \in all : f[y] \in Nat
    BY FS_AddElement
<1> HIDE DEF all
<1>2. SumFunctionOnSet(f, all) = f[x] + SumFunctionOnSet(f, all \ {x})
    BY <1>1, SumStep
<1>3. SumFunctionOnSet(f, S) \in Nat
    BY SumStep
<1>4. SumFunctionOnSet(f, all) = f[x] + SumFunctionOnSet(f, S)
    BY <1>1, <1>2, Zenon
<1>5. SumFunctionOnSet(f, all) = SumFunctionOnSet(f, S) + f[x]
    BY <1>3, <1>4
<1> QED
    BY <1>3, <1>5, Zenon DEF all

\* Adding an element, perhaps again, adds at most its summand.
LEMMA SumAddAtMost ==
    ASSUME NEW S, IsFiniteSet(S), NEW f, NEW x, \A y \in S \cup {x} : f[y] \in Nat
    PROVE  SumFunctionOnSet(f, S \cup {x}) <= SumFunctionOnSet(f, S) + f[x]
<1>1. SumFunctionOnSet(f, S) \in Nat /\ f[x] \in Nat
    BY SumStep
<1>2. CASE x \in S
    <2>1. S \cup {x} = S
        BY <1>2
    <2> QED
        BY <1>1, <2>1
<1>3. CASE x \notin S
    <2>1. SumFunctionOnSet(f, S \cup {x}) = SumFunctionOnSet(f, S) + f[x]
        BY <1>3, SumAdd
    <2> QED
        BY <1>1, <2>1
<1> QED
    BY <1>2, <1>3

\* Over disjoint sets sums add up.
LEMMA SumDisjoint ==
    ASSUME NEW S, IsFiniteSet(S), NEW T, IsFiniteSet(T), S \cap T = {},
           NEW f, \A x \in S \cup T : f[x] \in Nat
    PROVE  SumFunctionOnSet(f, S \cup T) = SumFunctionOnSet(f, S) + SumFunctionOnSet(f, T)
<1> DEFINE F == {U \in SUBSET T :
                    SumFunctionOnSet(f, S \cup U)
                    = SumFunctionOnSet(f, S) + SumFunctionOnSet(f, U)}
<1>1. SumFunctionOnSet(f, S) \in Nat
    BY SumStep
<1>2. {} \in F
    <2>1. SumFunctionOnSet(f, {}) = 0 /\ S \cup {} = S
        BY SumUnfolds
    <2> QED
        BY <1>1, <2>1
<1>3. ASSUME NEW U \in SUBSET T, NEW x \in T \ U, U \in F PROVE U \cup {x} \in F
    <2>1. IsFiniteSet(U) /\ IsFiniteSet(S \cup U)
        BY FS_Subset, FS_Union
    <2>2. /\ SumFunctionOnSet(f, U) \in Nat
          /\ SumFunctionOnSet(f, U \cup {x}) = SumFunctionOnSet(f, U) + f[x]
        BY <2>1, SumAdd
    <2>3. SumFunctionOnSet(f, (S \cup U) \cup {x}) = SumFunctionOnSet(f, S \cup U) + f[x]
        BY <2>1, SumAdd
    <2>4. (S \cup U) \cup {x} = S \cup (U \cup {x}) /\ f[x] \in Nat
        OBVIOUS
    <2>5. SumFunctionOnSet(f, S \cup U)
          = SumFunctionOnSet(f, S) + SumFunctionOnSet(f, U)
        BY <1>3
    <2>6. SumFunctionOnSet(f, S \cup (U \cup {x})) = SumFunctionOnSet(f, S \cup U) + f[x]
        BY <2>3, <2>4, Zenon
    <2>7. SumFunctionOnSet(f, S \cup (U \cup {x}))
          = SumFunctionOnSet(f, S) + SumFunctionOnSet(f, U \cup {x})
        BY <1>1, <2>2, <2>4, <2>5, <2>6
    <2> QED
        BY <2>7
<1>4. T \in F
    <2> HIDE DEF F
    <2> QED
        BY <1>2, <1>3, FamilyInduction
<1> QED
    BY <1>4

\* A part of a sum is at most the whole.
LEMMA SumSubset ==
    ASSUME NEW S, IsFiniteSet(S), NEW T \in SUBSET S, NEW f, \A x \in S : f[x] \in Nat
    PROVE  SumFunctionOnSet(f, T) <= SumFunctionOnSet(f, S)
<1>1. IsFiniteSet(T) /\ IsFiniteSet(S \ T) /\ S = T \cup (S \ T) /\ T \cap (S \ T) = {}
    BY FS_Subset
<1>2. SumFunctionOnSet(f, T) \in Nat /\ SumFunctionOnSet(f, S \ T) \in Nat
    BY <1>1, SumStep
<1>3. SumFunctionOnSet(f, T \cup (S \ T))
      = SumFunctionOnSet(f, T) + SumFunctionOnSet(f, S \ T)
    BY <1>1, SumDisjoint
<1>4. SumFunctionOnSet(f, S) = SumFunctionOnSet(f, T) + SumFunctionOnSet(f, S \ T)
    BY <1>1, <1>3, Zenon
<1> QED
    BY <1>2, <1>4

\* A sum follows its summands: through a one-to-one map g, over which they are at
\* most those at the other end.
LEMMA SumInjective ==
    ASSUME NEW S, IsFiniteSet(S), NEW f, \A x \in S : f[x] \in Nat,
           NEW g, \A x, y \in S : g[x] = g[y] => x = y,
           NEW h, \A x \in S : h[g[x]] \in Nat /\ f[x] <= h[g[x]]
    PROVE  LET image == {g[x] : x \in S} IN
           /\ IsFiniteSet(image)
           /\ SumFunctionOnSet(f, S) <= SumFunctionOnSet(h, image)
           /\ (\A x \in S : f[x] = h[g[x]])
                  => SumFunctionOnSet(f, S) = SumFunctionOnSet(h, image)
<1> DEFINE Image(U) == {g[x] : x \in U}
           F == {U \in SUBSET S :
                    /\ IsFiniteSet(Image(U))
                    /\ SumFunctionOnSet(f, U) <= SumFunctionOnSet(h, Image(U))
                    /\ (\A x \in S : f[x] = h[g[x]])
                           => SumFunctionOnSet(f, U) = SumFunctionOnSet(h, Image(U))}
<1>1. {} \in F
    <2>1. Image({}) = {} /\ IsFiniteSet({})
        BY FS_EmptySet
    <2>2. SumFunctionOnSet(f, {}) = 0 /\ SumFunctionOnSet(h, {}) = 0
        BY <2>1, SumUnfolds
    <2> HIDE DEF Image
    <2> QED
        BY <2>1, <2>2
<1>2. ASSUME NEW U \in SUBSET S, NEW x \in S \ U, U \in F PROVE U \cup {x} \in F
    <2>1. Image(U \cup {x}) = Image(U) \cup {g[x]} /\ g[x] \notin Image(U)
        OBVIOUS
    <2>2. \A z \in Image(U) : h[z] \in Nat
        OBVIOUS
    <2> HIDE DEF Image
    <2>3. IsFiniteSet(U) /\ IsFiniteSet(Image(U)) /\ IsFiniteSet(Image(U \cup {x}))
        <3>1. IsFiniteSet(U) /\ IsFiniteSet(Image(U))
            BY <1>2, FS_Subset
        <3>2. IsFiniteSet(Image(U) \cup {g[x]})
            BY <3>1, FS_AddElement
        <3> QED
            BY <2>1, <3>1, <3>2, Zenon
    <2>4. /\ SumFunctionOnSet(f, U) \in Nat
          /\ SumFunctionOnSet(f, U \cup {x}) = SumFunctionOnSet(f, U) + f[x]
        BY <2>3, SumAdd
    <2>5. /\ SumFunctionOnSet(h, Image(U)) \in Nat
          /\ SumFunctionOnSet(h, Image(U \cup {x})) = SumFunctionOnSet(h, Image(U)) + h[g[x]]
        <3>1. h[g[x]] \in Nat
            OBVIOUS
        <3>2. /\ SumFunctionOnSet(h, Image(U)) \in Nat
              /\ SumFunctionOnSet(h, Image(U) \cup {g[x]})
                 = SumFunctionOnSet(h, Image(U)) + h[g[x]]
            BY <2>1, <2>2, <2>3, <3>1, SumAdd
        <3> QED
            BY <2>1, <3>2, Zenon
    <2>6. f[x] \in Nat /\ h[g[x]] \in Nat /\ f[x] <= h[g[x]]
        OBVIOUS
    <2>7. SumFunctionOnSet(f, U \cup {x}) <= SumFunctionOnSet(h, Image(U \cup {x}))
        BY <1>2, <2>4, <2>5, <2>6
    <2>8. ASSUME \A y \in S : f[y] = h[g[y]]
          PROVE  SumFunctionOnSet(f, U \cup {x}) = SumFunctionOnSet(h, Image(U \cup {x}))
        BY <1>2, <2>4, <2>5, <2>8
    <2> QED
        BY <2>3, <2>7, <2>8
<1>3. S \in F
    <2> HIDE DEF F
    <2> QED
        BY <1>1, <1>2, FamilyInduction
<1> QED
    BY <1>3

\* Summands that are not larger give a sum that is not larger, equal ones an equal
\* one.
LEMMA SumCompare ==
    ASSUME NEW S, IsFiniteSet(S), NEW f, NEW h,
           \A x \in S : f[x] \in Nat /\ h[x] \in Nat /\ f[x] <= h[x]
    PROVE  /\ SumFunctionOnSet(f, S) <= SumFunctionOnSet(h, S)
           /\ (\A x \in S : f[x] = h[x]) => SumFunctionOnSet(f, S) = SumFunctionOnSet(h, S)
<1> DEFINE g == [x \in S |-> x]
<1>1. {g[x] : x \in S} = S
    OBVIOUS
<1>2. \A x \in S : g[x] = x
    OBVIOUS
<1> HIDE DEF g
<1>3. /\ SumFunctionOnSet(f, S) <= SumFunctionOnSet(h, {g[x] : x \in S})
      /\ (\A x \in S : f[x] = h[g[x]])
             => SumFunctionOnSet(f, S) = SumFunctionOnSet(h, {g[x] : x \in S})
    BY <1>2, SumInjective
<1> QED
    BY <1>1, <1>2, <1>3

\* Only the summands over the index set matter.
LEMMA SumSame ==
    ASSUME NEW S, IsFiniteSet(S), NEW f, NEW h, \A x \in S : f[x] \in Nat /\ f[x] = h[x]
    PROVE  SumFunctionOnSet(f, S) = SumFunctionOnSet(h, S)
<1>1. \A x \in S : f[x] \in Nat /\ h[x] \in Nat /\ f[x] <= h[x]
    OBVIOUS
<1> QED
    BY <1>1, SumCompare

\* n summands of at most b come to at most n * b.
LEMMA SumBounded ==
    ASSUME NEW S, IsFiniteSet(S), NEW b \in Nat, NEW f,
           \A x \in S : f[x] \in Nat /\ f[x] <= b
    PROVE  SumFunctionOnSet(f, S) <= Cardinality(S) * b
<1> DEFINE F == {U \in SUBSET S : SumFunctionOnSet(f, U) <= Cardinality(U) * b}
<1>1. {} \in F
    <2>1. SumFunctionOnSet(f, {}) = 0 /\ Cardinality({}) = 0
        BY SumUnfolds, FS_EmptySet
    <2> QED
        BY <2>1
<1>2. ASSUME NEW U \in SUBSET S, NEW x \in S \ U, U \in F PROVE U \cup {x} \in F
    <2> DEFINE n == Cardinality(U)
               m == n * b
    <2>1. /\ IsFiniteSet(U) /\ n \in Nat
          /\ Cardinality(U \cup {x}) = n + 1
        BY FS_Subset, FS_AddElement, FS_CardinalityType
    <2>2. /\ SumFunctionOnSet(f, U) \in Nat
          /\ SumFunctionOnSet(f, U \cup {x}) = SumFunctionOnSet(f, U) + f[x]
        <3>1. /\ x \notin U /\ f[x] \in Nat
              /\ \A y \in U : f[y] \in Nat
            OBVIOUS
        <3> QED
            BY <2>1, <3>1, SumAdd
    <2>3. (n + 1) * b = m + b /\ m \in Nat
        BY <2>1
    <2>4. SumFunctionOnSet(f, U) <= m
        BY <1>2
    <2>5. f[x] \in Nat /\ f[x] <= b
        OBVIOUS
    <2> HIDE DEF m
    <2>6. SumFunctionOnSet(f, U \cup {x}) <= m + b
        BY <2>2, <2>3, <2>4, <2>5
    <2> QED
        BY <2>1, <2>3, <2>6
<1>3. S \in F
    <2> HIDE DEF F
    <2> QED
        BY <1>1, <1>2, FamilyInduction
<1> QED
    BY <1>3

\* Summands that are at least b add up to at least b for each.
LEMMA SumAtLeast ==
    ASSUME NEW S, IsFiniteSet(S), NEW b \in Nat, NEW f,
           \A x \in S : f[x] \in Nat /\ b <= f[x]
    PROVE  Cardinality(S) * b <= SumFunctionOnSet(f, S)
<1> DEFINE F == {U \in SUBSET S : Cardinality(U) * b <= SumFunctionOnSet(f, U)}
<1>1. {} \in F
    <2>1. SumFunctionOnSet(f, {}) = 0 /\ Cardinality({}) = 0
        BY SumUnfolds, FS_EmptySet
    <2> QED
        BY <2>1
<1>2. ASSUME NEW U \in SUBSET S, NEW x \in S \ U, U \in F PROVE U \cup {x} \in F
    <2> DEFINE n == Cardinality(U)
               m == n * b
    <2>1. /\ IsFiniteSet(U) /\ n \in Nat
          /\ Cardinality(U \cup {x}) = n + 1
        BY FS_Subset, FS_AddElement, FS_CardinalityType
    <2>2. /\ SumFunctionOnSet(f, U) \in Nat
          /\ SumFunctionOnSet(f, U \cup {x}) = SumFunctionOnSet(f, U) + f[x]
        <3>1. /\ x \notin U /\ f[x] \in Nat
              /\ \A y \in U : f[y] \in Nat
            OBVIOUS
        <3> QED
            BY <2>1, <3>1, SumAdd
    <2>3. (n + 1) * b = m + b /\ m \in Nat
        BY <2>1
    <2>4. m <= SumFunctionOnSet(f, U)
        BY <1>2
    <2>5. f[x] \in Nat /\ b <= f[x]
        OBVIOUS
    <2> HIDE DEF m
    <2>6. m + b <= SumFunctionOnSet(f, U \cup {x})
        BY <2>2, <2>3, <2>4, <2>5
    <2> QED
        BY <2>1, <2>3, <2>6
<1>3. S \in F
    <2> HIDE DEF F
    <2> QED
        BY <1>1, <1>2, FamilyInduction
<1> QED
    BY <1>3

\* A finite set has an element with the least of its values.
LEMMA LeastValue ==
    ASSUME NEW S, S # {}, NEW f, \A x \in S : f[x] \in Nat
    PROVE  \E x \in S : \A y \in S : f[x] <= f[y]
<1> DEFINE values == {f[x] : x \in S}
<1>1. \E n \in values : \A m \in values : n <= m
    BY LeastExists
<1> QED
    BY <1>1

\* As many summands that are no smaller add up to no less.
LEMMA SumDominates ==
    ASSUME NEW S, IsFiniteSet(S), NEW T, IsFiniteSet(T), Cardinality(S) <= Cardinality(T),
           NEW f, \A x \in S \cup T : f[x] \in Nat,
           \A x \in S, y \in T : f[x] <= f[y]
    PROVE  SumFunctionOnSet(f, S) <= SumFunctionOnSet(f, T)
<1>0. /\ Cardinality(S) \in Nat /\ Cardinality(T) \in Nat
      /\ SumFunctionOnSet(f, S) \in Nat /\ SumFunctionOnSet(f, T) \in Nat
    BY SumStep, FS_CardinalityType
<1>1. CASE T = {}
    <2>1. Cardinality(S) = 0
        BY <1>0, <1>1, FS_EmptySet
    <2>2. S = T
        BY <1>1, <2>1, FS_EmptySet
    <2> QED
        BY <1>0, <2>2
<1>2. CASE T # {}
    <2>1. PICK least \in T : \A y \in T : f[least] <= f[y]
        BY <1>2, LeastValue
    <2> DEFINE b == f[least]
               s == Cardinality(S)
               t == Cardinality(T)
    <2>2. b \in Nat /\ (\A x \in S : f[x] <= b) /\ (\A y \in T : b <= f[y])
        BY <2>1
    <2> HIDE DEF b, s, t
    <2>3. SumFunctionOnSet(f, S) <= s * b
        BY <2>2, SumBounded DEF s
    <2>4. t * b <= SumFunctionOnSet(f, T)
        BY <2>2, SumAtLeast DEF t
    <2>5. s * b <= t * b /\ s * b \in Nat /\ t * b \in Nat
        <3>1. s \in Nat /\ t \in Nat /\ s <= t
            BY <1>0 DEF s, t
        <3>2. t = s + (t - s) /\ t - s \in Nat
            BY <3>1
        <3>3. t * b = s * b + (t - s) * b
            BY <2>2, <3>1, <3>2
        <3>4. (t - s) * b \in Nat /\ s * b \in Nat
            BY <2>2, <3>1, <3>2
        <3> QED
            BY <3>3, <3>4
    <2> QED
        BY <1>0, <2>3, <2>4, <2>5
<1> QED
    BY <1>1, <1>2

\* A sum whose other summands are zero is the sum over a part.
LEMMA SumOfPart ==
    ASSUME NEW S, IsFiniteSet(S), NEW T \in SUBSET S, NEW f, NEW g,
           \A x \in T : f[x] \in Nat /\ g[x] = f[x],
           \A x \in S \ T : g[x] = 0
    PROVE  SumFunctionOnSet(g, S) = SumFunctionOnSet(f, T)
<1> DEFINE rest == S \ T
<1>1. IsFiniteSet(T) /\ IsFiniteSet(rest) /\ T \cup rest = S /\ T \cap rest = {}
    BY FS_Subset
<1>2. \A x \in rest : g[x] \in Nat /\ g[x] <= 0
    OBVIOUS
<1>3. \A x \in T \cup rest : g[x] \in Nat
    BY <1>2
<1> HIDE DEF rest
<1>4. SumFunctionOnSet(g, T \cup rest) = SumFunctionOnSet(g, T) + SumFunctionOnSet(g, rest)
    BY <1>1, <1>3, SumDisjoint
<1>5. SumFunctionOnSet(g, T) = SumFunctionOnSet(f, T)
    BY <1>1, <1>3, SumSame
<1>6. SumFunctionOnSet(g, rest) <= Cardinality(rest) * 0
    BY <1>1, <1>2, SumBounded
<1>7. /\ Cardinality(rest) \in Nat /\ SumFunctionOnSet(g, rest) \in Nat
      /\ SumFunctionOnSet(g, T) \in Nat
    BY <1>1, <1>3, SumStep, FS_CardinalityType
<1>8. SumFunctionOnSet(g, T) + SumFunctionOnSet(g, rest) = SumFunctionOnSet(f, T)
    BY <1>5, <1>6, <1>7
<1> QED
    BY <1>1, <1>4, <1>8, Zenon
=============================================================================
