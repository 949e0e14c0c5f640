----------------------------- MODULE SizesProofs -----------------------------
(***************************************************************************)
(* Proofs about Sizes, for any libraries, paths, files and quotas, and any     *)
(* number of threads and of uploads: rows are right, they follow the library, *)
(* and checked uploads keep the quota.                                        *)
(*                                                                          *)
(* The sums of sizes are values of a recursive function.  What is needed of   *)
(* them is proved first, from the least number of summands for which it       *)
(* would fail.                                                                *)
(***************************************************************************)
EXTENDS Sizes, FiniteSetTheorems, WellFoundedInduction, TLAPS

\* A set of numbers has a least one.
LEMMA Least ==
    ASSUME NEW S \in SUBSET Nat, S # {}
    PROVE  \E k \in S : \A y \in S : k <= y
<1>1. PICK k \in S : \A y \in S : ~(<<y, k>> \in OpToRel(<, Nat))
    BY WFMin, NatLessThanWellFounded
<1>2. \A y \in S : ~(y < k)
    BY <1>1 DEF OpToRel
<1> QED
    BY <1>2

----------------------------------------------------------------------------
\* Sums

\* The equation of the recursive function by which a sum is computed
SumFun(f, D, g) ==
    [T \in SUBSET D |-> IF T = {} THEN 0
                        ELSE f[CHOOSE x \in T : TRUE] + g[T \ {CHOOSE x \in T : TRUE}]]

\* A set without one of its members is smaller.
LEMMA Smaller ==
    ASSUME NEW T, IsFiniteSet(T), NEW x \in T
    PROVE  /\ IsFiniteSet(T \ {x})
           /\ Cardinality(T) \in Nat /\ Cardinality(T) > 0
           /\ Cardinality(T \ {x}) = Cardinality(T) - 1
           /\ Cardinality(T \ {x}) \in Nat
<1>1. IsFiniteSet(T \ {x}) /\ Cardinality(T \ {x}) = Cardinality(T) - 1
    BY FS_RemoveElement
<1>2. Cardinality(T) \in Nat /\ Cardinality(T \ {x}) \in Nat
    BY <1>1, FS_CardinalityType
<1> QED
    BY <1>1, <1>2

\* The equation has a solution for every finite set.
LEMMA SumsExist ==
    ASSUME NEW f, NEW D, IsFiniteSet(D)
    PROVE  \E g : g = SumFun(f, D, g)
<1> DEFINE Level(n) == {T \in SUBSET D : Cardinality(T) <= n}
           c(T) == CHOOSE x \in T : TRUE
           Val(g, T) == IF T = {} THEN 0 ELSE f[c(T)] + g[T \ {c(T)}]
           Is(g, n) == g = [T \in Level(n) |-> Val(g, T)]
           Bad == {n \in Nat : ~\E g : Is(g, n)}
<1>1. ASSUME NEW T \in SUBSET D, T # {}
      PROVE  /\ c(T) \in T /\ T \ {c(T)} \in SUBSET D
             /\ Cardinality(T) \in Nat /\ Cardinality(T) > 0
             /\ Cardinality(T \ {c(T)}) = Cardinality(T) - 1
    <2>1. c(T) \in T
        BY <1>1
    <2>2. IsFiniteSet(T)
        BY FS_Subset
    <2> HIDE DEF c
    <2> QED
        BY <2>1, <2>2, Smaller
<1>2. Bad = {}
    <2>1. SUFFICES ASSUME Bad # {} PROVE FALSE
        OBVIOUS
    <2>2. PICK k \in Bad : \A y \in Bad : k <= y
        <3>1. Bad \in SUBSET Nat
            OBVIOUS
        <3> HIDE DEF Bad
        <3> QED
            BY <2>1, <3>1, Least
    <2>3. k # 0
        <3>1. \A T \in Level(0) : T = {}
            <4> SUFFICES ASSUME NEW T \in Level(0), T # {} PROVE FALSE
                OBVIOUS
            <4>1. T \in SUBSET D /\ Cardinality(T) <= 0
                OBVIOUS
            <4>2. Cardinality(T) \in Nat /\ Cardinality(T) > 0
                BY <1>1, <4>1
            <4> QED
                BY <4>1, <4>2
        <3> DEFINE z == [T \in Level(0) |-> 0]
        <3>2. \A T \in Level(0) : Val(z, T) = 0
            BY <3>1
        <3> HIDE DEF Level, Val
        <3>3. z = [T \in Level(0) |-> Val(z, T)]
            BY <3>2
        <3>4. 0 \notin Bad
            BY <3>3
        <3> QED
            BY <2>2, <3>4
    <2>4. k - 1 \in Nat /\ k - 1 \notin Bad
        <3>1. k \in Nat
            BY <2>2
        <3> HIDE DEF Bad
        <3> QED
            BY <2>2, <2>3, <3>1
    <2>5. PICK g : Is(g, k - 1)
        BY <2>4
    <2> DEFINE h == [T \in Level(k) |-> Val(g, T)]
    <2>6. ASSUME NEW U \in Level(k - 1) PROVE g[U] = h[U]
        <3>1. g[U] = Val(g, U)
            <4> HIDE DEF Level, Val
            <4> QED
                BY <2>5
        <3>2. U \in Level(k)
            <4>1. Cardinality(U) \in Nat
                BY FS_Subset, FS_CardinalityType
            <4> QED
                BY <2>4, <4>1
        <3> HIDE DEF Level, Val
        <3> QED
            BY <3>1, <3>2
    <2>7. ASSUME NEW T \in Level(k) PROVE Val(g, T) = Val(h, T)
        <3>1. CASE T = {}
            BY <3>1
        <3>2. CASE T # {}
            <4>1. T \ {c(T)} \in Level(k - 1)
                <5>1. T \in SUBSET D /\ Cardinality(T) <= k
                    OBVIOUS
                <5>2. Cardinality(T) - 1 <= k - 1
                    <6>1. Cardinality(T) \in Nat
                        BY <3>2, <5>1, <1>1
                    <6> QED
                        BY <2>4, <5>1, <6>1
                <5> HIDE DEF c
                <5> QED
                    BY <1>1, <3>2, <5>1, <5>2
            <4>2. g[T \ {c(T)}] = h[T \ {c(T)}]
                BY <2>6, <4>1
            <4> HIDE DEF h, c, Level
            <4> QED
                BY <4>2
        <3> QED
            BY <3>1, <3>2
    <2>8. Is(h, k)
        <3> HIDE DEF Level, Val
        <3>1. h = [T \in Level(k) |-> Val(h, T)]
            BY <2>7
        <3> QED
            BY <3>1
    <2> QED
        BY <2>2, <2>8
<1>3. Cardinality(D) \in Nat
    BY FS_CardinalityType
<1>4. PICK g : Is(g, Cardinality(D))
    BY <1>2, <1>3
<1>5. Level(Cardinality(D)) = SUBSET D
    BY FS_Subset
<1>6. g = SumFun(f, D, g)
    BY <1>4, <1>5 DEF SumFun
<1> QED
    BY <1>6

\* So a sum is a solution's value.
LEMMA SumUnfold ==
    ASSUME NEW f, NEW D, IsFiniteSet(D)
    PROVE  \E g : g = SumFun(f, D, g) /\ SumFunctionOnSet(f, D) = g[D]
<1> DEFINE g == CHOOSE h : h = SumFun(f, D, h)
<1>1. g = SumFun(f, D, g)
    BY SumsExist
<1>2. SumFunctionOnSet(f, D) = g[D]
    BY DEF SumFunctionOnSet, FoldFunctionOnSet, MapThenFoldSet, SumFun
<1> QED
    BY <1>1, <1>2

\* Two solutions agree where the summands do.
LEMMA SumsAgree ==
    ASSUME NEW f, NEW C, NEW g, g = SumFun(f, C, g),
           NEW e, NEW D, NEW h, h = SumFun(e, D, h),
           NEW T, IsFiniteSet(T), T \subseteq C, T \subseteq D, \A x \in T : f[x] = e[x]
    PROVE  g[T] = h[T]
<1> DEFINE Bad == {n \in Nat : \E U \in SUBSET T : Cardinality(U) = n /\ g[U] # h[U]}
<1>1. \A U \in SUBSET T : IsFiniteSet(U) /\ Cardinality(U) \in Nat
    BY FS_Subset, FS_CardinalityType
<1>2. Bad = {}
    <2>1. SUFFICES ASSUME Bad # {} PROVE FALSE
        OBVIOUS
    <2>2. PICK k \in Bad : \A y \in Bad : k <= y
        <3>1. Bad \in SUBSET Nat
            OBVIOUS
        <3> HIDE DEF Bad
        <3> QED
            BY <2>1, <3>1, Least
    <2>3. PICK U \in SUBSET T : Cardinality(U) = k /\ g[U] # h[U]
        BY <2>2
    <2> DEFINE c == CHOOSE x \in U : TRUE
    <2>4. U \in SUBSET C /\ U \in SUBSET D
        OBVIOUS
    <2>5. g[U] = IF U = {} THEN 0 ELSE f[c] + g[U \ {c}]
        <3>1. SumFun(f, C, g)[U] = IF U = {} THEN 0 ELSE f[c] + g[U \ {c}]
            BY <2>4 DEF SumFun
        <3> QED
            BY <3>1
    <2>6. h[U] = IF U = {} THEN 0 ELSE e[c] + h[U \ {c}]
        <3>1. SumFun(e, D, h)[U] = IF U = {} THEN 0 ELSE e[c] + h[U \ {c}]
            BY <2>4 DEF SumFun
        <3> QED
            BY <3>1
    <2>7. U # {}
        BY <2>3, <2>5, <2>6
    <2>8. c \in U
        BY <2>7
    <2> HIDE DEF c
    <2>9. /\ Cardinality(U \ {c}) = k - 1 /\ k - 1 \in Nat
        BY <1>1, <2>3, <2>8, Smaller
    <2>10. g[U \ {c}] = h[U \ {c}]
        <3>1. k - 1 \notin Bad
            <4>1. k \in Nat
                BY <2>2
            <4> HIDE DEF Bad
            <4> QED
                BY <2>2, <2>9, <4>1
        <3>2. U \ {c} \in SUBSET T
            OBVIOUS
        <3> QED
            BY <2>9, <3>1, <3>2
    <2>11. f[c] = e[c]
        BY <2>8
    <2> QED
        BY <2>3, <2>5, <2>6, <2>7, <2>10, <2>11
<1>3. Cardinality(T) \in Nat /\ T \in SUBSET T
    BY <1>1
<1> QED
    BY <1>2, <1>3

\* A sum depends on its summands only.
LEMMA SumSame ==
    ASSUME NEW f, NEW e, NEW D, IsFiniteSet(D), \A x \in D : f[x] = e[x]
    PROVE  SumFunctionOnSet(f, D) = SumFunctionOnSet(e, D)
<1>1. PICK g : g = SumFun(f, D, g) /\ SumFunctionOnSet(f, D) = g[D]
    BY SumUnfold
<1>2. PICK h : h = SumFun(e, D, h) /\ SumFunctionOnSet(e, D) = h[D]
    BY SumUnfold
<1>3. g[D] = h[D]
    BY <1>1, <1>2, SumsAgree
<1> QED
    BY <1>1, <1>2, <1>3

LEMMA SumEmpty == ASSUME NEW f PROVE SumFunctionOnSet(f, {}) = 0
<1>1. PICK g : g = SumFun(f, {}, g) /\ SumFunctionOnSet(f, {}) = g[{}]
    BY SumUnfold, FS_EmptySet
<1>2. SumFun(f, {}, g)[{}] = 0
    BY DEF SumFun
<1> QED
    BY <1>1, <1>2

\* The first summand is the one that CHOOSE takes.
LEMMA SumFirst ==
    ASSUME NEW f, NEW D, IsFiniteSet(D), D # {}
    PROVE  \E c \in D : SumFunctionOnSet(f, D) = f[c] + SumFunctionOnSet(f, D \ {c})
<1> DEFINE c == CHOOSE x \in D : TRUE
<1>1. PICK g : g = SumFun(f, D, g) /\ SumFunctionOnSet(f, D) = g[D]
    BY SumUnfold
<1>2. IsFiniteSet(D \ {c})
    BY FS_Subset
<1>3. PICK h : h = SumFun(f, D \ {c}, h) /\ SumFunctionOnSet(f, D \ {c}) = h[D \ {c}]
    BY <1>2, SumUnfold
<1>4. SumFun(f, D, g)[D] = f[c] + g[D \ {c}]
    BY DEF SumFun
<1>5. c \in D
    OBVIOUS
<1> HIDE DEF c
<1>6. g[D \ {c}] = h[D \ {c}]
    BY <1>1, <1>2, <1>3, SumsAgree
<1>7. g[D] = f[c] + h[D \ {c}]
    BY <1>1, <1>4, <1>6
<1> QED
    BY <1>1, <1>3, <1>5, <1>7

\* A sum of integers is one, and any summand can be taken first.
LEMMA SumPick ==
    ASSUME NEW f, NEW D, IsFiniteSet(D), \A x \in D : f[x] \in Int
    PROVE  /\ SumFunctionOnSet(f, D) \in Int
           /\ \A x \in D : SumFunctionOnSet(f, D) = f[x] + SumFunctionOnSet(f, D \ {x})
<1> DEFINE Good(U) == /\ SumFunctionOnSet(f, U) \in Int
                      /\ \A x \in U : SumFunctionOnSet(f, U)
                                      = f[x] + SumFunctionOnSet(f, U \ {x})
           Bad == {n \in Nat : \E U \in SUBSET D : Cardinality(U) = n /\ ~Good(U)}
<1>1. \A U \in SUBSET D : IsFiniteSet(U) /\ Cardinality(U) \in Nat
    BY FS_Subset, FS_CardinalityType
<1>2. Bad = {}
    <2>1. SUFFICES ASSUME Bad # {} PROVE FALSE
        OBVIOUS
    <2>2. PICK k \in Bad : \A y \in Bad : k <= y
        <3>1. Bad \in SUBSET Nat
            OBVIOUS
        <3> HIDE DEF Bad
        <3> QED
            BY <2>1, <3>1, Least
    <2>3. PICK U \in SUBSET D : Cardinality(U) = k /\ ~Good(U)
        BY <2>2
    <2>4. U # {}
        <3>1. Good({})
            BY SumEmpty
        <3> QED
            BY <2>3, <3>1
    <2>5. ASSUME NEW V \in SUBSET D, Cardinality(V) < k
          PROVE  Good(V)
        <3>1. Cardinality(V) \in Nat /\ k \in Nat
            BY <1>1, <2>2
        <3>2. Cardinality(V) \notin Bad
            <4> HIDE DEF Bad
            <4> QED
                BY <2>2, <2>5, <3>1
        <3> QED
            BY <3>1, <3>2
    <2>6. ASSUME NEW x \in U
          PROVE  U \ {x} \in SUBSET D /\ Good(U \ {x})
        <3>1. Cardinality(U \ {x}) < k
            BY <1>1, <2>3, Smaller
        <3>2. U \ {x} \in SUBSET D
            OBVIOUS
        <3> QED
            BY <2>5, <3>1, <3>2
    <2>7. PICK c \in U : SumFunctionOnSet(f, U) = f[c] + SumFunctionOnSet(f, U \ {c})
        BY <1>1, <2>4, SumFirst
    <2>8. f[c] \in Int /\ SumFunctionOnSet(f, U \ {c}) \in Int
        BY <2>6
    <2>9. ASSUME NEW x \in U
          PROVE  SumFunctionOnSet(f, U) = f[x] + SumFunctionOnSet(f, U \ {x})
        <3>1. CASE x = c
            BY <2>7, <3>1
        <3>2. CASE x # c
            <4>1. x \in U \ {c} /\ c \in U \ {x} /\ (U \ {c}) \ {x} = (U \ {x}) \ {c}
                BY <3>2
            <4>2. SumFunctionOnSet(f, U \ {c})
                  = f[x] + SumFunctionOnSet(f, (U \ {x}) \ {c})
                <5>1. SumFunctionOnSet(f, U \ {c})
                      = f[x] + SumFunctionOnSet(f, (U \ {c}) \ {x})
                    BY <2>6, <4>1
                <5> QED
                    BY <4>1, <5>1
            <4>3. SumFunctionOnSet(f, U \ {x})
                  = f[c] + SumFunctionOnSet(f, (U \ {x}) \ {c})
                BY <2>6, <4>1
            <4>4. SumFunctionOnSet(f, (U \ {x}) \ {c}) \in Int
                <5>1. Cardinality((U \ {x}) \ {c}) < k
                    <6>1. IsFiniteSet(U) /\ IsFiniteSet(U \ {x})
                        BY <1>1
                    <6>2. /\ Cardinality(U \ {x}) = Cardinality(U) - 1
                          /\ Cardinality((U \ {x}) \ {c}) = Cardinality(U \ {x}) - 1
                        BY <4>1, <6>1, Smaller
                    <6>3. k \in Nat
                        BY <2>2
                    <6> QED
                        BY <2>3, <6>2, <6>3
                <5>2. (U \ {x}) \ {c} \in SUBSET D
                    OBVIOUS
                <5> QED
                    BY <2>5, <5>1, <5>2
            <4>5. f[x] \in Int
                OBVIOUS
            <4>6. SumFunctionOnSet(f, U)
                  = f[c] + (f[x] + SumFunctionOnSet(f, (U \ {x}) \ {c}))
                BY <2>7, <4>2
            <4> QED
                BY <2>8, <4>3, <4>4, <4>5, <4>6
        <3> QED
            BY <3>1, <3>2
    <2>10. Good(U)
        BY <2>7, <2>8, <2>9
    <2> QED
        BY <2>3, <2>10
<1>3. Cardinality(D) \in Nat /\ D \in SUBSET D
    BY <1>1
<1>4. Good(D)
    BY <1>2, <1>3
<1> QED
    BY <1>4

LEMMA SumAdd ==
    ASSUME NEW f, NEW D, IsFiniteSet(D), NEW y, y \notin D,
           \A x \in D \cup {y} : f[x] \in Int
    PROVE  /\ IsFiniteSet(D \cup {y})
           /\ SumFunctionOnSet(f, D \cup {y}) = f[y] + SumFunctionOnSet(f, D)
<1>1. IsFiniteSet(D \cup {y})
    BY FS_AddElement
<1>2. (D \cup {y}) \ {y} = D /\ y \in D \cup {y}
    OBVIOUS
<1> QED
    BY <1>1, <1>2, SumPick

\* Induction over the subsets of a finite set, for a property given by its set
LEMMA FiniteInduction ==
    ASSUME NEW D, IsFiniteSet(D), NEW P, {} \in P,
           \A U \in SUBSET D : \A x \in D \ U : U \in P => U \cup {x} \in P
    PROVE  D \in P
<1> DEFINE Bad == {n \in Nat : \E U \in SUBSET D : Cardinality(U) = n /\ U \notin P}
<1>1. \A U \in SUBSET D : IsFiniteSet(U) /\ Cardinality(U) \in Nat
    BY FS_Subset, FS_CardinalityType
<1>2. Bad = {}
    <2>1. SUFFICES ASSUME Bad # {} PROVE FALSE
        OBVIOUS
    <2>2. PICK k \in Bad : \A y \in Bad : k <= y
        <3>1. Bad \in SUBSET Nat
            OBVIOUS
        <3> HIDE DEF Bad
        <3> QED
            BY <2>1, <3>1, Least
    <2>3. PICK U \in SUBSET D : Cardinality(U) = k /\ U \notin P
        BY <2>2
    <2>4. PICK c \in U : TRUE
        BY <2>3
    <2>5. Cardinality(U \ {c}) = k - 1 /\ k - 1 \in Nat
        BY <1>1, <2>3, <2>4, Smaller
    <2>6. k - 1 \notin Bad
        <3>1. k \in Nat
            BY <2>2
        <3> HIDE DEF Bad
        <3> QED
            BY <2>2, <2>5, <3>1
    <2>7. U \ {c} \in P /\ U \ {c} \in SUBSET D
        BY <2>5, <2>6
    <2>8. c \in D \ (U \ {c}) /\ (U \ {c}) \cup {c} = U
        BY <2>4
    <2> QED
        BY <2>3, <2>7, <2>8
<1>3. Cardinality(D) \in Nat /\ D \in SUBSET D
    BY <1>1
<1> QED
    BY <1>2, <1>3

LEMMA SumUnion ==
    ASSUME NEW f, NEW A, NEW B, IsFiniteSet(A), IsFiniteSet(B), A \cap B = {},
           \A x \in A \cup B : f[x] \in Int
    PROVE  SumFunctionOnSet(f, A \cup B) = SumFunctionOnSet(f, A) + SumFunctionOnSet(f, B)
<1> DEFINE P == {U \in SUBSET B : SumFunctionOnSet(f, A \cup U)
                                  = SumFunctionOnSet(f, A) + SumFunctionOnSet(f, U)}
<1>1. SumFunctionOnSet(f, A) \in Int
    BY SumPick
<1>2. {} \in P
    <2>1. A \cup {} = A
        OBVIOUS
    <2> QED
        BY <1>1, <2>1, SumEmpty
<1>3. ASSUME NEW U \in SUBSET B, NEW x \in B \ U, U \in P
      PROVE  U \cup {x} \in P
    <2>1. IsFiniteSet(U) /\ IsFiniteSet(A \cup U)
        BY FS_Subset, FS_Union
    <2>2. SumFunctionOnSet(f, U \cup {x}) = f[x] + SumFunctionOnSet(f, U)
        BY <2>1, SumAdd
    <2>3. SumFunctionOnSet(f, (A \cup U) \cup {x}) = f[x] + SumFunctionOnSet(f, A \cup U)
        <3>1. x \notin A \cup U /\ \A y \in (A \cup U) \cup {x} : f[y] \in Int
            OBVIOUS
        <3> QED
            BY <2>1, <3>1, SumAdd
    <2>4. (A \cup U) \cup {x} = A \cup (U \cup {x})
        OBVIOUS
    <2>5. SumFunctionOnSet(f, A \cup U) = SumFunctionOnSet(f, A) + SumFunctionOnSet(f, U)
        BY <1>3
    <2>6. f[x] \in Int /\ SumFunctionOnSet(f, U) \in Int
        BY <2>1, SumPick
    <2>7. SumFunctionOnSet(f, A \cup (U \cup {x})) = f[x] + SumFunctionOnSet(f, A \cup U)
        BY <2>3, <2>4
    <2>8. SumFunctionOnSet(f, A \cup (U \cup {x}))
          = SumFunctionOnSet(f, A) + SumFunctionOnSet(f, U \cup {x})
        BY <1>1, <2>2, <2>5, <2>6, <2>7
    <2> QED
        BY <2>8
<1>4. B \in P
    <2> HIDE DEF P
    <2> QED
        BY <1>2, <1>3, FiniteInduction
<1> QED
    BY <1>4

LEMMA SumZero ==
    ASSUME NEW f, NEW D, IsFiniteSet(D), \A x \in D : f[x] = 0
    PROVE  SumFunctionOnSet(f, D) = 0
<1> DEFINE P == {U \in SUBSET D : SumFunctionOnSet(f, U) = 0}
<1>1. {} \in P
    BY SumEmpty
<1>2. ASSUME NEW U \in SUBSET D, NEW x \in D \ U, U \in P
      PROVE  U \cup {x} \in P
    <2>1. IsFiniteSet(U) /\ \A y \in U \cup {x} : f[y] = 0
        BY FS_Subset
    <2>2. SumFunctionOnSet(f, U \cup {x}) = f[x] + SumFunctionOnSet(f, U)
        BY <2>1, SumAdd
    <2> QED
        BY <1>2, <2>1, <2>2
<1>3. D \in P
    <2> HIDE DEF P
    <2> QED
        BY <1>1, <1>2, FiniteInduction
<1> QED
    BY <1>3

\* A sum over an image, where no two of R have the same image
LEMMA SumImage ==
    ASSUME NEW R, IsFiniteSet(R), NEW h, \A r, s \in R : h[r] = h[s] => r = s,
           NEW S, \A r \in R : h[r] \in S, \A x \in S : \E r \in R : x = h[r],
           NEW f, NEW e, \A r \in R : e[r] \in Int /\ f[h[r]] = e[r]
    PROVE  /\ IsFiniteSet(S) /\ Cardinality(S) = Cardinality(R)
           /\ SumFunctionOnSet(f, S) = SumFunctionOnSet(e, R)
<1> DEFINE I(U) == {h[r] : r \in U}
           P == {U \in SUBSET R : /\ IsFiniteSet(I(U))
                                  /\ Cardinality(I(U)) = Cardinality(U)
                                  /\ SumFunctionOnSet(f, I(U)) = SumFunctionOnSet(e, U)}
<1>1. {} \in P
    <2>1. I({}) = {}
        OBVIOUS
    <2> HIDE DEF I
    <2> QED
        BY <2>1, SumEmpty, FS_EmptySet
<1>2. ASSUME NEW U \in SUBSET R, NEW x \in R \ U, U \in P
      PROVE  U \cup {x} \in P
    <2>1. I(U \cup {x}) = I(U) \cup {h[x]} /\ h[x] \notin I(U)
        OBVIOUS
    <2>2. \A y \in I(U) \cup {h[x]} : f[y] \in Int
        OBVIOUS
    <2>3. IsFiniteSet(U) /\ IsFiniteSet(I(U))
        BY <1>2, FS_Subset
    <2>4. /\ IsFiniteSet(I(U) \cup {h[x]})
          /\ SumFunctionOnSet(f, I(U) \cup {h[x]}) = f[h[x]] + SumFunctionOnSet(f, I(U))
        <3> HIDE DEF I
        <3> QED
            BY <2>1, <2>2, <2>3, SumAdd
    <2>5. SumFunctionOnSet(e, U \cup {x}) = e[x] + SumFunctionOnSet(e, U)
        <3>1. x \notin U /\ \A y \in U \cup {x} : e[y] \in Int
            OBVIOUS
        <3> QED
            BY <2>3, <3>1, SumAdd
    <2>6. Cardinality(I(U) \cup {h[x]}) = Cardinality(I(U)) + 1
        <3> HIDE DEF I
        <3> QED
            BY <2>1, <2>3, FS_AddElement
    <2>7. Cardinality(U \cup {x}) = Cardinality(U) + 1
        BY <2>3, FS_AddElement
    <2>8. /\ Cardinality(I(U)) = Cardinality(U)
          /\ SumFunctionOnSet(f, I(U)) = SumFunctionOnSet(e, U)
          /\ f[h[x]] = e[x]
        BY <1>2
    <2>9. /\ IsFiniteSet(I(U \cup {x}))
          /\ Cardinality(I(U \cup {x})) = Cardinality(U \cup {x})
          /\ SumFunctionOnSet(f, I(U \cup {x})) = SumFunctionOnSet(e, U \cup {x})
        <3> HIDE DEF I
        <3> QED
            BY <2>1, <2>4, <2>5, <2>6, <2>7, <2>8
    <2> HIDE DEF I
    <2> QED
        BY <2>9
<1>3. R \in P
    <2> HIDE DEF P
    <2> QED
        BY <1>1, <1>2, FiniteInduction
<1>4. I(R) = S
    OBVIOUS
<1> HIDE DEF I
<1> QED
    BY <1>3, <1>4

----------------------------------------------------------------------------
\* The sizes of trees

Tree(D) == [D -> FileIds \cup {Nothing}]

SizeIn(f) == IF f = Nothing THEN 0 ELSE SizeOf[f]
CountIn(f) == IF f = Nothing THEN 0 ELSE 1

LEMMA TreeSizes ==
    ASSUME SizesAssumption, NEW D, IsFiniteSet(D), NEW t \in Tree(D)
    PROVE  /\ SizesIn(t) \in [D -> Nat] /\ \A n \in D : SizesIn(t)[n] = SizeIn(t[n])
           /\ Size(t) = SumFunctionOnSet(SizesIn(t), D) /\ Size(t) \in Int
           /\ Count(t) = Cardinality({n \in D : t[n] # Nothing}) /\ Count(t) \in Nat
<1>1. DOMAIN t = D /\ \A n \in D : t[n] \in FileIds \cup {Nothing}
    BY DEF Tree
<1>2. SizesIn(t) \in [D -> Nat] /\ \A n \in D : SizesIn(t)[n] = SizeIn(t[n])
    BY <1>1 DEF SizesIn, SizeIn, SizesAssumption
<1>3. Size(t) = SumFunctionOnSet(SizesIn(t), D)
    <2>1. DOMAIN SizesIn(t) = D
        BY <1>2
    <2> QED
        BY <2>1 DEF Size, SumFunction
<1>4. Size(t) \in Int
    <2>1. \A n \in D : SizesIn(t)[n] \in Int
        BY <1>2
    <2> QED
        BY <1>3, <2>1, SumPick
<1>5. Count(t) = Cardinality({n \in D : t[n] # Nothing}) /\ Count(t) \in Nat
    <2>1. IsFiniteSet({n \in D : t[n] # Nothing})
        BY FS_Subset
    <2> QED
        BY <1>1, <2>1, FS_CardinalityType DEF Count
<1> QED
    BY <1>2, <1>3, <1>4, <1>5

\* What one change of a path does to the size
LEMMA SizePut ==
    ASSUME SizesAssumption, NEW D, IsFiniteSet(D), NEW t \in Tree(D),
           NEW n \in D, NEW f \in FileIds \cup {Nothing}
    PROVE  LET s == [t EXCEPT ![n] = f]
           IN  /\ s \in Tree(D)
               /\ Size(s) = Size(t) - SizeIn(t[n]) + SizeIn(f)
               /\ Count(s) = Count(t) - CountIn(t[n]) + CountIn(f)
<1> DEFINE s == [t EXCEPT ![n] = f]
<1>1. s \in Tree(D) /\ s[n] = f /\ \A m \in D \ {n} : s[m] = t[m]
    BY DEF Tree
<1> HIDE DEF s
<1>s. /\ \A m \in D : SizesIn(s)[m] \in Int /\ SizesIn(s)[m] = SizeIn(s[m])
      /\ Size(s) = SumFunctionOnSet(SizesIn(s), D)
      /\ Count(s) = Cardinality({m \in D : s[m] # Nothing})
    <2>1. /\ SizesIn(s) \in [D -> Nat] /\ \A m \in D : SizesIn(s)[m] = SizeIn(s[m])
          /\ Size(s) = SumFunctionOnSet(SizesIn(s), D)
          /\ Count(s) = Cardinality({m \in D : s[m] # Nothing})
        BY <1>1, TreeSizes
    <2> QED
        BY <2>1
<1>t. /\ \A m \in D : SizesIn(t)[m] \in Int /\ SizesIn(t)[m] = SizeIn(t[m])
      /\ Size(t) = SumFunctionOnSet(SizesIn(t), D)
      /\ Count(t) = Cardinality({m \in D : t[m] # Nothing})
    <2>1. /\ SizesIn(t) \in [D -> Nat] /\ \A m \in D : SizesIn(t)[m] = SizeIn(t[m])
          /\ Size(t) = SumFunctionOnSet(SizesIn(t), D)
          /\ Count(t) = Cardinality({m \in D : t[m] # Nothing})
        BY TreeSizes
    <2> QED
        BY <2>1
<1>2. IsFiniteSet(D \ {n})
    BY FS_Subset
<1>3. /\ Size(s) = SizeIn(f) + SumFunctionOnSet(SizesIn(s), D \ {n})
      /\ SizeIn(f) \in Int
    <2>1. SumFunctionOnSet(SizesIn(s), D)
          = SizesIn(s)[n] + SumFunctionOnSet(SizesIn(s), D \ {n})
        <3>1. \A m \in D : SizesIn(s)[m] \in Int
            BY <1>s
        <3> QED
            BY <3>1, SumPick
    <2>2. SizesIn(s)[n] = SizeIn(f) /\ SizesIn(s)[n] \in Int
        BY <1>1, <1>s
    <2> QED
        BY <1>s, <2>1, <2>2
<1>4. /\ Size(t) = SizeIn(t[n]) + SumFunctionOnSet(SizesIn(t), D \ {n})
      /\ SizeIn(t[n]) \in Int
    <2>1. SumFunctionOnSet(SizesIn(t), D)
          = SizesIn(t)[n] + SumFunctionOnSet(SizesIn(t), D \ {n})
        <3>1. \A m \in D : SizesIn(t)[m] \in Int
            BY <1>t
        <3> QED
            BY <3>1, SumPick
    <2>2. SizesIn(t)[n] = SizeIn(t[n]) /\ SizesIn(t)[n] \in Int
        BY <1>t
    <2> QED
        BY <1>t, <2>1, <2>2
<1>5. /\ SumFunctionOnSet(SizesIn(s), D \ {n}) = SumFunctionOnSet(SizesIn(t), D \ {n})
      /\ SumFunctionOnSet(SizesIn(t), D \ {n}) \in Int
    <2>1. \A m \in D \ {n} : SizesIn(s)[m] = SizesIn(t)[m] /\ SizesIn(t)[m] \in Int
        BY <1>1, <1>s, <1>t
    <2> QED
        BY <1>2, <2>1, SumSame, SumPick
<1>6. Size(s) = Size(t) - SizeIn(t[n]) + SizeIn(f)
    BY <1>3, <1>4, <1>5
<1>7. Count(s) = Count(t) - CountIn(t[n]) + CountIn(f)
    <2> DEFINE rest == {m \in D \ {n} : t[m] # Nothing}
    <2>1. IsFiniteSet(rest) /\ n \notin rest
        BY <1>2, FS_Subset
    <2>2. \A u \in {Nothing} \cup FileIds :
            Cardinality(rest \cup (IF u = Nothing THEN {} ELSE {n}))
            = Cardinality(rest) + CountIn(u)
        <3>1. Cardinality(rest \cup {n}) = Cardinality(rest) + 1
            <4> HIDE DEF rest
            <4> QED
                BY <2>1, FS_AddElement
        <3>2. rest \cup {} = rest /\ Cardinality(rest) \in Nat
            <4> HIDE DEF rest
            <4> QED
                BY <2>1, FS_CardinalityType
        <3> HIDE DEF rest
        <3> SUFFICES ASSUME NEW u \in {Nothing} \cup FileIds
                     PROVE  Cardinality(rest \cup (IF u = Nothing THEN {} ELSE {n}))
                            = Cardinality(rest) + CountIn(u)
            OBVIOUS
        <3>3. CASE u = Nothing
            BY <3>2, <3>3 DEF CountIn
        <3>4. CASE u # Nothing
            BY <3>1, <3>4 DEF CountIn
        <3> QED
            BY <3>3, <3>4
    <2>3. {m \in D : t[m] # Nothing} = rest \cup (IF t[n] = Nothing THEN {} ELSE {n})
        OBVIOUS
    <2>4. {m \in D : s[m] # Nothing} = rest \cup (IF f = Nothing THEN {} ELSE {n})
        BY <1>1
    <2>5. t[n] \in {Nothing} \cup FileIds
        BY DEF Tree
    <2>6. Count(t) = Cardinality(rest) + CountIn(t[n])
        <3> HIDE DEF rest
        <3> QED
            BY <1>t, <2>2, <2>3, <2>5
    <2>7. Count(s) = Cardinality(rest) + CountIn(f)
        <3> HIDE DEF rest
        <3> QED
            BY <1>s, <2>2, <2>4
    <2>8. Cardinality(rest) \in Nat
        BY <2>1, FS_CardinalityType
    <2> HIDE DEF rest
    <2> QED
        BY <2>6, <2>7, <2>8 DEF CountIn
<1> QED
    BY <1>1, <1>6, <1>7 DEF s

\* A file that is renamed keeps its size.
LEMMA SizeRename ==
    ASSUME SizesAssumption, NEW D, IsFiniteSet(D), NEW t \in Tree(D),
           NEW n \in D, NEW m \in D, t[n] # Nothing, t[m] = Nothing
    PROVE  LET s == [t EXCEPT ![m] = t[n], ![n] = Nothing]
           IN  s \in Tree(D) /\ Size(s) = Size(t) /\ Count(s) = Count(t)
<1> DEFINE r == [t EXCEPT ![m] = t[n]]
           s == [r EXCEPT ![n] = Nothing]
<1>1. t[n] \in FileIds \cup {Nothing}
    BY DEF Tree
<1>2. /\ r \in Tree(D) /\ Size(r) = Size(t) - SizeIn(Nothing) + SizeIn(t[n])
      /\ Count(r) = Count(t) - CountIn(Nothing) + CountIn(t[n])
    BY <1>1, SizePut
<1>3. r[n] = t[n]
    BY DEF Tree
<1>4. [t EXCEPT ![m] = t[n], ![n] = Nothing] = s
    OBVIOUS
<1> HIDE DEF r
<1>5. /\ s \in Tree(D) /\ Size(s) = Size(r) - SizeIn(t[n]) + SizeIn(Nothing)
      /\ Count(s) = Count(r) - CountIn(t[n]) + CountIn(Nothing)
    BY <1>2, <1>3, SizePut
<1> HIDE DEF s
<1>6. /\ Size(t) \in Int /\ Count(t) \in Int /\ CountIn(t[n]) \in Int
      /\ SizeIn(t[n]) \in Int /\ SizeIn(Nothing) = 0 /\ CountIn(Nothing) = 0
    <2>1. Size(t) \in Int /\ Count(t) \in Nat
        BY TreeSizes
    <2>2. SizeIn(t[n]) \in Nat /\ SizeIn(Nothing) = 0
        BY <1>1 DEF SizesAssumption, SizeIn
    <2> QED
        BY <2>1, <2>2 DEF CountIn
<1>7. Size(s) = Size(t) /\ Count(s) = Count(t)
    BY <1>2, <1>5, <1>6
<1> QED
    BY <1>4, <1>5, <1>7

\* The paths of one tree that the other one has not, has with another file, or has the
\* same, and the paths that a diff takes for the files R that it finds renamed
Gone(D, t, u) == {n \in D : t[n] # Nothing /\ u[n] = Nothing}
Kept(D, t, u) == {n \in D : t[n] # Nothing /\ u[n] # Nothing}
Modified(D, t, u) == {n \in D : t[n] # u[n] /\ t[n] # Nothing /\ u[n] # Nothing}
Same(D, t, u) == {n \in D : t[n] = u[n]}
Paired(A, t, R) == {CHOOSE n \in A : t[n] = f : f \in R}

\* What the pairs of a diff leave of the paths that are gone, or new: one path of each
\* renamed file is taken out.
LEMMA WithoutRenamed ==
    ASSUME SizesAssumption, NEW D, IsFiniteSet(D), NEW t \in Tree(D), NEW A \in SUBSET D,
           NEW R \in SUBSET FileIds, IsFiniteSet(R), \A f \in R : \E n \in A : t[n] = f
    PROVE  /\ SumFunctionOnSet(SizesIn(t), A \ Paired(A, t, R))
              = SumFunctionOnSet(SizesIn(t), A) - SumFunctionOnSet(SizeOf, R)
           /\ Cardinality(A \ Paired(A, t, R)) = Cardinality(A) - Cardinality(R)
<1> DEFINE h == [f \in R |-> CHOOSE n \in A : t[n] = f]
           H == {h[f] : f \in R}
<1>1. Paired(A, t, R) = H
    BY DEF Paired
<1>2. \A f \in R : h[f] \in A /\ t[h[f]] = f
    OBVIOUS
<1> HIDE DEF h
<1>3. \A n \in D : SizesIn(t)[n] \in Int /\ SizesIn(t)[n] = SizeIn(t[n])
    <2>1. SizesIn(t) \in [D -> Nat] /\ \A n \in D : SizesIn(t)[n] = SizeIn(t[n])
        BY TreeSizes
    <2> QED
        BY <2>1
<1>4. \A f \in R : SizeOf[f] \in Int /\ SizesIn(t)[h[f]] = SizeOf[f]
    <2> SUFFICES ASSUME NEW f \in R
                 PROVE  SizeOf[f] \in Int /\ SizesIn(t)[h[f]] = SizeOf[f]
        OBVIOUS
    <2>1. f # Nothing /\ SizeOf[f] \in Nat
        BY DEF SizesAssumption
    <2>2. SizesIn(t)[h[f]] = SizeIn(f)
        BY <1>2, <1>3
    <2> QED
        BY <2>1, <2>2 DEF SizeIn
<1>5. /\ IsFiniteSet(H) /\ Cardinality(H) = Cardinality(R)
      /\ SumFunctionOnSet(SizesIn(t), H) = SumFunctionOnSet(SizeOf, R)
    <2>1. \A f, g \in R : h[f] = h[g] => f = g
        BY <1>2
    <2>2. (\A f \in R : h[f] \in H) /\ (\A x \in H : \E f \in R : x = h[f])
        OBVIOUS
    <2> HIDE DEF H
    <2> QED
        BY <1>4, <2>1, <2>2, SumImage
<1>6. H \subseteq A /\ IsFiniteSet(A)
    BY <1>2, FS_Subset
<1>7. /\ (A \ H) \cap H = {} /\ (A \ H) \cup H = A /\ IsFiniteSet(A \ H)
    <2> HIDE DEF H
    <2> QED
        BY <1>6, FS_Subset
<1>8. SumFunctionOnSet(SizesIn(t), A)
      = SumFunctionOnSet(SizesIn(t), A \ H) + SumFunctionOnSet(SizesIn(t), H)
    <2> HIDE DEF H
    <2>1. \A n \in (A \ H) \cup H : SizesIn(t)[n] \in Int
        BY <1>3, <1>7
    <2>2. SumFunctionOnSet(SizesIn(t), (A \ H) \cup H)
          = SumFunctionOnSet(SizesIn(t), A \ H) + SumFunctionOnSet(SizesIn(t), H)
        BY <1>5, <1>7, <2>1, SumUnion
    <2> QED
        BY <1>7, <2>2
<1>9. /\ SumFunctionOnSet(SizesIn(t), A \ H) \in Int
      /\ SumFunctionOnSet(SizeOf, R) \in Int
    <2>1. \A n \in A \ H : SizesIn(t)[n] \in Int
        BY <1>3
    <2>2. SumFunctionOnSet(SizesIn(t), A \ H) \in Int
        <3> HIDE DEF H
        <3> QED
            BY <1>7, <2>1, SumPick
    <2>3. \A f \in R : SizeOf[f] \in Int
        BY <1>4
    <2>4. SumFunctionOnSet(SizeOf, R) \in Int
        BY <2>3, SumPick
    <2> QED
        BY <2>2, <2>4
<1>10. /\ Cardinality(A \ H) = Cardinality(A) - Cardinality(H)
       /\ Cardinality(R) \in Nat
    <2> HIDE DEF H
    <2>1. Cardinality(A \ H) = Cardinality(A) - Cardinality(A \cap H)
        BY <1>6, FS_Difference
    <2>2. A \cap H = H
        BY <1>6
    <2> QED
        BY <2>1, <2>2, FS_CardinalityType
<1>11. /\ SumFunctionOnSet(SizesIn(t), A \ H)
          = SumFunctionOnSet(SizesIn(t), A) - SumFunctionOnSet(SizeOf, R)
       /\ Cardinality(A \ H) = Cardinality(A) - Cardinality(R)
    <2> HIDE DEF H
    <2> QED
        BY <1>5, <1>8, <1>9, <1>10
<1> HIDE DEF H
<1> QED
    BY <1>1, <1>9, <1>10, <1>11

\* The size and the count of a tree, in the parts that it has in comparison with another
LEMMA TreeParts ==
    ASSUME SizesAssumption, NEW D, IsFiniteSet(D), NEW t \in Tree(D), NEW u \in Tree(D)
    PROVE  /\ Size(t) = SumFunctionOnSet(SizesIn(t), Gone(D, t, u))
                        + SumFunctionOnSet(SizesIn(t), Modified(D, t, u))
                        + SumFunctionOnSet(SizesIn(t), Same(D, t, u))
           /\ Count(t) = Cardinality(Gone(D, t, u)) + Cardinality(Kept(D, t, u))
           /\ SumFunctionOnSet(SizesIn(t), Gone(D, t, u)) \in Int
           /\ SumFunctionOnSet(SizesIn(t), Modified(D, t, u)) \in Int
           /\ SumFunctionOnSet(SizesIn(t), Same(D, t, u)) \in Int
           /\ IsFiniteSet(Gone(D, t, u)) /\ IsFiniteSet(Modified(D, t, u))
           /\ Cardinality(Gone(D, t, u)) \in Nat /\ Cardinality(Kept(D, t, u)) \in Nat
<1> DEFINE gone == Gone(D, t, u)
           modified == Modified(D, t, u)
           same == Same(D, t, u)
           come == Gone(D, u, t)
           kept == Kept(D, t, u)
           s == SizesIn(t)
<1>1. /\ \A n \in D : s[n] \in Int /\ s[n] = SizeIn(t[n])
      /\ Size(t) = SumFunctionOnSet(s, D)
      /\ Count(t) = Cardinality({n \in D : t[n] # Nothing})
    <2>1. /\ SizesIn(t) \in [D -> Nat] /\ \A n \in D : SizesIn(t)[n] = SizeIn(t[n])
          /\ Size(t) = SumFunctionOnSet(SizesIn(t), D)
          /\ Count(t) = Cardinality({n \in D : t[n] # Nothing})
        BY TreeSizes
    <2> QED
        BY <2>1
<1> HIDE DEF s
<1>2. /\ gone \subseteq D /\ modified \subseteq D /\ same \subseteq D
      /\ come \subseteq D /\ kept \subseteq D
    BY DEF Gone, Modified, Same, Kept
<1>3. /\ ((gone \cup modified) \cup same) \cup come = D
      /\ gone \cap modified = {} /\ (gone \cup modified) \cap same = {}
      /\ ((gone \cup modified) \cup same) \cap come = {}
      /\ gone \cap kept = {}
    BY DEF Gone, Modified, Same, Kept
<1>4. {n \in D : t[n] # Nothing} = gone \cup kept
    BY DEF Gone, Kept
<1>5. \A n \in come : s[n] = 0
    BY <1>1 DEF Gone, SizeIn
<1> HIDE DEF gone, modified, same, come, kept
<1>6. /\ IsFiniteSet(gone) /\ IsFiniteSet(modified) /\ IsFiniteSet(same)
      /\ IsFiniteSet(come) /\ IsFiniteSet(kept)
      /\ IsFiniteSet(gone \cup modified) /\ IsFiniteSet((gone \cup modified) \cup same)
    BY <1>2, FS_Subset
<1>7. /\ SumFunctionOnSet(s, gone) \in Int /\ SumFunctionOnSet(s, modified) \in Int
      /\ SumFunctionOnSet(s, same) \in Int
    <2>1. /\ \A n \in gone : s[n] \in Int
          /\ \A n \in modified : s[n] \in Int
          /\ \A n \in same : s[n] \in Int
        BY <1>1, <1>2
    <2> QED
        BY <1>6, <2>1, SumPick
<1>8. SumFunctionOnSet(s, gone \cup modified)
      = SumFunctionOnSet(s, gone) + SumFunctionOnSet(s, modified)
    <2>1. \A n \in gone \cup modified : s[n] \in Int
        BY <1>1, <1>2
    <2> QED
        BY <1>3, <1>6, <2>1, SumUnion
<1>9. SumFunctionOnSet(s, (gone \cup modified) \cup same)
      = SumFunctionOnSet(s, gone \cup modified) + SumFunctionOnSet(s, same)
    <2>1. \A n \in (gone \cup modified) \cup same : s[n] \in Int
        BY <1>1, <1>2
    <2> QED
        BY <1>3, <1>6, <2>1, SumUnion
<1>10. SumFunctionOnSet(s, ((gone \cup modified) \cup same) \cup come)
       = SumFunctionOnSet(s, (gone \cup modified) \cup same) + SumFunctionOnSet(s, come)
    <2>1. \A n \in ((gone \cup modified) \cup same) \cup come : s[n] \in Int
        BY <1>1, <1>2
    <2> QED
        BY <1>3, <1>6, <2>1, SumUnion
<1>11. SumFunctionOnSet(s, come) = 0
    BY <1>5, <1>6, SumZero
<1>12. Size(t) = SumFunctionOnSet(s, gone) + SumFunctionOnSet(s, modified)
                 + SumFunctionOnSet(s, same)
    <2>1. Size(t) = SumFunctionOnSet(s, ((gone \cup modified) \cup same) \cup come)
        BY <1>1, <1>3
    <2> QED
        BY <2>1, <1>7, <1>8, <1>9, <1>10, <1>11
<1>13. /\ Count(t) = Cardinality(gone) + Cardinality(kept)
       /\ Cardinality(gone) \in Nat /\ Cardinality(kept) \in Nat
    <2>1. Cardinality(gone \cup kept)
          = Cardinality(gone) + Cardinality(kept) - Cardinality(gone \cap kept)
        BY <1>6, FS_Union
    <2>2. /\ Cardinality(gone \cap kept) = 0
          /\ Cardinality(gone) \in Nat /\ Cardinality(kept) \in Nat
        BY <1>3, <1>6, FS_CardinalityType, FS_EmptySet
    <2>3. Count(t) = Cardinality(gone \cup kept)
        BY <1>1, <1>4
    <2> QED
        BY <2>1, <2>2, <2>3
<1> QED
    BY <1>6, <1>7, <1>12, <1>13 DEF gone, modified, same, come, kept, s

\* The sizes of a diff, added to the size of the old tree, give the size of the new one,
\* whatever was added, deleted, modified and renamed (compute_repo_size()).
THEOREM DiffAddsUp ==
    ASSUME SizesAssumption, NEW D, IsFiniteSet(D), NEW old \in Tree(D), NEW new \in Tree(D)
    PROVE  /\ Size(new) = Size(old) + ChangeOf(old, new).size
           /\ Count(new) = Count(old) + ChangeOf(old, new).count
<1> DEFINE gone == Gone(D, old, new)
           come == Gone(D, new, old)
           modified == Modified(D, old, new)
           same == Same(D, old, new)
           R == {f \in FileIds : (\E n \in gone : old[n] = f) /\ (\E n \in come : new[n] = f)}
           deleted == gone \ Paired(gone, old, R)
           added == come \ Paired(come, new, R)
           so == SizesIn(old)
           sn == SizesIn(new)
<1>1. DOMAIN old = D /\ DOMAIN new = D
    BY DEF Tree
<1>2. Diff(old, new) = [deleted |-> deleted, added |-> added, modified |-> modified]
    <2> DEFINE g == {n \in D : old[n] # Nothing /\ new[n] = Nothing}
               c == {n \in D : old[n] = Nothing /\ new[n] # Nothing}
               m == {n \in D : old[n] # new[n]} \ (g \cup c)
               q == {f \in FileIds : (\E n \in g : old[n] = f) /\ (\E n \in c : new[n] = f)}
    <2>1. g = gone /\ c = come
        BY DEF Gone
    <2>2. m = modified
        BY DEF Modified
    <2>3. Diff(old, new) = [deleted |-> g \ Paired(g, old, q), added |-> c \ Paired(c, new, q),
                            modified |-> m]
        BY <1>1 DEF Diff, Paired
    <2>4. q = R
        BY <2>1
    <2> HIDE DEF g, c, m, q, gone, come, R
    <2> QED
        BY <2>1, <2>2, <2>3, <2>4
<1>3. /\ ChangeOf(old, new).size = SumFunctionOnSet(sn, added \cup modified)
                                   - SumFunctionOnSet(so, deleted \cup modified)
      /\ ChangeOf(old, new).count = Cardinality(added) - Cardinality(deleted)
    <2> HIDE DEF deleted, added, modified
    <2> QED
        BY <1>2 DEF ChangeOf
<1>4. /\ Size(old) = SumFunctionOnSet(so, gone) + SumFunctionOnSet(so, modified)
                     + SumFunctionOnSet(so, same)
      /\ Count(old) = Cardinality(gone) + Cardinality(Kept(D, old, new))
      /\ SumFunctionOnSet(so, gone) \in Int /\ SumFunctionOnSet(so, modified) \in Int
      /\ SumFunctionOnSet(so, same) \in Int
      /\ IsFiniteSet(gone) /\ IsFiniteSet(modified)
      /\ Cardinality(gone) \in Nat /\ Cardinality(Kept(D, old, new)) \in Nat
    BY TreeParts
<1>5. /\ Size(new) = SumFunctionOnSet(sn, come) + SumFunctionOnSet(sn, modified)
                     + SumFunctionOnSet(sn, same)
      /\ Count(new) = Cardinality(come) + Cardinality(Kept(D, old, new))
      /\ SumFunctionOnSet(sn, come) \in Int /\ SumFunctionOnSet(sn, modified) \in Int
      /\ IsFiniteSet(come) /\ Cardinality(come) \in Nat
    <2>1. /\ Modified(D, new, old) = modified /\ Same(D, new, old) = same
          /\ Kept(D, new, old) = Kept(D, old, new)
        BY DEF Modified, Same, Kept
    <2> HIDE DEF modified, same
    <2> QED
        BY <2>1, TreeParts
<1>6. SumFunctionOnSet(so, same) = SumFunctionOnSet(sn, same)
    <2>1. \A n \in same : so[n] = sn[n]
        <3>1. \A n \in D : so[n] = SizeIn(old[n]) /\ sn[n] = SizeIn(new[n])
            BY TreeSizes
        <3> HIDE DEF so, sn
        <3> QED
            BY <3>1 DEF Same
    <2>2. IsFiniteSet(same)
        BY FS_Subset DEF Same
    <2> HIDE DEF same, so, sn
    <2> QED
        BY <2>1, <2>2, SumSame
<1>7. IsFiniteSet(R)
    <2> DEFINE h == [f \in R |-> CHOOSE n \in gone : old[n] = f]
    <2>1. \A f \in R : h[f] \in gone /\ old[h[f]] = f
        OBVIOUS
    <2>2. h \in [R -> gone]
        BY <2>1
    <2> HIDE DEF h, R, gone
    <2>3. h \in Injection(R, gone)
        BY <2>1, <2>2 DEF Injection, IsInjective
    <2> QED
        BY <1>4, <2>3, FS_Injection
<1>8. /\ SumFunctionOnSet(so, deleted) = SumFunctionOnSet(so, gone) - SumFunctionOnSet(SizeOf, R)
      /\ Cardinality(deleted) = Cardinality(gone) - Cardinality(R)
    <2>1. R \in SUBSET FileIds /\ \A f \in R : \E n \in gone : old[n] = f
        OBVIOUS
    <2>2. gone \in SUBSET D
        BY DEF Gone
    <2> HIDE DEF gone, R
    <2> QED
        BY <1>7, <2>1, <2>2, WithoutRenamed
<1>9. /\ SumFunctionOnSet(sn, added) = SumFunctionOnSet(sn, come) - SumFunctionOnSet(SizeOf, R)
      /\ Cardinality(added) = Cardinality(come) - Cardinality(R)
    <2>1. R \in SUBSET FileIds /\ \A f \in R : \E n \in come : new[n] = f
        OBVIOUS
    <2>2. come \in SUBSET D
        BY DEF Gone
    <2> HIDE DEF come, R
    <2> QED
        BY <1>7, <2>1, <2>2, WithoutRenamed
<1>r. SumFunctionOnSet(SizeOf, R) \in Int /\ Cardinality(R) \in Nat
    <2>1. \A f \in R : SizeOf[f] \in Int
        BY DEF SizesAssumption
    <2> HIDE DEF R
    <2> QED
        BY <1>7, <2>1, SumPick, FS_CardinalityType
<1>10. SumFunctionOnSet(so, deleted \cup modified)
       = SumFunctionOnSet(so, deleted) + SumFunctionOnSet(so, modified)
    <2>1. deleted \cap modified = {} /\ deleted \cup modified \subseteq D
        BY DEF Gone, Modified
    <2>2. \A n \in D : so[n] \in Int
        <3>1. SizesIn(old) \in [D -> Nat]
            BY TreeSizes
        <3> QED
            BY <3>1
    <2>3. IsFiniteSet(deleted)
        <3> HIDE DEF gone
        <3> QED
            BY <1>4, FS_Subset
    <2>4. \A n \in deleted \cup modified : so[n] \in Int
        BY <2>1, <2>2
    <2> HIDE DEF deleted, modified, so
    <2> QED
        BY <1>4, <2>1, <2>3, <2>4, SumUnion
<1>11. SumFunctionOnSet(sn, added \cup modified)
       = SumFunctionOnSet(sn, added) + SumFunctionOnSet(sn, modified)
    <2>1. added \cap modified = {} /\ added \cup modified \subseteq D
        BY DEF Gone, Modified
    <2>2. \A n \in D : sn[n] \in Int
        <3>1. SizesIn(new) \in [D -> Nat]
            BY TreeSizes
        <3> QED
            BY <3>1
    <2>3. IsFiniteSet(added)
        <3> HIDE DEF come
        <3> QED
            BY <1>5, FS_Subset
    <2>4. \A n \in added \cup modified : sn[n] \in Int
        BY <2>1, <2>2
    <2> HIDE DEF added, modified, sn
    <2> QED
        BY <1>4, <2>1, <2>3, <2>4, SumUnion
<1> HIDE DEF gone, come, same, modified, added, deleted, R, so, sn
<1>12. Size(new) = Size(old) + ChangeOf(old, new).size
    BY <1>3, <1>4, <1>5, <1>6, <1>8, <1>9, <1>r, <1>10, <1>11
<1>13. Count(new) = Count(old) + ChangeOf(old, new).count
    BY <1>3, <1>4, <1>5, <1>8, <1>9, <1>r
<1> QED
    BY <1>12, <1>13

----------------------------------------------------------------------------
\* The invariant of the jobs

\* The paths of a library or a virtual repo, and the commits of it
DomOf(l) == IF Virtual(l) THEN Sub ELSE Names
Commit(l, c) == c \in DOMAIN trees /\ trees[c] \in Tree(DomOf(l))

\* A row that is right for its commit
Right(l, info) ==
    /\ Commit(l, info.head)
    /\ info.size = Size(trees[info.head]) /\ info.count = Count(trees[info.head])

TreesOK ==
    /\ trees \in Seq(Tree(Names) \cup Tree(Sub))
    /\ DOMAIN tip = Libs /\ \A l \in Libs : Commit(l, tip[l])
    /\ base \in [{l \in Libs : Virtual(l)} -> Tree(Sub)]
    /\ merging \subseteq {l \in Libs : Virtual(l)}

RowsOK == DOMAIN row = Libs /\ \A l \in Libs : row[l] # Nothing => Right(l, row[l])

\* A job works with a commit of its library, and with a row that was right when it was read.
JobOK(j) ==
    /\ j.pc \in {"idle", "read", "write"}
    /\ j.pc # "idle" => j.lib \in Libs /\ Commit(j.lib, j.head)
    /\ j.pc = "write" /\ j.info # Nothing => Right(j.lib, j.info)

JobsOK ==
    /\ threads \in Nat /\ queue \in Seq(Libs)
    /\ DOMAIN job = 1..threads /\ \A w \in 1..threads : JobOK(job[w])

Puts == [pc : {"idle"}] \cup [pc : {"schedule"}, lib : Libs]
        \cup [pc : {"checked"}, by : {"web", "blocks", "sync"}, lib : Libs, name : Names,
              file : FileIds, settled : BOOLEAN]

PutsOK ==
    /\ put \in [Requests -> Puts]
    /\ \A r \in Requests : put[r].pc = "checked" => put[r].name \in DomOf(put[r].lib)

SizesInv == TreesOK /\ RowsOK /\ JobsOK /\ PutsOK

\* The paths are finitely many.
LEMMA Finite ==
    ASSUME SizesAssumption, NEW l \in Libs
    PROVE  IsFiniteSet(DomOf(l)) /\ DomOf(l) \subseteq Names /\ Sub \subseteq Names
<1>1. Sub \subseteq Names
    BY DEF SizesAssumption
<1>2. DomOf(l) \subseteq Names
    BY <1>1 DEF DomOf
<1>3. IsFiniteSet(Names)
    BY DEF SizesAssumption
<1> QED
    BY <1>1, <1>2, <1>3, FS_Subset

\* What a library holds is a tree of its paths.
LEMMA ContentType ==
    ASSUME SizesAssumption, TreesOK, NEW l \in Libs
    PROVE  Content(l) \in Tree(DomOf(l)) /\ DOMAIN Content(l) = DomOf(l)
<1>1. Content(l) \in Tree(DomOf(l))
    BY DEF TreesOK, Commit, Content
<1> QED
    BY <1>1 DEF Tree

\* Commits are never changed.
LEMMA CommitsStay ==
    ASSUME TreesOK, DOMAIN trees \subseteq DOMAIN trees',
           \A c \in DOMAIN trees : trees'[c] = trees[c]
    PROVE  /\ \A l \in Libs : \A c : Commit(l, c) => Commit(l, c)' /\ trees'[c] = trees[c]
           /\ \A l \in Libs : \A info : Right(l, info) => Right(l, info)'
<1>1. ASSUME NEW l \in Libs, NEW c, Commit(l, c)
      PROVE  Commit(l, c)' /\ trees'[c] = trees[c]
    BY <1>1 DEF Commit, DomOf, Virtual, Tree
<1>2. ASSUME NEW l \in Libs, NEW info, Right(l, info)
      PROVE  Right(l, info)'
    <2>1. Commit(l, info.head)
        BY <1>2 DEF Right
    <2>2. Commit(l, info.head)' /\ trees'[info.head] = trees[info.head]
        BY <1>1, <2>1
    <2>3. /\ info.size = Size(trees[info.head]) /\ info.count = Count(trees[info.head])
        BY <1>2 DEF Right
    <2>4. /\ info.size = Size(trees'[info.head]) /\ info.count = Count(trees'[info.head])
        BY <2>2, <2>3
    <2> QED
        BY <2>2, <2>4 DEF Right, Size, SizesIn, Count
<1> QED
    BY <1>1, <1>2

\* So the rows and the jobs stay right when commits are added.
LEMMA JobsStay ==
    ASSUME SizesInv, DOMAIN trees \subseteq DOMAIN trees',
           \A c \in DOMAIN trees : trees'[c] = trees[c], UNCHANGED <<row, threads, job>>,
           queue' \in Seq(Libs)
    PROVE  RowsOK' /\ JobsOK'
<1>1. /\ \A l \in Libs : \A c : Commit(l, c) => Commit(l, c)'
      /\ \A l \in Libs : \A info : Right(l, info) => Right(l, info)'
    BY CommitsStay DEF SizesInv
<1>2. RowsOK'
    BY <1>1 DEF SizesInv, RowsOK
<1>3. ASSUME NEW w \in 1..threads PROVE JobOK(job[w])'
    <2>1. JobOK(job[w]) /\ job'[w] = job[w]
        BY DEF SizesInv, JobsOK
    <2> QED
        BY <1>1, <2>1 DEF JobOK
<1>4. JobsOK'
    BY <1>3 DEF SizesInv, JobsOK
<1> QED
    BY <1>2, <1>4

\* SetToSeq() lists every library.
LEMMA AllListed ==
    ASSUME SizesAssumption
    PROVE  /\ SetToSeq(Libs) \in Seq(Libs)
           /\ \A l \in Libs : \E i \in DOMAIN SetToSeq(Libs) : SetToSeq(Libs)[i] = l
<1> DEFINE n == Cardinality(Libs)
           F == {f \in [1..n -> Libs] : IsInjective(f)}
           ls == CHOOSE f \in [1..n -> Libs] : IsInjective(f)
<1>1. IsFiniteSet(Libs) /\ n \in Nat
    BY FS_CardinalityType DEF SizesAssumption
<1>2. ExistsBijection(1..n, Libs)
    BY <1>1, FS_NatBijection, FS_CountingElements, FS_CardinalityType
<1>3. \E f \in [1..n -> Libs] : IsInjective(f)
    BY <1>2 DEF ExistsBijection, Bijection, Injection
<1>4. ls \in [1..n -> Libs] /\ IsInjective(ls)
    BY <1>3
<1>5. SetToSeq(Libs) = ls
    BY DEF SetToSeq
<1> HIDE DEF ls, n
<1>6. ls \in Injection(1..n, Libs)
    BY <1>4 DEF Injection
<1>7. IsFiniteSet(1..n) /\ Cardinality(1..n) = n
    BY <1>1, FS_Interval
<1>8. ls \in Surjection(1..n, Libs)
    BY <1>1, <1>6, <1>7, FS_Injection DEF n
<1>9. \A l \in Libs : \E i \in 1..n : ls[i] = l
    BY <1>8 DEF Surjection
<1>10. ls \in Seq(Libs) /\ DOMAIN ls = 1..n
    BY <1>1, <1>4
<1> QED
    BY <1>5, <1>9, <1>10

LEMMA SizesStart == SizesAssumption /\ Init => SizesInv
<1> SUFFICES ASSUME SizesAssumption, Init PROVE SizesInv
    OBVIOUS
<1> DEFINE ls == SetToSeq(Libs)
           first(l) == IF Virtual(l) THEN On(FirstTree, Sub) ELSE FirstTree
<1>1. ls \in Seq(Libs) /\ \A l \in Libs : \E i \in DOMAIN ls : ls[i] = l
    BY AllListed
<1>2. /\ trees = [i \in DOMAIN ls |-> first(ls[i])]
      /\ tip = [l \in Libs |-> CHOOSE i \in DOMAIN ls : ls[i] = l]
      /\ base = [v \in {l \in Libs : Virtual(l)} |-> On(FirstTree, Sub)]
    BY DEF Init
<1> HIDE DEF ls
<1>3. FirstTree \in Tree(Names) /\ On(FirstTree, Sub) \in Tree(Sub)
    BY DEF SizesAssumption, On, Tree
<1>4. \A l \in Libs : first(l) \in Tree(DomOf(l)) /\ first(l) \in Tree(Names) \cup Tree(Sub)
    BY <1>3 DEF DomOf
<1>5. \A i \in DOMAIN ls : ls[i] \in Libs
    BY <1>1
<1>6. trees \in Seq(Tree(Names) \cup Tree(Sub)) /\ DOMAIN trees = DOMAIN ls
    <2> HIDE DEF first
    <2>1. DOMAIN ls = 1..Len(ls) /\ Len(ls) \in Nat
        BY <1>1
    <2> QED
        BY <1>2, <1>4, <1>5, <2>1
<1>7. \A l \in Libs : Commit(l, tip[l])
    <2> SUFFICES ASSUME NEW l \in Libs PROVE Commit(l, tip[l])
        OBVIOUS
    <2>1. tip[l] \in DOMAIN ls /\ ls[tip[l]] = l
        BY <1>1, <1>2
    <2>2. trees[tip[l]] = first(l)
        BY <1>2, <2>1
    <2> HIDE DEF first
    <2> QED
        BY <1>4, <1>6, <2>1, <2>2 DEF Commit
<1>8. TreesOK
    BY <1>2, <1>3, <1>6, <1>7 DEF Init, TreesOK
<1>9. RowsOK
    <2>1. PICK known \in BOOLEAN :
            row = [l \in Libs |-> IF known THEN [head |-> tip[l], size |-> Size(Content(l)),
                                                count |-> Count(Content(l))] ELSE Nothing]
        BY DEF Init
    <2> SUFFICES ASSUME NEW l \in Libs, row[l] # Nothing PROVE Right(l, row[l])
        BY <2>1 DEF RowsOK
    <2>2. row[l] = [head |-> tip[l], size |-> Size(Content(l)), count |-> Count(Content(l))]
        BY <2>1
    <2> QED
        BY <1>7, <2>2 DEF Right, Content
<1>10. JobsOK
    BY DEF Init, JobsOK, JobOK, SizesAssumption, Idle
<1>11. PutsOK
    BY DEF Init, PutsOK, Puts, Idle
<1> QED
    BY <1>8, <1>9, <1>10, <1>11 DEF SizesInv

\* A step that changes no library changes no commit.
LEMMA TreesStay ==
    ASSUME SizesInv, UNCHANGED libraries
    PROVE  /\ TreesOK' /\ \A l \in Libs : Content(l)' = Content(l)
           /\ \A l \in Libs : \A c : Commit(l, c)' = Commit(l, c)
           /\ \A l \in Libs : \A info : Right(l, info)' = Right(l, info)
    BY DEF SizesInv, TreesOK, Commit, DomOf, Virtual, Tree, Content, Right, Size, SizesIn, Count,
           libraries

LEMMA TakeInv ==
    ASSUME SizesInv, NEW w \in 1..threads, Take(w)
    PROVE  SizesInv'
<1>1. /\ job[w].pc = "idle" /\ queue # << >> /\ queue' = Tail(queue)
      /\ job' = [job EXCEPT ![w] = [pc |-> "read", lib |-> Head(queue), head |-> tip[Head(queue)]]]
      /\ UNCHANGED <<libraries, row, threads, put>>
    BY DEF Take
<1>2. TreesOK' /\ \A l \in Libs : \A c : Commit(l, c)' = Commit(l, c)
    BY <1>1, TreesStay
<1>3. \A l \in Libs : \A info : Right(l, info)' = Right(l, info)
    BY <1>1, TreesStay
<1>4. Head(queue) \in Libs /\ queue' \in Seq(Libs)
    BY <1>1 DEF SizesInv, JobsOK
<1>5. ASSUME NEW x \in 1..threads PROVE JobOK(job[x])'
    <2>1. CASE x = w
        <3>1. job'[x] = [pc |-> "read", lib |-> Head(queue), head |-> tip[Head(queue)]]
            BY <1>1, <2>1 DEF SizesInv, JobsOK
        <3>2. Commit(Head(queue), tip[Head(queue)])
            BY <1>4 DEF SizesInv, TreesOK
        <3> QED
            BY <1>2, <1>4, <3>1, <3>2 DEF JobOK
    <2>2. CASE x # w
        <3>1. job'[x] = job[x] /\ JobOK(job[x])
            BY <1>1, <2>2 DEF SizesInv, JobsOK
        <3> QED
            BY <1>2, <1>3, <3>1 DEF JobOK
    <2> QED
        BY <2>1, <2>2
<1>6. JobsOK'
    BY <1>1, <1>4, <1>5 DEF SizesInv, JobsOK
<1>7. RowsOK'
    BY <1>1, <1>3 DEF SizesInv, RowsOK
<1>8. PutsOK'
    BY <1>1 DEF SizesInv, PutsOK, DomOf, Virtual
<1> QED
    BY <1>2, <1>6, <1>7, <1>8 DEF SizesInv

\* A step that ends a job, or that gives it the row it has read.
LEMMA JobInv ==
    ASSUME SizesInv, NEW w \in 1..threads, NEW j, JobOK(j),
           job' = [job EXCEPT ![w] = j], UNCHANGED <<libraries, threads, queue, put>>,
           DOMAIN row' = Libs,
           \A l \in Libs : row'[l] = row[l] \/ Right(l, row'[l])
    PROVE  SizesInv'
<1>1. TreesOK' /\ \A l \in Libs : \A c : Commit(l, c)' = Commit(l, c)
    BY TreesStay
<1>2. \A l \in Libs : \A info : Right(l, info)' = Right(l, info)
    BY TreesStay
<1>3. ASSUME NEW x \in 1..threads PROVE JobOK(job[x])'
    <2>1. JobOK(job'[x])
        BY DEF SizesInv, JobsOK
    <2> QED
        BY <1>1, <1>2, <2>1 DEF JobOK
<1>4. JobsOK'
    BY <1>3 DEF SizesInv, JobsOK
<1>5. RowsOK'
    BY <1>2 DEF SizesInv, RowsOK
<1>6. PutsOK'
    BY DEF SizesInv, PutsOK, DomOf, Virtual
<1> QED
    BY <1>1, <1>4, <1>5, <1>6 DEF SizesInv

LEMMA ReadRowInv ==
    ASSUME SizesInv, NEW w \in 1..threads, ReadRow(w)
    PROVE  SizesInv'
<1>1. JobOK(Idle)
    BY DEF JobOK, Idle
<1>2. JobOK(job[w]) /\ job[w].pc = "read"
    BY DEF SizesInv, JobsOK, ReadRow
<1> DEFINE l == job[w].lib
           j == [pc |-> "write", lib |-> l, head |-> job[w].head, info |-> row[l]]
<1>3. JobOK(j)
    <2>1. l \in Libs /\ Commit(l, job[w].head)
        BY <1>2 DEF JobOK
    <2>2. row[l] # Nothing => Right(l, row[l])
        BY <2>1 DEF SizesInv, RowsOK
    <2> QED
        BY <2>1, <2>2 DEF JobOK
<1> HIDE DEF j
<1>4. UNCHANGED <<libraries, threads, queue, put, row>>
    BY DEF ReadRow
<1>5. DOMAIN row' = Libs /\ \A k \in Libs : row'[k] = row[k]
    BY <1>4 DEF SizesInv, RowsOK
<1>6. job' = [job EXCEPT ![w] = Idle] \/ job' = [job EXCEPT ![w] = j]
    BY DEF ReadRow, UpToDate, j
<1> QED
    BY <1>1, <1>3, <1>4, <1>5, <1>6, JobInv

\* The row that a job writes is right: what it adds to the row it has read is a diff.
LEMMA ComputedRight ==
    ASSUME SizesAssumption, SizesInv, NEW l \in Libs, NEW c, Commit(l, c),
           NEW info, info # Nothing => Right(l, info), NEW readable \in BOOLEAN
    PROVE  Right(l, Computed(info, c, readable)) /\ Computed(info, c, readable).head = c
<1> DEFINE i == Computed(info, c, readable)
<1>1. CASE info # Nothing /\ readable
    <2>1. Right(l, info) /\ Commit(l, info.head)
        BY <1>1 DEF Right
    <2>2. i = [head |-> c,
               size |-> info.size + ChangeOf(trees[info.head], trees[c]).size,
               count |-> info.count + ChangeOf(trees[info.head], trees[c]).count]
        BY <1>1 DEF Computed
    <2>3. /\ trees[info.head] \in Tree(DomOf(l)) /\ trees[c] \in Tree(DomOf(l))
          /\ IsFiniteSet(DomOf(l))
        BY <2>1, Finite DEF Commit
    <2>4. /\ Size(trees[c]) = Size(trees[info.head])
                              + ChangeOf(trees[info.head], trees[c]).size
          /\ Count(trees[c]) = Count(trees[info.head])
                               + ChangeOf(trees[info.head], trees[c]).count
        BY <2>3, DiffAddsUp
    <2>5. i.head = c /\ i.size = Size(trees[c]) /\ i.count = Count(trees[c])
        BY <2>1, <2>2, <2>4 DEF Right
    <2> QED
        BY <2>5 DEF Right
<1>2. CASE ~(info # Nothing /\ readable)
    <2>1. i = [head |-> c, size |-> Size(trees[c]), count |-> Count(trees[c])]
        BY <1>2 DEF Computed
    <2> QED
        BY <2>1 DEF Right
<1> QED
    BY <1>1, <1>2

LEMMA WriteRowInv ==
    ASSUME SizesAssumption, SizesInv, NEW w \in 1..threads, WriteRow(w)
    PROVE  SizesInv'
<1>1. JobOK(Idle)
    BY DEF JobOK, Idle
<1>2. JobOK(job[w]) /\ job[w].pc = "write"
    BY DEF SizesInv, JobsOK, WriteRow
<1> DEFINE l == job[w].lib
<1>3. l \in Libs /\ Commit(l, job[w].head) /\ (job[w].info # Nothing => Right(l, job[w].info))
    BY <1>2 DEF JobOK
<1>4. PICK readable \in BOOLEAN :
        row' = [row EXCEPT ![l] = Computed(job[w].info, job[w].head, readable)]
    BY DEF WriteRow
<1>5. Right(l, Computed(job[w].info, job[w].head, readable))
    BY <1>3, ComputedRight
<1>6. /\ job' = [job EXCEPT ![w] = Idle] /\ UNCHANGED <<libraries, threads, queue, put>>
    BY DEF WriteRow
<1>7. DOMAIN row' = Libs /\ \A k \in Libs : row'[k] = row[k] \/ Right(k, row'[k])
    BY <1>3, <1>4, <1>5 DEF SizesInv, RowsOK
<1> QED
    BY <1>1, <1>6, <1>7, JobInv

LEMMA JobFailsInv ==
    ASSUME SizesInv, NEW w \in 1..threads, JobFails(w)
    PROVE  SizesInv'
<1>1. JobOK(Idle)
    BY DEF JobOK, Idle
<1>2. job' = [job EXCEPT ![w] = Idle] /\ UNCHANGED <<libraries, row, threads, queue, put>>
    BY DEF JobFails
<1>3. DOMAIN row' = Libs /\ \A l \in Libs : row'[l] = row[l]
    BY <1>2 DEF SizesInv, RowsOK
<1> QED
    BY <1>1, <1>2, <1>3, JobInv

LEMMA RestartInv == SizesInv /\ Restart => SizesInv'
<1> SUFFICES ASSUME SizesInv, Restart PROVE SizesInv'
    OBVIOUS
<1>1. /\ queue' = << >> /\ job' = [w \in 1..threads |-> Idle]
      /\ put' = [r \in Requests |-> Idle] /\ merging' = {}
      /\ UNCHANGED <<trees, tip, base, row, threads>>
    BY DEF Restart
<1>2. TreesOK'
    BY <1>1 DEF SizesInv, TreesOK, Commit, DomOf, Virtual, Tree
<1>3. RowsOK'
    BY <1>1 DEF SizesInv, RowsOK, Right, Commit, DomOf, Virtual, Tree, Size, SizesIn, Count
<1>4. JobsOK'
    BY <1>1 DEF SizesInv, JobsOK, JobOK, Idle
<1>5. PutsOK'
    BY <1>1 DEF PutsOK, Puts, Idle
<1> QED
    BY <1>2, <1>3, <1>4, <1>5 DEF SizesInv

\* Steps of an upload that change no library, and the job they may schedule
LEMMA UploadInv ==
    ASSUME SizesInv, UNCHANGED <<libraries, row, threads, job>>,
           queue' \in Seq(Libs), PutsOK'
    PROVE  SizesInv'
<1>1. TreesOK'
    BY TreesStay
<1>2. RowsOK' /\ JobsOK'
    BY JobsStay DEF libraries
<1> QED
    BY <1>1, <1>2 DEF SizesInv

\* A new commit of a library
LEMMA ChangedInv ==
    ASSUME SizesInv, NEW l \in Libs, NEW t \in Tree(DomOf(l)), Changed(l, t),
           UNCHANGED <<base, row, threads, queue, job>>,
           merging' \subseteq {v \in Libs : Virtual(v)}, PutsOK'
    PROVE  SizesInv'
<1>1. trees' = Append(trees, t) /\ tip' = [tip EXCEPT ![l] = Len(trees) + 1]
    BY DEF Changed
<1>2. trees \in Seq(Tree(Names) \cup Tree(Sub)) /\ t \in Tree(Names) \cup Tree(Sub)
    BY DEF SizesInv, TreesOK, DomOf
<1>3. /\ trees' \in Seq(Tree(Names) \cup Tree(Sub))
      /\ DOMAIN trees' = DOMAIN trees \cup {Len(trees) + 1}
      /\ trees'[Len(trees) + 1] = t /\ \A c \in DOMAIN trees : trees'[c] = trees[c]
    <2> DEFINE T == Tree(Names) \cup Tree(Sub)
    <2>1. trees \in Seq(T) /\ t \in T
        BY <1>2
    <2> HIDE DEF T
    <2>2. /\ trees' \in Seq(T)
          /\ DOMAIN trees' = DOMAIN trees \cup {Len(trees) + 1}
          /\ trees'[Len(trees) + 1] = t /\ \A c \in DOMAIN trees : trees'[c] = trees[c]
        BY <1>1, <2>1
    <2> QED
        BY <2>2 DEF T
<1>4. RowsOK' /\ JobsOK'
    BY <1>3, JobsStay DEF SizesInv, JobsOK
<1>5. \A m \in Libs : \A c : Commit(m, c) => Commit(m, c)'
    BY <1>3, CommitsStay DEF SizesInv
<1>6. DOMAIN tip' = Libs /\ \A m \in Libs : Commit(m, tip[m])'
    <2> SUFFICES ASSUME NEW m \in Libs PROVE Commit(m, tip[m])'
        BY <1>1 DEF SizesInv, TreesOK
    <2>1. CASE m = l
        <3>1. tip'[m] = Len(trees) + 1
            BY <1>1, <2>1 DEF SizesInv, TreesOK
        <3> QED
            BY <1>3, <2>1, <3>1 DEF Commit, DomOf, Virtual, Tree
    <2>2. CASE m # l
        <3>1. tip'[m] = tip[m] /\ Commit(m, tip[m])
            BY <1>1, <2>2 DEF SizesInv, TreesOK
        <3> QED
            BY <1>5, <3>1
    <2> QED
        BY <2>1, <2>2
<1>7. TreesOK'
    BY <1>3, <1>6 DEF SizesInv, TreesOK, Tree, Virtual
<1> QED
    BY <1>4, <1>7 DEF SizesInv

LEMMA CheckQuotaInv ==
    ASSUME SizesAssumption, SizesInv, NEW r \in Requests, NEW by \in {"web", "blocks", "sync"},
           NEW l \in Libs, NEW n \in Names, NEW f \in FileIds, CheckQuota(r, by, l, n, f)
    PROVE  SizesInv'
<1> DEFINE p == [pc |-> "checked", by |-> by, lib |-> l, name |-> n, file |-> f,
                 settled |-> Settled(Owner[Charged(l)])]
<1>1. put' = [put EXCEPT ![r] = p] /\ UNCHANGED <<libraries, row, threads, queue, job>>
    BY DEF CheckQuota
<1>2. n \in DomOf(l)
    BY ContentType DEF CheckQuota, SizesInv
<1>3. Settled(Owner[Charged(l)]) \in BOOLEAN
    BY DEF Settled
<1>4. p \in Puts
    BY <1>3 DEF Puts
<1>5. p.name \in DomOf(p.lib)
    BY <1>2
<1> HIDE DEF p
<1>6. PutsOK'
    BY <1>1, <1>4, <1>5 DEF SizesInv, PutsOK, DomOf, Virtual
<1> QED
    BY <1>1, <1>6, UploadInv DEF SizesInv, JobsOK

LEMMA PutFailsInv ==
    ASSUME SizesInv, NEW r \in Requests, PutFails(r)
    PROVE  SizesInv'
<1>1. put' = [put EXCEPT ![r] = Idle] /\ UNCHANGED <<libraries, row, threads, queue, job>>
    BY DEF PutFails
<1>2. PutsOK'
    BY <1>1 DEF SizesInv, PutsOK, Puts, Idle, DomOf, Virtual
<1> QED
    BY <1>1, <1>2, UploadInv DEF SizesInv, JobsOK

LEMMA ScheduleSizeInv ==
    ASSUME SizesInv, NEW r \in Requests, ScheduleSize(r)
    PROVE  SizesInv'
<1>1. /\ put[r].pc = "schedule" /\ queue' = queue \o <<put[r].lib>>
      /\ put' = [put EXCEPT ![r] = Idle] /\ UNCHANGED <<libraries, row, threads, job>>
    BY DEF ScheduleSize
<1>2. put[r].lib \in Libs
    <2>1. put[r] \in Puts
        BY DEF SizesInv, PutsOK
    <2> QED
        BY <1>1, <2>1 DEF Puts
<1>3. queue' \in Seq(Libs)
    BY <1>1, <1>2 DEF SizesInv, JobsOK
<1>4. PutsOK'
    BY <1>1 DEF SizesInv, PutsOK, Puts, Idle, DomOf, Virtual
<1> QED
    BY <1>1, <1>3, <1>4, UploadInv

\* What a change makes of the uploads under way
LEMMA UnsettledType ==
    ASSUME PutsOK
    PROVE  /\ Unsettled(put) \in [Requests -> Puts]
           /\ \A r \in Requests : Unsettled(put)[r].pc = "checked" =>
                /\ ~Unsettled(put)[r].settled
                /\ put[r].pc = "checked" /\ Unsettled(put)[r].lib = put[r].lib
                /\ Unsettled(put)[r].name = put[r].name
           /\ \A r \in Requests : put[r].pc # "checked" => Unsettled(put)[r] = put[r]
<1>1. \A r \in Requests : put[r] \in Puts
    BY DEF PutsOK
<1> SUFFICES ASSUME NEW r \in Requests
             PROVE  /\ Unsettled(put)[r] \in Puts
                    /\ Unsettled(put)[r].pc = "checked" =>
                        /\ ~Unsettled(put)[r].settled
                        /\ put[r].pc = "checked" /\ Unsettled(put)[r].lib = put[r].lib
                        /\ Unsettled(put)[r].name = put[r].name
                    /\ put[r].pc # "checked" => Unsettled(put)[r] = put[r]
    BY DEF Unsettled
<1>2. CASE put[r].pc = "checked"
    <2>1. put[r] \in [pc : {"checked"}, by : {"web", "blocks", "sync"}, lib : Libs,
                      name : Names, file : FileIds, settled : BOOLEAN]
        BY <1>1, <1>2 DEF Puts
    <2>2. Unsettled(put)[r] = [put[r] EXCEPT !.settled = FALSE]
        BY <1>2 DEF Unsettled
    <2> QED
        BY <1>2, <2>1, <2>2 DEF Puts
<1>3. CASE put[r].pc # "checked"
    BY <1>1, <1>3 DEF Unsettled
<1> QED
    BY <1>2, <1>3

\* The merges that a change asks for are those of virtual repos.
LEMMA MergesType ==
    ASSUME SizesAssumption, TreesOK, NEW l \in Libs, Merges(l)
    PROVE  merging' \subseteq {v \in Libs : Virtual(v)}
    BY DEF TreesOK, Merges, Shared, Virtual, SizesAssumption

LEMMA PutFileInv ==
    ASSUME SizesAssumption, SizesInv, NEW r \in Requests, PutFile(r)
    PROVE  SizesInv'
<1> DEFINE l == put[r].lib
           t == [Content(l) EXCEPT ![put[r].name] = put[r].file]
           p == [pc |-> "schedule", lib |-> l]
<1>1. /\ put[r].pc = "checked" /\ Changed(l, t) /\ (merging' = merging \/ Merges(l))
      /\ put' = [Unsettled(put) EXCEPT ![r] = p]
      /\ UNCHANGED <<base, row, threads, queue, job>>
    BY DEF PutFile
<1>2. l \in Libs /\ put[r].file \in FileIds /\ put[r].name \in DomOf(l)
    <2>1. put[r] \in Puts
        BY DEF SizesInv, PutsOK
    <2> QED
        BY <1>1, <2>1 DEF Puts, SizesInv, PutsOK
<1>3. t \in Tree(DomOf(l))
    <2>1. Content(l) \in Tree(DomOf(l))
        BY <1>2, ContentType DEF SizesInv
    <2> QED
        BY <1>2, <2>1 DEF Tree
<1>4. merging' \subseteq {v \in Libs : Virtual(v)}
    BY <1>1, <1>2, MergesType DEF SizesInv, TreesOK
<1>5. PutsOK'
    <2>1. p \in Puts
        BY <1>2 DEF Puts
    <2>2. p.pc # "checked"
        OBVIOUS
    <2> HIDE DEF p
    <2> QED
        BY <1>1, <2>1, <2>2, UnsettledType DEF SizesInv, PutsOK, DomOf, Virtual
<1> HIDE DEF t, l
<1> QED
    BY <1>1, <1>2, <1>3, <1>4, <1>5, ChangedInv

LEMMA DeleteInv ==
    ASSUME SizesAssumption, SizesInv, NEW r \in Requests, NEW l \in Libs, NEW n \in Names,
           Delete(r, l, n)
    PROVE  SizesInv'
<1> DEFINE t == [Content(l) EXCEPT ![n] = Nothing]
           p == [pc |-> "schedule", lib |-> l]
<1>1. /\ Changed(l, t) /\ Merges(l)
      /\ put' = [Unsettled(put) EXCEPT ![r] = p]
      /\ UNCHANGED <<base, row, threads, queue, job>>
    BY DEF Delete
<1>2. t \in Tree(DomOf(l))
    <2>1. Content(l) \in Tree(DomOf(l))
        BY ContentType DEF SizesInv
    <2> QED
        BY <2>1 DEF Tree
<1>3. merging' \subseteq {v \in Libs : Virtual(v)}
    BY <1>1, MergesType DEF SizesInv
<1>4. PutsOK'
    <2>1. p \in Puts
        BY DEF Puts
    <2>2. p.pc # "checked"
        OBVIOUS
    <2> HIDE DEF p
    <2> QED
        BY <1>1, <2>1, <2>2, UnsettledType DEF SizesInv, PutsOK, DomOf, Virtual
<1> HIDE DEF t
<1> QED
    BY <1>1, <1>2, <1>3, <1>4, ChangedInv

LEMMA RenameInv ==
    ASSUME SizesAssumption, SizesInv, NEW l \in Libs, NEW n \in Names, NEW m \in Names,
           Rename(l, n, m)
    PROVE  SizesInv'
<1> DEFINE t == [Content(l) EXCEPT ![m] = Content(l)[n], ![n] = Nothing]
<1>1. /\ n \in DOMAIN Content(l) /\ Changed(l, t) /\ Merges(l)
      /\ put' = Unsettled(put) /\ UNCHANGED <<base, row, threads, queue, job>>
    BY DEF Rename
<1>2. t \in Tree(DomOf(l))
    <2>1. Content(l) \in Tree(DomOf(l)) /\ n \in DomOf(l)
        BY <1>1, ContentType DEF SizesInv
    <2> QED
        BY <2>1 DEF Tree
<1>3. merging' \subseteq {v \in Libs : Virtual(v)}
    BY <1>1, MergesType DEF SizesInv
<1>4. PutsOK'
    BY <1>1, UnsettledType DEF SizesInv, PutsOK, DomOf, Virtual
<1> HIDE DEF t
<1> QED
    BY <1>1, <1>2, <1>3, <1>4, ChangedInv

\* What a merge puts into the virtual repo and into its origin, and the commits it makes of them
Merged(v) ==
    [n \in Sub |-> IF Content(v)[n] # base[v][n] THEN Content(v)[n] ELSE Content(Origin[v])[n]]
Into(v) ==
    [n \in DOMAIN Content(Origin[v]) |->
        IF n \in Sub THEN Merged(v)[n] ELSE Content(Origin[v])[n]]
New(v) == (IF Content(v) = Merged(v) THEN << >> ELSE << [lib |-> v, tree |-> Merged(v)] >>)
       \o (IF Content(Origin[v]) = Into(v) THEN << >>
           ELSE << [lib |-> Origin[v], tree |-> Into(v)] >>)

LEMMA MergeTypes ==
    ASSUME SizesAssumption, SizesInv, NEW v \in merging
    PROVE  /\ v \in Libs /\ Virtual(v)
           /\ Origin[v] \in Libs /\ ~Virtual(Origin[v]) /\ Origin[v] # v
           /\ Merged(v) \in Tree(Sub) /\ Into(v) \in Tree(Names)
<1>1. v \in Libs /\ Virtual(v)
    BY DEF SizesInv, TreesOK
<1>2. Origin[v] \in Libs /\ ~Virtual(Origin[v])
    BY <1>1 DEF Virtual, SizesAssumption
<1>3. Content(v) \in Tree(Sub) /\ Content(Origin[v]) \in Tree(Names)
    BY <1>1, <1>2, ContentType DEF SizesInv, DomOf
<1>4. Sub \subseteq Names /\ base[v] \in Tree(Sub)
    BY <1>1, Finite DEF SizesInv, TreesOK
<1>5. Merged(v) \in Tree(Sub)
    BY <1>3, <1>4 DEF Merged, Tree
<1>6. Into(v) \in Tree(Names)
    BY <1>3, <1>5 DEF Into, Tree
<1> QED
    BY <1>1, <1>2, <1>5, <1>6

LEMMA MergeCommits ==
    ASSUME SizesAssumption, SizesInv, NEW v \in merging
    PROVE  /\ Len(New(v)) \in Nat /\ DOMAIN New(v) = 1..Len(New(v))
           /\ \A i \in DOMAIN New(v) :
                \/ New(v)[i] = [lib |-> v, tree |-> Merged(v)]
                \/ New(v)[i] = [lib |-> Origin[v], tree |-> Into(v)]
           /\ (\E i \in DOMAIN New(v) : New(v)[i].lib = v) <=> Content(v) # Merged(v)
           /\ (\E i \in DOMAIN New(v) : New(v)[i].lib = Origin[v])
                <=> Content(Origin[v]) # Into(v)
<1> DEFINE a == [lib |-> v, tree |-> Merged(v)]
           b == [lib |-> Origin[v], tree |-> Into(v)]
<1>1. a.lib = v /\ b.lib = Origin[v] /\ v # Origin[v]
    BY MergeTypes
<1>2. CASE Content(v) = Merged(v) /\ Content(Origin[v]) = Into(v)
    <2>1. New(v) = << >>
        BY <1>2 DEF New
    <2> QED
        BY <1>2, <2>1
<1>3. CASE Content(v) # Merged(v) /\ Content(Origin[v]) = Into(v)
    <2>1. New(v) = <<a>>
        BY <1>3 DEF New
    <2> HIDE DEF a, b
    <2>2. Len(New(v)) = 1 /\ DOMAIN New(v) = {1} /\ New(v)[1] = a
        BY <2>1
    <2> QED
        BY <1>1, <1>3, <2>2 DEF a, b
<1>4. CASE Content(v) = Merged(v) /\ Content(Origin[v]) # Into(v)
    <2>1. New(v) = <<b>>
        BY <1>4 DEF New
    <2> HIDE DEF a, b
    <2>2. Len(New(v)) = 1 /\ DOMAIN New(v) = {1} /\ New(v)[1] = b
        BY <2>1
    <2> QED
        BY <1>1, <1>4, <2>2 DEF a, b
<1>5. CASE Content(v) # Merged(v) /\ Content(Origin[v]) # Into(v)
    <2>1. New(v) = <<a>> \o <<b>>
        BY <1>5 DEF New
    <2> HIDE DEF a, b
    <2>2. Len(New(v)) = 2 /\ DOMAIN New(v) = {1, 2} /\ New(v)[1] = a /\ New(v)[2] = b
        BY <2>1
    <2> QED
        BY <1>1, <1>5, <2>2 DEF a, b
<1> QED
    BY <1>2, <1>3, <1>4, <1>5

\* The merge leaves both with what it merged, and a job of each that it changed.
LEMMA MergeResult ==
    ASSUME SizesAssumption, SizesInv, NEW v \in merging, Merge(v)
    PROVE  /\ TreesOK' /\ queue' \in Seq(Libs)
           /\ DOMAIN trees \subseteq DOMAIN trees'
           /\ \A c \in DOMAIN trees : trees'[c] = trees[c]
           /\ Content(v)' = Merged(v) /\ Content(Origin[v])' = Into(v)
           /\ \A l \in Libs \ {v, Origin[v]} : Content(l)' = Content(l)
           /\ \A l \in Range(queue) : l \in Range(queue')
           /\ Content(v) # Merged(v) => v \in Range(queue')
           /\ Content(Origin[v]) # Into(v) => Origin[v] \in Range(queue')
           /\ \A l \in Libs : Content(l)' = Content(l) => tip'[l] = tip[l]
<1> DEFINE o == Origin[v]
           new == New(v)
           T == Tree(Names) \cup Tree(Sub)
           added == [i \in DOMAIN new |-> new[i].tree]
           jobs == [i \in DOMAIN new |-> new[i].lib]
<1>1. /\ merging' = (merging \ {v}) \cup (IF Content(o) = Into(v) THEN {} ELSE Shared(o) \ {v})
      /\ trees' = trees \o added /\ queue' = queue \o jobs
      /\ tip' = [l \in Libs |-> IF \E i \in DOMAIN new : new[i].lib = l
                                THEN Len(trees) + CHOOSE i \in DOMAIN new : new[i].lib = l
                                ELSE tip[l]]
      /\ base' = [base EXCEPT ![v] = Merged(v)]
    BY DEF Merge, New, Merged, Into
<1>2. /\ v \in Libs /\ Virtual(v) /\ o \in Libs /\ ~Virtual(o) /\ o # v
      /\ Merged(v) \in Tree(Sub) /\ Into(v) \in Tree(Names)
    BY MergeTypes
<1>3. Len(new) \in Nat /\ DOMAIN new = 1..Len(new)
    BY MergeCommits
<1>4. \A i \in DOMAIN new : \/ new[i].lib = v /\ new[i].tree = Merged(v)
                            \/ new[i].lib = o /\ new[i].tree = Into(v)
    BY MergeCommits
<1>5. /\ (\E i \in DOMAIN new : new[i].lib = v) <=> Content(v) # Merged(v)
      /\ (\E i \in DOMAIN new : new[i].lib = o) <=> Content(o) # Into(v)
    BY MergeCommits
<1> HIDE DEF new, o
<1>6. trees \in Seq(T) /\ queue \in Seq(Libs)
    BY DEF SizesInv, TreesOK, JobsOK
<1>7. \A i \in DOMAIN new : added[i] \in T /\ jobs[i] \in Libs
    BY <1>2, <1>4
<1>8. added \in Seq(T) /\ Len(added) = Len(new) /\ DOMAIN added = 1..Len(new)
    <2> HIDE DEF T
    <2> QED
        BY <1>3, <1>7
<1>9. jobs \in Seq(Libs) /\ Len(jobs) = Len(new)
    BY <1>3, <1>7
<1> HIDE DEF T, added, jobs
<1>10. /\ trees' \in Seq(T) /\ DOMAIN trees \subseteq DOMAIN trees'
       /\ \A c \in DOMAIN trees : trees'[c] = trees[c]
       /\ \A i \in 1..Len(new) : /\ Len(trees) + i \in DOMAIN trees'
                                 /\ trees'[Len(trees) + i] = added[i]
    BY <1>1, <1>3, <1>6, <1>8
<1>11. queue' \in Seq(Libs)
    BY <1>1, <1>6, <1>9
<1>12. \A l \in Libs : \A c : Commit(l, c) => Commit(l, c)' /\ trees'[c] = trees[c]
    BY <1>10, CommitsStay DEF SizesInv
<1>13. ASSUME NEW l \in Libs, \E i \in DOMAIN new : new[i].lib = l
       PROVE  \E i \in DOMAIN new : /\ new[i].lib = l /\ tip'[l] = Len(trees) + i
                                    /\ Content(l)' = new[i].tree
    <2> DEFINE i == CHOOSE x \in DOMAIN new : new[x].lib = l
    <2>1. i \in DOMAIN new /\ new[i].lib = l
        BY <1>13
    <2>2. tip'[l] = Len(trees) + i
        BY <1>1, <1>13
    <2> HIDE DEF i
    <2>3. trees'[tip'[l]] = new[i].tree
        BY <1>3, <1>10, <2>1, <2>2 DEF added
    <2> QED
        BY <2>1, <2>2, <2>3 DEF Content
<1>14. ASSUME NEW l \in Libs, ~\E i \in DOMAIN new : new[i].lib = l
       PROVE  tip'[l] = tip[l] /\ Content(l)' = Content(l)
    <2>1. tip'[l] = tip[l]
        BY <1>1, <1>14
    <2>2. Commit(l, tip[l])
        BY DEF SizesInv, TreesOK
    <2> QED
        BY <1>12, <2>1, <2>2 DEF Content
<1>15. Content(v)' = Merged(v) /\ Content(o)' = Into(v)
    BY <1>2, <1>4, <1>5, <1>13, <1>14
<1>16. \A l \in Libs \ {v, o} : Content(l)' = Content(l)
    BY <1>4, <1>14
<1>17. /\ \A l \in Range(queue) : l \in Range(queue')
       /\ \A i \in DOMAIN new : new[i].lib \in Range(queue')
    <2>1. /\ \A i \in 1..Len(queue) : i \in DOMAIN queue' /\ queue'[i] = queue[i]
          /\ \A i \in 1..Len(new) : /\ Len(queue) + i \in DOMAIN queue'
                                    /\ queue'[Len(queue) + i] = jobs[i]
        BY <1>1, <1>3, <1>6, <1>9
    <2>2. DOMAIN queue = 1..Len(queue)
        BY <1>6
    <2> QED
        BY <1>3, <2>1, <2>2 DEF Range, jobs
<1>18. ASSUME NEW l \in Libs PROVE Commit(l, tip[l])'
    <2>1. CASE ~\E i \in DOMAIN new : new[i].lib = l
        <3>1. tip'[l] = tip[l] /\ Commit(l, tip[l])
            BY <1>14, <2>1 DEF SizesInv, TreesOK
        <3> QED
            BY <1>12, <3>1
    <2>2. CASE \E i \in DOMAIN new : new[i].lib = l
        <3>1. PICK i \in DOMAIN new : /\ new[i].lib = l /\ tip'[l] = Len(trees) + i
                                      /\ Content(l)' = new[i].tree
            BY <1>13, <2>2
        <3>2. tip'[l] \in DOMAIN trees'
            BY <1>3, <1>10, <3>1
        <3>3. Content(l)' \in Tree(DomOf(l))
            BY <1>2, <1>4, <3>1 DEF DomOf
        <3> QED
            BY <3>2, <3>3 DEF Commit, Content, DomOf, Virtual, Tree
    <2> QED
        BY <2>1, <2>2
<1>19. TreesOK'
    <2>1. base' \in [{l \in Libs : Virtual(l)} -> Tree(Sub)]
        BY <1>1, <1>2 DEF SizesInv, TreesOK
    <2>2. merging' \subseteq {l \in Libs : Virtual(l)}
        <3>1. Shared(o) \subseteq {l \in Libs : Virtual(l)}
            BY <1>2 DEF Shared, Virtual, SizesAssumption
        <3> QED
            BY <1>1, <3>1 DEF SizesInv, TreesOK
    <2>3. trees' \in Seq(Tree(Names) \cup Tree(Sub)) /\ DOMAIN tip' = Libs
        BY <1>1, <1>10 DEF T
    <2> QED
        BY <1>18, <2>1, <2>2, <2>3 DEF TreesOK, Tree, Virtual
<1>20. ASSUME NEW l \in Libs, Content(l)' = Content(l)
       PROVE  tip'[l] = tip[l]
    <2>1. ~\E i \in DOMAIN new : new[i].lib = l
        <3>1. SUFFICES ASSUME NEW i \in DOMAIN new, new[i].lib = l PROVE FALSE
            OBVIOUS
        <3>2. l = v \/ l = o
            BY <1>4, <3>1
        <3> QED
            BY <1>5, <1>15, <1>20, <3>1, <3>2
    <2> QED
        BY <1>14, <2>1
<1> QED
    BY <1>5, <1>10, <1>11, <1>15, <1>16, <1>17, <1>19, <1>20 DEF o

LEMMA MergeInv ==
    ASSUME SizesAssumption, SizesInv, NEW v \in merging, Merge(v)
    PROVE  SizesInv'
<1>1. UNCHANGED <<row, threads, job, put>>
    BY DEF Merge
<1>2. /\ TreesOK' /\ queue' \in Seq(Libs)
      /\ DOMAIN trees \subseteq DOMAIN trees' /\ \A c \in DOMAIN trees : trees'[c] = trees[c]
    BY MergeResult
<1>3. RowsOK' /\ JobsOK'
    BY <1>1, <1>2, JobsStay
<1>4. PutsOK'
    BY <1>1 DEF SizesInv, PutsOK, DomOf, Virtual
<1> QED
    BY <1>2, <1>3, <1>4 DEF SizesInv

LEMMA SizesStep == SizesAssumption /\ SizesInv /\ [Next]_vars => SizesInv'
<1> SUFFICES ASSUME SizesAssumption, SizesInv, [Next]_vars PROVE SizesInv'
    OBVIOUS
<1>1. ASSUME NEW w \in 1..threads, Take(w) \/ ReadRow(w) \/ WriteRow(w) \/ JobFails(w)
      PROVE  SizesInv'
    BY <1>1, TakeInv, ReadRowInv, WriteRowInv, JobFailsInv
<1>2. CASE Restart
    BY <1>2, RestartInv
<1>3. ASSUME NEW r \in Requests, NEW l \in Libs, NEW n \in Names,
             NEW by \in {"web", "blocks", "sync"}, NEW f \in FileIds, CheckQuota(r, by, l, n, f)
      PROVE  SizesInv'
    BY <1>3, CheckQuotaInv
<1>4. ASSUME NEW r \in Requests, NEW l \in Libs, NEW n \in Names, Delete(r, l, n)
      PROVE  SizesInv'
    BY <1>4, DeleteInv
<1>5. ASSUME NEW r \in Requests, PutFile(r) \/ PutFails(r) \/ ScheduleSize(r)
      PROVE  SizesInv'
    BY <1>5, PutFileInv, PutFailsInv, ScheduleSizeInv
<1>6. ASSUME NEW l \in Libs, NEW n \in Names, NEW m \in Names, Rename(l, n, m)
      PROVE  SizesInv'
    BY <1>6, RenameInv
<1>7. ASSUME NEW v \in merging, Merge(v)
      PROVE  SizesInv'
    BY <1>7, MergeInv
<1>8. CASE UNCHANGED vars
    <2>1. UNCHANGED libraries /\ UNCHANGED <<row, threads, queue, job, put>>
        BY <1>8 DEF vars
    <2>2. PutsOK'
        BY <2>1 DEF SizesInv, PutsOK, DomOf, Virtual
    <2> QED
        BY <2>1, <2>2, UploadInv DEF SizesInv, JobsOK
<1> QED
    BY <1>1, <1>2, <1>3, <1>4, <1>5, <1>6, <1>7, <1>8 DEF Next

\* The invariant of the jobs holds throughout.
THEOREM JobsWorkOnCommits == ASSUME SizesAssumption PROVE Spec => []SizesInv
<1>1. Init => SizesInv
    BY SizesStart
<1>2. SizesInv /\ [Next]_vars => SizesInv'
    BY SizesStep
<1> QED
    BY <1>1, <1>2, PTL DEF Spec

\* A row always has the size and the number of the files of the commit it names, however the
\* threads and the changes interleave, however often jobs fail and the server restarts
\* (compute_repo_size, set_repo_size_and_file_count).
THEOREM RowsAreRight == ASSUME SizesAssumption PROVE Spec => []RowRight
<1>1. SizesInv => RowRight
    BY DEF SizesInv, RowsOK, Right, RowRight
<1> QED
    BY <1>1, JobsWorkOnCommits, PTL

----------------------------------------------------------------------------
\* What there is to do for a library

\* A commit of a library that is as large as what the library holds, which may be another: no job
\* follows a renamed file
AsLarge(l, c) == Size(trees[c]) = Size(Content(l)) /\ Count(trees[c]) = Count(Content(l))

Waiting(l) ==
    l \in Range(queue) \/ \E r \in Requests : put[r].pc = "schedule" /\ put[r].lib = l

\* The thread works on a commit that is as large as the library.
Doing(l) == job[1].pc # "idle" /\ job[1].lib = l /\ AsLarge(l, job[1].head)

\* The thread has nothing to do for the library, whose row is right.
Done(l) ==
    /\ job[1].pc = "idle" \/ job[1].lib # l
    /\ row[l] # Nothing /\ AsLarge(l, row[l].head)

Follows == threads = 1 => \A l \in Libs \ missed : Waiting(l) \/ Doing(l) \/ Done(l)

LEMMA TipType == ASSUME TreesOK, NEW l \in Libs, NEW c, Commit(l, c) PROVE c \in Nat
<1>1. trees \in Seq(Tree(Names) \cup Tree(Sub)) /\ c \in DOMAIN trees
    BY DEF TreesOK, Commit
<1> DEFINE T == Tree(Names) \cup Tree(Sub)
<1>2. trees \in Seq(T)
    BY <1>1
<1> HIDE DEF T
<1> QED
    BY <1>1, <1>2

\* A row is not taken for none.
LEMMA RowIsOne ==
    ASSUME SizesAssumption, TreesOK, NEW l \in Libs, NEW c, Commit(l, c),
           NEW i, i = [head |-> c, size |-> Size(trees[c]), count |-> Count(trees[c])]
    PROVE  i # Nothing
<1>1. c \in Nat
    BY TipType
<1>2. trees[c] \in Tree(DomOf(l)) /\ IsFiniteSet(DomOf(l))
    BY Finite DEF Commit
<1>3. Size(trees[c]) \in Int /\ Count(trees[c]) \in Nat
    BY <1>2, TreeSizes
<1> HIDE DEF Commit
<1>4. i \in [head : Nat, size : Int, count : Int]
    BY <1>1, <1>3
<1> QED
    BY <1>4 DEF SizesAssumption

LEMMA FollowsStart == SizesAssumption /\ Init => Follows
<1> SUFFICES ASSUME SizesAssumption, Init, NEW l \in Libs \ missed, threads = 1 PROVE Done(l)
    BY DEF Follows
<1>1. PICK known \in BOOLEAN :
        /\ row = [k \in Libs |-> IF known THEN [head |-> tip[k], size |-> Size(Content(k)),
                                                count |-> Count(Content(k))] ELSE Nothing]
        /\ missed = IF known THEN {} ELSE Libs
    BY DEF Init
<1>2. row[l] = [head |-> tip[l], size |-> Size(Content(l)), count |-> Count(Content(l))]
    BY <1>1
<1>3. row[l] # Nothing
    <2>1. TreesOK /\ Commit(l, tip[l])
        BY SizesStart DEF SizesInv, TreesOK
    <2> QED
        BY <1>2, <2>1, RowIsOne DEF Content
<1>4. job[1].pc = "idle"
    BY DEF Init, Idle
<1> QED
    BY <1>2, <1>3, <1>4 DEF Done, AsLarge, Content

\* What is as large as a library stays so as long as the library is as large as before.
LEMMA AsLargeStays ==
    ASSUME SizesInv, DOMAIN trees \subseteq DOMAIN trees',
           \A c \in DOMAIN trees : trees'[c] = trees[c],
           NEW l \in Libs, NEW c, Commit(l, c), AsLarge(l, c),
           Size(Content(l)') = Size(Content(l)), Count(Content(l)') = Count(Content(l))
    PROVE  AsLarge(l, c)'
<1>1. trees'[c] = trees[c]
    BY CommitsStay DEF SizesInv
<1> QED
    BY <1>1 DEF AsLarge, Size, SizesIn, Count

\* Steps that leave the jobs and the rows alone: of a library that is not waited for, the size
\* has not changed.
LEMMA FollowsStay ==
    ASSUME SizesInv, Follows, DOMAIN trees \subseteq DOMAIN trees',
           \A c \in DOMAIN trees : trees'[c] = trees[c],
           UNCHANGED <<row, threads, job, missed>>,
           \A l \in Libs : \/ Waiting(l)'
                           \/ /\ ~Waiting(l)
                              /\ Size(Content(l)') = Size(Content(l))
                              /\ Count(Content(l)') = Count(Content(l))
    PROVE  Follows'
<1> SUFFICES ASSUME NEW l \in Libs \ missed, threads = 1, ~Waiting(l)'
             PROVE  Doing(l)' \/ Done(l)'
    BY DEF Follows
<1>1. /\ ~Waiting(l) /\ Size(Content(l)') = Size(Content(l))
      /\ Count(Content(l)') = Count(Content(l))
    OBVIOUS
<1>2. Doing(l) \/ Done(l)
    BY <1>1 DEF Follows
<1>3. CASE Doing(l)
    <2>1. JobOK(job[1])
        BY DEF SizesInv, JobsOK
    <2>2. Commit(l, job[1].head)
        BY <1>3, <2>1 DEF JobOK, Doing
    <2>3. AsLarge(l, job[1].head)'
        BY <1>1, <1>3, <2>2, AsLargeStays DEF Doing
    <2> QED
        BY <1>3, <2>3 DEF Doing
<1>4. CASE Done(l)
    <2>1. Commit(l, row[l].head)
        BY <1>4 DEF Done, SizesInv, RowsOK, Right
    <2>2. AsLarge(l, row[l].head)'
        BY <1>1, <1>4, <2>1, AsLargeStays DEF Done
    <2> QED
        BY <1>4, <2>2 DEF Done
<1> QED
    BY <1>2, <1>3, <1>4

LEMMA FollowsTake ==
    ASSUME SizesInv, Follows, NEW w \in 1..threads, Take(w)
    PROVE  Follows'
<1> SUFFICES ASSUME NEW l \in Libs \ missed, threads = 1, ~Waiting(l)'
             PROVE  Doing(l)' \/ Done(l)'
    BY DEF Take, Follows
<1>1. /\ job[1].pc = "idle" /\ queue # << >> /\ queue' = Tail(queue) /\ DOMAIN job = {1}
      /\ job' = [job EXCEPT ![1] = [pc |-> "read", lib |-> Head(queue), head |-> tip[Head(queue)]]]
      /\ UNCHANGED <<libraries, row, put>>
    BY DEF Take, SizesInv, JobsOK
<1>2. job'[1] = [pc |-> "read", lib |-> Head(queue), head |-> tip[Head(queue)]]
    BY <1>1
<1>3. \A c : AsLarge(l, c)' <=> AsLarge(l, c)
    BY <1>1 DEF AsLarge, Content, Size, SizesIn, Count, libraries
<1>4. CASE l = Head(queue)
    <2>1. AsLarge(l, tip[l])
        BY DEF AsLarge, Content
    <2> QED
        BY <1>2, <1>3, <1>4, <2>1 DEF Doing
<1>5. CASE l # Head(queue)
    <2>1. ~Waiting(l)
        <3>1. l \notin Range(queue)
            <4>1. queue \in Seq(Libs)
                BY DEF SizesInv, JobsOK
            <4>2. ASSUME NEW i \in DOMAIN queue, queue[i] = l PROVE FALSE
                <5>1. i # 1
                    BY <1>1, <1>5, <4>1, <4>2
                <5>2. i - 1 \in DOMAIN queue' /\ queue'[i - 1] = l
                    BY <1>1, <4>1, <4>2, <5>1
                <5> QED
                    BY <5>2 DEF Waiting, Range
            <4> QED
                BY <4>2 DEF Range
        <3> QED
            BY <1>1, <3>1 DEF Waiting
    <2>2. Done(l)
        BY <1>1, <2>1 DEF Follows, Doing
    <2> QED
        BY <1>1, <1>2, <1>3, <1>5, <2>2 DEF Done
<1> QED
    BY <1>4, <1>5

\* A job that has ended has left a row of the commit it worked on, or else the library is missed.
LEMMA FollowsJob ==
    ASSUME SizesInv, Follows, NEW w \in 1..threads, job[w].pc # "idle",
           UNCHANGED <<libraries, threads, queue, put>>,
           DOMAIN row' = Libs, \A k \in Libs \ {job[w].lib} : row'[k] = row[k],
           \/ /\ job' = [job EXCEPT ![w] = Idle]
              /\ \A k \in Libs \ {job[w].lib} : k \in missed => k \in missed'
              /\ \/ job[w].lib \in missed'
                 \/ /\ row'[job[w].lib] # Nothing /\ row'[job[w].lib].head = job[w].head
                    /\ Current(job[w].lib, job[w].head)
           \/ /\ missed' = missed /\ row' = row
              /\ \E j : /\ job' = [job EXCEPT ![w] = j] /\ j.pc # "idle"
                        /\ j.lib = job[w].lib /\ j.head = job[w].head
    PROVE  Follows'
<1> SUFFICES ASSUME NEW l \in Libs \ missed', threads = 1, ~Waiting(l)'
             PROVE  Doing(l)' \/ Done(l)'
    BY DEF Follows
<1>1. w = 1 /\ DOMAIN job = {1} /\ ~Waiting(l)
    BY DEF SizesInv, JobsOK, Waiting
<1>2. \A c : AsLarge(l, c)' <=> AsLarge(l, c)
    BY DEF AsLarge, Content, Size, SizesIn, Count, libraries
<1> DEFINE m == job[1].lib
           c == job[1].head
<1>3. CASE /\ missed' = missed /\ row' = row
           /\ \E j : /\ job' = [job EXCEPT ![w] = j] /\ j.pc # "idle"
                     /\ j.lib = job[w].lib /\ j.head = job[w].head
    <2>1. job'[1].pc # "idle" /\ job'[1].lib = m /\ job'[1].head = c
        BY <1>1, <1>3
    <2>2. Doing(l) \/ Done(l)
        BY <1>1, <1>3 DEF Follows
    <2> QED
        BY <1>1, <1>2, <1>3, <2>1, <2>2 DEF Doing, Done
<1>4. CASE /\ job' = [job EXCEPT ![w] = Idle]
           /\ \A k \in Libs \ {job[w].lib} : k \in missed => k \in missed'
           /\ \/ job[w].lib \in missed'
              \/ /\ row'[job[w].lib] # Nothing /\ row'[job[w].lib].head = job[w].head
                 /\ Current(job[w].lib, job[w].head)
    <2>1. job'[1].pc = "idle"
        BY <1>1, <1>4 DEF Idle
    <2>2. CASE l = m
        <3>1. row'[l] # Nothing /\ row'[l].head = c /\ Current(l, c)
            BY <1>1, <1>4, <2>2
        <3>2. AsLarge(l, c)
            <4>1. CASE c = tip[l]
                BY <4>1 DEF AsLarge, Content
            <4>2. CASE c # tip[l]
                <5>1. l \notin missed
                    BY <3>1, <4>2 DEF Current
                <5>2. Doing(l)
                    BY <1>1, <2>2, <5>1 DEF Follows, Done
                <5> QED
                    BY <5>2 DEF Doing
            <4> QED
                BY <4>1, <4>2
        <3> QED
            BY <1>2, <2>1, <3>1, <3>2 DEF Done
    <2>3. CASE l # m
        <3>1. l \notin missed /\ row'[l] = row[l]
            BY <1>1, <1>4, <2>3
        <3>2. Done(l)
            BY <1>1, <2>3, <3>1 DEF Follows, Doing
        <3> QED
            BY <1>2, <2>1, <3>1, <3>2 DEF Done
    <2> QED
        BY <2>2, <2>3
<1> QED
    BY <1>3, <1>4

LEMMA FollowsReadRow ==
    ASSUME SizesInv, Follows, NEW w \in 1..threads, ReadRow(w)
    PROVE  Follows'
<1> DEFINE l == job[w].lib
           j == [pc |-> "write", lib |-> l, head |-> job[w].head, info |-> row[l]]
<1>1. /\ job[w].pc = "read" /\ UNCHANGED <<libraries, row, threads, queue, put>>
      /\ \/ /\ row[l] # Nothing /\ row[l].head = job[w].head
            /\ Current(l, job[w].head) /\ job' = [job EXCEPT ![w] = Idle]
         \/ job' = [job EXCEPT ![w] = j] /\ missed' = missed
    BY DEF ReadRow, UpToDate
<1>2. j.pc # "idle" /\ j.lib = l /\ j.head = job[w].head
    OBVIOUS
<1>3. DOMAIN row' = Libs
    BY <1>1 DEF SizesInv, RowsOK
<1> HIDE DEF j
<1>4. CASE /\ row[l] # Nothing /\ row[l].head = job[w].head
           /\ Current(l, job[w].head) /\ job' = [job EXCEPT ![w] = Idle]
    <2>1. \A k \in Libs \ {l} : k \in missed => k \in missed'
        BY <1>4 DEF Current
    <2> QED
        BY <1>1, <1>3, <1>4, <2>1, FollowsJob
<1>5. CASE job' = [job EXCEPT ![w] = j] /\ missed' = missed
    BY <1>1, <1>2, <1>3, <1>5, FollowsJob
<1> QED
    BY <1>1, <1>4, <1>5

LEMMA FollowsWriteRow ==
    ASSUME SizesAssumption, SizesInv, Follows, NEW w \in 1..threads, WriteRow(w)
    PROVE  Follows'
<1> DEFINE l == job[w].lib
           c == job[w].head
<1>1. PICK readable \in BOOLEAN :
        row' = [row EXCEPT ![l] = Computed(job[w].info, c, readable)]
    BY DEF WriteRow
<1> DEFINE i == Computed(job[w].info, c, readable)
<1>2. /\ job[w].pc = "write" /\ Current(l, c) /\ job' = [job EXCEPT ![w] = Idle]
      /\ UNCHANGED <<libraries, threads, queue, put>>
    BY DEF WriteRow
<1>3. l \in Libs /\ Commit(l, c) /\ (job[w].info # Nothing => Right(l, job[w].info))
    BY <1>2 DEF SizesInv, JobsOK, JobOK
<1>4. i.head = c /\ i # Nothing
    <2>1. Right(l, i) /\ i.head = c
        BY <1>3, ComputedRight
    <2>2. i = [head |-> c, size |-> i.size, count |-> i.count]
        BY DEF Computed
    <2> HIDE DEF i
    <2>3. i = [head |-> c, size |-> Size(trees[c]), count |-> Count(trees[c])]
        BY <2>1, <2>2 DEF Right
    <2> QED
        BY <1>3, <2>1, <2>3, RowIsOne DEF SizesInv
<1> HIDE DEF i
<1>5. DOMAIN row = Libs
    BY DEF SizesInv, RowsOK
<1>6. row' = [row EXCEPT ![l] = i]
    BY <1>1 DEF i
<1>7. DOMAIN row' = Libs /\ row'[l] = i /\ \A k \in Libs \ {l} : row'[k] = row[k]
    BY <1>3, <1>5, <1>6
<1>8. \A k \in Libs \ {l} : k \in missed => k \in missed'
    BY <1>2 DEF Current
<1> QED
    BY <1>2, <1>4, <1>7, <1>8, FollowsJob

LEMMA FollowsJobFails ==
    ASSUME SizesInv, Follows, NEW w \in 1..threads, JobFails(w)
    PROVE  Follows'
<1>1. /\ job[w].pc # "idle" /\ missed' = missed \cup {job[w].lib}
      /\ job' = [job EXCEPT ![w] = Idle] /\ UNCHANGED <<libraries, row, threads, queue, put>>
    BY DEF JobFails
<1>2. DOMAIN row' = Libs /\ \A k \in Libs : row'[k] = row[k]
    BY <1>1 DEF SizesInv, RowsOK
<1> QED
    BY <1>1, <1>2, FollowsJob

LEMMA FollowsRestart ==
    ASSUME SizesInv, Follows, Restart
    PROVE  Follows'
<1> SUFFICES ASSUME NEW l \in Libs \ missed', threads = 1 PROVE Done(l)'
    BY DEF Restart, Follows
<1>1. /\ missed' = missed \cup Range(queue)
                          \cup {job[w].lib : w \in {x \in 1..threads : job[x].pc # "idle"}}
                          \cup {put[r].lib : r \in {x \in Requests : put[x].pc = "schedule"}}
      /\ job' = [w \in 1..threads |-> Idle] /\ UNCHANGED <<trees, tip, row, threads>>
    BY DEF Restart
<1>2. l \notin missed /\ ~Waiting(l)
    BY <1>1 DEF Waiting
<1>3. ~Doing(l)
    <2>1. 1 \in 1..threads
        OBVIOUS
    <2> QED
        BY <1>1, <2>1 DEF Doing
<1>4. Done(l)
    BY <1>2, <1>3 DEF Follows
<1>5. AsLarge(l, row[l].head)'
    BY <1>1, <1>4 DEF Done, AsLarge, Content, Size, SizesIn, Count
<1>6. job'[1].pc = "idle"
    BY <1>1 DEF Idle
<1> QED
    BY <1>1, <1>4, <1>5, <1>6 DEF Done

\* What a new commit changes
LEMMA ChangedResult ==
    ASSUME SizesInv, NEW l \in Libs, NEW t, Changed(l, t)
    PROVE  /\ DOMAIN trees \subseteq DOMAIN trees'
           /\ \A c \in DOMAIN trees : trees'[c] = trees[c]
           /\ Content(l)' = t
           /\ \A k \in Libs \ {l} : Content(k)' = Content(k)
<1>1. trees' = Append(trees, t) /\ tip' = [tip EXCEPT ![l] = Len(trees) + 1]
    BY DEF Changed
<1>2. /\ Len(trees) \in Nat /\ DOMAIN trees = 1..Len(trees)
      /\ DOMAIN tip = Libs /\ \A k \in Libs : tip[k] \in DOMAIN trees
    <2>1. trees \in Seq(Tree(Names) \cup Tree(Sub))
        BY DEF SizesInv, TreesOK
    <2> DEFINE T == Tree(Names) \cup Tree(Sub)
    <2>2. trees \in Seq(T)
        BY <2>1
    <2> HIDE DEF T
    <2>3. Len(trees) \in Nat /\ DOMAIN trees = 1..Len(trees)
        BY <2>2
    <2> QED
        BY <2>3 DEF SizesInv, TreesOK, Commit
<1>3. /\ DOMAIN trees' = 1..(Len(trees) + 1) /\ trees'[Len(trees) + 1] = t
      /\ \A c \in 1..Len(trees) : trees'[c] = trees[c]
    BY <1>1, <1>2
<1> QED
    BY <1>1, <1>2, <1>3 DEF Content

\* Checked uploads say nothing of the jobs; what is to be scheduled stays until it is queued.
LEMMA FollowsUpload ==
    ASSUME SizesInv, Follows, UNCHANGED <<libraries, row, threads, job, missed>>,
           \A l \in Libs : Waiting(l) => Waiting(l)'
    PROVE  Follows'
<1>1. \A l \in Libs : Content(l)' = Content(l)
    BY TreesStay
<1>2. trees' = trees
    BY DEF libraries
<1>3. \A l \in Libs : \/ Waiting(l)'
                      \/ /\ ~Waiting(l)
                         /\ Size(Content(l)') = Size(Content(l))
                         /\ Count(Content(l)') = Count(Content(l))
    BY <1>1
<1> QED
    BY <1>2, <1>3, FollowsStay

LEMMA FollowsCheckQuota ==
    ASSUME SizesInv, Follows, NEW r \in Requests, NEW by, NEW l, NEW n, NEW f,
           CheckQuota(r, by, l, n, f)
    PROVE  Follows'
<1>1. /\ put[r].pc = "idle" /\ UNCHANGED <<libraries, row, threads, queue, job, missed>>
      /\ \A q \in Requests \ {r} : put'[q] = put[q]
    BY DEF CheckQuota, SizesInv, PutsOK
<1>2. \A k \in Libs : Waiting(k) => Waiting(k)'
    BY <1>1 DEF Waiting
<1> QED
    BY <1>1, <1>2, FollowsUpload

LEMMA FollowsPutFails ==
    ASSUME SizesInv, Follows, NEW r \in Requests, PutFails(r)
    PROVE  Follows'
<1>1. /\ put[r].pc = "checked" /\ UNCHANGED <<libraries, row, threads, queue, job, missed>>
      /\ \A q \in Requests \ {r} : put'[q] = put[q]
    BY DEF PutFails, SizesInv, PutsOK
<1>2. \A k \in Libs : Waiting(k) => Waiting(k)'
    BY <1>1 DEF Waiting
<1> QED
    BY <1>1, <1>2, FollowsUpload

\* What a longer queue holds
LEMMA QueuedStay ==
    ASSUME NEW q \in Seq(Libs), NEW l
    PROVE  \A k : k \in Range(q) \/ k = l => k \in Range(q \o <<l>>)
<1>1. /\ DOMAIN q = 1..Len(q) /\ DOMAIN (q \o <<l>>) = 1..(Len(q) + 1) /\ Len(q) \in Nat
      /\ \A i \in 1..Len(q) : (q \o <<l>>)[i] = q[i]
      /\ (q \o <<l>>)[Len(q) + 1] = l
    OBVIOUS
<1>2. l \in Range(q \o <<l>>)
    BY <1>1 DEF Range
<1>3. \A k : k \in Range(q) => k \in Range(q \o <<l>>)
    BY <1>1 DEF Range
<1> QED
    BY <1>2, <1>3

LEMMA FollowsScheduleSize ==
    ASSUME SizesInv, Follows, NEW r \in Requests, ScheduleSize(r)
    PROVE  Follows'
<1>1. /\ queue' = queue \o <<put[r].lib>> /\ UNCHANGED <<libraries, row, threads, job, missed>>
      /\ \A q \in Requests \ {r} : put'[q] = put[q]
    BY DEF ScheduleSize, SizesInv, PutsOK
<1>2. queue \in Seq(Libs)
    BY DEF SizesInv, JobsOK
<1>3. \A k \in Libs : Waiting(k) => Waiting(k)'
    BY <1>1, <1>2, QueuedStay DEF Waiting
<1> QED
    BY <1>1, <1>3, FollowsUpload

\* A change of one library, after which the change is to be scheduled unless the size is the same
LEMMA FollowsChange ==
    ASSUME SizesInv, Follows, NEW l \in Libs, NEW t, Changed(l, t),
           UNCHANGED <<row, threads, queue, job, missed>>,
           \A r \in Requests : put[r].pc = "schedule" => put'[r] = put[r],
           Waiting(l)' \/ (Size(t) = Size(Content(l)) /\ Count(t) = Count(Content(l)))
    PROVE  Follows'
<1>1. /\ DOMAIN trees \subseteq DOMAIN trees'
      /\ \A c \in DOMAIN trees : trees'[c] = trees[c]
      /\ Content(l)' = t /\ \A k \in Libs \ {l} : Content(k)' = Content(k)
    BY ChangedResult
<1>2. \A k \in Libs : Waiting(k) => Waiting(k)'
    BY DEF Waiting
<1>3. \A k \in Libs : \/ Waiting(k)'
                      \/ /\ ~Waiting(k)
                         /\ Size(Content(k)') = Size(Content(k))
                         /\ Count(Content(k)') = Count(Content(k))
    BY <1>1, <1>2
<1> QED
    BY <1>1, <1>3, FollowsStay

LEMMA FollowsPutFile ==
    ASSUME SizesInv, Follows, NEW r \in Requests, PutFile(r)
    PROVE  Follows'
<1>1. PICK l \in Libs : l = put[r].lib
    BY DEF PutFile, SizesInv, PutsOK, Puts
<1> DEFINE p == [pc |-> "schedule", lib |-> l]
<1>2. PICK t : /\ put[r].pc = "checked" /\ Changed(l, t)
               /\ put' = [Unsettled(put) EXCEPT ![r] = p]
               /\ UNCHANGED <<row, threads, queue, job, missed>>
    BY <1>1 DEF PutFile
<1>3. Unsettled(put) \in [Requests -> Puts]
    BY UnsettledType DEF SizesInv
<1>4. put'[r] = p
      /\ \A q \in Requests : put[q].pc = "schedule" => put'[q] = put[q]
    BY <1>2, <1>3, UnsettledType DEF SizesInv
<1>5. Waiting(l)'
    BY <1>4 DEF Waiting
<1> QED
    BY <1>2, <1>4, <1>5, FollowsChange

LEMMA FollowsDelete ==
    ASSUME SizesInv, Follows, NEW r \in Requests, NEW l \in Libs, NEW n, Delete(r, l, n)
    PROVE  Follows'
<1> DEFINE t == [Content(l) EXCEPT ![n] = Nothing]
<1>1. /\ put[r].pc = "idle" /\ Changed(l, t)
      /\ put' = [Unsettled(put) EXCEPT ![r] = [pc |-> "schedule", lib |-> l]]
      /\ UNCHANGED <<row, threads, queue, job, missed>>
    BY DEF Delete
<1>2. Unsettled(put) \in [Requests -> Puts]
    BY UnsettledType DEF SizesInv
<1>3. put'[r] = [pc |-> "schedule", lib |-> l]
      /\ \A q \in Requests : put[q].pc = "schedule" => put'[q] = put[q]
    BY <1>1, <1>2, UnsettledType DEF SizesInv
<1>4. Waiting(l)'
    BY <1>3 DEF Waiting
<1> HIDE DEF t
<1> QED
    BY <1>1, <1>3, <1>4, FollowsChange

LEMMA FollowsRename ==
    ASSUME SizesAssumption, SizesInv, Follows, NEW l \in Libs, NEW n, NEW m, Rename(l, n, m)
    PROVE  Follows'
<1> DEFINE t == [Content(l) EXCEPT ![m] = Content(l)[n], ![n] = Nothing]
<1>1. /\ {n, m} \subseteq DOMAIN Content(l) /\ Content(l)[n] # Nothing /\ Content(l)[m] = Nothing
      /\ Changed(l, t) /\ put' = Unsettled(put)
      /\ UNCHANGED <<row, threads, queue, job, missed>>
    BY DEF Rename
<1>2. /\ Content(l) \in Tree(DomOf(l)) /\ DOMAIN Content(l) = DomOf(l)
      /\ IsFiniteSet(DomOf(l))
    BY ContentType, Finite DEF SizesInv
<1>3. Size(t) = Size(Content(l)) /\ Count(t) = Count(Content(l))
    <2>1. PICK D, c : D = DomOf(l) /\ c = Content(l) /\ c \in Tree(D)
        BY <1>2
    <2>2. /\ IsFiniteSet(D) /\ c \in Tree(D) /\ n \in D /\ m \in D
          /\ c[n] # Nothing /\ c[m] = Nothing
        BY <1>1, <1>2, <2>1
    <2> HIDE DEF t
    <2>3. LET s == [c EXCEPT ![m] = c[n], ![n] = Nothing]
          IN  Size(s) = Size(c) /\ Count(s) = Count(c)
        BY <2>2, SizeRename
    <2> QED
        BY <2>1, <2>3 DEF t
<1>4. \A q \in Requests : put[q].pc = "schedule" => put'[q] = put[q]
    BY <1>1, UnsettledType DEF SizesInv
<1> HIDE DEF t
<1> QED
    BY <1>1, <1>3, <1>4, FollowsChange

LEMMA FollowsMerge ==
    ASSUME SizesAssumption, SizesInv, Follows, NEW v \in merging, Merge(v)
    PROVE  Follows'
<1>1. UNCHANGED <<row, threads, job, put, missed>>
    BY DEF Merge
<1>2. /\ DOMAIN trees \subseteq DOMAIN trees' /\ \A c \in DOMAIN trees : trees'[c] = trees[c]
      /\ Content(v)' = Merged(v) /\ Content(Origin[v])' = Into(v)
      /\ \A l \in Libs \ {v, Origin[v]} : Content(l)' = Content(l)
      /\ \A l \in Range(queue) : l \in Range(queue')
      /\ Content(v) # Merged(v) => v \in Range(queue')
      /\ Content(Origin[v]) # Into(v) => Origin[v] \in Range(queue')
    BY MergeResult
<1>3. \A l \in Libs : Waiting(l) => Waiting(l)'
    BY <1>1, <1>2 DEF Waiting
<1>4. \A l \in Libs : Waiting(l)' \/ Content(l)' = Content(l)
    BY <1>2 DEF Waiting
<1>5. \A l \in Libs : \/ Waiting(l)'
                      \/ /\ ~Waiting(l)
                         /\ Size(Content(l)') = Size(Content(l))
                         /\ Count(Content(l)') = Count(Content(l))
    BY <1>3, <1>4
<1> QED
    BY <1>1, <1>2, <1>5, FollowsStay

LEMMA FollowsStep == SizesAssumption /\ SizesInv /\ Follows /\ [Next]_vars => Follows'
<1> SUFFICES ASSUME SizesAssumption, SizesInv, Follows, [Next]_vars PROVE Follows'
    OBVIOUS
<1>1. ASSUME NEW w \in 1..threads, Take(w) \/ ReadRow(w) \/ WriteRow(w) \/ JobFails(w)
      PROVE  Follows'
    BY <1>1, FollowsTake, FollowsReadRow, FollowsWriteRow, FollowsJobFails
<1>2. CASE Restart
    BY <1>2, FollowsRestart
<1>3. ASSUME NEW r \in Requests, NEW l \in Libs, NEW n \in Names,
             NEW by \in {"web", "blocks", "sync"}, NEW f \in FileIds, CheckQuota(r, by, l, n, f)
      PROVE  Follows'
    BY <1>3, FollowsCheckQuota
<1>4. ASSUME NEW r \in Requests, NEW l \in Libs, NEW n \in Names, Delete(r, l, n)
      PROVE  Follows'
    BY <1>4, FollowsDelete
<1>5. ASSUME NEW r \in Requests, PutFile(r) \/ PutFails(r) \/ ScheduleSize(r)
      PROVE  Follows'
    BY <1>5, FollowsPutFile, FollowsPutFails, FollowsScheduleSize
<1>6. ASSUME NEW l \in Libs, NEW n \in Names, NEW m \in Names, Rename(l, n, m)
      PROVE  Follows'
    BY <1>6, FollowsRename
<1>7. ASSUME NEW v \in merging, Merge(v)
      PROVE  Follows'
    BY <1>7, FollowsMerge
<1>8. CASE UNCHANGED vars
    <2>1. UNCHANGED <<libraries, row, threads, job, missed>> /\ UNCHANGED <<queue, put>>
        BY <1>8 DEF vars
    <2>2. \A l \in Libs : Waiting(l) => Waiting(l)'
        BY <2>1 DEF Waiting
    <2> QED
        BY <2>1, <2>2, FollowsUpload
<1> QED
    BY <1>1, <1>2, <1>3, <1>4, <1>5, <1>6, <1>7, <1>8 DEF Next

\* With one thread, a library of which no job was lost and for which nothing is left to do has a
\* row of the size and the number of files it now has (size_sched.c: schedule_repo_size_computation,
\* compute_task; no job is scheduled for a rename, and none has to be).
THEOREM RowsFollow == ASSUME SizesAssumption PROVE Spec => []SizeFollows
<1>1. Init => SizesInv /\ Follows
    BY SizesStart, FollowsStart
<1>2. SizesInv /\ Follows /\ [Next]_vars => (SizesInv /\ Follows)'
    BY SizesStep, FollowsStep
<1>3. SizesInv /\ Follows => SizeFollows
    <2> SUFFICES ASSUME SizesInv, Follows, threads = 1, NEW l \in Libs \ missed
                 PROVE  \/ l \in Range(queue)
                        \/ \E w \in 1..threads : job[w].pc # "idle" /\ job[w].lib = l
                        \/ \E r \in Requests : put[r].pc = "schedule" /\ put[r].lib = l
                        \/ /\ row[l] # Nothing /\ row[l].size = Size(Content(l))
                           /\ row[l].count = Count(Content(l))
        BY DEF SizeFollows
    <2>1. Waiting(l) \/ Doing(l) \/ Done(l)
        BY DEF Follows
    <2>2. 1 \in 1..threads
        OBVIOUS
    <2>3. CASE Done(l)
        <3>1. Right(l, row[l]) /\ row[l] # Nothing /\ AsLarge(l, row[l].head)
            BY <2>3 DEF Done, SizesInv, RowsOK
        <3> QED
            BY <3>1 DEF Right, AsLarge
    <2> QED
        BY <2>1, <2>2, <2>3 DEF Waiting, Doing
<1> QED
    BY <1>1, <1>2, <1>3, PTL DEF Spec

\* So what the runs check of the rows holds for any libraries and pools (size_sched.c).
THEOREM SizesAreRight == ASSUME SizesAssumption PROVE Spec => []SizesRight
<1>1. RowRight /\ SizeFollows => SizesRight
    BY DEF SizesRight
<1> QED
    BY <1>1, RowsAreRight, RowsFollow, PTL

----------------------------------------------------------------------------
\* The quota

\* The size of all that a user is charged for
Used(u) == SumFunctionOnSet([l \in Libs |-> Size(Content(l))], OwnLibs(u))

Fits(p) ==
    LET u == Owner[Charged(p.lib)]
    IN Quota[u] = INFINITE_QUOTA \/ Used(u) + SizeOf[p.file] < Quota[u]

\* An upload checked when all sizes were known fits as long as nothing has changed, and until then
\* no virtual repo has anything to merge.
QuotaInv ==
    /\ ~over
    /\ \A r \in Requests : put[r].pc = "checked" /\ put[r].settled =>
         Fits(put[r]) /\ \A v \in Libs : Virtual(v) => InStep(v)

\* Those charged are libraries, and what they hold has a size.
LEMMA ChargedType ==
    ASSUME SizesAssumption, TreesOK
    PROVE  /\ \A l \in Libs : /\ Charged(l) \in OwnLibs(Owner[Charged(l)])
                              /\ DomOf(Charged(l)) = Names /\ DomOf(l) \subseteq Names
           /\ IsFiniteSet(Libs) /\ \A u : IsFiniteSet(OwnLibs(u))
           /\ \A l \in Libs : Size(Content(l)) \in Int
           /\ \A u : Used(u) \in Int
           /\ \A l \in Libs : Quota[Owner[Charged(l)]] \in Int
<1>1. \A l \in Libs : Charged(l) \in Libs /\ ~Virtual(Charged(l))
    BY DEF Charged, Virtual, SizesAssumption
<1>2. IsFiniteSet(Libs) /\ \A l \in Libs : Owner[l] \in DOMAIN Quota
    BY DEF SizesAssumption
<1>3. \A u : OwnLibs(u) \subseteq Libs
    BY DEF OwnLibs
<1>4. \A u : IsFiniteSet(OwnLibs(u))
    BY <1>2, <1>3, FS_Subset
<1>5. \A l \in Libs : Size(Content(l)) \in Int
    BY ContentType, Finite, TreeSizes
<1>6. ASSUME NEW u PROVE Used(u) \in Int
    BY <1>3, <1>4, <1>5, SumPick DEF Used
<1>7. \A l \in Libs : Quota[Owner[Charged(l)]] \in Int
    BY <1>1, <1>2 DEF SizesAssumption
<1>8. \A l \in Libs : DomOf(l) \subseteq Names
    BY Finite
<1> QED
    BY <1>1, <1>2, <1>4, <1>5, <1>6, <1>7, <1>8 DEF OwnLibs, DomOf

\* A sum of sizes is the same when all libraries are.
LEMMA UsedStays ==
    ASSUME SizesAssumption, TreesOK, \A l \in Libs : Content(l)' = Content(l)
    PROVE  /\ \A u : Used(u)' = Used(u)
           /\ \A v \in Libs : Virtual(v) => (InStep(v)' <=> InStep(v))
           /\ \A p : Fits(p)' <=> Fits(p)
<1>1. ASSUME NEW u PROVE Used(u)' = Used(u)
    <2>1. [l \in Libs |-> Size(Content(l))]' = [l \in Libs |-> Size(Content(l))]
        <3>1. \A l \in Libs : Size(Content(l))' = Size(Content(l))
            BY DEF Size, SizesIn
        <3> QED
            BY <3>1
    <2> QED
        BY <2>1 DEF Used, OwnLibs, Virtual
<1>2. \A v \in Libs : Virtual(v) => Origin[v] \in Libs
    BY DEF Virtual, SizesAssumption
<1>3. \A v \in Libs : Virtual(v) => (InStep(v)' <=> InStep(v))
    BY <1>2 DEF InStep, On
<1>4. \A p : Fits(p)' <=> Fits(p)
    BY <1>1 DEF Fits, Charged, Virtual
<1> QED
    BY <1>1, <1>3, <1>4

\* Steps that change nothing a checked upload relies on
LEMMA QuotaStays ==
    ASSUME SizesAssumption, SizesInv, QuotaInv, \A l \in Libs : Content(l)' = Content(l),
           UNCHANGED over, \A r \in Requests : put'[r] = put[r] \/ put'[r].pc # "checked"
    PROVE  QuotaInv'
<1>1. /\ \A p : Fits(p)' <=> Fits(p)
      /\ \A v \in Libs : Virtual(v) => (InStep(v)' <=> InStep(v))
    BY UsedStays DEF SizesInv
<1>2. \A v : Virtual(v)' <=> Virtual(v)
    BY DEF Virtual
<1>3. ASSUME NEW r \in Requests, put'[r].pc = "checked", put'[r].settled
      PROVE  Fits(put[r])' /\ \A v \in Libs : Virtual(v)' => InStep(v)'
    <2>1. put'[r] = put[r]
        BY <1>3
    <2>2. Fits(put[r]) /\ \A v \in Libs : Virtual(v) => InStep(v)
        BY <1>3, <2>1 DEF QuotaInv
    <2>3. Fits(put'[r])
        BY <2>1, <2>2
    <2>4. Fits(put[r])'
        BY <1>1, <2>1, <2>2 DEF Fits, Used, Charged, Virtual
    <2> QED
        BY <1>1, <1>2, <2>2, <2>4
<1> QED
    BY <1>3 DEF QuotaInv

\* Steps after which no checked upload counts as settled
LEMMA QuotaUnsettled ==
    ASSUME QuotaInv, ~over', \A r \in Requests : put'[r].pc = "checked" => ~put'[r].settled
    PROVE  QuotaInv'
    BY DEF QuotaInv

\* What is used by the rows is what is used, when all sizes are known.
LEMMA QuotaCheckQuota ==
    ASSUME SizesAssumption, SizesInv, QuotaInv, NEW r \in Requests, NEW by,
           NEW l \in Libs, NEW n, NEW f, CheckQuota(r, by, l, n, f)
    PROVE  QuotaInv'
<1> DEFINE u == Owner[Charged(l)]
           p == [pc |-> "checked", by |-> by, lib |-> l, name |-> n, file |-> f,
                 settled |-> Settled(u)]
<1>1. /\ put' = [put EXCEPT ![r] = p] /\ UNCHANGED <<libraries, over>>
      /\ WithinQuota(l, SizeOf[f]) /\ DOMAIN put = Requests
    BY DEF CheckQuota, SizesInv, PutsOK
<1>2. \A k \in Libs : Content(k)' = Content(k)
    BY <1>1, TreesStay
<1>3. ASSUME Settled(u)
      PROVE  Fits(p) /\ \A v \in Libs : Virtual(v) => InStep(v)
    <2>1. /\ \A k \in OwnLibs(u) : row[k] # Nothing /\ row[k].size = Size(Content(k))
          /\ \A v \in Libs : Virtual(v) => InStep(v)
        BY <1>3 DEF Settled
    <2>2. {k \in OwnLibs(u) : row[k] # Nothing} = OwnLibs(u)
        BY <2>1
    <2>3. IsFiniteSet(OwnLibs(u)) /\ OwnLibs(u) \subseteq Libs
        BY ChargedType DEF SizesInv, OwnLibs
    <2>4. UserUsage(u) = Used(u)
        <3>1. \A k \in OwnLibs(u) : [x \in Libs |-> row[x].size][k]
                                    = [x \in Libs |-> Size(Content(x))][k]
            BY <2>1, <2>3
        <3> HIDE DEF u
        <3>2. SumFunctionOnSet([x \in Libs |-> row[x].size], OwnLibs(u))
              = SumFunctionOnSet([x \in Libs |-> Size(Content(x))], OwnLibs(u))
            BY <2>3, <3>1, SumSame
        <3> QED
            BY <2>2, <3>2 DEF UserUsage, Used
    <2>5. Fits(p)
        BY <1>1, <2>4 DEF Fits, WithinQuota
    <2> QED
        BY <2>1, <2>5
<1>4. /\ \A q : Fits(q)' <=> Fits(q)
      /\ \A v \in Libs : Virtual(v) => (InStep(v)' <=> InStep(v))
    BY <1>2, UsedStays DEF SizesInv
<1>5. /\ put'[r] = p /\ p.pc = "checked" /\ (p.settled <=> Settled(u))
      /\ \A q \in Requests \ {r} : put'[q] = put[q]
    BY <1>1
<1>6. ASSUME NEW q \in Requests, put'[q].pc = "checked", put'[q].settled
      PROVE  Fits(put[q])' /\ \A v \in Libs : Virtual(v) => InStep(v)'
    <2>1. Fits(put'[q]) /\ \A v \in Libs : Virtual(v) => InStep(v)
        <3>1. CASE q = r
            BY <1>3, <1>5, <1>6, <3>1
        <3>2. CASE q # r
            BY <1>5, <1>6, <3>2 DEF QuotaInv
        <3> QED
            BY <3>1, <3>2
    <2>2. PICK c : c = put'[q]
        OBVIOUS
    <2>3. Fits(c)'
        BY <1>4, <2>1, <2>2
    <2>4. Fits(put[q])'
        BY <2>2, <2>3 DEF Fits
    <2> QED
        BY <1>4, <2>1, <2>4
<1> HIDE DEF p, u
<1> QED
    BY <1>1, <1>6 DEF QuotaInv, Virtual

\* The upload makes the user's libraries larger by no more than the file.
LEMMA QuotaPutFile ==
    ASSUME SizesAssumption, SizesInv, QuotaInv, NEW r \in Requests, PutFile(r)
    PROVE  QuotaInv'
<1>1. put[r].pc = "checked"
    BY DEF PutFile
<1>2. PICK l \in Libs, n \in Names, f \in FileIds :
        l = put[r].lib /\ n = put[r].name /\ f = put[r].file /\ n \in DomOf(l)
    <2>1. put[r] \in Puts
        BY DEF SizesInv, PutsOK
    <2>2. put[r].lib \in Libs /\ put[r].name \in Names /\ put[r].file \in FileIds
        BY <1>1, <2>1 DEF Puts
    <2>3. put[r].name \in DomOf(put[r].lib)
        BY <1>1 DEF SizesInv, PutsOK
    <2> QED
        BY <2>2, <2>3
<1> DEFINE c == Charged(l)
           u == Owner[c]
           After(b) == IF b = c THEN [Content(b) EXCEPT ![n] = f] ELSE Content(b)
           F == [b \in Libs |-> Size(Content(b))]
           G == [b \in Libs |-> Size(After(b))]
           S == SumFunctionOnSet(G, OwnLibs(u))
<1>3. /\ put' = [Unsettled(put) EXCEPT ![r] = [pc |-> "schedule", lib |-> l]]
      /\ over' = (over \/ (put[r].settled /\ Quota[u] # INFINITE_QUOTA /\ S >= Quota[u]))
    BY <1>2 DEF PutFile
<1>4. \A q \in Requests : put'[q].pc = "checked" => ~put'[q].settled
    <2>1. Unsettled(put) \in [Requests -> Puts]
        BY UnsettledType DEF SizesInv
    <2> QED
        BY <1>3, <2>1, UnsettledType DEF SizesInv
<1>5. /\ c \in OwnLibs(u) /\ DomOf(c) = Names /\ DomOf(l) \subseteq Names
      /\ IsFiniteSet(OwnLibs(u)) /\ c \in Libs /\ OwnLibs(u) \subseteq Libs
      /\ \A k \in Libs : Size(Content(k)) \in Int
      /\ Used(u) \in Int /\ Quota[u] \in Int
    BY ChargedType DEF SizesInv, OwnLibs
<1> HIDE DEF c, u
<1>6. /\ Size(After(c)) = Size(Content(c)) - SizeIn(Content(c)[n]) + SizeIn(f)
      /\ SizeIn(Content(c)[n]) \in Nat /\ SizeIn(f) = SizeOf[f] /\ SizeOf[f] \in Nat
    <2>1. PICK D, t : D = DomOf(c) /\ t = Content(c) /\ t \in Tree(D) /\ IsFiniteSet(D) /\ n \in D
        BY <1>2, <1>5, ContentType, Finite DEF SizesInv
    <2>2. LET s == [t EXCEPT ![n] = f] IN Size(s) = Size(t) - SizeIn(t[n]) + SizeIn(f)
        BY <1>2, <2>1, SizePut
    <2>3. t[n] \in FileIds \cup {Nothing}
        BY <2>1 DEF Tree
    <2>4. SizeIn(t[n]) \in Nat /\ SizeIn(f) = SizeOf[f] /\ SizeOf[f] \in Nat
        BY <2>3 DEF SizeIn, SizesAssumption
    <2>5. After(c) = [t EXCEPT ![n] = f]
        BY <2>1
    <2> HIDE DEF After
    <2> QED
        BY <2>1, <2>2, <2>4, <2>5
<1>7. \A b \in Libs \ {c} : Size(After(b)) = Size(Content(b))
    OBVIOUS
<1>8. Size(After(c)) \in Int /\ Size(After(c)) <= Size(Content(c)) + SizeOf[f]
    <2> HIDE DEF After
    <2>1. Size(Content(c)) \in Int
        BY <1>5
    <2> QED
        BY <1>6, <2>1
<1> HIDE DEF After
<1>9. /\ F[c] = Size(Content(c)) /\ G[c] = Size(After(c))
      /\ \A b \in OwnLibs(u) : F[b] \in Int /\ G[b] \in Int
      /\ \A b \in OwnLibs(u) \ {c} : F[b] = G[b]
    BY <1>5, <1>7, <1>8
<1>10. Used(u) = SumFunctionOnSet(F, OwnLibs(u))
    BY DEF Used
<1> HIDE DEF F, G
<1>11. /\ SumFunctionOnSet(F, OwnLibs(u)) = F[c] + SumFunctionOnSet(F, OwnLibs(u) \ {c})
       /\ S = G[c] + SumFunctionOnSet(G, OwnLibs(u) \ {c}) /\ S \in Int
    BY <1>5, <1>9, SumPick
<1>12. /\ IsFiniteSet(OwnLibs(u) \ {c})
       /\ SumFunctionOnSet(F, OwnLibs(u) \ {c}) \in Int
       /\ SumFunctionOnSet(F, OwnLibs(u) \ {c}) = SumFunctionOnSet(G, OwnLibs(u) \ {c})
    <2>1. IsFiniteSet(OwnLibs(u) \ {c})
        BY <1>5, FS_Subset
    <2> QED
        BY <1>9, <2>1, SumPick, SumSame
<1> HIDE DEF S
<1>13. S <= Used(u) + SizeOf[f]
    BY <1>5, <1>6, <1>8, <1>9, <1>10, <1>11, <1>12
<1>14. ASSUME put[r].settled
       PROVE  Quota[u] = INFINITE_QUOTA \/ Used(u) + SizeOf[f] < Quota[u]
    <2>1. Fits(put[r])
        BY <1>1, <1>14 DEF QuotaInv
    <2> QED
        BY <1>2, <2>1 DEF Fits, c, u
<1>15. ~over'
    <2>1. ~over
        BY DEF QuotaInv
    <2>2. ASSUME put[r].settled, Quota[u] # INFINITE_QUOTA
          PROVE  ~(S >= Quota[u])
        BY <1>5, <1>6, <1>11, <1>13, <1>14, <2>2
    <2> QED
        BY <1>3, <2>1, <2>2
<1> QED
    BY <1>4, <1>15, QuotaUnsettled

LEMMA QuotaDelete ==
    ASSUME SizesInv, QuotaInv, NEW r \in Requests, NEW l, NEW n, Delete(r, l, n)
    PROVE  QuotaInv'
<1>1. /\ put' = [Unsettled(put) EXCEPT ![r] = [pc |-> "schedule", lib |-> l]]
      /\ UNCHANGED over
    BY DEF Delete
<1>2. Unsettled(put) \in [Requests -> Puts]
    BY UnsettledType DEF SizesInv
<1>3. \A q \in Requests : put'[q].pc = "checked" => ~put'[q].settled
    BY <1>1, <1>2, UnsettledType DEF SizesInv
<1> QED
    BY <1>1, <1>3, QuotaUnsettled DEF QuotaInv

LEMMA QuotaRename ==
    ASSUME SizesInv, QuotaInv, NEW l, NEW n, NEW m, Rename(l, n, m)
    PROVE  QuotaInv'
<1>1. put' = Unsettled(put) /\ UNCHANGED over
    BY DEF Rename
<1>2. \A q \in Requests : put'[q].pc = "checked" => ~put'[q].settled
    BY <1>1, UnsettledType DEF SizesInv
<1> QED
    BY <1>1, <1>2, QuotaUnsettled DEF QuotaInv

\* A merge changes nothing when the shared directories are in step; otherwise no upload counts as
\* settled.
LEMMA QuotaMerge ==
    ASSUME SizesAssumption, SizesInv, QuotaInv, NEW v \in merging, Merge(v)
    PROVE  QuotaInv'
<1>1. UNCHANGED <<put, over>>
    BY DEF Merge
<1>2. CASE \A x \in Libs : Virtual(x) => InStep(x)
    <2>1. v \in Libs /\ Virtual(v) /\ Origin[v] \in Libs
        BY MergeTypes
    <2>2. Content(v) = On(Content(Origin[v]), Sub)
        BY <1>2, <2>1 DEF InStep
    <2>3. \A n \in Sub : Content(Origin[v])[n] = Content(v)[n]
        BY <2>2 DEF On
    <2>4. Content(v) \in Tree(Sub)
        BY <2>1, ContentType DEF SizesInv, DomOf
    <2>5. Merged(v) = Content(v)
        BY <2>3, <2>4 DEF Merged, Tree
    <2>6. Content(Origin[v]) \in Tree(DomOf(Origin[v]))
        BY <2>1, ContentType DEF SizesInv
    <2>7. Into(v) = Content(Origin[v])
        BY <2>3, <2>5, <2>6 DEF Into, Tree
    <2>8. \A l \in Libs : Content(l)' = Content(l)
        BY <2>5, <2>7, MergeResult
    <2> QED
        BY <1>1, <2>8, QuotaStays
<1>3. CASE ~\A x \in Libs : Virtual(x) => InStep(x)
    <2>1. \A q \in Requests : put'[q].pc = "checked" => ~put'[q].settled
        BY <1>1, <1>3 DEF QuotaInv
    <2> QED
        BY <1>1, <2>1, QuotaUnsettled DEF QuotaInv
<1> QED
    BY <1>2, <1>3

\* The jobs, and the ends of uploads
LEMMA QuotaJobs ==
    ASSUME SizesAssumption, SizesInv, QuotaInv, UNCHANGED <<trees, tip, over>>,
           \A r \in Requests : put'[r] = put[r] \/ put'[r].pc # "checked"
    PROVE  QuotaInv'
<1>1. \A l \in Libs : Content(l)' = Content(l)
    BY DEF Content
<1> QED
    BY <1>1, QuotaStays

LEMMA QuotaStep == SizesAssumption /\ SizesInv /\ QuotaInv /\ [Next]_vars => QuotaInv'
<1> SUFFICES ASSUME SizesAssumption, SizesInv, QuotaInv, [Next]_vars PROVE QuotaInv'
    OBVIOUS
<1>1. ASSUME NEW w \in 1..threads, Take(w) \/ ReadRow(w) \/ WriteRow(w) \/ JobFails(w)
      PROVE  QuotaInv'
    <2>1. UNCHANGED <<trees, tip, over, put>>
        BY <1>1 DEF Take, ReadRow, WriteRow, JobFails, libraries
    <2> QED
        BY <2>1, QuotaJobs
<1>2. CASE Restart
    <2>1. UNCHANGED <<trees, tip, over>> /\ \A r \in Requests : put'[r].pc # "checked"
        BY <1>2 DEF Restart, Idle
    <2> QED
        BY <2>1, QuotaJobs
<1>3. ASSUME NEW r \in Requests, NEW l \in Libs, NEW n \in Names,
             NEW by \in {"web", "blocks", "sync"}, NEW f \in FileIds, CheckQuota(r, by, l, n, f)
      PROVE  QuotaInv'
    BY <1>3, QuotaCheckQuota
<1>4. ASSUME NEW r \in Requests, NEW l \in Libs, NEW n \in Names, Delete(r, l, n)
      PROVE  QuotaInv'
    BY <1>4, QuotaDelete
<1>5. ASSUME NEW r \in Requests, PutFile(r)
      PROVE  QuotaInv'
    BY <1>5, QuotaPutFile
<1>6. ASSUME NEW r \in Requests, PutFails(r) \/ ScheduleSize(r)
      PROVE  QuotaInv'
    <2>1. UNCHANGED <<trees, tip, over>> /\ put' = [put EXCEPT ![r] = Idle]
        BY <1>6 DEF PutFails, ScheduleSize, libraries
    <2>2. \A q \in Requests : put'[q] = put[q] \/ put'[q].pc # "checked"
        BY <2>1 DEF Idle, SizesInv, PutsOK
    <2> QED
        BY <2>1, <2>2, QuotaJobs
<1>7. ASSUME NEW l \in Libs, NEW n \in Names, NEW m \in Names, Rename(l, n, m)
      PROVE  QuotaInv'
    BY <1>7, QuotaRename
<1>8. ASSUME NEW v \in merging, Merge(v)
      PROVE  QuotaInv'
    BY <1>8, QuotaMerge
<1>9. CASE UNCHANGED vars
    <2>1. UNCHANGED <<trees, tip, over, put>>
        BY <1>9 DEF vars, libraries
    <2> QED
        BY <2>1, QuotaJobs
<1> QED
    BY <1>1, <1>2, <1>3, <1>4, <1>5, <1>6, <1>7, <1>8, <1>9 DEF Next

\* An upload that was checked when all sizes were known, and under which nothing has changed, never
\* takes the user charged for it to the quota, whatever merges, jobs and other requests do meanwhile
\* (seaf_quota_manager_check_quota_with_delta).
THEOREM UploadsKeepQuota == ASSUME SizesAssumption PROVE Spec => []QuotaHolds
<1>1. Init => SizesInv /\ QuotaInv
    <2>1. Init => QuotaInv
        BY DEF Init, QuotaInv, Idle
    <2> QED
        BY <2>1, SizesStart
<1>2. SizesInv /\ QuotaInv /\ [Next]_vars => (SizesInv /\ QuotaInv)'
    BY SizesStep, QuotaStep
<1>3. QuotaInv => QuotaHolds
    BY DEF QuotaInv, QuotaHolds
<1> QED
    BY <1>1, <1>2, <1>3, PTL DEF Spec
=============================================================================
