------------------------------ MODULE FoldProofs ------------------------------
(***************************************************************************)
(* Of induction, folds and sums: what the proofs about Things and about    *)
(* Magic need of the folds that their loops are written with.              *)
(***************************************************************************)
EXTENDS Integers, Sequences, FiniteSetsExt, WellFoundedInduction, FiniteSetTheorems, TLAPS


(***************************************************************************)
(* Induction, as a fact about sets: over the numbers and over the subsets  *)
(* of a finite set.                                                        *)
(***************************************************************************)
\* A set of numbers has a least one.
LEMMA LeastNumber ==
    ASSUME NEW N \in SUBSET Nat, N # {}
    PROVE  \E n \in N : \A m \in N : n <= m
<1> DEFINE R == {ss \in Nat \X Nat : ss[1] < ss[2]}
<1>1. IsWellFoundedOn(R, Nat)
    BY NatLessThanWellFounded DEF OpToRel
<1> HIDE DEF R
<1>2. PICK n \in N : \A m \in N : ~(<<m, n>> \in R)
    BY <1>1, WFMin
<1>3. \A m \in N : ~(m < n)
    BY <1>2 DEF R
<1> QED
    BY <1>3

\* What holds of 0, and of each number's successor, holds of them all.
LEMMA NumbersUp ==
    ASSUME NEW N, 0 \in N, \A n \in Nat : n \in N => n + 1 \in N
    PROVE  Nat \subseteq N
<1> SUFFICES ASSUME Nat \ N # {}
             PROVE  FALSE
    OBVIOUS
<1>1. PICK n \in Nat \ N : \A m \in Nat \ N : n <= m
    BY LeastNumber
<1>2. n # 0 /\ n - 1 \in Nat /\ (n - 1) + 1 = n
    BY <1>1
<1> QED
    BY <1>1, <1>2

\* What holds of a finite set's subset when it holds of that without any one of its
\* members holds of them all.
LEMMA SubsetsUp ==
    ASSUME NEW S, IsFiniteSet(S), NEW T, {} \in T,
           \A s \in SUBSET S : s # {} /\ (\A x \in s : s \ {x} \in T) => s \in T
    PROVE  SUBSET S \subseteq T
<1> DEFINE N == {n \in Nat : \A s \in SUBSET S : Cardinality(s) = n => s \in T}
<1>1. \A s \in SUBSET S : IsFiniteSet(s) /\ Cardinality(s) \in Nat
    BY FS_Subset, FS_CardinalityType
<1>2. 0 \in N
    BY <1>1, FS_EmptySet
<1>3. ASSUME NEW n \in Nat, n \in N
      PROVE  n + 1 \in N
    <2> SUFFICES ASSUME NEW s \in SUBSET S, Cardinality(s) = n + 1
                 PROVE  s \in T
        OBVIOUS
    <2>1. s # {}
        BY <1>1, FS_EmptySet
    <2>2. \A x \in s : Cardinality(s \ {x}) = n
        <3> SUFFICES ASSUME NEW x \in s
                     PROVE  Cardinality(s \ {x}) = n
            OBVIOUS
        <3>1. Cardinality(s \ {x}) = Cardinality(s) - 1
            BY <1>1, FS_RemoveElement
        <3> QED
            BY <3>1
    <2>3. \A x \in s : s \ {x} \in T
        BY <1>3, <2>2
    <2> QED
        BY <2>1, <2>3
<1> HIDE DEF N
<1>4. Nat \subseteq N
    BY <1>2, <1>3, NumbersUp
<1> QED
    BY <1>1, <1>4 DEF N

-----------------------------------------------------------------------------
(***************************************************************************)
(* Folds over finite sets, and sums.                                       *)
(***************************************************************************)
Pick(s) == CHOOSE x \in s : TRUE

\* What a fold computes is well defined, whichever member of a set at says is next.
FoldedBy(iter, S, at, b, G) ==
    iter = [s \in SUBSET S |-> IF s = {} THEN b ELSE G[<<at[s], iter[s \ {at[s]}]>>]]

Folded(iter, S, b, G) ==
    iter = [s \in SUBSET S |-> IF s = {} THEN b ELSE G[<<Pick(s), iter[s \ {Pick(s)}]>>]]

\* A fold over a finite set computes something.
LEMMA FoldDefinedBy ==
    ASSUME NEW S, IsFiniteSet(S), NEW at, \A s \in SUBSET S : s # {} => at[s] \in s, NEW b, NEW G
    PROVE  \E iter : FoldedBy(iter, S, at, b, G)
<1> DEFINE Small(n) == {s \in SUBSET S : Cardinality(s) <= n}
           Is(f, n) == f = [s \in Small(n) |-> IF s = {} THEN b ELSE G[<<at[s], f[s \ {at[s]}]>>]]
           N == {n \in Nat : \E f : Is(f, n)}
<1>1. \A s \in SUBSET S : IsFiniteSet(s) /\ Cardinality(s) \in Nat /\ (Cardinality(s) = 0 <=> s = {})
    BY FS_Subset, FS_CardinalityType, FS_EmptySet
<1>2. ASSUME NEW s \in SUBSET S, s # {}
      PROVE  s \ {at[s]} \in SUBSET S /\ Cardinality(s \ {at[s]}) = Cardinality(s) - 1
    <2>1. at[s] \in s
        BY <1>2
    <2> QED
        BY <1>1, <2>1, FS_RemoveElement
<1>3. 0 \in N
    <2>1. \A s \in Small(0) : s = {}
        BY <1>1
    <2>2. Is([s \in Small(0) |-> b], 0)
        BY <2>1
    <2> QED
        BY <2>2
<1>4. ASSUME NEW n \in Nat, n \in N
      PROVE  n + 1 \in N
    <2>1. PICK f : Is(f, n)
        BY <1>4
    <2> DEFINE g == [s \in Small(n + 1) |-> IF s = {} THEN b ELSE G[<<at[s], f[s \ {at[s]}]>>]]
    <2>2. /\ \A s \in Small(n + 1) : g[s] = IF s = {} THEN b ELSE G[<<at[s], f[s \ {at[s]}]>>]
          /\ DOMAIN g = Small(n + 1) /\ g = [s \in DOMAIN g |-> g[s]]
        OBVIOUS
    <2>3. \A s \in Small(n) : f[s] = IF s = {} THEN b ELSE G[<<at[s], f[s \ {at[s]}]>>]
        BY <2>1
    <2>4. \A s \in Small(n) : s \in Small(n + 1)
        BY <1>1
    <2> HIDE DEF g
    <2>5. \A s \in Small(n) : g[s] = f[s]
        <3> SUFFICES ASSUME NEW s \in Small(n)
                     PROVE  g[s] = f[s]
            OBVIOUS
        <3>1. s \in Small(n + 1)
            BY <2>4
        <3> HIDE DEF Small
        <3> QED
            BY <2>2, <2>3, <3>1
    <2>6. \A s \in Small(n + 1) : s # {} => s \ {at[s]} \in Small(n)
        BY <1>1, <1>2
    <2>7. \A s \in Small(n + 1) : g[s] = IF s = {} THEN b ELSE G[<<at[s], g[s \ {at[s]}]>>]
        <3> HIDE DEF Small
        <3> QED
            BY <2>2, <2>5, <2>6
    <2>8. Is(g, n + 1)
        <3> HIDE DEF Small
        <3> QED
            BY <2>2, <2>7
    <2> HIDE DEF Is
    <2> QED
        BY <2>8
<1> HIDE DEF N
<1>5. Cardinality(S) \in N
    BY <1>1, <1>3, <1>4, NumbersUp
<1>6. PICK f : Is(f, Cardinality(S))
    BY <1>5 DEF N
<1>7. Small(Cardinality(S)) = SUBSET S
    BY FS_Subset
<1> QED
    BY <1>6, <1>7 DEF FoldedBy

\* And so one that takes any.
LEMMA FoldDefined ==
    ASSUME NEW S, IsFiniteSet(S), NEW b, NEW G
    PROVE  \E iter : Folded(iter, S, b, G)
<1> DEFINE at == [s \in SUBSET S |-> Pick(s)]
<1>1. \A s \in SUBSET S : at[s] = Pick(s)
    OBVIOUS
<1>2. \A s \in SUBSET S : s # {} => at[s] \in s
    BY DEF Pick
<1> HIDE DEF at
<1>3. PICK iter : FoldedBy(iter, S, at, b, G)
    BY <1>2, FoldDefinedBy
<1>4. Folded(iter, S, b, G)
    BY <1>1, <1>3 DEF FoldedBy, Folded
<1> QED
    BY <1>4

-----------------------------------------------------------------------------
Total(f, S) == MapThenSumSet(LAMBDA x : f[x], S)

Iter(f, S) ==
    CHOOSE iter : iter = [s \in SUBSET S |-> IF s = {} THEN 0 ELSE f[Pick(s)] + iter[s \ {Pick(s)}]]

\* A sum is where its fold ends.
LEMMA TotalIter ==
    ASSUME NEW f, NEW S
    PROVE  Total(f, S) = Iter(f, S)[S]
    BY DEF Total, Iter, Pick, MapThenSumSet, MapThenFoldSet

\* The fold of a sum, at each subset.
LEMMA IterIs ==
    ASSUME NEW S, IsFiniteSet(S), NEW f, \A x \in S : f[x] \in Int
    PROVE  /\ \A s \in SUBSET S : Iter(f, S)[s] \in Int
           /\ Iter(f, S)[{}] = 0
           /\ \A s \in SUBSET S : s # {} => Iter(f, S)[s] = f[Pick(s)] + Iter(f, S)[s \ {Pick(s)}]
<1> DEFINE G == [p \in S \X Int |-> f[p[1]] + p[2]]
           Sum(h) == h = [s \in SUBSET S |-> IF s = {} THEN 0 ELSE f[Pick(s)] + h[s \ {Pick(s)}]]
<1>1. PICK g : Folded(g, S, 0, G)
    <2> HIDE DEF G
    <2> QED
        BY FoldDefined
<1>2. \A s \in SUBSET S : g[s] = IF s = {} THEN 0 ELSE G[<<Pick(s), g[s \ {Pick(s)}]>>]
    BY <1>1 DEF Folded
<1>3. \A s \in SUBSET S : s # {} => Pick(s) \in s /\ Pick(s) \in S /\ s \ {Pick(s)} \in SUBSET S
    BY DEF Pick
<1>4. ASSUME NEW s \in SUBSET S, s # {}, g[s \ {Pick(s)}] \in Int
      PROVE  g[s] = f[Pick(s)] + g[s \ {Pick(s)}]
    BY <1>2, <1>3, <1>4
<1> HIDE DEF G
<1>5. SUBSET S \subseteq {s \in SUBSET S : g[s] \in Int}
    <2> DEFINE T == {s \in SUBSET S : g[s] \in Int}
    <2>1. {} \in T
        <3>1. {} \in SUBSET S
            OBVIOUS
        <3>2. g[{}] = 0
            BY <1>2, <3>1
        <3> QED
            BY <3>1, <3>2
    <2>2. ASSUME NEW s \in SUBSET S, s # {}, \A x \in s : s \ {x} \in T
          PROVE  s \in T
        <3>1. g[s \ {Pick(s)}] \in Int
            BY <1>3, <2>2
        <3> QED
            BY <1>3, <1>4, <2>2, <3>1
    <2> HIDE DEF T
    <2>3. SUBSET S \subseteq T
        BY <2>1, <2>2, SubsetsUp
    <2> QED
        BY <2>3 DEF T
<1>6. \A s \in SUBSET S : g[s] = IF s = {} THEN 0 ELSE f[Pick(s)] + g[s \ {Pick(s)}]
    BY <1>2, <1>3, <1>4, <1>5
<1>7. Sum(g)
    <2>1. g = [s \in SUBSET S |-> g[s]]
        BY <1>1 DEF Folded
    <2> QED
        BY <1>6, <2>1
<1>8. Sum(Iter(f, S))
    BY <1>7 DEF Iter
<1> DEFINE i == Iter(f, S)
<1>9. \A s \in SUBSET S : i[s] = IF s = {} THEN 0 ELSE f[Pick(s)] + i[s \ {Pick(s)}]
    <2>1. i = [s \in SUBSET S |-> IF s = {} THEN 0 ELSE f[Pick(s)] + i[s \ {Pick(s)}]]
        BY <1>8
    <2> HIDE DEF i
    <2> QED
        BY <2>1
<1> HIDE DEF i
<1>10. SUBSET S \subseteq {s \in SUBSET S : i[s] \in Int}
    <2> DEFINE T == {s \in SUBSET S : i[s] \in Int}
    <2>1. {} \in T
        BY <1>9
    <2>2. ASSUME NEW s \in SUBSET S, s # {}, \A x \in s : s \ {x} \in T
          PROVE  s \in T
        <3>1. i[s \ {Pick(s)}] \in Int /\ f[Pick(s)] \in Int
            BY <1>3, <2>2
        <3> QED
            BY <1>9, <2>2, <3>1
    <2> HIDE DEF T
    <2>3. SUBSET S \subseteq T
        BY <2>1, <2>2, SubsetsUp
    <2> QED
        BY <2>3 DEF T
<1> QED
    BY <1>9, <1>10 DEF i

\* The sum over part of a set is that part of the sum.
LEMMA IterPart ==
    ASSUME NEW S, IsFiniteSet(S), NEW f, \A x \in S : f[x] \in Int, NEW t \in SUBSET S
    PROVE  Total(f, t) = Iter(f, S)[t]
<1> DEFINE T == {s \in SUBSET t : Iter(f, t)[s] = Iter(f, S)[s]}
<1>1. IsFiniteSet(t) /\ \A x \in t : f[x] \in Int
    BY FS_Subset
<1>2. {} \in T
    BY <1>1, IterIs
<1>3. ASSUME NEW s \in SUBSET t, s # {}, \A x \in s : s \ {x} \in T
      PROVE  s \in T
    <2>1. Pick(s) \in s
        BY <1>3 DEF Pick
    <2>2. Iter(f, t)[s] = f[Pick(s)] + Iter(f, t)[s \ {Pick(s)}]
        BY <1>1, <1>3, IterIs
    <2>3. Iter(f, S)[s] = f[Pick(s)] + Iter(f, S)[s \ {Pick(s)}]
        BY <1>3, IterIs
    <2> QED
        BY <1>3, <2>1, <2>2, <2>3
<1> HIDE DEF T
<1>4. SUBSET t \subseteq T
    BY <1>1, <1>2, <1>3, SubsetsUp
<1> QED
    BY <1>4, TotalIter DEF T

\* A sum is that of all but one, and the one.
LEMMA TotalPick ==
    ASSUME NEW S, IsFiniteSet(S), NEW f, \A x \in S : f[x] \in Int
    PROVE  /\ Total(f, {}) = 0
           /\ \A s \in SUBSET S : Total(f, s) \in Int
           /\ \A s \in SUBSET S : s # {} => Total(f, s) = f[Pick(s)] + Total(f, s \ {Pick(s)})
<1>1. \A s \in SUBSET S : Total(f, s) = Iter(f, S)[s]
    BY IterPart
<1>2. Total(f, {}) = 0 /\ \A s \in SUBSET S : Total(f, s) \in Int
    BY <1>1, IterIs
<1>3. ASSUME NEW s \in SUBSET S, s # {}
      PROVE  Total(f, s) = f[Pick(s)] + Total(f, s \ {Pick(s)})
    <2>1. s \ {Pick(s)} \in SUBSET S
        OBVIOUS
    <2>2. Iter(f, S)[s] = f[Pick(s)] + Iter(f, S)[s \ {Pick(s)}]
        BY <1>3, IterIs
    <2>3. Total(f, s) = Iter(f, S)[s] /\ Total(f, s \ {Pick(s)}) = Iter(f, S)[s \ {Pick(s)}]
        BY <1>1, <2>1
    <2> QED
        BY <2>2, <2>3
<1> QED
    BY <1>2, <1>3

\* Any one may be the last to be counted.
LEMMA TotalLess ==
    ASSUME NEW S, IsFiniteSet(S), NEW f, \A x \in S : f[x] \in Int
    PROVE  \A s \in SUBSET S : \A x \in s : Total(f, s) = f[x] + Total(f, s \ {x})
<1> DEFINE T == {s \in SUBSET S : \A x \in s : Total(f, s) = f[x] + Total(f, s \ {x})}
<1>1. {} \in T
    OBVIOUS
<1>2. ASSUME NEW s \in SUBSET S, s # {}, \A x \in s : s \ {x} \in T
      PROVE  s \in T
    <2> SUFFICES ASSUME NEW x \in s
                 PROVE  Total(f, s) = f[x] + Total(f, s \ {x})
        OBVIOUS
    <2> DEFINE p == Pick(s)
    <2>1. p \in s
        BY <1>2 DEF Pick
    <2>2. Total(f, s) = f[p] + Total(f, s \ {p})
        BY <1>2, TotalPick
    <2> HIDE DEF p
    <2>3. CASE x = p
        BY <2>2, <2>3
    <2>4. CASE x # p
        <3>1. s \ {p} \in T /\ s \ {x} \in T /\ x \in s \ {p} /\ p \in s \ {x}
            BY <1>2, <2>1, <2>4
        <3>2. Total(f, s \ {p}) = f[x] + Total(f, (s \ {p}) \ {x})
            BY <3>1
        <3>3. Total(f, s \ {x}) = f[p] + Total(f, (s \ {x}) \ {p})
            BY <3>1
        <3>4. (s \ {p}) \ {x} = (s \ {x}) \ {p}
            OBVIOUS
        <3>5. Total(f, (s \ {x}) \ {p}) \in Int /\ f[x] \in Int /\ f[p] \in Int
            BY <2>1, TotalPick
        <3> HIDE DEF T
        <3> DEFINE fx == f[x]
                   fp == f[p]
                   all == Total(f, s)
                   notp == Total(f, s \ {p})
                   notx == Total(f, s \ {x})
                   rest == Total(f, (s \ {x}) \ {p})
        <3>6. all = fp + notp /\ notp = fx + rest /\ notx = fp + rest /\ rest \in Int /\ fx \in Int /\ fp \in Int
            BY <2>2, <3>2, <3>3, <3>4, <3>5
        <3> HIDE DEF fx, fp, all, notp, notx, rest
        <3>7. all = fx + notx
            BY <3>6
        <3> QED
            BY <3>7 DEF fx, all, notx
    <2> QED
        BY <2>3, <2>4
<1> HIDE DEF T
<1>3. SUBSET S \subseteq T
    BY <1>1, <1>2, SubsetsUp
<1> QED
    BY <1>3 DEF T

\* A sum is that of all but any one, and that one.
LEMMA TotalIs ==
    ASSUME NEW S, IsFiniteSet(S), NEW f, \A x \in S : f[x] \in Int
    PROVE  /\ Total(f, {}) = 0
           /\ \A s \in SUBSET S : Total(f, s) \in Int
           /\ \A s \in SUBSET S : \A x \in s : Total(f, s) = f[x] + Total(f, s \ {x})
           /\ \A s \in SUBSET S : \A x \in s : f[x] \in Int /\ Total(f, s \ {x}) \in Int
    BY TotalPick, TotalLess

\* So for the whole of it.
LEMMA TotalOut ==
    ASSUME NEW S, IsFiniteSet(S), NEW f, \A x \in S : f[x] \in Int, NEW a \in S
    PROVE  Total(f, S) = f[a] + Total(f, S \ {a}) /\ Total(f, S) \in Int /\ Total(f, S \ {a}) \in Int
<1>1. S \in SUBSET S /\ S \ {a} \in SUBSET S
    OBVIOUS
<1> QED
    BY <1>1, TotalIs

\* A sum depends on its summands only.
LEMMA TotalAgree ==
    ASSUME NEW S, IsFiniteSet(S), NEW f, NEW g, \A x \in S : f[x] \in Int /\ g[x] = f[x]
    PROVE  Total(g, S) = Total(f, S)
<1> DEFINE T == {s \in SUBSET S : Total(g, s) = Total(f, s)}
<1>f. Total(f, {}) = 0 /\ \A s \in SUBSET S : \A x \in s : Total(f, s) = f[x] + Total(f, s \ {x})
    BY TotalIs
<1>g. Total(g, {}) = 0 /\ \A s \in SUBSET S : \A x \in s : Total(g, s) = g[x] + Total(g, s \ {x})
    <2>1. \A x \in S : g[x] \in Int
        OBVIOUS
    <2> QED
        BY ONLY <2>1, IsFiniteSet(S), TotalIs
<1>1. {} \in T
    BY <1>f, <1>g
<1>2. ASSUME NEW s \in SUBSET S, s # {}, \A x \in s : s \ {x} \in T
      PROVE  s \in T
    <2>1. PICK x \in s : TRUE
        BY <1>2
    <2>2. Total(f, s) = f[x] + Total(f, s \ {x})
        BY <2>1, <1>f
    <2>3. Total(g, s) = g[x] + Total(g, s \ {x})
        BY <2>1, <1>g
    <2> QED
        BY <1>2, <2>1, <2>2, <2>3
<1> HIDE DEF T
<1>3. SUBSET S \subseteq T
    BY <1>1, <1>2, SubsetsUp
<1> QED
    BY <1>3 DEF T

\* The sum of sums.
LEMMA TotalPlus ==
    ASSUME NEW S, IsFiniteSet(S), NEW f, NEW d, NEW g,
           \A x \in S : f[x] \in Int /\ d[x] \in Int /\ g[x] = f[x] + d[x]
    PROVE  Total(g, S) = Total(f, S) + Total(d, S)
<1> DEFINE T == {s \in SUBSET S : Total(g, s) = Total(f, s) + Total(d, s)}
<1>0. /\ \A x \in S : f[x] \in Int
      /\ \A x \in S : d[x] \in Int
      /\ \A x \in S : g[x] \in Int
    OBVIOUS
<1>1. {} \in T
    <2>1. Total(f, {}) = 0 /\ Total(g, {}) = 0 /\ Total(d, {}) = 0
        BY <1>0, TotalIs
    <2> QED
        BY <2>1
<1>2. ASSUME NEW s \in SUBSET S, s # {}, \A x \in s : s \ {x} \in T
      PROVE  s \in T
    <2>1. PICK x \in s : TRUE
        BY <1>2
    <2>2. Total(f, s) = f[x] + Total(f, s \ {x}) /\ Total(f, s \ {x}) \in Int
        BY <1>0, <2>1, TotalIs
    <2>3. Total(g, s) = g[x] + Total(g, s \ {x}) /\ Total(g, s \ {x}) \in Int
        BY <1>0, <2>1, TotalIs
    <2>4. Total(d, s) = d[x] + Total(d, s \ {x}) /\ Total(d, s \ {x}) \in Int
        BY <1>0, <2>1, TotalIs
    <2>5. Total(g, s \ {x}) = Total(f, s \ {x}) + Total(d, s \ {x})
        BY <1>2, <2>1
    <2>6. g[x] = f[x] + d[x] /\ f[x] \in Int /\ d[x] \in Int
        BY <2>1
    <2> HIDE DEF T
    <2>7. Total(g, s) = Total(f, s) + Total(d, s)
        BY <2>2, <2>3, <2>4, <2>5, <2>6
    <2> QED
        BY <2>7 DEF T
<1> HIDE DEF T
<1>3. SUBSET S \subseteq T
    BY <1>1, <1>2, SubsetsUp
<1> QED
    BY <1>3 DEF T

\* The sum of what is no less is no less.
LEMMA TotalUp ==
    ASSUME NEW S, IsFiniteSet(S), NEW f, NEW g, \A x \in S : f[x] \in Int /\ g[x] \in Int /\ f[x] <= g[x]
    PROVE  Total(f, S) <= Total(g, S)
<1> DEFINE T == {s \in SUBSET S : Total(f, s) <= Total(g, s)}
<1>0. /\ \A x \in S : f[x] \in Int
      /\ \A x \in S : g[x] \in Int
    OBVIOUS
<1>1. {} \in T
    <2>1. Total(f, {}) = 0 /\ Total(g, {}) = 0
        BY <1>0, TotalIs
    <2> QED
        BY <2>1
<1>2. ASSUME NEW s \in SUBSET S, s # {}, \A x \in s : s \ {x} \in T
      PROVE  s \in T
    <2>1. PICK x \in s : TRUE
        BY <1>2
    <2>2. Total(f, s) = f[x] + Total(f, s \ {x}) /\ Total(f, s \ {x}) \in Int
        BY <1>0, <2>1, TotalIs
    <2>3. Total(g, s) = g[x] + Total(g, s \ {x}) /\ Total(g, s \ {x}) \in Int
        BY <1>0, <2>1, TotalIs
    <2>5. Total(f, s \ {x}) <= Total(g, s \ {x})
        BY <1>2, <2>1
    <2>6. f[x] <= g[x] /\ f[x] \in Int /\ g[x] \in Int
        BY <2>1
    <2> HIDE DEF T
    <2>7. Total(f, s) <= Total(g, s)
        BY <2>2, <2>3, <2>5, <2>6
    <2> QED
        BY <2>7 DEF T
<1> HIDE DEF T
<1>3. SUBSET S \subseteq T
    BY <1>1, <1>2, SubsetsUp
<1> QED
    BY <1>3 DEF T

\* What the members of H have alike, and nobody else.
Shared(f, S, H, k) == \A x \in S : f[x] = IF x \in H THEN k ELSE 0

\* Where some have k each and the others nothing, the sum is k times as many.
LEMMA TotalShares ==
    ASSUME NEW S, IsFiniteSet(S), NEW H, NEW k \in Int, NEW f, Shared(f, S, H, k)
    PROVE  Total(f, S) = Cardinality(S \cap H) * k
<1> DEFINE T == {s \in SUBSET S : Total(f, s) = Cardinality(s \cap H) * k}
<1>a. \A x \in S : f[x] = IF x \in H THEN k ELSE 0
    BY DEF Shared
<1>0. \A x \in S : f[x] \in Int
    BY <1>a
<1>1. {} \in T
    <2>1. Total(f, {}) = 0 /\ {} \cap H = {} /\ Cardinality({}) = 0
        BY <1>0, TotalIs, FS_EmptySet
    <2> QED
        BY <2>1
<1>2. ASSUME NEW s \in SUBSET S, s # {}, \A x \in s : s \ {x} \in T
      PROVE  s \in T
    <2>1. PICK x \in s : TRUE
        BY <1>2
    <2>2. Total(f, s) = f[x] + Total(f, s \ {x}) /\ Total(f, s \ {x}) \in Int
        BY <1>0, <2>1, TotalIs
    <2>3. Total(f, s \ {x}) = Cardinality((s \ {x}) \cap H) * k
        BY <1>2, <2>1
    <2>4. IsFiniteSet(s \cap H) /\ Cardinality(s \cap H) \in Nat
        BY FS_Subset, FS_CardinalityType
    <2>5. CASE x \in H
        <3>1. (s \ {x}) \cap H = (s \cap H) \ {x} /\ x \in s \cap H
            BY <2>1, <2>5
        <3> DEFINE A == s \cap H
        <3>a. IsFiniteSet(A) /\ x \in A
            BY <2>4, <3>1
        <3> HIDE DEF A
        <3>b. Cardinality(A \ {x}) = Cardinality(A) - 1
            BY <3>a, FS_RemoveElement
        <3>2. Cardinality((s \ {x}) \cap H) = Cardinality(s \cap H) - 1
            BY <3>1, <3>b DEF A
        <3>3. f[x] = k
            BY <1>a, <2>1, <2>5
        <3> DEFINE n == Cardinality(s \cap H)
        <3>4. Total(f, s) = k + (n - 1) * k /\ n \in Int
            BY <2>2, <2>3, <2>4, <3>2, <3>3
        <3> HIDE DEF n, T
        <3>5. k + (n - 1) * k = n * k
            BY <3>4
        <3> QED
            BY <3>4, <3>5 DEF n, T
    <2>6. CASE x \notin H
        <3>1. (s \ {x}) \cap H = s \cap H
            BY <2>6
        <3>2. f[x] = 0
            BY <1>a, <2>1, <2>6
        <3>3. Total(f, s) = Total(f, s \ {x})
            BY <2>2, <3>2
        <3> QED
            BY <2>3, <3>1, <3>3
    <2> QED
        BY <2>5, <2>6
<1> HIDE DEF T
<1>3. SUBSET S \subseteq T
    BY <1>1, <1>2, SubsetsUp
<1> QED
    BY <1>3 DEF T

\* Only what is in H counts.
LEMMA TotalWithin ==
    ASSUME NEW S, IsFiniteSet(S), NEW H, NEW f, NEW g,
           \A x \in S : f[x] \in Int /\ g[x] = IF x \in H THEN f[x] ELSE 0
    PROVE  Total(g, S) = Total(f, S \cap H)
<1> DEFINE T == {s \in SUBSET S : Total(g, s) = Total(f, s \cap H)}
<1>0. (\A x \in S : f[x] \in Int) /\ (\A x \in S : g[x] \in Int)
    OBVIOUS
<1>1. {} \in T
    <2>1. Total(f, {}) = 0 /\ Total(g, {}) = 0 /\ {} \cap H = {}
        BY <1>0, TotalIs
    <2> QED
        BY <2>1
<1>2. ASSUME NEW s \in SUBSET S, s # {}, \A x \in s : s \ {x} \in T
      PROVE  s \in T
    <2>1. PICK x \in s : TRUE
        BY <1>2
    <2>2. Total(g, s) = g[x] + Total(g, s \ {x}) /\ Total(g, s \ {x}) \in Int
        BY <1>0, <2>1, TotalIs
    <2>3. Total(g, s \ {x}) = Total(f, (s \ {x}) \cap H)
        BY <1>2, <2>1
    <2>5. CASE x \in H
        <3>1. (s \ {x}) \cap H = (s \cap H) \ {x} /\ x \in s \cap H /\ s \cap H \in SUBSET S
            BY <2>1, <2>5
        <3>2. Total(f, s \cap H) = f[x] + Total(f, (s \cap H) \ {x})
            BY <1>0, <3>1, TotalIs
        <3>3. g[x] = f[x]
            BY <2>1, <2>5
        <3> QED
            BY <2>2, <2>3, <3>1, <3>2, <3>3
    <2>6. CASE x \notin H
        <3>1. (s \ {x}) \cap H = s \cap H
            BY <2>6
        <3>2. g[x] = 0
            BY <2>1, <2>6
        <3>3. Total(g, s) = Total(g, s \ {x})
            BY <2>2, <3>2
        <3> QED
            BY <2>3, <3>1, <3>3
    <2> QED
        BY <2>5, <2>6
<1> HIDE DEF T
<1>3. SUBSET S \subseteq T
    BY <1>1, <1>2, SubsetsUp
<1> QED
    BY <1>3 DEF T

\* One of the terms becomes another.
LEMMA TotalChanged ==
    ASSUME NEW S, IsFiniteSet(S), NEW f, \A x \in S : f[x] \in Int, NEW a \in S, NEW g,
           g[a] \in Int, \A x \in S : x # a => g[x] = f[x]
    PROVE  Total(g, S) = Total(f, S) - f[a] + g[a]
<1>1. \A x \in S : g[x] \in Int
    OBVIOUS
<1>2. Total(f, S) = f[a] + Total(f, S \ {a}) /\ Total(f, S \ {a}) \in Int
    BY TotalIs
<1>3. Total(g, S) = g[a] + Total(g, S \ {a})
    BY <1>1, TotalIs
<1>4. IsFiniteSet(S \ {a})
    BY FS_RemoveElement
<1>5. \A x \in S \ {a} : f[x] \in Int /\ g[x] = f[x]
    OBVIOUS
<1>6. Total(g, S \ {a}) = Total(f, S \ {a})
    BY <1>4, <1>5, TotalAgree
<1>7. f[a] \in Int
    OBVIOUS
<1> QED
    BY <1>2, <1>3, <1>6, <1>7

\* Two of them do.
LEMMA TotalChangedTwice ==
    ASSUME NEW S, IsFiniteSet(S), NEW f, \A x \in S : f[x] \in Int, NEW a \in S, NEW b \in S, a # b, NEW g,
           g[a] \in Int, g[b] \in Int, \A x \in S : x \notin {a, b} => g[x] = f[x]
    PROVE  Total(g, S) = Total(f, S) - f[a] - f[b] + g[a] + g[b]
<1> DEFINE h == [x \in S |-> IF x = a THEN g[a] ELSE f[x]]
<1>1. /\ h[a] = g[a] /\ h[b] = f[b]
      /\ \A x \in S : h[x] \in Int
      /\ \A x \in S : x # a => h[x] = f[x]
      /\ \A x \in S : x # b => g[x] = h[x]
    OBVIOUS
<1> HIDE DEF h
<1>2. Total(h, S) = Total(f, S) - f[a] + h[a]
    BY <1>1, TotalChanged
<1>3. Total(g, S) = Total(h, S) - h[b] + g[b]
    BY <1>1, TotalChanged
<1>4. Total(f, S) \in Int /\ f[a] \in Int /\ f[b] \in Int
    BY TotalIs
<1> QED
    BY <1>1, <1>2, <1>3, <1>4

\* A sum of what is not negative bounds its terms.
LEMMA TotalBounds ==
    ASSUME NEW S, IsFiniteSet(S), NEW f, \A x \in S : f[x] \in Int /\ f[x] >= 0
    PROVE  Total(f, S) >= 0 /\ \A x \in S : f[x] <= Total(f, S)
<1> DEFINE T == {s \in SUBSET S : Total(f, s) >= 0}
<1>a. {} \in T
    <2>1. Total(f, {}) = 0
        BY TotalIs
    <2> QED
        BY <2>1
<1>b. ASSUME NEW s \in SUBSET S, s # {}, \A x \in s : s \ {x} \in T
      PROVE  s \in T
    <2>1. PICK x \in s : TRUE
        BY <1>b
    <2>2. Total(f, s) = f[x] + Total(f, s \ {x}) /\ Total(f, s \ {x}) \in Int
        BY <2>1, TotalIs
    <2>3. Total(f, s \ {x}) >= 0 /\ f[x] \in Int /\ f[x] >= 0
        BY <1>b, <2>1
    <2> QED
        BY <2>2, <2>3
<1> HIDE DEF T
<1>c. SUBSET S \subseteq T
    BY <1>a, <1>b, SubsetsUp
<1>1. \A s \in SUBSET S : Total(f, s) >= 0
    BY <1>c DEF T
<1>2. ASSUME NEW x \in S
      PROVE  f[x] <= Total(f, S)
    <2>2. Total(f, S \ {x}) >= 0
        BY <1>1
    <2>3. Total(f, S) = f[x] + Total(f, S \ {x}) /\ Total(f, S \ {x}) \in Int /\ f[x] \in Int
        BY TotalIs
    <2> QED
        BY <2>2, <2>3
<1> QED
    BY <1>1, <1>2

-----------------------------------------------------------------------------
\* What holds of a fold: of R, all that has been folded so far.
LEMMA FoldKeeps ==
    ASSUME NEW S, IsFiniteSet(S), NEW b, NEW R, b \in R[{}], NEW G,
           \A s \in SUBSET S : s # {} => \A v \in R[s \ {Pick(s)}] : G[<<Pick(s), v>>] \in R[s]
    PROVE  \E iter : Folded(iter, S, b, G) /\ \A s \in SUBSET S : iter[s] \in R[s]
<1>1. PICK g : Folded(g, S, b, G)
    BY FoldDefined
<1>2. \A s \in SUBSET S : g[s] = IF s = {} THEN b ELSE G[<<Pick(s), g[s \ {Pick(s)}]>>]
    BY <1>1 DEF Folded
<1> DEFINE T == {s \in SUBSET S : g[s] \in R[s]}
<1>3. {} \in T
    <2>1. {} \in SUBSET S
        OBVIOUS
    <2>2. g[{}] = b
        BY <1>2, <2>1
    <2> QED
        BY <2>1, <2>2
<1>4. ASSUME NEW s \in SUBSET S, s # {}, \A x \in s : s \ {x} \in T
      PROVE  s \in T
    <2>1. Pick(s) \in s
        BY <1>4 DEF Pick
    <2>2. g[s \ {Pick(s)}] \in R[s \ {Pick(s)}]
        BY <1>4, <2>1
    <2>4. G[<<Pick(s), g[s \ {Pick(s)}]>>] \in R[s]
        BY <1>4, <2>2
    <2>5. g[s] = G[<<Pick(s), g[s \ {Pick(s)}]>>]
        BY <1>2, <1>4
    <2> QED
        BY <2>4, <2>5
<1> HIDE DEF T
<1>5. SUBSET S \subseteq T
    BY <1>3, <1>4, SubsetsUp
<1>6. \A s \in SUBSET S : g[s] \in R[s]
    BY <1>5 DEF T
<1> QED
    BY <1>1, <1>6

-----------------------------------------------------------------------------
(***************************************************************************)
(* Folds over sets, and along lists, whose values stay in a set D.         *)
(***************************************************************************)
\* With values of D, G gives values of D.
Within(G, S, D) == \A x \in S : \A v \in D : G[<<x, v>>] \in D

\* Such a fold computes something, each step of it with values of D.
LEMMA FoldExists ==
    ASSUME NEW S, IsFiniteSet(S), NEW D, NEW b \in D, NEW G, Within(G, S, D)
    PROVE  \E iter : Folded(iter, S, b, G) /\ \A s \in SUBSET S : iter[s] \in D
<1> DEFINE R == [s \in SUBSET S |-> D]
<1>1. b \in R[{}] /\ \A s \in SUBSET S : R[s] = D
    OBVIOUS
<1>2. \A s \in SUBSET S : s # {} => Pick(s) \in S /\ s \ {Pick(s)} \in SUBSET S
    BY DEF Pick
<1> HIDE DEF R
<1>3. \A s \in SUBSET S : s # {} => \A v \in R[s \ {Pick(s)}] : G[<<Pick(s), v>>] \in R[s]
    BY <1>1, <1>2 DEF Within
<1>4. PICK iter : Folded(iter, S, b, G) /\ \A s \in SUBSET S : iter[s] \in R[s]
    BY <1>1, <1>3, FoldKeeps
<1>5. \A s \in SUBSET S : iter[s] \in D
    BY <1>1, <1>4
<1> QED
    BY <1>4, <1>5

\* h folds as G says, as long as its values are of D.
Folds_(h, S, D, b, G) ==
    /\ h[{}] = b
    /\ \A s \in SUBSET S : s # {} /\ h[s \ {Pick(s)}] \in D => h[s] = G[<<Pick(s), h[s \ {Pick(s)}]>>]

\* Then it ends in D.
LEMMA FoldEnds ==
    ASSUME NEW S, IsFiniteSet(S), NEW D, NEW b \in D, NEW G, Within(G, S, D), NEW h, Folds_(h, S, D, b, G)
    PROVE  h[S] \in D
<1> DEFINE T == {s \in SUBSET S : h[s] \in D}
<1>1. {} \in T
    BY DEF Folds_
<1>2. ASSUME NEW s \in SUBSET S, s # {}, \A x \in s : s \ {x} \in T
      PROVE  s \in T
    <2>1. Pick(s) \in s
        BY <1>2 DEF Pick
    <2>2. h[s \ {Pick(s)}] \in D
        BY <1>2, <2>1
    <2>3. h[s] = G[<<Pick(s), h[s \ {Pick(s)}]>>]
        BY <1>2, <2>2 DEF Folds_
    <2> QED
        BY <2>1, <2>2, <2>3 DEF Within
<1> HIDE DEF T
<1>3. SUBSET S \subseteq T
    BY <1>1, <1>2, SubsetsUp
<1> QED
    BY <1>3 DEF T

\* The greatest of some of the first numbers.
LEMMA MaxOf ==
    ASSUME NEW n \in Nat
    PROVE  /\ \A s \in SUBSET (1 .. n) : s # {} => Max(s) \in s /\ \A x \in s : x <= Max(s)
           /\ \A i \in 1 .. n : Max(1 .. i) = i /\ (1 .. i) \ {i} = 1 .. (i - 1)
<1>1. ASSUME NEW s \in SUBSET (1 .. n), s # {}
      PROVE  Max(s) \in s /\ \A x \in s : x <= Max(s)
    <2> DEFINE N == {n - x : x \in s}
    <2>1. N \in SUBSET Nat /\ N # {}
        BY <1>1
    <2>2. PICK m \in N : \A k \in N : m <= k
        BY <2>1, LeastNumber
    <2>3. PICK x \in s : m = n - x
        BY <2>2
    <2>4. \A y \in s : x >= y
        BY <2>2, <2>3
    <2>5. Max(s) \in s /\ \A y \in s : Max(s) >= y
        BY <2>4 DEF Max
    <2> QED
        BY <2>5
<1>2. ASSUME NEW i \in 1 .. n
      PROVE  Max(1 .. i) = i /\ (1 .. i) \ {i} = 1 .. (i - 1)
    <2>1. 1 .. i \in SUBSET (1 .. n) /\ i \in 1 .. i
        OBVIOUS
    <2>2. Max(1 .. i) \in 1 .. i /\ i <= Max(1 .. i)
        BY <1>1, <2>1
    <2>3. Max(1 .. i) = i
        BY <2>2
    <2> QED
        BY <2>3
<1> QED
    BY <1>1, <1>2

\* A fold along the first n numbers takes the last first.
ListFolded(iter, n, b, G) ==
    iter = [s \in SUBSET (1 .. n) |-> IF s = {} THEN b ELSE G[<<Max(s), iter[s \ {Max(s)}]>>]]

LEMMA ListExists ==
    ASSUME NEW n \in Nat, NEW D, NEW b \in D, NEW G, Within(G, 1 .. n, D)
    PROVE  \E iter : ListFolded(iter, n, b, G) /\ \A s \in SUBSET (1 .. n) : iter[s] \in D
<1> DEFINE S == 1 .. n
           at == [s \in SUBSET S |-> Max(s)]
<1>0. IsFiniteSet(S)
    BY FS_Interval
<1>1. \A s \in SUBSET S : at[s] = Max(s)
    OBVIOUS
<1>2. \A s \in SUBSET S : s # {} => at[s] \in s
    BY MaxOf
<1> HIDE DEF at
<1>3. PICK g : FoldedBy(g, S, at, b, G)
    BY <1>0, <1>2, FoldDefinedBy
<1>4. g = [s \in SUBSET S |-> IF s = {} THEN b ELSE G[<<Max(s), g[s \ {Max(s)}]>>]]
    BY <1>1, <1>3 DEF FoldedBy
<1>5. \A s \in SUBSET S : g[s] = IF s = {} THEN b ELSE G[<<Max(s), g[s \ {Max(s)}]>>]
    BY <1>4
<1> DEFINE T == {s \in SUBSET S : g[s] \in D}
<1>6. {} \in T
    BY <1>5
<1>7. ASSUME NEW s \in SUBSET S, s # {}, \A x \in s : s \ {x} \in T
      PROVE  s \in T
    <2>1. Max(s) \in s
        BY <1>7, MaxOf
    <2>2. g[s \ {Max(s)}] \in D /\ Max(s) \in S
        BY <1>7, <2>1
    <2>3. g[s] = G[<<Max(s), g[s \ {Max(s)}]>>]
        BY <1>5, <1>7
    <2> QED
        BY <2>2, <2>3 DEF Within
<1> HIDE DEF T, S
<1>8. SUBSET S \subseteq T
    BY <1>0, <1>6, <1>7, SubsetsUp
<1>9. \A s \in SUBSET S : g[s] \in D
    BY <1>8 DEF T
<1> QED
    BY <1>4, <1>9 DEF S, ListFolded

\* h folds as G says, as long as its values are of D.
ListFolds(h, n, D, b, G) ==
    /\ h[{}] = b
    /\ \A s \in SUBSET (1 .. n) : s # {} /\ h[s \ {Max(s)}] \in D => h[s] = G[<<Max(s), h[s \ {Max(s)}]>>]

\* A walk from b of n steps, each as G says.
Walk_(r, n, D, b, G) ==
    r \in [0 .. n -> D] /\ r[0] = b /\ \A i \in 1 .. n : r[i] = G[<<i, r[i - 1]>>]

\* Such a fold walks along the numbers.
LEMMA ListWalks ==
    ASSUME NEW n \in Nat, NEW D, NEW b \in D, NEW G, Within(G, 1 .. n, D), NEW h, ListFolds(h, n, D, b, G)
    PROVE  \E r : Walk_(r, n, D, b, G) /\ r[n] = h[1 .. n]
<1> DEFINE N == {i \in Nat : i <= n => h[1 .. i] \in D}
<1>0. 1 .. 0 = {}
    OBVIOUS
<1>1. 0 \in N
    BY <1>0 DEF ListFolds
<1>2. ASSUME NEW i \in 1 .. n, h[1 .. (i - 1)] \in D
      PROVE  h[1 .. i] \in D /\ h[1 .. i] = G[<<i, h[1 .. (i - 1)]>>]
    <2>1. Max(1 .. i) = i /\ (1 .. i) \ {i} = 1 .. (i - 1)
        BY MaxOf
    <2>2. 1 .. i \in SUBSET (1 .. n) /\ 1 .. i # {}
        OBVIOUS
    <2>3. h[1 .. i] = G[<<i, h[1 .. (i - 1)]>>]
        BY <1>2, <2>1, <2>2 DEF ListFolds
    <2> QED
        BY <1>2, <2>3 DEF Within
<1>3. ASSUME NEW i \in Nat, i \in N
      PROVE  i + 1 \in N
    <2>1. CASE i + 1 <= n
        <3>1. PICK j \in 1 .. n : j = i + 1 /\ j - 1 = i
            BY <2>1
        <3>2. h[1 .. (j - 1)] \in D
            BY <1>3, <2>1, <3>1
        <3>3. h[1 .. j] \in D
            BY <1>2, <3>2
        <3> QED
            BY <3>1, <3>3
    <2>2. CASE ~(i + 1 <= n)
        BY <2>2
    <2> QED
        BY <2>1, <2>2
<1> HIDE DEF N
<1>4. Nat \subseteq N
    BY <1>1, <1>3, NumbersUp
<1>5. \A i \in 0 .. n : h[1 .. i] \in D
    BY <1>4 DEF N
<1> DEFINE r == [i \in 0 .. n |-> h[1 .. i]]
<1>6. r \in [0 .. n -> D] /\ r[0] = b /\ r[n] = h[1 .. n]
    BY <1>0, <1>5 DEF ListFolds
<1>7. ASSUME NEW i \in 1 .. n
      PROVE  r[i] = G[<<i, r[i - 1]>>]
    <2>1. i - 1 \in 0 .. n /\ i \in 0 .. n
        OBVIOUS
    <2>2. r[i] = h[1 .. i] /\ r[i - 1] = h[1 .. (i - 1)]
        BY <2>1
    <2> QED
        BY <1>2, <1>5, <2>1, <2>2
<1> HIDE DEF r
<1> QED
    BY <1>6, <1>7 DEF Walk_

LEMMA ListEnds ==
    ASSUME NEW n \in Nat, NEW D, NEW b \in D, NEW G, Within(G, 1 .. n, D), NEW h, ListFolds(h, n, D, b, G)
    PROVE  h[1 .. n] \in D
<1>1. PICK r : Walk_(r, n, D, b, G) /\ r[n] = h[1 .. n]
    BY ListWalks
<1> QED
    BY <1>1 DEF Walk_


\* What holds at the beginning of a walk, and after each step, holds at its end.
LEMMA WalkKeeps ==
    ASSUME NEW n \in Nat, NEW T, 0 \in T, \A i \in 1 .. n : i - 1 \in T => i \in T
    PROVE  0 .. n \subseteq T
<1> DEFINE N == {i \in Nat : i <= n => i \in T}
<1>1. 0 \in N
    OBVIOUS
<1>2. ASSUME NEW i \in Nat, i \in N
      PROVE  i + 1 \in N
    <2>1. CASE i + 1 <= n
        <3>1. i + 1 \in 1 .. n /\ (i + 1) - 1 = i /\ i \in T
            BY <1>2, <2>1
        <3> QED
            BY <3>1
    <2>2. CASE ~(i + 1 <= n)
        BY <2>2
    <2> QED
        BY <2>1, <2>2
<1> HIDE DEF N
<1>3. Nat \subseteq N
    BY <1>1, <1>2, NumbersUp
<1> QED
    BY <1>3 DEF N

\* The last of the terms of a sum.
LEMMA TotalLast ==
    ASSUME NEW n \in Nat, NEW f, \A i \in 1 .. n : f[i] \in Int
    PROVE  Total(f, 1 .. 0) = 0 /\ \A i \in 1 .. n : Total(f, 1 .. i) = f[i] + Total(f, 1 .. (i - 1))
<1>1. Total(f, {}) = 0 /\ 1 .. 0 = {}
    BY TotalIs, FS_EmptySet
<1>2. ASSUME NEW i \in 1 .. n
      PROVE  Total(f, 1 .. i) = f[i] + Total(f, 1 .. (i - 1))
    <2>1. IsFiniteSet(1 .. i)
        BY FS_Interval
    <2>2. i \in 1 .. i /\ (1 .. i) \ {i} = 1 .. (i - 1) /\ \A j \in 1 .. i : f[j] \in Int
        OBVIOUS
    <2> DEFINE S == 1 .. i
    <2>3. IsFiniteSet(S) /\ i \in S /\ \A j \in S : f[j] \in Int
        BY <2>1, <2>2
    <2> HIDE DEF S
    <2>4. Total(f, S) = f[i] + Total(f, S \ {i})
        BY <2>3, TotalOut
    <2> QED
        BY <2>2, <2>4 DEF S
<1> QED
    BY <1>1, <1>2

\* A sum does not depend on what its terms are called.
LEMMA TotalMoved ==
    ASSUME NEW S, IsFiniteSet(S), NEW T, IsFiniteSet(T), NEW f, NEW g, NEW m \in [S -> T],
           \A x \in S : \A y \in S : m[x] = m[y] => x = y,
           \A x \in S : f[x] = g[m[x]], \A y \in T : g[y] \in Int
    PROVE  Total(f, S) = Total(g, {m[x] : x \in S})
<1> DEFINE Of(s) == {m[x] : x \in s}
           Same == {s \in SUBSET S : Total(f, s) = Total(g, Of(s))}
<1>0. \A x \in S : f[x] \in Int
    OBVIOUS
<1>1. {} \in Same
    <2>1. Of({}) = {}
        OBVIOUS
    <2>2. Total(f, {}) = 0
        BY <1>0, TotalIs
    <2>3. Total(g, {}) = 0
        BY TotalIs
    <2> QED
        BY <2>1, <2>2, <2>3
<1>2. ASSUME NEW s \in SUBSET S, s # {}, \A x \in s : s \ {x} \in Same
      PROVE  s \in Same
    <2>1. PICK x \in s : TRUE
        BY <1>2
    <2>2. Total(f, s) = f[x] + Total(f, s \ {x})
        BY <1>0, <2>1, TotalIs
    <2>3. Of(s) \in SUBSET T /\ m[x] \in Of(s)
        BY <2>1
    <2>4. Of(s) \ {m[x]} = Of(s \ {x})
        BY <2>1
    <2>5. Total(g, Of(s)) = g[m[x]] + Total(g, Of(s) \ {m[x]})
        <3> HIDE DEF Of
        <3> QED
            BY <2>3, TotalIs
    <2>6. Total(f, s \ {x}) = Total(g, Of(s \ {x}))
        BY <1>2, <2>1
    <2>7. f[x] = g[m[x]]
        BY <2>1
    <2> QED
        BY <2>2, <2>4, <2>5, <2>6, <2>7
<1> HIDE DEF Same
<1>3. SUBSET S \subseteq Same
    BY <1>1, <1>2, SubsetsUp
<1> QED
    BY <1>3 DEF Same
==============================================================================
