----------------------------- MODULE MagicProofs -----------------------------
(***************************************************************************)
(* Proofs about Magic, for every scene.  The worlds of Good are those in   *)
(* which scores, bits, masters and worn items are as they must be; each    *)
(* operation of Affects, each spell of Spells and each action of Magic     *)
(* leads from these to these.  Good is an inductive invariant, and what    *)
(* the runs check follows from it.                                         *)
(*                                                                         *)
(* Operations that go over a list or a set are folds: FoldProofs has what  *)
(* holds of a fold of which every step keeps to a set.  A fold is named,   *)
(* the set it stays in is D, and Op is what it does at each step.          *)
(***************************************************************************)
EXTENDS Magic, FoldProofs

(***************************************************************************)
(* Sums and lists of affects.                                              *)
(***************************************************************************)
\* The affects there are, what they set, and what may be set on things.
Types ==
    {"armor", "berserk", "bless", "blindness", "calm", "change sex", "charm person", "chill touch", "curse",
     "detect evil", "detect hidden", "detect invis", "detect magic", "dirt kicking", "faerie fire", "fly",
     "frenzy", "giant strength", "haste", "headbutt", "infravision", "insanity", "invis", "lethargy",
     "mass invis", "octarine fire", "pass door", "plague", "poison", "protection evil", "protection good",
     "psychic tornado", "regeneration", "sanctuary", "shield", "sleep", "sneak", "stone skin",
     "strife of the duelist", "talon", "weaken"}

Bits ==
    {"Berserk", "Blind", "Calm", "Charm", "Curse", "DetectEvil", "DetectHidden", "DetectInvis", "DetectMagic",
     "FaerieFire", "Flying", "Haste", "Hide", "Infrared", "Invisible", "Lethargy", "OctarineFire", "PassDoor",
     "Plague", "Poison", "ProtectionEvil", "ProtectionGood", "Regeneration", "Sanctuary", "Sleep", "Sneak",
     "Talon", "Weaken"}
    \cup UNION {Natural[c] : c \in Chars}

Flags == {"Acid", "Lightning", "NoRemove", "Plagued", "Poisoned", "Vampiric", "Vorpal"}

Affs == [type : Types, level : Int, lasts : Int, location : Locations, modifier : Int, bits : SUBSET Bits]

Lists == Seq(Affs)

Part(affs, x) == [i \in DOMAIN affs |-> IF affs[i].location = x THEN affs[i].modifier ELSE 0]

\* What an affect is.
LEMMA AffectIs ==
    ASSUME NEW a \in Affs
    PROVE  a.location \in Locations /\ a.modifier \in Int /\ a.bits \in SUBSET Bits /\ a.type \in Types
    BY DEF Affs

\* A list, and what each of it adds.
LEMMA ListIs ==
    ASSUME NEW affs \in Lists, NEW x
    PROVE  /\ Len(affs) \in Nat /\ DOMAIN affs = 1 .. Len(affs) /\ IsFiniteSet(1 .. Len(affs))
           /\ \A i \in 1 .. Len(affs) : /\ affs[i] \in Affs
                                        /\ Part(affs, x)[i] = IF affs[i].location = x THEN affs[i].modifier ELSE 0
                                        /\ Part(affs, x)[i] \in Int
           /\ OfAffects(affs, x) = Total(Part(affs, x), 1 .. Len(affs))
           /\ OfAffects(affs, x) \in Int
           /\ ToSet(affs) = {affs[i] : i \in 1 .. Len(affs)}
<1>1. Len(affs) \in Nat /\ DOMAIN affs = 1 .. Len(affs) /\ \A i \in 1 .. Len(affs) : affs[i] \in Affs
    BY DEF Lists
<1>2. IsFiniteSet(1 .. Len(affs))
    BY <1>1, FS_Interval
<1>3. ASSUME NEW i \in 1 .. Len(affs)
      PROVE  /\ Part(affs, x)[i] = IF affs[i].location = x THEN affs[i].modifier ELSE 0
             /\ Part(affs, x)[i] \in Int
    <2>1. affs[i].modifier \in Int
        BY <1>1, AffectIs
    <2>2. Part(affs, x)[i] = IF affs[i].location = x THEN affs[i].modifier ELSE 0
        BY <1>1 DEF Part
    <2> QED
        BY <2>1, <2>2
<1>4. OfAffects(affs, x) = Total(Part(affs, x), DOMAIN Part(affs, x))
    BY DEF OfAffects, SumFunction, SumFunctionOnSet, FoldFunctionOnSet, Total, MapThenSumSet, Part
<1>5. DOMAIN Part(affs, x) = 1 .. Len(affs)
    BY <1>1 DEF Part
<1>6. Total(Part(affs, x), 1 .. Len(affs)) \in Int
    BY <1>2, <1>3, TotalIs
<1>7. ToSet(affs) = {affs[i] : i \in 1 .. Len(affs)}
    BY <1>1 DEF ToSet
<1> QED
    BY <1>1, <1>2, <1>3, <1>4, <1>5, <1>6, <1>7

\* A list of none.
LEMMA NoneIs ==
    /\ <<>> \in Lists /\ ToSet(<<>>) = {}
    /\ \A x : OfAffects(<<>>, x) = 0
<1>1. <<>> \in Lists /\ Len(<<>>) = 0 /\ 1 .. 0 = {}
    BY DEF Lists
<1>2. ASSUME NEW x
      PROVE  OfAffects(<<>>, x) = 0
    <2>1. OfAffects(<<>>, x) = Total(Part(<<>>, x), {})
        BY <1>1, ListIs
    <2>2. Total(Part(<<>>, x), {}) = 0
        BY FS_EmptySet, TotalIs
    <2> QED
        BY <2>1, <2>2
<1>3. ToSet(<<>>) = {}
    BY <1>1 DEF ToSet
<1> QED
    BY <1>1, <1>2, <1>3

\* Lists that differ in what no score is made of.
LEMMA SumSame ==
    ASSUME NEW s \in Lists, NEW t \in Lists, NEW x, Len(t) = Len(s),
           \A i \in 1 .. Len(s) : t[i].location = s[i].location /\ t[i].modifier = s[i].modifier
    PROVE  OfAffects(t, x) = OfAffects(s, x)
<1>1. /\ IsFiniteSet(1 .. Len(s))
      /\ OfAffects(s, x) = Total(Part(s, x), 1 .. Len(s))
      /\ OfAffects(t, x) = Total(Part(t, x), 1 .. Len(s))
    BY ListIs
<1>2. \A i \in 1 .. Len(s) : Part(s, x)[i] \in Int /\ Part(t, x)[i] = Part(s, x)[i]
    <2> SUFFICES ASSUME NEW i \in 1 .. Len(s)
                 PROVE  Part(s, x)[i] \in Int /\ Part(t, x)[i] = Part(s, x)[i]
        OBVIOUS
    <2>1. i \in 1 .. Len(t)
        OBVIOUS
    <2>2. /\ Part(s, x)[i] = IF s[i].location = x THEN s[i].modifier ELSE 0
          /\ Part(s, x)[i] \in Int
          /\ Part(t, x)[i] = IF t[i].location = x THEN t[i].modifier ELSE 0
        BY <2>1, ListIs
    <2> QED
        BY <2>2
<1> QED
    BY <1>1, <1>2, TotalAgree

\* The sum of a list is that of those that m leaves, and the one that it leaves out.
LEMMA SumWithout ==
    ASSUME NEW s \in Lists, NEW t \in Lists, NEW x, NEW k \in 1 .. Len(t), Len(t) = Len(s) + 1,
           \A i \in 1 .. Len(s) : s[i] = t[IF i < k THEN i ELSE i + 1]
    PROVE  OfAffects(t, x) = Part(t, x)[k] + OfAffects(s, x)
<1> DEFINE S == 1 .. Len(s)
           T == 1 .. Len(t)
           f == Part(s, x)
           g == Part(t, x)
           m == [i \in S |-> IF i < k THEN i ELSE i + 1]
<1>1. Len(s) \in Nat /\ Len(t) \in Nat /\ k \in T
    BY ListIs
<1>2. IsFiniteSet(S) /\ IsFiniteSet(T)
    BY ListIs
<1>3. OfAffects(s, x) = Total(f, S) /\ OfAffects(t, x) = Total(g, T) /\ \A i \in T : g[i] \in Int
    BY ListIs
<1>4. m \in [S -> T] /\ \A i \in S : \A j \in S : m[i] = m[j] => i = j
    BY <1>1
<1>5. ASSUME NEW i \in S
      PROVE  f[i] = g[m[i]]
    <2>1. m[i] = (IF i < k THEN i ELSE i + 1) /\ m[i] \in T
        BY <1>4
    <2>2. s[i] = t[m[i]]
        BY <2>1
    <2> HIDE DEF m
    <2>3. f[i] = IF s[i].location = x THEN s[i].modifier ELSE 0
        BY ListIs
    <2>4. g[m[i]] = IF t[m[i]].location = x THEN t[m[i]].modifier ELSE 0
        BY <2>1, ListIs
    <2> QED
        BY <2>2, <2>3, <2>4
<1>6. {m[i] : i \in S} = T \ {k}
    <2>1. \A i \in S : m[i] \in T \ {k}
        BY <1>1
    <2>2. ASSUME NEW j \in T \ {k}
          PROVE  \E i \in S : m[i] = j
        <3> DEFINE i == IF j < k THEN j ELSE j - 1
        <3>1. i \in S /\ m[i] = j
            BY <1>1
        <3> QED
            BY <3>1
    <2> HIDE DEF S, T, m
    <2> QED
        BY <2>1, <2>2
<1> HIDE DEF S, T, m, f, g
<1>7. Total(f, S) = Total(g, {m[i] : i \in S})
    BY <1>2, <1>3, <1>4, <1>5, TotalMoved
<1>8. Total(g, T) = g[k] + Total(g, T \ {k})
    <2>1. \A i \in T : g[i] \in Int
        BY <1>3
    <2> QED
        BY ONLY <1>1, <1>2, <2>1, TotalOut
<1> QED
    BY <1>3, <1>6, <1>7, <1>8 DEF g

\* One more is put in front.
LEMMA SumInFront ==
    ASSUME NEW s \in Lists, NEW a \in Affs, NEW x
    PROVE  /\ <<a>> \o s \in Lists
           /\ ToSet(<<a>> \o s) = {a} \cup ToSet(s)
           /\ OfAffects(<<a>> \o s, x) = OfAffects(s, x) + IF a.location = x THEN a.modifier ELSE 0
<1> DEFINE t == <<a>> \o s
<1>1. t \in Lists /\ Len(t) = Len(s) + 1 /\ t[1] = a /\ (\A i \in 1 .. Len(s) : t[i + 1] = s[i])
      /\ Len(s) \in Nat /\ 1 \in 1 .. Len(t)
    BY DEF Lists
<1> HIDE DEF t
<1>2. \A i \in 1 .. Len(s) : s[i] = t[IF i < 1 THEN i ELSE i + 1]
    BY <1>1
<1>3. OfAffects(t, x) = Part(t, x)[1] + OfAffects(s, x)
    BY <1>1, <1>2, SumWithout
<1>4. Part(t, x)[1] = IF a.location = x THEN a.modifier ELSE 0
    BY <1>1, ListIs
<1>5. ToSet(t) = {a} \cup ToSet(s)
    <2>1. ToSet(t) = {t[i] : i \in 1 .. Len(t)} /\ ToSet(s) = {s[i] : i \in 1 .. Len(s)}
        BY <1>1, ListIs
    <2>2. \A i \in 1 .. Len(t) : i = 1 \/ (i - 1 \in 1 .. Len(s) /\ t[i] = s[i - 1])
        <3> SUFFICES ASSUME NEW i \in 1 .. Len(t), i # 1
                     PROVE  i - 1 \in 1 .. Len(s) /\ t[i] = s[i - 1]
            OBVIOUS
        <3>1. i - 1 \in 1 .. Len(s) /\ (i - 1) + 1 = i
            BY <1>1
        <3> QED
            BY <1>1, <3>1
    <2>3. \A i \in 1 .. Len(s) : i + 1 \in 1 .. Len(t) /\ t[i + 1] = s[i]
        BY <1>1
    <2>4. ToSet(t) \subseteq {a} \cup ToSet(s)
        BY <1>1, <2>1, <2>2
    <2>5. a \in ToSet(t) /\ ToSet(s) \subseteq ToSet(t)
        BY <1>1, <2>1, <2>3
    <2> QED
        BY <2>4, <2>5
<1>6. OfAffects(s, x) \in Int /\ a.modifier \in Int
    BY ListIs, AffectIs
<1> QED
    BY <1>1, <1>3, <1>4, <1>5, <1>6 DEF t

\* One more is put at the end.
LEMMA SumAtEnd ==
    ASSUME NEW s \in Lists, NEW a \in Affs, NEW x
    PROVE  /\ Append(s, a) \in Lists
           /\ ToSet(Append(s, a)) = {a} \cup ToSet(s)
           /\ OfAffects(Append(s, a), x) = OfAffects(s, x) + IF a.location = x THEN a.modifier ELSE 0
<1> DEFINE t == Append(s, a)
<1>1. t \in Lists /\ Len(t) = Len(s) + 1 /\ t[Len(t)] = a /\ (\A i \in 1 .. Len(s) : t[i] = s[i])
      /\ Len(s) \in Nat /\ Len(t) \in 1 .. Len(t)
    BY DEF Lists
<1> HIDE DEF t
<1>2. \A i \in 1 .. Len(s) : s[i] = t[IF i < Len(t) THEN i ELSE i + 1]
    BY <1>1
<1>3. OfAffects(t, x) = Part(t, x)[Len(t)] + OfAffects(s, x)
    BY <1>1, <1>2, SumWithout
<1>4. Part(t, x)[Len(t)] = IF a.location = x THEN a.modifier ELSE 0
    BY <1>1, ListIs
<1>5. ToSet(t) = {a} \cup ToSet(s)
    <2>1. ToSet(t) = {t[i] : i \in 1 .. Len(t)} /\ ToSet(s) = {s[i] : i \in 1 .. Len(s)}
        BY <1>1, ListIs
    <2>2. \A i \in 1 .. Len(t) : i = Len(t) \/ (i \in 1 .. Len(s) /\ t[i] = s[i])
        BY <1>1
    <2>3. \A i \in 1 .. Len(s) : i \in 1 .. Len(t) /\ t[i] = s[i]
        BY <1>1
    <2> QED
        BY <1>1, <2>1, <2>2, <2>3
<1>6. OfAffects(s, x) \in Int /\ a.modifier \in Int
    BY ListIs, AffectIs
<1> QED
    BY <1>1, <1>3, <1>4, <1>5, <1>6 DEF t

\* One is taken out.
LEMMA SumRemoved ==
    ASSUME NEW t \in Lists, NEW k \in 1 .. Len(t), NEW x
    PROVE  /\ RemoveAt(t, k) \in Lists
           /\ ToSet(t) = {t[k]} \cup ToSet(RemoveAt(t, k))
           /\ OfAffects(t, x) = OfAffects(RemoveAt(t, k), x) + IF t[k].location = x THEN t[k].modifier ELSE 0
<1> DEFINE s == RemoveAt(t, k)
<1>0. Len(t) \in Nat
    BY ListIs
<1> DEFINE u == SubSeq(t, 1, k - 1)
           v == SubSeq(t, k + 1, Len(t))
<1>a. u \in Lists /\ Len(u) = k - 1 /\ \A i \in 1 .. (k - 1) : u[i] = t[i]
    BY <1>0 DEF Lists
<1>b. v \in Lists /\ Len(v) = Len(t) - k /\ \A i \in 1 .. (Len(t) - k) : v[i] = t[k + i]
    BY <1>0 DEF Lists
<1>c. s = u \o v
    BY DEF RemoveAt
<1> HIDE DEF u, v, s
<1>1. s \in Lists /\ Len(t) = Len(s) + 1
    BY <1>0, <1>a, <1>b, <1>c DEF Lists
<1>2. \A i \in 1 .. Len(s) : s[i] = t[IF i < k THEN i ELSE i + 1]
    <2> SUFFICES ASSUME NEW i \in 1 .. Len(s)
                 PROVE  s[i] = t[IF i < k THEN i ELSE i + 1]
        OBVIOUS
    <2>1. s[i] = IF i <= Len(u) THEN u[i] ELSE v[i - Len(u)]
        BY <1>0, <1>a, <1>b, <1>c, <1>1 DEF Lists
    <2>2. CASE i < k
        BY <1>a, <2>1, <2>2
    <2>3. CASE ~(i < k)
        <3>1. i - (k - 1) \in 1 .. (Len(t) - k) /\ k + (i - (k - 1)) = i + 1
            BY <1>0, <1>1, <2>3
        <3> QED
            BY <1>a, <1>b, <2>1, <2>3, <3>1
    <2> QED
        BY <2>2, <2>3
<1>3. OfAffects(t, x) = Part(t, x)[k] + OfAffects(s, x)
    BY <1>1, <1>2, SumWithout
<1>4. Part(t, x)[k] = IF t[k].location = x THEN t[k].modifier ELSE 0
    BY ListIs
<1>5. ToSet(t) = {t[k]} \cup ToSet(s)
    <2>1. ToSet(t) = {t[i] : i \in 1 .. Len(t)} /\ ToSet(s) = {s[i] : i \in 1 .. Len(s)}
        BY <1>1, ListIs
    <2>2. ASSUME NEW i \in 1 .. Len(t), i # k
          PROVE  \E j \in 1 .. Len(s) : s[j] = t[i]
        <3> DEFINE j == IF i < k THEN i ELSE i - 1
        <3>1. j \in 1 .. Len(s) /\ (IF j < k THEN j ELSE j + 1) = i
            BY <1>0, <1>1, <2>2
        <3> QED
            BY <1>2, <3>1
    <2>3. \A i \in 1 .. Len(s) : \E j \in 1 .. Len(t) : s[i] = t[j]
        <3> SUFFICES ASSUME NEW i \in 1 .. Len(s)
                     PROVE  \E j \in 1 .. Len(t) : s[i] = t[j]
            OBVIOUS
        <3>1. (IF i < k THEN i ELSE i + 1) \in 1 .. Len(t)
            BY <1>0, <1>1
        <3> QED
            BY <1>2, <3>1
    <2> QED
        BY <2>1, <2>2, <2>3
<1>6. OfAffects(s, x) \in Int /\ t[k].modifier \in Int
    BY <1>1, ListIs, AffectIs
<1> QED
    BY <1>1, <1>3, <1>4, <1>5, <1>6 DEF s

\* The affects of a list that are of some are picked out one after the other.
Picks(r, affs, some) ==
    /\ r \in [0 .. Len(affs) -> Lists] /\ r[0] = <<>> /\ r[Len(affs)] = Among(affs, some)
    /\ \A i \in 1 .. Len(affs) : r[i] = IF affs[i] \in some THEN Append(r[i - 1], affs[i]) ELSE r[i - 1]

\* Among walks a list from its first affect to its last.
LEMMA AmongWalks ==
    ASSUME NEW affs \in Lists, NEW some
    PROVE  \E r : Picks(r, affs, some)
<1> DEFINE n == Len(affs)
           Op(l, a) == IF a \in some THEN Append(l, a) ELSE l
           G == [p \in (1 .. n) \X Lists |-> Op(p[2], affs[p[1]])]
           Is(h) == h = [s \in SUBSET (1 .. n) |-> IF s = {} THEN <<>> ELSE Op(h[s \ {Max(s)}], affs[Max(s)])]
           f == CHOOSE h : Is(h)
<1>1. n \in Nat /\ <<>> \in Lists /\ DOMAIN affs = 1 .. n
    BY ListIs, NoneIs
<1>2. \A i \in 1 .. n : \A l \in Lists : G[<<i, l>>] = Op(l, affs[i])
    OBVIOUS
<1>3. Within(G, 1 .. n, Lists)
    <2>1. \A i \in 1 .. n : affs[i] \in Affs
        BY ListIs
    <2>2. \A l \in Lists : \A a \in Affs : Append(l, a) \in Lists
        BY SumAtEnd
    <2> HIDE DEF G
    <2> QED
        BY <1>2, <2>1, <2>2 DEF Within
<1>4. Among(affs, some) = f[1 .. n]
    BY <1>1 DEF Among, FoldLeft, MapThenFoldSet
<1> HIDE DEF G, Op, n
<1>5. PICK g : ListFolded(g, n, <<>>, G) /\ \A s \in SUBSET (1 .. n) : g[s] \in Lists
    BY <1>1, <1>3, ListExists
<1>6. \A s \in SUBSET (1 .. n) : s # {} => Max(s) \in 1 .. n /\ s \ {Max(s)} \in SUBSET (1 .. n)
    BY <1>1, MaxOf
<1>7. Is(g)
    BY <1>2, <1>5, <1>6 DEF ListFolded
<1>8. Is(f)
    BY <1>7
<1> HIDE DEF f
<1>9. f[{}] = <<>> /\ \A s \in SUBSET (1 .. n) : s # {} => f[s] = Op(f[s \ {Max(s)}], affs[Max(s)])
    BY <1>8
<1>10. ListFolds(f, n, Lists, <<>>, G)
    BY <1>2, <1>6, <1>9 DEF ListFolds
<1>11. PICK r : Walk_(r, n, Lists, <<>>, G) /\ r[n] = f[1 .. n]
    BY <1>1, <1>3, <1>10, ListWalks
<1>12. r \in [0 .. n -> Lists] /\ r[0] = <<>> /\ \A i \in 1 .. n : r[i] = G[<<i, r[i - 1]>>]
    BY <1>11 DEF Walk_
<1>13. \A i \in 1 .. n : r[i - 1] \in Lists
    BY <1>12, <1>1
<1>14. \A i \in 1 .. n : r[i] = Op(r[i - 1], affs[i])
    BY <1>2, <1>12, <1>13
<1> QED
    BY <1>4, <1>11, <1>12, <1>14 DEF Op, n, Picks

\* Those of some are picked out.
LEMMA AmongIs ==
    ASSUME NEW affs \in Lists, NEW some
    PROVE  Among(affs, some) \in Lists /\ ToSet(Among(affs, some)) = ToSet(affs) \cap some
<1> DEFINE n == Len(affs)
<1>a. PICK r : Picks(r, affs, some)
    BY AmongWalks
<1>1. /\ r \in [0 .. n -> Lists] /\ r[0] = <<>> /\ r[n] = Among(affs, some)
      /\ \A i \in 1 .. n : r[i] = IF affs[i] \in some THEN Append(r[i - 1], affs[i]) ELSE r[i - 1]
    BY <1>a DEF Picks
<1>2. n \in Nat /\ \A i \in 1 .. n : affs[i] \in Affs
    BY ListIs
<1> HIDE DEF n
<1> DEFINE Seen(i) == {affs[j] : j \in 1 .. i}
           T == {i \in 0 .. n : ToSet(r[i]) = Seen(i) \cap some}
<1>3. 0 \in T
    <2>1. Seen(0) = {}
        OBVIOUS
    <2> QED
        BY <1>1, <1>2, <2>1, NoneIs
<1>4. ASSUME NEW i \in 1 .. n, i - 1 \in T
      PROVE  i \in T
    <2>1. Seen(i) = Seen(i - 1) \cup {affs[i]}
        BY <1>2
    <2>2. r[i - 1] \in Lists /\ affs[i] \in Affs
        BY <1>1, <1>2
    <2>3. ToSet(r[i]) = ToSet(r[i - 1]) \cup IF affs[i] \in some THEN {affs[i]} ELSE {}
        <3>1. CASE affs[i] \in some
            <4>1. r[i] = Append(r[i - 1], affs[i])
                BY <1>1, <3>1
            <4>2. ToSet(r[i]) = {affs[i]} \cup ToSet(r[i - 1])
                BY <2>2, <4>1, SumAtEnd
            <4> QED
                BY <3>1, <4>2
        <3>2. CASE affs[i] \notin some
            BY <1>1, <3>2
        <3> QED
            BY <3>1, <3>2
    <2> HIDE DEF Seen
    <2>4. ToSet(r[i - 1]) = Seen(i - 1) \cap some
        BY <1>4
    <2>5. ToSet(r[i]) = Seen(i) \cap some
        BY <2>1, <2>3, <2>4
    <2> QED
        BY <2>5
<1> HIDE DEF T
<1>5. 0 .. n \subseteq T
    BY <1>2, <1>3, <1>4, WalkKeeps
<1>6. n \in 0 .. n
    BY <1>2
<1>7. ToSet(r[n]) = Seen(n) \cap some
    BY <1>5, <1>6 DEF T
<1>8. Seen(n) = ToSet(affs)
    BY ListIs DEF n
<1>9. r[n] \in Lists
    BY <1>1, <1>6
<1> QED
    BY <1>1, <1>7, <1>8, <1>9

-----------------------------------------------------------------------------
(***************************************************************************)
(* Worlds.                                                                 *)
(***************************************************************************)
Someone == Chars \cup {Nobody}

Aligns == {"good", "neutral", "evil"}

Scores == [Locations -> Int]

Goods == [at : Chars \cup {Gone}, worn : BOOLEAN, value : Int, mods : Scores, flags : SUBSET Flags]

Worlds ==
    [affs : [Chars -> Lists], bits : [Chars -> SUBSET Bits], mods : [Chars -> Scores],
     item : [Items -> Goods], pos : [Chars -> Positions], foe : [Chars -> Someone],
     master : [Chars -> Someone], here : SUBSET Chars, align : [Chars -> Aligns], duel : BOOLEAN,
     etched : SUBSET Chars]

\* What a world consists of.
LEMMA WorldIs ==
    ASSUME NEW w \in Worlds
    PROVE  /\ w.affs \in [Chars -> Lists] /\ w.bits \in [Chars -> SUBSET Bits] /\ w.mods \in [Chars -> Scores]
           /\ w.item \in [Items -> Goods] /\ w.pos \in [Chars -> Positions] /\ w.foe \in [Chars -> Someone]
           /\ w.master \in [Chars -> Someone] /\ w.here \in SUBSET Chars /\ w.align \in [Chars -> Aligns]
           /\ w.duel \in BOOLEAN /\ w.etched \in SUBSET Chars
    BY DEF Worlds

\* Nothing is changed but what is on c.
OnlyOf(w, v, c) ==
    /\ v \in Worlds
    /\ v.item = w.item /\ v.pos = w.pos /\ v.foe = w.foe /\ v.master = w.master /\ v.here = w.here
    /\ v.align = w.align /\ v.duel = w.duel /\ v.etched = w.etched
    /\ \A d \in Chars \ {c} : v.affs[d] = w.affs[d] /\ v.bits[d] = w.bits[d] /\ v.mods[d] = w.mods[d]

\* The list of c is another.
Listed(w, c, affs) == [w EXCEPT !.affs[c] = affs]

\* Another list changes no bit and no score.
LEMMA ListedIs ==
    ASSUME NEW w \in Worlds, NEW c \in Chars, NEW affs \in Lists, NEW v, v = Listed(w, c, affs)
    PROVE  OnlyOf(w, v, c) /\ v.affs[c] = affs /\ v.bits = w.bits /\ v.mods = w.mods
    BY DEF Worlds, OnlyOf, Listed

\* Bits and scores are others.
Scored(w, c, bits, mods) == [w EXCEPT !.bits[c] = bits, !.mods[c] = mods]

\* Other bits and scores change no list.
LEMMA ScoredIs ==
    ASSUME NEW w \in Worlds, NEW c \in Chars, NEW bits \in SUBSET Bits, NEW mods \in Scores,
           NEW v, v = Scored(w, c, bits, mods)
    PROVE  OnlyOf(w, v, c) /\ v.affs = w.affs /\ v.bits[c] = bits /\ v.mods[c] = mods
<1> DEFINE B == [w.bits EXCEPT ![c] = bits]
           M == [w.mods EXCEPT ![c] = mods]
<1>1. B \in [Chars -> SUBSET Bits] /\ B[c] = bits /\ \A d \in Chars \ {c} : B[d] = w.bits[d]
    BY WorldIs
<1>2. M \in [Chars -> Scores] /\ M[c] = mods /\ \A d \in Chars \ {c} : M[d] = w.mods[d]
    BY WorldIs
<1>3. v = [w EXCEPT !.bits = B, !.mods = M]
    BY WorldIs DEF Scored
<1> HIDE DEF B, M
<1>4. /\ v \in Worlds /\ v.bits = B /\ v.mods = M /\ v.affs = w.affs
      /\ v.item = w.item /\ v.pos = w.pos /\ v.foe = w.foe /\ v.master = w.master /\ v.here = w.here
      /\ v.align = w.align /\ v.duel = w.duel /\ v.etched = w.etched
    BY <1>1, <1>2, <1>3 DEF Worlds
<1> QED
    BY <1>1, <1>2, <1>4 DEF OnlyOf

\* What one affect does, and undoes.
Did(w, v, c, a) ==
    /\ OnlyOf(w, v, c) /\ v.affs = w.affs /\ v.bits[c] = w.bits[c] \cup a.bits
    /\ \A x \in Locations : v.mods[c][x] = w.mods[c][x] + IF a.location = x THEN a.modifier ELSE 0

Undid(w, v, c, a) ==
    /\ OnlyOf(w, v, c) /\ v.affs = w.affs /\ v.bits[c] = w.bits[c] \ a.bits
    /\ \A x \in Locations : v.mods[c][x] = w.mods[c][x] - IF a.location = x THEN a.modifier ELSE 0

\* affect_modify does what its affect says, or undoes it.
LEMMA ModifyIs ==
    ASSUME NEW w \in Worlds, NEW c \in Chars, NEW a \in Affs
    PROVE  /\ Did(w, affect_modify(w, c, a, TRUE), c, a)
           /\ Undid(w, affect_modify(w, c, a, FALSE), c, a)
<1>1. a.location \in Locations /\ a.modifier \in Int /\ a.bits \in SUBSET Bits
    BY AffectIs
<1>2. w.bits[c] \in SUBSET Bits /\ w.mods[c] \in Scores
    BY WorldIs
<1>3. Did(w, affect_modify(w, c, a, TRUE), c, a)
    <2> DEFINE v == affect_modify(w, c, a, TRUE)
               bits == w.bits[c] \cup a.bits
               mods == [w.mods[c] EXCEPT ![a.location] = @ + a.modifier]
    <2>1. /\ bits \in SUBSET Bits /\ mods \in Scores
          /\ \A x \in Locations : mods[x] = w.mods[c][x] + IF a.location = x THEN a.modifier ELSE 0
        BY <1>1, <1>2 DEF Scores
    <2>2. v = Scored(w, c, bits, mods)
        BY WorldIs DEF affect_modify, Scored
    <2> HIDE DEF v, bits, mods
    <2>3. OnlyOf(w, v, c) /\ v.affs = w.affs /\ v.bits[c] = bits /\ v.mods[c] = mods
        BY <2>1, <2>2, ScoredIs
    <2> QED
        BY <2>1, <2>3 DEF v, bits, Did
<1>4. Undid(w, affect_modify(w, c, a, FALSE), c, a)
    <2> DEFINE v == affect_modify(w, c, a, FALSE)
               bits == w.bits[c] \ a.bits
               mods == [w.mods[c] EXCEPT ![a.location] = @ - a.modifier]
    <2>1. /\ bits \in SUBSET Bits /\ mods \in Scores
          /\ \A x \in Locations : mods[x] = w.mods[c][x] - IF a.location = x THEN a.modifier ELSE 0
        BY <1>1, <1>2 DEF Scores
    <2>2. v = Scored(w, c, bits, mods)
        BY WorldIs DEF affect_modify, Scored
    <2> HIDE DEF v, bits, mods
    <2>3. OnlyOf(w, v, c) /\ v.affs = w.affs /\ v.bits[c] = bits /\ v.mods[c] = mods
        BY <2>1, <2>2, ScoredIs
    <2> QED
        BY <2>1, <2>3 DEF v, bits, Undid
<1> QED
    BY <1>3, <1>4

\* Of one more affect of the list: it is undone, or listed again.
Sorted(w, c, over, a) ==
    IF a \in over THEN affect_modify(w, c, a, FALSE) ELSE Listed(w, c, Append(w.affs[c], a))

\* What the world becomes: an affect that is over is undone, another is listed.
LEMMA SortedIs ==
    ASSUME NEW w \in Worlds, NEW c \in Chars, NEW over, NEW a \in Affs, NEW v, v = Sorted(w, c, over, a)
    PROVE  /\ OnlyOf(w, v, c)
           /\ ToSet(v.affs[c]) = ToSet(w.affs[c]) \cup ({a} \ over)
           /\ v.bits[c] = w.bits[c] \ UNION {x.bits : x \in {a} \cap over}
           /\ \A x \in Locations : v.mods[c][x] - OfAffects(v.affs[c], x) =
                  w.mods[c][x] - OfAffects(w.affs[c], x) - IF a.location = x THEN a.modifier ELSE 0
<1>1. w.affs[c] \in Lists /\ w.mods[c] \in Scores
    BY WorldIs
<1>2. \A x \in Locations : w.mods[c][x] \in Int /\ OfAffects(w.affs[c], x) \in Int /\ a.modifier \in Int
    BY <1>1, ListIs, AffectIs DEF Scores
<1>3. CASE a \in over
    <2>1. v = affect_modify(w, c, a, FALSE)
        BY <1>3 DEF Sorted
    <2>2. Undid(w, v, c, a)
        BY <2>1, ModifyIs
    <2>3. {a} \ over = {} /\ {a} \cap over = {a}
        BY <1>3
    <2>4. v.affs[c] = w.affs[c] /\ OnlyOf(w, v, c) /\ v.bits[c] = w.bits[c] \ a.bits
        BY <2>2 DEF Undid
    <2>5. \A x \in Locations : v.mods[c][x] = w.mods[c][x] - IF a.location = x THEN a.modifier ELSE 0
        BY <2>2 DEF Undid
    <2> QED
        BY <1>2, <2>3, <2>4, <2>5
<1>4. CASE a \notin over
    <2> DEFINE affs == Append(w.affs[c], a)
    <2>1. /\ affs \in Lists /\ ToSet(affs) = {a} \cup ToSet(w.affs[c])
          /\ \A x : OfAffects(affs, x) = OfAffects(w.affs[c], x) + IF a.location = x THEN a.modifier ELSE 0
        BY <1>1, SumAtEnd
    <2>2. v = Listed(w, c, affs)
        BY <1>4 DEF Sorted
    <2> HIDE DEF affs
    <2>3. OnlyOf(w, v, c) /\ v.affs[c] = affs /\ v.bits = w.bits /\ v.mods = w.mods
        BY <2>1, <2>2, ListedIs
    <2>4. {a} \ over = {a} /\ {a} \cap over = {}
        BY <1>4
    <2> QED
        BY <1>2, <2>1, <2>3, <2>4
<1> QED
    BY <1>3, <1>4

\* The affects of c are sorted one after the other.
Sorts(r, w, c, affs, over) ==
    /\ r \in [0 .. Len(affs) -> Worlds] /\ r[0] = Listed(w, c, <<>>) /\ r[Len(affs)] = RemovedAll(w, c, over)
    /\ \A i \in 1 .. Len(affs) : r[i] = Sorted(r[i - 1], c, over, affs[i])

\* RemovedAll walks the list of c from its first affect to its last.
LEMMA RemovedWalks ==
    ASSUME NEW w \in Worlds, NEW c \in Chars, NEW over, NEW affs, affs = w.affs[c]
    PROVE  \E r : Sorts(r, w, c, affs, over)
<1> DEFINE n == Len(affs)
           u == Listed(w, c, <<>>)
           Op(x, a) == Sorted(x, c, over, a)
           G == [p \in (1 .. n) \X Worlds |-> Op(p[2], affs[p[1]])]
           Is(h) == h = [s \in SUBSET (1 .. n) |-> IF s = {} THEN u ELSE Op(h[s \ {Max(s)}], affs[Max(s)])]
           f == CHOOSE h : Is(h)
<1>0. affs \in Lists
    BY WorldIs
<1>1. n \in Nat /\ DOMAIN affs = 1 .. n
    BY <1>0, ListIs
<1>2. \A i \in 1 .. n : \A x \in Worlds : G[<<i, x>>] = Op(x, affs[i])
    OBVIOUS
<1>3. Within(G, 1 .. n, Worlds)
    <2>1. \A i \in 1 .. n : affs[i] \in Affs
        BY <1>0, ListIs
    <2>2. \A x \in Worlds : \A a \in Affs : Op(x, a) \in Worlds
        BY SortedIs DEF OnlyOf
    <2> HIDE DEF G, Op
    <2> QED
        BY <1>2, <2>1, <2>2 DEF Within
<1>4. RemovedAll(w, c, over) = f[1 .. n]
    BY <1>1 DEF RemovedAll, FoldLeft, MapThenFoldSet, Sorted, Listed
<1>a. u \in Worlds
    BY NoneIs, ListedIs DEF OnlyOf
<1> HIDE DEF G, Op, n, u
<1>5. PICK g : ListFolded(g, n, u, G) /\ \A s \in SUBSET (1 .. n) : g[s] \in Worlds
    BY <1>1, <1>3, <1>a, ListExists
<1>6. \A s \in SUBSET (1 .. n) : s # {} => Max(s) \in 1 .. n /\ s \ {Max(s)} \in SUBSET (1 .. n)
    BY <1>1, MaxOf
<1>7. Is(g)
    BY <1>2, <1>5, <1>6 DEF ListFolded
<1>8. Is(f)
    BY <1>7
<1> HIDE DEF f
<1>9. f[{}] = u /\ \A s \in SUBSET (1 .. n) : s # {} => f[s] = Op(f[s \ {Max(s)}], affs[Max(s)])
    BY <1>8
<1>10. ListFolds(f, n, Worlds, u, G)
    BY <1>2, <1>6, <1>9 DEF ListFolds
<1>11. PICK r : Walk_(r, n, Worlds, u, G) /\ r[n] = f[1 .. n]
    BY <1>1, <1>3, <1>10, <1>a, ListWalks
<1>12. r \in [0 .. n -> Worlds] /\ r[0] = u /\ \A i \in 1 .. n : r[i] = G[<<i, r[i - 1]>>]
    BY <1>11 DEF Walk_
<1>13. \A i \in 1 .. n : r[i - 1] \in Worlds
    BY <1>12, <1>1
<1>14. \A i \in 1 .. n : r[i] = Op(r[i - 1], affs[i])
    BY <1>2, <1>12, <1>13
<1> QED
    BY <1>4, <1>11, <1>12, <1>14 DEF Op, n, u, Sorts

\* All that the affects that are over did is taken away; the others stay listed.
LEMMA RemovedIs ==
    ASSUME NEW w \in Worlds, NEW c \in Chars, NEW over, NEW affs, affs = w.affs[c],
           NEW v, v = RemovedAll(w, c, over)
    PROVE  /\ OnlyOf(w, v, c) /\ ToSet(v.affs[c]) = ToSet(affs) \ over
           /\ v.bits[c] = w.bits[c] \ UNION {a.bits : a \in ToSet(affs) \cap over}
           /\ \A x \in Locations : v.mods[c][x] - OfAffects(v.affs[c], x) = w.mods[c][x] - OfAffects(affs, x)
<1>1. PICK r : Sorts(r, w, c, affs, over)
    BY RemovedWalks
<1>a. affs \in Lists
    BY WorldIs
<1> DEFINE n == Len(affs)
           u == Listed(w, c, <<>>)
           Seen(i) == {affs[j] : j \in 1 .. i}
           Sum(x, i) == Total(Part(affs, x), 1 .. i)
           Ok(y, i) == /\ OnlyOf(w, y, c) /\ ToSet(y.affs[c]) = Seen(i) \ over
                       /\ y.bits[c] = w.bits[c] \ UNION {a.bits : a \in Seen(i) \cap over}
                       /\ \A x \in Locations : y.mods[c][x] - OfAffects(y.affs[c], x) = w.mods[c][x] - Sum(x, i)
           T == {i \in 0 .. n : Ok(r[i], i)}
<1>2. /\ r \in [0 .. n -> Worlds] /\ r[0] = u /\ r[n] = v
      /\ \A i \in 1 .. n : r[i] = Sorted(r[i - 1], c, over, affs[i])
    BY <1>1 DEF Sorts
<1>3. n \in Nat /\ \A i \in 1 .. n : affs[i] \in Affs
    BY <1>a, ListIs
<1>4. \A x : Sum(x, 0) = 0 /\ \A i \in 1 .. n : Sum(x, i) = Part(affs, x)[i] + Sum(x, i - 1)
    <2> SUFFICES ASSUME NEW x
                 PROVE  Sum(x, 0) = 0 /\ \A i \in 1 .. n : Sum(x, i) = Part(affs, x)[i] + Sum(x, i - 1)
        OBVIOUS
    <2>1. \A i \in 1 .. n : Part(affs, x)[i] \in Int
        BY <1>a, ListIs
    <2> QED
        BY <1>3, <2>1, TotalLast
<1>5. \A x : OfAffects(affs, x) = Sum(x, n) /\ \A i \in 0 .. n : Sum(x, i) \in Int
    <2> SUFFICES ASSUME NEW x, NEW i \in 0 .. n
                 PROVE  OfAffects(affs, x) = Sum(x, n) /\ Sum(x, i) \in Int
        BY <1>3
    <2>1. \A j \in 1 .. i : Part(affs, x)[j] \in Int
        BY <1>3, <1>a, ListIs
    <2>2. IsFiniteSet(1 .. i)
        BY <1>3, FS_Interval
    <2>3. Sum(x, i) \in Int
        BY <2>1, <2>2, TotalIs
    <2> QED
        BY <2>3, <1>a, ListIs
<1> HIDE DEF Sum
<1>6. 0 \in T
    <2>1. Seen(0) = {}
        OBVIOUS
    <2>2. OnlyOf(w, u, c) /\ u.affs[c] = <<>> /\ u.bits = w.bits /\ u.mods = w.mods
        BY NoneIs, ListedIs
    <2>3. ToSet(u.affs[c]) = {} /\ \A x : OfAffects(u.affs[c], x) = 0
        BY <2>2, NoneIs
    <2>4. \A x \in Locations : w.mods[c][x] \in Int
        BY WorldIs DEF Scores
    <2> HIDE DEF u, Seen
    <2>5. \A x \in Locations : u.mods[c][x] - OfAffects(u.affs[c], x) = w.mods[c][x] - Sum(x, 0)
        BY <1>4, <2>2, <2>3, <2>4
    <2>6. Ok(u, 0)
        BY <2>1, <2>2, <2>3, <2>5
    <2> HIDE DEF Ok
    <2> QED
        BY <1>2, <1>3, <2>6
<1> HIDE DEF n, u
<1>7. ASSUME NEW i \in 1 .. n, i - 1 \in T
      PROVE  i \in T
    <2> DEFINE y == r[i - 1]
               t == r[i]
    <2>0. i - 1 \in 0 .. n
        BY <1>3
    <2>1. y \in Worlds /\ affs[i] \in Affs /\ t = Sorted(y, c, over, affs[i])
        BY ONLY <1>2, <1>3, <2>0, i \in 1 .. n
    <2>2. Ok(y, i - 1)
        BY <1>7
    <2> HIDE DEF y, t
    <2>3. /\ OnlyOf(y, t, c)
          /\ ToSet(t.affs[c]) = ToSet(y.affs[c]) \cup ({affs[i]} \ over)
          /\ t.bits[c] = y.bits[c] \ UNION {a.bits : a \in {affs[i]} \cap over}
          /\ \A x \in Locations : t.mods[c][x] - OfAffects(t.affs[c], x) =
                 y.mods[c][x] - OfAffects(y.affs[c], x) - IF affs[i].location = x THEN affs[i].modifier ELSE 0
        BY <2>1, SortedIs
    <2>4. OnlyOf(w, t, c)
        BY <2>2, <2>3 DEF OnlyOf
    <2>5. Seen(i) = Seen(i - 1) \cup {affs[i]}
        BY <1>3
    <2>6. /\ ToSet(t.affs[c]) = Seen(i) \ over
          /\ t.bits[c] = w.bits[c] \ UNION {a.bits : a \in Seen(i) \cap over}
        <3> HIDE DEF Seen
        <3> QED
            BY <2>2, <2>3, <2>5
    <2>7. ASSUME NEW x \in Locations
          PROVE  t.mods[c][x] - OfAffects(t.affs[c], x) = w.mods[c][x] - Sum(x, i)
        <3>1. y.mods[c][x] - OfAffects(y.affs[c], x) = w.mods[c][x] - Sum(x, i - 1)
            BY <2>2
        <3>2. Sum(x, i) = Part(affs, x)[i] + Sum(x, i - 1)
            BY <1>4
        <3>3. Part(affs, x)[i] = IF affs[i].location = x THEN affs[i].modifier ELSE 0
            BY <1>a, ListIs DEF n
        <3>4. affs[i].modifier \in Int /\ w.mods[c][x] \in Int
            BY <2>1, AffectIs, WorldIs DEF Scores
        <3>5. Sum(x, i - 1) \in Int
            BY <1>3, <1>5
        <3>6. t.mods[c][x] - OfAffects(t.affs[c], x) =
                  y.mods[c][x] - OfAffects(y.affs[c], x) - IF affs[i].location = x THEN affs[i].modifier ELSE 0
            BY <2>3
        <3> DEFINE p == Part(affs, x)[i]
                   new == t.mods[c][x] - OfAffects(t.affs[c], x)
                   was == y.mods[c][x] - OfAffects(y.affs[c], x)
                   own == w.mods[c][x]
        <3>7. p \in Int /\ own \in Int /\ new = was - p /\ was = own - Sum(x, i - 1) /\ Sum(x, i) = p + Sum(x, i - 1)
            BY <3>1, <3>2, <3>3, <3>4, <3>6
        <3> HIDE DEF p, new, was, own
        <3>8. new = own - Sum(x, i)
            BY <3>5, <3>7
        <3> QED
            BY <3>8 DEF new, own
    <2>8. Ok(t, i)
        BY <2>4, <2>6, <2>7
    <2> HIDE DEF Ok
    <2> QED
        BY <1>3, <2>8 DEF t
<1> HIDE DEF T
<1>8. 0 .. n \subseteq T
    BY <1>3, <1>6, <1>7, WalkKeeps
<1>b. n \in 0 .. n
    BY <1>3
<1> HIDE DEF Ok
<1>c. Ok(r[n], n)
    BY <1>8, <1>b DEF T
<1>d. Ok(v, n)
    BY <1>2, <1>c
<1>9. /\ OnlyOf(w, v, c) /\ ToSet(v.affs[c]) = Seen(n) \ over
      /\ v.bits[c] = w.bits[c] \ UNION {a.bits : a \in Seen(n) \cap over}
      /\ \A x \in Locations : v.mods[c][x] - OfAffects(v.affs[c], x) = w.mods[c][x] - Sum(x, n)
    BY <1>d DEF Ok
<1>10. Seen(n) = ToSet(affs)
    BY <1>a, ListIs DEF n
<1> QED
    BY <1>5, <1>9, <1>10

-----------------------------------------------------------------------------
(***************************************************************************)
(* The worlds in which all is as it must be.                               *)
(***************************************************************************)
Sourced(w, c) ==
    w.bits[c] \subseteq Natural[c] \cup {"Hide"} \cup UNION {a.bits : a \in ToSet(w.affs[c])}

Mastered(w, c) == "Charm" \in w.bits[c] /\ "Charm" \notin Natural[c] => w.master[c] # Nobody

Summed(w, c) == \A x \in Locations : w.mods[c][x] = OfAffects(w.affs[c], x) + OfItems(w, c, x)

WornOn(w) == \A o \in Items : w.item[o].worn => w.item[o].at \in Chars

Good ==
    {w \in Worlds : /\ \A c \in Chars : Sourced(w, c) /\ Mastered(w, c)
                    /\ \A c \in Chars \ w.etched : Summed(w, c)
                    /\ WornOn(w)}

\* What holds in such a world.
LEMMA GoodIs ==
    ASSUME NEW w \in Good
    PROVE  /\ w \in Worlds /\ WornOn(w)
           /\ \A c \in Chars : Sourced(w, c) /\ Mastered(w, c)
           /\ \A c \in Chars \ w.etched : Summed(w, c)
    BY DEF Good

\* What the items add up to depends on the items only.
LEMMA ItemsSame ==
    ASSUME NEW w, NEW v, v.item = w.item, NEW c, NEW x
    PROVE  OfItems(v, c, x) = OfItems(w, c, x)
    BY DEF OfItems, Worn

\* What is changed on c alone must be right for c.
LEMMA PutGood ==
    ASSUME NEW w \in Good, NEW c \in Chars, NEW v, OnlyOf(w, v, c), Sourced(v, c), Mastered(v, c),
           c \notin w.etched => Summed(v, c)
    PROVE  v \in Good
<1>1. v \in Worlds /\ v.item = w.item /\ v.master = w.master /\ v.etched = w.etched
    BY DEF OnlyOf
<1>2. ASSUME NEW d \in Chars
      PROVE  Sourced(v, d) /\ Mastered(v, d)
    <2>1. CASE d = c
        BY <2>1
    <2>2. CASE d # c
        <3>1. v.affs[d] = w.affs[d] /\ v.bits[d] = w.bits[d]
            BY <2>2 DEF OnlyOf
        <3>2. Sourced(w, d) /\ Mastered(w, d)
            BY GoodIs
        <3> QED
            BY <1>1, <3>1, <3>2 DEF Sourced, Mastered
    <2> QED
        BY <2>1, <2>2
<1>3. ASSUME NEW d \in Chars \ v.etched
      PROVE  Summed(v, d)
    <2>1. CASE d = c
        BY <1>1, <2>1
    <2>2. CASE d # c
        <3>1. v.affs[d] = w.affs[d] /\ v.mods[d] = w.mods[d]
            BY <2>2 DEF OnlyOf
        <3>2. Summed(w, d)
            BY <1>1, GoodIs
        <3>3. \A x : OfItems(v, d, x) = OfItems(w, d, x)
            BY <1>1, ItemsSame
        <3> QED
            BY <3>1, <3>2, <3>3 DEF Summed
    <2> QED
        BY <2>1, <2>2
<1>4. WornOn(v)
    BY <1>1, GoodIs DEF WornOn
<1> QED
    BY <1>1, <1>2, <1>3, <1>4 DEF Good

\* Where somebody is, how they stand, whom they fight and what they believe in
\* are no matter of what is on them.
Alike(w, v) ==
    /\ v.affs = w.affs /\ v.bits = w.bits /\ v.mods = w.mods /\ v.item = w.item
    /\ v.master = w.master /\ v.etched = w.etched

\* So a world that is alike is as good.
LEMMA AlikeGood ==
    ASSUME NEW w \in Good, NEW v \in Worlds, Alike(w, v)
    PROVE  v \in Good
<1>1. \A d \in Chars : Sourced(v, d) /\ Mastered(v, d)
    BY GoodIs DEF Alike, Sourced, Mastered
<1>2. ASSUME NEW d \in Chars \ v.etched
      PROVE  Summed(v, d)
    <2>1. Summed(w, d)
        BY GoodIs DEF Alike
    <2>2. \A x : OfItems(v, d, x) = OfItems(w, d, x)
        BY ItemsSame DEF Alike
    <2> QED
        BY <2>1, <2>2 DEF Summed, Alike
<1>3. WornOn(v)
    BY GoodIs DEF WornOn, Alike
<1> QED
    BY <1>1, <1>2, <1>3 DEF Good

\* One change on c after the other.
LEMMA OnlyOn ==
    ASSUME NEW w, NEW u, NEW v, NEW c, OnlyOf(w, u, c), OnlyOf(u, v, c)
    PROVE  OnlyOf(w, v, c)
    BY DEF OnlyOf

\* Before the first of them nothing is changed.
LEMMA OnlyBegins ==
    ASSUME NEW w \in Worlds, NEW c
    PROVE  OnlyOf(w, w, c)
    BY DEF OnlyOf

\* What scores are.
LEMMA ScoreIs ==
    ASSUME NEW w \in Worlds, NEW c \in Chars, NEW x \in Locations
    PROVE  w.mods[c][x] \in Int
    BY WorldIs DEF Scores

\* What an item adds.
LEMMA GearIs ==
    ASSUME NEW w \in Worlds, NEW o \in Items
    PROVE  /\ ItemModifiers(w.item[o]) \in Scores
           /\ w.item[o].at \in Chars \cup {Gone} /\ w.item[o].worn \in BOOLEAN /\ w.item[o].value \in Int
           /\ w.item[o].mods \in Scores /\ w.item[o].flags \in SUBSET Flags
<1>1. w.item[o] \in Goods
    BY WorldIs
<1>2. /\ w.item[o].at \in Chars \cup {Gone} /\ w.item[o].worn \in BOOLEAN /\ w.item[o].value \in Int
      /\ w.item[o].mods \in Scores /\ w.item[o].flags \in SUBSET Flags
    BY <1>1 DEF Goods
<1>3. ItemModifiers(w.item[o]) \in Scores
    BY <1>2 DEF ItemModifiers, Scores, Locations
<1> QED
    BY <1>2, <1>3

Gear(w, x) == [o \in Items |-> ItemModifiers(w.item[o])[x]]

\* What somebody wears adds up, item by item.
LEMMA WornIs ==
    ASSUME NEW w \in Worlds, NEW c, NEW x \in Locations
    PROVE  /\ OfItems(w, c, x) = Total(Gear(w, x), Worn(w, c)) /\ OfItems(w, c, x) \in Int
           /\ \A o \in Items : Gear(w, x)[o] = ItemModifiers(w.item[o])[x] /\ Gear(w, x)[o] \in Int
           /\ IsFiniteSet(Items) /\ IsFiniteSet(Worn(w, c)) /\ Worn(w, c) \in SUBSET Items
<1>1. OfItems(w, c, x) = Total(Gear(w, x), Worn(w, c))
    BY DEF OfItems, SumFunctionOnSet, FoldFunctionOnSet, Total, MapThenSumSet, Gear
<1>2. ASSUME NEW o \in Items
      PROVE  Gear(w, x)[o] = ItemModifiers(w.item[o])[x] /\ Gear(w, x)[o] \in Int
    <2>1. Gear(w, x)[o] = ItemModifiers(w.item[o])[x]
        BY DEF Gear
    <2>2. ItemModifiers(w.item[o]) \in Scores
        BY GearIs
    <2> QED
        BY <2>1, <2>2 DEF Scores
<1>3. IsFiniteSet(Items) /\ Worn(w, c) \in SUBSET Items
    BY AffectsAssumption DEF Worn
<1>4. IsFiniteSet(Worn(w, c))
    BY <1>3, FS_Subset
<1>5. OfItems(w, c, x) \in Int
    <2>1. \A o \in Worn(w, c) : Gear(w, x)[o] \in Int
        BY <1>2, <1>3
    <2> QED
        BY <1>1, <1>4, <2>1, TotalIs
<1> QED
    BY <1>1, <1>2, <1>3, <1>4, <1>5

-----------------------------------------------------------------------------
(***************************************************************************)
(* Affects are added and removed.                                          *)
(***************************************************************************)
\* An affect that charms nobody, or one who has a master, may be added.
LEMMA ToCharGood ==
    ASSUME NEW w \in Good, NEW c \in Chars, NEW a \in Affs, "Charm" \in a.bits => w.master[c] # Nobody
    PROVE  affect_to_char(w, c, a) \in Good /\ OnlyOf(w, affect_to_char(w, c, a), c)
<1> DEFINE affs == <<a>> \o w.affs[c]
           u == Listed(w, c, affs)
           v == affect_to_char(w, c, a)
<1>1. w \in Worlds /\ w.affs[c] \in Lists
    BY GoodIs, WorldIs
<1>2. /\ affs \in Lists /\ ToSet(affs) = {a} \cup ToSet(w.affs[c])
      /\ \A x : OfAffects(affs, x) = OfAffects(w.affs[c], x) + IF a.location = x THEN a.modifier ELSE 0
    BY <1>1, SumInFront
<1>3. OnlyOf(w, u, c) /\ u.affs[c] = affs /\ u.bits = w.bits /\ u.mods = w.mods
    <2> HIDE DEF affs
    <2> QED
        BY <1>1, <1>2, ListedIs
<1>4. v = affect_modify(u, c, a, TRUE)
    BY <1>1, WorldIs DEF affect_to_char, Listed
<1> HIDE DEF affs, u, v
<1>5. Did(u, v, c, a)
    BY <1>3, <1>4, ModifyIs DEF OnlyOf
<1>6. OnlyOf(w, v, c)
    BY <1>3, <1>5, OnlyOn DEF Did
<1>7. v.affs[c] = affs /\ v.bits[c] = w.bits[c] \cup a.bits
    BY <1>3, <1>5 DEF Did
<1>8. Sourced(v, c)
    <2>1. Sourced(w, c)
        BY GoodIs
    <2> QED
        BY <1>2, <1>7, <2>1 DEF Sourced
<1>9. Mastered(v, c)
    <2>1. Mastered(w, c) /\ v.master = w.master
        BY <1>6, GoodIs DEF OnlyOf
    <2> QED
        BY <1>7, <2>1 DEF Mastered
<1>10. ASSUME c \notin w.etched
       PROVE  Summed(v, c)
    <2> SUFFICES ASSUME NEW x \in Locations
                 PROVE  v.mods[c][x] = OfAffects(v.affs[c], x) + OfItems(v, c, x)
        BY DEF Summed
    <2>1. w.mods[c][x] = OfAffects(w.affs[c], x) + OfItems(w, c, x)
        BY <1>10, GoodIs DEF Summed
    <2>2. v.mods[c][x] = w.mods[c][x] + IF a.location = x THEN a.modifier ELSE 0
        BY <1>3, <1>5 DEF Did
    <2>3. OfItems(v, c, x) = OfItems(w, c, x)
        BY <1>6, ItemsSame DEF OnlyOf
    <2>4. OfItems(w, c, x) \in Int /\ OfAffects(w.affs[c], x) \in Int /\ a.modifier \in Int
        BY <1>1, WornIs, ListIs, AffectIs
    <2>5. OfAffects(v.affs[c], x) = OfAffects(w.affs[c], x) + IF a.location = x THEN a.modifier ELSE 0
        BY <1>2, <1>7
    <2> QED
        BY <2>1, <2>2, <2>3, <2>4, <2>5
<1>11. v \in Good
    BY <1>6, <1>8, <1>9, <1>10, PutGood
<1> QED
    BY <1>6, <1>11 DEF v

\* One of the affects of c is removed.
LEMMA RemoveGood ==
    ASSUME NEW w \in Good, NEW c \in Chars, NEW i \in 1 .. Len(w.affs[c])
    PROVE  affect_remove(w, c, i) \in Good /\ OnlyOf(w, affect_remove(w, c, i), c)
<1> DEFINE old == w.affs[c]
           a == old[i]
           affs == RemoveAt(old, i)
           u == Listed(w, c, affs)
           v == affect_remove(w, c, i)
<1>0. w \in Worlds /\ old \in Lists
    BY GoodIs, WorldIs
<1>b. a \in Affs
    <2> HIDE DEF old
    <2> QED
        BY <1>0, ListIs DEF old
<1>1. w \in Worlds /\ old \in Lists /\ a \in Affs
    BY <1>0, <1>b
<1>2. /\ affs \in Lists /\ ToSet(old) = {a} \cup ToSet(affs)
      /\ \A x : OfAffects(old, x) = OfAffects(affs, x) + IF a.location = x THEN a.modifier ELSE 0
    BY <1>1, SumRemoved
<1>3. OnlyOf(w, u, c) /\ u.affs[c] = affs /\ u.bits = w.bits /\ u.mods = w.mods
    <2> HIDE DEF affs
    <2> QED
        BY <1>1, <1>2, ListedIs
<1>4. v = affect_modify(u, c, a, FALSE)
    BY <1>1, WorldIs DEF affect_remove, Listed
<1>a. old = w.affs[c]
    OBVIOUS
<1> HIDE DEF affs, u, v, a, old
<1>5. Undid(u, v, c, a)
    BY <1>1, <1>3, <1>4, ModifyIs DEF OnlyOf
<1>6. OnlyOf(w, v, c)
    BY <1>3, <1>5, OnlyOn DEF Undid
<1>7. v.affs[c] = affs /\ v.bits[c] = w.bits[c] \ a.bits
    BY <1>3, <1>5 DEF Undid
<1>8. Sourced(v, c)
    <2>1. Sourced(w, c)
        BY GoodIs
    <2> QED
        BY <1>2, <1>7, <1>a, <2>1 DEF Sourced
<1>9. Mastered(v, c)
    <2>1. Mastered(w, c) /\ v.master = w.master
        BY <1>6, GoodIs DEF OnlyOf
    <2> QED
        BY <1>7, <2>1 DEF Mastered
<1>10. ASSUME c \notin w.etched
       PROVE  Summed(v, c)
    <2> SUFFICES ASSUME NEW x \in Locations
                 PROVE  v.mods[c][x] = OfAffects(v.affs[c], x) + OfItems(v, c, x)
        BY DEF Summed
    <2>1. w.mods[c][x] = OfAffects(old, x) + OfItems(w, c, x)
        BY <1>10, <1>a, GoodIs DEF Summed
    <2>2. v.mods[c][x] = w.mods[c][x] - IF a.location = x THEN a.modifier ELSE 0
        BY <1>3, <1>5 DEF Undid
    <2>3. OfItems(v, c, x) = OfItems(w, c, x)
        BY <1>6, ItemsSame DEF OnlyOf
    <2>4. OfItems(w, c, x) \in Int /\ OfAffects(affs, x) \in Int /\ a.modifier \in Int
        BY <1>1, <1>2, WornIs, ListIs, AffectIs
    <2>5. OfAffects(old, x) = OfAffects(affs, x) + IF a.location = x THEN a.modifier ELSE 0
        BY <1>2
    <2> QED
        BY <1>7, <2>1, <2>2, <2>3, <2>4, <2>5
<1>11. v \in Good
    BY <1>6, <1>8, <1>9, <1>10, PutGood
<1> QED
    BY <1>6, <1>11 DEF v

\* So are all that are over.
LEMMA RemovedGood ==
    ASSUME NEW w \in Good, NEW c \in Chars, NEW over
    PROVE  /\ RemovedAll(w, c, over) \in Good /\ OnlyOf(w, RemovedAll(w, c, over), c)
           /\ RemovedAll(w, c, over).bits[c] \subseteq w.bits[c]
           /\ ToSet(RemovedAll(w, c, over).affs[c]) = ToSet(w.affs[c]) \ over
<1> DEFINE old == w.affs[c]
           v == RemovedAll(w, c, over)
<1>1. w \in Worlds /\ old \in Lists
    BY GoodIs, WorldIs
<1>a. old = w.affs[c] /\ v = RemovedAll(w, c, over)
    OBVIOUS
<1> HIDE DEF v, old
<1>2. /\ OnlyOf(w, v, c) /\ ToSet(v.affs[c]) = ToSet(old) \ over
      /\ v.bits[c] = w.bits[c] \ UNION {a.bits : a \in ToSet(old) \cap over}
      /\ \A x \in Locations : v.mods[c][x] - OfAffects(v.affs[c], x) = w.mods[c][x] - OfAffects(old, x)
    BY <1>1, <1>a, RemovedIs
<1>3. Sourced(v, c)
    <2>1. Sourced(w, c)
        BY GoodIs
    <2> QED
        BY <1>2, <1>a, <2>1 DEF Sourced
<1>4. Mastered(v, c)
    <2>1. Mastered(w, c) /\ v.master = w.master
        BY <1>2, GoodIs DEF OnlyOf
    <2> QED
        BY <1>2, <2>1 DEF Mastered
<1>5. ASSUME c \notin w.etched
      PROVE  Summed(v, c)
    <2> SUFFICES ASSUME NEW x \in Locations
                 PROVE  v.mods[c][x] = OfAffects(v.affs[c], x) + OfItems(v, c, x)
        BY DEF Summed
    <2>1. w.mods[c][x] = OfAffects(old, x) + OfItems(w, c, x)
        BY <1>5, <1>a, GoodIs DEF Summed
    <2>2. v.mods[c][x] - OfAffects(v.affs[c], x) = w.mods[c][x] - OfAffects(old, x)
        BY <1>2
    <2>3. OfItems(v, c, x) = OfItems(w, c, x)
        BY <1>2, ItemsSame DEF OnlyOf
    <2>4. v.affs[c] \in Lists /\ v.mods[c] \in Scores
        BY <1>2, WorldIs DEF OnlyOf
    <2>5. OfItems(w, c, x) \in Int /\ OfAffects(old, x) \in Int /\ OfAffects(v.affs[c], x) \in Int /\ v.mods[c][x] \in Int
        BY <1>1, <2>4, WornIs, ListIs DEF Scores
    <2> QED
        BY <2>1, <2>2, <2>3, <2>5
<1>6. v \in Good
    BY <1>2, <1>3, <1>4, <1>5, PutGood
<1> QED
    BY <1>2, <1>6, <1>a DEF v

-----------------------------------------------------------------------------
(***************************************************************************)
(* One part of a world is changed.                                         *)
(***************************************************************************)
Posed(w, c, p) == [w EXCEPT !.pos[c] = p]

Foed(w, c, d, p) == [w EXCEPT !.foe[c] = d, !.pos[c] = p]

Stood(w, foe, pos) == [w EXCEPT !.foe = foe, !.pos = pos]

Staying(w, c) == [w EXCEPT !.here = @ \ {c}]

Leaning(w, c, a) == [w EXCEPT !.align[c] = a]

Duelless(w) == [w EXCEPT !.duel = FALSE]

\* Somebody stands, sits or lies otherwise.
LEMMA PosedGood ==
    ASSUME NEW w \in Good, NEW c \in Chars, NEW p \in Positions
    PROVE  Posed(w, c, p) \in Good /\ Alike(w, Posed(w, c, p))
<1> DEFINE v == Posed(w, c, p)
<1>1. v \in Worlds /\ Alike(w, v)
    BY GoodIs DEF Worlds, Posed, Alike
<1> HIDE DEF v
<1>2. v \in Good
    BY <1>1, AlikeGood
<1> QED
    BY <1>1, <1>2 DEF v

\* Somebody fights another.
LEMMA FoedGood ==
    ASSUME NEW w \in Good, NEW c \in Chars, NEW d \in Someone, NEW p \in Positions
    PROVE  Foed(w, c, d, p) \in Good
<1> DEFINE v == Foed(w, c, d, p)
<1>1. v \in Worlds /\ Alike(w, v)
    BY GoodIs DEF Worlds, Foed, Alike
<1> HIDE DEF v
<1>2. v \in Good
    BY <1>1, AlikeGood
<1> QED
    BY <1>2 DEF v

\* Several fight others, or none.
LEMMA StoodGood ==
    ASSUME NEW w \in Good, NEW foe \in [Chars -> Someone], NEW pos \in [Chars -> Positions]
    PROVE  Stood(w, foe, pos) \in Good /\ Alike(w, Stood(w, foe, pos))
<1> DEFINE v == Stood(w, foe, pos)
<1>1. v \in Worlds /\ Alike(w, v)
    BY GoodIs DEF Worlds, Stood, Alike
<1> HIDE DEF v
<1>2. v \in Good
    BY <1>1, AlikeGood
<1> QED
    BY <1>1, <1>2 DEF v

\* Somebody leaves.
LEMMA StayingGood ==
    ASSUME NEW w \in Good, NEW c
    PROVE  Staying(w, c) \in Good /\ Alike(w, Staying(w, c))
<1> DEFINE v == Staying(w, c)
<1>1. v \in Worlds /\ Alike(w, v)
    BY GoodIs DEF Worlds, Staying, Alike
<1> HIDE DEF v
<1>2. v \in Good
    BY <1>1, AlikeGood
<1> QED
    BY <1>1, <1>2 DEF v

\* Somebody becomes better, or worse.
LEMMA LeaningGood ==
    ASSUME NEW w \in Good, NEW c \in Chars, NEW a \in Aligns
    PROVE  Leaning(w, c, a) \in Good
<1> DEFINE v == Leaning(w, c, a)
<1>1. v \in Worlds /\ Alike(w, v)
    BY GoodIs DEF Worlds, Leaning, Alike
<1> HIDE DEF v
<1>2. v \in Good
    BY <1>1, AlikeGood
<1> QED
    BY <1>2 DEF v

\* A duel is over.
LEMMA DuellessGood ==
    ASSUME NEW w \in Good
    PROVE  Duelless(w) \in Good
<1> DEFINE v == Duelless(w)
<1>1. v \in Worlds /\ Alike(w, v)
    BY GoodIs DEF Worlds, Duelless, Alike
<1> HIDE DEF v
<1>2. v \in Good
    BY <1>1, AlikeGood
<1> QED
    BY <1>2 DEF v

\* Whoever is not charmed, or has another master, may be let go.
Mastering(w, c, m) == [w EXCEPT !.master[c] = m]

\* A bit that charms needs a master: no other is let go.
LEMMA MasteringGood ==
    ASSUME NEW w \in Good, NEW c \in Chars, NEW m \in Someone, m # Nobody \/ "Charm" \notin w.bits[c]
    PROVE  /\ Mastering(w, c, m) \in Good /\ Mastering(w, c, m).master[c] = m
           /\ Mastering(w, c, m).bits = w.bits
<1> DEFINE v == Mastering(w, c, m)
<1>1. /\ v \in Worlds /\ v.master[c] = m /\ \A d \in Chars \ {c} : v.master[d] = w.master[d]
      /\ v.affs = w.affs /\ v.bits = w.bits /\ v.mods = w.mods /\ v.item = w.item /\ v.etched = w.etched
    BY GoodIs DEF Worlds, Mastering
<1> HIDE DEF v
<1>2. \A d \in Chars : Sourced(v, d) /\ Mastered(v, d)
    BY <1>1, GoodIs DEF Sourced, Mastered
<1>3. ASSUME NEW d \in Chars \ v.etched
      PROVE  Summed(v, d)
    <2>1. Summed(w, d)
        BY <1>1, GoodIs
    <2>2. \A x : OfItems(v, d, x) = OfItems(w, d, x)
        BY <1>1, ItemsSame
    <2> QED
        BY <1>1, <2>1, <2>2 DEF Summed
<1>4. WornOn(v)
    BY <1>1, GoodIs DEF WornOn
<1>5. v \in Good
    BY <1>1, <1>2, <1>3, <1>4 DEF Good
<1> QED
    BY <1>1, <1>5 DEF v

\* Bits are taken away.
LEMMA ClearGood ==
    ASSUME NEW w \in Good, NEW c \in Chars, NEW bits
    PROVE  /\ ClearBits(w, c, bits) \in Good /\ OnlyOf(w, ClearBits(w, c, bits), c)
           /\ ClearBits(w, c, bits).bits[c] = w.bits[c] \ bits
<1> DEFINE v == ClearBits(w, c, bits)
<1>1. w \in Worlds
    BY GoodIs
<1>2. OnlyOf(w, v, c) /\ v.affs = w.affs /\ v.mods = w.mods /\ v.bits[c] = w.bits[c] \ bits
    BY <1>1 DEF Worlds, OnlyOf, ClearBits
<1> HIDE DEF v
<1>3. Sourced(v, c) /\ Mastered(v, c)
    BY <1>2, GoodIs DEF Sourced, Mastered, OnlyOf
<1>4. ASSUME c \notin w.etched
      PROVE  Summed(v, c)
    <2>1. Summed(w, c) /\ \A x : OfItems(v, c, x) = OfItems(w, c, x)
        BY <1>2, <1>4, GoodIs, ItemsSame DEF OnlyOf
    <2> QED
        BY <1>2, <2>1 DEF Summed
<1>5. v \in Good
    BY <1>2, <1>3, <1>4, PutGood
<1> QED
    BY <1>2, <1>5 DEF v

\* One hides.
LEMMA HiddenGood ==
    ASSUME NEW w \in Good, NEW c \in Chars
    PROVE  [w EXCEPT !.bits[c] = @ \cup {"Hide"}] \in Good
<1> DEFINE v == [w EXCEPT !.bits[c] = @ \cup {"Hide"}]
<1>1. w \in Worlds
    BY GoodIs
<1>2. OnlyOf(w, v, c) /\ v.affs = w.affs /\ v.mods = w.mods /\ v.bits[c] = w.bits[c] \cup {"Hide"}
    <2> DEFINE bits == w.bits[c] \cup {"Hide"}
    <2>1. bits \in SUBSET Bits
        <3>1. w.bits[c] \in SUBSET Bits
            BY <1>1, WorldIs
        <3>2. "Hide" \in Bits
            BY DEF Bits
        <3> QED
            BY <3>1, <3>2
    <2>2. v = [w EXCEPT !.bits[c] = bits]
        OBVIOUS
    <2> HIDE DEF bits, v
    <2>3. OnlyOf(w, v, c) /\ v.affs = w.affs /\ v.mods = w.mods /\ v.bits[c] = bits
        BY <1>1, <2>1, <2>2 DEF Worlds, OnlyOf
    <2> QED
        BY <2>3 DEF bits
<1> HIDE DEF v
<1>3. Sourced(v, c) /\ Mastered(v, c)
    BY <1>2, GoodIs DEF Sourced, Mastered, OnlyOf
<1>4. ASSUME c \notin w.etched
      PROVE  Summed(v, c)
    <2>1. Summed(w, c) /\ \A x : OfItems(v, c, x) = OfItems(w, c, x)
        BY <1>2, <1>4, GoodIs, ItemsSame DEF OnlyOf
    <2> QED
        BY <1>2, <2>1 DEF Summed
<1>5. v \in Good
    BY <1>2, <1>3, <1>4, PutGood
<1> QED
    BY <1>5 DEF v

-----------------------------------------------------------------------------
(***************************************************************************)
(* The affects of one spell.                                               *)
(***************************************************************************)
Free == {bits \in SUBSET Bits : "Charm" \notin bits}

Add == Locations \X Int \X SUBSET Bits

Adds == Seq(Locations \X Int \X Free)

\* What may be added to c.
MayAdd(w, c, a) == a \in Add /\ (w.master[c] # Nobody \/ a[3] \in Free)

\* What is added is an affect.
LEMMA AddIs ==
    ASSUME NEW a \in Add, NEW sn \in Types, NEW l \in Int, NEW lasts \in Int
    PROVE  Affect(sn, l, lasts, a[1], a[2], a[3]) \in Affs
    BY DEF Add, Affect, Affs

\* One affect of a spell is put on its victim.
LEMMA OneAdded ==
    ASSUME NEW w \in Good, NEW c \in Chars, NEW a, MayAdd(w, c, a), NEW sn \in Types, NEW l \in Int,
           NEW lasts \in Int
    PROVE  /\ affect_to_char(w, c, Affect(sn, l, lasts, a[1], a[2], a[3])) \in Good
           /\ OnlyOf(w, affect_to_char(w, c, Affect(sn, l, lasts, a[1], a[2], a[3])), c)
<1> DEFINE x == Affect(sn, l, lasts, a[1], a[2], a[3])
<1>1. x \in Affs
    BY AddIs DEF MayAdd
<1>2. x.bits = a[3]
    BY DEF Affect
<1>3. "Charm" \in x.bits => w.master[c] # Nobody
    BY <1>2 DEF MayAdd, Free
<1> HIDE DEF x
<1>4. affect_to_char(w, c, x) \in Good /\ OnlyOf(w, affect_to_char(w, c, x), c)
    BY <1>1, <1>3, ToCharGood
<1> QED
    BY <1>4 DEF x

\* So are all of them, one after the other.
LEMMA AddedOne ==
    ASSUME NEW w \in Good, NEW c \in Chars, NEW adds, adds \in Seq(Add), \A i \in 1 .. Len(adds) : MayAdd(w, c, adds[i]),
           NEW sn \in Types, NEW l \in Int, NEW lasts \in Int
    PROVE  AddedFor(w, c, sn, l, lasts, adds) \in Good /\ OnlyOf(w, AddedFor(w, c, sn, l, lasts, adds), c)
<1> DEFINE n == Len(adds)
           D == {u \in Good : OnlyOf(w, u, c)}
           Op(u, y) == affect_to_char(u, c, Affect(sn, l, lasts, y[1], y[2], y[3]))
           G == [p \in (1 .. n) \X D |-> Op(p[2], adds[p[1]])]
           Is(h) == h = [s \in SUBSET (1 .. n) |-> IF s = {} THEN w ELSE Op(h[s \ {Max(s)}], adds[Max(s)])]
           f == CHOOSE h : Is(h)
<1>1. n \in Nat /\ DOMAIN adds = 1 .. n /\ w \in D
    BY GoodIs, OnlyBegins
<1>2. \A i \in 1 .. n : \A u \in D : G[<<i, u>>] = Op(u, adds[i])
    OBVIOUS
<1>3. Within(G, 1 .. n, D)
    <2>1. ASSUME NEW i \in 1 .. n, NEW u \in D
          PROVE  Op(u, adds[i]) \in D
        <3> DEFINE a == adds[i]
                   v == Op(u, a)
        <3>1. u \in Good /\ OnlyOf(w, u, c)
            OBVIOUS
        <3>2. MayAdd(u, c, a)
            BY <3>1 DEF MayAdd, OnlyOf
        <3> HIDE DEF a
        <3>3. v \in Good /\ OnlyOf(u, v, c)
            BY <3>1, <3>2, OneAdded
        <3> HIDE DEF v
        <3>4. v \in D
            BY <3>1, <3>3, OnlyOn
        <3> QED
            BY <3>4 DEF v, a
    <2> HIDE DEF G
    <2> QED
        BY <1>2, <2>1 DEF Within
<1>4. AddedFor(w, c, sn, l, lasts, adds) = f[1 .. n]
    BY <1>1 DEF AddedFor, FoldLeft, MapThenFoldSet
<1> HIDE DEF G, Op, n, D
<1>5. PICK g : ListFolded(g, n, w, G) /\ \A s \in SUBSET (1 .. n) : g[s] \in D
    BY <1>1, <1>3, ListExists
<1>6. \A s \in SUBSET (1 .. n) : s # {} => Max(s) \in 1 .. n /\ s \ {Max(s)} \in SUBSET (1 .. n)
    BY <1>1, MaxOf
<1>7. Is(g)
    BY <1>2, <1>5, <1>6 DEF ListFolded
<1>8. Is(f)
    BY <1>7
<1> HIDE DEF f
<1>9. f[{}] = w /\ \A s \in SUBSET (1 .. n) : s # {} => f[s] = Op(f[s \ {Max(s)}], adds[Max(s)])
    BY <1>8
<1>10. ListFolds(f, n, D, w, G)
    BY <1>2, <1>6, <1>9 DEF ListFolds
<1>11. f[1 .. n] \in D
    BY <1>1, <1>3, <1>10, ListEnds
<1> QED
    BY <1>4, <1>11 DEF D

\* Charm is the only bit that is not free.
LEMMA FreeIs ==
    /\ {} \in Free
    /\ \A x \in Bits : x # "Charm" => {x} \in Free
    BY DEF Free

\* A spell of one affect.
LEMMA AddsOne ==
    ASSUME NEW x \in Locations, NEW m \in Int, NEW b \in Free
    PROVE  <<<<x, m, b>>>> \in Adds
    BY DEF Adds

\* A spell of two.
LEMMA AddsTwo ==
    ASSUME NEW x \in Locations, NEW m \in Int, NEW b \in Free, NEW y \in Locations, NEW n \in Int, NEW d \in Free
    PROVE  <<<<x, m, b>>, <<y, n, d>>>> \in Adds
    BY DEF Adds

\* A spell of three.
LEMMA AddsThree ==
    ASSUME NEW x \in Locations, NEW m \in Int, NEW b \in Free, NEW y \in Locations, NEW n \in Int, NEW d \in Free,
           NEW z \in Locations, NEW k \in Int, NEW e \in Free
    PROVE  <<<<x, m, b>>, <<y, n, d>>, <<z, k, e>>>> \in Adds
    BY DEF Adds

\* What does not charm may be added to anybody.
LEMMA AddedGood ==
    ASSUME NEW w \in Good, NEW c \in Chars, NEW sn \in Types, NEW l \in Int, NEW adds \in Adds
    PROVE  /\ Added(w, c, sn, l, adds) \in Good
           /\ \A lasts \in Int : AddedFor(w, c, sn, l, lasts, adds) \in Good
<1>1. adds \in Seq(Add) /\ \A i \in 1 .. Len(adds) : MayAdd(w, c, adds[i])
    <2>1. adds \in Seq(Add)
        BY DEF Adds, Add, Free
    <2>2. \A i \in 1 .. Len(adds) : adds[i] \in Add /\ adds[i] \in Locations \X Int \X Free
        BY <2>1 DEF Adds
    <2> QED
        BY <2>1, <2>2 DEF MayAdd
<1>2. \A lasts \in Int : AddedFor(w, c, sn, l, lasts, adds) \in Good
    BY <1>1, AddedOne
<1>3. Lasts \in Int
    BY AffectsAssumption
<1> QED
    BY <1>2, <1>3 DEF Added

-----------------------------------------------------------------------------
(***************************************************************************)
(* Affects of a kind.                                                      *)
(***************************************************************************)
\* affect_strip: all of one kind go.
LEMMA StripGood ==
    ASSUME NEW w \in Good, NEW c \in Chars, NEW sn
    PROVE  /\ affect_strip(w, c, sn) \in Good /\ OnlyOf(w, affect_strip(w, c, sn), c)
           /\ affect_strip(w, c, sn).bits[c] \subseteq w.bits[c]
<1> DEFINE over == OfType(w, c, sn)
<1> HIDE DEF over
<1>1. /\ RemovedAll(w, c, over) \in Good /\ OnlyOf(w, RemovedAll(w, c, over), c)
      /\ RemovedAll(w, c, over).bits[c] \subseteq w.bits[c]
    BY RemovedGood
<1> QED
    BY <1>1 DEF affect_strip, over

\* Several kinds, one after the other.
LEMMA StrippedGood ==
    ASSUME NEW w \in Good, NEW c \in Chars, NEW U, NEW sns \in Seq(U)
    PROVE  AffectsStripped(w, c, sns) \in Good
<1> DEFINE n == Len(sns)
           D == Good
           Op(u, sn) == affect_strip(u, c, sn)
           G == [p \in (1 .. n) \X D |-> Op(p[2], sns[p[1]])]
           Is(h) == h = [s \in SUBSET (1 .. n) |-> IF s = {} THEN w ELSE Op(h[s \ {Max(s)}], sns[Max(s)])]
           f == CHOOSE h : Is(h)
<1>1. n \in Nat /\ DOMAIN sns = 1 .. n /\ w \in D
    OBVIOUS
<1>2. \A i \in 1 .. n : \A u \in D : G[<<i, u>>] = Op(u, sns[i])
    OBVIOUS
<1>3. Within(G, 1 .. n, D)
    <2>1. \A i \in 1 .. n : \A u \in D : Op(u, sns[i]) \in D
        BY StripGood
    <2> HIDE DEF G
    <2> QED
        BY <1>2, <2>1 DEF Within
<1>4. AffectsStripped(w, c, sns) = f[1 .. n]
    BY <1>1 DEF AffectsStripped, FoldLeft, MapThenFoldSet
<1> HIDE DEF G, Op, n, D
<1>5. PICK g : ListFolded(g, n, w, G) /\ \A s \in SUBSET (1 .. n) : g[s] \in D
    BY <1>1, <1>3, ListExists
<1>6. \A s \in SUBSET (1 .. n) : s # {} => Max(s) \in 1 .. n /\ s \ {Max(s)} \in SUBSET (1 .. n)
    BY <1>1, MaxOf
<1>7. Is(g)
    BY <1>2, <1>5, <1>6 DEF ListFolded
<1>8. Is(f)
    BY <1>7
<1> HIDE DEF f
<1>9. f[{}] = w /\ \A s \in SUBSET (1 .. n) : s # {} => f[s] = Op(f[s \ {Max(s)}], sns[Max(s)])
    BY <1>8
<1>10. ListFolds(f, n, D, w, G)
    BY <1>2, <1>6, <1>9 DEF ListFolds
<1>11. f[1 .. n] \in D
    BY <1>1, <1>3, <1>10, ListEnds
<1> QED
    BY <1>4, <1>11 DEF D

\* Who is affected by it has an affect of the kind listed.
LEMMA ListedOf ==
    ASSUME NEW w \in Good, NEW c \in Chars, NEW sn
    PROVE  /\ find_affect(w, c, sn) \in Lists /\ ToSet(find_affect(w, c, sn)) = OfType(w, c, sn)
           /\ is_affected_by(w, c, sn) => /\ Len(find_affect(w, c, sn)) > 0
                                          /\ find_affect(w, c, sn)[1] \in Affs
                                          /\ \E i \in 1 .. Len(w.affs[c]) : w.affs[c][i].type = sn
<1> DEFINE affs == w.affs[c]
           some == OfType(w, c, sn)
           found == Among(affs, some)
<1>1. affs \in Lists
    BY GoodIs, WorldIs
<1>2. some \subseteq ToSet(affs) /\ \A a \in some : a.type = sn
    BY DEF OfType
<1> HIDE DEF affs, some
<1>3. found \in Lists /\ ToSet(found) = ToSet(affs) \cap some
    BY <1>1, AmongIs
<1>4. ToSet(found) = some
    BY <1>2, <1>3
<1> HIDE DEF found
<1>5. ASSUME some # {}
      PROVE  /\ Len(found) > 0 /\ found[1] \in Affs
             /\ \E i \in 1 .. Len(affs) : affs[i].type = sn
    <2>1. found \in Seq(Affs) /\ affs \in Seq(Affs)
        BY <1>1, <1>3 DEF Lists
    <2>a. found # <<>>
        BY <1>4, <1>5, NoneIs
    <2>2. Len(found) \in Nat /\ Len(found) > 0 /\ found[1] \in Affs
        BY <2>1, <2>a
    <2>3. found[1] \in ToSet(found)
        BY <2>1, <2>2 DEF ToSet
    <2>4. found[1].type = sn /\ found[1] \in ToSet(affs)
        BY <1>2, <1>4, <2>3
    <2>5. PICK i \in 1 .. Len(affs) : affs[i] = found[1]
        BY <2>1, <2>4 DEF ToSet
    <2> QED
        BY <2>2, <2>4, <2>5
<1> QED
    BY <1>3, <1>4, <1>5 DEF is_affected_by, find_affect, found, some, affs

\* The first of a kind.
FirstIn(affs, sn) == SelectInSeq(affs, LAMBDA x : x.type = sn)

\* If there is any, it is in the list.
LEMMA FirstOf ==
    ASSUME NEW affs \in Lists, NEW sn, \E i \in 1 .. Len(affs) : affs[i].type = sn
    PROVE  FirstIn(affs, sn) \in 1 .. Len(affs)
<1> DEFINE N == {i \in 1 .. Len(affs) : affs[i].type = sn}
<1>1. N \in SUBSET Nat /\ N # {} /\ N \subseteq 1 .. Len(affs)
    BY ListIs
<1>2. FirstIn(affs, sn) = Min(N)
    BY <1>1 DEF FirstIn, SelectInSeq
<1> HIDE DEF N
<1>3. \E n \in N : \A m \in N : n <= m
    BY <1>1, LeastNumber
<1>4. Min(N) \in N
    BY <1>3 DEF Min
<1> QED
    BY <1>1, <1>2, <1>4

\* An affect takes the place of another of its kind.
LEMMA JoinGood ==
    ASSUME NEW w \in Good, NEW c \in Chars, NEW a \in Affs, "Charm" \notin a.bits
    PROVE  affect_join(w, c, a) \in Good
<1> DEFINE k == FirstIn(w.affs[c], a.type)
           u == IF is_affected_by(w, c, a.type) THEN affect_remove(w, c, k) ELSE w
<1>1. w.affs[c] \in Lists
    BY GoodIs, WorldIs
<1>2. ASSUME is_affected_by(w, c, a.type)
      PROVE  k \in 1 .. Len(w.affs[c])
    <2>1. \E i \in 1 .. Len(w.affs[c]) : w.affs[c][i].type = a.type
        BY <1>2, ListedOf
    <2> QED
        BY <1>1, <2>1, FirstOf
<1>3. affect_join(w, c, a) = affect_to_char(u, c, a)
    BY DEF affect_join, FirstIn
<1> HIDE DEF k
<1>4. u \in Good
    BY <1>2, RemoveGood
<1> HIDE DEF u
<1>5. affect_to_char(u, c, a) \in Good
    BY <1>4, ToCharGood
<1> QED
    BY <1>3, <1>5

\* So for each of the affects that are joined.
LEMMA JoinedGood ==
    ASSUME NEW w \in Good, NEW c \in Chars, NEW sn \in Types, NEW l \in Int, NEW x \in Locations, NEW m \in Int,
           NEW b \in Free
    PROVE  affect_join(w, c, Affect(sn, l, Lasts, x, m, b)) \in Good
<1> DEFINE a == Affect(sn, l, Lasts, x, m, b)
<1>1. a \in Affs /\ "Charm" \notin a.bits
    BY AffectsAssumption DEF Affect, Affs, Free
<1> HIDE DEF a
<1>2. affect_join(w, c, a) \in Good
    BY <1>1, JoinGood
<1> QED
    BY <1>2 DEF a

\* A list of affects that differ in how strong they are and how long they last.
LEMMA RestatedGood ==
    ASSUME NEW w \in Good, NEW c \in Chars, NEW affs \in Lists, Len(affs) = Len(w.affs[c]),
           \A i \in 1 .. Len(affs) : /\ affs[i].bits = w.affs[c][i].bits
                                     /\ affs[i].location = w.affs[c][i].location
                                     /\ affs[i].modifier = w.affs[c][i].modifier
    PROVE  Listed(w, c, affs) \in Good
<1> DEFINE old == w.affs[c]
           v == Listed(w, c, affs)
<1>1. w \in Worlds /\ old \in Lists
    BY GoodIs, WorldIs
<1>2. OnlyOf(w, v, c) /\ v.affs[c] = affs /\ v.bits = w.bits /\ v.mods = w.mods
    BY <1>1, ListedIs
<1>3. \A x : OfAffects(affs, x) = OfAffects(old, x)
    BY <1>1, SumSame
<1>4. \A a \in ToSet(old) : \E b \in ToSet(affs) : b.bits = a.bits
    <2> SUFFICES ASSUME NEW a \in ToSet(old)
                 PROVE  \E b \in ToSet(affs) : b.bits = a.bits
        OBVIOUS
    <2>1. ToSet(old) = {old[i] : i \in 1 .. Len(old)}
        BY <1>1, ListIs
    <2>2. PICK i \in 1 .. Len(old) : a = old[i]
        BY <2>1
    <2>3. affs[i] \in ToSet(affs)
        BY ListIs
    <2>4. affs[i].bits = a.bits
        BY <2>2
    <2> QED
        BY <2>3, <2>4
<1>a. old = w.affs[c]
    OBVIOUS
<1> HIDE DEF v, old
<1>5. Sourced(v, c)
    <2>1. Sourced(w, c)
        BY GoodIs
    <2> QED
        BY <1>2, <1>4, <1>a, <2>1 DEF Sourced
<1>6. Mastered(v, c)
    BY <1>2, GoodIs DEF Mastered, OnlyOf
<1>7. ASSUME c \notin w.etched
      PROVE  Summed(v, c)
    <2>1. Summed(w, c) /\ \A x : OfItems(v, c, x) = OfItems(w, c, x)
        BY <1>2, <1>7, GoodIs, ItemsSame DEF OnlyOf
    <2> QED
        BY <1>2, <1>3, <1>a, <2>1 DEF Summed
<1>8. v \in Good
    BY <1>2, <1>5, <1>6, <1>7, PutGood
<1> QED
    BY <1>8 DEF v

-----------------------------------------------------------------------------
(***************************************************************************)
(* What one item adds to the scores of whoever wears it.                   *)
(***************************************************************************)
Share(w, o, d, x) == IF w.item[o].at = d /\ w.item[o].worn THEN ItemModifiers(w.item[o])[x] ELSE 0

\* The sum of what somebody wears is that of one item and of all others.
LEMMA ShareIs ==
    ASSUME NEW w \in Worlds, NEW o \in Items, NEW d, NEW x \in Locations
    PROVE  /\ Share(w, o, d, x) \in Int /\ Total(Gear(w, x), Worn(w, d) \ {o}) \in Int
           /\ OfItems(w, d, x) = Share(w, o, d, x) + Total(Gear(w, x), Worn(w, d) \ {o})
<1> DEFINE f == Gear(w, x)
           S == Worn(w, d)
<1>1. /\ OfItems(w, d, x) = Total(f, S) /\ \A p \in Items : f[p] = ItemModifiers(w.item[p])[x] /\ f[p] \in Int
      /\ IsFiniteSet(S) /\ S \in SUBSET Items
    BY WornIs
<1>2. o \in S <=> w.item[o].at = d /\ w.item[o].worn
    BY DEF Worn
<1>a. IsFiniteSet(S \ {o})
    BY <1>1, FS_Subset
<1> HIDE DEF f, S
<1>3. ASSUME o \in S
      PROVE  /\ Share(w, o, d, x) \in Int /\ Total(f, S \ {o}) \in Int
             /\ OfItems(w, d, x) = Share(w, o, d, x) + Total(f, S \ {o})
    <2>1. Total(f, S) = f[o] + Total(f, S \ {o}) /\ Total(f, S \ {o}) \in Int
        <3>1. \A p \in S : f[p] \in Int
            BY <1>1
        <3> QED
            BY <1>1, <1>3, <3>1, TotalOut
    <2>2. Share(w, o, d, x) = f[o] /\ f[o] \in Int
        BY <1>1, <1>2, <1>3 DEF Share
    <2> QED
        BY <1>1, <2>1, <2>2
<1>4. ASSUME o \notin S
      PROVE  /\ Share(w, o, d, x) \in Int /\ Total(f, S \ {o}) \in Int
             /\ OfItems(w, d, x) = Share(w, o, d, x) + Total(f, S \ {o})
    <2> DEFINE R == S \ {o}
    <2>1. R = S /\ Share(w, o, d, x) = 0
        BY <1>2, <1>4 DEF Share
    <2> HIDE DEF R
    <2>2. Total(f, S) \in Int
        <3>1. \A p \in S : f[p] \in Int
            BY <1>1
        <3> QED
            BY <1>1, <3>1, TotalIs
    <2>3. Total(f, R) = Total(f, S)
        BY <2>1
    <2>4. Total(f, R) \in Int /\ OfItems(w, d, x) = Share(w, o, d, x) + Total(f, R)
        BY <1>1, <2>1, <2>2, <2>3
    <2> QED
        BY <2>1, <2>4 DEF R
<1> QED
    BY <1>3, <1>4 DEF f, S

\* No other item is changed.
ButOne(w, v, o) == \A p \in Items \ {o} : v.item[p] = w.item[p]

\* When one item is changed, the others add what they added.
LEMMA SharesLeft ==
    ASSUME NEW w \in Worlds, NEW v \in Worlds, NEW o \in Items, ButOne(w, v, o), NEW d, NEW x \in Locations
    PROVE  OfItems(v, d, x) - Share(v, o, d, x) = OfItems(w, d, x) - Share(w, o, d, x)
<1> DEFINE f == Gear(w, x)
           g == Gear(v, x)
           S == Worn(w, d) \ {o}
           T == Worn(v, d) \ {o}
<1>1. S = T /\ IsFiniteSet(S) /\ S \in SUBSET Items
    <2>1. IsFiniteSet(Worn(w, d)) /\ Worn(w, d) \in SUBSET Items
        BY WornIs
    <2>2. IsFiniteSet(S)
        BY <2>1, FS_Subset
    <2> QED
        BY <2>1, <2>2 DEF Worn, ButOne
<1>2. \A p \in S : f[p] \in Int /\ g[p] = f[p]
    <2> SUFFICES ASSUME NEW p \in S
                 PROVE  f[p] \in Int /\ g[p] = f[p]
        OBVIOUS
    <2>1. p \in Items \ {o}
        BY DEF Worn
    <2>2. f[p] = ItemModifiers(w.item[p])[x] /\ f[p] \in Int /\ g[p] = ItemModifiers(v.item[p])[x]
        BY <2>1, WornIs
    <2> QED
        BY <2>1, <2>2 DEF ButOne
<1> HIDE DEF f, g, S, T
<1>3. Total(g, S) = Total(f, S)
    BY <1>1, <1>2, TotalAgree
<1>4. /\ Share(w, o, d, x) \in Int /\ Total(f, S) \in Int /\ OfItems(w, d, x) = Share(w, o, d, x) + Total(f, S)
      /\ Share(v, o, d, x) \in Int /\ Total(g, T) \in Int /\ OfItems(v, d, x) = Share(v, o, d, x) + Total(g, T)
    BY ShareIs DEF f, g, S, T
<1> QED
    BY <1>1, <1>3, <1>4

\* One item is changed, and what it adds is made good.
Exchanged(w, v, o) ==
    /\ ButOne(w, v, o) /\ v.affs = w.affs /\ v.bits = w.bits /\ v.master = w.master /\ w.etched \subseteq v.etched
    /\ v.item[o].worn => v.item[o].at \in Chars
    /\ \A d \in Chars \ v.etched : \A x \in Locations :
           v.mods[d][x] - Share(v, o, d, x) = w.mods[d][x] - Share(w, o, d, x)

\* So the scores still are what the lists and the items make of them.
LEMMA ExchangedGood ==
    ASSUME NEW w \in Good, NEW v \in Worlds, NEW o \in Items, Exchanged(w, v, o)
    PROVE  v \in Good
<1>1. w \in Worlds
    BY GoodIs
<1>2. \A d \in Chars : Sourced(v, d) /\ Mastered(v, d)
    BY GoodIs DEF Exchanged, Sourced, Mastered
<1>3. ASSUME NEW d \in Chars \ v.etched, NEW x \in Locations
      PROVE  v.mods[d][x] = OfAffects(v.affs[d], x) + OfItems(v, d, x)
    <2>1. w.mods[d][x] = OfAffects(w.affs[d], x) + OfItems(w, d, x)
        BY GoodIs DEF Exchanged, Summed
    <2>2. OfItems(v, d, x) - Share(v, o, d, x) = OfItems(w, d, x) - Share(w, o, d, x)
        BY <1>1, SharesLeft DEF Exchanged
    <2>3. v.mods[d][x] - Share(v, o, d, x) = w.mods[d][x] - Share(w, o, d, x)
        BY DEF Exchanged
    <2>4. v.mods[d][x] \in Int /\ w.mods[d][x] \in Int
        BY <1>1, ScoreIs
    <2>5. /\ Share(w, o, d, x) \in Int /\ Share(v, o, d, x) \in Int
          /\ OfItems(w, d, x) \in Int /\ OfItems(v, d, x) \in Int
        BY <1>1, ShareIs, WornIs
    <2>6. OfAffects(w.affs[d], x) \in Int /\ v.affs = w.affs
        BY <1>1, WorldIs, ListIs DEF Exchanged
    <2> DEFINE new == v.mods[d][x]
               old == w.mods[d][x]
               p == OfItems(v, d, x)
               q == OfItems(w, d, x)
               s == Share(v, o, d, x)
               t == Share(w, o, d, x)
               a == OfAffects(w.affs[d], x)
    <2>7. old = a + q /\ p - s = q - t /\ new - s = old - t
        BY <2>1, <2>2, <2>3
    <2>8. {new, old, p, q, s, t, a} \subseteq Int
        BY <2>4, <2>5, <2>6
    <2>9. OfAffects(v.affs[d], x) = a
        BY <2>6
    <2> HIDE DEF new, old, p, q, s, t, a
    <2>10. new = a + p
        BY ONLY <2>7, <2>8
    <2> QED
        BY <2>9, <2>10 DEF new, p
<1>4. WornOn(v)
    BY GoodIs DEF Exchanged, ButOne, WornOn
<1> QED
    BY <1>2, <1>3, <1>4 DEF Good, Summed

-----------------------------------------------------------------------------
(***************************************************************************)
(* Things are worn and taken off.                                          *)
(***************************************************************************)
Handled(w, c, o, i, mods) == [w EXCEPT !.item[o] = i, !.mods[c] = mods]

\* One item and the scores of one Char are changed, and no more.
LEMMA HandledIs ==
    ASSUME NEW w \in Worlds, NEW c \in Chars, NEW o \in Items, NEW i \in Goods, NEW mods \in Scores
    PROVE  /\ Handled(w, c, o, i, mods) \in Worlds /\ ButOne(w, Handled(w, c, o, i, mods), o)
           /\ Handled(w, c, o, i, mods).item[o] = i
           /\ Handled(w, c, o, i, mods).mods[c] = mods
           /\ \A d \in Chars \ {c} : Handled(w, c, o, i, mods).mods[d] = w.mods[d]
           /\ Handled(w, c, o, i, mods).affs = w.affs /\ Handled(w, c, o, i, mods).bits = w.bits
           /\ Handled(w, c, o, i, mods).master = w.master /\ Handled(w, c, o, i, mods).etched = w.etched
           /\ Handled(w, c, o, i, mods).pos = w.pos
<1> DEFINE B == [w.item EXCEPT ![o] = i]
           M == [w.mods EXCEPT ![c] = mods]
           v == Handled(w, c, o, i, mods)
<1>1. B \in [Items -> Goods] /\ B[o] = i /\ \A p \in Items \ {o} : B[p] = w.item[p]
    BY WorldIs
<1>2. M \in [Chars -> Scores] /\ M[c] = mods /\ \A d \in Chars \ {c} : M[d] = w.mods[d]
    BY WorldIs
<1>3. v = [w EXCEPT !.item = B, !.mods = M]
    BY WorldIs DEF Handled
<1> HIDE DEF B, M, v
<1>4. /\ v \in Worlds /\ v.item = B /\ v.mods = M /\ v.affs = w.affs /\ v.bits = w.bits
      /\ v.master = w.master /\ v.etched = w.etched /\ v.pos = w.pos
    BY <1>1, <1>2, <1>3 DEF Worlds
<1> QED
    BY <1>1, <1>2, <1>4 DEF ButOne, v

\* What is not worn, and stays so, may be changed at will.
LEMMA UnwornGood ==
    ASSUME NEW w \in Good, NEW o \in Items, ~w.item[o].worn, NEW i \in Goods, ~i.worn
    PROVE  /\ [w EXCEPT !.item[o] = i] \in Good /\ [w EXCEPT !.item[o] = i].affs = w.affs
           /\ [w EXCEPT !.item[o] = i].item[o] = i /\ ButOne(w, [w EXCEPT !.item[o] = i], o)
           /\ [w EXCEPT !.item[o] = i].etched = w.etched
<1> DEFINE v == [w EXCEPT !.item[o] = i]
<1>1. /\ v \in Worlds /\ ButOne(w, v, o) /\ v.item[o] = i /\ v.mods = w.mods
      /\ v.affs = w.affs /\ v.bits = w.bits /\ v.master = w.master /\ v.etched = w.etched
    BY GoodIs DEF Worlds, ButOne
<1> HIDE DEF v
<1>2. \A d, x : Share(v, o, d, x) = 0 /\ Share(w, o, d, x) = 0
    BY <1>1 DEF Share
<1>3. Exchanged(w, v, o)
    BY <1>1, <1>2 DEF Exchanged
<1>4. v \in Good
    BY <1>1, <1>3, ExchangedGood
<1> QED
    BY <1>1, <1>4 DEF v

\* So may the flags of what is worn.
LEMMA FlagsGood ==
    ASSUME NEW w \in Good, NEW o \in Items, NEW flags \in SUBSET Flags
    PROVE  [w EXCEPT !.item[o].flags = flags] \in Good
<1> DEFINE i == [w.item[o] EXCEPT !.flags = flags]
           v == [w EXCEPT !.item[o].flags = flags]
<1>1. w \in Worlds /\ w.item[o] \in Goods
    BY GoodIs, WorldIs
<1>2. /\ i \in Goods /\ i.worn = w.item[o].worn /\ i.at = w.item[o].at /\ i.value = w.item[o].value
      /\ i.mods = w.item[o].mods
    BY <1>1 DEF Goods
<1>3. v = [w EXCEPT !.item[o] = i]
    BY <1>1, WorldIs
<1> HIDE DEF i, v
<1>4. /\ v \in Worlds /\ ButOne(w, v, o) /\ v.item[o] = i /\ v.mods = w.mods
      /\ v.affs = w.affs /\ v.bits = w.bits /\ v.master = w.master /\ v.etched = w.etched
    BY <1>1, <1>2, <1>3 DEF Worlds, ButOne
<1>5. \A d, x : Share(v, o, d, x) = Share(w, o, d, x)
    BY <1>2, <1>4 DEF Share, ItemModifiers
<1>6. WornOn(w)
    BY GoodIs
<1>7. Exchanged(w, v, o)
    BY <1>2, <1>4, <1>5, <1>6 DEF Exchanged, WornOn
<1>8. v \in Good
    BY <1>4, <1>7, ExchangedGood
<1> QED
    BY <1>8 DEF v

\* What is put on adds what it adds.
LEMMA EquipGood ==
    ASSUME NEW w \in Good, NEW c \in Chars, NEW o \in Items, w.item[o].at = c, ~w.item[o].worn
    PROVE  equip_char(w, c, o) \in Good
<1> DEFINE m == ItemModifiers(w.item[o])
           i == [w.item[o] EXCEPT !.worn = TRUE]
           mods == [x \in Locations |-> w.mods[c][x] + 1 * m[x]]
           v == Handled(w, c, o, i, mods)
<1>1. w \in Worlds /\ w.item[o] \in Goods /\ m \in Scores
    BY GoodIs, WorldIs, GearIs
<1>2. /\ i \in Goods /\ i.worn /\ i.at = c /\ ItemModifiers(i) = m
    BY <1>1 DEF Goods, ItemModifiers
<1>3. \A x \in Locations : w.mods[c][x] \in Int /\ m[x] \in Int
    BY <1>1, ScoreIs DEF Scores
<1>4. mods \in Scores /\ \A x \in Locations : mods[x] = w.mods[c][x] + m[x]
    BY <1>3 DEF Scores
<1>5. equip_char(w, c, o) = v
    BY <1>1, WorldIs DEF equip_char, Shifted, Handled
<1> HIDE DEF m, i, mods
<1>6. /\ v \in Worlds /\ ButOne(w, v, o) /\ v.item[o] = i /\ v.mods[c] = mods
      /\ \A d \in Chars \ {c} : v.mods[d] = w.mods[d]
      /\ v.affs = w.affs /\ v.bits = w.bits /\ v.master = w.master /\ v.etched = w.etched
    BY <1>1, <1>2, <1>4, HandledIs
<1> HIDE DEF v
<1>7. \A d \in Chars, x \in Locations : Share(v, o, d, x) = (IF d = c THEN m[x] ELSE 0) /\ Share(w, o, d, x) = 0
    BY <1>2, <1>6 DEF Share
<1>8. ASSUME NEW d \in Chars, NEW x \in Locations
      PROVE  v.mods[d][x] - Share(v, o, d, x) = w.mods[d][x] - Share(w, o, d, x)
    <2>1. Share(v, o, d, x) = (IF d = c THEN m[x] ELSE 0) /\ Share(w, o, d, x) = 0
        BY <1>7
    <2>2. w.mods[d][x] \in Int /\ m[x] \in Int
        BY <1>1, <1>3, ScoreIs
    <2>3. v.mods[d][x] = w.mods[d][x] + IF d = c THEN m[x] ELSE 0
        BY <1>4, <1>6, <2>2
    <2> QED
        BY <2>1, <2>2, <2>3
<1>9. Exchanged(w, v, o)
    BY <1>2, <1>6, <1>8 DEF Exchanged
<1>10. v \in Good
    BY <1>6, <1>9, ExchangedGood
<1> QED
    BY <1>5, <1>10

\* What is taken off takes it away again.
LEMMA UnequipGood ==
    ASSUME NEW w \in Good, NEW c \in Chars, NEW o \in Items, w.item[o].at = c, w.item[o].worn
    PROVE  /\ unequip_char(w, c, o) \in Good /\ ~unequip_char(w, c, o).item[o].worn
           /\ unequip_char(w, c, o).affs = w.affs /\ ButOne(w, unequip_char(w, c, o), o)
<1> DEFINE m == ItemModifiers(w.item[o])
           i == [w.item[o] EXCEPT !.worn = FALSE]
           mods == [x \in Locations |-> w.mods[c][x] + (-1) * m[x]]
           v == Handled(w, c, o, i, mods)
<1>1. w \in Worlds /\ w.item[o] \in Goods /\ m \in Scores
    BY GoodIs, WorldIs, GearIs
<1>2. i \in Goods /\ ~i.worn
    BY <1>1 DEF Goods
<1>3. \A x \in Locations : w.mods[c][x] \in Int /\ m[x] \in Int
    BY <1>1, ScoreIs DEF Scores
<1>4. mods \in Scores /\ \A x \in Locations : mods[x] = w.mods[c][x] - m[x]
    BY <1>3 DEF Scores
<1>5. unequip_char(w, c, o) = v
    BY <1>1, WorldIs DEF unequip_char, Shifted, Handled
<1>a. \A x : m[x] = ItemModifiers(w.item[o])[x]
    OBVIOUS
<1> HIDE DEF m, i, mods
<1>6. /\ v \in Worlds /\ ButOne(w, v, o) /\ v.item[o] = i /\ v.mods[c] = mods
      /\ \A d \in Chars \ {c} : v.mods[d] = w.mods[d]
      /\ v.affs = w.affs /\ v.bits = w.bits /\ v.master = w.master /\ v.etched = w.etched
    BY <1>1, <1>2, <1>4, HandledIs
<1> HIDE DEF v
<1>7. \A d \in Chars, x \in Locations : Share(w, o, d, x) = (IF d = c THEN m[x] ELSE 0) /\ Share(v, o, d, x) = 0
    BY <1>2, <1>6, <1>a DEF Share
<1>8. ASSUME NEW d \in Chars, NEW x \in Locations
      PROVE  v.mods[d][x] - Share(v, o, d, x) = w.mods[d][x] - Share(w, o, d, x)
    <2>1. Share(w, o, d, x) = (IF d = c THEN m[x] ELSE 0) /\ Share(v, o, d, x) = 0
        BY <1>7
    <2>2. w.mods[d][x] \in Int /\ m[x] \in Int
        BY <1>1, <1>3, ScoreIs
    <2>3. v.mods[d][x] = w.mods[d][x] - IF d = c THEN m[x] ELSE 0
        BY <1>4, <1>6, <2>2
    <2> QED
        BY <2>1, <2>2, <2>3
<1>9. Exchanged(w, v, o)
    BY <1>2, <1>6, <1>8 DEF Exchanged
<1>10. v \in Good
    BY <1>6, <1>9, ExchangedGood
<1> QED
    BY <1>2, <1>5, <1>6, <1>10

\* An item that is no more is on nobody.
LEMMA ExtractGood ==
    ASSUME NEW w \in Good, NEW o \in Items
    PROVE  /\ extract_obj(w, o) \in Good /\ extract_obj(w, o).affs = w.affs
           /\ extract_obj(w, o).item[o].at = Gone /\ ButOne(w, extract_obj(w, o), o)
<1> DEFINE c == w.item[o].at
           u == IF w.item[o].worn THEN unequip_char(w, c, o) ELSE w
           i == [u.item[o] EXCEPT !.at = Gone]
           v == [u EXCEPT !.item[o] = i]
<1>1. u \in Good /\ ~u.item[o].worn /\ u.affs = w.affs /\ ButOne(w, u, o)
    <2>1. CASE w.item[o].worn
        <3>1. c \in Chars
            BY <2>1, GoodIs DEF WornOn
        <3>2. u = unequip_char(w, c, o)
            BY <2>1
        <3> HIDE DEF u
        <3> QED
            BY <2>1, <3>1, <3>2, UnequipGood
    <2>2. CASE ~w.item[o].worn
        BY <2>2 DEF ButOne
    <2> QED
        BY <2>1, <2>2
<1>2. extract_obj(w, o) = [u EXCEPT !.item[o].at = Gone]
    BY DEF extract_obj
<1> HIDE DEF u
<1>3. u \in Worlds /\ u.item[o] \in Goods
    BY <1>1, GoodIs, WorldIs
<1>4. i \in Goods /\ ~i.worn /\ i.at = Gone
    BY <1>1, <1>3 DEF Goods
<1>5. extract_obj(w, o) = v
    BY <1>2, <1>3, WorldIs
<1> HIDE DEF i
<1>6. v \in Good /\ v.affs = u.affs /\ v.item[o] = i /\ ButOne(u, v, o)
    BY <1>1, <1>4, UnwornGood
<1> HIDE DEF v
<1>7. ButOne(w, v, o)
    BY <1>1, <1>6 DEF ButOne
<1> QED
    BY <1>1, <1>4, <1>5, <1>6, <1>7

-----------------------------------------------------------------------------
(***************************************************************************)
(* Spells that undo others.                                                *)
(***************************************************************************)
\* Affects that lose a level still do what they did.
LEMMA WeakenedGood ==
    ASSUME NEW w \in Good, NEW c \in Chars, NEW sn
    PROVE  Weakened(w, c, sn) \in Good
<1> DEFINE old == w.affs[c]
           affs == [i \in DOMAIN old |-> Weaker(old[i], sn)]
<1>1. w \in Worlds /\ old \in Lists
    BY GoodIs, WorldIs
<1>2. Len(old) \in Nat /\ DOMAIN old = 1 .. Len(old) /\ \A i \in 1 .. Len(old) : old[i] \in Affs
    <2> HIDE DEF old
    <2> QED
        BY <1>1, ListIs
<1>3. Weakened(w, c, sn) = Listed(w, c, affs)
    BY DEF Weakened, Listed
<1>a. old = w.affs[c]
    OBVIOUS
<1> HIDE DEF old
<1>4. \A i \in 1 .. Len(old) : /\ affs[i] \in Affs /\ affs[i].bits = old[i].bits
                               /\ affs[i].location = old[i].location /\ affs[i].modifier = old[i].modifier
    BY <1>2 DEF Affs, Weaker
<1>5. DOMAIN affs = 1 .. Len(old)
    BY <1>2
<1>6. affs \in Seq(Affs) /\ Len(affs) = Len(old)
    <2>1. affs \in [1 .. Len(old) -> Affs]
        BY <1>2, <1>4, <1>5
    <2> QED
        BY <1>2, <1>5, <2>1
<1> HIDE DEF affs
<1>7. Listed(w, c, affs) \in Good
    BY <1>4, <1>6, <1>a, RestatedGood DEF Lists
<1> QED
    BY <1>3, <1>7

\* check_dispel strips a spell, or weakens it.
LEMMA DispelGood ==
    ASSUME NEW w \in Good, NEW c \in Chars, NEW sn
    PROVE  check_dispel(w, c, sn) \in SUBSET Good
    BY StripGood, WeakenedGood DEF check_dispel

\* Each of several spells is dispelled, or weakened.
DispelledIn(w, c, present) == FoldSet(LAMBDA sn, ws : UNION {check_dispel(x, c, sn) : x \in ws}, {w}, present)

\* The order in which they are does not matter.
LEMMA DispelledGood ==
    ASSUME NEW w \in Good, NEW c \in Chars, NEW present, IsFiniteSet(present)
    PROVE  DispelledIn(w, c, present) \in SUBSET Good
<1> DEFINE S == present
           D == SUBSET Good
           Op(sn, ws) == UNION {check_dispel(x, c, sn) : x \in ws}
           G == [p \in S \X D |-> Op(p[1], p[2])]
           Is(h) == h = [s \in SUBSET S |-> IF s = {} THEN {w} ELSE Op(Pick(s), h[s \ {Pick(s)}])]
           f == CHOOSE h : Is(h)
<1>1. IsFiniteSet(S) /\ {w} \in D
    OBVIOUS
<1>2. \A a \in S : \A u \in D : G[<<a, u>>] = Op(a, u)
    OBVIOUS
<1>3. Within(G, S, D)
    <2>1. \A sn \in S : \A ws \in D : Op(sn, ws) \in D
        <3>1. \A x \in Good : \A sn : check_dispel(x, c, sn) \in SUBSET Good
            BY DispelGood
        <3> QED
            BY <3>1
    <2> HIDE DEF G
    <2> QED
        BY <1>2, <2>1 DEF Within
<1>4. DispelledIn(w, c, present) = f[S]
    BY DEF DispelledIn, FoldSet, MapThenFoldSet, Pick
<1> HIDE DEF G, Op, S, D
<1>5. PICK g : Folded(g, S, {w}, G) /\ \A s \in SUBSET S : g[s] \in D
    BY <1>1, <1>3, FoldExists
<1>6. \A s \in SUBSET S : s # {} => Pick(s) \in S /\ s \ {Pick(s)} \in SUBSET S
    BY DEF Pick
<1>7. Is(g)
    BY <1>2, <1>5, <1>6 DEF Folded
<1>8. Is(f)
    BY <1>7
<1> HIDE DEF f
<1>9. f[{}] = {w} /\ \A s \in SUBSET S : s # {} => f[s] = Op(Pick(s), f[s \ {Pick(s)}])
    BY <1>8
<1>10. Folds_(f, S, D, {w}, G)
    BY <1>2, <1>6, <1>9 DEF Folds_
<1>11. f[S] \in D
    BY <1>1, <1>3, <1>10, FoldEnds
<1> QED
    BY <1>4, <1>11 DEF D

\* A permanent bit of a mobile may go besides: less is never without source.
LEMMA TriedGood ==
    ASSUME NEW w \in Good, NEW c \in Chars
    PROVE  try_dispel_all_dispellables(w, c) \in SUBSET Good
<1> DEFINE present == {sn \in Dispellables : is_affected_by(w, c, sn)}
           Permanent(x) == {sn \in present : is_affected_by(x, c, sn) /\ skill_table[sn].bits \cap x.bits[c] # {}}
           More(x) == {x} \cup IF c \in Players THEN {}
                               ELSE {ClearBits(x, c, skill_table[sn].bits) : sn \in Permanent(x)}
           ws == DispelledIn(w, c, present)
<1>1. IsFiniteSet(present)
    BY TableAssumption, FS_Subset
<1>2. try_dispel_all_dispellables(w, c) = UNION {More(x) : x \in ws}
    BY DEF try_dispel_all_dispellables, DispelTried, DispelledIn
<1> HIDE DEF present
<1>3. ws \in SUBSET Good
    BY <1>1, DispelledGood
<1> HIDE DEF ws
<1>4. \A x \in Good : More(x) \in SUBSET Good
    BY ClearGood
<1> HIDE DEF More
<1> QED
    BY <1>2, <1>3, <1>4

-----------------------------------------------------------------------------
(***************************************************************************)
(* Followers.                                                              *)
(***************************************************************************)
\* stop_follower takes the charm away with the master; add_follower gives one.
LEMMA LetGo ==
    ASSUME NEW w \in Good, NEW c \in Chars
    PROVE  /\ stop_follower(w, c) \in Good
           /\ \A m \in Chars : add_follower(stop_follower(w, c), c, m) \in Good
           /\ \A m \in Chars : add_follower(stop_follower(w, c), c, m).master[c] = m
<1> DEFINE free == IF AFF(w, c, "Charm")
                   THEN affect_strip(ClearBits(w, c, {"Charm"}), c, "charm person") ELSE w
           v == stop_follower(w, c)
<1>1. free \in Good /\ "Charm" \notin free.bits[c]
    <2> DEFINE u == ClearBits(w, c, {"Charm"})
               t == affect_strip(u, c, "charm person")
    <2>1. u \in Good /\ "Charm" \notin u.bits[c]
        BY ClearGood
    <2> HIDE DEF u
    <2>2. t \in Good /\ t.bits[c] \subseteq u.bits[c]
        BY <2>1, StripGood
    <2>3. free = IF AFF(w, c, "Charm") THEN t ELSE w
        BY DEF u
    <2> HIDE DEF t, free
    <2> QED
        BY <2>1, <2>2, <2>3 DEF AFF
<1>2. v = IF w.master[c] = Nobody THEN w ELSE Mastering(free, c, Nobody)
    BY DEF stop_follower, Mastering
<1> HIDE DEF free, v
<1>3. v \in Good
    BY <1>1, <1>2, MasteringGood DEF Someone
<1>4. ASSUME NEW m \in Chars
      PROVE  add_follower(v, c, m) \in Good /\ add_follower(v, c, m).master[c] = m
    <2>1. m \in Someone /\ m # Nobody
        BY AffectsAssumption DEF Someone
    <2>2. add_follower(v, c, m) = Mastering(v, c, m)
        BY DEF add_follower, Mastering
    <2> QED
        BY <1>3, <2>1, <2>2, MasteringGood
<1> QED
    BY <1>3, <1>4 DEF v

\* Those who are there can be counted.
LEMMA CharsFinite ==
    IsFiniteSet(Chars) /\ \A S \in SUBSET Chars : IsFiniteSet(S)
<1>1. IsFiniteSet(Chars)
    BY AffectsAssumption, FS_Union DEF Chars
<1> QED
    BY <1>1, FS_Subset

\* die_follower lets go all who followed.
LEMMA DieGood ==
    ASSUME NEW w \in Good, NEW c \in Chars
    PROVE  die_follower(w, c) \in Good
<1> DEFINE b == stop_follower(w, c)
<1>a. b \in Good
    BY LetGo
<1> DEFINE S == {f \in Chars : w.master[f] = c}
           D == Good
           Op(f, x) == stop_follower(x, f)
           G == [p \in S \X D |-> Op(p[1], p[2])]
           Is(h) == h = [s \in SUBSET S |-> IF s = {} THEN b ELSE Op(Pick(s), h[s \ {Pick(s)}])]
           it == CHOOSE h : Is(h)
<1>1. IsFiniteSet(S) /\ b \in D
    BY <1>a, CharsFinite
<1>2. \A a \in S : \A u \in D : G[<<a, u>>] = Op(a, u)
    OBVIOUS
<1>3. Within(G, S, D)
    <2>1. \A f \in S : \A x \in D : Op(f, x) \in D
        BY LetGo
    <2> HIDE DEF G
    <2> QED
        BY <1>2, <2>1 DEF Within
<1>4. die_follower(w, c) = it[S]
    BY DEF die_follower, FoldSet, MapThenFoldSet, Pick
<1> HIDE DEF G, Op, S, D
<1>5. PICK g : Folded(g, S, b, G) /\ \A s \in SUBSET S : g[s] \in D
    BY <1>1, <1>3, FoldExists
<1>6. \A s \in SUBSET S : s # {} => Pick(s) \in S /\ s \ {Pick(s)} \in SUBSET S
    BY DEF Pick
<1>7. Is(g)
    BY <1>2, <1>5, <1>6 DEF Folded
<1>8. Is(it)
    BY <1>7
<1> HIDE DEF it
<1>9. it[{}] = b /\ \A s \in SUBSET S : s # {} => it[s] = Op(Pick(s), it[s \ {Pick(s)}])
    BY <1>8
<1>10. Folds_(it, S, D, b, G)
    BY <1>2, <1>6, <1>9 DEF Folds_
<1>11. it[S] \in D
    BY <1>1, <1>3, <1>10, FoldEnds
<1> QED
    BY <1>4, <1>11 DEF D

-----------------------------------------------------------------------------
(***************************************************************************)
(* Fights.                                                                 *)
(***************************************************************************)
\* update_pos.
LEMMA UpGood ==
    ASSUME NEW w \in Good, NEW c \in Chars
    PROVE  update_pos(w, c) \in Good
<1>1. update_pos(w, c) = IF w.pos[c] = "down" THEN Posed(w, c, "standing") ELSE w
    BY DEF update_pos, Posed
<1>2. Posed(w, c, "standing") \in Good
    BY PosedGood DEF Positions
<1> QED
    BY <1>1, <1>2

\* set_fighting wakes, and strips the sleep.
LEMMA FightsGood ==
    ASSUME NEW w \in Good, NEW c \in Chars, NEW v \in Chars
    PROVE  set_fighting(w, c, v) \in Good
<1> DEFINE awake == IF AFF(w, c, "Sleep") THEN affect_strip(w, c, "sleep") ELSE w
<1>1. awake \in Good
    BY StripGood
<1>2. set_fighting(w, c, v) = IF w.foe[c] # Nobody THEN w ELSE Foed(awake, c, v, "fighting")
    BY DEF set_fighting, Foed
<1> HIDE DEF awake
<1>3. Foed(awake, c, v, "fighting") \in Good
    BY <1>1, FoedGood DEF Someone, Positions
<1> QED
    BY <1>2, <1>3

\* stop_fighting, of one or of both.
LEMMA StopsGood ==
    ASSUME NEW w \in Good, NEW c \in Chars, NEW both
    PROVE  stop_fighting(w, c, both) \in Good /\ Alike(w, stop_fighting(w, c, both))
<1> DEFINE stops == {d \in Chars : d = c \/ (both /\ w.foe[d] = c)}
           foe == [d \in Chars |-> IF d \in stops THEN Nobody ELSE w.foe[d]]
           pos == [d \in Chars |-> IF d \in stops /\ w.pos[d] \notin {"down", "dead"} THEN "standing" ELSE w.pos[d]]
<1>1. w \in Worlds
    BY GoodIs
<1>2. foe \in [Chars -> Someone] /\ pos \in [Chars -> Positions]
    BY <1>1, WorldIs DEF Someone, Positions
<1>3. stop_fighting(w, c, both) = Stood(w, foe, pos)
    BY DEF stop_fighting, Stood
<1> HIDE DEF foe, pos
<1> QED
    BY <1>2, <1>3, StoodGood

\* check_killer frees who turns on the charmer.
LEMMA KillerGood ==
    ASSUME NEW w \in Good, NEW c \in Chars, NEW v \in Chars
    PROVE  check_killer(w, c, v) \in Good
<1> DEFINE u == affect_strip(w, c, "charm person")
           t == ClearBits(u, c, {"Charm"})
<1>1. u \in Good
    BY StripGood
<1> HIDE DEF u
<1>2. t \in Good
    BY <1>1, ClearGood
<1>3. stop_follower(w, c) \in Good
    BY LetGo
<1>4. check_killer(w, c, v) \in {w, t, stop_follower(w, c)}
    BY DEF check_killer, u
<1> QED
    BY <1>2, <1>3, <1>4

\* An attacker is seen.
LEMMA VisibleGood ==
    ASSUME NEW w \in Good, NEW c \in Chars
    PROVE  Visible(w, c) \in Good
<1>1. AffectsStripped(w, c, <<"invis", "mass invis">>) \in Good
    <2>1. <<"invis", "mass invis">> \in Seq({"invis", "mass invis"})
        OBVIOUS
    <2> QED
        BY <2>1, StrippedGood
<1> QED
    BY <1>1, ClearGood DEF Visible

-----------------------------------------------------------------------------
(***************************************************************************)
(* Deaths.                                                                 *)
(***************************************************************************)
\* Things are extracted one after the other.
Emptied(x, S) == FoldSet(LAMBDA o, y : extract_obj(y, o), x, S)

\* Nothing of the dead is left on them.
LEMMA EmptiedGood ==
    ASSUME NEW x \in Good, NEW S \in SUBSET Items
    PROVE  /\ Emptied(x, S) \in Good /\ Emptied(x, S).affs = x.affs
           /\ \A o \in S : Emptied(x, S).item[o].at = Gone
           /\ \A o \in Items \ S : Emptied(x, S).item[o] = x.item[o]
<1> DEFINE D == Good
           Op(o, y) == extract_obj(y, o)
           G == [p \in S \X D |-> Op(p[1], p[2])]
           Is(h) == h = [s \in SUBSET S |-> IF s = {} THEN x ELSE Op(Pick(s), h[s \ {Pick(s)}])]
           f == CHOOSE h : Is(h)
<1>1. IsFiniteSet(S) /\ x \in D
    BY AffectsAssumption, FS_Subset
<1>2. \A a \in S : \A u \in D : G[<<a, u>>] = Op(a, u)
    OBVIOUS
<1>3. Within(G, S, D)
    <2>1. \A o \in S : \A y \in D : Op(o, y) \in D
        BY ExtractGood
    <2> HIDE DEF G
    <2> QED
        BY <1>2, <2>1 DEF Within
<1>4. Emptied(x, S) = f[S]
    BY DEF Emptied, FoldSet, MapThenFoldSet, Pick
<1> HIDE DEF G, Op, D
<1>5. PICK g : Folded(g, S, x, G) /\ \A s \in SUBSET S : g[s] \in D
    BY <1>1, <1>3, FoldExists
<1>6. \A s \in SUBSET S : s # {} => Pick(s) \in S /\ s \ {Pick(s)} \in SUBSET S
    BY DEF Pick
<1>7. Is(g)
    BY <1>2, <1>5, <1>6 DEF Folded
<1>8. Is(f)
    BY <1>7
<1> HIDE DEF f
<1>9. f[{}] = x /\ \A s \in SUBSET S : s # {} => f[s] = Op(Pick(s), f[s \ {Pick(s)}])
    BY <1>8
<1> DEFINE Ok(u, s) == /\ u \in Good /\ u.affs = x.affs
                       /\ \A o \in s : u.item[o].at = Gone
                       /\ \A o \in Items \ s : u.item[o] = x.item[o]
           T == {s \in SUBSET S : Ok(f[s], s)}
<1>10. {} \in T
    BY <1>9
<1>11. ASSUME NEW s \in SUBSET S, s # {}, \A o \in s : s \ {o} \in T
       PROVE  s \in T
    <2> DEFINE o == Pick(s)
               u == f[s \ {o}]
               v == f[s]
    <2>1. o \in s /\ o \in Items
        BY <1>6, <1>11 DEF Pick
    <2>2. Ok(u, s \ {o})
        BY <1>11, <2>1
    <2>3. v = extract_obj(u, o)
        BY <1>9, <1>11 DEF Op
    <2> HIDE DEF o, u, v
    <2>4. v \in Good /\ v.affs = u.affs /\ v.item[o].at = Gone /\ ButOne(u, v, o)
        BY <2>1, <2>2, <2>3, ExtractGood
    <2>5. Ok(v, s)
        BY <2>1, <2>2, <2>4 DEF ButOne
    <2> QED
        BY <2>5 DEF v
<1> HIDE DEF T
<1>12. SUBSET S \subseteq T
    BY <1>1, <1>10, <1>11, SubsetsUp
<1>13. Ok(f[S], S)
    BY <1>12 DEF T
<1> QED
    BY <1>4, <1>13

\* Of the dead only what they are by nature is left.
Bare(w, c, duel) ==
    [RemovedAll(w, c, ToSet(w.affs[c])) EXCEPT !.bits[c] = Natural[c],
                                               !.mods[c]["Ac"] = IF duel THEN @ ELSE 0,
                                               !.pos[c] = "resting",
                                               !.duel = FALSE]

\* Outside a duel they wear nothing any more; in one, all that they wore.
LEMMA BareGood ==
    ASSUME NEW w \in Good, NEW c \in Chars, NEW duel \in BOOLEAN, ~duel => \A o \in Items : w.item[o].at # c
    PROVE  Bare(w, c, duel) \in Good
<1> DEFINE t == RemovedAll(w, c, ToSet(w.affs[c]))
           mods == [t.mods[c] EXCEPT !["Ac"] = IF duel THEN @ ELSE 0]
           v == Scored(t, c, Natural[c], mods)
           p == Posed(v, c, "resting")
<1>1. w \in Worlds
    BY GoodIs
<1>2. t \in Good /\ OnlyOf(w, t, c) /\ ToSet(t.affs[c]) = {}
    <2> DEFINE over == ToSet(w.affs[c])
    <2>1. over \ over = {} /\ over = ToSet(w.affs[c])
        OBVIOUS
    <2> HIDE DEF over
    <2>2. /\ RemovedAll(w, c, over) \in Good /\ OnlyOf(w, RemovedAll(w, c, over), c)
          /\ ToSet(RemovedAll(w, c, over).affs[c]) = over \ over
        BY <2>1, RemovedGood
    <2> QED
        BY <2>1, <2>2
<1> HIDE DEF t
<1>3. t.affs[c] = <<>>
    <2>1. t.affs[c] \in Lists
        BY <1>2, WorldIs DEF OnlyOf
    <2>2. Len(t.affs[c]) \in Nat /\ ToSet(t.affs[c]) = {t.affs[c][i] : i \in 1 .. Len(t.affs[c])}
        BY <2>1, ListIs
    <2>3. ~(1 \in 1 .. Len(t.affs[c]))
        BY <1>2, <2>2
    <2>4. Len(t.affs[c]) = 0
        BY <2>2, <2>3
    <2> QED
        BY <2>1, <2>4 DEF Lists
<1>4. t \in Worlds /\ t.mods[c] \in Scores
    BY <1>2, WorldIs DEF OnlyOf
<1>5. /\ mods \in Scores /\ \A x \in Locations : x # "Ac" \/ duel => mods[x] = t.mods[c][x]
      /\ ~duel => mods["Ac"] = 0
    BY <1>4 DEF Scores, Locations
<1> HIDE DEF mods
<1>6. Natural[c] \in SUBSET Bits
    BY DEF Bits
<1>7. OnlyOf(t, v, c) /\ v.affs = t.affs /\ v.bits[c] = Natural[c] /\ v.mods[c] = mods
    BY <1>4, <1>5, <1>6, ScoredIs
<1> HIDE DEF v
<1>8. OnlyOf(w, v, c) /\ v.affs[c] = <<>>
    BY <1>2, <1>3, <1>7, OnlyOn
<1>9. Sourced(v, c) /\ Mastered(v, c)
    BY <1>7 DEF Sourced, Mastered
<1>10. ASSUME c \notin w.etched, NEW x \in Locations
       PROVE  v.mods[c][x] = OfAffects(v.affs[c], x) + OfItems(v, c, x)
    <2>1. t.mods[c][x] = OfAffects(t.affs[c], x) + OfItems(t, c, x)
        <3>1. c \notin t.etched
            BY <1>2, <1>10 DEF OnlyOf
        <3> QED
            BY <1>2, <3>1, GoodIs DEF Summed
    <2>2. OfItems(v, c, x) = OfItems(w, c, x) /\ OfItems(t, c, x) = OfItems(w, c, x) /\ OfItems(w, c, x) \in Int
        BY <1>1, <1>2, <1>8, ItemsSame, WornIs DEF OnlyOf
    <2>3. OfAffects(v.affs[c], x) = 0 /\ OfAffects(t.affs[c], x) = 0
        BY <1>3, <1>8, NoneIs
    <2>4. CASE x # "Ac" \/ duel
        <3>1. v.mods[c][x] = t.mods[c][x]
            BY <1>5, <1>7, <2>4
        <3> QED
            BY <2>1, <2>2, <2>3, <3>1
    <2>5. CASE x = "Ac" /\ ~duel
        <3>1. v.mods[c][x] = 0
            BY <1>5, <1>7, <2>5
        <3>2. OfItems(w, c, x) = 0
            <4> DEFINE worn == Worn(w, c)
            <4>1. worn = {}
                BY <2>5 DEF Worn
            <4>2. OfItems(w, c, x) = Total(Gear(w, x), worn)
                BY <1>1, WornIs
            <4> HIDE DEF worn
            <4>3. Total(Gear(w, x), {}) = 0
                BY FS_EmptySet, TotalIs
            <4>4. Total(Gear(w, x), worn) = Total(Gear(w, x), {})
                BY <4>1
            <4> QED
                BY <4>2, <4>3, <4>4
        <3> QED
            BY <2>2, <2>3, <3>1, <3>2
    <2> QED
        BY <2>4, <2>5
<1>11. v \in Good
    BY <1>8, <1>9, <1>10, PutGood DEF Summed
<1>12. p \in Good
    BY <1>11, PosedGood DEF Positions
<1>13. Bare(w, c, duel) = Duelless(p)
    <2>1. t.bits \in [Chars -> SUBSET Bits] /\ t.mods \in [Chars -> Scores] /\ t.mods[c] \in Scores
        BY <1>4, WorldIs
    <2> QED
        BY <2>1 DEF Bare, Duelless, Posed, v, mods, Scored, t
<1> HIDE DEF p
<1>14. Duelless(p) \in Good
    BY <1>12, DuellessGood
<1> QED
    BY <1>13, <1>14

\* raw_kill, of a player or a mobile, in a duel or not.
LEMMA KilledGood ==
    ASSUME NEW w \in Good, NEW c \in Chars, NEW duel \in BOOLEAN
    PROVE  raw_kill(w, c, duel) \in Good
<1> DEFINE S == Carried(w, c)
           t == stop_fighting(w, c, TRUE)
           u == IF duel THEN t ELSE Emptied(t, S)
           v == IF duel THEN u ELSE Staying(u, c)
<1>1. t \in Good /\ t.affs = w.affs /\ t.item = w.item
    BY StopsGood DEF Alike
<1>2. S \in SUBSET Items
    BY DEF Carried
<1>3. \A o \in Items : o \in S <=> w.item[o].at = c
    BY DEF Carried
<1> HIDE DEF S, t
<1>4. u \in Good /\ u.affs = w.affs /\ (~duel => \A o \in Items : u.item[o].at # c)
    <2>1. CASE duel
        BY <1>1, <2>1
    <2>2. CASE ~duel
        <3>1. /\ Emptied(t, S) \in Good /\ Emptied(t, S).affs = t.affs
              /\ \A o \in S : Emptied(t, S).item[o].at = Gone
              /\ \A o \in Items \ S : Emptied(t, S).item[o] = t.item[o]
            BY <1>1, <1>2, EmptiedGood
        <3>2. c # Gone
            BY AffectsAssumption
        <3> QED
            BY <1>1, <1>3, <2>2, <3>1, <3>2
    <2> QED
        BY <2>1, <2>2
<1>5. raw_kill(w, c, duel) = IF c \in Mobs THEN Posed(die_follower(v, c), c, "dead") ELSE Bare(v, c, duel)
    BY DEF raw_kill, Posed, Bare, Emptied, Staying, t, S
<1> HIDE DEF u
<1>6. v \in Good /\ v.affs = w.affs /\ (~duel => \A o \in Items : v.item[o].at # c)
    <2>1. Staying(u, c) \in Good /\ Alike(u, Staying(u, c))
        BY <1>4, StayingGood
    <2> QED
        BY <1>4, <2>1 DEF Alike
<1> HIDE DEF v
<1>7. Posed(die_follower(v, c), c, "dead") \in Good
    BY <1>6, DieGood, PosedGood DEF Positions
<1>8. Bare(v, c, duel) \in Good
    BY <1>6, BareGood
<1> QED
    BY <1>5, <1>6, <1>7, <1>8

-----------------------------------------------------------------------------
(***************************************************************************)
(* Hits.                                                                   *)
(***************************************************************************)
\* A hit that does harm.
LEMMA HurtGood ==
    ASSUME NEW w \in Good, NEW c \in Chars, NEW v \in Chars
    PROVE  Hurt(w, c, v) \in SUBSET Good
<1>1. is_duel_in_progress(w, c, v) \in BOOLEAN
    BY GoodIs, WorldIs DEF is_duel_in_progress
<1>2. raw_kill(w, v, is_duel_in_progress(w, c, v)) \in Good
    BY <1>1, KilledGood
<1>3. stop_fighting(Posed(w, v, "down"), v, FALSE) \in Good
    BY PosedGood, StopsGood DEF Positions
<1> QED
    BY <1>2, <1>3 DEF Hurt, Posed

\* What a hit does before it does harm.
LEMMA HarmlessGood ==
    ASSUME NEW w \in Good, NEW c \in Chars, NEW v \in Chars
    PROVE  Harmless(w, c, v) \in Good
<1> DEFINE Fought(x) == IF c = v \/ x.pos[v] = "down" THEN x ELSE set_fighting(set_fighting(x, v, c), c, v)
           Freed(x) == IF c # v /\ x.master[v] = c THEN stop_follower(x, v) ELSE x
           Seen(x) == IF AFF(x, c, "Invisible") THEN Visible(x, c) ELSE x
           k == IF c = v THEN w ELSE check_killer(w, c, v)
<1>1. k \in Good
    BY KillerGood
<1>2. \A x \in Good : Fought(x) \in Good
    BY FightsGood
<1>3. \A x \in Good : Freed(x) \in Good
    BY LetGo
<1>4. \A x \in Good : Seen(x) \in Good
    BY VisibleGood
<1>5. Harmless(w, c, v) = Seen(Freed(Fought(k)))
    BY DEF Harmless
<1> HIDE DEF Fought, Freed, Seen, k
<1> QED
    BY <1>1, <1>2, <1>3, <1>4, <1>5

\* damage() as a whole.
LEMMA DamageGood ==
    ASSUME NEW w \in Good, NEW c \in Chars, NEW v \in Chars
    PROVE  damage(w, c, v) \in SUBSET Good
<1> DEFINE Asleep(hit) == IF hit.pos[v] = "sleeping" THEN stop_fighting(hit, v, FALSE) ELSE hit
           hit == Harmless(w, c, v)
<1>1. hit \in Good
    BY HarmlessGood
<1>2. \A x \in Good : Asleep(x) \in Good
    BY StopsGood
<1>3. damage(w, c, v) \in {{w}, {hit} \cup Hurt(Asleep(hit), c, v)}
    BY DEF damage
<1> HIDE DEF Asleep, hit
<1>4. Hurt(Asleep(hit), c, v) \in SUBSET Good
    BY <1>1, <1>2, HurtGood
<1> QED
    BY <1>1, <1>3, <1>4

\* multi_hit.
LEMMA MultiGood ==
    ASSUME NEW w \in Good, NEW c \in Chars, NEW v \in Chars
    PROVE  multi_hit(w, c, v) \in SUBSET Good
    BY DamageGood DEF multi_hit

-----------------------------------------------------------------------------
(***************************************************************************)
(* What spells add.                                                        *)
(***************************************************************************)
\* A bit that does not charm may be put on anybody.
LEMMA BitIs ==
    ASSUME NEW b \in Bits, b # "Charm"
    PROVE  {b} \in Free /\ Bit(b) \in Adds
<1>1. {b} \in Free
    BY FreeIs
<1>2. "None" \in Locations
    BY DEF Locations
<1>3. <<<<"None", 0, {b}>>>> \in Adds
    BY <1>1, <1>2, AddsOne
<1> QED
    BY <1>1, <1>3 DEF Bit

\* So may what falls on a score.
LEMMA ModIs ==
    ASSUME NEW x \in Locations, NEW m \in Int
    PROVE  Mod(x, m) \in Adds
    BY FreeIs, AddsOne DEF Mod

\* So may several of these.
LEMMA ModsAre ==
    ASSUME NEW s \in Adds, NEW t \in Adds
    PROVE  s \o t \in Adds
    BY DEF Adds

\* What falls on a score at once with a bit.
LEMMA BothAre ==
    ASSUME NEW x \in Locations, NEW m \in Int, NEW b \in Bits, b # "Charm"
    PROVE  <<<<x, m, {b}>>>> \in Adds
    BY BitIs, AddsOne

\* Two affects of one bit.
LEMMA TwiceAre ==
    ASSUME NEW x \in Locations, NEW m \in Int, NEW y \in Locations, NEW n \in Int, NEW b \in Bits, b # "Charm"
    PROVE  <<<<x, m, {b}>>, <<y, n, {b}>>>> \in Adds
    BY BitIs, AddsTwo

\* What grows by steps with the level is a number.
LEMMA StepsAre ==
    ASSUME NEW l \in Int
    PROVE  /\ Steps(l, {18, 25, 32}) \in Int /\ -Steps(l, {18, 25, 32}) \in Int
           /\ Steps(l, {20, 30, 50, 75, 91}) \in Int /\ -Steps(l, {20, 30, 50, 75, 91}) \in Int
<1>1. ASSUME NEW levels \in SUBSET (0 .. 100)
      PROVE  Steps(l, levels) \in Int
    <2> DEFINE S == {x \in levels : l >= x}
    <2>1. IsFiniteSet(0 .. 100)
        <3>1. \A n \in Int : IsFiniteSet(0 .. n)
            BY FS_Interval
        <3>2. 100 \in Int
            OBVIOUS
        <3> QED
            BY <3>1, <3>2
    <2>2. IsFiniteSet(S)
        BY <2>1, FS_Subset
    <2> HIDE DEF S
    <2>3. Cardinality(S) \in Nat
        BY <2>2, FS_CardinalityType
    <2>4. Steps(l, levels) = 1 + Cardinality(S)
        BY DEF Steps, S
    <2> QED
        BY <2>3, <2>4
<1>2. {18, 25, 32} \in SUBSET (0 .. 100) /\ {20, 30, 50, 75, 91} \in SUBSET (0 .. 100)
    OBVIOUS
<1>3. Steps(l, {18, 25, 32}) \in Int
    BY <1>1, <1>2
<1>4. Steps(l, {20, 30, 50, 75, 91}) \in Int
    BY <1>1, <1>2
<1> QED
    BY <1>3, <1>4

\* So is a part, or a multiple, of the level.
LEMMA SharesOf ==
    ASSUME NEW l \in Int
    PROVE  /\ l \div 2 \in Int /\ l \div 4 \in Int /\ l \div 5 \in Int /\ l \div 6 \in Int /\ l \div 8 \in Int
           /\ -(l \div 8) \in Int /\ -(l \div 5) \in Int /\ 2 * l \in Int /\ 10 * l \in Int
    OBVIOUS

\* So is the level of a Char.
LEMMA LevelIs ==
    CharLevel \in Int
    BY AffectsAssumption

\* A spell takes the place of the one that is there.
LEMMA RenewedGood ==
    ASSUME NEW w \in Good, NEW v \in Chars, NEW sn \in Types, NEW l \in Int, NEW adds \in Adds
    PROVE  Renewed(w, v, sn, l, adds) \in SUBSET Good /\ Replaced(w, v, sn, l, adds) \in SUBSET Good
<1> DEFINE u == affect_strip(w, v, sn)
<1>1. u \in Good
    BY StripGood
<1> HIDE DEF u
<1>2. Added(u, v, sn, l, adds) \in Good
    BY <1>1, AddedGood
<1>3. Renewed(w, v, sn, l, adds) \in {{w}, {Added(u, v, sn, l, adds)}}
    BY DEF Renewed, u
<1>4. Replaced(w, v, sn, l, adds) = {Added(u, v, sn, l, adds)}
    BY DEF Replaced, u
<1> QED
    BY <1>2, <1>3, <1>4

-----------------------------------------------------------------------------
(***************************************************************************)
(* Spells.                                                                 *)
(***************************************************************************)
\* Spells that help.
LEMMA HelpGood ==
    ASSUME NEW w \in Good, NEW l \in Int, NEW v \in Chars
    PROVE  /\ spell_armor(w, l, v) \in SUBSET Good
           /\ spell_bless(w, l, v) \in SUBSET Good
           /\ spell_detect_evil(w, l, v) \in SUBSET Good
           /\ spell_detect_hidden(w, l, v) \in SUBSET Good
           /\ spell_detect_invis(w, l, v) \in SUBSET Good
           /\ spell_detect_magic(w, l, v) \in SUBSET Good
           /\ spell_giant_strength(w, l, v) \in SUBSET Good
           /\ spell_regeneration(w, l, v) \in SUBSET Good
           /\ spell_pass_door(w, l, v) \in SUBSET Good
           /\ spell_protection_evil(w, l, v) \in SUBSET Good
           /\ spell_protection_good(w, l, v) \in SUBSET Good
           /\ spell_sanctuary(w, l, v) \in SUBSET Good
           /\ spell_talon(w, l, v) \in SUBSET Good
           /\ spell_shield(w, l, v) \in SUBSET Good
           /\ spell_stone_skin(w, l, v) \in SUBSET Good
           /\ spell_fly(w, l, v) \in SUBSET Good
           /\ spell_haste(w, l, v) \in SUBSET Good
           /\ spell_infravision(w, l, v) \in SUBSET Good
           /\ spell_strife_duelist(w, l, v) \in SUBSET Good
<1>1. spell_armor(w, l, v) \in SUBSET Good
    <2>1. Mod("Ac", -20) \in Adds
        BY ModIs DEF Locations
    <2>2. "armor" \in Types
        BY DEF Types
    <2> QED
        BY <2>1, <2>2, RenewedGood DEF spell_armor
<1>2. spell_bless(w, l, v) \in SUBSET Good
    <2>1. Mod("Hitroll", l \div 8) \o Mod("SavingSpell", -(l \div 8)) \in Adds
        BY SharesOf, ModIs, ModsAre DEF Locations
    <2>2. "bless" \in Types
        BY DEF Types
    <2> QED
        BY <2>1, <2>2, RenewedGood DEF spell_bless
<1>3. spell_detect_evil(w, l, v) \in SUBSET Good
    <2>1. Bit("DetectEvil") \in Adds
        BY BitIs DEF Bits
    <2>2. "detect evil" \in Types
        BY DEF Types
    <2> QED
        BY <2>1, <2>2, RenewedGood DEF spell_detect_evil
<1>4. spell_detect_hidden(w, l, v) \in SUBSET Good
    <2>1. Bit("DetectHidden") \in Adds
        BY BitIs DEF Bits
    <2>2. "detect hidden" \in Types
        BY DEF Types
    <2> QED
        BY <2>1, <2>2, RenewedGood DEF spell_detect_hidden
<1>5. spell_detect_invis(w, l, v) \in SUBSET Good
    <2>1. Bit("DetectInvis") \in Adds
        BY BitIs DEF Bits
    <2>2. "detect invis" \in Types
        BY DEF Types
    <2> QED
        BY <2>1, <2>2, RenewedGood DEF spell_detect_invis
<1>6. spell_detect_magic(w, l, v) \in SUBSET Good
    <2>1. Bit("DetectMagic") \in Adds
        BY BitIs DEF Bits
    <2>2. "detect magic" \in Types
        BY DEF Types
    <2> QED
        BY <2>1, <2>2, RenewedGood DEF spell_detect_magic
<1>7. spell_giant_strength(w, l, v) \in SUBSET Good
    <2>1. Mod("Str", Steps(l, {18, 25, 32})) \in Adds
        BY StepsAre, ModIs DEF Locations
    <2>2. "giant strength" \in Types
        BY DEF Types
    <2> QED
        BY <2>1, <2>2, RenewedGood DEF spell_giant_strength
<1>8. spell_regeneration(w, l, v) \in SUBSET Good
    <2>1. Bit("Regeneration") \in Adds
        BY BitIs DEF Bits
    <2>2. "regeneration" \in Types
        BY DEF Types
    <2> QED
        BY <2>1, <2>2, RenewedGood DEF spell_regeneration
<1>9. spell_pass_door(w, l, v) \in SUBSET Good
    <2>1. Bit("PassDoor") \in Adds
        BY BitIs DEF Bits
    <2>2. "pass door" \in Types
        BY DEF Types
    <2> QED
        BY <2>1, <2>2, RenewedGood DEF spell_pass_door
<1>10. spell_protection_evil(w, l, v) \in SUBSET Good
    <2>1. Bit("ProtectionEvil") \in Adds
        BY BitIs DEF Bits
    <2>2. "protection evil" \in Types
        BY DEF Types
    <2> QED
        BY <2>1, <2>2, RenewedGood DEF spell_protection_evil
<1>11. spell_protection_good(w, l, v) \in SUBSET Good
    <2>1. Bit("ProtectionGood") \in Adds
        BY BitIs DEF Bits
    <2>2. "protection good" \in Types
        BY DEF Types
    <2> QED
        BY <2>1, <2>2, RenewedGood DEF spell_protection_good
<1>12. spell_sanctuary(w, l, v) \in SUBSET Good
    <2>1. Bit("Sanctuary") \in Adds
        BY BitIs DEF Bits
    <2>2. "sanctuary" \in Types
        BY DEF Types
    <2> QED
        BY <2>1, <2>2, RenewedGood DEF spell_sanctuary
<1>13. spell_talon(w, l, v) \in SUBSET Good
    <2>1. Bit("Talon") \in Adds
        BY BitIs DEF Bits
    <2>2. "talon" \in Types
        BY DEF Types
    <2> QED
        BY <2>1, <2>2, RenewedGood DEF spell_talon
<1>14. spell_shield(w, l, v) \in SUBSET Good
    <2>1. Mod("Ac", -20) \in Adds
        BY ModIs DEF Locations
    <2>2. "shield" \in Types
        BY DEF Types
    <2> QED
        BY <2>1, <2>2, RenewedGood DEF spell_shield
<1>15. spell_stone_skin(w, l, v) \in SUBSET Good
    <2>1. Mod("Ac", -40) \in Adds
        BY ModIs DEF Locations
    <2>2. "stone skin" \in Types
        BY DEF Types
    <2> QED
        BY <2>1, <2>2, RenewedGood DEF spell_stone_skin
<1>16. spell_fly(w, l, v) \in SUBSET Good
    <2>1. Bit("Flying") \in Adds
        BY BitIs DEF Bits
    <2>2. "fly" \in Types
        BY DEF Types
    <2> QED
        BY <2>1, <2>2, RenewedGood DEF spell_fly
<1>17. spell_haste(w, l, v) \in SUBSET Good
    <2>1. <<<<"Dex", Steps(l, {18, 25, 32}), {"Haste"}>>>> \in Adds
        BY StepsAre, BothAre DEF Locations, Bits
    <2>2. "haste" \in Types
        BY DEF Types
    <2> QED
        BY <2>1, <2>2, RenewedGood DEF spell_haste
<1>18. spell_infravision(w, l, v) \in SUBSET Good
    <2>1. Bit("Infrared") \in Adds
        BY BitIs DEF Bits
    <2>2. "infravision" \in Types
        BY DEF Types
    <2> QED
        BY <2>1, <2>2, RenewedGood DEF spell_infravision
<1>19. spell_strife_duelist(w, l, v) \in SUBSET Good
    <2>1. Bit("Curse") \in Adds
        BY BitIs DEF Bits
    <2>2. "strife of the duelist" \in Types
        BY DEF Types
    <2> QED
        BY <2>1, <2>2, RenewedGood DEF spell_strife_duelist
<1> QED
    BY <1>1, <1>2, <1>3, <1>4, <1>5, <1>6, <1>7, <1>8, <1>9, <1>10, <1>11, <1>12, <1>13, <1>14, <1>15, <1>16, <1>17, <1>18, <1>19

\* Spells that do nothing to who is under them already.
LEMMA AfflictGood ==
    ASSUME NEW w \in Good, NEW l \in Int, NEW c \in Chars, NEW v \in Chars
    PROVE  /\ spell_blindness(w, l, v) \in SUBSET Good
           /\ spell_curse(w, l, v) \in SUBSET Good
           /\ spell_faerie_fire(w, l, v) \in SUBSET Good
           /\ spell_octarine_fire(w, l, v) \in SUBSET Good
           /\ spell_frenzy(w, l, c, v) \in SUBSET Good
           /\ spell_insanity(w, l, v) \in SUBSET Good
           /\ spell_lethargy(w, l, v) \in SUBSET Good
           /\ spell_invis(w, l, v) \in SUBSET Good
           /\ spell_weaken(w, l, v) \in SUBSET Good
           /\ spell_change_sex(w, l, v) \in SUBSET Good
           /\ spell_charm_person(w, l, c, v) \in SUBSET Good
<1>1. spell_blindness(w, l, v) \in SUBSET Good
    <2>1. <<<<"Hitroll", -4, {"Blind"}>>>> \in Adds
        BY BothAre DEF Locations, Bits
    <2>2. "blindness" \in Types
        BY DEF Types
    <2>3. Added(w, v, "blindness", l, <<<<"Hitroll", -4, {"Blind"}>>>>) \in Good
        BY <2>1, <2>2, AddedGood
    <2> QED
        BY <2>3 DEF spell_blindness, Saved
<1>2. spell_curse(w, l, v) \in SUBSET Good
    <2>1. <<<<"Hitroll", -(l \div 8), {"Curse"}>>, <<"SavingSpell", l \div 8, {"Curse"}>>>> \in Adds
        BY SharesOf, TwiceAre DEF Locations, Bits
    <2>2. "curse" \in Types
        BY DEF Types
    <2>3. Added(w, v, "curse", l, <<<<"Hitroll", -(l \div 8), {"Curse"}>>, <<"SavingSpell", l \div 8, {"Curse"}>>>>) \in Good
        BY <2>1, <2>2, AddedGood
    <2> QED
        BY <2>3 DEF spell_curse, Saved
<1>3. spell_faerie_fire(w, l, v) \in SUBSET Good
    <2>1. <<<<"Ac", 2 * l, {"FaerieFire"}>>>> \in Adds
        BY SharesOf, BothAre DEF Locations, Bits
    <2>2. "faerie fire" \in Types
        BY DEF Types
    <2>3. Added(w, v, "faerie fire", l, <<<<"Ac", 2 * l, {"FaerieFire"}>>>>) \in Good
        BY <2>1, <2>2, AddedGood
    <2> QED
        BY <2>3 DEF spell_faerie_fire, Saved
<1>4. spell_octarine_fire(w, l, v) \in SUBSET Good
    <2>1. <<<<"Ac", 10 * l, {"OctarineFire"}>>>> \in Adds
        BY SharesOf, BothAre DEF Locations, Bits
    <2>2. "octarine fire" \in Types
        BY DEF Types
    <2>3. Added(w, v, "octarine fire", l, <<<<"Ac", 10 * l, {"OctarineFire"}>>>>) \in Good
        BY <2>1, <2>2, AddedGood
    <2> QED
        BY <2>3 DEF spell_octarine_fire, Saved
<1>5. spell_frenzy(w, l, c, v) \in SUBSET Good
    <2>1. Mod("Hitroll", l \div 6) \o Mod("Damroll", l \div 6) \o Mod("Ac", CharLevel) \in Adds
        BY SharesOf, LevelIs, ModIs, ModsAre DEF Locations
    <2>2. "frenzy" \in Types
        BY DEF Types
    <2>3. Added(w, v, "frenzy", l, Mod("Hitroll", l \div 6) \o Mod("Damroll", l \div 6) \o Mod("Ac", CharLevel)) \in Good
        BY <2>1, <2>2, AddedGood
    <2> QED
        BY <2>3 DEF spell_frenzy, Saved
<1>6. spell_insanity(w, l, v) \in SUBSET Good
    <2>1. Mod("Wis", -Steps(l, {20, 30, 50, 75, 91})) \o Mod("Int", -Steps(l, {20, 30, 50, 75, 91})) \in Adds
        BY StepsAre, ModIs, ModsAre DEF Locations
    <2>2. "insanity" \in Types
        BY DEF Types
    <2>3. Added(w, v, "insanity", l, Mod("Wis", -Steps(l, {20, 30, 50, 75, 91})) \o Mod("Int", -Steps(l, {20, 30, 50, 75, 91}))) \in Good
        BY <2>1, <2>2, AddedGood
    <2> QED
        BY <2>3 DEF spell_insanity, Saved
<1>7. spell_lethargy(w, l, v) \in SUBSET Good
    <2>1. <<<<"Dex", -Steps(l, {18, 25, 32}), {"Lethargy"}>>>> \in Adds
        BY StepsAre, BothAre DEF Locations, Bits
    <2>2. "lethargy" \in Types
        BY DEF Types
    <2>3. Added(w, v, "lethargy", l, <<<<"Dex", -Steps(l, {18, 25, 32}), {"Lethargy"}>>>>) \in Good
        BY <2>1, <2>2, AddedGood
    <2> QED
        BY <2>3 DEF spell_lethargy, Saved
<1>8. spell_invis(w, l, v) \in SUBSET Good
    <2>1. Bit("Invisible") \in Adds
        BY BitIs DEF Bits
    <2>2. "invis" \in Types
        BY DEF Types
    <2>3. Added(w, v, "invis", l, Bit("Invisible")) \in Good
        BY <2>1, <2>2, AddedGood
    <2> QED
        BY <2>3 DEF spell_invis, Saved
<1>9. spell_weaken(w, l, v) \in SUBSET Good
    <2>1. <<<<"Str", -(l \div 5), {"Weaken"}>>>> \in Adds
        BY SharesOf, BothAre DEF Locations, Bits
    <2>2. "weaken" \in Types
        BY DEF Types
    <2>3. Added(w, v, "weaken", l, <<<<"Str", -(l \div 5), {"Weaken"}>>>>) \in Good
        BY <2>1, <2>2, AddedGood
    <2> QED
        BY <2>3 DEF spell_weaken, Saved
<1>10. spell_change_sex(w, l, v) \in SUBSET Good
    <2>1. \A x \in {-1, 1} : Mod("Sex", x) \in Adds
        BY ModIs DEF Locations
    <2>2. "change sex" \in Types
        BY DEF Types
    <2>3. \A x \in {-1, 1} : Added(w, v, "change sex", l, Mod("Sex", x)) \in Good
        BY <2>1, <2>2, AddedGood
    <2> QED
        BY <2>3 DEF spell_change_sex, Saved
<1>11. spell_charm_person(w, l, c, v) \in SUBSET Good
    <2> DEFINE u == add_follower(stop_follower(w, v), v, c)
               adds == Bit("Charm")
    <2>1. u \in Good /\ u.master[v] = c /\ c # Nobody
        BY LetGo, AffectsAssumption
    <2> HIDE DEF u
    <2>2. adds \in Seq(Add) /\ \A i \in 1 .. Len(adds) : MayAdd(u, v, adds[i])
        <3> DEFINE a == <<"None", 0, {"Charm"}>>
        <3>1. {"Charm"} \in SUBSET Bits
            BY DEF Bits
        <3>2. a \in Add
            BY <3>1 DEF Add, Locations
        <3>3. adds = <<a>>
            BY DEF Bit
        <3> HIDE DEF a, adds
        <3>4. adds \in Seq(Add) /\ Len(adds) = 1 /\ adds[1] = a
            BY <3>2, <3>3
        <3> QED
            BY <2>1, <3>2, <3>4 DEF MayAdd
    <2>3. "charm person" \in Types /\ Lasts \in Int
        BY AffectsAssumption DEF Types
    <2> HIDE DEF adds
    <2>4. AddedFor(u, v, "charm person", l, Lasts, adds) \in Good
        BY <2>1, <2>2, <2>3, AddedOne
    <2>5. spell_charm_person(w, l, c, v) \in {{w}, {w, AddedFor(u, v, "charm person", l, Lasts, adds)}}
        BY DEF spell_charm_person, Saved, Added, u, adds
    <2> QED
        BY <2>4, <2>5
<1> QED
    BY <1>1, <1>2, <1>3, <1>4, <1>5, <1>6, <1>7, <1>8, <1>9, <1>10, <1>11

\* Spells that join what is there already.
LEMMA JoiningGood ==
    ASSUME NEW w \in Good, NEW l \in Int, NEW c \in Chars, NEW v \in Chars
    PROVE  /\ spell_plague(w, l, v) \in SUBSET Good
           /\ spell_poison(w, l, v) \in SUBSET Good
           /\ spell_sleep(w, l, v) \in SUBSET Good
           /\ affect_join(w, v, Affect("sleep", l, Lasts, "None", 0, {"Sleep"})) \in Good
           /\ affect_join(w, v, Affect("poison", l, Lasts, "None", 0, {"Poison"})) \in Good
           /\ spell_chill_touch(w, l, c, v) \in SUBSET Good
           /\ spell_colour_spray(w, l, c, v) \in SUBSET Good
<1>0. /\ {"Plague"} \in Free /\ {"Poison"} \in Free /\ {"Sleep"} \in Free /\ {} \in Free
      /\ "plague" \in Types /\ "poison" \in Types /\ "sleep" \in Types /\ "chill touch" \in Types
      /\ "Str" \in Locations /\ "None" \in Locations /\ -5 \in Int /\ -2 \in Int /\ -1 \in Int /\ 0 \in Int
    BY FreeIs DEF Bits, Types, Locations
<1>1. affect_join(w, v, Affect("plague", (l * 3) \div 4, Lasts, "Str", -5, {"Plague"})) \in Good
    <2>1. (l * 3) \div 4 \in Int
        OBVIOUS
    <2> QED
        BY <1>0, <2>1, JoinedGood
<1>2. affect_join(w, v, Affect("poison", l, Lasts, "Str", -2, {"Poison"})) \in Good
    BY <1>0, JoinedGood
<1>3. affect_join(w, v, Affect("sleep", l, Lasts, "None", 0, {"Sleep"})) \in Good
    BY <1>0, JoinedGood
<1>4. affect_join(w, v, Affect("chill touch", l, Lasts, "Str", -1, {})) \in Good
    BY <1>0, JoinedGood
<1>5. affect_join(w, v, Affect("poison", l, Lasts, "None", 0, {"Poison"})) \in Good
    BY <1>0, JoinedGood
<1>6. spell_plague(w, l, v) \in SUBSET Good
    BY <1>1 DEF spell_plague, Saved
<1>7. spell_poison(w, l, v) \in SUBSET Good
    BY <1>2 DEF spell_poison, Saved
<1>8. spell_sleep(w, l, v) \in SUBSET Good
    <2> DEFINE slept == affect_join(w, v, Affect("sleep", l, Lasts, "None", 0, {"Sleep"}))
    <2>1. slept \in Good
        BY <1>3
    <2>2. spell_sleep(w, l, v) \subseteq {w, slept, Posed(slept, v, "sleeping")}
        BY DEF spell_sleep, Saved, Posed
    <2> HIDE DEF slept
    <2>3. Posed(slept, v, "sleeping") \in Good
        BY <2>1, PosedGood DEF Positions
    <2> QED
        BY <2>1, <2>2, <2>3
<1>9. spell_chill_touch(w, l, c, v) \in SUBSET Good
    <2> DEFINE cold == affect_join(w, v, Affect("chill touch", l, Lasts, "Str", -1, {}))
    <2>1. cold \in Good
        BY <1>4
    <2>2. spell_chill_touch(w, l, c, v) = UNION {damage(x, c, v) : x \in {w, cold}}
        BY DEF spell_chill_touch, Saved
    <2> HIDE DEF cold
    <2>3. \A x \in Good : damage(x, c, v) \in SUBSET Good
        BY DamageGood
    <2> QED
        BY <2>1, <2>2, <2>3
<1>10. spell_colour_spray(w, l, c, v) \in SUBSET Good
    <2> DEFINE k == l \div 2
               blind == spell_blindness(w, k, v)
    <2>1. k \in Int
        BY SharesOf
    <2> HIDE DEF k
    <2>2. blind \in SUBSET Good
        BY <2>1, AfflictGood
    <2>3. spell_colour_spray(w, l, c, v) = UNION {damage(x, c, v) : x \in {w} \cup blind}
        BY DEF spell_colour_spray, Saved, k
    <2> HIDE DEF blind
    <2>4. \A x \in Good : damage(x, c, v) \in SUBSET Good
        BY DamageGood
    <2> QED
        BY <2>2, <2>3, <2>4
<1> QED
    BY <1>3, <1>5, <1>6, <1>7, <1>8, <1>9, <1>10

-----------------------------------------------------------------------------
(***************************************************************************)
(* Commands.                                                               *)
(***************************************************************************)
\* Whoever lives is one of the Chars.
LEMMA LivingAre ==
    ASSUME NEW w \in Good
    PROVE  Living(w) \in SUBSET Chars
    BY GoodIs, WorldIs DEF Living

\* Several kinds go: those that hide, and those that ail.
LEMMA StrippedAre ==
    ASSUME NEW w \in Good, NEW c \in Chars
    PROVE  /\ AffectsStripped(w, c, <<"invis", "mass invis", "sneak">>) \in Good
           /\ AffectsStripped(w, c, <<"plague", "poison", "blindness", "sleep", "curse">>) \in Good
<1>1. <<"invis", "mass invis", "sneak">> \in Seq({"invis", "mass invis", "sneak"})
    OBVIOUS
<1>2. <<"plague", "poison", "blindness", "sleep", "curse">> \in Seq({"plague", "poison", "blindness", "sleep", "curse"})
    OBVIOUS
<1>3. AffectsStripped(w, c, <<"invis", "mass invis", "sneak">>) \in Good
    BY <1>1, StrippedGood
<1>4. AffectsStripped(w, c, <<"plague", "poison", "blindness", "sleep", "curse">>) \in Good
    BY <1>2, StrippedGood
<1> QED
    BY <1>3, <1>4

\* do_sneak, do_hide and do_visible.
LEMMA StealthGood ==
    ASSUME NEW w \in Good, NEW c \in Chars
    PROVE  do_sneak(w, c) \in SUBSET Good /\ do_hide(w, c) \in SUBSET Good /\ do_visible(w, c) \in SUBSET Good
<1>1. do_sneak(w, c) \in SUBSET Good
    <2> DEFINE heard == affect_strip(w, c, "sneak")
               adds == <<<<"None", 0, {"Sneak"}>>>>
    <2>1. heard \in Good
        BY StripGood
    <2>2. adds \in Adds
        <3>1. "None" \in Locations /\ "Sneak" \in Bits /\ 0 \in Int
            BY DEF Locations, Bits
        <3> QED
            BY <3>1, BothAre
    <2>3. "sneak" \in Types
        BY DEF Types
    <2>4. do_sneak(w, c) = {heard, Added(heard, c, "sneak", CharLevel, adds)}
        BY DEF do_sneak
    <2> HIDE DEF heard, adds
    <2>5. Added(heard, c, "sneak", CharLevel, adds) \in Good
        BY <2>1, <2>2, <2>3, LevelIs, AddedGood
    <2> QED
        BY <2>1, <2>4, <2>5
<1>2. do_hide(w, c) \in SUBSET Good
    <2> DEFINE seen == ClearBits(w, c, {"Hide"})
    <2>1. seen \in Good
        BY ClearGood
    <2>2. do_hide(w, c) = {seen, [seen EXCEPT !.bits[c] = @ \cup {"Hide"}]}
        BY DEF do_hide
    <2> HIDE DEF seen
    <2>3. [seen EXCEPT !.bits[c] = @ \cup {"Hide"}] \in Good
        BY <2>1, HiddenGood
    <2> QED
        BY <2>1, <2>2, <2>3
<1>3. do_visible(w, c) \in SUBSET Good
    <2> DEFINE u == AffectsStripped(w, c, <<"invis", "mass invis", "sneak">>)
    <2>1. u \in Good
        BY StrippedAre
    <2>2. do_visible(w, c) = {ClearBits(u, c, {"Hide", "Invisible", "Sneak"})}
        BY DEF do_visible
    <2> HIDE DEF u
    <2> QED
        BY <2>1, <2>2, ClearGood
<1> QED
    BY <1>1, <1>2, <1>3

\* do_berserk.
LEMMA BerserkGood ==
    ASSUME NEW w \in Good, NEW c \in Chars
    PROVE  do_berserk(w, c) \in SUBSET Good
<1> DEFINE adds == <<<<"Hitroll", CharLevel \div 5, {"Berserk"}>>,
                     <<"Damroll", CharLevel \div 5, {"Berserk"}>>,
                     <<"Ac", CharLevel, {"Berserk"}>>>>
<1>1. adds \in Adds
    <2>1. CharLevel \in Int /\ CharLevel \div 5 \in Int
        BY LevelIs, SharesOf
    <2>2. "Berserk" \in Bits /\ {"Berserk"} \in Free
        BY FreeIs DEF Bits
    <2>3. "Hitroll" \in Locations /\ "Damroll" \in Locations /\ "Ac" \in Locations
        BY DEF Locations
    <2> QED
        BY <2>1, <2>2, <2>3, AddsThree
<1>2. "berserk" \in Types
    BY DEF Types
<1>3. do_berserk(w, c) \in {{w}, {w, Added(w, c, "berserk", CharLevel, adds)}}
    BY DEF do_berserk
<1> HIDE DEF adds
<1>4. Added(w, c, "berserk", CharLevel, adds) \in Good
    BY <1>1, <1>2, LevelIs, AddedGood
<1> QED
    BY <1>3, <1>4

\* What dirt and a headbutt do to the eyes.
LEMMA BlindedGood ==
    ASSUME NEW w \in Good, NEW v \in Chars
    PROVE  /\ AddedFor(w, v, "dirt kicking", CharLevel, 0, <<<<"Hitroll", -4, {"Blind"}>>>>) \in Good
           /\ AddedFor(w, v, "headbutt", CharLevel, 0, <<<<"Hitroll", -5, {"Blind"}>>>>) \in Good
<1>1. "Hitroll" \in Locations /\ "Blind" \in Bits /\ "dirt kicking" \in Types /\ "headbutt" \in Types /\ 0 \in Int
    BY DEF Locations, Bits, Types
<1>2. <<<<"Hitroll", -4, {"Blind"}>>>> \in Adds
    BY BothAre DEF Locations, Bits
<1>3. <<<<"Hitroll", -5, {"Blind"}>>>> \in Adds
    BY BothAre DEF Locations, Bits
<1>4. AddedFor(w, v, "dirt kicking", CharLevel, 0, <<<<"Hitroll", -4, {"Blind"}>>>>) \in Good
    BY <1>1, <1>2, LevelIs, AddedGood
<1>5. AddedFor(w, v, "headbutt", CharLevel, 0, <<<<"Hitroll", -5, {"Blind"}>>>>) \in Good
    BY <1>1, <1>3, LevelIs, AddedGood
<1> QED
    BY <1>4, <1>5

\* do_dirt, which blinds even whom it killed.
LEMMA DirtGood ==
    ASSUME NEW w \in Good, NEW c \in Chars
    PROVE  do_dirt(w, c) \in SUBSET Good
<1> DEFINE v == w.foe[c]
           Dirty(x) == AddedFor(x, v, "dirt kicking", CharLevel, 0, <<<<"Hitroll", -4, {"Blind"}>>>>)
<1>1. v \in Chars \cup {Nobody}
    BY GoodIs, WorldIs DEF Someone
<1>2. do_dirt(w, c) = {w} \/ (v # Nobody /\ do_dirt(w, c) = UNION {{x, Dirty(x)} : x \in damage(w, c, v)})
    BY DEF do_dirt
<1> HIDE DEF v
<1>3. ASSUME v \in Chars
      PROVE  /\ damage(w, c, v) \in SUBSET Good /\ \A x \in Good : Dirty(x) \in Good
    BY <1>3, DamageGood, BlindedGood
<1> HIDE DEF Dirty
<1> QED
    BY <1>1, <1>2, <1>3

\* do_headbutt, likewise.
LEMMA ButtGood ==
    ASSUME NEW w \in Good, NEW c \in Chars, NEW v \in Chars
    PROVE  do_headbutt(w, c, v) \in SUBSET Good
<1> DEFINE Dazed(x) == AddedFor(x, v, "headbutt", CharLevel, 0, <<<<"Hitroll", -5, {"Blind"}>>>>)
<1>1. do_headbutt(w, c, v) \in {{w}, {w} \cup UNION {{x, Dazed(x)} : x \in damage(w, c, v)}}
    BY DEF do_headbutt
<1>2. damage(w, c, v) \in SUBSET Good /\ \A x \in Good : Dazed(x) \in Good
    BY DamageGood, BlindedGood
<1> HIDE DEF Dazed
<1> QED
    BY <1>1, <1>2

\* What is carried is worn, and what is worn taken off.
LEMMA WearGood ==
    ASSUME NEW w \in Good, NEW c \in Chars, NEW o \in Carried(w, c)
    PROVE  do_wear(w, c, o) \in SUBSET Good /\ do_remove(w, c, o) \in SUBSET Good
<1>1. o \in Items /\ w.item[o].at = c
    BY DEF Carried
<1>2. ~w.item[o].worn => equip_char(w, c, o) \in Good
    BY <1>1, EquipGood
<1>3. w.item[o].worn => unequip_char(w, c, o) \in Good
    BY <1>1, UnequipGood
<1> QED
    BY <1>2, <1>3 DEF do_wear, do_remove

\* What poisons, what sleeps and wakes, and what immortals do.
LEMMA RestGood ==
    ASSUME NEW w \in Good, NEW c \in Chars
    PROVE  /\ Poisoned(w, c) \in SUBSET Good /\ do_sleep(w, c) \in SUBSET Good /\ do_wake(w, c) \in SUBSET Good
           /\ do_awaken(w, c) \in SUBSET Good /\ do_coma(w, c) \in SUBSET Good /\ do_restore(w, c) \in SUBSET Good
<1>1. Poisoned(w, c) \in SUBSET Good
    BY LevelIs, JoiningGood DEF Poisoned
<1>2. do_sleep(w, c) \in SUBSET Good
    <2>1. Posed(w, c, "sleeping") \in Good
        BY PosedGood DEF Positions
    <2> QED
        BY <2>1 DEF do_sleep, Posed
<1>3. do_wake(w, c) \in SUBSET Good
    <2>1. Posed(w, c, "standing") \in Good
        BY PosedGood DEF Positions
    <2> QED
        BY <2>1 DEF do_wake, Posed
<1>4. do_awaken(w, c) \in SUBSET Good
    <2> DEFINE u == ClearBits(w, c, {"Sleep"})
    <2>1. u \in Good
        BY ClearGood
    <2>2. do_awaken(w, c) \in {{w}, {Posed(u, c, "standing")}}
        BY DEF do_awaken, Posed
    <2> HIDE DEF u
    <2>3. Posed(u, c, "standing") \in Good
        BY <2>1, PosedGood DEF Positions
    <2> QED
        BY <2>2, <2>3
<1>5. do_coma(w, c) \in SUBSET Good
    <2> DEFINE slept == affect_join(w, c, Affect("sleep", CharLevel, Lasts, "None", 0, {"Sleep"}))
    <2>1. slept \in Good
        BY LevelIs, JoiningGood
    <2>2. do_coma(w, c) \in {{w}, {slept}, {Posed(slept, c, "sleeping")}}
        BY DEF do_coma, Posed
    <2> HIDE DEF slept
    <2>3. Posed(slept, c, "sleeping") \in Good
        BY <2>1, PosedGood DEF Positions
    <2> QED
        BY <2>1, <2>2, <2>3
<1>6. do_restore(w, c) \in SUBSET Good
    <2> DEFINE u == AffectsStripped(w, c, <<"plague", "poison", "blindness", "sleep", "curse">>)
    <2>1. u \in Good
        BY StrippedAre
    <2>2. do_restore(w, c) = {update_pos(u, c)}
        BY DEF do_restore
    <2> HIDE DEF u
    <2> QED
        BY <2>1, <2>2, UpGood
<1> QED
    BY <1>1, <1>2, <1>3, <1>4, <1>5, <1>6

-----------------------------------------------------------------------------
(***************************************************************************)
(* Spells on all in the room.                                              *)
(***************************************************************************)
\* One is calmed.
LEMMA CalmedGood ==
    ASSUME NEW w \in Good, NEW l \in Int, NEW v \in Chars
    PROVE  Calmed(w, l, v) \in Good
<1> DEFINE u == IF w.foe[v] # Nobody THEN stop_fighting(w, v, FALSE) ELSE w
           adds(less) == <<<<"Hitroll", less, {"Calm"}>>, <<"Damroll", less, {"Calm"}>>>>
<1>1. u \in Good
    BY StopsGood
<1>2. \A less \in Int : adds(less) \in Adds
    BY TwiceAre DEF Locations, Bits
<1>3. "calm" \in Types
    BY DEF Types
<1>4. Calmed(w, l, v) = Added(u, v, "calm", l, adds(IF v \in Players THEN -5 ELSE -2))
    BY DEF Calmed
<1> HIDE DEF u, adds
<1>5. \A less \in Int : Added(u, v, "calm", l, adds(less)) \in Good
    BY <1>1, <1>2, <1>3, AddedGood
<1> QED
    BY <1>4, <1>5

CalmedIn(w, l, S) == FoldSet(LAMBDA v, x : Calmed(x, l, v), w, S)

\* So are several, one after the other.
LEMMA CalmedInGood ==
    ASSUME NEW w \in Good, NEW l \in Int, NEW these \in SUBSET Chars
    PROVE  CalmedIn(w, l, these) \in Good
<1> DEFINE S == these
           D == Good
           Op(v, x) == Calmed(x, l, v)
           G == [p \in S \X D |-> Op(p[1], p[2])]
           Is(h) == h = [s \in SUBSET S |-> IF s = {} THEN w ELSE Op(Pick(s), h[s \ {Pick(s)}])]
           fold == CHOOSE h : Is(h)
<1>1. IsFiniteSet(S) /\ w \in D
    BY CharsFinite
<1>2. \A a \in S : \A u \in D : G[<<a, u>>] = Op(a, u)
    OBVIOUS
<1>3. Within(G, S, D)
    <2>1. \A v \in S : \A x \in D : Op(v, x) \in D
        BY CalmedGood
    <2> HIDE DEF G
    <2> QED
        BY <1>2, <2>1 DEF Within
<1>4. CalmedIn(w, l, these) = fold[S]
    BY DEF CalmedIn, FoldSet, MapThenFoldSet, Pick
<1> HIDE DEF G, Op, S, D
<1>5. PICK g : Folded(g, S, w, G) /\ \A s \in SUBSET S : g[s] \in D
    BY <1>1, <1>3, FoldExists
<1>6. \A s \in SUBSET S : s # {} => Pick(s) \in S /\ s \ {Pick(s)} \in SUBSET S
    BY DEF Pick
<1>7. Is(g)
    BY <1>2, <1>5, <1>6 DEF Folded
<1>8. Is(fold)
    BY <1>7
<1> HIDE DEF fold
<1>9. fold[{}] = w /\ \A s \in SUBSET S : s # {} => fold[s] = Op(Pick(s), fold[s \ {Pick(s)}])
    BY <1>8
<1>10. Folds_(fold, S, D, w, G)
    BY <1>2, <1>6, <1>9 DEF Folds_
<1>11. fold[S] \in D
    BY <1>1, <1>3, <1>10, FoldEnds
<1> QED
    BY <1>4, <1>11 DEF D

\* So are all up to the first who cannot be.
LEMMA CalmGood ==
    ASSUME NEW w \in Good, NEW l \in Int
    PROVE  spell_calm(w, l) \in SUBSET Good
<1> DEFINE stubborn == {v \in Living(w) : \/ v \in Undead
                                         \/ AFF(w, v, "Calm") \/ AFF(w, v, "Berserk")
                                         \/ is_affected_by(w, v, "frenzy")}
           before == IF stubborn = {} THEN {Living(w)} ELSE SUBSET (Living(w) \ stubborn)
<1>1. \A S \in before : S \in SUBSET Chars
    BY LivingAre
<1>2. spell_calm(w, l) = {w} \cup {CalmedIn(w, l, S) : S \in before}
    BY DEF spell_calm, CalmedIn
<1> HIDE DEF before
<1> QED
    BY <1>1, <1>2, CalmedInGood

\* The fog shows all who hide.
LEMMA FogGood ==
    ASSUME NEW w \in Good, NEW c \in Chars
    PROVE  spell_faerie_fog(w, c) \in SUBSET Good
<1> DEFINE S == Living(w) \ {c}
           D == SUBSET Good
           Op(v, ws) == UNION {Saved(x, {ClearBits(AffectsStripped(x, v, <<"invis", "mass invis", "sneak">>), v, {"Hide", "Invisible", "Sneak"})}) : x \in ws}
           G == [p \in S \X D |-> Op(p[1], p[2])]
           Is(h) == h = [s \in SUBSET S |-> IF s = {} THEN {w} ELSE Op(Pick(s), h[s \ {Pick(s)}])]
           fold == CHOOSE h : Is(h)
<1>1. IsFiniteSet(S) /\ {w} \in D
    BY CharsFinite, LivingAre
<1>2. \A a \in S : \A u \in D : G[<<a, u>>] = Op(a, u)
    OBVIOUS
<1>3. Within(G, S, D)
    <2>1. \A v \in S : \A ws \in D : Op(v, ws) \in D
        <3>1. ASSUME NEW v \in S, NEW x \in Good
              PROVE  Saved(x, {ClearBits(AffectsStripped(x, v, <<"invis", "mass invis", "sneak">>), v, {"Hide", "Invisible", "Sneak"})}) \in SUBSET Good
            <4>1. v \in Chars
                BY LivingAre
            <4>2. AffectsStripped(x, v, <<"invis", "mass invis", "sneak">>) \in Good
                BY <4>1, StrippedAre
            <4>3. ClearBits(AffectsStripped(x, v, <<"invis", "mass invis", "sneak">>), v, {"Hide", "Invisible", "Sneak"}) \in Good
                BY <4>1, <4>2, ClearGood
            <4> QED
                BY <4>3 DEF Saved
        <3> QED
            BY <3>1
    <2> HIDE DEF G
    <2> QED
        BY <1>2, <2>1 DEF Within
<1>4. spell_faerie_fog(w, c) = fold[S]
    BY DEF spell_faerie_fog, Each, FoldSet, MapThenFoldSet, Pick
<1> HIDE DEF G, Op, S, D
<1>5. PICK g : Folded(g, S, {w}, G) /\ \A s \in SUBSET S : g[s] \in D
    BY <1>1, <1>3, FoldExists
<1>6. \A s \in SUBSET S : s # {} => Pick(s) \in S /\ s \ {Pick(s)} \in SUBSET S
    BY DEF Pick
<1>7. Is(g)
    BY <1>2, <1>5, <1>6 DEF Folded
<1>8. Is(fold)
    BY <1>7
<1> HIDE DEF fold
<1>9. fold[{}] = {w} /\ \A s \in SUBSET S : s # {} => fold[s] = Op(Pick(s), fold[s \ {Pick(s)}])
    BY <1>8
<1>10. Folds_(fold, S, D, {w}, G)
    BY <1>2, <1>6, <1>9 DEF Folds_
<1>11. fold[S] \in D
    BY <1>1, <1>3, <1>10, FoldEnds
<1> QED
    BY <1>4, <1>11 DEF D

\* The group becomes invisible.
LEMMA MassInvisGood ==
    ASSUME NEW w \in Good, NEW l \in Int, NEW c \in Chars
    PROVE  spell_mass_invis(w, l, c) \in SUBSET Good
<1> DEFINE S == {v \in Living(w) : is_same_group(w, v, c) /\ ~AFF(w, v, "Invisible")}
           D == SUBSET Good
           Op(v, ws) == UNION {{Added(x, v, "mass invis", l \div 2, Bit("Invisible"))} : x \in ws}
           G == [p \in S \X D |-> Op(p[1], p[2])]
           Is(h) == h = [s \in SUBSET S |-> IF s = {} THEN {w} ELSE Op(Pick(s), h[s \ {Pick(s)}])]
           fold == CHOOSE h : Is(h)
<1>1. IsFiniteSet(S) /\ {w} \in D
    BY CharsFinite, LivingAre
<1>2. \A a \in S : \A u \in D : G[<<a, u>>] = Op(a, u)
    OBVIOUS
<1>3. Within(G, S, D)
    <2>1. \A v \in S : \A ws \in D : Op(v, ws) \in D
        <3>1. Bit("Invisible") \in Adds /\ "mass invis" \in Types /\ S \in SUBSET Chars
            BY BitIs, LivingAre DEF Bits, Types
        <3>a. l \div 2 \in Int
            BY SharesOf
        <3>2. \A v \in S : \A x \in Good : Added(x, v, "mass invis", l \div 2, Bit("Invisible")) \in Good
            BY <3>1, <3>a, AddedGood
        <3> QED
            BY <3>2
    <2> HIDE DEF G
    <2> QED
        BY <1>2, <2>1 DEF Within
<1>4. spell_mass_invis(w, l, c) = fold[S]
    BY DEF spell_mass_invis, Each, FoldSet, MapThenFoldSet, Pick
<1> HIDE DEF G, Op, S, D
<1>5. PICK g : Folded(g, S, {w}, G) /\ \A s \in SUBSET S : g[s] \in D
    BY <1>1, <1>3, FoldExists
<1>6. \A s \in SUBSET S : s # {} => Pick(s) \in S /\ s \ {Pick(s)} \in SUBSET S
    BY DEF Pick
<1>7. Is(g)
    BY <1>2, <1>5, <1>6 DEF Folded
<1>8. Is(fold)
    BY <1>7
<1> HIDE DEF fold
<1>9. fold[{}] = {w} /\ \A s \in SUBSET S : s # {} => fold[s] = Op(Pick(s), fold[s \ {Pick(s)}])
    BY <1>8
<1>10. Folds_(fold, S, D, {w}, G)
    BY <1>2, <1>6, <1>9 DEF Folds_
<1>11. fold[S] \in D
    BY <1>1, <1>3, <1>10, FoldEnds
<1> QED
    BY <1>4, <1>11 DEF D

\* The spell heals all of a kind.
LEMMA MassHealingGood ==
    ASSUME NEW w \in Good, NEW c \in Chars
    PROVE  spell_mass_healing(w, c) \in SUBSET Good
<1> DEFINE S == {v \in Living(w) : (v \in Players) = (c \in Players)}
           D == SUBSET Good
           Op(v, ws) == UNION {{update_pos(x, v)} : x \in ws}
           G == [p \in S \X D |-> Op(p[1], p[2])]
           Is(h) == h = [s \in SUBSET S |-> IF s = {} THEN {w} ELSE Op(Pick(s), h[s \ {Pick(s)}])]
           fold == CHOOSE h : Is(h)
<1>1. IsFiniteSet(S) /\ {w} \in D
    BY CharsFinite, LivingAre
<1>2. \A a \in S : \A u \in D : G[<<a, u>>] = Op(a, u)
    OBVIOUS
<1>3. Within(G, S, D)
    <2>1. \A v \in S : \A ws \in D : Op(v, ws) \in D
        <3>1. S \in SUBSET Chars
            BY LivingAre
        <3>2. \A v \in S : \A x \in Good : update_pos(x, v) \in Good
            BY <3>1, UpGood
        <3> QED
            BY <3>2
    <2> HIDE DEF G
    <2> QED
        BY <1>2, <2>1 DEF Within
<1>4. spell_mass_healing(w, c) = fold[S]
    BY DEF spell_mass_healing, Each, FoldSet, MapThenFoldSet, Pick
<1> HIDE DEF G, Op, S, D
<1>5. PICK g : Folded(g, S, {w}, G) /\ \A s \in SUBSET S : g[s] \in D
    BY <1>1, <1>3, FoldExists
<1>6. \A s \in SUBSET S : s # {} => Pick(s) \in S /\ s \ {Pick(s)} \in SUBSET S
    BY DEF Pick
<1>7. Is(g)
    BY <1>2, <1>5, <1>6 DEF Folded
<1>8. Is(fold)
    BY <1>7
<1> HIDE DEF fold
<1>9. fold[{}] = {w} /\ \A s \in SUBSET S : s # {} => fold[s] = Op(Pick(s), fold[s \ {Pick(s)}])
    BY <1>8
<1>10. Folds_(fold, S, D, {w}, G)
    BY <1>2, <1>6, <1>9 DEF Folds_
<1>11. fold[S] \in D
    BY <1>1, <1>3, <1>10, FoldEnds
<1> QED
    BY <1>4, <1>11 DEF D

\* All are struck, each in the worlds that the hits before have left.
LEMMA AtAllGood ==
    ASSUME NEW w \in Good, NEW c \in Chars, NEW these \in SUBSET Chars
    PROVE  AtAll(w, c, these) \in SUBSET Good
<1> DEFINE S == these
           D == SUBSET Good
           Op(v, ws) == UNION {(IF v \in Living(x) /\ c \in Living(x) /\ ~is_safe_spell(x, c, v, TRUE) THEN damage(x, c, v) ELSE {x}) : x \in ws}
           G == [p \in S \X D |-> Op(p[1], p[2])]
           Is(h) == h = [s \in SUBSET S |-> IF s = {} THEN {w} ELSE Op(Pick(s), h[s \ {Pick(s)}])]
           fold == CHOOSE h : Is(h)
<1>1. IsFiniteSet(S) /\ {w} \in D
    BY CharsFinite
<1>2. \A a \in S : \A u \in D : G[<<a, u>>] = Op(a, u)
    OBVIOUS
<1>3. Within(G, S, D)
    <2>1. \A v \in S : \A ws \in D : Op(v, ws) \in D
        <3>1. \A v \in S : \A x \in Good : damage(x, c, v) \in SUBSET Good
            BY DamageGood
        <3> QED
            BY <3>1
    <2> HIDE DEF G
    <2> QED
        BY <1>2, <2>1 DEF Within
<1>4. AtAll(w, c, these) = fold[S]
    BY DEF AtAll, Each, FoldSet, MapThenFoldSet, Pick
<1> HIDE DEF G, Op, S, D
<1>5. PICK g : Folded(g, S, {w}, G) /\ \A s \in SUBSET S : g[s] \in D
    BY <1>1, <1>3, FoldExists
<1>6. \A s \in SUBSET S : s # {} => Pick(s) \in S /\ s \ {Pick(s)} \in SUBSET S
    BY DEF Pick
<1>7. Is(g)
    BY <1>2, <1>5, <1>6 DEF Folded
<1>8. Is(fold)
    BY <1>7
<1> HIDE DEF fold
<1>9. fold[{}] = {w} /\ \A s \in SUBSET S : s # {} => fold[s] = Op(Pick(s), fold[s \ {Pick(s)}])
    BY <1>8
<1>10. Folds_(fold, S, D, {w}, G)
    BY <1>2, <1>6, <1>9 DEF Folds_
<1>11. fold[S] \in D
    BY <1>1, <1>3, <1>10, FoldEnds
<1> QED
    BY <1>4, <1>11 DEF D

Lit(w, c, S) == Each(w, S, LAMBDA x, v : damage(x, c, v))

\* Lightning that is called strikes all of the other kind.
LEMMA LitGood ==
    ASSUME NEW w \in Good, NEW c \in Chars, NEW these \in SUBSET Chars
    PROVE  Lit(w, c, these) \in SUBSET Good
<1> DEFINE S == these
           D == SUBSET Good
           Op(v, ws) == UNION {damage(x, c, v) : x \in ws}
           G == [p \in S \X D |-> Op(p[1], p[2])]
           Is(h) == h = [s \in SUBSET S |-> IF s = {} THEN {w} ELSE Op(Pick(s), h[s \ {Pick(s)}])]
           fold == CHOOSE h : Is(h)
<1>1. IsFiniteSet(S) /\ {w} \in D
    BY CharsFinite
<1>2. \A a \in S : \A u \in D : G[<<a, u>>] = Op(a, u)
    OBVIOUS
<1>3. Within(G, S, D)
    <2>1. \A v \in S : \A ws \in D : Op(v, ws) \in D
        <3>1. \A v \in S : \A x \in Good : damage(x, c, v) \in SUBSET Good
            BY DamageGood
        <3> QED
            BY <3>1
    <2> HIDE DEF G
    <2> QED
        BY <1>2, <2>1 DEF Within
<1>4. Lit(w, c, these) = fold[S]
    BY DEF Lit, Each, FoldSet, MapThenFoldSet, Pick
<1> HIDE DEF G, Op, S, D
<1>5. PICK g : Folded(g, S, {w}, G) /\ \A s \in SUBSET S : g[s] \in D
    BY <1>1, <1>3, FoldExists
<1>6. \A s \in SUBSET S : s # {} => Pick(s) \in S /\ s \ {Pick(s)} \in SUBSET S
    BY DEF Pick
<1>7. Is(g)
    BY <1>2, <1>5, <1>6 DEF Folded
<1>8. Is(fold)
    BY <1>7
<1> HIDE DEF fold
<1>9. fold[{}] = {w} /\ \A s \in SUBSET S : s # {} => fold[s] = Op(Pick(s), fold[s \ {Pick(s)}])
    BY <1>8
<1>10. Folds_(fold, S, D, {w}, G)
    BY <1>2, <1>6, <1>9 DEF Folds_
<1>11. fold[S] \in D
    BY <1>1, <1>3, <1>10, FoldEnds
<1> QED
    BY <1>4, <1>11 DEF D

\* What the holy word does to one.
Word(x, l, c, v) ==
    IF Aligned(x, c, v) THEN UNION {spell_bless(y, l, v) : y \in spell_frenzy(x, l, c, v)}
    ELSE IF \/ {x.align[c], x.align[v]} = {"good", "neutral"} /\ x.align[c] = "good"
            \/ {x.align[c], x.align[v]} = {"evil", "neutral"} /\ x.align[c] = "evil"
            \/ c \notin Living(x) \/ is_safe_spell(x, c, v, TRUE)
         THEN {x}
         ELSE UNION {damage(y, c, v) : y \in spell_curse(x, IF x.align[c] = "neutral" THEN l \div 2 ELSE l, v)}

\* It blesses, or curses and strikes.
LEMMA WordGood ==
    ASSUME NEW x \in Good, NEW l \in Int, NEW c \in Chars, NEW v \in Chars
    PROVE  Word(x, l, c, v) \in SUBSET Good
<1> DEFINE blessed == UNION {spell_bless(y, l, v) : y \in spell_frenzy(x, l, c, v)}
           k == IF x.align[c] = "neutral" THEN l \div 2 ELSE l
           cursed == UNION {damage(y, c, v) : y \in spell_curse(x, k, v)}
<1>1. blessed \in SUBSET Good
    <2>1. spell_frenzy(x, l, c, v) \in SUBSET Good
        BY AfflictGood
    <2>2. \A y \in Good : spell_bless(y, l, v) \in SUBSET Good
        BY HelpGood
    <2> QED
        BY <2>1, <2>2
<1>2. k \in Int
    BY SharesOf
<1>3. cursed \in SUBSET Good
    <2> HIDE DEF k
    <2>1. spell_curse(x, k, v) \in SUBSET Good
        BY <1>2, AfflictGood
    <2>2. \A y \in Good : damage(y, c, v) \in SUBSET Good
        BY DamageGood
    <2> QED
        BY <2>1, <2>2
<1>4. Word(x, l, c, v) \in {blessed, {x}, cursed}
    BY DEF Word
<1> HIDE DEF blessed, cursed
<1> QED
    BY <1>1, <1>3, <1>4

\* So for all in the room.
LEMMA HolyGood ==
    ASSUME NEW w \in Good, NEW l \in Int, NEW c \in Chars
    PROVE  spell_holy_word(w, l, c) \in SUBSET Good
<1> DEFINE S == Living(w)
           D == SUBSET Good
           Op(v, ws) == UNION {Word(x, l, c, v) : x \in ws}
           G == [p \in S \X D |-> Op(p[1], p[2])]
           Is(h) == h = [s \in SUBSET S |-> IF s = {} THEN {w} ELSE Op(Pick(s), h[s \ {Pick(s)}])]
           fold == CHOOSE h : Is(h)
<1>1. IsFiniteSet(S) /\ {w} \in D
    BY CharsFinite, LivingAre
<1>2. \A a \in S : \A u \in D : G[<<a, u>>] = Op(a, u)
    OBVIOUS
<1>3. Within(G, S, D)
    <2>1. \A v \in S : \A ws \in D : Op(v, ws) \in D
        <3>1. \A v \in S : \A x \in Good : Word(x, l, c, v) \in SUBSET Good
            BY WordGood, LivingAre
        <3> QED
            BY <3>1
    <2> HIDE DEF G
    <2> QED
        BY <1>2, <2>1 DEF Within
<1>4. spell_holy_word(w, l, c) = fold[S]
    BY DEF spell_holy_word, Each, Word, FoldSet, MapThenFoldSet, Pick
<1> HIDE DEF G, Op, S, D
<1>5. PICK g : Folded(g, S, {w}, G) /\ \A s \in SUBSET S : g[s] \in D
    BY <1>1, <1>3, FoldExists
<1>6. \A s \in SUBSET S : s # {} => Pick(s) \in S /\ s \ {Pick(s)} \in SUBSET S
    BY DEF Pick
<1>7. Is(g)
    BY <1>2, <1>5, <1>6 DEF Folded
<1>8. Is(fold)
    BY <1>7
<1> HIDE DEF fold
<1>9. fold[{}] = {w} /\ \A s \in SUBSET S : s # {} => fold[s] = Op(Pick(s), fold[s \ {Pick(s)}])
    BY <1>8
<1>10. Folds_(fold, S, D, {w}, G)
    BY <1>2, <1>6, <1>9 DEF Folds_
<1>11. fold[S] \in D
    BY <1>1, <1>3, <1>10, FoldEnds
<1> QED
    BY <1>4, <1>11 DEF D

\* The bolts there are.
Bolts == [w : Good, last : Chars, level : Int]

\* What a bolt comes to in one round is a set of bolts.
LEMMA RoundGood ==
    ASSUME NEW b \in Bolts, NEW c \in Chars
    PROVE  Round(b, c) \in SUBSET Bolts
<1> DEFINE open == {v \in Living(b.w) : ~is_safe_spell(b.w, c, v, TRUE)}
           others == open \ {b.last}
           back == {[w |-> x, last |-> c, level |-> b.level - 4] : x \in damage(b.w, c, c)}
<1>1. b.w \in Good /\ b.last \in Chars /\ b.level \in Int
    BY DEF Bolts
<1>2. open \in SUBSET Chars /\ others \in SUBSET Chars
    BY <1>1, LivingAre
<1>3. ASSUME NEW struck \in SUBSET Chars
      PROVE  Arcs(b, c, struck) \in SUBSET Bolts
    <2>1. AtAll(b.w, c, struck) \in SUBSET Good
        BY <1>1, AtAllGood
    <2>2. b.level - 4 * Cardinality(struck) \in Int
        <3>1. Cardinality(struck) \in Nat
            BY CharsFinite, FS_Subset, FS_CardinalityType
        <3> QED
            BY <1>1, <3>1
    <2> QED
        BY <2>1, <2>2 DEF Arcs, Bolts
<1>4. back \in SUBSET Bolts
    <2>1. damage(b.w, c, c) \in SUBSET Good
        BY <1>1, DamageGood
    <2>2. b.level - 4 \in Int
        BY <1>1
    <2> QED
        BY <2>1, <2>2 DEF Bolts
<1>5. Round(b, c) \in {{b}, Arcs(b, c, others) \cup Arcs(b, c, open), back}
    BY DEF Round
<1> HIDE DEF open, others, back
<1>6. Arcs(b, c, others) \in SUBSET Bolts /\ Arcs(b, c, open) \in SUBSET Bolts
    BY <1>2, <1>3
<1> QED
    BY <1>4, <1>5, <1>6

\* So do the rounds that its level lasts for.
LEMMA ChainGood ==
    ASSUME NEW w \in Good, NEW l \in Int, NEW c \in Chars, NEW t \in Chars
    PROVE  spell_chain_lightning(w, l, c, t) \in SUBSET Good
<1> DEFINE S == 1 .. (l \div 4)
           D == SUBSET Bolts
           first == {[w |-> x, last |-> t, level |-> l - 4] : x \in damage(w, c, t)}
           Op(v, bs) == UNION {Round(b, c) : b \in bs}
           G == [p \in S \X D |-> Op(p[1], p[2])]
           Is(h) == h = [s \in SUBSET S |-> IF s = {} THEN first ELSE Op(Pick(s), h[s \ {Pick(s)}])]
           fold == CHOOSE h : Is(h)
<1>1. IsFiniteSet(S) /\ first \in D
    <2>1. damage(w, c, t) \in SUBSET Good
        BY DamageGood
    <2>2. IsFiniteSet(S)
        <3>1. 1 \in Int /\ l \div 4 \in Int
            BY SharesOf
        <3> QED
            BY <3>1, FS_Interval
    <2> QED
        BY <2>1, <2>2 DEF Bolts
<1>2. \A a \in S : \A u \in D : G[<<a, u>>] = Op(a, u)
    OBVIOUS
<1>3. Within(G, S, D)
    <2>1. \A v \in S : \A bs \in D : Op(v, bs) \in D
        BY RoundGood
    <2> HIDE DEF G
    <2> QED
        BY <1>2, <2>1 DEF Within
<1>4. spell_chain_lightning(w, l, c, t) = {b.w : b \in fold[S]}
    BY DEF spell_chain_lightning, FoldSet, MapThenFoldSet, Pick
<1> HIDE DEF G, Op, S, D, first
<1>5. PICK g : Folded(g, S, first, G) /\ \A s \in SUBSET S : g[s] \in D
    BY <1>1, <1>3, FoldExists
<1>6. \A s \in SUBSET S : s # {} => Pick(s) \in S /\ s \ {Pick(s)} \in SUBSET S
    BY DEF Pick
<1>7. Is(g)
    BY <1>2, <1>5, <1>6 DEF Folded
<1>8. Is(fold)
    BY <1>7
<1> HIDE DEF fold
<1>9. fold[{}] = first /\ \A s \in SUBSET S : s # {} => fold[s] = Op(Pick(s), fold[s \ {Pick(s)}])
    BY <1>8
<1>10. Folds_(fold, S, D, first, G)
    BY <1>2, <1>6, <1>9 DEF Folds_
<1>11. fold[S] \in SUBSET Bolts
    BY <1>1, <1>3, <1>10, FoldEnds DEF D
<1>12. \A b \in fold[S] : b.w \in Good
    BY <1>11 DEF Bolts
<1> QED
    BY <1>4, <1>12

\* The other spells that strike all.
LEMMA RoomGood ==
    ASSUME NEW w \in Good, NEW c \in Chars
    PROVE  /\ spell_earthquake(w, c) \in SUBSET Good /\ spell_gas_breath(w, c) \in SUBSET Good
           /\ spell_call_lightning(w, c) \in SUBSET Good
<1>1. \A x \in Good : Living(x) \in SUBSET Chars
    BY LivingAre
<1>2. spell_earthquake(w, c) \in SUBSET Good /\ spell_gas_breath(w, c) \in SUBSET Good
    BY <1>1, AtAllGood DEF spell_earthquake, spell_gas_breath
<1>3. spell_call_lightning(w, c) \in SUBSET Good
    <2> DEFINE S == {v \in Living(w) : (v \in Players) # (c \in Players)}
    <2>1. S \in SUBSET Chars
        BY <1>1
    <2>2. spell_call_lightning(w, c) = {w} \cup Lit(w, c, S)
        BY DEF spell_call_lightning, Lit
    <2> HIDE DEF S
    <2> QED
        BY <2>1, <2>2, LitGood
<1> QED
    BY <1>2, <1>3

-----------------------------------------------------------------------------
(***************************************************************************)
(* Spells that strike.                                                     *)
(***************************************************************************)
\* Each is damage() and no more.
LEMMA StrikesGood ==
    ASSUME NEW w \in Good, NEW c \in Chars, NEW v \in Chars
    PROVE  /\ spell_acid_blast(w, c, v) \in SUBSET Good
           /\ spell_burning_hands(w, c, v) \in SUBSET Good
           /\ spell_cause_light(w, c, v) \in SUBSET Good
           /\ spell_cause_critical(w, c, v) \in SUBSET Good
           /\ spell_cause_serious(w, c, v) \in SUBSET Good
           /\ spell_fireball(w, c, v) \in SUBSET Good
           /\ spell_flamestrike(w, c, v) \in SUBSET Good
           /\ spell_harm(w, c, v) \in SUBSET Good
           /\ spell_lightning_bolt(w, c, v) \in SUBSET Good
           /\ spell_magic_missile(w, c, v) \in SUBSET Good
           /\ spell_shocking_grasp(w, c, v) \in SUBSET Good
           /\ spell_lightning_breath(w, c, v) \in SUBSET Good
           /\ spell_general_purpose(w, c, v) \in SUBSET Good
           /\ spell_high_explosive(w, c, v) \in SUBSET Good
           /\ spell_fire_breath(w, c, v) \in SUBSET Good
           /\ spell_frost_breath(w, c, v) \in SUBSET Good
<1>1. damage(w, c, v) \in SUBSET Good
    BY DamageGood
<1> HIDE DEF damage
<1> QED
    BY <1>1
       DEF spell_acid_blast, spell_burning_hands, spell_cause_light, spell_cause_critical, spell_cause_serious,
           spell_fireball, spell_flamestrike, spell_harm, spell_lightning_bolt, spell_magic_missile,
           spell_shocking_grasp, spell_lightning_breath, spell_general_purpose,
           spell_high_explosive, spell_fire_breath, spell_frost_breath

\* What casters believe in may change.
LEMMA LeansGood ==
    ASSUME NEW w \in Good, NEW c \in Chars
    PROVE  Upwards(w, c) \in SUBSET Good /\ Downwards(w, c) \in SUBSET Good
<1>1. \A aligns \in SUBSET Aligns : Leans(w, c, aligns) \in SUBSET Good
    BY LeaningGood DEF Leans, Leaning
<1>2. {"evil", "neutral"} \in SUBSET Aligns /\ {"neutral", "good"} \in SUBSET Aligns /\ {"good"} \in SUBSET Aligns
      /\ {"good", "neutral"} \in SUBSET Aligns /\ {"neutral", "evil"} \in SUBSET Aligns /\ {"evil"} \in SUBSET Aligns
    BY DEF Aligns
<1>3. Upwards(w, c) \in {Leans(w, c, {"evil", "neutral"}), Leans(w, c, {"neutral", "good"}), Leans(w, c, {"good"})}
    BY DEF Upwards
<1>4. Downwards(w, c) \in {Leans(w, c, {"good", "neutral"}), Leans(w, c, {"neutral", "evil"}), Leans(w, c, {"evil"})}
    BY DEF Downwards
<1> QED
    BY <1>1, <1>2, <1>3, <1>4

\* Spells that change what their caster believes in, and strike.
LEMMA DemonGood ==
    ASSUME NEW w \in Good, NEW c \in Chars, NEW v \in Chars
    PROVE  /\ spell_exorcise(w, c, v) \in SUBSET Good /\ spell_demonfire(w, c, v) \in SUBSET Good
           /\ spell_energy_drain(w, c, v) \in SUBSET Good
<1>1. \A x \in Good, d \in {c, v} : damage(x, c, d) \in SUBSET Good
    BY DamageGood
<1>2. Upwards(w, c) \in SUBSET Good /\ Downwards(w, c) \in SUBSET Good
    BY LeansGood
<1>3. spell_exorcise(w, c, v) \in SUBSET Good
    <2> DEFINE struck == {v} \cup IF c \in Players /\ ~(w.align[v] = "evil" /\ w.align[c] = "good") THEN {c} ELSE {}
    <2>1. struck \in SUBSET {c, v}
        OBVIOUS
    <2>2. spell_exorcise(w, c, v) = UNION {UNION {damage(x, c, d) : x \in Upwards(w, c)} : d \in struck}
        BY DEF spell_exorcise
    <2> HIDE DEF struck
    <2> QED
        BY <1>1, <1>2, <2>1, <2>2
<1>4. spell_demonfire(w, c, v) \in SUBSET Good
    <2> DEFINE struck == {v} \cup IF c \in Players /\ ~(w.align[v] = "good" /\ w.align[c] = "evil") THEN {c} ELSE {}
    <2>1. struck \in SUBSET {c, v}
        OBVIOUS
    <2>2. spell_demonfire(w, c, v) = UNION {UNION {damage(x, c, d) : x \in Downwards(w, c)} : d \in struck}
        BY DEF spell_demonfire
    <2> HIDE DEF struck
    <2> QED
        BY <1>1, <1>2, <2>1, <2>2
<1>5. spell_energy_drain(w, c, v) \in SUBSET Good
    BY <1>1, <1>2 DEF spell_energy_drain, Saved
<1> QED
    BY <1>3, <1>4, <1>5

\* Spells that strike the evil, or the good, if only the caster.
LEMMA DispelAlignGood ==
    ASSUME NEW w \in Good, NEW c \in Chars, NEW v \in Chars
    PROVE  spell_dispel_evil(w, c, v) \in SUBSET Good /\ spell_dispel_good(w, c, v) \in SUBSET Good
<1>1. damage(w, c, c) \in SUBSET Good /\ damage(w, c, v) \in SUBSET Good
    BY DamageGood
<1>2. spell_dispel_evil(w, c, v) \in {{w}, damage(w, c, c), damage(w, c, v)}
    BY DEF spell_dispel_evil
<1>3. spell_dispel_good(w, c, v) \in {{w}, damage(w, c, c), damage(w, c, v)}
    BY DEF spell_dispel_good
<1> QED
    BY <1>1, <1>2, <1>3

\* The tornado blinds, and puts its victim down.
LEMMA TornadoGood ==
    ASSUME NEW w \in Good, NEW l \in Int, NEW v \in Chars
    PROVE  tornado_mental(w, l, v) \in Good
<1> DEFINE loss == -Steps(l, {20, 30, 50, 75, 91})
           adds == <<<<"Hitroll", -4, {"Blind"}>>, <<"Wis", loss, {}>>, <<"Int", loss, {}>>>>
           u == Added(w, v, "psychic tornado", l, adds)
<1>1. loss \in Int
    BY StepsAre
<1> HIDE DEF loss
<1>2. adds \in Adds
    <2>1. {"Blind"} \in Free /\ {} \in Free
        <3>1. "Blind" \in Bits
            BY DEF Bits
        <3> QED
            BY <3>1, FreeIs
    <2>2. "Hitroll" \in Locations /\ "Wis" \in Locations /\ "Int" \in Locations /\ -4 \in Int
        BY DEF Locations
    <2> QED
        BY <1>1, <2>1, <2>2, AddsThree
<1>3. "psychic tornado" \in Types /\ "resting" \in Positions
    BY DEF Types, Positions
<1>4. tornado_mental(w, l, v) = Posed(u, v, "resting")
    BY DEF tornado_mental, Posed, loss
<1> HIDE DEF adds
<1>5. u \in Good
    BY <1>2, <1>3, AddedGood
<1> HIDE DEF u
<1> QED
    BY <1>3, <1>4, <1>5, PosedGood

\* It falls on the victim once more for each who stands by.
Felt(x, l, v, near) == FoldSet(LAMBDA d, y : tornado_mental(y, l, v), tornado_mental(x, l, v), near)

\* So it does over and over.
LEMMA FeltGood ==
    ASSUME NEW w \in Good, NEW l \in Int, NEW v \in Chars, NEW these \in SUBSET Chars
    PROVE  Felt(w, l, v, these) \in Good
<1> DEFINE S == these
           D == Good
           Op(d, y) == tornado_mental(y, l, v)
           G == [p \in S \X D |-> Op(p[1], p[2])]
           Is(h) == h = [s \in SUBSET S |-> IF s = {} THEN tornado_mental(w, l, v) ELSE Op(Pick(s), h[s \ {Pick(s)}])]
           fold == CHOOSE h : Is(h)
<1>1. IsFiniteSet(S) /\ tornado_mental(w, l, v) \in D
    BY CharsFinite, TornadoGood
<1>2. \A a \in S : \A u \in D : G[<<a, u>>] = Op(a, u)
    OBVIOUS
<1>3. Within(G, S, D)
    <2>1. \A d \in S : \A y \in D : Op(d, y) \in D
        BY TornadoGood
    <2> HIDE DEF G
    <2> QED
        BY <1>2, <2>1 DEF Within
<1>4. Felt(w, l, v, these) = fold[S]
    BY DEF Felt, FoldSet, MapThenFoldSet, Pick
<1> HIDE DEF G, Op, S, D
<1>5. PICK g : Folded(g, S, tornado_mental(w, l, v), G) /\ \A s \in SUBSET S : g[s] \in D
    BY <1>1, <1>3, FoldExists
<1>6. \A s \in SUBSET S : s # {} => Pick(s) \in S /\ s \ {Pick(s)} \in SUBSET S
    BY DEF Pick
<1>7. Is(g)
    BY <1>2, <1>5, <1>6 DEF Folded
<1>8. Is(fold)
    BY <1>7
<1> HIDE DEF fold
<1>9. fold[{}] = tornado_mental(w, l, v) /\ \A s \in SUBSET S : s # {} => fold[s] = Op(Pick(s), fold[s \ {Pick(s)}])
    BY <1>8
<1>10. Folds_(fold, S, D, tornado_mental(w, l, v), G)
    BY <1>2, <1>6, <1>9 DEF Folds_
<1>11. fold[S] \in D
    BY <1>1, <1>3, <1>10, FoldEnds
<1> QED
    BY <1>4, <1>11 DEF D

\* The spell of mobiles on players as a whole.
LEMMA PsyGood ==
    ASSUME NEW w \in Good, NEW c \in Chars, NEW v \in Chars
    PROVE  spell_psy_tornado(w, c, v) \in SUBSET Good
<1> DEFINE l == CharLevel
           near(x) == {d \in Living(x) \ {c, v} : ~is_safe_spell(x, c, d, TRUE)}
           Struck(x) == Felt(x, l, v, near(x))
           all == {tornado_mental(x, l, c) : x \in damage(w, v, c)}
                  \cup UNION {{Struck(x), Staying(Struck(x), v)} : x \in damage(w, c, v)}
<1>1. spell_psy_tornado(w, c, v) \in {{w}, all}
    BY DEF spell_psy_tornado, Felt, Staying
<1>2. damage(w, c, v) \in SUBSET Good /\ damage(w, v, c) \in SUBSET Good
    BY DamageGood
<1>3. \A x \in Good : near(x) \in SUBSET Chars
    BY LivingAre
<1> HIDE DEF near
<1>4. l \in Int
    BY LevelIs
<1> HIDE DEF l
<1>5. \A x \in Good : tornado_mental(x, l, c) \in Good /\ Struck(x) \in Good
    BY <1>3, <1>4, TornadoGood, FeltGood
<1> HIDE DEF Struck
<1>6. \A x \in Good : Staying(Struck(x), v) \in Good
    BY <1>5, StayingGood
<1>7. all \in SUBSET Good
    BY <1>2, <1>5, <1>6
<1> HIDE DEF all
<1> QED
    BY <1>1, <1>7

-----------------------------------------------------------------------------
(***************************************************************************)
(* Spells that undo others, or heal.                                       *)
(***************************************************************************)
\* Each of the spells that undo others, and of those that heal.
LEMMA UndoGood ==
    ASSUME NEW w \in Good, NEW c \in Chars, NEW v \in Chars
    PROVE  /\ spell_cancellation(w, c, v) \in SUBSET Good
           /\ spell_dispel_magic(w, v) \in SUBSET Good
           /\ spell_cure_blindness(w, v) \in SUBSET Good
           /\ spell_cure_disease(w, v) \in SUBSET Good
           /\ spell_cure_poison(w, v) \in SUBSET Good
           /\ spell_remove_curse(w, v) \in SUBSET Good
           /\ \A sn : spell_undo_spell(w, v, sn) \in SUBSET Good
           /\ spell_cure_light(w, v) \in SUBSET Good
           /\ spell_cure_serious(w, v) \in SUBSET Good
           /\ spell_cure_critical(w, v) \in SUBSET Good
           /\ spell_heal(w, v) \in SUBSET Good
<1>1. try_dispel_all_dispellables(w, v) \in SUBSET Good
    BY TriedGood
<1>2. \A sn : check_dispel(w, v, sn) \in SUBSET Good
    BY DispelGood
<1>3. update_pos(w, v) \in Good
    BY UpGood
<1>4. spell_cancellation(w, c, v) \in {{w}, try_dispel_all_dispellables(w, v)}
    BY DEF spell_cancellation
<1>5. spell_dispel_magic(w, v) = {w} \cup try_dispel_all_dispellables(w, v)
    BY DEF spell_dispel_magic, Saved
<1>6. \A sn : spell_undo_spell(w, v, sn) \in {{w}, check_dispel(w, v, sn)}
    BY DEF spell_undo_spell
<1>7. spell_remove_curse(w, v) \in SUBSET Good
    <2> DEFINE Freed(x, o) == [x EXCEPT !.item[o].flags = @ \ {"NoRemove"}]
    <2>1. \A x \in Good, o \in Items : Freed(x, o) \in Good
        <3> TAKE x \in Good, o \in Items
        <3>1. x \in Worlds /\ x.item[o].flags \in SUBSET Flags
            BY GoodIs, GearIs
        <3>2. Freed(x, o) = [x EXCEPT !.item[o].flags = x.item[o].flags \ {"NoRemove"}]
            OBVIOUS
        <3> QED
            BY <3>1, <3>2, FlagsGood
    <2>2. spell_remove_curse(w, v) = UNION {{x} \cup {Freed(x, o) : o \in Carried(x, v)} : x \in check_dispel(w, v, "curse")}
        BY DEF spell_remove_curse
    <2>3. \A x : Carried(x, v) \in SUBSET Items
        BY DEF Carried
    <2> HIDE DEF Freed
    <2> QED
        BY <1>2, <2>1, <2>2, <2>3
<1>8. /\ spell_cancellation(w, c, v) \in SUBSET Good /\ spell_dispel_magic(w, v) \in SUBSET Good
      /\ \A sn : spell_undo_spell(w, v, sn) \in SUBSET Good
    BY <1>1, <1>2, <1>4, <1>5, <1>6
<1>9. /\ spell_cure_blindness(w, v) \in SUBSET Good /\ spell_cure_disease(w, v) \in SUBSET Good
      /\ spell_cure_poison(w, v) \in SUBSET Good
    BY <1>2 DEF spell_cure_blindness, spell_cure_disease, spell_cure_poison
<1>10. /\ spell_cure_light(w, v) \in SUBSET Good /\ spell_cure_serious(w, v) \in SUBSET Good
       /\ spell_cure_critical(w, v) \in SUBSET Good /\ spell_heal(w, v) \in SUBSET Good
    BY <1>3 DEF spell_cure_light, spell_cure_serious, spell_cure_critical, spell_heal
<1> QED
    BY <1>7, <1>8, <1>9, <1>10

-----------------------------------------------------------------------------
(***************************************************************************)
(* Spells on things.                                                       *)
(***************************************************************************)
\* What is not worn may be marked.
LEMMA FlaggedGood ==
    ASSUME NEW w \in Good, NEW o \in Items, NEW flag \in Flags
    PROVE  Flagged(w, o, flag) \in SUBSET Good
<1>1. w \in Worlds /\ w.item[o].flags \in SUBSET Flags
    BY GoodIs, GearIs
<1> DEFINE v == [w EXCEPT !.item[o].flags = @ \cup {flag}]
<1>2. v = [w EXCEPT !.item[o].flags = w.item[o].flags \cup {flag}]
    OBVIOUS
<1>3. v \in Good
    BY <1>1, <1>2, FlagsGood
<1>4. Flagged(w, o, flag) \in {{w}, {w, v}}
    BY DEF Flagged
<1> HIDE DEF v
<1> QED
    BY <1>3, <1>4

\* The spells that mark a weapon.
LEMMA ThingsGood ==
    ASSUME NEW w \in Good, NEW o \in Items
    PROVE  /\ spell_vorpal(w, o) \in SUBSET Good /\ spell_venom(w, o) \in SUBSET Good
           /\ spell_black_death(w, o) \in SUBSET Good /\ spell_damnation(w, o) \in SUBSET Good
           /\ spell_vampire(w, o) \in SUBSET Good /\ spell_acid_wash(w, o) \in SUBSET Good
           /\ spell_tame_lightning(w, o) \in SUBSET Good
<1>1. \A flag \in Flags : Flagged(w, o, flag) \in SUBSET Good
    BY FlaggedGood
<1>2. /\ "Vorpal" \in Flags /\ "Poisoned" \in Flags /\ "Plagued" \in Flags /\ "NoRemove" \in Flags
      /\ "Vampiric" \in Flags /\ "Acid" \in Flags /\ "Lightning" \in Flags
    BY DEF Flags
<1> QED
    BY <1>1, <1>2 DEF spell_vorpal, spell_venom, spell_black_death, spell_damnation, spell_vampire,
                      spell_acid_wash, spell_tame_lightning

\* What is not worn may get any modifiers.
LEMMA EnchantedGood ==
    ASSUME NEW w \in Good, NEW o \in Items, NEW gains \in SUBSET Scores
    PROVE  Enchanted(w, o, gains) \in SUBSET Good
<1> DEFINE Gain(gain) == [x \in Locations |-> w.item[o].mods[x] + gain[x]]
           Put(mods) == [w EXCEPT !.item[o].mods = mods]
           bare == Put(NoModifiers)
           Plain == Disenchanted(w, o)
<1>1. w \in Worlds /\ w.item[o] \in Goods /\ w.item[o].mods \in Scores
    BY GoodIs, WorldIs, GearIs
<1>2. ASSUME ~w.item[o].worn, NEW mods \in Scores
      PROVE  Put(mods) \in Good
    <2> DEFINE i == [w.item[o] EXCEPT !.mods = mods]
    <2>1. i \in Goods /\ ~i.worn
        BY <1>1, <1>2 DEF Goods
    <2>2. Put(mods) = [w EXCEPT !.item[o] = i]
        BY <1>1, WorldIs
    <2> HIDE DEF i, Put
    <2> QED
        BY <1>2, <2>1, <2>2, UnwornGood
<1>3. NoModifiers \in Scores
    <2>1. 0 \in Int
        OBVIOUS
    <2> QED
        BY <2>1 DEF NoModifiers, Scores
<1>a. ASSUME ~w.item[o].worn
      PROVE  Plain \in Good
    <2>1. bare \in Good
        BY <1>a, <1>2, <1>3
    <2>2. bare \in Worlds /\ bare.item[o].flags \in SUBSET Flags
        BY <2>1, GoodIs, GearIs
    <2>3. bare.item[o].flags \ {"NoRemove"} \in SUBSET Flags
        BY <2>2
    <2>4. Plain = [bare EXCEPT !.item[o].flags = bare.item[o].flags \ {"NoRemove"}]
        BY <1>1, WorldIs DEF Disenchanted, Goods, Worlds
    <2> HIDE DEF bare, Plain
    <2> QED
        BY <2>1, <2>3, <2>4, FlagsGood
<1>4. \A gain \in Scores : Gain(gain) \in Scores
    BY <1>1 DEF Scores
<1>5. Enchanted(w, o, gains) \in {{w}, {w, extract_obj(w, o), Plain} \cup {Put(Gain(gain)) : gain \in gains}}
    BY DEF Enchanted
<1>6. w.item[o].worn => Enchanted(w, o, gains) = {w}
    BY DEF Enchanted
<1>7. extract_obj(w, o) \in Good
    BY ExtractGood
<1> HIDE DEF Put, Gain, Plain
<1> QED
    BY <1>2, <1>a, <1>4, <1>5, <1>6, <1>7

\* The spells that change, or may destroy, a thing.
LEMMA EnchantGood ==
    ASSUME NEW w \in Good, NEW o \in Items
    PROVE  /\ spell_enchant_armor(w, o) \in SUBSET Good /\ spell_enchant_weapon(w, o) \in SUBSET Good
           /\ spell_remove_invisible(w, o) \in SUBSET Good /\ spell_remove_alignment(w, o) \in SUBSET Good
<1>1. NoModifiers \in Scores
    <2>1. 0 \in Int
        OBVIOUS
    <2> QED
        BY <2>1 DEF NoModifiers, Scores
<1>2. spell_enchant_armor(w, o) \in SUBSET Good
    <2> DEFINE gains == {[NoModifiers EXCEPT !["Ac"] = x] : x \in {-1, -2}}
    <2>1. gains \in SUBSET Scores
        <3>1. {-1, -2} \in SUBSET Int
            OBVIOUS
        <3> QED
            BY <1>1, <3>1 DEF Scores
    <2>2. spell_enchant_armor(w, o) \in {{w}, Enchanted(w, o, gains)}
        BY DEF spell_enchant_armor
    <2> HIDE DEF gains
    <2> QED
        BY <2>1, <2>2, EnchantedGood
<1>3. spell_enchant_weapon(w, o) \in SUBSET Good
    <2> DEFINE gains == {[NoModifiers EXCEPT !["Hitroll"] = x, !["Damroll"] = x] : x \in {1, 2}}
    <2>1. gains \in SUBSET Scores
        <3>1. {1, 2} \in SUBSET Int
            OBVIOUS
        <3> QED
            BY <1>1, <3>1 DEF Scores
    <2>2. spell_enchant_weapon(w, o) = Enchanted(w, o, gains)
        BY DEF spell_enchant_weapon
    <2> HIDE DEF gains
    <2> QED
        BY <2>1, <2>2, EnchantedGood
<1>4. extract_obj(w, o) \in Good
    BY ExtractGood
<1>5. spell_remove_invisible(w, o) \in {{w}, {w, extract_obj(w, o)}}
    BY DEF spell_remove_invisible
<1>6. spell_remove_alignment(w, o) \in {{w}, {w, extract_obj(w, o)}}
    BY DEF spell_remove_alignment
<1> QED
    BY <1>2, <1>3, <1>4, <1>5, <1>6

\* Armour that acid has burnt is worth one less, and whoever wears it is etched.
LEMMA EtchedGood ==
    ASSUME NEW w \in Good, NEW v \in Chars, NEW o \in Items, w.item[o].at = v
    PROVE  Etched(w, v, o) \in Good /\ \A p \in Items : Etched(w, v, o).item[p].at = w.item[p].at
<1> DEFINE i == [w.item[o] EXCEPT !.value = w.item[o].value - 1]
           thinner == [w EXCEPT !.item[o] = i]
           ac == w.mods[v]["Ac"] - w.item[o].value + (w.item[o].value - 1)
           mods == [w.mods[v] EXCEPT !["Ac"] = ac]
           burnt == [w EXCEPT !.item[o] = i, !.mods[v] = mods, !.etched = w.etched \cup {v}]
<1>1. w \in Worlds /\ w.item[o] \in Goods /\ w.item[o].value \in Int /\ w.mods[v] \in Scores
    BY GoodIs, WorldIs, GearIs
<1>2. i \in Goods /\ i.worn = w.item[o].worn /\ i.at = v
    BY <1>1 DEF Goods
<1>3. mods \in Scores
    <2>1. w.mods[v]["Ac"] \in Int
        BY <1>1 DEF Scores, Locations
    <2>2. ac \in Int
        BY <1>1, <2>1
    <2> HIDE DEF ac
    <2> QED
        BY <1>1, <2>2 DEF Scores
<1>4. Etched(w, v, o) \in {w, thinner, burnt}
    BY <1>1, WorldIs DEF Etched
<1>5. w.item[o].worn => Etched(w, v, o) \in {w, burnt}
    BY <1>1, WorldIs DEF Etched
<1> HIDE DEF i, ac, mods
<1>6. ASSUME ~w.item[o].worn
      PROVE  thinner \in Good /\ \A p \in Items : thinner.item[p].at = w.item[p].at
    <2>1. thinner \in Good /\ thinner.item[o] = i /\ ButOne(w, thinner, o)
        BY <1>2, <1>6, UnwornGood
    <2> HIDE DEF thinner
    <2> QED
        BY <1>2, <2>1 DEF ButOne
<1>7. burnt \in Good /\ \A p \in Items : burnt.item[p].at = w.item[p].at
    <2>1. /\ burnt \in Worlds /\ ButOne(w, burnt, o) /\ burnt.item[o] = i
          /\ \A d \in Chars \ {v} : burnt.mods[d] = w.mods[d]
          /\ burnt.affs = w.affs /\ burnt.bits = w.bits /\ burnt.master = w.master
          /\ burnt.etched = w.etched \cup {v}
        BY <1>1, <1>2, <1>3 DEF Worlds, ButOne
    <2> HIDE DEF burnt
    <2>2. ASSUME NEW d \in Chars \ burnt.etched, NEW x \in Locations
          PROVE  burnt.mods[d][x] - Share(burnt, o, d, x) = w.mods[d][x] - Share(w, o, d, x)
        <3>1. d # v
            BY <2>1
        <3> QED
            BY <1>2, <2>1, <3>1 DEF Share
    <2>3. Exchanged(w, burnt, o)
        BY <1>2, <2>1, <2>2 DEF Exchanged
    <2> QED
        BY <1>2, <2>1, <2>3, ExchangedGood DEF ButOne
<1>8. \A p \in Items : w.item[p].at = w.item[p].at
    OBVIOUS
<1> HIDE DEF thinner, burnt
<1> QED
    BY <1>4, <1>5, <1>6, <1>7

\* Of what v carries, any may be burnt.
EtchedIn(w, v, S) == FoldSet(LAMBDA o, x : Etched(x, v, o), w, S)

\* One after the other: each is still where it was.
LEMMA EtchedInGood ==
    ASSUME NEW w \in Good, NEW v \in Chars, NEW these \in SUBSET Carried(w, v)
    PROVE  EtchedIn(w, v, these) \in Good
<1> DEFINE S == these
           D == {x \in Good : \A o \in these : x.item[o].at = v}
           Op(o, x) == Etched(x, v, o)
           G == [p \in S \X D |-> Op(p[1], p[2])]
           Is(h) == h = [s \in SUBSET S |-> IF s = {} THEN w ELSE Op(Pick(s), h[s \ {Pick(s)}])]
           fold == CHOOSE h : Is(h)
<1>1. IsFiniteSet(S) /\ w \in D
    <2>1. IsFiniteSet(Items)
        BY AffectsAssumption
    <2>2. \A o \in these : o \in Items /\ w.item[o].at = v
        BY DEF Carried
    <2> QED
        BY <2>1, <2>2, FS_Subset
<1>2. \A a \in S : \A u \in D : G[<<a, u>>] = Op(a, u)
    OBVIOUS
<1>3. Within(G, S, D)
    <2>1. \A o \in S : \A x \in D : Op(o, x) \in D
        <3> TAKE o \in S
        <3> TAKE x \in D
        <3>1. S \in SUBSET Items
            BY DEF Carried
        <3>2. Etched(x, v, o) \in Good /\ \A p \in Items : Etched(x, v, o).item[p].at = x.item[p].at
            BY <3>1, EtchedGood
        <3> QED
            BY <3>1, <3>2
    <2> HIDE DEF G
    <2> QED
        BY <1>2, <2>1 DEF Within
<1>4. EtchedIn(w, v, these) = fold[S]
    BY DEF EtchedIn, FoldSet, MapThenFoldSet, Pick
<1> HIDE DEF G, Op, S, D
<1>5. PICK g : Folded(g, S, w, G) /\ \A s \in SUBSET S : g[s] \in D
    BY <1>1, <1>3, FoldExists
<1>6. \A s \in SUBSET S : s # {} => Pick(s) \in S /\ s \ {Pick(s)} \in SUBSET S
    BY DEF Pick
<1>7. Is(g)
    BY <1>2, <1>5, <1>6 DEF Folded
<1>8. Is(fold)
    BY <1>7
<1> HIDE DEF fold
<1>9. fold[{}] = w /\ \A s \in SUBSET S : s # {} => fold[s] = Op(Pick(s), fold[s \ {Pick(s)}])
    BY <1>8
<1>10. Folds_(fold, S, D, w, G)
    BY <1>2, <1>6, <1>9 DEF Folds_
<1>11. fold[S] \in D
    BY <1>1, <1>3, <1>10, FoldEnds
<1> QED
    BY <1>4, <1>11 DEF D

\* After it burns, the breath strikes.
LEMMA AcidGood ==
    ASSUME NEW w \in Good, NEW c \in Chars, NEW v \in Chars
    PROVE  spell_acid_breath(w, c, v) \in SUBSET Good
<1> DEFINE these == IF is_duel_in_progress(w, c, v) THEN {{}} ELSE SUBSET Carried(w, v)
<1>1. spell_acid_breath(w, c, v) = UNION {damage(EtchedIn(w, v, S), c, v) : S \in these}
    BY DEF spell_acid_breath, EtchedIn
<1>2. \A S \in these : S \in SUBSET Carried(w, v)
    OBVIOUS
<1> HIDE DEF these
<1>3. \A S \in these : damage(EtchedIn(w, v, S), c, v) \in SUBSET Good
    BY <1>2, EtchedInGood, DamageGood
<1> QED
    BY <1>1, <1>3

-----------------------------------------------------------------------------
(***************************************************************************)
(* Spells are cast.                                                        *)
(***************************************************************************)
\* spell_fun on somebody, arm by arm.
LEMMA PeopleGood ==
    ASSUME NEW w \in Good, NEW l \in Int, NEW c \in Chars, NEW t \in Chars, NEW sn \in OnPeople
    PROVE  spell_fun(w, sn, l, c, t) \in SUBSET Good
<1>1. CASE sn = "armor"
    <2>1. spell_fun(w, sn, l, c, t) = spell_armor(w, l, t)
        BY <1>1 DEF spell_fun, Striking
    <2> QED
        BY <2>1, HelpGood
<1>2. CASE sn = "bless"
    <2>1. spell_fun(w, sn, l, c, t) = spell_bless(w, l, t)
        BY <1>2 DEF spell_fun, Striking
    <2> QED
        BY <2>1, HelpGood
<1>3. CASE sn = "detect evil"
    <2>1. spell_fun(w, sn, l, c, t) = spell_detect_evil(w, l, t)
        BY <1>3 DEF spell_fun, Striking
    <2> QED
        BY <2>1, HelpGood
<1>4. CASE sn = "detect hidden"
    <2>1. spell_fun(w, sn, l, c, t) = spell_detect_hidden(w, l, t)
        BY <1>4 DEF spell_fun, Striking
    <2> QED
        BY <2>1, HelpGood
<1>5. CASE sn = "detect invis"
    <2>1. spell_fun(w, sn, l, c, t) = spell_detect_invis(w, l, t)
        BY <1>5 DEF spell_fun, Striking
    <2> QED
        BY <2>1, HelpGood
<1>6. CASE sn = "detect magic"
    <2>1. spell_fun(w, sn, l, c, t) = spell_detect_magic(w, l, t)
        BY <1>6 DEF spell_fun, Striking
    <2> QED
        BY <2>1, HelpGood
<1>7. CASE sn = "giant strength"
    <2>1. spell_fun(w, sn, l, c, t) = spell_giant_strength(w, l, t)
        BY <1>7 DEF spell_fun, Striking
    <2> QED
        BY <2>1, HelpGood
<1>8. CASE sn = "regeneration"
    <2>1. spell_fun(w, sn, l, c, t) = spell_regeneration(w, l, t)
        BY <1>8 DEF spell_fun, Striking
    <2> QED
        BY <2>1, HelpGood
<1>9. CASE sn = "pass door"
    <2>1. spell_fun(w, sn, l, c, t) = spell_pass_door(w, l, t)
        BY <1>9 DEF spell_fun, Striking
    <2> QED
        BY <2>1, HelpGood
<1>10. CASE sn = "protection evil"
    <2>1. spell_fun(w, sn, l, c, t) = spell_protection_evil(w, l, t)
        BY <1>10 DEF spell_fun, Striking
    <2> QED
        BY <2>1, HelpGood
<1>11. CASE sn = "protection good"
    <2>1. spell_fun(w, sn, l, c, t) = spell_protection_good(w, l, t)
        BY <1>11 DEF spell_fun, Striking
    <2> QED
        BY <2>1, HelpGood
<1>12. CASE sn = "sanctuary"
    <2>1. spell_fun(w, sn, l, c, t) = spell_sanctuary(w, l, t)
        BY <1>12 DEF spell_fun, Striking
    <2> QED
        BY <2>1, HelpGood
<1>13. CASE sn = "talon"
    <2>1. spell_fun(w, sn, l, c, t) = spell_talon(w, l, t)
        BY <1>13 DEF spell_fun, Striking
    <2> QED
        BY <2>1, HelpGood
<1>14. CASE sn = "shield"
    <2>1. spell_fun(w, sn, l, c, t) = spell_shield(w, l, t)
        BY <1>14 DEF spell_fun, Striking
    <2> QED
        BY <2>1, HelpGood
<1>15. CASE sn = "stone skin"
    <2>1. spell_fun(w, sn, l, c, t) = spell_stone_skin(w, l, t)
        BY <1>15 DEF spell_fun, Striking
    <2> QED
        BY <2>1, HelpGood
<1>16. CASE sn = "fly"
    <2>1. spell_fun(w, sn, l, c, t) = spell_fly(w, l, t)
        BY <1>16 DEF spell_fun, Striking
    <2> QED
        BY <2>1, HelpGood
<1>17. CASE sn = "haste"
    <2>1. spell_fun(w, sn, l, c, t) = spell_haste(w, l, t)
        BY <1>17 DEF spell_fun, Striking
    <2> QED
        BY <2>1, HelpGood
<1>18. CASE sn = "infravision"
    <2>1. spell_fun(w, sn, l, c, t) = spell_infravision(w, l, t)
        BY <1>18 DEF spell_fun, Striking
    <2> QED
        BY <2>1, HelpGood
<1>19. CASE sn = "blindness"
    <2>1. spell_fun(w, sn, l, c, t) = spell_blindness(w, l, t)
        BY <1>19 DEF spell_fun, Striking
    <2> QED
        BY <2>1, AfflictGood
<1>20. CASE sn = "change sex"
    <2>1. spell_fun(w, sn, l, c, t) = spell_change_sex(w, l, t)
        BY <1>20 DEF spell_fun, Striking
    <2> QED
        BY <2>1, AfflictGood
<1>21. CASE sn = "charm person"
    <2>1. spell_fun(w, sn, l, c, t) = spell_charm_person(w, l, c, t)
        BY <1>21 DEF spell_fun, Striking
    <2> QED
        BY <2>1, AfflictGood
<1>22. CASE sn = "curse"
    <2>1. spell_fun(w, sn, l, c, t) = spell_curse(w, l, t)
        BY <1>22 DEF spell_fun, Striking
    <2> QED
        BY <2>1, AfflictGood
<1>23. CASE sn = "faerie fire"
    <2>1. spell_fun(w, sn, l, c, t) = spell_faerie_fire(w, l, t)
        BY <1>23 DEF spell_fun, Striking
    <2> QED
        BY <2>1, AfflictGood
<1>24. CASE sn = "octarine fire"
    <2>1. spell_fun(w, sn, l, c, t) = spell_octarine_fire(w, l, t)
        BY <1>24 DEF spell_fun, Striking
    <2> QED
        BY <2>1, AfflictGood
<1>25. CASE sn = "frenzy"
    <2>1. spell_fun(w, sn, l, c, t) = spell_frenzy(w, l, c, t)
        BY <1>25 DEF spell_fun, Striking
    <2> QED
        BY <2>1, AfflictGood
<1>26. CASE sn = "insanity"
    <2>1. spell_fun(w, sn, l, c, t) = spell_insanity(w, l, t)
        BY <1>26 DEF spell_fun, Striking
    <2> QED
        BY <2>1, AfflictGood
<1>27. CASE sn = "lethargy"
    <2>1. spell_fun(w, sn, l, c, t) = spell_lethargy(w, l, t)
        BY <1>27 DEF spell_fun, Striking
    <2> QED
        BY <2>1, AfflictGood
<1>28. CASE sn = "invis"
    <2>1. spell_fun(w, sn, l, c, t) = spell_invis(w, l, t)
        BY <1>28 DEF spell_fun, Striking
    <2> QED
        BY <2>1, AfflictGood
<1>29. CASE sn = "weaken"
    <2>1. spell_fun(w, sn, l, c, t) = spell_weaken(w, l, t)
        BY <1>29 DEF spell_fun, Striking
    <2> QED
        BY <2>1, AfflictGood
<1>30. CASE sn = "plague"
    <2>1. spell_fun(w, sn, l, c, t) = spell_plague(w, l, t)
        BY <1>30 DEF spell_fun, Striking
    <2> QED
        BY <2>1, JoiningGood
<1>31. CASE sn = "poison"
    <2>1. spell_fun(w, sn, l, c, t) = spell_poison(w, l, t)
        BY <1>31 DEF spell_fun, Striking
    <2> QED
        BY <2>1, JoiningGood
<1>32. CASE sn = "sleep"
    <2>1. spell_fun(w, sn, l, c, t) = spell_sleep(w, l, t)
        BY <1>32 DEF spell_fun, Striking
    <2> QED
        BY <2>1, JoiningGood
<1>33. CASE sn = "chill touch"
    <2>1. spell_fun(w, sn, l, c, t) = spell_chill_touch(w, l, c, t)
        BY <1>33 DEF spell_fun, Striking
    <2> QED
        BY <2>1, JoiningGood
<1>34. CASE sn = "colour spray"
    <2>1. spell_fun(w, sn, l, c, t) = spell_colour_spray(w, l, c, t)
        BY <1>34 DEF spell_fun, Striking
    <2> QED
        BY <2>1, JoiningGood
<1>35. CASE sn = "chain lightning"
    <2>1. spell_fun(w, sn, l, c, t) = spell_chain_lightning(w, l, c, t)
        BY <1>35 DEF spell_fun, Striking
    <2> QED
        BY <2>1, ChainGood
<1>36. CASE sn = "exorcise"
    <2>1. spell_fun(w, sn, l, c, t) = spell_exorcise(w, c, t)
        BY <1>36 DEF spell_fun, Striking
    <2> QED
        BY <2>1, DemonGood
<1>37. CASE sn = "demonfire"
    <2>1. spell_fun(w, sn, l, c, t) = spell_demonfire(w, c, t)
        BY <1>37 DEF spell_fun, Striking
    <2> QED
        BY <2>1, DemonGood
<1>38. CASE sn = "dispel evil"
    <2>1. spell_fun(w, sn, l, c, t) = spell_dispel_evil(w, c, t)
        BY <1>38 DEF spell_fun, Striking
    <2> QED
        BY <2>1, DispelAlignGood
<1>39. CASE sn = "dispel good"
    <2>1. spell_fun(w, sn, l, c, t) = spell_dispel_good(w, c, t)
        BY <1>39 DEF spell_fun, Striking
    <2> QED
        BY <2>1, DispelAlignGood
<1>40. CASE sn = "energy drain"
    <2>1. spell_fun(w, sn, l, c, t) = spell_energy_drain(w, c, t)
        BY <1>40 DEF spell_fun, Striking
    <2> QED
        BY <2>1, DemonGood
<1>41. CASE sn = "psychic tornado"
    <2>1. spell_fun(w, sn, l, c, t) = spell_psy_tornado(w, c, t)
        BY <1>41 DEF spell_fun, Striking
    <2> QED
        BY <2>1, PsyGood
<1>42. CASE sn = "cancellation"
    <2>1. spell_fun(w, sn, l, c, t) = spell_cancellation(w, c, t)
        BY <1>42 DEF spell_fun, Striking
    <2> QED
        BY <2>1, UndoGood
<1>43. CASE sn = "dispel magic"
    <2>1. spell_fun(w, sn, l, c, t) = spell_dispel_magic(w, t)
        BY <1>43 DEF spell_fun, Striking
    <2> QED
        BY <2>1, UndoGood
<1>44. CASE sn = "cure blindness"
    <2>1. spell_fun(w, sn, l, c, t) = spell_cure_blindness(w, t)
        BY <1>44 DEF spell_fun, Striking
    <2> QED
        BY <2>1, UndoGood
<1>45. CASE sn = "cure disease"
    <2>1. spell_fun(w, sn, l, c, t) = spell_cure_disease(w, t)
        BY <1>45 DEF spell_fun, Striking
    <2> QED
        BY <2>1, UndoGood
<1>46. CASE sn = "cure poison"
    <2>1. spell_fun(w, sn, l, c, t) = spell_cure_poison(w, t)
        BY <1>46 DEF spell_fun, Striking
    <2> QED
        BY <2>1, UndoGood
<1>47. CASE sn = "remove curse"
    <2>1. spell_fun(w, sn, l, c, t) = spell_remove_curse(w, t)
        BY <1>47 DEF spell_fun, Striking
    <2> QED
        BY <2>1, UndoGood
<1>48. CASE sn = "cure light"
    <2>1. spell_fun(w, sn, l, c, t) = spell_cure_light(w, t)
        BY <1>48 DEF spell_fun, Striking
    <2> QED
        BY <2>1, UndoGood
<1>49. CASE sn = "cure serious"
    <2>1. spell_fun(w, sn, l, c, t) = spell_cure_serious(w, t)
        BY <1>49 DEF spell_fun, Striking
    <2> QED
        BY <2>1, UndoGood
<1>50. CASE sn = "cure critical"
    <2>1. spell_fun(w, sn, l, c, t) = spell_cure_critical(w, t)
        BY <1>50 DEF spell_fun, Striking
    <2> QED
        BY <2>1, UndoGood
<1>51. CASE sn = "heal"
    <2>1. spell_fun(w, sn, l, c, t) = spell_heal(w, t)
        BY <1>51 DEF spell_fun, Striking
    <2> QED
        BY <2>1, UndoGood
<1>52. CASE sn = "acid breath"
    <2>1. spell_fun(w, sn, l, c, t) = spell_acid_breath(w, c, t)
        BY <1>52 DEF spell_fun, Striking
    <2> QED
        BY <2>1, AcidGood
<1>53. CASE sn \in Striking
    <2>1. spell_fun(w, sn, l, c, t) = damage(w, c, t)
        BY <1>53 DEF spell_fun, Striking
    <2> QED
        BY <2>1, DamageGood
<1> QED
    BY <1>1, <1>2, <1>3, <1>4, <1>5, <1>6, <1>7, <1>8, <1>9, <1>10, <1>11, <1>12, <1>13, <1>14, <1>15,
       <1>16, <1>17, <1>18, <1>19, <1>20, <1>21, <1>22, <1>23, <1>24, <1>25, <1>26, <1>27, <1>28,
       <1>29, <1>30, <1>31, <1>32, <1>33, <1>34, <1>35, <1>36, <1>37, <1>38, <1>39, <1>40, <1>41,
       <1>42, <1>43, <1>44, <1>45, <1>46, <1>47, <1>48, <1>49, <1>50, <1>51, <1>52, <1>53
       DEF OnPeople, Striking

\* spell_fun on something.
LEMMA GearGood ==
    ASSUME NEW w \in Good, NEW l \in Int, NEW c \in Chars, NEW t \in Items, NEW sn \in OnThings
    PROVE  spell_fun(w, sn, l, c, t) \in SUBSET Good
<1>1. CASE sn = "vorpal"
    <2>1. spell_fun(w, sn, l, c, t) = spell_vorpal(w, t)
        BY <1>1 DEF spell_fun, Striking
    <2> QED
        BY <2>1, ThingsGood
<1>2. CASE sn = "venom"
    <2>1. spell_fun(w, sn, l, c, t) = spell_venom(w, t)
        BY <1>2 DEF spell_fun, Striking
    <2> QED
        BY <2>1, ThingsGood
<1>3. CASE sn = "black death"
    <2>1. spell_fun(w, sn, l, c, t) = spell_black_death(w, t)
        BY <1>3 DEF spell_fun, Striking
    <2> QED
        BY <2>1, ThingsGood
<1>4. CASE sn = "damnation"
    <2>1. spell_fun(w, sn, l, c, t) = spell_damnation(w, t)
        BY <1>4 DEF spell_fun, Striking
    <2> QED
        BY <2>1, ThingsGood
<1>5. CASE sn = "vampire"
    <2>1. spell_fun(w, sn, l, c, t) = spell_vampire(w, t)
        BY <1>5 DEF spell_fun, Striking
    <2> QED
        BY <2>1, ThingsGood
<1>6. CASE sn = "acid wash"
    <2>1. spell_fun(w, sn, l, c, t) = spell_acid_wash(w, t)
        BY <1>6 DEF spell_fun, Striking
    <2> QED
        BY <2>1, ThingsGood
<1>7. CASE sn = "tame lightning"
    <2>1. spell_fun(w, sn, l, c, t) = spell_tame_lightning(w, t)
        BY <1>7 DEF spell_fun, Striking
    <2> QED
        BY <2>1, ThingsGood
<1>8. CASE sn = "enchant armor"
    <2>1. spell_fun(w, sn, l, c, t) = spell_enchant_armor(w, t)
        BY <1>8 DEF spell_fun, Striking
    <2> QED
        BY <2>1, EnchantGood
<1>9. CASE sn = "enchant weapon"
    <2>1. spell_fun(w, sn, l, c, t) = spell_enchant_weapon(w, t)
        BY <1>9 DEF spell_fun, Striking
    <2> QED
        BY <2>1, EnchantGood
<1>10. CASE sn = "remove invisible"
    <2>1. spell_fun(w, sn, l, c, t) = spell_remove_invisible(w, t)
        BY <1>10 DEF spell_fun, Striking
    <2> QED
        BY <2>1, EnchantGood
<1>11. CASE sn = "remove alignment"
    <2>1. spell_fun(w, sn, l, c, t) = spell_remove_alignment(w, t)
        BY <1>11 DEF spell_fun, Striking
    <2> QED
        BY <2>1, EnchantGood
<1> QED
    BY <1>1, <1>2, <1>3, <1>4, <1>5, <1>6, <1>7, <1>8, <1>9, <1>10, <1>11 DEF OnThings

\* spell_fun on all in the room.
LEMMA RoomSpellGood ==
    ASSUME NEW w \in Good, NEW l \in Int, NEW c \in Chars, NEW t, NEW sn \in OnNobody \ {"undo spell"}
    PROVE  spell_fun(w, sn, l, c, t) \in SUBSET Good
<1>1. CASE sn = "calm"
    <2>1. spell_fun(w, sn, l, c, t) = spell_calm(w, l)
        BY <1>1 DEF spell_fun, Striking
    <2> QED
        BY <2>1, CalmGood
<1>2. CASE sn = "faerie fog"
    <2>1. spell_fun(w, sn, l, c, t) = spell_faerie_fog(w, c)
        BY <1>2 DEF spell_fun, Striking
    <2> QED
        BY <2>1, FogGood
<1>3. CASE sn = "mass invis"
    <2>1. spell_fun(w, sn, l, c, t) = spell_mass_invis(w, l, c)
        BY <1>3 DEF spell_fun, Striking
    <2> QED
        BY <2>1, MassInvisGood
<1>4. CASE sn = "mass healing"
    <2>1. spell_fun(w, sn, l, c, t) = spell_mass_healing(w, c)
        BY <1>4 DEF spell_fun, Striking
    <2> QED
        BY <2>1, MassHealingGood
<1>5. CASE sn = "earthquake"
    <2>1. spell_fun(w, sn, l, c, t) = spell_earthquake(w, c)
        BY <1>5 DEF spell_fun, Striking
    <2> QED
        BY <2>1, RoomGood
<1>6. CASE sn = "gas breath"
    <2>1. spell_fun(w, sn, l, c, t) = spell_gas_breath(w, c)
        BY <1>6 DEF spell_fun, Striking
    <2> QED
        BY <2>1, RoomGood
<1>7. CASE sn = "call lightning"
    <2>1. spell_fun(w, sn, l, c, t) = spell_call_lightning(w, c)
        BY <1>7 DEF spell_fun, Striking
    <2> QED
        BY <2>1, RoomGood
<1>8. CASE sn = "holy word"
    <2>1. spell_fun(w, sn, l, c, t) = spell_holy_word(w, l, c)
        BY <1>8 DEF spell_fun, Striking
    <2> QED
        BY <2>1, HolyGood
<1> QED
    BY <1>1, <1>2, <1>3, <1>4, <1>5, <1>6, <1>7, <1>8 DEF OnNobody

\* The spells that a scene may have, and what each may fall on.
Known == OnPeople \cup OnThings \cup OnNobody

Fits(sn, t) ==
    /\ skill_table[sn].target \in {"CharOffensive", "CharDefensive", "CharSelf"} => t \in Chars
    /\ skill_table[sn].target = "ObjectInventory" => t \in Items

\* Whatever the spell, on what it may be cast on.
LEMMA CastOnGood ==
    ASSUME NEW w \in Good, NEW l \in Int, NEW c \in Chars, NEW sn \in Known, NEW t, Fits(sn, t)
    PROVE  CastOn(w, sn, l, c, t) \in SUBSET Good
<1>1. CASE sn = "undo spell"
    <2>1. CastOn(w, sn, l, c, t) = UNION {UNION {spell_undo_spell(w, v, u) : v \in Living(w)} : u \in scene.spells}
        BY <1>1 DEF CastOn
    <2>2. \A v \in Living(w), u \in scene.spells : spell_undo_spell(w, v, u) \in SUBSET Good
        BY LivingAre, UndoGood
    <2> QED
        BY <2>1, <2>2
<1>2. CASE sn # "undo spell"
    <2>1. CastOn(w, sn, l, c, t) = spell_fun(w, sn, l, c, t)
        BY <1>2 DEF CastOn
    <2>2. (sn \in OnPeople => t \in Chars) /\ (sn \in OnThings => t \in Items)
        BY TableAssumption DEF Fits
    <2>3. CASE sn \in OnPeople
        BY <2>1, <2>2, <2>3, PeopleGood
    <2>4. CASE sn \in OnThings
        BY <2>1, <2>2, <2>4, GearGood
    <2>5. CASE sn \in OnNobody
        BY <1>2, <2>1, <2>5, RoomSpellGood
    <2> QED
        BY <2>3, <2>4, <2>5 DEF Known
<1> QED
    BY <1>1, <1>2

\* The victim may strike back.
LEMMA ProvokedGood ==
    ASSUME NEW w \in Good, NEW c \in Chars, NEW sn, NEW t, Fits(sn, t)
    PROVE  casting_may_provoke_victim(w, c, t, sn) \in SUBSET Good
<1>1. CASE skill_table[sn].target = "CharOffensive"
    <2>1. t \in Chars
        BY <1>1 DEF Fits
    <2>2. multi_hit(w, t, c) \in SUBSET Good
        BY <2>1, MultiGood
    <2>3. casting_may_provoke_victim(w, c, t, sn) \in {{w}, multi_hit(w, t, c)}
        BY DEF casting_may_provoke_victim
    <2> QED
        BY <2>2, <2>3
<1>2. CASE skill_table[sn].target # "CharOffensive"
    BY <1>2 DEF casting_may_provoke_victim
<1> QED
    BY <1>1, <1>2

\* get_casting_spell_target finds only what the spell may be cast on.
LEMMA TargetsFit ==
    ASSUME NEW w \in Good, NEW c \in Chars, NEW sn
    PROVE  \A t \in get_casting_spell_target(w, c, sn) : Fits(sn, t)
<1> DEFINE target == skill_table[sn].target
<1>1. Living(w) \in SUBSET Chars /\ Carried(w, c) \in SUBSET Items
    BY LivingAre DEF Carried
<1>2. \A t \in TargetsOf(w, c, target) :
          /\ target \in {"CharOffensive", "CharDefensive", "CharSelf"} => t \in Chars
          /\ target = "ObjectInventory" => t \in Items
    <2> HIDE DEF target
    <2>1. CASE target = "CharOffensive"
        BY <1>1, <2>1 DEF TargetsOf
    <2>2. CASE target = "CharDefensive"
        BY <1>1, <2>2 DEF TargetsOf
    <2>3. CASE target = "CharSelf"
        BY <2>3 DEF TargetsOf
    <2>4. CASE target = "ObjectInventory"
        BY <1>1, <2>4 DEF TargetsOf
    <2> QED
        BY <2>1, <2>2, <2>3, <2>4
<1> QED
    BY <1>2 DEF get_casting_spell_target, Fits

\* So does get_obj_casting_spell_target.
LEMMA ObjTargetsFit ==
    ASSUME NEW w \in Good, NEW c \in Chars, NEW v \in Someone, NEW o \in Items \cup {Gone}, NEW sn
    PROVE  \A t \in get_obj_casting_spell_target(w, c, v, o, sn) : Fits(sn, t)
<1> DEFINE target == skill_table[sn].target
<1>1. w.foe[c] \in Someone
    BY GoodIs, WorldIs
<1>2. \A t \in ObjTargetsOf(w, c, v, o, target) :
          /\ target \in {"CharOffensive", "CharDefensive", "CharSelf"} => t \in Chars
          /\ target = "ObjectInventory" => t \in Items
    <2> HIDE DEF target
    <2>1. CASE target = "CharOffensive"
        <3> DEFINE d == IF v = Nobody THEN w.foe[c] ELSE v
        <3>1. d = Nobody \/ d \in Chars
            BY <1>1 DEF Someone
        <3>2. ObjTargetsOf(w, c, v, o, target) = IF d = Nobody \/ (d # c /\ is_safe_spell(w, c, d, FALSE)) THEN {} ELSE {d}
            BY <2>1 DEF ObjTargetsOf
        <3> HIDE DEF d
        <3> QED
            BY <2>1, <3>1, <3>2
    <2>2. CASE target = "CharDefensive"
        BY <2>2 DEF ObjTargetsOf, Someone
    <2>3. CASE target = "CharSelf"
        BY <2>3 DEF ObjTargetsOf
    <2>4. CASE target = "ObjectInventory"
        BY <2>4 DEF ObjTargetsOf
    <2> QED
        BY <2>1, <2>2, <2>3, <2>4
<1> QED
    BY <1>2 DEF get_obj_casting_spell_target, Fits

\* do_cast.
LEMMA CastGood ==
    ASSUME NEW w \in Good, NEW c \in Chars, NEW sn \in Known
    PROVE  do_cast(w, c, sn) \in SUBSET Good
<1> DEFINE Comes(t) == {w} \cup CastOn(w, sn, CharLevel, c, t)
           all == UNION {UNION {casting_may_provoke_victim(x, c, t, sn) : x \in Comes(t)} :
                             t \in get_casting_spell_target(w, c, sn)}
<1>1. do_cast(w, c, sn) \in {{w}, all}
    BY DEF do_cast
<1>2. \A t \in get_casting_spell_target(w, c, sn) : Fits(sn, t)
    BY TargetsFit
<1>3. \A t \in get_casting_spell_target(w, c, sn) : Comes(t) \in SUBSET Good
    BY <1>2, LevelIs, CastOnGood
<1> HIDE DEF Comes
<1>4. \A x \in Good : \A t \in get_casting_spell_target(w, c, sn) : casting_may_provoke_victim(x, c, t, sn) \in SUBSET Good
    BY <1>2, ProvokedGood
<1>5. all \in SUBSET Good
    BY <1>3, <1>4
<1> HIDE DEF all
<1> QED
    BY <1>1, <1>5

\* obj_cast_spell.
LEMMA ObjCastGood ==
    ASSUME NEW w \in Good, NEW c \in Chars, NEW v \in Someone, NEW o \in Items \cup {Gone}, NEW sn \in Known,
           NEW l \in Int
    PROVE  obj_cast_spell(w, c, v, o, sn, l) \in SUBSET Good
<1> DEFINE targets == get_obj_casting_spell_target(w, c, v, o, sn)
           all == UNION {UNION {casting_may_provoke_victim(x, c, t, sn) : x \in CastOn(w, sn, l, c, t)} : t \in targets}
<1>1. obj_cast_spell(w, c, v, o, sn, l) \in {{w}, all}
    BY DEF obj_cast_spell, CastAt
<1>2. \A t \in targets : Fits(sn, t)
    BY ObjTargetsFit
<1> HIDE DEF targets
<1>3. \A t \in targets : CastOn(w, sn, l, c, t) \in SUBSET Good
    BY <1>2, CastOnGood
<1>4. \A x \in Good : \A t \in targets : casting_may_provoke_victim(x, c, t, sn) \in SUBSET Good
    BY <1>2, ProvokedGood
<1>5. all \in SUBSET Good
    BY <1>3, <1>4
<1> HIDE DEF all
<1> QED
    BY <1>1, <1>5

\* The spells of a potion, or of a scroll, one after the other.
LEMMA CastAllGood ==
    ASSUME NEW w \in Good, NEW c \in Chars, NEW v \in Someone, NEW o \in Items \cup {Gone},
           NEW sns \in Seq(Known), NEW l \in Int
    PROVE  CastAll(w, c, v, o, sns, l) \in SUBSET Good
<1> DEFINE n == Len(sns)
           D == SUBSET Good
           Op(ws, sn) == UNION {(IF c \in Living(x) THEN obj_cast_spell(x, c, v, o, sn, l) ELSE {x}) : x \in ws}
           G == [p \in (1 .. n) \X D |-> Op(p[2], sns[p[1]])]
           Is(h) == h = [s \in SUBSET (1 .. n) |-> IF s = {} THEN {w} ELSE Op(h[s \ {Max(s)}], sns[Max(s)])]
           fold == CHOOSE h : Is(h)
<1>1. n \in Nat /\ DOMAIN sns = 1 .. n /\ {w} \in D
    OBVIOUS
<1>2. \A i \in 1 .. n : \A u \in D : G[<<i, u>>] = Op(u, sns[i])
    OBVIOUS
<1>3. Within(G, 1 .. n, D)
    <2>1. \A i \in 1 .. n : \A ws \in D : Op(ws, sns[i]) \in D
        <3>1. \A i \in 1 .. n : \A x \in Good : obj_cast_spell(x, c, v, o, sns[i], l) \in SUBSET Good
            <4>1. \A i \in 1 .. n : sns[i] \in Known
                OBVIOUS
            <4> QED
                BY <4>1, ObjCastGood
        <3> QED
            BY <3>1
    <2> HIDE DEF G
    <2> QED
        BY <1>2, <2>1 DEF Within
<1>4. CastAll(w, c, v, o, sns, l) = fold[1 .. n]
    BY <1>1 DEF CastAll, FoldLeft, MapThenFoldSet
<1> HIDE DEF G, Op, n, D
<1>5. PICK g : ListFolded(g, n, {w}, G) /\ \A s \in SUBSET (1 .. n) : g[s] \in D
    BY <1>1, <1>3, ListExists
<1>6. \A s \in SUBSET (1 .. n) : s # {} => Max(s) \in 1 .. n /\ s \ {Max(s)} \in SUBSET (1 .. n)
    BY <1>1, MaxOf
<1>7. Is(g)
    BY <1>2, <1>5, <1>6 DEF ListFolded
<1>8. Is(fold)
    BY <1>7
<1> HIDE DEF fold
<1>9. fold[{}] = {w} /\ \A s \in SUBSET (1 .. n) : s # {} => fold[s] = Op(fold[s \ {Max(s)}], sns[Max(s)])
    BY <1>8
<1>10. ListFolds(fold, n, D, {w}, G)
    BY <1>2, <1>6, <1>9 DEF ListFolds
<1>11. fold[1 .. n] \in D
    BY <1>1, <1>3, <1>10, ListEnds
<1> QED
    BY <1>4, <1>11 DEF D

\* What a scroll or a wand is used at.
LEMMA AimsAre ==
    ASSUME NEW w \in Good, NEW c \in Chars
    PROVE  \A aim \in Aims(w, c) : aim[1] \in Someone /\ aim[2] \in Items \cup {Gone}
<1>1. Living(w) \in SUBSET Chars /\ Carried(w, c) \in SUBSET Items
    BY LivingAre DEF Carried
<1> QED
    BY <1>1 DEF Aims, Someone

\* do_quaff, do_recite and do_zap.
LEMMA UsedGood ==
    ASSUME NEW w \in Good, NEW c \in Chars, NEW sn \in Known, NEW other \in Known, NEW l \in Int
    PROVE  /\ do_quaff(w, c, <<sn, other>>, l) \in SUBSET Good
           /\ do_recite(w, c, <<sn>>, l) \in SUBSET Good
           /\ do_zap(w, c, sn, l) \in SUBSET Good
<1> HIDE DEF Known
<1>1. c \in Someone /\ Gone \in Items \cup {Gone} /\ <<sn, other>> \in Seq(Known) /\ <<sn>> \in Seq(Known)
    BY DEF Someone
<1>2. do_quaff(w, c, <<sn, other>>, l) \in SUBSET Good
    BY <1>1, CastAllGood DEF do_quaff
<1>3. do_recite(w, c, <<sn>>, l) \in SUBSET Good
    <2>1. \A aim \in Aims(w, c) : CastAll(w, c, aim[1], aim[2], <<sn>>, l) \in SUBSET Good
        BY <1>1, AimsAre, CastAllGood
    <2> QED
        BY <2>1 DEF do_recite
<1>4. do_zap(w, c, sn, l) \in SUBSET Good
    <2>1. \A aim \in Aims(w, c) : obj_cast_spell(w, c, aim[1], aim[2], sn, l) \in SUBSET Good
        BY AimsAre, ObjCastGood
    <2> QED
        BY <2>1 DEF do_zap
<1> QED
    BY <1>2, <1>3, <1>4

BrandishedAt(w, c, these, sn, l) == Each(w, these, LAMBDA x, v : obj_cast_spell(x, c, v, Gone, sn, l))

\* A staff at all of some, one after the other.
LEMMA BrandishedGood ==
    ASSUME NEW w \in Good, NEW c \in Chars, NEW these \in SUBSET Chars, NEW sn \in Known, NEW l \in Int
    PROVE  BrandishedAt(w, c, these, sn, l) \in SUBSET Good
<1> DEFINE S == these
           D == SUBSET Good
           Op(v, ws) == UNION {obj_cast_spell(x, c, v, Gone, sn, l) : x \in ws}
           G == [p \in S \X D |-> Op(p[1], p[2])]
           Is(h) == h = [s \in SUBSET S |-> IF s = {} THEN {w} ELSE Op(Pick(s), h[s \ {Pick(s)}])]
           fold == CHOOSE h : Is(h)
<1>1. IsFiniteSet(S) /\ {w} \in D
    BY CharsFinite
<1>2. \A a \in S : \A u \in D : G[<<a, u>>] = Op(a, u)
    OBVIOUS
<1>3. Within(G, S, D)
    <2>1. \A v \in S : \A ws \in D : Op(v, ws) \in D
        <3>1. \A v \in S : v \in Someone
            BY DEF Someone
        <3>2. \A v \in S : \A x \in Good : obj_cast_spell(x, c, v, Gone, sn, l) \in SUBSET Good
            BY <3>1, ObjCastGood
        <3> QED
            BY <3>2
    <2> HIDE DEF G
    <2> QED
        BY <1>2, <2>1 DEF Within
<1>4. BrandishedAt(w, c, these, sn, l) = fold[S]
    BY DEF BrandishedAt, Each, FoldSet, MapThenFoldSet, Pick
<1> HIDE DEF G, Op, S, D
<1>5. PICK g : Folded(g, S, {w}, G) /\ \A s \in SUBSET S : g[s] \in D
    BY <1>1, <1>3, FoldExists
<1>6. \A s \in SUBSET S : s # {} => Pick(s) \in S /\ s \ {Pick(s)} \in SUBSET S
    BY DEF Pick
<1>7. Is(g)
    BY <1>2, <1>5, <1>6 DEF Folded
<1>8. Is(fold)
    BY <1>7
<1> HIDE DEF fold
<1>9. fold[{}] = {w} /\ \A s \in SUBSET S : s # {} => fold[s] = Op(Pick(s), fold[s \ {Pick(s)}])
    BY <1>8
<1>10. Folds_(fold, S, D, {w}, G)
    BY <1>2, <1>6, <1>9 DEF Folds_
<1>11. fold[S] \in D
    BY <1>1, <1>3, <1>10, FoldEnds
<1> QED
    BY <1>4, <1>11 DEF D

\* do_brandish.
LEMMA BrandishGood ==
    ASSUME NEW w \in Good, NEW c \in Chars, NEW sn \in Known, NEW l \in Int
    PROVE  do_brandish(w, c, sn, l) \in SUBSET Good
<1> DEFINE these == Brandished(w, c, skill_table[sn].target)
<1>1. these \in SUBSET Chars
    <2>1. \A target : Brandished(w, c, target) \in SUBSET Chars
        BY LivingAre DEF Brandished
    <2> QED
        BY <2>1
<1>2. do_brandish(w, c, sn, l) = {w} \cup BrandishedAt(w, c, these, sn, l)
    BY DEF do_brandish, BrandishedAt
<1> HIDE DEF these
<1> QED
    BY <1>1, <1>2, BrandishedGood

\* do_throw, whomever the bomb goes off at.
LEMMA ThrowGood ==
    ASSUME NEW w \in Good, NEW c \in Chars, NEW v \in Chars, NEW sn \in Known, NEW l \in Int
    PROVE  do_throw(w, c, v, sn, l) \in SUBSET Good
<1>1. \A d \in {c, v} : explode_bomb(w, d, c, sn, l) \in SUBSET Good
    <2> TAKE d \in {c, v}
    <2>1. CASE skill_table[sn].target = "CharOffensive"
        <3>1. Fits(sn, d)
            BY <2>1 DEF Fits
        <3>2. CastOn(w, sn, l, c, d) \in SUBSET Good
            BY <3>1, CastOnGood
        <3> QED
            BY <2>1, <3>2 DEF explode_bomb
    <2>2. CASE skill_table[sn].target # "CharOffensive"
        BY <2>2 DEF explode_bomb
    <2> QED
        BY <2>1, <2>2
<1>2. \A x \in Good : (IF {c, v} \subseteq Living(x) THEN multi_hit(x, c, v) ELSE {x}) \in SUBSET Good
    BY MultiGood
<1> DEFINE off == {w} \cup UNION {explode_bomb(w, d, c, sn, l) : d \in {c, v}}
<1>3. off \in SUBSET Good
    BY <1>1
<1>4. do_throw(w, c, v, sn, l) = UNION {IF {c, v} \subseteq Living(x) THEN multi_hit(x, c, v) ELSE {x} : x \in off}
    BY DEF do_throw
<1> HIDE DEF off
<1> QED
    BY <1>2, <1>3, <1>4

-----------------------------------------------------------------------------
(***************************************************************************)
(* Mobiles that cast, and weapons that carry spells.                       *)
(***************************************************************************)
\* The spells of mobiles.
Theirs == OnPeople \cup {"earthquake", "gas breath"}

\* The first of a pair.
LEMMA PairIs ==
    \A a, b : \A y : y = <<a, b>> => y[1] = a
    OBVIOUS

\* Their books hold none but these.
LEMMA BooksAre ==
    ASSUME NEW special
    PROVE  \A y \in Book(special) : y[1] \in Theirs
<1>1. \A y \in spec_cast_cleric : y[1] \in Theirs
    <2>1. /\ "blindness" \in Theirs
          /\ "earthquake" \in Theirs
          /\ "dispel evil" \in Theirs
          /\ "dispel good" \in Theirs
          /\ "curse" \in Theirs
          /\ "plague" \in Theirs
          /\ "demonfire" \in Theirs
          /\ "exorcise" \in Theirs
          /\ "dispel magic" \in Theirs
        BY DEF Theirs, OnPeople
    <2>2. \A sn, n : <<sn, n>> \in spec_cast_cleric => sn \in Theirs
        BY <2>1 DEF spec_cast_cleric
    <2>3. \A y \in spec_cast_cleric : \E sn, n : y = <<sn, n>>
        BY DEF spec_cast_cleric
    <2> QED
        BY <2>2, <2>3, PairIs
<1>2. \A y \in spec_cast_mage : y[1] \in Theirs
    <2>1. /\ "magic missile" \in Theirs
          /\ "chill touch" \in Theirs
          /\ "burning hands" \in Theirs
          /\ "shocking grasp" \in Theirs
          /\ "colour spray" \in Theirs
          /\ "lightning bolt" \in Theirs
          /\ "fireball" \in Theirs
          /\ "acid blast" \in Theirs
        BY DEF Theirs, OnPeople
    <2>2. \A sn, n : <<sn, n>> \in spec_cast_mage => sn \in Theirs
        BY <2>1 DEF spec_cast_mage
    <2>3. \A y \in spec_cast_mage : \E sn, n : y = <<sn, n>>
        BY DEF spec_cast_mage
    <2> QED
        BY <2>2, <2>3, PairIs
<1>3. \A y \in spec_cast_undead : y[1] \in Theirs
    <2>1. /\ "poison" \in Theirs
          /\ "blindness" \in Theirs
          /\ "curse" \in Theirs
          /\ "weaken" \in Theirs
          /\ "plague" \in Theirs
          /\ "energy drain" \in Theirs
          /\ "insanity" \in Theirs
          /\ "cause serious" \in Theirs
          /\ "cause critical" \in Theirs
          /\ "harm" \in Theirs
          /\ "change sex" \in Theirs
        BY DEF Theirs, OnPeople
    <2>2. \A sn, n : <<sn, n>> \in spec_cast_undead => sn \in Theirs
        BY <2>1 DEF spec_cast_undead
    <2>3. \A y \in spec_cast_undead : \E sn, n : y = <<sn, n>>
        BY DEF spec_cast_undead
    <2> QED
        BY <2>2, <2>3, PairIs
<1>4. \A y \in spec_cast_bastard : y[1] \in Theirs
    <2>1. /\ "blindness" \in Theirs
          /\ "curse" \in Theirs
          /\ "energy drain" \in Theirs
          /\ "dispel magic" \in Theirs
          /\ "lethargy" \in Theirs
          /\ "gas breath" \in Theirs
        BY DEF Theirs, OnPeople
    <2>2. \A sn, n : <<sn, n>> \in spec_cast_bastard => sn \in Theirs
        BY <2>1 DEF spec_cast_bastard
    <2>3. \A y \in spec_cast_bastard : \E sn, n : y = <<sn, n>>
        BY DEF spec_cast_bastard
    <2> QED
        BY <2>2, <2>3, PairIs
<1>5. \A y \in spec_cast_judge : y[1] \in Theirs
    <2>1. /\ "high explosive" \in Theirs
        BY DEF Theirs, OnPeople
    <2>2. \A sn, n : <<sn, n>> \in spec_cast_judge => sn \in Theirs
        BY <2>1 DEF spec_cast_judge
    <2>3. \A y \in spec_cast_judge : \E sn, n : y = <<sn, n>>
        BY DEF spec_cast_judge
    <2> QED
        BY <2>2, <2>3, PairIs
<1>6. \A y \in spec_poison : y[1] \in Theirs
    <2>1. /\ "poison" \in Theirs
        BY DEF Theirs, OnPeople
    <2>2. \A sn, n : <<sn, n>> \in spec_poison => sn \in Theirs
        BY <2>1 DEF spec_poison
    <2>3. \A y \in spec_poison : \E sn, n : y = <<sn, n>>
        BY DEF spec_poison
    <2> QED
        BY <2>2, <2>3, PairIs
<1>7. \A y \in spec_breath_any : y[1] \in Theirs
    <2>1. /\ "fire breath" \in Theirs
          /\ "lightning breath" \in Theirs
          /\ "gas breath" \in Theirs
          /\ "acid breath" \in Theirs
          /\ "frost breath" \in Theirs
        BY DEF Theirs, OnPeople
    <2>2. \A sn, n : <<sn, n>> \in spec_breath_any => sn \in Theirs
        BY <2>1 DEF spec_breath_any
    <2>3. \A y \in spec_breath_any : \E sn, n : y = <<sn, n>>
        BY DEF spec_breath_any
    <2> QED
        BY <2>2, <2>3, PairIs
<1>8. Book(special) \in {spec_cast_cleric, spec_cast_mage, spec_cast_undead, spec_cast_bastard, spec_cast_judge,
                         spec_poison, spec_breath_any, {}}
    BY DEF Book
<1> QED
    BY <1>1, <1>2, <1>3, <1>4, <1>5, <1>6, <1>7, <1>8

\* A mobile casts at one who fights it.
LEMMA SpecialGood ==
    ASSUME NEW w \in Good, NEW c \in Chars, NEW special
    PROVE  spec_cast(w, c, Book(special)) \in SUBSET Good
<1> DEFINE book == Book(special)
           foes == {d \in Living(w) : w.foe[d] = c}
<1>1. \A y \in book : y[1] \in Theirs
    BY BooksAre
<1>2. foes \in SUBSET Chars
    BY LivingAre
<1>3. spec_cast(w, c, book) = UNION {UNION {CastOn(w, sn, CharLevel, c, v) : v \in foes} : sn \in OfLevel(book)}
    BY DEF spec_cast
<1>4. \A sn \in OfLevel(book) : sn \in Theirs
    <2> HIDE DEF book
    <2> QED
        BY <1>1 DEF OfLevel
<1> HIDE DEF book, foes
<1>5. ASSUME NEW sn \in OfLevel(book), NEW v \in foes
      PROVE  CastOn(w, sn, CharLevel, c, v) \in SUBSET Good
    <2>1. v \in Chars
        BY <1>2
    <2>2. CASE sn \in OnPeople
        <3>1. Fits(sn, v) /\ sn \in Known
            BY <2>1, <2>2, TableAssumption DEF Fits, Known
        <3> QED
            BY <2>1, <3>1, LevelIs, CastOnGood
    <2>3. CASE sn \in {"earthquake", "gas breath"}
        <3>1. sn \in OnNobody \ {"undo spell"}
            BY <2>3 DEF OnNobody
        <3>2. CastOn(w, sn, CharLevel, c, v) = spell_fun(w, sn, CharLevel, c, v)
            BY <3>1 DEF CastOn
        <3> QED
            <4>1. spell_fun(w, sn, CharLevel, c, v) \in SUBSET Good
                BY <3>1, LevelIs, RoomSpellGood
            <4> QED
                BY <3>2, <4>1
    <2> QED
        BY <1>4, <2>2, <2>3 DEF Theirs
<1> QED
    BY <1>3, <1>5 DEF book

\* An adept helps.
LEMMA AdeptGood ==
    ASSUME NEW w \in Good, NEW c
    PROVE  spec_cast_adept(w, c) \in SUBSET Good
<1>1. CharLevel \div 4 \in Int
    BY LevelIs, SharesOf
<1>2. ASSUME NEW v \in Living(w) \ Mobs
      PROVE  spell_armor(w, CharLevel \div 4, v) \cup spell_bless(w, CharLevel \div 4, v)
             \cup spell_cure_blindness(w, v) \cup spell_cure_light(w, v) \cup spell_cure_poison(w, v) \in SUBSET Good
    <2>1. v \in Chars
        BY LivingAre
    <2>2. spell_armor(w, CharLevel \div 4, v) \in SUBSET Good /\ spell_bless(w, CharLevel \div 4, v) \in SUBSET Good
        BY <1>1, <2>1, HelpGood
    <2>3. /\ spell_cure_blindness(w, v) \in SUBSET Good /\ spell_cure_light(w, v) \in SUBSET Good
          /\ spell_cure_poison(w, v) \in SUBSET Good
        BY <2>1, UndoGood
    <2> QED
        BY <2>2, <2>3
<1> QED
    BY <1>2 DEF spec_cast_adept

\* A hit, and what is on the blade.
LEMMA HitGood ==
    ASSUME NEW w \in Good, NEW c \in Chars, NEW v \in Chars
    PROVE  one_hit(w, c, v) \in SUBSET Good
<1> DEFINE flags == UNION {w.item[o].flags : o \in Worn(w, c) \ Armour}
           poisoned(x) == IF "Poisoned" \in flags /\ ~AFF(x, v, "Poison") THEN spell_poison(x, CharLevel, v) ELSE {x}
           plagued(x) == IF "Plagued" \in flags /\ ~AFF(x, v, "Plague") THEN spell_plague(x, CharLevel, v) ELSE {x}
<1>1. \A x \in Good : poisoned(x) \in SUBSET Good /\ plagued(x) \in SUBSET Good
    <2>1. \A x \in Good : spell_poison(x, CharLevel, v) \in SUBSET Good /\ spell_plague(x, CharLevel, v) \in SUBSET Good
        BY LevelIs, JoiningGood
    <2> HIDE DEF flags
    <2> QED
        BY <2>1
<1>2. multi_hit(w, c, v) \in SUBSET Good
    BY MultiGood
<1>3. one_hit(w, c, v) = UNION {UNION {plagued(y) : y \in poisoned(x)} : x \in multi_hit(w, c, v)}
    BY DEF one_hit
<1> HIDE DEF poisoned, plagued
<1> QED
    BY <1>1, <1>2, <1>3

-----------------------------------------------------------------------------
(***************************************************************************)
(* The tick.                                                               *)
(***************************************************************************)
\* What is left of an affect does what it did.
LEMMA AgedIs ==
    ASSUME NEW a \in Affs, NEW fades \in BOOLEAN
    PROVE  /\ Aged(a, fades) \in Affs /\ Aged(a, fades).bits = a.bits
           /\ Aged(a, fades).location = a.location /\ Aged(a, fades).modifier = a.modifier
<1>1. a.lasts \in Int /\ a.level \in Int
    BY DEF Affs
<1>2. a.lasts - 1 \in Int /\ a.level - 1 \in Int
    BY <1>1
<1>3. Aged(a, fades) \in {a, [a EXCEPT !.lasts = a.lasts - 1, !.level = a.level],
                          [a EXCEPT !.lasts = a.lasts - 1, !.level = a.level - 1]}
    BY DEF Aged
<1> QED
    BY <1>1, <1>2, <1>3 DEF Affs

\* So does what is left of a list.
LEMMA AgesAre ==
    ASSUME NEW old \in Lists, NEW affs \in AgesOf(old)
    PROVE  /\ affs \in Lists /\ Len(affs) = Len(old)
           /\ \A i \in 1 .. Len(affs) : /\ affs[i].bits = old[i].bits /\ affs[i].location = old[i].location
                                         /\ affs[i].modifier = old[i].modifier
<1>1. Len(old) \in Nat /\ DOMAIN old = 1 .. Len(old) /\ \A i \in 1 .. Len(old) : old[i] \in Affs
    BY ListIs
<1>2. PICK fades \in SUBSET DOMAIN old : affs = [i \in DOMAIN old |-> Aged(old[i], i \in fades)]
    BY DEF AgesOf
<1>3. \A i \in 1 .. Len(old) : /\ affs[i] \in Affs /\ affs[i].bits = old[i].bits
                                /\ affs[i].location = old[i].location /\ affs[i].modifier = old[i].modifier
    <2> TAKE i \in 1 .. Len(old)
    <2> DEFINE on == i \in fades
    <2>1. on \in BOOLEAN /\ affs[i] = Aged(old[i], on) /\ old[i] \in Affs
        BY <1>1, <1>2
    <2> HIDE DEF on
    <2> QED
        BY <2>1, AgedIs
<1>4. affs \in [1 .. Len(old) -> Affs]
    BY <1>1, <1>2, <1>3
<1> HIDE DEF Affs
<1>5. affs \in Seq(Affs) /\ Len(affs) = Len(old)
    BY <1>1, <1>4
<1> QED
    BY <1>3, <1>5 DEF Lists

\* Spells wear off, and the others age.
LEMMA PassesGood ==
    ASSUME NEW w \in Good, NEW c \in Chars
    PROVE  TimePasses(w, c) \in SUBSET Good
<1> DEFINE off == WornOff(update_pos(w, c), c)
<1>1. off \in Good
    BY UpGood, RemovedGood DEF WornOff
<1>2. TimePasses(w, c) = {Listed(off, c, affs) : affs \in AgesOf(off.affs[c])}
    BY DEF TimePasses, Listed
<1> HIDE DEF off
<1>3. off.affs[c] \in Lists
    BY <1>1, GoodIs, WorldIs
<1>4. \A affs \in AgesOf(off.affs[c]) : Listed(off, c, affs) \in Good
    BY <1>1, <1>3, AgesAre, RestatedGood
<1> QED
    BY <1>2, <1>4

CaughtIn(w, l, S) ==
    FoldSet(LAMBDA v, x : affect_join(x, v, Affect("plague", l, Lasts, "Str", -5, {"Plague"})), w, S)

\* The plague is caught, by one after the other.
LEMMA CaughtGood ==
    ASSUME NEW w \in Good, NEW l \in Int, NEW these \in SUBSET Chars
    PROVE  CaughtIn(w, l, these) \in Good
<1> DEFINE S == these
           D == Good
           Op(v, x) == affect_join(x, v, Affect("plague", l, Lasts, "Str", -5, {"Plague"}))
           G == [p \in S \X D |-> Op(p[1], p[2])]
           Is(h) == h = [s \in SUBSET S |-> IF s = {} THEN w ELSE Op(Pick(s), h[s \ {Pick(s)}])]
           fold == CHOOSE h : Is(h)
<1>1. IsFiniteSet(S) /\ w \in D
    BY CharsFinite
<1>2. \A a \in S : \A u \in D : G[<<a, u>>] = Op(a, u)
    OBVIOUS
<1>3. Within(G, S, D)
    <2>1. \A v \in S : \A x \in D : Op(v, x) \in D
        <3>1. {"Plague"} \in Free
            <4>1. "Plague" \in Bits
                BY DEF Bits
            <4> QED
                BY <4>1, FreeIs
        <3>2. "plague" \in Types /\ "Str" \in Locations /\ -5 \in Int
            BY DEF Types, Locations
        <3> QED
            BY <3>1, <3>2, JoinedGood
    <2> HIDE DEF G
    <2> QED
        BY <1>2, <2>1 DEF Within
<1>4. CaughtIn(w, l, these) = fold[S]
    BY DEF CaughtIn, FoldSet, MapThenFoldSet, Pick
<1> HIDE DEF G, Op, S, D
<1>5. PICK g : Folded(g, S, w, G) /\ \A s \in SUBSET S : g[s] \in D
    BY <1>1, <1>3, FoldExists
<1>6. \A s \in SUBSET S : s # {} => Pick(s) \in S /\ s \ {Pick(s)} \in SUBSET S
    BY DEF Pick
<1>7. Is(g)
    BY <1>2, <1>5, <1>6 DEF Folded
<1>8. Is(fold)
    BY <1>7
<1> HIDE DEF fold
<1>9. fold[{}] = w /\ \A s \in SUBSET S : s # {} => fold[s] = Op(Pick(s), fold[s \ {Pick(s)}])
    BY <1>8
<1>10. Folds_(fold, S, D, w, G)
    BY <1>2, <1>6, <1>9 DEF Folds_
<1>11. fold[S] \in D
    BY <1>1, <1>3, <1>10, FoldEnds
<1> QED
    BY <1>4, <1>11 DEF D

\* Whoever has it passes it on, or not.
LEMMA SpreadGood ==
    ASSUME NEW w \in Good, NEW c \in Chars, is_affected_by(w, c, "plague")
    PROVE  Spread(w, c) \in SUBSET Good
<1> DEFINE plague == find_affect(w, c, "plague")[1]
           catches == {v \in Living(w) : c \in w.here /\ ~AFF(w, v, "Plague") /\ plague.level > FaintestPlague}
<1>1. plague \in Affs
    BY ListedOf
<1>2. plague.level - 1 \in Int
    <2>1. plague.level \in Int
        BY <1>1 DEF Affs
    <2> HIDE DEF plague
    <2> QED
        BY <2>1
<1>3. catches \in SUBSET Chars
    BY LivingAre
<1>4. Spread(w, c) = {CaughtIn(w, plague.level - 1, S) : S \in SUBSET catches}
    BY DEF Spread, CaughtIn
<1> HIDE DEF plague, catches
<1>5. \A S \in SUBSET catches : CaughtIn(w, plague.level - 1, S) \in Good
    BY <1>2, <1>3, CaughtGood
<1> QED
    BY <1>4, <1>5

\* Who suffers from plague or poison is struck by it.
LEMMA SuffersGood ==
    ASSUME NEW w \in Good, NEW c \in Chars
    PROVE  Suffers(w, c) \in SUBSET Good
<1>1. CASE is_affected_by(w, c, "plague")
    <2>1. Suffers(w, c) = UNION {damage(x, c, c) : x \in Spread(w, c)}
        BY <1>1 DEF Suffers
    <2>2. Spread(w, c) \in SUBSET Good
        BY <1>1, SpreadGood
    <2>3. \A x \in Good : damage(x, c, c) \in SUBSET Good
        BY DamageGood
    <2> QED
        BY <2>1, <2>2, <2>3
<1>2. CASE ~is_affected_by(w, c, "plague")
    <2>1. Suffers(w, c) \in {damage(w, c, c), {w}}
        BY <1>2 DEF Suffers
    <2> QED
        BY <2>1, DamageGood
<1> QED
    BY <1>1, <1>2

\* How far the update has come: the worlds, each with whether it is over.
Stages == [w : Good, over : BOOLEAN]

Updated(ds, c) ==
    UNION {IF d.over \/ d.w.pos[c] = "dead" THEN {d}
           ELSE UNION {IF EndsUpdate(x, c) THEN {[w |-> x, over |-> TRUE]}
                       ELSE {[w |-> y, over |-> FALSE] : y \in Suffers(x, c)} : x \in TimePasses(d.w, c)} :
               d \in ds}

\* One is updated, in all the worlds that those before have left.
LEMMA UpdatedGood ==
    ASSUME NEW ds \in SUBSET Stages, NEW c \in Chars
    PROVE  Updated(ds, c) \in SUBSET Stages
<1> DEFINE Left(x) == IF EndsUpdate(x, c) THEN {[w |-> x, over |-> TRUE]}
                      ELSE {[w |-> y, over |-> FALSE] : y \in Suffers(x, c)}
           On(d) == UNION {Left(x) : x \in TimePasses(d.w, c)}
           Step(d) == IF d.over \/ d.w.pos[c] = "dead" THEN {d} ELSE On(d)
<1>1. \A x \in Good : Left(x) \in SUBSET Stages
    <2> TAKE x \in Good
    <2>1. Suffers(x, c) \in SUBSET Good
        BY SuffersGood
    <2> DEFINE last == {[w |-> x, over |-> TRUE]}
               more == {[w |-> y, over |-> FALSE] : y \in Suffers(x, c)}
    <2>2. last \in SUBSET Stages
        BY DEF Stages
    <2>3. more \in SUBSET Stages
        <3>1. \A y \in Suffers(x, c) : [w |-> y, over |-> FALSE] \in Stages
            BY <2>1 DEF Stages
        <3> QED
            BY <3>1
    <2>4. Left(x) = IF EndsUpdate(x, c) THEN last ELSE more
        OBVIOUS
    <2> HIDE DEF Left, last, more
    <2> QED
        BY <2>2, <2>3, <2>4
<1> HIDE DEF Left
<1>2. \A d \in Stages : On(d) \in SUBSET Stages
    <2> TAKE d \in Stages
    <2>1. d.w \in Good
        BY DEF Stages
    <2>2. TimePasses(d.w, c) \in SUBSET Good
        BY <2>1, PassesGood
    <2> QED
        BY <1>1, <2>2
<1>3. Updated(ds, c) = UNION {Step(d) : d \in ds}
    BY DEF Updated, Left
<1> HIDE DEF On
<1>4. \A d \in Stages : Step(d) \in SUBSET Stages
    BY <1>2
<1> HIDE DEF Step
<1> QED
    BY <1>3, <1>4

UpdatedAll(w) == FoldLeft(LAMBDA ds, c : Updated(ds, c), {[w |-> w, over |-> FALSE]}, CharList)

\* So is everybody.
LEMMA UpdatedAllGood ==
    ASSUME NEW w \in Good
    PROVE  UpdatedAll(w) \in SUBSET Stages
<1> DEFINE n == Len(CharList)
           D == SUBSET Stages
           Op(ds, c) == Updated(ds, c)
           G == [p \in (1 .. n) \X D |-> Op(p[2], CharList[p[1]])]
           Is(h) == h = [s \in SUBSET (1 .. n) |-> IF s = {} THEN {[w |-> w, over |-> FALSE]} ELSE Op(h[s \ {Max(s)}], CharList[Max(s)])]
           fold == CHOOSE h : Is(h)
<1>1. n \in Nat /\ DOMAIN CharList = 1 .. n /\ {[w |-> w, over |-> FALSE]} \in D
    BY MagicAssumption DEF Stages
<1>2. \A i \in 1 .. n : \A u \in D : G[<<i, u>>] = Op(u, CharList[i])
    OBVIOUS
<1>3. Within(G, 1 .. n, D)
    <2>1. \A i \in 1 .. n : \A ds \in D : Op(ds, CharList[i]) \in D
        <3>1. \A i \in 1 .. n : CharList[i] \in Chars
            BY MagicAssumption
        <3> QED
            BY <3>1, UpdatedGood
    <2> HIDE DEF G
    <2> QED
        BY <1>2, <2>1 DEF Within
<1>4. UpdatedAll(w) = fold[1 .. n]
    BY <1>1 DEF UpdatedAll, FoldLeft, MapThenFoldSet
<1> HIDE DEF G, Op, n, D
<1>5. PICK g : ListFolded(g, n, {[w |-> w, over |-> FALSE]}, G) /\ \A s \in SUBSET (1 .. n) : g[s] \in D
    BY <1>1, <1>3, ListExists
<1>6. \A s \in SUBSET (1 .. n) : s # {} => Max(s) \in 1 .. n /\ s \ {Max(s)} \in SUBSET (1 .. n)
    BY <1>1, MaxOf
<1>7. Is(g)
    BY <1>2, <1>5, <1>6 DEF ListFolded
<1>8. Is(fold)
    BY <1>7
<1> HIDE DEF fold
<1>9. fold[{}] = {[w |-> w, over |-> FALSE]} /\ \A s \in SUBSET (1 .. n) : s # {} => fold[s] = Op(fold[s \ {Max(s)}], CharList[Max(s)])
    BY <1>8
<1>10. ListFolds(fold, n, D, {[w |-> w, over |-> FALSE]}, G)
    BY <1>2, <1>6, <1>9 DEF ListFolds
<1>11. fold[1 .. n] \in D
    BY <1>1, <1>3, <1>10, ListEnds
<1> QED
    BY <1>4, <1>11 DEF D

\* char_update.
LEMMA TickGood ==
    ASSUME NEW w \in Good
    PROVE  char_update(w) \in SUBSET Good
<1>1. char_update(w) = {d.w : d \in UpdatedAll(w)}
    BY DEF char_update, UpdatedAll, Updated
<1>2. UpdatedAll(w) \in SUBSET Stages
    BY UpdatedAllGood
<1>3. \A d \in Stages : d.w \in Good
    BY DEF Stages
<1> QED
    BY <1>1, <1>2, <1>3

-----------------------------------------------------------------------------
(***************************************************************************)
(* The world begins well and stays so.                                     *)
(***************************************************************************)
\* A scene begins with a world of the right kind,
LEMMA NewWorldIs ==
    ASSUME NEW s \in Scenes
    PROVE  NewWorld(s) \in Worlds
<1> DEFINE w == NewWorld(s)
<1>1. w.affs \in [Chars -> Lists]
    BY NoneIs DEF NewWorld
<1>2. w.bits \in [Chars -> SUBSET Bits]
    <2>1. \A c \in Chars : Natural[c] \in SUBSET Bits
        BY DEF Bits
    <2>2. Natural \in [Chars -> SUBSET STRING]
        BY AffectsAssumption
    <2>3. w.bits = [c \in Chars |-> Natural[c]]
        BY <2>2 DEF NewWorld
    <2> HIDE DEF w
    <2> QED
        BY <2>1, <2>3
<1>3. NoModifiers \in Scores
    <2>1. 0 \in Int
        OBVIOUS
    <2> QED
        BY <2>1 DEF NoModifiers, Scores
<1>4. w.mods \in [Chars -> Scores]
    BY <1>3 DEF NewWorld
<1>5. w.item \in [Items -> Goods]
    <2>1. \A c \in Chars \cup {Gone}, armour \in BOOLEAN : NewItem(c, armour) \in Goods
        <3>1. ArmourValue \in Int /\ 0 \in Int
            BY AffectsAssumption
        <3>2. (IF TRUE THEN ArmourValue ELSE 0) \in Int
            BY <3>1
        <3> QED
            BY <1>3, <3>1 DEF NewItem, Goods
    <2>2. s.owner \in Chars
        BY MagicAssumption
    <2>3. w.item = [o \in Items |-> NewItem(IF o \in s.things THEN s.owner ELSE Gone, o \in Armour)]
        BY DEF NewWorld
    <2>4. \A o \in Items : NewItem(IF o \in s.things THEN s.owner ELSE Gone, o \in Armour) \in Goods
        <3> TAKE o \in Items
        <3> DEFINE c == IF o \in s.things THEN s.owner ELSE Gone
                   armour == o \in Armour
        <3>1. c \in Chars \cup {Gone} /\ armour \in BOOLEAN
            BY <2>2
        <3> HIDE DEF c, armour
        <3>2. NewItem(c, armour) \in Goods
            BY <2>1, <3>1
        <3> QED
            BY <3>2 DEF c, armour
    <2> HIDE DEF w
    <2> QED
        BY <2>3, <2>4
<1>6. /\ w.pos \in [Chars -> Positions] /\ w.foe \in [Chars -> Someone] /\ w.master \in [Chars -> Someone]
    BY DEF NewWorld, Positions, Someone
<1>7. w.here \in SUBSET Chars /\ w.align \in [Chars -> Aligns] /\ w.duel \in BOOLEAN /\ w.etched \in SUBSET Chars
    BY MagicAssumption DEF NewWorld, Aligns
<1>8. w = [affs |-> w.affs, bits |-> w.bits, mods |-> w.mods, item |-> w.item, pos |-> w.pos, foe |-> w.foe,
           master |-> w.master, here |-> w.here, align |-> w.align, duel |-> w.duel, etched |-> w.etched]
    BY DEF NewWorld
<1> HIDE DEF w
<1>9. w \in Worlds
    BY <1>1, <1>2, <1>4, <1>5, <1>6, <1>7, <1>8 DEF Worlds
<1> QED
    BY <1>9 DEF w

\* in which nothing is on anybody.
LEMMA NewWorldGood ==
    ASSUME NEW s \in Scenes
    PROVE  NewWorld(s) \in Good
<1> DEFINE w == NewWorld(s)
<1>1. w \in Worlds
    BY NewWorldIs
<1>2. /\ \A c \in Chars : w.affs[c] = <<>> /\ w.bits[c] = Natural[c] /\ w.mods[c] = NoModifiers
      /\ \A o \in Items : ~w.item[o].worn
    BY DEF NewWorld, NewItem
<1> HIDE DEF w
<1>3. \A c \in Chars : Sourced(w, c) /\ Mastered(w, c)
    BY <1>2 DEF Sourced, Mastered
<1>4. \A c \in Chars : Summed(w, c)
    <2> TAKE c \in Chars
    <2> SUFFICES ASSUME NEW x \in Locations
                 PROVE  w.mods[c][x] = OfAffects(w.affs[c], x) + OfItems(w, c, x)
        BY DEF Summed
    <2>1. Worn(w, c) = {}
        BY <1>2 DEF Worn
    <2>2. OfItems(w, c, x) = Total(Gear(w, x), Worn(w, c))
        BY <1>1, WornIs
    <2>3. Total(Gear(w, x), {}) = 0
        <3>1. IsFiniteSet({})
            BY FS_EmptySet
        <3> QED
            BY <3>1, TotalIs
    <2>4. OfItems(w, c, x) = 0
        BY <2>1, <2>2, <2>3
    <2>5. OfAffects(w.affs[c], x) = 0
        BY <1>2, NoneIs
    <2>6. w.mods[c][x] = 0
        BY <1>2 DEF NoModifiers
    <2> QED
        BY <2>4, <2>5, <2>6
<1>5. WornOn(w)
    BY <1>2 DEF WornOn
<1>6. w \in Good
    BY <1>1, <1>3, <1>4, <1>5 DEF Good
<1> QED
    BY <1>6 DEF w

\* A duel is begun.
Duelling(w) == Each(w, Players, LAMBDA x, v : spell_strife_duelist(x, CharLevel, v))

\* Each of the duellists is under its strife.
LEMMA DuellingGood ==
    ASSUME NEW w \in Good
    PROVE  Duelling(w) \in SUBSET Good
<1> DEFINE S == Players
           D == SUBSET Good
           Op(v, ws) == UNION {spell_strife_duelist(x, CharLevel, v) : x \in ws}
           G == [p \in S \X D |-> Op(p[1], p[2])]
           Is(h) == h = [s \in SUBSET S |-> IF s = {} THEN {w} ELSE Op(Pick(s), h[s \ {Pick(s)}])]
           fold == CHOOSE h : Is(h)
<1>1. IsFiniteSet(S) /\ {w} \in D
    BY CharsFinite DEF Chars
<1>2. \A a \in S : \A u \in D : G[<<a, u>>] = Op(a, u)
    OBVIOUS
<1>3. Within(G, S, D)
    <2>1. \A v \in S : \A ws \in D : Op(v, ws) \in D
        <3>1. \A v \in S : \A x \in Good : spell_strife_duelist(x, CharLevel, v) \in SUBSET Good
            BY LevelIs, HelpGood DEF Chars
        <3> QED
            BY <3>1
    <2> HIDE DEF G
    <2> QED
        BY <1>2, <2>1 DEF Within
<1>4. Duelling(w) = fold[S]
    BY DEF Duelling, Each, FoldSet, MapThenFoldSet, Pick
<1> HIDE DEF G, Op, S, D
<1>5. PICK g : Folded(g, S, {w}, G) /\ \A s \in SUBSET S : g[s] \in D
    BY <1>1, <1>3, FoldExists
<1>6. \A s \in SUBSET S : s # {} => Pick(s) \in S /\ s \ {Pick(s)} \in SUBSET S
    BY DEF Pick
<1>7. Is(g)
    BY <1>2, <1>5, <1>6 DEF Folded
<1>8. Is(fold)
    BY <1>7
<1> HIDE DEF fold
<1>9. fold[{}] = {w} /\ \A s \in SUBSET S : s # {} => fold[s] = Op(Pick(s), fold[s \ {Pick(s)}])
    BY <1>8
<1>10. Folds_(fold, S, D, {w}, G)
    BY <1>2, <1>6, <1>9 DEF Folds_
<1>11. fold[S] \in D
    BY <1>1, <1>3, <1>10, FoldEnds
<1> QED
    BY <1>4, <1>11 DEF D

MagicInv == world \in Good /\ scene \in Scenes /\ casts \in Nat

\* A behaviour begins in a good world.
LEMMA BeginsGood ==
    Init => MagicInv
<1> SUFFICES ASSUME Init
             PROVE  MagicInv
    OBVIOUS
<1>1. PICK s \in Scenes : /\ scene = s /\ casts = 0
                          /\ \E w \in IF s.duel THEN Duelling(NewWorld(s)) ELSE {NewWorld(s)} : world = w
    BY DEF Init, Duelling
<1>2. NewWorld(s) \in Good
    BY NewWorldGood
<1>3. Duelling(NewWorld(s)) \in SUBSET Good
    BY <1>2, DuellingGood
<1> QED
    BY <1>1, <1>2, <1>3 DEF MagicInv

\* Each command leads from a good world to good worlds.
LEMMA CommandGood ==
    ASSUME MagicInv, NEW c \in Chars, NEW verb
    PROVE  Commands(c, verb) \in SUBSET Good
<1>w. world \in Good
    BY DEF MagicInv
<1>1. Living(world) \in SUBSET Chars /\ Carried(world, c) \in SUBSET Items
    BY <1>w, LivingAre DEF Carried
<1>2. do_sneak(world, c) \in SUBSET Good /\ do_hide(world, c) \in SUBSET Good /\ do_visible(world, c) \in SUBSET Good
    BY <1>w, StealthGood
<1>3. do_berserk(world, c) \in SUBSET Good /\ do_dirt(world, c) \in SUBSET Good
    BY <1>w, BerserkGood, DirtGood
<1>4. UNION {do_headbutt(world, c, v) : v \in Living(world)} \in SUBSET Good
    BY <1>w, <1>1, ButtGood
<1>5. /\ UNION {do_wear(world, c, o) : o \in Carried(world, c)} \in SUBSET Good
      /\ UNION {do_remove(world, c, o) : o \in Carried(world, c)} \in SUBSET Good
    BY <1>w, WearGood
<1>6. Poisoned(world, c) \in SUBSET Good /\ do_sleep(world, c) \in SUBSET Good
    BY <1>w, RestGood
<1>7. UNION {one_hit(world, c, v) : v \in {d \in Living(world) \ {c} : ~is_safe(world, c, d)}} \in SUBSET Good
    <2>1. \A v \in {d \in Living(world) \ {c} : ~is_safe(world, c, d)} : one_hit(world, c, v) \in SUBSET Good
        BY <1>w, <1>1, HitGood
    <2> QED
        BY <2>1
<1>8. /\ UNION {do_awaken(world, v) : v \in Living(world)} \in SUBSET Good
      /\ UNION {do_coma(world, v) : v \in Living(world)} \in SUBSET Good
      /\ UNION {do_restore(world, v) : v \in Living(world)} \in SUBSET Good
    BY <1>w, <1>1, RestGood
<1>9. {stop_follower(world, c)} \in SUBSET Good
    BY <1>w, LetGo
<1>10. Commands(c, verb) \in
           {do_sneak(world, c), do_hide(world, c), do_visible(world, c), do_berserk(world, c), do_dirt(world, c),
            UNION {do_headbutt(world, c, v) : v \in Living(world)},
            UNION {do_wear(world, c, o) : o \in Carried(world, c)},
            UNION {do_remove(world, c, o) : o \in Carried(world, c)},
            Poisoned(world, c), do_sleep(world, c),
            UNION {one_hit(world, c, v) : v \in {d \in Living(world) \ {c} : ~is_safe(world, c, d)}},
            UNION {do_awaken(world, v) : v \in Living(world)},
            UNION {do_coma(world, v) : v \in Living(world)},
            UNION {do_restore(world, v) : v \in Living(world)},
            {stop_follower(world, c)}, {}}
    BY DEF Commands
<1> QED
    BY <1>2, <1>3, <1>4, <1>5, <1>6, <1>7, <1>8, <1>9, <1>10

\* What somebody does leads to one of these.
LEMMA ActGood ==
    ASSUME MagicInv, NEW c, NEW ws \in SUBSET Good, Acts(c, ws)
    PROVE  MagicInv'
    BY DEF MagicInv, Acts

\* So does what is quaffed, recited, brandished, zapped or thrown.
LEMMA UseGood ==
    ASSUME MagicInv, NEW c \in Chars, Use(c)
    PROVE  MagicInv'
<1>w. world \in Good /\ scene \in Scenes
    BY DEF MagicInv
<1>1. PICK sn \in scene.spells, l \in scene.levels :
          \/ \E other \in scene.spells : Acts(c, do_quaff(world, c, <<sn, other>>, l))
          \/ Acts(c, do_recite(world, c, <<sn>>, l))
          \/ Acts(c, do_brandish(world, c, sn, l))
          \/ Acts(c, do_zap(world, c, sn, l))
          \/ \E v \in Living(world) : Acts(c, do_throw(world, c, v, sn, l))
    BY DEF Use
<1>2. scene.spells \in SUBSET Known /\ l \in Int
    BY <1>w, MagicAssumption DEF Known
<1>3. \A other \in scene.spells : do_quaff(world, c, <<sn, other>>, l) \in SUBSET Good
    BY <1>w, <1>2, UsedGood
<1>4. do_recite(world, c, <<sn>>, l) \in SUBSET Good /\ do_zap(world, c, sn, l) \in SUBSET Good
    BY <1>w, <1>2, UsedGood
<1>5. do_brandish(world, c, sn, l) \in SUBSET Good
    BY <1>w, <1>2, BrandishGood
<1>6. \A v \in Living(world) : do_throw(world, c, v, sn, l) \in SUBSET Good
    BY <1>w, <1>2, LivingAre, ThrowGood
<1> QED
    BY <1>1, <1>3, <1>4, <1>5, <1>6, ActGood

\* Every step of a behaviour keeps the world good.
LEMMA StepGood ==
    MagicInv /\ [Next]_vars => MagicInv'
<1> SUFFICES ASSUME MagicInv, [Next]_vars
             PROVE  MagicInv'
    OBVIOUS
<1>w. world \in Good /\ scene \in Scenes
    BY DEF MagicInv
<1>1. Actors \in SUBSET Chars /\ Living(world) \in SUBSET Chars
    BY <1>w, LivingAre DEF Actors
<1>2. ASSUME NEW c \in Actors, Cast(c)
      PROVE  MagicInv'
    <2>1. PICK sn \in scene.spells : Acts(c, do_cast(world, c, sn))
        BY <1>2 DEF Cast
    <2>2. sn \in Known
        BY <1>w, MagicAssumption DEF Known
    <2>3. do_cast(world, c, sn) \in SUBSET Good
        BY <1>w, <1>1, <2>2, CastGood
    <2> QED
        BY <2>1, <2>3, ActGood
<1>3. ASSUME NEW c \in Actors, Use(c)
      PROVE  MagicInv'
    BY <1>1, <1>3, UseGood
<1>4. ASSUME NEW c \in Actors, Command(c)
      PROVE  MagicInv'
    <2>1. PICK verb \in scene.verbs : Acts(c, Commands(c, verb))
        BY <1>4 DEF Command
    <2>2. Commands(c, verb) \in SUBSET Good
        BY <1>1, CommandGood
    <2> QED
        BY <2>1, <2>2, ActGood
<1>5. ASSUME NEW c \in Actors \cap Mobs, Special(c)
      PROVE  MagicInv'
    <2>1. spec_cast(world, c, Book(scene.special)) \in SUBSET Good
        BY <1>w, <1>1, SpecialGood
    <2> QED
        BY <1>5, <2>1, ActGood DEF Special
<1>6. ASSUME NEW c \in Actors \cap Mobs, Adept(c)
      PROVE  MagicInv'
    <2>1. spec_cast_adept(world, c) \in SUBSET Good
        BY <1>w, AdeptGood
    <2> QED
        BY <1>6, <2>1, ActGood DEF Adept
<1>7. ASSUME NEW c \in Living(world), Wake(c)
      PROVE  MagicInv'
    <2>1. do_wake(world, c) \in SUBSET Good
        BY <1>w, <1>1, RestGood
    <2> QED
        BY <1>7, <2>1, ActGood DEF Wake
<1>8. ASSUME Tick
      PROVE  MagicInv'
    <2>1. char_update(world) \in SUBSET Good
        BY <1>w, TickGood
    <2> QED
        BY <1>8, <2>1 DEF Tick, MagicInv
<1>9. ASSUME UNCHANGED vars
      PROVE  MagicInv'
    BY <1>9 DEF vars, MagicInv
<1> QED
    BY <1>2, <1>3, <1>4, <1>5, <1>6, <1>7, <1>8, <1>9 DEF Next

\* The world is always good: every score is the sum of what is listed and worn,
\* every bit has a source, whoever is charmed has a master, and what is worn is on somebody
\* (all that affect_modify, affect_strip, equip_char, raw_kill and the spells rely on).
THEOREM WorldGood ==
    Spec => []MagicInv
<1> QED
    BY BeginsGood, StepGood, PTL DEF Spec

\* Whatever was cast, dispelled, worn, enchanted or outlived, every score is what the
\* listed affects and the worn items make of it (affect_modify of AFFECT_DATA.cpp and handler.cpp).
THEOREM EveryModifierAddsUp ==
    Spec => []ModifiersAddUp
<1>1. MagicInv => ModifiersAddUp
    BY GoodIs DEF MagicInv, ModifiersAddUp, Summed
<1> QED
    BY <1>1, WorldGood, PTL

\* No bit of a spell outlives it: each is natural, or of an affect that is still listed
\* (affect_remove, affect_strip and raw_kill).
THEOREM EveryBitHasSource ==
    Spec => []NoBitWithoutSource
<1>1. MagicInv => NoBitWithoutSource
    BY GoodIs DEF MagicInv, NoBitWithoutSource, Sourced
<1> QED
    BY <1>1, WorldGood, PTL

\* Whoever is charmed has a master, whom damage() may look at (stop_follower, check_killer
\* and spell_charm_person).
THEOREM EveryCharmedHasMaster ==
    Spec => []CharmedHaveMasters
<1>1. MagicInv => CharmedHaveMasters
    BY GoodIs, LivingAre DEF MagicInv, CharmedHaveMasters, Mastered, AFF
<1> QED
    BY <1>1, WorldGood, PTL
==============================================================================
