---------------------------- MODULE ThingsProofs -----------------------------
(***************************************************************************)
(* What holds of things and gold for any people, things and rooms.         *)
(*                                                                         *)
(* First of where things are: the operations of handler.cpp, one at a      *)
(* time, keep number, weight and light on the books.  Then of the loops of *)
(* the commands that are folds: over what the dead carried, over heaps of  *)
(* coins and over a group that splits some; then of each action of Things, *)
(* and so of every behaviour.  Ready is the invariant; with Rich, for the  *)
(* coins.                                                                  *)
(***************************************************************************)
EXTENDS Things, FoldProofs

(***************************************************************************)
(* What a thing holds.                                                     *)
(***************************************************************************)
Vessels == Containers \cup Corpses

\* One level further down.
Deeper(w, held) == held \cup {x \in Things : w.at[x] \in held}

\* "within" of Inside.
Layers(w, o, depth) ==
    CHOOSE f : f = [n \in 0 .. depth |-> IF n = 0 THEN {o} ELSE Deeper(w, f[n - 1])]

\* The layers of what lies in o are defined one from the other.
LEMMA LayersAre ==
    ASSUME NEW w, NEW o, NEW depth \in Nat
    PROVE  Layers(w, o, depth) =
               [n \in 0 .. depth |-> IF n = 0 THEN {o} ELSE Deeper(w, Layers(w, o, depth)[n - 1])]
<1> DEFINE Is(f, m) == f = [n \in 0 .. m |-> IF n = 0 THEN {o} ELSE Deeper(w, f[n - 1])]
           N == {m \in Nat : \E f : Is(f, m)}
<1>1. 0 \in N
    <2>1. Is([n \in 0 .. 0 |-> {o}], 0)
        OBVIOUS
    <2> QED
        BY <2>1
<1>2. ASSUME NEW m \in Nat, m \in N
      PROVE  m + 1 \in N
    <2>1. PICK f : Is(f, m)
        BY <1>2
    <2> DEFINE g == [n \in 0 .. m + 1 |-> IF n = 0 THEN {o} ELSE Deeper(w, f[n - 1])]
    <2>0. \A n \in 0 .. m + 1 : g[n] = IF n = 0 THEN {o} ELSE Deeper(w, f[n - 1])
        OBVIOUS
    <2>a. DOMAIN g = 0 .. m + 1
        OBVIOUS
    <2>b. g = [n \in DOMAIN g |-> g[n]]
        OBVIOUS
    <2> HIDE DEF g
    <2>2. \A n \in 0 .. m : g[n] = f[n]
        <3> SUFFICES ASSUME NEW n \in 0 .. m
                     PROVE  g[n] = f[n]
            OBVIOUS
        <3>1. g[n] = IF n = 0 THEN {o} ELSE Deeper(w, f[n - 1])
            BY <2>0
        <3>2. f[n] = IF n = 0 THEN {o} ELSE Deeper(w, f[n - 1])
            BY <2>1
        <3> QED
            BY <3>1, <3>2
    <2>3. \A n \in 0 .. m + 1 : n # 0 => n - 1 \in 0 .. m
        OBVIOUS
    <2>4. \A n \in 0 .. m + 1 : g[n] = IF n = 0 THEN {o} ELSE Deeper(w, g[n - 1])
        BY <2>0, <2>2, <2>3
    <2>5. Is(g, m + 1)
        BY <2>4, <2>a, <2>b
    <2> QED
        BY <2>5
<1> HIDE DEF N
<1>3. depth \in N
    BY <1>1, <1>2, NumbersUp
<1>4. \E f : Is(f, depth)
    BY <1>3 DEF N
<1> QED
    BY <1>4 DEF Layers

\* What is inside of o is the last of its layers.
LEMMA InsideLayers ==
    ASSUME NEW w, NEW o
    PROVE  Inside(w, o) = IF o \in Vessels THEN Layers(w, o, Cardinality(Vessels))[Cardinality(Vessels)]
                                           ELSE {o}
    BY DEF Inside, Layers, Deeper, Vessels

(***************************************************************************)
(* What is in somebody's hands, or in something, itself included.          *)
(***************************************************************************)
Bodies == Chars \cup Things

Shut(at, S) == \A x \in Things : at[x] \in S => x \in S

Below(at, p) ==
    {x \in Bodies : \A S \in SUBSET Bodies : p \in S /\ Shut(at, S) => x \in S}

\* Below is the least set of its kind.
LEMMA BelowLeast ==
    ASSUME NEW at, NEW p \in Bodies
    PROVE  /\ p \in Below(at, p)
           /\ Shut(at, Below(at, p))
           /\ \A S \in SUBSET Bodies : p \in S /\ Shut(at, S) => Below(at, p) \subseteq S
    BY DEF Below, Shut, Bodies

\* What is below p is p, or lies directly in something below it.
LEMMA BelowCases ==
    ASSUME NEW at, NEW p \in Bodies
    PROVE  /\ Below(at, p) \subseteq Things \cup {p}
           /\ \A x \in Below(at, p) : x = p \/ (x \in Things /\ at[x] \in Below(at, p))
<1>1. Below(at, p) \subseteq Things \cup {p}
    <2>1. Shut(at, Things \cup {p})
        BY DEF Shut
    <2> QED
        BY <2>1, BelowLeast DEF Bodies
<1> DEFINE S == {x \in Below(at, p) : x = p \/ (x \in Things /\ at[x] \in Below(at, p))}
<1>2. p \in S /\ S \in SUBSET Bodies
    BY BelowLeast, <1>1 DEF Bodies
<1>3. Shut(at, S)
    BY BelowLeast DEF Shut
<1>4. Below(at, p) \subseteq S
    BY <1>2, <1>3, BelowLeast
<1> QED
    BY <1>1, <1>4

\* What is below something below p is below p.
LEMMA BelowWithin ==
    ASSUME NEW at, NEW p \in Bodies, NEW q \in Below(at, p)
    PROVE  q \in Bodies /\ Below(at, q) \subseteq Below(at, p)
<1>1. q \in Bodies /\ Below(at, p) \in SUBSET Bodies
    BY DEF Below
<1> QED
    BY <1>1, BelowLeast

\* Of two that have something in common, one is below the other.
LEMMA BelowCompare ==
    ASSUME NEW at, NEW p \in Bodies, NEW q \in Bodies, NEW x \in Below(at, p), x \in Below(at, q)
    PROVE  p \in Below(at, q) \/ q \in Below(at, p)
<1> DEFINE S == {y \in Below(at, p) : y \in Below(at, q) => p \in Below(at, q) \/ q \in Below(at, p)}
<1>1. p \in S /\ S \in SUBSET Bodies
    BY BelowLeast DEF Below
<1>2. ASSUME NEW y \in Things, at[y] \in S
      PROVE  y \in S
    <2>1. y \in Below(at, p)
        BY <1>2, BelowLeast DEF Shut
    <2> QED
        BY <1>2, <2>1, BelowCases
<1>3. Shut(at, S)
    BY <1>2 DEF Shut
<1>4. Below(at, p) \subseteq S
    BY <1>1, <1>3, BelowLeast
<1> QED
    BY <1>4

\* Nobody is in another's hands.
LEMMA BelowApart ==
    ASSUME NEW at, NEW c \in Chars, NEW d \in Chars, NEW x \in Below(at, c), x \in Below(at, d)
    PROVE  c = d
<1>1. c \in Below(at, d) \/ d \in Below(at, c)
    BY BelowCompare DEF Bodies
<1>2. Chars \cap Things = {}
    BY ThingsAssumption
<1> QED
    BY <1>1, <1>2, BelowCases DEF Bodies

\* A character is below itself only.
LEMMA BelowSelf ==
    ASSUME NEW at, NEW p \in Bodies, NEW q \in Bodies, q \in Below(at, p), q \notin Things
    PROVE  q = p
    BY BelowCases

\* The things below something depend on what is below it only.
LEMMA BelowEased ==
    ASSUME NEW at, NEW to, NEW p \in Bodies,
           \A x \in Things : x # p /\ to[x] \in Below(at, p) => at[x] \in Below(at, p)
    PROVE  Below(to, p) \subseteq Below(at, p)
<1>1. Shut(to, Below(at, p)) /\ Below(at, p) \in SUBSET Bodies
    BY BelowLeast DEF Shut, Below
<1> QED
    BY <1>1, BelowLeast

-----------------------------------------------------------------------------
(***************************************************************************)
(* A thing is put somewhere, or taken from there; no thing is in itself.   *)
(***************************************************************************)
Forest(at) == \A x \in Things : at[x] \notin Below(at, x)

\* Nothing else is moved.
Alike(at, to, o) == \A x \in Things : x # o => to[x] = at[x]

\* What is below a thing does not depend on where that is.
LEMMA PutSame ==
    ASSUME NEW at, NEW to, NEW o \in Things, Alike(at, to, o)
    PROVE  Below(to, o) = Below(at, o)
<1>1. Below(to, o) \subseteq Below(at, o) /\ Below(at, o) \subseteq Below(to, o)
    BY BelowEased DEF Bodies, Alike
<1> QED
    BY <1>1

\* Something put down adds all that is in it to what was below those that bear its new
\* place, and to nobody else's.
LEMMA PutBelow ==
    ASSUME NEW at, NEW to, NEW o \in Things, Alike(at, to, o),
           at[o] \notin Bodies, to[o] \notin Below(at, o), NEW p \in Bodies
    PROVE  /\ p # o /\ to[o] \in Below(at, p) =>
                 /\ Below(to, p) = Below(at, p) \cup Below(at, o)
                 /\ Below(at, p) \cap Below(at, o) = {}
           /\ p = o \/ to[o] \notin Below(at, p) => Below(to, p) = Below(at, p)
           /\ to[o] \in Below(to, p) <=> to[o] \in Below(at, p)
<1> DEFINE L == Below(at, p)
           I == Below(at, o)
           q == to[o]
<1>0. o \in Bodies /\ p \in Bodies /\ (\A x \in Things : x # o => to[x] = at[x]) /\ to[o] = q
    BY DEF Bodies, Alike
<1>1. L \subseteq Below(to, p)
    <2>1. \A x \in Things : x # p /\ at[x] \in Below(to, p) => to[x] \in Below(to, p)
        BY <1>0, BelowCases DEF Bodies
    <2> QED
        BY <2>1, BelowEased
<1>2. I = Below(to, o)
    BY PutSame
<1>3. CASE p = o
    BY <1>2, <1>3
<1>4. CASE p # o /\ q \notin L
    <2>1. \A x \in Things : x # p /\ to[x] \in L => at[x] \in L
        BY <1>0, <1>4
    <2> QED
        BY <1>1, <1>4, <2>1, BelowEased
<1>5. CASE p # o /\ q \in L
    <2>1. L \cup I \subseteq Below(to, p)
        <3>0. Shut(to, Below(to, p))
            BY BelowLeast
        <3>1. o \in Below(to, p)
            BY <1>0, <1>1, <1>5, <3>0 DEF Shut
        <3> QED
            BY <1>1, <1>2, <3>1, BelowWithin
    <2>2. Below(to, p) \subseteq L \cup I
        <3>1. p \in L /\ o \in I /\ L \cup I \in SUBSET Bodies
            BY <1>0, BelowLeast DEF Below
        <3>2. Shut(to, L \cup I)
            <4> SUFFICES ASSUME NEW x \in Things, to[x] \in L \cup I
                         PROVE  x \in L \cup I
                BY DEF Shut
            <4>1. CASE x = o
                BY <3>1, <4>1
            <4>2. CASE x # o
                BY <1>0, <4>2, BelowLeast DEF Shut
            <4> QED
                BY <4>1, <4>2
        <3> QED
            BY <3>1, <3>2, BelowLeast
    <2>3. L \cap I = {}
        <3> SUFFICES ASSUME NEW x \in L, x \in I
                     PROVE  FALSE
            OBVIOUS
        <3>1. p \in I \/ o \in L
            BY <1>0, BelowCompare
        <3>2. CASE p \in I
            BY <1>0, <1>5, <3>2, BelowWithin
        <3>3. CASE o \in L
            <4>1. at[o] \in L /\ L \subseteq Bodies
                BY <1>0, <1>5, <3>3, BelowCases DEF Below
            <4> QED
                BY <4>1
        <3> QED
            BY <3>1, <3>2, <3>3
    <2> QED
        BY <1>5, <2>1, <2>2, <2>3
<1> QED
    BY <1>3, <1>4, <1>5

\* Something that was nowhere, and is not put into itself, makes no loop.
LEMMA PutForest ==
    ASSUME NEW at, NEW to, NEW o \in Things, Alike(at, to, o),
           at[o] \notin Bodies, to[o] \notin Below(at, o)
    PROVE  Forest(to) <=> Forest(at)
<1> DEFINE q == to[o]
<1>0. o \in Bodies /\ (\A x \in Things : x # o => to[x] = at[x]) /\ to[o] = q
    BY DEF Bodies, Alike
<1>1. \A x \in Things : x \in Bodies /\ Below(at, x) \subseteq Bodies
    BY DEF Bodies, Below
<1>a. ASSUME NEW x \in Things
      PROVE  /\ x # o /\ q \in Below(at, x) => Below(to, x) = Below(at, x) \cup Below(at, o)
             /\ x = o \/ q \notin Below(at, x) => Below(to, x) = Below(at, x)
    BY <1>1, PutBelow
<1>2. ASSUME Forest(at)
      PROVE  Forest(to)
    <2> SUFFICES ASSUME NEW x \in Things, to[x] \in Below(to, x)
                 PROVE  FALSE
        BY DEF Forest
    <2>1. CASE x = o
        BY <1>0, <1>a, <2>1
    <2>2. CASE x # o /\ q \notin Below(at, x)
        BY <1>0, <1>1, <1>2, <1>a, <2>2 DEF Forest
    <2>3. CASE x # o /\ q \in Below(at, x)
        <3>1. at[x] \in Below(at, o)
            BY <1>0, <1>1, <1>2, <1>a, <2>3 DEF Forest
        <3>2. x \in Below(at, o)
            BY <1>0, <3>1, BelowLeast DEF Shut
        <3> QED
            BY <1>0, <2>3, <3>2, BelowWithin
    <2> QED
        BY <2>1, <2>2, <2>3
<1>3. ASSUME Forest(to)
      PROVE  Forest(at)
    <2> SUFFICES ASSUME NEW x \in Things, at[x] \in Below(at, x)
                 PROVE  FALSE
        BY DEF Forest
    <2>1. x # o
        BY <1>1
    <2>2. Below(at, x) \subseteq Below(to, x)
        BY <1>1, <1>a
    <2> QED
        BY <1>0, <1>3, <2>1, <2>2 DEF Forest
<1> QED
    BY <1>2, <1>3

Places == [Things -> Bodies \cup Rooms \cup {Nowhere, Lost}]

\* Things lie in containers and corpses only.
Placed(w) ==
    /\ w.at \in Places
    /\ \A o \in Things : w.at[o] \in Things => w.at[o] \in Vessels

(***************************************************************************)
(* Inside goes as deep as things can lie in each other.                    *)
(***************************************************************************)
\* There are finitely many things and containers, so they can be counted.
LEMMA ThingsFinite ==
    /\ IsFiniteSet(Chars) /\ IsFiniteSet(Things) /\ IsFiniteSet(Vessels) /\ Vessels \subseteq Things
    /\ Cardinality(Vessels) \in Nat
<1>1. Vessels \subseteq Things /\ IsFiniteSet(Chars \cup Things)
    BY ThingsAssumption DEF Vessels
<1>2. IsFiniteSet(Chars) /\ IsFiniteSet(Things) /\ IsFiniteSet(Vessels)
    BY <1>1, FS_Subset
<1> QED
    BY <1>1, <1>2, FS_CardinalityType

\* Each layer holds the one before, and has one more container in it as long as
\* something is missing.
LEMMA LayersGrow ==
    ASSUME NEW w, Placed(w), NEW o \in Vessels, NEW depth \in Nat, NEW f,
           f = [n \in 0 .. depth |-> IF n = 0 THEN {o} ELSE Deeper(w, f[n - 1])]
    PROVE  \A n \in 0 .. depth :
              /\ o \in f[n] /\ f[n] \subseteq Below(w.at, o)
              /\ Shut(w.at, f[n]) \/ Cardinality(f[n] \cap Vessels) >= n + 1
<1> DEFINE Fine(n) == /\ o \in f[n] /\ f[n] \subseteq Below(w.at, o)
                      /\ Shut(w.at, f[n]) \/ Cardinality(f[n] \cap Vessels) >= n + 1
           N == {n \in Nat : n \in 0 .. depth => Fine(n)}
<1>0. o \in Bodies /\ Below(w.at, o) \subseteq Things
    BY ThingsFinite, BelowCases DEF Bodies
<1>1. 0 \in N
    <2>1. f[0] = {o}
        OBVIOUS
    <2>2. {o} \cap Vessels = {o} /\ Cardinality({o}) = 1
        BY FS_Singleton
    <2>a. f[0] \cap Vessels = {o}
        BY <2>1, <2>2
    <2>b. Cardinality(f[0] \cap Vessels) = 1
        BY <2>2, <2>a
    <2>3. Cardinality(f[0] \cap Vessels) >= 0 + 1
        BY <2>b
    <2>4. {o} \subseteq Below(w.at, o)
        BY <1>0, BelowLeast
    <2> QED
        BY <2>1, <2>3, <2>4
<1>2. ASSUME NEW n \in Nat, n \in N
      PROVE  n + 1 \in N
    <2> SUFFICES ASSUME n + 1 \in 0 .. depth
                 PROVE  Fine(n + 1)
        OBVIOUS
    <2>1. f[n + 1] = Deeper(w, f[n])
        <3>1. n + 1 # 0 /\ (n + 1) - 1 = n
            OBVIOUS
        <3> QED
            BY <3>1
    <2>2. n \in 0 .. depth
        OBVIOUS
    <2>3. Fine(n)
        BY <1>2, <2>2
    <2> HIDE DEF N
    <2>4. o \in f[n + 1]
        BY <2>1, <2>3 DEF Deeper
    <2>5. f[n + 1] \subseteq Below(w.at, o)
        <3>1. Shut(w.at, Below(w.at, o))
            BY <1>0, BelowLeast
        <3> QED
            BY <2>1, <2>3, <3>1 DEF Deeper, Shut
    <2>6. CASE Shut(w.at, f[n])
        <3>1. f[n + 1] = f[n]
            BY <2>1, <2>6 DEF Deeper, Shut
        <3> QED
            BY <2>4, <2>5, <2>6, <3>1
    <2>7. CASE Cardinality(f[n] \cap Vessels) >= n + 1
        <3>1. CASE f[n + 1] \cap Vessels \subseteq f[n]
            <4>1. ASSUME NEW x \in Things, w.at[x] \in f[n + 1]
                  PROVE  x \in f[n + 1]
                <5>1. w.at[x] \in Things
                    BY <1>0, <2>5, <4>1
                <5>2. w.at[x] \in Vessels
                    BY <4>1, <5>1 DEF Placed
                <5>3. w.at[x] \in f[n]
                    BY <3>1, <4>1, <5>2
                <5> QED
                    BY <2>1, <5>3 DEF Deeper
            <4> QED
                BY <2>4, <2>5, <4>1 DEF Shut
        <3>2. CASE ~(f[n + 1] \cap Vessels \subseteq f[n])
            <4>1. PICK x \in f[n + 1] \cap Vessels : x \notin f[n]
                BY <3>2
            <4>2. (f[n] \cap Vessels) \cup {x} \subseteq f[n + 1] \cap Vessels
                BY <2>1, <4>1 DEF Deeper
            <4>3. IsFiniteSet(f[n] \cap Vessels) /\ IsFiniteSet(f[n + 1] \cap Vessels)
                BY ThingsFinite, FS_Subset
            <4>4. Cardinality((f[n] \cap Vessels) \cup {x}) = Cardinality(f[n] \cap Vessels) + 1
                BY <4>1, <4>3, FS_AddElement
            <4>5. Cardinality((f[n] \cap Vessels) \cup {x}) <= Cardinality(f[n + 1] \cap Vessels)
                BY <4>2, <4>3, FS_Subset
            <4>6. Cardinality(f[n] \cap Vessels) \in Nat /\ Cardinality(f[n + 1] \cap Vessels) \in Nat
                BY <4>3, FS_CardinalityType
            <4>7. Cardinality(f[n + 1] \cap Vessels) >= (n + 1) + 1
                BY <2>7, <4>4, <4>5, <4>6
            <4> QED
                BY <2>4, <2>5, <4>7
        <3> QED
            BY <3>1, <3>2
    <2> QED
        BY <2>3, <2>6, <2>7
<1> HIDE DEF N
<1>3. Nat \subseteq N
    BY <1>1, <1>2, NumbersUp
<1>4. \A n \in 0 .. depth : n \in Nat /\ n \in N
    BY <1>3
<1> QED
    BY <1>4 DEF N

\* The recursion that weighs and counts the contents reaches all that is below, and no more.
LEMMA InsideIsBelow ==
    ASSUME NEW w, Placed(w), NEW o \in Things
    PROVE  Inside(w, o) = Below(w.at, o)
<1>0. o \in Bodies /\ o \in Below(w.at, o)
    BY BelowLeast DEF Bodies
<1>1. CASE o \in Vessels
    <2> DEFINE depth == Cardinality(Vessels)
               f == Layers(w, o, depth)
    <2>1. depth \in Nat
        BY ThingsFinite
    <2>2. f = [n \in 0 .. depth |-> IF n = 0 THEN {o} ELSE Deeper(w, f[n - 1])]
        BY <2>1, LayersAre
    <2>3. Inside(w, o) = f[depth]
        BY <1>1, InsideLayers
    <2> HIDE DEF f
    <2>4. /\ o \in f[depth] /\ f[depth] \subseteq Below(w.at, o)
          /\ Shut(w.at, f[depth]) \/ Cardinality(f[depth] \cap Vessels) >= depth + 1
        <3> HIDE DEF depth
        <3>1. depth \in 0 .. depth
            BY <2>1
        <3> QED
            BY <1>1, <2>1, <2>2, <3>1, LayersGrow
    <2>5. ~(Cardinality(f[depth] \cap Vessels) >= depth + 1)
        <3>1. f[depth] \cap Vessels \subseteq Vessels
            OBVIOUS
        <3>2. Cardinality(f[depth] \cap Vessels) <= depth /\ IsFiniteSet(f[depth] \cap Vessels)
            BY <3>1, ThingsFinite, FS_Subset
        <3>3. Cardinality(f[depth] \cap Vessels) \in Nat
            BY <3>2, FS_CardinalityType
        <3> QED
            BY <2>1, <3>2, <3>3
    <2>6. f[depth] \in SUBSET Bodies
        BY <2>4 DEF Below
    <2>7. Below(w.at, o) \subseteq f[depth]
        BY <1>0, <2>4, <2>5, <2>6, BelowLeast
    <2> QED
        BY <2>3, <2>4, <2>7
<1>2. CASE o \notin Vessels
    <2>1. Inside(w, o) = {o}
        BY <1>2, InsideLayers
    <2>2. Shut(w.at, {o}) /\ {o} \in SUBSET Bodies
        BY <1>0, <1>2 DEF Shut, Placed
    <2>3. Below(w.at, o) \subseteq {o}
        BY <1>0, <2>2, BelowLeast
    <2> QED
        BY <1>0, <2>1, <2>3
<1> QED
    BY <1>1, <1>2

\* Whose hands something is in.
Bearers(at, q) == {c \in Chars : q \in Below(at, c)}

\* The loops over in_obj and carried_by reach everybody that bears it.
LEMMA CarriersAreBearers ==
    ASSUME NEW w, Placed(w), NEW o \in Things
    PROVE  Carriers(w, o) = Bearers(w.at, o)
<1>0. Chars \cap Things = {}
    BY ThingsAssumption
<1>1. ASSUME NEW c \in Chars, o \in Below(w.at, c)
      PROVE  \E x \in Carrying(w, c) : o \in Inside(w, x)
    <2> DEFINE H == {x \in Things : \E y \in Things : w.at[y] = c /\ x \in Below(w.at, y)}
    <2>1. Shut(w.at, H \cup {c})
        <3> SUFFICES ASSUME NEW x \in Things, w.at[x] \in H \cup {c}
                     PROVE  x \in H
            BY DEF Shut
        <3>1. CASE w.at[x] = c
            BY <3>1, BelowLeast DEF Bodies
        <3>2. CASE w.at[x] \in H
            <4>1. PICK y \in Things : w.at[y] = c /\ w.at[x] \in Below(w.at, y)
                BY <3>2
            <4>2. Shut(w.at, Below(w.at, y))
                BY BelowLeast DEF Bodies
            <4> QED
                BY <4>1, <4>2 DEF Shut
        <3> QED
            BY <3>1, <3>2
    <2>2. H \cup {c} \in SUBSET Bodies /\ c \in Bodies
        BY DEF Bodies
    <2>3. o \in H
        BY <1>0, <1>1, <2>1, <2>2, BelowLeast
    <2>4. PICK y \in Things : w.at[y] = c /\ o \in Below(w.at, y)
        BY <2>3
    <2> QED
        BY <2>4, InsideIsBelow DEF Carrying
<1>2. ASSUME NEW c \in Chars, NEW x \in Carrying(w, c), o \in Inside(w, x)
      PROVE  o \in Below(w.at, c)
    <2>1. x \in Things /\ w.at[x] = c /\ c \in Bodies
        BY DEF Carrying, Bodies
    <2>2. x \in Below(w.at, c)
        BY <2>1, BelowLeast DEF Shut
    <2>3. o \in Below(w.at, x)
        BY <1>2, <2>1, InsideIsBelow
    <2> QED
        BY <2>1, <2>2, <2>3, BelowWithin
<1> QED
    BY <1>1, <1>2 DEF Carriers, Bearers

\* What somebody holds is all that is below him.
LEMMA HoldsBelow ==
    ASSUME NEW w, Placed(w), NEW c \in Chars
    PROVE  Holds(w, c) = Below(w.at, c) \cap Things
<1>1. ASSUME NEW o \in Things
      PROVE  o \in Below(w.at, c) <=> \E x \in Carrying(w, c) : o \in Inside(w, x)
    BY CarriersAreBearers DEF Carriers, Bearers
<1>2. \A x \in Carrying(w, c) : Inside(w, x) \subseteq Things
    BY InsideIsBelow, BelowCases DEF Carrying, Bodies
<1> QED
    BY <1>1, <1>2 DEF Holds

(***************************************************************************)
(* What a set of things counts for.                                        *)
(***************************************************************************)
Number(S) == Cardinality((S \cap Things) \ (Containers \cup Money))

Weight(S) == Cardinality(S \cap Things) + Cardinality(S \cap Things \cap Heavy)

\* Numbers and weights are numbers.
LEMMA CountsAre ==
    ASSUME NEW S
    PROVE  Number(S) \in Nat /\ Weight(S) \in Nat
<1>1. /\ IsFiniteSet((S \cap Things) \ (Containers \cup Money))
      /\ IsFiniteSet(S \cap Things) /\ IsFiniteSet(S \cap Things \cap Heavy)
    BY ThingsFinite, FS_Subset
<1>2. /\ Cardinality((S \cap Things) \ (Containers \cup Money)) \in Nat
      /\ Cardinality(S \cap Things) \in Nat /\ Cardinality(S \cap Things \cap Heavy) \in Nat
    BY <1>1, FS_CardinalityType
<1> QED
    BY <1>2 DEF Number, Weight

\* Two sets that share nothing have as many members as both together.
LEMMA CountTwo ==
    ASSUME NEW S, NEW T, IsFiniteSet(S), IsFiniteSet(T), S \cap T = {}
    PROVE  Cardinality(S \cup T) = Cardinality(S) + Cardinality(T)
<1>1. Cardinality(S \cup T) = Cardinality(S) + Cardinality(T) - Cardinality(S \cap T)
    BY FS_Union
<1>2. Cardinality(S \cap T) = 0 /\ Cardinality(S) \in Nat /\ Cardinality(T) \in Nat
    BY FS_EmptySet, FS_CardinalityType
<1> QED
    BY <1>1, <1>2

\* Two sets that share nothing count, and weigh, as much as both together.
LEMMA CountsAdd ==
    ASSUME NEW S, NEW T, S \cap T = {}
    PROVE  /\ Number(S \cup T) = Number(S) + Number(T)
           /\ Weight(S \cup T) = Weight(S) + Weight(T)
<1> DEFINE X == Containers \cup Money
<1>1. ((S \cup T) \cap Things) \ X = ((S \cap Things) \ X) \cup ((T \cap Things) \ X)
    OBVIOUS
<1>2. (S \cup T) \cap Things = (S \cap Things) \cup (T \cap Things)
    OBVIOUS
<1>3. (S \cup T) \cap Things \cap Heavy = (S \cap Things \cap Heavy) \cup (T \cap Things \cap Heavy)
    OBVIOUS
<1>4. /\ IsFiniteSet((S \cap Things) \ X) /\ IsFiniteSet((T \cap Things) \ X)
      /\ IsFiniteSet(S \cap Things) /\ IsFiniteSet(T \cap Things)
      /\ IsFiniteSet(S \cap Things \cap Heavy) /\ IsFiniteSet(T \cap Things \cap Heavy)
    BY ThingsFinite, FS_Subset
<1>5. Number(S \cup T) = Number(S) + Number(T)
    BY <1>1, <1>4, CountTwo DEF Number
<1>6. /\ Cardinality((S \cup T) \cap Things) = Cardinality(S \cap Things) + Cardinality(T \cap Things)
      /\ Cardinality((S \cup T) \cap Things \cap Heavy) =
            Cardinality(S \cap Things \cap Heavy) + Cardinality(T \cap Things \cap Heavy)
    BY <1>2, <1>3, <1>4, CountTwo
<1>7. /\ Cardinality(S \cap Things) \in Nat /\ Cardinality(T \cap Things) \in Nat
      /\ Cardinality(S \cap Things \cap Heavy) \in Nat /\ Cardinality(T \cap Things \cap Heavy) \in Nat
    BY <1>4, FS_CardinalityType
<1> QED
    BY <1>5, <1>6, <1>7 DEF Weight

\* What get_obj_number and get_obj_weight compute is the count and the weight of all that is below.
LEMMA ThingCounts ==
    ASSUME NEW w, Placed(w), NEW o \in Things
    PROVE  /\ get_obj_number(w, o) = Number(Below(w.at, o))
           /\ get_obj_weight(w, o) = Weight(Below(w.at, o))
<1>1. Inside(w, o) = Below(w.at, o) /\ Below(w.at, o) \subseteq Things
    BY InsideIsBelow, BelowCases DEF Bodies
<1>2. Below(w.at, o) \cap Things = Below(w.at, o)
    BY <1>1
<1> QED
    BY <1>1, <1>2 DEF get_obj_number, get_obj_weight, Number, Weight

-----------------------------------------------------------------------------
(***************************************************************************)
(* A sound world.                                                          *)
(***************************************************************************)
Kinds ==
    [at     : Places,
     worn   : [Things -> Slots \cup {NotWorn}],
     number : [Chars -> Int],
     weight : [Chars -> Int],
     gold   : [Chars -> Int],
     coins  : [Money -> Int],
     rots   : SUBSET Things,
     lit    : SUBSET Lights,
     owner  : [Corpses -> Players \cup {Nowhere}],
     whose  : [Corpses -> Players \cup {Nowhere}],
     weak   : SUBSET Players,
     room   : [Chars -> Rooms \cup {Nowhere}],
     light  : [Rooms -> Int]]

\* Who has something is here, and so is what something is in.
Present(w) ==
    \A o \in Things :
       /\ w.at[o] \in Things => w.at[w.at[o]] # Nowhere
       /\ w.at[o] \in Chars => w.room[w.at[o]] # Nowhere

Counted(w) ==
    \A c \in Chars :
       /\ w.number[c] = Number(Below(w.at, c))
       /\ w.weight[c] = Weight(Below(w.at, c))

\* What is worn is in somebody's hands, and nothing else in its place.
Dressed(w) ==
    /\ \A o \in Things : w.worn[o] # NotWorn => w.at[o] \in Chars
    /\ \A o, x \in Things : w.at[o] = w.at[x] /\ w.worn[o] = w.worn[x] /\ w.worn[o] # NotWorn => o = x

Sound(w) ==
    /\ w \in Kinds
    /\ Placed(w)
    /\ Forest(w.at)
    /\ Present(w)
    /\ Counted(w)
    /\ Dressed(w)

Shining(w, r) == {o \in w.lit : w.at[o] \in Chars /\ w.room[w.at[o]] = r /\ w.worn[o] = "light"}

Lighted(w) == \A r \in Rooms : w.light[r] = Cardinality(Shining(w, r))

-----------------------------------------------------------------------------
(***************************************************************************)
(* A thing is taken from where it is, or put where it was not.             *)
(***************************************************************************)

\* Who has it counts it.
LEMMA PutCounts ==
    ASSUME NEW at, NEW to, NEW o \in Things, Alike(at, to, o),
           at[o] \notin Bodies, to[o] \notin Below(at, o), NEW c \in Chars
    PROVE  /\ Number(Below(to, c)) = Number(Below(at, c)) +
                  IF c \in Bearers(at, to[o]) THEN Number(Below(at, o)) ELSE 0
           /\ Weight(Below(to, c)) = Weight(Below(at, c)) +
                  IF c \in Bearers(at, to[o]) THEN Weight(Below(at, o)) ELSE 0
           /\ Below(to, o) = Below(at, o)
           /\ c \in Bearers(at, to[o]) <=> c \in Bearers(to, to[o])
<1>0. c \in Bodies /\ c # o
    BY ThingsAssumption DEF Bodies
<1>1. /\ Number(Below(at, c)) \in Nat /\ Number(Below(at, o)) \in Nat
      /\ Weight(Below(at, c)) \in Nat /\ Weight(Below(at, o)) \in Nat
    BY CountsAre
<1>2. Below(to, o) = Below(at, o)
    BY PutSame
<1>3. c \in Bearers(at, to[o]) <=> c \in Bearers(to, to[o])
    BY <1>0, PutBelow DEF Bearers
<1>4. CASE c \in Bearers(at, to[o])
    <2>1. Below(to, c) = Below(at, c) \cup Below(at, o) /\ Below(at, c) \cap Below(at, o) = {}
        BY <1>0, <1>4, PutBelow DEF Bearers
    <2> QED
        BY <1>1, <1>2, <1>3, <1>4, <2>1, CountsAdd
<1>5. CASE c \notin Bearers(at, to[o])
    <2>1. Below(to, c) = Below(at, c)
        BY <1>0, <1>5, PutBelow DEF Bearers
    <2> QED
        BY <1>1, <1>2, <1>3, <1>5, <2>1
<1> QED
    BY <1>4, <1>5

Spots == Bodies \cup Rooms \cup {Nowhere, Lost}

\* Characters, things, rooms and the two other places are different.
LEMMA Sorts ==
    /\ Chars \cap Things = {} /\ Chars \cap Rooms = {} /\ Things \cap Rooms = {}
    /\ Nowhere \notin Bodies \cup Rooms /\ Lost \notin Bodies \cup Rooms /\ Nowhere # Lost
    /\ Vessels \subseteq Things /\ Vessels \cap Money = {} /\ Corpses \subseteq Vessels
    /\ Money \subseteq Things /\ Lights \subseteq Things /\ Girdles \subseteq Things
    /\ Players \subseteq Chars /\ Altar \in Rooms
    BY ThingsAssumption DEF Bodies, Vessels, Chars, Nowhere, Lost

\* What is neither of where a thing is nor of who counts it.
Untouched(w, v) ==
    /\ v.gold = w.gold /\ v.coins = w.coins /\ v.rots = w.rots /\ v.lit = w.lit
    /\ v.owner = w.owner /\ v.weak = w.weak /\ v.room = w.room

\* Something loose is put somewhere, and counted there.
Put_(w, v, o, q) ==
    /\ v.at = [w.at EXCEPT ![o] = q]
    /\ v.worn = w.worn /\ v.room = w.room
    /\ \A c \in Chars :
          /\ v.number[c] = w.number[c] + IF c \in Bearers(w.at, q) THEN Number(Below(w.at, o)) ELSE 0
          /\ v.weight[c] = w.weight[c] + IF c \in Bearers(w.at, q) THEN Weight(Below(w.at, o)) ELSE 0

\* Something put in a place of its own keeps the books, when who bears that place is charged for it.
LEMMA PutSound ==
    ASSUME NEW w, Sound(w), NEW v \in Kinds, NEW o \in Things, w.at[o] \notin Bodies,
           NEW q \in Spots, q \notin Below(w.at, o), Put_(w, v, o, q),
           q = Nowhere => \A x \in Things : w.at[x] # o,
           q \in Things => q \in Vessels /\ w.at[q] # Nowhere,
           q \in Chars => w.room[q] # Nowhere
    PROVE  Sound(v)
<1>0. w \in Kinds /\ w.at \in Places /\ w.worn[o] = NotWorn /\ o \notin Chars
    BY Sorts DEF Sound, Kinds, Dressed, Bodies
<1>1. v.at[o] = q /\ Alike(w.at, v.at, o)
    BY <1>0 DEF Places, Put_, Alike
<1>2. Placed(v)
    BY <1>1 DEF Placed, Alike, Sound, Kinds
<1>3. Forest(v.at)
    BY <1>1, PutForest DEF Sound
<1>4. Present(v)
    BY <1>1, Sorts DEF Present, Sound, Alike, Put_, Bodies
<1>5. Counted(v)
    <2> SUFFICES ASSUME NEW c \in Chars
                 PROVE  /\ v.number[c] = Number(Below(v.at, c))
                        /\ v.weight[c] = Weight(Below(v.at, c))
        BY DEF Counted
    <2>1. /\ Number(Below(v.at, c)) = Number(Below(w.at, c)) +
                 IF c \in Bearers(w.at, q) THEN Number(Below(w.at, o)) ELSE 0
          /\ Weight(Below(v.at, c)) = Weight(Below(w.at, c)) +
                 IF c \in Bearers(w.at, q) THEN Weight(Below(w.at, o)) ELSE 0
        BY <1>1, PutCounts
    <2> QED
        BY <2>1 DEF Put_, Sound, Counted
<1>6. Dressed(v)
    BY <1>0, <1>1 DEF Dressed, Sound, Alike, Put_
<1> QED
    BY <1>2, <1>3, <1>4, <1>5, <1>6 DEF Sound

\* Something is taken from where it is, and counted there no longer.
Taken_(w, v, o) ==
    /\ v.at = [w.at EXCEPT ![o] = Lost]
    /\ v.worn = [w.worn EXCEPT ![o] = NotWorn] /\ v.room = w.room
    /\ \A c \in Chars :
          /\ v.number[c] = w.number[c] - IF c \in Bearers(w.at, w.at[o]) THEN Number(Below(w.at, o)) ELSE 0
          /\ v.weight[c] = w.weight[c] - IF c \in Bearers(w.at, w.at[o]) THEN Weight(Below(w.at, o)) ELSE 0

\* Something taken away keeps the books, when who bore it is credited for it.
LEMMA TakenSound ==
    ASSUME NEW w, Sound(w), NEW v \in Kinds, NEW o \in Things, Taken_(w, v, o)
    PROVE  Sound(v)
<1>0. w \in Kinds /\ w.at \in Places /\ w.worn \in [Things -> Slots \cup {NotWorn}]
    BY DEF Sound, Kinds
<1>1. v.at[o] = Lost /\ Alike(w.at, v.at, o) /\ Alike(v.at, w.at, o)
    BY <1>0 DEF Places, Taken_, Alike
<1>a. v.at[o] \notin Bodies /\ w.at[o] \notin Below(v.at, o) /\ Below(v.at, o) = Below(w.at, o)
    BY <1>1, PutSame, Sorts DEF Sound, Forest
<1>2. Placed(v)
    BY <1>1, Sorts DEF Placed, Alike, Sound, Kinds, Bodies
<1>3. Forest(v.at)
    BY <1>1, <1>a, PutForest DEF Sound
<1>4. Present(v)
    BY <1>1, Sorts DEF Present, Sound, Alike, Taken_, Bodies
<1>5. Counted(v)
    <2> SUFFICES ASSUME NEW c \in Chars
                 PROVE  /\ v.number[c] = Number(Below(v.at, c))
                        /\ v.weight[c] = Weight(Below(v.at, c))
        BY DEF Counted
    <2>1. /\ Number(Below(w.at, c)) = Number(Below(v.at, c)) +
                 IF c \in Bearers(w.at, w.at[o]) THEN Number(Below(w.at, o)) ELSE 0
          /\ Weight(Below(w.at, c)) = Weight(Below(v.at, c)) +
                 IF c \in Bearers(w.at, w.at[o]) THEN Weight(Below(w.at, o)) ELSE 0
        BY <1>1, <1>a, PutCounts
    <2>2. /\ Number(Below(w.at, c)) \in Nat /\ Number(Below(v.at, c)) \in Nat /\ Number(Below(w.at, o)) \in Nat
          /\ Weight(Below(w.at, c)) \in Nat /\ Weight(Below(v.at, c)) \in Nat /\ Weight(Below(w.at, o)) \in Nat
        BY CountsAre
    <2> QED
        BY <2>1, <2>2 DEF Taken_, Sound, Counted
<1>6. Dressed(v)
    BY <1>0, <1>1 DEF Dressed, Sound, Alike, Taken_
<1> QED
    BY <1>2, <1>3, <1>4, <1>5, <1>6 DEF Sound

-----------------------------------------------------------------------------
(***************************************************************************)
(* handler.cpp: the functions that move one thing.                         *)
(***************************************************************************)

\* The lamps that shine are the same where something else is moved.
LEMMA ShineOn ==
    ASSUME NEW w \in Kinds, NEW v, v.lit = w.lit, v.room = w.room, NEW o,
           Alike(w.at, v.at, o), Alike(w.worn, v.worn, o),
           w.worn[o] # "light" \/ w.at[o] \notin Chars,
           v.worn[o] # "light" \/ v.at[o] \notin Chars
    PROVE  /\ \A r : Shining(v, r) = Shining(w, r)
           /\ v.light = w.light /\ Lighted(w) => Lighted(v)
<1>1. w.lit \subseteq Things
    BY Sorts DEF Kinds
<1>2. \A r : Shining(v, r) = Shining(w, r)
    BY <1>1 DEF Shining, Alike
<1> QED
    BY <1>2 DEF Lighted

\* A character is borne by nobody but itself, and a room by nobody.
LEMMA BearersOf ==
    ASSUME NEW at
    PROVE  /\ \A q \in Chars : Bearers(at, q) = {q}
           /\ \A q : q \notin Bodies => Bearers(at, q) = {}
<1>1. ASSUME NEW q \in Chars
      PROVE  Bearers(at, q) = {q}
    <2>1. q \in Bodies /\ q \notin Things
        BY Sorts DEF Bodies
    <2> QED
        BY <2>1, BelowLeast, BelowSelf DEF Bearers, Bodies
<1>2. ASSUME NEW q, q \notin Bodies
      PROVE  Bearers(at, q) = {}
    BY <1>2 DEF Bearers, Below
<1> QED
    BY <1>1, <1>2

Moved(w, o, q) == [w EXCEPT !.at[o] = q]

\* What obj_to_* and obj_from_* leave as it is when they set the place.
LEMMA MovedAre ==
    ASSUME NEW w \in Kinds, NEW o \in Things, NEW q \in Spots,
           NEW v, v = Moved(w, o, q)
    PROVE  /\ v \in Kinds /\ Untouched(w, v)
           /\ v.at = [w.at EXCEPT ![o] = q] /\ v.worn = w.worn
           /\ v.number = w.number /\ v.weight = w.weight /\ v.light = w.light
           /\ Alike(w.at, v.at, o) /\ v.at[o] = q
<1>1. [w.at EXCEPT ![o] = q] \in Places
    BY DEF Kinds, Places, Spots
<1>2. v = [w EXCEPT !.at = [w.at EXCEPT ![o] = q]]
    BY DEF Moved
<1>3. v \in Kinds
    BY <1>1, <1>2 DEF Kinds
<1>4. /\ v.at = [w.at EXCEPT ![o] = q] /\ v.worn = w.worn
      /\ v.number = w.number /\ v.weight = w.weight /\ v.light = w.light
    BY <1>2, <1>3 DEF Kinds
<1>5. Untouched(w, v)
    BY <1>2, <1>3 DEF Kinds, Untouched
<1>6. Alike(w.at, v.at, o) /\ v.at[o] = q
    BY <1>4 DEF Kinds, Places, Alike
<1> QED
    BY <1>3, <1>4, <1>5, <1>6

\* What the loops over the carriers change: number and weight of those, and of nobody else.
LEMMA Charged ==
    ASSUME NEW w \in Kinds, NEW who, NEW n \in Int, NEW kg \in Int,
           NEW v, v = Charge(w, who, n, kg)
    PROVE  /\ v \in Kinds /\ Untouched(w, v)
           /\ v.at = w.at /\ v.worn = w.worn /\ v.light = w.light
           /\ \A c \in Chars : /\ v.number[c] = IF c \in who THEN w.number[c] + n ELSE w.number[c]
                               /\ v.weight[c] = IF c \in who THEN w.weight[c] + kg ELSE w.weight[c]
<1> DEFINE nn == [c \in Chars |-> IF c \in who THEN w.number[c] + n ELSE w.number[c]]
           ww == [c \in Chars |-> IF c \in who THEN w.weight[c] + kg ELSE w.weight[c]]
<1>1. nn \in [Chars -> Int] /\ ww \in [Chars -> Int]
    BY DEF Kinds
<1>2. v = [w EXCEPT !.number = nn, !.weight = ww]
    BY DEF Charge, Kinds
<1>3. /\ \A c \in Chars : nn[c] = IF c \in who THEN w.number[c] + n ELSE w.number[c]
      /\ \A c \in Chars : ww[c] = IF c \in who THEN w.weight[c] + kg ELSE w.weight[c]
    OBVIOUS
<1> HIDE DEF nn, ww
<1>4. v \in Kinds
    BY <1>1, <1>2 DEF Kinds
<1>5. v.number = nn /\ v.weight = ww /\ v.at = w.at /\ v.worn = w.worn /\ v.light = w.light
    BY <1>2 DEF Kinds
<1>6. Untouched(w, v)
    BY <1>2 DEF Kinds, Untouched
<1> QED
    BY <1>3, <1>4, <1>5, <1>6

\* Put, in the room of one who counts.
LEMMA ToRoom ==
    ASSUME NEW w, Sound(w), NEW o \in Things, w.at[o] \notin Bodies, NEW r \in Rooms,
           NEW v, v = obj_to_room(w, o, r)
    PROVE  /\ Sound(v) /\ Untouched(w, v)
           /\ v.at = [w.at EXCEPT ![o] = r] /\ v.worn = w.worn
           /\ v.light = w.light /\ (\A x : Shining(v, x) = Shining(w, x))
<1>1. r # Nowhere /\ r \notin Bodies /\ r \in Spots
    BY Sorts DEF Bodies, Spots
<1>2. v = Moved(w, o, r)
    BY <1>1 DEF obj_to_room, Moved
<1>3. w \in Kinds
    BY DEF Sound
<1>4. /\ v \in Kinds /\ Untouched(w, v) /\ v.at = [w.at EXCEPT ![o] = r] /\ v.worn = w.worn
      /\ v.number = w.number /\ v.weight = w.weight /\ v.light = w.light
      /\ Alike(w.at, v.at, o) /\ v.at[o] = r
    BY <1>1, <1>2, <1>3, MovedAre
<1>5. Put_(w, v, o, r)
    BY <1>1, <1>3, <1>4, BearersOf DEF Put_, Kinds, Untouched
<1>6. r \notin Below(w.at, o)
    BY <1>1 DEF Below
<1>7. Sound(v)
    BY <1>1, <1>4, <1>5, <1>6, PutSound, Sorts DEF Bodies
<1>8. Alike(w.worn, v.worn, o) /\ v.at[o] \notin Chars /\ w.at[o] \notin Chars
    BY <1>1, <1>3, <1>4 DEF Alike, Bodies
<1> QED
    BY <1>3, <1>4, <1>7, <1>8, ShineOn DEF Untouched

\* obj_from_room keeps the books.
LEMMA FromRoom ==
    ASSUME NEW w, Sound(w), NEW o \in Things, w.at[o] \notin Bodies,
           NEW v, v = obj_from_room(w, o)
    PROVE  /\ Sound(v) /\ Untouched(w, v)
           /\ v.at = [w.at EXCEPT ![o] = Lost] /\ v.worn = w.worn
           /\ v.light = w.light /\ (\A x : Shining(v, x) = Shining(w, x))
<1>1. w \in Kinds /\ Lost \in Spots /\ Lost \notin Chars /\ v = Moved(w, o, Lost)
    BY Sorts DEF Sound, Spots, Bodies, obj_from_room, Moved
<1>2. /\ v \in Kinds /\ Untouched(w, v) /\ v.at = [w.at EXCEPT ![o] = Lost] /\ v.worn = w.worn
      /\ v.number = w.number /\ v.weight = w.weight /\ v.light = w.light
      /\ Alike(w.at, v.at, o) /\ v.at[o] = Lost
    BY <1>1, MovedAre
<1>3. w.worn[o] = NotWorn
    BY DEF Sound, Dressed, Bodies
<1>4. Taken_(w, v, o)
    BY <1>1, <1>2, <1>3, BearersOf DEF Taken_, Kinds, Untouched
<1>5. Sound(v)
    BY <1>2, <1>4, TakenSound
<1>6. Alike(w.worn, v.worn, o) /\ w.at[o] \notin Chars
    BY <1>2 DEF Alike, Bodies
<1> QED
    BY <1>1, <1>2, <1>5, <1>6, ShineOn DEF Untouched

\* obj_to_char keeps the books.
LEMMA ToHands ==
    ASSUME NEW w, Sound(w), NEW o \in Things, w.at[o] \notin Bodies, NEW c \in Chars, w.room[c] # Nowhere,
           NEW v, v = obj_to_char(w, o, c)
    PROVE  /\ Sound(v) /\ Untouched(w, v)
           /\ v.at = [w.at EXCEPT ![o] = c] /\ v.worn = w.worn
           /\ v.light = w.light /\ (\A x : Shining(v, x) = Shining(w, x))
<1> DEFINE u == Moved(w, o, c)
           n == get_obj_number(w, o)
           kg == get_obj_weight(w, o)
<1>1. /\ w \in Kinds /\ Placed(w) /\ c \in Spots /\ c \notin Things /\ o \in Bodies
      /\ c # Nowhere
    BY Sorts DEF Sound, Spots, Bodies
<1>2. /\ u \in Kinds /\ Untouched(w, u) /\ u.at = [w.at EXCEPT ![o] = c] /\ u.worn = w.worn
      /\ u.number = w.number /\ u.weight = w.weight /\ u.light = w.light
      /\ Alike(w.at, u.at, o) /\ u.at[o] = c
    BY <1>1, MovedAre
<1>3. n = Number(Below(w.at, o)) /\ kg = Weight(Below(w.at, o)) /\ n \in Int /\ kg \in Int
    BY <1>1, ThingCounts, CountsAre
<1>4. v = Charge(u, {c}, n, kg)
    BY DEF obj_to_char, Moved
<1> HIDE DEF u, n, kg
<1>5. /\ v \in Kinds /\ Untouched(u, v) /\ v.at = u.at /\ v.worn = u.worn /\ v.light = u.light
      /\ \A d \in Chars : /\ v.number[d] = IF d \in {c} THEN w.number[d] + n ELSE w.number[d]
                          /\ v.weight[d] = IF d \in {c} THEN w.weight[d] + kg ELSE w.weight[d]
    BY <1>2, <1>3, <1>4, Charged
<1>6. Untouched(w, v)
    BY <1>2, <1>5 DEF Untouched
<1>7. Bearers(w.at, c) = {c}
    BY BearersOf
<1>8. \A d \in Chars : w.number[d] \in Int /\ w.weight[d] \in Int
    BY <1>1 DEF Kinds
<1>9. Put_(w, v, o, c)
    BY <1>2, <1>3, <1>5, <1>6, <1>7, <1>8 DEF Put_, Untouched
<1>10. c \notin Below(w.at, o)
    BY <1>1, BelowCases
<1>11. Sound(v)
    BY <1>1, <1>5, <1>9, <1>10, PutSound
<1>12. w.worn[o] = NotWorn
    BY DEF Sound, Dressed, Bodies
<1>13. Alike(w.worn, v.worn, o) /\ w.at[o] \notin Chars /\ v.worn[o] # "light"
    BY <1>2, <1>5, <1>12 DEF Alike, Bodies, NotWorn
<1> QED
    BY <1>1, <1>2, <1>5, <1>6, <1>11, <1>13, ShineOn DEF Untouched

\* obj_to_obj keeps the books, when the thing is not put into itself.
LEMMA ToVessel ==
    ASSUME NEW w, Sound(w), NEW o \in Things, w.at[o] \notin Bodies,
           NEW k \in Vessels, w.at[k] # Nowhere, k \notin Below(w.at, o),
           NEW v, v = obj_to_obj(w, o, k)
    PROVE  /\ Sound(v) /\ Untouched(w, v)
           /\ v.at = [w.at EXCEPT ![o] = k] /\ v.worn = w.worn
           /\ v.light = w.light /\ (\A x : Shining(v, x) = Shining(w, x))
<1> DEFINE u == Moved(w, o, k)
           n == get_obj_number(w, o)
           kg == get_obj_weight(w, o)
           who == Carriers(w, k)
<1>1. /\ w \in Kinds /\ Placed(w) /\ k \in Spots /\ k \in Things /\ k \notin Chars /\ k # Nowhere
    BY Sorts DEF Sound, Spots, Bodies
<1>2. /\ u \in Kinds /\ Untouched(w, u) /\ u.at = [w.at EXCEPT ![o] = k] /\ u.worn = w.worn
      /\ u.number = w.number /\ u.weight = w.weight /\ u.light = w.light
      /\ Alike(w.at, u.at, o) /\ u.at[o] = k
    BY <1>1, MovedAre
<1>3. n = Number(Below(w.at, o)) /\ kg = Weight(Below(w.at, o)) /\ n \in Int /\ kg \in Int
    BY <1>1, ThingCounts, CountsAre
<1>4. v = Charge(u, who, n, kg)
    BY DEF obj_to_obj, Moved
<1>5. who = Bearers(w.at, k)
    BY <1>1, CarriersAreBearers
<1> HIDE DEF u, n, kg, who
<1>6. /\ v \in Kinds /\ Untouched(u, v) /\ v.at = u.at /\ v.worn = u.worn /\ v.light = u.light
      /\ \A d \in Chars : /\ v.number[d] = IF d \in who THEN w.number[d] + n ELSE w.number[d]
                          /\ v.weight[d] = IF d \in who THEN w.weight[d] + kg ELSE w.weight[d]
    BY <1>2, <1>3, <1>4, Charged
<1>7. Untouched(w, v)
    BY <1>2, <1>6 DEF Untouched
<1>8. \A d \in Chars : w.number[d] \in Int /\ w.weight[d] \in Int
    BY <1>1 DEF Kinds
<1>9. Put_(w, v, o, k)
    BY <1>2, <1>3, <1>5, <1>6, <1>7, <1>8 DEF Put_, Untouched
<1>10. Sound(v)
    BY <1>1, <1>6, <1>9, PutSound
<1>11. w.worn[o] = NotWorn
    BY DEF Sound, Dressed, Bodies
<1>12. Alike(w.worn, v.worn, o) /\ w.at[o] \notin Chars /\ v.at[o] \notin Chars
    BY <1>1, <1>2, <1>6 DEF Alike, Bodies
<1>13. v.light = w.light /\ (\A x : Shining(v, x) = Shining(w, x))
    <2>1. v.lit = w.lit /\ v.room = w.room /\ Alike(w.at, v.at, o)
        BY <1>2, <1>6, <1>7 DEF Untouched
    <2>2. v.light = w.light
        BY <1>2, <1>6
    <2>3. \A x : Shining(v, x) = Shining(w, x)
        BY <1>1, <1>12, <2>1, ShineOn
    <2> QED
        BY <2>2, <2>3
<1> QED
    BY <1>2, <1>6, <1>7, <1>10, <1>13

\* obj_from_obj keeps the books.
LEMMA FromVessel ==
    ASSUME NEW w, Sound(w), NEW o \in Things, w.at[o] \in Things,
           NEW v, v = obj_from_obj(w, o)
    PROVE  /\ Sound(v) /\ Untouched(w, v)
           /\ v.at = [w.at EXCEPT ![o] = Lost] /\ v.worn = w.worn
           /\ v.light = w.light /\ (\A x : Shining(v, x) = Shining(w, x))
<1> DEFINE u == Moved(w, o, Lost)
           n == get_obj_number(w, o)
           kg == get_obj_weight(w, o)
           who == Carriers(w, w.at[o])
<1>1. /\ w \in Kinds /\ Placed(w) /\ Lost \in Spots /\ Lost \notin Chars /\ w.at[o] \notin Chars
    BY Sorts DEF Sound, Spots, Bodies
<1>2. /\ u \in Kinds /\ Untouched(w, u) /\ u.at = [w.at EXCEPT ![o] = Lost] /\ u.worn = w.worn
      /\ u.number = w.number /\ u.weight = w.weight /\ u.light = w.light
      /\ Alike(w.at, u.at, o) /\ u.at[o] = Lost
    BY <1>1, MovedAre
<1>3. n = Number(Below(w.at, o)) /\ kg = Weight(Below(w.at, o)) /\ n \in Int /\ kg \in Int
    BY <1>1, ThingCounts, CountsAre
<1>4. v = Charge(u, who, -n, -kg)
    BY DEF obj_from_obj, Moved
<1>5. who = Bearers(w.at, w.at[o])
    BY <1>1, CarriersAreBearers
<1> HIDE DEF u, n, kg, who
<1>6. /\ v \in Kinds /\ Untouched(u, v) /\ v.at = u.at /\ v.worn = u.worn /\ v.light = u.light
      /\ \A d \in Chars : /\ v.number[d] = IF d \in who THEN w.number[d] + (-n) ELSE w.number[d]
                          /\ v.weight[d] = IF d \in who THEN w.weight[d] + (-kg) ELSE w.weight[d]
    BY <1>2, <1>3, <1>4, Charged
<1>7. Untouched(w, v)
    BY <1>2, <1>6 DEF Untouched
<1>8. \A d \in Chars : w.number[d] \in Int /\ w.weight[d] \in Int
    BY <1>1 DEF Kinds
<1>9. w.worn[o] = NotWorn /\ w.worn = [w.worn EXCEPT ![o] = NotWorn]
    BY <1>1 DEF Sound, Dressed, Kinds
<1>10. Taken_(w, v, o)
    BY <1>2, <1>3, <1>5, <1>6, <1>7, <1>8, <1>9 DEF Taken_, Untouched
<1>11. Sound(v)
    BY <1>6, <1>10, TakenSound
<1>12. Alike(w.worn, v.worn, o) /\ v.at[o] \notin Chars
    BY <1>1, <1>2, <1>6 DEF Alike
<1>13. v.lit = w.lit /\ v.room = w.room /\ Alike(w.at, v.at, o)
    BY <1>2, <1>6, <1>7 DEF Untouched
<1>14. \A x : Shining(v, x) = Shining(w, x)
    BY <1>1, <1>12, <1>13, ShineOn
<1> QED
    BY <1>2, <1>6, <1>7, <1>11, <1>14

(***************************************************************************)
(* What is worn is taken off.                                              *)
(***************************************************************************)

\* A player wields what it has the strength for.
Armed(w, c) == \A o \in get_eq_char(w, c, "wield") : CanWield(w, c, o)

AllArmed(w) == \A c \in Players : Armed(w, c)

\* Who wields no more than before, and has the same girdle on, is as strong.
LEMMA GripKept ==
    ASSUME NEW w, NEW v, NEW c, Armed(w, c),
           \A x \in Things : v.at[x] = c /\ v.worn[x] = "wield" => w.at[x] = c /\ w.worn[x] = "wield",
           \A x \in Girdles : w.at[x] = c /\ w.worn[x] = "waist" => v.at[x] = c /\ v.worn[x] = "waist",
           c \in v.weak => c \in w.weak
    PROVE  Armed(v, c)
    BY DEF Armed, CanWield, get_eq_char, Carrying

\* The lights that shine in a room can be counted.
LEMMA ShiningFinite ==
    ASSUME NEW w \in Kinds, NEW r
    PROVE  IsFiniteSet(Shining(w, r)) /\ Cardinality(Shining(w, r)) \in Nat
<1>1. Shining(w, r) \subseteq Things
    BY Sorts DEF Shining, Kinds
<1>2. IsFiniteSet(Shining(w, r))
    BY <1>1, ThingsFinite, FS_Subset
<1> QED
    BY <1>2, FS_CardinalityType

Bare(w, o) == [w EXCEPT !.worn[o] = NotWorn]

\* The two writes of unequip_char.
LEMMA Bared ==
    ASSUME NEW w \in Kinds, NEW o \in Things, NEW u, u = Bare(w, o)
    PROVE  /\ u \in Kinds /\ Untouched(w, u) /\ u.at = w.at
           /\ u.worn = [w.worn EXCEPT ![o] = NotWorn]
           /\ u.number = w.number /\ u.weight = w.weight /\ u.light = w.light
<1>1. [w.worn EXCEPT ![o] = NotWorn] \in [Things -> Slots \cup {NotWorn}]
    BY DEF Kinds
<1>2. u = [w EXCEPT !.worn = [w.worn EXCEPT ![o] = NotWorn]]
    BY DEF Bare
<1>3. u \in Kinds
    BY <1>1, <1>2 DEF Kinds
<1> QED
    BY <1>2, <1>3 DEF Kinds, Untouched

\* What the room's light loses: as many as went out, and nothing where it had none.
LEMMA Darkened ==
    ASSUME NEW w \in Kinds, NEW r, NEW n \in Nat, NEW v, v = LightsGoOut(w, r, n)
    PROVE  /\ v \in Kinds /\ Untouched(w, v) /\ v.at = w.at /\ v.worn = w.worn
           /\ v.number = w.number /\ v.weight = w.weight
           /\ n = 0 => v.light = w.light
           /\ \A x \in Rooms : v.light[x] =
                 IF x = r /\ n > 0 /\ w.light[x] > 0 THEN w.light[x] - n ELSE w.light[x]
<1>0. Nowhere \notin Rooms
    BY Sorts
<1>1. CASE r \in Rooms /\ n > 0 /\ w.light[r] > 0
    <2>1. [w.light EXCEPT ![r] = @ - n] \in [Rooms -> Int]
        BY <1>1 DEF Kinds
    <2>2. v = [w EXCEPT !.light = [w.light EXCEPT ![r] = @ - n]]
        BY <1>0, <1>1 DEF LightsGoOut
    <2>3. v \in Kinds
        BY <2>1, <2>2 DEF Kinds
    <2>4. v.light = [w.light EXCEPT ![r] = @ - n]
        BY <2>2, <2>3 DEF Kinds
    <2>5. \A x \in Rooms : v.light[x] =
              IF x = r /\ n > 0 /\ w.light[x] > 0 THEN w.light[x] - n ELSE w.light[x]
        BY <1>1, <2>4 DEF Kinds
    <2>6. v.at = w.at /\ v.worn = w.worn /\ v.number = w.number /\ v.weight = w.weight
        BY <2>2 DEF Kinds
    <2>7. Untouched(w, v)
        BY <2>2 DEF Kinds, Untouched
    <2> QED
        BY <1>1, <2>3, <2>5, <2>6, <2>7
<1>2. CASE ~(r \in Rooms /\ n > 0 /\ w.light[r] > 0)
    <2>1. r \in Rooms => v = w
        BY <1>2 DEF LightsGoOut
    <2>2. r \notin Rooms => [w EXCEPT !.light[r] = @ - n] = w
        BY DEF Kinds
    <2>3. v = w
        BY <2>1, <2>2 DEF LightsGoOut
    <2> QED
        BY <1>2, <2>3 DEF Untouched
<1> QED
    BY <1>1, <1>2

\* What is taken off no longer shines, and the room knows.
LEMMA TakenOffIs ==
    ASSUME NEW w, Sound(w), NEW o \in Things, w.at[o] \in Chars, w.worn[o] # NotWorn,
           NEW v, v = TakenOff(w, o)
    PROVE  /\ Sound(v) /\ Untouched(w, v)
           /\ v.at = w.at /\ v.worn = [w.worn EXCEPT ![o] = NotWorn]
           /\ v.number = w.number /\ v.weight = w.weight
           /\ Lighted(w) => Lighted(v)
           /\ w.worn[o] # "light" => v.light = w.light /\ (\A x : Shining(v, x) = Shining(w, x))
<1> DEFINE u == Bare(w, o)
           r == w.room[w.at[o]]
           n == IF IsLight(w, o, w.worn[o]) THEN 1 ELSE 0
<1>1. w \in Kinds /\ r \in Rooms /\ n \in Nat
    BY DEF Sound, Present, Kinds
<1>2. /\ u \in Kinds /\ Untouched(w, u) /\ u.at = w.at
      /\ u.worn = [w.worn EXCEPT ![o] = NotWorn]
      /\ u.number = w.number /\ u.weight = w.weight /\ u.light = w.light
    BY <1>1, Bared
<1>3. v = LightsGoOut(u, r, n)
    BY DEF TakenOff, Bare
<1> HIDE DEF u
<1>4. /\ v \in Kinds /\ Untouched(u, v) /\ v.at = u.at /\ v.worn = u.worn
      /\ v.number = u.number /\ v.weight = u.weight
      /\ n = 0 => v.light = u.light
      /\ \A x \in Rooms : v.light[x] =
            IF x = r /\ n > 0 /\ u.light[x] > 0 THEN u.light[x] - n ELSE u.light[x]
    BY <1>1, <1>2, <1>3, Darkened
<1>5. Untouched(w, v) /\ v.at = w.at /\ v.worn = [w.worn EXCEPT ![o] = NotWorn]
         /\ v.number = w.number /\ v.weight = w.weight
    BY <1>2, <1>4 DEF Untouched
<1>6. v.worn[o] = NotWorn /\ Alike(w.worn, v.worn, o) /\ Alike(w.at, v.at, o)
    BY <1>1, <1>5 DEF Kinds, Alike
<1>7. Sound(v)
    <2>1. Placed(v) /\ Forest(v.at) /\ Present(v) /\ Counted(v)
        BY <1>5 DEF Sound, Placed, Present, Counted, Untouched
    <2>2. Dressed(v)
        BY <1>5, <1>6 DEF Sound, Dressed, Alike
    <2> QED
        BY <1>4, <2>1, <2>2 DEF Sound
<1>a. v.lit = w.lit /\ v.room = w.room /\ w.lit \subseteq Things
    BY <1>1, <1>5, Sorts DEF Untouched, Kinds
<1>b. \A x : Shining(v, x) = Shining(w, x) \ {o}
    BY <1>5, <1>6, <1>a DEF Shining, NotWorn, Alike
<1>8. ASSUME n = 0
      PROVE  v.light = w.light /\ (\A x : Shining(v, x) = Shining(w, x))
    <2>1. ~(o \in w.lit /\ w.worn[o] = "light")
        BY <1>8 DEF IsLight
    <2>2. \A x : Shining(v, x) = Shining(w, x)
        BY <1>b, <2>1 DEF Shining
    <2> QED
        BY <1>2, <1>4, <1>8, <2>2
<1>9. ASSUME Lighted(w), n = 1, NEW x \in Rooms
      PROVE  v.light[x] = Cardinality(Shining(v, x))
    <2>1. o \in w.lit /\ w.worn[o] = "light" /\ o \in Shining(w, r)
        BY <1>9 DEF IsLight, Shining
    <2>2. w.light[x] = Cardinality(Shining(w, x)) /\ w.light[x] \in Nat /\ IsFiniteSet(Shining(w, x))
        BY <1>1, <1>9, ShiningFinite DEF Lighted
    <2>3. CASE x = r
        <3>1. Shining(v, x) = Shining(w, x) \ {o}
            BY <1>b
        <3>2. Cardinality(Shining(v, x)) = Cardinality(Shining(w, x)) - 1
            BY <2>1, <2>2, <2>3, <3>1, FS_RemoveElement
        <3>3. w.light[x] # 0
            BY <2>1, <2>2, <2>3, FS_EmptySet
        <3>4. v.light[x] = w.light[x] - 1
            BY <1>2, <1>4, <1>9, <2>2, <2>3, <3>3
        <3> QED
            BY <2>2, <3>2, <3>4
    <2>4. CASE x # r
        <3>1. Shining(v, x) = Shining(w, x)
            BY <1>b, <2>1, <2>4 DEF Shining
        <3>2. v.light[x] = w.light[x]
            BY <1>2, <1>4, <2>4
        <3> QED
            BY <2>2, <3>1, <3>2
    <2> QED
        BY <2>3, <2>4
<1>10. n = 0 \/ n = 1
    OBVIOUS
<1>11. Lighted(w) => Lighted(v)
    BY <1>8, <1>9, <1>10 DEF Lighted
<1>12. w.worn[o] # "light" => n = 0
    BY DEF IsLight
<1> QED
    BY <1>5, <1>7, <1>8, <1>11, <1>12

\* What is taken from somebody, worn or not, is Lost, and who held it has it no more on the books.
LEMMA LetGoIs ==
    ASSUME NEW w, Sound(w), NEW o \in Things, w.at[o] \in Chars,
           NEW v, v = LetGo(w, o)
    PROVE  /\ Sound(v) /\ Untouched(w, v)
           /\ v.at = [w.at EXCEPT ![o] = Lost] /\ v.worn = [w.worn EXCEPT ![o] = NotWorn]
           /\ Lighted(w) => Lighted(v)
           /\ w.worn[o] # "light" => v.light = w.light /\ (\A x : Shining(v, x) = Shining(w, x))
<1> DEFINE c == w.at[o]
           off == IF w.worn[o] = NotWorn THEN w ELSE TakenOff(w, o)
           u == Moved(off, o, Lost)
           n == get_obj_number(w, o)
           kg == get_obj_weight(w, o)
<1>1. w \in Kinds /\ Placed(w) /\ Lost \in Spots /\ Lost \notin Chars /\ c \in Chars
    BY Sorts DEF Sound, Spots, Bodies
<1>2. /\ Sound(off) /\ Untouched(w, off)
      /\ off.at = w.at /\ off.worn = [w.worn EXCEPT ![o] = NotWorn] /\ off.worn[o] = NotWorn
      /\ off.number = w.number /\ off.weight = w.weight
      /\ Lighted(w) => Lighted(off)
      /\ w.worn[o] # "light" => off.light = w.light /\ (\A x : Shining(off, x) = Shining(w, x))
    <2>1. CASE w.worn[o] = NotWorn
        <3>1. off = w /\ w.worn = [w.worn EXCEPT ![o] = NotWorn]
            BY <1>1, <2>1 DEF Kinds
        <3> HIDE DEF off
        <3> QED
            BY <2>1, <3>1 DEF Untouched
    <2>2. CASE w.worn[o] # NotWorn
        <3>1. off = TakenOff(w, o)
            BY <2>2
        <3> HIDE DEF off
        <3> QED
            BY <1>1, <2>2, <3>1, TakenOffIs DEF Kinds
    <2> QED
        BY <2>1, <2>2
<1>3. n = Number(Below(w.at, o)) /\ kg = Weight(Below(w.at, o)) /\ n \in Int /\ kg \in Int
    BY <1>1, ThingCounts, CountsAre
<1>4. v = Charge(u, {c}, -n, -kg)
    BY DEF LetGo, Moved
<1> HIDE DEF off
<1>5. off \in Kinds
    BY <1>2 DEF Sound
<1>6. /\ u \in Kinds /\ Untouched(off, u) /\ u.at = [off.at EXCEPT ![o] = Lost] /\ u.worn = off.worn
      /\ u.number = off.number /\ u.weight = off.weight /\ u.light = off.light
      /\ Alike(off.at, u.at, o) /\ u.at[o] = Lost
    BY <1>1, <1>5, MovedAre
<1> HIDE DEF u, n, kg
<1>7. /\ v \in Kinds /\ Untouched(u, v) /\ v.at = u.at /\ v.worn = u.worn /\ v.light = u.light
      /\ \A d \in Chars : /\ v.number[d] = IF d \in {c} THEN u.number[d] + (-n) ELSE u.number[d]
                          /\ v.weight[d] = IF d \in {c} THEN u.weight[d] + (-kg) ELSE u.weight[d]
    BY <1>3, <1>4, <1>6, Charged
<1>8. Untouched(off, v) /\ Untouched(w, v) /\ v.room = off.room
    BY <1>2, <1>6, <1>7 DEF Untouched
<1>9. \A d \in Chars : off.number[d] \in Int /\ off.weight[d] \in Int
    BY <1>5 DEF Kinds
<1>10. Bearers(off.at, c) = {c}
    BY <1>1, BearersOf
<1>11. off.worn = [off.worn EXCEPT ![o] = NotWorn]
    BY <1>2, <1>5 DEF Kinds
<1>12. Taken_(off, v, o)
    BY <1>2, <1>3, <1>6, <1>7, <1>8, <1>9, <1>10, <1>11 DEF Taken_
<1>13. Sound(v)
    BY <1>2, <1>7, <1>12, TakenSound
<1>14. /\ v.lit = off.lit /\ v.room = off.room /\ v.light = off.light
       /\ Alike(off.at, v.at, o) /\ Alike(off.worn, v.worn, o)
       /\ off.worn[o] # "light" /\ v.worn[o] # "light"
    <2>1. v.lit = off.lit /\ v.room = off.room /\ v.light = off.light
        BY <1>6, <1>7, <1>8 DEF Untouched
    <2>2. Alike(off.at, v.at, o) /\ Alike(off.worn, v.worn, o)
        BY <1>6, <1>7 DEF Alike
    <2> QED
        BY <1>2, <1>6, <1>7, <2>1, <2>2 DEF NotWorn
<1>15. (\A x : Shining(v, x) = Shining(off, x)) /\ (Lighted(off) => Lighted(v))
    BY <1>5, <1>14, ShineOn
<1>16. v.at = [w.at EXCEPT ![o] = Lost] /\ v.worn = [w.worn EXCEPT ![o] = NotWorn]
    BY <1>2, <1>6, <1>7
<1>17. w.worn[o] # "light" => v.light = w.light /\ (\A x : Shining(v, x) = Shining(w, x))
    BY <1>2, <1>14, <1>15
<1> QED
    BY <1>2, <1>8, <1>13, <1>15, <1>16, <1>17

\* x falls from the hand of who has become too weak to wield it.
Falls(w, v, x) ==
    /\ w.at[x] \in Players /\ w.worn[x] = "wield"
    /\ v.at[x] = w.room[w.at[x]] /\ v.worn[x] = NotWorn

\* All but o stay where they are, unless they fall.
Bides(w, v, o) ==
    \A x \in Things : x # o => Falls(w, v, x) \/ (v.at[x] = w.at[x] /\ v.worn[x] = w.worn[x])

\* affect_modify: who has become too weak lets the weapon fall, into the room, and is as
\* strong as it must be for what it still wields.
LEMMA AffectModifyIs ==
    ASSUME NEW w, Sound(w), NEW c \in Chars, NEW v, v = AffectModify(w, c)
    PROVE  /\ Sound(v) /\ Untouched(w, v) /\ v.light = w.light
           /\ \A x : Shining(v, x) = Shining(w, x)
           /\ \A x \in Things : (Falls(w, v, x) /\ w.at[x] = c) \/ (v.at[x] = w.at[x] /\ v.worn[x] = w.worn[x])
           /\ c \in Players => Armed(v, c)
<1>1. w \in Kinds
    BY DEF Sound
<1>2. CASE ~(c \in Players /\ \E o \in get_eq_char(w, c, "wield") : ~CanWield(w, c, o))
    <2>1. v = w
        BY <1>2 DEF AffectModify
    <2> QED
        BY <1>2, <2>1 DEF Untouched, Armed
<1>3. CASE c \in Players /\ \E o \in get_eq_char(w, c, "wield") : ~CanWield(w, c, o)
    <2> DEFINE o == CHOOSE o \in get_eq_char(w, c, "wield") : TRUE
               u == LetGo(w, o)
    <2>1. o \in get_eq_char(w, c, "wield")
        BY <1>3
    <2>2. v = obj_to_room(u, o, w.room[c])
        BY <1>3 DEF AffectModify
    <2> HIDE DEF o
    <2>3. o \in Things /\ w.at[o] = c /\ w.worn[o] = "wield" /\ "wield" # "light" /\ "wield" # NotWorn
        BY <2>1 DEF get_eq_char, Carrying, NotWorn
    <2>4. /\ Sound(u) /\ Untouched(w, u)
          /\ u.at = [w.at EXCEPT ![o] = Lost] /\ u.worn = [w.worn EXCEPT ![o] = NotWorn]
          /\ u.light = w.light /\ (\A x : Shining(u, x) = Shining(w, x))
        BY <2>3, LetGoIs
    <2> HIDE DEF u
    <2>5. w.room[c] \in Rooms /\ u.at[o] \notin Bodies
        BY <1>1, <2>3, <2>4, Sorts DEF Sound, Present, Kinds, Places
    <2>6. /\ Sound(v) /\ Untouched(u, v)
          /\ v.at = [u.at EXCEPT ![o] = w.room[c]] /\ v.worn = u.worn
          /\ v.light = u.light /\ (\A x : Shining(v, x) = Shining(u, x))
        <3>1. Sound(u) /\ o \in Things
            BY <2>3, <2>4
        <3> QED
            BY <2>2, <2>5, <3>1, ToRoom
    <2>7. Untouched(w, v) /\ v.light = w.light /\ (\A x : Shining(v, x) = Shining(w, x))
        BY <2>4, <2>6 DEF Untouched
    <2>8. /\ v.at[o] = w.room[c] /\ v.worn[o] = NotWorn
          /\ \A x \in Things : x # o => v.at[x] = w.at[x] /\ v.worn[x] = w.worn[x]
        BY <1>1, <2>3, <2>4, <2>6 DEF Kinds, Places
    <2>9. \A x \in Things : (Falls(w, v, x) /\ w.at[x] = c) \/ (v.at[x] = w.at[x] /\ v.worn[x] = w.worn[x])
        BY <1>3, <2>3, <2>8 DEF Falls
    <2>10. Armed(v, c)
        <3> SUFFICES ASSUME NEW x \in get_eq_char(v, c, "wield")
                     PROVE  FALSE
            BY DEF Armed
        <3>1. x \in Things /\ v.at[x] = c /\ v.worn[x] = "wield"
            BY DEF get_eq_char, Carrying
        <3>2. x # o
            BY <2>3, <2>8, <3>1
        <3>3. w.at[x] = c /\ w.worn[x] = "wield"
            BY <2>8, <3>1, <3>2
        <3> QED
            BY <2>3, <3>1, <3>2, <3>3 DEF Sound, Dressed
    <2> QED
        BY <2>6, <2>7, <2>9, <2>10
<1> QED
    BY <1>2, <1>3

\* Whoever else is as strong as before.
LEMMA OthersArmed ==
    ASSUME NEW w, NEW v, NEW c, NEW d, d # c, Armed(w, d), Untouched(w, v),
           Nowhere \notin {d}, d \notin Rooms,
           \A x \in Things : (Falls(w, v, x) /\ w.at[x] = c) \/ (v.at[x] = w.at[x] /\ v.worn[x] = w.worn[x])
    PROVE  Armed(v, d)
<1>1. \A x \in Things : v.at[x] = d /\ v.worn[x] = "wield" => w.at[x] = d /\ w.worn[x] = "wield"
    BY DEF Falls, NotWorn
<1>2. \A x \in Girdles : w.at[x] = d /\ w.worn[x] = "waist" => v.at[x] = d /\ v.worn[x] = "waist"
    BY Sorts
<1>3. d \in v.weak => d \in w.weak
    BY DEF Untouched
<1> QED
    BY <1>1, <1>2, <1>3, GripKept

\* unequip_char: the thing is in the inventory, everything else stays or falls.
LEMMA UnequipIs ==
    ASSUME NEW w, Sound(w), NEW c \in Chars, NEW o \in Things, w.at[o] = c, w.worn[o] # NotWorn,
           NEW v, v = unequip_char(w, c, o)
    PROVE  /\ Sound(v) /\ Untouched(w, v) /\ (Lighted(w) => Lighted(v))
           /\ v.at[o] = c /\ v.worn[o] = NotWorn /\ Bides(w, v, o)
           /\ AllArmed(w) => AllArmed(v)
<1> DEFINE u == TakenOff(w, o)
<1>1. /\ Sound(u) /\ Untouched(w, u) /\ u.at = w.at /\ u.worn = [w.worn EXCEPT ![o] = NotWorn]
      /\ Lighted(w) => Lighted(u)
    BY TakenOffIs
<1>2. v = IF o \in Girdles THEN AffectModify(u, c) ELSE u
    BY DEF unequip_char
<1> HIDE DEF u
<1>3. w \in Kinds
    BY DEF Sound
<1>4. u.worn[o] = NotWorn /\ u.at[o] = c /\ \A x \in Things : x # o => u.worn[x] = w.worn[x] /\ u.at[x] = w.at[x]
    BY <1>1, <1>3 DEF Kinds
<1>5. ASSUME NEW d \in Players, Armed(w, d), d # c \/ o \notin Girdles
      PROVE  Armed(u, d)
    <2>1. \A x \in Things : u.at[x] = d /\ u.worn[x] = "wield" => w.at[x] = d /\ w.worn[x] = "wield"
        BY <1>4 DEF NotWorn
    <2>2. \A x \in Girdles : w.at[x] = d /\ w.worn[x] = "waist" => u.at[x] = d /\ u.worn[x] = "waist"
        BY <1>4, <1>5, Sorts
    <2>3. d \in u.weak => d \in w.weak
        BY <1>1 DEF Untouched
    <2> QED
        BY <1>5, <2>1, <2>2, <2>3, GripKept
<1>6. CASE o \notin Girdles
    BY <1>1, <1>2, <1>4, <1>5, <1>6 DEF Bides, AllArmed
<1>7. CASE o \in Girdles
    <2>1. /\ Sound(v) /\ Untouched(u, v) /\ v.light = u.light
          /\ \A x : Shining(v, x) = Shining(u, x)
          /\ \A x \in Things : (Falls(u, v, x) /\ u.at[x] = c) \/ (v.at[x] = u.at[x] /\ v.worn[x] = u.worn[x])
          /\ c \in Players => Armed(v, c)
        <3>1. v = AffectModify(u, c) /\ Sound(u)
            BY <1>1, <1>2, <1>7
        <3> QED
            BY <3>1, AffectModifyIs
    <2>2. Untouched(w, v) /\ (Lighted(w) => Lighted(v))
        BY <1>1, <2>1 DEF Untouched, Lighted
    <2>3. v.at[o] = c /\ v.worn[o] = NotWorn
        BY <1>4, <2>1 DEF Falls, NotWorn
    <2>4. Bides(w, v, o)
        BY <1>1, <1>4, <2>1 DEF Bides, Falls, Untouched
    <2>5. ASSUME AllArmed(w), NEW d \in Players
          PROVE  Armed(v, d)
        <3>1. CASE d = c
            BY <2>1, <3>1
        <3>2. CASE d # c
            <4>1. Armed(u, d)
                BY <1>5, <2>5, <3>2 DEF AllArmed
            <4>2. Nowhere \notin {d} /\ d \notin Rooms
                BY Sorts DEF Bodies
            <4>3. \A x \in Things : (Falls(u, v, x) /\ u.at[x] = c) \/ (v.at[x] = u.at[x] /\ v.worn[x] = u.worn[x])
                BY <2>1
            <4>4. Untouched(u, v)
                BY <2>1
            <4> QED
                BY ONLY <3>2, <4>1, <4>2, <4>3, <4>4, OthersArmed
        <3> QED
            BY <3>1, <3>2
    <2> QED
        BY <2>1, <2>2, <2>3, <2>4, <2>5 DEF AllArmed
<1> QED
    BY <1>6, <1>7

\* obj_from_char: the thing is Lost, everything else stays or falls.
LEMMA FromHands ==
    ASSUME NEW w, Sound(w), NEW o \in Things, w.at[o] \in Chars,
           NEW v, v = obj_from_char(w, o)
    PROVE  /\ Sound(v) /\ Untouched(w, v) /\ (Lighted(w) => Lighted(v))
           /\ v.at[o] = Lost /\ v.worn[o] = NotWorn /\ Bides(w, v, o)
           /\ AllArmed(w) => AllArmed(v)
<1> DEFINE u == IF w.worn[o] = NotWorn THEN w ELSE unequip_char(w, w.at[o], o)
<1>1. /\ Sound(u) /\ Untouched(w, u) /\ (Lighted(w) => Lighted(u))
      /\ u.at[o] = w.at[o] /\ u.worn[o] = NotWorn /\ Bides(w, u, o)
      /\ AllArmed(w) => AllArmed(u)
    <2>1. CASE w.worn[o] = NotWorn
        <3>1. u = w
            BY <2>1
        <3> HIDE DEF u
        <3> QED
            BY <2>1, <3>1 DEF Untouched, Bides
    <2>2. CASE w.worn[o] # NotWorn
        <3>1. u = unequip_char(w, w.at[o], o)
            BY <2>2
        <3> HIDE DEF u
        <3> QED
            BY <2>2, <3>1, UnequipIs
    <2> QED
        BY <2>1, <2>2
<1>2. v = LetGo(u, o)
    BY DEF obj_from_char
<1> HIDE DEF u
<1>3. /\ Sound(v) /\ Untouched(u, v)
      /\ v.at = [u.at EXCEPT ![o] = Lost] /\ v.worn = [u.worn EXCEPT ![o] = NotWorn]
      /\ Lighted(u) => Lighted(v)
    <2>1. Sound(u) /\ o \in Things /\ u.at[o] \in Chars /\ v = LetGo(u, o)
        BY <1>1, <1>2
    <2> QED
        BY ONLY <2>1, LetGoIs
<1>4. u \in Kinds
    BY <1>1 DEF Sound
<1>5. /\ v.at[o] = Lost /\ v.worn[o] = NotWorn
      /\ \A x \in Things : x # o => v.at[x] = u.at[x] /\ v.worn[x] = u.worn[x]
    BY <1>3, <1>4 DEF Kinds, Places
<1>6. Untouched(w, v) /\ Bides(w, v, o)
    BY <1>1, <1>3, <1>5 DEF Untouched, Bides, Falls
<1>7. ASSUME NEW d \in Players, Armed(u, d)
      PROVE  Armed(v, d)
    <2>1. \A x \in Things : v.at[x] = d /\ v.worn[x] = "wield" => u.at[x] = d /\ u.worn[x] = "wield"
        BY <1>5 DEF NotWorn
    <2>2. \A x \in Girdles : u.at[x] = d /\ u.worn[x] = "waist" => v.at[x] = d /\ v.worn[x] = "waist"
        BY <1>1, <1>5, Sorts DEF NotWorn
    <2>3. d \in v.weak => d \in u.weak
        BY <1>3 DEF Untouched
    <2> QED
        BY <1>7, <2>1, <2>2, <2>3, GripKept
<1> QED
    BY <1>1, <1>3, <1>5, <1>6, <1>7 DEF AllArmed

\* The first half of extract_obj: from wherever it is.
LEMMA RemovedIs ==
    ASSUME NEW w, Sound(w), NEW o \in Things, NEW v, v = Removed(w, o)
    PROVE  /\ Sound(v) /\ Untouched(w, v) /\ (Lighted(w) => Lighted(v))
           /\ v.at[o] \notin Bodies /\ v.worn[o] = NotWorn /\ Bides(w, v, o)
           /\ AllArmed(w) => AllArmed(v)
<1>1. w \in Kinds /\ w.at[o] \in Spots /\ Lost \notin Bodies
    BY Sorts DEF Sound, Kinds, Places, Spots
<1>a. ASSUME NEW d \in Players, Armed(w, d), v.worn = w.worn, v.at = [w.at EXCEPT ![o] = Lost],
             w.worn[o] = NotWorn, Untouched(w, v)
      PROVE  Armed(v, d)
    <2>0. \A x \in Things : x # o => v.at[x] = w.at[x]
        BY <1>1, <1>a DEF Kinds, Places
    <2>1. \A x \in Things : v.at[x] = d /\ v.worn[x] = "wield" => w.at[x] = d /\ w.worn[x] = "wield"
        BY <1>a, <2>0 DEF NotWorn
    <2>2. \A x \in Girdles : w.at[x] = d /\ w.worn[x] = "waist" => v.at[x] = d /\ v.worn[x] = "waist"
        BY <1>a, <2>0, Sorts DEF NotWorn
    <2>3. d \in v.weak => d \in w.weak
        BY <1>a DEF Untouched
    <2>4. Armed(w, d)
        BY <1>a
    <2> QED
        BY <2>1, <2>2, <2>3, <2>4, GripKept
<1>2. CASE w.at[o] \in Rooms
    <2>1. v = obj_from_room(w, o) /\ w.at[o] \notin Bodies
        BY <1>2, Sorts DEF Removed, Bodies
    <2>2. /\ Sound(v) /\ Untouched(w, v)
          /\ v.at = [w.at EXCEPT ![o] = Lost] /\ v.worn = w.worn
          /\ v.light = w.light /\ (\A x : Shining(v, x) = Shining(w, x))
        BY <2>1, FromRoom
    <2>3. v.at[o] = Lost /\ w.worn[o] = NotWorn /\ Bides(w, v, o)
        BY <1>1, <2>1, <2>2 DEF Kinds, Places, Bides, Sound, Dressed, Bodies
    <2> QED
        BY <1>1, <1>a, <2>2, <2>3 DEF Lighted, AllArmed
<1>3. CASE w.at[o] \in Chars
    <2>1. v = obj_from_char(w, o)
        BY <1>3, Sorts DEF Removed
    <2> QED
        BY <1>1, <1>3, <2>1, FromHands
<1>4. CASE w.at[o] \in Things
    <2>1. v = obj_from_obj(w, o) /\ w.at[o] \notin Chars
        BY <1>4, Sorts DEF Removed
    <2>2. /\ Sound(v) /\ Untouched(w, v)
          /\ v.at = [w.at EXCEPT ![o] = Lost] /\ v.worn = w.worn
          /\ v.light = w.light /\ (\A x : Shining(v, x) = Shining(w, x))
        BY <1>4, <2>1, FromVessel
    <2>3. v.at[o] = Lost /\ w.worn[o] = NotWorn /\ Bides(w, v, o)
        BY <1>1, <2>1, <2>2 DEF Kinds, Places, Bides, Sound, Dressed
    <2> QED
        BY <1>1, <1>a, <2>2, <2>3 DEF Lighted, AllArmed
<1>5. CASE w.at[o] \notin Rooms \cup Chars \cup Things
    <2>1. v = w
        BY <1>5 DEF Removed
    <2> QED
        BY <1>5, <2>1 DEF Untouched, Bides, Sound, Dressed, Bodies
<1> QED
    BY <1>2, <1>3, <1>4, <1>5

\* What falls from somebody's hand neither was nor is in any container.
LEMMA BidesBelow ==
    ASSUME NEW w, NEW v, NEW o \in Things, Bides(w, v, o), w \in Kinds
    PROVE  Below(v.at, o) = Below(w.at, o)
<1>1. o \in Bodies /\ Below(w.at, o) \subseteq Things /\ Below(v.at, o) \subseteq Things
    BY BelowCases DEF Bodies
<1>2. \A x \in Things : x # o /\ Falls(w, v, x) => w.at[x] \notin Things /\ v.at[x] \notin Things
    BY Sorts DEF Falls, Kinds, Bodies
<1>3. Below(v.at, o) \subseteq Below(w.at, o)
    BY <1>1, <1>2, BelowEased DEF Bides
<1>4. Below(w.at, o) \subseteq Below(v.at, o)
    BY <1>1, <1>2, BelowEased DEF Bides
<1> QED
    BY <1>3, <1>4

\* What is extracted, with all that is in it.
Extracted_(w, v, o) ==
    LET gone == Below(w.at, o)
    IN  /\ v.gold = w.gold /\ v.weak = w.weak /\ v.room = w.room
        /\ v.coins = [m \in Money |-> IF m \in gone THEN 0 ELSE w.coins[m]]
        /\ v.rots = w.rots \ gone
        /\ v.lit = w.lit \cup (gone \cap Lights)
        /\ v.owner = [k \in Corpses |-> IF k \in gone THEN Nowhere ELSE w.owner[k]]
        /\ \A x \in Things :
              \/ x \in gone /\ v.at[x] = Nowhere
              \/ x \notin gone /\ Falls(w, v, x)
              \/ x \notin gone /\ v.at[x] = w.at[x] /\ v.worn[x] = w.worn[x]

\* extract_obj keeps the books, and takes with it what lies in the thing.
LEMMA ExtractIs ==
    ASSUME NEW w, Sound(w), Lighted(w), NEW o \in Things, NEW v, v = extract_obj(w, o)
    PROVE  /\ Sound(v) /\ Lighted(v) /\ (AllArmed(w) => AllArmed(v))
           /\ Extracted_(w, v, o)
<1> DEFINE out == Removed(w, o)
           gone == Below(w.at, o)
<1>1. /\ Sound(out) /\ Untouched(w, out) /\ Lighted(out)
      /\ out.at[o] \notin Bodies /\ out.worn[o] = NotWorn /\ Bides(w, out, o)
      /\ AllArmed(w) => AllArmed(out)
    BY RemovedIs
<1>2. w \in Kinds /\ out \in Kinds /\ Placed(w) /\ o \in Bodies /\ gone \subseteq Things /\ o \in gone
    BY <1>1, BelowCases, BelowLeast DEF Sound, Bodies
<1>3. gone = Below(out.at, o)
    BY <1>1, <1>2, BidesBelow
<1> DEFINE at2 == [x \in Things |-> IF x \in gone THEN Nowhere ELSE out.at[x]]
           coins2 == [m \in Money |-> IF m \in gone THEN 0 ELSE out.coins[m]]
           owner2 == [k \in Corpses |-> IF k \in gone THEN Nowhere ELSE out.owner[k]]
           whose2 == [k \in Corpses |-> IF k \in gone THEN Nowhere ELSE out.whose[k]]
           rots2 == out.rots \ gone
           lit2 == out.lit \cup (gone \cap Lights)
<1>4. v = [out EXCEPT !.at = at2, !.rots = rots2, !.lit = lit2, !.coins = coins2,
                      !.owner = owner2, !.whose = whose2]
    <2>1. Inside(w, o) = gone
        BY <1>2, InsideIsBelow
    <2> QED
        BY <1>2, <2>1 DEF extract_obj, Kinds
<1>5. /\ at2 \in Places /\ coins2 \in [Money -> Int] /\ owner2 \in [Corpses -> Players \cup {Nowhere}]
      /\ whose2 \in [Corpses -> Players \cup {Nowhere}]
      /\ rots2 \subseteq Things /\ lit2 \subseteq Lights
    BY <1>2 DEF Kinds, Places
<1> HIDE DEF out, gone
<1>6. \A x \in Things : at2[x] = IF x \in gone THEN Nowhere ELSE out.at[x]
    OBVIOUS
<1>7. /\ v \in Kinds /\ v.at = at2 /\ v.worn = out.worn /\ v.number = out.number /\ v.weight = out.weight
      /\ v.gold = out.gold /\ v.coins = coins2 /\ v.rots = rots2 /\ v.lit = lit2 /\ v.owner = owner2
      /\ v.weak = out.weak /\ v.room = out.room /\ v.light = out.light
    <2> HIDE DEF at2, coins2, owner2, whose2, rots2, lit2
    <2>1. /\ v.at = at2 /\ v.worn = out.worn /\ v.number = out.number /\ v.weight = out.weight
          /\ v.gold = out.gold /\ v.coins = coins2 /\ v.rots = rots2 /\ v.lit = lit2 /\ v.owner = owner2
        BY ONLY <1>2, <1>4 DEF Kinds
    <2>2. v.weak = out.weak /\ v.room = out.room /\ v.light = out.light
        BY ONLY <1>2, <1>4 DEF Kinds
    <2>3. v \in Kinds
        BY ONLY <1>2, <1>4, <1>5 DEF Kinds
    <2> QED
        BY <2>1, <2>2, <2>3
<1>a. Nowhere \notin Bodies /\ Nowhere \notin Things /\ Nowhere \notin Chars
    BY Sorts DEF Bodies
<1>8. \A x \in Things : v.at[x] = IF x \in gone THEN Nowhere ELSE out.at[x]
    BY <1>6, <1>7
<1>b. \A x \in Things : v.at[x] \in Bodies => x \notin gone /\ v.at[x] = out.at[x]
    BY <1>8, <1>a
<1>c. \A x \in Things : out.at[x] \in gone => x \in gone
    BY <1>2, <1>3, BelowLeast DEF Shut
<1>d. \A x \in Things : out.at[x] \in Chars => x \notin gone
    <2> SUFFICES ASSUME NEW x \in Things, out.at[x] \in Chars, x \in gone
                 PROVE  FALSE
        OBVIOUS
    <2>1. x = o \/ out.at[x] \in gone
        BY <1>2, <1>3, BelowCases
    <2> QED
        BY <1>1, <1>2, <2>1, Sorts DEF Bodies
<1> HIDE DEF at2
<1>9. Placed(v)
    BY <1>1, <1>5, <1>7, <1>b DEF Sound, Placed, Bodies
<1>10. \A p \in Bodies : Below(v.at, p) \subseteq Below(out.at, p)
    <2> SUFFICES ASSUME NEW p \in Bodies
                 PROVE  Below(v.at, p) \subseteq Below(out.at, p)
        OBVIOUS
    <2>1. \A x \in Things : v.at[x] \in Below(out.at, p) => out.at[x] \in Below(out.at, p)
        BY <1>b DEF Below
    <2> QED
        BY <2>1, BelowEased
<1>11. Forest(v.at)
    <2> SUFFICES ASSUME NEW x \in Things, v.at[x] \in Below(v.at, x)
                 PROVE  FALSE
        BY DEF Forest
    <2>1. x \in Bodies /\ v.at[x] \in Bodies /\ v.at[x] \in Below(out.at, x)
        BY <1>10 DEF Bodies, Below
    <2> QED
        BY <1>1, <1>b, <2>1 DEF Sound, Forest
<1>12. Present(v)
    <2> SUFFICES ASSUME NEW x \in Things, v.at[x] \in Bodies
                 PROVE  /\ v.at[x] \in Things => v.at[v.at[x]] # Nowhere
                        /\ v.at[x] \in Chars => v.room[v.at[x]] # Nowhere
        BY DEF Present, Bodies
    <2>1. x \notin gone /\ v.at[x] = out.at[x] /\ v.at[x] \notin gone
        BY <1>b, <1>c
    <2> QED
        BY <1>1, <1>7, <1>8, <2>1 DEF Sound, Present
<1>13. ASSUME NEW c \in Chars
       PROVE  Below(v.at, c) = Below(out.at, c)
    <2>1. c \in Bodies /\ c \notin gone
        BY <1>2, Sorts DEF Bodies
    <2>2. \A x \in Below(out.at, c) : x \notin gone
        <3> SUFFICES ASSUME NEW x \in Below(out.at, c), x \in gone
                     PROVE  FALSE
            OBVIOUS
        <3>1. o \in Below(out.at, c)
            BY <1>2, <1>3, <2>1, BelowCompare
        <3>2. out.at[o] \in Below(out.at, c)
            BY <1>2, <2>1, <3>1, BelowCases
        <3> QED
            BY <1>1, <3>2 DEF Below
    <2>3. Below(v.at, c) \subseteq Below(out.at, c)
        BY <1>10, <2>1
    <2>4. ASSUME NEW x \in Things, out.at[x] \in Below(v.at, c)
          PROVE  v.at[x] \in Below(v.at, c)
        <3>1. x \in Below(out.at, c)
            BY <2>1, <2>3, <2>4, BelowLeast DEF Shut
        <3> QED
            BY <1>8, <2>2, <2>4, <3>1
    <2>5. Below(out.at, c) \subseteq Below(v.at, c)
        BY <2>1, <2>4, BelowEased
    <2> QED
        BY <2>3, <2>5
<1>14. Counted(v)
    BY <1>1, <1>7, <1>13 DEF Sound, Counted
<1>15. \A x \in Things : v.worn[x] # NotWorn => x \notin gone /\ v.at[x] = out.at[x]
    BY <1>1, <1>7, <1>8, <1>d DEF Sound, Dressed
<1>16. Dressed(v)
    BY <1>1, <1>7, <1>15 DEF Sound, Dressed
<1>17. Sound(v)
    BY <1>7, <1>9, <1>11, <1>12, <1>14, <1>16 DEF Sound
<1>18. \A r : Shining(v, r) = Shining(out, r)
    <2>1. \A x \in Things : v.at[x] \in Chars => x \notin gone /\ v.at[x] = out.at[x]
        BY <1>b DEF Bodies
    <2>2. \A x \in Things : out.at[x] \in Chars => x \notin gone /\ v.at[x] = out.at[x]
        BY <1>8, <1>d
    <2>3. v.lit = out.lit \cup (gone \cap Lights) /\ out.lit \subseteq Things /\ v.room = out.room /\ v.worn = out.worn
        BY <1>2, <1>7, Sorts DEF Kinds
    <2> QED
        BY <1>2, <2>1, <2>2, <2>3 DEF Shining
<1>19. Lighted(v)
    BY <1>1, <1>7, <1>18 DEF Lighted
<1>20. ASSUME NEW d \in Players, Armed(out, d)
       PROVE  Armed(v, d)
    <2>1. \A x \in Things : v.at[x] = d /\ v.worn[x] = "wield" => out.at[x] = d /\ out.worn[x] = "wield"
        BY <1>7, <1>15 DEF NotWorn
    <2>2. \A x \in Girdles : out.at[x] = d /\ out.worn[x] = "waist" => v.at[x] = d /\ v.worn[x] = "waist"
        BY <1>7, <1>15, Sorts DEF NotWorn
    <2>3. d \in v.weak => d \in out.weak
        BY <1>7
    <2> QED
        BY <1>20, <2>1, <2>2, <2>3, GripKept
<1>21. Extracted_(w, v, o)
    <2>1. \A x \in Things :
              \/ x \in gone /\ v.at[x] = Nowhere
              \/ x \notin gone /\ Falls(w, v, x)
              \/ x \notin gone /\ v.at[x] = w.at[x] /\ v.worn[x] = w.worn[x]
        BY <1>1, <1>2, <1>7, <1>8 DEF Bides, Falls
    <2> QED
        BY <1>1, <1>7, <2>1 DEF Extracted_, Untouched, gone
<1> QED
    BY <1>1, <1>17, <1>19, <1>20, <1>21 DEF AllArmed

(***************************************************************************)
(* What a world of which everything holds is, and what may not happen on   *)
(* the way from one to the next.                                           *)
(***************************************************************************)
Fit(w) == Sound(w) /\ Lighted(w) /\ AllArmed(w)

\* Nothing comes into anybody's hands, to lie there or in what is there.
Easy(w, v) ==
    /\ \A x \in Things : v.at[x] \in Chars => v.at[x] = w.at[x]
    /\ \A c \in Chars : Below(v.at, c) \subseteq Below(w.at, c)

\* Nothing comes into anybody's hands in two steps when it does not in either.
LEMMA EasyOn ==
    ASSUME NEW u, NEW w, NEW v, Easy(u, w), Easy(w, v)
    PROVE  Easy(u, v)
    BY DEF Easy

\* Where nothing is put into anything, or moved at all.
LEMMA EasySame ==
    ASSUME NEW w, NEW v, \A x \in Things : v.at[x] \in Bodies => v.at[x] = w.at[x]
    PROVE  Easy(w, v)
<1>1. \A x \in Things : v.at[x] \in Chars => v.at[x] = w.at[x]
    BY DEF Bodies
<1>2. ASSUME NEW c \in Chars
      PROVE  Below(v.at, c) \subseteq Below(w.at, c)
    <2>1. c \in Bodies /\ Below(w.at, c) \subseteq Bodies
        BY DEF Bodies, Below
    <2>2. \A x \in Things : v.at[x] \in Below(w.at, c) => w.at[x] \in Below(w.at, c)
        BY <2>1
    <2> QED
        BY <2>1, <2>2, BelowEased
<1> QED
    BY <1>1, <1>2 DEF Easy

\* What falls, falls to the floor.
LEMMA FallsToFloor ==
    ASSUME NEW w, Sound(w), NEW v, NEW x \in Things, Falls(w, v, x)
    PROVE  v.at[x] \in Rooms /\ v.at[x] \notin Bodies /\ v.at[x] # Lost /\ v.at[x] # Nowhere
<1>1. w.at[x] \in Chars /\ w.room[w.at[x]] # Nowhere /\ w.room[w.at[x]] \in Rooms \cup {Nowhere}
    BY Sorts DEF Falls, Sound, Present, Kinds
<1> QED
    BY <1>1, Sorts DEF Falls, Bodies

\* When one thing goes where nobody bears it, nothing comes into anybody's hands.
LEMMA BidesEasy ==
    ASSUME NEW w, Sound(w), NEW v, NEW o \in Things, Bides(w, v, o), v.at[o] \notin Bodies \/ v.at[o] = w.at[o]
    PROVE  Easy(w, v)
<1>1. \A x \in Things : x # o /\ v.at[x] \in Bodies => v.at[x] = w.at[x]
    BY FallsToFloor DEF Bides
<1> QED
    BY <1>1, EasySame

\* When something is extracted, nothing comes into anybody's hands.
LEMMA ExtractedEasy ==
    ASSUME NEW w, Sound(w), NEW v, NEW o \in Things, Extracted_(w, v, o)
    PROVE  Easy(w, v)
<1>1. \A x \in Things : v.at[x] \in Bodies => v.at[x] = w.at[x]
    BY FallsToFloor, Sorts DEF Extracted_
<1> QED
    BY <1>1, EasySame

\* Nothing is lost but what may be.
Lacks(w, S) == \A x \in Things : w.at[x] = Lost => x \in S

\* When one thing moves, none but that becomes Lost.
LEMMA BidesLacks ==
    ASSUME NEW w, Sound(w), NEW v, NEW o \in Things, Bides(w, v, o), NEW S, Lacks(w, S)
    PROVE  Lacks(v, S \cup {o}) /\ (v.at[o] # Lost => Lacks(v, S))
    BY FallsToFloor DEF Bides, Lacks

\* When something is extracted nothing becomes Lost.
LEMMA ExtractedLacks ==
    ASSUME NEW w, Sound(w), NEW v, NEW o \in Things, Extracted_(w, v, o), NEW S, Lacks(w, S)
    PROVE  Lacks(v, S)
    BY FallsToFloor, Sorts DEF Extracted_, Lacks

-----------------------------------------------------------------------------
(***************************************************************************)
(* Characters come and go with the light they carry.                       *)
(***************************************************************************)
WithBelongings(w, v) ==
    /\ v.at = w.at /\ v.worn = w.worn /\ v.number = w.number /\ v.weight = w.weight
    /\ v.gold = w.gold /\ v.coins = w.coins /\ v.rots = w.rots /\ v.lit = w.lit
    /\ v.owner = w.owner /\ v.weak = w.weak

\* The lights that somebody wears, as a set.
LEMMA LampsAre ==
    ASSUME NEW w \in Kinds, NEW c \in Chars
    PROVE  /\ WornLights(w, c) = {o \in w.lit : w.at[o] = c /\ w.worn[o] = "light"}
           /\ IsFiniteSet(WornLights(w, c)) /\ Cardinality(WornLights(w, c)) \in Nat
<1>1. WornLights(w, c) = {o \in w.lit : w.at[o] = c /\ w.worn[o] = "light"}
    BY Sorts DEF WornLights, get_eq_char, Carrying, Kinds
<1>2. WornLights(w, c) \subseteq Things
    BY DEF WornLights, get_eq_char, Carrying
<1>3. IsFiniteSet(WornLights(w, c))
    BY <1>2, ThingsFinite, FS_Subset
<1> QED
    BY <1>1, <1>3, FS_CardinalityType

\* What is left when some are taken away.
LEMMA CountLess ==
    ASSUME NEW S, NEW T, IsFiniteSet(S), T \subseteq S
    PROVE  Cardinality(S \ T) = Cardinality(S) - Cardinality(T) /\ Cardinality(T) <= Cardinality(S)
<1>1. IsFiniteSet(T) /\ IsFiniteSet(S \ T) /\ Cardinality(T) <= Cardinality(S)
    BY FS_Subset
<1>2. (S \ T) \cup T = S /\ (S \ T) \cap T = {}
    OBVIOUS
<1>3. Cardinality(S) = Cardinality(S \ T) + Cardinality(T)
    BY <1>1, <1>2, CountTwo
<1>4. Cardinality(S \ T) \in Nat /\ Cardinality(T) \in Nat
    BY <1>1, FS_CardinalityType
<1> QED
    BY <1>1, <1>3, <1>4

\* char_from_room: the room loses the light that goes with him.
LEMMA CharGoes ==
    ASSUME NEW w \in Kinds, Lighted(w), NEW c \in Chars, w.room[c] \in Rooms,
           NEW v, v = char_from_room(w, c)
    PROVE  /\ v \in Kinds /\ Lighted(v) /\ WithBelongings(w, v)
           /\ v.room = [w.room EXCEPT ![c] = Nowhere]
<1> DEFINE L == WornLights(w, c)
           r == w.room[c]
           n == Cardinality(L)
           u == LightsGoOut(w, r, n)
<1>1. /\ L = {o \in w.lit : w.at[o] = c /\ w.worn[o] = "light"}
      /\ IsFiniteSet(L) /\ Cardinality(L) \in Nat
    BY LampsAre
<1>2. v = [u EXCEPT !.room = [u.room EXCEPT ![c] = Nowhere]]
    BY DEF char_from_room
<1>a. n \in Nat /\ n = Cardinality(L)
    BY <1>1
<1> HIDE DEF L, n
<1>3. /\ u \in Kinds /\ Untouched(w, u) /\ u.at = w.at /\ u.worn = w.worn
      /\ u.number = w.number /\ u.weight = w.weight
      /\ \A x \in Rooms : u.light[x] =
            IF x = r /\ n > 0 /\ w.light[x] > 0 THEN w.light[x] - n ELSE w.light[x]
    BY <1>a, Darkened
<1> HIDE DEF u
<1>4. [u.room EXCEPT ![c] = Nowhere] \in [Chars -> Rooms \cup {Nowhere}]
    BY <1>3 DEF Kinds
<1>5. v \in Kinds /\ v.room = [u.room EXCEPT ![c] = Nowhere] /\ v.light = u.light
    BY <1>2, <1>3, <1>4 DEF Kinds
<1>6. WithBelongings(u, v)
    BY <1>2, <1>3 DEF Kinds, WithBelongings
<1>7. WithBelongings(w, v) /\ v.room = [w.room EXCEPT ![c] = Nowhere]
    BY <1>3, <1>5, <1>6 DEF WithBelongings, Untouched
<1>8. v.room[c] = Nowhere /\ \A d \in Chars : d # c => v.room[d] = w.room[d]
    BY <1>7 DEF Kinds
<1>9. v.at = w.at /\ v.worn = w.worn /\ v.lit = w.lit /\ Nowhere \notin Rooms
    BY <1>7, Sorts DEF WithBelongings
<1>10. ASSUME NEW x \in Rooms
       PROVE  v.light[x] = Cardinality(Shining(v, x))
    <2>1. w.light[x] = Cardinality(Shining(w, x)) /\ IsFiniteSet(Shining(w, x)) /\ w.light[x] \in Nat
        BY ShiningFinite DEF Lighted
    <2>2. CASE x = r
        <3>1. L \subseteq Shining(w, x)
            BY <1>1, <2>2 DEF Shining
        <3>2. Shining(v, x) = Shining(w, x) \ L
            BY <1>1, <1>8, <1>9, <2>2 DEF Shining
        <3>3. Cardinality(Shining(v, x)) = w.light[x] - n /\ n <= w.light[x]
            BY <1>a, <2>1, <3>1, <3>2, CountLess
        <3> QED
            BY <1>a, <1>3, <1>5, <2>1, <2>2, <3>3
    <2>3. CASE x # r
        <3>1. Shining(v, x) = Shining(w, x)
            BY <1>8, <1>9, <2>3 DEF Shining
        <3> QED
            BY <1>3, <1>5, <2>1, <2>3, <3>1
    <2> QED
        BY <2>2, <2>3
<1> QED
    BY <1>5, <1>7, <1>10 DEF Lighted

\* char_to_room: the room gains the light that comes with him.
LEMMA CharComes ==
    ASSUME NEW w \in Kinds, Lighted(w), NEW c \in Chars, w.room[c] = Nowhere, NEW r \in Rooms,
           NEW v, v = char_to_room(w, c, r)
    PROVE  /\ v \in Kinds /\ Lighted(v) /\ WithBelongings(w, v)
           /\ v.room = [w.room EXCEPT ![c] = r]
<1> DEFINE L == WornLights(w, c)
<1>1. /\ L = {o \in w.lit : w.at[o] = c /\ w.worn[o] = "light"}
      /\ IsFiniteSet(L) /\ Cardinality(L) \in Nat
    BY LampsAre
<1>2. v = [w EXCEPT !.room = [w.room EXCEPT ![c] = r], !.light = [w.light EXCEPT ![r] = @ + Cardinality(L)]]
    BY DEF char_to_room
<1> HIDE DEF L
<1>3. [w.room EXCEPT ![c] = r] \in [Chars -> Rooms \cup {Nowhere}] /\
      [w.light EXCEPT ![r] = @ + Cardinality(L)] \in [Rooms -> Int]
    BY <1>1 DEF Kinds
<1>4. /\ v \in Kinds /\ v.room = [w.room EXCEPT ![c] = r]
      /\ v.light = [w.light EXCEPT ![r] = @ + Cardinality(L)]
    BY <1>2, <1>3 DEF Kinds
<1>5. WithBelongings(w, v)
    BY <1>2 DEF Kinds, WithBelongings
<1>6. v.room[c] = r /\ \A d \in Chars : d # c => v.room[d] = w.room[d]
    BY <1>4 DEF Kinds
<1>7. v.at = w.at /\ v.worn = w.worn /\ v.lit = w.lit /\ Nowhere \notin Rooms
    BY <1>5, Sorts DEF WithBelongings
<1>8. ASSUME NEW x \in Rooms
      PROVE  v.light[x] = Cardinality(Shining(v, x))
    <2>1. w.light[x] = Cardinality(Shining(w, x)) /\ IsFiniteSet(Shining(w, x)) /\ w.light[x] \in Nat
        BY ShiningFinite DEF Lighted
    <2>2. CASE x = r
        <3>1. Shining(v, x) = Shining(w, x) \cup L /\ Shining(w, x) \cap L = {}
            BY <1>1, <1>6, <1>7, <2>2 DEF Shining
        <3>2. Cardinality(Shining(v, x)) = w.light[x] + Cardinality(L)
            BY <1>1, <2>1, <3>1, CountTwo
        <3>3. v.light[x] = w.light[x] + Cardinality(L)
            BY <1>4, <2>2 DEF Kinds
        <3> QED
            BY <3>2, <3>3
    <2>3. CASE x # r
        <3>1. Shining(v, x) = Shining(w, x)
            BY <1>6, <1>7, <2>3 DEF Shining
        <3>2. v.light[x] = w.light[x]
            BY <1>4, <2>3 DEF Kinds
        <3> QED
            BY <2>1, <3>1, <3>2
    <2> QED
        BY <2>2, <2>3
<1> QED
    BY <1>4, <1>5, <1>8 DEF Lighted

\* Whoever has things stays in some room.
LEMMA FitMoved ==
    ASSUME NEW w, Fit(w), NEW v \in Kinds, Lighted(v), WithBelongings(w, v), NEW c \in Chars,
           v.room = [w.room EXCEPT ![c] = v.room[c]],
           v.room[c] # Nowhere \/ Carrying(w, c) = {}
    PROVE  Fit(v)
<1>1. v.at = w.at /\ v.worn = w.worn /\ v.number = w.number /\ v.weight = w.weight /\ v.weak = w.weak
    BY DEF WithBelongings
<1>2. w \in Kinds /\ \A d \in Chars : d # c => v.room[d] = w.room[d]
    BY DEF Fit, Sound, Kinds
<1>3. Placed(v) /\ Forest(v.at) /\ Counted(v) /\ Dressed(v)
    BY <1>1 DEF Fit, Sound, Placed, Counted, Dressed
<1>4. Present(v)
    BY <1>1, <1>2 DEF Fit, Sound, Present, Carrying
<1>5. AllArmed(v)
    BY <1>1 DEF Fit, AllArmed, Armed, CanWield, get_eq_char, Carrying
<1> QED
    BY <1>3, <1>4, <1>5 DEF Fit, Sound

(***************************************************************************)
(* Things are worn.                                                        *)
(***************************************************************************)
\* equip_char: whatever the thing does to its wearer, who may let a weapon fall for it.
LEMMA EquipIs ==
    ASSUME NEW w, Fit(w), NEW c \in Chars, NEW o \in Things, w.at[o] = c, w.worn[o] = NotWorn,
           NEW slot \in Slots, get_eq_char(w, c, slot) = {},
           slot = "wield" /\ c \in Players => CanWield(w, c, o),
           NEW v, v = equip_char(w, c, o, slot)
    PROVE  /\ Fit(v) /\ Untouched(w, v) /\ Bides(w, v, o)
           /\ v.at[o] = c \/ v.at[o] \in Rooms
<1>0. w \in Kinds /\ Sound(w) /\ w.room[c] \in Rooms
    BY DEF Fit, Sound, Present, Kinds
<1>1. CASE <<c, o>> \in Zapped
    <2> DEFINE u == obj_from_char(w, o)
    <2>1. v = obj_to_room(u, o, w.room[c])
        BY <1>1 DEF equip_char
    <2>2. /\ Sound(u) /\ Untouched(w, u) /\ Lighted(u) /\ u.at[o] = Lost /\ u.worn[o] = NotWorn
          /\ Bides(w, u, o) /\ AllArmed(u)
        BY FromHands DEF Fit
    <2> HIDE DEF u
    <2>3. /\ Sound(v) /\ Untouched(u, v) /\ v.at = [u.at EXCEPT ![o] = w.room[c]] /\ v.worn = u.worn
          /\ v.light = u.light /\ (\A x : Shining(v, x) = Shining(u, x))
        <3>1. u.at[o] \notin Bodies
            BY <2>2, Sorts
        <3> QED
            BY <1>0, <2>1, <2>2, <3>1, ToRoom
    <2>4. v.at[o] = w.room[c] /\ \A x \in Things : x # o => v.at[x] = u.at[x] /\ v.worn[x] = u.worn[x]
        BY <2>2, <2>3 DEF Sound, Kinds, Places
    <2>5. Untouched(w, v) /\ Bides(w, v, o)
        BY <2>2, <2>3, <2>4 DEF Untouched, Bides, Falls
    <2>6. ASSUME NEW d \in Players
          PROVE  Armed(v, d)
        <3>1. \A x \in Things : v.at[x] = d /\ v.worn[x] = "wield" => u.at[x] = d /\ u.worn[x] = "wield"
            BY <2>2, <2>3, <2>4 DEF NotWorn
        <3>2. \A x \in Girdles : u.at[x] = d /\ u.worn[x] = "waist" => v.at[x] = d /\ v.worn[x] = "waist"
            BY <2>2, <2>3, <2>4, Sorts DEF NotWorn
        <3>3. (d \in v.weak => d \in u.weak) /\ Armed(u, d)
            BY <2>2, <2>3 DEF Untouched, AllArmed
        <3> QED
            BY <3>1, <3>2, <3>3, GripKept
    <2> QED
        BY <1>0, <2>2, <2>3, <2>4, <2>5, <2>6 DEF Fit, Lighted, AllArmed
<1>2. CASE <<c, o>> \notin Zapped
    <2> DEFINE on == [w EXCEPT !.worn[o] = slot]
               aff == IF o \in Girdles THEN AffectModify(on, c) ELSE on
               shines == IsLight(w, o, slot) /\ w.room[c] # Nowhere
    <2>1. v = IF shines THEN [aff EXCEPT !.light[w.room[c]] = @ + 1] ELSE aff
        BY <1>2 DEF equip_char
    <2>2. [w.worn EXCEPT ![o] = slot] \in [Things -> Slots \cup {NotWorn}] /\ on = [w EXCEPT !.worn = [w.worn EXCEPT ![o] = slot]]
        BY <1>0 DEF Kinds
    <2>3. on \in Kinds
        BY <1>0, <2>2 DEF Kinds
    <2>4. /\ on.worn = [w.worn EXCEPT ![o] = slot] /\ on.at = w.at /\ on.number = w.number /\ on.weight = w.weight
          /\ on.light = w.light
        BY <1>0, <2>2 DEF Kinds
    <2>5. Untouched(w, on)
        BY <1>0, <2>2 DEF Kinds, Untouched
    <2>6. on.worn[o] = slot /\ \A x \in Things : x # o => on.worn[x] = w.worn[x]
        BY <1>0, <2>4 DEF Kinds
    <2> HIDE DEF on
    <2>7. Sound(on)
        <3>1. Placed(on) /\ Forest(on.at) /\ Present(on) /\ Counted(on)
            BY <1>0, <2>4, <2>5 DEF Sound, Placed, Present, Counted, Untouched
        <3>2. \A x \in Things : x # o /\ w.at[x] = c => w.worn[x] # slot
            BY DEF get_eq_char, Carrying
        <3>3. Dressed(on)
            BY <1>0, <2>4, <2>6, <3>2 DEF Sound, Dressed
        <3> QED
            BY <2>3, <3>1, <3>3 DEF Sound
    <2>8. ASSUME NEW d \in Players, d # c \/ o \notin Girdles
          PROVE  Armed(on, d)
        <3> SUFFICES ASSUME NEW x \in get_eq_char(on, d, "wield")
                     PROVE  CanWield(on, d, x)
            BY DEF Armed
        <3>1. x \in Things /\ w.at[x] = d /\ on.worn[x] = "wield"
            BY <2>4 DEF get_eq_char, Carrying
        <3>2. CanWield(w, d, x)
            <4>1. CASE x = o
                BY <2>6, <3>1, <4>1
            <4>2. CASE x # o
                BY <2>6, <3>1, <4>2 DEF Fit, AllArmed, Armed, get_eq_char, Carrying
            <4> QED
                BY <4>1, <4>2
        <3>3. \A g \in Girdles : w.at[g] = d /\ w.worn[g] = "waist" => on.at[g] = d /\ on.worn[g] = "waist"
            BY <2>4, <2>6, Sorts DEF NotWorn
        <3> QED
            BY <2>5, <3>2, <3>3 DEF CanWield, Untouched
    <2>9. /\ Sound(aff) /\ Untouched(on, aff) /\ aff.light = on.light
          /\ \A x : Shining(aff, x) = Shining(on, x)
          /\ \A x \in Things : (Falls(on, aff, x) /\ on.at[x] = c) \/ (aff.at[x] = on.at[x] /\ aff.worn[x] = on.worn[x])
          /\ AllArmed(aff)
        <3>1. CASE o \notin Girdles
            <4>1. aff = on
                BY <3>1
            <4> HIDE DEF aff
            <4> QED
                BY <2>7, <2>8, <3>1, <4>1 DEF Untouched, AllArmed
        <3>2. CASE o \in Girdles
            <4>1. aff = AffectModify(on, c)
                BY <3>2
            <4> HIDE DEF aff
            <4>2. /\ Sound(aff) /\ Untouched(on, aff) /\ aff.light = on.light
                  /\ \A x : Shining(aff, x) = Shining(on, x)
                  /\ \A x \in Things : (Falls(on, aff, x) /\ on.at[x] = c) \/ (aff.at[x] = on.at[x] /\ aff.worn[x] = on.worn[x])
                  /\ c \in Players => Armed(aff, c)
                BY <2>7, <4>1, AffectModifyIs
            <4>3. ASSUME NEW d \in Players, d # c
                  PROVE  Armed(aff, d)
                <5>1. Armed(on, d) /\ Nowhere \notin {d} /\ d \notin Rooms
                    BY <2>8, <4>3, Sorts DEF Bodies
                <5> QED
                    BY <4>2, <4>3, <5>1, OthersArmed
            <4> QED
                BY <4>2, <4>3 DEF AllArmed
        <3> QED
            BY <3>1, <3>2
    <2> HIDE DEF aff
    <2>10. \A r \in Rooms : Shining(on, r) = IF r = w.room[c] /\ shines THEN Shining(w, r) \cup {o} ELSE Shining(w, r)
        <3>1. on.lit = w.lit /\ on.room = w.room /\ w.lit \subseteq Things
            BY <1>0, <2>5, Sorts DEF Untouched, Kinds
        <3>2. shines <=> slot = "light" /\ o \in w.lit
            BY <1>0, Sorts DEF IsLight
        <3> HIDE DEF shines
        <3> SUFFICES ASSUME NEW r \in Rooms, NEW x \in Things
                     PROVE  x \in Shining(on, r) <=>
                                x \in (IF r = w.room[c] /\ shines THEN Shining(w, r) \cup {o} ELSE Shining(w, r))
            BY <3>1 DEF Shining
        <3>3. CASE x = o
            BY <2>4, <2>6, <3>1, <3>2, <3>3 DEF Shining, NotWorn
        <3>4. CASE x # o
            BY <2>4, <2>6, <3>1, <3>4 DEF Shining
        <3> QED
            BY <3>3, <3>4
    <2>11. o \notin Shining(w, w.room[c])
        BY DEF Shining, NotWorn
    <2>12. aff \in Kinds /\ w.room[c] \in Rooms /\ aff.light = w.light
        BY <1>0, <2>4, <2>9 DEF Sound
    <2>13. /\ v \in Kinds /\ v.at = aff.at /\ v.worn = aff.worn /\ v.number = aff.number /\ v.weight = aff.weight
           /\ v.lit = aff.lit /\ v.room = aff.room /\ v.weak = aff.weak
           /\ \A r \in Rooms : v.light[r] = IF r = w.room[c] /\ shines THEN w.light[r] + 1 ELSE w.light[r]
        <3>1. CASE shines
            <4>1. [aff.light EXCEPT ![w.room[c]] = @ + 1] \in [Rooms -> Int]
                BY <2>12 DEF Kinds
            <4>2. v = [aff EXCEPT !.light = [aff.light EXCEPT ![w.room[c]] = @ + 1]]
                BY <2>1, <3>1
            <4>3. v \in Kinds /\ v.light = [aff.light EXCEPT ![w.room[c]] = @ + 1]
                BY <2>12, <4>1, <4>2 DEF Kinds
            <4>4. /\ v.at = aff.at /\ v.worn = aff.worn /\ v.number = aff.number /\ v.weight = aff.weight
                  /\ v.lit = aff.lit /\ v.room = aff.room /\ v.weak = aff.weak
                BY <2>12, <4>2 DEF Kinds
            <4>5. \A r \in Rooms : v.light[r] = IF r = w.room[c] THEN w.light[r] + 1 ELSE w.light[r]
                BY <2>12, <4>3 DEF Kinds
            <4> QED
                BY <3>1, <4>3, <4>4, <4>5
        <3>2. CASE ~shines
            <4>1. v = aff
                BY <2>1, <3>2
            <4> QED
                BY <2>12, <3>2, <4>1
        <3> QED
            BY <3>1, <3>2
    <2>14. Untouched(aff, v)
        <3>1. CASE shines
            <4>1. v = [aff EXCEPT !.light = [aff.light EXCEPT ![w.room[c]] = @ + 1]]
                BY <2>1, <3>1
            <4> QED
                BY <2>12, <4>1 DEF Kinds, Untouched
        <3>2. CASE ~shines
            <4>1. v = aff
                BY <2>1, <3>2
            <4> QED
                BY <4>1 DEF Untouched
        <3> QED
            BY <3>1, <3>2
    <2> HIDE DEF shines
    <2>15. Sound(v)
        BY <2>9, <2>13 DEF Sound, Placed, Present, Counted, Dressed
    <2>16. \A r : Shining(v, r) = Shining(on, r)
        BY <2>9, <2>13 DEF Shining
    <2>17. Lighted(v)
        <3> SUFFICES ASSUME NEW r \in Rooms
                     PROVE  v.light[r] = Cardinality(Shining(v, r))
            BY DEF Lighted
        <3>1. w.light[r] = Cardinality(Shining(w, r)) /\ IsFiniteSet(Shining(w, r))
            BY <1>0, ShiningFinite DEF Fit, Lighted
        <3>2. CASE r = w.room[c] /\ shines
            BY <2>10, <2>11, <2>13, <2>16, <3>1, <3>2, FS_AddElement
        <3>3. CASE ~(r = w.room[c] /\ shines)
            BY <2>10, <2>13, <2>16, <3>1, <3>3
        <3> QED
            BY <3>2, <3>3
    <2>18. AllArmed(v)
        BY <2>9, <2>13 DEF AllArmed, Armed, CanWield, get_eq_char, Carrying
    <2>19. Untouched(w, v)
        BY <2>5, <2>9, <2>14 DEF Untouched
    <2>20. Bides(w, v, o)
        BY <2>4, <2>5, <2>6, <2>9, <2>13 DEF Bides, Falls, Untouched
    <2>21. v.at[o] = c \/ v.at[o] \in Rooms
        BY <2>4, <2>7, <2>9, <2>13, FallsToFloor
    <2> QED
        BY <2>15, <2>17, <2>18, <2>19, <2>20, <2>21 DEF Fit
<1> QED
    BY <1>1, <1>2

\* Where something can be worn: places of the table, and what is wielded is worn nowhere else.
LEMMA WearAtIs ==
    ASSUME NEW o
    PROVE  /\ DOMAIN WearAt(o) \subseteq Nat
           /\ \A i \in DOMAIN WearAt(o) :
                 /\ WearAt(o)[i] \in Slots
                 /\ WearAt(o)[i] = "wield" => WearAt(o) = <<"wield">>
<1>1. WearAt(o) \in {<<"light">>, <<"finger_l", "finger_r">>, <<"waist">>, <<"wield">>, <<>>}
    BY DEF WearAt
<1> QED
    BY <1>1 DEF Slots

\* The least of some numbers is one of them.
LEMMA MinIs ==
    ASSUME NEW S \in SUBSET Nat, S # {}
    PROVE  Min(S) \in S
    BY LeastNumber DEF Min

\* How a thing's wearer and other things fare when it is worn or removed.
Dropped(w, v) ==
    \A x \in Things : v.at[x] = w.at[x] \/ (w.at[x] \in Chars /\ v.at[x] \in Rooms)

Worn_(w, v) ==
    /\ Fit(v) /\ Untouched(w, v) /\ Easy(w, v) /\ Dropped(w, v)
    /\ \A S : Lacks(w, S) => Lacks(v, S)

\* When one thing of somebody's is worn or taken off, it stays with him or falls.
LEMMA BidesDropped ==
    ASSUME NEW w, Sound(w), NEW v, NEW o \in Things, Bides(w, v, o), w.at[o] \in Chars,
           v.at[o] = w.at[o] \/ v.at[o] \in Rooms
    PROVE  Dropped(w, v)
<1> SUFFICES ASSUME NEW x \in Things, v.at[x] # w.at[x]
             PROVE  w.at[x] \in Chars /\ v.at[x] \in Rooms
    BY DEF Dropped
<1>1. CASE x = o
    BY <1>1
<1>2. CASE x # o
    <2>1. Falls(w, v, x)
        BY <1>2 DEF Bides
    <2> QED
        BY <2>1, FallsToFloor, Sorts DEF Falls
<1> QED
    BY <1>1, <1>2

\* Something is taken off.
LEMMA RemoveIs ==
    ASSUME NEW w, Fit(w), NEW c \in Chars, NEW o \in Things, w.at[o] = c, w.worn[o] # NotWorn,
           NEW v, v = unequip_char(w, c, o)
    PROVE  Worn_(w, v) /\ Bides(w, v, o)
<1>1. /\ Sound(v) /\ Untouched(w, v) /\ Lighted(v)
      /\ v.at[o] = c /\ v.worn[o] = NotWorn /\ Bides(w, v, o) /\ AllArmed(v)
    BY UnequipIs DEF Fit
<1>2. Easy(w, v)
    BY <1>1, BidesEasy DEF Fit
<1>3. c # Lost
    BY Sorts DEF Bodies
<1>4. ASSUME NEW S, Lacks(w, S)
      PROVE  Lacks(v, S)
    <2>1. v.at[o] # Lost /\ Sound(w)
        BY <1>1, <1>3 DEF Fit
    <2>2. Bides(w, v, o) /\ Lacks(w, S)
        BY <1>1, <1>4
    <2> QED
        BY <2>1, <2>2, BidesLacks
<1>5. Dropped(w, v)
    BY <1>1, BidesDropped DEF Fit
<1> QED
    BY <1>1, <1>2, <1>4, <1>5 DEF Worn_, Fit

\* wear_obj: whatever it takes off first, and whatever the strikes of equip_char do, all
\* accounts hold.
LEMMA WearIs ==
    ASSUME NEW w, Fit(w), NEW c \in Chars, NEW o \in Things, w.at[o] = c, w.worn[o] = NotWorn,
           NEW replace, NEW v, v = wear_obj(w, c, o, replace)
    PROVE  Worn_(w, v)
<1> DEFINE slots == WearAt(o)
           bare == remove_obj(w, c, slots, replace)
           free == FreeSlots(bare, c, slots)
<1>1. Worn_(w, bare) /\ bare.at[o] = c /\ bare.worn[o] = NotWorn
    <2> DEFINE loose == {i \in DOMAIN slots : replace /\ get_eq_char(w, c, slots[i]) \cap NoRemove = {}}
    <2>1. CASE slots = <<>> \/ FreeSlots(w, c, slots) # {} \/ loose = {}
        <3>1. bare = w
            BY <2>1 DEF remove_obj
        <3> QED
            BY <3>1 DEF Worn_, Untouched, Easy, Dropped
    <2>2. CASE ~(slots = <<>> \/ FreeSlots(w, c, slots) # {} \/ loose = {})
        <3> DEFINE x == CHOOSE x \in get_eq_char(w, c, slots[Min(loose)]) : TRUE
        <3>1. bare = unequip_char(w, c, x)
            BY <2>2 DEF remove_obj
        <3>2. Min(loose) \in DOMAIN slots /\ slots[Min(loose)] \in Slots
            <4>1. loose \in SUBSET Nat /\ loose # {}
                BY <2>2, WearAtIs
            <4>2. Min(loose) \in loose
                BY <4>1, MinIs
            <4> QED
                BY <4>2, WearAtIs
        <3>3. get_eq_char(w, c, slots[Min(loose)]) # {}
            BY <2>2, <3>2 DEF FreeSlots
        <3>4. x \in get_eq_char(w, c, slots[Min(loose)])
            BY <3>3
        <3> HIDE DEF x, loose, slots
        <3>5. x \in Things /\ w.at[x] = c /\ w.worn[x] # NotWorn /\ x # o
            BY <3>2, <3>4 DEF get_eq_char, Carrying, Slots, NotWorn
        <3>6. Worn_(w, bare) /\ Bides(w, bare, x)
            BY <3>1, <3>5, RemoveIs
        <3> QED
            BY <3>5, <3>6 DEF Bides, Falls, NotWorn
    <2> QED
        BY <2>1, <2>2
<1>2. CASE free = {} \/ (slots = <<"wield">> /\ c \in Players /\ ~CanWield(bare, c, o))
    <2>1. v = bare
        BY <1>2 DEF wear_obj
    <2> QED
        BY <1>1, <2>1
<1>3. CASE ~(free = {} \/ (slots = <<"wield">> /\ c \in Players /\ ~CanWield(bare, c, o)))
    <2> DEFINE slot == slots[Min(free)]
    <2>1. v = equip_char(bare, c, o, slot)
        BY <1>3 DEF wear_obj
    <2>2. Min(free) \in free
        <3>1. free \in SUBSET Nat /\ free # {}
            BY <1>3, WearAtIs DEF FreeSlots
        <3> QED
            BY <3>1, MinIs
    <2>3. slot \in Slots /\ get_eq_char(bare, c, slot) = {} /\ (slot = "wield" => slots = <<"wield">>)
        BY <2>2, WearAtIs DEF FreeSlots
    <2>4. slot = "wield" /\ c \in Players => CanWield(bare, c, o)
        BY <1>3, <2>3
    <2> HIDE DEF slot, slots, bare, free
    <2>5. /\ Fit(v) /\ Untouched(bare, v) /\ Bides(bare, v, o)
          /\ v.at[o] = c \/ v.at[o] \in Rooms
        <3>1. Fit(bare)
            BY <1>1 DEF Worn_
        <3> QED
            BY <1>1, <2>1, <2>3, <2>4, <3>1, EquipIs
    <2>6. (v.at[o] \notin Bodies \/ v.at[o] = bare.at[o]) /\ v.at[o] # Lost /\ Sound(bare)
        BY <1>1, <2>5, Sorts DEF Bodies, Worn_, Fit
    <2>7. Easy(bare, v)
        BY <2>5, <2>6, BidesEasy
    <2>8. ASSUME NEW S, Lacks(bare, S)
          PROVE  Lacks(v, S)
        BY <2>5, <2>6, <2>8, BidesLacks
    <2>9. Easy(w, v) /\ Untouched(w, v)
        BY <1>1, <2>5, <2>7, EasyOn DEF Worn_, Untouched
    <2>10. Dropped(bare, v)
        BY <1>1, <2>5, <2>6, BidesDropped
    <2>11. Dropped(w, v)
        <3>1. Dropped(w, bare)
            BY <1>1 DEF Worn_
        <3> QED
            BY <2>10, <3>1, Sorts DEF Dropped
    <2> QED
        BY <1>1, <2>5, <2>8, <2>9, <2>11 DEF Worn_
<1> QED
    BY <1>2, <1>3

-----------------------------------------------------------------------------
\* What is no matter of places.
LEMMA FitSame ==
    ASSUME NEW w, Fit(w), NEW v \in Kinds,
           v.at = w.at, v.worn = w.worn, v.number = w.number, v.weight = w.weight,
           v.room = w.room, v.light = w.light, v.lit = w.lit, v.weak \subseteq w.weak
    PROVE  Fit(v)
<1>1. Sound(v)
    BY DEF Fit, Sound, Placed, Present, Counted, Dressed
<1>2. Lighted(v)
    <2>1. \A r : Shining(v, r) = Shining(w, r)
        BY DEF Shining
    <2> QED
        BY <2>1 DEF Fit, Lighted
<1>3. AllArmed(v)
    <2> SUFFICES ASSUME NEW c \in Players
                 PROVE  Armed(v, c)
        BY DEF AllArmed
    <2>1. Armed(w, c)
        BY DEF Fit, AllArmed
    <2>2. \A x \in Things : v.at[x] = c /\ v.worn[x] = "wield" => w.at[x] = c /\ w.worn[x] = "wield"
        OBVIOUS
    <2>3. \A x \in Girdles : w.at[x] = c /\ w.worn[x] = "waist" => v.at[x] = c /\ v.worn[x] = "waist"
        OBVIOUS
    <2> QED
        BY <2>1, <2>2, <2>3, GripKept
<1> QED
    BY <1>1, <1>2, <1>3 DEF Fit

-----------------------------------------------------------------------------
(***************************************************************************)
(* What coins there are.                                                   *)
(***************************************************************************)
\* Coins are worth something while they are in the world, and nobody has
\* them in hand as a thing.
Minted(w) ==
    \A m \in Money :
       /\ w.coins[m] >= 0
       /\ w.at[m] = Nowhere <=> w.coins[m] = 0
       /\ w.at[m] \notin Chars

Rich(w) ==
    /\ \A c \in Chars : w.gold[c] >= 0
    /\ Minted(w)
    /\ AllGold(w) <= MaxGold

\* Coins lie where they lay, or somewhere else on the floor or in something,
\* or are no more.
Coins_(w, v) ==
    \A m \in Money :
       \/ v.at[m] = Nowhere /\ v.coins[m] = 0
       \/ v.at[m] \notin Chars \cup {Nowhere} /\ w.at[m] # Nowhere /\ v.coins[m] = w.coins[m]
       \/ v.at[m] = w.at[m] /\ v.coins[m] = w.coins[m]

Gone(w, v, o) == w.at[o] # Nowhere /\ v.at[o] = Nowhere

\* GoldKept, of two worlds.
KeepsGold(w, v) ==
    /\ (\A o \in Things \ Money : ~Gone(w, v, o)) => AllGold(v) <= AllGold(w)
    /\ (\A o \in Things : ~Gone(w, v, o)) => AllGold(v) = AllGold(w)

Paid(w, v) == Rich(w) => Rich(v) /\ KeepsGold(w, v)

\* Coins stay what they are in two steps when they do in both.
LEMMA CoinsOn ==
    ASSUME NEW u, NEW w, NEW v, Coins_(u, w), Coins_(w, v)
    PROVE  Coins_(u, v)
    BY DEF Coins_

\* All the gold is what the purses and the heaps hold.
LEMMA GoldIs ==
    ASSUME NEW w \in Kinds
    PROVE  /\ AllGold(w) = Total(w.gold, Chars) + Total(w.coins, Money)
           /\ Total(w.gold, Chars) \in Int /\ Total(w.coins, Money) \in Int
           /\ IsFiniteSet(Chars) /\ IsFiniteSet(Money)
           /\ \A c \in Chars : w.gold[c] \in Int
           /\ \A m \in Money : w.coins[m] \in Int
<1>1. IsFiniteSet(Chars) /\ IsFiniteSet(Money)
    BY ThingsFinite, Sorts, FS_Subset
<1>2. (\A c \in Chars : w.gold[c] \in Int) /\ (\A m \in Money : w.coins[m] \in Int)
    BY DEF Kinds
<1>3. Total(w.gold, Chars) \in Int
    BY <1>1, <1>2, TotalIs
<1>4. Total(w.coins, Money) \in Int
    BY <1>1, <1>2, TotalIs
<1>5. AllGold(w) = Total(w.gold, Chars) + Total(w.coins, Money)
    BY DEF AllGold, Total
<1> QED
    BY <1>1, <1>2, <1>3, <1>4, <1>5

\* Heaps that were worth something still are.
LEMMA CoinsMinted ==
    ASSUME NEW w, NEW v, Minted(w), Coins_(w, v)
    PROVE  Minted(v)
    BY Sorts DEF Coins_, Minted, Bodies

\* The heaps are worth no more than before, and as much when none is gone.
LEMMA CoinsTotal ==
    ASSUME NEW w \in Kinds, NEW v \in Kinds, Minted(w), Coins_(w, v)
    PROVE  /\ Total(v.coins, Money) <= Total(w.coins, Money)
           /\ (\A m \in Money : ~Gone(w, v, m)) => Total(v.coins, Money) = Total(w.coins, Money)
<1>1. Total(v.coins, Money) <= Total(w.coins, Money)
    <2>1. \A m \in Money : v.coins[m] \in Int /\ w.coins[m] \in Int /\ v.coins[m] <= w.coins[m]
        BY GoldIs DEF Coins_, Minted
    <2> QED
        BY <2>1, GoldIs, TotalUp
<1>2. ASSUME \A m \in Money : ~Gone(w, v, m)
      PROVE  Total(v.coins, Money) = Total(w.coins, Money)
    <2>1. \A m \in Money : w.coins[m] \in Int /\ v.coins[m] = w.coins[m]
        BY <1>2, GoldIs DEF Coins_, Minted, Gone
    <2> QED
        BY <2>1, GoldIs, TotalAgree
<1> QED
    BY <1>1, <1>2

\* What Chars have changes hands, and coins lie about.
LEMMA PaidOn ==
    ASSUME NEW w \in Kinds, NEW v \in Kinds, Coins_(w, v),
           Rich(w) => (\A c \in Chars : v.gold[c] >= 0) /\ Total(v.gold, Chars) = Total(w.gold, Chars)
    PROVE  Paid(w, v)
<1> SUFFICES ASSUME Rich(w)
             PROVE  Rich(v) /\ KeepsGold(w, v)
    BY DEF Paid
<1>1. Minted(v)
    BY CoinsMinted DEF Rich
<1>2. /\ Total(v.coins, Money) <= Total(w.coins, Money)
      /\ (\A m \in Money : ~Gone(w, v, m)) => Total(v.coins, Money) = Total(w.coins, Money)
    BY CoinsTotal DEF Rich
<1>3. AllGold(v) <= AllGold(w)
    BY <1>2, GoldIs
<1>4. AllGold(v) \in Int /\ AllGold(w) \in Int /\ AllGold(w) <= MaxGold /\ MaxGold \in Int
    BY GoldIs, ThingsAssumption DEF Rich
<1>5. ASSUME \A o \in Things : ~Gone(w, v, o)
      PROVE  AllGold(v) = AllGold(w)
    <2>1. \A m \in Money : ~Gone(w, v, m)
        BY <1>5, Sorts
    <2> QED
        BY <1>2, <2>1, GoldIs
<1> QED
    BY <1>1, <1>3, <1>4, <1>5 DEF Rich, KeepsGold

\* Gold is kept where neither purses nor heaps change.
LEMMA PaidSame ==
    ASSUME NEW w \in Kinds, NEW v \in Kinds, Coins_(w, v), v.gold = w.gold
    PROVE  Paid(w, v)
<1>1. Rich(w) => (\A c \in Chars : v.gold[c] >= 0) /\ Total(v.gold, Chars) = Total(w.gold, Chars)
    BY DEF Rich
<1> QED
    BY <1>1, PaidOn

\* One who has it pays another.
LEMMA PaidOver ==
    ASSUME NEW w \in Kinds, NEW v \in Kinds, Coins_(w, v), NEW c \in Chars, NEW d \in Chars, c # d,
           NEW n \in Int, n >= 0, n <= w.gold[c],
           v.gold[c] = w.gold[c] - n, v.gold[d] = w.gold[d] + n,
           \A x \in Chars : x \notin {c, d} => v.gold[x] = w.gold[x]
    PROVE  Paid(w, v)
<1>1. ASSUME Rich(w)
      PROVE  \A x \in Chars : v.gold[x] >= 0
    BY <1>1, GoldIs DEF Rich
<1>2. v.gold[c] \in Int /\ v.gold[d] \in Int
    BY GoldIs
<1>3. Total(v.gold, Chars) = Total(w.gold, Chars) - w.gold[c] - w.gold[d] + v.gold[c] + v.gold[d]
    BY <1>2, GoldIs, TotalChangedTwice
<1>4. Total(v.gold, Chars) = Total(w.gold, Chars)
    BY <1>3, GoldIs
<1> QED
    BY <1>1, <1>4, PaidOn

-----------------------------------------------------------------------------
(***************************************************************************)
(* What comes into somebody's hands.                                       *)
(***************************************************************************)
\* o, with what is in it, comes into the hands of c.
Handed(w, v, o, c) ==
    /\ \A x \in Things : v.at[x] \in Chars => v.at[x] = w.at[x] \/ (x = o /\ v.at[x] = c)
    /\ \A d \in Players :
          Below(v.at, d) \subseteq Below(w.at, d) \cup (IF d = c THEN Below(w.at, o) ELSE {})

\* NoSecondCopy and OnlyFriendsLoot, of two worlds.
KeepsUnique(w, v) ==
    \A c \in Players \ Thieves, k \in Uniques :
       k \cap Holds(w, c) # {} => k \cap Holds(v, c) \subseteq Holds(w, c)

KeepsGraves(w, v) ==
    \A k \in Corpses, c \in Players, o \in Things :
       LET p == w.owner[k]
       IN  (p # Nowhere /\ w.room[p] # Nowhere /\ w.at[o] = k /\ v.at[o] = c)
           => p \in CanLoot \/ c \in Immortals \/ same_group(c, p)

Kept(w, v) == Fit(v) /\ Lacks(v, SubIssue) /\ KeepsUnique(w, v) /\ KeepsGraves(w, v)

\* Where nothing comes into anybody's hands nobody gets a second copy, or loots a corpse.
LEMMA EasyKept ==
    ASSUME NEW w, Fit(w), NEW v, Fit(v), Lacks(v, SubIssue), Easy(w, v)
    PROVE  Kept(w, v)
<1>1. Placed(w) /\ Placed(v)
    BY DEF Fit, Sound
<1>2. KeepsUnique(w, v)
    <2> SUFFICES ASSUME NEW c \in Players
                 PROVE  Holds(v, c) \subseteq Holds(w, c)
        BY DEF KeepsUnique
    <2>1. c \in Chars
        BY Sorts
    <2>2. Holds(w, c) = Below(w.at, c) \cap Things
        BY <1>1, <2>1, HoldsBelow
    <2>3. Holds(v, c) = Below(v.at, c) \cap Things
        BY <1>1, <2>1, HoldsBelow
    <2> QED
        BY <2>1, <2>2, <2>3 DEF Easy
<1>3. KeepsGraves(w, v)
    BY Sorts DEF KeepsGraves, Easy
<1> QED
    BY <1>2, <1>3 DEF Kept

\* A thing may be handed to somebody who has no other of its kind.
MayHave(w, o, c) ==
    \A k \in Uniques : k \cap Holds(w, c) # {} => k \cap Below(w.at, o) = {}

\* Nor where one thing is handed to somebody that may have it.
LEMMA HandedKept ==
    ASSUME NEW w, Fit(w), NEW v, Fit(v), Lacks(v, SubIssue), NEW o \in Things, NEW c \in Chars,
           Handed(w, v, o, c),
           c \in Players \ Thieves => MayHave(w, o, c) \/ o \in Below(w.at, c),
           w.at[o] \in Corpses /\ c \in Players => can_loot(w, c, w.at[o])
    PROVE  Kept(w, v)
<1>1. Placed(w) /\ Placed(v)
    BY DEF Fit, Sound
<1>2. KeepsUnique(w, v)
    <2> SUFFICES ASSUME NEW d \in Players \ Thieves, NEW k \in Uniques, k \cap Holds(w, d) # {}
                 PROVE  k \cap Holds(v, d) \subseteq Holds(w, d)
        BY DEF KeepsUnique
    <2>1. d \in Chars
        BY Sorts
    <2>2. Holds(w, d) = Below(w.at, d) \cap Things
        BY <1>1, <2>1, HoldsBelow
    <2>3. Holds(v, d) = Below(v.at, d) \cap Things
        BY <1>1, <2>1, HoldsBelow
    <2>4. CASE d = c
        <3>1. Below(v.at, d) \subseteq Below(w.at, d) \cup Below(w.at, o)
            BY <2>1, <2>4 DEF Handed
        <3>2. CASE MayHave(w, o, c)
            <4>1. k \cap Below(w.at, o) = {}
                BY <2>4, <3>2 DEF MayHave
            <4> QED
                BY <2>2, <2>3, <3>1, <4>1
        <3>3. CASE o \in Below(w.at, c)
            <4>1. Below(w.at, o) \subseteq Below(w.at, c)
                BY <3>3, BelowWithin DEF Bodies
            <4> QED
                BY <2>2, <2>3, <2>4, <3>1, <4>1
        <3> QED
            BY <2>4, <3>2, <3>3
    <2>5. CASE d # c
        <3>1. Below(v.at, d) \subseteq Below(w.at, d)
            BY <2>1, <2>5 DEF Handed
        <3> QED
            BY <2>2, <2>3, <3>1
    <2> QED
        BY <2>4, <2>5
<1>3. KeepsGraves(w, v)
    <2> SUFFICES ASSUME NEW k \in Corpses, NEW d \in Players, NEW x \in Things,
                        w.owner[k] # Nowhere, w.room[w.owner[k]] # Nowhere, w.at[x] = k, v.at[x] = d
                 PROVE  w.owner[k] \in CanLoot \/ d \in Immortals \/ same_group(d, w.owner[k])
        BY DEF KeepsGraves
    <2>1. d \in Chars /\ k \in Things /\ k \notin Chars
        BY Sorts
    <2>2. x = o /\ d = c
        BY <2>1 DEF Handed
    <2>3. can_loot(w, c, k)
        BY <2>2
    <2> QED
        BY <2>2, <2>3 DEF can_loot
<1> QED
    BY <1>2, <1>3 DEF Kept

\* The check that there is no second copy.
LEMMA UniqueChecked ==
    ASSUME NEW w, Placed(w), NEW source, NEW c \in Players, source # c, NEW o \in Things,
           ~obj_move_violates_uniqueness(w, source, c, o, Carrying(w, c))
    PROVE  MayHave(w, o, c)
<1> SUFFICES ASSUME NEW k \in Uniques, k \cap Holds(w, c) # {}
             PROVE  k \cap Below(w.at, o) = {}
    BY DEF MayHave
<1>1. c \notin Keepers
    BY ThingsAssumption
<1>2. k \in collect_unique_obj_indexes(w, Carrying(w, c))
    <2>1. PICK y : y \in k /\ y \in Holds(w, c)
        OBVIOUS
    <2>2. PICK x \in Carrying(w, c) : y \in Inside(w, x)
        BY <2>1 DEF Holds
    <2>3. Inside(w, x) \cap k # {}
        BY <2>1, <2>2
    <2> QED
        BY <2>2, <2>3 DEF collect_unique_obj_indexes
<1>3. k \notin collect_unique_obj_indexes(w, {o})
    BY <1>1, <1>2 DEF obj_move_violates_uniqueness
<1>4. Inside(w, o) \cap k = {}
    BY <1>3 DEF collect_unique_obj_indexes
<1> QED
    BY <1>4, InsideIsBelow

\* A thing that nobody has is put into somebody's hands.
LEMMA HandedOver ==
    ASSUME NEW w, Sound(w), NEW u, Sound(u), Easy(w, u), NEW o \in Things, u.at[o] \notin Bodies,
           Below(u.at, o) = Below(w.at, o), NEW c \in Chars,
           NEW v, v.at = [u.at EXCEPT ![o] = c]
    PROVE  Handed(w, v, o, c)
<1>0. DOMAIN u.at = Things
    BY DEF Sound, Kinds, Places
<1>1. Alike(u.at, v.at, o) /\ v.at[o] = c
    BY <1>0 DEF Alike
<1>2. c \notin Below(u.at, o)
    <2>1. o \in Bodies /\ Below(u.at, o) \subseteq Things \cup {o}
        BY BelowCases DEF Bodies
    <2> QED
        BY <2>1, Sorts
<1>3. ASSUME NEW d \in Players
      PROVE  Below(v.at, d) \subseteq Below(w.at, d) \cup (IF d = c THEN Below(w.at, o) ELSE {})
    <2>1. d \in Bodies /\ d # o /\ d \in Chars
        BY Sorts DEF Bodies
    <2>2. /\ v.at[o] \in Below(u.at, d) => Below(v.at, d) = Below(u.at, d) \cup Below(u.at, o)
          /\ v.at[o] \notin Below(u.at, d) => Below(v.at, d) = Below(u.at, d)
        <3>1. v.at[o] \notin Below(u.at, o)
            BY <1>1, <1>2
        <3>2. /\ d # o /\ v.at[o] \in Below(u.at, d) =>
                     /\ Below(v.at, d) = Below(u.at, d) \cup Below(u.at, o)
                     /\ Below(u.at, d) \cap Below(u.at, o) = {}
              /\ d = o \/ v.at[o] \notin Below(u.at, d) => Below(v.at, d) = Below(u.at, d)
            BY <1>1, <2>1, <3>1, PutBelow
        <3> QED
            BY <2>1, <3>2
    <2>3. c \in Below(u.at, d) => d = c
        BY <2>1, BelowSelf, Sorts DEF Bodies
    <2>4. Below(u.at, d) \subseteq Below(w.at, d)
        BY <2>1 DEF Easy
    <2> QED
        BY <1>1, <2>2, <2>3, <2>4
<1>4. \A x \in Things : v.at[x] \in Chars => v.at[x] = w.at[x] \/ (x = o /\ v.at[x] = c)
    BY <1>1 DEF Alike, Easy
<1> QED
    BY <1>3, <1>4 DEF Handed

\* Something not worn is put somewhere.
LEMMA FitPut ==
    ASSUME NEW w, Fit(w), NEW v, Sound(v), Untouched(w, v), NEW o \in Things, NEW q,
           v.at = [w.at EXCEPT ![o] = q], v.worn = w.worn, w.at[o] \notin Chars,
           v.light = w.light, \A x : Shining(v, x) = Shining(w, x)
    PROVE  Fit(v)
<1>0. DOMAIN w.at = Things /\ w.worn[o] = NotWorn
    BY Sorts DEF Fit, Sound, Kinds, Places, Dressed, Bodies
<1>1. Lighted(v)
    BY DEF Fit, Lighted
<1>2. ASSUME NEW c \in Players
      PROVE  Armed(v, c)
    <2>1. Armed(w, c)
        BY DEF Fit, AllArmed
    <2>2. \A x \in Things : v.at[x] = c /\ v.worn[x] = "wield" => w.at[x] = c /\ w.worn[x] = "wield"
        BY <1>0 DEF NotWorn
    <2>3. \A x \in Girdles : w.at[x] = c /\ w.worn[x] = "waist" => v.at[x] = c /\ v.worn[x] = "waist"
        BY <1>0, Sorts DEF NotWorn
    <2>4. c \in v.weak => c \in w.weak
        BY DEF Untouched
    <2> QED
        BY ONLY <2>1, <2>2, <2>3, <2>4, GripKept
<1> QED
    BY <1>1, <1>2 DEF Fit, AllArmed

\* What is put in no hands, nor in what anybody has, is put easily.
LEMMA PutEasy ==
    ASSUME NEW w, Sound(w), NEW o \in Things, w.at[o] \notin Bodies, NEW q, q \notin Below(w.at, o),
           \A c \in Chars : q \notin Below(w.at, c),
           NEW v, v.at = [w.at EXCEPT ![o] = q]
    PROVE  Easy(w, v)
<1>0. DOMAIN w.at = Things
    BY DEF Sound, Kinds, Places
<1>1. Alike(w.at, v.at, o) /\ v.at[o] = q
    BY <1>0 DEF Alike
<1>2. \A c \in Chars : c \in Bodies /\ c # o /\ c \in Below(w.at, c)
    BY Sorts, BelowLeast DEF Bodies
<1>3. \A c \in Chars : Below(v.at, c) = Below(w.at, c)
    <2> SUFFICES ASSUME NEW c \in Chars
                 PROVE  Below(v.at, c) = Below(w.at, c)
        OBVIOUS
    <2>1. c = o \/ v.at[o] \notin Below(w.at, c) => Below(v.at, c) = Below(w.at, c)
        BY <1>1, <1>2, PutBelow
    <2> QED
        BY <1>1, <2>1
<1>4. q \notin Chars
    BY <1>2
<1> QED
    BY <1>1, <1>3, <1>4 DEF Easy, Alike

\* Where one thing moves no heap loses its worth.
LEMMA BidesCoins ==
    ASSUME NEW w, Sound(w), NEW v, Untouched(w, v), NEW o \in Things, Bides(w, v, o),
           o \in Money => v.at[o] = w.at[o] \/ (v.at[o] \notin Chars \cup {Nowhere} /\ w.at[o] # Nowhere)
    PROVE  Coins_(w, v)
<1> SUFFICES ASSUME NEW m \in Money
             PROVE  \/ v.at[m] \notin Chars \cup {Nowhere} /\ w.at[m] # Nowhere
                    \/ v.at[m] = w.at[m]
    BY DEF Coins_, Untouched
<1>1. m \in Things
    BY Sorts
<1>2. CASE m = o
    BY <1>2
<1>3. CASE m # o /\ Falls(w, v, m)
    <2>1. v.at[m] \in Rooms
        BY <1>1, <1>3, FallsToFloor
    <2>2. w.at[m] \in Players
        BY <1>3 DEF Falls
    <2> QED
        BY <2>1, <2>2, Sorts DEF Bodies
<1>4. CASE m # o /\ ~Falls(w, v, m)
    BY <1>1, <1>4 DEF Bides
<1> QED
    BY <1>2, <1>3, <1>4

\* What is extracted takes only its own coins with it.
LEMMA ExtractedCoins ==
    ASSUME NEW w, Sound(w), NEW v, NEW o \in Things, Extracted_(w, v, o)
    PROVE  Coins_(w, v)
<1> SUFFICES ASSUME NEW m \in Money
             PROVE  \/ v.at[m] = Nowhere /\ v.coins[m] = 0
                    \/ v.at[m] \notin Chars \cup {Nowhere} /\ w.at[m] # Nowhere /\ v.coins[m] = w.coins[m]
                    \/ v.at[m] = w.at[m] /\ v.coins[m] = w.coins[m]
    BY DEF Coins_
<1>1. m \in Things
    BY Sorts
<1>2. v.coins[m] = IF m \in Below(w.at, o) THEN 0 ELSE w.coins[m]
    BY DEF Extracted_
<1>3. CASE Falls(w, v, m)
    <2>1. v.at[m] \in Rooms
        BY <1>1, <1>3, FallsToFloor
    <2>2. w.at[m] \in Players
        BY <1>3 DEF Falls
    <2>3. m \notin Below(w.at, o)
        BY <1>1, <2>1, Sorts DEF Extracted_
    <2> QED
        BY <1>2, <2>1, <2>2, <2>3, Sorts DEF Bodies
<1>4. CASE ~Falls(w, v, m)
    BY <1>1, <1>2, <1>4 DEF Extracted_
<1> QED
    BY <1>3, <1>4

-----------------------------------------------------------------------------
(***************************************************************************)
(* A thing leaves somebody's hands for somewhere else.                     *)
(***************************************************************************)
\* obj_from_char: it is Lost, and all accounts hold.
LEMMA TakenFrom ==
    ASSUME NEW w, Fit(w), NEW o \in Things, w.at[o] \in Chars, NEW u, u = obj_from_char(w, o)
    PROVE  /\ Fit(u) /\ Untouched(w, u) /\ Bides(w, u, o)
           /\ u.at[o] = Lost /\ u.at[o] \notin Bodies /\ u.at[o] \notin Chars /\ u.worn[o] = NotWorn
           /\ Easy(w, u) /\ Below(u.at, o) = Below(w.at, o)
<1>1. /\ Sound(u) /\ Untouched(w, u) /\ (Lighted(w) => Lighted(u))
      /\ u.at[o] = Lost /\ u.worn[o] = NotWorn /\ Bides(w, u, o)
      /\ AllArmed(w) => AllArmed(u)
    BY FromHands DEF Fit
<1>2. u.at[o] \notin Bodies /\ u.at[o] \notin Chars
    BY <1>1, Sorts DEF Bodies
<1>3. Easy(w, u)
    BY <1>1, <1>2, BidesEasy DEF Fit
<1>4. Below(u.at, o) = Below(w.at, o)
    BY <1>1, BidesBelow DEF Fit, Sound
<1> QED
    BY <1>1, <1>2, <1>3, <1>4 DEF Fit

\* What bides while a thing is taken, bides when it is put somewhere.
LEMMA BidesOn ==
    ASSUME NEW w, NEW u, NEW v, NEW o \in Things, Bides(w, u, o), Untouched(w, u),
           DOMAIN u.at = Things, NEW q, v.at = [u.at EXCEPT ![o] = q], v.worn = u.worn
    PROVE  Bides(w, v, o) /\ v.at[o] = q
    BY DEF Bides, Falls

\* What two steps leave alone.
LEMMA UntouchedOn ==
    ASSUME NEW w, NEW u, NEW v, Untouched(w, u), Untouched(u, v)
    PROVE  Untouched(w, v)
    BY DEF Untouched

\* obj_from_char and obj_to_char: somebody else has it now.
LEMMA GivenOver ==
    ASSUME NEW w, Fit(w), NEW o \in Things, w.at[o] \in Chars, NEW c \in Chars, w.room[c] # Nowhere,
           NEW v, v = obj_to_char(obj_from_char(w, o), o, c)
    PROVE  /\ Fit(v) /\ Untouched(w, v) /\ Bides(w, v, o) /\ v.at[o] = c
           /\ Handed(w, v, o, c)
<1> DEFINE u == obj_from_char(w, o)
<1>1. /\ Fit(u) /\ Untouched(w, u) /\ Bides(w, u, o)
      /\ u.at[o] = Lost /\ u.at[o] \notin Bodies /\ u.at[o] \notin Chars /\ u.worn[o] = NotWorn
      /\ Easy(w, u) /\ Below(u.at, o) = Below(w.at, o)
    BY TakenFrom
<1>2. v = obj_to_char(u, o, c)
    OBVIOUS
<1> HIDE DEF u
<1>3. u.room[c] # Nowhere /\ Sound(u) /\ Sound(w) /\ DOMAIN u.at = Things
    BY <1>1 DEF Untouched, Fit, Sound, Kinds, Places
<1>4. /\ Sound(v) /\ Untouched(u, v)
      /\ v.at = [u.at EXCEPT ![o] = c] /\ v.worn = u.worn
      /\ v.light = u.light /\ (\A x : Shining(v, x) = Shining(u, x))
    BY <1>1, <1>2, <1>3, ToHands
<1>5. Fit(v)
    BY <1>1, <1>4, FitPut
<1>6. Bides(w, v, o) /\ v.at[o] = c
    BY <1>1, <1>3, <1>4, BidesOn
<1>7. Handed(w, v, o, c)
    BY <1>1, <1>3, <1>4, HandedOver
<1> QED
    BY <1>1, <1>4, <1>5, <1>6, <1>7, UntouchedOn

\* obj_from_char and obj_to_room: it lies on the floor.
LEMMA LaidDown ==
    ASSUME NEW w, Fit(w), NEW o \in Things, w.at[o] \in Chars, NEW r \in Rooms,
           NEW v, v = obj_to_room(obj_from_char(w, o), o, r)
    PROVE  /\ Fit(v) /\ Untouched(w, v) /\ Bides(w, v, o) /\ v.at[o] = r
           /\ Easy(w, v)
<1> DEFINE u == obj_from_char(w, o)
<1>1. /\ Fit(u) /\ Untouched(w, u) /\ Bides(w, u, o)
      /\ u.at[o] = Lost /\ u.at[o] \notin Bodies /\ u.at[o] \notin Chars /\ u.worn[o] = NotWorn
      /\ Easy(w, u) /\ Below(u.at, o) = Below(w.at, o)
    BY TakenFrom
<1>2. v = obj_to_room(u, o, r)
    OBVIOUS
<1> HIDE DEF u
<1>3. Sound(u) /\ Sound(w) /\ DOMAIN u.at = Things
    BY <1>1 DEF Fit, Sound, Kinds, Places
<1>4. /\ Sound(v) /\ Untouched(u, v)
      /\ v.at = [u.at EXCEPT ![o] = r] /\ v.worn = u.worn
      /\ v.light = u.light /\ (\A x : Shining(v, x) = Shining(u, x))
    BY <1>1, <1>2, <1>3, ToRoom
<1>5. Fit(v)
    BY <1>1, <1>4, FitPut
<1>6. Bides(w, v, o) /\ v.at[o] = r
    BY <1>1, <1>3, <1>4, BidesOn
<1>7. v.at[o] \notin Bodies
    BY <1>6, Sorts DEF Bodies
<1>8. Easy(w, v)
    BY <1>3, <1>6, <1>7, BidesEasy
<1> QED
    BY <1>1, <1>4, <1>5, <1>6, <1>8, UntouchedOn

\* k is not in the thing that is put into it; who has k now has the thing,
\* and had it before or is nobody.
LEMMA PutAway ==
    ASSUME NEW w, Fit(w), NEW o \in Things, w.at[o] \in Chars,
           NEW k \in Vessels, k # o, w.at[k] \notin Things \cup {Nowhere},
           \A c \in Chars : k \in Below(w.at, c) => c = w.at[o],
           NEW v, v = obj_to_obj(obj_from_char(w, o), o, k)
    PROVE  /\ Fit(v) /\ Untouched(w, v) /\ Bides(w, v, o) /\ v.at[o] = k
           /\ Easy(w, v)
<1> DEFINE u == obj_from_char(w, o)
<1>1. /\ Fit(u) /\ Untouched(w, u) /\ Bides(w, u, o)
      /\ u.at[o] = Lost /\ u.at[o] \notin Bodies /\ u.at[o] \notin Chars /\ u.worn[o] = NotWorn
      /\ Easy(w, u) /\ Below(u.at, o) = Below(w.at, o)
    BY TakenFrom
<1>2. v = obj_to_obj(u, o, k)
    OBVIOUS
<1> HIDE DEF u
<1>3. Sound(u) /\ Sound(w) /\ DOMAIN u.at = Things
    BY <1>1 DEF Fit, Sound, Kinds, Places
<1>k. k \in Things /\ k \in Bodies /\ o \in Bodies /\ k \notin Chars
    BY Sorts DEF Bodies
<1>4. u.at[k] # Nowhere
    <2>1. Falls(w, u, k) => u.at[k] # Nowhere
        BY <1>3, <1>k, FallsToFloor
    <2> QED
        BY <1>1, <1>k, <2>1 DEF Bides
<1>5. k \notin Below(u.at, o)
    <2>1. k \in Below(w.at, o) => w.at[k] \in Below(w.at, o)
        BY <1>k, BelowCases
    <2>2. Below(w.at, o) \subseteq Things
        BY <1>k, BelowCases
    <2> QED
        BY <1>1, <2>1, <2>2
<1>6. /\ Sound(v) /\ Untouched(u, v)
      /\ v.at = [u.at EXCEPT ![o] = k] /\ v.worn = u.worn
      /\ v.light = u.light /\ (\A x : Shining(v, x) = Shining(u, x))
    BY <1>1, <1>2, <1>3, <1>4, <1>5, ToVessel
<1>7. Fit(v)
    BY <1>1, <1>6, FitPut
<1>8. Bides(w, v, o) /\ v.at[o] = k
    BY <1>1, <1>3, <1>6, BidesOn
<1>9. Easy(w, v)
    <2>1. \A x \in Things : v.at[x] \in Chars => v.at[x] = w.at[x]
        BY <1>1, <1>3, <1>k, <1>6 DEF Easy
    <2>2. ASSUME NEW d \in Chars
          PROVE  Below(v.at, d) \subseteq Below(w.at, d)
        <3>0. d \in Bodies /\ d # o /\ v.at[o] = k /\ Alike(u.at, v.at, o)
            BY <1>3, <1>6, Sorts DEF Bodies, Alike
        <3>1. /\ d # o /\ v.at[o] \in Below(u.at, d) =>
                     /\ Below(v.at, d) = Below(u.at, d) \cup Below(u.at, o)
                     /\ Below(u.at, d) \cap Below(u.at, o) = {}
              /\ d = o \/ v.at[o] \notin Below(u.at, d) => Below(v.at, d) = Below(u.at, d)
            BY <1>1, <1>5, <3>0, PutBelow
        <3>2. Below(u.at, d) \subseteq Below(w.at, d)
            BY <1>1 DEF Easy
        <3>3. ASSUME k \in Below(u.at, d)
              PROVE  Below(u.at, o) \subseteq Below(w.at, d)
            <4>1. w.at[o] = d
                BY <3>2, <3>3
            <4>2. o \in Below(w.at, d)
                BY <3>0, <4>1, BelowLeast DEF Shut
            <4>3. Below(w.at, o) \subseteq Below(w.at, d)
                BY <3>0, <4>2, BelowWithin
            <4> QED
                BY <1>1, <4>3
        <3> QED
            BY <3>0, <3>1, <3>2, <3>3
    <2> QED
        BY <2>1, <2>2 DEF Easy
<1> QED
    BY <1>1, <1>6, <1>7, <1>8, <1>9, UntouchedOn

\* What is nowhere is in nothing.
LEMMA LooseApart ==
    ASSUME NEW at, NEW k \in Things, at[k] \notin Bodies, NEW p \in Bodies, k \in Below(at, p)
    PROVE  k = p
<1>1. k = p \/ at[k] \in Below(at, p)
    BY BelowCases
<1>2. Below(at, p) \subseteq Bodies
    BY DEF Below
<1> QED
    BY <1>1, <1>2

-----------------------------------------------------------------------------
(***************************************************************************)
(* What is in hand goes into the corpse.                                   *)
(***************************************************************************)
\* The things of s have left the hands of c.
Stripped(w, v, c, k, s) ==
    /\ Fit(v) /\ v.gold = w.gold /\ v.room = w.room /\ v.weak = w.weak
    /\ v.at[k] = Lost /\ Lacks(v, SubIssue \cup {k}) /\ Easy(w, v) /\ Coins_(w, v)
    /\ \A o \in s : v.at[o] # c
    /\ \A x \in Things : w.at[x] = k => v.at[x] = k

\* Nothing has happened yet.
LEMMA EasyBegins ==
    ASSUME NEW w
    PROVE  Easy(w, w) /\ Coins_(w, w)
    BY DEF Easy, Coins_

\* One more of the dead's belongings is put into the corpse.
LEMMA IntoCorpseIs ==
    ASSUME NEW w, NEW c \in Chars, NEW k \in Corpses, NEW s \in SUBSET Things, NEW o \in s,
           NEW u, Stripped(w, u, c, k, s \ {o}),
           NEW v, v = IntoCorpse(u, c, k, o)
    PROVE  Stripped(w, v, c, k, s)
<1>0. /\ k \in Things /\ k \in Vessels /\ Lost \notin Bodies /\ c \notin {Lost, Nowhere, k} /\ o \in Things
      /\ u.at[k] \notin Bodies /\ o \in Bodies /\ Lost # Nowhere /\ k \notin Chars \cup {Nowhere}
      /\ Lost \notin Players \cup Things \cup {Nowhere} /\ u.at[k] \notin Things \cup {Nowhere}
      /\ u.at[k] = Lost /\ k # Lost
    BY Sorts DEF Bodies, Stripped
<1>1. Fit(u) /\ Sound(u)
    BY DEF Stripped, Fit
<1>2. CASE u.at[o] # c
    BY <1>2 DEF IntoCorpse, Stripped
<1>3. CASE u.at[o] = c /\ o \in Stock
    <2>1. v = extract_obj(u, o)
        BY <1>3 DEF IntoCorpse
    <2>2. Fit(v) /\ Extracted_(u, v, o)
        BY <1>0, <1>1, <2>1, ExtractIs DEF Fit
    <2>3. Easy(u, v)
        BY <1>0, <1>1, <2>2, ExtractedEasy
    <2>4. Coins_(u, v)
        BY <1>0, <1>1, <2>2, ExtractedCoins
    <2>5. Lacks(v, SubIssue \cup {k})
        BY <1>0, <1>1, <2>2, ExtractedLacks DEF Stripped
    <2>6. v.at[k] = Lost
        <3>1. k \notin Below(u.at, o)
            BY <1>0, <1>3, LooseApart
        <3> QED
            BY <1>0, <2>2, <3>1 DEF Extracted_, Falls, Stripped
    <2>7. v.at[o] = Nowhere
        <3>1. o \in Below(u.at, o)
            BY <1>0, BelowLeast
        <3> QED
            BY <1>0, <2>2, <3>1 DEF Extracted_
    <2>8. \A x \in s : v.at[x] # c
        BY <1>0, <2>3, <2>7 DEF Easy, Stripped
    <2>9. v.gold = w.gold /\ v.room = w.room /\ v.weak = w.weak
        BY <2>2 DEF Extracted_, Stripped
    <2>10. Easy(w, v) /\ Coins_(w, v)
        BY <2>3, <2>4, EasyOn, CoinsOn DEF Stripped
    <2>11. ASSUME NEW x \in Things, w.at[x] = k
           PROVE  v.at[x] = k
        <3>1. u.at[x] = k
            BY <2>11 DEF Stripped
        <3>2. x \notin Below(u.at, o)
            <4>1. x # o
                BY <1>0, <1>3, <3>1
            <4>2. x \in Below(u.at, o) => k \in Below(u.at, o)
                BY <1>0, <3>1, <4>1, BelowCases
            <4>3. k # o
                BY <1>0, <1>3
            <4> QED
                BY <1>0, <4>2, <4>3, LooseApart
        <3> QED
            BY <1>0, <2>2, <3>1, <3>2, Sorts DEF Extracted_, Falls
    <2> QED
        BY <2>2, <2>5, <2>6, <2>8, <2>9, <2>10, <2>11 DEF Stripped
<1>4. CASE u.at[o] = c /\ o \notin Stock
    <2>1. v = obj_to_obj(obj_from_char(u, o), o, k)
        BY <1>4 DEF IntoCorpse
    <2>2. \A d \in Chars : k \in Below(u.at, d) => d = u.at[o]
        <3>1. \A d \in Chars : d \in Bodies /\ d # k
            BY <1>0 DEF Bodies
        <3> QED
            BY <1>0, <3>1, LooseApart
    <2>3. k # o
        BY <1>0, <1>4
    <2>4. /\ Fit(v) /\ Untouched(u, v) /\ Bides(u, v, o) /\ v.at[o] = k
          /\ Easy(u, v)
        BY <1>0, <1>1, <1>4, <2>1, <2>2, <2>3, PutAway
    <2>5. Coins_(u, v)
        BY <1>0, <1>1, <1>4, <2>4, BidesCoins
    <2>6. Lacks(v, SubIssue \cup {k})
        BY <1>0, <1>1, <2>4, BidesLacks DEF Stripped
    <2>7. v.at[k] = Lost
        BY <1>0, <2>3, <2>4 DEF Bides, Falls, Stripped
    <2>8. \A x \in s : v.at[x] # c
        BY <1>0, <2>4 DEF Easy, Stripped
    <2>9. v.gold = w.gold /\ v.room = w.room /\ v.weak = w.weak
        BY <2>4 DEF Untouched, Stripped
    <2>10. Easy(w, v) /\ Coins_(w, v)
        BY <2>4, <2>5, EasyOn, CoinsOn DEF Stripped
    <2>11. ASSUME NEW x \in Things, w.at[x] = k
           PROVE  v.at[x] = k
        <3>1. u.at[x] = k
            BY <2>11 DEF Stripped
        <3>2. ~Falls(u, v, x)
            BY <1>0, <3>1, Sorts DEF Falls
        <3> QED
            BY <2>4, <3>1, <3>2 DEF Bides
    <2> QED
        BY <2>4, <2>6, <2>7, <2>8, <2>9, <2>10, <2>11 DEF Stripped
<1> QED
    BY <1>2, <1>3, <1>4

Strip(w, c, k, S) == FoldSet(LAMBDA o, u : IntoCorpse(u, c, k, o), w, S)

Stripping(iter, w, c, k, S) ==
    iter = [s \in SUBSET S |-> IF s = {} THEN w ELSE IntoCorpse(iter[s \ {Pick(s)}], c, k, Pick(s))]

\* What stripping somebody computes is where its fold ends.
LEMMA StripIter ==
    ASSUME NEW w, NEW c, NEW k, NEW S
    PROVE  Strip(w, c, k, S) = (CHOOSE iter : Stripping(iter, w, c, k, S))[S]
    BY DEF Strip, Stripping, FoldSet, MapThenFoldSet, Pick

\* make_corpse's loop: all of what was carried is in the corpse, on the floor or gone.
LEMMA StripIs ==
    ASSUME NEW w, Fit(w), NEW c \in Chars, NEW k \in Corpses, w.at[k] = Lost, Lacks(w, SubIssue \cup {k}),
           NEW S \in SUBSET Things, NEW v, v = Strip(w, c, k, S)
    PROVE  Stripped(w, v, c, k, S)
<1> DEFINE G == [p \in S \X Kinds |-> IntoCorpse(p[2], c, k, p[1])]
           R == [s \in SUBSET S |-> {u \in Kinds : Stripped(w, u, c, k, s)}]
<1>1. IsFiniteSet(S)
    BY ThingsFinite, FS_Subset
<1>2. \A s, u : Stripped(w, u, c, k, s) => u \in Kinds
    BY DEF Stripped, Fit, Sound
<1>3. Stripped(w, w, c, k, {})
    BY EasyBegins DEF Stripped
<1>4. \A s \in SUBSET S : s # {} => Pick(s) \in s /\ Pick(s) \in S /\ s \in SUBSET Things
    BY DEF Pick
<1>5. ASSUME NEW s \in SUBSET S, NEW u, s # {}, Stripped(w, u, c, k, s \ {Pick(s)})
      PROVE  Stripped(w, IntoCorpse(u, c, k, Pick(s)), c, k, s)
    BY <1>4, <1>5, IntoCorpseIs
<1>6. \A s \in SUBSET S, u \in Kinds : s # {} => G[<<Pick(s), u>>] = IntoCorpse(u, c, k, Pick(s))
    BY <1>4
<1>7. \A s \in SUBSET S : \A u : u \in R[s] <=> u \in Kinds /\ Stripped(w, u, c, k, s)
    OBVIOUS
<1> HIDE DEF G, R
<1>a. {} \in SUBSET S /\ w \in R[{}]
    BY <1>2, <1>3, <1>7
<1>8. \A s \in SUBSET S : s # {} => \A u \in R[s \ {Pick(s)}] : G[<<Pick(s), u>>] \in R[s]
    <2> SUFFICES ASSUME NEW s \in SUBSET S, s # {}, NEW u \in R[s \ {Pick(s)}]
                 PROVE  G[<<Pick(s), u>>] \in R[s]
        OBVIOUS
    <2>1. u \in Kinds /\ Stripped(w, u, c, k, s \ {Pick(s)})
        BY <1>7
    <2>2. Stripped(w, IntoCorpse(u, c, k, Pick(s)), c, k, s)
        BY <1>5, <2>1
    <2> QED
        BY <1>2, <1>6, <1>7, <2>1, <2>2
<1>9. PICK g : Folded(g, S, w, G) /\ \A s \in SUBSET S : g[s] \in R[s]
    BY <1>1, <1>a, <1>8, FoldKeeps
<1>10. Stripping(g, w, c, k, S)
    <2>1. /\ g = [s \in SUBSET S |-> g[s]]
          /\ \A s \in SUBSET S : g[s] = IF s = {} THEN w ELSE G[<<Pick(s), g[s \ {Pick(s)}]>>]
        BY <1>9 DEF Folded
    <2>2. \A s \in SUBSET S : g[s] = IF s = {} THEN w ELSE IntoCorpse(g[s \ {Pick(s)}], c, k, Pick(s))
        <3>1. \A s \in SUBSET S : g[s \ {Pick(s)}] \in Kinds
            BY <1>7, <1>9
        <3> QED
            BY <1>6, <2>1, <3>1
    <2> QED
        BY <2>1, <2>2 DEF Stripping
<1> DEFINE it == CHOOSE iter : Stripping(iter, w, c, k, S)
<1>11. Stripping(it, w, c, k, S) /\ v = it[S]
    BY <1>10, StripIter
<1> HIDE DEF it
<1>12. \A s \in SUBSET S : it[s] = IF s = {} THEN w ELSE IntoCorpse(it[s \ {Pick(s)}], c, k, Pick(s))
    BY <1>11 DEF Stripping
<1> DEFINE T == {s \in SUBSET S : Stripped(w, it[s], c, k, s)}
<1>13. {} \in T
    <2>1. {} \in SUBSET S
        OBVIOUS
    <2>2. it[{}] = w
        BY <1>12, <2>1
    <2> QED
        BY <1>3, <1>7, <2>1, <2>2
<1>14. ASSUME NEW s \in SUBSET S, s # {}, \A x \in s : s \ {x} \in T
       PROVE  s \in T
    <2>1. Stripped(w, it[s \ {Pick(s)}], c, k, s \ {Pick(s)})
        BY <1>4, <1>14
    <2>2. Stripped(w, IntoCorpse(it[s \ {Pick(s)}], c, k, Pick(s)), c, k, s)
        BY <1>5, <1>14, <2>1
    <2>3. it[s] = IntoCorpse(it[s \ {Pick(s)}], c, k, Pick(s))
        BY <1>12, <1>14
    <2> QED
        BY <2>2, <2>3
<1> HIDE DEF T
<1>15. SUBSET S \subseteq T
    BY <1>1, <1>13, <1>14, SubsetsUp
<1> QED
    BY <1>11, <1>15 DEF T

\* Nothing lies in what is no container.
LEMMA BelowOnly ==
    ASSUME NEW w, Placed(w), NEW o \in Things, o \notin Vessels
    PROVE  Below(w.at, o) = {o}
<1>1. Inside(w, o) = {o}
    BY DEF Inside, Vessels
<1> QED
    BY <1>1, InsideIsBelow

-----------------------------------------------------------------------------
(***************************************************************************)
(* The coins on the floor are swept together.                              *)
(***************************************************************************)
Swept(w, v, s) ==
    /\ Fit(v) /\ v.gold = w.gold /\ v.room = w.room /\ v.weak = w.weak
    /\ Lacks(v, SubIssue) /\ Easy(w, v)
    /\ \A m \in Money :
          /\ v.coins[m] = IF m \in s THEN 0 ELSE w.coins[m]
          /\ m \in s => v.at[m] = Nowhere
          /\ m \notin s => v.at[m] = w.at[m] \/ (w.at[m] \in Chars /\ v.at[m] \in Rooms)

\* One more heap is swept up.
LEMMA SweepOne ==
    ASSUME NEW w, NEW s \in SUBSET Money, NEW h \in s, w.at[h] \in Rooms,
           NEW u, Swept(w, u, s \ {h}),
           NEW v, v = extract_obj(u, h)
    PROVE  Swept(w, v, s)
<1>0. h \in Things /\ h \notin Vessels /\ h \in Money /\ h \in Bodies
    BY Sorts DEF Bodies
<1>1. Fit(u) /\ Sound(u) /\ Placed(u)
    BY DEF Swept, Fit, Sound
<1>2. Fit(v) /\ Extracted_(u, v, h)
    BY <1>0, <1>1, ExtractIs DEF Fit
<1>3. Below(u.at, h) = {h}
    BY <1>0, <1>1, BelowOnly
<1>4. Easy(w, v)
    <2>1. Easy(u, v)
        BY <1>0, <1>1, <1>2, ExtractedEasy
    <2> QED
        BY <2>1, EasyOn DEF Swept
<1>5. Lacks(v, SubIssue)
    BY <1>0, <1>1, <1>2, ExtractedLacks DEF Swept
<1>6. v.gold = w.gold /\ v.room = w.room /\ v.weak = w.weak
    BY <1>2 DEF Extracted_, Swept
<1>7. ASSUME NEW m \in Money
      PROVE  /\ v.coins[m] = IF m \in s THEN 0 ELSE w.coins[m]
             /\ m \in s => v.at[m] = Nowhere
             /\ m \notin s => v.at[m] = w.at[m] \/ (w.at[m] \in Chars /\ v.at[m] \in Rooms)
    <2>0. m \in Things
        BY Sorts
    <2>1. v.coins[m] = IF m = h THEN 0 ELSE u.coins[m]
        BY <1>2, <1>3 DEF Extracted_
    <2>2. \/ m = h /\ v.at[m] = Nowhere
          \/ m # h /\ Falls(u, v, m)
          \/ m # h /\ v.at[m] = u.at[m]
        BY <1>2, <1>3, <2>0 DEF Extracted_
    <2>3. Falls(u, v, m) => u.at[m] \in Chars /\ v.at[m] \in Rooms
        <3>1. Falls(u, v, m) => v.at[m] \in Rooms
            BY <1>1, <2>0, FallsToFloor
        <3> QED
            BY <3>1, Sorts DEF Falls
    <2>4. /\ u.coins[m] = IF m \in s \ {h} THEN 0 ELSE w.coins[m]
          /\ m \in s \ {h} => u.at[m] = Nowhere
          /\ m \notin s \ {h} => u.at[m] = w.at[m] \/ (w.at[m] \in Chars /\ u.at[m] \in Rooms)
        BY DEF Swept
    <2> QED
        BY <2>1, <2>2, <2>3, <2>4, Sorts DEF Bodies
<1> QED
    BY <1>2, <1>4, <1>5, <1>6, <1>7 DEF Swept

Sweep(w, S) == FoldSet(LAMBDA h, u : extract_obj(u, h), w, S)

Sweeping(iter, w, S) ==
    iter = [s \in SUBSET S |-> IF s = {} THEN w ELSE extract_obj(iter[s \ {Pick(s)}], Pick(s))]

\* What sweeping computes is where its fold ends.
LEMMA SweepIter ==
    ASSUME NEW w, NEW S
    PROVE  Sweep(w, S) = (CHOOSE iter : Sweeping(iter, w, S))[S]
    BY DEF Sweep, Sweeping, FoldSet, MapThenFoldSet, Pick

\* The loop of do_drop: the heaps that lay there are gone.
LEMMA SweepIs ==
    ASSUME NEW w, Fit(w), Lacks(w, SubIssue), NEW S \in SUBSET Money, \A h \in S : w.at[h] \in Rooms,
           NEW v, v = Sweep(w, S)
    PROVE  Swept(w, v, S)
<1> DEFINE G == [p \in S \X Kinds |-> extract_obj(p[2], p[1])]
           R == [s \in SUBSET S |-> {u \in Kinds : Swept(w, u, s)}]
<1>1. IsFiniteSet(S)
    BY ThingsFinite, Sorts, FS_Subset
<1>2. \A s, u : Swept(w, u, s) => u \in Kinds
    BY DEF Swept, Fit, Sound
<1>3. Swept(w, w, {})
    BY EasyBegins DEF Swept
<1>4. \A s \in SUBSET S : s # {} => Pick(s) \in s /\ Pick(s) \in S /\ s \in SUBSET Money /\ w.at[Pick(s)] \in Rooms
    BY DEF Pick
<1>5. ASSUME NEW s \in SUBSET S, NEW u, s # {}, Swept(w, u, s \ {Pick(s)})
      PROVE  Swept(w, extract_obj(u, Pick(s)), s)
    BY <1>4, <1>5, SweepOne
<1>6. \A s \in SUBSET S, u \in Kinds : s # {} => G[<<Pick(s), u>>] = extract_obj(u, Pick(s))
    BY <1>4
<1>7. \A s \in SUBSET S : \A u : u \in R[s] <=> u \in Kinds /\ Swept(w, u, s)
    OBVIOUS
<1> HIDE DEF G, R
<1>a. {} \in SUBSET S /\ w \in R[{}]
    BY <1>2, <1>3, <1>7
<1>8. \A s \in SUBSET S : s # {} => \A u \in R[s \ {Pick(s)}] : G[<<Pick(s), u>>] \in R[s]
    <2> SUFFICES ASSUME NEW s \in SUBSET S, s # {}, NEW u \in R[s \ {Pick(s)}]
                 PROVE  G[<<Pick(s), u>>] \in R[s]
        OBVIOUS
    <2>1. u \in Kinds /\ Swept(w, u, s \ {Pick(s)})
        BY <1>7
    <2>2. Swept(w, extract_obj(u, Pick(s)), s)
        BY <1>5, <2>1
    <2> QED
        BY <1>2, <1>6, <1>7, <2>1, <2>2
<1>9. PICK g : Folded(g, S, w, G) /\ \A s \in SUBSET S : g[s] \in R[s]
    BY <1>1, <1>a, <1>8, FoldKeeps
<1>10. Sweeping(g, w, S)
    <2>1. /\ g = [s \in SUBSET S |-> g[s]]
          /\ \A s \in SUBSET S : g[s] = IF s = {} THEN w ELSE G[<<Pick(s), g[s \ {Pick(s)}]>>]
        BY <1>9 DEF Folded
    <2>2. \A s \in SUBSET S : g[s] = IF s = {} THEN w ELSE extract_obj(g[s \ {Pick(s)}], Pick(s))
        <3>1. \A s \in SUBSET S : g[s \ {Pick(s)}] \in Kinds
            BY <1>7, <1>9
        <3> QED
            BY <1>6, <2>1, <3>1
    <2> QED
        BY <2>1, <2>2 DEF Sweeping
<1> DEFINE it == CHOOSE iter : Sweeping(iter, w, S)
<1>11. Sweeping(it, w, S) /\ v = it[S]
    BY <1>10, SweepIter
<1> HIDE DEF it
<1>12. \A s \in SUBSET S : it[s] = IF s = {} THEN w ELSE extract_obj(it[s \ {Pick(s)}], Pick(s))
    BY <1>11 DEF Sweeping
<1> DEFINE T == {s \in SUBSET S : Swept(w, it[s], s)}
<1>13. {} \in T
    <2>1. {} \in SUBSET S
        OBVIOUS
    <2>2. it[{}] = w
        BY <1>12, <2>1
    <2> QED
        BY <1>3, <2>1, <2>2
<1>14. ASSUME NEW s \in SUBSET S, s # {}, \A x \in s : s \ {x} \in T
       PROVE  s \in T
    <2>1. Swept(w, it[s \ {Pick(s)}], s \ {Pick(s)})
        BY <1>4, <1>14
    <2>2. Swept(w, extract_obj(it[s \ {Pick(s)}], Pick(s)), s)
        BY <1>5, <1>14, <2>1
    <2>3. it[s] = extract_obj(it[s \ {Pick(s)}], Pick(s))
        BY <1>12, <1>14
    <2> QED
        BY <2>2, <2>3
<1> HIDE DEF T
<1>15. SUBSET S \subseteq T
    BY <1>1, <1>13, <1>14, SubsetsUp
<1> QED
    BY <1>11, <1>15 DEF T

-----------------------------------------------------------------------------
(***************************************************************************)
(* A corpse crumbles, and what is in it comes to lie where it lay.         *)
(***************************************************************************)
SpillOne(o, x, w) == obj_to_room(obj_from_obj(w, x), x, w.at[o])

Spilled(w, v, o, s) ==
    /\ Fit(v) /\ Untouched(w, v) /\ Lacks(v, SubIssue) /\ Easy(w, v)
    /\ \A x \in Things : v.at[x] = IF x \in s THEN w.at[o] ELSE w.at[x]

\* One more of the things is spilled.
LEMMA SpillOneIs ==
    ASSUME NEW w, NEW o \in Things, w.at[o] \in Rooms, NEW s, s \subseteq Contents(w, o), NEW x \in s,
           NEW u, Spilled(w, u, o, s \ {x}),
           NEW v, v = SpillOne(o, x, u)
    PROVE  Spilled(w, v, o, s)
<1>0. Fit(u) /\ Sound(u) /\ Untouched(w, u) /\ DOMAIN u.at = Things
    BY DEF Spilled, Fit, Sound, Kinds, Places
<1>1. x \in Things /\ w.at[x] = o /\ u.at[x] = o /\ x # o /\ u.at[o] = w.at[o] /\ u.at[x] \notin Chars
    BY Sorts DEF Spilled, Contents
<1> DEFINE mid == obj_from_obj(u, x)
<1>2. v = obj_to_room(mid, x, w.at[o]) /\ mid = obj_from_obj(u, x)
    BY <1>1 DEF SpillOne
<1> HIDE DEF mid
<1>3. /\ Sound(mid) /\ Untouched(u, mid)
      /\ mid.at = [u.at EXCEPT ![x] = Lost] /\ mid.worn = u.worn
      /\ mid.light = u.light /\ (\A r : Shining(mid, r) = Shining(u, r))
    BY <1>0, <1>1, <1>2, FromVessel
<1>4. Fit(mid)
    BY <1>0, <1>1, <1>3, FitPut
<1>5. mid.at[x] = Lost /\ mid.at[x] \notin Bodies /\ mid.at[x] \notin Chars /\ DOMAIN mid.at = Things
    BY <1>0, <1>1, <1>3, Sorts DEF Bodies
<1>6. /\ Sound(v) /\ Untouched(mid, v)
      /\ v.at = [mid.at EXCEPT ![x] = w.at[o]] /\ v.worn = mid.worn
      /\ v.light = mid.light /\ (\A r : Shining(v, r) = Shining(mid, r))
    BY <1>1, <1>2, <1>3, <1>5, ToRoom
<1>7. Fit(v)
    BY <1>1, <1>4, <1>5, <1>6, FitPut
<1>8. \A y \in Things : v.at[y] = IF y = x THEN w.at[o] ELSE u.at[y]
    BY <1>0, <1>1, <1>3, <1>5, <1>6
<1>9. Easy(u, v)
    <2>1. \A y \in Things : v.at[y] \in Bodies => v.at[y] = u.at[y]
        BY <1>8, Sorts DEF Bodies
    <2> QED
        BY <2>1, EasySame
<1>10. Easy(w, v)
    BY <1>9, EasyOn DEF Spilled
<1>11. Lacks(v, SubIssue)
    BY <1>8, Sorts DEF Lacks, Spilled
<1>12. Untouched(w, v)
    BY <1>0, <1>3, <1>6 DEF Untouched
<1>13. \A y \in Things : v.at[y] = IF y \in s THEN w.at[o] ELSE w.at[y]
    BY <1>8 DEF Spilled
<1> QED
    BY <1>7, <1>10, <1>11, <1>12, <1>13 DEF Spilled

Spills(w, o, S) == FoldSet(LAMBDA x, u : obj_to_room(obj_from_obj(u, x), x, u.at[o]), w, S)

Spilling(iter, w, o, S) ==
    iter = [s \in SUBSET S |-> IF s = {} THEN w ELSE SpillOne(o, Pick(s), iter[s \ {Pick(s)}])]

\* What spilling computes is where its fold ends.
LEMMA SpillIter ==
    ASSUME NEW w, NEW o, NEW S
    PROVE  Spills(w, o, S) = (CHOOSE iter : Spilling(iter, w, o, S))[S]
    BY DEF Spills, Spilling, SpillOne, FoldSet, MapThenFoldSet, Pick

\* obj_update's loop: what lay in it lies in the room, or is gone.
LEMMA SpillsIs ==
    ASSUME NEW w, Fit(w), Lacks(w, SubIssue), NEW o \in Things, w.at[o] \in Rooms,
           NEW S, S \subseteq Contents(w, o), NEW v, v = Spills(w, o, S)
    PROVE  Spilled(w, v, o, S)
<1> DEFINE G == [p \in S \X Kinds |-> SpillOne(o, p[1], p[2])]
           R == [s \in SUBSET S |-> {u \in Kinds : Spilled(w, u, o, s)}]
<1>1. IsFiniteSet(S)
    <2>1. S \subseteq Things
        BY DEF Contents
    <2> QED
        BY <2>1, ThingsFinite, FS_Subset
<1>2. \A s, u : Spilled(w, u, o, s) => u \in Kinds
    BY DEF Spilled, Fit, Sound
<1>3. Spilled(w, w, o, {})
    BY EasyBegins DEF Spilled, Untouched
<1>4. \A s \in SUBSET S : s # {} => Pick(s) \in s /\ Pick(s) \in S /\ s \subseteq Contents(w, o)
    BY DEF Pick
<1>5. ASSUME NEW s \in SUBSET S, NEW u, s # {}, Spilled(w, u, o, s \ {Pick(s)})
      PROVE  Spilled(w, SpillOne(o, Pick(s), u), o, s)
    BY <1>4, <1>5, SpillOneIs
<1>6. \A s \in SUBSET S, u \in Kinds : s # {} => G[<<Pick(s), u>>] = SpillOne(o, Pick(s), u)
    BY <1>4
<1>7. \A s \in SUBSET S : \A u : u \in R[s] <=> u \in Kinds /\ Spilled(w, u, o, s)
    OBVIOUS
<1> HIDE DEF G, R
<1>a. {} \in SUBSET S /\ w \in R[{}]
    BY <1>2, <1>3, <1>7
<1>8. \A s \in SUBSET S : s # {} => \A u \in R[s \ {Pick(s)}] : G[<<Pick(s), u>>] \in R[s]
    <2> SUFFICES ASSUME NEW s \in SUBSET S, s # {}, NEW u \in R[s \ {Pick(s)}]
                 PROVE  G[<<Pick(s), u>>] \in R[s]
        OBVIOUS
    <2>1. u \in Kinds /\ Spilled(w, u, o, s \ {Pick(s)})
        BY <1>7
    <2>2. Spilled(w, SpillOne(o, Pick(s), u), o, s)
        BY <1>5, <2>1
    <2> QED
        BY <1>2, <1>6, <1>7, <2>1, <2>2
<1>9. PICK g : Folded(g, S, w, G) /\ \A s \in SUBSET S : g[s] \in R[s]
    BY <1>1, <1>a, <1>8, FoldKeeps
<1>10. Spilling(g, w, o, S)
    <2>1. /\ g = [s \in SUBSET S |-> g[s]]
          /\ \A s \in SUBSET S : g[s] = IF s = {} THEN w ELSE G[<<Pick(s), g[s \ {Pick(s)}]>>]
        BY <1>9 DEF Folded
    <2>2. \A s \in SUBSET S : g[s] = IF s = {} THEN w ELSE SpillOne(o, Pick(s), g[s \ {Pick(s)}])
        <3>1. \A s \in SUBSET S : g[s \ {Pick(s)}] \in Kinds
            BY <1>7, <1>9
        <3> QED
            BY <1>6, <2>1, <3>1
    <2> QED
        BY <2>1, <2>2 DEF Spilling
<1> DEFINE it == CHOOSE iter : Spilling(iter, w, o, S)
<1>11. Spilling(it, w, o, S) /\ v = it[S]
    BY <1>10, SpillIter
<1> HIDE DEF it
<1>12. \A s \in SUBSET S : it[s] = IF s = {} THEN w ELSE SpillOne(o, Pick(s), it[s \ {Pick(s)}])
    BY <1>11 DEF Spilling
<1> DEFINE T == {s \in SUBSET S : Spilled(w, it[s], o, s)}
<1>13. {} \in T
    <2>1. {} \in SUBSET S
        OBVIOUS
    <2>2. it[{}] = w
        BY <1>12, <2>1
    <2> QED
        BY <1>3, <2>1, <2>2
<1>14. ASSUME NEW s \in SUBSET S, s # {}, \A x \in s : s \ {x} \in T
       PROVE  s \in T
    <2>1. Spilled(w, it[s \ {Pick(s)}], o, s \ {Pick(s)})
        BY <1>4, <1>14
    <2>2. Spilled(w, SpillOne(o, Pick(s), it[s \ {Pick(s)}]), o, s)
        BY <1>5, <1>14, <2>1
    <2>3. it[s] = SpillOne(o, Pick(s), it[s \ {Pick(s)}])
        BY <1>12, <1>14
    <2> QED
        BY <2>2, <2>3
<1> HIDE DEF T
<1>15. SUBSET S \subseteq T
    BY <1>1, <1>13, <1>14, SubsetsUp
<1> QED
    BY <1>11, <1>15 DEF T

(***************************************************************************)
(* Corpses and heaps of coins are made; somebody dies.                     *)
(***************************************************************************)
\* A thing is made that is nowhere yet.
LEMMA MadeLoose ==
    ASSUME NEW w, Fit(w), NEW o \in Things, w.at[o] = Nowhere, NEW v \in Kinds,
           v.at = [w.at EXCEPT ![o] = Lost],
           v.worn = w.worn, v.number = w.number, v.weight = w.weight,
           v.room = w.room, v.light = w.light, v.lit = w.lit, v.weak = w.weak
    PROVE  Fit(v) /\ Easy(w, v)
<1> DEFINE u == obj_from_room(w, o)
<1>0. Sound(w) /\ w.at[o] \notin Bodies /\ w.at[o] \notin Chars /\ DOMAIN w.at = Things
    BY Sorts DEF Fit, Sound, Kinds, Places, Bodies
<1>1. /\ Sound(u) /\ Untouched(w, u)
      /\ u.at = [w.at EXCEPT ![o] = Lost] /\ u.worn = w.worn
      /\ u.light = w.light /\ (\A x : Shining(u, x) = Shining(w, x))
    BY <1>0, FromRoom
<1>2. u.number = w.number /\ u.weight = w.weight
    BY <1>0 DEF obj_from_room, Sound, Kinds
<1> HIDE DEF u
<1>3. Fit(u)
    BY <1>0, <1>1, FitPut
<1>4. Fit(v)
    BY <1>1, <1>2, <1>3, FitSame DEF Untouched
<1>5. Easy(w, v)
    <2>1. \A x \in Things : v.at[x] \in Bodies => v.at[x] = w.at[x]
        BY <1>0, Sorts
    <2> QED
        BY ONLY <2>1, EasySame
<1> QED
    BY <1>4, <1>5

Laid(w, c, k, outlaw) ==
    [w EXCEPT !.at[k] = Lost, !.rots = @ \cup {k},
              !.owner[k] = IF c \in Players /\ ~outlaw THEN c ELSE Nowhere,
              !.whose[k] = IF c \in Players THEN c ELSE Nowhere]

\* The corpse is made: it is Lost as yet, and everything else is as it was.
LEMMA LaidIs ==
    ASSUME NEW w, Fit(w), NEW c \in Chars, NEW k \in Corpses, w.at[k] = Nowhere,
           NEW outlaw, NEW v, v = Laid(w, c, k, outlaw)
    PROVE  /\ Fit(v) /\ Easy(w, v)
           /\ v.at = [w.at EXCEPT ![k] = Lost] /\ v.gold = w.gold /\ v.coins = w.coins
           /\ v.room = w.room /\ v.weak = w.weak
<1>0. w \in Kinds /\ k \in Things
    BY Sorts DEF Fit, Sound
<1>1. /\ v.at = [w.at EXCEPT ![k] = Lost] /\ v.gold = w.gold /\ v.coins = w.coins
      /\ v.worn = w.worn /\ v.number = w.number /\ v.weight = w.weight
      /\ v.room = w.room /\ v.light = w.light /\ v.lit = w.lit /\ v.weak = w.weak
    BY <1>0 DEF Laid, Kinds
<1>2. v \in Kinds
    <2>1. Lost \in Spots
        BY DEF Spots
    <2>2. v.at \in Places
        BY <1>0, <1>1 DEF Kinds, Places
    <2>3. /\ v.rots \in SUBSET Things /\ v.owner \in [Corpses -> Players \cup {Nowhere}]
          /\ v.whose \in [Corpses -> Players \cup {Nowhere}]
        BY <1>0 DEF Laid, Kinds
    <2> QED
        BY <1>0, <1>1, <2>2, <2>3 DEF Laid, Kinds
<1>3. Fit(v) /\ Easy(w, v)
    BY <1>0, <1>1, <1>2, MadeLoose
<1> QED
    BY <1>1, <1>3

\* create_money makes a heap that is Lost as yet.
LEMMA CoinedIs ==
    ASSUME NEW w, Fit(w), NEW m \in Money, w.at[m] = Nowhere, NEW n \in Int,
           NEW v, v = create_money(w, m, n)
    PROVE  /\ Fit(v) /\ Easy(w, v)
           /\ v.at = [w.at EXCEPT ![m] = Lost] /\ v.coins = [w.coins EXCEPT ![m] = n] /\ v.gold = w.gold
           /\ v.room = w.room /\ v.weak = w.weak /\ v.worn = w.worn
<1>0. w \in Kinds /\ m \in Things
    BY Sorts DEF Fit, Sound
<1>1. /\ v.at = [w.at EXCEPT ![m] = Lost] /\ v.coins = [w.coins EXCEPT ![m] = n]
      /\ v.gold = w.gold /\ v.rots = w.rots /\ v.owner = w.owner
      /\ v.worn = w.worn /\ v.number = w.number /\ v.weight = w.weight
      /\ v.room = w.room /\ v.light = w.light /\ v.lit = w.lit /\ v.weak = w.weak
    BY <1>0 DEF create_money, Kinds
<1>2. v \in Kinds
    <2>2. v.at \in Places /\ v.coins \in [Money -> Int]
        BY <1>0, <1>1 DEF Kinds, Places
    <2> QED
        BY <1>0, <1>1, <2>2 DEF create_money, Kinds
<1>3. Fit(v) /\ Easy(w, v)
    BY <1>0, <1>1, <1>2, MadeLoose
<1> QED
    BY <1>1, <1>3

\* The coins of a mobile are put into its corpse.
Coined(w, c, k, m) == [obj_to_obj(create_money(w, m, w.gold[c]), m, k) EXCEPT !.gold[c] = 0]

\* A mobile's gold is in its corpse now.
LEMMA CoinedCorpseIs ==
    ASSUME NEW w, Fit(w), NEW c \in Chars, NEW k \in Corpses, w.at[k] = Lost,
           NEW m \in Money, w.at[m] = Nowhere, NEW v, v = Coined(w, c, k, m)
    PROVE  /\ Fit(v) /\ Easy(w, v)
           /\ v.at = [w.at EXCEPT ![m] = k] /\ v.coins = [w.coins EXCEPT ![m] = w.gold[c]]
           /\ v.gold = [w.gold EXCEPT ![c] = 0]
           /\ v.room = w.room /\ v.weak = w.weak
<1> DEFINE a == create_money(w, m, w.gold[c])
           b == obj_to_obj(a, m, k)
<1>0. w \in Kinds /\ m \in Things /\ k \in Vessels /\ k \in Things /\ k # m /\ w.gold[c] \in Int
      /\ DOMAIN w.at = Things /\ m \in Bodies /\ k \notin Chars /\ Lost \notin Bodies /\ Lost # Nowhere
      /\ \A d \in Chars : d \in Bodies /\ d # k
    BY Sorts DEF Fit, Sound, Kinds, Places, Bodies
<1>1. /\ Fit(a) /\ Easy(w, a)
      /\ a.at = [w.at EXCEPT ![m] = Lost] /\ a.coins = [w.coins EXCEPT ![m] = w.gold[c]] /\ a.gold = w.gold
      /\ a.room = w.room /\ a.weak = w.weak /\ a.worn = w.worn
    BY <1>0, CoinedIs
<1>2. b = obj_to_obj(a, m, k) /\ v = [b EXCEPT !.gold[c] = 0]
    BY DEF Coined
<1> HIDE DEF a, b
<1>3. Sound(a) /\ a.at[m] = Lost /\ a.at[m] \notin Bodies /\ a.at[m] \notin Chars
      /\ a.at[k] = Lost /\ a.at[k] # Nowhere /\ a.at[k] \notin Bodies /\ DOMAIN a.at = Things
    BY <1>0, <1>1, Sorts DEF Fit, Bodies
<1>4. k \notin Below(a.at, m) /\ \A d \in Chars : k \notin Below(a.at, d)
    BY <1>0, <1>3, LooseApart
<1>5. /\ Sound(b) /\ Untouched(a, b)
      /\ b.at = [a.at EXCEPT ![m] = k] /\ b.worn = a.worn
      /\ b.light = a.light /\ (\A x : Shining(b, x) = Shining(a, x))
    BY <1>0, <1>2, <1>3, <1>4, ToVessel
<1>6. Fit(b)
    BY <1>0, <1>1, <1>3, <1>5, FitPut
<1>7. Easy(a, b)
    BY <1>0, <1>3, <1>4, <1>5, PutEasy
<1>8. b \in Kinds
    BY <1>6 DEF Fit, Sound
<1>9. /\ v.at = b.at /\ v.worn = b.worn /\ v.number = b.number /\ v.weight = b.weight
      /\ v.room = b.room /\ v.light = b.light /\ v.lit = b.lit /\ v.weak = b.weak
      /\ v.coins = b.coins /\ v.gold = [b.gold EXCEPT ![c] = 0] /\ v \in Kinds
    <2>1. 0 \in Int /\ b.gold \in [Chars -> Int] /\ DOMAIN b.gold = Chars
        BY <1>8 DEF Kinds
    <2>2. [b.gold EXCEPT ![c] = 0] \in [Chars -> Int]
        BY <2>1
    <2>3. v = [b EXCEPT !.gold = [b.gold EXCEPT ![c] = 0]]
        BY <1>2, <1>8 DEF Kinds
    <2>4. v \in Kinds
        BY <1>8, <2>2, <2>3 DEF Kinds
    <2> QED
        BY <1>8, <2>3, <2>4 DEF Kinds
<1>10. Fit(v)
    BY <1>6, <1>9, FitSame
<1>11. Easy(w, v)
    <2>1. Easy(w, b)
        BY <1>1, <1>7, EasyOn
    <2> QED
        BY <1>9, <2>1 DEF Easy
<1>12. v.at = [w.at EXCEPT ![m] = k]
    BY <1>0, <1>1, <1>5, <1>9
<1> QED
    BY <1>1, <1>5, <1>9, <1>10, <1>11, <1>12 DEF Untouched

\* make_corpse: all that the dead carried is gone from them, and all accounts hold.
LEMMA CorpseIs ==
    ASSUME NEW w, Fit(w), Lacks(w, SubIssue), NEW c \in Chars, w.room[c] # Nowhere,
           NEW k \in Corpses, w.at[k] = Nowhere, NEW m,
           c \in Mobs /\ w.gold[c] > 0 => m \in Money /\ w.at[m] = Nowhere,
           NEW first, NEW outlaw, NEW v, v = make_corpse(w, c, k, m, first, outlaw)
    PROVE  /\ Fit(v) /\ Lacks(v, SubIssue) /\ Easy(w, v) /\ v.room = w.room /\ v.weak = w.weak
           /\ Carrying(v, c) = {} /\ Paid(w, v)
<1> DEFINE laid == Laid(w, c, k, outlaw)
           coins == IF c \in Mobs /\ w.gold[c] > 0 THEN Coined(laid, c, k, m) ELSE laid
           S == Carrying(w, c)
           half == Strip(coins, c, k, S \cap first)
           bare == Strip(half, c, k, S)
<1>0. /\ Sound(w) /\ w \in Kinds /\ DOMAIN w.at = Things /\ k \in Things /\ k \notin Money
      /\ Lost # Nowhere /\ k \notin Chars \cup {Nowhere, Lost} /\ c \notin {k, Lost, Nowhere} /\ Lost \notin Chars
      /\ Lost \notin Bodies /\ k # Lost
      /\ w.room[c] \in Rooms
    BY Sorts DEF Fit, Sound, Kinds, Places, Bodies
<1>1. v = obj_to_room(bare, k, w.room[c])
    <2>1. Coined(laid, c, k, m) = [obj_to_obj(create_money(laid, m, w.gold[c]), m, k) EXCEPT !.gold[c] = 0]
        <3>1. laid.gold = w.gold
            BY <1>0 DEF Laid, Kinds
        <3> QED
            BY <3>1 DEF Coined
    <2> QED
        BY <2>1 DEF make_corpse, Strip, Laid
<1>2. /\ Fit(laid) /\ Easy(w, laid)
      /\ laid.at = [w.at EXCEPT ![k] = Lost] /\ laid.gold = w.gold /\ laid.coins = w.coins
      /\ laid.room = w.room /\ laid.weak = w.weak
    BY LaidIs
<1>3. half = Strip(coins, c, k, S \cap first) /\ bare = Strip(half, c, k, S)
      /\ S \subseteq Things /\ (\A x \in Things : w.at[x] = c => x \in S)
    BY DEF Carrying
<1> HIDE DEF laid, S, half, bare
<1>4. /\ Fit(coins) /\ Easy(w, coins) /\ coins.room = w.room /\ coins.weak = w.weak
      /\ coins.at[k] = Lost
      /\ \A x \in Things : x # k => \/ coins.at[x] = w.at[x]
                                    \/ x = m /\ coins.at[x] = k /\ w.at[x] = Nowhere
      /\ Minted(w) => Minted(coins)
      /\ (\A d \in Chars : w.gold[d] >= 0) => (\A d \in Chars : coins.gold[d] >= 0)
      /\ Minted(w) => AllGold(coins) = AllGold(w)
    <2>1. CASE c \in Mobs /\ w.gold[c] > 0
        <3>0. m \in Money /\ m \in Things /\ w.at[m] = Nowhere /\ m # k /\ laid.at[k] = Lost /\ laid.at[m] = Nowhere
              /\ c \in Chars /\ k \in Corpses
            BY <1>0, <1>2, <2>1, Sorts
        <3>1. coins = Coined(laid, c, k, m)
            BY <2>1
        <3> HIDE DEF coins
        <3>2. /\ Fit(coins) /\ Easy(laid, coins)
              /\ coins.at = [laid.at EXCEPT ![m] = k] /\ coins.coins = [laid.coins EXCEPT ![m] = laid.gold[c]]
              /\ coins.gold = [laid.gold EXCEPT ![c] = 0]
              /\ coins.room = laid.room /\ coins.weak = laid.weak
            <4>1. /\ Fit(laid) /\ c \in Chars /\ k \in Corpses /\ laid.at[k] = Lost
                  /\ m \in Money /\ laid.at[m] = Nowhere /\ coins = Coined(laid, c, k, m)
                BY <1>2, <3>0, <3>1
            <4> QED
                BY ONLY <4>1, CoinedCorpseIs
        <3>3. Easy(w, coins)
            BY <1>2, <3>2, EasyOn
        <3>4. /\ coins.at[k] = Lost
              /\ \A x \in Things : x # k => \/ coins.at[x] = w.at[x]
                                            \/ x = m /\ coins.at[x] = k /\ w.at[x] = Nowhere
            BY <1>0, <1>2, <3>0, <3>2
        <3>5. coins \in Kinds
            BY <3>2 DEF Fit, Sound
        <3>6. /\ coins.gold[c] = 0 /\ \A d \in Chars : d # c => coins.gold[d] = w.gold[d]
              /\ coins.coins[m] = w.gold[c] /\ \A x \in Money : x # m => coins.coins[x] = w.coins[x]
            BY <1>0, <1>2, <3>0, <3>2 DEF Kinds
        <3>7. Minted(w) => Minted(coins)
            <4> SUFFICES ASSUME Minted(w), NEW x \in Money
                         PROVE  /\ coins.coins[x] >= 0
                                /\ coins.at[x] = Nowhere <=> coins.coins[x] = 0
                                /\ coins.at[x] \notin Chars
                BY DEF Minted
            <4>1. x \in Things /\ x # k
                BY <1>0, Sorts
            <4>2. CASE x = m
                <5>1. coins.at[x] = k /\ coins.coins[x] = w.gold[c] /\ w.gold[c] \in Int
                    BY <1>0, <1>2, <3>0, <3>2, <3>6, <4>2, GoldIs
                <5> QED
                    BY <1>0, <2>1, <5>1
            <4>3. CASE x # m
                BY <3>4, <3>6, <4>1, <4>3 DEF Minted
            <4> QED
                BY <4>2, <4>3
        <3>8. Minted(w) => AllGold(coins) = AllGold(w)
            <4>1. w.gold[c] \in Int /\ coins.gold[c] \in Int /\ coins.coins[m] \in Int /\ w.coins[m] \in Int
                BY <1>0, <3>0, <3>5, GoldIs
            <4>2. Total(coins.gold, Chars) = Total(w.gold, Chars) - w.gold[c] + coins.gold[c]
                BY <1>0, <3>6, <4>1, GoldIs, TotalChanged
            <4>3. Total(coins.coins, Money) = Total(w.coins, Money) - w.coins[m] + coins.coins[m]
                BY <1>0, <3>0, <3>6, <4>1, GoldIs, TotalChanged
            <4>4. w.coins[m] = 0 \/ ~Minted(w)
                BY <3>0 DEF Minted
            <4>5. /\ AllGold(w) = Total(w.gold, Chars) + Total(w.coins, Money)
                  /\ Total(w.gold, Chars) \in Int /\ Total(w.coins, Money) \in Int
                BY <1>0, GoldIs
            <4>6. AllGold(coins) = Total(coins.gold, Chars) + Total(coins.coins, Money)
                BY <3>5, GoldIs
            <4> QED
                BY <3>6, <4>1, <4>2, <4>3, <4>4, <4>5, <4>6
        <3>9. (\A d \in Chars : w.gold[d] >= 0) => (\A d \in Chars : coins.gold[d] >= 0)
            BY <3>6
        <3> QED
            BY <1>2, <3>2, <3>3, <3>4, <3>7, <3>8, <3>9
    <2>2. CASE ~(c \in Mobs /\ w.gold[c] > 0)
        <3>1. coins = laid
            BY <2>2
        <3> HIDE DEF coins
        <3>2. /\ coins.at[k] = Lost
              /\ \A x \in Things : x # k => coins.at[x] = w.at[x]
            BY <1>0, <1>2, <3>1
        <3>3. Minted(w) => Minted(coins)
            BY <1>0, <1>2, <3>1, <3>2, Sorts DEF Minted
        <3>4. AllGold(coins) = AllGold(w)
            <4>1. coins \in Kinds /\ coins.gold = w.gold /\ coins.coins = w.coins
                BY <1>2, <3>1 DEF Fit, Sound
            <4> QED
                BY <1>0, <4>1, GoldIs
        <3> QED
            BY <1>2, <3>1, <3>2, <3>3, <3>4
    <2> QED
        BY <2>1, <2>2
<1> HIDE DEF coins
<1>5. Lacks(coins, SubIssue \cup {k})
    BY <1>0, <1>4 DEF Lacks
<1>6. Stripped(coins, half, c, k, S \cap first)
    BY <1>3, <1>4, <1>5, StripIs
<1>7. Stripped(half, bare, c, k, S)
    <2>1. Fit(half) /\ half.at[k] = Lost /\ Lacks(half, SubIssue \cup {k})
        BY <1>6 DEF Stripped
    <2> QED
        BY <1>3, <2>1, StripIs
<1>8. /\ Fit(bare) /\ Sound(bare) /\ bare.at[k] = Lost /\ bare.at[k] \notin Bodies /\ bare.at[k] \notin Chars
      /\ Lacks(bare, SubIssue \cup {k}) /\ Easy(w, bare) /\ Coins_(coins, bare)
      /\ bare.gold = coins.gold /\ bare.room = w.room /\ bare.weak = w.weak
      /\ (\A x \in Things : coins.at[x] = k => bare.at[x] = k) /\ (\A x \in S : bare.at[x] # c)
      /\ DOMAIN bare.at = Things
    <2>1. Easy(w, bare)
        <3>1. Easy(w, half)
            BY <1>4, <1>6, EasyOn DEF Stripped
        <3> QED
            BY <1>7, <3>1, EasyOn DEF Stripped
    <2>2. Coins_(coins, bare)
        BY <1>6, <1>7, CoinsOn DEF Stripped
    <2>3. Fit(bare) /\ Sound(bare) /\ DOMAIN bare.at = Things
        BY <1>7 DEF Stripped, Fit, Sound, Kinds, Places
    <2> QED
        BY <1>0, <1>4, <1>6, <1>7, <2>1, <2>2, <2>3 DEF Stripped
<1>9. /\ Sound(v) /\ Untouched(bare, v)
      /\ v.at = [bare.at EXCEPT ![k] = w.room[c]] /\ v.worn = bare.worn
      /\ v.light = bare.light /\ (\A x : Shining(v, x) = Shining(bare, x))
    BY <1>0, <1>1, <1>8, ToRoom
<1>10. Fit(v)
    BY <1>0, <1>8, <1>9, FitPut
<1>11. \A x \in Things : v.at[x] = IF x = k THEN w.room[c] ELSE bare.at[x]
    BY <1>0, <1>8, <1>9
<1>12. Easy(w, v)
    <2>1. \A x \in Things : v.at[x] \in Bodies => v.at[x] = bare.at[x]
        BY <1>0, <1>11, Sorts DEF Bodies
    <2>2. Easy(bare, v)
        BY <2>1, EasySame
    <2> QED
        BY <1>8, <2>2, EasyOn
<1>13. Lacks(v, SubIssue)
    BY <1>0, <1>8, <1>11, Sorts DEF Lacks
<1>14. Carrying(v, c) = {}
    <2> SUFFICES ASSUME NEW x \in Things, v.at[x] = c
                 PROVE  FALSE
        BY DEF Carrying
    <2>1. w.at[x] = c
        BY <1>12 DEF Easy
    <2>2. bare.at[x] # c
        BY <1>3, <1>8, <2>1
    <2> QED
        BY <1>0, <1>11, <2>2, Sorts
<1>15. Paid(w, v)
    <2> SUFFICES ASSUME Rich(w)
                 PROVE  Rich(v) /\ KeepsGold(w, v)
        BY DEF Paid
    <2>1. Rich(coins)
        BY <1>4 DEF Rich
    <2>2. Coins_(coins, v) /\ v.gold = coins.gold /\ v \in Kinds /\ coins \in Kinds
        BY <1>0, <1>4, <1>8, <1>9, <1>10, <1>11 DEF Coins_, Untouched, Fit, Sound
    <2>3. Rich(v) /\ KeepsGold(coins, v)
        BY <2>1, <2>2, PaidSame DEF Paid
    <2>4. ASSUME NEW x \in Things, ~Gone(w, v, x)
          PROVE  ~Gone(coins, v, x)
        <3>1. CASE x = k
            BY <1>0, <1>11, <3>1, Sorts DEF Gone, Bodies
        <3>2. CASE x # k /\ coins.at[x] = w.at[x]
            BY <2>4, <3>2 DEF Gone
        <3>3. CASE x # k /\ coins.at[x] = k
            BY <1>0, <1>8, <1>11, <3>3 DEF Gone
        <3> QED
            BY <1>4, <3>1, <3>2, <3>3
    <2> QED
        BY <1>4, <2>3, <2>4 DEF KeepsGold, Rich
<1> QED
    BY <1>8, <1>9, <1>10, <1>12, <1>13, <1>14, <1>15 DEF Untouched

(***************************************************************************)
(* What several actions do.                                                *)
(***************************************************************************)
\* NobodyCharmedSplits: split_coins makes gold where one of a group is charmed.
NoneCharmed == Charmed \cap Group = {}

\* Where no thing moves nothing comes into anybody's hands.
LEMMA SameEasy ==
    ASSUME NEW w, NEW u, u.at = w.at
    PROVE  /\ Easy(w, u)
           /\ \A v : Easy(u, v) => Easy(w, v)
           /\ \A S : Lacks(w, S) => Lacks(u, S)
    BY DEF Easy, Lacks

\* What was Lost and is extracted is Lost no more.
LEMMA ExtractLacks ==
    ASSUME NEW w, Sound(w), NEW v, NEW o \in Things, Extracted_(w, v, o), NEW S, Lacks(w, S \cup {o})
    PROVE  Lacks(v, S) /\ v.at[o] = Nowhere
<1>1. Lacks(v, S \cup {o})
    BY ExtractedLacks
<1>2. o \in Below(w.at, o)
    BY BelowLeast DEF Bodies
<1>3. v.at[o] = Nowhere
    BY <1>2, Sorts DEF Extracted_, Falls
<1> QED
    BY <1>1, <1>3, Sorts DEF Lacks

\* Somebody's strength changes.
LEMMA AffectedIs ==
    ASSUME NEW w, Sound(w), Lighted(w), NEW c \in Players, \A d \in Players : d # c => Armed(w, d),
           NEW v, v = AffectModify(w, c)
    PROVE  /\ Fit(v) /\ Untouched(w, v) /\ Easy(w, v) /\ Coins_(w, v)
           /\ \A x \in Things : (Falls(w, v, x) /\ w.at[x] = c) \/ (v.at[x] = w.at[x] /\ v.worn[x] = w.worn[x])
           /\ \A S : Lacks(w, S) => Lacks(v, S)
<1>0. c \in Chars /\ \A d \in Players : d \notin Rooms /\ Nowhere \notin {d}
    BY Sorts DEF Bodies
<1>1. /\ Sound(v) /\ Untouched(w, v) /\ v.light = w.light
      /\ \A x : Shining(v, x) = Shining(w, x)
      /\ \A x \in Things : (Falls(w, v, x) /\ w.at[x] = c) \/ (v.at[x] = w.at[x] /\ v.worn[x] = w.worn[x])
      /\ Armed(v, c)
    BY <1>0, AffectModifyIs
<1>2. Lighted(v)
    BY <1>1 DEF Lighted
<1>3. AllArmed(v)
    <2> SUFFICES ASSUME NEW d \in Players, d # c
                 PROVE  Armed(v, d)
        BY <1>1 DEF AllArmed
    <2>1. /\ Armed(w, d) /\ Untouched(w, v) /\ Nowhere \notin {d} /\ d \notin Rooms /\ d # c
          /\ \A x \in Things : (Falls(w, v, x) /\ w.at[x] = c) \/ (v.at[x] = w.at[x] /\ v.worn[x] = w.worn[x])
        BY <1>0, <1>1
    <2> QED
        BY ONLY <2>1, OthersArmed
<1>4. \A x \in Things : v.at[x] = w.at[x] \/ (v.at[x] \in Rooms /\ w.at[x] = c)
    BY <1>1, FallsToFloor
<1>5. Easy(w, v)
    <2>1. \A x \in Things : v.at[x] \in Bodies => v.at[x] = w.at[x]
        BY <1>4, Sorts DEF Bodies
    <2> QED
        BY ONLY <2>1, EasySame
<1>6. Coins_(w, v)
    BY <1>0, <1>1, <1>4, Sorts DEF Coins_, Untouched, Bodies
<1>7. \A S : Lacks(w, S) => Lacks(v, S)
    BY <1>4, Sorts DEF Lacks
<1> QED
    BY <1>1, <1>2, <1>3, <1>5, <1>6, <1>7 DEF Fit

-----------------------------------------------------------------------------
(***************************************************************************)
(* Gold alone.                                                             *)
(***************************************************************************)
OnlyGold(w, v) ==
    /\ v \in Kinds
    /\ v.at = w.at /\ v.worn = w.worn /\ v.number = w.number /\ v.weight = w.weight
    /\ v.room = w.room /\ v.light = w.light /\ v.lit = w.lit /\ v.weak = w.weak
    /\ v.coins = w.coins /\ v.rots = w.rots /\ v.owner = w.owner

\* Where only purses change nothing else matters.
LEMMA OnlyGoldIs ==
    ASSUME NEW w, Fit(w), NEW v, OnlyGold(w, v)
    PROVE  /\ Fit(v) /\ Easy(w, v) /\ Coins_(w, v)
           /\ Lacks(w, SubIssue) => Kept(w, v)
<1>1. Fit(v)
    BY FitSame DEF OnlyGold
<1>2. Easy(w, v) /\ (Lacks(w, SubIssue) => Lacks(v, SubIssue))
    BY SameEasy DEF OnlyGold
<1>3. Coins_(w, v)
    BY DEF OnlyGold, Coins_
<1> QED
    BY <1>1, <1>2, <1>3, EasyKept

\* C's division and remainder.
LEMMA Division ==
    ASSUME NEW n \in Nat, NEW m \in Nat, m >= 2
    PROVE  /\ n \div m \in Int /\ n \div m >= 0
           /\ n % m \in Int /\ n % m >= 0
           /\ n = m * (n \div m) + (n % m)
<1>1. n \div m \in Int /\ n % m \in Int
    OBVIOUS
<1>2. n \div m >= 0
    OBVIOUS
<1>3. n % m >= 0
    OBVIOUS
<1>4. n = m * (n \div m) + (n % m)
    OBVIOUS
<1> QED
    BY <1>1, <1>2, <1>3, <1>4

Sharers(w, c) == {d \in People(w, w.room[c]) \cap Players : same_group(c, d) /\ d \notin Charmed}

\* split_coins: what the group gets is what was split, unless one of them is charmed.
LEMMA SplitIs ==
    ASSUME NEW w \in Kinds, NEW c \in Players, NEW n \in Int, NEW v, v = split_coins(w, c, n)
    PROVE  /\ OnlyGold(w, v)
           /\ NoneCharmed => Total(v.gold, Chars) = Total(w.gold, Chars)
           /\ (\A d \in Chars : w.gold[d] >= 0) => (\A d \in Chars : v.gold[d] >= 0)
<1> DEFINE H == Sharers(w, c)
           members == Cardinality(H)
           share == n \div members
           extra == n % members
<1>0. c \in Chars /\ IsFiniteSet(Chars) /\ H \subseteq Chars /\ (\A d \in Chars : w.gold[d] \in Int)
      /\ DOMAIN w.gold = Chars
    BY Sorts, GoldIs DEF Sharers, People, Kinds
<1>1. members \in Nat
    BY <1>0, FS_Subset, FS_CardinalityType
<1>2. CASE v = w
    BY <1>2 DEF OnlyGold
<1>3. CASE v # w
    <2>1. /\ n > 0 /\ w.gold[c] >= n /\ members >= 2
          /\ v = [w EXCEPT !.gold = [d \in Chars |-> IF d = c THEN @[d] - n + share + extra
                                                     ELSE IF d \in H THEN @[d] + share
                                                     ELSE @[d]]]
        <3>1. /\ ~(n <= 0 \/ w.gold[c] < n \/ members < 2 \/ share = 0)
              /\ v = [w EXCEPT !.gold = [d \in Chars |-> IF d = c THEN @[d] - n + share + extra
                                                         ELSE IF d \in H THEN @[d] + share
                                                         ELSE @[d]]]
            BY <1>3 DEF split_coins, Sharers
        <3> HIDE DEF members, share, extra, H
        <3> QED
            BY <1>0, <1>1, <3>1
    <2>2. share \in Int /\ extra \in Int /\ share >= 0 /\ extra >= 0 /\ n = members * share + extra
        <3> HIDE DEF members
        <3>1. n \in Nat /\ members \in Nat /\ members >= 2
            BY <1>1, <2>1
        <3> QED
            BY <3>1, Division
    <2> HIDE DEF H, members, share, extra
    <2> DEFINE g == [d \in Chars |-> IF d = c THEN w.gold[d] - n + share + extra
                                     ELSE IF d \in H THEN w.gold[d] + share ELSE w.gold[d]]
    <2>3. v = [w EXCEPT !.gold = g]
        BY <2>1
    <2>4. /\ g \in [Chars -> Int]
          /\ \A d \in Chars : g[d] = IF d = c THEN w.gold[d] - n + share + extra
                                     ELSE IF d \in H THEN w.gold[d] + share ELSE w.gold[d]
        BY <1>0, <2>2
    <2> HIDE DEF g
    <2>5. OnlyGold(w, v) /\ v.gold = g
        BY <2>3, <2>4 DEF OnlyGold, Kinds
    <2>6. (\A d \in Chars : w.gold[d] >= 0) => (\A d \in Chars : v.gold[d] >= 0)
        <3> SUFFICES ASSUME \A d \in Chars : w.gold[d] >= 0, NEW d \in Chars
                     PROVE  g[d] >= 0
            BY <2>5
        <3>1. w.gold[d] \in Int /\ w.gold[d] >= 0
            BY <1>0
        <3> QED
            BY <1>0, <2>1, <2>2, <2>4, <3>1
    <2>7. ASSUME NoneCharmed
          PROVE  Total(v.gold, Chars) = Total(w.gold, Chars)
        <3>1. c \in H
            <4>1. c \notin Charmed
                <5> SUFFICES ASSUME c \in Charmed
                             PROVE  FALSE
                    OBVIOUS
                <5>1. H = {}
                    BY <2>7 DEF H, Sharers, same_group, NoneCharmed
                <5>2. Cardinality({}) = 0
                    BY FS_EmptySet
                <5> QED
                    BY <2>1, <5>1, <5>2 DEF members
            <4> QED
                BY <1>0, <4>1 DEF H, Sharers, People, same_group
        <3> DEFINE d1 == [x \in Chars |-> IF x \in H THEN share ELSE 0]
                   f1 == [x \in Chars |-> w.gold[x] + d1[x]]
        <3>2. /\ \A x \in Chars : d1[x] = IF x \in H THEN share ELSE 0
              /\ \A x \in Chars : d1[x] \in Int
              /\ \A x \in Chars : f1[x] = w.gold[x] + d1[x]
              /\ \A x \in Chars : f1[x] \in Int
            BY <1>0, <2>2
        <3> HIDE DEF d1, f1
        <3>3. Total(d1, Chars) = Cardinality(Chars \cap H) * share
            <4>1. IsFiniteSet(Chars) /\ share \in Int /\ Shared(d1, Chars, H, share)
            BY <1>0, <2>2, <3>2 DEF Shared
        <4> QED
            BY ONLY <4>1, TotalShares
        <3>4. Chars \cap H = H
            BY <1>0
        <3>5. Total(f1, Chars) = Total(w.gold, Chars) + Total(d1, Chars)
            BY <1>0, <3>2, TotalPlus
        <3>6. \A x \in Chars : x # c => g[x] = f1[x]
            BY <1>0, <2>4, <3>2
        <3>7. g[c] = f1[c] - n + extra /\ g[c] \in Int /\ f1[c] \in Int
            BY <1>0, <2>2, <2>4, <3>1, <3>2
        <3>8. Total(g, Chars) = Total(f1, Chars) - f1[c] + g[c]
            BY <1>0, <3>2, <3>6, <3>7, TotalChanged
        <3>9. Total(w.gold, Chars) \in Int
            BY GoldIs
        <3>10. Total(d1, Chars) = members * share
            BY <3>3, <3>4 DEF members
        <3> DEFINE ms == members * share
        <3>11. ms \in Int /\ n = ms + extra
            BY <1>1, <2>2
        <3> HIDE DEF ms
        <3>12. Total(d1, Chars) = ms
            BY <3>10 DEF ms
        <3> QED
            BY <2>2, <2>5, <3>5, <3>7, <3>8, <3>9, <3>11, <3>12
    <2> QED
        BY <2>5, <2>6, <2>7
<1> QED
    BY <1>2, <1>3

(***************************************************************************)
(* What each action does.                                                  *)
(***************************************************************************)
Ready(w) == Fit(w) /\ Lacks(w, SubIssue)

Done(w, v) == Kept(w, v) /\ (NoneCharmed => Paid(w, v))

\* What is known between two actions.
LEMMA ReadyIs ==
    ASSUME NEW w, Ready(w)
    PROVE  Fit(w) /\ Lacks(w, SubIssue) /\ Sound(w) /\ Placed(w) /\ w \in Kinds /\ DOMAIN w.at = Things
    BY DEF Ready, Fit, Sound, Kinds, Places

\* Something begins to rot, or no longer does.
OnlyRots(w, v) ==
    /\ v \in Kinds
    /\ v.at = w.at /\ v.worn = w.worn /\ v.number = w.number /\ v.weight = w.weight
    /\ v.room = w.room /\ v.light = w.light /\ v.lit = w.lit /\ v.weak = w.weak
    /\ v.coins = w.coins /\ v.gold = w.gold /\ v.owner = w.owner

\* Who carries what does not depend on what rots.
LEMMA OnlyRotsIs ==
    ASSUME NEW w, Ready(w), NEW v, OnlyRots(w, v)
    PROVE  Ready(v)
<1>1. Fit(v)
    BY ReadyIs, FitSame DEF OnlyRots
<1> QED
    BY <1>1, ReadyIs DEF Ready, Lacks, OnlyRots

\* Nor does anything that is claimed of a step.
LEMMA OnlyRotsDone ==
    ASSUME NEW w, Ready(w), NEW u, OnlyRots(w, u), NEW v, Done(u, v)
    PROVE  Done(w, v)
<1>1. Ready(u)
    BY OnlyRotsIs
<1>2. u.at = w.at /\ u.gold = w.gold /\ u.coins = w.coins /\ u.room = w.room /\ u.owner = w.owner
    BY DEF OnlyRots
<1>3. \A c \in Chars : Holds(u, c) = Holds(w, c)
    BY <1>1, <1>2, ReadyIs, HoldsBelow
<1>4. KeepsUnique(w, v)
    BY <1>3, Sorts DEF Done, Kept, KeepsUnique
<1>5. KeepsGraves(w, v)
    BY <1>2 DEF Done, Kept, KeepsGraves
<1>6. AllGold(u) = AllGold(w)
    <2>1. u \in Kinds /\ w \in Kinds
        BY <1>1, ReadyIs
    <2> QED
        BY <1>2, <2>1, GoldIs
<1>7. Rich(w) => Rich(u)
    BY <1>2, <1>6 DEF Rich, Minted
<1>8. KeepsGold(u, v) => KeepsGold(w, v)
    BY <1>2, <1>6 DEF KeepsGold, Gone
<1> QED
    BY <1>4, <1>5, <1>7, <1>8 DEF Done, Kept, Paid

\* Nothing is lost that is put somewhere again.
LEMMA BidesKept ==
    ASSUME NEW w, Ready(w), NEW v, Fit(v), NEW o \in Things, Bides(w, v, o), v.at[o] # Lost
    PROVE  Lacks(v, SubIssue)
    BY ReadyIs, BidesLacks

\* A thing that is not in anybody's hands, but on the floor or in something.
LEMMA OffIs ==
    ASSUME NEW w, Ready(w), NEW o \in Things, w.at[o] \notin Chars, NEW u,
           \/ w.at[o] \in Rooms /\ u = obj_from_room(w, o)
           \/ w.at[o] \in Things /\ u = obj_from_obj(w, o)
    PROVE  /\ Fit(u) /\ Untouched(w, u) /\ Easy(w, u) /\ Coins_(w, u)
           /\ u.at = [w.at EXCEPT ![o] = Lost] /\ u.at[o] = Lost /\ u.at[o] \notin Bodies /\ u.at[o] \notin Chars
           /\ Below(u.at, o) = Below(w.at, o)
           /\ Lacks(u, SubIssue \cup {o})
<1>0. Fit(w) /\ Sound(w) /\ DOMAIN w.at = Things /\ w.at[o] # Nowhere
    BY ReadyIs, Sorts DEF Bodies
<1>1. /\ Sound(u) /\ Untouched(w, u)
      /\ u.at = [w.at EXCEPT ![o] = Lost] /\ u.worn = w.worn
      /\ u.light = w.light /\ (\A x : Shining(u, x) = Shining(w, x))
    <2>1. CASE w.at[o] \in Rooms /\ u = obj_from_room(w, o)
        <3>1. w.at[o] \notin Bodies
            BY <2>1, Sorts DEF Bodies
        <3> QED
            BY <1>0, <2>1, <3>1, FromRoom
    <2>2. CASE w.at[o] \in Things /\ u = obj_from_obj(w, o)
        BY <1>0, <2>2, FromVessel
    <2> QED
        BY <2>1, <2>2
<1>2. Fit(u)
    BY <1>0, <1>1, FitPut
<1>3. \A x \in Things : u.at[x] = IF x = o THEN Lost ELSE w.at[x]
    BY <1>0, <1>1
<1>4. u.at[o] = Lost /\ u.at[o] \notin Bodies /\ u.at[o] \notin Chars /\ Lost # Nowhere
    BY <1>3, Sorts DEF Bodies
<1>5. Easy(w, u)
    <2>1. \A x \in Things : u.at[x] \in Bodies => u.at[x] = w.at[x]
        BY <1>3, <1>4
    <2> QED
        BY ONLY <2>1, EasySame
<1>6. Below(u.at, o) = Below(w.at, o)
    BY <1>3, PutSame DEF Alike
<1>7. Lacks(u, SubIssue \cup {o})
    BY <1>3, ReadyIs DEF Lacks
<1>8. Coins_(w, u)
    BY <1>0, <1>1, <1>3, <1>4, Sorts DEF Coins_, Untouched
<1> QED
    BY <1>1, <1>2, <1>4, <1>5, <1>6, <1>7, <1>8

-----------------------------------------------------------------------------
(***************************************************************************)
(* get_obj                                                                 *)
(***************************************************************************)
Gained(w, c, n) == [w EXCEPT !.gold[c] = @ + n]

\* Gold that somebody gains, and that everybody together has more.
LEMMA GainedIs ==
    ASSUME NEW w \in Kinds, NEW c \in Chars, NEW n \in Int, NEW v, v = Gained(w, c, n)
    PROVE  /\ OnlyGold(w, v)
           /\ v.gold[c] = w.gold[c] + n /\ \A d \in Chars : d # c => v.gold[d] = w.gold[d]
           /\ Total(v.gold, Chars) = Total(w.gold, Chars) + n
           /\ n >= 0 /\ (\A d \in Chars : w.gold[d] >= 0) => (\A d \in Chars : v.gold[d] >= 0)
<1>0. (\A d \in Chars : w.gold[d] \in Int) /\ DOMAIN w.gold = Chars /\ w.gold \in [Chars -> Int]
    BY DEF Kinds
<1>1. OnlyGold(w, v) /\ v.gold = [w.gold EXCEPT ![c] = w.gold[c] + n]
    <2>1. [w.gold EXCEPT ![c] = w.gold[c] + n] \in [Chars -> Int]
        BY <1>0
    <2>2. v = [w EXCEPT !.gold = [w.gold EXCEPT ![c] = w.gold[c] + n]]
        BY DEF Gained
    <2>3. v \in Kinds
        BY <2>1, <2>2 DEF Kinds
    <2>4. v.gold = [w.gold EXCEPT ![c] = w.gold[c] + n]
        BY <2>2 DEF Kinds
    <2> QED
        BY <2>2, <2>3, <2>4 DEF OnlyGold, Kinds
<1>2. v.gold[c] = w.gold[c] + n /\ \A d \in Chars : d # c => v.gold[d] = w.gold[d]
    BY <1>0, <1>1
<1>3. Total(v.gold, Chars) = Total(w.gold, Chars) - w.gold[c] + v.gold[c]
    BY <1>0, <1>2, GoldIs, TotalChanged
<1>4. Total(v.gold, Chars) = Total(w.gold, Chars) + n
    BY <1>0, <1>2, <1>3, GoldIs
<1> QED
    BY <1>0, <1>1, <1>2, <1>4

\* Coins that are picked up become the gold of whoever picks them up.
LEMMA CoinsGot ==
    ASSUME NEW w, Ready(w), NEW c \in Players, NEW o \in Money, w.at[o] \notin Chars, NEW u,
           \/ w.at[o] \in Rooms /\ u = obj_from_room(w, o)
           \/ w.at[o] \in Things /\ u = obj_from_obj(w, o),
           NEW v, v = extract_obj(AutoSplits(Gained(u, c, w.coins[o]), c, w.coins[o]), o)
    PROVE  Done(w, v)
<1>0. /\ o \in Things /\ c \in Chars /\ o \notin Vessels /\ w.coins[o] \in Int /\ w \in Kinds /\ Fit(w) /\ Sound(w)
      /\ w.at[o] # Nowhere
    BY Sorts, ReadyIs, GoldIs DEF Bodies
<1>1. /\ Fit(u) /\ Untouched(w, u) /\ Easy(w, u) /\ Coins_(w, u)
      /\ u.at = [w.at EXCEPT ![o] = Lost] /\ u.at[o] = Lost /\ u.at[o] \notin Bodies /\ u.at[o] \notin Chars
      /\ Lacks(u, SubIssue \cup {o})
    BY <1>0, OffIs
<1> DEFINE g == Gained(u, c, w.coins[o])
           a == AutoSplits(g, c, w.coins[o])
<1>2. g = Gained(u, c, w.coins[o]) /\ (a = g \/ a = split_coins(g, c, w.coins[o])) /\ v = extract_obj(a, o)
    BY DEF AutoSplits
<1> HIDE DEF g, a
<1>3. u \in Kinds
    BY <1>1 DEF Fit, Sound
<1>4. /\ OnlyGold(u, g) /\ Total(g.gold, Chars) = Total(u.gold, Chars) + w.coins[o]
      /\ w.coins[o] >= 0 /\ (\A d \in Chars : u.gold[d] >= 0) => (\A d \in Chars : g.gold[d] >= 0)
    BY <1>0, <1>2, <1>3, GainedIs
<1>5. g \in Kinds
    BY <1>4 DEF OnlyGold
<1>6. /\ OnlyGold(g, a)
      /\ NoneCharmed => Total(a.gold, Chars) = Total(g.gold, Chars)
      /\ (\A d \in Chars : g.gold[d] >= 0) => (\A d \in Chars : a.gold[d] >= 0)
    <2>1. CASE a = g
        BY <1>5, <2>1 DEF OnlyGold
    <2>2. CASE a = split_coins(g, c, w.coins[o])
        BY <1>0, <1>5, <2>2, SplitIs
    <2> QED
        BY <1>2, <2>1, <2>2
<1>7. Fit(a) /\ Sound(a) /\ a.at = u.at /\ a.coins = w.coins
    <2>1. Fit(g)
        BY <1>1, <1>4, OnlyGoldIs
    <2>2. Fit(a)
        BY <1>6, <2>1, OnlyGoldIs
    <2> QED
        BY <1>1, <1>4, <1>6, <2>2 DEF OnlyGold, Untouched, Fit
<1>8. Fit(v) /\ Extracted_(a, v, o)
    BY <1>0, <1>2, <1>7, ExtractIs DEF Fit
<1>9. Lacks(v, SubIssue) /\ v.at[o] = Nowhere
    <2>1. Lacks(a, SubIssue \cup {o})
        BY <1>1, <1>7 DEF Lacks
    <2> QED
        BY <1>0, <1>7, <1>8, <2>1, ExtractLacks
<1>10. Easy(w, v)
    <2>1. Easy(w, a)
        BY <1>1, <1>7 DEF Easy
    <2>2. Easy(a, v)
        BY <1>0, <1>7, <1>8, ExtractedEasy
    <2> QED
        BY <2>1, <2>2, EasyOn
<1>11. Kept(w, v)
    BY <1>0, <1>8, <1>9, <1>10, EasyKept
<1>12. ASSUME NoneCharmed, Rich(w)
       PROVE  Rich(v) /\ KeepsGold(w, v)
    <2>1. Coins_(w, v)
        <3>1. Coins_(w, a)
            BY <1>1, <1>7 DEF Coins_, Untouched
        <3>2. Coins_(a, v)
            BY <1>0, <1>7, <1>8, ExtractedCoins
        <3> QED
            BY <3>1, <3>2, CoinsOn
    <2>2. Minted(v)
        BY <1>12, <2>1, CoinsMinted DEF Rich
    <2>3. v \in Kinds /\ v.gold = a.gold
        BY <1>8 DEF Fit, Sound, Extracted_
    <2>4. \A d \in Chars : v.gold[d] >= 0
        BY <1>0, <1>1, <1>4, <1>6, <1>12, <2>3 DEF Rich, Minted, Untouched
    <2>5. /\ v.coins[o] = 0
          /\ \A m \in Money : m # o => v.coins[m] = w.coins[m]
        <3>1. Below(a.at, o) = {o}
            BY <1>0, <1>7, BelowOnly DEF Sound
        <3> QED
            BY <1>7, <1>8, <3>1 DEF Extracted_
    <2>6. Total(v.coins, Money) = Total(w.coins, Money) - w.coins[o] + v.coins[o]
        <3>1. /\ IsFiniteSet(Money) /\ (\A m \in Money : w.coins[m] \in Int) /\ o \in Money /\ v.coins[o] \in Int
              /\ \A m \in Money : m # o => v.coins[m] = w.coins[m]
            BY <1>0, <2>5, GoldIs
        <3> QED
            BY ONLY <3>1, TotalChanged
    <2>7. Total(v.gold, Chars) = Total(w.gold, Chars) + w.coins[o]
        BY <1>1, <1>4, <1>6, <1>12, <2>3 DEF Untouched
    <2>8. /\ AllGold(w) = Total(w.gold, Chars) + Total(w.coins, Money)
          /\ Total(w.gold, Chars) \in Int /\ Total(w.coins, Money) \in Int
        BY <1>0, GoldIs
    <2>9. AllGold(v) = Total(v.gold, Chars) + Total(v.coins, Money)
        BY <2>3, GoldIs
    <2>10. AllGold(v) = AllGold(w) /\ AllGold(w) \in Int
        BY <1>0, <2>5, <2>6, <2>7, <2>8, <2>9
    <2> QED
        BY <1>12, <2>2, <2>4, <2>10 DEF Rich, KeepsGold
<1> QED
    BY <1>11, <1>12 DEF Done, Paid

\* Everything else is carried.
LEMMA ThingGot ==
    ASSUME NEW w, Ready(w), NEW c \in Players, w.room[c] # Nowhere, NEW o \in Things, o \notin Money,
           w.at[o] \notin Chars, NEW u,
           \/ w.at[o] \in Rooms /\ u = obj_from_room(w, o)
           \/ w.at[o] \in Things /\ u = obj_from_obj(w, o),
           MayHave(w, o, c) \/ o \in Below(w.at, c),
           w.at[o] \in Corpses => can_loot(w, c, w.at[o]),
           NEW v, v = obj_to_char(u, o, c)
    PROVE  Done(w, v)
<1>0. c \in Chars /\ Fit(w) /\ Sound(w) /\ w \in Kinds /\ DOMAIN w.at = Things
    BY Sorts, ReadyIs
<1>1. /\ Fit(u) /\ Untouched(w, u) /\ Easy(w, u) /\ Coins_(w, u)
      /\ u.at = [w.at EXCEPT ![o] = Lost] /\ u.at[o] = Lost /\ u.at[o] \notin Bodies /\ u.at[o] \notin Chars
      /\ Below(u.at, o) = Below(w.at, o) /\ Lacks(u, SubIssue \cup {o})
    BY OffIs
<1>2. Sound(u) /\ u.room[c] # Nowhere /\ DOMAIN u.at = Things
    BY <1>0, <1>1 DEF Fit, Untouched
<1>3. /\ Sound(v) /\ Untouched(u, v)
      /\ v.at = [u.at EXCEPT ![o] = c] /\ v.worn = u.worn
      /\ v.light = u.light /\ (\A x : Shining(v, x) = Shining(u, x))
    BY <1>0, <1>1, <1>2, ToHands
<1>4. Fit(v)
    <2>1. /\ Fit(u) /\ Sound(v) /\ Untouched(u, v) /\ o \in Things
          /\ v.at = [u.at EXCEPT ![o] = c] /\ v.worn = u.worn /\ u.at[o] \notin Chars
          /\ v.light = u.light /\ \A x : Shining(v, x) = Shining(u, x)
        BY <1>1, <1>3
    <2> QED
        BY ONLY <2>1, FitPut
<1>5. Handed(w, v, o, c)
    BY <1>0, <1>1, <1>2, <1>3, HandedOver
<1>6. \A x \in Things : v.at[x] = IF x = o THEN c ELSE u.at[x]
    BY <1>2, <1>3
<1>7. Lacks(v, SubIssue)
    BY <1>0, <1>1, <1>6, Sorts DEF Lacks, Bodies
<1>8. Kept(w, v)
    BY <1>0, <1>4, <1>5, <1>7, HandedKept
<1>9. Coins_(w, v)
    <2>1. Coins_(u, v)
        BY <1>3, <1>6, Sorts DEF Coins_, Untouched
    <2> QED
        BY <1>1, <2>1, CoinsOn
<1>10. Paid(w, v)
    <2>1. v \in Kinds /\ v.gold = w.gold
        BY <1>1, <1>3 DEF Untouched, Sound
    <2> QED
        BY <1>0, <1>9, <2>1, PaidSame
<1> QED
    BY <1>8, <1>10 DEF Done

\* What somebody finds in a command's argument lies in its inventory or at its feet.
LEMMA HereIs ==
    ASSUME NEW w, NEW c \in Chars, NEW o, o \in Here(w, c)
    PROVE  o \in Things /\ w.room[c] # Nowhere /\ w.at[o] \in {c, w.room[c]}
    BY DEF Here

\* do_get, from the floor.
LEMMA GetFromRoomDone ==
    ASSUME Ready(world), NEW c \in Players, NEW o \in Things, GetFromRoom(c, o)
    PROVE  Done(world, world')
<1>0. c \in Chars /\ Placed(world)
    BY Sorts, ReadyIs
<1>1. /\ world.at[o] \in Rooms /\ world.at[o] \notin Chars /\ world.room[c] # Nowhere /\ world.at[o] \notin Corpses
      /\ world.at[o] # Nowhere
      /\ CanGet(world, c, o, Nowhere) /\ world' = Got(world, c, o, Nowhere)
    BY <1>0, HereIs, Sorts DEF GetFromRoom, Bodies
<1> DEFINE u == obj_from_room(world, o)
<1>2. CASE o \in Money
    <2>1. world' = extract_obj(AutoSplits(Gained(u, c, world.coins[o]), c, world.coins[o]), o)
        BY <1>1, <1>2 DEF Got, Gained
    <2> HIDE DEF u
    <2> QED
        BY <1>1, <1>2, <2>1, CoinsGot DEF u
<1>3. CASE o \notin Money
    <2>1. world' = obj_to_char(u, o, c)
        BY <1>1, <1>3 DEF Got
    <2>2. MayHave(world, o, c)
        <3>1. ~obj_move_violates_uniqueness(world, Nowhere, c, o, Carrying(world, c)) /\ Nowhere # c
            BY <1>0, <1>1, Sorts DEF CanGet, Bodies
        <3> QED
            BY <1>0, <3>1, UniqueChecked
    <2> QED
        BY <1>1, <1>3, <2>1, <2>2, ThingGot
<1> QED
    BY <1>2, <1>3

\* do_get, from a container.
LEMMA GetFromContainerDone ==
    ASSUME Ready(world), NEW c \in Players, NEW o \in Things, GetFromContainer(c, o)
    PROVE  Done(world, world')
<1> DEFINE k == world.at[o]
           w == IF k \in Pit THEN [world EXCEPT !.rots = @ \ {o}] ELSE world
           u == obj_from_obj(w, o)
<1>0. c \in Chars /\ Placed(world) /\ world \in Kinds /\ Fit(world) /\ Sound(world)
    BY Sorts, ReadyIs
<1>1. /\ k \in Here(world, c) /\ k \in Vessels /\ k \in Things /\ k # Nowhere /\ k \notin Chars
      /\ k \in Corpses => can_loot(world, c, k)
      /\ CanGet(world, c, o, k) /\ world' = Got(world, c, o, k)
    BY <1>0, HereIs, Sorts DEF GetFromContainer, Vessels, Bodies
<1>2. OnlyRots(world, w)
    BY <1>0 DEF OnlyRots, Kinds
<1>3. Ready(w) /\ w.at = world.at /\ w.room = world.room /\ w.owner = world.owner /\ w.coins = world.coins
    BY <1>2, OnlyRotsIs DEF OnlyRots
<1>4. world.room[c] # Nowhere /\ k \in {y \in Things : world.at[y] \in {c, world.room[c]}}
    BY <1>0, <1>1, HereIs
<1>5. u = obj_from_obj(w, o) /\ k = world.at[o] /\ w.at[o] = k
    BY <1>3
<1>6. CASE o \in Money
    <2>1. world' = extract_obj(AutoSplits(Gained(u, c, world.coins[o]), c, world.coins[o]), o)
        BY <1>1, <1>6 DEF Got, Gained
    <2> HIDE DEF u, w, k
    <2>2. Done(w, world')
        BY <1>1, <1>3, <1>5, <1>6, <2>1, CoinsGot
    <2> QED
        BY <1>2, <2>2, OnlyRotsDone
<1>7. CASE o \notin Money
    <2>1. world' = obj_to_char(u, o, c)
        BY <1>1, <1>7 DEF Got
    <2>2. MayHave(w, o, c) \/ o \in Below(w.at, c)
        <3>1. CASE CarriedBy(world, k) # c
            <4>1. ~obj_move_violates_uniqueness(world, CarriedBy(world, k), c, o, Carrying(world, c))
                BY <1>1 DEF CanGet
            <4> HIDE DEF k
            <4>2. MayHave(world, o, c)
                BY <1>0, <3>1, <4>1, UniqueChecked
            <4>3. MayHave(w, o, c)
                <5>1. Holds(w, c) = Holds(world, c)
                    BY <1>0, <1>3, ReadyIs, HoldsBelow
                <5> QED
                    BY <1>3, <4>2, <5>1 DEF MayHave
            <4> QED
                BY <4>3
        <3>2. CASE CarriedBy(world, k) = c
            <4>1. world.at[k] = c
                BY <1>0, <3>2, Sorts DEF CarriedBy, Bodies
            <4> HIDE DEF k
            <4>2. c \in Below(world.at, c) /\ Shut(world.at, Below(world.at, c))
                BY <1>0, BelowLeast DEF Bodies
            <4>3. k \in Below(world.at, c)
                BY <1>1, <4>1, <4>2 DEF Shut
            <4>4. o \in Below(world.at, c)
                BY <1>5, <4>2, <4>3 DEF Shut
            <4> QED
                BY <1>3, <4>4
        <3> QED
            BY <3>1, <3>2
    <2>3. w.at[o] \in Corpses => can_loot(w, c, w.at[o])
        BY <1>1, <1>3, <1>5 DEF can_loot
    <2> HIDE DEF u, w, k
    <2>4. Done(w, world')
        BY <1>1, <1>3, <1>4, <1>5, <1>7, <2>1, <2>2, <2>3, ThingGot
    <2> QED
        BY <1>2, <2>4, OnlyRotsDone
<1> QED
    BY <1>6, <1>7

\* A step by which nothing comes into anybody's hands.
LEMMA EasyDone ==
    ASSUME NEW w, Ready(w), NEW v, Fit(v), Lacks(v, SubIssue), Easy(w, v), v.gold = w.gold, Coins_(w, v)
    PROVE  Done(w, v)
<1>1. Kept(w, v)
    BY ReadyIs, EasyKept
<1>2. v \in Kinds /\ w \in Kinds
    BY ReadyIs DEF Fit, Sound
<1>3. Paid(w, v)
    BY <1>2, PaidSame
<1> QED
    BY <1>1, <1>3 DEF Done

\* What was handed to somebody and then stays there.
LEMMA HandedOn ==
    ASSUME NEW w, NEW u, NEW v, NEW o, NEW c, Handed(w, u, o, c), Easy(u, v)
    PROVE  Handed(w, v, o, c)
<1>1. \A x \in Things : v.at[x] \in Chars => v.at[x] = w.at[x] \/ (x = o /\ v.at[x] = c)
    BY DEF Handed, Easy
<1>2. \A d \in Players : Below(v.at, d) \subseteq Below(u.at, d)
    BY Sorts DEF Easy
<1> QED
    BY <1>1, <1>2 DEF Handed

\* What is in somebody's inventory.
LEMMA InventoryIs ==
    ASSUME NEW w, NEW c, NEW o, o \in Inventory(w, c)
    PROVE  o \in Things /\ w.at[o] = c /\ w.worn[o] = NotWorn
    BY DEF Inventory, Carrying

-----------------------------------------------------------------------------
\* put and donate
LEMMA PutAwayDone ==
    ASSUME NEW w, Ready(w), NEW u, OnlyRots(w, u), NEW c \in Chars, NEW o \in Things, w.at[o] = c,
           NEW k \in Containers, k # o, w.at[k] = c \/ w.at[k] \in Rooms,
           NEW v, v = obj_to_obj(obj_from_char(u, o), o, k)
    PROVE  Done(w, v)
<1>0. /\ Ready(u) /\ Fit(u) /\ u.at = w.at /\ k \in Vessels /\ k \in Things /\ c \notin Things \cup Rooms \cup {Nowhere}
      /\ u.at[o] \in Chars /\ k \in Bodies /\ k \notin Chars \cup {Nowhere, Lost} /\ c # Nowhere
      /\ u.at[k] \notin Things \cup {Nowhere} /\ (\A d \in Chars : d \in Bodies /\ d \notin Things)
    BY OnlyRotsIs, ReadyIs, Sorts DEF OnlyRots, Vessels, Bodies
<1>1. \A d \in Chars : k \in Below(u.at, d) => d = u.at[o]
    <2> SUFFICES ASSUME NEW d \in Chars, k \in Below(u.at, d)
                 PROVE  d = c
        BY <1>0
    <2>1. k # d
        BY <1>0
    <2>2. u.at[k] \in Below(u.at, d) /\ Below(u.at, d) \subseteq Things \cup {d}
        BY <1>0, <2>1, BelowCases
    <2> QED
        BY <1>0, <2>2, Sorts
<1>2. /\ Fit(v) /\ Untouched(u, v) /\ Bides(u, v, o) /\ v.at[o] = k
      /\ Easy(u, v)
    BY <1>0, <1>1, PutAway
<1>3. Lacks(v, SubIssue)
    BY <1>0, <1>2, BidesKept
<1>4. Coins_(u, v)
    <2>1. v.at[o] \notin Chars \cup {Nowhere} /\ u.at[o] # Nowhere
        BY <1>0, <1>2
    <2> QED
        BY <1>0, <1>2, <2>1, BidesCoins DEF Fit
<1>5. Done(u, v)
    BY <1>0, <1>2, <1>3, <1>4, EasyDone DEF Untouched
<1> QED
    BY <1>5, OnlyRotsDone

\* do_put.
LEMMA PutDone ==
    ASSUME Ready(world), NEW c \in Players, NEW o \in Things, NEW k \in Containers, Put(c, o, k)
    PROVE  Done(world, world')
<1> DEFINE u == IF k \in Pit THEN [world EXCEPT !.rots = @ \cup {o}] ELSE world
<1>1. /\ c \in Chars /\ world.at[o] = c /\ k # o /\ world' = obj_to_obj(obj_from_char(u, o), o, k)
      /\ k \in Here(world, c)
    BY Sorts, InventoryIs DEF Put
<1>2. OnlyRots(world, u)
    BY ReadyIs DEF OnlyRots, Kinds
<1>3. world.at[k] = c \/ world.at[k] \in Rooms
    <2>1. world.room[c] # Nowhere /\ world.at[k] \in {c, world.room[c]} /\ world \in Kinds
        BY <1>1, HereIs, ReadyIs
    <2> QED
        BY <1>1, <2>1 DEF Kinds
<1> HIDE DEF u
<1> QED
    BY <1>1, <1>2, <1>3, PutAwayDone

\* do_donate.
LEMMA DonateDone ==
    ASSUME Ready(world), NEW c \in Players, NEW o \in Things, Donate(c, o)
    PROVE  Done(world, world')
<1> DEFINE u == [world EXCEPT !.rots = @ \cup {o}]
<1>1. PICK k \in Pit : world.at[k] = Altar /\ world' = obj_to_obj(obj_from_char(u, o), o, k)
    BY DEF Donate
<1>2. /\ c \in Chars /\ world.at[o] = c /\ k \in Containers /\ k # o /\ world.at[k] \in Rooms
    BY <1>1, Sorts, InventoryIs, ThingsAssumption DEF Donate
<1>3. OnlyRots(world, u)
    BY ReadyIs DEF OnlyRots, Kinds
<1> HIDE DEF u
<1> QED
    BY <1>1, <1>2, <1>3, PutAwayDone

\* do_drop, of a thing.
LEMMA DropDone ==
    ASSUME Ready(world), NEW c \in Players, NEW o \in Things, Drop(c, o)
    PROVE  Done(world, world')
<1>1. /\ c \in Chars /\ world.at[o] = c /\ world.at[o] \in Chars /\ world.room[c] # Nowhere
      /\ Fit(world) /\ Sound(world) /\ Lacks(world, SubIssue) /\ world \in Kinds
    BY Sorts, InventoryIs, ReadyIs DEF Drop
<1>2. CASE o \in SubIssue
    <2>1. world' = obj_from_char(world, o)
        BY <1>2 DEF Drop
    <2>2. /\ Fit(world') /\ Untouched(world, world') /\ Bides(world, world', o) /\ Easy(world, world')
          /\ world'.at[o] = Lost
        BY <1>1, <2>1, TakenFrom
    <2>3. Lacks(world', SubIssue)
        <3>1. Lacks(world', SubIssue \cup {o})
            BY <1>1, <2>2, BidesLacks
        <3>2. SubIssue \cup {o} = SubIssue
            BY <1>2
        <3> QED
            BY <3>1, <3>2
    <2>4. Coins_(world, world')
        <3>1. world'.at[o] \notin Chars \cup {Nowhere} /\ world.at[o] # Nowhere
            BY <1>1, <2>2, Sorts DEF Bodies
        <3> QED
            BY <1>1, <2>2, <3>1, BidesCoins
    <2> QED
        BY <2>2, <2>3, <2>4, EasyDone DEF Untouched
<1>3. CASE o \notin SubIssue
    <2>0. world.room[c] \in Rooms
        BY <1>1 DEF Kinds
    <2>1. world' = obj_to_room(obj_from_char(world, o), o, world.room[c])
        BY <1>3 DEF Drop
    <2>2. /\ Fit(world') /\ Untouched(world, world') /\ Bides(world, world', o) /\ Easy(world, world')
          /\ world'.at[o] = world.room[c]
        BY <1>1, <2>0, <2>1, LaidDown
    <2>3. world'.at[o] \notin Chars \cup {Nowhere, Lost} /\ world.at[o] # Nowhere
        BY <1>1, <2>0, <2>2, Sorts DEF Bodies
    <2>4. Lacks(world', SubIssue)
        BY <2>2, <2>3, BidesKept
    <2>5. Coins_(world, world')
        BY <1>1, <2>2, <2>3, BidesCoins
    <2> QED
        BY <2>2, <2>4, <2>5, EasyDone DEF Untouched
<1> QED
    BY <1>2, <1>3

-----------------------------------------------------------------------------
\* wear and remove
LEMMA WornDone ==
    ASSUME NEW w, Ready(w), NEW v, Worn_(w, v)
    PROVE  Done(w, v)
<1>1. Fit(v) /\ Untouched(w, v) /\ Easy(w, v) /\ Lacks(v, SubIssue)
    BY ReadyIs DEF Worn_
<1>2. Coins_(w, v)
    <2>1. v.coins = w.coins /\ Dropped(w, v)
        BY <1>1 DEF Untouched, Worn_
    <2> SUFFICES ASSUME NEW m \in Money
                 PROVE  \/ v.at[m] \notin Chars \cup {Nowhere} /\ w.at[m] # Nowhere /\ v.coins[m] = w.coins[m]
                        \/ v.at[m] = w.at[m] /\ v.coins[m] = w.coins[m]
        BY DEF Coins_
    <2> QED
        BY <2>1, Sorts DEF Dropped, Bodies
<1> QED
    BY <1>1, <1>2, EasyDone DEF Untouched

\* do_wear.
LEMMA WearDone ==
    ASSUME Ready(world), NEW c \in Players, NEW o \in Things, NEW replace, Wear(c, o, replace)
    PROVE  Done(world, world')
<1>1. c \in Chars /\ world.at[o] = c /\ world.worn[o] = NotWorn /\ Fit(world)
    BY Sorts, InventoryIs, ReadyIs DEF Wear
<1>2. world' = wear_obj(world, c, o, replace)
    BY DEF Wear
<1>3. Worn_(world, world')
    BY <1>1, <1>2, WearIs
<1> QED
    BY <1>3, WornDone

\* do_remove.
LEMMA RemoveDone ==
    ASSUME Ready(world), NEW c \in Players, NEW o \in Things, Remove(c, o)
    PROVE  Done(world, world')
<1>1. c \in Chars /\ world.at[o] = c /\ world.worn[o] # NotWorn /\ Fit(world)
    BY Sorts, ReadyIs DEF Remove, Carrying, Inventory
<1>2. world' = unequip_char(world, c, o)
    BY DEF Remove
<1>3. Worn_(world, world')
    BY <1>1, <1>2, RemoveIs
<1> QED
    BY <1>3, WornDone

-----------------------------------------------------------------------------
\* What is destroyed.
LEMMA ExtractDone ==
    ASSUME NEW w, Ready(w), NEW o \in Things, NEW v, v = extract_obj(w, o)
    PROVE  Done(w, v)
<1>1. Sound(w) /\ Fit(w) /\ Lacks(w, SubIssue)
    BY ReadyIs
<1>2. Fit(v) /\ Extracted_(w, v, o)
    BY <1>1, ExtractIs DEF Fit
<1>3. Lacks(v, SubIssue)
    BY <1>1, <1>2, ExtractedLacks
<1>4. Easy(w, v)
    BY <1>1, <1>2, ExtractedEasy
<1>5. Coins_(w, v)
    BY <1>1, <1>2, ExtractedCoins
<1> QED
    BY <1>2, <1>3, <1>4, <1>5, EasyDone DEF Extracted_

\* do_trash and do_quaff.
LEMMA TrashDone ==
    ASSUME Ready(world), NEW c \in Players, NEW o \in Things, Trash(c, o) \/ Quaff(c, o)
    PROVE  Done(world, world')
<1>1. world' = extract_obj(world, o)
    BY DEF Trash, Quaff
<1> QED
    BY <1>1, ExtractDone

\* Nothing comes into anybody's hands, and coins stay what they are.
Drifts(w, v) == Ready(v) /\ Easy(w, v) /\ Coins_(w, v) /\ v.gold = w.gold

\* Two such steps are one.
LEMMA DriftsOn ==
    ASSUME NEW u, NEW w, NEW v, Drifts(u, w), Drifts(w, v)
    PROVE  Drifts(u, v)
<1>1. Ready(v) /\ Easy(u, w) /\ Easy(w, v) /\ Coins_(u, w) /\ Coins_(w, v) /\ v.gold = u.gold
    BY DEF Drifts
<1> QED
    BY <1>1, EasyOn, CoinsOn DEF Drifts

\* Something is extracted.
LEMMA ExtractDrifts ==
    ASSUME NEW w, Ready(w), NEW o \in Things, NEW v, v = extract_obj(w, o)
    PROVE  Drifts(w, v) /\ Extracted_(w, v, o)
<1>1. Sound(w) /\ Fit(w) /\ Lacks(w, SubIssue)
    BY ReadyIs
<1>2. Fit(v) /\ Extracted_(w, v, o)
    BY <1>1, ExtractIs DEF Fit
<1>3. Lacks(v, SubIssue)
    BY <1>1, <1>2, ExtractedLacks
<1>4. Easy(w, v)
    BY <1>1, <1>2, ExtractedEasy
<1>5. Coins_(w, v)
    BY <1>1, <1>2, ExtractedCoins
<1> QED
    BY <1>2, <1>3, <1>4, <1>5 DEF Ready, Drifts, Extracted_

\* Such a step does nothing that is claimed not to happen.
LEMMA DriftsDone ==
    ASSUME NEW w, Ready(w), NEW v, Drifts(w, v)
    PROVE  Done(w, v)
    BY EasyDone DEF Drifts, Ready

\* A thing on the floor is put somewhere else.
LEMMA FloorDrifts ==
    ASSUME NEW w, Ready(w), NEW k \in Things, k \notin Money, w.at[k] \in Rooms, NEW r \in Rooms,
           NEW v, v = obj_to_room(obj_from_room(w, k), k, r)
    PROVE  Drifts(w, v) /\ Untouched(w, v) /\ v.at = [w.at EXCEPT ![k] = r]
<1> DEFINE u == obj_from_room(w, k)
<1>0. /\ w.at[k] \notin Chars /\ r \notin Chars /\ r \notin Bodies \cup {Nowhere, Lost}
      /\ DOMAIN w.at = Things /\ \A m \in Money : m \in Things /\ m # k
    BY ReadyIs, Sorts DEF Bodies
<1>1. /\ Fit(u) /\ Untouched(w, u) /\ Easy(w, u) /\ Coins_(w, u)
      /\ u.at = [w.at EXCEPT ![k] = Lost] /\ u.at[k] = Lost /\ u.at[k] \notin Bodies /\ u.at[k] \notin Chars
      /\ Below(u.at, k) = Below(w.at, k)
      /\ Lacks(u, SubIssue \cup {k})
    BY <1>0, OffIs
<1>2. v = obj_to_room(u, k, r) /\ Sound(u)
    BY <1>1 DEF Fit
<1> HIDE DEF u
<1>3. /\ Sound(v) /\ Untouched(u, v)
      /\ v.at = [u.at EXCEPT ![k] = r] /\ v.worn = u.worn
      /\ v.light = u.light /\ (\A x : Shining(v, x) = Shining(u, x))
    <2>1. Sound(u) /\ k \in Things /\ u.at[k] \notin Bodies /\ r \in Rooms /\ v = obj_to_room(u, k, r)
        BY <1>1, <1>2
    <2> QED
        BY ONLY <2>1, ToRoom
<1>4. Fit(v)
    BY <1>1, <1>3, FitPut
<1>5. r \notin Below(u.at, k) /\ \A c \in Chars : r \notin Below(u.at, c)
    BY <1>0 DEF Below
<1>6. Easy(u, v)
    <2>1. /\ Sound(u) /\ k \in Things /\ u.at[k] \notin Bodies /\ r \notin Below(u.at, k)
          /\ (\A c \in Chars : r \notin Below(u.at, c)) /\ v.at = [u.at EXCEPT ![k] = r]
        BY <1>1, <1>2, <1>3, <1>5
    <2> QED
        BY ONLY <2>1, PutEasy
<1>7. v.at = [w.at EXCEPT ![k] = r]
    BY <1>0, <1>1, <1>3
<1>8. Lacks(v, SubIssue)
    BY <1>0, <1>1, <1>3 DEF Lacks
<1>9. Untouched(w, v)
    BY <1>1, <1>3 DEF Untouched
<1>10. Coins_(w, v)
    BY <1>0, <1>7, <1>9 DEF Coins_, Untouched
<1>11. Easy(w, v)
    BY <1>1, <1>6, EasyOn
<1> QED
    BY <1>4, <1>7, <1>8, <1>9, <1>10, <1>11 DEF Drifts, Ready, Untouched

-----------------------------------------------------------------------------
\* Things and coins are given.

\* A step by which one thing is handed to somebody that may have it.
LEMMA HandedDone ==
    ASSUME NEW w, Ready(w), NEW v, Ready(v), NEW o \in Things, NEW c \in Chars,
           Handed(w, v, o, c),
           c \in Players \ Thieves => MayHave(w, o, c) \/ o \in Below(w.at, c),
           w.at[o] \in Corpses /\ c \in Players => can_loot(w, c, w.at[o]),
           v.gold = w.gold, o \notin Money => Coins_(w, v),
           w.at[o] \in Chars \/ o \notin Money
    PROVE  Done(w, v)
<1>1. Fit(w) /\ Fit(v) /\ Lacks(v, SubIssue) /\ w \in Kinds /\ v \in Kinds
    BY ReadyIs
<1>2. Kept(w, v)
    BY ONLY <1>1, HandedKept, Handed(w, v, o, c), o \in Things, c \in Chars,
       c \in Players \ Thieves => MayHave(w, o, c) \/ o \in Below(w.at, c),
       w.at[o] \in Corpses /\ c \in Players => can_loot(w, c, w.at[o])
<1>3. ASSUME Rich(w)
      PROVE  Paid(w, v)
    <2>1. o \notin Money
        BY <1>3 DEF Rich, Minted
    <2> QED
        BY <1>1, <2>1, PaidSame
<1>4. Paid(w, v)
    BY <1>3 DEF Paid
<1> QED
    BY <1>2, <1>4 DEF Done

\* The summoner's magic makes the player weak.
Wearied(w, p) == [w EXCEPT !.weak = @ \cup {p}]

\* Somebody is made weak.
LEMMA WearyDrifts ==
    ASSUME NEW w, Ready(w), NEW p \in Players, NEW v, v = AffectModify(Wearied(w, p), p)
    PROVE  /\ Drifts(w, v) /\ v.room = w.room
           /\ \A x \in Things : w.at[x] \in Rooms => v.at[x] = w.at[x]
<1> DEFINE u == Wearied(w, p)
<1>0. Fit(w) /\ Sound(w) /\ w \in Kinds /\ Lacks(w, SubIssue)
    BY ReadyIs
<1>1. /\ u \in Kinds /\ u.at = w.at /\ u.worn = w.worn /\ u.number = w.number /\ u.weight = w.weight
      /\ u.gold = w.gold /\ u.coins = w.coins /\ u.lit = w.lit /\ u.weak = w.weak \cup {p}
      /\ u.room = w.room /\ u.light = w.light
    BY <1>0 DEF Wearied, Kinds
<1>2. v = AffectModify(u, p)
    OBVIOUS
<1> HIDE DEF u
<1>3. Sound(u)
    BY <1>0, <1>1 DEF Sound, Placed, Present, Counted, Dressed
<1>4. Lighted(u)
    BY <1>0, <1>1 DEF Fit, Lighted, Shining
<1>5. \A d \in Players : d # p => Armed(u, d)
    BY <1>0, <1>1 DEF Fit, AllArmed, Armed, CanWield, get_eq_char, Carrying
<1>6. /\ Fit(v) /\ Untouched(u, v) /\ Easy(u, v) /\ Coins_(u, v)
      /\ \A x \in Things : (Falls(u, v, x) /\ u.at[x] = p) \/ (v.at[x] = u.at[x] /\ v.worn[x] = u.worn[x])
      /\ \A S : Lacks(u, S) => Lacks(v, S)
    BY <1>2, <1>3, <1>4, <1>5, AffectedIs
<1>7. Easy(w, v) /\ Lacks(v, SubIssue)
    BY <1>0, <1>1, <1>6, SameEasy
<1>8. Coins_(w, v)
    BY <1>1, <1>6 DEF Coins_
<1>9. \A x \in Things : w.at[x] \in Rooms => v.at[x] = w.at[x]
    BY <1>1, <1>6, Sorts
<1> QED
    BY <1>1, <1>6, <1>7, <1>8, <1>9 DEF Drifts, Ready, Untouched

\* The summoner brings a corpse, and takes the shard and the strength.
LEMMA SummonDrifts ==
    ASSUME NEW w, Ready(w), NEW p \in Players, NEW d \in Chars, w.room[d] # Nowhere, NEW o \in Things,
           NEW v \in SummonCorpse(w, p, d, o)
    PROVE  Drifts(w, v)
<1> DEFINE afar == {k \in Corpses : w.whose[k] = p /\ w.at[k] \in Rooms \ {w.room[d]}}
           tired == AffectModify(Wearied(w, p), p)
<1>1. CASE afar = {}
    <2>1. v = extract_obj(w, o)
        BY <1>1 DEF SummonCorpse
    <2> QED
        BY <2>1, ExtractDrifts
<1>2. CASE afar # {}
    <2>1. PICK k \in afar : v = extract_obj(obj_to_room(obj_from_room(tired, k), k, w.room[d]), o)
        BY <1>2 DEF SummonCorpse, Wearied
    <2> DEFINE s == obj_to_room(obj_from_room(tired, k), k, w.room[d])
    <2>2. k \in Things /\ k \notin Money /\ w.at[k] \in Rooms /\ w.room[d] \in Rooms /\ w \in Kinds
        BY Sorts, ReadyIs DEF Kinds
    <2>3. /\ Drifts(w, tired) /\ tired.room = w.room
          /\ tired.at[k] = w.at[k]
        BY <2>2, WearyDrifts
    <2>4. v = extract_obj(s, o)
        BY <2>1
    <2> HIDE DEF afar, tired
    <2>5. Ready(tired) /\ tired.at[k] \in Rooms
        BY <2>2, <2>3 DEF Drifts
    <2>6. Drifts(tired, s)
        BY <2>2, <2>5, FloorDrifts
    <2> HIDE DEF s
    <2>7. Ready(s)
        BY <2>6 DEF Drifts
    <2>8. Drifts(s, v)
        BY <2>4, <2>7, ExtractDrifts
    <2> QED
        BY <2>3, <2>6, <2>8, DriftsOn
<1> QED
    BY <1>1, <1>2

\* Something goes from hand to hand.
LEMMA OverHands ==
    ASSUME NEW w, Ready(w), NEW o \in Things, w.at[o] \in Chars, NEW c \in Chars, w.room[c] # Nowhere,
           NEW v, v = obj_to_char(obj_from_char(w, o), o, c)
    PROVE  /\ Ready(v) /\ Untouched(w, v) /\ v.at[o] = c /\ Handed(w, v, o, c)
           /\ Below(v.at, o) = Below(w.at, o)
           /\ o \notin Money => Coins_(w, v)
<1>1. Fit(w) /\ w \in Kinds /\ c # Lost /\ Sound(w)
    BY ReadyIs, Sorts DEF Bodies
<1>2. /\ Fit(v) /\ Untouched(w, v) /\ Bides(w, v, o) /\ v.at[o] = c
      /\ Handed(w, v, o, c)
    BY <1>1, GivenOver
<1>3. Lacks(v, SubIssue)
    BY <1>1, <1>2, BidesKept
<1>4. Below(v.at, o) = Below(w.at, o)
    BY <1>1, <1>2, BidesBelow
<1>5. o \notin Money => Coins_(w, v)
    BY <1>1, <1>2, BidesCoins
<1> QED
    BY <1>2, <1>3, <1>4, <1>5 DEF Ready

\* do_give, of a thing.
LEMMA GiveDone ==
    ASSUME Ready(world), NEW c \in Players, NEW d \in Chars, NEW o \in Things, Give(c, d, o)
    PROVE  Done(world, world')
<1> DEFINE v == obj_to_char(obj_from_char(world, o), o, d)
<1>1. /\ c \in Chars /\ world.at[o] = c /\ c # d /\ world.room[c] # Nowhere /\ world.room[d] # Nowhere
      /\ world.at[o] \in Chars /\ world.at[o] \notin Corpses /\ world \in Kinds /\ Placed(world)
    BY Sorts, InventoryIs, ReadyIs DEF Give, Together
<1>2. /\ Ready(v) /\ Untouched(world, v) /\ v.at[o] = d /\ Handed(world, v, o, d)
      /\ Below(v.at, o) = Below(world.at, o)
      /\ o \notin Money => Coins_(world, v)
    BY <1>1, OverHands
<1>3. d \in Players => MayHave(world, o, d)
    <2>1. ~obj_move_violates_uniqueness(world, c, d, o, Carrying(world, d))
        BY DEF Give
    <2> QED
        BY <1>1, <2>1, UniqueChecked
<1>4. world' \in Summoned(v, c, d, o)
    BY DEF Give
<1>5. v.gold = world.gold /\ v.room[c] # Nowhere /\ v.room[d] # Nowhere /\ v.at[o] \in Chars /\ v.at[o] = d
    BY <1>1, <1>2 DEF Untouched
<1> HIDE DEF v
<1>6. CASE world' = v
    BY <1>1, <1>2, <1>3, <1>5, <1>6, HandedDone
<1>7. CASE d \in Summoners /\ world' \in SummonCorpse(v, c, d, o)
    <2>1. Drifts(v, world')
        BY <1>2, <1>5, <1>7, SummonDrifts
    <2>2. Easy(v, world') /\ Ready(world') /\ world'.gold = world.gold /\ Coins_(v, world')
        BY <1>5, <2>1 DEF Drifts
    <2>3. Handed(world, world', o, d)
        BY <1>2, <2>2, HandedOn
    <2>4. o \notin Money => Coins_(world, world')
        BY <1>2, <2>2, CoinsOn
    <2> QED
        BY <1>1, <1>3, <2>2, <2>3, <2>4, HandedDone
<1>8. CASE d \in Summoners /\ world' = obj_to_char(obj_from_char(v, o), o, c)
    <2>1. /\ Ready(world') /\ Untouched(v, world') /\ world'.at[o] = c /\ Handed(v, world', o, c)
          /\ o \notin Money => Coins_(v, world')
        BY <1>1, <1>2, <1>5, <1>8, OverHands
    <2>2. d \notin Players
        BY <1>8, ThingsAssumption
    <2>3. Handed(world, world', o, c)
        <3>1. ASSUME NEW x \in Things, world'.at[x] \in Chars
              PROVE  world'.at[x] = world.at[x] \/ (x = o /\ world'.at[x] = c)
            BY <1>2, <2>1, <3>1 DEF Handed
        <3>2. ASSUME NEW e \in Players
              PROVE  Below(world'.at, e) \subseteq Below(world.at, e) \cup
                         (IF e = c THEN Below(world.at, o) ELSE {})
            <4>1. Below(world'.at, e) \subseteq Below(v.at, e) \cup
                      (IF e = c THEN Below(v.at, o) ELSE {})
                BY <2>1 DEF Handed
            <4>2. Below(v.at, e) \subseteq Below(world.at, e)
                BY <1>2, <2>2 DEF Handed
            <4> QED
                BY <1>2, <4>1, <4>2
        <3> QED
            BY <3>1, <3>2 DEF Handed
    <2>4. o \in Below(world.at, c)
        <3>1. c \in Bodies
            BY <1>1 DEF Bodies
        <3> QED
            BY <1>1, <3>1, BelowLeast DEF Shut
    <2>5. world'.gold = world.gold /\ (o \notin Money => Coins_(world, world'))
        BY <1>2, <2>1, CoinsOn DEF Untouched
    <2> QED
        BY <1>1, <2>1, <2>3, <2>4, <2>5, HandedDone
<1> QED
    BY <1>4, <1>6, <1>7, <1>8 DEF Summoned

-----------------------------------------------------------------------------
(***************************************************************************)
(* One pays another.                                                       *)
(***************************************************************************)
PaysTo(w, v, a, b, n) ==
    /\ v.gold[a] = w.gold[a] - n /\ v.gold[b] = w.gold[b] + n
    /\ \A x \in Chars : x \notin {a, b} => v.gold[x] = w.gold[x]

\* What two purses hold after one has paid the other.
LEMMA PaysIs ==
    ASSUME NEW w \in Kinds, NEW a \in Chars, NEW b \in Chars, a # b, NEW n \in Int, NEW g,
           \/ g = [w.gold EXCEPT ![a] = @ - n, ![b] = @ + n]
           \/ g = [w.gold EXCEPT ![b] = @ + n, ![a] = @ - n]
    PROVE  /\ g \in [Chars -> Int]
           /\ g[a] = w.gold[a] - n /\ g[b] = w.gold[b] + n
           /\ \A x \in Chars : x \notin {a, b} => g[x] = w.gold[x]
<1>1. w.gold \in [Chars -> Int]
    BY DEF Kinds
<1> QED
    BY <1>1

\* What is paid stays in the world.
LEMMA PayDone ==
    ASSUME NEW w, Ready(w), NEW a \in Chars, NEW b \in Chars, a # b, NEW n \in Nat, n <= w.gold[a], NEW v,
           \/ v = [w EXCEPT !.gold[a] = @ - n, !.gold[b] = @ + n]
           \/ v = [w EXCEPT !.gold[b] = @ + n, !.gold[a] = @ - n]
    PROVE  Done(w, v)
<1>0. Fit(w) /\ w \in Kinds /\ Lacks(w, SubIssue)
    BY ReadyIs
<1>1. PICK g : /\ v = [w EXCEPT !.gold = g]
               /\ \/ g = [w.gold EXCEPT ![a] = @ - n, ![b] = @ + n]
                  \/ g = [w.gold EXCEPT ![b] = @ + n, ![a] = @ - n]
    OBVIOUS
<1>2. /\ g \in [Chars -> Int]
      /\ g[a] = w.gold[a] - n /\ g[b] = w.gold[b] + n
      /\ \A x \in Chars : x \notin {a, b} => g[x] = w.gold[x]
    BY <1>0, <1>1, PaysIs
<1>3. v = [w EXCEPT !.gold = g]
    BY <1>1
<1>4. OnlyGold(w, v) /\ v.gold = g
    BY ONLY <1>0, <1>2, <1>3 DEF OnlyGold, Kinds
<1>5. Coins_(w, v) /\ Kept(w, v) /\ v \in Kinds
    BY <1>0, <1>4, OnlyGoldIs DEF OnlyGold
<1>6. Paid(w, v)
    BY <1>0, <1>2, <1>4, <1>5, PaidOver
<1> QED
    BY <1>5, <1>6 DEF Done

\* do_give, of coins.
LEMMA GiveCoinsDone ==
    ASSUME Ready(world), NEW c \in Players, NEW d \in Chars, NEW n \in Nat, GiveCoins(c, d, n)
    PROVE  Done(world, world')
<1>1. c \in Chars /\ c # d /\ world.gold[c] >= n /\ world.gold[c] \in Int
    BY Sorts, ReadyIs DEF GiveCoins, Together, Kinds
<1>2. world' = [world EXCEPT !.gold[c] = @ - n, !.gold[d] = @ + n]
    BY DEF GiveCoins
<1>3. n <= world.gold[c]
    BY <1>1
<1> QED
    BY <1>1, <1>2, <1>3, PayDone

\* do_steal, of coins.
LEMMA StealCoinsDone ==
    ASSUME Ready(world), NEW c \in Players, NEW d \in Chars, StealCoins(c, d)
    PROVE  Done(world, world')
<1>1. c \in Chars /\ c # d /\ world.gold[d] \in Int
    BY Sorts, ReadyIs DEF StealCoins, Together, Kinds
<1>2. PICK n \in 1 .. world.gold[d] : world' = [world EXCEPT !.gold[c] = @ + n, !.gold[d] = @ - n]
    BY DEF StealCoins
<1>3. n \in Nat /\ n <= world.gold[d]
    BY <1>1
<1> QED
    BY <1>1, <1>2, <1>3, PayDone

\* NoneCharmed is needed here, and wherever coins are shared.
LEMMA SplitDone ==
    ASSUME Ready(world), NEW c \in Players, NEW n \in Int, Split(c, n)
    PROVE  Done(world, world')
<1>1. Fit(world) /\ world \in Kinds /\ Lacks(world, SubIssue) /\ world' = split_coins(world, c, n)
    BY ReadyIs DEF Split
<1>2. /\ OnlyGold(world, world')
      /\ NoneCharmed => Total(world'.gold, Chars) = Total(world.gold, Chars)
      /\ (\A d \in Chars : world.gold[d] >= 0) => (\A d \in Chars : world'.gold[d] >= 0)
    BY <1>1, SplitIs
<1>3. Coins_(world, world') /\ Kept(world, world') /\ world' \in Kinds
    BY <1>1, <1>2, OnlyGoldIs DEF OnlyGold
<1>4. ASSUME NoneCharmed
      PROVE  Paid(world, world')
    BY <1>1, <1>2, <1>3, <1>4, PaidOn DEF Rich
<1> QED
    BY <1>3, <1>4 DEF Done

-----------------------------------------------------------------------------
(***************************************************************************)
(* steal, buy and sell                                                     *)
(***************************************************************************)
\* obj_to_char, of something that left its place with nothing else coming into anybody's hands.
LEMMA IntoHands ==
    ASSUME NEW w, Sound(w), NEW u, Fit(u), Easy(w, u), NEW o \in Things,
           u.at[o] \notin Bodies, Below(u.at, o) = Below(w.at, o), Lacks(u, SubIssue \cup {o}),
           NEW c \in Chars, u.room[c] # Nowhere,
           NEW v, v = obj_to_char(u, o, c)
    PROVE  /\ Ready(v) /\ Untouched(u, v) /\ v.at[o] = c /\ Handed(w, v, o, c)
           /\ o \notin Money => Coins_(u, v)
<1>0. Sound(u) /\ DOMAIN u.at = Things /\ c # Lost /\ u.at[o] \notin Chars
    BY Sorts DEF Fit, Sound, Placed, Places, Bodies
<1>1. /\ Sound(v) /\ Untouched(u, v)
      /\ v.at = [u.at EXCEPT ![o] = c] /\ v.worn = u.worn
      /\ v.light = u.light /\ (\A x : Shining(v, x) = Shining(u, x))
    <2>1. Sound(u) /\ o \in Things /\ u.at[o] \notin Bodies /\ c \in Chars /\ u.room[c] # Nowhere /\ v = obj_to_char(u, o, c)
        BY <1>0
    <2> QED
        BY ONLY <2>1, ToHands
<1>2. Fit(v)
    BY <1>0, <1>1, FitPut
<1>3. Handed(w, v, o, c)
    <2>1. /\ Sound(w) /\ Sound(u) /\ Easy(w, u) /\ o \in Things /\ u.at[o] \notin Bodies
          /\ Below(u.at, o) = Below(w.at, o) /\ c \in Chars /\ v.at = [u.at EXCEPT ![o] = c]
        BY <1>0, <1>1
    <2> QED
        BY ONLY <2>1, HandedOver
<1>4. Lacks(v, SubIssue)
    BY <1>0, <1>1 DEF Lacks
<1>5. ASSUME o \notin Money
      PROVE  Coins_(u, v)
    BY <1>0, <1>1, <1>5, Sorts DEF Coins_, Untouched
<1> QED
    BY <1>0, <1>1, <1>2, <1>3, <1>4, <1>5 DEF Ready

\* do_steal, of a thing.
LEMMA StealDone ==
    ASSUME Ready(world), NEW c \in Players, NEW d \in Chars, NEW o \in Things, Steal(c, d, o)
    PROVE  Done(world, world')
<1>1. /\ c \in Chars /\ world.at[o] = d /\ world.at[o] \in Chars /\ world.at[o] \notin Corpses
      /\ world.room[c] # Nowhere /\ c \in Thieves
    BY Sorts, InventoryIs DEF Steal, Together
<1>2. world' = obj_to_char(obj_from_char(world, o), o, c)
    BY DEF Steal
<1>3. /\ Ready(world') /\ Untouched(world, world') /\ Handed(world, world', o, c)
      /\ o \notin Money => Coins_(world, world')
    BY <1>1, <1>2, OverHands
<1> QED
    BY <1>1, <1>3, HandedDone DEF Untouched

\* A thing is handed over and paid for.
LEMMA TradeDone ==
    ASSUME NEW w, Ready(w), NEW v, Ready(v), NEW o \in Things, NEW c \in Chars,
           Handed(w, v, o, c),
           c \in Players \ Thieves => MayHave(w, o, c) \/ o \in Below(w.at, c),
           w.at[o] \in Corpses /\ c \in Players => can_loot(w, c, w.at[o]),
           NEW a \in Chars, NEW b \in Chars, a # b, NEW n \in Nat, n <= w.gold[a], PaysTo(w, v, a, b, n),
           o \notin Money => Coins_(w, v),
           w.at[o] \in Chars \/ o \notin Money
    PROVE  Done(w, v)
<1>1. Fit(w) /\ Fit(v) /\ Lacks(v, SubIssue) /\ w \in Kinds /\ v \in Kinds
    BY ReadyIs
<1>2. Kept(w, v)
    BY ONLY <1>1, HandedKept, Handed(w, v, o, c), o \in Things, c \in Chars,
       c \in Players \ Thieves => MayHave(w, o, c) \/ o \in Below(w.at, c),
       w.at[o] \in Corpses /\ c \in Players => can_loot(w, c, w.at[o])
<1>3. ASSUME Rich(w)
      PROVE  Paid(w, v)
    <2>1. o \notin Money
        BY <1>3 DEF Rich, Minted
    <2>2. Coins_(w, v) /\ n \in Int /\ n >= 0
        BY <2>1
    <2> QED
        BY <1>1, <2>2, PaidOver DEF PaysTo
<1>4. Paid(w, v)
    BY <1>3 DEF Paid
<1> QED
    BY <1>2, <1>4 DEF Done

\* The price is paid, and what is sold is to rot or not to.
PaidFor(w, u, a, b, n) ==
    /\ u \in Kinds
    /\ u.at = w.at /\ u.worn = w.worn /\ u.number = w.number /\ u.weight = w.weight
    /\ u.room = w.room /\ u.light = w.light /\ u.lit = w.lit /\ u.weak = w.weak
    /\ u.coins = w.coins /\ u.owner = w.owner
    /\ PaysTo(w, u, a, b, n)

\* The payment before something is handed over.
LEMMA PaidForIs ==
    ASSUME NEW w, Ready(w), NEW a \in Chars, NEW b \in Chars, a # b, NEW n \in Int, NEW u,
           \/ \E S \in SUBSET Things : u = [w EXCEPT !.gold[a] = @ - n, !.gold[b] = @ + n, !.rots = S]
           \/ u = [w EXCEPT !.gold[b] = @ + n, !.gold[a] = @ - n]
    PROVE  PaidFor(w, u, a, b, n)
<1>0. w \in Kinds
    BY ReadyIs
<1>1. PICK g, S : /\ u = [w EXCEPT !.gold = g, !.rots = S] /\ S \in SUBSET Things
                  /\ \/ g = [w.gold EXCEPT ![a] = @ - n, ![b] = @ + n]
                     \/ g = [w.gold EXCEPT ![b] = @ + n, ![a] = @ - n]
    <2>1. CASE \E S \in SUBSET Things : u = [w EXCEPT !.gold[a] = @ - n, !.gold[b] = @ + n, !.rots = S]
        <3>1. PICK S \in SUBSET Things : u = [w EXCEPT !.gold[a] = @ - n, !.gold[b] = @ + n, !.rots = S]
            BY <2>1
        <3> DEFINE g == [w.gold EXCEPT ![a] = @ - n, ![b] = @ + n]
        <3>2. u = [w EXCEPT !.gold = g, !.rots = S]
            BY <3>1
        <3> QED
            BY <3>2
    <2>2. CASE u = [w EXCEPT !.gold[b] = @ + n, !.gold[a] = @ - n]
        <3> DEFINE g == [w.gold EXCEPT ![b] = @ + n, ![a] = @ - n]
        <3>1. u = [w EXCEPT !.gold = g]
            BY <2>2
        <3> HIDE DEF g
        <3>2. u = [w EXCEPT !.gold = g, !.rots = w.rots] /\ w.rots \in SUBSET Things
            BY <1>0, <3>1 DEF Kinds
        <3> QED
            BY <3>2 DEF g
    <2> QED
        BY <2>1, <2>2
<1>2. /\ g \in [Chars -> Int]
      /\ g[a] = w.gold[a] - n /\ g[b] = w.gold[b] + n
      /\ \A x \in Chars : x \notin {a, b} => g[x] = w.gold[x]
    <2>1. /\ w \in Kinds /\ a \in Chars /\ b \in Chars /\ a # b /\ n \in Int
          /\ \/ g = [w.gold EXCEPT ![a] = @ - n, ![b] = @ + n]
             \/ g = [w.gold EXCEPT ![b] = @ + n, ![a] = @ - n]
        BY <1>0, <1>1
    <2> QED
        BY ONLY <2>1, PaysIs
<1>3. u = [w EXCEPT !.gold = g, !.rots = S] /\ S \in SUBSET Things
    BY <1>1
<1> QED
    BY ONLY <1>0, <1>2, <1>3 DEF PaidFor, PaysTo, Kinds

\* What holds once it is paid for and is not yet handed over.
LEMMA PaidForReady ==
    ASSUME NEW w, Ready(w), NEW a, NEW b, NEW n, NEW u, PaidFor(w, u, a, b, n)
    PROVE  Ready(u) /\ Coins_(w, u) /\ Easy(w, u) /\ u.at = w.at /\ u.room = w.room /\ u.coins = w.coins
<1>1. Fit(w) /\ Lacks(w, SubIssue)
    BY ReadyIs
<1>2. Fit(u)
    BY <1>1, FitSame DEF PaidFor
<1>3. Easy(w, u) /\ Lacks(u, SubIssue)
    BY <1>1, SameEasy DEF PaidFor
<1>4. Coins_(w, u)
    BY DEF Coins_, PaidFor
<1> QED
    BY <1>2, <1>3, <1>4 DEF Ready, PaidFor

\* What is made is nowhere yet, so that nothing is in it.
LEMMA UnmadeAlone ==
    ASSUME NEW w, Sound(w), NEW x \in Things, w.at[x] = Nowhere
    PROVE  Below(w.at, x) = {x}
<1>1. Shut(w.at, {x})
    BY DEF Shut, Sound, Present
<1> QED
    BY <1>1, BelowLeast DEF Bodies

\* Who may have the one may have another that is made of the same index.
LEMMA CopyMayBeHad ==
    ASSUME NEW w, Sound(w), NEW c \in Chars, NEW o \in Things, MayHave(w, o, c),
           NEW x \in Copies(o), w.at[x] = Nowhere
    PROVE  MayHave(w, x, c)
<1>1. x \in Things /\ Index[x] = Index[o]
    BY DEF Copies
<1> SUFFICES ASSUME NEW k \in Uniques, k \cap Holds(w, c) # {}
             PROVE  k \cap Below(w.at, x) = {}
    BY DEF MayHave
<1>2. o \notin k
    <2>1. o \in Below(w.at, o)
        BY BelowLeast DEF Bodies
    <2> QED
        BY <2>1 DEF MayHave
<1>3. x \notin k
    BY <1>1, <1>2, ThingsAssumption
<1> QED
    BY <1>1, <1>3, UnmadeAlone

\* do_buy.
LEMMA BuyDone ==
    ASSUME Ready(world), NEW c \in Players, NEW d \in Chars, NEW o \in Things, Buy(c, d, o)
    PROVE  Done(world, world')
<1>1. /\ c \in Chars /\ c # d /\ d \in Keepers /\ world.room[c] # Nowhere
      /\ world.at[o] = d
      /\ Fit(world) /\ Sound(world) /\ world \in Kinds /\ Lacks(world, SubIssue) /\ Placed(world)
    BY Sorts, ReadyIs, InventoryIs DEF Buy, Together
<1>2. PICK x \in IF o \in Stock THEN Unmade(world, Copies(o)) ELSE {o}, p \in 0 .. world.gold[c] :
          LET paid == [world EXCEPT !.gold[c] = @ - p, !.gold[d] = @ + p, !.rots = @ \ {x}]
          IN  world' = obj_to_char(IF o \in Stock THEN paid ELSE obj_from_char(paid, o), x, c)
    BY DEF Buy
<1> DEFINE u == [world EXCEPT !.gold[c] = @ - p, !.gold[d] = @ + p, !.rots = @ \ {x}]
<1>3. /\ p \in Nat /\ p \in Int /\ p <= world.gold[c]
      /\ o \in Stock => x \in Copies(o) /\ world.at[x] = Nowhere /\ x \notin Money
      /\ o \notin Stock => x = o
      /\ x \in Things
    BY <1>1, <1>2 DEF Kinds, Unmade, Copies
<1>4. PaidFor(world, u, c, d, p)
    <2>1. world.rots \ {x} \in SUBSET Things
        BY <1>1 DEF Kinds
    <2>2. \E S \in SUBSET Things : u = [world EXCEPT !.gold[c] = @ - p, !.gold[d] = @ + p, !.rots = S]
        BY <2>1
    <2>3. Ready(world) /\ c \in Chars /\ d \in Chars /\ c # d /\ p \in Int
        BY <1>1, <1>3
    <2> HIDE DEF u
    <2> QED
        BY ONLY <2>2, <2>3, PaidForIs
<1>5. world' = obj_to_char(IF o \in Stock THEN u ELSE obj_from_char(u, o), x, c)
    BY <1>2
<1> HIDE DEF u
<1>6. Ready(u) /\ Coins_(world, u) /\ Easy(world, u) /\ u.at = world.at /\ u.room = world.room /\ u.coins = world.coins
    BY <1>4, PaidForReady
<1>7. MayHave(world, x, c)
    <2>1. ~obj_move_violates_uniqueness(world, d, c, o, Carrying(world, c)) /\ d # c
        BY <1>1 DEF Buy
    <2>2. MayHave(world, o, c)
        BY <1>1, <2>1, UniqueChecked
    <2> QED
        BY <1>1, <1>3, <2>2, CopyMayBeHad
<1>8. /\ Ready(world') /\ Untouched(u, world') /\ Handed(world, world', x, c)
      /\ x \notin Money => Coins_(u, world')
      /\ world.at[x] \notin Corpses /\ (world.at[x] \in Chars \/ x \notin Money)
    <2>1. CASE o \in Stock
        <3>2. x \notin Money /\ world.at[x] \notin Corpses /\ u.at[x] \notin Bodies
            BY <1>3, <1>6, <2>1, Sorts DEF Bodies
        <3>3. /\ Sound(world) /\ Fit(u) /\ Easy(world, u) /\ Below(u.at, x) = Below(world.at, x)
              /\ Lacks(u, SubIssue \cup {x}) /\ u.room[c] # Nowhere
            BY <1>1, <1>6 DEF Ready, Lacks
        <3>4. world' = obj_to_char(u, x, c)
            BY <1>5, <2>1
        <3>5. /\ Ready(world') /\ Untouched(u, world') /\ Handed(world, world', x, c)
              /\ x \notin Money => Coins_(u, world')
            BY ONLY <1>1, <1>3, <3>2, <3>3, <3>4, IntoHands
        <3> QED
            BY <3>2, <3>5
    <2>2. CASE o \notin Stock
        <3>1. x = o /\ world.at[x] = d
            BY <1>1, <1>3, <2>2
        <3>2. world' = obj_to_char(obj_from_char(u, x), x, c)
            BY <1>5, <2>2, <3>1
        <3>3. u.at[x] \in Chars /\ u.room[c] # Nowhere
            BY <1>1, <1>6, <3>1
        <3>4. /\ Ready(world') /\ Untouched(u, world') /\ Handed(u, world', x, c)
              /\ x \notin Money => Coins_(u, world')
            BY ONLY <1>1, <1>3, <1>6, <3>2, <3>3, OverHands
        <3>5. Handed(world, world', x, c)
            BY <1>6, <3>4 DEF Handed
        <3>6. world.at[x] \notin Corpses /\ world.at[x] \in Chars
            BY <3>1, Sorts
        <3> QED
            BY <3>4, <3>5, <3>6
    <2> QED
        BY <2>1, <2>2
<1>9. PaysTo(world, world', c, d, p)
    BY <1>4, <1>8 DEF PaidFor, PaysTo, Untouched
<1>10. x \notin Money => Coins_(world, world')
    BY <1>6, <1>8, CoinsOn
<1> QED
    BY ONLY <1>1, <1>3, <1>7, <1>8, <1>9, <1>10, TradeDone, Ready(world), c \in Players, d \in Chars

\* do_sell.
LEMMA SellDone ==
    ASSUME Ready(world), NEW c \in Players, NEW d \in Chars, NEW o \in Things, Sell(c, d, o)
    PROVE  Done(world, world')
<1>1. /\ c \in Chars /\ c # d /\ d # c /\ d \in Keepers /\ d \notin Players /\ world.room[d] # Nowhere
      /\ world.at[o] = c
      /\ Fit(world) /\ Sound(world) /\ world \in Kinds /\ Lacks(world, SubIssue) /\ Placed(world)
    BY Sorts, ReadyIs, InventoryIs, ThingsAssumption DEF Sell, Together
<1>2. PICK p \in 1 .. world.gold[d] :
          LET paid == [world EXCEPT !.gold[c] = @ + p, !.gold[d] = @ - p]
          IN  world' = IF o \in Rubbish THEN extract_obj(paid, o)
                       ELSE obj_to_char([obj_from_char(paid, o) EXCEPT !.rots = @ \cup {o}], o, d)
    BY DEF Sell
<1> DEFINE u == [world EXCEPT !.gold[c] = @ + p, !.gold[d] = @ - p]
<1>3. p \in Nat /\ p \in Int /\ p >= 0 /\ p <= world.gold[d]
    BY <1>1 DEF Kinds
<1>4. PaidFor(world, u, d, c, p)
    <2>1. u = [world EXCEPT !.gold[c] = @ + p, !.gold[d] = @ - p]
        OBVIOUS
    <2>2. Ready(world) /\ c \in Chars /\ d \in Chars /\ d # c /\ p \in Int
        BY <1>1, <1>3
    <2> HIDE DEF u
    <2> QED
        BY ONLY <2>1, <2>2, PaidForIs
<1>5. world' = IF o \in Rubbish THEN extract_obj(u, o)
               ELSE obj_to_char([obj_from_char(u, o) EXCEPT !.rots = @ \cup {o}], o, d)
    BY <1>2
<1> HIDE DEF u
<1>6. Ready(u) /\ Coins_(world, u) /\ Easy(world, u) /\ u.at = world.at /\ u.room = world.room /\ u.coins = world.coins
    BY <1>4, PaidForReady
<1>7. CASE o \in Rubbish
    <2>1. Drifts(u, world')
        BY <1>5, <1>6, <1>7, ExtractDrifts
    <2>2. /\ Ready(world') /\ Easy(world, world') /\ Coins_(world, world') /\ world'.gold = u.gold
        BY <1>6, <2>1, EasyOn, CoinsOn DEF Drifts
    <2>3. PaysTo(world, world', d, c, p)
        BY <1>4, <2>2 DEF PaidFor, PaysTo
    <2>4. Paid(world, world')
        <3>1. world' \in Kinds
            BY <2>2, ReadyIs
        <3> QED
            BY <1>1, <1>3, <2>2, <2>3, <3>1, PaidOver DEF PaysTo
    <2>5. Kept(world, world')
        BY <1>1, <2>2, EasyKept DEF Ready
    <2> QED
        BY <2>4, <2>5 DEF Done
<1>8. CASE o \notin Rubbish
    <2> DEFINE off == obj_from_char(u, o)
               s == [off EXCEPT !.rots = @ \cup {o}]
    <2>1. Fit(u) /\ u.at[o] \in Chars /\ Lacks(u, SubIssue)
        BY <1>1, <1>6 DEF Ready
    <2>2. /\ Fit(off) /\ Untouched(u, off) /\ Bides(u, off, o)
          /\ off.at[o] = Lost /\ off.at[o] \notin Bodies /\ off.at[o] \notin Chars /\ off.worn[o] = NotWorn
          /\ Easy(u, off) /\ Below(off.at, o) = Below(u.at, o)
        BY <2>1, TakenFrom
    <2>3. world' = obj_to_char(s, o, d)
        BY <1>5, <1>8
    <2>4. /\ s \in Kinds /\ s.at = off.at /\ s.worn = off.worn /\ s.number = off.number /\ s.weight = off.weight
          /\ s.room = off.room /\ s.light = off.light /\ s.lit = off.lit /\ s.weak = off.weak
          /\ s.gold = off.gold /\ s.coins = off.coins
        BY <2>2 DEF Fit, Sound, Kinds
    <2> HIDE DEF s, off
    <2>5. Fit(s)
        BY <2>2, <2>4, FitSame
    <2>6. Easy(world, s)
        <3>1. Easy(world, off)
            BY <1>6, <2>2, EasyOn
        <3> QED
            BY <2>4, <3>1 DEF Easy
    <2>7. /\ s.at[o] \notin Bodies /\ Below(s.at, o) = Below(world.at, o)
          /\ Lacks(s, SubIssue \cup {o}) /\ s.room[d] # Nowhere
        <3>1. Lacks(off, SubIssue \cup {o})
            BY <2>1, <2>2, BidesLacks DEF Fit
        <3>2. off.room = world.room
            BY <1>6, <2>2 DEF Untouched
        <3> QED
            BY <1>1, <1>6, <2>2, <2>4, <3>1, <3>2 DEF Lacks
    <2>8. /\ Ready(world') /\ Untouched(s, world') /\ Handed(world, world', o, d)
          /\ o \notin Money => Coins_(s, world')
        BY ONLY <1>1, <2>3, <2>5, <2>6, <2>7, IntoHands, o \in Things, d \in Chars
    <2>9. PaysTo(world, world', d, c, p)
        BY <1>4, <2>2, <2>4, <2>8 DEF PaidFor, PaysTo, Untouched
    <2>10. o \notin Money => Coins_(world, world')
        <3>1. o \notin Money => Coins_(u, off)
            BY <2>1, <2>2, BidesCoins DEF Fit
        <3>2. o \notin Money => Coins_(u, s)
            BY <2>4, <3>1 DEF Coins_
        <3> QED
            BY <1>6, <2>8, <3>2, CoinsOn
    <2>11. world.at[o] \in Chars /\ world.at[o] \notin Corpses
        BY <1>1, Sorts
    <2> QED
        BY ONLY <1>1, <1>3, <2>8, <2>9, <2>10, <2>11, TradeDone, Ready(world), c \in Chars, d \in Chars, o \in Things
<1> QED
    BY <1>7, <1>8

-----------------------------------------------------------------------------
\* What is sacrificed vanishes, for a coin.

\* do_sacrifice.
LEMMA SacrificeDone ==
    ASSUME Ready(world), NEW c \in Players, NEW o \in Things, NEW g \in 0 .. 1, Sacrifice(c, o, g)
    PROVE  Done(world, world')
<1> DEFINE u == Gained(world, c, g)
<1>1. /\ c \in Chars /\ world.at[o] \in Rooms /\ AllGold(world) + g <= MaxGold /\ g \in Int /\ g >= 0
      /\ Fit(world) /\ Sound(world) /\ world \in Kinds /\ Lacks(world, SubIssue)
    BY Sorts, ReadyIs DEF Sacrifice
<1>2. world' = extract_obj(u, o)
    BY DEF Sacrifice, AutoSplits, Gained
<1>3. /\ OnlyGold(world, u) /\ Total(u.gold, Chars) = Total(world.gold, Chars) + g
      /\ (\A d \in Chars : world.gold[d] >= 0) => (\A d \in Chars : u.gold[d] >= 0)
    BY <1>1, GainedIs
<1> HIDE DEF u
<1>4. /\ Fit(u) /\ Easy(world, u) /\ Coins_(world, u) /\ Ready(u)
      /\ u.at = world.at /\ u.coins = world.coins
    BY <1>1, <1>3, OnlyGoldIs DEF Kept, Ready, OnlyGold
<1>5. Drifts(u, world') /\ Extracted_(u, world', o)
    BY <1>2, <1>4, ExtractDrifts
<1>6. /\ Ready(world') /\ Easy(world, world') /\ Coins_(world, world') /\ world'.gold = u.gold
    BY <1>4, <1>5, EasyOn, CoinsOn DEF Drifts
<1>7. Kept(world, world')
    BY <1>1, <1>6, EasyKept DEF Ready
<1>8. ASSUME Rich(world)
      PROVE  Rich(world') /\ KeepsGold(world, world')
    <2>1. world' \in Kinds /\ o \in Below(u.at, o) /\ world'.at[o] = Nowhere /\ world.at[o] # Nowhere
        <3>1. o \in Below(u.at, o)
            BY BelowLeast DEF Bodies
        <3>2. Nowhere \notin Rooms
            BY Sorts
        <3> QED
            BY <1>1, <1>5, <1>6, <3>1, <3>2, ReadyIs DEF Extracted_, Falls
    <2>2. Gone(world, world', o)
        BY <2>1 DEF Gone
    <2>3. Minted(world') /\ \A d \in Chars : world'.gold[d] >= 0
        BY <1>3, <1>6, <1>8, CoinsMinted DEF Rich
    <2>4. /\ AllGold(world) = Total(world.gold, Chars) + Total(world.coins, Money)
          /\ AllGold(world') = Total(world.gold, Chars) + g + Total(world'.coins, Money)
          /\ Total(world.gold, Chars) \in Int /\ Total(world.coins, Money) \in Int
          /\ Total(world'.coins, Money) \in Int
          /\ IsFiniteSet(Money) /\ \A m \in Money : world.coins[m] \in Int
        BY <1>1, <1>3, <1>6, <2>1, GoldIs
    <2>5. Total(world'.coins, Money) <= Total(world.coins, Money)
        BY <1>1, <1>6, <1>8, <2>1, CoinsTotal DEF Rich
    <2>6. AllGold(world') <= MaxGold
        BY <1>1, <2>4, <2>5, ThingsAssumption
    <2>7. ASSUME o \in Money
          PROVE  AllGold(world') <= AllGold(world)
        <3> DEFINE f == [world.coins EXCEPT ![o] = 0]
        <3>1. \A m \in Money : f[m] = IF m = o THEN 0 ELSE world.coins[m]
            BY <1>1 DEF Kinds
        <3>2. \A m \in Money : world'.coins[m] = IF m \in Below(u.at, o) THEN 0 ELSE world.coins[m]
            BY <1>4, <1>5 DEF Extracted_
        <3> HIDE DEF f
        <3>3. world.coins[o] >= 1
            BY <1>8, <2>1, <2>4, <2>7 DEF Rich, Minted
        <3>4. Total(f, Money) = Total(world.coins, Money) - world.coins[o] + 0
            <4>1. f[o] = 0 /\ f[o] \in Int /\ \A x \in Money : x # o => f[x] = world.coins[x]
                BY <2>7, <3>1
            <4> QED
                BY <2>4, <2>7, <4>1, TotalChanged
        <3>5. Total(world'.coins, Money) <= Total(f, Money)
            <4>1. \A x \in Money : world'.coins[x] \in Int /\ f[x] \in Int /\ world'.coins[x] <= f[x]
                BY <1>8, <2>1, <2>4, <3>1, <3>2 DEF Rich, Minted
            <4> QED
                BY <2>4, <4>1, TotalUp
        <3>6. Total(world'.coins, Money) <= Total(world.coins, Money) - 1
            BY <2>4, <2>7, <3>3, <3>4, <3>5
        <3> QED
            BY <2>4, <3>6
    <2>8. KeepsGold(world, world')
        BY <2>2, <2>7 DEF KeepsGold
    <2> QED
        BY <2>3, <2>6, <2>8 DEF Rich
<1> QED
    BY <1>7, <1>8 DEF Done, Paid

-----------------------------------------------------------------------------
(***************************************************************************)
(* Coins are dropped, and become one heap with those that lie there.       *)
(***************************************************************************)
\* obj_to_room, of something that was Lost.
LEMMA ToFloor ==
    ASSUME NEW u, Fit(u), NEW o \in Things, u.at[o] \notin Bodies, Lacks(u, SubIssue \cup {o}),
           NEW r \in Rooms, NEW v, v = obj_to_room(u, o, r)
    PROVE  Ready(v) /\ Untouched(u, v) /\ v.at = [u.at EXCEPT ![o] = r] /\ Easy(u, v)
<1>0. /\ Sound(u) /\ DOMAIN u.at = Things /\ u.at[o] \notin Chars
      /\ r \notin Bodies \cup {Nowhere, Lost}
    BY Sorts DEF Fit, Sound, Placed, Places, Bodies
<1>1. /\ Sound(v) /\ Untouched(u, v)
      /\ v.at = [u.at EXCEPT ![o] = r] /\ v.worn = u.worn
      /\ v.light = u.light /\ (\A x : Shining(v, x) = Shining(u, x))
    BY ONLY <1>0, o \in Things, u.at[o] \notin Bodies, r \in Rooms, v = obj_to_room(u, o, r), ToRoom
<1>2. Fit(v)
    BY <1>0, <1>1, FitPut
<1>3. r \notin Below(u.at, o) /\ \A c \in Chars : r \notin Below(u.at, c)
    BY <1>0 DEF Below
<1>4. Easy(u, v)
    BY ONLY <1>0, <1>1, <1>3, o \in Things, u.at[o] \notin Bodies, PutEasy
<1>5. Lacks(v, SubIssue)
    BY <1>0, <1>1 DEF Lacks
<1> QED
    BY <1>1, <1>2, <1>4, <1>5 DEF Ready

Spent(w, c, n) == [w EXCEPT !.gold[c] = @ - n]

\* Gold that somebody spends, and that everybody together has less.
LEMMA SpentIs ==
    ASSUME NEW w \in Kinds, NEW c \in Chars, NEW n \in Int, NEW u, u = Spent(w, c, n)
    PROVE  /\ OnlyGold(w, u) /\ u.gold[c] = w.gold[c] - n /\ \A d \in Chars : d # c => u.gold[d] = w.gold[d]
           /\ Total(u.gold, Chars) = Total(w.gold, Chars) - n
<1>1. PICK g : u = [w EXCEPT !.gold = g] /\ g = [w.gold EXCEPT ![c] = @ - n]
    BY DEF Spent
<1>2. g \in [Chars -> Int] /\ g[c] = w.gold[c] - n /\ \A d \in Chars : d # c => g[d] = w.gold[d]
    BY <1>1 DEF Kinds
<1>3. u = [w EXCEPT !.gold = g]
    BY <1>1
<1>4. OnlyGold(w, u) /\ u.gold = g
    BY ONLY <1>2, <1>3, w \in Kinds DEF OnlyGold, Kinds
<1>5. Total(g, Chars) = Total(w.gold, Chars) - w.gold[c] + g[c]
    <2>1. IsFiniteSet(Chars) /\ (\A d \in Chars : w.gold[d] \in Int) /\ g[c] \in Int
        BY <1>2, GoldIs
    <2> QED
        BY ONLY <1>2, <2>1, TotalChanged, c \in Chars
<1>6. Total(w.gold, Chars) \in Int /\ w.gold[c] \in Int
    BY GoldIs
<1> QED
    BY <1>2, <1>4, <1>5, <1>6

\* What lay there, and what is dropped, is the worth of the new heap.
Heaped(f, g, H, m, n) ==
    \A x \in Money : g[x] = IF x = m THEN n + Total(f, H) ELSE IF x \in H THEN 0 ELSE f[x]

\* What is nowhere is worth nothing, and n is a number.
Heapable(f, H, m, n) ==
    /\ H \in SUBSET Money /\ IsFiniteSet(Money) /\ \A x \in Money : f[x] \in Int
    /\ m \in Money /\ (m \notin H => f[m] = 0) /\ n \in Int

\* The new heap is worth all that, and the others nothing.
LEMMA HeapTotal ==
    ASSUME NEW f, NEW H, NEW m, NEW n, Heapable(f, H, m, n), NEW g, Heaped(f, g, H, m, n)
    PROVE  Total(g, Money) = Total(f, Money) + n
<1>0. /\ H \in SUBSET Money /\ IsFiniteSet(Money) /\ (\A x \in Money : f[x] \in Int)
      /\ m \in Money /\ (m \notin H => f[m] = 0) /\ n \in Int
    BY DEF Heapable
<1> DEFINE d == [x \in Money |-> IF x \in H THEN f[x] ELSE 0]
           b == [x \in Money |-> IF x \in H THEN 0 ELSE f[x]]
<1>1. /\ \A x \in Money : d[x] = IF x \in H THEN f[x] ELSE 0
      /\ \A x \in Money : b[x] = IF x \in H THEN 0 ELSE f[x]
    OBVIOUS
<1> HIDE DEF d, b
<1>2. Total(d, Money) = Total(f, H)
    <2>1. \A x \in Money : f[x] \in Int /\ d[x] = IF x \in H THEN f[x] ELSE 0
        BY <1>0, <1>1
    <2>2. Total(d, Money) = Total(f, Money \cap H)
        BY <1>0, <2>1, TotalWithin
    <2>3. Money \cap H = H
        BY <1>0
    <2> QED
        BY <2>2, <2>3
<1>3. Total(f, Money) = Total(b, Money) + Total(d, Money)
    <2>1. \A x \in Money : b[x] \in Int /\ d[x] \in Int /\ f[x] = b[x] + d[x]
        BY <1>0, <1>1
    <2> QED
        BY <1>0, <2>1, TotalPlus
<1>4. /\ \A x \in Money : b[x] \in Int /\ d[x] \in Int
      /\ b[m] = 0
    BY <1>0, <1>1
<1>5. Total(b, Money) \in Int /\ Total(d, Money) \in Int
    BY <1>0, <1>4, TotalIs
<1>6. g[m] = n + Total(f, H) /\ g[m] \in Int /\ \A x \in Money : x # m => g[x] = b[x]
    BY <1>0, <1>1, <1>2, <1>5 DEF Heaped
<1>7. Total(g, Money) = Total(b, Money) - b[m] + g[m]
    BY <1>0, <1>4, <1>6, TotalChanged
<1>8. Total(f, H) \in Int /\ b[m] = 0 /\ g[m] = n + Total(f, H)
    BY <1>2, <1>4, <1>5, <1>6
<1> QED
    BY ONLY <1>0, <1>2, <1>3, <1>5, <1>7, <1>8

\* do_drop, of coins.
LEMMA DropCoinsDone ==
    ASSUME Ready(world), NEW c \in Players, NEW n \in Nat \ {0}, NEW m \in Money, DropCoins(c, n, m)
    PROVE  Done(world, world')
<1> DEFINE u == Spent(world, c, n)
           heaps == {h \in Money : world.at[h] = world.room[c]}
           s == Sweep(u, heaps)
           worth == n + Total(world.coins, heaps)
           d == create_money(s, m, worth)
<1>1. /\ c \in Chars /\ world.room[c] \in Rooms /\ world.gold[c] >= n /\ n \in Int /\ n >= 1
      /\ Fit(world) /\ Sound(world) /\ world \in Kinds /\ Lacks(world, SubIssue)
      /\ m \in Things
    <2>1. /\ c \in Chars /\ Fit(world) /\ Sound(world) /\ world \in Kinds /\ Lacks(world, SubIssue)
          /\ m \in Things /\ n \in Int /\ n >= 1
        BY Sorts, ReadyIs
    <2>2. world.room[c] # Nowhere /\ world.gold[c] >= n
        BY DEF DropCoins
    <2>3. world.room[c] \in Rooms
        BY <2>1, <2>2 DEF Kinds
    <2> QED
        BY <2>1, <2>2, <2>3
<1>2. s.at[m] = Nowhere /\ world' = obj_to_room(d, m, world.room[c])
    BY DEF DropCoins, Unmade, Sweep, Spent, Total
<1>3. /\ OnlyGold(world, u) /\ u.gold[c] = world.gold[c] - n
      /\ (\A x \in Chars : x # c => u.gold[x] = world.gold[x])
      /\ Total(u.gold, Chars) = Total(world.gold, Chars) - n
    BY <1>1, SpentIs
<1>4. /\ Fit(u) /\ Easy(world, u) /\ Lacks(u, SubIssue)
      /\ u.at = world.at /\ u.coins = world.coins /\ u.room = world.room
    BY <1>1, <1>3, OnlyGoldIs DEF Kept, OnlyGold
<1>5. heaps \in SUBSET Money /\ \A h \in heaps : u.at[h] \in Rooms
    BY <1>1, <1>4
<1> HIDE DEF u
<1>6. Swept(u, s, heaps)
    BY <1>4, <1>5, SweepIs
<1> HIDE DEF s
<1>7. /\ IsFiniteSet(Money) /\ (\A x \in Money : world.coins[x] \in Int)
      /\ Total(world.coins, heaps) \in Int
    <2>1. IsFiniteSet(Money) /\ (\A x \in Money : world.coins[x] \in Int)
        BY <1>1, GoldIs
    <2> QED
        BY <1>5, <2>1, TotalIs
<1>8. worth \in Int
    BY <1>1, <1>7
<1>9. /\ Fit(d) /\ Easy(s, d)
      /\ d.at = [s.at EXCEPT ![m] = Lost] /\ d.coins = [s.coins EXCEPT ![m] = worth] /\ d.gold = s.gold
      /\ d.room = s.room
    <2> HIDE DEF worth, heaps
    <2>1. Fit(s) /\ s.at[m] = Nowhere /\ d = create_money(s, m, worth)
        BY <1>2, <1>6 DEF Swept
    <2> HIDE DEF d
    <2> QED
        BY ONLY <1>8, <2>1, CoinedIs, m \in Money
<1> HIDE DEF d, worth, heaps
<1>10. d.at[m] \notin Bodies /\ Lacks(d, SubIssue \cup {m}) /\ s \in Kinds /\ d \in Kinds
    <2>1. DOMAIN s.at = Things /\ Lacks(s, SubIssue) /\ s \in Kinds /\ d \in Kinds
        BY <1>6, <1>9 DEF Swept, Fit, Sound, Placed, Places
    <2> QED
        BY <1>1, <1>9, <2>1, Sorts DEF Lacks
<1>11. Ready(world') /\ Untouched(d, world') /\ world'.at = [d.at EXCEPT ![m] = world.room[c]] /\ Easy(d, world')
    <2>1. /\ Fit(d) /\ m \in Things /\ d.at[m] \notin Bodies /\ Lacks(d, SubIssue \cup {m})
          /\ world.room[c] \in Rooms /\ world' = obj_to_room(d, m, world.room[c])
        BY <1>1, <1>2, <1>9, <1>10
    <2> QED
        BY ONLY <2>1, ToFloor
<1>12. Easy(world, world')
    <2>1. Easy(u, s)
        BY <1>6 DEF Swept
    <2> QED
        BY <1>4, <1>9, <1>11, <2>1, EasyOn
<1>13. Kept(world, world')
    BY <1>1, <1>11, <1>12, EasyKept DEF Ready
<1>14. /\ world'.gold = u.gold /\ world' \in Kinds
       /\ \A x \in Money : world'.coins[x] = IF x = m THEN worth ELSE IF x \in heaps THEN 0 ELSE world.coins[x]
    <2>1. world'.gold = u.gold /\ world'.coins = [s.coins EXCEPT ![m] = worth]
        BY <1>6, <1>9, <1>11 DEF Swept, Untouched
    <2>2. world' \in Kinds
        BY <1>11, ReadyIs
    <2>3. DOMAIN s.coins = Money
        BY <1>10 DEF Kinds
    <2>4. \A x \in Money : s.coins[x] = IF x \in heaps THEN 0 ELSE world.coins[x]
        BY <1>4, <1>6 DEF Swept
    <2> QED
        BY <2>1, <2>2, <2>3, <2>4
<1>15. \A x \in Money :
          /\ x = m => world'.at[x] = world.room[c]
          /\ x # m /\ x \in heaps => world'.at[x] = Nowhere
          /\ x # m /\ x \notin heaps => world'.at[x] = world.at[x] \/ (world.at[x] \in Chars /\ world'.at[x] \in Rooms)
    <2>1. DOMAIN d.at = Things /\ DOMAIN s.at = Things
        BY <1>10 DEF Kinds, Places
    <2>2. \A x \in Money : x \in Things
        BY Sorts
    <2> QED
        BY <1>4, <1>6, <1>9, <1>11, <2>1, <2>2 DEF Swept
<1>16. ASSUME Rich(world)
       PROVE  Rich(world') /\ KeepsGold(world, world')
    <2>1. m \notin heaps => world.coins[m] = 0
        <3> SUFFICES ASSUME m \notin heaps
                     PROVE  world.coins[m] = 0
            OBVIOUS
        <3>1. s.at[m] = world.at[m] \/ s.at[m] \in Rooms
            BY <1>4, <1>6 DEF Swept
        <3>2. world.at[m] = Nowhere
            BY <1>2, <3>1, Sorts
        <3> QED
            BY <1>16, <3>2 DEF Rich, Minted
    <2>2. /\ AllGold(world) = Total(world.gold, Chars) + Total(world.coins, Money)
          /\ AllGold(world') = Total(world'.gold, Chars) + Total(world'.coins, Money)
          /\ Total(world.gold, Chars) \in Int /\ Total(world.coins, Money) \in Int
        BY <1>1, <1>14, GoldIs
    <2>3. Total(world'.coins, Money) = Total(world.coins, Money) + n
        <3>1. Heaped(world.coins, world'.coins, heaps, m, n)
            BY <1>14 DEF worth, Heaped
        <3> QED
            <4>1. Heapable(world.coins, heaps, m, n)
                BY <1>1, <1>5, <1>7, <2>1 DEF Heapable
            <4> HIDE DEF heaps
            <4> QED
                BY ONLY <3>1, <4>1, HeapTotal
    <2>4. AllGold(world') = AllGold(world)
        BY <1>1, <1>3, <1>14, <2>2, <2>3
    <2>5. \A x \in Chars : world'.gold[x] >= 0
        <3>1. \A x \in Chars : world.gold[x] \in Int
            BY <1>1, GoldIs
        <3> QED
            BY <1>1, <1>3, <1>14, <1>16, <3>1 DEF Rich
    <2>6. worth >= 1
        <3>1. Total(world.coins, heaps) >= 0
            <4>1. IsFiniteSet(heaps)
                BY <1>5, <1>7, FS_Subset
            <4>2. \A x \in heaps : world.coins[x] \in Int /\ world.coins[x] >= 0
                BY <1>5, <1>7, <1>16 DEF Rich, Minted
            <4> QED
                BY <4>1, <4>2, TotalBounds
        <3> QED
            BY <1>1, <1>7, <3>1 DEF worth
    <2>7. Minted(world')
        <3> SUFFICES ASSUME NEW x \in Money
                     PROVE  /\ world'.coins[x] >= 0
                            /\ world'.at[x] = Nowhere <=> world'.coins[x] = 0
                            /\ world'.at[x] \notin Chars
            BY DEF Minted
        <3>0. Nowhere \notin Chars /\ Nowhere \notin Rooms /\ Rooms \cap Chars = {}
            BY Sorts DEF Bodies
        <3>1. CASE x = m
            BY <1>1, <1>8, <1>14, <1>15, <2>6, <3>0, <3>1
        <3>2. CASE x # m /\ x \in heaps
            BY <1>14, <1>15, <3>0, <3>2
        <3>3. CASE x # m /\ x \notin heaps
            BY <1>14, <1>15, <1>16, <3>0, <3>3 DEF Rich, Minted
        <3> QED
            BY <3>1, <3>2, <3>3
    <2>8. AllGold(world') <= MaxGold
        BY <1>16, <2>4 DEF Rich
    <2>9. KeepsGold(world, world')
        <3>1. AllGold(world) \in Int
            BY <2>2
        <3> QED
            BY <2>4, <3>1 DEF KeepsGold
    <2> QED
        BY <2>5, <2>7, <2>8, <2>9 DEF Rich
<1> QED
    BY <1>13, <1>16 DEF Done, Paid

-----------------------------------------------------------------------------
(***************************************************************************)
(* Characters come, go and die.                                            *)
(***************************************************************************)
\* Somebody changes rooms with all that is his.
LEMMA MovedDrifts ==
    ASSUME NEW w, Ready(w), NEW v \in Kinds, Lighted(v), WithBelongings(w, v), NEW c \in Chars,
           v.room = [w.room EXCEPT ![c] = v.room[c]],
           v.room[c] # Nowhere \/ Carrying(w, c) = {}
    PROVE  Drifts(w, v)
<1>1. Fit(w) /\ Lacks(w, SubIssue)
    BY ReadyIs
<1>2. Fit(v)
    BY ONLY <1>1, FitMoved, v \in Kinds, Lighted(v), WithBelongings(w, v), c \in Chars,
       v.room = [w.room EXCEPT ![c] = v.room[c]], v.room[c] # Nowhere \/ Carrying(w, c) = {}
<1>3. Easy(w, v) /\ Lacks(v, SubIssue)
    BY <1>1, SameEasy DEF WithBelongings
<1>4. Coins_(w, v)
    BY DEF Coins_, WithBelongings
<1> QED
    BY <1>2, <1>3, <1>4 DEF Drifts, Ready, WithBelongings

\* Somebody goes from one room into another.
LEMMA WalkDrifts ==
    ASSUME NEW w, Ready(w), NEW c \in Chars, w.room[c] # Nowhere, NEW r \in Rooms,
           NEW v, v = char_to_room(char_from_room(w, c), c, r)
    PROVE  Drifts(w, v)
<1> DEFINE u == char_from_room(w, c)
<1>1. Fit(w) /\ w \in Kinds /\ Lighted(w) /\ w.room[c] \in Rooms /\ DOMAIN w.room = Chars /\ r # Nowhere
    BY ReadyIs, Sorts DEF Kinds, Fit
<1>2. /\ u \in Kinds /\ Lighted(u) /\ WithBelongings(w, u)
      /\ u.room = [w.room EXCEPT ![c] = Nowhere]
    BY <1>1, CharGoes
<1>3. v = char_to_room(u, c, r)
    OBVIOUS
<1> HIDE DEF u
<1>4. u.room[c] = Nowhere
    BY <1>1, <1>2
<1>5. /\ v \in Kinds /\ Lighted(v) /\ WithBelongings(u, v)
      /\ v.room = [u.room EXCEPT ![c] = r]
    BY <1>2, <1>3, <1>4, CharComes
<1>6. WithBelongings(w, v)
    BY <1>2, <1>5 DEF WithBelongings
<1>7. v.room[c] = r /\ v.room = [w.room EXCEPT ![c] = v.room[c]]
    BY <1>1, <1>2, <1>5
<1>8. v.room[c] # Nowhere
    BY <1>1, <1>7
<1> QED
    <2>1. /\ Ready(w) /\ v \in Kinds /\ Lighted(v) /\ WithBelongings(w, v) /\ c \in Chars
          /\ v.room = [w.room EXCEPT ![c] = v.room[c]]
          /\ (v.room[c] # Nowhere \/ Carrying(w, c) = {})
        BY <1>5, <1>6, <1>7, <1>8
    <2> QED
        BY ONLY <2>1, MovedDrifts

\* Somebody that carries nothing leaves the world.
LEMMA LeaveDrifts ==
    ASSUME NEW w, Ready(w), NEW c \in Chars, w.room[c] # Nowhere, Carrying(w, c) = {},
           NEW v, v = char_from_room(w, c)
    PROVE  Drifts(w, v)
<1>1. Fit(w) /\ w \in Kinds /\ Lighted(w) /\ w.room[c] \in Rooms /\ DOMAIN w.room = Chars
    BY ReadyIs DEF Kinds, Fit
<1>2. /\ v \in Kinds /\ Lighted(v) /\ WithBelongings(w, v)
      /\ v.room = [w.room EXCEPT ![c] = Nowhere]
    BY <1>1, CharGoes
<1>3. v.room = [w.room EXCEPT ![c] = v.room[c]]
    BY <1>1, <1>2
<1> QED
    BY ONLY <1>2, <1>3, Ready(w), c \in Chars, Carrying(w, c) = {}, MovedDrifts

\* The fatigue is over.
Rested(w, c) == [w EXCEPT !.weak = @ \ {c}]

\* Somebody's strength is back.
LEMMA RestedDrifts ==
    ASSUME NEW w, Ready(w), NEW c, NEW v, v = Rested(w, c)
    PROVE  Drifts(w, v)
<1>1. Fit(w) /\ Lacks(w, SubIssue) /\ w \in Kinds
    BY ReadyIs
<1>2. /\ v \in Kinds /\ v.at = w.at /\ v.worn = w.worn /\ v.number = w.number /\ v.weight = w.weight
      /\ v.room = w.room /\ v.light = w.light /\ v.lit = w.lit /\ v.weak \subseteq w.weak
      /\ v.gold = w.gold /\ v.coins = w.coins
    BY <1>1 DEF Rested, Kinds
<1>3. Fit(v)
    BY <1>1, <1>2, FitSame
<1>4. Easy(w, v) /\ Lacks(v, SubIssue)
    BY <1>1, <1>2, SameEasy
<1>5. Coins_(w, v)
    BY <1>2 DEF Coins_
<1> QED
    BY <1>2, <1>3, <1>4, <1>5 DEF Drifts, Ready

\* move_char.
LEMMA WalkDone ==
    ASSUME Ready(world), NEW c \in Chars, NEW r \in Rooms, Walk(c, r)
    PROVE  Done(world, world')
<1>1. Drifts(world, world')
    BY WalkDrifts DEF Walk
<1> QED
    BY <1>1, DriftsDone

\* char_to_room, of somebody that comes into the world.
LEMMA EnterDone ==
    ASSUME Ready(world), NEW c \in Chars, NEW r \in Rooms, Enter(c, r)
    PROVE  Done(world, world')
<1>1. /\ world \in Kinds /\ Lighted(world) /\ world.room[c] = Nowhere /\ world' = char_to_room(world, c, r)
      /\ r # Nowhere /\ DOMAIN world.room = Chars
    BY ReadyIs, Sorts DEF Kinds, Fit, Enter
<1>2. /\ world' \in Kinds /\ Lighted(world') /\ WithBelongings(world, world')
      /\ world'.room = [world.room EXCEPT ![c] = r]
    BY <1>1, CharComes
<1>3. world'.room[c] = r /\ world'.room = [world.room EXCEPT ![c] = world'.room[c]] /\ world'.room[c] # Nowhere
    BY <1>1, <1>2
<1>4. Drifts(world, world')
    BY ONLY <1>2, <1>3, Ready(world), c \in Chars, MovedDrifts
<1> QED
    BY <1>4, DriftsDone

\* extract_char, of somebody that leaves the world.
LEMMA QuitDone ==
    ASSUME Ready(world), NEW c \in Chars, Quit(c)
    PROVE  Done(world, world')
<1> DEFINE u == char_from_room(world, c)
<1>1. world.room[c] # Nowhere /\ Carrying(world, c) = {} /\ world' = Rested(u, c)
    BY DEF Quit, Rested
<1>2. Drifts(world, u)
    BY <1>1, LeaveDrifts
<1> HIDE DEF u
<1>3. Drifts(u, world')
    BY <1>1, <1>2, RestedDrifts DEF Drifts
<1>4. Drifts(world, world')
    BY <1>2, <1>3, DriftsOn
<1> QED
    BY <1>4, DriftsDone

\* Somebody's corpse lies there.
LEMMA CorpseReady ==
    ASSUME NEW w, Ready(w), NEW c \in Chars, w.room[c] # Nowhere, NEW k \in Corpses, w.at[k] = Nowhere,
           NEW m, c \in Mobs /\ w.gold[c] > 0 => m \in Money /\ w.at[m] = Nowhere,
           NEW first, NEW outlaw, NEW v, v = make_corpse(w, c, k, m, first, outlaw)
    PROVE  Ready(v) /\ Easy(w, v) /\ v.room = w.room /\ Carrying(v, c) = {} /\ Paid(w, v)
<1>1. Fit(w) /\ Lacks(w, SubIssue)
    BY ReadyIs
<1>2. /\ Fit(v) /\ Lacks(v, SubIssue) /\ Easy(w, v) /\ v.room = w.room
      /\ Carrying(v, c) = {} /\ Paid(w, v)
    <2>1. /\ Fit(w) /\ Lacks(w, SubIssue) /\ c \in Chars /\ w.room[c] # Nowhere
          /\ k \in Corpses /\ w.at[k] = Nowhere
          /\ c \in Mobs /\ w.gold[c] > 0 => m \in Money /\ w.at[m] = Nowhere
          /\ v = make_corpse(w, c, k, m, first, outlaw)
        BY <1>1
    <2> QED
        BY ONLY <2>1, CorpseIs
<1> QED
    BY <1>2 DEF Ready

\* raw_kill.
LEMMA DiesDone ==
    ASSUME Ready(world), NEW c \in Chars, NEW k \in Corpses, Dies(c, k)
    PROVE  Done(world, world')
<1>1. /\ Fit(world) /\ Lacks(world, SubIssue) /\ world \in Kinds /\ world.room[c] # Nowhere
      /\ world.at[k] = Nowhere
    BY ReadyIs DEF Dies, Unmade
<1>2. PICK m \in (IF c \in Mobs /\ world.gold[c] > 0 THEN Unmade(world, Money) ELSE {Nowhere}),
           first \in {Girdles, Weapons}, outlaw \in BOOLEAN :
              world' = [extract_char(make_corpse(world, c, k, m, first, outlaw), c)
                            EXCEPT !.weak = @ \ {c}]
    BY DEF Dies
<1> DEFINE u == make_corpse(world, c, k, m, first, outlaw)
           v == extract_char(u, c)
<1>3. c \in Mobs /\ world.gold[c] > 0 => m \in Money /\ world.at[m] = Nowhere
    BY <1>2 DEF Unmade
<1>4. Ready(u) /\ Easy(world, u) /\ u.room = world.room /\ Carrying(u, c) = {} /\ Paid(world, u)
    BY <1>1, <1>3, CorpseReady
<1>5. world' = Rested(v, c)
    BY <1>2 DEF Rested
<1>6. v = IF c \in Players THEN char_to_room(char_from_room(u, c), c, Altar) ELSE char_from_room(u, c)
    BY DEF extract_char
<1> HIDE DEF u, v
<1>7. Ready(u) /\ u.room[c] # Nowhere
    BY <1>1, <1>4
<1>8. Drifts(u, v)
    <2>1. CASE c \in Players
        BY <1>6, <1>7, <2>1, WalkDrifts, Sorts
    <2>2. CASE c \notin Players
        BY <1>4, <1>6, <1>7, <2>2, LeaveDrifts
    <2> QED
        BY <2>1, <2>2
<1>9. Drifts(v, world')
    BY <1>5, <1>8, RestedDrifts DEF Drifts
<1>10. Drifts(u, world') /\ world'.coins = u.coins /\ world'.at = u.at
    <2>1. v.coins = u.coins /\ v.at = u.at
        <3>1. CASE c \in Players
            <4>1. /\ u \in Kinds /\ Lighted(u) /\ u.room[c] \in Rooms
                BY <1>7, ReadyIs DEF Kinds, Fit
            <4> QED
                BY <1>6, <3>1 DEF char_to_room, char_from_room, LightsGoOut
        <3>2. CASE c \notin Players
            BY <1>6, <3>2 DEF char_from_room, LightsGoOut
        <3> QED
            BY <3>1, <3>2
    <2>2. v \in Kinds
        BY <1>8, ReadyIs DEF Drifts
    <2>3. world'.coins = v.coins /\ world'.at = v.at
        BY <1>5, <2>2 DEF Rested, Kinds
    <2> QED
        BY <1>8, <1>9, <2>1, <2>3, DriftsOn
<1>11. Kept(world, world')
    <2>1. Easy(world, world') /\ Ready(world')
        BY <1>4, <1>10, EasyOn DEF Drifts
    <2> QED
        BY <1>1, <2>1, EasyKept DEF Ready
<1>12. Paid(world, world')
    <2>1. u \in Kinds /\ world' \in Kinds /\ world'.gold = u.gold
        BY <1>7, <1>10, ReadyIs DEF Drifts
    <2>2. AllGold(world') = AllGold(u)
        BY <1>10, <2>1, GoldIs
    <2>3. Paid(world, u)
        BY <1>4
    <2> QED
        BY <1>10, <2>1, <2>2, <2>3 DEF Paid, Rich, Minted, KeepsGold, Gone
<1> QED
    BY <1>11, <1>12 DEF Done

-----------------------------------------------------------------------------
(***************************************************************************)
(* Things decay, burn out and are made.                                    *)
(***************************************************************************)
Priced(w, o, price) ==
    [w EXCEPT !.gold = [c \in Chars |-> IF c = CarriedBy(w, o) THEN @[c] + price ELSE @[c]]]

\* A shop's keeper gets what the rotten thing was worth.
LEMMA PricedIs ==
    ASSUME NEW w, Ready(w), NEW o, NEW price \in Int, NEW u, u = Priced(w, o, price)
    PROVE  /\ OnlyGold(w, u) /\ Ready(u) /\ Easy(w, u) /\ Coins_(w, u)
           /\ price = 0 => u.gold = w.gold
           /\ \A c \in Chars : u.gold[c] = IF c = CarriedBy(w, o) THEN w.gold[c] + price ELSE w.gold[c]
<1>0. Fit(w) /\ w \in Kinds /\ Lacks(w, SubIssue)
    BY ReadyIs
<1>1. PICK g : u = [w EXCEPT !.gold = g] /\
               g = [c \in Chars |-> IF c = CarriedBy(w, o) THEN w.gold[c] + price ELSE w.gold[c]]
    BY DEF Priced
<1>2. g \in [Chars -> Int] /\ w.gold \in [Chars -> Int]
    BY <1>0, <1>1 DEF Kinds
<1>3. u = [w EXCEPT !.gold = g]
    BY <1>1
<1>4. OnlyGold(w, u) /\ u.gold = g
    BY ONLY <1>0, <1>2, <1>3 DEF OnlyGold, Kinds
<1>5. ASSUME price = 0
      PROVE  g = w.gold
    <2>1. \A c \in Chars : w.gold[c] \in Int
        BY <1>2
    <2>2. \A c \in Chars : g[c] = w.gold[c]
        BY <1>1, <1>5, <2>1
    <2> QED
        BY <1>2, <2>2
<1>6. Fit(u) /\ Easy(w, u) /\ Coins_(w, u) /\ Lacks(u, SubIssue)
    BY <1>0, <1>4, OnlyGoldIs DEF Kept
<1> QED
    BY <1>1, <1>4, <1>5, <1>6 DEF Ready

\* What has gone cannot be coins, where somebody had it.
LEMMA PricedDone ==
    ASSUME NEW w, Ready(w), NEW o \in Things, w.at[o] \in Chars, NEW price \in Int, price >= 0,
           AllGold(w) + price <= MaxGold, NEW v, v = extract_obj(Priced(w, o, price), o)
    PROVE  Done(w, v)
<1> DEFINE u == Priced(w, o, price)
           c == w.at[o]
<1>0. Fit(w) /\ w \in Kinds /\ Lacks(w, SubIssue) /\ c \in Chars /\ CarriedBy(w, o) = c
    BY ReadyIs DEF CarriedBy
<1>1. /\ OnlyGold(w, u) /\ Ready(u) /\ Easy(w, u) /\ Coins_(w, u)
      /\ \A d \in Chars : u.gold[d] = IF d = CarriedBy(w, o) THEN w.gold[d] + price ELSE w.gold[d]
    BY PricedIs
<1>2. v = extract_obj(u, o)
    OBVIOUS
<1> HIDE DEF u
<1>3. Drifts(u, v) /\ Extracted_(u, v, o)
    BY <1>1, <1>2, ExtractDrifts
<1>4. Ready(v) /\ Easy(w, v) /\ Coins_(w, v) /\ v.gold = u.gold
    BY <1>1, <1>3, EasyOn, CoinsOn DEF Drifts
<1>5. Kept(w, v)
    BY <1>0, <1>4, EasyKept DEF Ready
<1>6. ASSUME Rich(w)
      PROVE  Rich(v) /\ KeepsGold(w, v)
    <2>0. v \in Kinds /\ o \notin Money
        BY <1>4, <1>6, ReadyIs DEF Rich, Minted
    <2>1. \A d \in Chars : v.gold[d] = IF d = c THEN w.gold[d] + price ELSE w.gold[d]
        BY <1>0, <1>1, <1>4
    <2>2. /\ AllGold(w) = Total(w.gold, Chars) + Total(w.coins, Money)
          /\ AllGold(v) = Total(v.gold, Chars) + Total(v.coins, Money)
          /\ Total(w.gold, Chars) \in Int /\ Total(w.coins, Money) \in Int /\ Total(v.coins, Money) \in Int
          /\ IsFiniteSet(Chars) /\ \A d \in Chars : w.gold[d] \in Int
        BY <1>0, <2>0, GoldIs
    <2>3. Total(v.gold, Chars) = Total(w.gold, Chars) + price
        <3>1. v.gold[c] = w.gold[c] + price /\ v.gold[c] \in Int /\ \A d \in Chars : d # c => v.gold[d] = w.gold[d]
            BY <1>0, <2>1, <2>2
        <3>2. Total(v.gold, Chars) = Total(w.gold, Chars) - w.gold[c] + v.gold[c]
            BY ONLY <1>0, <2>2, <3>1, TotalChanged
        <3> QED
            BY <1>0, <2>2, <3>1, <3>2
    <2>4. Total(v.coins, Money) <= Total(w.coins, Money)
        BY <1>0, <1>4, <1>6, <2>0, CoinsTotal DEF Rich
    <2>5. AllGold(v) <= MaxGold
        BY <2>2, <2>3, <2>4, ThingsAssumption
    <2>6. Minted(v) /\ \A d \in Chars : v.gold[d] >= 0
        <3>1. Minted(v)
            BY <1>4, <1>6, CoinsMinted DEF Rich
        <3>2. \A d \in Chars : v.gold[d] >= 0
            BY <1>6, <2>1, <2>2 DEF Rich
        <3> QED
            BY <3>1, <3>2
    <2>7. Gone(w, v, o)
        <3>1. o \in Below(u.at, o)
            BY BelowLeast DEF Bodies
        <3>2. v.at[o] = Nowhere
            BY <1>3, <3>1 DEF Extracted_
        <3> QED
            BY <3>2, Sorts DEF Gone, Bodies
    <2> QED
        BY <2>0, <2>5, <2>6, <2>7 DEF Rich, KeepsGold
<1> QED
    BY <1>5, <1>6 DEF Done, Paid

\* obj_update, of one thing whose time has come.
LEMMA DecayDone ==
    ASSUME Ready(world), NEW o \in Things, Decay(o)
    PROVE  Done(world, world')
<1>0. world \in Kinds /\ MaxGold \in Int /\ AllGold(world) \in Int
    <2>1. world \in Kinds
        BY ReadyIs
    <2> QED
        BY <2>1, GoldIs, ThingsAssumption
<1>1. PICK price \in IF CarriedBy(world, o) \in Keepers THEN 0 .. MaxGold - AllGold(world) ELSE {0} :
          LET paid == Priced(world, o, price)
              spills == o \in Corpses /\ paid.whose[o] # Nowhere /\ paid.at[o] \in Rooms
          IN  world' = extract_obj(IF spills THEN Spills(paid, o, Contents(paid, o)) ELSE paid, o)
    BY DEF Decay, Priced, Spills
<1> DEFINE u == Priced(world, o, price)
           spills == o \in Corpses /\ u.whose[o] # Nowhere /\ u.at[o] \in Rooms
           s == IF spills THEN Spills(u, o, Contents(u, o)) ELSE u
<1>2. price \in Int /\ price >= 0
    BY <1>0, <1>1
<1>3. /\ OnlyGold(world, u) /\ Ready(u) /\ Easy(world, u) /\ Coins_(world, u)
      /\ price = 0 => u.gold = world.gold
      /\ u.at = world.at
    BY <1>2, PricedIs DEF OnlyGold
<1>4. world' = extract_obj(s, o)
    BY <1>1
<1>5. CASE CarriedBy(world, o) \in Keepers
    <2>1. world.at[o] \in Chars
        <3>1. Nowhere \notin Keepers
            BY ThingsAssumption, Sorts DEF Bodies, Chars
        <3> QED
            BY <1>5, <3>1 DEF CarriedBy
    <2>2. AllGold(world) + price <= MaxGold
        BY <1>0, <1>1, <1>5
    <2>3. world' = extract_obj(u, o)
        <3>1. ~spills
            BY <1>3, <2>1, Sorts
        <3> QED
            BY <1>4, <3>1
    <2> QED
        BY <1>2, <2>1, <2>2, <2>3, PricedDone
<1>6. CASE CarriedBy(world, o) \notin Keepers
    <2>1. u.gold = world.gold
        BY <1>1, <1>3, <1>6
    <2> HIDE DEF u
    <2>2. Drifts(world, u)
        BY <1>3, <2>1 DEF Drifts
    <2>3. Drifts(world, s)
        <3>1. CASE spills
            <4>1. s = Spills(u, o, Contents(u, o))
                BY <3>1
            <4>2. Fit(u) /\ Lacks(u, SubIssue) /\ u.at[o] \in Rooms
                BY <1>3, <3>1 DEF Ready
            <4> HIDE DEF s
            <4>3. Spilled(u, s, o, Contents(u, o))
                BY <4>1, <4>2, SpillsIs
            <4>4. Coins_(u, s)
                <5> SUFFICES ASSUME NEW m \in Money
                             PROVE  \/ s.at[m] \notin Chars \cup {Nowhere} /\ u.at[m] # Nowhere /\ s.coins[m] = u.coins[m]
                                    \/ s.at[m] = u.at[m] /\ s.coins[m] = u.coins[m]
                    BY DEF Coins_
                <5>1. m \in Things /\ s.coins = u.coins /\ s.at[m] = IF m \in Contents(u, o) THEN u.at[o] ELSE u.at[m]
                    BY <4>3, Sorts DEF Spilled, Untouched
                <5> QED
                    BY <4>2, <5>1, Sorts DEF Contents, Bodies
            <4>5. Drifts(u, s)
                BY <4>3, <4>4 DEF Drifts, Spilled, Ready, Untouched
            <4> QED
                BY <2>2, <4>5, DriftsOn
        <3>2. CASE ~spills
            <4>1. s = u
                BY <3>2
            <4> QED
                BY <2>2, <4>1
        <3> QED
            BY <3>1, <3>2
    <2> HIDE DEF s
    <2>4. Drifts(s, world')
        BY <1>4, <2>3, ExtractDrifts DEF Drifts
    <2>5. Drifts(world, world')
        BY <2>3, <2>4, DriftsOn
    <2> QED
        BY <2>5, DriftsDone
<1> QED
    BY <1>5, <1>6

\* The lamp that goes out in somebody's hand.
Dimmed(w, c, o) == [w EXCEPT !.lit = @ \ {o}, !.light[w.room[c]] = @ - 1]

\* The light that somebody wears goes out.
LEMMA DimmedDrifts ==
    ASSUME NEW w, Ready(w), NEW c \in Chars, w.room[c] # Nowhere, NEW o \in WornLights(w, c),
           NEW v, v = Dimmed(w, c, o)
    PROVE  Drifts(w, v)
<1>1. Fit(w) /\ Sound(w) /\ w \in Kinds /\ Lacks(w, SubIssue) /\ w.room[c] \in Rooms
    BY ReadyIs DEF Kinds
<1>2. o \in w.lit /\ w.at[o] = c /\ w.worn[o] = "light"
    BY <1>1, LampsAre
<1>3. PICK l, b : v = [w EXCEPT !.lit = l, !.light = b] /\ l = w.lit \ {o}
                  /\ b = [w.light EXCEPT ![w.room[c]] = @ - 1]
    BY DEF Dimmed
<1>4. l \in SUBSET Lights /\ b \in [Rooms -> Int]
      /\ \A r \in Rooms : b[r] = IF r = w.room[c] THEN w.light[r] - 1 ELSE w.light[r]
    BY <1>1, <1>3 DEF Kinds
<1>5. v = [w EXCEPT !.lit = l, !.light = b]
    BY <1>3
<1>6. /\ v \in Kinds /\ v.at = w.at /\ v.worn = w.worn /\ v.number = w.number /\ v.weight = w.weight
      /\ v.room = w.room /\ v.light = b /\ v.lit = l /\ v.weak = w.weak
      /\ v.gold = w.gold /\ v.coins = w.coins
    BY ONLY <1>1, <1>4, <1>5 DEF Kinds
<1>7. Sound(v)
    BY <1>1, <1>6 DEF Sound, Placed, Present, Counted, Dressed
<1>8. Lighted(v)
    <2> SUFFICES ASSUME NEW r \in Rooms
                 PROVE  b[r] = Cardinality(Shining(v, r))
        BY <1>6 DEF Lighted
    <2>1. w.light[r] = Cardinality(Shining(w, r)) /\ IsFiniteSet(Shining(w, r))
        BY <1>1, ShiningFinite DEF Fit, Lighted
    <2>2. Shining(v, r) = Shining(w, r) \ {o}
        BY <1>3, <1>6 DEF Shining
    <2>3. CASE r = w.room[c]
        <3>1. o \in Shining(w, r)
            BY <1>2, <2>3 DEF Shining
        <3>2. Cardinality(Shining(w, r) \ {o}) = Cardinality(Shining(w, r)) - 1
            BY <2>1, <3>1, FS_RemoveElement
        <3> QED
            BY <1>4, <2>1, <2>2, <2>3, <3>2
    <2>4. CASE r # w.room[c]
        <3>1. o \notin Shining(w, r)
            BY <1>2, <2>4 DEF Shining
        <3> QED
            BY <1>4, <2>1, <2>2, <2>4, <3>1
    <2> QED
        BY <2>3, <2>4
<1>9. AllArmed(v)
    BY <1>1, <1>6 DEF Fit, AllArmed, Armed, CanWield, get_eq_char, Carrying
<1>10. Easy(w, v) /\ Lacks(v, SubIssue)
    BY <1>1, <1>6, SameEasy
<1>11. Coins_(w, v)
    BY <1>6 DEF Coins_
<1> QED
    BY <1>6, <1>7, <1>8, <1>9, <1>10, <1>11 DEF Drifts, Ready, Fit

\* char_update, of a light that burns out.
LEMMA BurnsOutDone ==
    ASSUME Ready(world), NEW c \in Chars, NEW o \in Things, BurnsOut(c, o)
    PROVE  Done(world, world')
<1> DEFINE u == Dimmed(world, c, o)
<1>1. world.room[c] # Nowhere /\ o \in WornLights(world, c) /\ world' = extract_obj(u, o)
    BY DEF BurnsOut, Dimmed
<1>2. Drifts(world, u)
    BY <1>1, DimmedDrifts
<1> HIDE DEF u
<1>3. Drifts(u, world')
    BY <1>1, <1>2, ExtractDrifts DEF Drifts
<1>4. Drifts(world, world')
    BY <1>2, <1>3, DriftsOn
<1> QED
    BY <1>4, DriftsDone

\* affect_update, of strength that comes back.
LEMMA RecoversDone ==
    ASSUME Ready(world), NEW c \in Players, Recovers(c)
    PROVE  Done(world, world')
<1> DEFINE u == Rested(world, c)
<1>1. world' = AffectModify(u, c)
    BY DEF Recovers, Rested
<1>2. Drifts(world, u)
    BY RestedDrifts
<1> HIDE DEF u
<1>3. Sound(u) /\ Lighted(u) /\ (\A d \in Players : d # c => Armed(u, d)) /\ Lacks(u, SubIssue)
    BY <1>2 DEF Drifts, Ready, Fit, AllArmed
<1>4. /\ Fit(world') /\ Untouched(u, world') /\ Easy(u, world') /\ Coins_(u, world')
      /\ \A S : Lacks(u, S) => Lacks(world', S)
    BY <1>1, <1>3, AffectedIs
<1>5. Drifts(u, world')
    BY <1>3, <1>4 DEF Drifts, Ready, Untouched
<1>6. Drifts(world, world')
    BY <1>2, <1>5, DriftsOn
<1> QED
    BY <1>6, DriftsDone

\* reset_room, and what else makes things.
LEMMA MadeDone ==
    ASSUME Ready(world), NEW o \in Things, NEW place \in Rooms \cup Mobs, Made(o, place)
    PROVE  Done(world, world')
<1>1. /\ Fit(world) /\ Sound(world) /\ Lacks(world, SubIssue) /\ Lacks(world, SubIssue \cup {o})
      /\ world.at[o] = Nowhere /\ world.at[o] \notin Bodies /\ o \notin Money
      /\ DOMAIN world.at = Things
    BY ReadyIs, Sorts DEF Made, Unmade, Lacks
<1>2. CASE place \in Rooms /\ world' = obj_to_room(world, o, place)
    <2>1. Ready(world') /\ Untouched(world, world') /\ world'.at = [world.at EXCEPT ![o] = place] /\ Easy(world, world')
        BY ONLY <1>1, <1>2, ToFloor, o \in Things
    <2>2. Coins_(world, world')
        BY <1>1, <2>1 DEF Coins_, Untouched
    <2>3. Drifts(world, world')
        BY <2>1, <2>2 DEF Drifts, Untouched
    <2> QED
        BY <2>3, DriftsDone
<1>3. CASE place \in Mobs /\ world.room[place] # Nowhere /\ world' = obj_to_char(world, o, place)
    <2>0. place \in Chars /\ place \notin Players /\ world.at[o] \notin Corpses
        BY <1>1, <1>3, ThingsAssumption, Sorts DEF Chars, Bodies
    <2>1. Easy(world, world)
        BY EasyBegins
    <2>2. /\ Ready(world') /\ Untouched(world, world') /\ world'.at[o] = place /\ Handed(world, world', o, place)
          /\ o \notin Money => Coins_(world, world')
        BY <1>1, <1>3, <2>0, <2>1, IntoHands
    <2> QED
        BY <1>1, <2>0, <2>2, HandedDone DEF Untouched
<1> QED
    BY <1>2, <1>3 DEF Made

-----------------------------------------------------------------------------
(***************************************************************************)
(* Every behaviour.                                                        *)
(***************************************************************************)
IInv == Ready(world) /\ cast \in Casts

\* Every account holds as the world begins.
LEMMA BeginsFit ==
    ASSUME Init
    PROVE  Ready(world)
<1>1. /\ world.at = [o \in Things |-> IF o \in Pit \cap cast THEN Altar ELSE Nowhere]
      /\ world.worn = [o \in Things |-> NotWorn]
      /\ world.number = [c \in Chars |-> 0]
      /\ world.weight = [c \in Chars |-> 0]
      /\ world.rots = {} /\ world.lit = Lights /\ world.weak = {}
      /\ world.light = [r \in Rooms |-> 0]
      /\ cast \in Casts
    BY DEF Init
<1>2. world \in Kinds
    <2>1. world.at \in Places
        BY <1>1, Sorts DEF Places
    <2>2. Purse \in Int
        BY ThingsAssumption
    <2> HIDE DEF Kinds
    <2>3. [c \in Chars |-> IF c \in Players \cap cast /\ Money \cap cast # {} THEN Purse ELSE 0] \in [Chars -> Int]
        BY <2>2
    <2>4. [c \in Chars |-> IF c \in Players \cap cast THEN Altar ELSE Nowhere] \in [Chars -> Rooms \cup {Nowhere}]
        BY Sorts
    <2> QED
        BY <1>1, <2>1, <2>3, <2>4 DEF Init, Kinds
<1>3. \A o \in Things : world.at[o] \in {Altar, Nowhere} /\ world.at[o] \notin Bodies /\ world.at[o] # Lost /\ world.worn[o] = NotWorn
    BY <1>1, Sorts DEF Bodies
<1>4. Placed(world)
    BY <1>2, <1>3 DEF Placed, Kinds, Bodies
<1>5. \A p \in Bodies : Below(world.at, p) = {p}
    <2> SUFFICES ASSUME NEW p \in Bodies
                 PROVE  Below(world.at, p) = {p}
        OBVIOUS
    <2>1. Shut(world.at, {p}) /\ {p} \in SUBSET Bodies
        BY <1>3 DEF Shut
    <2> QED
        BY <2>1, BelowLeast
<1>6. Forest(world.at)
    BY <1>3, <1>5 DEF Forest, Bodies
<1>7. Present(world)
    BY <1>3 DEF Present, Bodies
<1>8. Counted(world)
    <2> SUFFICES ASSUME NEW c \in Chars
                 PROVE  Number({c}) = 0 /\ Weight({c}) = 0
        BY <1>1, <1>5 DEF Counted, Bodies
    <2>1. {c} \cap Things = {}
        BY Sorts
    <2> QED
        BY <2>1, FS_EmptySet DEF Number, Weight
<1>9. Dressed(world)
    BY <1>3 DEF Dressed
<1>10. Lighted(world)
    <2> SUFFICES ASSUME NEW r \in Rooms
                 PROVE  Cardinality(Shining(world, r)) = 0
        BY <1>1 DEF Lighted
    <2>1. Shining(world, r) = {}
        BY <1>1, <1>3, Sorts DEF Shining, NotWorn
    <2> QED
        BY <2>1, FS_EmptySet
<1>11. AllArmed(world)
    BY <1>3 DEF AllArmed, Armed, get_eq_char, Carrying, NotWorn
<1>12. Lacks(world, SubIssue)
    BY <1>3 DEF Lacks
<1> QED
    BY <1>2, <1>4, <1>6, <1>7, <1>8, <1>9, <1>10, <1>11, <1>12 DEF Ready, Fit, Sound

\* Coins there are none at first.
LEMMA NoCoinsAre ==
    ASSUME NEW S, IsFiniteSet(S), NEW f, \A x \in S : f[x] = 0
    PROVE  Total(f, S) = 0
<1> DEFINE H == {}
<1>1. Shared(f, S, H, 0) /\ 0 \in Int
    BY DEF Shared
<1>2. S \cap H = {}
    OBVIOUS
<1> HIDE DEF H
<1>3. Total(f, S) = Cardinality(S \cap H) * 0
    BY <1>1, TotalShares
<1> QED
    BY <1>2, <1>3, FS_EmptySet

\* And everybody has some gold or none, and every heap is worth some.
LEMMA BeginsRich ==
    ASSUME Init
    PROVE  Rich(world)
<1>1. /\ world.at = [o \in Things |-> IF o \in Pit \cap cast THEN Altar ELSE Nowhere]
      /\ world.gold = [c \in Chars |-> IF c \in Players \cap cast /\ Money \cap cast # {} THEN Purse ELSE 0]
      /\ world.coins = [m \in Money |-> 0]
      /\ cast \in Casts /\ world \in Kinds
    BY BeginsFit, ReadyIs DEF Init
<1>2. Purse \in Nat /\ MaxGold \in Nat /\ Cardinality(Players \cap cast) * Purse <= MaxGold
    BY <1>1, ThingsAssumption
<1>3. \A c \in Chars : world.gold[c] >= 0
    BY <1>1, <1>2
<1>4. Minted(world)
    <2> SUFFICES ASSUME NEW m \in Money
                 PROVE  world.coins[m] = 0 /\ world.at[m] = Nowhere
        BY Sorts DEF Minted, Bodies
    <2>1. m \in Things /\ m \notin Pit
        BY ThingsAssumption
    <2> QED
        BY <1>1, <2>1
<1>5. AllGold(world) <= MaxGold
    <2> DEFINE H == IF Money \cap cast # {} THEN Players \cap cast ELSE {}
    <2>1. \A c \in Chars : world.gold[c] = IF c \in H THEN Purse ELSE 0
        BY <1>1
    <2>2. /\ AllGold(world) = Total(world.gold, Chars) + Total(world.coins, Money)
          /\ IsFiniteSet(Chars) /\ IsFiniteSet(Money)
        BY <1>1, GoldIs
    <2>3. Total(world.coins, Money) = 0
        <3>1. \A m \in Money : world.coins[m] = 0
            BY <1>1
        <3> QED
            BY <2>2, <3>1, NoCoinsAre
    <2>4. Total(world.gold, Chars) = Cardinality(Chars \cap H) * Purse
        <3>1. IsFiniteSet(Chars) /\ Purse \in Int /\ Shared(world.gold, Chars, H, Purse)
            BY <1>2, <2>1, <2>2 DEF Shared
        <3> HIDE DEF H
        <3> QED
            BY ONLY <3>1, TotalShares
    <2>5. CASE Money \cap cast # {}
        <3>1. Chars \cap H = Players \cap cast
            BY <2>5, Sorts
        <3>2. Total(world.gold, Chars) <= MaxGold
            BY <1>2, <2>4, <3>1
        <3>3. Total(world.gold, Chars) \in Int
            BY <1>1, GoldIs
        <3> QED
            BY <1>2, <2>2, <2>3, <3>2, <3>3
    <2>6. CASE Money \cap cast = {}
        <3>1. Cardinality(Chars \cap H) = 0
            BY <2>6, FS_EmptySet
        <3>2. Total(world.gold, Chars) = 0
            BY <1>2, <2>4, <3>1
        <3> QED
            BY <1>2, <2>2, <2>3, <3>2
    <2> QED
        BY <2>5, <2>6
<1> QED
    BY <1>3, <1>4, <1>5 DEF Rich

\* A command of a player's does what is claimed of it.
LEMMA CommandDone ==
    ASSUME Ready(world), cast \in Casts, NEW c \in Folk \cap Players, Command(c)
    PROVE  Done(world, world')
<1>1. Props \subseteq Things /\ Folk \subseteq Chars /\ c \in Players /\ c \in Chars
    BY DEF Props, Folk
<1>2. ASSUME NEW o \in Props, GetFromRoom(c, o)
      PROVE  Done(world, world')
    BY <1>1, <1>2, GetFromRoomDone
<1>3. ASSUME NEW o \in Props, GetFromContainer(c, o)
      PROVE  Done(world, world')
    BY <1>1, <1>3, GetFromContainerDone
<1>4. ASSUME NEW o \in Props, Drop(c, o)
      PROVE  Done(world, world')
    BY <1>1, <1>4, DropDone
<1>5. ASSUME NEW o \in Props, Donate(c, o)
      PROVE  Done(world, world')
    BY <1>1, <1>5, DonateDone
<1>6. ASSUME NEW o \in Props, Trash(c, o) \/ Quaff(c, o)
      PROVE  Done(world, world')
    BY <1>1, <1>6, TrashDone
<1>7. ASSUME NEW o \in Props, Remove(c, o)
      PROVE  Done(world, world')
    BY <1>1, <1>7, RemoveDone
<1>8. ASSUME NEW o \in Props, NEW k \in Containers \cap cast, Put(c, o, k)
      PROVE  Done(world, world')
    BY <1>1, <1>8, PutDone
<1>9. ASSUME NEW o \in Props, NEW replace \in BOOLEAN, Wear(c, o, replace)
      PROVE  Done(world, world')
    BY <1>1, <1>9, WearDone
<1>10. ASSUME NEW o \in Props, NEW g \in 0 .. 1, Sacrifice(c, o, g)
       PROVE  Done(world, world')
    BY <1>1, <1>10, SacrificeDone
<1>11. ASSUME NEW d \in Folk, NEW n \in 1 .. MaxGold, GiveCoins(c, d, n)
       PROVE  Done(world, world')
    BY <1>1, <1>11, GiveCoinsDone
<1>12. ASSUME NEW d \in Folk, StealCoins(c, d)
       PROVE  Done(world, world')
    BY <1>1, <1>12, StealCoinsDone
<1>13. ASSUME NEW d \in Folk, NEW o \in Props, Give(c, d, o)
       PROVE  Done(world, world')
    BY <1>1, <1>13, GiveDone
<1>14. ASSUME NEW d \in Folk, NEW o \in Props, Steal(c, d, o)
       PROVE  Done(world, world')
    BY <1>1, <1>14, StealDone
<1>15. ASSUME NEW d \in Folk, NEW o \in Props, Buy(c, d, o)
       PROVE  Done(world, world')
    BY <1>1, <1>15, BuyDone
<1>16. ASSUME NEW d \in Folk, NEW o \in Props, Sell(c, d, o)
       PROVE  Done(world, world')
    BY <1>1, <1>16, SellDone
<1>17. ASSUME NEW n \in 1 .. MaxGold, Split(c, n)
       PROVE  Done(world, world')
    BY <1>1, <1>17, SplitDone
<1>18. ASSUME NEW n \in 1 .. MaxGold, NEW m \in Money \cap cast, DropCoins(c, n, m)
       PROVE  Done(world, world')
    <2>1. n \in Nat \ {0} /\ m \in Money
        OBVIOUS
    <2> QED
        BY <1>1, <1>18, <2>1, DropCoinsDone
<1> QED
    BY <1>2, <1>3, <1>4, <1>5, <1>6, <1>7, <1>8, <1>9, <1>10, <1>11, <1>12, <1>13, <1>14,
       <1>15, <1>16, <1>17, <1>18 DEF Command

\* So does every step.
LEMMA NextDone ==
    ASSUME Ready(world), cast \in Casts, Next
    PROVE  Done(world, world') /\ cast' = cast
<1>1. Props \subseteq Things /\ Folk \subseteq Chars
    BY DEF Props, Folk
<1>2. ASSUME NEW c \in Folk \cap Players, Command(c)
      PROVE  Done(world, world')
    BY <1>2, CommandDone
<1>3. ASSUME NEW c \in Folk, NEW k \in Corpses \cap cast, Dies(c, k)
      PROVE  Done(world, world')
    BY <1>1, <1>3, DiesDone
<1>4. ASSUME NEW o \in Props, Decay(o)
      PROVE  Done(world, world')
    BY <1>1, <1>4, DecayDone
<1>5. ASSUME NEW o \in Props, NEW c \in Folk \cap Players, BurnsOut(c, o)
      PROVE  Done(world, world')
    BY <1>1, <1>5, BurnsOutDone
<1>6. ASSUME NEW c \in Folk \cap Players, Recovers(c)
      PROVE  Done(world, world')
    BY <1>6, RecoversDone
<1>7. ASSUME NEW c \in Folk \cap Players, Quit(c)
      PROVE  Done(world, world')
    BY <1>1, <1>7, QuitDone
<1>8. ASSUME NEW c \in Folk, NEW r \in Rooms \cap cast, Walk(c, r)
      PROVE  Done(world, world')
    BY <1>1, <1>8, WalkDone
<1>9. ASSUME NEW c \in Folk, NEW r \in Rooms \cap cast, Enter(c, r)
      PROVE  Done(world, world')
    BY <1>1, <1>9, EnterDone
<1>10. ASSUME NEW o \in Props, NEW place \in (Rooms \cap cast) \cup (Folk \cap Mobs), Made(o, place)
       PROVE  Done(world, world')
    BY <1>1, <1>10, MadeDone
<1> QED
    BY <1>2, <1>3, <1>4, <1>5, <1>6, <1>7, <1>8, <1>9, <1>10 DEF Next, Step

\* The invariant is inductive.
LEMMA StepReady ==
    ASSUME IInv, [Next]_vars
    PROVE  IInv'
<1>1. CASE Next
    <2>1. Done(world, world') /\ cast' = cast
        BY <1>1, NextDone DEF IInv
    <2>2. Ready(world')
        BY <2>1 DEF Done, Kept, Ready
    <2> QED
        BY <2>1, <2>2 DEF IInv
<1>2. CASE UNCHANGED vars
    BY <1>2 DEF vars, IInv
<1> QED
    BY <1>1, <1>2

\* The invariant: number, weight, worn places, strength and light are on the books for
\* every character and room, and only notes are Lost, whichever of the commands of
\* act_obj.cpp and updates of update.cpp run.
THEOREM AlwaysReady == Spec => []IInv
<1>1. Init => IInv
    BY BeginsFit DEF IInv, Init
<1>2. IInv /\ [Next]_vars => IInv'
    BY StepReady
<1> QED
    BY <1>1, <1>2, PTL DEF Spec

\* What is claimed of number and weight follows from the books.
LEMMA InCounts ==
    ASSUME Ready(world)
    PROVE  CarryAccounts
<1>1. Placed(world) /\ Counted(world)
    BY ReadyIs DEF Sound
<1> SUFFICES ASSUME NEW c \in Chars
             PROVE  /\ world.number[c] = Cardinality(Holds(world, c) \ (Containers \cup Money))
                    /\ world.weight[c] = Cardinality(Holds(world, c)) + Cardinality(Holds(world, c) \cap Heavy)
    BY DEF CarryAccounts
<1>2. Holds(world, c) = Below(world.at, c) \cap Things
    BY <1>1, HoldsBelow
<1> QED
    BY <1>1, <1>2 DEF Counted, Number, Weight

\* What is claimed of the lights follows from the invariant.
LEMMA InLights ==
    ASSUME Ready(world)
    PROVE  LightsCounted
<1>1. Lighted(world) /\ world \in Kinds
    BY ReadyIs DEF Fit
<1> SUFFICES ASSUME NEW r \in Rooms
             PROVE  {o \in world.lit : \E c \in People(world, r) : o \in get_eq_char(world, c, "light")}
                      = Shining(world, r)
    BY <1>1 DEF LightsCounted, Lighted
<1>2. world.lit \subseteq Things
    BY <1>1, Sorts DEF Kinds
<1> QED
    BY <1>2 DEF Shining, People, get_eq_char, Carrying

\* What is claimed of what is worn follows from the invariant.
LEMMA InWorn ==
    ASSUME Ready(world)
    PROVE  WornWell
<1>1. Dressed(world) /\ AllArmed(world)
    BY ReadyIs DEF Fit, Sound
<1>2. ASSUME NEW c \in Chars, NEW s \in Slots
      PROVE  Cardinality(get_eq_char(world, c, s)) <= 1
    <2>0. s # NotWorn
        BY DEF Slots, NotWorn
    <2>1. \A o, x \in get_eq_char(world, c, s) : o = x
        BY <1>1, <2>0 DEF Dressed, get_eq_char, Carrying
    <2>2. CASE get_eq_char(world, c, s) = {}
        BY <2>2, FS_EmptySet
    <2>3. CASE get_eq_char(world, c, s) # {}
        <3>1. PICK o : get_eq_char(world, c, s) = {o}
            BY <2>1, <2>3
        <3> QED
            BY <3>1, FS_Singleton
    <2> QED
        BY <2>2, <2>3
<1> QED
    BY <1>1, <1>2 DEF WornWell, Dressed, AllArmed, Armed

\* carry_number and carry_weight always are what is carried, through all that
\* obj_to_char, obj_to_obj and extract_obj do on the way (handler.cpp).
THEOREM AlwaysCounted == Spec => []CarryAccounts
<1>1. IInv => CarryAccounts
    BY InCounts DEF IInv
<1> QED
    BY <1>1, AlwaysReady, PTL

\* A room's light always is the number of lights worn there, so that it neither goes
\* dark with one lit nor is bright with none (equip_char, char_from_room, char_update).
THEOREM AlwaysLit == Spec => []LightsCounted
<1>1. IInv => LightsCounted
    BY InLights DEF IInv
<1> QED
    BY <1>1, AlwaysReady, PTL

\* Nobody wears two things in one place, and no player wields what it is too weak for,
\* though affect_modify strips it in the middle of other operations.
THEOREM AlwaysWornWell == Spec => []WornWell
<1>1. IInv => WornWell
    BY InWorn DEF IInv
<1> QED
    BY <1>1, AlwaysReady, PTL

\* No command puts a copy of a unique thing into the hands of a player who has one
\* already, however deep in bags either is (obj_move_violates_uniqueness).
THEOREM NobodyGetsASecond == Spec => NoSecondCopy
<1> DEFINE A == \A c \in Players \ Thieves, k \in Uniques :
          k \cap Holds(world, c) # {} => k \cap Holds(world', c) \subseteq Holds(world, c)
<1>1. IInv /\ [Next]_vars => [A]_vars
    <2> SUFFICES ASSUME IInv, Next
                 PROVE  A
        OBVIOUS
    <2>1. Kept(world, world')
        BY NextDone DEF IInv, Done
    <2> QED
        BY <2>1 DEF Kept, KeepsUnique
<1> QED
    BY <1>1, AlwaysReady, PTL DEF Spec, NoSecondCopy

\* A player takes nothing out of the corpse of another who is in the game, but for those
\* who may (can_loot).
THEOREM StrangersDoNotLoot == Spec => OnlyFriendsLoot
<1> DEFINE A == \A k \in Corpses, c \in Players, o \in Things :
          LET p == world.owner[k]
          IN  (p # Nowhere /\ world.room[p] # Nowhere /\ world.at[o] = k /\ world'.at[o] = c)
              => p \in CanLoot \/ c \in Immortals \/ same_group(c, p)
<1>1. IInv /\ [Next]_vars => [A]_vars
    <2> SUFFICES ASSUME IInv, Next
                 PROVE  A
        OBVIOUS
    <2>1. KeepsGraves(world, world')
        BY NextDone DEF IInv, Done, Kept
    <2> QED
        BY <2>1 DEF KeepsGraves
<1> QED
    BY <1>1, AlwaysReady, PTL DEF Spec, OnlyFriendsLoot

-----------------------------------------------------------------------------
(***************************************************************************)
(* Where nobody who is charmed is in a group, for split_coins.             *)
(***************************************************************************)
RInv == IInv /\ Rich(world)

\* Nobody's purse and no heap of coins is ever overdrawn, unless somebody charmed splits
\* coins with the group (split_coins).
THEOREM AlwaysRich == NoneCharmed => (Spec => []RInv)
<1> SUFFICES ASSUME NoneCharmed
             PROVE  Spec => []RInv
    OBVIOUS
<1>1. Init => RInv
    BY BeginsFit, BeginsRich DEF IInv, RInv, Init
<1>2. RInv /\ [Next]_vars => RInv'
    <2> SUFFICES ASSUME RInv, [Next]_vars
                 PROVE  RInv'
        OBVIOUS
    <2>1. IInv'
        BY StepReady DEF RInv
    <2>2. CASE Next
        <3>1. Paid(world, world')
            BY <2>2, NextDone DEF IInv, RInv, Done
        <3>2. Rich(world')
            BY <3>1 DEF Paid, RInv
        <3> QED
            BY <2>1, <3>2 DEF RInv
    <2>3. CASE UNCHANGED vars
        BY <2>1, <2>3 DEF RInv, vars
    <2> QED
        BY <2>2, <2>3
<1> QED
    BY <1>1, <1>2, PTL DEF Spec

\* What is claimed of the world follows from the invariant and the purses.
LEMMA InWorld ==
    ASSUME RInv
    PROVE  WorldOK
<1>1. Ready(world) /\ Rich(world) /\ cast \in Casts /\ world \in Kinds /\ Placed(world) /\ Sound(world)
    BY ReadyIs DEF RInv, IInv
<1>2. /\ \A c \in Chars : world.gold[c] \in 0 .. MaxGold
      /\ \A m \in Money : world.coins[m] \in 0 .. MaxGold
    <2>1. /\ AllGold(world) = Total(world.gold, Chars) + Total(world.coins, Money)
          /\ Total(world.gold, Chars) \in Int /\ Total(world.coins, Money) \in Int
          /\ IsFiniteSet(Chars) /\ IsFiniteSet(Money)
          /\ \A c \in Chars : world.gold[c] \in Int
          /\ \A m \in Money : world.coins[m] \in Int
        BY <1>1, GoldIs
    <2>2. Total(world.gold, Chars) >= 0 /\ \A c \in Chars : world.gold[c] <= Total(world.gold, Chars)
        BY <1>1, <2>1, TotalBounds DEF Rich
    <2>3. Total(world.coins, Money) >= 0 /\ \A m \in Money : world.coins[m] <= Total(world.coins, Money)
        <3>1. \A m \in Money : world.coins[m] \in Int /\ world.coins[m] >= 0
            BY <1>1, <2>1 DEF Rich, Minted
        <3> QED
            BY <2>1, <3>1, TotalBounds
    <2>4. AllGold(world) <= MaxGold /\ MaxGold \in Int
        BY <1>1, ThingsAssumption DEF Rich
    <2>5. (\A c \in Chars : world.gold[c] >= 0) /\ (\A m \in Money : world.coins[m] >= 0)
        BY <1>1 DEF Rich, Minted
    <2> QED
        BY <2>1, <2>2, <2>3, <2>4, <2>5
<1>3. world.gold \in [Chars -> 0 .. MaxGold] /\ world.coins \in [Money -> 0 .. MaxGold]
    BY <1>1, <1>2 DEF Kinds
<1>4. world \in World
    <2>1. world.at \in [Things -> Chars \cup Rooms \cup Things \cup {Nowhere, Lost}]
        BY <1>1 DEF Placed, Places, Bodies
    <2> QED
        BY <1>1, <1>3, <2>1 DEF Kinds, World
<1>5. ASSUME NEW o \in Things
      PROVE  /\ world.at[o] \in Things => world.at[world.at[o]] # Nowhere /\ world.at[o] \notin Inside(world, o)
             /\ world.at[o] \in Chars => world.room[world.at[o]] # Nowhere
             /\ world.at[o] = Lost => o \in SubIssue
    <2>1. Inside(world, o) = Below(world.at, o)
        BY <1>1, InsideIsBelow
    <2>2. world.at[o] \notin Below(world.at, o) /\ Present(world)
        BY <1>1 DEF Sound, Forest
    <2> QED
        BY <1>1, <2>1, <2>2 DEF Present, Ready, Lacks
<1> QED
    BY <1>1, <1>4, <1>5 DEF WorldOK

\* Things lie in containers that are there, with characters that are there, and never
\* inside of themselves; purses and heaps stay within the gold that there is.
THEOREM WorldAlwaysOK == NoneCharmed => (Spec => []WorldOK)
<1> SUFFICES ASSUME NoneCharmed
             PROVE  Spec => []WorldOK
    OBVIOUS
<1>1. RInv => WorldOK
    BY InWorld
<1>2. Spec => []RInv
    BY AlwaysRich
<1> QED
    BY <1>1, <1>2, PTL

\* Where nothing vanishes the gold of all purses and heaps stays the same, and where
\* only coins vanish it does not grow, through giving, dropping, splitting, trade, theft
\* and death (act_obj.cpp, fight.cpp), unless somebody charmed splits coins with the
\* group.
THEOREM GoldIsKept == NoneCharmed => (Spec => GoldKept)
<1> SUFFICES ASSUME NoneCharmed
             PROVE  Spec => GoldKept
    OBVIOUS
<1> DEFINE A == /\ (\A o \in Things \ Money : ~Vanishes(o)) => AllGold(world') <= AllGold(world)
                /\ (\A o \in Things : ~Vanishes(o)) => AllGold(world') = AllGold(world)
<1>1. RInv /\ [Next]_vars => [A]_vars
    <2> SUFFICES ASSUME RInv, Next
                 PROVE  A
        OBVIOUS
    <2>1. KeepsGold(world, world')
        BY NextDone DEF IInv, RInv, Done, Paid
    <2> QED
        BY <2>1 DEF KeepsGold, Gone, Vanishes
<1>2. Spec => []RInv
    BY AlwaysRich
<1> QED
    BY <1>1, <1>2, PTL DEF Spec, GoldKept
==============================================================================
