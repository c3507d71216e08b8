------------------------- MODULE ContFramePoolProofs -------------------------
(***************************************************************************)
(* Proofs about ContFramePool, for any pools, sizes, holes and requests.   *)
(* The inductive invariant says of every run that matters (held by a       *)
(* caller, a pool's bitmap, a hole) that the bitmap shows it as the extent *)
(* of a head.  The lemmas say that each operation on a bitmap leaves all   *)
(* extents but the one it is about as they were.                           *)
(***************************************************************************)
EXTENDS ContFramePool, FiniteSetTheorems, TLAPS

(* First the operators of FrameRuns: what marking and freeing a run do to  *)
(* the extents of the heads.                                               *)

(* A ceiling of a positive quotient is positive.                           *)
LEMMA NeededInfoFramesPositive ==
    ASSUME NEW n \in Nat \ {0}, NEW k \in Nat \ {0}
    PROVE  NeededInfoFrames(n, k) \in Nat \ {0}
BY DEF NeededInfoFrames

(* Two heads never share a frame: the upper one ends the lower one's run.  *)
LEMMA ExtentsDisjoint ==
    ASSUME NEW st, NEW lo \in Nat, NEW hi \in Nat,
           NEW f \in lo..hi, NEW g \in lo..hi, f < g, st[g] = "HoS"
    PROVE  Extent(st, hi, f) \intersect Extent(st, hi, g) = {}
BY DEF Extent

(* A head's extent starts with the head and has no gap.                    *)
LEMMA ExtentShape ==
    ASSUME NEW st, NEW hi \in Nat, NEW f \in Nat, f <= hi
    PROVE  /\ f \in Extent(st, hi, f)
           /\ Extent(st, hi, f) \subseteq f..hi
           /\ \A x \in Extent(st, hi, f) : \A y \in f..x : y \in Extent(st, hi, f)
           /\ \A x \in Extent(st, hi, f) : x # f => st[x] = "Used"
BY DEF Extent

(* Marking a free run makes it the extent of its first frame, unless the   *)
(* frame behind it already hung on something.                              *)
LEMMA MarkedNew ==
    ASSUME NEW D, NEW st \in [D -> FrameState], NEW hi \in Nat,
           NEW f \in Nat, NEW n \in Nat \ {0}, f + n - 1 <= hi,
           f..hi \subseteq D,
           f + n <= hi => st[f + n] # "Used"
    PROVE  /\ Marked(st, f, n)[f] = "HoS"
           /\ Extent(Marked(st, f, n), hi, f) = f..(f + n - 1)
<1> DEFINE m == Marked(st, f, n)
<1>1. /\ m[f] = "HoS"
      /\ \A x \in f..hi : x \in (f + 1)..(f + n - 1) => m[x] = "Used"
      /\ f + n <= hi => m[f + n] # "Used"
    BY DEF Marked
<1>2. f..(f + n - 1) \subseteq Extent(m, hi, f)
    <2> SUFFICES ASSUME NEW x \in f..(f + n - 1) PROVE x \in Extent(m, hi, f)
        OBVIOUS
    <2>1. \A h \in (f + 1)..x : m[h] = "Used"
        BY <1>1
    <2> QED BY <2>1 DEF Extent
<1>3. Extent(m, hi, f) \subseteq f..(f + n - 1)
    <2> SUFFICES ASSUME NEW x \in Extent(m, hi, f) PROVE x \in f..(f + n - 1)
        OBVIOUS
    <2>1. x \in f..hi /\ \A h \in (f + 1)..x : m[h] = "Used"
        BY DEF Extent
    <2>2. CASE x > f + n - 1
        BY <1>1, <2>1, <2>2
    <2> QED BY <2>1, <2>2
<1> QED BY <1>1, <1>2, <1>3

(* Marking free frames leaves the extent of every other head as it was.    *)
LEMMA MarkedOther ==
    ASSUME NEW D, NEW st \in [D -> FrameState], NEW hi \in Nat,
           NEW f \in Nat, NEW n \in Nat \ {0},
           f..(f + n - 1) \subseteq D,
           \A x \in f..(f + n - 1) : st[x] = "Free",
           NEW g \in Nat, g <= hi, g..hi \subseteq D, st[g] = "HoS"
    PROVE  /\ Marked(st, f, n)[g] = "HoS"
           /\ Extent(Marked(st, f, n), hi, g) = Extent(st, hi, g)
<1> DEFINE m == Marked(st, f, n)
<1>1. \A x \in D : x \notin f..(f + n - 1) => m[x] = st[x]
    BY DEF Marked
<1>2. f \in D /\ m[f] = "HoS" /\ st[f] = "Free"
    BY DEF Marked
<1>3. g \notin f..(f + n - 1)
    OBVIOUS
<1>4. m[g] = "HoS"
    BY <1>1, <1>3
<1>5. ASSUME NEW x \in Extent(m, hi, g) PROVE x \in Extent(st, hi, g)
    <2>1. x \in g..hi /\ \A h \in (g + 1)..x : m[h] = "Used"
        BY DEF Extent
    <2>2. f \notin (g + 1)..x
        BY <1>2, <2>1
    <2>3. \A h \in (g + 1)..x : h \notin f..(f + n - 1)
        BY <1>3, <2>1, <2>2
    <2>4. \A h \in (g + 1)..x : st[h] = "Used"
        BY <1>1, <2>1, <2>3
    <2> QED BY <2>1, <2>4 DEF Extent
<1>6. ASSUME NEW x \in Extent(st, hi, g) PROVE x \in Extent(m, hi, g)
    <2>1. x \in g..hi /\ \A h \in (g + 1)..x : st[h] = "Used"
        BY DEF Extent
    <2>2. \A h \in (g + 1)..x : h \notin f..(f + n - 1)
        BY <2>1
    <2>3. \A h \in (g + 1)..x : m[h] = "Used"
        BY <1>1, <2>1, <2>2
    <2> QED BY <2>1, <2>3 DEF Extent
<1> QED BY <1>4, <1>5, <1>6

(* Freeing the extent of a head leaves the extent of every other head of   *)
(* the same pool as it was.                                                *)
LEMMA FreedOther ==
    ASSUME NEW D, NEW st \in [D -> FrameState], NEW hi \in Nat,
           NEW f \in Nat, f <= hi, f..hi \subseteq D, st[f] = "HoS",
           NEW g \in Nat, g <= hi, g..hi \subseteq D, st[g] = "HoS", f # g
    PROVE  /\ Freed(st, Extent(st, hi, f))[g] = "HoS"
           /\ Extent(Freed(st, Extent(st, hi, f)), hi, g) = Extent(st, hi, g)
<1> DEFINE E == Extent(st, hi, f)
           m == Freed(st, E)
<1>1. \A x \in D : m[x] = IF x \in E THEN "Free" ELSE st[x]
    BY DEF Freed
<1>2. E \intersect Extent(st, hi, g) = {}
    <2>1. CASE f < g
        BY <2>1, ExtentsDisjoint, 0 \in Nat, f \in 0..hi, g \in 0..hi
    <2>2. CASE g < f
        BY <2>2, ExtentsDisjoint, 0 \in Nat, f \in 0..hi, g \in 0..hi
    <2> QED BY <2>1, <2>2
<1>3. g \in Extent(st, hi, g)
    BY ExtentShape
<1>4. m[g] = "HoS"
    BY <1>1, <1>2, <1>3
<1>5. ASSUME NEW x \in Extent(m, hi, g) PROVE x \in Extent(st, hi, g)
    <2>1. x \in g..hi /\ \A h \in (g + 1)..x : m[h] = "Used"
        BY DEF Extent
    <2>2. \A h \in (g + 1)..x : h \in D
        BY <2>1
    <2>3. \A h \in (g + 1)..x : st[h] = "Used"
        BY <1>1, <2>1, <2>2
    <2> QED BY <2>1, <2>3 DEF Extent
<1>6. ASSUME NEW x \in Extent(st, hi, g) PROVE x \in Extent(m, hi, g)
    <2>1. x \in g..hi /\ \A h \in (g + 1)..x : st[h] = "Used"
        BY DEF Extent
    <2>2. \A h \in (g + 1)..x : h \in D /\ h \in Extent(st, hi, g)
        BY <2>1, ExtentShape
    <2>3. \A h \in (g + 1)..x : m[h] = "Used"
        BY <1>1, <1>2, <2>1, <2>2
    <2> QED BY <2>1, <2>3 DEF Extent
<1> QED BY <1>4, <1>5, <1>6

(* An extent depends on the frames from its head to the pool's end only.   *)
LEMMA ExtentLocal ==
    ASSUME NEW st, NEW st2, NEW hi \in Nat, NEW g \in Nat,
           \A x \in g..hi : st[x] = st2[x]
    PROVE  Extent(st, hi, g) = Extent(st2, hi, g)
BY DEF Extent
-----------------------------------------------------------------------------
(* The inductive invariant                                                 *)

(* The bitmap of a pool is the extent of a head and no caller holds it.    *)
InfoIsExtent ==
    \A p \in Built : /\ IsExtent(info[p], InfoRun(p))
                     /\ \A h \in held : h[1] # info[p]

(* A hole is free until main marks it, and an extent of its own after.     *)
HoleIsExtent ==
    \A p \in Pool : Hole[p].n > 0 =>
        /\ phase[p] = "built" => \A f \in HoleRun(p) : state[f] = "Free"
        /\ phase[p] = "ready" => /\ IsExtent(Hole[p].first, HoleRun(p))
                                 /\ \A h \in held : h[1] # Hole[p].first

(* Two held runs do not start at the same frame.                           *)
HeldIsUnique == \A h, k \in held : h[1] = k[1] => h = k

IInv ==
    /\ TypeOK
    /\ CountIsExact
    /\ NoOrphan
    /\ HeldIsExtent
    /\ HeldIsUnique
    /\ InfoIsExtent
    /\ HoleIsExtent
-----------------------------------------------------------------------------
(* Pools are disjoint intervals of positive frame numbers.                 *)
LEMMA PoolFacts ==
    /\ \A p \in Pool : /\ Base[p] \in Nat \ {0} /\ NFrames[p] \in Nat \ {0}
                       /\ Last(p) \in Nat \ {0} /\ Base[p] <= Last(p)
                       /\ Frames(p) = Base[p]..Last(p)
                       /\ Frames(p) \subseteq Frame
                       /\ Frames(p) \subseteq Nat \ {0}
                       /\ NInfo(p) \in Nat \ {0}
    /\ Frame \subseteq Nat \ {0}
    /\ \A p, q \in Pool : p # q => Frames(p) \intersect Frames(q) = {}
<1>1. ASSUME NEW p \in Pool
      PROVE  /\ Base[p] \in Nat \ {0} /\ NFrames[p] \in Nat \ {0}
             /\ Last(p) \in Nat \ {0} /\ Base[p] <= Last(p)
             /\ Frames(p) = Base[p]..Last(p)
             /\ Frames(p) \subseteq Frame
             /\ Frames(p) \subseteq Nat \ {0}
    BY PoolAssumption DEF Frames, Last, Frame
<1>2. ASSUME NEW p \in Pool PROVE NInfo(p) \in Nat \ {0}
    BY <1>1, PoolAssumption, NeededInfoFramesPositive DEF NInfo
<1>3. Frame \subseteq Nat \ {0}
    BY <1>1 DEF Frame
<1>4. ASSUME NEW p \in Pool, NEW q \in Pool, p # q
      PROVE  Frames(p) \intersect Frames(q) = {}
    BY <1>1, <1>4, PoolAssumption
<1> QED BY <1>1, <1>2, <1>3, <1>4

(* A hole lies in its pool, apart from the frames of the pool's own bitmap.*)
LEMMA HoleFacts ==
    ASSUME NEW p \in Pool
    PROVE  /\ NInfo(p) <= NFrames[p]
           /\ Hole[p].n > 0 =>
                 /\ Hole[p].first \in Nat /\ Hole[p].n \in Nat \ {0}
                 /\ Hole[p].first \in Frames(p)
                 /\ HoleRun(p) \subseteq Frames(p)
                 /\ HoleRun(p) \intersect (Base[p]..(Base[p] + NInfo(p) - 1)) = {}
<1>1. NInfo(p) \in Nat /\ Base[p] \in Nat /\ Last(p) \in Nat
      /\ Frames(p) = Base[p]..Last(p)
    BY PoolFacts
<1>2. /\ NInfo(p) <= NFrames[p] /\ Hole[p].first \in Nat /\ Hole[p].n \in Nat
      /\ Hole[p].n > 0 => /\ Hole[p].first >= Base[p] + NInfo(p)
                          /\ Hole[p].first + Hole[p].n - 1 <= Last(p)
    BY HoleAssumption
<1>3. ASSUME Hole[p].n > 0
      PROVE  /\ Hole[p].n \in Nat \ {0}
             /\ Hole[p].first \in Frames(p)
             /\ HoleRun(p) \subseteq Frames(p)
             /\ HoleRun(p) \intersect (Base[p]..(Base[p] + NInfo(p) - 1)) = {}
    <2> DEFINE a == Hole[p].first
               k == Hole[p].n
               b == Base[p]
               i == NInfo(p)
               z == Last(p)
    <2>1. a \in Nat /\ k \in Nat /\ k > 0 /\ b \in Nat /\ i \in Nat /\ z \in Nat
          /\ a >= b + i /\ a + k - 1 <= z
        BY <1>1, <1>2, <1>3
    <2>2. Frames(p) = b..z /\ HoleRun(p) = a..(a + k - 1)
        BY <1>1 DEF HoleRun
    <2> HIDE DEF a, k, b, i, z
    <2>3. a \in b..z /\ a..(a + k - 1) \subseteq b..z
        BY <2>1
    <2>4. (a..(a + k - 1)) \intersect (b..(b + i - 1)) = {}
        BY <2>1
    <2> QED BY <2>1, <2>2, <2>3, <2>4 DEF a, k, b, i, z
<1> QED BY <1>2, <1>3

(* Extents of different heads do not overlap, and a head has one extent.   *)
LEMMA ExtentFacts ==
    ASSUME TypeOK, NEW f, NEW S, NEW g, NEW T, IsExtent(f, S), IsExtent(g, T)
    PROVE  /\ f \in S
           /\ \A x \in S : x \in Frame /\ state[x] # "Free"
           /\ f = g => S = T
           /\ f # g => S \intersect T = {}
<1>1. PICK p \in Built : /\ f \in Frames(p) /\ state[f] = "HoS"
                         /\ Extent(state, Last(p), f) = S
    BY DEF IsExtent
<1>2. PICK q \in Built : /\ g \in Frames(q) /\ state[g] = "HoS"
                         /\ Extent(state, Last(q), g) = T
    BY DEF IsExtent
<1>3. p \in Pool /\ q \in Pool
    BY DEF Built
<1>4. /\ f \in S /\ S \subseteq f..Last(p) /\ S \subseteq Frames(p)
      /\ \A x \in S : x # f => state[x] = "Used"
    BY <1>1, <1>3, PoolFacts, ExtentShape
<1>5. T \subseteq g..Last(q) /\ T \subseteq Frames(q)
    BY <1>2, <1>3, PoolFacts, ExtentShape
<1>6. \A x \in S : x \in Frame /\ state[x] # "Free"
    BY <1>1, <1>3, <1>4, PoolFacts
<1>7. f = g => p = q
    BY <1>1, <1>2, <1>3, PoolFacts
<1>8. f # g => S \intersect T = {}
    <2>1. CASE p # q
        BY <1>3, <1>4, <1>5, <2>1, PoolFacts
    <2>2. CASE p = q /\ f < g
        BY <1>1, <1>2, <1>3, <2>2, PoolFacts, ExtentsDisjoint
    <2>3. CASE p = q /\ g < f
        BY <1>1, <1>2, <1>3, <2>3, PoolFacts, ExtentsDisjoint
    <2> QED BY <1>1, <1>2, <1>3, <2>1, <2>2, <2>3, PoolFacts
<1> QED BY <1>1, <1>2, <1>4, <1>6, <1>7, <1>8
-----------------------------------------------------------------------------
(* The same notions for any bitmap st, to speak of a bitmap half way       *)
(* through the constructor.                                                *)
Bitmap == [Frame -> FrameState]

HeadIn(st, p, f, S) ==
    f \in Frames(p) /\ st[f] = "HoS" /\ Extent(st, Last(p), f) = S

NoOrphanIn(st, p) ==
    \A f \in Frames(p) : st[f] = "Used" => f > Base[p] /\ st[f - 1] # "Free"

FreeIn(st, p) == {f \in Frames(p) : st[f] = "Free"}

IsFreeRun(st, p, f, n) ==
    f..(f + n - 1) \subseteq Frames(p) /\ \A x \in f..(f + n - 1) : st[x] = "Free"

LEMMA BitmapViews ==
    /\ \A f, S : IsExtent(f, S) <=> \E p \in Built : HeadIn(state, p, f, S)
    /\ NoOrphan <=> \A p \in Built : NoOrphanIn(state, p)
    /\ \A p : FreeFrames(p) = FreeIn(state, p)
BY DEF IsExtent, HeadIn, NoOrphan, NoOrphanIn, FreeFrames, FreeIn

(* The frames of a pool are a finite set, and so are its free ones.        *)
LEMMA FreeIsFinite ==
    ASSUME NEW p \in Pool, NEW st
    PROVE  /\ IsFiniteSet(FreeIn(st, p)) /\ Cardinality(FreeIn(st, p)) \in Nat
           /\ Cardinality(FreeIn(st, p)) <= NFrames[p]
<1>1. IsFiniteSet(Frames(p)) /\ Cardinality(Frames(p)) = NFrames[p]
    <2>1. Base[p] \in Int /\ Last(p) \in Int /\ ~(Base[p] > Last(p))
          /\ Last(p) - Base[p] + 1 = NFrames[p] /\ Frames(p) = Base[p]..Last(p)
        BY PoolFacts DEF Last
    <2>2. IsFiniteSet(Base[p]..Last(p)) /\ Cardinality(Base[p]..Last(p)) = Last(p) - Base[p] + 1
        BY <2>1, FS_Interval
    <2> QED BY <2>1, <2>2
<1>2. FreeIn(st, p) \in SUBSET Frames(p)
    BY DEF FreeIn
<1> QED BY <1>1, <1>2, FS_Subset, FS_CardinalityType

(* Marking a free run: the new extent, the others, the orphans, the count. *)
LEMMA MarkBitmap ==
    ASSUME NEW st \in Bitmap, NEW p \in Pool, NEW f \in Nat,
           NEW n \in Nat \ {0}, IsFreeRun(st, p, f, n),
           NoOrphanIn(st, p)
    PROVE  /\ Marked(st, f, n) \in Bitmap
           /\ HeadIn(Marked(st, f, n), p, f, f..(f + n - 1))
           /\ \A q \in Pool : \A g, S : HeadIn(st, q, g, S) => HeadIn(Marked(st, f, n), q, g, S)
           /\ \A q \in Pool : NoOrphanIn(st, q) => NoOrphanIn(Marked(st, f, n), q)
           /\ \A q \in Pool \ {p} : FreeIn(Marked(st, f, n), q) = FreeIn(st, q)
           /\ Cardinality(FreeIn(Marked(st, f, n), p)) = Cardinality(FreeIn(st, p)) - n
<1> DEFINE m == Marked(st, f, n)
           R == f..(f + n - 1)
<1>1. /\ R \subseteq Frames(p) /\ R \subseteq Frame /\ f \in R
      /\ f + n - 1 \in R /\ f + n - 1 <= Last(p) /\ f >= Base[p]
      /\ \A x \in R : st[x] = "Free"
    BY PoolFacts DEF IsFreeRun
<1>2. m \in Bitmap
    BY DEF Marked, Bitmap, FrameState
<1>3. \A x \in Frame : m[x] = IF x = f THEN "HoS" ELSE IF x \in R THEN "Used" ELSE st[x]
    BY DEF Marked, Bitmap
<1>4. HeadIn(m, p, f, R)
    <2>1. f + n <= Last(p) => st[f + n] # "Used"
        <3> SUFFICES ASSUME f + n <= Last(p), st[f + n] = "Used" PROVE FALSE
            OBVIOUS
        <3>1. f + n \in Frames(p)
            BY <1>1, PoolFacts
        <3>2. st[(f + n) - 1] # "Free"
            BY <3>1 DEF NoOrphanIn
        <3> QED BY <1>1, <3>2
    <2>2. f..Last(p) \subseteq Frame
        BY <1>1, PoolFacts
    <2>3. m[f] = "HoS" /\ Extent(m, Last(p), f) = R
        <3>1. st \in [Frame -> FrameState] /\ Last(p) \in Nat /\ f + n - 1 <= Last(p)
            BY <1>1, PoolFacts DEF Bitmap
        <3>2. f \in Nat /\ n \in Nat \ {0}
            OBVIOUS
        <3> DEFINE hi == Last(p)
        <3>3. hi \in Nat /\ f + n - 1 <= hi /\ f..hi \subseteq Frame
              /\ (f + n <= hi => st[f + n] # "Used")
            BY <2>1, <2>2, <3>1
        <3> HIDE DEF hi
        <3>4. m[f] = "HoS" /\ Extent(m, hi, f) = R
            BY <3>1, <3>2, <3>3, MarkedNew
        <3> QED BY <3>4 DEF hi
    <2> QED BY <1>1, <2>3 DEF HeadIn
<1>5. ASSUME NEW q \in Pool, NEW g, NEW S, HeadIn(st, q, g, S)
      PROVE  HeadIn(m, q, g, S)
    <2>1. /\ g \in Frames(q) /\ st[g] = "HoS" /\ Extent(st, Last(q), g) = S
          /\ g \in Nat /\ g <= Last(q) /\ Last(q) \in Nat /\ g..Last(q) \subseteq Frame
        BY <1>5, PoolFacts DEF HeadIn
    <2>2. m[g] = "HoS" /\ Extent(m, Last(q), g) = Extent(st, Last(q), g)
        <3>1. st \in [Frame -> FrameState] /\ f..(f + n - 1) \subseteq Frame
              /\ \A x \in f..(f + n - 1) : st[x] = "Free"
            BY <1>1 DEF Bitmap
        <3> QED BY <2>1, <3>1, MarkedOther
    <2> QED BY <2>1, <2>2 DEF HeadIn
<1>6. ASSUME NEW q \in Pool, NoOrphanIn(st, q) PROVE NoOrphanIn(m, q)
    <2> SUFFICES ASSUME NEW x \in Frames(q), m[x] = "Used"
                 PROVE  x > Base[q] /\ m[x - 1] # "Free"
        BY DEF NoOrphanIn
    <2>1. x \in Frame /\ x \in Nat /\ x >= Base[q] /\ Base[q] \in Nat
        BY PoolFacts
    <2>2. CASE x \in R
        <3>1. q = p
            BY <1>1, <2>2, PoolFacts
        <3>2. x # f /\ x - 1 \in R
            BY <1>3, <2>1, <2>2
        <3> QED BY <1>1, <1>3, <2>1, <3>1, <3>2
    <2>3. CASE x \notin R
        <3>1. st[x] = "Used"
            BY <1>3, <2>1, <2>3, <1>1
        <3>2. x > Base[q] /\ st[x - 1] # "Free"
            BY <1>6, <3>1 DEF NoOrphanIn
        <3>3. x - 1 \in Frame /\ x - 1 \notin R
            BY <1>1, <2>1, <3>2, PoolFacts
        <3> QED BY <1>1, <1>3, <3>2, <3>3
    <2> QED BY <2>2, <2>3
<1>7. ASSUME NEW q \in Pool \ {p} PROVE FreeIn(m, q) = FreeIn(st, q)
    <2>1. \A x \in Frames(q) : x \in Frame /\ x \notin R
        BY <1>1, PoolFacts
    <2>2. \A x \in Frames(q) : m[x] = st[x]
        BY <1>1, <1>3, <2>1
    <2> QED BY <2>2 DEF FreeIn
<1>8. Cardinality(FreeIn(m, p)) = Cardinality(FreeIn(st, p)) - n
    <2>1. \A x \in Frames(p) : m[x] = "Free" <=> st[x] = "Free" /\ x \notin R
        BY <1>1, <1>3, PoolFacts
    <2>2. FreeIn(m, p) = FreeIn(st, p) \ R
        BY <2>1 DEF FreeIn
    <2>3. FreeIn(st, p) \intersect R = R
        BY <1>1 DEF FreeIn
    <2>4. Cardinality(R) = n
        <3>1. f \in Int /\ f + n - 1 \in Int /\ ~(f > f + n - 1) /\ (f + n - 1) - f + 1 = n
            OBVIOUS
        <3> QED BY <3>1, FS_Interval
    <2>5. IsFiniteSet(FreeIn(st, p))
        BY FreeIsFinite
    <2>6. Cardinality(FreeIn(st, p) \ R)
             = Cardinality(FreeIn(st, p)) - Cardinality(FreeIn(st, p) \intersect R)
        BY <2>5, FS_Difference
    <2> QED BY <2>2, <2>3, <2>4, <2>6
<1> QED BY <1>2, <1>4, <1>5, <1>6, <1>7, <1>8

(* Releasing the extent of a head: its frames are free, all other extents  *)
(* stay, no used frame loses its head, and the count grows by its frames.  *)
LEMMA FreeBitmap ==
    ASSUME NEW st \in Bitmap, NEW p \in Pool, NEW f \in Frames(p),
           st[f] = "HoS"
    PROVE  LET E == Extent(st, Last(p), f)
           IN  /\ Freed(st, E) \in Bitmap
               /\ \A q \in Pool : \A g, S :
                     HeadIn(st, q, g, S) /\ g # f => HeadIn(Freed(st, E), q, g, S)
               /\ \A q \in Pool : NoOrphanIn(st, q) => NoOrphanIn(Freed(st, E), q)
               /\ \A q \in Pool \ {p} : FreeIn(Freed(st, E), q) = FreeIn(st, q)
               /\ Cardinality(E) \in Nat
               /\ Cardinality(FreeIn(Freed(st, E), p))
                     = Cardinality(FreeIn(st, p)) + Cardinality(E)
               /\ \A x \in Frame : st[x] = "Free" => Freed(st, E)[x] = "Free"
<1> DEFINE E == Extent(st, Last(p), f)
           m == Freed(st, E)
<1>1. /\ f \in Nat /\ f <= Last(p) /\ Last(p) \in Nat /\ f..Last(p) \subseteq Frames(p)
      /\ Frames(p) \subseteq Frame /\ st \in [Frame -> FrameState]
    BY PoolFacts DEF Bitmap
<1>2. f \in E /\ E \subseteq f..Last(p) /\ \A x \in E : x # f => st[x] = "Used"
    BY <1>1, ExtentShape
<1>3. m \in Bitmap /\ \A x \in Frame : m[x] = IF x \in E THEN "Free" ELSE st[x]
    BY <1>1 DEF Freed, Bitmap, FrameState
<1>4. ASSUME NEW q \in Pool, q # p, NEW x \in Frames(q)
      PROVE  x \in Frame /\ m[x] = st[x]
    BY <1>1, <1>2, <1>3, <1>4, PoolFacts
<1>5. ASSUME NEW q \in Pool, NEW g, NEW S, HeadIn(st, q, g, S), g # f
      PROVE  HeadIn(m, q, g, S)
    <2>1. /\ g \in Frames(q) /\ st[g] = "HoS" /\ Extent(st, Last(q), g) = S
          /\ g \in Nat /\ g <= Last(q) /\ Last(q) \in Nat
          /\ g..Last(q) \subseteq Frames(q) /\ g..Last(q) \subseteq Frame
        BY <1>5, PoolFacts DEF HeadIn
    <2>2. CASE q # p
        <3>1. m[g] = "HoS" /\ \A x \in g..Last(q) : st[x] = m[x]
            BY <1>4, <2>1, <2>2
        <3>2. Extent(st, Last(q), g) = Extent(m, Last(q), g)
            BY <2>1, <3>1, ExtentLocal
        <3> QED BY <2>1, <3>1, <3>2 DEF HeadIn
    <2>3. CASE q = p
        <3> DEFINE hi == Last(p)
        <3>1. /\ hi \in Nat /\ f <= hi /\ f..hi \subseteq Frame
              /\ g <= hi /\ g..hi \subseteq Frame /\ f # g
            BY <1>1, <1>5, <2>1, <2>3
        <3> HIDE DEF hi
        <3>2. /\ Freed(st, Extent(st, hi, f))[g] = "HoS"
              /\ Extent(Freed(st, Extent(st, hi, f)), hi, g) = Extent(st, hi, g)
            BY <1>1, <2>1, <3>1, FreedOther
        <3> QED BY <2>1, <2>3, <3>2 DEF HeadIn, hi
    <2> QED BY <2>2, <2>3
<1>6. ASSUME NEW q \in Pool, NoOrphanIn(st, q) PROVE NoOrphanIn(m, q)
    <2> SUFFICES ASSUME NEW x \in Frames(q), m[x] = "Used"
                 PROVE  x > Base[q] /\ m[x - 1] # "Free"
        BY DEF NoOrphanIn
    <2>1. /\ x \in Frame /\ x \in Nat /\ Base[q] \in Nat /\ Last(q) \in Nat
          /\ x <= Last(q) /\ x \notin E /\ st[x] = "Used"
        BY <1>3, PoolFacts
    <2>2. x > Base[q] /\ st[x - 1] # "Free"
        BY <1>6, <2>1 DEF NoOrphanIn
    <2>3. x - 1 \in Frames(q) /\ x - 1 \in Frame
        BY <2>1, <2>2, PoolFacts
    <2>4. x - 1 \notin E
        <3> SUFFICES ASSUME x - 1 \in E PROVE FALSE
            OBVIOUS
        <3>1. q = p
            BY <1>1, <1>2, <2>3, PoolFacts
        <3>2. x \in f..Last(p) /\ \A h \in (f + 1)..(x - 1) : st[h] = "Used"
            BY <1>1, <2>1, <3>1 DEF Extent
        <3>3. \A h \in (f + 1)..x : st[h] = "Used"
            BY <1>1, <2>1, <3>2
        <3>4. x \in E
            BY <3>2, <3>3 DEF Extent
        <3> QED BY <2>1, <3>4
    <2> QED BY <1>3, <2>2, <2>3, <2>4
<1>7. ASSUME NEW q \in Pool \ {p} PROVE FreeIn(m, q) = FreeIn(st, q)
    BY <1>4 DEF FreeIn
<1>8. IsFiniteSet(E) /\ Cardinality(E) \in Nat
    <2>1. IsFiniteSet(f..Last(p))
        BY <1>1, FS_Interval
    <2> QED BY <1>2, <2>1, FS_Subset, FS_CardinalityType
<1>9. Cardinality(FreeIn(m, p)) = Cardinality(FreeIn(st, p)) + Cardinality(E)
    <2>1. FreeIn(m, p) = FreeIn(st, p) \union E
        BY <1>1, <1>2, <1>3 DEF FreeIn
    <2>2. FreeIn(st, p) \intersect E = {}
        BY <1>2 DEF FreeIn
    <2>3. Cardinality(FreeIn(st, p) \union E)
             = Cardinality(FreeIn(st, p)) + Cardinality(E)
               - Cardinality(FreeIn(st, p) \intersect E)
        BY <1>8, FreeIsFinite, FS_Union
    <2> QED BY <1>8, <2>1, <2>2, <2>3, FreeIsFinite, FS_EmptySet
<1>10. \A x \in Frame : st[x] = "Free" => m[x] = "Free"
    BY <1>3
<1> QED BY <1>3, <1>5, <1>6, <1>7, <1>8, <1>9, <1>10

(* The constructor frees all frames of a pool that was not in operation.   *)
LEMMA ClearBitmap ==
    ASSUME NEW st \in Bitmap, NEW p \in Pool
    PROVE  LET m == Freed(st, Frames(p))
           IN  /\ m \in Bitmap
               /\ \A x \in Frames(p) : m[x] = "Free"
               /\ \A q \in Pool \ {p} : \A g, S : HeadIn(st, q, g, S) => HeadIn(m, q, g, S)
               /\ \A q \in Pool \ {p} : NoOrphanIn(st, q) => NoOrphanIn(m, q)
               /\ NoOrphanIn(m, p)
               /\ \A q \in Pool \ {p} : FreeIn(m, q) = FreeIn(st, q)
               /\ Cardinality(FreeIn(m, p)) = NFrames[p]
<1> DEFINE m == Freed(st, Frames(p))
<1>1. m \in Bitmap /\ \A x \in Frame : m[x] = IF x \in Frames(p) THEN "Free" ELSE st[x]
    BY DEF Freed, Bitmap, FrameState
<1>2. \A x \in Frames(p) : m[x] = "Free"
    BY <1>1, PoolFacts
<1>3. ASSUME NEW q \in Pool \ {p}, NEW x \in Frames(q) PROVE x \in Frame /\ m[x] = st[x]
    BY <1>1, PoolFacts
<1>4. ASSUME NEW q \in Pool \ {p}, NEW g, NEW S, HeadIn(st, q, g, S)
      PROVE  HeadIn(m, q, g, S)
    <2>1. /\ g \in Frames(q) /\ g \in Nat /\ Last(q) \in Nat /\ g..Last(q) \subseteq Frames(q)
        BY <1>4, PoolFacts DEF HeadIn
    <2>2. m[g] = st[g] /\ \A x \in g..Last(q) : st[x] = m[x]
        BY <1>3, <2>1
    <2>3. Extent(st, Last(q), g) = Extent(m, Last(q), g)
        BY <2>1, <2>2, ExtentLocal
    <2> QED BY <1>4, <2>2, <2>3 DEF HeadIn
<1>5. ASSUME NEW q \in Pool \ {p}, NoOrphanIn(st, q) PROVE NoOrphanIn(m, q)
    <2> SUFFICES ASSUME NEW x \in Frames(q), m[x] = "Used"
                 PROVE  x > Base[q] /\ m[x - 1] # "Free"
        BY DEF NoOrphanIn
    <2>1. x > Base[q] /\ st[x - 1] # "Free"
        BY <1>3, <1>5 DEF NoOrphanIn
    <2>2. x - 1 \in Frames(q)
        BY <2>1, PoolFacts
    <2> QED BY <1>3, <2>1, <2>2
<1>6. NoOrphanIn(m, p)
    BY <1>2 DEF NoOrphanIn
<1>7. \A q \in Pool \ {p} : FreeIn(m, q) = FreeIn(st, q)
    BY <1>3 DEF FreeIn
<1>8. Cardinality(FreeIn(m, p)) = NFrames[p]
    <2>1. FreeIn(m, p) = Base[p]..Last(p)
        BY <1>2, PoolFacts DEF FreeIn
    <2>2. /\ Base[p] \in Int /\ Last(p) \in Int /\ ~(Base[p] > Last(p))
          /\ Last(p) - Base[p] + 1 = NFrames[p]
        BY PoolFacts DEF Last
    <2> QED BY <2>1, <2>2, FS_Interval
<1> QED BY <1>1, <1>2, <1>4, <1>5, <1>6, <1>7, <1>8
-----------------------------------------------------------------------------
(* Facts every action step starts from.                                    *)
LEMMA InvFacts ==
    ASSUME IInv
    PROVE  /\ state \in Bitmap
           /\ Built \subseteq Pool
           /\ \A p \in Built : NoOrphanIn(state, p)
           /\ \A p \in Built : nFreeFrames[p] = Cardinality(FreeIn(state, p))
           /\ \A f, S : IsExtent(f, S) => f \in Frame /\ state[f] = "HoS"
           /\ \A h \in held : /\ h[1] \in Frame /\ h[2] \in Nat \ {0}
                              /\ h = <<h[1], h[2]>> /\ state[h[1]] = "HoS"
           /\ \A p \in Built : info[p] \in Frame /\ state[info[p]] = "HoS"
<1>1. state \in Bitmap /\ Built \subseteq Pool
    BY DEF IInv, TypeOK, Bitmap, Built
<1>2. \A p \in Built : NoOrphanIn(state, p)
    BY DEF IInv, NoOrphan, NoOrphanIn
<1>3. \A p \in Built : nFreeFrames[p] = Cardinality(FreeIn(state, p))
    BY DEF IInv, CountIsExact, FreeFrames, FreeIn
<1>4. \A f, S : IsExtent(f, S) => f \in Frame /\ state[f] = "HoS"
    BY <1>1, PoolFacts DEF IsExtent
<1>5. \A h \in held : /\ h[1] \in Frame /\ h[2] \in Nat \ {0}
                      /\ h = <<h[1], h[2]>> /\ state[h[1]] = "HoS"
    BY <1>4 DEF IInv, TypeOK, HeldIsExtent
<1>6. \A p \in Built : info[p] \in Frame /\ state[info[p]] = "HoS"
    BY <1>4 DEF IInv, InfoIsExtent
<1> QED BY <1>1, <1>2, <1>3, <1>4, <1>5, <1>6

(* Steps that leave bitmaps, counters and holdings alone.                  *)
LEMMA QuietStep ==
    ASSUME IInv, UNCHANGED <<state, nFreeFrames, phase, info, held>>,
           fate' \in {"running", "aborted", "lost"}
    PROVE  IInv'
BY DEF IInv, TypeOK, CountIsExact, NoOrphan, HeldIsExtent, HeldIsUnique,
       InfoIsExtent, HoleIsExtent, IsExtent, Built, FreeFrames, InfoRun, HoleRun

(* get_frames that finds a run.                                            *)
LEMMA GrantStep ==
    ASSUME IInv, NEW p \in Pool, NEW n \in Request, Ready(p), fate = "running",
           GetFramesGranted(p, n)
    PROVE  IInv'
<1>1. PICK f \in Frames(p) :
         /\ IsFirstFit(state, Base[p], Last(p), n, f)
         /\ state' = Marked(state, f, n)
         /\ nFreeFrames' = [nFreeFrames EXCEPT ![p] = @ - n]
         /\ held' = held \union {<<f, n>>}
         /\ UNCHANGED <<phase, info, fate>>
    BY DEF GetFramesGranted
<1>2. /\ n \in Nat \ {0} /\ f \in Nat /\ f \in Frame /\ p \in Built
      /\ IsFreeRun(state, p, f, n) /\ state[f] = "Free"
    BY <1>1, PoolFacts, PoolAssumption
       DEF IsFirstFit, Candidates, IsFreeRun, Ready, Built
<1>3. NoOrphanIn(state, p) /\ state \in Bitmap
    BY <1>2, InvFacts
<1>4. /\ state' \in Bitmap
      /\ HeadIn(state', p, f, f..(f + n - 1))
      /\ \A q \in Pool : \A g, S : HeadIn(state, q, g, S) => HeadIn(state', q, g, S)
      /\ \A q \in Pool : NoOrphanIn(state, q) => NoOrphanIn(state', q)
      /\ \A q \in Pool \ {p} : FreeIn(state', q) = FreeIn(state, q)
      /\ Cardinality(FreeIn(state', p)) = Cardinality(FreeIn(state, p)) - n
    BY <1>1, <1>2, <1>3, MarkBitmap
<1>5. Built' = Built /\ Built \subseteq Pool
    BY <1>1, InvFacts DEF Built
<1>6. \A g, S : IsExtent(g, S) => IsExtent(g, S)'
    BY <1>4, <1>5 DEF IsExtent, HeadIn
<1>7. IsExtent(f, f..(f + n - 1))'
    BY <1>2, <1>4, <1>5 DEF IsExtent, HeadIn
<1>8. \A g, S : IsExtent(g, S) => g # f
    BY <1>2, InvFacts
<1>9. nFreeFrames[p] \in Nat /\ nFreeFrames[p] - n \in Nat
      /\ nFreeFrames[p] - n = Cardinality(FreeIn(state', p))
    <2>1. nFreeFrames[p] = Cardinality(FreeIn(state, p))
        BY <1>2, InvFacts
    <2> QED BY <1>2, <1>4, <2>1, FreeIsFinite
<1>10. TypeOK'
    <2>1. state' \in [Frame -> FrameState]
        BY <1>4 DEF Bitmap
    <2>2. nFreeFrames' \in [Pool -> Nat]
        BY <1>1, <1>9 DEF IInv, TypeOK
    <2>3. held' \subseteq (Frame \X (Nat \ {0}))
        BY <1>1, <1>2 DEF IInv, TypeOK
    <2> QED BY <1>1, <2>1, <2>2, <2>3 DEF IInv, TypeOK
<1>11. CountIsExact'
    <2> SUFFICES ASSUME NEW q \in Built
                 PROVE  nFreeFrames'[q] = Cardinality(FreeIn(state', q))
        BY <1>5 DEF CountIsExact, FreeFrames, FreeIn
    <2>1. CASE q = p
        BY <1>1, <1>9, <2>1, <1>5 DEF IInv, TypeOK
    <2>2. CASE q # p
        <3>1. q \in Pool \ {p} /\ nFreeFrames'[q] = nFreeFrames[q]
            BY <1>1, <1>5, <2>2 DEF IInv, TypeOK
        <3> QED BY <1>4, <3>1, InvFacts
    <2> QED BY <2>1, <2>2
<1>12. NoOrphan'
    BY <1>4, <1>5, InvFacts DEF NoOrphan, NoOrphanIn
<1>13. HeldIsExtent'
    <2>1. \A h \in held : IsExtent(h[1], Run(h))'
        BY <1>6 DEF IInv, HeldIsExtent, Run
    <2>2. Run(<<f, n>>) = f..(f + n - 1)
        BY DEF Run
    <2> QED BY <1>1, <1>7, <2>1, <2>2 DEF HeldIsExtent, Run
<1>14. HeldIsUnique'
    <2>1. \A h \in held : h[1] # f
        BY <1>8 DEF IInv, HeldIsExtent
    <2> QED BY <1>1, <2>1 DEF IInv, HeldIsUnique
<1>15. InfoIsExtent'
    BY <1>1, <1>5, <1>6, <1>8 DEF IInv, InfoIsExtent, InfoRun
<1>16. HoleIsExtent'
    <2> SUFFICES ASSUME NEW q \in Pool, Hole[q].n > 0
                 PROVE  /\ phase[q] = "built" => \A x \in HoleRun(q) : state'[x] = "Free"
                        /\ phase[q] = "ready" =>
                              /\ IsExtent(Hole[q].first, HoleRun(q))'
                              /\ \A h \in held' : h[1] # Hole[q].first
        BY <1>1 DEF HoleIsExtent, HoleRun
    <2>1. CASE phase[q] = "built"
        <3>1. q # p
            BY <2>1, HoleAssumption DEF Ready
        <3>2. HoleRun(q) \subseteq FreeIn(state, q)
            BY <2>1, HoleFacts DEF IInv, HoleIsExtent, FreeIn
        <3> QED BY <1>4, <2>1, <3>1, <3>2 DEF FreeIn
    <2>2. CASE phase[q] = "ready"
        BY <1>1, <1>6, <1>8, <2>2 DEF IInv, HoleIsExtent
    <2> QED BY <2>1, <2>2
<1> QED BY <1>10, <1>11, <1>12, <1>13, <1>14, <1>15, <1>16 DEF IInv

(* mark_inaccessible on the new pool.                                      *)
LEMMA MarkStep ==
    ASSUME IInv, NEW p \in Pool, MarkInaccessible(p)
    PROVE  IInv'
<1> DEFINE f == Hole[p].first
           n == Hole[p].n
<1>1. /\ phase[p] = "built" /\ n > 0
      /\ state' = Marked(state, f, n)
      /\ nFreeFrames' = [nFreeFrames EXCEPT ![p] = @ - n]
      /\ phase' = [phase EXCEPT ![p] = "ready"]
      /\ UNCHANGED <<info, held, fate>>
    BY DEF MarkInaccessible, MarkRegion
<1>2. /\ f \in Nat /\ n \in Nat \ {0} /\ f \in Frame /\ f \in Frames(p) /\ p \in Built
      /\ HoleRun(p) = f..(f + n - 1)
    BY <1>1, HoleFacts, PoolFacts DEF Built, HoleRun
<1>3. IsFreeRun(state, p, f, n) /\ state[f] = "Free"
    BY <1>1, <1>2, HoleFacts DEF IInv, HoleIsExtent, IsFreeRun
<1>4. NoOrphanIn(state, p) /\ state \in Bitmap
    BY <1>2, InvFacts
<1> HIDE DEF f, n
<1>5. /\ state' \in Bitmap
      /\ HeadIn(state', p, f, f..(f + n - 1))
      /\ \A q \in Pool : \A g, S : HeadIn(state, q, g, S) => HeadIn(state', q, g, S)
      /\ \A q \in Pool : NoOrphanIn(state, q) => NoOrphanIn(state', q)
      /\ \A q \in Pool \ {p} : FreeIn(state', q) = FreeIn(state, q)
      /\ Cardinality(FreeIn(state', p)) = Cardinality(FreeIn(state, p)) - n
    BY <1>1, <1>2, <1>3, <1>4, MarkBitmap
<1>6. phase \in [Pool -> {"absent", "built", "ready"}] /\ nFreeFrames \in [Pool -> Nat]
    BY DEF IInv, TypeOK
<1>7. Built' = Built /\ Built \subseteq Pool
    BY <1>1, <1>6, InvFacts DEF Built
<1>8. \A g, S : IsExtent(g, S) => IsExtent(g, S)' /\ g # f
    BY <1>3, <1>5, <1>7, InvFacts DEF IsExtent, HeadIn
<1>9. IsExtent(f, HoleRun(p))'
    BY <1>2, <1>5, <1>7 DEF IsExtent, HeadIn, HoleRun
<1>10. nFreeFrames[p] - n \in Nat /\ nFreeFrames[p] - n = Cardinality(FreeIn(state', p))
    <2>1. nFreeFrames[p] = Cardinality(FreeIn(state, p))
        BY <1>2, InvFacts
    <2> QED BY <1>2, <1>5, <2>1, FreeIsFinite
<1>11. TypeOK'
    <2>1. state' \in [Frame -> FrameState]
        BY <1>5 DEF Bitmap
    <2>2. nFreeFrames' \in [Pool -> Nat] /\ phase' \in [Pool -> {"absent", "built", "ready"}]
        BY <1>1, <1>6, <1>10
    <2> QED BY <1>1, <2>1, <2>2 DEF IInv, TypeOK
<1>12. CountIsExact'
    <2> SUFFICES ASSUME NEW q \in Built
                 PROVE  nFreeFrames'[q] = Cardinality(FreeIn(state', q))
        BY <1>7 DEF CountIsExact, FreeFrames, FreeIn
    <2>1. CASE q = p
        BY <1>1, <1>6, <1>7, <1>10, <2>1
    <2>2. CASE q # p
        <3>1. q \in Pool \ {p} /\ nFreeFrames'[q] = nFreeFrames[q]
            BY <1>1, <1>6, <1>7, <2>2
        <3> QED BY <1>5, <3>1, InvFacts
    <2> QED BY <2>1, <2>2
<1>13. NoOrphan'
    BY <1>5, <1>7, InvFacts DEF NoOrphan, NoOrphanIn
<1>14. HeldIsExtent' /\ HeldIsUnique'
    BY <1>1, <1>8 DEF IInv, HeldIsExtent, HeldIsUnique, Run
<1>15. InfoIsExtent'
    BY <1>1, <1>7, <1>8 DEF IInv, InfoIsExtent, InfoRun
<1>16. HoleIsExtent'
    <2> SUFFICES ASSUME NEW q \in Pool, Hole[q].n > 0
                 PROVE  /\ phase'[q] = "built" => \A x \in HoleRun(q) : state'[x] = "Free"
                        /\ phase'[q] = "ready" =>
                              /\ IsExtent(Hole[q].first, HoleRun(q))'
                              /\ \A h \in held' : h[1] # Hole[q].first
        BY DEF HoleIsExtent, HoleRun
    <2>1. CASE q = p
        <3>1. phase'[q] = "ready"
            BY <1>1, <1>6, <2>1
        <3>2. \A h \in held : h[1] # f
            BY <1>8 DEF IInv, HeldIsExtent
        <3> QED BY <1>1, <1>9, <2>1, <3>1, <3>2 DEF f
    <2>2. CASE q # p /\ phase[q] = "built"
        <3>1. HoleRun(q) \subseteq FreeIn(state, q)
            BY <2>2, HoleFacts DEF IInv, HoleIsExtent, FreeIn
        <3> QED BY <1>1, <1>5, <1>6, <2>2, <3>1 DEF FreeIn
    <2>3. CASE q # p /\ phase[q] = "ready"
        BY <1>1, <1>6, <1>8, <2>3 DEF IInv, HoleIsExtent
    <2> QED BY <1>1, <1>6, <2>1, <2>2, <2>3
<1> QED BY <1>11, <1>12, <1>13, <1>14, <1>15, <1>16 DEF IInv

(* release_frames with the head of a held run.                             *)
LEMMA ReleaseStep ==
    ASSUME IInv, NEW p \in Built, NEW f \in Frames(p), ReleaseHead(p, f)
    PROVE  IInv'
<1> DEFINE E == Extent(state, Last(p), f)
<1>1. /\ state[f] = "HoS"
      /\ state' = Freed(state, E)
      /\ nFreeFrames' = [nFreeFrames EXCEPT ![p] = @ + Cardinality(E)]
      /\ held' = {h \in held : h[1] # f}
      /\ UNCHANGED <<phase, info, fate>>
    BY DEF ReleaseHead, ReleaseRun
<1>2. PICK k \in held : k[1] = f
    BY DEF ReleaseHead, ReleaseRun
<1>3. Built' = Built /\ Built \subseteq Pool /\ p \in Pool /\ state \in Bitmap
    BY <1>1, InvFacts DEF Built
<1>4. /\ state' \in Bitmap
      /\ \A q \in Pool : \A g, S : HeadIn(state, q, g, S) /\ g # f => HeadIn(state', q, g, S)
      /\ \A q \in Pool : NoOrphanIn(state, q) => NoOrphanIn(state', q)
      /\ \A q \in Pool \ {p} : FreeIn(state', q) = FreeIn(state, q)
      /\ Cardinality(E) \in Nat
      /\ Cardinality(FreeIn(state', p)) = Cardinality(FreeIn(state, p)) + Cardinality(E)
      /\ \A x \in Frame : state[x] = "Free" => state'[x] = "Free"
    BY <1>1, <1>3, FreeBitmap
<1> HIDE DEF E
<1>5. \A g, S : IsExtent(g, S) /\ g # f => IsExtent(g, S)'
    BY <1>3, <1>4 DEF IsExtent, HeadIn
<1>6. TypeOK'
    <2>1. state' \in [Frame -> FrameState]
        BY <1>4 DEF Bitmap
    <2>2. nFreeFrames' \in [Pool -> Nat]
        BY <1>1, <1>3, <1>4 DEF IInv, TypeOK
    <2> QED BY <1>1, <2>1, <2>2 DEF IInv, TypeOK
<1>7. CountIsExact'
    <2> SUFFICES ASSUME NEW q \in Built
                 PROVE  nFreeFrames'[q] = Cardinality(FreeIn(state', q))
        BY <1>3 DEF CountIsExact, FreeFrames, FreeIn
    <2>1. nFreeFrames \in [Pool -> Nat] /\ nFreeFrames[q] = Cardinality(FreeIn(state, q))
        BY InvFacts DEF IInv, TypeOK
    <2>2. CASE q = p
        BY <1>1, <1>3, <1>4, <2>1, <2>2
    <2>3. CASE q # p
        BY <1>1, <1>3, <1>4, <2>1, <2>3
    <2> QED BY <2>2, <2>3
<1>8. NoOrphan'
    BY <1>3, <1>4, InvFacts DEF NoOrphan, NoOrphanIn
<1>9. HeldIsExtent' /\ HeldIsUnique'
    BY <1>1, <1>5 DEF IInv, HeldIsExtent, HeldIsUnique, Run
<1>10. InfoIsExtent'
    BY <1>1, <1>2, <1>3, <1>5 DEF IInv, InfoIsExtent, InfoRun
<1>11. HoleIsExtent'
    <2> SUFFICES ASSUME NEW q \in Pool, Hole[q].n > 0
                 PROVE  /\ phase[q] = "built" => \A x \in HoleRun(q) : state'[x] = "Free"
                        /\ phase[q] = "ready" =>
                              /\ IsExtent(Hole[q].first, HoleRun(q))'
                              /\ \A h \in held' : h[1] # Hole[q].first
        BY <1>1 DEF HoleIsExtent, HoleRun
    <2>1. CASE phase[q] = "built"
        BY <1>4, <2>1, HoleFacts, PoolFacts DEF IInv, HoleIsExtent
    <2>2. CASE phase[q] = "ready"
        BY <1>1, <1>2, <1>5, <2>2 DEF IInv, HoleIsExtent
    <2> QED BY <2>1, <2>2
<1> QED BY <1>6, <1>7, <1>8, <1>9, <1>10, <1>11 DEF IInv

(* The constructor, with the bitmap in the pool's own first frames.        *)
LEMMA ConstructInsideStep ==
    ASSUME IInv, NEW p \in Pool, Construct(p), ConstructInside(p)
    PROVE  IInv'
<1> DEFINE c == Freed(state, Frames(p))
           f == Base[p]
           n == NInfo(p)
<1>1. /\ phase[p] = "absent"
      /\ phase' = [phase EXCEPT ![p] = "built"]
      /\ state' = Marked(c, f, n)
      /\ nFreeFrames' = [nFreeFrames EXCEPT ![p] = NFrames[p] - n]
      /\ info' = [info EXCEPT ![p] = f]
      /\ held' = held /\ fate' = fate
    BY DEF Construct, ConstructInside
<1>2. /\ f \in Nat /\ n \in Nat \ {0} /\ n <= NFrames[p] /\ f \in Frames(p) /\ f \in Frame
      /\ f..(f + n - 1) \subseteq Frames(p)
    BY PoolFacts, HoleFacts DEF Last
<1>3. /\ phase \in [Pool -> {"absent", "built", "ready"}] /\ nFreeFrames \in [Pool -> Nat]
      /\ info \in [Pool -> Frame \union {0}] /\ state \in Bitmap
    BY DEF IInv, TypeOK, Bitmap
<1>4. Built' = Built \union {p} /\ Built \subseteq Pool \ {p}
    BY <1>1, <1>3 DEF Built
<1>5. /\ c \in Bitmap
      /\ \A x \in Frames(p) : c[x] = "Free"
      /\ \A q \in Pool \ {p} : \A g, S : HeadIn(state, q, g, S) => HeadIn(c, q, g, S)
      /\ \A q \in Pool \ {p} : NoOrphanIn(state, q) => NoOrphanIn(c, q)
      /\ NoOrphanIn(c, p)
      /\ \A q \in Pool \ {p} : FreeIn(c, q) = FreeIn(state, q)
      /\ Cardinality(FreeIn(c, p)) = NFrames[p]
    BY <1>3, ClearBitmap
<1>6. IsFreeRun(c, p, f, n)
    BY <1>2, <1>5 DEF IsFreeRun
<1> HIDE DEF c, f, n
<1>7. /\ state' \in Bitmap
      /\ HeadIn(state', p, f, f..(f + n - 1))
      /\ \A q \in Pool : \A g, S : HeadIn(c, q, g, S) => HeadIn(state', q, g, S)
      /\ \A q \in Pool : NoOrphanIn(c, q) => NoOrphanIn(state', q)
      /\ \A q \in Pool \ {p} : FreeIn(state', q) = FreeIn(c, q)
      /\ Cardinality(FreeIn(state', p)) = Cardinality(FreeIn(c, p)) - n
    BY <1>1, <1>2, <1>5, <1>6, MarkBitmap
<1>8. \A g, S : IsExtent(g, S) => IsExtent(g, S)' /\ g # f
    <2> SUFFICES ASSUME NEW g, NEW S, IsExtent(g, S) PROVE IsExtent(g, S)' /\ g # f
        OBVIOUS
    <2>1. PICK q \in Built : HeadIn(state, q, g, S)
        BY DEF IsExtent, HeadIn
    <2>2. HeadIn(state', q, g, S)
        BY <1>4, <1>5, <1>7, <2>1
    <2>3. g # f
        BY <1>2, <1>4, <2>1, PoolFacts DEF HeadIn
    <2> QED BY <1>4, <2>1, <2>2, <2>3 DEF IsExtent, HeadIn
<1>9. IsExtent(f, f..(f + n - 1))'
    BY <1>4, <1>7 DEF IsExtent, HeadIn
<1>10. TypeOK'
    <2>1. state' \in [Frame -> FrameState]
        BY <1>7 DEF Bitmap
    <2>2. nFreeFrames' \in [Pool -> Nat]
        BY <1>1, <1>2, <1>3, PoolFacts
    <2>3. phase' \in [Pool -> {"absent", "built", "ready"}] /\ info' \in [Pool -> Frame \union {0}]
        BY <1>1, <1>2, <1>3
    <2> QED BY <1>1, <2>1, <2>2, <2>3 DEF IInv, TypeOK
<1>11. CountIsExact'
    <2> SUFFICES ASSUME NEW q \in Built'
                 PROVE  nFreeFrames'[q] = Cardinality(FreeIn(state', q))
        BY DEF CountIsExact, FreeFrames, FreeIn
    <2>1. CASE q = p
        BY <1>1, <1>3, <1>5, <1>7, <2>1
    <2>2. CASE q # p
        <3>1. q \in Built /\ q \in Pool \ {p} /\ nFreeFrames'[q] = nFreeFrames[q]
            BY <1>1, <1>3, <1>4, <2>2
        <3> QED BY <1>5, <1>7, <3>1, InvFacts
    <2> QED BY <2>1, <2>2
<1>12. NoOrphan'
    <2>1. \A q \in Built' : NoOrphanIn(state', q)
        BY <1>4, <1>5, <1>7, InvFacts
    <2> QED BY <2>1 DEF NoOrphan, NoOrphanIn
<1>13. HeldIsExtent' /\ HeldIsUnique'
    BY <1>1, <1>8 DEF IInv, HeldIsExtent, HeldIsUnique, Run
<1>14. InfoIsExtent'
    <2> SUFFICES ASSUME NEW q \in Built'
                 PROVE  /\ IsExtent(info[q], InfoRun(q))'
                        /\ \A h \in held' : h[1] # info'[q]
        BY DEF InfoIsExtent
    <2>1. CASE q = p
        <3>1. info'[p] = f /\ InfoRun(p)' = f..(f + n - 1)
            BY <1>1, <1>3 DEF InfoRun, n
        <3>2. \A h \in held : h[1] # f
            BY <1>8 DEF IInv, HeldIsExtent
        <3> QED BY <1>1, <1>9, <2>1, <3>1, <3>2 DEF IsExtent
    <2>2. CASE q # p
        <3>1. q \in Built /\ info'[q] = info[q] /\ InfoRun(q)' = InfoRun(q)
            BY <1>1, <1>3, <1>4, <2>2 DEF InfoRun
        <3>2. IsExtent(info[q], InfoRun(q)) /\ \A h \in held : h[1] # info[q]
            BY <3>1 DEF IInv, InfoIsExtent
        <3> QED BY <1>1, <1>8, <3>1, <3>2 DEF IsExtent
    <2> QED BY <2>1, <2>2
<1>15. HoleIsExtent'
    <2> SUFFICES ASSUME NEW q \in Pool, Hole[q].n > 0
                 PROVE  /\ phase'[q] = "built" => \A x \in HoleRun(q) : state'[x] = "Free"
                        /\ phase'[q] = "ready" =>
                              /\ IsExtent(Hole[q].first, HoleRun(q))'
                              /\ \A h \in held' : h[1] # Hole[q].first
        BY DEF HoleIsExtent, HoleRun
    <2>1. CASE q = p
        <3>1. phase'[q] = "built"
            BY <1>1, <1>3, <2>1
        <3>2. HoleRun(p) \subseteq Frames(p) /\ HoleRun(p) \intersect f..(f + n - 1) = {}
            BY <2>1, HoleFacts DEF f, n
        <3>3. \A x \in HoleRun(p) : x \in Frame /\ c[x] = "Free" /\ x \notin f..(f + n - 1)
            BY <1>5, <3>2, PoolFacts
        <3>4. \A x \in HoleRun(p) : Marked(c, f, n)[x] = "Free"
            <4> SUFFICES ASSUME NEW x \in HoleRun(p) PROVE Marked(c, f, n)[x] = "Free"
                OBVIOUS
            <4>1. x # f /\ x \notin (f + 1)..(f + n - 1)
                BY <1>2, <3>3
            <4>2. c \in [Frame -> FrameState] /\ x \in Frame
                BY <1>5, <3>3 DEF Bitmap
            <4>3. Marked(c, f, n)[x] = c[x]
                BY <4>1, <4>2 DEF Marked
            <4> QED BY <3>3, <4>3
        <3> QED BY <1>1, <2>1, <3>1, <3>4
    <2>2. CASE q # p /\ phase[q] = "built"
        <3>1. HoleRun(q) \subseteq FreeIn(state, q)
            BY <2>2, HoleFacts DEF IInv, HoleIsExtent, FreeIn
        <3> QED BY <1>1, <1>3, <1>5, <1>7, <2>2, <3>1 DEF FreeIn
    <2>3. CASE q # p /\ phase[q] = "ready"
        BY <1>1, <1>3, <1>8, <2>3 DEF IInv, HoleIsExtent
    <2>4. CASE q # p /\ phase[q] = "absent"
        BY <1>1, <1>3, <2>4
    <2> QED BY <1>3, <2>1, <2>2, <2>3, <2>4
<1> QED BY <1>10, <1>11, <1>12, <1>13, <1>14, <1>15 DEF IInv

(* The constructor, with the bitmap in a run got from another pool.        *)
LEMMA ConstructOutsideStep ==
    ASSUME IInv, NEW p \in Pool, Construct(p), NEW k \in held, ConstructOutside(p, k)
    PROVE  IInv'
<1>1. /\ phase[p] = "absent"
      /\ phase' = [phase EXCEPT ![p] = "built"]
      /\ k[2] = NInfo(p)
      /\ state' = Freed(state, Frames(p))
      /\ nFreeFrames' = [nFreeFrames EXCEPT ![p] = NFrames[p]]
      /\ info' = [info EXCEPT ![p] = k[1]]
      /\ held' = held \ {k} /\ fate' = fate
    BY DEF Construct, ConstructOutside
<1>2. /\ phase \in [Pool -> {"absent", "built", "ready"}] /\ nFreeFrames \in [Pool -> Nat]
      /\ info \in [Pool -> Frame \union {0}] /\ state \in Bitmap
    BY DEF IInv, TypeOK, Bitmap
<1>3. Built' = Built \union {p} /\ Built \subseteq Pool \ {p}
    BY <1>1, <1>2 DEF Built
<1>4. /\ state' \in Bitmap
      /\ \A x \in Frames(p) : state'[x] = "Free"
      /\ \A q \in Pool \ {p} : \A g, S : HeadIn(state, q, g, S) => HeadIn(state', q, g, S)
      /\ \A q \in Pool \ {p} : NoOrphanIn(state, q) => NoOrphanIn(state', q)
      /\ NoOrphanIn(state', p)
      /\ \A q \in Pool \ {p} : FreeIn(state', q) = FreeIn(state, q)
      /\ Cardinality(FreeIn(state', p)) = NFrames[p]
    BY <1>1, <1>2, ClearBitmap
<1>5. \A g, S : IsExtent(g, S) => IsExtent(g, S)'
    <2> SUFFICES ASSUME NEW g, NEW S, IsExtent(g, S) PROVE IsExtent(g, S)'
        OBVIOUS
    <2>1. PICK q \in Built : HeadIn(state, q, g, S)
        BY DEF IsExtent, HeadIn
    <2> QED BY <1>3, <1>4, <2>1 DEF IsExtent, HeadIn
<1>6. TypeOK'
    <2>1. state' \in [Frame -> FrameState]
        BY <1>4 DEF Bitmap
    <2>2. nFreeFrames' \in [Pool -> Nat]
        BY <1>1, <1>2, PoolFacts
    <2>3. phase' \in [Pool -> {"absent", "built", "ready"}] /\ info' \in [Pool -> Frame \union {0}]
        BY <1>1, <1>2, InvFacts
    <2> QED BY <1>1, <2>1, <2>2, <2>3 DEF IInv, TypeOK
<1>7. CountIsExact'
    <2> SUFFICES ASSUME NEW q \in Built'
                 PROVE  nFreeFrames'[q] = Cardinality(FreeIn(state', q))
        BY DEF CountIsExact, FreeFrames, FreeIn
    <2>1. CASE q = p
        BY <1>1, <1>2, <1>4, <2>1
    <2>2. CASE q # p
        <3>1. q \in Built /\ q \in Pool \ {p} /\ nFreeFrames'[q] = nFreeFrames[q]
            BY <1>1, <1>2, <1>3, <2>2
        <3> QED BY <1>4, <3>1, InvFacts
    <2> QED BY <2>1, <2>2
<1>8. NoOrphan'
    <2>1. \A q \in Built' : NoOrphanIn(state', q)
        BY <1>3, <1>4, InvFacts
    <2> QED BY <2>1 DEF NoOrphan, NoOrphanIn
<1>9. HeldIsExtent' /\ HeldIsUnique'
    BY <1>1, <1>5 DEF IInv, HeldIsExtent, HeldIsUnique, Run
<1>10. InfoIsExtent'
    <2> SUFFICES ASSUME NEW q \in Built'
                 PROVE  /\ IsExtent(info[q], InfoRun(q))'
                        /\ \A h \in held' : h[1] # info'[q]
        BY DEF InfoIsExtent
    <2>1. CASE q = p
        <3>1. info'[p] = k[1] /\ InfoRun(p)' = Run(k)
            BY <1>1, <1>2 DEF InfoRun, Run
        <3>2. IsExtent(k[1], Run(k))'
            BY <1>5 DEF IInv, HeldIsExtent
        <3>3. \A h \in held' : h[1] # k[1]
            BY <1>1 DEF IInv, HeldIsUnique
        <3> QED BY <2>1, <3>1, <3>2, <3>3 DEF IsExtent, Run
    <2>2. CASE q # p
        <3>1. q \in Built /\ info'[q] = info[q] /\ InfoRun(q)' = InfoRun(q)
            BY <1>1, <1>2, <1>3, <2>2 DEF InfoRun
        <3>2. IsExtent(info[q], InfoRun(q)) /\ \A h \in held : h[1] # info[q]
            BY <3>1 DEF IInv, InfoIsExtent
        <3> QED BY <1>1, <1>5, <3>1, <3>2 DEF IsExtent
    <2> QED BY <2>1, <2>2
<1>11. HoleIsExtent'
    <2> SUFFICES ASSUME NEW q \in Pool, Hole[q].n > 0
                 PROVE  /\ phase'[q] = "built" => \A x \in HoleRun(q) : state'[x] = "Free"
                        /\ phase'[q] = "ready" =>
                              /\ IsExtent(Hole[q].first, HoleRun(q))'
                              /\ \A h \in held' : h[1] # Hole[q].first
        BY DEF HoleIsExtent, HoleRun
    <2>1. CASE q = p
        BY <1>1, <1>2, <1>4, <2>1, HoleFacts
    <2>2. CASE q # p /\ phase[q] = "built"
        <3>1. HoleRun(q) \subseteq FreeIn(state, q)
            BY <2>2, HoleFacts DEF IInv, HoleIsExtent, FreeIn
        <3> QED BY <1>1, <1>2, <1>4, <2>2, <3>1 DEF FreeIn
    <2>3. CASE q # p /\ phase[q] = "ready"
        BY <1>1, <1>2, <1>5, <2>3 DEF IInv, HoleIsExtent
    <2>4. CASE q # p /\ phase[q] = "absent"
        BY <1>1, <1>2, <2>4
    <2> QED BY <1>2, <2>1, <2>2, <2>3, <2>4
<1> QED BY <1>6, <1>7, <1>8, <1>9, <1>10, <1>11 DEF IInv
-----------------------------------------------------------------------------
(* Every step of every operation keeps the inductive invariant.            *)
THEOREM Invariance == Spec => []IInv
<1>1. Init => IInv
    <2> SUFFICES ASSUME Init PROVE IInv
        OBVIOUS
    <2>1. Built = {} /\ held = {} /\ \A p \in Pool : phase[p] = "absent"
        BY DEF Init, Built
    <2>2. TypeOK
        BY DEF Init, TypeOK, FrameState
    <2> QED BY <2>1, <2>2
            DEF IInv, CountIsExact, NoOrphan, HeldIsExtent, HeldIsUnique,
                InfoIsExtent, HoleIsExtent
<1>2. IInv /\ [Next]_vars => IInv'
    <2> SUFFICES ASSUME IInv, [Next]_vars PROVE IInv'
        OBVIOUS
    <2>1. ASSUME NEW p \in Pool, Construct(p) PROVE IInv'
        <3>1. CASE ConstructInside(p)
            BY <2>1, <3>1, ConstructInsideStep
        <3>2. CASE \E h \in held : ConstructOutside(p, h)
            BY <2>1, <3>2, ConstructOutsideStep
        <3> QED BY <2>1, <3>1, <3>2 DEF Construct
    <2>2. ASSUME NEW p \in Pool, MarkInaccessible(p) PROVE IInv'
        BY <2>2, MarkStep
    <2>3. ASSUME NEW p \in Pool, NEW n \in Request, GetFrames(p, n) PROVE IInv'
        <3>1. Ready(p) /\ fate = "running"
            BY <2>3 DEF GetFrames
        <3>2. CASE GetFramesGranted(p, n)
            BY <3>1, <3>2, GrantStep
        <3>3. CASE GetFramesFails(p, n)
            BY <3>1, <3>3, QuietStep DEF GetFramesFails
        <3>4. CASE GetFramesAborts(p, n)
            BY <3>4, QuietStep DEF GetFramesAborts, Abort
        <3> QED BY <2>3, <3>2, <3>3, <3>4 DEF GetFrames
    <2>4. ASSUME NEW f, ReleaseFrames(f) PROVE IInv'
        <3>1. CASE \E p \in Built : f \in Frames(p) /\ ReleaseHead(p, f)
            BY <3>1, ReleaseStep
        <3>2. CASE ReleaseAborts(f)
            BY <3>2, QuietStep DEF ReleaseAborts, Abort
        <3> QED BY <2>4, <3>1, <3>2 DEF ReleaseFrames
    <2>5. CASE UNCHANGED vars
        BY <2>5, QuietStep DEF vars, IInv, TypeOK
    <2> QED BY <2>1, <2>2, <2>3, <2>4, <2>5 DEF Next
<1> QED BY <1>1, <1>2, PTL DEF Spec

(* No two callers ever hold the same frame.                                *)
LEMMA DisjointFromInv == IInv => HeldDisjoint
<1> SUFFICES ASSUME IInv, NEW h \in held, NEW k \in held, h # k
             PROVE  Run(h) \intersect Run(k) = {}
    BY DEF HeldDisjoint
<1>1. h[1] # k[1]
    BY DEF IInv, HeldIsUnique
<1>2. IsExtent(h[1], Run(h)) /\ IsExtent(k[1], Run(k)) /\ TypeOK
    BY DEF IInv, HeldIsExtent
<1> QED BY <1>1, <1>2, ExtentFacts

(* A pool's bitmap is out of every caller's reach.                         *)
LEMMA InfoSafeFromInv == IInv => InfoIsSafe
<1> SUFFICES ASSUME IInv, NEW p \in Built, NEW f \in InfoRun(p)
             PROVE  /\ f \in Frame /\ state[f] # "Free"
                    /\ \A h \in held : f \notin Run(h)
    BY DEF InfoIsSafe
<1>1. IsExtent(info[p], InfoRun(p)) /\ \A h \in held : h[1] # info[p]
    BY DEF IInv, InfoIsExtent
<1>2. TypeOK /\ \A h \in held : IsExtent(h[1], Run(h))
    BY DEF IInv, HeldIsExtent
<1> QED BY <1>1, <1>2, ExtentFacts

(* A hole is never granted.                                                *)
LEMMA HoleSafeFromInv == IInv => HoleIsSafe
<1> SUFFICES ASSUME IInv, NEW p \in Pool, Hole[p].n > 0, phase[p] = "ready",
                    NEW f \in HoleRun(p)
             PROVE  state[f] # "Free" /\ \A h \in held : f \notin Run(h)
    BY DEF HoleIsSafe
<1>1. IsExtent(Hole[p].first, HoleRun(p)) /\ \A h \in held : h[1] # Hole[p].first
    BY DEF IInv, HoleIsExtent
<1>2. TypeOK /\ \A h \in held : IsExtent(h[1], Run(h))
    BY DEF IInv, HeldIsExtent
<1> QED BY <1>1, <1>2, ExtentFacts

(* The state variables keep their types; nFreeFrames never goes negative.  *)
THEOREM TypeCorrect == Spec => []TypeOK
BY Invariance, PTL DEF IInv

(* nFreeFrames always equals the number of free frames in the bitmap.      *)
THEOREM CounterExact == Spec => []CountIsExact
BY Invariance, PTL DEF IInv

(* No used frame is ever without a head in front of it.                    *)
THEOREM NoOrphans == Spec => []NoOrphan
BY Invariance, PTL DEF IInv

(* release_frames frees exactly what get_frames granted, for every caller. *)
THEOREM HeldExact == Spec => []HeldIsExtent
BY Invariance, PTL DEF IInv

(* Frames are never granted to two callers at a time.                      *)
THEOREM NoDoubleGrant == Spec => []HeldDisjoint
BY Invariance, DisjointFromInv, PTL

(* The frames holding the bitmaps stay allocated and out of reach.         *)
THEOREM InfoSafe == Spec => []InfoIsSafe
BY Invariance, InfoSafeFromInv, PTL

(* Inaccessible memory is never handed out.                                *)
THEOREM HoleSafe == Spec => []HoleIsSafe
BY Invariance, HoleSafeFromInv, PTL

-----------------------------------------------------------------------------
(* Refinement: the bitmaps, the counters and the first-fit search behave,  *)
(* seen through the extents of the heads, as an allocator of disjoint runs *)
(* (FrameAllocator), for any pools and requests.                           *)

HeldRuns == {Run(h) : h \in held}

(* A run is taken exactly when it is the extent of some head.              *)
LEMMA ExtentsMembers == \A S : S \in Extents <=> \E f : IsExtent(f, S)
BY DEF Extents, IsExtent

(* A held run is a taken run, and different runs have different firsts.    *)
LEMMA TakenFacts ==
    ASSUME IInv
    PROVE  /\ \A h \in held : Run(h) \in Extents /\ h[1] \in Run(h)
           /\ \A S \in Extents : \A x \in S : x \in Frame /\ state[x] # "Free"
<1>1. TypeOK /\ \A h \in held : IsExtent(h[1], Run(h))
    BY DEF IInv, HeldIsExtent
<1> QED BY <1>1, ExtentsMembers, ExtentFacts

(* A new run is taken and everything else stays when the heads of the new  *)
(* bitmap are the old ones and the run's first frame.                      *)
LEMMA TakenGrows ==
    ASSUME NEW f, NEW R, Built \subseteq Built', IsExtent(f, R)',
           \A g, S : IsExtent(g, S) => IsExtent(g, S)',
           \A g, S : IsExtent(g, S)' => g = f \/ \E T : IsExtent(g, T),
           \A g, S, T : IsExtent(g, S)' /\ IsExtent(g, T)' => S = T
    PROVE  Extents' = Extents \union {R}
<1>1. \A S : S \in Extents' <=> \E g : IsExtent(g, S)'
    BY DEF Extents, IsExtent
<1>2. ASSUME NEW S \in Extents' PROVE S \in Extents \union {R}
    BY <1>1, ExtentsMembers
<1>3. ASSUME NEW S \in Extents \union {R} PROVE S \in Extents'
    BY <1>1, ExtentsMembers
<1> QED BY <1>2, <1>3

(* One head has one extent, in the next state too.                         *)
LEMMA ExtentUnique ==
    ASSUME IInv', NEW g, NEW S, NEW T, IsExtent(g, S)', IsExtent(g, T)'
    PROVE  S = T
<1>1. Built' \subseteq Pool
    BY DEF Built
<1> QED BY <1>1, PoolFacts DEF IsExtent

(* Marking a free run of a built pool: which extents there are afterwards. *)
LEMMA MarkExtents ==
    ASSUME IInv, IInv', NEW p \in Pool, NEW f \in Nat, NEW n \in Nat \ {0},
           IsFreeRun(state, p, f, n), p \in Built,
           state' = Marked(state, f, n), Built' = Built
    PROVE  /\ Extents' = Extents \union {f..(f + n - 1)}
           /\ Allocator!FreeRun(p, f..(f + n - 1))
<1> DEFINE R == f..(f + n - 1)
<1>1. NoOrphanIn(state, p) /\ state \in Bitmap /\ Built \subseteq Pool
    BY InvFacts
<1>2. /\ HeadIn(state', p, f, R)
      /\ \A q \in Pool : \A g, S : HeadIn(state, q, g, S) => HeadIn(state', q, g, S)
    BY <1>1, MarkBitmap
<1>3. \A g, S : IsExtent(g, S) => IsExtent(g, S)'
    BY <1>1, <1>2 DEF IsExtent, HeadIn
<1>4. IsExtent(f, R)'
    BY <1>2 DEF IsExtent, HeadIn
<1>5. ASSUME NEW g, NEW S, IsExtent(g, S)', g # f PROVE \E T : IsExtent(g, T)
    <2>1. PICK q \in Built : g \in Frames(q) /\ state'[g] = "HoS"
        BY <1>5 DEF IsExtent
    <2>2. g \in Frame
        BY <1>1, <2>1, PoolFacts
    <2>3. state[g] = "HoS"
        BY <1>1, <1>5, <2>1, <2>2 DEF Marked, Bitmap
    <2> QED BY <2>1, <2>3 DEF IsExtent
<1>6. Extents' = Extents \union {R}
    BY <1>3, <1>4, <1>5, ExtentUnique, TakenGrows
<1>7. f \in R /\ R \subseteq Frames(p) /\ \A x \in R : state[x] = "Free"
    BY DEF IsFreeRun
<1>8. \E a, b \in R : R = a..b
    BY f \in R, f + n - 1 \in R
<1>9. \A T \in Extents : R \intersect T = {}
    BY <1>7, TakenFacts
<1> QED BY <1>6, <1>7, <1>8, <1>9 DEF Allocator!FreeRun, Allocator!Interval
-----------------------------------------------------------------------------
(* get_frames grants a free run of the pool.                               *)
LEMMA GrantRefines ==
    ASSUME IInv, IInv', NEW p \in Pool, NEW n \in Request, Ready(p),
           GetFramesGranted(p, n)
    PROVE  \E S \in SUBSET Frames(p) : Allocator!Grant(p, S)
<1>1. PICK f \in Frames(p) :
         /\ IsFirstFit(state, Base[p], Last(p), n, f)
         /\ state' = Marked(state, f, n)
         /\ held' = held \union {<<f, n>>}
         /\ UNCHANGED <<phase, info, fate>>
    BY DEF GetFramesGranted
<1> DEFINE R == f..(f + n - 1)
<1>2. /\ n \in Nat \ {0} /\ f \in Nat /\ p \in Built /\ Built' = Built
      /\ IsFreeRun(state, p, f, n)
    BY <1>1, PoolFacts, PoolAssumption
       DEF IsFirstFit, Candidates, IsFreeRun, Ready, Built
<1>3. Extents' = Extents \union {R} /\ Allocator!FreeRun(p, R)
    BY <1>1, <1>2, MarkExtents
<1>4. Run(<<f, n>>) = R
    BY DEF Run
<1>5. {Run(h) : h \in held'} = {Run(h) : h \in held} \union {R}
    BY <1>1, <1>4
<1>6. R \in SUBSET Frames(p)
    BY <1>2 DEF IsFreeRun
<1> QED BY <1>2, <1>3, <1>5, <1>6 DEF Allocator!Grant

(* mark_inaccessible sets the hole aside.                                  *)
LEMMA MarkRefines ==
    ASSUME IInv, IInv', NEW p \in Pool, MarkInaccessible(p)
    PROVE  \E S \in SUBSET Frames(p) : Allocator!SetAside(p, S)
<1> DEFINE f == Hole[p].first
           n == Hole[p].n
           R == f..(f + n - 1)
<1>1. /\ phase[p] = "built" /\ n > 0
      /\ state' = Marked(state, f, n)
      /\ phase' = [phase EXCEPT ![p] = "ready"]
      /\ held' = held
    BY DEF MarkInaccessible, MarkRegion
<1>2. phase \in [Pool -> {"absent", "built", "ready"}]
    BY DEF IInv, TypeOK
<1>3. /\ f \in Nat /\ n \in Nat \ {0} /\ p \in Built /\ Built' = Built
      /\ R \in SUBSET Frames(p) /\ IsFreeRun(state, p, f, n)
    BY <1>1, <1>2, HoleFacts DEF Built, HoleRun, IInv, HoleIsExtent, IsFreeRun
<1> HIDE DEF f, n
<1>4. Extents' = Extents \union {R} /\ Allocator!FreeRun(p, R)
    BY <1>1, <1>3, MarkExtents
<1>5. {Run(h) : h \in held'} = {Run(h) : h \in held}
    BY <1>1
<1> QED BY <1>3, <1>4, <1>5 DEF Allocator!SetAside

(* release_frames gives back exactly the caller's run.                     *)
LEMMA ReleaseRefines ==
    ASSUME IInv, IInv', NEW p \in Built, NEW f \in Frames(p), ReleaseHead(p, f)
    PROVE  \E S \in HeldRuns : Allocator!GiveBack(S)
<1> DEFINE E == Extent(state, Last(p), f)
<1>1. /\ state[f] = "HoS" /\ state' = Freed(state, E)
      /\ held' = {h \in held : h[1] # f}
      /\ UNCHANGED <<phase, info, fate>>
    BY DEF ReleaseHead, ReleaseRun
<1>2. PICK k \in held : k[1] = f
    BY DEF ReleaseHead, ReleaseRun
<1>3. Built' = Built /\ Built \subseteq Pool /\ p \in Pool /\ state \in Bitmap
      /\ f \in Frame
    BY <1>1, InvFacts, PoolFacts DEF Built
<1>4. \A q \in Pool : \A g, S : HeadIn(state, q, g, S) /\ g # f => HeadIn(state', q, g, S)
    BY <1>1, <1>3, FreeBitmap
<1>5. IsExtent(f, E) /\ IsExtent(k[1], Run(k)) /\ TypeOK
    BY <1>1 DEF IsExtent, IInv, HeldIsExtent
<1>6. E = Run(k) /\ f \in E
    BY <1>2, <1>5, ExtentFacts
<1>7. \A x \in Frame : state'[x] = IF x \in E THEN "Free" ELSE state[x]
    BY <1>1, <1>3 DEF Freed, Bitmap
<1> HIDE DEF E
<1>8. \A g, S : IsExtent(g, S) /\ g # f => IsExtent(g, S)'
    BY <1>3, <1>4 DEF IsExtent, HeadIn
<1>9. \A g, S : IsExtent(g, S)' => g # f /\ \E T : IsExtent(g, T)
    <2> SUFFICES ASSUME NEW g, NEW S, IsExtent(g, S)'
                 PROVE  g # f /\ \E T : IsExtent(g, T)
        OBVIOUS
    <2>1. PICK q \in Built : g \in Frames(q) /\ state'[g] = "HoS"
        BY <1>3 DEF IsExtent
    <2>2. g \in Frame
        BY <1>3, <2>1, PoolFacts
    <2>3. g # f /\ state[g] = "HoS"
        BY <1>3, <1>6, <1>7, <2>1, <2>2
    <2> QED BY <2>1, <2>3 DEF IsExtent
<1>10. \A S : S \in Extents' <=> \E g : IsExtent(g, S)'
    BY DEF Extents, IsExtent
<1>11. ASSUME NEW S \in Extents' PROVE S \in Extents \ {E}
    <2>1. PICK g : IsExtent(g, S)'
        BY <1>10
    <2>2. PICK T : g # f /\ IsExtent(g, T)
        BY <1>9, <2>1
    <2>3. S = T
        BY <1>8, <2>1, <2>2, ExtentUnique
    <2>4. S # E
        BY <1>5, <1>6, <2>2, <2>3, ExtentFacts
    <2> QED BY <2>2, <2>3, <2>4, ExtentsMembers
<1>12. ASSUME NEW S \in Extents \ {E} PROVE S \in Extents'
    <2>1. PICK g : IsExtent(g, S)
        BY ExtentsMembers
    <2>2. g # f
        BY <1>5, <2>1, ExtentFacts
    <2> QED BY <1>8, <1>10, <2>1, <2>2
<1>13. Extents' = Extents \ {E}
    BY <1>11, <1>12
<1>14. \A h \in held : h[1] # f => Run(h) # E
    <2> SUFFICES ASSUME NEW h \in held, h[1] # f PROVE Run(h) # E
        OBVIOUS
    <2>1. IsExtent(h[1], Run(h))
        BY DEF IInv, HeldIsExtent
    <2> QED BY <1>5, <1>6, <2>1, ExtentFacts
<1>15. {Run(h) : h \in held'} = {Run(h) : h \in held} \ {E}
    <2>1. \A h \in held : h[1] = f => Run(h) = E
        BY <1>2, <1>6 DEF IInv, HeldIsUnique
    <2> QED BY <1>1, <1>14, <2>1
<1> QED BY <1>2, <1>3, <1>6, <1>13, <1>15 DEF Allocator!GiveBack, HeldRuns

(* The constructor opens a pool with a run of its own.                     *)
LEMMA ConstructInsideRefines ==
    ASSUME IInv, IInv', NEW p \in Pool, Construct(p), ConstructInside(p)
    PROVE  \E S \in SUBSET Frames(p) : Allocator!OpenWithOwnRun(p, S)
<1> DEFINE c == Freed(state, Frames(p))
           f == Base[p]
           n == NInfo(p)
           R == f..(f + n - 1)
<1>1. /\ phase[p] = "absent"
      /\ phase' = [phase EXCEPT ![p] = "built"]
      /\ state' = Marked(c, f, n)
      /\ held' = held
    BY DEF Construct, ConstructInside
<1>2. /\ f \in Nat /\ n \in Nat \ {0} /\ f \in Frames(p) /\ R \subseteq Frames(p)
      /\ f \in R /\ f + n - 1 \in R
    BY PoolFacts, HoleFacts DEF Last
<1>3. phase \in [Pool -> {"absent", "built", "ready"}] /\ state \in Bitmap
    BY DEF IInv, TypeOK, Bitmap
<1>4. Built' = Built \union {p} /\ Built \subseteq Pool \ {p} /\ p \notin Built
    BY <1>1, <1>3 DEF Built
<1>5. /\ c \in Bitmap
      /\ \A x \in Frames(p) : c[x] = "Free"
      /\ \A q \in Pool \ {p} : \A g, S : HeadIn(state, q, g, S) => HeadIn(c, q, g, S)
      /\ NoOrphanIn(c, p)
      /\ \A x \in Frame : x \notin Frames(p) => c[x] = state[x]
    BY <1>3, ClearBitmap DEF Freed, Bitmap
<1>6. IsFreeRun(c, p, f, n)
    BY <1>2, <1>5 DEF IsFreeRun
<1> HIDE DEF c, f, n
<1>7. /\ HeadIn(state', p, f, R)
      /\ \A q \in Pool : \A g, S : HeadIn(c, q, g, S) => HeadIn(state', q, g, S)
    BY <1>1, <1>2, <1>5, <1>6, MarkBitmap
<1>8. \A x \in Frame : x # f /\ state'[x] = "HoS" => c[x] = "HoS"
    BY <1>1, <1>5 DEF Marked, Bitmap
<1>9. \A g, S : IsExtent(g, S) => IsExtent(g, S)'
    <2> SUFFICES ASSUME NEW g, NEW S, IsExtent(g, S) PROVE IsExtent(g, S)'
        OBVIOUS
    <2>1. PICK q \in Built : HeadIn(state, q, g, S)
        BY DEF IsExtent, HeadIn
    <2> QED BY <1>4, <1>5, <1>7, <2>1 DEF IsExtent, HeadIn
<1>10. IsExtent(f, R)'
    BY <1>4, <1>7 DEF IsExtent, HeadIn
<1>11. ASSUME NEW g, NEW S, IsExtent(g, S)', g # f PROVE \E T : IsExtent(g, T)
    <2>1. PICK q \in Built' : g \in Frames(q) /\ state'[g] = "HoS"
        BY <1>11 DEF IsExtent
    <2>2. q \in Pool /\ g \in Frame
        BY <1>4, <2>1, PoolFacts
    <2>3. c[g] = "HoS"
        BY <1>8, <1>11, <2>1, <2>2
    <2>4. g \notin Frames(p) /\ q \in Built
        BY <1>4, <1>5, <2>1, <2>3
    <2>5. state[g] = "HoS"
        BY <1>5, <2>2, <2>3, <2>4
    <2> QED BY <2>1, <2>4, <2>5 DEF IsExtent
<1>12. Extents' = Extents \union {R}
    BY <1>4, <1>9, <1>10, <1>11, ExtentUnique, TakenGrows
<1>13. \A T \in Extents : R \intersect T = {}
    <2> SUFFICES ASSUME NEW T \in Extents PROVE R \intersect T = {}
        OBVIOUS
    <2>1. PICK g : IsExtent(g, T)
        BY ExtentsMembers
    <2>2. PICK q \in Built : g \in Frames(q) /\ Extent(state, Last(q), g) = T
        BY <2>1 DEF IsExtent
    <2>3. q \in Pool \ {p} /\ T \subseteq Frames(q)
        <3>1. q \in Pool \ {p}
            BY <1>4, <2>2
        <3>2. g \in Nat /\ Last(q) \in Nat /\ g <= Last(q) /\ g..Last(q) \subseteq Frames(q)
            BY <2>2, <3>1, PoolFacts
        <3>3. Extent(state, Last(q), g) \subseteq g..Last(q)
            BY DEF Extent
        <3> QED BY <2>2, <3>1, <3>2, <3>3
    <2> QED BY <1>2, <2>3, PoolFacts
<1>14. Allocator!FreeRun(p, R)
    BY <1>2, <1>13 DEF Allocator!FreeRun, Allocator!Interval
<1>15. {Run(h) : h \in held'} = {Run(h) : h \in held}
    BY <1>1
<1> QED BY <1>2, <1>4, <1>12, <1>14, <1>15 DEF Allocator!OpenWithOwnRun

(* The constructor opens a pool with a run main got from another pool.     *)
LEMMA ConstructOutsideRefines ==
    ASSUME IInv, IInv', NEW p \in Pool, Construct(p), NEW k \in held,
           ConstructOutside(p, k)
    PROVE  \E S \in HeldRuns : Allocator!OpenWithHeldRun(p, S)
<1>1. /\ phase[p] = "absent"
      /\ phase' = [phase EXCEPT ![p] = "built"]
      /\ state' = Freed(state, Frames(p))
      /\ held' = held \ {k}
    BY DEF Construct, ConstructOutside
<1>2. phase \in [Pool -> {"absent", "built", "ready"}] /\ state \in Bitmap
    BY DEF IInv, TypeOK, Bitmap
<1>3. Built' = Built \union {p} /\ Built \subseteq Pool \ {p} /\ p \notin Built
    BY <1>1, <1>2 DEF Built
<1>4. /\ \A x \in Frames(p) : state'[x] = "Free"
      /\ \A q \in Pool \ {p} : \A g, S : HeadIn(state, q, g, S) => HeadIn(state', q, g, S)
      /\ \A x \in Frame : x \notin Frames(p) => state'[x] = state[x]
    BY <1>1, <1>2, ClearBitmap DEF Freed, Bitmap
<1>5. \A g, S : IsExtent(g, S) => IsExtent(g, S)'
    <2> SUFFICES ASSUME NEW g, NEW S, IsExtent(g, S) PROVE IsExtent(g, S)'
        OBVIOUS
    <2>1. PICK q \in Built : HeadIn(state, q, g, S)
        BY DEF IsExtent, HeadIn
    <2> QED BY <1>3, <1>4, <2>1 DEF IsExtent, HeadIn
<1>6. ASSUME NEW g, NEW S, IsExtent(g, S)' PROVE \E T : IsExtent(g, T)
    <2>1. PICK q \in Built' : g \in Frames(q) /\ state'[g] = "HoS"
        BY <1>6 DEF IsExtent
    <2>2. q \in Pool /\ g \in Frame /\ q \in Built /\ q # p
        BY <1>3, <1>4, <2>1, PoolFacts
    <2>3. state[g] = "HoS"
        BY <1>3, <1>4, <2>1, <2>2, PoolFacts
    <2> QED BY <2>1, <2>2, <2>3 DEF IsExtent
<1>7. Extents' = Extents
    <2>1. \A S : S \in Extents' <=> \E g : IsExtent(g, S)'
        BY DEF Extents, IsExtent
    <2>2. ASSUME NEW S \in Extents' PROVE S \in Extents
        <3>1. PICK g : IsExtent(g, S)'
            BY <2>1
        <3>2. PICK T : IsExtent(g, T)
            BY <1>6, <3>1
        <3>3. S = T
            BY <1>5, <3>1, <3>2, ExtentUnique
        <3> QED BY <3>2, <3>3, ExtentsMembers
    <2>3. ASSUME NEW S \in Extents PROVE S \in Extents'
        BY <1>5, <2>1, ExtentsMembers
    <2> QED BY <2>2, <2>3
<1>8. \A h \in held : h # k => Run(h) # Run(k)
    <2> SUFFICES ASSUME NEW h \in held, h # k PROVE Run(h) # Run(k)
        OBVIOUS
    <2>1. Run(h) \intersect Run(k) = {}
        BY DisjointFromInv DEF HeldDisjoint
    <2>2. h[1] \in Run(h)
        BY TakenFacts
    <2> QED BY <2>1, <2>2
<1>9. {Run(h) : h \in held'} = {Run(h) : h \in held} \ {Run(k)}
    BY <1>1, <1>8
<1> QED BY <1>3, <1>7, <1>9 DEF Allocator!OpenWithHeldRun, HeldRuns

(* Every behaviour of the pools is one of the abstract allocator.          *)
THEOREM Refinement == Spec => ImplementsAllocator
<1>1. Init => Allocator!Init
    BY DEF Init, Allocator!Init, Built, Extents
<1>2. IInv /\ IInv' /\ [Next]_vars => [Allocator!Next]_(Allocator!avars)
    <2> SUFFICES ASSUME IInv, IInv', [Next]_vars
                 PROVE  Allocator!Next \/ UNCHANGED Allocator!avars
        OBVIOUS
    <2>1. ASSUME UNCHANGED <<state, phase, held>> PROVE UNCHANGED Allocator!avars
        BY <2>1 DEF Allocator!avars, Built, Extents
    <2>2. ASSUME NEW p \in Pool, Construct(p) PROVE Allocator!Next
        <3>1. CASE ConstructInside(p)
            BY <2>2, <3>1, ConstructInsideRefines DEF Allocator!Next
        <3>2. CASE \E h \in held : ConstructOutside(p, h)
            BY <2>2, <3>2, ConstructOutsideRefines DEF Allocator!Next, HeldRuns
        <3> QED BY <2>2, <3>1, <3>2 DEF Construct
    <2>3. ASSUME NEW p \in Pool, MarkInaccessible(p) PROVE Allocator!Next
        BY <2>3, MarkRefines DEF Allocator!Next
    <2>4. ASSUME NEW p \in Pool, NEW n \in Request, GetFrames(p, n)
          PROVE  Allocator!Next \/ UNCHANGED Allocator!avars
        <3>1. Ready(p)
            BY <2>4 DEF GetFrames
        <3>2. CASE GetFramesGranted(p, n)
            BY <3>1, <3>2, GrantRefines DEF Allocator!Next
        <3>3. CASE GetFramesFails(p, n)
            BY <2>1, <3>3 DEF GetFramesFails
        <3>4. CASE GetFramesAborts(p, n)
            BY <2>1, <3>4 DEF GetFramesAborts, Abort
        <3> QED BY <2>4, <3>2, <3>3, <3>4 DEF GetFrames
    <2>5. ASSUME NEW f, ReleaseFrames(f)
          PROVE  Allocator!Next \/ UNCHANGED Allocator!avars
        <3>1. CASE \E p \in Built : f \in Frames(p) /\ ReleaseHead(p, f)
            BY <3>1, ReleaseRefines DEF Allocator!Next, HeldRuns
        <3>2. CASE ReleaseAborts(f)
            BY <2>1, <3>2 DEF ReleaseAborts, Abort
        <3> QED BY <2>5, <3>1, <3>2 DEF ReleaseFrames
    <2>6. CASE UNCHANGED vars
        BY <2>1, <2>6 DEF vars
    <2> QED BY <2>2, <2>3, <2>4, <2>5, <2>6 DEF Next
<1>3. Spec => []IInv
    BY Invariance
<1> QED BY <1>1, <1>2, <1>3, PTL DEF Spec, ImplementsAllocator, Allocator!Spec
=============================================================================
