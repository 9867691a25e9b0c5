------------------------ MODULE DissasmZonesProofs -------------------------
(***************************************************************************)
(* Proofs about DissasmZones, for a listing of any length, any labels on   *)
(* it, any comments and any zones side by side.                            *)
(*                                                                         *)
(* The inductive invariant (Inv) says that the tree of zones is the        *)
(* listing: Origins(ranges), as o below, is the listing line behind each   *)
(* line of the view; the zones of a list touch and go on up to the end of  *)
(* the listing (Laid); each says of its labels, its count of instructions  *)
(* and its comments what the listing has at o (AnyOK, Leaf, Parent); and   *)
(* the named ones span exactly what the user made zones of (Spanned).      *)
(* Every operation is shown to keep it: folding and commenting in          *)
(* DissasmZonesFolding, adding, removing and reading here.  The properties *)
(* follow from it.                                                         *)
(***************************************************************************)
EXTENDS DissasmZonesFolding

-----------------------------------------------------------------------------
(* Counting instructions.                                                  *)

\* Instructions before a line, and before the next.
LEMMA InstrIs ==
    ASSUME NEW a \in Nat, a <= End
    PROVE  /\ Instr(a) \in Nat /\ Instr(a) <= a
           /\ a < End => Instr(a + 1) = Instr(a) + IF a \in Labels THEN 0 ELSE 1
<1> DEFINE U == (0 .. End - 1) \ Labels
<1>0. End \in Nat /\ U \in Sights
    BY EndIs DEF Sights
<1>1. \A b \in Nat : b <= End => Instr(b) = Rank(U, b)
    <2> SUFFICES ASSUME NEW b \in Nat, b <= End
                 PROVE  Instr(b) = Rank(U, b)
        OBVIOUS
    <2>1. {m \in 0 .. b - 1 : m \notin Labels} = {m \in U : m < b}
        BY <1>0
    <2> QED BY <2>1 DEF Instr, Rank
<1>2. a < End => (a \in U <=> a \notin Labels)
    BY <1>0
<1> HIDE DEF U
<1>3. Instr(a) \in Nat /\ Instr(a) <= a
    BY <1>0, <1>1, RankFinite
<1>4. a < End => Instr(a + 1) = Rank(U, a + 1) /\ Rank(U, a + 1) = Rank(U, a) + (IF a \in U THEN 1 ELSE 0)
    BY <1>0, <1>1, RankNext
<1>5. Instr(a) = Rank(U, a)
    BY <1>1
<1> QED BY <1>2, <1>3, <1>4, <1>5

\* The labels and the instructions of a zone make up its lines.
LEMMA CountIs ==
    ASSUME NEW I, NEW z \in ZonesWith(I), NEW o, Orderly(o), AnyOK(z, o)
    PROVE  /\ Cardinality(DOMAIN z.labels) \in Nat
           /\ Instr(o[z.high]) + Cardinality(DOMAIN z.labels) = Instr(o[z.low]) + (o[z.high] - o[z.low])
<1>0. End \in Nat /\ End > 0 /\ Wrap = 4 * End /\ Wrap \in Nat
    BY EndIs
<1> DEFINE D == DOMAIN z.labels  lo == z.low  b == o[z.low]  c == o[z.high]  W == c - b
<1>1. lo \in Nat /\ b \in Nat /\ c \in Nat /\ lo <= b /\ b <= c /\ c <= End
    <2>1. /\ z.low \in Nat /\ o[z.low] \in Nat /\ o[z.high] \in Nat /\ o[z.low] <= o[z.high] /\ o[z.high] <= End
          /\ z.low <= o[z.low] /\ z.high \in Nat
        BY AnyBounds
    <2> QED BY <2>1
<1>2. D \subseteq Words /\ \A k \in Words : k \in D <=> lo <= k /\ b + (k - lo) \in Labels /\ b + (k - lo) < c
    <2>1. z.labels \in Maps(Labels)
        BY ZoneFields
    <2> QED BY <2>1, MapIs DEF AnyOK, Labelled
<1> HIDE DEF D, lo, b, c
<1>3. W \in Nat
    BY <1>1
<1>4. \A k \in D : k \in Nat /\ k < lo + W /\ k < End
    <2> SUFFICES ASSUME NEW k \in D
                 PROVE  k \in Nat /\ k < lo + W /\ k < End
        OBVIOUS
    <2>1. k \in Words /\ k \in Nat
        BY <1>0, <1>2 DEF Words
    <2>2. b + (k - lo) < c /\ lo <= k
        BY <1>2, <2>1
    <2> QED BY <1>0, <1>1, <2>1, <2>2
<1>5. D \in Sights
    BY <1>0, <1>4 DEF Sights
<1> DEFINE B == {i \in 0 .. W : Instr(b + i) + Rank(D, lo + i) = Instr(b) + i}
<1>6. \A i \in 0 .. W : /\ b + i \in Nat /\ b + i <= End /\ lo + i \in Nat
                        /\ Instr(b + i) \in Nat /\ Rank(D, lo + i) \in Nat
    <2> SUFFICES ASSUME NEW i \in 0 .. W
                 PROVE  /\ b + i \in Nat /\ b + i <= End /\ lo + i \in Nat
                        /\ Instr(b + i) \in Nat /\ Rank(D, lo + i) \in Nat
        OBVIOUS
    <2>1. b + i \in Nat /\ b + i <= End /\ lo + i \in Nat
        BY <1>0, <1>1
    <2>2. Instr(b + i) \in Nat
        BY <2>1, InstrIs
    <2>3. Rank(D, lo + i) \in Nat
        BY <1>5, <2>1, RankFinite
    <2> QED BY <2>1, <2>2, <2>3
<1>7. 0 \in B
    <2>1. {m \in D : m < lo} = {}
        <3> SUFFICES ASSUME NEW m \in D, m < lo
                     PROVE  FALSE
            OBVIOUS
        <3>1. lo <= m /\ m \in Nat
            BY <1>2, <1>4
        <3> QED BY <1>1, <3>1
    <2>2. Rank(D, lo) = 0
        BY <2>1, FS_EmptySet DEF Rank
    <2>3. 0 \in 0 .. W /\ b + 0 = b /\ lo + 0 = lo
        BY <1>1, <1>3
    <2>4. Instr(b) \in Nat
        BY <1>6, <2>3
    <2> QED BY <2>2, <2>3, <2>4
<1>8. ASSUME NEW i \in 1 .. W, i - 1 \in B
      PROVE  i \in B
    <2> DEFINE j == i - 1
    <2>1. j \in 0 .. W /\ i \in 0 .. W /\ j \in Nat /\ j + 1 = i /\ j < W
        BY <1>3
    <2>2. Instr(b + j) + Rank(D, lo + j) = Instr(b) + j
        BY <1>8
    <2> HIDE DEF j
    <2>3. b + j \in Nat /\ b + j < End /\ lo + j \in Nat /\ (b + j) + 1 = b + i /\ (lo + j) + 1 = lo + i /\ b + j < c
          /\ lo + j < End
        <3>1. W = c - b
            OBVIOUS
        <3> HIDE DEF W
        <3>2. b + j < c
            BY <1>1, <1>3, <2>1, <3>1
        <3>3. (b + j) + 1 = b + i /\ (lo + j) + 1 = lo + i /\ b + j \in Nat /\ lo + j \in Nat
            BY <1>1, <2>1
        <3>4. b + j < End /\ lo + j < End
            BY <1>0, <1>1, <2>1, <3>2
        <3> QED BY <3>2, <3>3, <3>4
    <2>4. Instr((b + j) + 1) = Instr(b + j) + IF b + j \in Labels THEN 0 ELSE 1
        <3> DEFINE x == b + j
        <3>1. x \in Nat /\ x < End /\ x <= End
            BY <1>0, <2>3
        <3> HIDE DEF x
        <3>2. Instr(x + 1) = Instr(x) + IF x \in Labels THEN 0 ELSE 1
            BY <3>1, InstrIs
        <3> QED BY <3>2 DEF x
    <2>5. Rank(D, (lo + j) + 1) = Rank(D, lo + j) + IF lo + j \in D THEN 1 ELSE 0
        <3> DEFINE x == lo + j
        <3>1. x \in Nat
            BY <2>3
        <3> HIDE DEF x
        <3>2. Rank(D, x + 1) = Rank(D, x) + IF x \in D THEN 1 ELSE 0
            BY <1>5, <3>1, RankNext
        <3> QED BY <3>2 DEF x
    <2>6. lo + j \in D <=> b + j \in Labels
        <3>1. lo + j \in Words /\ b + ((lo + j) - lo) = b + j /\ lo <= lo + j
            BY <1>0, <1>1, <2>1, <2>3 DEF Words
        <3> QED BY <1>2, <2>3, <3>1
    <2>7. Instr(b + i) + Rank(D, lo + i) = Instr(b) + i
        <3>1. Instr(b + j) \in Nat /\ Rank(D, lo + j) \in Nat /\ Instr(b) \in Nat
            <4>1. 0 \in 0 .. W /\ b + 0 = b
                BY <1>1, <1>3
            <4> QED BY <1>6, <2>1, <4>1
        <3> QED BY <2>1, <2>2, <2>3, <2>4, <2>5, <2>6, <3>1
    <2> QED BY <2>1, <2>7
<1>9. W \in B
    <2> HIDE DEF B, W
    <2>1. 0 .. W \subseteq B
        BY <1>3, <1>7, <1>8, UpTo
    <2> QED BY <1>3, <2>1
<1>10. Rank(D, lo + W) = Cardinality(D)
    <2>1. {m \in D : m < lo + W} = D
        BY <1>4
    <2> QED BY <2>1 DEF Rank
<1>11. b + W = c /\ Rank(D, lo + W) \in Nat
    <2>1. W \in 0 .. W
        BY <1>3
    <2> QED BY <1>1, <1>6, <2>1
<1> QED BY <1>9, <1>10, <1>11 DEF D, b, c

\* A zone that shows as many lines of the listing as it says.
Exact(z, o) == o[z.high] - o[z.low] = IF z.collapsed THEN Work(z) ELSE z.high - z.low

\* The code counts right behind such a zone.
LEMMA AsmAfterIs ==
    ASSUME NEW I, NEW z \in ZonesWith(I), NEW o, Orderly(o), AnyOK(z, o), Exact(z, o)
    PROVE  AsmAfter(z) = Instr(o[z.high])
<1>0. End \in Nat /\ End > 0 /\ Wrap = 4 * End /\ Wrap \in Nat
    BY EndIs
<1> DEFINE a == z.low  h == z.high  b == o[z.low]  c == o[z.high]  m == Cardinality(DOMAIN z.labels)
<1>1. /\ a \in Nat /\ h \in Nat /\ a <= h /\ h <= 2 * End /\ b \in Nat /\ c \in Nat /\ c <= End /\ b <= c /\ Work(z) \in Nat
    <2>1. /\ z.low \in Nat /\ z.high \in Nat /\ z.low <= z.high /\ z.high <= 2 * End
          /\ o[z.low] \in Nat /\ o[z.high] \in Nat /\ o[z.low] <= o[z.high] /\ o[z.high] <= End /\ Work(z) \in Nat
        BY AnyBounds
    <2> QED BY <2>1
<1>2. m \in Nat /\ Instr(c) + m = Instr(b) + (c - b)
    BY CountIs
<1>3. Instr(c) \in Nat /\ Instr(c) <= c /\ Instr(b) \in Nat
    <2>1. c <= End /\ b <= End
        BY <1>0, <1>1
    <2> QED BY <1>1, <2>1, InstrIs
<1>4. z.asm = Instr(b)
    BY DEF AnyOK
<1>5. GetSize(z) = c - b
    <2>1. CASE z.collapsed
        <3>1. GetSize(z) = Work(z) /\ c - b = Work(z)
            BY <2>1 DEF GetSize, Work, Exact
        <3> QED BY <3>1
    <2>2. CASE ~z.collapsed
        <3>1. GetSize(z) = Plus(h, -a) /\ c - b = h - a
            BY <2>2 DEF GetSize, Exact
        <3> HIDE DEF a, h, b, c
        <3> DEFINE e == -a
        <3>2. e \in Int /\ h \in Int /\ -Wrap <= h + e /\ h + e < 2 * Wrap /\ 0 <= h + e /\ h + e < Wrap /\ h + e = h - a
            BY <1>0, <1>1
        <3> HIDE DEF e
        <3>3. Plus(h, e) = h + e
            BY <3>2, PlusIs
        <3> QED BY <3>1, <3>2, <3>3 DEF e
    <2> QED BY <2>1, <2>2
<1>6. AsmAfter(z) = Plus(Instr(b), (c - b) - m)
    BY <1>4, <1>5 DEF AsmAfter
<1> HIDE DEF a, h, b, c, m
<1> DEFINE x == Instr(b)  d == (c - b) - m
<1>7. x \in Int /\ d \in Int /\ x + d = Instr(c)
    BY <1>1, <1>2, <1>3
<1>8. -Wrap <= x + d /\ x + d < 2 * Wrap /\ 0 <= x + d /\ x + d < Wrap
    BY <1>0, <1>1, <1>3, <1>7
<1> HIDE DEF x, d
<1>9. Plus(x, d) = x + d
    BY <1>7, <1>8, PlusIs
<1> QED BY <1>6, <1>7, <1>9 DEF x, d, c

\* The listing runs on without a gap from a zone up to line h.
Runs(z, o, h) == \A x \in z.low .. h : o[x] = Cap(o[z.low] + (x - z.low))

LEMMA CapCap ==
    ASSUME NEW u \in Nat, NEW v \in Nat
    PROVE  Cap(Cap(u) + v) = Cap(u + v) /\ Cap(u) \in Nat /\ Cap(u) <= End /\ Cap(u) <= u
    BY EndIs DEF Cap

LEMMA ExactRun ==
    ASSUME NEW I, NEW z \in ZonesWith(I), NEW o, Orderly(o), AnyOK(z, o), NEW h \in Nat, z.low <= h, h <= Wrap,
           Runs(z, o, h), h = 0 \/ o[h - 1] < End
    PROVE  o[h] = o[z.low] + (h - z.low)
<1> DEFINE a == z.low  b == o[z.low]
<1>0. End \in Nat /\ End > 0
    BY EndIs
<1>1. a \in Nat /\ b \in Nat /\ b <= End
    <2>1. z.low \in Nat /\ z.high \in Nat /\ o[z.low] \in Nat /\ o[z.high] \in Nat /\ o[z.low] <= o[z.high] /\ o[z.high] <= End
        BY AnyBounds
    <2> QED BY <1>0, <2>1
<1>2. \A x \in a .. h : o[x] = Cap(b + (x - a))
    BY DEF Runs
<1> HIDE DEF b
<1>3. CASE a = h
    <2>1. o[h] = b
        BY <1>3 DEF b
    <2> QED BY <1>1, <1>3, <2>1 DEF b
<1>4. CASE a # h
    <2> HIDE DEF a
    <2>1. a <= h /\ a < h
        BY <1>1, <1>4 DEF a
    <2>2. h - 1 \in a .. h /\ h \in a .. h /\ h # 0
        BY <1>1, <2>1
    <2>3. o[h - 1] = Cap(b + (h - 1 - a)) /\ o[h] = Cap(b + (h - a)) /\ o[h - 1] < End
        BY <1>2, <2>2
    <2>4. b + (h - 1 - a) < End
        BY <1>0, <1>1, <2>1, <2>3 DEF Cap
    <2>5. b + (h - a) <= End
        BY <1>0, <1>1, <2>1, <2>4
    <2> QED BY <1>0, <1>1, <2>1, <2>3, <2>5 DEF Cap, a, b
<1> QED BY <1>3, <1>4

\* With nothing folded inside, a zone with zones inside runs on.
LEMMA ParentRuns ==
    ASSUME NEW z \in ZoneType, NEW o, Orderly(o), NEW n, AnyOK(z, o), Parent(z, o, n),
           \A j \in 1 .. Len(z.inner) : ~z.inner[j].collapsed
    PROVE  Runs(z, o, z.high)
<1> DEFINE ys == z.inner  a == z.low  b == o[z.low]
           B == {j \in 0 .. Len(ys) : j = 0 \/ \A x \in a .. ys[j].high : o[x] = Cap(b + (x - a))}
<1>0. End \in Nat /\ End > 0
    BY EndIs
<1>1. a \in Nat /\ b \in Nat /\ b <= End /\ Len(ys) \in Nat /\ Len(ys) # 0
    <2>1. z.low \in Nat /\ z.high \in Nat /\ o[z.low] \in Nat /\ o[z.high] \in Nat /\ o[z.low] <= o[z.high] /\ o[z.high] <= End
        BY AnyBounds DEF ZoneType
    <2>2. ys \in Seq(LeafType) /\ ys # <<>>
        BY InnerBounds DEF Parent
    <2> QED BY <1>0, <2>1, <2>2
<1>2. /\ Chain(ys, a, z.high)
      /\ \A j \in 1 .. Len(ys) : /\ Straight(ys[j], o) /\ ys[j].low \in Nat /\ ys[j].high \in Nat
                                 /\ ys[j].low <= ys[j].high /\ a <= ys[j].low
    <2>1. \A j \in 1 .. Len(ys) : ys[j] \in ZoneType /\ AnyOK(ys[j], o) /\ Leaf(ys[j], o, n) /\ z.low <= ys[j].low
        BY InnerBounds
    <2> SUFFICES ASSUME NEW j \in 1 .. Len(ys)
                 PROVE  /\ Straight(ys[j], o) /\ ys[j].low \in Nat /\ ys[j].high \in Nat
                        /\ ys[j].low <= ys[j].high /\ a <= ys[j].low
        BY DEF Parent
    <2>2. Straight(ys[j], o)
        BY <2>1 DEF Leaf, Spread
    <2>3. ys[j].low \in Nat /\ ys[j].high \in Nat
        BY <2>1, ZoneFields DEF ZoneType
    <2>4. ys[j].low <= ys[j].high
        BY <2>1 DEF AnyOK
    <2> QED BY <2>1, <2>2, <2>3, <2>4
<1>3. \A j \in 1 .. Len(ys) : j - 1 \in 1 .. Len(ys) => ys[j - 1].high = ys[j].low
    <2> SUFFICES ASSUME NEW j \in 1 .. Len(ys), j - 1 \in 1 .. Len(ys)
                 PROVE  ys[j - 1].high = ys[j].low
        OBVIOUS
    <2> DEFINE i == j - 1
    <2>1. i \in 1 .. Len(ys) - 1 /\ i + 1 = j
        BY <1>1
    <2> HIDE DEF i
    <2>2. ys[i].high = ys[i + 1].low
        BY <1>2, <2>1 DEF Chain
    <2> QED BY <2>1, <2>2 DEF i
<1>4. ys[1].low = a /\ ys[Len(ys)].high = z.high
    BY <1>2 DEF Chain
<1> HIDE DEF ys, b
<1>5. 0 \in B
    BY <1>1
<1>6. ASSUME NEW j \in 1 .. Len(ys), j - 1 \in B
      PROVE  j \in B
    <2> DEFINE l == ys[j].low
    <2>1. l \in Nat /\ a <= l /\ o[l] = Cap(b + (l - a)) /\ \A x \in a .. l : o[x] = Cap(b + (x - a))
        <3>1. CASE j = 1
            <4>1. l = a
                BY <1>4, <3>1
            <4>2. o[a] = b
                BY DEF b
            <4>3. b = Cap(b + (a - a)) /\ \A x \in a .. a : x = a
                BY <1>0, <1>1 DEF Cap
            <4> QED BY <1>1, <4>1, <4>2, <4>3
        <3>2. CASE j # 1
            <4> DEFINE i == j - 1
            <4>1. i \in 1 .. Len(ys) /\ i # 0
                BY <1>1, <3>2
            <4>2. ys[i].high = l
                BY <1>3, <4>1
            <4> HIDE DEF i
            <4>3. i \in B
                BY <1>6 DEF i
            <4>4. \A x \in a .. ys[i].high : o[x] = Cap(b + (x - a))
                BY <4>1, <4>3
            <4>5. l \in Nat /\ a <= l
                BY <1>2
            <4> HIDE DEF l
            <4>6. l \in a .. ys[i].high
                BY <1>1, <4>2, <4>5
            <4> QED BY <4>2, <4>4, <4>5, <4>6
        <3> QED BY <3>1, <3>2
    <2>2. ASSUME NEW x \in a .. ys[j].high
          PROVE  o[x] = Cap(b + (x - a))
        <3>1. CASE x <= l
            <4> HIDE DEF l
            <4>1. x \in a .. l
                BY <1>1, <2>1, <3>1
            <4> QED BY <2>1, <4>1
        <3>2. CASE ~(x <= l)
            <4>1. Straight(ys[j], o) /\ ys[j].high \in Nat
                BY <1>2
            <4>2. x \in l .. ys[j].high
                BY <1>1, <2>1, <3>2, <4>1
            <4>3. o[x] = Cap(o[l] + (x - l))
                BY <4>1, <4>2 DEF Straight
            <4> HIDE DEF l
            <4> DEFINE u == b + (l - a)  v == x - l
            <4>4. u \in Nat /\ v \in Nat /\ u + v = b + (x - a)
                BY <1>1, <2>1, <3>2, <4>1, SMTT(60)
            <4>5. o[x] = Cap(Cap(u) + v)
                BY <2>1, <4>3
            <4> HIDE DEF u, v
            <4> QED BY <4>4, <4>5, CapCap
        <3> QED BY <3>1, <3>2
    <2> QED BY <1>1, <2>2
<1>7. Len(ys) \in B
    <2> HIDE DEF B
    <2>1. 0 .. Len(ys) \subseteq B
        BY <1>1, <1>5, <1>6, UpTo
    <2> QED BY <1>1, <2>1
<1>8. \A x \in a .. z.high : o[x] = Cap(b + (x - a))
    BY <1>1, <1>4, <1>7
<1> QED BY <1>8 DEF Runs, b

\* A zone ends where it says, when the next begins in the listing.
LEMMA SoundExact ==
    ASSUME NEW z \in ZoneType, NEW o, Orderly(o), NEW n, Sound(z, o, n), z.high = 0 \/ o[z.high - 1] < End,
           \A j \in 1 .. Len(z.inner) : ~z.inner[j].collapsed
    PROVE  Exact(z, o) /\ AsmAfter(z) = Instr(o[z.high])
<1>1. AnyOK(z, o) /\ z \in ZonesWith(Seq(LeafType))
    BY DEF Sound, ZoneType
<1>2. z.low \in Nat /\ z.high \in Nat /\ z.low <= z.high /\ z.high <= Wrap /\ o[z.low] \in Nat /\ o[z.high] \in Nat
    <2>1. /\ z.low \in Nat /\ z.high \in Nat /\ z.low <= z.high /\ z.high <= 2 * End
          /\ o[z.low] \in Nat /\ o[z.high] \in Nat
        BY <1>1, AnyBounds
    <2> QED BY <2>1, EndIs
<1>3. CASE z.collapsed
    <2>1. Leaf(z, o, n)
        BY <1>3 DEF Sound, Parent
    <2>2. o[z.high] = o[z.low] + Work(z) /\ Work(z) \in Nat
        BY <1>1, <1>3, <2>1, AnyBounds DEF Leaf, Spread
    <2>3. o[z.high] - o[z.low] = Work(z)
        BY <1>2, <2>2
    <2>4. Exact(z, o)
        BY <1>3, <2>3 DEF Exact
    <2> QED BY <1>1, <2>4, AsmAfterIs
<1>4. CASE ~z.collapsed
    <2>1. Runs(z, o, z.high)
        <3>1. CASE Leaf(z, o, n)
            BY <1>4, <3>1 DEF Leaf, Spread, Straight, Runs
        <3>2. CASE Parent(z, o, n)
            BY <1>1, <3>2, ParentRuns
        <3> QED BY <3>1, <3>2 DEF Sound
    <2>2. o[z.high] = o[z.low] + (z.high - z.low)
        BY <1>1, <1>2, <2>1, ExactRun
    <2>3. o[z.high] - o[z.low] = z.high - z.low
        BY <1>2, <2>2
    <2>4. Exact(z, o)
        BY <1>4, <2>3 DEF Exact
    <2> QED BY <1>1, <2>4, AsmAfterIs
<1> QED BY <1>3, <1>4

-----------------------------------------------------------------------------
(* Pieces of a zone.                                                       *)

\* f is what g has from a up to b, or up to its own ends.
CutOf(f, g, a, b, first, last) ==
    /\ \A k \in DOMAIN f : k \in DOMAIN g /\ f[k] = g[k] /\ (a <= k \/ first) /\ (k < b \/ last)
    /\ \A k \in DOMAIN g : a <= k /\ k < b => k \in DOMAIN f

\* A part of zone z, by its lines, and with what z holds for them.
Placed(y, z, o) ==
    /\ z.low <= y.low /\ y.low <= y.high /\ y.high <= End
    /\ y.workLow = y.low /\ y.workHigh = y.high /\ ~y.collapsed /\ y.inner = <<>>
    /\ Runs(z, o, y.high) /\ o[y.low] = o[z.low] + (y.low - z.low) /\ o[y.high] <= o[z.high]
    /\ y.low = 0 \/ o[y.low - 1] < End
    /\ y.asm = Instr(o[y.low])
    /\ y.named => y.low < y.high /\ o[y.high - 1] < End
PieceOf(y, z, o) ==
    /\ Placed(y, z, o)
    /\ CutOf(y.labels, z.labels, y.low, y.high, y.low = z.low, o[y.high] = o[z.high])
    /\ CutOf(y.comments, z.comments, y.low - 1, y.high - 1, y.low = z.low, o[y.high] = o[z.high])

LEMMA PieceBounds ==
    ASSUME NEW J, NEW y \in ZonesWith(J), NEW I, NEW z \in ZonesWith(I), NEW o, Orderly(o), AnyOK(z, o), Placed(y, z, o)
    PROVE  /\ y.low \in Nat /\ y.high \in Nat /\ z.low \in Nat /\ o[z.low] \in Nat /\ o[z.high] \in Nat
           /\ y.low \in 0 .. Wrap /\ y.high \in 0 .. Wrap /\ z.low <= o[z.low] /\ o[z.low] <= End
           /\ z.low <= y.low /\ y.low <= y.high /\ y.high <= End
           /\ o[y.low] \in Nat /\ o[y.high] \in Nat /\ o[y.high] <= End
           /\ o[y.low] = o[z.low] + (y.low - z.low) /\ o[y.high] = Cap(o[z.low] + (y.high - z.low))
           /\ z.low = 0 => o[z.low] = 0
<1>0. End \in Nat /\ End > 0 /\ Wrap = 4 * End /\ Wrap \in Nat
    BY EndIs
<1>1. y.low \in Nat /\ y.high \in Nat
    BY ZoneFields
<1>2. /\ z.low \in Nat /\ o[z.low] \in Nat /\ o[z.high] \in Nat /\ o[z.low] <= o[z.high] /\ o[z.high] <= End
      /\ z.low <= o[z.low]
    BY AnyBounds
<1>3. /\ z.low <= y.low /\ y.low <= y.high /\ y.high <= End /\ o[y.low] = o[z.low] + (y.low - z.low)
      /\ \A x \in z.low .. y.high : o[x] = Cap(o[z.low] + (x - z.low))
    BY DEF Placed, Runs
<1> DEFINE a == y.low  h == y.high  lo == z.low
<1>4. a \in 0 .. Wrap /\ h \in 0 .. Wrap /\ h \in lo .. h
    BY <1>0, <1>1, <1>2, <1>3
<1>5. o[a] \in Nat /\ o[h] \in Nat /\ o[h] <= End /\ o[0] = 0
    <2> HIDE DEF a, h
    <2> QED BY <1>4, OriginIs, <1>0
<1>6. o[h] = Cap(o[lo] + (h - lo))
    BY <1>3, <1>4
<1>7. o[lo] <= End
    BY <1>0, <1>2
<1> QED BY <1>1, <1>2, <1>3, <1>4, <1>5, <1>6, <1>7

\* It keeps the labels and the comments of its lines.
LEMMA PieceLabels ==
    ASSUME NEW J, NEW y \in ZonesWith(J), NEW I, NEW z \in ZonesWith(I), NEW o, Orderly(o), AnyOK(z, o), PieceOf(y, z, o)
    PROVE  Labelled(y, o)
<1> DEFINE a == y.low  h == y.high  lo == z.low  b == o[z.low]  q == o[y.high]  c == o[z.high]
<1>0. End \in Nat /\ End > 0 /\ Wrap = 4 * End /\ Wrap \in Nat /\ Labels \subseteq 0 .. End - 1
    BY EndIs
<1>1. /\ a \in Nat /\ h \in Nat /\ lo \in Nat /\ b \in Nat /\ c \in Nat /\ lo <= a /\ a <= h /\ q \in Nat
      /\ q = Cap(b + (h - lo)) /\ o[a] = b + (a - lo)
    BY PieceBounds DEF PieceOf
<1>2. q <= c
    BY DEF PieceOf, Placed
<1>3. \A k \in Words : /\ k \in DOMAIN z.labels <=> lo <= k /\ b + (k - lo) \in Labels /\ b + (k - lo) < c
                       /\ k \in DOMAIN z.labels => z.labels[k] = b + (k - lo)
    BY DEF AnyOK, Labelled
<1>4. CutOf(y.labels, z.labels, a, h, a = lo, q = c)
    BY DEF PieceOf
<1> DEFINE f == y.labels  g == z.labels
<1>5. /\ \A k \in DOMAIN f : k \in DOMAIN g /\ f[k] = g[k] /\ (a <= k \/ a = lo) /\ (k < h \/ q = c)
      /\ \A k \in DOMAIN g : a <= k /\ k < h => k \in DOMAIN f
    BY <1>4 DEF CutOf
<1> HIDE DEF a, h, lo, b, q, c, f, g
<1>6. ASSUME NEW k \in Words
      PROVE  /\ k \in DOMAIN f <=> a <= k /\ o[a] + (k - a) \in Labels /\ o[a] + (k - a) < q
             /\ k \in DOMAIN f => f[k] = o[a] + (k - a)
    <2>1. k \in Nat /\ o[a] + (k - a) = b + (k - lo)
        BY <1>0, <1>1 DEF Words
    <2> DEFINE x == b + (k - lo)
    <2>2. k \in DOMAIN g <=> lo <= k /\ x \in Labels /\ x < c
        BY <1>3 DEF g
    <2>3. k \in DOMAIN g => g[k] = x
        BY <1>3 DEF g
    <2>4. x \in Int /\ (x \in Labels => x < End) /\ x + (h - k) = b + (h - lo)
        BY <1>0, <1>1, <2>1
    <2> HIDE DEF x
    <2>5. k \in DOMAIN f => a <= k /\ x \in Labels /\ x < q
        <3> SUFFICES ASSUME k \in DOMAIN f
                     PROVE  a <= k /\ x \in Labels /\ x < q
            OBVIOUS
        <3>1. k \in DOMAIN g /\ (a <= k \/ a = lo) /\ (k < h \/ q = c)
            BY <1>5
        <3>2. lo <= k /\ x \in Labels /\ x < c /\ x < End
            BY <2>2, <2>4, <3>1
        <3>3. k < h => x < q
            BY <1>0, <1>1, <2>1, <2>4, <3>2 DEF Cap
        <3> QED BY <3>1, <3>2, <3>3
    <2>6. a <= k /\ x \in Labels /\ x < q => k \in DOMAIN f
        <3> SUFFICES ASSUME a <= k, x \in Labels, x < q
                     PROVE  k \in DOMAIN f
            OBVIOUS
        <3>1. x < c /\ lo <= k
            BY <1>1, <1>2, <2>1, <2>4
        <3>2. k < h
            BY <1>0, <1>1, <2>1, <2>4 DEF Cap
        <3> QED BY <1>5, <2>2, <3>1, <3>2
    <2>7. k \in DOMAIN f => f[k] = x
        BY <1>5, <2>3
    <2> QED BY <2>1, <2>5, <2>6, <2>7 DEF x
<1> QED BY <1>6 DEF Labelled, a, q, f

LEMMA PlaceIs ==
    ASSUME NEW l \in 1 .. End - 1, NEW D \in Int, -End <= D, D <= 0
    PROVE  /\ 0 <= (l - 1) + D => Plus(l - 1, D) = (l - 1) + D
           /\ (l - 1) + D < 0 => Plus(l - 1, D) = (l - 1) + D + Wrap
           /\ Plus(l - 1, D) \in Words
<1>0. End \in Nat /\ End > 0 /\ Wrap = 4 * End /\ Wrap \in Nat
    BY EndIs
<1> DEFINE x == l - 1
<1>1. x \in Int /\ D \in Int /\ -Wrap <= x + D /\ x + D < 2 * Wrap /\ x + D < Wrap
    BY <1>0
<1> HIDE DEF x
<1>2. /\ Plus(x, D) \in Words
      /\ x + D < 0 => Plus(x, D) = x + D + Wrap
      /\ 0 <= x + D /\ x + D < Wrap => Plus(x, D) = x + D
    BY <1>1, PlusIs
<1> QED BY <1>1, <1>2 DEF x

LEMMA PieceNotes ==
    ASSUME NEW J, NEW y \in ZonesWith(J), NEW I, NEW z \in ZonesWith(I), NEW o, Orderly(o), AnyOK(z, o), PieceOf(y, z, o),
           NEW n, Noted(z, o, n)
    PROVE  Noted(y, o, n)
<1> DEFINE a == y.low  h == y.high  lo == z.low  b == o[z.low]  q == o[y.high]  c == o[z.high]  D == lo - b
<1>0. End \in Nat /\ End > 0 /\ Wrap = 4 * End /\ Wrap \in Nat
    BY EndIs
<1>1. /\ a \in Nat /\ h \in Nat /\ lo \in Nat /\ b \in Nat /\ c \in Nat /\ lo <= a /\ a <= h /\ q \in Nat
      /\ q = Cap(b + (h - lo)) /\ o[a] = b + (a - lo) /\ lo <= b /\ b <= End /\ (lo = 0 => b = 0) /\ q <= End
    BY PieceBounds DEF PieceOf
<1>2. q <= c
    BY DEF PieceOf, Placed
<1> DEFINE f == y.comments  g == z.comments
<1>3. \A l \in 1 .. End - 1 : /\ Place(z, o, l) \in DOMAIN g <=> b <= l /\ l < c /\ l \in DOMAIN n
                              /\ Place(z, o, l) \in DOMAIN g => g[Place(z, o, l)] = n[l]
    BY DEF Noted
<1>4. CutOf(f, g, a - 1, h - 1, a = lo, q = c)
    BY DEF PieceOf
<1>5. /\ \A k \in DOMAIN f : k \in DOMAIN g /\ f[k] = g[k] /\ (a - 1 <= k \/ a = lo) /\ (k < h - 1 \/ q = c)
      /\ \A k \in DOMAIN g : a - 1 <= k /\ k < h - 1 => k \in DOMAIN f
    BY <1>4 DEF CutOf
<1>6. \A l : Place(z, o, l) = Plus(l - 1, D) /\ Place(y, o, l) = Plus(l - 1, a - o[a])
    BY DEF Place
<1> HIDE DEF a, h, lo, b, q, c, f, g
<1>7. a - o[a] = D /\ D \in Int /\ -End <= D /\ D <= 0
    BY <1>0, <1>1
<1>8. ASSUME NEW l \in 1 .. End - 1
      PROVE  /\ Plus(l - 1, D) \in DOMAIN f <=> o[a] <= l /\ l < q /\ l \in DOMAIN n
             /\ Plus(l - 1, D) \in DOMAIN f => f[Plus(l - 1, D)] = n[l]
    <2> DEFINE p == Plus(l - 1, D)
    <2>1. l \in Nat /\ 1 <= l /\ l < End
        BY <1>0
    <2>2. /\ 0 <= (l - 1) + D => p = (l - 1) + D
        <3> HIDE DEF D
        <3> QED BY <1>7, PlaceIs
    <2>3. /\ p \in DOMAIN g <=> b <= l /\ l < c /\ l \in DOMAIN n
          /\ p \in DOMAIN g => g[p] = n[l]
        BY <1>3, <1>6
    <2>4. /\ p \in DOMAIN f => p \in DOMAIN g /\ f[p] = g[p] /\ (a - 1 <= p \/ a = lo) /\ (p < h - 1 \/ q = c)
          /\ p \in DOMAIN g /\ a - 1 <= p /\ p < h - 1 => p \in DOMAIN f
        BY <1>5
    <2>5. b <= l => p = (l - 1) + D /\ p \in Int
        <3> SUFFICES ASSUME b <= l
                     PROVE  p = (l - 1) + D /\ p \in Int
            OBVIOUS
        <3>1. 0 <= (l - 1) + D
            <4>1. CASE lo = 0
                BY <1>1, <2>1, <4>1
            <4>2. CASE lo # 0
                BY <1>1, <2>1, <4>2
            <4> QED BY <4>1, <4>2
        <3>2. (l - 1) + D \in Int
            BY <1>7, <2>1
        <3> QED BY <2>2, <3>1, <3>2
    <2> HIDE DEF p
    <2>6. p \in DOMAIN f => o[a] <= l /\ l < q /\ l \in DOMAIN n
        <3> SUFFICES ASSUME p \in DOMAIN f
                     PROVE  o[a] <= l /\ l < q /\ l \in DOMAIN n
            OBVIOUS
        <3>1. b <= l /\ l < c /\ l \in DOMAIN n /\ (a - 1 <= p \/ a = lo) /\ (p < h - 1 \/ q = c)
            BY <2>3, <2>4
        <3>2. p = (l - 1) + (lo - b)
            BY <2>5, <3>1
        <3>3. a - 1 <= p => o[a] <= l
            BY <1>1, <2>1, <3>2
        <3>4. a = lo => o[a] <= l
            BY <1>1, <2>1, <3>1
        <3>5. p < h - 1 => l < q
            <4>1. p < h - 1 => l < b + (h - lo)
                BY <1>1, <2>1, <3>2
            <4> QED BY <1>1, <2>1, <4>1 DEF Cap
        <3> QED BY <3>1, <3>3, <3>4, <3>5
    <2>7. o[a] <= l /\ l < q /\ l \in DOMAIN n => p \in DOMAIN f
        <3> SUFFICES ASSUME o[a] <= l, l < q, l \in DOMAIN n
                     PROVE  p \in DOMAIN f
            OBVIOUS
        <3>1. b <= l /\ l < c
            BY <1>1, <1>2, <2>1
        <3>2. p = (l - 1) + (lo - b)
            BY <2>5, <3>1
        <3>3. a - 1 <= p
            BY <1>1, <2>1, <3>2
        <3>4. p < h - 1
            <4>1. l < b + (h - lo)
                BY <1>0, <1>1, <2>1 DEF Cap
            <4> QED BY <1>1, <2>1, <3>2, <4>1
        <3> QED BY <2>3, <2>4, <3>1, <3>3, <3>4
    <2> QED BY <2>3, <2>4, <2>6, <2>7 DEF p
<1> HIDE DEF D
<1>9. \A l : Place(y, o, l) = Plus(l - 1, D)
    BY <1>6, <1>7
<1> QED BY <1>8, <1>9 DEF Noted, a, q, f

\* A piece of a zone is a zone like it.
LEMMA PieceIs ==
    ASSUME NEW J, NEW y \in ZonesWith(J), NEW I, NEW z \in ZonesWith(I), NEW o, Orderly(o), AnyOK(z, o), PieceOf(y, z, o),
           NEW n, Noted(z, o, n)
    PROVE  AnyOK(y, o) /\ Leaf(y, o, n)
<1>0. End \in Nat /\ End > 0
    BY EndIs
<1>1. Placed(y, z, o)
    BY DEF PieceOf
<1>2. Labelled(y, o) /\ Noted(y, o, n)
    BY PieceLabels, PieceNotes
<1>3. /\ y.low \in Nat /\ y.high \in Nat /\ z.low \in Nat /\ o[z.low] \in Nat
      /\ z.low <= y.low /\ y.low <= y.high /\ y.high <= End /\ o[y.low] = o[z.low] + (y.low - z.low)
    BY <1>1, PieceBounds
<1>4. AnyOK(y, o)
    <2>1. y.high <= 2 * End
        BY <1>0, <1>3
    <2> QED BY <1>1, <1>2, <1>3, <2>1 DEF AnyOK, Placed
<1>5. Straight(y, o)
    <2> SUFFICES ASSUME NEW x \in y.low .. y.high
                 PROVE  o[x] = Cap(o[y.low] + (x - y.low))
        BY DEF Straight
    <2>1. x \in z.low .. y.high /\ o[y.low] + (x - y.low) = o[z.low] + (x - z.low)
        BY <1>3
    <2> QED BY <1>1, <2>1 DEF Placed, Runs
<1>6. Spread(y, o)
    BY <1>1, <1>5 DEF Spread, Placed, Work
<1> QED BY <1>1, <1>2, <1>4, <1>6 DEF Leaf, Placed

-----------------------------------------------------------------------------
(* Zones put in the place of others.                                       *)

\* The zones of new instead of those from a to b.
Pasted(zs, a, b, new) == SubSeq(zs, 1, a - 1) \o new \o SubSeq(zs, b + 1, Len(zs))

IsPasted(l, zs, a, b, new, X) ==
    /\ l \in Seq(X)
    /\ Len(l) = (a - 1) + Len(new) + (Len(zs) - b)
    /\ \A x \in 1 .. a - 1 : l[x] = zs[x]
    /\ \A x \in 1 .. Len(new) : l[a - 1 + x] = new[x]
    /\ \A x \in b + 1 .. Len(zs) : l[(a - 1) + Len(new) + (x - b)] = zs[x]

LEMMA PastedIs ==
    ASSUME NEW X, NEW zs \in Seq(X), NEW new \in Seq(X), NEW a \in 1 .. Len(zs) + 1, NEW b \in a - 1 .. Len(zs)
    PROVE  IsPasted(Pasted(zs, a, b, new), zs, a, b, new, X)
<1> DEFINE A == SubSeq(zs, 1, a - 1)  B == SubSeq(zs, b + 1, Len(zs))  AN == A \o new
<1>0. Len(zs) \in Nat /\ Len(new) \in Nat /\ a \in Nat /\ b \in Nat /\ a - 1 <= Len(zs) /\ b <= Len(zs) /\ 1 <= a
    OBVIOUS
<1>1. A \in Seq(X) /\ Len(A) = a - 1 /\ \A x \in 1 .. a - 1 : A[x] = zs[x]
    <2>1. \A x \in 1 .. a - 1 : zs[x] \in X
        BY <1>0
    <2> DEFINE e == a - 1
    <2>2. e \in Int /\ 1 \in Int
        BY <1>0
    <2> HIDE DEF e
    <2>3. /\ SubSeq(zs, 1, e) \in Seq(X) /\ Len(SubSeq(zs, 1, e)) = (IF 1 <= e THEN e - 1 + 1 ELSE 0)
          /\ \A x \in 1 .. e - 1 + 1 : SubSeq(zs, 1, e)[x] = zs[1 + x - 1]
        BY <2>1, <2>2, SubSeqProperties DEF e
    <2>4. (IF 1 <= e THEN e - 1 + 1 ELSE 0) = e /\ \A x \in 1 .. e : x \in 1 .. e - 1 + 1 /\ 1 + x - 1 = x
        BY <1>0 DEF e
    <2>5. \A x \in 1 .. e : SubSeq(zs, 1, e)[x] = zs[x]
        BY <2>3, <2>4
    <2> QED BY <2>3, <2>4, <2>5 DEF e
<1>2. B \in Seq(X) /\ Len(B) = Len(zs) - b /\ \A x \in 1 .. Len(zs) - b : B[x] = zs[b + x]
    <2> DEFINE l == Len(zs)  c == b + 1
    <2>1. \A x \in c .. l : zs[x] \in X
        BY <1>0
    <2>2. c \in Int /\ l \in Int
        BY <1>0
    <2> HIDE DEF c, l
    <2>3. /\ SubSeq(zs, c, l) \in Seq(X) /\ Len(SubSeq(zs, c, l)) = (IF c <= l THEN l - c + 1 ELSE 0)
          /\ \A x \in 1 .. l - c + 1 : SubSeq(zs, c, l)[x] = zs[c + x - 1]
        BY <2>1, <2>2, SubSeqProperties
    <2>4. (IF c <= l THEN l - c + 1 ELSE 0) = l - b /\ \A x \in 1 .. l - b : x \in 1 .. l - c + 1 /\ c + x - 1 = b + x
        BY <1>0 DEF c, l
    <2>5. \A x \in 1 .. l - b : SubSeq(zs, c, l)[x] = zs[b + x]
        BY <2>3, <2>4
    <2> QED BY <2>3, <2>4, <2>5 DEF c, l
<1> HIDE DEF A, B
<1>3. /\ AN \in Seq(X) /\ Len(AN) = a - 1 + Len(new)
      /\ \A x \in 1 .. a - 1 + Len(new) : AN[x] = IF x <= a - 1 THEN A[x] ELSE new[x - (a - 1)]
    <2>1. A \in Seq(X) /\ new \in Seq(X)
        BY <1>1
    <2>2. /\ A \o new \in Seq(X) /\ Len(A \o new) = Len(A) + Len(new)
          /\ \A x \in 1 .. Len(A) + Len(new) : (A \o new)[x] = IF x <= Len(A) THEN A[x] ELSE new[x - Len(A)]
        BY <2>1, ConcatProperties
    <2>3. AN = A \o new
        OBVIOUS
    <2> HIDE DEF AN
    <2> QED BY <1>1, <2>2, <2>3
<1> HIDE DEF AN
<1>4. /\ AN \o B \in Seq(X) /\ Len(AN \o B) = Len(AN) + Len(B)
      /\ \A x \in 1 .. Len(AN) + Len(B) : (AN \o B)[x] = IF x <= Len(AN) THEN AN[x] ELSE B[x - Len(AN)]
    BY <1>2, <1>3, ConcatProperties
<1> DEFINE P == AN \o B
<1>5. P = Pasted(zs, a, b, new)
    BY DEF Pasted, A, B, AN
<1> HIDE DEF P
<1> DEFINE m == Len(new)  l == Len(zs)
<1>6. /\ P \in Seq(X) /\ Len(P) = a - 1 + m + (l - b)
      /\ \A x \in 1 .. a - 1 + m + (l - b) : P[x] = IF x <= a - 1 + m THEN AN[x] ELSE B[x - (a - 1 + m)]
    BY <1>2, <1>3, <1>4 DEF P
<1>7. m \in Nat /\ l \in Nat
    BY <1>0
<1> HIDE DEF m, l
<1>8. ASSUME NEW x \in 1 .. a - 1
      PROVE  P[x] = zs[x]
    <2>1. x \in 1 .. a - 1 + m + (l - b) /\ x <= a - 1 + m /\ x \in 1 .. a - 1 + m /\ x <= a - 1
        BY <1>0, <1>7 DEF l
    <2> QED BY <1>1, <1>3, <1>6, <2>1 DEF m
<1>9. ASSUME NEW x \in 1 .. m
      PROVE  P[a - 1 + x] = new[x]
    <2> DEFINE w == a - 1 + x
    <2>1. w \in 1 .. a - 1 + m + (l - b) /\ w <= a - 1 + m /\ w \in 1 .. a - 1 + m /\ ~(w <= a - 1) /\ w - (a - 1) = x
        BY <1>0, <1>7 DEF l
    <2> HIDE DEF w
    <2>2. P[w] = AN[w] /\ AN[w] = new[w - (a - 1)]
        BY <1>3, <1>6, <2>1 DEF m
    <2> QED BY <2>1, <2>2 DEF w
<1>10. ASSUME NEW x \in b + 1 .. l
       PROVE  P[a - 1 + m + (x - b)] = zs[x]
    <2> DEFINE w == a - 1 + m + (x - b)  v == x - b
    <2>1. w \in 1 .. a - 1 + m + (l - b) /\ ~(w <= a - 1 + m) /\ w - (a - 1 + m) = v /\ v \in 1 .. l - b /\ b + v = x
        BY <1>0, <1>7 DEF l
    <2> HIDE DEF w, v
    <2>2. P[w] = B[v] /\ B[v] = zs[b + v]
        <3>1. P[w] = B[w - (a - 1 + m)]
            BY <1>6, <2>1
        <3> QED BY <1>2, <2>1, <3>1 DEF l
    <2> QED BY <2>1, <2>2 DEF w
<1> QED BY <1>5, <1>6, <1>8, <1>9, <1>10 DEF m, l, IsPasted

\* Where each zone of the new list comes from.
LEMMA PastedFrom ==
    ASSUME NEW X, NEW zs \in Seq(X), NEW new \in Seq(X), NEW a \in 1 .. Len(zs) + 1, NEW b \in a - 1 .. Len(zs),
           NEW x \in 1 .. Len(Pasted(zs, a, b, new))
    PROVE  \/ x \in 1 .. a - 1 /\ Pasted(zs, a, b, new)[x] = zs[x]
           \/ \E j \in 1 .. Len(new) : x = a - 1 + j /\ Pasted(zs, a, b, new)[x] = new[j]
           \/ \E i \in b + 1 .. Len(zs) : x = (a - 1) + Len(new) + (i - b) /\ Pasted(zs, a, b, new)[x] = zs[i]
<1> DEFINE P == Pasted(zs, a, b, new)  m == Len(new)  l == Len(zs)
<1>1. /\ Len(P) = (a - 1) + m + (l - b)
      /\ \A k \in 1 .. a - 1 : P[k] = zs[k]
      /\ \A k \in 1 .. m : P[a - 1 + k] = new[k]
      /\ \A k \in b + 1 .. l : P[(a - 1) + m + (k - b)] = zs[k]
    <2>1. zs \in Seq(X) /\ new \in Seq(X) /\ a \in 1 .. Len(zs) + 1 /\ b \in a - 1 .. Len(zs)
        OBVIOUS
    <2>2. IsPasted(Pasted(zs, a, b, new), zs, a, b, new, X)
        BY <2>1, PastedIs
    <2> QED BY <2>2 DEF IsPasted
<1>2. l \in Nat /\ m \in Nat /\ a \in Nat /\ b \in Nat /\ 1 <= a /\ b <= l
    OBVIOUS
<1> HIDE DEF P, m, l
<1>3. x \in Nat /\ 1 <= x /\ x <= (a - 1) + m + (l - b)
    BY <1>1, <1>2 DEF P
<1>4. CASE x <= a - 1
    <2>1. x \in 1 .. a - 1
        BY <1>2, <1>3, <1>4
    <2> QED BY <1>1, <2>1 DEF P
<1>5. CASE a - 1 < x /\ x <= a - 1 + m
    <2> DEFINE j == x - (a - 1)
    <2>1. j \in 1 .. m /\ x = a - 1 + j
        BY <1>2, <1>3, <1>5
    <2> HIDE DEF j
    <2>2. P[a - 1 + j] = new[j]
        BY <1>1, <2>1
    <2> QED BY <2>1, <2>2 DEF P, m
<1>6. CASE a - 1 + m < x
    <2> DEFINE i == x - (a - 1) - m + b
    <2>1. i \in b + 1 .. l /\ x = (a - 1) + m + (i - b)
        BY <1>2, <1>3, <1>6
    <2> HIDE DEF i
    <2>2. P[(a - 1) + m + (i - b)] = zs[i]
        BY <1>1, <2>1
    <2> QED BY <2>1, <2>2 DEF P, m, l
<1> QED BY <1>2, <1>3, <1>4, <1>5, <1>6

\* Sound zones that fill the place of the zones from a to b.
Fitting(zs, a, b, new, o, n) ==
    /\ a \in 1 .. Len(zs) /\ b \in a .. Len(zs) /\ new \in Seq(ZoneType) /\ new # <<>>
    /\ Chain(new, zs[a].low, new[Len(new)].high)
    /\ b < Len(zs) => new[Len(new)].high = zs[b].high
    /\ b = Len(zs) => o[new[Len(new)].high] = End
    /\ \A j \in 1 .. Len(new) : Sound(new[j], o, n)

\* Pasting them keeps the listing.
LEMMA PastedLaid ==
    ASSUME NEW zs \in Seq(ZoneType), NEW o, NEW n, Laid(zs, o, n), NEW a, NEW b, NEW new, Fitting(zs, a, b, new, o, n)
    PROVE  Pasted(zs, a, b, new) \in Seq(ZoneType) /\ Laid(Pasted(zs, a, b, new), o, n)
<1> DEFINE P == Pasted(zs, a, b, new)  m == Len(new)  l == Len(zs)
<1>1. /\ a \in 1 .. l /\ b \in a .. l /\ new \in Seq(ZoneType) /\ new # <<>>
      /\ Chain(new, zs[a].low, new[m].high)
      /\ b < l => new[m].high = zs[b].high
      /\ b = l => o[new[m].high] = End
      /\ \A j \in 1 .. m : Sound(new[j], o, n)
    BY DEF Fitting
<1>2. /\ zs \in Seq(ZoneType) /\ a \in 1 .. Len(zs) + 1 /\ b \in a - 1 .. Len(zs)
      /\ l \in Nat /\ m \in Nat /\ m > 0 /\ a \in Nat /\ b \in Nat /\ 1 <= a /\ a <= b /\ b <= l
    BY <1>1
<1>3. IsPasted(P, zs, a, b, new, ZoneType)
    BY <1>1, <1>2, PastedIs
<1>4. ASSUME NEW x \in 1 .. Len(P)
      PROVE  \/ x \in 1 .. a - 1 /\ P[x] = zs[x]
             \/ \E j \in 1 .. m : x = a - 1 + j /\ P[x] = new[j]
             \/ \E i \in b + 1 .. l : x = (a - 1) + m + (i - b) /\ P[x] = zs[i]
    BY <1>1, <1>2, PastedFrom
<1>5. /\ zs[1].low = 0 /\ o[zs[l].high] = End /\ \A i \in 1 .. l - 1 : zs[i].high = zs[i + 1].low
      /\ \A i \in 1 .. l : Sound(zs[i], o, n)
    BY DEF Laid, Chain
<1>6. new[1].low = zs[a].low /\ \A j \in 1 .. m - 1 : new[j].high = new[j + 1].low
    BY <1>1 DEF Chain
<1> HIDE DEF P, m, l
<1>7. /\ P \in Seq(ZoneType) /\ Len(P) = (a - 1) + m + (l - b)
      /\ \A x \in 1 .. a - 1 : P[x] = zs[x]
      /\ \A x \in 1 .. m : P[a - 1 + x] = new[x]
      /\ \A x \in b + 1 .. l : P[(a - 1) + m + (x - b)] = zs[x]
    BY <1>3 DEF IsPasted, m, l
<1>8. P # <<>>
    BY <1>2, <1>7
<1>9. P[1].low = 0
    <2>1. CASE a = 1
        <3>1. P[a - 1 + 1] = new[1] /\ a - 1 + 1 = 1
            BY <1>2, <1>7, <2>1
        <3> QED BY <1>5, <1>6, <2>1, <3>1
    <2>2. CASE a # 1
        <3>1. 1 \in 1 .. a - 1
            BY <1>2, <2>2
        <3> QED BY <1>5, <1>7, <3>1
    <2> QED BY <2>1, <2>2
<1>10. o[P[Len(P)].high] = End
    <2>1. CASE b = l
        <3>1. P[a - 1 + m] = new[m] /\ Len(P) = a - 1 + m
            BY <1>2, <1>7, <2>1
        <3> QED BY <1>1, <2>1, <3>1
    <2>2. CASE b # l
        <3>0. l \in b + 1 .. l
            BY <1>2, <2>2
        <3>1. P[(a - 1) + m + (l - b)] = zs[l]
            BY <1>7, <3>0
        <3> QED BY <1>5, <1>7, <3>1
    <2> QED BY <2>1, <2>2
<1>11. ASSUME NEW x \in 1 .. Len(P) - 1
       PROVE  P[x].high = P[x + 1].low
    <2>0. Len(P) \in Nat /\ x \in 1 .. Len(P)
        BY <1>2, <1>7
    <2>1. CASE x \in 1 .. a - 1 /\ P[x] = zs[x]
        <3>1. x \in 1 .. l - 1 /\ zs[x].high = zs[x + 1].low
            BY <1>2, <1>5, <2>1
        <3>2. CASE x = a - 1
            <4>1. P[a - 1 + 1] = new[1] /\ a - 1 + 1 = x + 1 /\ x + 1 = a
                BY <1>2, <1>7, <3>2
            <4> QED BY <1>6, <2>1, <3>1, <4>1
        <3>3. CASE x # a - 1
            <4>1. x + 1 \in 1 .. a - 1
                BY <1>2, <2>1, <3>3
            <4>2. P[x + 1] = zs[x + 1]
                BY <1>7, <4>1
            <4> QED BY <2>1, <3>1, <4>2
        <3> QED BY <3>2, <3>3
    <2>2. CASE \E j \in 1 .. m : x = a - 1 + j /\ P[x] = new[j]
        <3>1. PICK j \in 1 .. m : x = a - 1 + j /\ P[x] = new[j]
            BY <2>2
        <3>2. CASE j = m
            <4>1. b < l
                BY <1>2, <1>7, <3>1, <3>2
            <4> DEFINE c == b + 1
            <4>2. c \in b + 1 .. l /\ (a - 1) + m + (c - b) = x + 1
                BY <1>2, <3>1, <3>2, <4>1
            <4>3. P[(a - 1) + m + (c - b)] = zs[c]
                BY <1>7, <4>2
            <4>4. b \in 1 .. l - 1 /\ zs[b].high = zs[b + 1].low
                BY <1>2, <1>5, <4>1
            <4>5. P[x + 1] = zs[b + 1]
                BY <4>2, <4>3
            <4> QED BY <1>1, <3>1, <3>2, <4>1, <4>4, <4>5
        <3>3. CASE j # m
            <4> DEFINE k == j + 1
            <4>1. j \in 1 .. m - 1 /\ k \in 1 .. m /\ a - 1 + k = x + 1
                BY <1>2, <3>1, <3>3
            <4>2. P[a - 1 + k] = new[k]
                BY <1>7, <4>1
            <4>3. P[x + 1] = new[j + 1]
                BY <4>1, <4>2
            <4>4. new[j].high = new[j + 1].low
                BY <1>6, <4>1
            <4> QED BY <3>1, <4>3, <4>4
        <3> QED BY <3>2, <3>3
    <2>3. CASE \E i \in b + 1 .. l : x = (a - 1) + m + (i - b) /\ P[x] = zs[i]
        <3>1. PICK i \in b + 1 .. l : x = (a - 1) + m + (i - b) /\ P[x] = zs[i]
            BY <2>3
        <3> DEFINE k == i + 1
        <3>2. k \in b + 1 .. l /\ (a - 1) + m + (k - b) = x + 1 /\ i \in 1 .. l - 1
            <4>1. x <= (a - 1) + m + (l - b) - 1 /\ x = (a - 1) + m + (i - b) /\ i \in Nat /\ b + 1 <= i /\ i <= l
                BY <1>2, <1>7, <3>1
            <4>2. i <= l - 1
                BY <1>2, <4>1
            <4> QED BY <1>2, <4>1, <4>2
        <3>3. P[(a - 1) + m + (k - b)] = zs[k]
            BY <1>7, <3>2
        <3>4. P[x + 1] = zs[i + 1]
            BY <3>2, <3>3
        <3>5. zs[i].high = zs[i + 1].low
            BY <1>5, <3>2
        <3> QED BY <3>1, <3>4, <3>5
    <2> QED BY <1>4, <2>0, <2>1, <2>2, <2>3
<1>12. ASSUME NEW x \in 1 .. Len(P)
       PROVE  Sound(P[x], o, n)
    <2>1. \A i \in 1 .. a - 1 : i \in 1 .. l
        BY <1>2
    <2>2. \A i \in b + 1 .. l : i \in 1 .. l
        BY <1>2
    <2> QED BY <1>1, <1>4, <1>5, <2>1, <2>2
<1>13. Chain(P, 0, P[Len(P)].high)
    BY <1>9, <1>11 DEF Chain
<1> QED BY <1>7, <1>8, <1>10, <1>12, <1>13 DEF Laid, P

\* The spans of one zone, and of a list by its zones.
SpanIn(r, z, o) ==
    \/ z.named /\ r = RangeOf(z, o)
    \/ \E j \in 1 .. Len(z.inner) : z.inner[j].named /\ r = RangeOf(z.inner[j], o)

LEMMA SpanOf ==
    ASSUME NEW zs \in Seq(ZoneType), NEW r, NEW o
    PROVE  IsSpan(r, zs, o) <=> \E i \in 1 .. Len(zs) : SpanIn(r, zs[i], o)
<1>1. ASSUME IsSpan(r, zs, o)
      PROVE  \E i \in 1 .. Len(zs) : SpanIn(r, zs[i], o)
    <2>1. PICK c \in Spots(zs) : Spot(zs, c).named /\ r = RangeOf(Spot(zs, c), o)
        BY <1>1 DEF IsSpan
    <2>2. c[1] \in 1 .. Len(zs) /\ c[2] \in 0 .. Len(zs[c[1]].inner) /\ c \in Nat \X Nat
        BY DEF Spots
    <2>3. CASE c[2] = 0
        BY <2>1, <2>2, <2>3 DEF Spot, SpanIn
    <2>4. CASE c[2] # 0
        <3>1. c[2] \in 1 .. Len(zs[c[1]].inner)
            BY <2>2, <2>4
        <3> QED BY <2>1, <2>2, <2>4, <3>1 DEF Spot, SpanIn
    <2> QED BY <2>3, <2>4
<1>2. ASSUME NEW i \in 1 .. Len(zs), SpanIn(r, zs[i], o)
      PROVE  IsSpan(r, zs, o)
    <2>0. i \in Nat /\ Len(zs[i].inner) \in Nat
        <3>1. zs[i].inner \in Seq(LeafType)
            BY ZoneFields DEF ZoneType
        <3> QED BY <3>1
    <2>1. CASE zs[i].named /\ r = RangeOf(zs[i], o)
        <3>1. PICK c \in Spots(zs) : Spot(zs, c) = zs[i]
            <4>1. 0 \in Nat /\ 0 \in 0 .. Len(zs[i].inner)
                BY <2>0
            <4> QED BY <2>0, <4>1, PlaceSpot
        <3> QED BY <2>1, <3>1 DEF IsSpan
    <2>2. CASE \E j \in 1 .. Len(zs[i].inner) : zs[i].inner[j].named /\ r = RangeOf(zs[i].inner[j], o)
        <3>1. PICK j \in 1 .. Len(zs[i].inner) : zs[i].inner[j].named /\ r = RangeOf(zs[i].inner[j], o)
            BY <2>2
        <3>2. PICK c \in Spots(zs) : Spot(zs, c) = zs[i].inner[j]
            <4>1. j \in Nat /\ j \in 0 .. Len(zs[i].inner) /\ j # 0
                BY <2>0
            <4> QED BY <2>0, <4>1, PlaceSpot
        <3> QED BY <3>1, <3>2 DEF IsSpan
    <2> QED BY <1>2, <2>1, <2>2 DEF SpanIn
<1> QED BY <1>1, <1>2

LEMMA PastedSpans ==
    ASSUME NEW zs \in Seq(ZoneType), NEW new \in Seq(ZoneType), NEW a \in 1 .. Len(zs) + 1, NEW b \in a - 1 .. Len(zs),
           NEW r, NEW o
    PROVE  IsSpan(r, Pasted(zs, a, b, new), o) <=>
              \/ \E i \in 1 .. Len(zs) : (i < a \/ b < i) /\ SpanIn(r, zs[i], o)
              \/ \E j \in 1 .. Len(new) : SpanIn(r, new[j], o)
<1> DEFINE P == Pasted(zs, a, b, new)  m == Len(new)  l == Len(zs)
<1>1. IsPasted(P, zs, a, b, new, ZoneType)
    BY PastedIs
<1>2. ASSUME NEW x \in 1 .. Len(P)
      PROVE  \/ x \in 1 .. a - 1 /\ P[x] = zs[x]
             \/ \E j \in 1 .. m : x = a - 1 + j /\ P[x] = new[j]
             \/ \E i \in b + 1 .. l : x = (a - 1) + m + (i - b) /\ P[x] = zs[i]
    BY PastedFrom
<1>3. l \in Nat /\ m \in Nat /\ a \in Nat /\ b \in Nat /\ 1 <= a /\ a - 1 <= b /\ b <= l
    OBVIOUS
<1> HIDE DEF P, m, l
<1>4. /\ P \in Seq(ZoneType) /\ Len(P) = (a - 1) + m + (l - b)
      /\ \A x \in 1 .. a - 1 : P[x] = zs[x]
      /\ \A x \in 1 .. m : P[a - 1 + x] = new[x]
      /\ \A x \in b + 1 .. l : P[(a - 1) + m + (x - b)] = zs[x]
    BY <1>1 DEF IsPasted, m, l
<1>5. IsSpan(r, P, o) <=> \E x \in 1 .. Len(P) : SpanIn(r, P[x], o)
    BY <1>4, SpanOf
<1>6. ASSUME NEW x \in 1 .. Len(P), SpanIn(r, P[x], o)
      PROVE  \/ \E i \in 1 .. l : (i < a \/ b < i) /\ SpanIn(r, zs[i], o)
             \/ \E j \in 1 .. m : SpanIn(r, new[j], o)
    <2>1. \A i \in 1 .. a - 1 : i \in 1 .. l /\ i < a
        BY <1>3
    <2>2. \A i \in b + 1 .. l : i \in 1 .. l /\ b < i
        BY <1>3
    <2> QED BY <1>2, <1>6, <2>1, <2>2
<1>7. ASSUME NEW i \in 1 .. l, i < a \/ b < i, SpanIn(r, zs[i], o)
      PROVE  \E x \in 1 .. Len(P) : SpanIn(r, P[x], o)
    <2>1. CASE i < a
        <3>1. i \in 1 .. a - 1 /\ i \in 1 .. Len(P)
            BY <1>3, <1>4, <2>1
        <3> QED BY <1>4, <1>7, <3>1
    <2>2. CASE b < i
        <3> DEFINE x == (a - 1) + m + (i - b)
        <3>1. i \in b + 1 .. l /\ x \in 1 .. Len(P)
            BY <1>3, <1>4, <2>2
        <3>2. P[x] = zs[i]
            BY <1>4, <3>1
        <3> HIDE DEF x
        <3> QED BY <1>7, <3>1, <3>2
    <2> QED BY <1>7, <2>1, <2>2
<1>8. ASSUME NEW j \in 1 .. m, SpanIn(r, new[j], o)
      PROVE  \E x \in 1 .. Len(P) : SpanIn(r, P[x], o)
    <2> DEFINE x == a - 1 + j
    <2>1. x \in 1 .. Len(P)
        BY <1>3, <1>4
    <2>2. P[x] = new[j]
        BY <1>4
    <2> HIDE DEF x
    <2> QED BY <1>8, <2>1, <2>2
<1> QED BY <1>5, <1>6, <1>7, <1>8 DEF P, m, l

-----------------------------------------------------------------------------
(* AddNewZone: the pieces it makes.                                        *)

Above(s) == IF s = 0 THEN 0 ELSE s - 1
\* The part before, the part chosen (also where it begins with the zone that is split), and
\* the part behind; named as in AddNewZone.
Ahead(P, s, asm) ==
    Zone(P.low, s, FALSE, asm, Between(P.labels, 0, s), Between(P.comments, 0, Above(s)))
Chosen(P, s, e, asm) ==
    Zone(s, e, TRUE, AsmAfter(Ahead(P, s, asm)), Between(P.labels, s, e), Between(P.comments, Above(s), e - 1))
Opening(P, s, e, asm) ==
    [Chosen(P, s, e, asm) EXCEPT !.asm = asm, !.labels = Over(Ahead(P, s, asm).labels, @),
                                 !.comments = Over(Ahead(P, s, asm).comments, @)]
Made(P, s, e, asm) ==
    IF s = P.low THEN << Opening(P, s, e, asm) >> ELSE << Ahead(P, s, asm), Chosen(P, s, e, asm) >>
Newest(P, s, e, asm) == IF s = P.low THEN Opening(P, s, e, asm) ELSE Chosen(P, s, e, asm)
Behind(P, s, e, asm, high) ==
    Zone(IF e = End THEN s ELSE e, high, FALSE, AsmAfter(Newest(P, s, e, asm)),
         Between(P.labels, e, Wrap), Between(P.comments, e - 1, Wrap))
Pieces(P, s, e, asm, high) == Made(P, s, e, asm) \o << Behind(P, s, e, asm, high) >>

\* The fields of a zone made by Zone.
ZoneHas(y, low, high, named, asm, labels, remarks) ==
    /\ y.low = low /\ y.high = high /\ y.workLow = low /\ y.workHigh = high /\ y.named = named /\ y.asm = asm
    /\ y.labels = labels /\ y.comments = remarks /\ y.collapsed = FALSE /\ y.inner = <<>>

\* A zone made anew.
LEMMA ZoneMade ==
    ASSUME NEW low \in Coords, NEW high \in Coords, NEW named \in BOOLEAN, NEW asm \in Words,
           NEW labels \in Maps(Labels), NEW remarks \in Maps(Notes)
    PROVE  /\ Zone(low, high, named, asm, labels, remarks) \in LeafType
           /\ ZoneHas(Zone(low, high, named, asm, labels, remarks), low, high, named, asm, labels, remarks)
    BY DEF Zone, LeafType, ZonesWith, ZoneHas

\* The count behind a zone is a word.
LEMMA AsmWord ==
    ASSUME NEW I, NEW z \in ZonesWith(I)
    PROVE  AsmAfter(z) \in Words
<1>1. z.asm \in Int /\ z.workHigh - z.workLow \in Int
    <2>1. z.asm \in Words /\ z.workLow \in Nat /\ z.workHigh \in Nat
        BY ZoneFields
    <2> QED BY <2>1, EndIs DEF Words
<1>2. Plus(z.high, -z.low) \in Int
    <2>1. z.high \in Int /\ -z.low \in Int
        BY ZoneFields
    <2>2. Plus(z.high, -z.low) \in Words
        BY <2>1, PlusAny
    <2> QED BY <2>2, EndIs DEF Words
<1>3. GetSize(z) \in Int
    BY <1>1, <1>2 DEF GetSize
<1>4. Cardinality(DOMAIN z.labels) \in Int
    <2>1. z.labels \in Maps(Labels)
        BY ZoneFields
    <2>2. DOMAIN z.labels \subseteq 0 .. Wrap - 1
        BY <2>1, MapIs DEF Words
    <2>3. IsFiniteSet(0 .. Wrap - 1)
        BY EndIs, FS_Interval
    <2>4. IsFiniteSet(DOMAIN z.labels)
        BY <2>2, <2>3, FS_Subset
    <2> QED BY <2>4, FS_CardinalityType
<1> DEFINE g == GetSize(z) - Cardinality(DOMAIN z.labels)
<1>5. g \in Int
    BY <1>3, <1>4
<1> HIDE DEF g
<1>6. Plus(z.asm, g) \in Words
    BY <1>1, <1>5, PlusAny
<1> QED BY <1>6 DEF AsmAfter, g

\* The pieces of a zone are zones, with the fields the code gives them.
LEMMA PiecesType ==
    ASSUME NEW I, NEW P \in ZonesWith(I), NEW s \in 0 .. End, NEW e \in 1 .. End, NEW asm \in Words, NEW high \in Coords
    PROVE  /\ Ahead(P, s, asm) \in LeafType
           /\ ZoneHas(Ahead(P, s, asm), P.low, s, FALSE, asm, Between(P.labels, 0, s), Between(P.comments, 0, Above(s)))
           /\ Chosen(P, s, e, asm) \in LeafType
           /\ ZoneHas(Chosen(P, s, e, asm), s, e, TRUE, AsmAfter(Ahead(P, s, asm)),
                      Between(P.labels, s, e), Between(P.comments, Above(s), e - 1))
           /\ Opening(P, s, e, asm) \in LeafType
           /\ ZoneHas(Opening(P, s, e, asm), s, e, TRUE, asm,
                      Over(Between(P.labels, 0, s), Between(P.labels, s, e)),
                      Over(Between(P.comments, 0, Above(s)), Between(P.comments, Above(s), e - 1)))
           /\ Behind(P, s, e, asm, high) \in LeafType
           /\ ZoneHas(Behind(P, s, e, asm, high), IF e = End THEN s ELSE e, high, FALSE, AsmAfter(Newest(P, s, e, asm)),
                      Between(P.labels, e, Wrap), Between(P.comments, e - 1, Wrap))
<1>0. End \in Nat /\ Wrap = 4 * End /\ Wrap \in Nat
    BY EndIs
<1>1. P.low \in Coords /\ P.labels \in Maps(Labels) /\ P.comments \in Maps(Notes)
    BY ZoneFields, <1>0 DEF Coords, ZonesWith
<1>2. s \in Coords /\ e \in Coords /\ s \in Int /\ e \in Int /\ e - 1 \in Int /\ Above(s) \in Int /\ 0 \in Int /\ Wrap \in Int
      /\ (IF e = End THEN s ELSE e) \in Coords /\ TRUE \in BOOLEAN /\ FALSE \in BOOLEAN
    BY <1>0 DEF Coords, Above
<1>3. /\ Between(P.labels, 0, s) \in Maps(Labels) /\ Between(P.labels, s, e) \in Maps(Labels)
      /\ Between(P.labels, e, Wrap) \in Maps(Labels)
    BY <1>1, <1>2, BetweenIs
<1>4. /\ Between(P.comments, 0, Above(s)) \in Maps(Notes) /\ Between(P.comments, Above(s), e - 1) \in Maps(Notes)
      /\ Between(P.comments, e - 1, Wrap) \in Maps(Notes)
    BY <1>1, <1>2, BetweenIs
<1>5. /\ Ahead(P, s, asm) \in LeafType
      /\ ZoneHas(Ahead(P, s, asm), P.low, s, FALSE, asm, Between(P.labels, 0, s), Between(P.comments, 0, Above(s)))
    BY <1>1, <1>2, <1>3, <1>4, ZoneMade DEF Ahead
<1>6. AsmAfter(Ahead(P, s, asm)) \in Words
    BY <1>5, AsmWord DEF LeafType
<1>7. /\ Chosen(P, s, e, asm) \in LeafType
      /\ ZoneHas(Chosen(P, s, e, asm), s, e, TRUE, AsmAfter(Ahead(P, s, asm)),
                 Between(P.labels, s, e), Between(P.comments, Above(s), e - 1))
    BY <1>2, <1>3, <1>4, <1>6, ZoneMade DEF Chosen
<1>8. /\ Opening(P, s, e, asm) \in LeafType
      /\ ZoneHas(Opening(P, s, e, asm), s, e, TRUE, asm,
                 Over(Between(P.labels, 0, s), Between(P.labels, s, e)),
                 Over(Between(P.comments, 0, Above(s)), Between(P.comments, Above(s), e - 1)))
    <2> DEFINE y == Chosen(P, s, e, asm)
               L == Over(Between(P.labels, 0, s), Between(P.labels, s, e))
               C == Over(Between(P.comments, 0, Above(s)), Between(P.comments, Above(s), e - 1))
    <2>1. L \in Maps(Labels) /\ C \in Maps(Notes)
        BY <1>3, <1>4, OverIs
    <2>2. y \in LeafType /\ y.labels = Between(P.labels, s, e) /\ y.comments = Between(P.comments, Above(s), e - 1)
          /\ y.low = s /\ y.high = e /\ y.workLow = s /\ y.workHigh = e /\ y.named = TRUE /\ y.collapsed = FALSE /\ y.inner = <<>>
        BY <1>7 DEF ZoneHas
    <2>3. Ahead(P, s, asm).labels = Between(P.labels, 0, s) /\ Ahead(P, s, asm).comments = Between(P.comments, 0, Above(s))
        BY <1>5 DEF ZoneHas
    <2>4. Opening(P, s, e, asm) = [y EXCEPT !.asm = asm, !.labels = L, !.comments = C]
        BY <2>2, <2>3 DEF Opening, LeafType, ZonesWith
    <2> HIDE DEF y, L, C
    <2>5. [y EXCEPT !.asm = asm, !.labels = L, !.comments = C] \in LeafType
        BY <2>1, <2>2 DEF LeafType, ZonesWith
    <2>6. ZoneHas([y EXCEPT !.asm = asm, !.labels = L, !.comments = C], s, e, TRUE, asm, L, C)
        BY <2>1, <2>2 DEF ZoneHas, LeafType, ZonesWith
    <2> QED BY <2>4, <2>5, <2>6 DEF L, C
<1>9. Newest(P, s, e, asm) \in LeafType
    BY <1>7, <1>8 DEF Newest
<1>10. AsmAfter(Newest(P, s, e, asm)) \in Words
    BY <1>9, AsmWord DEF LeafType
<1>11. /\ Behind(P, s, e, asm, high) \in LeafType
       /\ ZoneHas(Behind(P, s, e, asm, high), IF e = End THEN s ELSE e, high, FALSE, AsmAfter(Newest(P, s, e, asm)),
                  Between(P.labels, e, Wrap), Between(P.comments, e - 1, Wrap))
    <2> DEFINE w == IF e = End THEN s ELSE e
    <2>1. w \in Coords
        BY <1>2
    <2>2. /\ Behind(P, s, e, asm, high) = Zone(w, high, FALSE, AsmAfter(Newest(P, s, e, asm)),
                                               Between(P.labels, e, Wrap), Between(P.comments, e - 1, Wrap))
        BY DEF Behind
    <2> HIDE DEF w
    <2>3. /\ Behind(P, s, e, asm, high) \in LeafType
          /\ ZoneHas(Behind(P, s, e, asm, high), w, high, FALSE, AsmAfter(Newest(P, s, e, asm)),
                  Between(P.labels, e, Wrap), Between(P.comments, e - 1, Wrap))
        <3> DEFINE L == Between(P.labels, e, Wrap)  C == Between(P.comments, e - 1, Wrap)
                   m == AsmAfter(Newest(P, s, e, asm))
        <3>1. w \in Coords /\ high \in Coords /\ FALSE \in BOOLEAN /\ m \in Words /\ L \in Maps(Labels) /\ C \in Maps(Notes)
            BY <1>3, <1>4, <1>10, <2>1
        <3>2. Behind(P, s, e, asm, high) = Zone(w, high, FALSE, m, L, C)
            BY <2>2
        <3> HIDE DEF L, C, m
        <3>3. Zone(w, high, FALSE, m, L, C) \in LeafType /\ ZoneHas(Zone(w, high, FALSE, m, L, C), w, high, FALSE, m, L, C)
            BY <3>1, ZoneMade
        <3>4. Behind(P, s, e, asm, high) \in LeafType /\ ZoneHas(Behind(P, s, e, asm, high), w, high, FALSE, m, L, C)
            BY <3>2, <3>3
        <3> QED BY <3>4 DEF L, C, m
    <2> QED BY <2>3 DEF w
<1> QED BY <1>5, <1>7, <1>8, <1>11

\* The zone that is split; whether the pieces go inside; the zones before it; the count where
\* it begins; the zone taken for the next; and where that begins.
Host(i) == IF i = 0 THEN Root ELSE zones[i]
Inside(i) == i # 0 /\ Host(i).named
WholeBut(i) == IF i = 0 THEN Len(zones) ELSE i - 1
Base(i) == IF Inside(i) THEN Host(i).asm ELSE IF WholeBut(i) > 0 THEN AsmAfter(zones[WholeBut(i)]) ELSE 0
NextTo(i, s) == IF Inside(i) THEN (IF s = Host(i).low THEN 3 ELSE 4) ELSE WholeBut(i) + 2
Reaches(i, s, e) == IF e # End /\ NextTo(i, s) <= Len(zones) THEN zones[NextTo(i, s)].low ELSE End
Cut(i, s, e) == Pieces(Host(i), s, e, Base(i), Reaches(i, s, e))
Titled(z) == [z EXCEPT !.named = TRUE]

\* What a zone added makes of the list, by the pieces.
AddsTo(i, s, e) ==
    IF i # 0 /\ ~Host(i).named /\ Host(i).low = s /\ Host(i).high = e THEN Replaced(zones, i, Titled(zones[i]))
    ELSE IF Inside(i) THEN Replaced(zones, i, Filled(zones[i], Cut(i, s, e) \o zones[i].inner))
    ELSE SubSeq(zones, 1, WholeBut(i)) \o Cut(i, s, e) \o SubSeq(zones, WholeBut(i) + 2, Len(zones))

\* The zone that is split is one of the list that holds both lines.
LEMMA SplitsIs ==
    ASSUME zones \in Seq(ZoneType), NEW s \in Nat, NEW e \in Nat
    PROVE  /\ Splits(s, e) \in 0 .. Len(zones)
           /\ Splits(s, e) # 0 => zones[Splits(s, e)].low <= s /\ e <= zones[Splits(s, e)].high
           /\ Splits(s, e) = 0 => \A i \in 1 .. Len(zones) : ~(zones[i].low <= s /\ e <= zones[i].high)
<1> DEFINE I == {i \in 1 .. Len(zones) : zones[i].low <= s /\ e <= zones[i].high}
<1>1. Splits(s, e) = IF I # {} THEN Min(I) ELSE 0
    BY DEF Splits, SelectInSeq
<1>2. CASE I = {}
    <2>1. Splits(s, e) = 0
        <3> HIDE DEF I
        <3> QED BY <1>1, <1>2
    <2> QED BY <1>2, <2>1
<1>3. CASE I # {}
    <2>1. PICK i \in I : \A j \in I : i <= j
        <3>1. I \subseteq Nat
            OBVIOUS
        <3> HIDE DEF I
        <3> QED BY <1>3, <3>1, LeastExists
    <2>2. Min(I) = CHOOSE x \in I : \A y \in I : x <= y
        BY DEF Min
    <2>3. Min(I) \in I
        <3> HIDE DEF I
        <3> QED BY <2>1, <2>2
    <2>4. Splits(s, e) = Min(I)
        <3> HIDE DEF I
        <3> QED BY <1>1, <1>3
    <2>5. Splits(s, e) \in I
        BY <2>3, <2>4
    <2>6. Splits(s, e) \in 1 .. Len(zones) /\ zones[Splits(s, e)].low <= s /\ e <= zones[Splits(s, e)].high
        BY <2>5
    <2> QED BY <2>6
<1> QED BY <1>2, <1>3

\* The newest piece is the last one made.
LEMMA MadeIs ==
    ASSUME NEW P, NEW s, NEW e, NEW asm
    PROVE  /\ Len(Made(P, s, e, asm)) = (IF s = P.low THEN 1 ELSE 2)
           /\ Made(P, s, e, asm)[Len(Made(P, s, e, asm))] = Newest(P, s, e, asm)
    BY DEF Made, Newest

\* The same, with the pieces spelt out.
AddsAs(i, s, e) ==
    IF i # 0 /\ ~Host(i).named /\ Host(i).low = s /\ Host(i).high = e
    THEN Replaced(zones, i, Titled(zones[i]))
    ELSE IF Inside(i)
    THEN Replaced(zones, i, Filled(zones[i], Made(Host(i), s, e, Base(i))
           \o << Behind(Host(i), s, e, Base(i), Reaches(i, s, e)) >> \o zones[i].inner))
    ELSE SubSeq(zones, 1, WholeBut(i)) \o Made(Host(i), s, e, Base(i))
           \o << Behind(Host(i), s, e, Base(i), Reaches(i, s, e)) >> \o SubSeq(zones, WholeBut(i) + 2, Len(zones))

\* The code makes the list so.
LEMMA AddIs ==
    ASSUME NEW s \in Nat, NEW e \in Nat, NEW i, i = Splits(s, e)
    PROVE  AddNewZone(s, e) = AddsAs(i, s, e)
<1> DEFINE P == Host(i)  asm == Base(i)
           opening == [Chosen(P, s, e, asm) EXCEPT !.asm = asm, !.labels = Over(Ahead(P, s, asm).labels, @),
                                      !.comments = Over(Ahead(P, s, asm).comments, @)]
           made == IF s = P.low
                  THEN << opening >>
                  ELSE << Ahead(P, s, asm), Chosen(P, s, e, asm) >>
           next == IF Inside(i) THEN Len(made) + 2 ELSE WholeBut(i) + 2
           after  == Zone(IF e = End THEN s ELSE e,
                       IF e # End /\ next <= Len(zones) THEN zones[next].low ELSE End,
                       FALSE, AsmAfter(made[Len(made)]),
                       Between(P.labels, e, Wrap), Between(P.comments, e - 1, Wrap))
<1>1. made = Made(P, s, e, asm)
    <2>1. opening = Opening(P, s, e, asm)
        BY Zenon DEF Opening
    <2> HIDE DEF opening, P, asm
    <2> QED BY <2>1 DEF Made
<1>2. Len(made) = (IF s = P.low THEN 1 ELSE 2) /\ made[Len(made)] = Newest(P, s, e, asm)
    <2> HIDE DEF made, P, asm, opening
    <2>1. Len(Made(P, s, e, asm)) = (IF s = P.low THEN 1 ELSE 2)
          /\ Made(P, s, e, asm)[Len(Made(P, s, e, asm))] = Newest(P, s, e, asm)
        BY MadeIs
    <2> QED BY <1>1, <2>1
<1>3. next = NextTo(i, s)
    BY <1>2 DEF NextTo
<1>4. after = Behind(P, s, e, asm, Reaches(i, s, e))
    BY <1>2, <1>3 DEF Behind, Reaches
<1>5. AddNewZone(s, e) =
         IF i # 0 /\ ~P.named /\ P.low = s /\ P.high = e
         THEN [zones EXCEPT ![i].named = TRUE]
         ELSE IF Inside(i)
         THEN [zones EXCEPT ![i].inner = made \o <<after>> \o @]
         ELSE SubSeq(zones, 1, WholeBut(i)) \o made \o <<after>> \o SubSeq(zones, WholeBut(i) + 2, Len(zones))
    BY DEF AddNewZone, Host, Inside, WholeBut, Base, Ahead, Chosen, Above
<1> HIDE DEF made, after, opening, P, asm, next
<1>6. [zones EXCEPT ![i].named = TRUE] = Replaced(zones, i, Titled(zones[i]))
    BY DEF Replaced, Titled
<1>7. [zones EXCEPT ![i].inner = made \o <<after>> \o @]
        = Replaced(zones, i, Filled(zones[i], made \o <<after>> \o zones[i].inner))
    BY DEF Replaced, Filled
<1>8. AddNewZone(s, e) =
         IF i # 0 /\ ~P.named /\ P.low = s /\ P.high = e
         THEN Replaced(zones, i, Titled(zones[i]))
         ELSE IF Inside(i)
         THEN Replaced(zones, i, Filled(zones[i], made \o <<after>> \o zones[i].inner))
         ELSE SubSeq(zones, 1, WholeBut(i)) \o made \o <<after>> \o SubSeq(zones, WholeBut(i) + 2, Len(zones))
    BY <1>5, <1>6, <1>7
<1> QED BY <1>1, <1>4, <1>8 DEF P, asm, AddsAs

\* The zone that is split is a zone, whatever it is.
LEMMA HostType ==
    ASSUME zones \in Seq(ZoneType), comments \in Maps(Notes), NEW i \in 0 .. Len(zones)
    PROVE  /\ Host(i) \in ZonesWith(Seq(ZoneType)) /\ Base(i) \in Words
           /\ \A s, e \in Nat : Reaches(i, s, e) \in Coords
           /\ WholeBut(i) \in 0 .. Len(zones)
<1>0. End \in Nat /\ End > 0 /\ Wrap = 4 * End /\ Wrap \in Nat /\ Labels \subseteq 0 .. End - 1
    BY EndIs
<1>1. Host(i) \in ZonesWith(Seq(ZoneType))
    <2>1. CASE i = 0
        <3> DEFINE L == [l \in Labels |-> l]
        <3>1. L \in Maps(Labels)
            BY <1>0, MapIs DEF Words
        <3> HIDE DEF L
        <3>2. Zone(0, End, FALSE, 0, L, comments) \in LeafType
            <4>1. 0 \in Coords /\ End \in Coords /\ FALSE \in BOOLEAN /\ 0 \in Words
                BY <1>0 DEF Coords, Words
            <4> QED BY <3>1, <4>1, ZoneMade
        <3>3. [Zone(0, End, FALSE, 0, L, comments) EXCEPT !.inner = zones] \in ZonesWith(Seq(ZoneType))
            BY <3>2 DEF LeafType, ZonesWith
        <3> QED BY <2>1, <3>3 DEF Host, Root, L
    <2>2. CASE i # 0
        <3>1. zones[i] \in ZonesWith(Seq(LeafType))
            BY <2>2 DEF ZoneType
        <3>2. zones[i] \in ZonesWith(Seq(ZoneType))
            BY <3>1, LeafLists DEF ZonesWith
        <3> QED BY <2>2, <3>2 DEF Host
    <2> QED BY <2>1, <2>2
<1>2. WholeBut(i) \in 0 .. Len(zones)
    BY DEF WholeBut
<1>3. Base(i) \in Words
    <2>1. Host(i).asm \in Words
        BY <1>1, ZoneFields
    <2>2. WholeBut(i) > 0 => AsmAfter(zones[WholeBut(i)]) \in Words
        BY <1>2, AsmWord DEF ZoneType
    <2>3. 0 \in Words
        BY <1>0 DEF Words
    <2> QED BY <2>1, <2>2, <2>3 DEF Base
<1>4. ASSUME NEW s \in Nat, NEW e \in Nat
      PROVE  Reaches(i, s, e) \in Coords
    <2>1. NextTo(i, s) \in Nat /\ NextTo(i, s) >= 1
        BY <1>2 DEF NextTo
    <2>2. NextTo(i, s) <= Len(zones) => zones[NextTo(i, s)].low \in Coords
        <3> SUFFICES ASSUME NextTo(i, s) <= Len(zones)
                     PROVE  zones[NextTo(i, s)].low \in Coords
            OBVIOUS
        <3>1. zones[NextTo(i, s)] \in ZoneType
            BY <2>1
        <3> QED BY <3>1 DEF ZoneType, ZonesWith
    <2>3. End \in Coords
        BY <1>0 DEF Coords
    <2> QED BY <2>2, <2>3 DEF Reaches
<1> QED BY <1>1, <1>2, <1>3, <1>4

\* Zones with nothing inside.
LeafRun(ps) == ps \in Seq(LeafType) /\ ps \in Seq(ZoneType) /\ ps # <<>>

\* The pieces make a list of zones with nothing inside.
LEMMA PiecesRun ==
    ASSUME NEW I, NEW P \in ZonesWith(I), NEW s \in 0 .. End, NEW e \in 1 .. End, NEW asm \in Words, NEW high \in Coords
    PROVE  /\ LeafRun(Pieces(P, s, e, asm, high)) /\ Made(P, s, e, asm) \in Seq(LeafType)
           /\ << Behind(P, s, e, asm, high) >> \in Seq(LeafType)
<1>1. /\ Ahead(P, s, asm) \in LeafType /\ Chosen(P, s, e, asm) \in LeafType /\ Opening(P, s, e, asm) \in LeafType
      /\ Behind(P, s, e, asm, high) \in LeafType
    BY PiecesType
<1> DEFINE a == Ahead(P, s, asm)  b == Chosen(P, s, e, asm)  c == Opening(P, s, e, asm)  d == Behind(P, s, e, asm, high)
<1>2. /\ Made(P, s, e, asm) = IF s = P.low THEN << c >> ELSE << a, b >>
      /\ Pieces(P, s, e, asm, high) = Made(P, s, e, asm) \o << d >>
    BY DEF Made, Pieces
<1>3. a \in LeafType /\ b \in LeafType /\ c \in LeafType /\ d \in LeafType
    BY <1>1
<1> HIDE DEF a, b, c, d
<1>4. << c >> \in Seq(LeafType) /\ << a, b >> \in Seq(LeafType) /\ << d >> \in Seq(LeafType)
    BY <1>3
<1> DEFINE made == Made(P, s, e, asm)  t == << d >>
<1>5. made \in Seq(LeafType) /\ t \in Seq(LeafType) /\ Len(t) = 1
    BY <1>2, <1>4
<1>6. Pieces(P, s, e, asm, high) = made \o t
    BY <1>2
<1> HIDE DEF made, t
<1>7. made \o t \in Seq(LeafType) /\ made \o t # <<>>
    <2>1. made \o t \in Seq(LeafType) /\ Len(made \o t) = Len(made) + Len(t)
        BY <1>5, ConcatProperties
    <2> QED BY <1>5, <2>1
<1>8. LeafRun(Pieces(P, s, e, asm, high))
    BY <1>6, <1>7, LeafLists DEF LeafRun
<1> QED BY <1>5, <1>8 DEF t, made, d

\* Adding a zone is pasting the pieces.
LEMMA AddsIs ==
    ASSUME zones \in Seq(ZoneType), comments \in Maps(Notes), NEW s \in 0 .. End, NEW e \in 1 .. End,
           NEW i, i = Splits(s, e)
    PROVE  /\ i \in 0 .. Len(zones) /\ AddNewZone(s, e) = AddsTo(i, s, e) /\ LeafRun(Cut(i, s, e))
           /\ Host(i) \in ZonesWith(Seq(ZoneType)) /\ Base(i) \in Words /\ Reaches(i, s, e) \in Coords
<1>0. End \in Nat /\ s \in Nat /\ e \in Nat
    BY EndIs
<1>1. i \in 0 .. Len(zones)
    BY <1>0, SplitsIs
<1>2. Host(i) \in ZonesWith(Seq(ZoneType)) /\ Base(i) \in Words /\ Reaches(i, s, e) \in Coords /\ WholeBut(i) \in 0 .. Len(zones)
    BY <1>0, <1>1, HostType
<1> DEFINE ps == Pieces(Host(i), s, e, Base(i), Reaches(i, s, e))  made == Made(Host(i), s, e, Base(i))
           t == << Behind(Host(i), s, e, Base(i), Reaches(i, s, e)) >>
<1>3. LeafRun(ps) /\ made \in Seq(LeafType) /\ t \in Seq(LeafType)
    BY <1>2, PiecesRun
<1>4. ps = made \o t /\ Cut(i, s, e) = ps
    BY DEF Pieces, Cut
<1>5. AddNewZone(s, e) =
        IF i # 0 /\ ~Host(i).named /\ Host(i).low = s /\ Host(i).high = e THEN Replaced(zones, i, Titled(zones[i]))
        ELSE IF Inside(i) THEN Replaced(zones, i, Filled(zones[i], made \o t \o zones[i].inner))
        ELSE SubSeq(zones, 1, WholeBut(i)) \o made \o t \o SubSeq(zones, WholeBut(i) + 2, Len(zones))
    <2>1. s \in Nat /\ e \in Nat /\ i = Splits(s, e)
        BY <1>0
    <2>2. AddNewZone(s, e) = AddsAs(i, s, e)
        BY <2>1, AddIs
    <2> QED BY <2>2 DEF made, t, AddsAs
<1> HIDE DEF ps, made, t
<1>6. (SubSeq(zones, 1, WholeBut(i)) \o made) \o t = SubSeq(zones, 1, WholeBut(i)) \o ps
    <2> DEFINE h == SubSeq(zones, 1, WholeBut(i))
    <2>1. h \in Seq(ZoneType)
        BY <1>2
    <2>2. made \in Seq(ZoneType) /\ t \in Seq(ZoneType)
        BY <1>3, LeafLists
    <2> HIDE DEF h
    <2>3. (h \o made) \o t = h \o (made \o t)
        BY <2>1, <2>2, ConcatAssociative, SMTT(60)
    <2> QED BY <1>4, <2>3 DEF h
<1>7. AddNewZone(s, e) = AddsTo(i, s, e)
    BY <1>4, <1>5, <1>6 DEF AddsTo
<1> QED BY <1>1, <1>2, <1>3, <1>4, <1>7

\* Zones that differ in their name.
SameButName(m, z) ==
    /\ m.low = z.low /\ m.high = z.high /\ m.workLow = z.workLow /\ m.workHigh = z.workHigh
    /\ m.asm = z.asm /\ m.labels = z.labels /\ m.comments = z.comments /\ m.collapsed = z.collapsed
    /\ m.inner = z.inner

\* A zone that gets a name changes in nothing else.
LEMMA TitledIs ==
    ASSUME NEW I, NEW z \in ZonesWith(I)
    PROVE  Titled(z) \in ZonesWith(I) /\ SameButName(Titled(z), z) /\ Titled(z).named = TRUE
    BY DEF Titled, SameButName, ZonesWith

\* The list with a zone added is a list of zones.
LEMMA AddsType ==
    ASSUME zones \in Seq(ZoneType), comments \in Maps(Notes), NEW s \in 0 .. End, NEW e \in 1 .. End
    PROVE  AddNewZone(s, e) \in Seq(ZoneType)
<1> DEFINE i == Splits(s, e)  ps == Cut(i, s, e)
<1>1. i \in 0 .. Len(zones) /\ AddNewZone(s, e) = AddsTo(i, s, e) /\ LeafRun(ps)
    BY AddsIs
<1>2. Host(i) \in ZonesWith(Seq(ZoneType)) /\ WholeBut(i) \in 0 .. Len(zones)
    BY <1>1, HostType
<1> HIDE DEF i, ps
<1>3. ASSUME i # 0
      PROVE  Replaced(zones, i, Titled(zones[i])) \in Seq(ZoneType)
    <2>1. i \in 1 .. Len(zones) /\ zones[i] \in ZoneType
        BY <1>1, <1>3
    <2>2. Titled(zones[i]) \in ZoneType
        BY <2>1, TitledIs DEF ZoneType
    <2> QED BY <2>1, <2>2, ReplacedIs
<1>4. ASSUME i # 0
      PROVE  Replaced(zones, i, Filled(zones[i], ps \o zones[i].inner)) \in Seq(ZoneType)
    <2>1. i \in 1 .. Len(zones) /\ zones[i] \in ZoneType /\ zones[i].inner \in Seq(LeafType)
        <3>1. i \in 1 .. Len(zones) /\ zones[i] \in ZoneType
            BY <1>1, <1>4
        <3> QED BY <3>1, ZoneFields DEF ZoneType
    <2>2. ps \o zones[i].inner \in Seq(LeafType)
        BY <1>1, <2>1, ConcatProperties DEF LeafRun
    <2>3. Filled(zones[i], ps \o zones[i].inner) \in ZoneType
        BY <2>1, <2>2, FilledIs
    <2> QED BY <2>1, <2>3, ReplacedIs
<1>5. SubSeq(zones, 1, WholeBut(i)) \o ps \o SubSeq(zones, WholeBut(i) + 2, Len(zones)) \in Seq(ZoneType)
    <2> DEFINE a == SubSeq(zones, 1, WholeBut(i))  b == SubSeq(zones, WholeBut(i) + 2, Len(zones))
    <2>1. a \in Seq(ZoneType) /\ b \in Seq(ZoneType) /\ ps \in Seq(ZoneType)
        BY <1>1, <1>2 DEF LeafRun
    <2> HIDE DEF a, b
    <2>2. a \o ps \in Seq(ZoneType)
        BY <2>1, ConcatProperties
    <2>3. (a \o ps) \o b \in Seq(ZoneType)
        BY <2>1, <2>2, ConcatProperties
    <2> QED BY <2>3 DEF a, b
<1>6. AddsTo(i, s, e) \in Seq(ZoneType)
    <2> USE DEF ps
    <2>1. CASE i # 0 /\ ~Host(i).named /\ Host(i).low = s /\ Host(i).high = e
        BY <1>3, <2>1 DEF AddsTo
    <2>2. CASE ~(i # 0 /\ ~Host(i).named /\ Host(i).low = s /\ Host(i).high = e) /\ Inside(i)
        BY <1>4, <2>2 DEF AddsTo, Inside
    <2>3. CASE ~(i # 0 /\ ~Host(i).named /\ Host(i).low = s /\ Host(i).high = e) /\ ~Inside(i)
        BY <1>5, <2>3 DEF AddsTo
    <2> QED BY <2>1, <2>2, <2>3
<1> QED BY <1>1, <1>6

-----------------------------------------------------------------------------
(* The pieces of a right addition.                                         *)

\* A zone open and with nothing inside that is split around the lines from s up to e.
Divides(P, o, n, s, e) ==
    /\ P \in LeafType /\ AnyOK(P, o) /\ Leaf(P, o, n) /\ ~P.collapsed
    /\ s \in Nat /\ e \in Nat /\ P.low <= s /\ s < e /\ e <= P.high /\ e < End /\ o[e - 1] < End
    /\ P.named => ~(P.low = s /\ P.high = e)

Opens(s, e) == CanAddNewZone(s, e) /\ AddsWell(s, e) /\ s < e

\* What is split in a right addition is a zone, or the whole listing where there is none.
LEMMA HostIs ==
    ASSUME zones \in Seq(ZoneType), comments \in Maps(Notes), NEW n, ZonesOK(zones, ranges, n, comments),
           NEW s \in Nat, NEW e \in Nat, Opens(s, e), NEW i, i = Splits(s, e)
    PROVE  /\ Divides(Host(i), Origins(ranges), n, s, e)
           /\ i \in 0 .. Len(zones) /\ (i = 0 => zones = <<>>)
<1> DEFINE o == Origins(ranges)
<1>0. End \in Nat /\ End > 0 /\ Wrap = 4 * End /\ Wrap \in Nat
    BY EndIs
<1>1. e <= End /\ e # End /\ s < e /\ e - 1 \in 0 .. Wrap /\ s \in 0 .. Wrap /\ s <= e - 1
    BY <1>0 DEF Opens, CanAddNewZone, AddsWell
<1>2. Orderly(o) /\ Spanned(ranges, zones, o)
    BY SpansFold DEF ZonesOK
<1>3. o[e - 1] < End
    BY <1>1, OriginSame DEF Opens, AddsWell
<1>4. o[s] < End
    <2>1. o[s] <= o[e - 1] /\ o[s] \in Nat /\ o[e - 1] \in Nat
        BY <1>1, <1>2, OriginsGrow, OriginIs
    <2> QED BY <1>0, <1>3, <2>1
<1>5. i \in 0 .. Len(zones)
    BY SplitsIs
<1>6. CASE zones = <<>>
    <2>1. i = 0
        BY <1>5, <1>6
    <2>2. Host(i) = BareRoot(comments)
        BY <1>6, <2>1, RootIs DEF Host
    <2>3. BareRoot(comments) \in LeafType /\ AnyOK(BareRoot(comments), o) /\ Leaf(BareRoot(comments), o, n)
        <3>1. ZonesOK(<<>>, ranges, n, comments)
            BY <1>6
        <3> QED BY <3>1, RootSound
    <2>4. BareRoot(comments).low = 0 /\ BareRoot(comments).high = End /\ ~BareRoot(comments).collapsed /\ ~BareRoot(comments).named
        BY DEF BareRoot, Zone
    <2>5. Divides(BareRoot(comments), o, n, s, e)
        BY <1>0, <1>1, <1>3, <2>3, <2>4 DEF Divides
    <2> QED BY <1>5, <1>6, <2>2, <2>5
<1>7. CASE zones # <<>>
    <2>1. Laid(zones, o, n)
        BY <1>7 DEF ZonesOK
    <2>2. Ordered(zones) /\ \A x \in 1 .. Len(zones) : zones[x] \in ZoneType /\ AnyOK(zones[x], o)
                                      /\ (zones[x].inner = <<>> => Leaf(zones[x], o, n))
        BY <2>1, LaidIs
    <2> DEFINE a == At(zones, s)
    <2>3. a # 0
        BY <1>1, <1>2, <1>4, <2>1, SomeZone
    <2>4. a \in 1 .. Len(zones) /\ Within(zones[a], s)
        BY <2>2, <2>3, AtIs
    <2>5. e <= zones[a].high /\ ~(zones[a].named /\ zones[a].low = s /\ zones[a].high = e)
        BY <2>3 DEF Opens, CanAddNewZone, Fits
    <2>6. zones[a].low <= s /\ zones[a].low \in Nat
        BY <2>4, ZoneIs DEF Within
    <2> HIDE DEF a
    <2>7. i # 0 /\ zones[i].low <= s /\ e <= zones[i].high
        BY <2>4, <2>5, <2>6, SplitsIs
    <2>8. i = a
        <3>1. i \in 1 .. Len(zones)
            BY <1>5, <2>7
        <3>2. Within(zones[i], s)
            <4>1. zones[i].low \in Nat /\ zones[i].high \in Nat
                BY <3>1, ZoneIs
            <4> QED BY <1>1, <2>7, <4>1 DEF Within
        <3> QED BY <2>2, <2>4, <3>1, <3>2, OneHolds
    <2>9. zones[i].inner = <<>>
        BY <2>7 DEF Opens, AddsWell
    <2>10. zones[i] \in ZoneType /\ zones[i] \in LeafType /\ AnyOK(zones[i], o) /\ Leaf(zones[i], o, n)
        <3>1. zones[i] \in ZoneType /\ AnyOK(zones[i], o) /\ Leaf(zones[i], o, n)
            BY <2>2, <2>4, <2>8, <2>9
        <3> QED BY <2>9, <3>1, LeafOf
    <2>11. ~zones[i].collapsed
        <3> SUFFICES ASSUME zones[i].collapsed
                     PROVE  FALSE
            OBVIOUS
        <3>1. zones[i].named /\ zones[i].high = zones[i].low + 1
            BY <2>10 DEF Leaf, Spread
        <3>2. zones[i].low \in Nat
            BY <2>6, <2>8
        <3>3. zones[i].low = s /\ zones[i].high = e
            BY <1>1, <2>7, <3>1, <3>2
        <3> QED BY <2>5, <2>8, <3>1, <3>3
    <2>12. Host(i) = zones[i]
        BY <2>7 DEF Host
    <2>13. Divides(zones[i], o, n, s, e)
        BY <1>0, <1>1, <1>3, <2>5, <2>7, <2>8, <2>10, <2>11 DEF Divides
    <2> QED BY <1>5, <2>7, <2>12, <2>13
<1> QED BY <1>6, <1>7

\* Where the cuts are in the listing.
LEMMA CutsLie ==
    ASSUME NEW P, NEW o, Orderly(o), NEW n, NEW s, NEW e, Divides(P, o, n, s, e)
    PROVE  /\ P \in LeafType /\ AnyOK(P, o) /\ Runs(P, o, P.high) /\ Noted(P, o, n)
           /\ P.low \in Nat /\ P.high \in Nat /\ s \in Nat /\ e \in Nat /\ P.low <= s /\ s < e /\ e <= P.high /\ e < End
           /\ s \in 0 .. Wrap /\ e \in 0 .. Wrap /\ P.low \in 0 .. Wrap /\ P.high \in 0 .. Wrap
           /\ o[P.low] \in Nat /\ o[s] \in Nat /\ o[e] \in Nat /\ o[P.high] \in Nat
           /\ o[s] = o[P.low] + (s - P.low) /\ o[e] = o[P.low] + (e - P.low)
           /\ o[s] <= o[P.high] /\ o[e] <= o[P.high] /\ o[e] <= End
           /\ o[e - 1] < End /\ (s = 0 \/ o[s - 1] < End) /\ (P.low = 0 \/ o[P.low - 1] < End)
<1>0. End \in Nat /\ End > 0 /\ Wrap = 4 * End /\ Wrap \in Nat
    BY EndIs
<1>1. P \in LeafType /\ AnyOK(P, o) /\ Leaf(P, o, n) /\ ~P.collapsed /\ P \in ZonesWith({<<>>})
      /\ s \in Nat /\ e \in Nat /\ P.low <= s /\ s < e /\ e <= P.high /\ e < End /\ o[e - 1] < End
    BY DEF Divides, LeafType
<1>2. Runs(P, o, P.high) /\ Noted(P, o, n)
    BY <1>1 DEF Leaf, Spread, Straight, Runs
<1>3. P.low \in Nat /\ P.high \in Nat /\ P.high <= 2 * End /\ P.low \in 0 .. Wrap /\ P.high \in 0 .. Wrap
      /\ o[P.low] \in Nat /\ o[P.high] \in Nat
    BY <1>1, AnyBounds
<1>4. s \in 0 .. Wrap /\ e \in 0 .. Wrap /\ e - 1 \in 0 .. Wrap /\ (s # 0 => s - 1 \in 0 .. Wrap)
    BY <1>0, <1>1
<1>5. o[s] \in Nat /\ o[e] \in Nat /\ o[e] <= End /\ o[e - 1] \in Nat
    BY <1>4, OriginIs
<1>6. o[s] <= o[P.high] /\ o[e] <= o[P.high]
    <2>1. s <= P.high
        BY <1>1, <1>3
    <2> QED BY <1>1, <1>3, <1>4, <2>1, OriginsGrow
<1>7. s = 0 \/ o[s - 1] < End
    <2> SUFFICES ASSUME s # 0
                 PROVE  o[s - 1] < End
        OBVIOUS
    <2>1. s - 1 <= e - 1
        BY <1>1
    <2>2. o[s - 1] <= o[e - 1] /\ o[s - 1] \in Nat
        BY <1>4, <2>1, OriginsGrow, OriginIs
    <2> QED BY <1>0, <1>1, <1>5, <2>2
<1>8. P.low = 0 \/ o[P.low - 1] < End
    BY <1>1 DEF AnyOK
<1>9. Runs(P, o, s) /\ Runs(P, o, e)
    <2>1. \A x \in P.low .. P.high : o[x] = Cap(o[P.low] + (x - P.low))
        BY <1>2 DEF Runs
    <2>2. P.low .. s \subseteq P.low .. P.high /\ P.low .. e \subseteq P.low .. P.high
        BY <1>1, <1>3
    <2> QED BY <2>1, <2>2 DEF Runs
<1>10. o[s] = o[P.low] + (s - P.low)
    <2>1. s <= Wrap
        BY <1>4, <1>0
    <2> QED BY <1>1, <1>7, <1>9, <2>1, ExactRun
<1>11. o[e] = o[P.low] + (e - P.low)
    <2>1. e <= Wrap /\ P.low <= e
        BY <1>0, <1>1, <1>3, <1>4
    <2> QED BY <1>1, <1>9, <2>1, ExactRun
<1>12. P \in LeafType /\ AnyOK(P, o)
    BY <1>1
<1> QED BY <1>1, <1>2, <1>3, <1>4, <1>5, <1>6, <1>7, <1>8, <1>10, <1>11

\* The line high up to which the listing runs on behind the zone that is split ends it.
Closes(P, o, e, high) ==
    /\ high \in Nat /\ e <= high /\ high <= End /\ o[high] = o[P.high] /\ Runs(P, o, high)

\* What AddNewZone is given when it is right.
Divided(P, o, n, s, e, asm, high) ==
    /\ Divides(P, o, n, s, e) /\ asm = Instr(o[P.low]) /\ asm \in Words /\ Closes(P, o, e, high)

\* The part up to a line is one that cuts the labels.
LEMMA CutBetween ==
    ASSUME NEW X, NEW f \in Maps(X), NEW low \in Int, NEW high \in Int, NEW a \in Int, NEW b \in Int,
           NEW first \in BOOLEAN, NEW last \in BOOLEAN,
           first \/ a <= low, last \/ high <= b, \A k \in Words : a <= k /\ k < b => low <= k /\ k < high
    PROVE  CutOf(Between(f, low, high), f, a, b, first, last)
<1>0. \A k \in Words : k \in Int
    BY EndIs DEF Words
<1>1. /\ Between(f, low, high) \in Maps(X) /\ DOMAIN f \subseteq Words
      /\ \A k \in Words : k \in DOMAIN Between(f, low, high) <=> k \in DOMAIN f /\ low <= k /\ k < high
      /\ \A k \in DOMAIN Between(f, low, high) : Between(f, low, high)[k] = f[k]
    <2>1. DOMAIN f \subseteq Words
        BY MapIs
    <2>2. /\ Between(f, low, high) \in Maps(X)
          /\ \A k \in Words : k \in DOMAIN Between(f, low, high) <=> k \in DOMAIN f /\ low <= k /\ k < high
          /\ \A k \in DOMAIN Between(f, low, high) : Between(f, low, high)[k] = f[k]
        BY BetweenIs
    <2> QED BY <2>1, <2>2
<1>2. DOMAIN Between(f, low, high) \subseteq Words
    BY <1>1, MapIs
<1> DEFINE g == Between(f, low, high)
<1>3. g = Between(f, low, high)
    OBVIOUS
<1> HIDE DEF g
<1>4. \A k \in DOMAIN g : k \in DOMAIN f /\ g[k] = f[k] /\ low <= k /\ k < high /\ k \in Int
    BY <1>0, <1>1, <1>2, <1>3
<1>5. \A k \in DOMAIN g : (a <= k \/ first) /\ (k < b \/ last)
    BY <1>4
<1>6. \A k \in DOMAIN f : a <= k /\ k < b => k \in DOMAIN g
    BY <1>1, <1>3
<1> QED BY <1>3, <1>4, <1>5, <1>6 DEF CutOf

\* h is f and, where f has nothing, g.
IsOver(h, f, g, X) ==
    /\ h \in Maps(X) /\ DOMAIN h = DOMAIN f \cup DOMAIN g
    /\ \A k \in DOMAIN f \cup DOMAIN g : h[k] = IF k \in DOMAIN f THEN f[k] ELSE g[k]

LEMMA IsOverThen ==
    ASSUME NEW X, NEW f \in Maps(X), NEW g \in Maps(X)
    PROVE  IsOver(Over(f, g), f, g, X)
<1> DEFINE h == Over(f, g)
<1>1. h \in Maps(X)
    BY OverIs
<1>2. DOMAIN h = DOMAIN f \cup DOMAIN g
    BY DEF Over
<1>3. \A k \in DOMAIN f \cup DOMAIN g : h[k] = IF k \in DOMAIN f THEN f[k] ELSE g[k]
    BY DEF Over
<1> QED BY <1>1, <1>2, <1>3 DEF IsOver

\* Two parts side by side, the first from the start on, cut it too.
LEMMA CutOver ==
    ASSUME NEW X, NEW f \in Maps(X), NEW m \in Int, NEW high \in Int, NEW a \in Int, NEW b \in Int,
           NEW first \in BOOLEAN, NEW last \in BOOLEAN,
           first, last \/ high <= b, 0 <= m, b <= high, last \/ m <= b \/ m = 0
    PROVE  CutOf(Over(Between(f, 0, m), Between(f, m, high)), f, a, b, first, last)
<1>0. \A k \in Words : k \in Int /\ 0 <= k
    BY EndIs DEF Words
<1> DEFINE u == Between(f, 0, m)  v == Between(f, m, high)  g == Over(u, v)
<1>1. /\ u \in Maps(X) /\ \A k \in Words : k \in DOMAIN u <=> k \in DOMAIN f /\ 0 <= k /\ k < m
      /\ \A k \in DOMAIN u : u[k] = f[k]
    BY BetweenIs
<1>2. /\ v \in Maps(X) /\ \A k \in Words : k \in DOMAIN v <=> k \in DOMAIN f /\ m <= k /\ k < high
      /\ \A k \in DOMAIN v : v[k] = f[k]
    BY BetweenIs
<1>3. DOMAIN u \subseteq Words /\ DOMAIN v \subseteq Words /\ DOMAIN f \subseteq Words
    BY <1>1, <1>2, MapIs
<1> HIDE DEF u, v
<1>4. /\ DOMAIN g = DOMAIN u \cup DOMAIN v
      /\ \A k \in DOMAIN u \cup DOMAIN v : g[k] = IF k \in DOMAIN u THEN u[k] ELSE v[k]
    <2>1. u \in Maps(X) /\ v \in Maps(X)
        BY <1>1, <1>2
    <2>2. /\ Over(u, v) \in Maps(X)
          /\ DOMAIN Over(u, v) = DOMAIN u \cup DOMAIN v
          /\ \A k \in DOMAIN u \cup DOMAIN v : Over(u, v)[k] = IF k \in DOMAIN u THEN u[k] ELSE v[k]
        <3>1. IsOver(Over(u, v), u, v, X)
            BY <2>1, IsOverThen
        <3> QED BY <2>1, <3>1 DEF IsOver
    <2> QED BY <2>2
<1> HIDE DEF g
<1>5. \A k \in DOMAIN g : k \in DOMAIN f /\ g[k] = f[k] /\ k \in Int /\ 0 <= k /\ (k < m \/ k < high)
    BY <1>0, <1>1, <1>2, <1>3, <1>4
<1>6. \A k \in DOMAIN g : (a <= k \/ first) /\ (k < b \/ last)
    BY <1>5
<1>7. \A k \in DOMAIN f : a <= k /\ k < b => k \in DOMAIN g
    <2> SUFFICES ASSUME NEW k \in DOMAIN f, a <= k, k < b
                 PROVE  k \in DOMAIN g
        OBVIOUS
    <2>1. k \in Words /\ k \in Int /\ 0 <= k
        BY <1>0, <1>3
    <2> QED BY <1>1, <1>2, <1>4, <2>1
<1>8. CutOf(g, f, a, b, first, last)
    BY <1>5, <1>6, <1>7 DEF CutOf
<1> QED BY <1>8 DEF g, u, v

\* A sound piece.
Fine(y, o, n) == y \in LeafType /\ y \in ZonesWith({<<>>}) /\ AnyOK(y, o) /\ Leaf(y, o, n)

\* The piece before.
LEMMA AheadFine ==
    ASSUME NEW P, NEW o, Orderly(o), NEW n, NEW s, NEW e, NEW asm, NEW high, Divided(P, o, n, s, e, asm, high)
    PROVE  /\ Fine(Ahead(P, s, asm), o, n) /\ AsmAfter(Ahead(P, s, asm)) = Instr(o[s])
           /\ Ahead(P, s, asm).low = P.low /\ Ahead(P, s, asm).high = s /\ Ahead(P, s, asm).named = FALSE
           /\ Divided(P, o, n, s, e, asm, high)
<1>0. End \in Nat /\ End > 0 /\ Wrap = 4 * End /\ Wrap \in Nat
    BY EndIs
<1>1. /\ P \in LeafType /\ AnyOK(P, o) /\ Runs(P, o, P.high) /\ Noted(P, o, n)
      /\ P.low \in Nat /\ P.high \in Nat /\ s \in Nat /\ e \in Nat /\ P.low <= s /\ s < e /\ e <= P.high /\ e < End
      /\ o[P.low] \in Nat /\ o[s] \in Nat
      /\ o[s] = o[P.low] + (s - P.low) /\ o[s] <= o[P.high]
      /\ (s = 0 \/ o[s - 1] < End) /\ (P.low = 0 \/ o[P.low - 1] < End)
    BY CutsLie DEF Divided
<1>2. asm = Instr(o[P.low]) /\ asm \in Words
    BY DEF Divided
<1> DEFINE y == Ahead(P, s, asm)  L == Between(P.labels, 0, s)  C == Between(P.comments, 0, Above(s))
<1>3. P \in ZonesWith({<<>>}) /\ P.labels \in Maps(Labels) /\ P.comments \in Maps(Notes)
    <2>1. P \in ZonesWith({<<>>})
        BY <1>1 DEF LeafType
    <2> QED BY <2>1, ZoneFields
<1>4. y \in LeafType /\ y.low = P.low /\ y.high = s /\ y.workLow = P.low /\ y.workHigh = s /\ y.named = FALSE
      /\ y.asm = asm /\ y.labels = L /\ y.comments = C /\ y.collapsed = FALSE /\ y.inner = <<>>
    <2>1. s \in 0 .. End /\ e \in 1 .. End /\ End \in Coords
        BY <1>0, <1>1 DEF Coords
    <2>2. y \in LeafType /\ ZoneHas(y, P.low, s, FALSE, asm, L, C)
        BY <1>2, <1>3, <2>1, PiecesType
    <2> HIDE DEF y, L, C
    <2> QED BY <2>2 DEF ZoneHas
<1>5. Placed(y, P, o)
    <2> HIDE DEF y, L, C
    <2>1. Runs(P, o, s)
        <3>1. P.low .. s \subseteq P.low .. P.high
            BY <1>1
        <3> QED BY <1>1, <3>1 DEF Runs
    <2>2. o[y.low] = o[P.low] + (y.low - P.low)
        BY <1>1, <1>4
    <2>3. ~y.collapsed /\ ~y.named /\ y.high <= End /\ P.low <= y.low /\ y.low <= y.high /\ o[y.high] <= o[P.high]
        BY <1>0, <1>1, <1>4
    <2>4. Runs(P, o, y.high) /\ (y.low = 0 \/ o[y.low - 1] < End) /\ y.asm = Instr(o[y.low])
        BY <1>1, <1>2, <1>4, <2>1
    <2>5. y.workLow = y.low /\ y.workHigh = y.high /\ y.inner = <<>>
        BY <1>4
    <2> QED BY <2>2, <2>3, <2>4, <2>5 DEF Placed
<1>6. CutOf(L, P.labels, P.low, s, TRUE, o[s] = o[P.high])
    <2> DEFINE t == TRUE  v == o[s] = o[P.high]  ff == P.labels  lo == P.low  z == 0
    <2>1. ff \in Maps(Labels) /\ z \in Int /\ s \in Int /\ lo \in Int /\ t \in BOOLEAN /\ v \in BOOLEAN /\ (t \/ lo <= z) /\ (v \/ s <= s)
        BY <1>1, <1>3
    <2>2. \A k \in Words : lo <= k /\ k < s => z <= k /\ k < s
        BY <1>0 DEF Words
    <2> HIDE DEF t, v, ff, lo, z
    <2>3. CutOf(Between(ff, z, s), ff, lo, s, t, v)
        BY <2>1, <2>2, CutBetween
    <2> QED BY <2>3 DEF t, v, ff, lo, z
<1>7. CutOf(C, P.comments, P.low - 1, s - 1, TRUE, o[s] = o[P.high])
    <2> DEFINE t == TRUE  v == o[s] = o[P.high]  ff == P.comments  lo == P.low - 1  z == 0  h == Above(s)  b == s - 1
    <2>1. ff \in Maps(Notes) /\ z \in Int /\ lo \in Int /\ t \in BOOLEAN /\ v \in BOOLEAN /\ (t \/ lo <= z)
        BY <1>1, <1>3
    <2>2. h \in Int /\ b \in Int
        BY <1>1 DEF Above
    <2>3. \A k \in Words : lo <= k /\ k < b => z <= k /\ k < h
        BY <1>0, <1>1 DEF Words, Above
    <2>4. CASE s > 0
        <3>1. v \/ h <= b
            BY <1>1, <2>4 DEF Above
        <3> HIDE DEF t, v, ff, lo, z, h, b
        <3>2. CutOf(Between(ff, z, h), ff, lo, b, t, v)
            BY <2>1, <2>2, <2>3, <3>1, CutBetween
        <3> QED BY <3>2 DEF t, v, ff, lo, z, h, b
    <2>5. CASE s = 0
        <3>1. C = Between(P.comments, 0, 0) /\ DOMAIN C \subseteq Words
            <4>1. Between(P.comments, 0, h) \in Maps(Notes)
                BY <1>3, <2>2, BetweenIs
            <4>2. DOMAIN Between(P.comments, 0, h) \subseteq Words
                BY <4>1, MapIs
            <4> QED BY <2>5, <4>2 DEF Above
        <3>2. \A k \in Words : k \notin DOMAIN C
            <4>1. \A k \in Words : k \in DOMAIN Between(P.comments, 0, 0) <=> k \in DOMAIN P.comments /\ 0 <= k /\ k < 0
                BY <1>3, BetweenIs
            <4>2. \A k \in Words : ~(0 <= k /\ k < 0)
                BY <1>0 DEF Words
            <4> QED BY <3>1, <4>1, <4>2
        <3>3. \A k \in DOMAIN P.comments : ~(k < s - 1)
            <4>1. DOMAIN P.comments \subseteq Words
                BY <1>3, MapIs
            <4> QED BY <1>0, <2>5, <4>1 DEF Words
        <3> HIDE DEF C
        <3> QED BY <3>1, <3>2, <3>3 DEF CutOf
    <2>6. s > 0 \/ s = 0
        BY <1>1
    <2> QED BY <2>4, <2>5, <2>6, Zenon
<1> HIDE DEF y, L, C
<1>8. PieceOf(y, P, o)
    <2>1. y.low = P.low
        BY <1>4
    <2> QED BY <1>4, <1>5, <1>6, <1>7, <2>1 DEF PieceOf
<1>9. y \in ZonesWith({<<>>})
    BY <1>4 DEF LeafType
<1>10. AnyOK(y, o) /\ Leaf(y, o, n)
    BY <1>1, <1>3, <1>8, <1>9, PieceIs
<1>11. AsmAfter(y) = Instr(o[s])
    <2>1. Exact(y, o)
        BY <1>1, <1>4 DEF Exact
    <2>2. AsmAfter(y) = Instr(o[y.high])
        BY <1>9, <1>10, <2>1, AsmAfterIs
    <2> QED BY <1>4, <2>2
<1> QED BY <1>4, <1>9, <1>10, <1>11 DEF Fine, y

\* What is placed and cut right is a sound piece; the count behind it is that of the listing.
LEMMA CutFine ==
    ASSUME NEW P, NEW o, Orderly(o), NEW n, NEW s, NEW e, NEW asm, NEW high, Divided(P, o, n, s, e, asm, high),
           NEW y, y \in LeafType, PieceOf(y, P, o), y.collapsed = FALSE,
           o[y.high] - o[y.low] = y.high - y.low
    PROVE  Fine(y, o, n) /\ AsmAfter(y) = Instr(o[y.high])
<1>1. P \in ZonesWith({<<>>}) /\ AnyOK(P, o) /\ Noted(P, o, n)
    BY CutsLie DEF Divided, LeafType
<1>2. y \in ZonesWith({<<>>})
    BY DEF LeafType
<1>3. AnyOK(y, o) /\ Leaf(y, o, n)
    BY <1>1, <1>2, PieceIs
<1>4. Exact(y, o)
    BY DEF Exact
<1>5. AsmAfter(y) = Instr(o[y.high])
    BY <1>2, <1>3, <1>4, AsmAfterIs
<1> QED BY <1>2, <1>3, <1>5 DEF Fine

\* An open zone that shows as many lines of the listing as of the view.
Even(y, o) == o[y.high] - o[y.low] = y.high - y.low

\* What runs on up to a line does so up to one before.
LEMMA RunsShort ==
    ASSUME NEW z, NEW o, NEW h \in Int, Runs(z, o, h), NEW k \in Int, k <= h, z.low \in Int
    PROVE  Runs(z, o, k)
<1>1. \A x \in z.low .. k : x \in z.low .. h
    OBVIOUS
<1> QED BY <1>1 DEF Runs

\* The zone that was chosen lies where its lines are.
LEMMA NewestPlaced ==
    ASSUME NEW P, NEW o, Orderly(o), NEW n, NEW s, NEW e, NEW asm, NEW high, Divided(P, o, n, s, e, asm, high),
           NEW y, y.low = s, y.high = e, y.workLow = s, y.workHigh = e, y.named = TRUE, y.collapsed = FALSE,
           y.inner = <<>>, y.asm = Instr(o[s])
    PROVE  Placed(y, P, o) /\ Even(y, o) /\ Divided(P, o, n, s, e, asm, high)
<1>0. End \in Nat /\ End > 0 /\ Wrap = 4 * End /\ Wrap \in Nat
    BY EndIs
<1>1. /\ Runs(P, o, P.high)
      /\ P.low \in Nat /\ P.high \in Nat /\ s \in Nat /\ e \in Nat /\ P.low <= s /\ s < e /\ e <= P.high /\ e < End
      /\ o[P.low] \in Nat /\ o[s] \in Nat /\ o[e] \in Nat
      /\ o[s] = o[P.low] + (s - P.low) /\ o[e] = o[P.low] + (e - P.low) /\ o[e] <= o[P.high]
      /\ (s = 0 \/ o[s - 1] < End) /\ o[e - 1] < End
    BY CutsLie DEF Divided
<1>2. Runs(P, o, e)
    <2>1. P.low \in Int /\ P.high \in Int /\ e \in Int /\ e <= P.high
        BY <1>1, SMTT(60)
    <2> QED BY <1>1, <2>1, RunsShort
<1>3. o[y.low] = o[P.low] + (y.low - P.low)
    BY <1>1
<1>4. P.low <= y.low /\ y.low <= y.high /\ y.high <= End /\ ~y.collapsed /\ y.inner = <<>>
    BY <1>0, <1>1
<1>5. Runs(P, o, y.high) /\ o[y.high] <= o[P.high] /\ (y.low = 0 \/ o[y.low - 1] < End) /\ y.asm = Instr(o[y.low])
    BY <1>1, <1>2
<1>6. y.named => y.low < y.high /\ o[y.high - 1] < End
    BY <1>1
<1>7. Placed(y, P, o)
    BY <1>3, <1>4, <1>5, <1>6 DEF Placed
<1>8. o[y.high] - o[y.low] = y.high - y.low
    <2> DEFINE u == o[s]  v == o[e]  w == o[P.low]  p == P.low
    <2>1. u = w + (s - p) /\ v = w + (e - p) /\ w \in Int /\ p \in Int /\ s \in Int /\ e \in Int
        BY <1>1
    <2> HIDE DEF u, v, w, p
    <2>2. v - u = e - s
        BY <2>1
    <2> QED BY <2>2 DEF u, v
<1> QED BY <1>7, <1>8 DEF Even

\* The zone that was chosen, behind the piece before.
LEMMA ChosenFine ==
    ASSUME NEW P, NEW o, Orderly(o), NEW n, NEW s, NEW e, NEW asm, NEW high, Divided(P, o, n, s, e, asm, high), s # P.low
    PROVE  LET y == Chosen(P, s, e, asm)
           IN  /\ Fine(y, o, n) /\ AsmAfter(y) = Instr(o[e]) /\ y.low = s /\ y.high = e /\ y.named = TRUE /\ y.collapsed = FALSE
               /\ Divided(P, o, n, s, e, asm, high)
<1>0. End \in Nat /\ End > 0 /\ Wrap = 4 * End /\ Wrap \in Nat
    BY EndIs
<1>1. /\ P \in ZonesWith({<<>>}) /\ P.low \in Nat /\ P.low < s
      /\ s \in Nat /\ e \in Nat /\ s < e /\ e < End
    BY CutsLie DEF Divided, LeafType
<1>2. asm \in Words
    BY DEF Divided
<1> DEFINE y == Chosen(P, s, e, asm)  L == Between(P.labels, s, e)  C == Between(P.comments, Above(s), e - 1)
<1>3. P.labels \in Maps(Labels) /\ P.comments \in Maps(Notes)
    BY <1>1, ZoneFields
<1>4. y \in LeafType /\ y.low = s /\ y.high = e /\ y.workLow = s /\ y.workHigh = e /\ y.named = TRUE
      /\ y.asm = AsmAfter(Ahead(P, s, asm)) /\ y.labels = L /\ y.comments = C /\ y.collapsed = FALSE /\ y.inner = <<>>
    <2>1. s \in 0 .. End /\ e \in 1 .. End /\ End \in Coords
        BY <1>0, <1>1 DEF Coords
    <2>2. y \in LeafType /\ ZoneHas(y, s, e, TRUE, AsmAfter(Ahead(P, s, asm)), L, C)
        BY <1>1, <1>2, <2>1, PiecesType
    <2> HIDE DEF y, L, C
    <2> QED BY <2>2 DEF ZoneHas
<1>5. y.asm = Instr(o[s])
    <2>1. AsmAfter(Ahead(P, s, asm)) = Instr(o[s])
        <3>1. /\ Fine(Ahead(P, s, asm), o, n) /\ AsmAfter(Ahead(P, s, asm)) = Instr(o[s])
              /\ Ahead(P, s, asm).low = P.low /\ Ahead(P, s, asm).high = s /\ Ahead(P, s, asm).named = FALSE
              /\ Divided(P, o, n, s, e, asm, high)
            <4>1. Orderly(o) /\ Divided(P, o, n, s, e, asm, high)
                OBVIOUS
            <4> HIDE DEF y, L, C
            <4> QED BY <4>1, AheadFine
        <3> QED BY <3>1
    <2> HIDE DEF y, L, C
    <2> QED BY <1>4, <2>1
<1>6. Placed(y, P, o) /\ o[y.high] - o[y.low] = y.high - y.low
    <2> HIDE DEF y, L, C
    <2>1. y.low = s /\ y.high = e /\ y.workLow = s /\ y.workHigh = e /\ y.named = TRUE /\ y.collapsed = FALSE
          /\ y.inner = <<>> /\ y.asm = Instr(o[s])
        BY <1>4, <1>5
    <2>2. Orderly(o) /\ Divided(P, o, n, s, e, asm, high)
        OBVIOUS
    <2>3. Placed(y, P, o) /\ Even(y, o) /\ Divided(P, o, n, s, e, asm, high)
        BY <2>1, <2>2, NewestPlaced
    <2> QED BY <2>3 DEF Even
<1> DEFINE first == y.low = P.low  last == o[y.high] = o[P.high]
<1>7. CutOf(L, P.labels, s, e, first, last)
    <2> DEFINE ff == P.labels
    <2>1. ff \in Maps(Labels) /\ s \in Int /\ e \in Int /\ first \in BOOLEAN /\ last \in BOOLEAN
          /\ (first \/ s <= s) /\ (last \/ e <= e) /\ \A k \in Words : s <= k /\ k < e => s <= k /\ k < e
        BY <1>1, <1>3
    <2> HIDE DEF ff, first, last
    <2>2. CutOf(Between(ff, s, e), ff, s, e, first, last)
        BY <2>1, CutBetween
    <2> QED BY <2>2 DEF ff
<1>8. CutOf(C, P.comments, s - 1, e - 1, first, last)
    <2> DEFINE ff == P.comments  a == s - 1  b == e - 1
    <2>1. ff \in Maps(Notes) /\ a \in Int /\ b \in Int /\ first \in BOOLEAN /\ last \in BOOLEAN
          /\ (first \/ a <= a) /\ (last \/ b <= b) /\ \A k \in Words : a <= k /\ k < b => a <= k /\ k < b
        BY <1>1, <1>3
    <2> HIDE DEF ff, first, last, a, b
    <2>2. CutOf(Between(ff, a, b), ff, a, b, first, last)
        BY <2>1, CutBetween
    <2>3. Above(s) = a
        BY <1>1 DEF Above, a
    <2> QED BY <2>2, <2>3 DEF ff, a, b
<1>9. PieceOf(y, P, o)
    <2> HIDE DEF y, L, C
    <2> QED BY <1>4, <1>6, <1>7, <1>8 DEF PieceOf
<1> HIDE DEF y, L, C
<1>10. Fine(y, o, n) /\ AsmAfter(y) = Instr(o[y.high])
    BY <1>4, <1>6, <1>9, CutFine
<1> QED BY <1>4, <1>10 DEF y

\* What is said of the zone chosen.
NewestSays(y, P, o, n, s, e, asm, high) ==
    /\ Fine(y, o, n) /\ AsmAfter(y) = Instr(o[e]) /\ y.low = s /\ y.high = e /\ y.named = TRUE /\ y.collapsed = FALSE
    /\ Divided(P, o, n, s, e, asm, high)

\* The zone that was chosen, where it begins with what is split.
LEMMA OpeningFine ==
    ASSUME NEW P, NEW o, Orderly(o), NEW n, NEW s, NEW e, NEW asm, NEW high, Divided(P, o, n, s, e, asm, high), s = P.low
    PROVE  NewestSays(Opening(P, s, e, asm), P, o, n, s, e, asm, high)
<1>0. End \in Nat /\ End > 0 /\ Wrap = 4 * End /\ Wrap \in Nat
    BY EndIs
<1>1. /\ P \in ZonesWith({<<>>}) /\ P.low \in Nat
      /\ s \in Nat /\ e \in Nat /\ s < e /\ e < End
    BY CutsLie DEF Divided, LeafType
<1>2. asm \in Words /\ asm = Instr(o[s])
    BY DEF Divided
<1> DEFINE y == Opening(P, s, e, asm)  L == Over(Between(P.labels, 0, s), Between(P.labels, s, e))
           C == Over(Between(P.comments, 0, Above(s)), Between(P.comments, Above(s), e - 1))
<1>3. P.labels \in Maps(Labels) /\ P.comments \in Maps(Notes)
    BY <1>1, ZoneFields
<1>4. y \in LeafType /\ y.low = s /\ y.high = e /\ y.workLow = s /\ y.workHigh = e /\ y.named = TRUE
      /\ y.asm = asm /\ y.labels = L /\ y.comments = C /\ y.collapsed = FALSE /\ y.inner = <<>>
    <2>1. s \in 0 .. End /\ e \in 1 .. End /\ End \in Coords
        BY <1>0, <1>1 DEF Coords
    <2>2. y \in LeafType /\ ZoneHas(y, s, e, TRUE, asm, L, C)
        BY <1>1, <1>2, <2>1, PiecesType
    <2> HIDE DEF y, L, C
    <2> QED BY <2>2 DEF ZoneHas
<1>5. Placed(y, P, o) /\ o[y.high] - o[y.low] = y.high - y.low
    <2> HIDE DEF y, L, C
    <2>1. y.low = s /\ y.high = e /\ y.workLow = s /\ y.workHigh = e /\ y.named = TRUE /\ y.collapsed = FALSE
          /\ y.inner = <<>> /\ y.asm = Instr(o[s])
        BY <1>2, <1>4
    <2>2. Orderly(o) /\ Divided(P, o, n, s, e, asm, high)
        OBVIOUS
    <2>3. Placed(y, P, o) /\ Even(y, o) /\ Divided(P, o, n, s, e, asm, high)
        BY <2>1, <2>2, NewestPlaced, ZenonT(60)
    <2> QED BY <2>3 DEF Even
<1> DEFINE first == y.low = P.low  last == o[y.high] = o[P.high]
<1>6. first
    <2> HIDE DEF y, L, C
    <2> QED BY <1>4
<1>7. CutOf(L, P.labels, s, e, first, last)
    <2> DEFINE ff == P.labels
    <2>1. ff \in Maps(Labels) /\ s \in Int /\ e \in Int /\ first \in BOOLEAN /\ last \in BOOLEAN
          /\ first /\ (last \/ e <= e) /\ 0 <= s /\ e <= e /\ (last \/ s <= e \/ s = 0)
        BY <1>1, <1>3, <1>6
    <2> HIDE DEF ff, first, last
    <2>2. CutOf(Over(Between(ff, 0, s), Between(ff, s, e)), ff, s, e, first, last)
        BY <2>1, CutOver, ZenonT(60)
    <2> QED BY <2>2 DEF ff
<1>8. CutOf(C, P.comments, s - 1, e - 1, first, last)
    <2> DEFINE ff == P.comments  a == s - 1  b == e - 1  m == Above(s)
    <2>1. ff \in Maps(Notes) /\ a \in Int /\ b \in Int /\ m \in Int /\ first \in BOOLEAN /\ last \in BOOLEAN
          /\ first /\ (last \/ b <= b) /\ 0 <= m /\ b <= b /\ (last \/ m <= b \/ m = 0)
        BY <1>1, <1>3, <1>6 DEF Above
    <2> HIDE DEF ff, first, last, a, b, m
    <2>2. CutOf(Over(Between(ff, 0, m), Between(ff, m, b)), ff, a, b, first, last)
        BY <2>1, CutOver, ZenonT(60)
    <2> QED BY <2>2 DEF ff, a, b, m
<1>9. PieceOf(y, P, o)
    <2> HIDE DEF y, L, C
    <2> QED BY <1>4, <1>5, <1>7, <1>8 DEF PieceOf
<1> HIDE DEF y, L, C
<1>10. Fine(y, o, n) /\ AsmAfter(y) = Instr(o[y.high])
    BY <1>4, <1>5, <1>9, CutFine
<1> QED BY <1>4, <1>10 DEF y, NewestSays

\* The zone that was chosen, either way.
LEMMA NewestFine ==
    ASSUME NEW P, NEW o, Orderly(o), NEW n, NEW s, NEW e, NEW asm, NEW high, Divided(P, o, n, s, e, asm, high)
    PROVE  LET y == Newest(P, s, e, asm)
           IN  /\ Fine(y, o, n) /\ AsmAfter(y) = Instr(o[e]) /\ y.low = s /\ y.high = e /\ y.named = TRUE /\ y.collapsed = FALSE
               /\ Divided(P, o, n, s, e, asm, high)
<1>1. CASE s = P.low
    <2>1. NewestSays(Opening(P, s, e, asm), P, o, n, s, e, asm, high)
        BY <1>1, OpeningFine
    <2>2. Newest(P, s, e, asm) = Opening(P, s, e, asm)
        BY <1>1 DEF Newest
    <2> QED BY <2>1, <2>2 DEF NewestSays
<1>2. CASE s # P.low
    <2>1. LET y == Chosen(P, s, e, asm)
          IN  /\ Fine(y, o, n) /\ AsmAfter(y) = Instr(o[e]) /\ y.low = s /\ y.high = e /\ y.named = TRUE /\ y.collapsed = FALSE
              /\ Divided(P, o, n, s, e, asm, high)
        BY <1>2, ChosenFine
    <2>2. Newest(P, s, e, asm) = Chosen(P, s, e, asm)
        BY <1>2 DEF Newest
    <2> QED BY <2>1, <2>2
<1> QED BY <1>1, <1>2

\* The piece behind.
LEMMA BehindFine ==
    ASSUME NEW P, NEW o, Orderly(o), NEW n, NEW s, NEW e, NEW asm, NEW high, Divided(P, o, n, s, e, asm, high)
    PROVE  LET y == Behind(P, s, e, asm, high)
           IN  Fine(y, o, n) /\ y.low = e /\ y.high = high /\ y.named = FALSE /\ Divided(P, o, n, s, e, asm, high)
<1>0. End \in Nat /\ End > 0 /\ Wrap = 4 * End /\ Wrap \in Nat
    BY EndIs
<1>1. /\ P \in ZonesWith({<<>>}) /\ AnyOK(P, o) /\ P.low \in Nat /\ P.low < e /\ P.high \in Nat /\ Noted(P, o, n)
      /\ s \in Nat /\ e \in Nat /\ s < e /\ e < End /\ o[e] \in Nat
      /\ o[P.low] \in Nat /\ o[e] = o[P.low] + (e - P.low) /\ o[e - 1] < End /\ o[P.high] \in Nat
    BY CutsLie DEF Divided, LeafType
<1>2. asm \in Words /\ high \in Nat /\ e <= high /\ high <= End /\ o[high] = o[P.high] /\ Runs(P, o, high)
    BY DEF Divided, Closes
<1> DEFINE y == Behind(P, s, e, asm, high)  L == Between(P.labels, e, Wrap)  C == Between(P.comments, e - 1, Wrap)
           m == AsmAfter(Newest(P, s, e, asm))
<1>3. P.labels \in Maps(Labels) /\ P.comments \in Maps(Notes)
    BY <1>1, ZoneFields
<1>4. y \in LeafType /\ y.low = e /\ y.high = high /\ y.workLow = e /\ y.workHigh = high /\ y.named = FALSE
      /\ y.asm = m /\ y.labels = L /\ y.comments = C /\ y.collapsed = FALSE /\ y.inner = <<>>
    <2> DEFINE w == IF e = End THEN s ELSE e
    <2>1. s \in 0 .. End /\ e \in 1 .. End /\ high \in Coords
        BY <1>0, <1>1, <1>2 DEF Coords
    <2>2. y \in LeafType /\ ZoneHas(y, w, high, FALSE, m, L, C)
        BY <1>1, <1>2, <2>1, PiecesType
    <2>3. w = e
        BY <1>1
    <2> HIDE DEF y, L, C, w, m
    <2> QED BY <2>2, <2>3 DEF ZoneHas
<1>5. m = Instr(o[e])
    <2> DEFINE v == Newest(P, s, e, asm)
    <2>1. /\ Fine(v, o, n) /\ AsmAfter(v) = Instr(o[e]) /\ v.low = s /\ v.high = e /\ v.named = TRUE /\ v.collapsed = FALSE
          /\ Divided(P, o, n, s, e, asm, high)
        BY NewestFine
    <2> QED BY <2>1
<1> HIDE DEF y, L, C, m
<1>6. Placed(y, P, o)
    <2>1. o[y.low] = o[P.low] + (y.low - P.low)
        BY <1>1, <1>4
    <2>2. P.low <= y.low /\ y.low <= y.high /\ y.high <= End /\ ~y.collapsed /\ ~y.named /\ y.inner = <<>>
          /\ y.workLow = y.low /\ y.workHigh = y.high
        BY <1>1, <1>2, <1>4
    <2>3. Runs(P, o, y.high) /\ o[y.high] <= o[P.high] /\ (y.low = 0 \/ o[y.low - 1] < End) /\ y.asm = Instr(o[y.low])
        BY <1>1, <1>2, <1>4, <1>5
    <2> QED BY <2>1, <2>2, <2>3 DEF Placed
<1> DEFINE first == y.low = P.low  last == o[y.high] = o[P.high]
<1>7. last
    BY <1>2, <1>4
<1>8. CutOf(L, P.labels, e, high, first, last)
    <2> DEFINE ff == P.labels
    <2>1. ff \in Maps(Labels) /\ e \in Int /\ high \in Int /\ Wrap \in Int /\ first \in BOOLEAN /\ last \in BOOLEAN
          /\ (first \/ e <= e) /\ (last \/ Wrap <= high)
        BY <1>0, <1>1, <1>2, <1>3, <1>7
    <2>2. \A k \in Words : e <= k /\ k < high => e <= k /\ k < Wrap
        BY <1>0 DEF Words
    <2> HIDE DEF ff, first, last
    <2>3. CutOf(Between(ff, e, Wrap), ff, e, high, first, last)
        BY <2>1, <2>2, CutBetween
    <2> QED BY <2>3 DEF ff, L
<1>9. CutOf(C, P.comments, e - 1, high - 1, first, last)
    <2> DEFINE ff == P.comments  a == e - 1  b == high - 1
    <2>1. ff \in Maps(Notes) /\ a \in Int /\ b \in Int /\ Wrap \in Int /\ first \in BOOLEAN /\ last \in BOOLEAN
          /\ (first \/ a <= a) /\ (last \/ Wrap <= b)
        BY <1>0, <1>1, <1>2, <1>3, <1>7
    <2>2. \A k \in Words : a <= k /\ k < b => a <= k /\ k < Wrap
        BY <1>0 DEF Words
    <2> HIDE DEF ff, first, last, a, b
    <2>3. CutOf(Between(ff, a, Wrap), ff, a, b, first, last)
        BY <2>1, <2>2, CutBetween
    <2> QED BY <2>3 DEF ff, a, b, C
<1>10. PieceOf(y, P, o)
    BY <1>4, <1>6, <1>8, <1>9 DEF PieceOf
<1>11. y \in ZonesWith({<<>>})
    BY <1>4 DEF LeafType
<1>12. AnyOK(y, o) /\ Leaf(y, o, n)
    BY <1>1, <1>10, <1>11, PieceIs
<1>13. Fine(y, o, n)
    BY <1>4, <1>11, <1>12 DEF Fine
<1> QED BY <1>4, <1>13 DEF y

\* A list of sound pieces from one line up to another, one of them the zone that was chosen
\* and the others without a name.
Fitted(ps, o, n, s, e, low, high) ==
    /\ LeafRun(ps) /\ Chain(ps, low, high)
    /\ \A j \in 1 .. Len(ps) : AnyOK(ps[j], o) /\ Leaf(ps[j], o, n)
                               /\ (ps[j].named => ps[j].low = s /\ ps[j].high = e /\ ~ps[j].collapsed)
    /\ \E j \in 1 .. Len(ps) : ps[j].named

LEMMA PiecesFit ==
    ASSUME NEW P, NEW o, Orderly(o), NEW n, NEW s, NEW e, NEW asm, NEW high, Divided(P, o, n, s, e, asm, high)
    PROVE  Fitted(Pieces(P, s, e, asm, high), o, n, s, e, P.low, high) /\ Divided(P, o, n, s, e, asm, high)
<1>0. End \in Nat /\ End > 0 /\ Wrap = 4 * End /\ Wrap \in Nat
    BY EndIs
<1> DEFINE a == Ahead(P, s, asm)  b == Newest(P, s, e, asm)  d == Behind(P, s, e, asm, high)
           ps == Pieces(P, s, e, asm, high)
<1>1. /\ Fine(a, o, n) /\ AsmAfter(a) = Instr(o[s]) /\ a.low = P.low /\ a.high = s /\ a.named = FALSE
      /\ Divided(P, o, n, s, e, asm, high)
    <2>1. /\ Fine(Ahead(P, s, asm), o, n) /\ AsmAfter(Ahead(P, s, asm)) = Instr(o[s])
          /\ Ahead(P, s, asm).low = P.low /\ Ahead(P, s, asm).high = s /\ Ahead(P, s, asm).named = FALSE
          /\ Divided(P, o, n, s, e, asm, high)
        <3>1. Orderly(o) /\ Divided(P, o, n, s, e, asm, high)
            OBVIOUS
        <3> HIDE DEF a, b, d, ps
        <3> QED BY <3>1, AheadFine
    <2> QED BY <2>1
<1>2. /\ Fine(b, o, n) /\ AsmAfter(b) = Instr(o[e]) /\ b.low = s /\ b.high = e /\ b.named = TRUE /\ b.collapsed = FALSE
      /\ Divided(P, o, n, s, e, asm, high)
    BY NewestFine
<1>3. Fine(d, o, n) /\ d.low = e /\ d.high = high /\ d.named = FALSE /\ Divided(P, o, n, s, e, asm, high)
    BY BehindFine
<1> DEFINE made == Made(P, s, e, asm)  t == << d >>
<1>4. LeafRun(ps) /\ made \in Seq(LeafType) /\ t \in Seq(LeafType)
    <2>1. /\ P \in ZonesWith({<<>>}) /\ s \in Nat /\ e \in Nat /\ s < e /\ e < End
        BY CutsLie DEF Divided, LeafType
    <2>2. asm \in Words /\ high \in Coords
        BY <1>0 DEF Divided, Closes, Coords
    <2>3. s \in 0 .. End /\ e \in 1 .. End
        BY <1>0, <2>1
    <2>4. /\ LeafRun(ps) /\ Made(P, s, e, asm) \in Seq(LeafType)
          /\ << Behind(P, s, e, asm, high) >> \in Seq(LeafType)
        BY <2>1, <2>2, <2>3, PiecesRun
    <2> QED BY <2>4
<1>14. Len(ps) = Len(made) + 1 /\ (\A i \in 1 .. Len(made) : ps[i] = made[i]) /\ ps[Len(made) + 1] = d
    <2>1. ps = made \o t
        BY DEF Pieces
    <2>2. Len(t) = 1 /\ t[1] = d
        <3> HIDE DEF d
        <3> QED OBVIOUS
    <2> HIDE DEF ps, made, t, a, b, d
    <2>3. /\ Len(made \o t) = Len(made) + Len(t)
          /\ \A i \in 1 .. Len(made) + Len(t) : (made \o t)[i] = IF i <= Len(made) THEN made[i] ELSE t[i - Len(made)]
        BY <1>4, ConcatProperties
    <2> QED BY <1>4, <2>1, <2>2, <2>3
<1>5. CASE s = P.low
    <2>1. made = << b >>
        BY <1>5 DEF Made, Newest
    <2> HIDE DEF a, b, d, ps, made, t
    <2>2. Len(ps) = 2 /\ ps[1] = b /\ ps[2] = d
        <3>1. Len(made) = 1 /\ made[1] = b
            BY <2>1
        <3> QED BY <1>14, <3>1
    <2>3. Chain(ps, P.low, high)
        BY <1>2, <1>3, <1>5, <2>2 DEF Chain
    <2>4. \A j \in 1 .. Len(ps) : j = 1 \/ j = 2
        BY <2>2
    <2>5. \A j \in 1 .. Len(ps) : AnyOK(ps[j], o) /\ Leaf(ps[j], o, n)
                               /\ (ps[j].named => ps[j].low = s /\ ps[j].high = e /\ ~ps[j].collapsed)
        BY <1>2, <1>3, <2>2, <2>4 DEF Fine
    <2>6. 1 \in 1 .. Len(ps) /\ ps[1].named
        BY <1>2, <2>2
    <2>7. Fitted(ps, o, n, s, e, P.low, high)
        BY <1>4, <2>3, <2>5, <2>6 DEF Fitted
    <2> QED BY <2>7, Zenon DEF ps
<1>6. CASE s # P.low
    <2>1. made = << a, b >>
        BY <1>6 DEF Made, Newest
    <2> HIDE DEF a, b, d, ps, made, t
    <2>2. Len(ps) = 3 /\ ps[1] = a /\ ps[2] = b /\ ps[3] = d
        <3>1. Len(made) = 2 /\ made[1] = a /\ made[2] = b
            BY <2>1
        <3> QED BY <1>14, <3>1
    <2>3. Chain(ps, P.low, high)
        <3>1. ps[1].low = P.low /\ ps[Len(ps)].high = high
            BY <1>1, <1>3, <2>2
        <3>2. ps[1].high = ps[2].low /\ ps[2].high = ps[3].low
            BY <1>1, <1>2, <1>3, <2>2
        <3>3. \A j \in 1 .. Len(ps) - 1 : j = 1 \/ j = 2
            BY <2>2
        <3> QED BY <3>1, <3>2, <3>3 DEF Chain
    <2>4. \A j \in 1 .. Len(ps) : j = 1 \/ j = 2 \/ j = 3
        BY <2>2
    <2>5. \A j \in 1 .. Len(ps) : AnyOK(ps[j], o) /\ Leaf(ps[j], o, n)
                               /\ (ps[j].named => ps[j].low = s /\ ps[j].high = e /\ ~ps[j].collapsed)
        BY <1>1, <1>2, <1>3, <2>2, <2>4 DEF Fine
    <2>6. 2 \in 1 .. Len(ps) /\ ps[2].named
        BY <1>2, <2>2
    <2>7. Fitted(ps, o, n, s, e, P.low, high)
        BY <1>4, <2>3, <2>5, <2>6 DEF Fitted
    <2> QED BY <2>7, Zenon DEF ps
<1> QED BY <1>5, <1>6

\* The last line of all, whatever is folded: the listing runs on up to it.
LEMMA ClosesEnd ==
    ASSUME NEW P, NEW o, Orderly(o), NEW n, NEW s, NEW e, Divides(P, o, n, s, e), o[P.high] = End
    PROVE  Closes(P, o, e, End)
<1>0. End \in Nat /\ End > 0 /\ Wrap = 4 * End /\ Wrap \in Nat
    BY EndIs
<1>1. Runs(P, o, P.high) /\ P.low \in Nat /\ P.high \in Nat /\ P.low <= P.high /\ e < End /\ e \in Nat
      /\ P.low \in 0 .. Wrap /\ P.high \in 0 .. Wrap /\ o[P.low] \in Nat
    BY CutsLie
<1>2. o[End] = End
    <2>1. End \in 0 .. Wrap
        BY <1>0
    <2>2. o[End] \in Nat /\ o[End] <= End /\ (End <= o[End] \/ o[End] = End)
        BY <2>1, OriginIs
    <2> QED BY <1>0, <2>2
<1>3. ASSUME NEW x \in P.low .. End
      PROVE  o[x] = Cap(o[P.low] + (x - P.low))
    <2>1. CASE x <= P.high
        BY <1>1, <2>1 DEF Runs
    <2>2. CASE ~(x <= P.high)
        <3>1. x \in 0 .. Wrap /\ P.high <= x /\ x \in Int
            BY <1>0, <1>1, <2>2
        <3>2. o[P.high] <= o[x] /\ o[x] \in Nat /\ o[x] <= End
            BY <1>1, <3>1, OriginsGrow, OriginIs
        <3>3. o[x] = End
            BY <1>0, <3>2
        <3>4. P.high \in P.low .. P.high
            BY <1>1
        <3>5. End = Cap(o[P.low] + (P.high - P.low))
            BY <1>1, <3>4 DEF Runs
        <3> DEFINE b == o[P.low]  p == P.low  h == P.high
        <3>6. b \in Nat /\ p \in Nat /\ h \in Nat /\ End = Cap(b + (h - p)) /\ h <= x
            BY <1>1, <3>1, <3>5
        <3> HIDE DEF b, p, h
        <3>7. Cap(b + (x - p)) = End
            BY <1>0, <3>1, <3>6 DEF Cap
        <3> QED BY <3>3, <3>7 DEF b, p
    <2> QED BY <2>1, <2>2
<1>4. Runs(P, o, End)
    BY <1>3 DEF Runs
<1> QED BY <1>0, <1>1, <1>2, <1>4 DEF Closes

\* The line where the zone ends, if the listing does not.
LEMMA ClosesThere ==
    ASSUME NEW P, NEW o, Orderly(o), NEW n, NEW s, NEW e, Divides(P, o, n, s, e), P.high <= End
    PROVE  Closes(P, o, e, P.high) /\ Divides(P, o, n, s, e)
<1>1. Runs(P, o, P.high) /\ P.low \in Nat /\ P.high \in Nat /\ e <= P.high
    BY CutsLie
<1> QED BY <1>1 DEF Closes

\* Where the code ends the last piece.
LEMMA ReachesIs ==
    ASSUME zones \in Seq(ZoneType), comments \in Maps(Notes), NEW n, ZonesOK(zones, ranges, n, comments),
           NEW s \in Nat, NEW e \in Nat, Opens(s, e), NEW i, i = Splits(s, e)
    PROVE  /\ Closes(Host(i), Origins(ranges), e, Reaches(i, s, e))
           /\ Inside(i) => Reaches(i, s, e) = zones[i].high
           /\ i # 0 /\ i < Len(zones) => Reaches(i, s, e) = zones[i].high
           /\ Origins(ranges)[Reaches(i, s, e)] = Origins(ranges)[Host(i).high]
<1> DEFINE o == Origins(ranges)
<1>0. End \in Nat /\ End > 0 /\ Wrap = 4 * End /\ Wrap \in Nat
    BY EndIs
<1>1. Divides(Host(i), o, n, s, e) /\ i \in 0 .. Len(zones) /\ (i = 0 => zones = <<>>)
    BY HostIs
<1>2. Orderly(o)
    BY SpansFold DEF ZonesOK
<1>3. e # End
    BY DEF Opens, AddsWell
<1>4. zones # <<>> => Laid(zones, o, n)
    BY DEF ZonesOK
<1>5. ASSUME NEW x \in 1 .. Len(zones), zones[x].low = Host(i).high
      PROVE  Closes(Host(i), o, e, zones[x].low)
    <2>1. zones[x] \in ZoneType /\ AnyOK(zones[x], o)
        <3>1. Laid(zones, o, n)
            BY <1>4, <1>5
        <3> QED BY <3>1, LaidIs
    <2>2. zones[x] \in ZonesWith(Seq(LeafType))
        BY <2>1 DEF ZoneType
    <2>3. zones[x].low <= End
        BY <1>2, <2>1, <2>2, AnyBounds
    <2>4. Closes(Host(i), o, e, Host(i).high) /\ Divides(Host(i), o, n, s, e)
        BY <1>1, <1>2, <1>5, <2>3, ClosesThere
    <2> QED BY <1>5, <2>4
<1>6. CASE Inside(i)
    <2>1. i # 0 /\ i \in 1 .. Len(zones) /\ Host(i) = zones[i] /\ zones[i].named
        BY <1>1, <1>6 DEF Inside, Host
    <2>2. NextTo(i, s) <= Len(zones) /\ zones[NextTo(i, s)].low = zones[i].high
        BY <1>6, <2>1 DEF Opens, AddsWell, NextTo
    <2>3. NextTo(i, s) \in 1 .. Len(zones)
        BY <1>6, <2>2 DEF NextTo
    <2>4. Reaches(i, s, e) = zones[NextTo(i, s)].low
        BY <1>3, <2>2 DEF Reaches
    <2>5. Closes(Host(i), o, e, Reaches(i, s, e))
        BY <1>5, <2>1, <2>2, <2>3, <2>4
    <2> QED BY <2>1, <2>2, <2>4, <2>5
<1>7. CASE ~Inside(i) /\ i # 0 /\ i < Len(zones)
    <2>1. i \in 1 .. Len(zones) /\ i + 1 \in 1 .. Len(zones) /\ Host(i) = zones[i]
        BY <1>1, <1>7 DEF Host
    <2>2. NextTo(i, s) = i + 1
        BY <1>7, <2>1 DEF NextTo, WholeBut
    <2>3. zones[i].high = zones[i + 1].low
        <3>1. Laid(zones, o, n)
            BY <1>4, <2>1
        <3>2. i \in 1 .. Len(zones) - 1
            BY <1>7, <2>1
        <3> QED BY <3>1, <3>2 DEF Laid, Chain
    <2>4. Reaches(i, s, e) = zones[i + 1].low
        BY <1>3, <2>1, <2>2 DEF Reaches
    <2>5. Closes(Host(i), o, e, Reaches(i, s, e))
        BY <1>5, <2>1, <2>3, <2>4
    <2> QED BY <1>7, <2>1, <2>3, <2>4, <2>5
<1>8. CASE ~Inside(i) /\ ~(i # 0 /\ i < Len(zones))
    <2>1. ~(NextTo(i, s) <= Len(zones))
        <3>1. CASE i = 0
            BY <1>1, <1>8, <3>1 DEF NextTo, WholeBut
        <3>2. CASE i # 0
            BY <1>1, <1>8, <3>2 DEF NextTo, WholeBut
        <3> QED BY <3>1, <3>2
    <2>2. Reaches(i, s, e) = End
        BY <2>1 DEF Reaches
    <2>3. o[Host(i).high] = End
        <3>1. CASE i = 0
            <4>1. Host(i) = BareRoot(comments) /\ BareRoot(comments).high = End
                BY <1>1, <3>1, RootIs DEF Host
            <4>2. End \in 0 .. Wrap
                BY <1>0
            <4>3. o[End] \in Nat /\ o[End] <= End /\ (End <= o[End] \/ o[End] = End)
                BY <1>2, <4>2, OriginIs
            <4> QED BY <1>0, <4>1, <4>3
        <3>2. CASE i # 0
            <4>1. i = Len(zones) /\ Host(i) = zones[i] /\ zones # <<>>
                BY <1>1, <1>8, <3>2 DEF Host
            <4> QED BY <1>4, <4>1 DEF Laid
        <3> QED BY <3>1, <3>2
    <2>4. Closes(Host(i), o, e, End)
        BY <1>1, <1>2, <2>3, ClosesEnd
    <2> QED BY <1>8, <2>2, <2>4 DEF Closes
<1>9. Closes(Host(i), o, e, Reaches(i, s, e)) => o[Reaches(i, s, e)] = o[Host(i).high]
    BY DEF Closes
<1> QED BY <1>6, <1>7, <1>8, <1>9

\* The count where what is split begins.
LEMMA BaseIs ==
    ASSUME zones \in Seq(ZoneType), comments \in Maps(Notes), NEW n, ZonesOK(zones, ranges, n, comments),
           NEW s \in Nat, NEW e \in Nat, Opens(s, e), NEW i, i = Splits(s, e)
    PROVE  Base(i) = Instr(Origins(ranges)[Host(i).low])
<1> DEFINE o == Origins(ranges)
<1>0. End \in Nat /\ End > 0 /\ Wrap = 4 * End /\ Wrap \in Nat
    BY EndIs
<1>1. Divides(Host(i), o, n, s, e) /\ i \in 0 .. Len(zones) /\ (i = 0 => zones = <<>>)
    BY HostIs
<1>2. Orderly(o)
    BY SpansFold DEF ZonesOK
<1>3. CASE Inside(i)
    <2>1. Host(i).asm = Instr(o[Host(i).low])
        BY <1>1 DEF Divides, AnyOK
    <2> QED BY <1>3, <2>1 DEF Base
<1>4. CASE ~Inside(i) /\ i > 1
    <2>1. i \in 1 .. Len(zones) /\ i - 1 \in 1 .. Len(zones) - 1 /\ i - 1 \in 1 .. Len(zones) /\ Host(i) = zones[i] /\ zones # <<>>
        BY <1>1, <1>4 DEF Host
    <2> DEFINE z == zones[i - 1]
    <2>2. Base(i) = AsmAfter(z)
        BY <1>4, <2>1 DEF Base, WholeBut
    <2>3. Laid(zones, o, n)
        BY <2>1 DEF ZonesOK
    <2>4. z.high = zones[i].low
        <3>1. zones[i - 1].high = zones[(i - 1) + 1].low
            BY <2>1, <2>3 DEF Laid, Chain
        <3> QED BY <2>1, <3>1
    <2>5. z \in ZoneType /\ Sound(z, o, n)
        BY <2>1, <2>3 DEF Laid
    <2>6. z.high = 0 \/ o[z.high - 1] < End
        BY <1>1, <2>1, <2>4 DEF Divides, AnyOK
    <2>7. \A j \in 1 .. Len(z.inner) : ~z.inner[j].collapsed
        <3>1. \A x \in Range(zones) : \A y \in Range(x.inner) : ~y.collapsed
            BY DEF Opens, AddsWell
        <3>2. z \in Range(zones)
            BY <2>1 DEF Range
        <3>3. \A j \in 1 .. Len(z.inner) : z.inner[j] \in Range(z.inner)
            <4>1. z.inner \in Seq(LeafType)
                BY <2>5 DEF ZoneType, ZonesWith
            <4> HIDE DEF z
            <4> QED BY <4>1 DEF Range
        <3> HIDE DEF z
        <3> QED BY <3>1, <3>2, <3>3
    <2> HIDE DEF z
    <2>8. Exact(z, o) /\ AsmAfter(z) = Instr(o[z.high])
        BY <1>2, <2>5, <2>6, <2>7, SoundExact
    <2> QED BY <2>1, <2>2, <2>4, <2>8
<1>5. CASE ~Inside(i) /\ ~(i > 1)
    <2>1. WholeBut(i) = 0
        BY <1>1, <1>5 DEF WholeBut
    <2>2. Base(i) = 0
        BY <1>5, <2>1 DEF Base
    <2>3. Host(i).low = 0
        <3>1. CASE i = 0
            BY <1>1, <3>1, RootIs DEF Host
        <3>2. CASE i = 1
            <4>1. zones # <<>>
                BY <1>1, <3>2
            <4>2. Laid(zones, o, n)
                BY <4>1 DEF ZonesOK
            <4> QED BY <3>2, <4>2 DEF Laid, Chain, Host
        <3> QED BY <1>1, <1>5, <3>1, <3>2
    <2>4. o[0] = 0
        BY <1>2 DEF Orderly
    <2>5. Instr(0) = 0
        <3>1. Instr(0) \in Nat /\ Instr(0) <= 0
            BY <1>0, InstrIs
        <3> QED BY <3>1
    <2> QED BY <2>2, <2>3, <2>4, <2>5
<1> QED BY <1>3, <1>4, <1>5

\* The range the user makes, as a new zone spans it.
NewRange(o, s, e) == [from |-> o[s], to |-> o[e], folded |-> FALSE]

\* The pieces of a right addition are sound.
LEMMA CutFits ==
    ASSUME zones \in Seq(ZoneType), comments \in Maps(Notes), NEW n, ZonesOK(zones, ranges, n, comments),
           NEW s \in Nat, NEW e \in Nat, Opens(s, e), NEW i, i = Splits(s, e)
    PROVE  Fitted(Cut(i, s, e), Origins(ranges), n, s, e, Host(i).low, Reaches(i, s, e))
<1>1. Orderly(Origins(ranges))
    BY SpansFold DEF ZonesOK
<1>2. Divides(Host(i), Origins(ranges), n, s, e)
    BY HostIs
<1>3. Closes(Host(i), Origins(ranges), e, Reaches(i, s, e))
    BY ReachesIs
<1>4. Base(i) = Instr(Origins(ranges)[Host(i).low])
    BY BaseIs
<1>5. Base(i) \in Words
    <2>1. i \in 0 .. Len(zones)
        BY SplitsIs
    <2> QED BY <2>1, HostType
<1>6. Divided(Host(i), Origins(ranges), n, s, e, Base(i), Reaches(i, s, e))
    BY <1>2, <1>3, <1>4, <1>5 DEF Divided
<1>7. /\ Fitted(Pieces(Host(i), s, e, Base(i), Reaches(i, s, e)), Origins(ranges), n, s, e, Host(i).low, Reaches(i, s, e))
      /\ Divided(Host(i), Origins(ranges), n, s, e, Base(i), Reaches(i, s, e))
    BY <1>1, <1>6, PiecesFit
<1> QED BY <1>7 DEF Cut

\* The pieces span what the user made, and nothing more.
LEMMA FittedSpans ==
    ASSUME NEW ps, NEW o, NEW n, NEW s, NEW e, NEW low, NEW high, Fitted(ps, o, n, s, e, low, high), NEW r
    PROVE  (\E j \in 1 .. Len(ps) : SpanIn(r, ps[j], o)) <=> r = NewRange(o, s, e)
<1>1. \A j \in 1 .. Len(ps) : SpanIn(r, ps[j], o) <=> ps[j].named /\ r = RangeOf(ps[j], o)
    <2> SUFFICES ASSUME NEW j \in 1 .. Len(ps)
                 PROVE  SpanIn(r, ps[j], o) <=> ps[j].named /\ r = RangeOf(ps[j], o)
        OBVIOUS
    <2>1. ps[j].inner = <<>>
        BY DEF Fitted, Leaf
    <2>2. 1 .. Len(ps[j].inner) = {}
        BY <2>1
    <2> QED BY <2>2 DEF SpanIn
<1>2. \A j \in 1 .. Len(ps) : ps[j].named => RangeOf(ps[j], o) = NewRange(o, s, e)
    <2> SUFFICES ASSUME NEW j \in 1 .. Len(ps), ps[j].named
                 PROVE  RangeOf(ps[j], o) = NewRange(o, s, e)
        OBVIOUS
    <2>1. ps[j].low = s /\ ps[j].high = e /\ ~ps[j].collapsed
        BY DEF Fitted
    <2>2. ps[j].collapsed \in BOOLEAN
        <3>1. ps[j] \in ZonesWith({<<>>})
            BY DEF Fitted, LeafRun, LeafType
        <3> QED BY <3>1, ZoneFields
    <2>3. ps[j].collapsed = FALSE
        BY <2>1, <2>2
    <2> QED BY <2>1, <2>3 DEF RangeOf, NewRange
<1>3. PICK j \in 1 .. Len(ps) : ps[j].named
    BY DEF Fitted
<1> QED BY <1>1, <1>2, <1>3

-----------------------------------------------------------------------------
(* AddCollapsibleZone.                                                     *)

\* A zone replaced by a sound one on the same lines.
LEMMA ReplacedLaid ==
    ASSUME NEW zs \in Seq(ZoneType), NEW o, NEW n, Laid(zs, o, n), NEW i \in 1 .. Len(zs), NEW y \in ZoneType,
           y.low = zs[i].low, y.high = zs[i].high, Sound(y, o, n)
    PROVE  Replaced(zs, i, y) \in Seq(ZoneType) /\ Laid(Replaced(zs, i, y), o, n)
<1> DEFINE l == Replaced(zs, i, y)
<1>1. /\ l \in Seq(ZoneType) /\ Len(l) = Len(zs)
      /\ l[i] = y /\ \A k \in 1 .. Len(zs) : k # i => l[k] = zs[k]
    BY ReplacedIs
<1> HIDE DEF l
<1>2. \A k \in 1 .. Len(zs) : l[k].low = zs[k].low /\ l[k].high = zs[k].high
    BY <1>1
<1>3. Len(zs) \in Nat /\ Len(zs) # 0
    BY DEF Laid
<1>4. Chain(l, 0, l[Len(l)].high)
    <2>1. Chain(zs, 0, zs[Len(zs)].high)
        BY DEF Laid
    <2>2. l[1].low = 0
        BY <1>2, <1>3, <2>1 DEF Chain
    <2>3. \A k \in 1 .. Len(l) - 1 : l[k].high = l[k + 1].low
        <3> SUFFICES ASSUME NEW k \in 1 .. Len(zs) - 1
                     PROVE  l[k].high = l[k + 1].low
            BY <1>1
        <3>1. k \in 1 .. Len(zs) /\ k + 1 \in 1 .. Len(zs)
            BY <1>3
        <3>2. zs[k].high = zs[k + 1].low
            BY <2>1 DEF Chain
        <3> QED BY <1>2, <3>1, <3>2
    <2> QED BY <2>2, <2>3 DEF Chain
<1>5. o[l[Len(l)].high] = End
    <2>1. o[zs[Len(zs)].high] = End
        BY DEF Laid
    <2>2. l[Len(l)].high = zs[Len(zs)].high
        BY <1>1, <1>2, <1>3
    <2> QED BY <2>1, <2>2
<1>6. \A k \in 1 .. Len(l) : Sound(l[k], o, n)
    <2>1. \A k \in 1 .. Len(zs) : Sound(zs[k], o, n)
        BY DEF Laid
    <2> QED BY <1>1, <2>1
<1>7. l # <<>>
    BY <1>1, <1>3
<1>8. Laid(l, o, n)
    BY <1>4, <1>5, <1>6, <1>7 DEF Laid
<1> QED BY <1>1, <1>8 DEF l

\* The spans of a list with a zone replaced.
LEMMA ReplacedSpans ==
    ASSUME NEW zs \in Seq(ZoneType), NEW i \in 1 .. Len(zs), NEW y \in ZoneType, NEW r, NEW o
    PROVE  IsSpan(r, Replaced(zs, i, y), o) <=>
              \/ \E k \in 1 .. Len(zs) : k # i /\ SpanIn(r, zs[k], o)
              \/ SpanIn(r, y, o)
<1> DEFINE l == Replaced(zs, i, y)
<1>1. /\ l \in Seq(ZoneType) /\ Len(l) = Len(zs)
      /\ l[i] = y /\ \A k \in 1 .. Len(zs) : k # i => l[k] = zs[k]
    <2>1. zs \in Seq(ZoneType) /\ i \in 1 .. Len(zs) /\ y \in ZoneType
        OBVIOUS
    <2>2. /\ Replaced(zs, i, y) \in Seq(ZoneType) /\ Len(Replaced(zs, i, y)) = Len(zs)
          /\ Replaced(zs, i, y)[i] = y /\ \A k \in 1 .. Len(zs) : k # i => Replaced(zs, i, y)[k] = zs[k]
        BY <2>1, ReplacedIs
    <2> QED BY <2>2
<1> HIDE DEF l
<1>2. IsSpan(r, l, o) <=> \E k \in 1 .. Len(l) : SpanIn(r, l[k], o)
    BY <1>1, SpanOf
<1>3. (\E k \in 1 .. Len(l) : SpanIn(r, l[k], o)) <=> (\E k \in 1 .. Len(zs) : k # i /\ SpanIn(r, zs[k], o)) \/ SpanIn(r, y, o)
    BY <1>1
<1> QED BY <1>2, <1>3 DEF l

\* A part of the listing that is not folded hides nothing.
LEMMA OpenHides ==
    ASSUME NEW R, NEW r, r.folded = FALSE
    PROVE  Origins(R \cup {r}) = Origins(R) /\ Origins(R \ {r}) = Origins(R)
<1>1. Seen(R \cup {r}) = Seen(R)
    BY DEF Seen
<1>2. Seen(R \ {r}) = Seen(R)
    BY DEF Seen
<1> QED BY <1>1, <1>2 DEF Origins

\* A list whose spans are the old ones and one more.
LEMMA SpannedMore ==
    ASSUME NEW R, NEW zs, NEW l, NEW o, NEW q, Spanned(R, zs, o), \A r : IsSpan(r, l, o) <=> IsSpan(r, zs, o) \/ r = q
    PROVE  Spanned(R \cup {q}, l, o)
    BY DEF Spanned

\* A right addition, and a list with exactly one range more.
Adding(n, s, e) ==
    /\ zones \in Seq(ZoneType) /\ comments \in Maps(Notes) /\ ZonesOK(zones, ranges, n, comments)
    /\ s \in Nat /\ e \in Nat /\ Opens(s, e)

Added(l, o, n, s, e) ==
    /\ l \in Seq(ZoneType) /\ Laid(l, o, n) /\ \A r : IsSpan(r, l, o) <=> IsSpan(r, zones, o) \/ r = NewRange(o, s, e)

\* A zone that only gets a name.
LEMMA NameAdds ==
    ASSUME NEW n, NEW s, NEW e, Adding(n, s, e), NEW i, i = Splits(s, e),
           i # 0, ~Host(i).named, Host(i).low = s, Host(i).high = e
    PROVE  Added(Replaced(zones, i, Titled(zones[i])), Origins(ranges), n, s, e)
<1> DEFINE o == Origins(ranges)  z == zones[i]  y == Titled(z)
<1>0. zones \in Seq(ZoneType) /\ comments \in Maps(Notes) /\ ZonesOK(zones, ranges, n, comments)
      /\ s \in Nat /\ e \in Nat /\ Opens(s, e)
    BY DEF Adding
<1>1. Divides(Host(i), o, n, s, e) /\ i \in 0 .. Len(zones)
    BY <1>0, HostIs
<1>2. i \in 1 .. Len(zones) /\ Host(i) = z /\ zones # <<>>
    BY <1>1 DEF Host
<1>3. Laid(zones, o, n) /\ z \in ZoneType
    BY <1>0, <1>2 DEF ZonesOK
<1>4. AnyOK(z, o) /\ Leaf(z, o, n) /\ ~z.collapsed /\ s < e /\ o[e - 1] < End /\ z.low = s /\ z.high = e /\ z.inner = <<>>
    BY <1>1, <1>2 DEF Divides, Leaf
<1> HIDE DEF z
<1>5. y \in ZoneType /\ SameButName(y, z) /\ y.named = TRUE
    BY <1>3, TitledIs DEF ZoneType
<1> HIDE DEF y
<1>6. /\ y.low = z.low /\ y.high = z.high /\ y.workLow = z.workLow /\ y.workHigh = z.workHigh
      /\ y.asm = z.asm /\ y.labels = z.labels /\ y.comments = z.comments /\ y.collapsed = z.collapsed
      /\ y.inner = z.inner
    BY <1>5 DEF SameButName
<1>7. AnyOK(y, o)
    BY <1>4, <1>6 DEF AnyOK, Labelled
<1>8. Leaf(y, o, n)
    <2>1. Spread(y, o)
        BY <1>4, <1>6 DEF Leaf, Spread, Work, Straight
    <2>2. Noted(y, o, n)
        BY <1>4, <1>6 DEF Leaf, Noted, Place
    <2> QED BY <1>4, <1>6, <2>1, <2>2 DEF Leaf
<1>9. Replaced(zones, i, y) \in Seq(ZoneType) /\ Laid(Replaced(zones, i, y), o, n)
    BY <1>0, <1>2, <1>3, <1>5, <1>6, <1>7, <1>8, ReplacedLaid DEF Sound, z
<1>10. ASSUME NEW r
       PROVE  IsSpan(r, Replaced(zones, i, y), o) <=> IsSpan(r, zones, o) \/ r = NewRange(o, s, e)
    <2>1. IsSpan(r, Replaced(zones, i, y), o) <=>
              (\E k \in 1 .. Len(zones) : k # i /\ SpanIn(r, zones[k], o)) \/ SpanIn(r, y, o)
        BY <1>0, <1>2, <1>5, ReplacedSpans
    <2>2. IsSpan(r, zones, o) <=> \E k \in 1 .. Len(zones) : SpanIn(r, zones[k], o)
        BY <1>0, SpanOf
    <2>3. ~SpanIn(r, zones[i], o)
        <3>1. ~z.named /\ 1 .. Len(z.inner) = {}
            BY <1>2, <1>4
        <3> QED BY <3>1 DEF SpanIn, z
    <2>4. SpanIn(r, y, o) <=> r = NewRange(o, s, e)
        <3>1. y.named = TRUE /\ 1 .. Len(y.inner) = {}
            BY <1>4, <1>5, <1>6
        <3>2. RangeOf(y, o) = NewRange(o, s, e)
            <4>1. y.collapsed = FALSE
                <5>1. y.collapsed \in BOOLEAN
                    BY <1>5, ZoneFields DEF ZoneType
                <5> QED BY <1>4, <1>6, <5>1
            <4> QED BY <1>4, <1>6, <4>1 DEF RangeOf, NewRange
        <3> QED BY <3>1, <3>2 DEF SpanIn
    <2> QED BY <2>1, <2>2, <2>3, <2>4
<1>11. Added(Replaced(zones, i, y), o, n, s, e)
    BY <1>9, <1>10 DEF Added
<1> QED BY <1>11 DEF y, z

\* A named zone that gets the pieces inside.
LEMMA InsideAdds ==
    ASSUME NEW n, NEW s, NEW e, Adding(n, s, e), NEW i, i = Splits(s, e), Inside(i), NEW list, list = Cut(i, s, e)
    PROVE  Added(Replaced(zones, i, Filled(zones[i], list)), Origins(ranges), n, s, e) /\ zones[i].inner = <<>>
<1> DEFINE o == Origins(ranges)  z == zones[i]  y == Filled(z, list)
<1>0. zones \in Seq(ZoneType) /\ comments \in Maps(Notes) /\ ZonesOK(zones, ranges, n, comments)
      /\ s \in Nat /\ e \in Nat /\ Opens(s, e)
    BY DEF Adding
<1>1. Divides(Host(i), o, n, s, e) /\ i \in 0 .. Len(zones)
    BY <1>0, HostIs
<1>2. i \in 1 .. Len(zones) /\ Host(i) = z /\ zones # <<>> /\ i # 0 /\ z.named
    BY <1>1 DEF Host, Inside
<1>3. Laid(zones, o, n) /\ z \in ZoneType
    BY <1>0, <1>2 DEF ZonesOK
<1>4. AnyOK(z, o) /\ Leaf(z, o, n) /\ ~z.collapsed /\ ~(z.low = s /\ z.high = e) /\ z.inner = <<>>
    BY <1>1, <1>2 DEF Divides, Leaf
<1>5. Fitted(list, o, n, s, e, z.low, z.high)
    <2>1. Fitted(Cut(i, s, e), o, n, s, e, Host(i).low, Reaches(i, s, e))
        BY <1>0, CutFits
    <2>2. Reaches(i, s, e) = zones[i].high
        BY <1>0, ReachesIs
    <2> QED BY <1>2, <2>1, <2>2
<1>6. list \in Seq(LeafType) /\ list # <<>> /\ Chain(list, z.low, z.high)
      /\ \A j \in 1 .. Len(list) : AnyOK(list[j], o) /\ Leaf(list[j], o, n)
                               /\ (list[j].named => list[j].low = s /\ list[j].high = e)
    BY <1>5 DEF Fitted, LeafRun
<1>7. DOMAIN z.comments = {}
    BY <1>0, <1>2 DEF Opens, AddsWell
<1>8. /\ y \in ZoneType /\ SameButComments(y, z) /\ y.comments = z.comments /\ y.inner = list
    BY <1>3, <1>6, FilledIs
<1> HIDE DEF y, z
<1>9. y.low = z.low /\ y.high = z.high /\ y.named = z.named /\ y.collapsed = z.collapsed
    BY <1>8 DEF SameButComments
<1>10. AnyOK(y, o) /\ RangeOf(y, o) = RangeOf(z, o)
    BY <1>4, <1>8, StaysCommented
<1>11. Parent(y, o, n)
    <2>1. \A j \in 1 .. Len(y.inner) : Part(y.inner[j], y, o, n)
        BY <1>4, <1>6, <1>8, <1>9 DEF Part
    <2>2. y.inner # <<>> /\ y.named /\ ~y.collapsed /\ DOMAIN y.comments = {} /\ Chain(y.inner, y.low, y.high)
        BY <1>2, <1>4, <1>6, <1>7, <1>8, <1>9
    <2> QED BY <2>1, <2>2 DEF Parent
<1>12. Replaced(zones, i, y) \in Seq(ZoneType) /\ Laid(Replaced(zones, i, y), o, n)
    BY <1>0, <1>2, <1>3, <1>8, <1>9, <1>10, <1>11, ReplacedLaid DEF Sound, z
<1>13. ASSUME NEW r
       PROVE  IsSpan(r, Replaced(zones, i, y), o) <=> IsSpan(r, zones, o) \/ r = NewRange(o, s, e)
    <2>1. IsSpan(r, Replaced(zones, i, y), o) <=>
              (\E k \in 1 .. Len(zones) : k # i /\ SpanIn(r, zones[k], o)) \/ SpanIn(r, y, o)
        BY <1>0, <1>2, <1>8, ReplacedSpans
    <2>2. IsSpan(r, zones, o) <=> \E k \in 1 .. Len(zones) : SpanIn(r, zones[k], o)
        BY <1>0, SpanOf
    <2>3. SpanIn(r, zones[i], o) <=> r = RangeOf(z, o)
        <3>1. z.named /\ 1 .. Len(z.inner) = {}
            BY <1>2, <1>4
        <3>2. SpanIn(r, z, o) <=> r = RangeOf(z, o)
            BY <3>1 DEF SpanIn
        <3> QED BY <3>2 DEF z
    <2>4. SpanIn(r, y, o) <=> r = RangeOf(z, o) \/ r = NewRange(o, s, e)
        <3>1. (\E j \in 1 .. Len(list) : SpanIn(r, list[j], o)) <=> r = NewRange(o, s, e)
            BY <1>5, FittedSpans, ZenonT(60)
        <3>2. \A j \in 1 .. Len(list) : SpanIn(r, list[j], o) <=> list[j].named /\ r = RangeOf(list[j], o)
            <4> SUFFICES ASSUME NEW j \in 1 .. Len(list)
                         PROVE  SpanIn(r, list[j], o) <=> list[j].named /\ r = RangeOf(list[j], o)
                OBVIOUS
            <4>1. list[j].inner = <<>>
                BY <1>6 DEF Leaf
            <4>2. 1 .. Len(list[j].inner) = {}
                BY <4>1
            <4> QED BY <4>2 DEF SpanIn
        <3>3. SpanIn(r, y, o) <=> (y.named /\ r = RangeOf(y, o)) \/ \E j \in 1 .. Len(list) : list[j].named /\ r = RangeOf(list[j], o)
            BY <1>8 DEF SpanIn
        <3> QED BY <1>2, <1>9, <1>10, <3>1, <3>2, <3>3
    <2> QED BY <1>2, <2>1, <2>2, <2>3, <2>4
<1>14. Added(Replaced(zones, i, y), o, n, s, e)
    BY <1>12, <1>13 DEF Added
<1> QED BY <1>4, <1>14 DEF y, z

\* The pieces are the whole list.
Alone(i, list) == SubSeq(zones, 1, WholeBut(i)) \o list \o SubSeq(zones, WholeBut(i) + 2, Len(zones)) = list

\* A listing without zones is taken apart.
LEMMA RootAdds ==
    ASSUME NEW n, NEW s, NEW e, Adding(n, s, e), NEW i, i = Splits(s, e), i = 0, NEW list, list = Cut(i, s, e)
    PROVE  /\ Added(list, Origins(ranges), n, s, e)
           /\ Alone(i, list)
<1> DEFINE o == Origins(ranges)
<1>0. zones \in Seq(ZoneType) /\ comments \in Maps(Notes) /\ ZonesOK(zones, ranges, n, comments)
      /\ s \in Nat /\ e \in Nat /\ Opens(s, e)
    BY DEF Adding
<1>1. Divides(Host(i), o, n, s, e) /\ zones = <<>>
    BY <1>0, HostIs
<1>2. Host(i).low = 0
    BY <1>1, RootIs DEF Host
<1>3. Fitted(list, o, n, s, e, 0, Reaches(i, s, e))
    BY <1>0, <1>2, CutFits
<1>4. list \in Seq(ZoneType) /\ list \in Seq(LeafType) /\ list # <<>> /\ Chain(list, 0, Reaches(i, s, e))
      /\ \A j \in 1 .. Len(list) : AnyOK(list[j], o) /\ Leaf(list[j], o, n)
    BY <1>3 DEF Fitted, LeafRun
<1>5. o[Reaches(i, s, e)] = End
    <2>1. o[Reaches(i, s, e)] = o[Host(i).high]
        BY <1>0, ReachesIs
    <2>2. Host(i).high = End
        BY <1>1, RootIs DEF Host
    <2>3. End \in Nat /\ End \in 0 .. Wrap
        BY EndIs
    <2>4. Orderly(o)
        BY <1>0, SpansFold DEF ZonesOK
    <2>5. o[End] \in Nat /\ o[End] <= End /\ (End <= o[End] \/ o[End] = End)
        BY <2>3, <2>4, OriginIs
    <2> QED BY <2>1, <2>2, <2>3, <2>5
<1>6. Laid(list, o, n)
    <2>1. list[Len(list)].high = Reaches(i, s, e)
        BY <1>4 DEF Chain
    <2>2. \A j \in 1 .. Len(list) : Sound(list[j], o, n)
        BY <1>4 DEF Sound
    <2> QED BY <1>4, <1>5, <2>1, <2>2 DEF Laid
<1>7. ASSUME NEW r
      PROVE  IsSpan(r, list, o) <=> IsSpan(r, zones, o) \/ r = NewRange(o, s, e)
    <2>1. IsSpan(r, list, o) <=> \E j \in 1 .. Len(list) : SpanIn(r, list[j], o)
        BY <1>4, SpanOf
    <2>2. (\E j \in 1 .. Len(list) : SpanIn(r, list[j], o)) <=> r = NewRange(o, s, e)
        BY <1>3, FittedSpans
    <2>3. ~IsSpan(r, zones, o)
        <3>1. IsSpan(r, zones, o) <=> \E j \in 1 .. Len(zones) : SpanIn(r, zones[j], o)
            BY <1>0, SpanOf
        <3>2. 1 .. Len(zones) = {}
            BY <1>1
        <3> QED BY <3>1, <3>2
    <2> QED BY <2>1, <2>2, <2>3
<1>8. Added(list, o, n, s, e)
    BY <1>4, <1>6, <1>7 DEF Added
<1>9. SubSeq(zones, 1, WholeBut(i)) \o list \o SubSeq(zones, WholeBut(i) + 2, Len(zones)) = list
    <2> DEFINE a == SubSeq(zones, 1, WholeBut(i))  b == SubSeq(zones, WholeBut(i) + 2, Len(zones))
    <2>1. WholeBut(i) = 0
        BY <1>1 DEF WholeBut
    <2>2. a = <<>> /\ b = <<>>
        BY <1>1, <2>1
    <2> HIDE DEF a, b
    <2>3. <<>> \o list = list /\ list \o <<>> = list
        BY <1>4, ConcatEmptySeq
    <2>4. (a \o list) \o b = list
        BY <2>2, <2>3
    <2> QED BY <2>4 DEF a, b
<1> QED BY <1>8, <1>9 DEF Alone

\* An unnamed zone taken apart.
LEMMA SplitAdds ==
    ASSUME NEW n, NEW s, NEW e, Adding(n, s, e), NEW i, i = Splits(s, e), i # 0, ~Inside(i), NEW list, list = Cut(i, s, e)
    PROVE  Added(SubSeq(zones, 1, WholeBut(i)) \o list \o SubSeq(zones, WholeBut(i) + 2, Len(zones)), Origins(ranges), n, s, e)
<1> DEFINE o == Origins(ranges)
<1>0. zones \in Seq(ZoneType) /\ comments \in Maps(Notes) /\ ZonesOK(zones, ranges, n, comments)
      /\ s \in Nat /\ e \in Nat /\ Opens(s, e)
    BY DEF Adding
<1>1. Divides(Host(i), o, n, s, e) /\ i \in 0 .. Len(zones)
    BY <1>0, HostIs
<1>2. i \in 1 .. Len(zones) /\ Host(i) = zones[i] /\ zones # <<>> /\ ~zones[i].named
    BY <1>1 DEF Host, Inside
<1>3. Laid(zones, o, n)
    BY <1>0, <1>2 DEF ZonesOK
<1>4. Fitted(list, o, n, s, e, zones[i].low, Reaches(i, s, e))
    BY <1>0, <1>2, CutFits
<1>5. list \in Seq(ZoneType) /\ list \in Seq(LeafType) /\ list # <<>> /\ Chain(list, zones[i].low, Reaches(i, s, e))
      /\ \A j \in 1 .. Len(list) : AnyOK(list[j], o) /\ Leaf(list[j], o, n)
    BY <1>4 DEF Fitted, LeafRun
<1>6. list[Len(list)].high = Reaches(i, s, e)
    BY <1>5 DEF Chain
<1>7. Fitting(zones, i, i, list, o, n)
    <2>1. i < Len(zones) => list[Len(list)].high = zones[i].high
        BY <1>0, <1>2, <1>6, ReachesIs
    <2>2. i = Len(zones) => o[list[Len(list)].high] = End
        <3>1. o[Reaches(i, s, e)] = o[Host(i).high]
            BY <1>0, ReachesIs
        <3>2. o[zones[Len(zones)].high] = End
            BY <1>3 DEF Laid
        <3> QED BY <1>2, <1>6, <3>1, <3>2
    <2>3. \A j \in 1 .. Len(list) : Sound(list[j], o, n)
        BY <1>5 DEF Sound
    <2>4. Chain(list, zones[i].low, list[Len(list)].high)
        BY <1>5, <1>6
    <2> QED BY <1>2, <1>5, <2>1, <2>2, <2>3, <2>4 DEF Fitting
<1> DEFINE l == Pasted(zones, i, i, list)
<1>8. l \in Seq(ZoneType) /\ Laid(l, o, n)
    BY <1>0, <1>3, <1>7, PastedLaid
<1>9. ASSUME NEW r
      PROVE  IsSpan(r, l, o) <=> IsSpan(r, zones, o) \/ r = NewRange(o, s, e)
    <2>1. IsSpan(r, l, o) <=>
              \/ \E k \in 1 .. Len(zones) : (k < i \/ i < k) /\ SpanIn(r, zones[k], o)
              \/ \E j \in 1 .. Len(list) : SpanIn(r, list[j], o)
        <3>1. zones \in Seq(ZoneType) /\ list \in Seq(ZoneType) /\ i \in 1 .. Len(zones) + 1 /\ i \in i - 1 .. Len(zones)
            BY <1>0, <1>2, <1>5
        <3> QED BY <3>1, PastedSpans, SMTT(60)
    <2>2. IsSpan(r, zones, o) <=> \E k \in 1 .. Len(zones) : SpanIn(r, zones[k], o)
        BY <1>0, SpanOf
    <2>3. ~SpanIn(r, zones[i], o)
        <3>1. zones[i].inner = <<>>
            BY <1>1, <1>2 DEF Divides, Leaf
        <3>2. 1 .. Len(zones[i].inner) = {}
            BY <3>1
        <3> QED BY <1>2, <3>2 DEF SpanIn
    <2>4. (\E j \in 1 .. Len(list) : SpanIn(r, list[j], o)) <=> r = NewRange(o, s, e)
        <3> DEFINE a == zones[i].low  b == Reaches(i, s, e)
        <3>1. Fitted(list, o, n, s, e, a, b)
            BY <1>4
        <3> HIDE DEF o, l, a, b
        <3> QED BY <3>1, FittedSpans, ZenonT(60)
    <2>5. \A k \in 1 .. Len(zones) : (k < i \/ i < k) <=> k # i
        BY <1>2
    <2> HIDE DEF l
    <2> QED BY <2>1, <2>2, <2>3, <2>4, <2>5
<1>10. l = SubSeq(zones, 1, WholeBut(i)) \o list \o SubSeq(zones, WholeBut(i) + 2, Len(zones))
    <2>1. WholeBut(i) = i - 1 /\ WholeBut(i) + 2 = i + 1
        BY <1>2 DEF WholeBut
    <2> QED BY <2>1 DEF Pasted
<1> HIDE DEF l
<1>11. Added(l, o, n, s, e)
    BY <1>8, <1>9 DEF Added
<1> QED BY <1>10, <1>11

\* What a right addition makes of the list.
LEMMA AddsWhat ==
    ASSUME NEW n, NEW s, NEW e, Adding(n, s, e)
    PROVE  Added(AddNewZone(s, e), Origins(ranges), n, s, e)
<1> DEFINE i == Splits(s, e)  list == Cut(i, s, e)
<1>0. zones \in Seq(ZoneType) /\ comments \in Maps(Notes) /\ s \in Nat /\ e \in Nat /\ Opens(s, e)
    BY DEF Adding
<1>1. s \in 0 .. End /\ e \in 1 .. End
    <2>1. s < e /\ e <= End /\ End \in Nat
        BY EndIs DEF Adding, Opens, CanAddNewZone
    <2> QED BY <1>0, <2>1
<1>2. AddNewZone(s, e) = AddsTo(i, s, e) /\ LeafRun(list)
    BY <1>0, <1>1, AddsIs
<1>6. i = Splits(s, e) /\ list = Cut(i, s, e)
    OBVIOUS
<1> HIDE DEF i, list
<1>3. CASE i # 0 /\ ~Host(i).named /\ Host(i).low = s /\ Host(i).high = e
    <2>1. AddsTo(i, s, e) = Replaced(zones, i, Titled(zones[i]))
        BY <1>3, <1>6 DEF AddsTo
    <2>2. Added(Replaced(zones, i, Titled(zones[i])), Origins(ranges), n, s, e)
        BY <1>3, <1>6, NameAdds
    <2> QED BY <1>2, <2>1, <2>2
<1>4. CASE ~(i # 0 /\ ~Host(i).named /\ Host(i).low = s /\ Host(i).high = e) /\ Inside(i)
    <2>1. AddsTo(i, s, e) = Replaced(zones, i, Filled(zones[i], list \o zones[i].inner))
        BY <1>4, <1>6 DEF AddsTo
    <2>2. Added(Replaced(zones, i, Filled(zones[i], list)), Origins(ranges), n, s, e) /\ zones[i].inner = <<>>
        BY <1>4, <1>6, InsideAdds
    <2>3. list \o <<>> = list
        BY <1>2, ConcatEmptySeq DEF LeafRun
    <2> HIDE DEF i, list
    <2> QED BY <1>2, <2>1, <2>2, <2>3
<1>5. CASE ~(i # 0 /\ ~Host(i).named /\ Host(i).low = s /\ Host(i).high = e) /\ ~Inside(i)
    <2> DEFINE l == SubSeq(zones, 1, WholeBut(i)) \o list \o SubSeq(zones, WholeBut(i) + 2, Len(zones))
    <2>1. AddsTo(i, s, e) = l
        BY <1>5, <1>6 DEF AddsTo
    <2>2. CASE i = 0
        <3>1. Added(list, Origins(ranges), n, s, e) /\ Alone(i, list)
            BY <1>6, <2>2, RootAdds
        <3>2. l = list
            BY <3>1 DEF Alone
        <3> HIDE DEF i, list, l
        <3> QED BY <1>2, <2>1, <3>1, <3>2
    <2>3. CASE i # 0
        <3>1. Added(l, Origins(ranges), n, s, e)
            BY <1>5, <1>6, <2>3, SplitAdds
        <3> HIDE DEF i, list, l
        <3> QED BY <1>2, <2>1, <3>1
    <2> QED BY <2>2, <2>3
<1> QED BY <1>3, <1>4, <1>5

\* AddCollapsibleZone keeps the listing.
LEMMA AddKeeps ==
    ASSUME zones \in Seq(ZoneType), comments \in Maps(Notes), plain, ZonesOK(zones, ranges, notes, comments),
           NEW s \in Nat, NEW e \in Nat, s < e, AddCollapsibleZone(s, e)
    PROVE  /\ zones' \in Seq(ZoneType) /\ plain' \in BOOLEAN
           /\ plain' => ZonesOK(zones', ranges', notes', comments')
           /\ UNCHANGED <<comments, size, stuck>> /\ path' = <<>> /\ level' = 0 /\ reached' = NoLine /\ passed' = 0
<1> DEFINE o == Origins(ranges)
<1>0. End \in Nat /\ End > 0 /\ Wrap = 4 * End /\ Wrap \in Nat
    BY EndIs
<1>1. /\ CanAddNewZone(s, e) /\ zones' = AddNewZone(s, e) /\ ResetReader
      /\ Remember(AddsWell(s, e), ranges \cup {[from |-> Origin(s), to |-> Origin(e), folded |-> FALSE]}, notes)
      /\ UNCHANGED <<comments, size, stuck>>
    BY DEF AddCollapsibleZone
<1>2. e <= End /\ s \in 0 .. End /\ e \in 1 .. End
    <2>1. e <= End
        BY <1>1 DEF CanAddNewZone
    <2> QED BY <1>0, <2>1
<1>3. zones' \in Seq(ZoneType)
    BY <1>1, <1>2, AddsType
<1>4. plain' \in BOOLEAN
    BY <1>1 DEF Remember, Forget
<1>5. ASSUME plain'
      PROVE  ZonesOK(zones', ranges', notes', comments')
    <2> DEFINE q == [from |-> Origin(s), to |-> Origin(e), folded |-> FALSE]
    <2>1. AddsWell(s, e) /\ ranges' = ranges \cup {q} /\ notes' = notes
        BY <1>1, <1>5 DEF Remember, Forget
    <2>2. q = NewRange(o, s, e)
        <3>1. s \in 0 .. Wrap /\ e \in 0 .. Wrap
            BY <1>0, <1>2
        <3> QED BY <3>1, OriginSame DEF NewRange
    <2>3. Adding(notes, s, e)
        BY <1>1, <2>1 DEF Adding, Opens
    <2>4. Added(zones', o, notes, s, e)
        BY <1>1, <2>3, AddsWhat
    <2>5. Origins(ranges') = o
        <3>1. q.folded = FALSE
            OBVIOUS
        <3> HIDE DEF q
        <3> QED BY <2>1, <3>1, OpenHides
    <2>6. Spanned(ranges, zones, o)
        BY DEF ZonesOK
    <2>7. \A r : IsSpan(r, zones', o) <=> IsSpan(r, zones, o) \/ r = q
        BY <2>2, <2>4 DEF Added
    <2>8. Spanned(ranges \cup {q}, zones', o)
        BY <2>6, <2>7, SpannedMore
    <2> HIDE DEF q, o
    <2>9. Spanned(ranges', zones', Origins(ranges')) /\ Laid(zones', Origins(ranges'), notes')
        BY <2>1, <2>4, <2>5, <2>8 DEF Added
    <2>10. zones' # <<>>
        BY <2>9 DEF Laid
    <2> QED BY <2>9, <2>10 DEF ZonesOK
<1>6. path' = <<>> /\ level' = 0 /\ reached' = NoLine /\ passed' = 0
    BY <1>1 DEF ResetReader
<1> QED BY <1>1, <1>3, <1>4, <1>5, <1>6

-----------------------------------------------------------------------------
(* RemoveCollapsibleZone.                                                  *)

\* What the zone taken away leaves: to the zone before it, or to itself.
Absorbed(z, y) == [z EXCEPT !.high = y.high, !.workHigh = y.workHigh, !.labels = Over(@, y.labels)]
Untitled(z) == [z EXCEPT !.named = FALSE]

Taker(i) == IF i > 1 THEN i - 1 ELSE i
Taken(zs, i) == Untitled(IF Bare(zs, i + 1) THEN Absorbed(zs[Taker(i)], zs[i + 1]) ELSE zs[Taker(i)])
LastKept(zs, i) == IF Bare(zs, i - 1) THEN i - 1 ELSE i
NextKept(zs, i) == IF Bare(zs, i + 1) THEN i + 2 ELSE i + 1

\* The list without a zone, by the zone that takes what it leaves.
LEMMA WithoutIs ==
    ASSUME NEW zs \in Seq(ZoneType), NEW i \in 1 .. Len(zs)
    PROVE  Without(zs, i) =
             IF Clears(zs, i) THEN <<>>
             ELSE SubSeq(Replaced(zs, Taker(i), Taken(zs, i)), 1, LastKept(zs, i))
                    \o SubSeq(Replaced(zs, Taker(i), Taken(zs, i)), NextKept(zs, i), Len(zs))
<1> DEFINE t == Taker(i)
           taken == IF Bare(zs, i + 1)
                 THEN [zs EXCEPT ![t].high = zs[i + 1].high, ![t].workHigh = zs[i + 1].workHigh,
                                 ![t].labels = Over(@, zs[i + 1].labels)]
                 ELSE zs
           unnamed == [taken EXCEPT ![t].named = FALSE]
<1>1. t \in 1 .. Len(zs)
    BY SMTT(60) DEF Taker
<1>2. unnamed = Replaced(zs, t, Taken(zs, i))
    <2>1. CASE Bare(zs, i + 1)
        <3> DEFINE y == zs[i + 1]  a == [zs EXCEPT ![t].high = y.high, ![t].workHigh = y.workHigh, ![t].labels = Over(@, y.labels)]
        <3>1. a = Replaced(zs, t, Absorbed(zs[t], y))
            <4>1. zs[t] \in ZoneType /\ zs = [k \in 1 .. Len(zs) |-> zs[k]]
                BY <1>1
            <4> HIDE DEF t, y
            <4> QED BY <1>1, <4>1 DEF Replaced, Absorbed, ZoneType, ZonesWith
        <3>2. taken = a
            BY <2>1
        <3> HIDE DEF a, y, t, taken
        <3>3. [a EXCEPT ![t].named = FALSE] = Replaced(zs, t, Untitled(Absorbed(zs[t], y)))
            BY <1>1, <3>1 DEF Replaced, Untitled
        <3>4. Taken(zs, i) = Untitled(Absorbed(zs[t], y))
            BY <2>1 DEF Taken, t, y
        <3> QED BY <3>2, <3>3, <3>4
    <2>2. CASE ~Bare(zs, i + 1)
        BY <2>2 DEF Replaced, Taken, Untitled
    <2> QED BY <2>1, <2>2
<1>3. Len(unnamed) = Len(zs)
    <2>1. Len(Replaced(zs, t, Taken(zs, i))) = Len(zs)
        BY <1>1 DEF Replaced
    <2> HIDE DEF unnamed, t
    <2> QED BY <1>2, <2>1
<1>4. Without(zs, i) = IF Clears(zs, i) THEN <<>>
        ELSE SubSeq(unnamed, 1, LastKept(zs, i)) \o SubSeq(unnamed, NextKept(zs, i), Len(zs))
    BY DEF Without, Taker, LastKept, NextKept
<1> HIDE DEF unnamed, t
<1> QED BY <1>2, <1>4 DEF t

\* The fields of such zones.
LEMMA AbsorbedIs ==
    ASSUME NEW I, NEW z \in ZonesWith(I), NEW J, NEW y \in ZonesWith(J)
    PROVE  /\ Absorbed(z, y) \in ZonesWith(I)
           /\ Absorbed(z, y).low = z.low /\ Absorbed(z, y).high = y.high
           /\ Absorbed(z, y).workLow = z.workLow /\ Absorbed(z, y).workHigh = y.workHigh
           /\ Absorbed(z, y).named = z.named /\ Absorbed(z, y).asm = z.asm
           /\ Absorbed(z, y).labels = Over(z.labels, y.labels) /\ Absorbed(z, y).comments = z.comments
           /\ Absorbed(z, y).collapsed = z.collapsed /\ Absorbed(z, y).inner = z.inner
<1>1. Over(z.labels, y.labels) \in Maps(Labels)
    BY OverIs DEF ZonesWith
<1>2. y.high \in Coords /\ y.workHigh \in Coords
    BY DEF ZonesWith
<1> HIDE DEF Over, Maps, Coords
<1> QED BY <1>1, <1>2 DEF Absorbed, ZonesWith

LEMMA UntitledIs ==
    ASSUME NEW I, NEW z \in ZonesWith(I)
    PROVE  Untitled(z) \in ZonesWith(I) /\ SameButName(Untitled(z), z) /\ Untitled(z).named = FALSE
<1> QED BY DEF Untitled, ZonesWith, SameButName

LEMMA TakenType ==
    ASSUME NEW zs \in Seq(ZoneType), NEW i \in 1 .. Len(zs)
    PROVE  /\ Taken(zs, i) \in ZoneType /\ Taker(i) \in 1 .. Len(zs) /\ Len(zs) \in Nat
           /\ LastKept(zs, i) \in 1 .. Len(zs) /\ NextKept(zs, i) \in 2 .. Len(zs) + 1
<1>1. DOMAIN zs = 1 .. Len(zs) /\ Len(zs) \in Nat /\ i \in Int
    BY LenProperties
<1>2. Bare(zs, i + 1) => i + 1 \in 1 .. Len(zs)
    BY <1>1 DEF Bare
<1>3. Bare(zs, i - 1) => i - 1 \in 1 .. Len(zs)
    BY <1>1 DEF Bare
<1>4. Taker(i) \in 1 .. Len(zs)
    BY <1>1 DEF Taker
<1>5. LastKept(zs, i) \in 1 .. Len(zs) /\ NextKept(zs, i) \in 2 .. Len(zs) + 1
    BY <1>1, <1>2, <1>3 DEF LastKept, NextKept
<1>6. zs[Taker(i)] \in ZonesWith(Seq(LeafType))
    BY <1>4 DEF ZoneType
<1>7. Bare(zs, i + 1) => zs[i + 1] \in ZonesWith(Seq(LeafType))
    BY <1>2 DEF ZoneType
<1>8. CASE Bare(zs, i + 1)
    <2>1. Absorbed(zs[Taker(i)], zs[i + 1]) \in ZonesWith(Seq(LeafType))
        BY <1>6, <1>7, <1>8, AbsorbedIs
    <2>2. Untitled(Absorbed(zs[Taker(i)], zs[i + 1])) \in ZonesWith(Seq(LeafType))
        BY <2>1, UntitledIs
    <2> QED BY <1>1, <1>4, <1>5, <1>8, <2>2 DEF Taken, ZoneType
<1>9. CASE ~Bare(zs, i + 1)
    <2>2. Untitled(zs[Taker(i)]) \in ZonesWith(Seq(LeafType))
        BY <1>6, UntitledIs
    <2> QED BY <1>1, <1>4, <1>5, <1>9, <2>2 DEF Taken, ZoneType
<1> QED BY <1>8, <1>9

LEMMA WithoutType ==
    ASSUME NEW zs \in Seq(ZoneType), NEW i \in 1 .. Len(zs)
    PROVE  Without(zs, i) \in Seq(ZoneType)
<1> DEFINE l == Replaced(zs, Taker(i), Taken(zs, i))
<1>1. /\ Taken(zs, i) \in ZoneType /\ Taker(i) \in 1 .. Len(zs) /\ Len(zs) \in Nat
      /\ LastKept(zs, i) \in 1 .. Len(zs) /\ NextKept(zs, i) \in 2 .. Len(zs) + 1
    BY TakenType
<1>2. l \in Seq(ZoneType) /\ Len(l) = Len(zs)
    BY <1>1, ReplacedIs
<1>3. Without(zs, i) = IF Clears(zs, i) THEN <<>> ELSE SubSeq(l, 1, LastKept(zs, i)) \o SubSeq(l, NextKept(zs, i), Len(zs))
    BY WithoutIs
<1> HIDE DEF l
<1>4. SubSeq(l, 1, LastKept(zs, i)) \in Seq(ZoneType) /\ SubSeq(l, NextKept(zs, i), Len(zs)) \in Seq(ZoneType)
    BY <1>1, <1>2
<1>5. SubSeq(l, 1, LastKept(zs, i)) \o SubSeq(l, NextKept(zs, i), Len(zs)) \in Seq(ZoneType)
    BY <1>4
<1>6. <<>> \in Seq(ZoneType)
    OBVIOUS
<1> QED BY <1>3, <1>5, <1>6

\* Two zones side by side, neither folded, that become one.
Merging(u, v, o, n) ==
    /\ u \in ZoneType /\ v \in ZoneType /\ u.inner = <<>> /\ v.inner = <<>> /\ ~u.collapsed /\ ~v.collapsed
    /\ AnyOK(u, o) /\ AnyOK(v, o) /\ Leaf(u, o, n) /\ Leaf(v, o, n) /\ u.high = v.low /\ DOMAIN n = {}
    /\ u.workLow = u.low /\ u.workHigh = u.high /\ v.workLow = v.low /\ v.workHigh = v.high

\* Their labels, their lines and their comments are those of the one zone.
LEMMA MergeLabels ==
    ASSUME NEW u, NEW v, NEW o, Orderly(o), NEW n, Merging(u, v, o, n),
           NEW w \in ZoneType, w.low = u.low, w.high = v.high, w.labels = Over(u.labels, v.labels)
    PROVE  /\ Labelled(w, o)
           /\ o[v.low] = o[u.low] + (v.low - u.low) /\ o[u.high] <= o[v.high]
<1>1. u \in ZonesWith(Seq(LeafType)) /\ v \in ZonesWith(Seq(LeafType)) /\ AnyOK(u, o) /\ AnyOK(v, o)
    BY DEF Merging, ZoneType
<1>2. /\ u.low \in Nat /\ u.high \in Nat /\ u.low <= u.high /\ u.low \in 0 .. Wrap /\ u.high \in 0 .. Wrap
      /\ o[u.low] \in Nat /\ o[u.high] \in Nat
    BY <1>1, AnyBounds
<1>3. /\ v.low \in Nat /\ v.high \in Nat /\ v.low <= v.high /\ v.low \in 0 .. Wrap /\ v.high \in 0 .. Wrap
      /\ o[v.low] \in Nat /\ o[v.high] \in Nat /\ o[v.low] <= o[v.high]
    BY <1>1, AnyBounds
<1>4. u.high = v.low
    BY DEF Merging
<1>5. Runs(u, o, u.high)
    BY DEF Merging, Leaf, Spread, Straight, Runs
<1>6. u.high = 0 \/ o[u.high - 1] < End
    <2>1. v.low = 0 \/ o[v.low - 1] < End
        BY <1>1 DEF AnyOK
    <2> QED BY <1>4, <2>1
<1>7. u.high <= Wrap
    BY <1>2, EndIs
<1>8. o[u.high] = o[u.low] + (u.high - u.low)
    BY <1>1, <1>2, <1>5, <1>6, <1>7, ExactRun
<1>9. u.labels \in Maps(Labels) /\ v.labels \in Maps(Labels)
    BY <1>1, ZoneFields
<1>10. /\ DOMAIN w.labels = DOMAIN u.labels \cup DOMAIN v.labels
       /\ \A k \in DOMAIN u.labels \cup DOMAIN v.labels : w.labels[k] = IF k \in DOMAIN u.labels THEN u.labels[k] ELSE v.labels[k]
    <2>1. IsOver(Over(u.labels, v.labels), u.labels, v.labels, Labels)
        BY <1>9, IsOverThen
    <2> HIDE DEF Over
    <2> QED BY <2>1 DEF IsOver
<1>11. Labelled(u, o) /\ Labelled(v, o)
    BY <1>1 DEF AnyOK
<1>12. ASSUME NEW k \in Words
       PROVE  /\ k \in DOMAIN w.labels <=> w.low <= k /\ o[w.low] + (k - w.low) \in Labels /\ o[w.low] + (k - w.low) < o[w.high]
              /\ k \in DOMAIN w.labels => w.labels[k] = o[w.low] + (k - w.low)
    <2> DEFINE a == u.low  b == v.low  c == o[u.low]  m == o[v.low]  h == o[v.high]
    <2>1. /\ k \in DOMAIN u.labels <=> a <= k /\ c + (k - a) \in Labels /\ c + (k - a) < m
          /\ k \in DOMAIN u.labels => u.labels[k] = c + (k - a)
        BY <1>4, <1>11 DEF Labelled
    <2>2. /\ k \in DOMAIN v.labels <=> b <= k /\ m + (k - b) \in Labels /\ m + (k - b) < h
          /\ k \in DOMAIN v.labels => v.labels[k] = m + (k - b)
        BY <1>11 DEF Labelled
    <2>3. m = c + (b - a) /\ m <= h /\ a \in Nat /\ b \in Nat /\ c \in Nat /\ m \in Nat /\ h \in Nat /\ a <= b /\ k \in Int
        BY <1>2, <1>3, <1>4, <1>8, EndIs DEF Words
    <2>4. o[w.low] = c /\ o[w.high] = h /\ w.low = a
        OBVIOUS
    <2> HIDE DEF a, b, c, m, h
    <2>5. m + (k - b) = c + (k - a)
        BY <2>3
    <2>6. k \in DOMAIN w.labels <=> a <= k /\ c + (k - a) \in Labels /\ c + (k - a) < h
        <3>1. CASE k < b
            <4>1. c + (k - a) < m /\ c + (k - a) < h /\ ~(b <= k)
                BY <2>3, <3>1
            <4> QED BY <1>10, <2>1, <2>2, <4>1
        <3>2. CASE ~(k < b)
            <4>1. a <= k /\ ~(c + (k - a) < m) /\ b <= k
                BY <2>3, <3>2
            <4> QED BY <1>10, <2>1, <2>2, <2>5, <4>1
        <3> QED BY <3>1, <3>2
    <2>7. k \in DOMAIN w.labels => w.labels[k] = c + (k - a)
        BY <1>10, <2>1, <2>2, <2>5
    <2> QED BY <2>4, <2>6, <2>7
<1>13. Labelled(w, o)
    BY <1>12 DEF Labelled
<1> QED BY <1>3, <1>4, <1>8, <1>13

LEMMA MergeSpread ==
    ASSUME NEW u, NEW v, NEW o, Orderly(o), NEW n, Merging(u, v, o, n),
           NEW w \in ZoneType, w.low = u.low, w.high = v.high, w.workLow = u.workLow, w.workHigh = v.workHigh,
           w.collapsed = FALSE, o[v.low] = o[u.low] + (v.low - u.low)
    PROVE  Spread(w, o)
<1>1. u \in ZonesWith(Seq(LeafType)) /\ v \in ZonesWith(Seq(LeafType)) /\ AnyOK(u, o) /\ AnyOK(v, o)
    BY DEF Merging, ZoneType
<1>2. /\ u.low \in Nat /\ u.high \in Nat /\ u.low <= u.high /\ u.low \in 0 .. Wrap /\ u.high \in 0 .. Wrap
      /\ o[u.low] \in Nat /\ o[u.high] \in Nat
    BY <1>1, AnyBounds
<1>3. /\ v.low \in Nat /\ v.high \in Nat /\ v.low <= v.high /\ v.low \in 0 .. Wrap /\ v.high \in 0 .. Wrap
      /\ o[v.low] \in Nat /\ o[v.high] \in Nat /\ o[v.low] <= o[v.high]
    BY <1>1, AnyBounds
<1>4. u.high = v.low /\ u.workLow = u.low /\ v.workHigh = v.high
    BY DEF Merging
<1>5. Straight(u, o) /\ Straight(v, o)
    BY DEF Merging, Leaf, Spread
<1>6. w.high - w.low = Work(w)
    BY <1>4 DEF Work
<1>7. Straight(w, o)
    <2> DEFINE a == u.low  b == v.low  c == o[u.low]  m == o[v.low]  h == v.high
    <2>1. \A x \in a .. b : o[x] = Cap(c + (x - a))
        BY <1>4, <1>5 DEF Straight
    <2>2. \A x \in b .. h : o[x] = Cap(m + (x - b))
        BY <1>5 DEF Straight
    <2>3. w.low = a /\ w.high = h /\ o[w.low] = c /\ m = c + (b - a)
        OBVIOUS
    <2>4. a \in Nat /\ b \in Nat /\ h \in Nat /\ c \in Nat /\ m \in Nat
        BY <1>2, <1>3
    <2> HIDE DEF a, b, c, m, h
    <2>5. ASSUME NEW x \in a .. h PROVE o[x] = Cap(c + (x - a))
        <3>1. CASE x <= b
            BY <2>1, <2>4, <3>1
        <3>2. CASE ~(x <= b)
            <4>1. x \in b .. h /\ m + (x - b) = c + (x - a)
                BY <2>3, <2>4, <3>2
            <4> QED BY <2>2, <4>1
        <3> QED BY <3>1, <3>2
    <2> QED BY <2>3, <2>5 DEF Straight
<1> QED BY <1>6, <1>7 DEF Spread

LEMMA NothingNoted ==
    ASSUME NEW u, NEW w, NEW o, NEW n, Noted(u, o, n), DOMAIN n = {}, w.low = u.low, w.comments = u.comments
    PROVE  Noted(w, o, n)
<1>1. ASSUME NEW l \in 1 .. End - 1 PROVE Place(w, o, l) \notin DOMAIN w.comments
    <2>1. Place(u, o, l) \notin DOMAIN u.comments
        BY DEF Noted
    <2>2. Place(w, o, l) = Place(u, o, l)
        BY DEF Place
    <2> QED BY <2>1, <2>2
<1> QED BY <1>1 DEF Noted

\* So the one zone is sound.
LEMMA MergeIs ==
    ASSUME NEW u, NEW v, NEW o, Orderly(o), NEW n, Merging(u, v, o, n)
    PROVE  LET w == Untitled(Absorbed(u, v))
           IN  /\ w \in ZoneType /\ AnyOK(w, o) /\ Leaf(w, o, n)
               /\ w.low = u.low /\ w.high = v.high /\ w.workLow = w.low /\ w.workHigh = w.high
               /\ w.named = FALSE /\ w.collapsed = FALSE /\ w.inner = <<>>
               /\ w.labels = Over(u.labels, v.labels) /\ w.asm = u.asm /\ w.comments = u.comments
               /\ Merging(u, v, o, n)
<1> DEFINE a == Absorbed(u, v)  w == Untitled(a)
<1>1. u \in ZonesWith(Seq(LeafType)) /\ v \in ZonesWith(Seq(LeafType)) /\ AnyOK(u, o) /\ AnyOK(v, o)
    BY DEF Merging, ZoneType
<1>2. /\ a \in ZonesWith(Seq(LeafType))
      /\ a.low = u.low /\ a.high = v.high
      /\ a.workLow = u.workLow /\ a.workHigh = v.workHigh
      /\ a.named = u.named /\ a.asm = u.asm
      /\ a.labels = Over(u.labels, v.labels) /\ a.comments = u.comments
      /\ a.collapsed = u.collapsed /\ a.inner = u.inner
    BY <1>1, AbsorbedIs
<1> HIDE DEF a
<1>3. w \in ZonesWith(Seq(LeafType)) /\ SameButName(w, a) /\ w.named = FALSE
    BY <1>2, UntitledIs
<1> HIDE DEF w
<1>4. u.collapsed = FALSE
    <2>1. u.collapsed \in BOOLEAN /\ ~u.collapsed
        BY <1>1, ZoneFields DEF Merging
    <2> QED BY <2>1
<1>5. /\ w \in ZoneType /\ w.low = u.low /\ w.high = v.high /\ w.workLow = u.workLow /\ w.workHigh = v.workHigh
      /\ w.named = FALSE /\ w.collapsed = FALSE /\ w.inner = <<>>
      /\ w.labels = Over(u.labels, v.labels) /\ w.asm = u.asm /\ w.comments = u.comments
    BY <1>2, <1>3, <1>4 DEF SameButName, ZoneType, Merging
<1>6. w.workLow = w.low /\ w.workHigh = w.high
    BY <1>5 DEF Merging
<1>7. Labelled(w, o) /\ o[v.low] = o[u.low] + (v.low - u.low) /\ o[u.high] <= o[v.high]
    BY <1>5, MergeLabels
<1>8. Spread(w, o)
    BY <1>5, <1>7, MergeSpread
<1>9. Noted(w, o, n)
    BY <1>5, NothingNoted DEF Merging, Leaf
<1>10. AnyOK(w, o)
    <2>1. /\ u.low \in Nat /\ u.high \in Nat /\ u.low <= u.high
        BY <1>1, AnyBounds
    <2>2. v.low \in Nat /\ v.high \in Nat /\ v.low <= v.high
        BY <1>1, AnyBounds
    <2>3. u.high = v.low
        BY DEF Merging
    <2>4. w.low <= w.high
        BY <1>5, <2>1, <2>2, <2>3
    <2>5. w.high <= 2 * End /\ w.workHigh <= End
        BY <1>1, <1>5 DEF AnyOK
    <2>6. w.workLow <= w.workHigh
        BY <1>6, <2>4
    <2>7. w.low = 0 \/ o[w.low - 1] < End
        BY <1>1, <1>5 DEF AnyOK
    <2>8. w.asm = Instr(o[w.low])
        BY <1>1, <1>5 DEF AnyOK
    <2> QED BY <1>5, <1>7, <2>4, <2>5, <2>6, <2>7, <2>8 DEF AnyOK
<1>11. Leaf(w, o, n)
    BY <1>5, <1>8, <1>9 DEF Leaf
<1> QED BY <1>5, <1>6, <1>10, <1>11 DEF w, a

\* The front of a list up to e, and its back from c on.
IsFront(s, zs, e, X) == s \in Seq(X) /\ Len(s) = e /\ \A x \in 1 .. e : s[x] = zs[x]
IsBack(s, zs, c, X) == s \in Seq(X) /\ Len(s) = Len(zs) - c + 1 /\ \A x \in 1 .. Len(s) : s[x] = zs[c + x - 1]

LEMMA FrontIs ==
    ASSUME NEW X, NEW zs \in Seq(X), NEW e \in 0 .. Len(zs)
    PROVE  IsFront(SubSeq(zs, 1, e), zs, e, X)
<1>0. Len(zs) \in Nat /\ e \in Int /\ 1 \in Int
    OBVIOUS
<1>1. \A x \in 1 .. e : zs[x] \in X
    BY <1>0
<1>2. /\ SubSeq(zs, 1, e) \in Seq(X) /\ Len(SubSeq(zs, 1, e)) = (IF 1 <= e THEN e - 1 + 1 ELSE 0)
      /\ \A x \in 1 .. e - 1 + 1 : SubSeq(zs, 1, e)[x] = zs[1 + x - 1]
    BY <1>0, <1>1, SubSeqProperties
<1>3. (IF 1 <= e THEN e - 1 + 1 ELSE 0) = e /\ \A x \in 1 .. e : x \in 1 .. e - 1 + 1 /\ 1 + x - 1 = x
    BY <1>0
<1>4. \A x \in 1 .. e : SubSeq(zs, 1, e)[x] = zs[x]
    BY <1>2, <1>3
<1> QED BY <1>2, <1>3, <1>4 DEF IsFront

LEMMA BackIs ==
    ASSUME NEW X, NEW zs \in Seq(X), NEW c \in 1 .. Len(zs) + 1
    PROVE  IsBack(SubSeq(zs, c, Len(zs)), zs, c, X)
<1> DEFINE l == Len(zs)
<1>0. l \in Nat /\ l \in Int /\ c \in Int /\ c <= l + 1
    OBVIOUS
<1>1. \A x \in c .. l : zs[x] \in X
    OBVIOUS
<1> HIDE DEF l
<1>2. /\ SubSeq(zs, c, l) \in Seq(X) /\ Len(SubSeq(zs, c, l)) = (IF c <= l THEN l - c + 1 ELSE 0)
      /\ \A x \in 1 .. l - c + 1 : SubSeq(zs, c, l)[x] = zs[c + x - 1]
    BY <1>0, <1>1, SubSeqProperties
<1>3. (IF c <= l THEN l - c + 1 ELSE 0) = l - c + 1
    BY <1>0
<1> QED BY <1>2, <1>3 DEF IsBack, l

\* A list cut out around a zone that was replaced is one pasted.
LEMMA ReplacedPasted ==
    ASSUME NEW zs \in Seq(ZoneType), NEW t \in 1 .. Len(zs), NEW m \in t + 1 .. Len(zs) + 1, NEW w \in ZoneType
    PROVE  SubSeq(Replaced(zs, t, w), 1, t) \o SubSeq(Replaced(zs, t, w), m, Len(zs)) = Pasted(zs, t, m - 1, <<w>>)
<1> DEFINE l == Replaced(zs, t, w)  one == <<w>>  e == t - 1  front == SubSeq(zs, 1, e) \o one
<1>0. Len(zs) \in Nat /\ t \in Nat /\ m \in Nat /\ e \in 0 .. Len(zs) /\ m \in 1 .. Len(zs) + 1 /\ (m - 1) + 1 = m
    OBVIOUS
<1>1. l \in Seq(ZoneType) /\ Len(l) = Len(zs) /\ l[t] = w /\ \A k \in 1 .. Len(zs) : k # t => l[k] = zs[k]
    BY ReplacedIs
<1>2. one \in Seq(ZoneType) /\ Len(one) = 1 /\ one[1] = w
    OBVIOUS
<1>3. IsFront(SubSeq(zs, 1, e), zs, e, ZoneType)
    BY <1>0, FrontIs
<1> HIDE DEF l, one
<1>4. /\ front \in Seq(ZoneType) /\ Len(front) = e + 1
      /\ \A x \in 1 .. e + 1 : front[x] = IF x <= e THEN zs[x] ELSE w
    <2> DEFINE a == SubSeq(zs, 1, e)
    <2>1. a \in Seq(ZoneType) /\ Len(a) = e /\ \A x \in 1 .. e : a[x] = zs[x]
        BY <1>3 DEF IsFront
    <2> HIDE DEF a
    <2>2. /\ a \o one \in Seq(ZoneType) /\ Len(a \o one) = Len(a) + Len(one)
          /\ \A x \in 1 .. Len(a) + Len(one) : (a \o one)[x] = IF x <= Len(a) THEN a[x] ELSE one[x - Len(a)]
        BY <1>2, <2>1, ConcatProperties
    <2>3. front = a \o one
        BY DEF a
    <2>4. e \in Nat
        BY <1>0
    <2> HIDE DEF front, e
    <2>5. Len(front) = e + 1 /\ front \in Seq(ZoneType)
        BY <1>2, <2>1, <2>2, <2>3
    <2>6. ASSUME NEW x \in 1 .. e + 1 PROVE front[x] = IF x <= e THEN zs[x] ELSE w
        <3>1. front[x] = IF x <= e THEN a[x] ELSE one[x - e]
            BY <1>2, <2>1, <2>2, <2>3
        <3>2. CASE x <= e
            BY <2>1, <2>4, <3>1, <3>2
        <3>3. CASE ~(x <= e)
            <4>1. x - e = 1
                BY <2>4, <3>3
            <4> QED BY <1>2, <3>1, <3>3, <4>1
        <3> QED BY <3>2, <3>3
    <2> QED BY <2>5, <2>6
<1> HIDE DEF front
<1>5. SubSeq(l, 1, t) = front
    <2>1. IsFront(SubSeq(l, 1, t), l, t, ZoneType)
        BY <1>0, <1>1, FrontIs
    <2> DEFINE s == SubSeq(l, 1, t)
    <2>2. s \in Seq(ZoneType) /\ Len(s) = t /\ \A x \in 1 .. t : s[x] = l[x]
        BY <2>1 DEF IsFront
    <2> HIDE DEF s
    <2>3. e + 1 = t /\ e \in Nat /\ t \in 1 .. Len(zs)
        BY <1>0
    <2> HIDE DEF e
    <2>4. Len(s) = Len(front)
        BY <1>4, <2>2, <2>3
    <2>5. ASSUME NEW x \in 1 .. Len(s) PROVE s[x] = front[x]
        <3>1. CASE x = t
            BY <1>0, <1>1, <1>4, <2>2, <2>3, <3>1
        <3>2. CASE x # t
            <4>1. x \in 1 .. Len(zs) /\ x <= e /\ x \in 1 .. e + 1 /\ x \in 1 .. t
                BY <1>0, <2>2, <2>3, <3>2
            <4> QED BY <1>1, <1>4, <2>2, <3>2, <4>1
        <3> QED BY <3>1, <3>2
    <2> QED BY <1>4, <2>2, <2>4, <2>5, SeqEqual DEF s
<1>6. SubSeq(l, m, Len(zs)) = SubSeq(zs, m, Len(zs))
    <2>1. IsBack(SubSeq(zs, m, Len(zs)), zs, m, ZoneType)
        BY <1>0, BackIs
    <2>2. IsBack(SubSeq(l, m, Len(l)), l, m, ZoneType)
        BY <1>0, <1>1, BackIs
    <2> DEFINE a == SubSeq(zs, m, Len(zs))  b == SubSeq(l, m, Len(l))
    <2>3. a \in Seq(ZoneType) /\ Len(a) = Len(zs) - m + 1 /\ \A x \in 1 .. Len(a) : a[x] = zs[m + x - 1]
        BY <2>1 DEF IsBack
    <2>4. b \in Seq(ZoneType) /\ Len(b) = Len(l) - m + 1 /\ \A x \in 1 .. Len(b) : b[x] = l[m + x - 1]
        BY <2>2 DEF IsBack
    <2>5. b = SubSeq(l, m, Len(zs))
        BY <1>1
    <2> HIDE DEF a, b
    <2>6. Len(a) = Len(b)
        BY <1>1, <2>3, <2>4
    <2>7. ASSUME NEW x \in 1 .. Len(a) PROVE a[x] = b[x]
        <3>1. m + x - 1 \in 1 .. Len(zs) /\ m + x - 1 # t
            BY <1>0, <2>3
        <3> QED BY <1>1, <2>3, <2>4, <2>6, <3>1
    <2>8. a = b
        BY <2>3, <2>4, <2>6, <2>7, SeqEqual
    <2> QED BY <2>5, <2>8 DEF a
<1>7. Pasted(zs, t, m - 1, one) = SubSeq(zs, 1, e) \o one \o SubSeq(zs, m, Len(zs))
    BY <1>0 DEF Pasted
<1>8. SubSeq(l, 1, t) \o SubSeq(l, m, Len(zs)) = front \o SubSeq(zs, m, Len(zs))
    BY <1>5, <1>6
<1> QED BY <1>7, <1>8 DEF front, l, one

\* The list of a right removal, and which of its zones can take what is left.
Removing(zs, i, o, n) ==
    /\ zs \in Seq(ZoneType) /\ Orderly(o) /\ Laid(zs, o, n) /\ i \in 1 .. Len(zs) /\ zs[i].named /\ ~zs[i].collapsed
    /\ DOMAIN n = {}
    /\ \A k \in 1 .. Len(zs) : zs[k].inner = <<>> /\ zs[k].low = zs[k].workLow /\ zs[k].high = zs[k].workHigh

Taking(zs, i) == i = 1 \/ (Bare(zs, i - 1) /\ Bare(zs, i + 1) /\ DOMAIN zs[i].labels = {})

LEMMA RemovingIs ==
    ASSUME NEW zs, NEW i, NEW o, NEW n, Removing(zs, i, o, n), NEW k \in 1 .. Len(zs)
    PROVE  /\ zs[k] \in ZoneType /\ AnyOK(zs[k], o) /\ Leaf(zs[k], o, n) /\ Len(zs) \in Nat /\ DOMAIN zs = 1 .. Len(zs)
           /\ Bare(zs, k) => zs[k].named = FALSE /\ ~zs[k].collapsed
<1>1. zs \in Seq(ZoneType) /\ Laid(zs, o, n) /\ zs[k].inner = <<>>
    BY DEF Removing
<1>2. zs[k] \in ZoneType /\ AnyOK(zs[k], o) /\ (zs[k].inner = <<>> => Leaf(zs[k], o, n))
    BY <1>1, LaidIs
<1>3. Leaf(zs[k], o, n)
    BY <1>1, <1>2
<1>4. Len(zs) \in Nat /\ DOMAIN zs = 1 .. Len(zs)
    BY <1>1, LenProperties
<1>5. Bare(zs, k) => zs[k].named = FALSE /\ ~zs[k].collapsed
    <2>1. zs[k].named \in BOOLEAN
        BY <1>2, ZoneFields DEF ZoneType
    <2> QED BY <1>3, <2>1 DEF Bare, Leaf, Spread
<1> QED BY <1>2, <1>3, <1>4, <1>5

LEMMA NeighboursMerge ==
    ASSUME NEW zs, NEW i, NEW o, NEW n, Removing(zs, i, o, n), NEW k \in 1 .. Len(zs), k + 1 \in 1 .. Len(zs),
           ~zs[k].collapsed, ~zs[k + 1].collapsed
    PROVE  Merging(zs[k], zs[k + 1], o, n)
<1>1. zs[k] \in ZoneType /\ AnyOK(zs[k], o) /\ Leaf(zs[k], o, n) /\ Len(zs) \in Nat
    BY RemovingIs
<1> DEFINE j == k + 1
<1>2. j \in 1 .. Len(zs) /\ ~zs[j].collapsed
    OBVIOUS
<1> HIDE DEF j
<1>3. zs[j] \in ZoneType /\ AnyOK(zs[j], o) /\ Leaf(zs[j], o, n)
    BY <1>2, RemovingIs
<1>4. zs[k].high = zs[j].low
    <2>1. k \in 1 .. Len(zs) - 1
        BY <1>1, <1>2 DEF j
    <2> QED BY <2>1 DEF Removing, Laid, Chain, j
<1>5. /\ zs[k].inner = <<>> /\ zs[k].low = zs[k].workLow /\ zs[k].high = zs[k].workHigh
      /\ zs[j].inner = <<>> /\ zs[j].low = zs[j].workLow /\ zs[j].high = zs[j].workHigh /\ DOMAIN n = {}
    BY <1>2 DEF Removing
<1>6. Merging(zs[k], zs[j], o, n)
    BY <1>1, <1>2, <1>3, <1>4, <1>5 DEF Merging
<1> QED BY <1>6 DEF j

\* A map with nothing to add.
LEMMA OverNothing ==
    ASSUME NEW X, NEW f \in Maps(X), NEW g \in Maps(X), DOMAIN g = {}
    PROVE  Over(f, g) = f
<1>1. IsOver(Over(f, g), f, g, X)
    BY IsOverThen
<1> DEFINE h == Over(f, g)
<1>2. h \in Maps(X) /\ DOMAIN h = DOMAIN f /\ \A k \in DOMAIN h : h[k] = f[k]
    <2> HIDE DEF h
    <2>1. IsOver(h, f, g, X)
        BY <1>1 DEF h
    <2> QED BY <2>1 DEF IsOver
<1> HIDE DEF h
<1>3. h = f
    BY <1>2, SameMap
<1> QED BY <1>3 DEF h

\* What takes a zone away from between two bare ones is one zone over all three.
LEMMA MergeTwice ==
    ASSUME NEW u, NEW x, NEW v, NEW o, Orderly(o), NEW n, Merging(u, x, o, n), Merging(x, v, o, n), DOMAIN x.labels = {}
    PROVE  LET w == Untitled(Absorbed(u, v))
           IN  w \in ZoneType /\ AnyOK(w, o) /\ Leaf(w, o, n) /\ w.low = u.low /\ w.high = v.high /\ w.named = FALSE
               /\ w.inner = <<>> /\ Merging(x, v, o, n)
<1> DEFINE m == Untitled(Absorbed(u, x))  y == Untitled(Absorbed(m, v))  a == Absorbed(u, v)  w == Untitled(a)
<1>1. /\ m \in ZoneType /\ AnyOK(m, o) /\ Leaf(m, o, n)
      /\ m.low = u.low /\ m.high = x.high /\ m.workLow = m.low /\ m.workHigh = m.high
      /\ m.named = FALSE /\ m.collapsed = FALSE /\ m.inner = <<>>
      /\ m.labels = Over(u.labels, x.labels) /\ m.asm = u.asm /\ m.comments = u.comments
      /\ Merging(u, x, o, n)
    BY MergeIs
<1>2. u \in ZonesWith(Seq(LeafType)) /\ x \in ZonesWith(Seq(LeafType)) /\ v \in ZonesWith(Seq(LeafType))
    BY DEF Merging, ZoneType
<1> HIDE DEF m
<1>3. Merging(m, v, o, n)
    BY <1>1 DEF Merging
<1>4. /\ y \in ZoneType /\ AnyOK(y, o) /\ Leaf(y, o, n)
      /\ y.low = m.low /\ y.high = v.high /\ y.workLow = y.low /\ y.workHigh = y.high
      /\ y.named = FALSE /\ y.collapsed = FALSE /\ y.inner = <<>>
      /\ y.labels = Over(m.labels, v.labels) /\ y.asm = m.asm /\ y.comments = m.comments
      /\ Merging(m, v, o, n)
    BY <1>3, MergeIs
<1> HIDE DEF y
<1>5. u.labels \in Maps(Labels) /\ x.labels \in Maps(Labels)
    BY <1>2, ZoneFields
<1>6. m.labels = u.labels
    BY <1>1, <1>5, OverNothing
<1>7. /\ a \in ZonesWith(Seq(LeafType))
      /\ a.low = u.low /\ a.high = v.high
      /\ a.workLow = u.workLow /\ a.workHigh = v.workHigh
      /\ a.named = u.named /\ a.asm = u.asm
      /\ a.labels = Over(u.labels, v.labels) /\ a.comments = u.comments
      /\ a.collapsed = u.collapsed /\ a.inner = u.inner
    BY <1>2, AbsorbedIs
<1> HIDE DEF a
<1>8. w \in ZonesWith(Seq(LeafType)) /\ SameButName(w, a) /\ w.named = FALSE
    BY <1>7, UntitledIs
<1> HIDE DEF w
<1>9. u.collapsed = FALSE
    <2>1. u.collapsed \in BOOLEAN /\ ~u.collapsed
        BY <1>2, ZoneFields DEF Merging
    <2> QED BY <2>1
<1>10. u.workLow = u.low /\ v.workHigh = v.high /\ u.inner = <<>>
    BY DEF Merging
<1>11. /\ w.low = y.low /\ w.high = y.high /\ w.workLow = y.workLow /\ w.workHigh = y.workHigh
       /\ w.asm = y.asm /\ w.labels = y.labels /\ w.comments = y.comments
    BY <1>1, <1>4, <1>6, <1>7, <1>8, <1>10 DEF SameButName
<1>12. w.named = y.named /\ w.collapsed = y.collapsed /\ w.inner = y.inner
    BY <1>4, <1>7, <1>8, <1>9, <1>10 DEF SameButName
<1>13. y \in ZonesWith(Seq(LeafType))
    BY <1>4 DEF ZoneType
<1>14. w = y
    BY <1>8, <1>11, <1>12, <1>13, SameZone
<1> QED BY <1>1, <1>4, <1>14 DEF w, a

\* The zone that takes what is left by zone i, which stretches over the zones from a to b.
Takes(w, zs, i, o, n, a, b) ==
    /\ w \in ZoneType /\ Sound(w, o, n) /\ w.low = zs[a].low /\ w.high = zs[b].high /\ w.named = FALSE /\ w.inner = <<>>
    /\ a \in 1 .. Len(zs) /\ b \in a .. Len(zs) /\ i \in a .. b
    /\ \A k \in a .. b : k = i \/ Bare(zs, k)
    /\ LastKept(zs, i) = a /\ Taker(i) = a /\ NextKept(zs, i) = b + 1

\* Lists begin at 1.
LEMMA NoneBefore ==
    ASSUME NEW zs \in Seq(ZoneType)
    PROVE  ~Bare(zs, 0) /\ DOMAIN zs = 1 .. Len(zs) /\ Len(zs) \in Nat
<1> QED BY LenProperties DEF Bare

\* A first zone takes what is behind it, a later one is taken by the zone before it.
LEMMA FirstTaken ==
    ASSUME NEW zs, NEW i, NEW o, NEW n, Removing(zs, i, o, n), i = 1
    PROVE  \E b : Takes(Taken(zs, i), zs, i, o, n, 1, b)
<1>1. zs \in Seq(ZoneType) /\ 1 \in 1 .. Len(zs) /\ Orderly(o) /\ ~zs[1].collapsed
    BY DEF Removing
<1>2. ~Bare(zs, 0) /\ DOMAIN zs = 1 .. Len(zs) /\ Len(zs) \in Nat
    BY <1>1, NoneBefore
<1>3. zs[1] \in ZoneType /\ AnyOK(zs[1], o) /\ Leaf(zs[1], o, n)
    BY <1>1, RemovingIs
<1>4. Taker(i) = 1 /\ LastKept(zs, i) = 1
    BY <1>2 DEF Taker, LastKept
<1>5. CASE Bare(zs, 2)
    <2>1. 2 \in 1 .. Len(zs)
        BY <1>2, <1>5 DEF Bare
    <2>2. ~zs[2].collapsed
        BY <1>5, <2>1, RemovingIs
    <2>3. 1 + 1 = 2
        OBVIOUS
    <2>4. Merging(zs[1], zs[2], o, n)
        <3>1. 1 \in 1 .. Len(zs) /\ 1 + 1 \in 1 .. Len(zs) /\ ~zs[1].collapsed /\ ~zs[1 + 1].collapsed
            BY <1>1, <2>1, <2>2, <2>3
        <3>2. Merging(zs[1], zs[1 + 1], o, n)
            BY <3>1, NeighboursMerge
        <3> QED BY <2>3, <3>2
    <2> DEFINE w == Untitled(Absorbed(zs[1], zs[2]))
    <2>5. /\ w \in ZoneType /\ AnyOK(w, o) /\ Leaf(w, o, n)
          /\ w.low = zs[1].low /\ w.high = zs[2].high /\ w.workLow = w.low /\ w.workHigh = w.high
          /\ w.named = FALSE /\ w.collapsed = FALSE /\ w.inner = <<>>
          /\ w.labels = Over(zs[1].labels, zs[2].labels) /\ w.asm = zs[1].asm /\ w.comments = zs[1].comments
          /\ Merging(zs[1], zs[2], o, n)
        BY <1>1, <2>4, MergeIs
    <2>6. Taken(zs, i) = w /\ NextKept(zs, i) = 3
        BY <1>4, <1>5 DEF Taken, NextKept
    <2> HIDE DEF w
    <2>7. Takes(w, zs, i, o, n, 1, 2)
        <3>1. Sound(w, o, n)
            BY <2>5 DEF Sound
        <3>2. 2 \in 1 .. Len(zs) /\ i \in 1 .. 2 /\ \A k \in 1 .. 2 : k = i \/ Bare(zs, k)
            BY <1>5, <2>1
        <3>3. NextKept(zs, i) = 2 + 1
            BY <2>6
        <3> QED BY <1>1, <1>4, <2>5, <3>1, <3>2, <3>3 DEF Takes
    <2> QED BY <2>6, <2>7
<1>6. CASE ~Bare(zs, 2)
    <2> DEFINE w == Untitled(zs[1])
    <2>1. zs[1] \in ZonesWith(Seq(LeafType))
        BY <1>3 DEF ZoneType
    <2>2. w \in ZonesWith(Seq(LeafType)) /\ SameButName(w, zs[1]) /\ w.named = FALSE
        BY <2>1, UntitledIs
    <2>3. Taken(zs, i) = w /\ NextKept(zs, i) = 2
        BY <1>4, <1>6 DEF Taken, NextKept
    <2> HIDE DEF w
    <2>4. AnyOK(w, o)
        <3>1. Labelled(w, o)
            <4>1. Labelled(zs[1], o)
                BY <1>3 DEF AnyOK
            <4> QED BY <2>2, <4>1 DEF Labelled, SameButName
        <3> QED BY <1>3, <2>2, <3>1 DEF AnyOK, SameButName
    <2>5. Spread(w, o)
        <3>1. Spread(zs[1], o) /\ ~zs[1].collapsed
            BY <1>1, <1>3 DEF Leaf
        <3> QED BY <2>2, <3>1 DEF Spread, Straight, Work, SameButName
    <2>6. Noted(w, o, n)
        <3>1. Noted(zs[1], o, n) /\ DOMAIN n = {}
            BY <1>3 DEF Leaf, Removing
        <3> QED BY <2>2, <3>1, NothingNoted DEF SameButName
    <2>7. w.inner = <<>>
        BY <1>3, <2>2 DEF Leaf, SameButName
    <2>8. Takes(w, zs, i, o, n, 1, 1)
        <3>1. Sound(w, o, n)
            BY <2>4, <2>5, <2>6, <2>7 DEF Sound, Leaf
        <3>2. 1 \in 1 .. Len(zs) /\ i \in 1 .. 1 /\ \A k \in 1 .. 1 : k = i \/ Bare(zs, k)
            BY <1>1
        <3>3. NextKept(zs, i) = 1 + 1
            BY <2>3
        <3>4. w \in ZoneType /\ w.low = zs[1].low /\ w.high = zs[1].high
            BY <2>2 DEF SameButName, ZoneType
        <3> QED BY <1>1, <1>4, <2>2, <2>7, <3>1, <3>2, <3>3, <3>4 DEF Takes
    <2> QED BY <2>3, <2>8
<1> QED BY <1>5, <1>6

LEMMA LaterTaken ==
    ASSUME NEW zs, NEW i, NEW o, NEW n, Removing(zs, i, o, n), i # 1, Taking(zs, i)
    PROVE  \E a, b : Takes(Taken(zs, i), zs, i, o, n, a, b)
<1>1. zs \in Seq(ZoneType) /\ i \in 1 .. Len(zs) /\ Orderly(o) /\ ~zs[i].collapsed
    BY DEF Removing
<1>2. DOMAIN zs = 1 .. Len(zs) /\ Len(zs) \in Nat
    BY <1>1, NoneBefore
<1> DEFINE a == i - 1  b == i + 1
<1>3. Bare(zs, a) /\ Bare(zs, b) /\ DOMAIN zs[i].labels = {}
    BY DEF Taking
<1>4. i > 1 /\ i \in Nat /\ Taker(i) = a /\ LastKept(zs, i) = a /\ NextKept(zs, i) = i + 2
    BY <1>1, <1>2, <1>3 DEF Taker, LastKept, NextKept
<1>5. Taken(zs, i) = Untitled(Absorbed(zs[a], zs[b]))
    BY <1>3, <1>4 DEF Taken
<1>6. a + 1 = i /\ i + 1 = b /\ a \in Nat /\ b \in Nat /\ b + 1 = i + 2
    BY <1>4
<1>7. a \in 1 .. Len(zs) /\ b \in 1 .. Len(zs)
    BY <1>2, <1>3 DEF Bare
<1> HIDE DEF a, b
<1>8. ~zs[a].collapsed /\ ~zs[b].collapsed
    BY <1>3, <1>7, RemovingIs
<1>9. Merging(zs[a], zs[a + 1], o, n)
    <2>1. a \in 1 .. Len(zs) /\ a + 1 \in 1 .. Len(zs) /\ ~zs[a].collapsed /\ ~zs[a + 1].collapsed
        BY <1>1, <1>6, <1>7, <1>8
    <2> QED BY <2>1, NeighboursMerge
<1>10. Merging(zs[i], zs[i + 1], o, n)
    <2>1. i \in 1 .. Len(zs) /\ i + 1 \in 1 .. Len(zs) /\ ~zs[i].collapsed /\ ~zs[i + 1].collapsed
        BY <1>1, <1>6, <1>7, <1>8
    <2> QED BY <2>1, NeighboursMerge
<1>11. Merging(zs[a], zs[i], o, n) /\ Merging(zs[i], zs[b], o, n)
    BY <1>6, <1>9, <1>10
<1> DEFINE w == Untitled(Absorbed(zs[a], zs[b]))
<1>12. w \in ZoneType /\ AnyOK(w, o) /\ Leaf(w, o, n) /\ w.low = zs[a].low /\ w.high = zs[b].high /\ w.named = FALSE
       /\ w.inner = <<>> /\ Merging(zs[i], zs[b], o, n)
    <2> DEFINE u == zs[a]  x == zs[i]  v == zs[b]
    <2>1. Orderly(o) /\ Merging(u, x, o, n) /\ Merging(x, v, o, n) /\ DOMAIN x.labels = {}
        BY <1>1, <1>3, <1>11
    <2> HIDE DEF u, x, v
    <2>2. LET y == Untitled(Absorbed(u, v))
          IN  y \in ZoneType /\ AnyOK(y, o) /\ Leaf(y, o, n) /\ y.low = u.low /\ y.high = v.high /\ y.named = FALSE
              /\ y.inner = <<>> /\ Merging(x, v, o, n)
        BY <2>1, MergeTwice
    <2> QED BY <2>2 DEF u, x, v
<1> HIDE DEF w
<1>13. Sound(w, o, n)
    BY <1>12 DEF Sound
<1>14. b \in a .. Len(zs) /\ i \in a .. b /\ \A k \in a .. b : k = i \/ Bare(zs, k)
    <2>1. b \in a .. Len(zs) /\ i \in a .. b /\ \A k \in a .. b : k = i \/ k = a \/ k = b
        BY <1>4, <1>6, <1>7
    <2> QED BY <1>3, <2>1
<1>15. Takes(w, zs, i, o, n, a, b)
    BY <1>4, <1>6, <1>7, <1>12, <1>13, <1>14 DEF Takes
<1> QED BY <1>5, <1>15 DEF w

\* What a removal leaves: a list that is as it should be, and every zone but the one removed.
Left(l, zs, i, o, n) ==
    /\ l \in Seq(ZoneType) /\ l # <<>> /\ Laid(l, o, n)
    /\ \A r : IsSpan(r, l, o) <=> IsSpan(r, zs, o) /\ r # RangeOf(zs[i], o)

\* A leaf spans its own range only.
LEMMA SpanAlone ==
    ASSUME NEW z, z.inner = <<>>, NEW r, NEW o
    PROVE  SpanIn(r, z, o) <=> z.named /\ r = RangeOf(z, o)
<1>1. Len(z.inner) = 0
    OBVIOUS
<1> QED BY <1>1 DEF SpanIn

\* No two zones of the list have the same range.
LEMMA RangesDiffer ==
    ASSUME NEW zs, NEW i, NEW o, NEW n, Removing(zs, i, o, n), NEW k \in 1 .. Len(zs), k # i, zs[k].named
    PROVE  RangeOf(zs[k], o) # RangeOf(zs[i], o)
<1>1. /\ zs \in Seq(ZoneType) /\ i \in 1 .. Len(zs) /\ Orderly(o) /\ Laid(zs, o, n) /\ zs[i].named
      /\ zs[i].inner = <<>> /\ zs[k].inner = <<>>
    BY DEF Removing
<1>2. Len(zs[k].inner) = 0 /\ Len(zs[i].inner) = 0 /\ k \in Nat /\ i \in Nat
    BY <1>1
<1> DEFINE e == 0
<1>3. e \in Nat /\ e \in 0 .. Len(zs[k].inner) /\ e \in 0 .. Len(zs[i].inner) /\ e = 0
    BY <1>2
<1> HIDE DEF e
<1>4. PICK c \in Spots(zs) : c = <<k, e>> /\ c[1] = k /\ c[2] = e /\ Spot(zs, c) = IF e = 0 THEN zs[k] ELSE zs[k].inner[e]
    BY <1>2, <1>3, PlaceSpot
<1>5. PICK t \in Spots(zs) : t = <<i, e>> /\ t[1] = i /\ t[2] = e /\ Spot(zs, t) = IF e = 0 THEN zs[i] ELSE zs[i].inner[e]
    BY <1>1, <1>2, <1>3, PlaceSpot
<1>6. c # t /\ Spot(zs, c) = zs[k] /\ Spot(zs, t) = zs[i]
    BY <1>3, <1>4, <1>5
<1>7. Spot(zs, t).inner = <<>> /\ Spot(zs, c).named /\ Spot(zs, t).named
    BY <1>1, <1>6
<1>8. RangeOf(Spot(zs, c), o) # RangeOf(Spot(zs, t), o)
    BY <1>1, <1>6, <1>7, SpotsDiffer
<1> QED BY <1>6, <1>8

LEMMA SpansHere ==
    ASSUME NEW zs, NEW i, NEW o, NEW n, Removing(zs, i, o, n), NEW r
    PROVE  /\ IsSpan(r, zs, o) <=> \E k \in 1 .. Len(zs) : zs[k].named /\ r = RangeOf(zs[k], o)
           /\ Removing(zs, i, o, n)
<1>1. zs \in Seq(ZoneType) /\ \A k \in 1 .. Len(zs) : zs[k].inner = <<>>
    BY DEF Removing
<1>2. IsSpan(r, zs, o) <=> \E k \in 1 .. Len(zs) : SpanIn(r, zs[k], o)
    BY <1>1, SpanOf
<1>3. ASSUME NEW k \in 1 .. Len(zs) PROVE SpanIn(r, zs[k], o) <=> zs[k].named /\ r = RangeOf(zs[k], o)
    BY <1>1, SpanAlone
<1> QED BY <1>2, <1>3

\* Such a zone leaves a list that is the listing without one range.
LEMMA TakenLeaves ==
    ASSUME NEW zs, NEW i, NEW o, NEW n, Removing(zs, i, o, n), NEW w, NEW a, NEW b, Takes(w, zs, i, o, n, a, b),
           w = Taken(zs, i), ~Clears(zs, i)
    PROVE  Left(Without(zs, i), zs, i, o, n)
<1>1. zs \in Seq(ZoneType) /\ i \in 1 .. Len(zs) /\ Orderly(o) /\ Laid(zs, o, n) /\ zs[i].named
    BY DEF Removing
<1>2. /\ w \in ZoneType /\ Sound(w, o, n) /\ w.low = zs[a].low /\ w.high = zs[b].high /\ w.named = FALSE /\ w.inner = <<>>
      /\ a \in 1 .. Len(zs) /\ b \in a .. Len(zs) /\ i \in a .. b
      /\ \A k \in a .. b : k = i \/ Bare(zs, k)
      /\ LastKept(zs, i) = a /\ Taker(i) = a /\ NextKept(zs, i) = b + 1
    BY DEF Takes
<1>3. Len(zs) \in Nat /\ a \in Nat /\ b \in Nat /\ (b + 1) - 1 = b /\ b + 1 \in a + 1 .. Len(zs) + 1
    BY <1>1, <1>2
<1> DEFINE m == b + 1  new == <<w>>  l == Pasted(zs, a, b, new)
<1>4. Without(zs, i) = SubSeq(Replaced(zs, a, w), 1, a) \o SubSeq(Replaced(zs, a, w), m, Len(zs))
    <2>1. Without(zs, i) =
             IF Clears(zs, i) THEN <<>>
             ELSE SubSeq(Replaced(zs, Taker(i), Taken(zs, i)), 1, LastKept(zs, i))
                    \o SubSeq(Replaced(zs, Taker(i), Taken(zs, i)), NextKept(zs, i), Len(zs))
        BY <1>1, WithoutIs
    <2> QED BY <1>2, <2>1
<1>5. SubSeq(Replaced(zs, a, w), 1, a) \o SubSeq(Replaced(zs, a, w), m, Len(zs)) = Pasted(zs, a, m - 1, <<w>>)
    <2>1. m \in a + 1 .. Len(zs) + 1
        BY <1>3
    <2> HIDE DEF m
    <2> QED BY <1>1, <1>2, <2>1, ReplacedPasted
<1>6. Without(zs, i) = l
    BY <1>3, <1>4, <1>5
<1>7. new \in Seq(ZoneType) /\ Len(new) = 1 /\ new[1] = w /\ new # <<>>
    BY <1>2
<1> HIDE DEF new
<1>8. Fitting(zs, a, b, new, o, n)
    <2>1. Chain(new, zs[a].low, new[Len(new)].high)
        BY <1>2, <1>7 DEF Chain
    <2>2. b = Len(zs) => o[new[Len(new)].high] = End
        BY <1>1, <1>2, <1>7 DEF Laid
    <2>3. b < Len(zs) => new[Len(new)].high = zs[b].high
        BY <1>2, <1>7
    <2>4. \A j \in 1 .. Len(new) : Sound(new[j], o, n)
        BY <1>2, <1>7
    <2> QED BY <1>2, <1>7, <2>1, <2>2, <2>3, <2>4 DEF Fitting
<1>9. l \in Seq(ZoneType) /\ Laid(l, o, n)
    BY <1>1, <1>8, PastedLaid
<1>10. l # <<>>
    BY <1>9 DEF Laid
<1>11. ASSUME NEW r PROVE IsSpan(r, l, o) <=> IsSpan(r, zs, o) /\ r # RangeOf(zs[i], o)
    <2>1. IsSpan(r, l, o) <=>
              \/ \E k \in 1 .. Len(zs) : (k < a \/ b < k) /\ SpanIn(r, zs[k], o)
              \/ \E j \in 1 .. Len(new) : SpanIn(r, new[j], o)
        <3>1. a \in 1 .. Len(zs) + 1 /\ b \in a - 1 .. Len(zs) /\ new \in Seq(ZoneType)
            BY <1>2, <1>3, <1>7
        <3> QED BY <1>1, <3>1, PastedSpans
    <2>2. ~ \E j \in 1 .. Len(new) : SpanIn(r, new[j], o)
        <3>1. ~SpanIn(r, w, o)
            <4>1. SpanIn(r, w, o) <=> w.named /\ r = RangeOf(w, o)
                BY <1>2, SpanAlone
            <4> QED BY <1>2, <4>1
        <3> QED BY <1>7, <3>1
    <2>3. \A k \in 1 .. Len(zs) : SpanIn(r, zs[k], o) <=> zs[k].named /\ r = RangeOf(zs[k], o)
        <3>1. \A k \in 1 .. Len(zs) : zs[k].inner = <<>>
            BY DEF Removing
        <3> QED BY <3>1, SpanAlone
    <2>4. IsSpan(r, zs, o) <=> \E k \in 1 .. Len(zs) : zs[k].named /\ r = RangeOf(zs[k], o)
        BY SpansHere
    <2>5. \A k \in 1 .. Len(zs) : k # i /\ zs[k].named => RangeOf(zs[k], o) # RangeOf(zs[i], o)
        BY RangesDiffer
    <2>6. \A k \in 1 .. Len(zs) : k # i /\ zs[k].named => k < a \/ b < k
        <3>1. \A k \in 1 .. Len(zs) : k < a \/ b < k \/ k \in a .. b
            BY <1>2, <1>3
        <3>2. \A k \in a .. b : k = i \/ ~zs[k].named
            BY <1>2 DEF Bare
        <3> QED BY <3>1, <3>2
    <2>7. \A k \in 1 .. Len(zs) : k < a \/ b < k => k # i
        BY <1>2, <1>3
    <2> HIDE DEF l
    <2>8. IsSpan(r, l, o) <=> \E k \in 1 .. Len(zs) : k # i /\ zs[k].named /\ r = RangeOf(zs[k], o)
        BY <2>1, <2>2, <2>3, <2>6, <2>7
    <2> QED BY <1>1, <2>4, <2>5, <2>8
<1> HIDE DEF l
<1>12. Left(l, zs, i, o, n)
    BY <1>9, <1>10, <1>11 DEF Left
<1> QED BY <1>6, <1>12

LEMMA RemovalLeaves ==
    ASSUME NEW zs, NEW i, NEW o, NEW n, Removing(zs, i, o, n), Taking(zs, i), ~Clears(zs, i)
    PROVE  Left(Without(zs, i), zs, i, o, n)
<1>1. \E a, b : Takes(Taken(zs, i), zs, i, o, n, a, b)
    <2>1. CASE i = 1
        BY <2>1, FirstTaken
    <2>2. CASE i # 1
        BY <2>2, LaterTaken
    <2> QED BY <2>1, <2>2
<1>2. PICK a, b : Takes(Taken(zs, i), zs, i, o, n, a, b)
    BY <1>1
<1> QED BY <1>2, TakenLeaves

Sought(zs, line) == IF zs = <<>> \/ line > zs[Len(zs)].high THEN 0 ELSE At(zs, line)
Unfolded(z) == z.named /\ ~z.collapsed

\* The zone a removal is asked for, in a tree as it should be: a zone of the outer list.
LEMMA RemovableIs ==
    ASSUME zones \in Seq(ZoneType), ZonesOK(zones, ranges, notes, comments), NEW line \in 0 .. Wrap, Removable(line) # <<>>
    PROVE  LET i == At(zones, line)
           IN  /\ Removable(line) = <<i>> /\ i \in 1 .. Len(zones) /\ Within(zones[i], line)
               /\ Unfolded(zones[i]) /\ Laid(zones, Origins(ranges), notes) /\ Orderly(Origins(ranges))
<1> DEFINE i == Sought(zones, line)  j == Sought(zones[i].inner, line)  o == Origins(ranges)
<1>1. Removable(line) = IF i = 0 THEN <<>>
        ELSE IF Unfolded(zones[i]) THEN <<i>>
        ELSE IF j # 0 /\ Unfolded(zones[i].inner[j]) THEN <<i, j>>
        ELSE <<>>
    BY ZenonT(60) DEF Removable, Sought, Unfolded
<1>2. i # 0 /\ (Unfolded(zones[i]) \/ j # 0)
    BY <1>1
<1>3. zones # <<>> /\ i = At(zones, line)
    BY <1>2 DEF Sought
<1>4. Laid(zones, o, notes) /\ Orderly(o)
    BY <1>3, SpansFold DEF ZonesOK
<1>5. Ordered(zones) /\ line \in Nat
    BY <1>4, LaidIs, EndIs
<1>6. i \in 1 .. Len(zones) /\ Within(zones[i], line)
    BY <1>2, <1>3, <1>5, AtIs
<1>7. j # 0 => zones[i].inner # <<>>
    BY DEF Sought
<1> HIDE DEF i, j
<1>8. zones[i].inner # <<>> => Unfolded(zones[i])
    <2>1. zones[i].inner # <<>> => Parent(zones[i], o, notes)
        BY <1>4, <1>6, LaidIs
    <2> QED BY <2>1 DEF Parent, Unfolded
<1>9. Unfolded(zones[i])
    BY <1>2, <1>7, <1>8
<1>10. Removable(line) = <<i>>
    BY <1>1, <1>2, <1>9
<1> QED BY <1>3, <1>4, <1>6, <1>9, <1>10, SMTT(60)

\* In a list with nothing inside its zones: what the range of a zone at a line is.
LEMMA RemovedRange ==
    ASSUME NEW zs, NEW i, NEW o, NEW n, Removing(zs, i, o, n), NEW R, Spanned(R, zs, o),
           NEW line \in 0 .. Wrap, Within(zs[i], line)
    PROVE  /\ Largest(AtRanges(R, o[line])) = RangeOf(zs[i], o) /\ RangeOf(zs[i], o).folded = FALSE
           /\ Removing(zs, i, o, n)
<1>1. /\ zs \in Seq(ZoneType) /\ i \in 1 .. Len(zs) /\ Orderly(o) /\ Laid(zs, o, n) /\ zs[i].named /\ ~zs[i].collapsed
      /\ zs[i].inner = <<>>
    BY DEF Removing
<1>2. Len(zs[i].inner) = 0 /\ i \in Nat
    BY <1>1
<1> DEFINE e == 0
<1>3. e \in Nat /\ e \in 0 .. Len(zs[i].inner) /\ e = 0
    BY <1>2
<1> HIDE DEF e
<1>5. PICK t \in Spots(zs) : t = <<i, e>> /\ t[1] = i /\ t[2] = e /\ Spot(zs, t) = IF e = 0 THEN zs[i] ELSE zs[i].inner[e]
    BY <1>1, <1>2, <1>3, PlaceSpot
<1>6. Spot(zs, t) = zs[i] /\ t[2] = 0
    BY <1>3, <1>5
<1>7. Spot(zs, t).inner = <<>> /\ Spot(zs, t).named /\ Within(Spot(zs, t), line)
    BY <1>1, <1>6
<1>8. Largest(AtRanges(R, o[line])) = RangeOf(Spot(zs, t), o)
    BY <1>1, <1>6, <1>7, LargestIs
<1>9. zs[i].collapsed = FALSE
    <2>1. zs[i] \in ZonesWith(Seq(LeafType))
        BY <1>1 DEF ZoneType
    <2>2. zs[i].collapsed \in BOOLEAN
        BY <2>1, ZoneFields
    <2> QED BY <1>1, <2>2
<1> QED BY <1>6, <1>8, <1>9 DEF RangeOf

\* The tree after a removal is the listing, with zones left or without.
LEMMA RemovalKeeps ==
    ASSUME NEW zs, NEW R, NEW n,
           NEW i, Removing(zs, i, Origins(R), n), Spanned(R, zs, Origins(R)),
           Clears(zs, i) => \A j \in DOMAIN zs \ {i} : Bare(zs, j),
           Clears(zs, i) \/ Taking(zs, i), NEW cs, DOMAIN cs = {}
    PROVE  ZonesOK(Without(zs, i), R \ {RangeOf(zs[i], Origins(R))}, n, cs)
<1> DEFINE o == Origins(R)  q == RangeOf(zs[i], o)  Q == R \ {q}
<1>1. /\ zs \in Seq(ZoneType) /\ i \in 1 .. Len(zs) /\ zs[i] \in ZonesWith(Seq(LeafType)) /\ ~zs[i].collapsed
    BY DEF Removing, ZoneType
<1>2. q.folded = FALSE
    <2>1. zs[i].collapsed \in BOOLEAN
        BY <1>1, ZoneFields
    <2> QED BY <1>1, <2>1 DEF RangeOf
<1> HIDE DEF q
<1>3. Origins(Q) = o
    BY <1>2, OpenHides
<1> HIDE DEF Q, o
<1>4. CASE Clears(zs, i)
    <2>1. Without(zs, i) = <<>>
        BY <1>1, <1>4, WithoutIs
    <2>2. ASSUME NEW r PROVE r \notin Q /\ ~IsSpan(r, <<>>, o)
        <3>1. r \in R <=> IsSpan(r, zs, o)
            BY DEF Spanned, o
        <3>2. IsSpan(r, zs, o) <=> \E k \in 1 .. Len(zs) : zs[k].named /\ r = RangeOf(zs[k], o)
            BY SpansHere DEF o
        <3>3. DOMAIN zs = 1 .. Len(zs)
            BY <1>1, LenProperties
        <3>4. \A k \in 1 .. Len(zs) : k # i => ~zs[k].named
            BY <1>4, <3>3 DEF Bare
        <3>5. r \in R => r = q
            BY <3>1, <3>2, <3>4 DEF q, o
        <3>6. ~IsSpan(r, <<>>, o)
            <4>1. Spots(<<>>) = {}
                BY DEF Spots
            <4> QED BY <4>1 DEF IsSpan
        <3> QED BY <3>5, <3>6 DEF Q
    <2>3. Spanned(Q, <<>>, o)
        BY <2>2 DEF Spanned
    <2>4. Noted(BareRoot(cs), o, n)
        <3>1. BareRoot(cs).comments = cs /\ DOMAIN n = {}
            BY DEF BareRoot, Zone, Removing
        <3> QED BY <3>1 DEF Noted
    <2>5. ZonesOK(<<>>, Q, n, cs)
        BY <1>3, <2>3, <2>4 DEF ZonesOK
    <2> QED BY <2>1, <2>5 DEF Q, q, o
<1>5. CASE ~Clears(zs, i)
    <2> DEFINE l == Without(zs, i)
    <2>1. Left(l, zs, i, o, n)
        BY <1>5, RemovalLeaves DEF o
    <2> HIDE DEF l
    <2>2. l # <<>> /\ Laid(l, o, n) /\ \A r : IsSpan(r, l, o) <=> IsSpan(r, zs, o) /\ r # q
        BY <2>1 DEF Left, q
    <2>3. \A r : r \in R <=> IsSpan(r, zs, o)
        BY DEF Spanned, o
    <2>4. Spanned(Q, l, o)
        BY <2>2, <2>3 DEF Spanned, Q
    <2>5. ZonesOK(l, Q, n, cs)
        BY <1>3, <2>2, <2>4 DEF ZonesOK
    <2> QED BY <2>5 DEF Q, q, o, l
<1> QED BY <1>4, <1>5

\* RemoveCollapsibleZone keeps the listing.
LEMMA RemoveKeeps ==
    ASSUME zones \in Seq(ZoneType), comments \in Maps(Notes), plain, ZonesOK(zones, ranges, notes, comments),
           NEW line \in 0 .. Wrap, RemoveCollapsibleZone(line)
    PROVE  /\ zones' \in Seq(ZoneType) /\ plain' \in BOOLEAN
           /\ plain' => ZonesOK(zones', ranges', notes', comments')
           /\ UNCHANGED <<comments, size, stuck>> /\ path' = <<>> /\ level' = 0 /\ reached' = NoLine /\ passed' = 0
<1> DEFINE i == At(zones, line)  p == Removable(line)  o == Origins(ranges)
<1>1. p # <<>>
    BY DEF RemoveCollapsibleZone
<1>2. /\ p = <<i>> /\ i \in 1 .. Len(zones) /\ Within(zones[i], line)
      /\ Unfolded(zones[i]) /\ Laid(zones, o, notes) /\ Orderly(o)
    BY <1>1, RemovableIs
<1> HIDE DEF i
<1>3. Len(p) = 1 /\ p[Len(p)] = i
    BY <1>2
<1>4. /\ zones' = Without(zones, i)
      /\ Remember(RemovesWell(zones, i), ranges \ {Largest(RangesAt(line))}, notes)
      /\ ResetReader /\ UNCHANGED <<comments, size, stuck>>
    <2> HIDE DEF p
    <2> QED BY <1>3 DEF RemoveCollapsibleZone, p
<1>5. zones' \in Seq(ZoneType)
    <2>1. Without(zones, i) \in Seq(ZoneType)
        BY <1>2, WithoutType
    <2> QED BY <1>4, <2>1
<1>6. plain' \in BOOLEAN /\ (plain' => RemovesWell(zones, i) /\ ranges' = ranges \ {Largest(RangesAt(line))} /\ notes' = notes)
    BY <1>4 DEF Remember, Forget
<1>7. ASSUME RemovesWell(zones, i)
      PROVE  ZonesOK(Without(zones, i), ranges \ {Largest(RangesAt(line))}, notes, comments)
    <2>1. DOMAIN notes = {} /\ DOMAIN comments = {}
        BY <1>7 DEF RemovesWell
    <2>2. DOMAIN zones = 1 .. Len(zones)
        BY LenProperties
    <2>3. \A k \in 1 .. Len(zones) : zones[k].inner = <<>> /\ zones[k].low = zones[k].workLow /\ zones[k].high = zones[k].workHigh
        BY <1>7, <2>2 DEF RemovesWell, Range
    <2>4. Removing(zones, i, o, notes)
        BY <1>2, <2>1, <2>3 DEF Removing, Unfolded
    <2>5. Spanned(ranges, zones, o)
        BY DEF ZonesOK
    <2> DEFINE ro == RangeOf(zones[i], o)
    <2>6. Largest(AtRanges(ranges, o[line])) = ro
        <3>1. Removing(zones, i, o, notes) /\ Spanned(ranges, zones, o) /\ line \in 0 .. Wrap /\ Within(zones[i], line)
            BY <1>2, <2>4, <2>5
        <3> HIDE DEF o
        <3>2. /\ Largest(AtRanges(ranges, o[line])) = RangeOf(zones[i], o) /\ RangeOf(zones[i], o).folded = FALSE
              /\ Removing(zones, i, o, notes)
            BY <3>1, RemovedRange
        <3> QED BY <3>2
    <2>7. RangesAt(line) = AtRanges(ranges, o[line])
        BY OriginSame
    <2>8. Clears(zones, i) => \A j \in DOMAIN zones \ {i} : Bare(zones, j)
        BY <1>7 DEF RemovesWell
    <2>9. Clears(zones, i) \/ Taking(zones, i)
        BY <1>7 DEF RemovesWell, Taking
    <2> HIDE DEF ro
    <2>10. ZonesOK(Without(zones, i), ranges \ {ro}, notes, comments)
        BY <2>1, <2>4, <2>5, <2>8, <2>9, RemovalKeeps DEF ro
    <2> QED BY <2>6, <2>7, <2>10
<1>8. plain' => ZonesOK(zones', ranges', notes', comments')
    BY <1>4, <1>6, <1>7
<1> QED BY <1>4, <1>5, <1>6, <1>8 DEF ResetReader

-----------------------------------------------------------------------------
(* The path of the reader.                                                 *)

\* A path that leads to a zone of a list, or to a zone inside one.
PathIn(p, zs) ==
    /\ p \in Seq(Nat) /\ Len(p) < 3
    /\ Len(p) > 0 => p[1] \in 1 .. Len(zs)
    /\ Len(p) > 1 => p[2] \in 1 .. Len(zs[p[1]].inner)

LEMMA SamePlaces ==
    ASSUME NEW zs, NEW l, Spots(l) = Spots(zs), NEW i \in Nat, i \in 1 .. Len(zs), NEW j \in Nat, j \in 0 .. Len(zs[i].inner)
    PROVE  i \in 1 .. Len(l) /\ j \in 0 .. Len(l[i].inner) /\ Spots(l) = Spots(zs)
<1>1. PICK c \in Spots(zs) : c = <<i, j>> /\ c[1] = i /\ c[2] = j /\ Spot(zs, c) = IF j = 0 THEN zs[i] ELSE zs[i].inner[j]
    BY PlaceSpot
<1>2. c \in Spots(l)
    BY <1>1
<1>3. c[1] \in 1 .. Len(l) /\ c[2] \in 0 .. Len(l[c[1]].inner)
    BY <1>2 DEF Spots
<1> QED BY <1>1, <1>3

\* A path stays one while the places do.
LEMMA PathStays ==
    ASSUME NEW zs \in Seq(ZoneType), NEW l \in Seq(ZoneType), Spots(l) = Spots(zs), NEW p, PathIn(p, zs)
    PROVE  PathIn(p, l)
<1>1. p \in Seq(Nat) /\ Len(p) < 3 /\ Len(p) \in Nat
    BY DEF PathIn
<1>2. ASSUME Len(p) > 0 PROVE p[1] \in 1 .. Len(l)
    <2> DEFINE i == p[1]  e == 0
    <2>1. i \in Nat /\ i \in 1 .. Len(zs)
        BY <1>1, <1>2 DEF PathIn
    <2>2. zs[i] \in ZoneType
        BY <2>1
    <2>3. e \in Nat /\ e \in 0 .. Len(zs[i].inner)
        <3>1. zs[i].inner \in Seq(LeafType)
            BY <2>2 DEF ZoneType, ZonesWith
        <3> QED BY <3>1
    <2> HIDE DEF i, e
    <2>4. i \in 1 .. Len(l) /\ e \in 0 .. Len(l[i].inner) /\ Spots(l) = Spots(zs)
        BY <2>1, <2>3, SamePlaces
    <2> QED BY <2>4 DEF i
<1>3. ASSUME Len(p) > 1 PROVE p[2] \in 1 .. Len(l[p[1]].inner)
    <2> DEFINE i == p[1]  e == p[2]
    <2>1. i \in Nat /\ i \in 1 .. Len(zs)
        BY <1>1, <1>3 DEF PathIn
    <2>2. e \in 1 .. Len(zs[i].inner)
        BY <1>1, <1>3 DEF PathIn
    <2>3. e \in Nat /\ e \in 0 .. Len(zs[i].inner) /\ e > 0
        <3>1. zs[i] \in ZoneType
            BY <2>1
        <3>2. zs[i].inner \in Seq(LeafType)
            BY <3>1 DEF ZoneType, ZonesWith
        <3> QED BY <2>2, <3>2
    <2> HIDE DEF i, e
    <2>4. i \in 1 .. Len(l) /\ e \in 0 .. Len(l[i].inner) /\ Spots(l) = Spots(zs)
        BY <2>1, <2>3, SamePlaces
    <2>5. e \in 1 .. Len(l[i].inner)
        <3>1. l[i] \in ZoneType
            BY <2>4
        <3>2. l[i].inner \in Seq(LeafType)
            BY <3>1 DEF ZoneType, ZonesWith
        <3> QED BY <2>3, <2>4, <3>2
    <2> QED BY <2>5 DEF i, e
<1> QED BY <1>1, <1>2, <1>3 DEF PathIn

LEMMA RefoldedSpots ==
    ASSUME NEW zs \in Seq(ZoneType), NEW t \in Spots(zs), NEW collapse \in BOOLEAN, Foldable(Spot(zs, t), collapse),
           Shrinks(Spot(zs, t), collapse) \in -Wrap .. Wrap
    PROVE  Spots(Refolded(zs, t, collapse)) = Spots(zs)
<1> DEFINE d == Shrinks(Spot(zs, t), collapse)  i == t[1]
           y == IF t[2] = 0 THEN Toggled(zs[i], Shrinks(zs[i], collapse)) ELSE Held(zs[i], FoldedAt(zs[i].inner, t[2], collapse), d)
           l == Folded(zs, i, y, d)
<1>1. i \in 1 .. Len(zs) /\ t[2] \in 0 .. Len(zs[i].inner) /\ zs[i] \in ZoneType
    BY DEF Spots
<1>2. l = Refolded(zs, t, collapse)
    BY DEF Refolded, FoldedAt, Spot
<1>3. Len(y.inner) = Len(zs[i].inner)
    <2>1. CASE t[2] = 0
        <3>1. y.inner = zs[i].inner
            BY <2>1 DEF Toggled
        <3> QED BY <3>1
    <2>2. CASE t[2] # 0
        <3>1. y = Held(zs[i], FoldedAt(zs[i].inner, t[2], collapse), d)
            BY <2>2
        <3> DEFINE f == FoldedAt(zs[i].inner, t[2], collapse)
        <3>2. Len(f) = Len(zs[i].inner)
            <4>1. zs[i].inner \in Seq(LeafType)
                BY <1>1 DEF ZoneType, ZonesWith
            <4> QED BY <4>1 DEF FoldedAt, Folded
        <3>3. y.inner = f
            <4> HIDE DEF f, d
            <4>1. Held(zs[i], f, d).inner = f
                BY <1>1 DEF Held, ZoneType, ZonesWith
            <4> QED BY <3>1, <4>1 DEF f
        <3> QED BY <3>2, <3>3
    <2> QED BY <2>1, <2>2
<1> HIDE DEF y
<1>4. Len(l) = Len(zs)
    BY DEF Folded
<1>5. ASSUME NEW k \in 1 .. Len(zs) PROVE Len(l[k].inner) = Len(zs[k].inner)
    <2>1. CASE k = i
        <3>1. l[k] = y
            BY <2>1 DEF Folded
        <3> QED BY <1>3, <2>1, <3>1
    <2>2. CASE k # i
        <3>1. l[k] = zs[k] \/ l[k] = Moved(zs[k], d)
            BY <2>2 DEF Folded
        <3>2. Moved(zs[k], d).inner = zs[k].inner
            BY DEF Moved
        <3> QED BY <3>1, <3>2
    <2> QED BY <2>1, <2>2
<1> HIDE DEF l
<1>6. Spots(l) = Spots(zs)
    BY <1>4, <1>5 DEF Spots
<1> QED BY <1>2, <1>6

\* A fold changes no places.
LEMMA FoldsSpots ==
    ASSUME NEW zs \in Seq(ZoneType), NEW R, NEW n, NEW cs, ZonesOK(zs, R, n, cs),
           NEW line \in 0 .. Wrap, NEW collapse \in BOOLEAN, NEW r, r = GetRecursiveZoneByLine(line, collapse, zs)
    PROVE  Spots(r.list) = Spots(zs) /\ ZonesOK(zs, R, n, cs)
<1> DEFINE o == Origins(R)
<1>1. line \in Nat
    BY EndIs
<1>2. Ordered(zs) /\ InnerOrdered(zs) /\ (\A k \in 1 .. Len(zs) : zs[k].high < Wrap)
    <2>1. CASE zs = <<>>
        <3>1. Len(zs) = 0
            BY <2>1
        <3> QED BY <3>1 DEF Ordered, InnerOrdered
    <2>2. CASE zs # <<>>
        <3>1. Laid(zs, o, n) /\ Orderly(o)
            BY <2>2, SpansFold DEF ZonesOK
        <3> QED BY <3>1, SizesOK
    <2> QED BY <2>1, <2>2
<1>3. \/ r.list = zs /\ r.by = 0
      \/ \E t : /\ Target(zs, t, line, collapse) /\ r.list = Refolded(zs, t, collapse)
                /\ r.by = Shrinks(Spot(zs, t), collapse)
                /\ r.failed <=> r.by = 0 /\ t[2] # 0
    BY <1>1, <1>2, FoldedOr
<1>4. ASSUME NEW t, Target(zs, t, line, collapse), r.list = Refolded(zs, t, collapse) PROVE Spots(r.list) = Spots(zs)
    <2>1. t \in Spots(zs) /\ Foldable(Spot(zs, t), collapse)
        BY <1>4 DEF Target
    <2>2. zs # <<>>
        <3>1. Len(zs) # 0
            BY <2>1 DEF Spots
        <3> QED BY <3>1
    <2>3. Laid(zs, o, n) /\ Orderly(o)
        BY <2>2, SpansFold DEF ZonesOK
    <2>4. Spot(zs, t) \in ZonesWith(Seq(LeafType)) /\ AnyOK(Spot(zs, t), o) /\ (Spot(zs, t).inner = <<>> => Leaf(Spot(zs, t), o, n))
        BY <2>1, <2>3, SpotIs DEF ZoneType
    <2>5. Shrinks(Spot(zs, t), collapse) \in -Wrap .. Wrap
        <3> DEFINE z == Spot(zs, t)
        <3> HIDE DEF z, o
        <3>1. z \in ZonesWith(Seq(LeafType)) /\ AnyOK(z, o) /\ (z.inner = <<>> => Leaf(z, o, n)) /\ Foldable(z, collapse) /\ Orderly(o)
            BY <2>1, <2>3, <2>4 DEF z
        <3>2. LET d == Shrinks(z, collapse) IN d \in Int /\ 1 - End <= d /\ d <= End /\ d \in -Wrap .. Wrap
            BY <3>1, ByIs
        <3> QED BY <3>2 DEF z
    <2>6. Spots(Refolded(zs, t, collapse)) = Spots(zs)
        BY <2>1, <2>5, RefoldedSpots
    <2> QED BY <1>4, <2>6
<1> QED BY <1>3, <1>4

\* The tree is one that reads can go down in.
Walkable == zones \in Seq(ZoneType) /\ Ordered(zones) /\ InnerOrdered(zones)

LEMMA RootInner == Root.inner = zones /\ Root.low = 0 /\ Root.high = End
<1> QED BY DEF Root, Zone

\* What a path leads to, by its length.
LEMMA PathSays ==
    ASSUME Walkable, NEW p, PathIn(p, zones)
    PROVE  /\ p \in Seq(Nat) /\ Len(p) \in 0 .. 2 /\ DOMAIN p = 1 .. Len(p) /\ 0 \notin Range(p)
           /\ Len(p) = 0 => p = <<>> /\ ZoneAt(p) = Root /\ ZoneAt(p).inner = zones
           /\ Len(p) = 1 => p[1] \in 1 .. Len(zones) /\ ZoneAt(p) = zones[p[1]] /\ p = <<p[1]>> /\ p[1] \in Nat
           /\ Len(p) = 2 => /\ p[1] \in 1 .. Len(zones) /\ p[2] \in 1 .. Len(zones[p[1]].inner)
                            /\ ZoneAt(p) = zones[p[1]].inner[p[2]] /\ ZoneAt(p).inner = <<>>
                            /\ p[1] \in Nat /\ p[2] \in Nat /\ PathIn(<<p[1]>>, zones)
<1>1. p \in Seq(Nat) /\ Len(p) \in 0 .. 2 /\ DOMAIN p = 1 .. Len(p)
    <2>1. p \in Seq(Nat) /\ Len(p) < 3
        BY DEF PathIn
    <2>2. Len(p) \in Nat /\ DOMAIN p = 1 .. Len(p)
        BY <2>1, LenProperties
    <2> QED BY <2>1, <2>2
<1>2. 0 \notin Range(p)
    <2>1. ASSUME NEW k \in 1 .. Len(p) PROVE p[k] # 0
        <3>1. k = 1 \/ k = 2
            BY <1>1
        <3>2. CASE k = 1
            BY <1>1, <3>2 DEF PathIn
        <3>3. CASE k = 2
            BY <1>1, <3>3 DEF PathIn
        <3> QED BY <3>1, <3>2, <3>3
    <2> QED BY <1>1, <2>1 DEF Range
<1>3. Len(p) = 0 => p = <<>> /\ ZoneAt(p) = Root /\ ZoneAt(p).inner = zones
    <2>1. Len(p) = 0 => ZoneAt(p) = Root
        BY DEF ZoneAt
    <2>2. Len(p) = 0 => p = <<>>
        BY <1>1
    <2> QED BY <2>1, <2>2, RootInner
<1>4. Len(p) = 1 => p[1] \in 1 .. Len(zones) /\ ZoneAt(p) = zones[p[1]] /\ p = <<p[1]>> /\ p[1] \in Nat
    BY <1>1 DEF PathIn, ZoneAt
<1>5. ASSUME Len(p) = 2
      PROVE  /\ p[1] \in 1 .. Len(zones) /\ p[2] \in 1 .. Len(zones[p[1]].inner)
             /\ ZoneAt(p) = zones[p[1]].inner[p[2]] /\ ZoneAt(p).inner = <<>>
             /\ p[1] \in Nat /\ p[2] \in Nat /\ PathIn(<<p[1]>>, zones)
    <2>1. /\ p[1] \in 1 .. Len(zones) /\ p[2] \in 1 .. Len(zones[p[1]].inner)
        BY <1>1, <1>5 DEF PathIn
    <2>2. ZoneAt(p) = zones[p[1]].inner[p[2]]
        BY <1>5 DEF ZoneAt
    <2>3. zones[p[1]] \in ZoneType
        BY <2>1 DEF Walkable
    <2>4. zones[p[1]].inner \in Seq(LeafType)
        BY <2>3 DEF ZoneType, ZonesWith
    <2>5. zones[p[1]].inner[p[2]] \in LeafType
        BY <2>1, <2>4
    <2>6. zones[p[1]].inner[p[2]].inner = <<>>
        BY <2>5 DEF LeafType, ZonesWith
    <2>7. PathIn(<<p[1]>>, zones)
        BY <1>1, <1>5, <2>1 DEF PathIn
    <2>8. p[1] \in Nat /\ p[2] \in Nat
        <3>1. 1 \in 1 .. Len(p) /\ 2 \in 1 .. Len(p)
            BY <1>5
        <3> QED BY <1>1, <3>1, ElementOfSeq
    <2> QED BY <2>1, <2>2, <2>6, <2>7, <2>8
<1> QED BY <1>1, <1>2, <1>3, <1>4, <1>5

\* What is kept of a path leads to a zone that holds the line.
LEMMA KeptIs ==
    ASSUME Walkable, PathIn(path, zones), NEW line \in Nat
    PROVE  PathIn(Kept(line), zones) /\ (Len(Kept(line)) > 0 => Within(ZoneAt(Kept(line)), line))
<1>1. CASE Within(ZoneAt(path), line)
    BY <1>1 DEF Kept
<1>2. CASE ~Within(ZoneAt(path), line) /\ Len(path) = 2 /\ Within(zones[path[1]], line)
    <2>1. Kept(line) = <<path[1]>>
        BY <1>2 DEF Kept
    <2>2. PathIn(<<path[1]>>, zones)
        BY <1>2, PathSays
    <2>3. ZoneAt(<<path[1]>>) = zones[path[1]]
        BY DEF ZoneAt
    <2> QED BY <1>2, <2>1, <2>2, <2>3
<1>3. CASE ~Within(ZoneAt(path), line) /\ ~(Len(path) = 2 /\ Within(zones[path[1]], line))
    <2>1. Kept(line) = <<>>
        BY <1>3 DEF Kept
    <2>2. PathIn(<<>>, zones)
        BY DEF PathIn
    <2> QED BY <2>1, <2>2
<1> QED BY <1>1, <1>2, <1>3

LEMMA AppendSays ==
    ASSUME NEW s \in Seq(Nat), NEW a \in Nat
    PROVE  /\ Append(s, a) \in Seq(Nat) /\ Len(Append(s, a)) = Len(s) + 1
           /\ (\A k \in 1 .. Len(s) : Append(s, a)[k] = s[k]) /\ Append(s, a)[Len(s) + 1] = a
<1> QED OBVIOUS

LEMMA PairIs ==
    ASSUME NEW i \in Nat, NEW a \in Nat
    PROVE  Append(<<i>>, a) = <<i, a>>
<1> DEFINE s == <<i>>  d == Append(s, a)  t == <<i, a>>
<1>1. s \in Seq(Nat) /\ Len(s) = 1 /\ s[1] = i
    OBVIOUS
<1>2. t \in Seq(Nat) /\ Len(t) = 2 /\ t[1] = i /\ t[2] = a
    OBVIOUS
<1> HIDE DEF s, t
<1>3. /\ Append(s, a) \in Seq(Nat) /\ Len(Append(s, a)) = Len(s) + 1
      /\ (\A k \in 1 .. Len(s) : Append(s, a)[k] = s[k]) /\ Append(s, a)[Len(s) + 1] = a
    BY <1>1, AppendSays
<1>4. d \in Seq(Nat) /\ Len(d) = 2 /\ d[1] = i /\ d[2] = a
    BY <1>1, <1>3
<1> HIDE DEF d
<1>5. \A k \in 1 .. Len(d) : d[k] = t[k]
    <2>1. ASSUME NEW k \in 1 .. 2 PROVE d[k] = t[k]
        <3>1. k = 1 \/ k = 2
            OBVIOUS
        <3> QED BY <1>2, <1>4, <3>1
    <2> QED BY <1>4, <2>1
<1>6. d = t
    BY <1>2, <1>4, <1>5, SeqEqual
<1> QED BY <1>6 DEF d, s, t

\* A step down leads to a zone, or ends in 0.
LEMMA DownIs ==
    ASSUME Walkable, NEW p, PathIn(p, zones), NEW line \in Nat
    PROVE  /\ Down(p, line) \in Seq(Nat) /\ Len(Down(p, line)) \in Nat
           /\ 0 \notin Range(Down(p, line)) => PathIn(Down(p, line), zones)
           /\ Len(Down(p, line)) > 0 /\ Down(p, line)[Len(Down(p, line))] # 0 => PathIn(Down(p, line), zones)
           /\ ZoneAt(p).inner = <<>> => Down(p, line) = p
           /\ Len(Down(p, line)) = 0 => Down(p, line) = p
<1> DEFINE ys == ZoneAt(p).inner  a == At(ys, line)  d == Append(p, a)
<1>1. CASE ys = <<>>
    <2>1. Down(p, line) = p
        BY <1>1 DEF Down
    <2>2. p \in Seq(Nat) /\ Len(p) \in 0 .. 2
        BY PathSays
    <2> QED BY <2>1, <2>2
<1>2. CASE ys # <<>>
    <2>1. Down(p, line) = d
        BY <1>2 DEF Down
    <2>2. p \in Seq(Nat) /\ Len(p) \in 0 .. 1 /\ DOMAIN p = 1 .. Len(p)
        <3>1. Len(p) # 2
            BY <1>2, PathSays
        <3>2. p \in Seq(Nat) /\ Len(p) \in 0 .. 2 /\ DOMAIN p = 1 .. Len(p)
            BY PathSays
        <3> QED BY <3>1, <3>2
    <2>3. ys \in Seq(ZoneType) /\ Ordered(ys)
        <3>1. CASE Len(p) = 0
            BY <3>1, PathSays DEF Walkable
        <3>2. CASE Len(p) = 1
            <4>1. p[1] \in 1 .. Len(zones) /\ ys = zones[p[1]].inner
                BY <3>2, PathSays
            <4>2. zones[p[1]] \in ZoneType /\ Ordered(zones[p[1]].inner)
                BY <4>1 DEF Walkable, InnerOrdered
            <4>3. zones[p[1]].inner \in Seq(LeafType)
                BY <4>2 DEF ZoneType, ZonesWith
            <4> QED BY <4>1, <4>2, <4>3, LeafLists
        <3> QED BY <2>2, <3>1, <3>2
    <2>4. a # 0 => a \in 1 .. Len(ys)
        <3> HIDE DEF ys
        <3> QED BY <2>3, AtIs
    <2>5. a \in Nat
        <3>1. Len(ys) \in Nat
            BY <2>3, LenProperties
        <3> HIDE DEF ys
        <3> QED BY <2>4, <3>1
    <2>6. CASE Len(p) = 0
        <3>1. p = <<>> /\ ys = zones
            BY <2>6, PathSays
        <3> HIDE DEF a, ys
        <3>2. d = <<a>>
            BY <3>1
        <3>3. a # 0 => PathIn(<<a>>, zones)
            BY <2>4, <2>5, <3>1 DEF PathIn
        <3>4. Range(<<a>>) = {a}
            BY DEF Range
        <3>5. <<a>> \in Seq(Nat) /\ Len(<<a>>) = 1 /\ <<a>>[1] = a
            BY <2>5
        <3> QED BY <1>2, <2>1, <3>2, <3>3, <3>4, <3>5 DEF ys
    <2>7. CASE Len(p) = 1
        <3>1. p[1] \in 1 .. Len(zones) /\ ys = zones[p[1]].inner /\ p = <<p[1]>> /\ p[1] \in Nat
            BY <2>7, PathSays
        <3> DEFINE i == p[1]
        <3> HIDE DEF a, ys, i
        <3>2. d = <<i, a>>
            <4>1. p = <<i>>
                BY <3>1 DEF i
            <4>2. Append(<<i>>, a) = <<i, a>>
                BY <2>5, <3>1, PairIs DEF i
            <4> QED BY <4>1, <4>2
        <3>3. a # 0 => PathIn(<<i, a>>, zones)
            BY <2>4, <2>5, <3>1 DEF PathIn, i
        <3>4. a \in Range(<<i, a>>)
            <4>1. 2 \in DOMAIN <<i, a>> /\ <<i, a>>[2] = a
                OBVIOUS
            <4> QED BY <4>1 DEF Range
        <3>5. <<i, a>> \in Seq(Nat) /\ Len(<<i, a>>) = 2 /\ <<i, a>>[2] = a
            BY <2>5, <3>1 DEF i
        <3> QED BY <1>2, <2>1, <3>2, <3>3, <3>4, <3>5 DEF ys
    <2> QED BY <2>2, <2>6, <2>7
<1> QED BY <1>1, <1>2

\* A descent that does not run off is a path.
LEMMA DescentIn ==
    ASSUME Walkable, PathIn(path, zones), NEW line \in Nat, 0 \notin Range(Descent(line))
    PROVE  PathIn(Descent(line), zones)
<1> DEFINE k == Kept(line)  once == Down(k, line)
<1>1. PathIn(k, zones)
    BY KeptIs
<1> HIDE DEF k
<1>2. /\ once \in Seq(Nat) /\ Len(once) \in Nat
      /\ 0 \notin Range(once) => PathIn(once, zones)
      /\ Len(once) > 0 /\ once[Len(once)] # 0 => PathIn(once, zones)
      /\ ZoneAt(k).inner = <<>> => once = k
      /\ Len(once) = 0 => once = k
    BY <1>1, DownIs
<1>3. Descent(line) = IF Len(once) > 0 /\ once[Len(once)] = 0 THEN once ELSE Down(once, line)
    BY DEF Descent, k
<1> HIDE DEF once
<1>4. CASE Len(once) > 0 /\ once[Len(once)] = 0
    BY <1>2, <1>3, <1>4
<1>5. CASE ~(Len(once) > 0 /\ once[Len(once)] = 0)
    <2>1. PathIn(once, zones)
        BY <1>1, <1>2, <1>5
    <2>2. Descent(line) = Down(once, line)
        BY <1>3, <1>5
    <2>3. 0 \notin Range(Down(once, line)) => PathIn(Down(once, line), zones)
        BY <2>1, DownIs
    <2> QED BY <2>2, <2>3
<1> QED BY <1>4, <1>5

LEMMA InstructionsType ==
    ASSUME NEW z, z.low \in Int, NEW line \in Int
    PROVE  Instructions(z, line) \in Nat
<1> DEFINE all == z.low .. line  some == {l \in all : l \notin DOMAIN z.labels}
<1>1. IsFiniteSet(all)
    BY FS_Interval
<1>2. some \subseteq all
    OBVIOUS
<1> HIDE DEF all
<1>3. IsFiniteSet(some)
    BY <1>1, <1>2, FS_Subset
<1> HIDE DEF some
<1>4. Cardinality(some) \in Nat
    BY <1>3, FS_CardinalityType
<1> QED BY <1>4 DEF Instructions, some, all

\* A tree that is the listing can be gone down in.
LEMMA WalkableIs ==
    ASSUME zones \in Seq(ZoneType), NEW R, NEW n, NEW cs, ZonesOK(zones, R, n, cs)
    PROVE  Walkable /\ Orderly(Origins(R)) /\ ZonesOK(zones, R, n, cs)
<1>1. Orderly(Origins(R))
    BY SpansFold DEF ZonesOK
<1>2. CASE zones = <<>>
    <2>1. Len(zones) = 0
        BY <1>2
    <2> QED BY <1>1, <2>1 DEF Walkable, Ordered, InnerOrdered
<1>3. CASE zones # <<>>
    <2>1. Laid(zones, Origins(R), n)
        BY <1>3 DEF ZonesOK
    <2>2. Ordered(zones) /\ InnerOrdered(zones)
        BY <2>1, LaidIs
    <2> QED BY <1>1, <2>2 DEF Walkable
<1> QED BY <1>2, <1>3

LEMMA ZoneAtLow ==
    ASSUME Walkable, NEW p, PathIn(p, zones)
    PROVE  ZoneAt(p).low \in Nat
<1>1. Len(p) \in 0 .. 2
    BY PathSays
<1>2. CASE Len(p) = 0
    <2>1. ZoneAt(p) = Root
        BY <1>2, PathSays
    <2>2. 0 \in Nat
        OBVIOUS
    <2> QED BY <2>1, <2>2, RootInner
<1>3. CASE Len(p) = 1
    <2>1. p[1] \in 1 .. Len(zones) /\ ZoneAt(p) = zones[p[1]]
        BY <1>3, PathSays
    <2>2. zones[p[1]].low \in Nat
        BY <2>1, ZoneIs DEF Walkable
    <2> QED BY <2>1, <2>2
<1>4. CASE Len(p) = 2
    <2>1. p[1] \in 1 .. Len(zones) /\ p[2] \in 1 .. Len(zones[p[1]].inner) /\ ZoneAt(p) = zones[p[1]].inner[p[2]]
        BY <1>4, PathSays
    <2>2. zones[p[1]] \in ZoneType
        BY <2>1 DEF Walkable
    <2> DEFINE ys == zones[p[1]].inner  j == p[2]
    <2>3. ys \in Seq(ZoneType)
        BY <2>2, LeafLists DEF ZoneType, ZonesWith
    <2> HIDE DEF ys, j
    <2>4. j \in 1 .. Len(ys)
        BY <2>1 DEF ys, j
    <2>5. ys[j].low \in Nat
        BY <2>3, <2>4, ZoneIs
    <2> QED BY <2>1, <2>5 DEF ys, j
<1> QED BY <1>1, <1>2, <1>3, <1>4

\* What the reader keeps, whatever the tree.
ReaderType == PathIn(path, zones) /\ level \in Nat /\ reached \in Nat \cup {NoLine} /\ passed \in Nat

\* GetCurrentAsmLine keeps the types and the tree.
LEMMA ReadKeeps ==
    ASSUME zones \in Seq(ZoneType), ZonesOK(zones, ranges, notes, comments), ReaderType,
           NEW line \in Nat, GetCurrentAsmLine(line)
    PROVE  ReaderType' /\ stuck' \in BOOLEAN /\ UNCHANGED <<tree, size, history>>
<1>1. Walkable
    BY WalkableIs
<1>2. UNCHANGED <<tree, size, history>> /\ stuck' \in BOOLEAN
    BY DEF GetCurrentAsmLine
<1>3. zones' = zones
    BY <1>2 DEF tree
<1>4. CASE line = reached \/ RunsOff(line)
    <2>1. UNCHANGED reader
        BY <1>4 DEF GetCurrentAsmLine
    <2> QED BY <1>2, <1>3, <2>1 DEF reader, ReaderType
<1>5. CASE ~(line = reached \/ RunsOff(line))
    <2>1. Reach(line)
        BY <1>5 DEF GetCurrentAsmLine
    <2>2. 0 \notin Range(Descent(line))
        BY <1>5 DEF RunsOff
    <2>3. PathIn(path, zones)
        BY DEF ReaderType
    <2>4. PathIn(Descent(line), zones)
        BY <1>1, <2>2, <2>3, DescentIn
    <2>5. ZoneAt(Descent(line)).low \in Nat
        BY <1>1, <2>4, ZoneAtLow
    <2>6. Instructions(ZoneAt(Descent(line)), line) \in Nat
        BY <2>5, InstructionsType
    <2>7. /\ path' = Descent(line) /\ level' = line /\ reached' = line
          /\ passed' \in {Instructions(ZoneAt(Descent(line)), line), passed, passed + 1}
        BY <2>1 DEF Reach
    <2>8. PathIn(path', zones')
        BY <1>3, <2>4, <2>7
    <2>9. passed' \in Nat
        BY <2>6, <2>7 DEF ReaderType
    <2> QED BY <1>2, <2>7, <2>8, <2>9 DEF ReaderType
<1> QED BY <1>4, <1>5

-----------------------------------------------------------------------------
(* The invariant.                                                          *)

\* The types, and the inductive invariant.
Typed ==
    /\ zones \in Seq(ZoneType) /\ comments \in Maps(Notes) /\ ReaderType
    /\ size \in Nat /\ size <= 2 * End /\ stuck \in BOOLEAN /\ plain \in BOOLEAN

Inv == Typed /\ (plain => ZonesOK(zones, ranges, notes, comments))

LEMMA ZoneTyped ==
    ASSUME NEW I, NEW z \in ZonesWith(I)
    PROVE  ZoneOK(z)
<1>1. {z.low, z.high, z.workLow, z.workHigh} \subseteq 0 .. Wrap
    BY DEF ZonesWith, Coords
<1>2. z.named \in BOOLEAN /\ z.collapsed \in BOOLEAN /\ z.labels \in Maps(Labels) /\ z.comments \in Maps(Notes)
    BY DEF ZonesWith
<1>3. DOMAIN z.labels \subseteq Words /\ \A k \in DOMAIN z.labels : z.labels[k] \in Labels
    BY <1>2, MapIs
<1>4. DOMAIN z.comments \subseteq Words /\ \A k \in DOMAIN z.comments : z.comments[k] \in Notes
    BY <1>2, MapIs
<1> QED BY <1>1, <1>2, <1>3, <1>4 DEF ZoneOK, Words, Range

\* The types are those of TypeOK.
LEMMA TypeHolds ==
    ASSUME Typed
    PROVE  TypeOK
<1>1. zones \in Seq(ZoneType) /\ PathIn(path, zones)
    BY DEF Typed, ReaderType
<1>2. DOMAIN zones = 1 .. Len(zones)
    BY <1>1, LenProperties
<1>3. ASSUME NEW i \in DOMAIN zones
      PROVE  /\ ZoneOK(zones[i]) /\ DOMAIN zones[i].inner = 1 .. Len(zones[i].inner)
             /\ \A y \in Range(zones[i].inner) : ZoneOK(y) /\ y.inner = <<>>
    <2>1. zones[i] \in ZonesWith(Seq(LeafType))
        BY <1>1, <1>2 DEF ZoneType
    <2>2. zones[i].inner \in Seq(LeafType)
        BY <2>1 DEF ZonesWith
    <2>3. DOMAIN zones[i].inner = 1 .. Len(zones[i].inner)
        BY <2>2, LenProperties
    <2>4. ASSUME NEW j \in 1 .. Len(zones[i].inner) PROVE ZoneOK(zones[i].inner[j]) /\ zones[i].inner[j].inner = <<>>
        <3>1. zones[i].inner[j] \in ZonesWith({<<>>})
            BY <2>2 DEF LeafType
        <3> QED BY <3>1, ZoneTyped DEF ZonesWith
    <2>5. ZoneOK(zones[i])
        BY <2>1, ZoneTyped
    <2> QED BY <2>3, <2>4, <2>5 DEF Range
<1>4. \A z \in Range(zones) : ZoneOK(z) /\ \A y \in Range(z.inner) : ZoneOK(y) /\ y.inner = <<>>
    BY <1>3 DEF Range
<1>5. Len(path) > 0 => path[1] \in DOMAIN zones
    BY <1>1, <1>2 DEF PathIn
<1>6. Len(path) > 1 => path[2] \in DOMAIN zones[path[1]].inner
    <2>1. Len(path) > 1 => path[2] \in 1 .. Len(zones[path[1]].inner) /\ Len(path) > 0
        BY <1>1 DEF PathIn
    <2> QED BY <1>3, <1>5, <2>1
<1>7. Len(path) < 3
    BY <1>1 DEF PathIn
<1> QED BY <1>4, <1>5, <1>6, <1>7 DEF TypeOK, Typed, ReaderType

\* A listing without zones is right.
LEMMA InvInit ==
    ASSUME Init
    PROVE  Inv
<1>1. zones = <<>> /\ comments = <<>> /\ path = <<>> /\ level = 0 /\ reached = NoLine /\ passed = 0 /\ size = End - 1
      /\ stuck = FALSE /\ ranges = {} /\ notes = <<>> /\ plain = TRUE
    BY DEF Init
<1>2. zones \in Seq(ZoneType)
    BY <1>1
<1>3. comments \in Maps(Notes) /\ DOMAIN comments = {}
    <2>1. DOMAIN comments = {} /\ comments = [k \in DOMAIN comments |-> comments[k]]
        BY <1>1
    <2> QED BY <2>1, MapIs
<1>4. ReaderType
    BY <1>1 DEF ReaderType, PathIn
<1>5. size \in Nat /\ size <= 2 * End
    BY <1>1, EndIs
<1>6. Typed
    BY <1>1, <1>2, <1>3, <1>4, <1>5 DEF Typed
<1>7. ZonesOK(zones, ranges, notes, comments)
    <2>1. Spanned(ranges, zones, Origins(ranges))
        <3>1. Len(zones) = 0
            BY <1>1
        <3>2. Spots(zones) = {}
            BY <3>1 DEF Spots
        <3> QED BY <1>1, <3>2 DEF Spanned, IsSpan
    <2>2. Noted(BareRoot(comments), Origins(ranges), notes)
        <3>1. BareRoot(comments).comments = comments /\ DOMAIN notes = {}
            BY <1>1 DEF BareRoot, Zone
        <3> QED BY <1>3, <3>1 DEF Noted
    <2> QED BY <1>1, <2>1, <2>2 DEF ZonesOK
<1> QED BY <1>6, <1>7 DEF Inv

\* ResetReader keeps the types of the reader; so does any operation that keeps the places.
LEMMA ResetTyped ==
    ASSUME path' = <<>>, level' = 0, reached' = NoLine, passed' = 0
    PROVE  ReaderType'
<1> QED BY DEF ReaderType, PathIn

LEMMA ReaderStays ==
    ASSUME zones \in Seq(ZoneType), zones' \in Seq(ZoneType), Spots(zones') = Spots(zones), ReaderType,
           path' = path, level' = level, reached' = reached, passed' \in {0, passed}
    PROVE  ReaderType'
<1>1. PathIn(path, zones)
    BY DEF ReaderType
<1>2. PathIn(path, zones')
    BY <1>1, PathStays
<1>3. PathIn(path', zones')
    BY <1>2
<1> QED BY <1>3 DEF ReaderType

\* Every operation keeps the invariant.
LEMMA InvNext ==
    ASSUME Inv, [Next]_vars
    PROVE  Inv'
<1> USE DEF Inv
<1>1. CASE UNCHANGED vars
    <2>1. UNCHANGED <<zones, comments, path, level, reached, passed, size, stuck, ranges, notes, plain>>
        BY <1>1 DEF vars, tree, reader, history
    <2> QED BY <2>1 DEF Typed, ReaderType
<1>2. ASSUME NEW line \in Lines, plain, ~stuck,
             \/ GetCurrentAsmLine(line) /\ passed' <= MaxPassed
             \/ \E e \in line + 1 .. size + 1 : AddCollapsibleZone(line, e) /\ Len(zones') <= MaxZones
             \/ \E collapse \in BOOLEAN : CollapseOrExtendZone(line, collapse)
             \/ RemoveCollapsibleZone(line)
             \/ \E note \in Notes : AddOrUpdateComment(line, note)
             \/ RemoveComment(line)
      PROVE  Inv'
    <2>1. /\ zones \in Seq(ZoneType) /\ comments \in Maps(Notes) /\ ReaderType
          /\ size \in Nat /\ size <= 2 * End /\ plain /\ ZonesOK(zones, ranges, notes, comments)
        BY <1>2 DEF Typed
    <2>2. line \in 0 .. Wrap /\ line \in Nat
        BY <2>1, EndIs DEF Lines
    <2>3. ASSUME GetCurrentAsmLine(line) PROVE Inv'
        <3>1. ReaderType' /\ stuck' \in BOOLEAN /\ UNCHANGED <<tree, size, history>>
            BY <2>1, <2>2, <2>3, ReadKeeps
        <3>2. UNCHANGED <<zones, comments, size, ranges, notes, plain>>
            BY <3>1 DEF tree, history
        <3> QED BY <2>1, <3>1, <3>2 DEF Typed
    <2>4. ASSUME NEW e \in line + 1 .. size + 1, AddCollapsibleZone(line, e) PROVE Inv'
        <3>1. e \in Nat /\ line < e
            BY <2>1, <2>2
        <3>2. /\ zones' \in Seq(ZoneType) /\ plain' \in BOOLEAN
              /\ plain' => ZonesOK(zones', ranges', notes', comments')
              /\ UNCHANGED <<comments, size, stuck>> /\ path' = <<>> /\ level' = 0 /\ reached' = NoLine /\ passed' = 0
            BY <2>1, <2>2, <2>4, <3>1, AddKeeps
        <3>3. ReaderType'
            BY <3>2, ResetTyped
        <3> QED BY <1>2, <2>1, <3>2, <3>3 DEF Typed
    <2>5. ASSUME NEW collapse \in BOOLEAN, CollapseOrExtendZone(line, collapse) PROVE Inv'
        <3>1. /\ zones' \in Seq(ZoneType) /\ size' \in Nat /\ size' <= 2 * End
              /\ plain' \in BOOLEAN
              /\ plain' => ZonesOK(zones', ranges', notes', comments')
              /\ UNCHANGED comments
            BY <2>1, <2>2, <2>5, CollapseKeeps
        <3>2. Spots(zones') = Spots(zones)
            <4> DEFINE r == GetRecursiveZoneByLine(line, collapse, zones)
            <4>1. zones' = r.list
                BY <2>5 DEF CollapseOrExtendZone
            <4> HIDE DEF r
            <4>2. Spots(r.list) = Spots(zones) /\ ZonesOK(zones, ranges, notes, comments)
                BY <2>1, <2>2, FoldsSpots DEF r
            <4> QED BY <4>1, <4>2
        <3>3. path' = path /\ level' = level /\ reached' = reached /\ stuck' = stuck /\ passed' \in {0, passed}
            BY <2>5 DEF CollapseOrExtendZone
        <3>4. ReaderType'
            BY <2>1, <3>1, <3>2, <3>3, ReaderStays
        <3> QED BY <1>2, <2>1, <3>1, <3>3, <3>4 DEF Typed
    <2>6. ASSUME RemoveCollapsibleZone(line) PROVE Inv'
        <3>2. /\ zones' \in Seq(ZoneType) /\ plain' \in BOOLEAN
              /\ plain' => ZonesOK(zones', ranges', notes', comments')
              /\ UNCHANGED <<comments, size, stuck>> /\ path' = <<>> /\ level' = 0 /\ reached' = NoLine /\ passed' = 0
            BY <2>1, <2>2, <2>6, RemoveKeeps
        <3>3. ReaderType'
            BY <3>2, ResetTyped
        <3> QED BY <1>2, <2>1, <3>2, <3>3 DEF Typed
    <2>7. ASSUME /\ zones' \in Seq(ZoneType) /\ comments' \in Maps(Notes)
                 /\ Len(zones') = Len(zones) /\ Spots(zones') = Spots(zones)
                 /\ plain' \in BOOLEAN
                 /\ plain' => ZonesOK(zones', ranges', notes', comments')
                 /\ UNCHANGED <<reader, size, stuck>>
          PROVE  Inv'
        <3>1. path' = path /\ level' = level /\ reached' = reached /\ passed' = passed /\ size' = size /\ stuck' = stuck
            BY <2>7 DEF reader
        <3>2. ReaderType'
            BY <2>1, <2>7, <3>1, ReaderStays
        <3> QED BY <1>2, <2>1, <2>7, <3>1, <3>2 DEF Typed
    <2>8. ASSUME NEW note \in Notes, AddOrUpdateComment(line, note) PROVE Inv'
        <3>1. /\ zones' \in Seq(ZoneType) /\ comments' \in Maps(Notes)
              /\ Len(zones') = Len(zones) /\ Spots(zones') = Spots(zones)
              /\ plain' \in BOOLEAN
              /\ plain' => ZonesOK(zones', ranges', notes', comments')
              /\ UNCHANGED <<reader, size, stuck>>
            BY <2>1, <2>2, <2>8, AddCommentKeeps
        <3> QED BY <2>7, <3>1
    <2>9. ASSUME RemoveComment(line) PROVE Inv'
        <3>1. /\ zones' \in Seq(ZoneType) /\ comments' \in Maps(Notes)
              /\ Len(zones') = Len(zones) /\ Spots(zones') = Spots(zones)
              /\ plain' \in BOOLEAN
              /\ plain' => ZonesOK(zones', ranges', notes', comments')
              /\ UNCHANGED <<reader, size, stuck>>
            BY <2>1, <2>2, <2>9, RemoveCommentKeeps
        <3> QED BY <2>7, <3>1
    <2> QED BY <1>2, <2>3, <2>4, <2>5, <2>6, <2>8, <2>9
<1> QED BY <1>1, <1>2 DEF Next

\* Every tree the operations make is the listing, until the first one the code gets wrong.
THEOREM Invariance == Spec => []Inv
<1>1. Init => Inv
    BY InvInit
<1>2. Inv /\ [Next]_vars => Inv'
    BY InvNext
<1> QED BY <1>1, <1>2, PTL DEF Spec

\* Every variable keeps to its type, and the path of the reader leads to a zone; so also after
\* the first operation that the code gets wrong, where the model ends (TypeOK).
THEOREM TypeCorrect == Spec => []TypeOK
<1>1. Inv => TypeOK
    BY TypeHolds DEF Inv
<1> QED BY <1>1, Invariance, PTL

\* CollapseOrExtendZone, called to collapse and then to expand at the line of the zone, gives
\* back the tree it was given.
THEOREM ExpandAlwaysUndoesCollapse == Spec => []ExpandUndoesCollapse
<1>1. Inv => ExpandUndoesCollapse
    <2>1. ASSUME Inv, plain PROVE ExpandUndoesCollapse
        BY <2>1, ExpandUndoes DEF Inv, Typed
    <2>2. ~plain => ExpandUndoesCollapse
        BY DEF ExpandUndoesCollapse
    <2> QED BY <2>1, <2>2
<1> QED BY <1>1, Invariance, PTL

\* A comment on a line of the listing but line 0 is found at the line it was made for, and
\* none is found at another line but line 0, as long as what is done is right: additions
\* (AddsWell) and folds (FoldsWell) in any order, and removals made while there is no
\* comment (RemovesWell).
THEOREM CommentsAlwaysStay == Spec => []CommentsStay
<1>1. Inv => CommentsStay
    <2>1. ASSUME Inv, plain PROVE CommentsStay
        BY <2>1, CommentsHold DEF Inv, Typed
    <2>2. ~plain => CommentsStay
        BY DEF CommentsStay
    <2> QED BY <2>1, <2>2
<1> QED BY <1>1, Invariance, PTL

-----------------------------------------------------------------------------
(* Reading: where it comes to.                                             *)

\* A tree as it should be, with zones in it, and a line of the listing in sight.
InSight(line) ==
    /\ zones \in Seq(ZoneType) /\ zones # <<>> /\ Laid(zones, Origins(ranges), notes) /\ Orderly(Origins(ranges))
    /\ Walkable /\ line \in 0 .. Wrap /\ Origins(ranges)[line] < End

\* A path to a zone of the outer list, or to a leaf inside one, that holds a line.
Leads(p, line) == PathIn(p, zones) /\ Len(p) > 0 /\ Within(ZoneAt(p), line)

\* From the root, and from a zone, a step down leads to a zone that holds the line.
LEMMA FromRoot ==
    ASSUME NEW line, InSight(line)
    PROVE  Leads(Down(<<>>, line), line) /\ Len(Down(<<>>, line)) = 1
<1> DEFINE i == At(zones, line)
<1>1. /\ zones \in Seq(ZoneType) /\ zones # <<>> /\ Laid(zones, Origins(ranges), notes) /\ Orderly(Origins(ranges))
      /\ Ordered(zones) /\ line \in Nat /\ line \in 0 .. Wrap /\ Origins(ranges)[line] < End
    BY EndIs DEF InSight, Walkable
<1>2. i # 0
    <2> DEFINE o == Origins(ranges)
    <2> HIDE DEF o
    <2>1. Laid(zones, o, notes) /\ Orderly(o) /\ o[line] < End
        BY <1>1 DEF o
    <2> QED BY <1>1, <2>1, SomeZone
<1>3. i \in 1 .. Len(zones) /\ Within(zones[i], line) /\ i \in Nat
    BY <1>1, <1>2, AtIs
<1>4. Down(<<>>, line) = Append(<<>>, i)
    <2>1. ZoneAt(<<>>) = Root
        BY DEF ZoneAt
    <2> QED BY <1>1, <2>1, RootInner DEF Down
<1> HIDE DEF i
<1>5. Append(<<>>, i) = <<i>>
    OBVIOUS
<1>6. PathIn(<<i>>, zones) /\ ZoneAt(<<i>>) = zones[i] /\ Len(<<i>>) = 1
    BY <1>3 DEF PathIn, ZoneAt
<1> QED BY <1>3, <1>4, <1>5, <1>6, SMTT(60) DEF Leads

LEMMA FromZone ==
    ASSUME NEW line, InSight(line), NEW p, Leads(p, line)
    PROVE  /\ Leads(Down(p, line), line) /\ ZoneAt(Down(p, line)).inner = <<>>
           /\ ZoneAt(p).inner = <<>> => Down(p, line) = p
<1>1. /\ zones \in Seq(ZoneType) /\ Laid(zones, Origins(ranges), notes) /\ Orderly(Origins(ranges)) /\ Walkable
      /\ Ordered(zones) /\ line \in Nat
    BY EndIs DEF InSight, Walkable
<1>2. PathIn(p, zones) /\ Len(p) \in 1 .. 2 /\ Within(ZoneAt(p), line)
    <2>1. PathIn(p, zones) /\ Len(p) > 0 /\ Within(ZoneAt(p), line)
        BY DEF Leads
    <2>2. Len(p) \in 0 .. 2
        BY <1>1, <2>1, PathSays
    <2> QED BY <2>1, <2>2
<1>3. CASE ZoneAt(p).inner = <<>>
    <2>1. Down(p, line) = p
        BY <1>3 DEF Down
    <2> QED BY <1>3, <2>1
<1>4. CASE ZoneAt(p).inner # <<>>
    <2>1. Len(p) = 1
        <3>1. Len(p) = 2 => ZoneAt(p).inner = <<>>
            BY <1>1, <1>2, PathSays
        <3> QED BY <1>2, <1>4, <3>1
    <2>2. p[1] \in 1 .. Len(zones) /\ ZoneAt(p) = zones[p[1]] /\ p = <<p[1]>> /\ p[1] \in Nat
        BY <1>1, <1>2, <2>1, PathSays
    <2> DEFINE i == p[1]
    <2> HIDE DEF i
    <2>3. i \in 1 .. Len(zones) /\ ZoneAt(p) = zones[i] /\ p = <<i>> /\ i \in Nat
        BY <2>2 DEF i
    <2>4. zones[i] \in ZoneType /\ Parent(zones[i], Origins(ranges), notes)
        BY <1>1, <1>4, <2>3, LaidIs
    <2> DEFINE z == zones[i]  ys == z.inner  j == At(ys, line)
    <2>5. /\ ys \in Seq(LeafType) /\ ys \in Seq(ZoneType) /\ Ordered(ys) /\ ys # <<>> /\ Chain(ys, z.low, z.high)
        BY <2>4, InnerBounds DEF Parent
    <2>6. z.low \in Nat /\ z.high \in Nat /\ line \in z.low .. z.high - 1
        <3>1. z.low \in Nat /\ z.high \in Nat
            BY <1>1, <2>3, ZoneIs
        <3>2. z.low <= line /\ line < z.high
            BY <1>2, <2>3 DEF Within
        <3> QED BY <1>1, <3>1, <3>2
    <2>7. j \in 1 .. Len(ys) /\ Within(ys[j], line) /\ j \in Nat
        <3> DEFINE a == z.low  b == z.high
        <3> HIDE DEF ys, z, j, a, b
        <3>1. ys \in Seq(ZoneType) /\ a \in Nat /\ b \in Nat /\ ys # <<>> /\ Chain(ys, a, b) /\ line \in a .. b - 1
            BY <2>5, <2>6 DEF a, b
        <3>2. PICK k \in 1 .. Len(ys) : Within(ys[k], line)
            BY <3>1, SomeHolds
        <3>3. At(ys, line) = k
            BY <1>1, <2>5, <3>2, AtIs
        <3>4. Len(ys) \in Nat
            BY <2>5, LenProperties
        <3> QED BY <3>2, <3>3, <3>4 DEF j
    <2>8. Down(p, line) = Append(p, j)
        BY <1>4, <2>3 DEF Down
    <2>9. ys[j].inner = <<>>
        <3>1. ys[j] \in LeafType
            BY <2>5, <2>7
        <3> QED BY <3>1 DEF LeafType, ZonesWith
    <2> HIDE DEF j
    <2>10. Down(p, line) = <<i, j>>
        BY <2>3, <2>7, <2>8, PairIs
    <2>11. PathIn(<<i, j>>, zones) /\ ZoneAt(<<i, j>>) = ys[j] /\ Len(<<i, j>>) = 2
        BY <2>3, <2>7 DEF PathIn, ZoneAt
    <2> HIDE DEF ys
    <2>12. Leads(<<i, j>>, line) /\ ZoneAt(<<i, j>>).inner = <<>>
        BY <2>7, <2>9, <2>11 DEF Leads
    <2> QED BY <1>4, <2>10, <2>12
<1> QED BY <1>3, <1>4

\* A descent ends at a leaf that holds the line, and at the path it began with if that did.
LEMMA DescentLeads ==
    ASSUME NEW line, InSight(line), PathIn(path, zones)
    PROVE  /\ Leads(Descent(line), line) /\ ZoneAt(Descent(line)).inner = <<>>
           /\ Kept(line) = path /\ ZoneAt(path).inner = <<>> => Descent(line) = path \/ path = <<>>
           /\ InSight(line)
<1> DEFINE k == Kept(line)  once == Down(k, line)
<1>1. Walkable /\ line \in Nat
    BY EndIs DEF InSight
<1>2. PathIn(k, zones) /\ (Len(k) > 0 => Within(ZoneAt(k), line))
    BY <1>1, KeptIs
<1>3. Len(k) \in 0 .. 2 /\ (Len(k) = 0 => k = <<>>)
    <2> HIDE DEF k
    <2>1. Len(k) \in 0 .. 2
        BY <1>1, <1>2, PathSays
    <2>2. Len(k) = 0 => k = <<>>
        BY <1>1, <1>2, PathSays
    <2> QED BY <2>1, <2>2
<1> HIDE DEF k
<1>4. Leads(once, line)
    <2>1. CASE k = <<>>
        BY <2>1, FromRoot
    <2>2. CASE k # <<>>
        <3>1. Leads(k, line)
            BY <1>2, <1>3, <2>2 DEF Leads
        <3> QED BY <3>1, FromZone
    <2> QED BY <2>1, <2>2
<1>5. k # <<>> /\ ZoneAt(k).inner = <<>> => once = k
    BY DEF Down
<1>6. Descent(line) = IF Len(once) > 0 /\ once[Len(once)] = 0 THEN once ELSE Down(once, line)
    BY DEF Descent, k
<1> HIDE DEF once
<1>7. once[Len(once)] # 0
    <2>1. PathIn(once, zones) /\ Len(once) > 0
        BY <1>4 DEF Leads
    <2>2. Len(once) \in 0 .. 2 /\ 0 \notin Range(once) /\ DOMAIN once = 1 .. Len(once)
        BY <1>1, <2>1, PathSays
    <2>3. Len(once) \in DOMAIN once
        BY <2>1, <2>2
    <2> QED BY <2>2, <2>3 DEF Range
<1>8. Descent(line) = Down(once, line)
    BY <1>6, <1>7
<1>9. /\ Leads(Down(once, line), line) /\ ZoneAt(Down(once, line)).inner = <<>>
      /\ ZoneAt(once).inner = <<>> => Down(once, line) = once
    BY <1>4, FromZone
<1>10. ASSUME k = path, ZoneAt(path).inner = <<>>, path # <<>> PROVE Descent(line) = path
    <2>1. once = path
        BY <1>5, <1>10
    <2> QED BY <1>8, <1>9, <1>10, <2>1
<1> QED BY <1>8, <1>9, <1>10 DEF k

-----------------------------------------------------------------------------
(* Reading: what it counts and shows.                                      *)

\* The lines from a zone on that are no labels of it.
Plainly(z) == {l \in 0 .. End - 1 : z.low <= l /\ l \notin DOMAIN z.labels}

\* Instructions counts them, one by one.
LEMMA InstructionsIs ==
    ASSUME NEW z, z.low \in Nat, NEW x \in Nat, x < End
    PROVE  /\ Plainly(z) \in Sights
           /\ Instructions(z, x) = Rank(Plainly(z), x + 1) /\ Instructions(z, x) \in Nat
           /\ Rank(Plainly(z), x + 1) = Rank(Plainly(z), x) + IF z.low <= x /\ x \notin DOMAIN z.labels THEN 1 ELSE 0
<1> DEFINE U == Plainly(z)
<1>1. U \in Sights /\ End \in Nat
    BY EndIs DEF Sights, Plainly
<1>2. {l \in z.low .. x : l \notin DOMAIN z.labels} = {m \in U : m < x + 1}
    BY <1>1 DEF Plainly
<1>3. x \in U <=> z.low <= x /\ x \notin DOMAIN z.labels
    BY <1>1 DEF Plainly
<1> HIDE DEF U
<1>4. Instructions(z, x) = Rank(U, x + 1)
    BY <1>2 DEF Instructions, Rank
<1>5. x + 1 \in Nat
    OBVIOUS
<1>6. Rank(U, x + 1) \in Nat
    BY <1>1, <1>5, RankFinite
<1>7. Rank(U, x + 1) = Rank(U, x) + IF x \in U THEN 1 ELSE 0
    BY <1>1, RankNext
<1>8. Rank(U, x + 1) = Rank(U, x) + IF z.low <= x /\ x \notin DOMAIN z.labels THEN 1 ELSE 0
    BY <1>3, <1>7
<1> QED BY <1>1, <1>4, <1>6, <1>8 DEF U

LEMMA InstructionsNext ==
    ASSUME NEW z, z.low \in Nat, NEW x \in Nat, x + 1 < End, z.low <= x + 1, x + 1 \notin DOMAIN z.labels
    PROVE  Instructions(z, x + 1) = Instructions(z, x) + 1
<1> DEFINE y == x + 1
<1>1. y \in Nat /\ y < End /\ x < End /\ z.low <= y /\ y \notin DOMAIN z.labels /\ End \in Nat
    BY EndIs
<1> HIDE DEF y
<1>2. Instructions(z, x) = Rank(Plainly(z), x + 1)
    BY <1>1, InstructionsIs
<1>3. Instructions(z, y) = Rank(Plainly(z), y + 1)
    BY <1>1, InstructionsIs
<1>4. Rank(Plainly(z), y + 1) = Rank(Plainly(z), y) + IF z.low <= y /\ y \notin DOMAIN z.labels THEN 1 ELSE 0
    BY <1>1, InstructionsIs
<1> QED BY <1>1, <1>2, <1>3, <1>4 DEF y

\* The instructions of the listing up to a place in a zone: those before the zone and those in it.
LEMMA Numbered ==
    ASSUME NEW I, NEW z \in ZonesWith(I), NEW o, Orderly(o), AnyOK(z, o),
           NEW k \in 0 .. o[z.high] - o[z.low]
    PROVE  /\ Instr(o[z.low] + k) = Instr(o[z.low]) + Rank(Plainly(z), z.low + k)
           /\ Instr(o[z.low]) \in Nat /\ Rank(Plainly(z), z.low + k) \in Nat
<1> DEFINE U == Plainly(z)  lo == z.low  b == o[z.low]  c == o[z.high]
<1>0. End \in Nat /\ End > 0 /\ Wrap = 4 * End
    BY EndIs
<1>1. lo \in Nat /\ b \in Nat /\ c \in Nat /\ lo <= b /\ b <= c /\ c <= End
    <2>1. /\ z.low \in Nat /\ o[z.low] \in Nat /\ o[z.high] \in Nat /\ o[z.low] <= o[z.high] /\ o[z.high] <= End
          /\ z.low <= o[z.low]
        BY AnyBounds
    <2> QED BY <2>1
<1>2. U \in Sights
    BY <1>0 DEF Sights, Plainly
<1>3. \A x \in Words : x \in U <=> x < End /\ lo <= x /\ ~(b + (x - lo) \in Labels /\ b + (x - lo) < c)
    <2>1. \A x \in Words : x \in DOMAIN z.labels <=> lo <= x /\ b + (x - lo) \in Labels /\ b + (x - lo) < c
        BY DEF AnyOK, Labelled
    <2>2. \A x \in Words : x \in Nat
        BY <1>0 DEF Words
    <2> HIDE DEF lo, b, c
    <2>3. \A x \in Words : x \in U <=> x < End /\ lo <= x /\ x \notin DOMAIN z.labels
        BY <1>0, <2>2 DEF Plainly, lo
    <2> QED BY <2>1, <2>3
<1> HIDE DEF U, lo, b, c
<1> DEFINE W == c - b  B == {i \in 0 .. W : Instr(b + i) = Instr(b) + Rank(U, lo + i)}
<1>4. W \in Nat
    BY <1>1
<1>5. Instr(b) \in Nat
    BY <1>0, <1>1, InstrIs
<1>6. \A i \in 0 .. W : lo + i \in Nat /\ Rank(U, lo + i) \in Nat
    <2> SUFFICES ASSUME NEW i \in 0 .. W PROVE lo + i \in Nat /\ Rank(U, lo + i) \in Nat
        OBVIOUS
    <2>1. lo + i \in Nat
        BY <1>1
    <2> QED BY <1>2, <2>1, RankFinite
<1>7. 0 \in B
    <2>1. {m \in U : m < lo} = {}
        BY <1>1 DEF U, Plainly, lo
    <2>2. Rank(U, lo) = 0
        BY <2>1, FS_EmptySet DEF Rank
    <2>3. 0 \in 0 .. W /\ b + 0 = b /\ lo + 0 = lo
        BY <1>1, <1>4
    <2> QED BY <1>5, <2>2, <2>3
<1>8. ASSUME NEW i \in 1 .. W, i - 1 \in B PROVE i \in B
    <2> DEFINE j == i - 1  x == lo + j  y == b + j
    <2>1. j \in 0 .. W /\ i \in 0 .. W /\ j \in Nat /\ j + 1 = i /\ j < W
        BY <1>4
    <2>2. Instr(y) = Instr(b) + Rank(U, x)
        BY <1>8
    <2>3. x \in Nat /\ y \in Nat /\ x <= y /\ lo <= x /\ b + (x - lo) = y /\ x + 1 = lo + i /\ y + 1 = b + i
        BY <1>1, <2>1
    <2>4. y < c
        <3>1. W = c - b
            OBVIOUS
        <3> HIDE DEF W, j
        <3> QED BY <1>1, <1>4, <2>1, <3>1
    <2> HIDE DEF j, x, y, W
    <2>5. y < End /\ x < End /\ x \in Words
        BY <1>0, <1>1, <2>3, <2>4 DEF Words
    <2>6. x \in U <=> y \notin Labels
        BY <1>3, <2>3, <2>4, <2>5
    <2>7. Instr(y + 1) = Instr(y) + IF y \in Labels THEN 0 ELSE 1
        <3>1. y <= End
            BY <1>0, <2>3, <2>5
        <3> QED BY <2>3, <2>5, <3>1, InstrIs
    <2>8. Rank(U, x + 1) = Rank(U, x) + IF x \in U THEN 1 ELSE 0
        BY <1>2, <2>3, RankNext
    <2>9. Rank(U, x) \in Nat
        BY <1>2, <2>3, RankFinite
    <2>10. Instr(y + 1) = Instr(b) + Rank(U, x + 1)
        BY <1>5, <2>2, <2>6, <2>7, <2>8, <2>9
    <2> QED BY <2>1, <2>3, <2>10 DEF W
<1> HIDE DEF B
<1>9. 0 .. W \subseteq B
    BY <1>4, <1>7, <1>8, UpTo
<1>10. k \in 0 .. W
    BY DEF b, c
<1>11. k \in B
    BY <1>9, <1>10
<1>12. Instr(b + k) = Instr(b) + Rank(U, lo + k)
    BY <1>11 DEF B
<1>13. Rank(U, lo + k) \in Nat
    BY <1>6, <1>10
<1> QED BY <1>5, <1>12, <1>13 DEF U, lo, b

\* The leaf a path leads to is a spot that holds the line.
LEMMA LeafAt ==
    ASSUME NEW line, InSight(line), NEW p, Leads(p, line), ZoneAt(p).inner = <<>>
    PROVE  \E t : Holds(zones, t, line) /\ Spot(zones, t) = ZoneAt(p)
<1>1. PathIn(p, zones) /\ Len(p) > 0 /\ Within(ZoneAt(p), line) /\ Walkable
    BY DEF Leads, InSight
<1>2. Len(p) \in 0 .. 2
    BY <1>1, PathSays
<1> DEFINE e == 0
<1>3. CASE Len(p) = 1
    <2>1. p[1] \in 1 .. Len(zones) /\ ZoneAt(p) = zones[p[1]] /\ p = <<p[1]>> /\ p[1] \in Nat
        BY <1>1, <1>3, PathSays
    <2> DEFINE i == p[1]
    <2>2. Len(zones[i].inner) = 0
        BY <2>1
    <2>3. e \in Nat /\ e \in 0 .. Len(zones[i].inner) /\ e = 0
        BY <2>2
    <2> HIDE DEF e, i
    <2>4. i \in Nat /\ i \in 1 .. Len(zones) /\ ZoneAt(p) = zones[i]
        BY <2>1 DEF i
    <2>5. PICK t \in Spots(zones) : t = <<i, e>> /\ t[1] = i /\ t[2] = e /\ Spot(zones, t) = IF e = 0 THEN zones[i] ELSE zones[i].inner[e]
        BY <2>3, <2>4, PlaceSpot
    <2>6. Holds(zones, t, line) /\ Spot(zones, t) = ZoneAt(p)
        BY <1>1, <2>3, <2>4, <2>5 DEF Holds
    <2> QED BY <2>6
<1>4. CASE Len(p) = 2
    <2>1. /\ p[1] \in 1 .. Len(zones) /\ p[2] \in 1 .. Len(zones[p[1]].inner)
          /\ ZoneAt(p) = zones[p[1]].inner[p[2]] /\ p[1] \in Nat /\ p[2] \in Nat
        BY <1>1, <1>4, PathSays
    <2> DEFINE i == p[1]  j == p[2]
    <2>2. zones[i] \in ZoneType
        BY <1>1, <2>1 DEF Walkable
    <2> HIDE DEF i, j
    <2>3. i \in Nat /\ i \in 1 .. Len(zones) /\ j \in Nat /\ j \in 1 .. Len(zones[i].inner) /\ ZoneAt(p) = zones[i].inner[j]
        BY <2>1 DEF i, j
    <2>4. zones[i] \in ZoneType /\ j \in 0 .. Len(zones[i].inner) /\ j # 0
        BY <2>2, <2>3 DEF i
    <2>5. PICK t \in Spots(zones) : t = <<i, j>> /\ t[1] = i /\ t[2] = j /\ Spot(zones, t) = IF j = 0 THEN zones[i] ELSE zones[i].inner[j]
        BY <2>3, <2>4, PlaceSpot
    <2>6. Spot(zones, t) = ZoneAt(p)
        BY <2>3, <2>4, <2>5
    <2>7. Within(zones[i], line)
        <3> DEFINE o == Origins(ranges)  z == zones[i]  y == z.inner[j]
        <3>1. zones \in Seq(ZoneType) /\ Laid(zones, o, notes) /\ Orderly(o) /\ line \in Nat
            BY EndIs DEF InSight
        <3>2. z.inner # <<>>
            <4>1. z.inner \in Seq(LeafType)
                BY <2>4 DEF ZoneType, ZonesWith
            <4> QED BY <2>3, <4>1
        <3>3. Parent(z, o, notes)
            BY <2>3, <3>1, <3>2, LaidIs
        <3>4. z.low <= y.low /\ y.high <= z.high
            BY <2>3, <2>4, <3>3, InnerBounds
        <3>5. y.low <= line /\ line < y.high
            BY <1>1, <2>3 DEF Within
        <3>6. z.low \in Nat /\ z.high \in Nat
            BY <2>3, <3>1, ZoneIs
        <3>7. y.low \in Nat /\ y.high \in Nat
            <4>1. z.inner \in Seq(ZoneType)
                BY <3>3, <2>4, InnerBounds
            <4> DEFINE ys == z.inner
            <4> HIDE DEF ys
            <4>2. ys \in Seq(ZoneType) /\ j \in 1 .. Len(ys)
                BY <2>3, <4>1 DEF ys
            <4>3. ys[j].low \in Nat /\ ys[j].high \in Nat
                BY <4>2, ZoneIs
            <4> QED BY <4>3 DEF ys
        <3> DEFINE a == z.low  b == z.high  c == y.low  d == y.high
        <3>8. a <= c /\ d <= b /\ c <= line /\ line < d /\ a \in Nat /\ b \in Nat /\ c \in Nat /\ d \in Nat /\ line \in Nat
            BY <3>1, <3>4, <3>5, <3>6, <3>7
        <3> HIDE DEF a, b, c, d
        <3>9. a <= line /\ line < b
            BY <3>8
        <3> QED BY <3>9 DEF Within, a, b
    <2>8. Holds(zones, t, line) /\ Spot(zones, t) = ZoneAt(p)
        BY <1>1, <2>5, <2>6, <2>7 DEF Holds
    <2> QED BY <2>8
<1> QED BY <1>1, <1>2, <1>3, <1>4

\* A line in an open leaf lies as far into its part of the listing as into the zone.
LEMMA LineIn ==
    ASSUME NEW I, NEW z \in ZonesWith(I), NEW o, Orderly(o), NEW n, AnyOK(z, o), Leaf(z, o, n), ~z.collapsed,
           NEW line \in 0 .. Wrap, Within(z, line), o[line] < End
    PROVE  /\ line \in Words /\ line \in Nat /\ line < End /\ z.low \in Nat /\ z.low <= line
           /\ o[line] = o[z.low] + (line - z.low) /\ o[line] < o[z.high]
           /\ o[z.low] \in Nat /\ o[line] \in Nat /\ o[z.high] \in Nat
<1> DEFINE a == z.low  h == z.high  b == o[a]  c == o[h]  l == o[line]
<1>0. End \in Nat /\ End > 0 /\ Wrap = 4 * End /\ line \in Nat /\ line <= Wrap
    BY EndIs
<1>1. a \in Nat /\ h \in Nat /\ b \in Nat /\ c \in Nat /\ a \in 0 .. Wrap /\ h \in 0 .. Wrap
    BY AnyBounds
<1>2. a <= line /\ line < h
    BY DEF Within
<1>3. l \in Nat /\ l < End /\ line <= l
    <2>1. o[line] \in Nat /\ (line <= o[line] \/ o[line] = End)
        BY OriginIs
    <2> QED BY <1>0, <2>1
<1>4. l = Cap(b + (line - a))
    <2>1. \A x \in a .. h : o[x] = Cap(b + (x - a))
        BY DEF Leaf, Spread, Straight
    <2> HIDE DEF a, h, b
    <2>2. line \in a .. h
        BY <1>0, <1>1, <1>2
    <2> QED BY <2>1, <2>2
<1>5. l < c
    <2>1. o[line] < o[h] \/ o[h] = End
        BY <1>1, <1>2, OriginsGrow
    <2> QED BY <1>3, <2>1
<1> HIDE DEF a, h, b, c, l
<1>6. l = b + (line - a)
    BY <1>0, <1>1, <1>2, <1>3, <1>4 DEF Cap
<1>7. line < End /\ line \in Words
    BY <1>0, <1>3 DEF Words
<1> QED BY <1>0, <1>1, <1>2, <1>3, <1>5, <1>6, <1>7 DEF a, h, b, c, l

\* What an open leaf has for a line is what the listing has behind it.
LEMMA ShowsIs ==
    ASSUME NEW I, NEW z \in ZonesWith(I), NEW o, Orderly(o), NEW n, AnyOK(z, o), Leaf(z, o, n), ~z.collapsed,
           NEW line \in 0 .. Wrap, Within(z, line), o[line] < End
    PROVE  /\ line \in DOMAIN z.labels <=> o[line] \in Labels
           /\ line \in DOMAIN z.labels => z.labels[line] = o[line]
           /\ line \notin DOMAIN z.labels => z.asm + Instructions(z, line) - 1 = Instr(o[line])
<1> DEFINE a == z.low  b == o[a]  c == o[z.high]  l == o[line]
<1>0. End \in Nat /\ End > 0 /\ Wrap = 4 * End
    BY EndIs
<1>1. /\ line \in Words /\ line \in Nat /\ line < End /\ a \in Nat /\ a <= line
      /\ l = b + (line - a) /\ l < c /\ b \in Nat /\ l \in Nat /\ c \in Nat
    BY LineIn
<1>2. /\ line \in DOMAIN z.labels <=> a <= line /\ b + (line - a) \in Labels /\ b + (line - a) < c
      /\ line \in DOMAIN z.labels => z.labels[line] = b + (line - a)
    BY <1>1 DEF AnyOK, Labelled
<1>3. z.asm = Instr(b)
    BY DEF AnyOK
<1> DEFINE k == line - a + 1  V == Plainly(z)
<1>4. k \in 0 .. c - b
    <2> HIDE DEF a, b, c, l
    <2> QED BY <1>1
<1>5. /\ Instr(b + k) = Instr(b) + Rank(V, a + k)
      /\ Instr(b) \in Nat /\ Rank(V, a + k) \in Nat
    <2>1. k \in 0 .. o[z.high] - o[z.low]
        BY <1>4
    <2> HIDE DEF k
    <2>2. /\ Instr(o[z.low] + k) = Instr(o[z.low]) + Rank(Plainly(z), z.low + k)
          /\ Instr(o[z.low]) \in Nat /\ Rank(Plainly(z), z.low + k) \in Nat
        BY <2>1, Numbered
    <2> QED BY <2>2
<1>6. Instructions(z, line) = Rank(V, line + 1)
    BY <1>1, InstructionsIs
<1> HIDE DEF a, b, c, l, V
<1>7. b + k = l + 1 /\ a + k = line + 1
    BY <1>1
<1>8. Instr(l) \in Nat /\ Instr(l + 1) = Instr(l) + IF l \in Labels THEN 0 ELSE 1
    <2>1. l <= End /\ l < End
        BY <1>0, <1>1 DEF l
    <2> QED BY <1>1, <2>1, InstrIs
<1> HIDE DEF k
<1>9. line \in DOMAIN z.labels <=> l \in Labels
    BY <1>1, <1>2
<1>10. line \in DOMAIN z.labels => z.labels[line] = l
    BY <1>1, <1>2
<1>11. l \notin Labels => z.asm + Instructions(z, line) - 1 = Instr(l)
    BY <1>3, <1>5, <1>6, <1>7, <1>8
<1> QED BY <1>9, <1>10, <1>11 DEF l

\* A leaf is folded exactly where the user has folded what the line lies in.
LEMMA FoldedHere ==
    ASSUME NEW zs \in Seq(ZoneType), NEW o, Orderly(o), NEW n, Laid(zs, o, n), NEW R, Spanned(R, zs, o),
           NEW line \in 0 .. Wrap, o[line] < End, NEW t, Holds(zs, t, line)
    PROVE  Spot(zs, t).collapsed <=> \E r \in AtRanges(R, o[line]) : r.folded
<1> DEFINE z == Spot(zs, t)
<1>1. t \in Spots(zs) /\ Within(z, line) /\ z.inner = <<>>
    BY DEF Holds
<1>2. ASSUME z.collapsed PROVE \E r \in AtRanges(R, o[line]) : r.folded
    <2>1. Leaf(z, o, n)
        BY <1>1, SpotIs
    <2>2. z.named
        BY <1>2, <2>1 DEF Leaf, Spread
    <2>3. RangeOf(z, o) \in AtRanges(R, o[line])
        BY <1>1, <2>2, RangesHere
    <2>4. RangeOf(z, o).folded
        BY <1>2 DEF RangeOf
    <2> QED BY <2>3, <2>4
<1>3. ASSUME NEW r \in AtRanges(R, o[line]), r.folded PROVE z.collapsed
    <2>1. r \in R /\ r.from <= o[line] /\ o[line] < r.to
        BY DEF AtRanges
    <2>2. PICK c \in Spots(zs) : Spot(zs, c).named /\ r = RangeOf(Spot(zs, c), o)
        BY <2>1 DEF Spanned, IsSpan
    <2> DEFINE y == Spot(zs, c)
    <2>3. y.collapsed /\ o[y.low] <= o[line] /\ o[line] < o[y.high]
        BY <1>3, <2>1, <2>2 DEF RangeOf
    <2>4. y.inner = <<>>
        <3>1. c[1] \in 1 .. Len(zs) /\ (c[2] # 0 => y.inner = <<>>)
            BY SpotIs
        <3>2. c[2] = 0 => y = zs[c[1]]
            BY DEF Spot
        <3>3. zs[c[1]].inner # <<>> => Parent(zs[c[1]], o, n)
            BY <3>1, LaidIs
        <3>4. zs[c[1]].inner # <<>> => ~zs[c[1]].collapsed
            BY <3>3 DEF Parent
        <3> QED BY <2>3, <3>1, <3>2, <3>4
    <2>5. c # t => ~(o[y.low] <= o[line] /\ o[line] < o[y.high])
        BY <2>4, OutsideOthers
    <2>6. c = t
        BY <2>3, <2>5
    <2> QED BY <2>3, <2>6
<1> QED BY <1>2, <1>3

\* What a zone shows for a line of it, from a count of instructions.
Shows(z, x, counted) ==
    IF z.collapsed THEN [kind |-> "collapsed", at |-> -1]
    ELSE IF x \in DOMAIN z.labels THEN [kind |-> "label", at |-> z.labels[x]]
    ELSE [kind |-> "instruction", at |-> z.asm + counted - 1]

\* A leaf that holds the line shows what the user has there.
LEMMA ShowsRight ==
    ASSUME NEW I, NEW z \in ZonesWith(I), Orderly(Origins(ranges)), NEW n,
           AnyOK(z, Origins(ranges)), Leaf(z, Origins(ranges), n),
           NEW line \in 0 .. Wrap, Within(z, line), Origins(ranges)[line] < End,
           z.collapsed <=> \E r \in AtRanges(ranges, Origins(ranges)[line]) : r.folded
    PROVE  Shows(z, line, Instructions(z, line)) = Expected(line)
<1> DEFINE o == Origins(ranges)  l == o[line]
<1>1. Origin(line) = l /\ RangesAt(line) = AtRanges(ranges, l)
    BY OriginSame
<1>2. Expected(line) = IF \E r \in AtRanges(ranges, l) : r.folded THEN [kind |-> "collapsed", at |-> -1]
                       ELSE IF l \in Labels THEN [kind |-> "label", at |-> l]
                       ELSE [kind |-> "instruction", at |-> Instr(l)]
    BY <1>1 DEF Expected, Instr
<1>3. CASE z.collapsed
    <2>1. Shows(z, line, Instructions(z, line)) = [kind |-> "collapsed", at |-> -1]
        BY <1>3 DEF Shows
    <2>2. Expected(line) = [kind |-> "collapsed", at |-> -1]
        BY <1>2, <1>3
    <2> QED BY <2>1, <2>2
<1>4. CASE ~z.collapsed
    <2> HIDE DEF o
    <2>1. Orderly(o) /\ AnyOK(z, o) /\ Leaf(z, o, n) /\ o[line] < End
        BY DEF o
    <2>2. /\ line \in DOMAIN z.labels <=> o[line] \in Labels
          /\ line \in DOMAIN z.labels => z.labels[line] = o[line]
          /\ line \notin DOMAIN z.labels => z.asm + Instructions(z, line) - 1 = Instr(o[line])
        BY <1>4, <2>1, ShowsIs
    <2> DEFINE at == z.asm + Instructions(z, line) - 1
    <2>3. Shows(z, line, Instructions(z, line)) =
             IF line \in DOMAIN z.labels THEN [kind |-> "label", at |-> z.labels[line]]
             ELSE [kind |-> "instruction", at |-> at]
        BY <1>4 DEF Shows
    <2>4. Expected(line) = IF l \in Labels THEN [kind |-> "label", at |-> l]
                           ELSE [kind |-> "instruction", at |-> Instr(l)]
        BY <1>2, <1>4 DEF o
    <2>5. line \notin DOMAIN z.labels => at = Instr(l)
        BY <2>2
    <2> HIDE DEF at
    <2> QED BY <2>2, <2>3, <2>4, <2>5
<1> QED BY <1>3, <1>4

\* Where a read comes to, and what it says of the zone there.
Comes(line) ==
    LET z == ZoneAt(Descent(line))
    IN  /\ ~RunsOff(line) /\ line \in Nat /\ line < End
        /\ z.low \in Nat /\ z.low <= line
        /\ Shows(z, line, Instructions(z, line)) = Expected(line)
        /\ Kept(line) = path /\ ZoneAt(path).inner = <<>> => Descent(line) = path

\* So does a read in a listing without zones, and in one with zones.
LEMMA ComesBare ==
    ASSUME zones = <<>>, comments \in Maps(Notes), PathIn(path, zones),
           ZonesOK(zones, ranges, notes, comments), NEW line \in 0 .. Wrap, Origin(line) < End
    PROVE  Comes(line)
<1> DEFINE z == BareRoot(comments)  o == Origins(ranges)
<1>0. End \in Nat /\ End > 0 /\ line \in Nat
    BY EndIs
<1>1. path = <<>>
    <2>1. Len(zones) = 0 /\ path \in Seq(Nat) /\ Len(path) \in Nat
        BY DEF PathIn
    <2>2. ~(Len(path) > 0)
        BY <2>1 DEF PathIn
    <2>3. Len(path) = 0
        BY <2>1, <2>2
    <2> QED BY <2>1, <2>3
<1>2. ranges = {} /\ Orderly(o) /\ o[line] = Cap(line)
    <2>1. Spanned(ranges, zones, o)
        BY DEF ZonesOK
    <2> QED BY <2>1, NoneSeen
<1>3. o[line] < End
    BY OriginSame
<1>4. line < End
    BY <1>0, <1>2, <1>3 DEF Cap
<1>5. z \in LeafType /\ AnyOK(z, o) /\ Leaf(z, o, notes)
    BY RootSound
<1>6. ZoneAt(<<>>) = Root /\ Root = z /\ z.low = 0 /\ z.high = End
    BY RootIs DEF ZoneAt
<1>7. z.inner = <<>> /\ ~z.collapsed
    BY DEF BareRoot, Zone
<1>8. Kept(line) = <<>>
    BY <1>1 DEF Kept
<1>9. Descent(line) = <<>>
    <2>1. Down(<<>>, line) = <<>>
        BY <1>6, <1>7 DEF Down
    <2>2. Len(<<>>) = 0
        OBVIOUS
    <2> QED BY <1>8, <2>1, <2>2 DEF Descent
<1>10. Range(<<>>) = {}
    BY DEF Range
<1>11. ~RunsOff(line)
    BY <1>0, <1>4, <1>9, <1>10 DEF RunsOff
<1>12. Within(z, line)
    BY <1>0, <1>4, <1>6 DEF Within
<1>13. z.collapsed <=> \E r \in AtRanges(ranges, o[line]) : r.folded
    BY <1>2, <1>7 DEF AtRanges
<1>14. z \in ZonesWith({<<>>})
    BY <1>5 DEF LeafType
<1> HIDE DEF z
<1>15. Shows(z, line, Instructions(z, line)) = Expected(line)
    BY <1>2, <1>3, <1>5, <1>12, <1>13, <1>14, ShowsRight
<1>16. ZoneAt(Descent(line)) = z /\ z.low \in Nat /\ z.low <= line
    BY <1>0, <1>6, <1>9
<1> QED BY <1>0, <1>1, <1>4, <1>9, <1>11, <1>15, <1>16 DEF Comes

LEMMA ComesHome ==
    ASSUME zones \in Seq(ZoneType), zones # <<>>, PathIn(path, zones),
           ZonesOK(zones, ranges, notes, comments), NEW line \in 0 .. Wrap, Origin(line) < End
    PROVE  Comes(line)
<1> DEFINE o == Origins(ranges)  p == Descent(line)
<1>0. End \in Nat /\ End > 0 /\ line \in Nat
    BY EndIs
<1>1. o[line] < End
    BY OriginSame
<1>2. Walkable /\ Orderly(o)
    BY WalkableIs
<1>3. Laid(zones, o, notes) /\ Spanned(ranges, zones, o)
    BY DEF ZonesOK
<1>4. InSight(line)
    BY <1>1, <1>2, <1>3 DEF InSight
<1>5. /\ Leads(p, line) /\ ZoneAt(p).inner = <<>>
      /\ Kept(line) = path /\ ZoneAt(path).inner = <<>> => p = path \/ path = <<>>
    BY <1>4, DescentLeads
<1> HIDE DEF p
<1>6. PICK t : Holds(zones, t, line) /\ Spot(zones, t) = ZoneAt(p)
    BY <1>4, <1>5, LeafAt
<1> DEFINE z == Spot(zones, t)
<1>7. z \in ZoneType /\ AnyOK(z, o) /\ Leaf(z, o, notes) /\ Within(z, line)
    <2>1. t \in Spots(zones) /\ Within(z, line) /\ z.inner = <<>>
        BY <1>6 DEF Holds
    <2>2. z \in ZoneType /\ AnyOK(z, o) /\ (z.inner = <<>> => Leaf(z, o, notes))
        BY <1>2, <1>3, <2>1, SpotIs
    <2> QED BY <2>1, <2>2
<1>8. z.collapsed <=> \E r \in AtRanges(ranges, o[line]) : r.folded
    BY <1>1, <1>2, <1>3, <1>6, FoldedHere
<1>9. z.low \in Nat /\ z.low <= line
    <2>1. z.low \in Nat
        BY <1>2, <1>7, AnyBounds DEF ZoneType
    <2>2. z.low <= line
        BY <1>7 DEF Within
    <2> QED BY <2>1, <2>2
<1>10. line < End
    <2>1. line <= o[line] \/ o[line] = End
        BY <1>2, OriginIs
    <2>2. o[line] \in Nat
        BY <1>2, OriginIs
    <2> QED BY <1>0, <1>1, <2>1, <2>2
<1>11. ~RunsOff(line)
    <2>1. PathIn(p, zones)
        BY <1>5 DEF Leads
    <2>2. 0 \notin Range(p)
        BY <1>2, <2>1, PathSays
    <2> QED BY <1>0, <1>10, <2>2 DEF RunsOff, p
<1>12. z \in ZonesWith(Seq(LeafType))
    BY <1>7 DEF ZoneType
<1>13. Spot(zones, t) = ZoneAt(p)
    BY <1>6
<1> HIDE DEF z
<1>14. Shows(z, line, Instructions(z, line)) = Expected(line)
    BY <1>1, <1>2, <1>7, <1>8, <1>12, ShowsRight
<1>15. Kept(line) = path /\ ZoneAt(path).inner = <<>> => p = path
    <2>1. path = <<>> => ZoneAt(path) = Root
        <3>1. Len(<<>>) = 0
            OBVIOUS
        <3> QED BY <3>1 DEF ZoneAt
    <2>2. path = <<>> => ZoneAt(path).inner # <<>>
        BY <2>1, RootInner
    <2> QED BY <1>5, <2>2
<1>16. ZoneAt(p) = z
    BY <1>13 DEF z
<1> QED BY <1>0, <1>9, <1>10, <1>11, <1>14, <1>15, <1>16 DEF Comes, p

\* The count of a read that goes on is the one of the zone it comes to.
LEMMA CountsOn ==
    ASSUME ReaderType, NEW line, Comes(line), Counted, line = level + 1, ~Recounts(line),
           line \notin DOMAIN ZoneAt(Descent(line)).labels
    PROVE  passed + 1 = Instructions(ZoneAt(Descent(line)), line)
<1> DEFINE z == ZoneAt(Descent(line))
<1>1. Kept(line) = path /\ ZoneAt(path).inner = <<>>
    BY DEF Recounts
<1>2. Descent(line) = path
    BY <1>1 DEF Comes
<1>3. passed = Instructions(z, level)
    BY <1>2 DEF Counted
<1>4. level \in Nat /\ level + 1 < End /\ z.low \in Nat /\ z.low <= level + 1 /\ level + 1 \notin DOMAIN z.labels
    BY DEF Comes, ReaderType
<1> HIDE DEF z
<1>5. Instructions(z, level + 1) = Instructions(z, level) + 1
    BY <1>4, InstructionsNext
<1> QED BY <1>3, <1>5 DEF z

\* A read shows what the user has at that place.
LEMMA ReadShows ==
    ASSUME Inv, plain, NEW line \in Lines, line # reached, UNCHANGED tree, GetCurrentAsmLine(line),
           Origin(line) < End, RunsOff(line) \/ Recounts(line) \/ (Counted /\ line = level + 1)
    PROVE  ~stuck' /\ Shown' = Expected(line)
<1> DEFINE p == Descent(line)  z == ZoneAt(p)
<1>1. /\ zones \in Seq(ZoneType) /\ comments \in Maps(Notes) /\ ReaderType /\ size \in Nat /\ size <= 2 * End
      /\ ZonesOK(zones, ranges, notes, comments)
    BY DEF Inv, Typed
<1>2. line \in 0 .. Wrap
    BY <1>1, EndIs DEF Lines
<1>3. PathIn(path, zones)
    BY <1>1 DEF ReaderType
<1>4. Comes(line)
    BY <1>1, <1>2, <1>3, ComesBare, ComesHome
<1>5. /\ ~RunsOff(line) /\ line \in Nat /\ Shows(z, line, Instructions(z, line)) = Expected(line)
    BY <1>4 DEF Comes
<1>6. ~stuck'
    BY <1>5 DEF GetCurrentAsmLine
<1>7. Reach(line)
    BY <1>5 DEF GetCurrentAsmLine
<1>8. /\ path' = p /\ reached' = line
      /\ passed' = IF Recounts(line) THEN Instructions(z, line)
                   ELSE IF line \in DOMAIN z.labels THEN passed ELSE passed + 1
    BY <1>7 DEF Reach
<1>9. zones' = zones /\ comments' = comments
    BY DEF tree
<1> HIDE DEF p
<1>10. ZoneAt(path)' = z
    <2>1. Root' = Root
        BY <1>9 DEF Root
    <2> QED BY <1>8, <1>9, <2>1 DEF ZoneAt
<1> HIDE DEF z
<1>11. Shown' = Shows(z, line, passed')
    <2>1. Shown' = IF ZoneAt(path)'.collapsed THEN [kind |-> "collapsed", at |-> -1]
                   ELSE IF reached' \in DOMAIN ZoneAt(path)'.labels
                   THEN [kind |-> "label", at |-> ZoneAt(path)'.labels[reached']]
                   ELSE [kind |-> "instruction", at |-> ZoneAt(path)'.asm + passed' - 1]
        BY DEF Shown
    <2> QED BY <1>8, <1>10, <2>1 DEF Shows
<1>12. line \in DOMAIN z.labels \/ passed' = Instructions(z, line)
    <2>1. CASE Recounts(line)
        BY <1>8, <2>1
    <2>2. CASE ~Recounts(line) /\ line \notin DOMAIN z.labels
        <3>1. Counted /\ line = level + 1
            BY <1>5, <2>2
        <3>2. passed + 1 = Instructions(z, line)
            BY <1>1, <1>4, <2>2, <3>1, CountsOn DEF z, p
        <3> QED BY <1>8, <2>2, <3>2
    <2> QED BY <2>1, <2>2
<1>13. Shows(z, line, passed') = Shows(z, line, Instructions(z, line))
    BY <1>12 DEF Shows
<1> QED BY <1>5, <1>6, <1>11, <1>13 DEF z

\* GetCurrentAsmLine shows the listing: the label, the instruction by its number or the folded
\* zone the user has at that place, however the read came there.
THEOREM LineIsAlwaysExact == Spec => LineIsExact
<1>1. ASSUME Inv, [Next]_vars
      PROVE  [\A line \in Lines :
                 /\ plain /\ line # reached /\ UNCHANGED tree
                 /\ GetCurrentAsmLine(line)
                 /\ Origin(line) < End
                 /\ RunsOff(line) \/ Recounts(line) \/ (Counted /\ line = level + 1)
                 => ~stuck' /\ Shown' = Expected(line)]_vars
    BY <1>1, ReadShows
<1> QED BY <1>1, Invariance, PTL DEF Spec, LineIsExact

=============================================================================
