------------------------ MODULE BufferViewerProofs -------------------------
(***************************************************************************)
(* Proofs about the hex view: for a file of any size, any window sizes,    *)
(* any table of zones and any texts to search.                             *)
(***************************************************************************)
EXTENDS BufferViewer, WellFoundedInduction, TLAPS

\* A set of numbers that is not empty has a least one.
LEMMA LeastIsIn ==
    ASSUME NEW S, S \subseteq Nat, S # {}
    PROVE  Least(S) \in S /\ Least(S) \in Nat /\ \A j \in S : Least(S) <= j
<1>1. PICK x \in S : \A y \in S : ~ (<<y, x>> \in OpToRel(<, Nat))
    BY NatLessThanWellFounded, WFMin
<1>2. \A y \in S : x <= y
    <2> TAKE y \in S
    <2>1. y \in Nat /\ x \in Nat /\ <<y, x>> \in Nat \X Nat
        OBVIOUS
    <2>2. <<y, x>> \notin {ss \in Nat \X Nat : ss[1] < ss[2]}
        BY <1>1 DEF OpToRel
    <2>3. ~(y < x)
        BY <2>1, <2>2
    <2> QED BY <2>1, <2>3
<1> QED BY <1>2 DEF Least

LEMMA FirstIsIn ==
    ASSUME NEW S, S \subseteq Nat, S # {}
    PROVE  FirstOf(S) \in S /\ \A j \in S : FirstOf(S) <= j
<1>1. FirstOf(S) = Least(S)
    BY DEF FirstOf, Least
<1> QED BY <1>1, LeastIsIn

\* A set of numbers below N that is not empty has a greatest one: the one whose
\* distance from N is least.
LEMMA LastIsIn ==
    ASSUME NEW N \in Nat, NEW S, S \subseteq 0 .. N, S # {}
    PROVE  LastOf(S) \in S /\ \A b \in S : b <= LastOf(S)
<1> DEFINE D == {N - a : a \in S}
<1>1. D \subseteq Nat /\ D # {}
    <2>1. PICK a \in S : TRUE
        OBVIOUS
    <2>2. N - a \in D
        BY <2>1
    <2>3. \A b \in S : N - b \in Nat
        OBVIOUS
    <2> QED BY <2>2, <2>3
<1>2. PICK a \in S : Least(D) = N - a
    BY <1>1, LeastIsIn
<1>3. \A b \in S : b <= a
    <2> TAKE b \in S
    <2>1. N - b \in D
        OBVIOUS
    <2>2. Least(D) <= N - b
        BY <1>1, <2>1, LeastIsIn
    <2> QED BY <1>2, <2>2
<1> QED BY <1>3 DEF LastOf

LEMMA ClampIn ==
    ASSUME NEW p \in Nat
    PROVE  Clamp(p) \in Offsets /\ (p <= Size - 1 => Clamp(p) = p)
BY SizeAssumption DEF Clamp, Offsets

LEMMA ShownType ==
    ASSUME Layout \in Layouts
    PROVE  /\ Layout.cols \in Nat /\ Layout.cols > 0
           /\ Layout.rows \in Nat /\ Layout.rows > 0
           /\ Shown \in Nat /\ Shown > 0
<1>1. /\ Layout.cols \in Nat /\ Layout.cols > 0
      /\ Layout.rows \in Nat /\ Layout.rows > 0
    BY LayoutsAssumption
<1>2. ASSUME NEW c \in Nat, NEW r \in Nat, c > 0, r > 0
      PROVE  c * r \in Nat /\ c * r > 0
    BY <1>2, Z3
<1> QED BY <1>1, <1>2 DEF Shown

LEMMA StartIn ==
    ASSUME NEW s \in Offsets, NEW c \in Offsets, NEW p \in Offsets, Shown \in Nat
    PROVE  StartAfter(s, c, p) \in Offsets /\ StartAfter(s, c, p) <= p
BY SizeAssumption DEF StartAfter, InWindow, Offsets

LEMMA StartKeepsSight ==
    ASSUME NEW s \in Offsets, NEW c \in Offsets, NEW p \in Offsets,
           Shown \in Nat, Shown > 0, InWindow(c, s)
    PROVE  InWindow(p, StartAfter(s, c, p))
BY SizeAssumption DEF StartAfter, InWindow, Offsets

-----------------------------------------------------------------------------
(* Selections: of the right type, running forward, inside the file.         *)

Sound(z) == z \in Zone /\ ProperZone(z) /\ (z.end <= Size \/ IsWideMatch(z))

Good(sel) == /\ sel \in Selections
             /\ \A i \in ZoneIndex : sel.zones[i] # NoZone => Sound(sel.zones[i])

LEMMA GoodIsTheInvariant ==
    Good(selection) <=> selection \in Selections /\ SelectionInFile
<1>1. selection \in Selections =>
        \A i \in ZoneIndex : selection.zones[i] # NoZone => selection.zones[i] \in Zone
    BY DEF Selections
<1> QED BY <1>1 DEF Good, Sound, SelectionInFile, ProperZones

LEMMA SpanInFile ==
    ASSUME NEW a \in 0 .. Size, NEW p \in 0 .. Size
    PROVE  Sound(Span(a, p)) /\ Span(a, p) \in Zone
BY SizeAssumption DEF Sound, Span, Zone, ProperZone

\* A range that holds an offset of the file was begun in the file: a Unicode match
\* was begun at its start.
LEMMA AnchorInFile ==
    ASSUME NEW z, Sound(z), NEW p \in 0 .. Size, Holds(z, p)
    PROVE  z.anchor \in 0 .. Size
<1>1. z \in Zone /\ ProperZone(z) /\ z.start <= p
    BY DEF Sound, Holds
<1>2. CASE z.end <= Size
    BY <1>1, <1>2, SizeAssumption DEF Zone, ProperZone
<1>3. CASE IsWideMatch(z)
    <2>1. PICK t \in Patterns : z = Span(z.start, z.start + t.len - 1)
        BY <1>3 DEF IsWideMatch
    <2>2. z.anchor = z.start
        BY <2>1 DEF Span
    <2> QED BY <1>1, <2>2, SizeAssumption DEF Zone
<1> QED BY <1>2, <1>3 DEF Sound

\* A selection whose zones are each old or in the file is good.
LEMMA GoodZones ==
    ASSUME NEW sel, Good(sel), NEW z \in [ZoneIndex -> Zone \cup {NoZone}],
           NEW b \in BOOLEAN,
           \A i \in ZoneIndex : z[i] = NoZone \/ z[i] = sel.zones[i] \/ Sound(z[i])
    PROVE  Good([single |-> b, zones |-> z])
BY DEF Good, Selections

LEMMA GoodSelect ==
    ASSUME NEW sel, Good(sel), NEW p \in 0 .. Size, NEW q \in 0 .. Size
    PROVE  Good(SelectFromTo(sel, p, q))
<1> DEFINE z == [i \in ZoneIndex |->
                    IF i \notin BeginsIn(sel, p) THEN sel.zones[i]
                    ELSE IF Holds(sel.zones[i], p) THEN Span(sel.zones[i].anchor, q)
                    ELSE Span(p, q)]
<1>1. ASSUME NEW i \in ZoneIndex
      PROVE  /\ z[i] \in Zone \cup {NoZone}
             /\ z[i] = NoZone \/ z[i] = sel.zones[i] \/ Sound(z[i])
    <2>1. sel.zones[i] \in Zone \cup {NoZone}
        BY DEF Good, Selections
    <2>2. CASE i \notin BeginsIn(sel, p)
        BY <2>1, <2>2
    <2>3. CASE i \in BeginsIn(sel, p) /\ Holds(sel.zones[i], p)
        <3>1. Sound(sel.zones[i])
            BY <2>3 DEF Holds, Good
        <3>2. sel.zones[i].anchor \in 0 .. Size
            BY <2>3, <3>1, AnchorInFile
        <3>3. z[i] = Span(sel.zones[i].anchor, q)
            BY <2>3
        <3> QED BY <3>2, <3>3, SpanInFile
    <2>4. CASE i \in BeginsIn(sel, p) /\ ~Holds(sel.zones[i], p)
        <3>1. z[i] = Span(p, q)
            BY <2>4
        <3> QED BY <3>1, SpanInFile
    <2> QED BY <2>2, <2>3, <2>4
<1>2. z \in [ZoneIndex -> Zone \cup {NoZone}]
    BY <1>1
<1>3. sel.single \in BOOLEAN /\ SelectFromTo(sel, p, q) = [single |-> sel.single, zones |-> z]
    BY DEF Good, Selections, SelectFromTo
<1> QED BY <1>1, <1>2, <1>3, GoodZones

LEMMA GoodSet ==
    ASSUME NEW sel, Good(sel), NEW i \in ZoneIndex, NEW p \in 0 .. Size, NEW q \in 0 .. Size
    PROVE  Good(SetSelection(sel, i, p, q))
<1>1. CASE i \notin Usable(sel)
    BY <1>1 DEF SetSelection
<1>2. CASE i \in Usable(sel)
    <2> DEFINE z == [sel.zones EXCEPT ![i] = Span(p, q)]
    <2>1. sel.single \in BOOLEAN /\ sel.zones \in [ZoneIndex -> Zone \cup {NoZone}]
        BY DEF Good, Selections
    <2>2. z \in [ZoneIndex -> Zone \cup {NoZone}]
        BY <2>1, SpanInFile
    <2>3. \A j \in ZoneIndex : z[j] = sel.zones[j] \/ Sound(z[j])
        BY <2>1, SpanInFile
    <2>4. SetSelection(sel, i, p, q) = [single |-> sel.single, zones |-> z]
        BY <1>2, <2>1 DEF SetSelection, Good, Selections
    <2> QED BY <2>1, <2>2, <2>3, <2>4, GoodZones
<1> QED BY <1>1, <1>2

LEMMA NoZonesType == NoZones \in [ZoneIndex -> Zone \cup {NoZone}]
BY DEF NoZones

LEMMA GoodCleared ==
    ASSUME NEW sel, Good(sel)
    PROVE  /\ Good(Clear(sel))
           /\ \A i \in ZoneIndex : Good(ClearZone(sel, i))
           /\ \A b \in BOOLEAN : Good(EnableMultiSelection(sel, b))
<1>1. sel.single \in BOOLEAN /\ sel.zones \in [ZoneIndex -> Zone \cup {NoZone}]
    BY DEF Good, Selections
<1>2. \A i \in ZoneIndex : NoZones[i] = NoZone
    BY DEF NoZones
<1>3. \A b \in BOOLEAN : Good([single |-> b, zones |-> NoZones])
    BY <1>2, NoZonesType, GoodZones
<1>4. Good(Clear(sel))
    <2>1. Clear(sel) = [single |-> sel.single, zones |-> NoZones]
        BY DEF Clear, Good, Selections
    <2> QED BY <1>1, <1>3, <2>1
<1>5. ASSUME NEW i \in ZoneIndex PROVE Good(ClearZone(sel, i))
    <2> DEFINE z == [sel.zones EXCEPT ![i] = NoZone]
    <2>1. z \in [ZoneIndex -> Zone \cup {NoZone}]
        BY <1>1
    <2>2. \A j \in ZoneIndex : z[j] = NoZone \/ z[j] = sel.zones[j]
        BY <1>1
    <2>3. ClearZone(sel, i) = [single |-> sel.single, zones |-> z]
        BY <1>1 DEF ClearZone, Good, Selections
    <2> QED BY <1>1, <2>1, <2>2, <2>3, GoodZones
<1>6. ASSUME NEW b \in BOOLEAN PROVE Good(EnableMultiSelection(sel, b))
    <2> DEFINE z == [i \in ZoneIndex |-> IF i = 1 THEN sel.zones[1] ELSE NoZone]
    <2>1. z \in [ZoneIndex -> Zone \cup {NoZone}]
        BY <1>1
    <2>2. \A j \in ZoneIndex : z[j] = NoZone \/ z[j] = sel.zones[j]
        OBVIOUS
    <2>3. Good([single |-> FALSE, zones |-> z])
        BY <2>1, <2>2, GoodZones
    <2> QED BY <1>3, <2>3 DEF EnableMultiSelection
<1> QED BY <1>4, <1>5, <1>6

-----------------------------------------------------------------------------
(* Searches: what a search answers is a place where a text occurs, or comes *)
(* from a text of wide characters.                                          *)

OfText(m) ==
    HasResults(m) => \E p \in Patterns : /\ m.unit = p.unit /\ m.len = p.len
                                         /\ p.unit = 1 => m.at \in p.at

Matches == {m \in [at : 0 .. Size * WideBytes, len : Nat, unit : {1, WideBytes}] : OfText(m)}

LEMMA Bytes ==
    /\ Size \in Nat /\ Size > 0 /\ CacheSize \in Nat /\ CacheSize > 0
    /\ Size * WideBytes \in Nat /\ Size <= Size * WideBytes
    /\ \A p \in Patterns : /\ p.unit \in {1, WideBytes} /\ p.unit \in {1, 2, 4}
                           /\ p.len \in Nat /\ p.len > 0
                           /\ p.at \subseteq 0 .. Size - 1
                           /\ \A a \in p.at : a + p.len * p.unit <= Size
<1>1. WideBytes = 2 \/ WideBytes = 4
    BY SearchAssumption
<1>2. Size * WideBytes \in Nat /\ Size <= Size * WideBytes
    BY <1>1, SizeAssumption
<1>3. \A p \in Patterns : /\ p.unit \in {1, WideBytes} /\ p.len \in Nat \ {0}
                          /\ p.at \in SUBSET (0 .. Size - 1)
    BY SearchAssumption
<1> QED BY <1>1, <1>2, <1>3, SizeAssumption, SearchAssumption

LEMMA NoMatchIsMatch == NoMatch \in Matches
BY Bytes DEF NoMatch, Matches, OfText, HasResults

\* A match selected is a range inside the file, or one of wide characters.
LEMMA MatchIsSound ==
    ASSUME NEW m \in Matches, HasResults(m)
    PROVE  LET z == Span(m.at, m.at + m.len - 1) IN z \in Zone /\ Sound(z)
<1> DEFINE z == Span(m.at, m.at + m.len - 1)
<1>1. PICK p \in Patterns : m.unit = p.unit /\ m.len = p.len /\ (p.unit = 1 => m.at \in p.at)
    BY DEF Matches, OfText
<1>2. m.at \in Nat /\ m.len \in Nat /\ m.len > 0
    BY <1>1, Bytes DEF Matches
<1>3. z = [start |-> m.at, end |-> m.at + m.len - 1, anchor |-> m.at]
    BY <1>2 DEF Span
<1>4. z \in Zone /\ ProperZone(z)
    BY <1>2, <1>3 DEF Zone, ProperZone
<1>5. CASE p.unit = 1
    <2>1. m.at + m.len <= Size
        BY <1>1, <1>5, Bytes
    <2> QED BY <1>2, <1>3, <1>4, <2>1, Bytes DEF Sound
<1>6. CASE p.unit # 1
    BY <1>1, <1>3, <1>4, <1>6 DEF Sound, IsWideMatch
<1> QED BY <1>4, <1>5, <1>6

\* The matches a search takes are some of those it meets, each behind the one before,
\* and none is passed over but for one that was taken: up to n, for every n.
TakenUpTo(T, S, len, n) ==
    /\ T \in SUBSET {i \in S : i < n}
    /\ \A i \in S : i < n => (i \in T <=> \A j \in T : j < i => j + len <= i)

LEMMA TakenExists ==
    ASSUME NEW S, S \subseteq Nat, NEW len \in Nat, NEW n \in Nat
    PROVE  \E T : TakenUpTo(T, S, len, n)
<1> DEFINE Rule(T, k) == \A i \in S : i < k => (i \in T <=> \A j \in T : j < i => j + len <= i)
           Bad == {k \in Nat : ~ \E T \in SUBSET {i \in S : i < k} : Rule(T, k)}
<1>1. SUFFICES Bad = {}
    BY DEF TakenUpTo
<1>2. SUFFICES ASSUME Bad # {} PROVE FALSE
    OBVIOUS
<1> DEFINE b == Least(Bad)
<1>3. b \in Bad /\ b \in Nat /\ \A k \in Bad : b <= k
    BY <1>2, LeastIsIn
<1>4. b # 0
    <2>1. \A i \in S : ~(i < 0)
        OBVIOUS
    <2>2. {} \in SUBSET {i \in S : i < 0} /\ Rule({}, 0)
        BY <2>1
    <2>3. 0 \notin Bad
        BY <2>2
    <2> QED BY <1>3, <2>3
<1> HIDE DEF b
<1>5. b - 1 \in Nat /\ b - 1 \notin Bad
    BY <1>3, <1>4
<1>6. PICK T \in SUBSET {i \in S : i < b - 1} : Rule(T, b - 1)
    BY <1>5
<1>7. CASE b - 1 \in S /\ \A j \in T : j + len <= b - 1
    <2> DEFINE U == T \cup {b - 1}
    <2>1. U \in SUBSET {i \in S : i < b}
        BY <1>3, <1>7
    <2>2. ASSUME NEW i \in S, i < b PROVE i \in U <=> \A j \in U : j < i => j + len <= i
        <3>1. CASE i = b - 1
            BY <1>3, <1>7, <3>1
        <3>2. CASE i # b - 1
            <4>1. i < b - 1
                BY <1>3, <2>2, <3>2
            <4>2. i \in T <=> \A j \in T : j < i => j + len <= i
                BY <1>6, <4>1
            <4> QED BY <1>3, <3>2, <4>1, <4>2
        <3> QED BY <3>1, <3>2
    <2> QED BY <1>3, <2>1, <2>2
<1>8. CASE ~(b - 1 \in S /\ \A j \in T : j + len <= b - 1)
    <2>1. T \in SUBSET {i \in S : i < b}
        BY <1>3
    <2>2. ASSUME NEW i \in S, i < b PROVE i \in T <=> \A j \in T : j < i => j + len <= i
        <3>1. CASE i = b - 1
            <4>1. i \notin T /\ \E j \in T : ~(j + len <= i)
                BY <1>3, <1>8, <3>1
            <4>2. \A j \in T : j < i
                BY <3>1
            <4> QED BY <4>1, <4>2
        <3>2. CASE i # b - 1
            <4>1. i < b - 1
                BY <1>3, <2>2, <3>2
            <4> QED BY <1>6, <4>1
        <3> QED BY <3>1, <3>2
    <2> QED BY <1>3, <2>1, <2>2
<1> QED BY <1>7, <1>8

LEMMA TakenIs ==
    ASSUME NEW N \in Nat, NEW S, S \subseteq 0 .. N, NEW len \in Nat
    PROVE  LET T == Taken(S, len)
           IN  T \subseteq S /\ \A i \in S : i \in T <=> \A j \in T : j < i => j + len <= i
<1>1. S \subseteq Nat /\ N + 1 \in Nat /\ \A i \in S : i < N + 1
    OBVIOUS
<1>2. PICK T : TakenUpTo(T, S, len, N + 1)
    BY <1>1, TakenExists
<1>3. T \in SUBSET S /\ \A i \in S : i \in T <=> \A j \in T : j < i => j + len <= i
    BY <1>1, <1>2 DEF TakenUpTo
<1> QED BY <1>3 DEF Taken

\* The last match taken comes behind the place the search last began at, and every
\* match behind it overlaps it.
LEMMA LastTaken ==
    ASSUME NEW N \in Nat, NEW S, S \subseteq 0 .. N, S # {}, NEW len \in Nat, len > 0
    PROVE  LET T == Taken(S, len)
               i == LastOf(T)
               start == LastOf({0} \cup {j + len : j \in T \ {i}})
           IN  i \in S /\ start \in 0 .. i /\ \A a \in S : a < i + len
<1> DEFINE T == Taken(S, len)
           i == LastOf(T)
           ends == {0} \cup {j + len : j \in T \ {i}}
<1>1. T \subseteq S /\ \A k \in S : k \in T <=> \A j \in T : j < k => j + len <= k
    BY TakenIs
<1> HIDE DEF T
<1>2. T # {}
    <2>0. S \subseteq Nat
        OBVIOUS
    <2>1. Least(S) \in S /\ Least(S) \in Nat /\ \A j \in S : Least(S) <= j
        BY <2>0, LeastIsIn
    <2>2. \A j \in T : ~(j < Least(S))
        BY <1>1, <2>1
    <2> QED BY <1>1, <2>1, <2>2
<1>3. i \in T /\ \A j \in T : j <= i
    BY <1>1, <1>2, LastIsIn
<1> HIDE DEF i
<1>4. i \in S /\ i \in Nat /\ i \in 0 .. N
    BY <1>1, <1>3
<1>5. ASSUME NEW j \in T, j # i PROVE j + len \in 0 .. i
    <2>1. j \in Nat /\ j < i
        BY <1>1, <1>3, <1>4, <1>5
    <2> QED BY <1>1, <1>3, <1>4, <2>1
<1>6. ends \subseteq 0 .. i /\ ends # {}
    BY <1>4, <1>5
<1>7. LastOf(ends) \in 0 .. i
    BY <1>4, <1>6, LastIsIn
<1>8. ASSUME NEW a \in S, a >= i + len PROVE FALSE
    <2>1. a \in Nat /\ \A j \in T : j \in Nat /\ j <= i
        BY <1>1, <1>3
    <2>2. a \in T
        BY <1>1, <1>4, <1>8, <2>1
    <2> QED BY <1>3, <1>4, <1>8, <2>1, <2>2
<1>9. \A a \in S : a < i + len
    BY <1>4, <1>8
<1> QED BY <1>4, <1>7, <1>9 DEF T, i

\* A search of ASCII meets only what lies in the block.
LEMMA SeenIs ==
    ASSUME NEW p \in Patterns, NEW low \in Nat, NEW high \in Nat, NEW S \in Seen(p, low, high)
    PROVE  /\ S \subseteq 0 .. high - low
           /\ p.unit = 1 => S = Within(p, low, high)
<1>1. Within(p, low, high) \subseteq 0 .. high - low
    BY DEF Within
<1>2. p.len \in Nat
    BY Bytes
<1>3. Behind(p, low, high) \subseteq 0 .. high - low
    BY <1>2 DEF Behind
<1>4. p.unit = 1 => Behind(p, low, high) = {}
    BY <1>2 DEF Behind
<1> QED BY <1>1, <1>3, <1>4 DEF Seen

LEMMA MatchOfType ==
    ASSUME NEW p \in Patterns, NEW low \in Nat, NEW i \in Nat, low + i <= Size,
           NEW start \in 0 .. i, p.unit = 1 => low + i \in p.at
    PROVE  MatchOf(p, low, start, i) \in Matches
<1> DEFINE at == low + start * p.unit + (i - start)
<1>1. p.unit \in {1, WideBytes} /\ p.len \in Nat /\ (WideBytes = 2 \/ WideBytes = 4)
    BY Bytes, SearchAssumption
<1>2. at \in 0 .. Size * WideBytes /\ (p.unit = 1 => at = low + i)
    <2>1. CASE p.unit = 1
        BY <2>1, Bytes
    <2>2. CASE p.unit = WideBytes /\ WideBytes = 2
        BY <2>2, SizeAssumption
    <2>3. CASE p.unit = WideBytes /\ WideBytes = 4
        BY <2>3, SizeAssumption
    <2> QED BY <1>1, <2>1, <2>2, <2>3
<1> HIDE DEF at
<1>3. MatchOf(p, low, start, i) = [at |-> at, len |-> p.len, unit |-> p.unit]
    BY DEF MatchOf, at
<1> QED BY <1>1, <1>2, <1>3 DEF Matches, OfText

LEMMA KeptOfType ==
    ASSUME NEW p \in Patterns, NEW low \in Nat, NEW high \in Nat, high <= Size,
           NEW S \in Seen(p, low, high), S # {}, NEW last \in BOOLEAN
    PROVE  KeptOf(p, low, S, last) \in Matches
<1>1. S \subseteq 0 .. high - low /\ high - low \in Nat
    BY SeenIs
<1>2. ASSUME NEW i \in S PROVE i \in Nat /\ low + i <= Size /\ (p.unit = 1 => low + i \in p.at)
    <2>1. i \in 0 .. high - low
        BY <1>1
    <2>2. p.unit = 1 => low + i * p.unit \in p.at
        BY SeenIs DEF Within
    <2> QED BY <2>1, <2>2, SizeAssumption
<1>3. CASE ~last
    <2>0. S \subseteq Nat
        BY <1>2
    <2>1. FirstOf(S) \in S
        BY <2>0, FirstIsIn
    <2>2. FirstOf(S) \in Nat /\ 0 \in 0 .. FirstOf(S)
        BY <1>2, <2>1
    <2> QED BY <1>2, <1>3, <2>1, <2>2, MatchOfType DEF KeptOf
<1>4. CASE last
    <2> DEFINE T == Taken(S, p.len)
               i == LastOf(T)
               start == LastOf({0} \cup {j + p.len : j \in T \ {i}})
    <2>1. p.len \in Nat /\ p.len > 0
        BY Bytes
    <2>2. i \in S /\ start \in 0 .. i
        BY <1>1, <2>1, LastTaken
    <2>3. KeptOf(p, low, S, last) = MatchOf(p, low, start, i)
        BY <1>4 DEF KeptOf
    <2> HIDE DEF i, start
    <2> QED BY <1>2, <2>2, <2>3, MatchOfType
<1> QED BY <1>3, <1>4

LEMMA SearchType ==
    ASSUME NEW p \in Patterns, NEW from \in Nat, NEW m \in Matches
    PROVE  /\ NextMatch(p, from, m) \subseteq Matches
           /\ from <= Size => PreviousMatch(p, from, m) \subseteq Matches
<1>1. ASSUME NEW f \in Nat, NEW last \in BOOLEAN PROVE Search(p, f, last, m) \subseteq Matches
    <2>1. ASSUME NEW k \in BlockNumbers,
                 NEW S \in Seen(p, BlockLow(f, k), BlockHigh(f, k)) \ {{}}
          PROVE  KeptOf(p, BlockLow(f, k), S, last) \in Matches
        <3>1. k * CacheSize \in Nat
            BY Bytes DEF BlockNumbers
        <3>2. BlockLow(f, k) \in Nat /\ BlockHigh(f, k) \in Nat /\ BlockHigh(f, k) <= Size
            BY <3>1, Bytes DEF BlockLow, BlockHigh
        <3> QED BY <3>2, KeptOfType
    <2> QED BY <2>1 DEF Search
<1>2. ASSUME from <= Size, NEW n \in PreviousMatch(p, from, m) PROVE n \in Matches
    <2> DEFINE low == IF CacheSize > from THEN 0 ELSE from - CacheSize
    <2>1. CASE from = 0
        BY <1>1, <1>2, <2>1 DEF PreviousMatch
    <2>2. CASE from # 0
        <3>1. PICK S \in Seen(p, low, from - 1) : n = IF S = {} THEN m ELSE KeptOf(p, low, S, TRUE)
            BY <1>2, <2>2 DEF PreviousMatch
        <3>2. low \in Nat /\ from - 1 \in Nat /\ from - 1 <= Size
            BY <1>2, <2>2, Bytes
        <3> QED BY <3>1, <3>2, KeptOfType
    <2> QED BY <2>1, <2>2
<1> QED BY <1>1, <1>2 DEF NextMatch

-----------------------------------------------------------------------------
(* Moves and scrolls.                                                       *)

Placed == startView \in Offsets /\ currentPos \in Offsets /\ startView <= currentPos

\* What every move of the view has in common, for a window of the same size.
ViewStep ==
    /\ startView' \in Offsets /\ currentPos' \in Offsets /\ startView' <= currentPos'
    /\ InWindow(currentPos, startView) => InWindow(currentPos', startView')

LEMMA MoveStep ==
    ASSUME Placed, Layout \in Layouts, NEW p \in Offsets,
           startView' = StartAfter(startView, currentPos, p), currentPos' = p
    PROVE  ViewStep
<1>1. Shown \in Nat /\ Shown > 0
    BY ShownType
<1>2. startView' \in Offsets /\ startView' <= p
    BY <1>1, StartIn DEF Placed
<1>3. InWindow(currentPos, startView) => InWindow(p, startView')
    BY <1>1, StartKeepsSight DEF Placed
<1> QED BY <1>2, <1>3 DEF ViewStep

LEMMA ScrollStep ==
    ASSUME Placed, Layout \in Layouts, NEW offset \in Nat, MoveScrollTo(offset)
    PROVE  ViewStep
<1> DEFINE top == Clamp(offset)
           p   == Clamp(ScrolledTo(top))
<1>1. Shown \in Nat /\ Shown > 0
    BY ShownType
<1>2. top \in Offsets /\ startView \in Offsets /\ currentPos \in Offsets /\ startView <= currentPos
    BY ClampIn DEF Placed
<1>3. ScrolledTo(top) \in Nat
    BY <1>2 DEF ScrolledTo, Offsets
<1>4. p \in Offsets /\ startView' = StartAfter(top, currentPos, p) /\ currentPos' = p
    BY <1>3, ClampIn DEF MoveScrollTo
<1>5. startView' \in Offsets /\ startView' <= currentPos'
    BY <1>1, <1>2, <1>4, StartIn
<1>6. ASSUME InWindow(currentPos, startView) PROVE InWindow(p, StartAfter(top, currentPos, p))
    <2>1. currentPos < startView + Shown
        BY <1>6 DEF InWindow
    <2>2. CASE top > startView
        <3>1. ScrolledTo(top) = currentPos + (top - startView)
            BY <2>2 DEF ScrolledTo
        <3>2. top <= p /\ p < top + Shown
            BY <1>1, <1>2, <2>1, <2>2, <3>1, SizeAssumption DEF Clamp, Offsets
        <3> HIDE DEF top, p
        <3> QED BY <1>1, <1>2, <1>4, <3>2 DEF StartAfter, InWindow, Offsets
    <2>3. CASE top < startView
        <3>1. ScrolledTo(top) = currentPos - (startView - top)
            BY <1>2, <2>3 DEF ScrolledTo, Offsets
        <3>2. top <= p /\ p < top + Shown
            BY <1>1, <1>2, <2>1, <2>3, <3>1, SizeAssumption DEF Clamp, Offsets
        <3> HIDE DEF top, p
        <3> QED BY <1>1, <1>2, <1>4, <3>2 DEF StartAfter, InWindow, Offsets
    <2>4. CASE top = startView
        <3> QED BY <1>1, <1>2, <1>4, <1>6, <2>4, StartKeepsSight
    <2> QED BY <1>2, <2>2, <2>3, <2>4 DEF Offsets
<1> QED BY <1>4, <1>5, <1>6 DEF ViewStep

-----------------------------------------------------------------------------
(* The invariant, and what every event but a resize makes of it.            *)

Inv == TypeOK /\ ViewBelowCursor /\ SelectionInFile /\ OfText(match)

LEMMA InvMeans ==
    ASSUME Inv
    PROVE  /\ Placed /\ Good(selection)
           /\ Layout \in Layouts
           /\ match \in Matches
           /\ startView \in Nat /\ currentPos \in Nat
<1>1. Placed /\ Good(selection) /\ Layout \in Layouts /\ match \in Matches
    BY GoodIsTheInvariant DEF Inv, TypeOK, ViewBelowCursor, Placed, Matches
<1> QED BY <1>1, SizeAssumption DEF Placed, Offsets

Handled ==
    /\ ViewStep
    /\ Good(selection')
    /\ Layout' = Layout
    /\ input' \in Patterns \cup {NoInput}
    /\ newRequest' \in BOOLEAN
    /\ match' \in Matches
    /\ searching' \in BOOLEAN

Unsearched == UNCHANGED <<Layout, find, searching>>

LEMMA StandStill ==
    ASSUME Inv, UNCHANGED view
    PROVE  ViewStep
<1>1. startView' = startView /\ currentPos' = currentPos
    BY DEF view
<1> QED BY <1>1, InvMeans DEF ViewStep, Placed

LEMMA Unmoved ==
    ASSUME Inv, ViewStep, Good(selection'), Unsearched
    PROVE  Handled
<1>1. match \in Matches
    BY InvMeans
<1> QED BY <1>1 DEF Inv, TypeOK, Handled, Unsearched, find

LEMMA MoveToStep ==
    ASSUME Inv, NEW offset \in Nat, NEW select, MoveTo(offset, select)
    PROVE  ViewStep /\ Good(selection')
<1>1. Placed /\ Good(selection) /\ Layout \in Layouts
    BY InvMeans
<1>2. Clamp(offset) \in Offsets
    BY ClampIn
<1>3. ViewStep
    BY <1>1, <1>2, MoveStep DEF MoveTo
<1>4. currentPos \in 0 .. Size /\ Clamp(offset) \in 0 .. Size
    BY <1>1, <1>2, SizeAssumption DEF Placed, Offsets
<1>5. Good(SelectFromTo(selection, currentPos, Clamp(offset)))
    BY <1>1, <1>4, GoodSelect
<1> QED BY <1>1, <1>3, <1>5 DEF MoveTo

LEMMA MoveHandled ==
    ASSUME Inv, NEW offset \in Nat, NEW select, MoveTo(offset, select), Unsearched
    PROVE  Handled
BY MoveToStep, Unmoved

LEMMA StayHandled ==
    ASSUME Inv, UNCHANGED <<view, selection>>, Unsearched
    PROVE  Handled
<1>1. UNCHANGED view /\ selection' = selection
    OBVIOUS
<1> QED BY <1>1, StandStill, InvMeans, Unmoved

LEMMA ScrollHandled ==
    ASSUME Inv, NEW offset \in Nat, MoveScrollTo(offset), selection' = selection, Unsearched
    PROVE  Handled
BY ScrollStep, InvMeans, Unmoved

LEMMA TargetsAreOffsets ==
    ASSUME Inv
    PROVE  /\ \A key \in DOMAIN KeyTargets : KeyTargets[key] \in Nat
           /\ \A key \in DOMAIN ScrollTargets : ScrollTargets[key] \in Nat
<1>1. /\ Layout.cols \in Nat /\ Layout.cols > 0 /\ Shown \in Nat
      /\ startView \in Nat /\ currentPos \in Nat /\ startView <= currentPos
    BY InvMeans, ShownType DEF Placed
<1>2. RowStart \in Nat
    <2>1. ASSUME NEW a \in Nat, NEW n \in Nat, n > 0 PROVE a % n \in Nat /\ a % n <= a
        BY <2>1, Z3
    <2>2. currentPos - startView \in Nat /\ currentPos - startView <= currentPos
        BY <1>1
    <2>3. /\ (currentPos - startView) % Layout.cols \in Nat
          /\ (currentPos - startView) % Layout.cols <= currentPos - startView
        BY <1>1, <2>1, <2>2
    <2> QED BY <1>1, <2>2, <2>3 DEF RowStart
<1>3. ASSUME NEW key \in DOMAIN KeyTargets PROVE KeyTargets[key] \in Nat
    BY <1>1, <1>2, SizeAssumption DEF KeyTargets
<1>4. ASSUME NEW key \in DOMAIN ScrollTargets PROVE ScrollTargets[key] \in Nat
    BY <1>1 DEF ScrollTargets
<1> QED BY <1>3, <1>4

-----------------------------------------------------------------------------
(* The events, one group at a time.                                         *)

LEMMA RunEnds ==
    ASSUME Inv
    PROVE  EndOfRun \in Nat /\ EndOfBlock \in Nat
<1>1. currentPos \in Offsets /\ currentPos \in Nat /\ Size \in Nat /\ RunLength \in Nat
    BY InvMeans, SizeAssumption, ContentAssumption DEF Placed
<1>2. EndOfRun \in Nat
    <2> DEFINE S == {p \in currentPos .. Size :
                        p = Size \/ Content[p] # Content[currentPos]}
    <2>1. S \subseteq Nat /\ Size \in S
        BY <1>1 DEF Offsets
    <2> HIDE DEF S
    <2>2. Least(S) \in Nat
        BY <2>1, LeastIsIn
    <2> QED BY <2>2 DEF EndOfRun, S
<1>3. EndOfBlock \in Nat
    <2>1. CompleteRuns \subseteq Nat
        BY SizeAssumption DEF CompleteRuns, Offsets
    <2>2. CompleteRuns # {} => Least(CompleteRuns) \in Nat
        BY <2>1, LeastIsIn
    <2> HIDE DEF CompleteRuns
    <2> QED BY <1>1, <2>2 DEF EndOfBlock
<1> QED BY <1>2, <1>3

LEMMA MovesHandled ==
    ASSUME Inv, Move
    PROVE  Handled
<1>1. ASSUME NEW select \in BOOLEAN, NEW key \in DOMAIN KeyTargets, MoveKey(key, select)
      PROVE  Handled
    BY <1>1, TargetsAreOffsets, MoveHandled DEF MoveKey, Unsearched
<1>2. ASSUME NEW select \in BOOLEAN, Left(select) PROVE Handled
    <2>1. CASE currentPos > 0
        <3>1. currentPos - 1 \in Nat
            BY <2>1, InvMeans
        <3> QED BY <1>2, <2>1, <3>1, MoveHandled DEF Left, Unsearched
    <2>2. CASE ~(currentPos > 0)
        BY <1>2, <2>2, StayHandled DEF Left, Unsearched
    <2> QED BY <2>1, <2>2
<1>3. ASSUME NEW select \in BOOLEAN, NEW p \in 0 .. Size, Jump(p, select) PROVE Handled
    <2>1. p \in Nat
        BY SizeAssumption
    <2> QED BY <1>3, <2>1, MoveHandled DEF Jump, Unsearched
<1>4. ASSUME NEW select \in BOOLEAN, NEW p \in Offsets, Mouse(p, select) PROVE Handled
    <2>1. p \in Nat
        BY SizeAssumption DEF Offsets
    <2>2. CASE p # currentPos
        BY <1>4, <2>1, <2>2, MoveHandled DEF Mouse, Unsearched
    <2>3. CASE p = currentPos
        BY <1>4, <2>3, StayHandled DEF Mouse, Unsearched
    <2> QED BY <2>2, <2>3
<1>5. ASSUME NEW select \in BOOLEAN, NEW b \in BOOLEAN, MoveToZone(b, select) PROVE Handled
    <2> DEFINE found == OffsetToZone(PaintedZones, currentPos)
    <2>1. found \subseteq FileZones
        BY DEF OffsetToZone, Around, PaintedZones, Cached
    <2>2. Unsearched
        BY <1>5 DEF MoveToZone, Unsearched
    <2>3. CASE found = {}
        BY <1>5, <2>2, <2>3, StayHandled DEF MoveToZone
    <2>4. CASE found # {}
        <3>1. PICK z \in found : MoveTo(IF b THEN z.low ELSE z.high, select)
            BY <1>5, <2>4 DEF MoveToZone
        <3>2. (IF b THEN z.low ELSE z.high) \in Nat
            BY <2>1, ZonesAssumption
        <3> QED BY <2>2, <3>1, <3>2, MoveHandled
    <2> QED BY <2>3, <2>4
<1>6. ASSUME NEW select \in BOOLEAN, SkipCurentCaracter(select) PROVE Handled
    BY <1>6, RunEnds, MoveHandled DEF SkipCurentCaracter, Unsearched
<1>7. ASSUME NEW select \in BOOLEAN, MoveTillEndBlock(select) PROVE Handled
    BY <1>7, RunEnds, MoveHandled DEF MoveTillEndBlock, Unsearched
<1>8. ASSUME NEW i \in ZoneIndex, MoveToSelection(i) PROVE Handled
    <2>1. Unsearched
        BY <1>8 DEF MoveToSelection, Unsearched
    <2>2. CASE i \in Selected(selection)
        <3> DEFINE z == selection.zones[i]
        <3>1. z # NoZone
            BY <2>2 DEF Selected
        <3>2. z \in Zone
            BY <3>1, InvMeans DEF Good, Sound
        <3>3. (IF currentPos # z.start THEN z.start ELSE z.end) \in Nat
            BY <3>2 DEF Zone
        <3>4. MoveTo(IF currentPos # z.start THEN z.start ELSE z.end, FALSE)
            BY <1>8, <2>2 DEF MoveToSelection
        <3> QED BY <2>1, <3>3, <3>4, MoveHandled
    <2>3. CASE i \notin Selected(selection)
        BY <1>8, <2>1, <2>3, StayHandled DEF MoveToSelection
    <2> QED BY <2>2, <2>3
<1> QED BY <1>1, <1>2, <1>3, <1>4, <1>5, <1>6, <1>7, <1>8 DEF Move

LEMMA ScrollsHandled ==
    ASSUME Inv, ScrollOrResize, ~\E l \in Layouts : UpdateViewSizes(l)
    PROVE  Handled
<1>1. ASSUME NEW key \in DOMAIN ScrollTargets, Scroll(key) PROVE Handled
    <2>1. selection' = selection /\ Unsearched
        BY <1>1 DEF Scroll, Unsearched
    <2> QED BY <1>1, <2>1, TargetsAreOffsets, ScrollHandled DEF Scroll
<1>2. ASSUME ScrollLeft PROVE Handled
    <2>1. selection' = selection /\ Unsearched
        BY <1>2 DEF ScrollLeft, Unsearched
    <2>2. CASE startView >= 1
        <3>1. startView - 1 \in Nat
            BY <2>2, InvMeans
        <3> QED BY <1>2, <2>1, <2>2, <3>1, ScrollHandled DEF ScrollLeft
    <2>3. CASE ~(startView >= 1)
        BY <1>2, <2>1, <2>3, StayHandled DEF ScrollLeft
    <2> QED BY <2>2, <2>3
<1>3. ASSUME NEW offset \in Steps, AdvanceStartView(offset) PROVE Handled
    <2> DEFINE by == IF -offset > startView THEN -startView ELSE offset
    <2>1. offset \in Int /\ startView \in Nat
        BY RequestsAssumption, InvMeans
    <2>2. startView + by \in Nat
        BY <2>1
    <2>3. /\ startView' = Clamp(startView + by) /\ currentPos' = Clamp(startView + by)
          /\ selection' = selection /\ Unsearched
        BY <1>3 DEF AdvanceStartView, Unsearched
    <2> HIDE DEF by
    <2>4. startView' \in Offsets /\ currentPos' = startView'
        BY <2>2, <2>3, ClampIn
    <2>5. Shown \in Nat /\ Shown > 0
        BY InvMeans, ShownType
    <2>6. ViewStep
        <3>1. PICK x \in Offsets : startView' = x /\ currentPos' = x
            BY <2>4
        <3>2. x \in Nat /\ x <= x
            BY SizeAssumption DEF Offsets
        <3>3. InWindow(x, x)
            BY <2>5, <3>2 DEF InWindow
        <3> QED BY <3>1, <3>2, <3>3 DEF ViewStep
    <2> QED BY <2>3, <2>6, InvMeans, Unmoved
<1> QED BY <1>1, <1>2, <1>3 DEF ScrollOrResize

LEMMA MarksHandled ==
    ASSUME Inv, Mark
    PROVE  Handled
<1>1. Good(selection)
    BY InvMeans
<1>2. ASSUME NEW offset \in Offsets, NEW size \in Nat, size > 0, offset + size - 1 <= Size
      PROVE  offset \in 0 .. Size /\ offset + size - 1 \in 0 .. Size
    BY <1>2, SizeAssumption DEF Offsets
<1>3. Sizes \subseteq Nat /\ 1 \in ZoneIndex
    BY RequestsAssumption, MaxZonesAssumption DEF ZoneIndex
<1>4. UNCHANGED view /\ Unsearched
    BY DEF Mark, ChangeSelection, Select, EditSelection, EraseSelection, Unsearched
<1>5. CASE ChangeSelection
    <2>1. selection.single \in BOOLEAN
        BY <1>1 DEF Good, Selections
    <2>2. Good(selection')
        BY <1>1, <1>5, <2>1, GoodCleared DEF ChangeSelection
    <2> QED BY <1>4, <2>2, StandStill, Unmoved
<1>6. ASSUME NEW offset \in Offsets, NEW size \in Sizes, Select(offset, size) PROVE Handled
    <2>1. Good(selection')
        BY <1>1, <1>2, <1>3, <1>6, GoodSet DEF Select
    <2> QED BY <1>4, <2>1, StandStill, Unmoved
<1>7. ASSUME NEW offset \in Offsets, NEW size \in Sizes, NEW i \in ZoneIndex,
             EditSelection(i, offset, size)
      PROVE  Handled
    <2>1. size \in 1 .. Size - 1 /\ offset + size <= Size
            => size > 0 /\ offset + size - 1 <= Size
        BY <1>3, SizeAssumption DEF Offsets
    <2>2. Good(selection')
        BY <1>1, <1>2, <1>3, <1>7, <2>1, GoodSet DEF EditSelection
    <2> QED BY <1>4, <2>2, StandStill, Unmoved
<1>8. ASSUME NEW i \in ZoneIndex, EraseSelection(i) PROVE Handled
    <2>1. Good(selection')
        BY <1>1, <1>8, GoodCleared DEF EraseSelection
    <2> QED BY <1>4, <2>1, StandStill, Unmoved
<1> QED BY <1>5, <1>6, <1>7, <1>8 DEF Mark

\* A match that replaces the selection.
LEMMA GoodMatchSelected ==
    ASSUME NEW sel, Good(sel), NEW m \in Matches, HasResults(m)
    PROVE  Good(SelectFromTo(Clear(sel), m.at, m.at + m.len - 1))
<1> DEFINE old == Clear(sel)
           span == Span(m.at, m.at + m.len - 1)
           z == [i \in ZoneIndex |-> IF i \in BeginsIn(old, m.at) THEN span ELSE NoZone]
<1>1. Good(old) /\ \A i \in ZoneIndex : old.zones[i] = NoZone
    BY GoodCleared DEF Clear, NoZones, Good, Selections
<1>2. span \in Zone /\ Sound(span)
    BY MatchIsSound
<1> HIDE DEF old, span
<1>3. /\ z \in [ZoneIndex -> Zone \cup {NoZone}]
      /\ \A i \in ZoneIndex : z[i] = NoZone \/ Sound(z[i])
    BY <1>2
<1>4. SelectFromTo(old, m.at, m.at + m.len - 1) = [single |-> old.single, zones |-> z]
    BY <1>1 DEF SelectFromTo, Holds, Good, Selections, span
<1> QED BY <1>1, <1>3, <1>4, GoodZones DEF old, Good, Selections

LEMMA AnswerHandled ==
    ASSUME Inv, NEW m \in Matches, NEW align, NEW take, NEW sel, Good(sel),
           Answer(m, align, take, sel)
    PROVE  /\ ViewStep /\ Good(selection') /\ match' \in Matches
           /\ Layout' = Layout /\ searching' \in BOOLEAN
<1>1. match' = m /\ Layout' = Layout /\ searching' = searching /\ searching \in BOOLEAN
    BY DEF Answer, Inv, TypeOK
<1>2. m.at \in Nat /\ m.len \in Nat /\ Placed /\ Layout \in Layouts
    BY InvMeans, SizeAssumption DEF Matches
<1>3. CASE ~HasResults(m)
    <2>1. UNCHANGED view /\ selection' = sel
        BY <1>3 DEF Answer
    <2> QED BY <1>1, <2>1, StandStill
<1>4. CASE HasResults(m)
    <2>1. GoToMatch(m.at, align)
        BY <1>4 DEF Answer
    <2>2. ViewStep
        <3>1. CASE align
            BY <1>2, <2>1, <3>1, ScrollStep DEF GoToMatch
        <3>2. CASE ~align
            <4>1. Clamp(m.at) \in Offsets
                BY <1>2, ClampIn
            <4> QED BY <1>2, <2>1, <3>2, <4>1, MoveStep DEF GoToMatch
        <3> QED BY <3>1, <3>2
    <2>3. Good(selection')
        <3>1. CASE ~take
            BY <1>4, <3>1 DEF Answer
        <3>2. CASE take
            BY <1>4, <3>2, GoodMatchSelected DEF Answer
        <3> QED BY <3>1, <3>2
    <2> QED BY <1>1, <2>2, <2>3
<1> QED BY <1>3, <1>4

\* The matches a command may answer with, for the text in the dialog.
LEMMA SearchedType ==
    ASSUME Inv
    PROVE  /\ input # NoInput => input \in Patterns
           /\ Kept \in Matches
           /\ Searched(NextMatch(input, currentPos + 1, Kept)) \subseteq Matches
           /\ currentPos > 0
              => Searched(PreviousMatch(input, currentPos - 1, Kept)) \subseteq Matches
<1>1. match \in Matches /\ currentPos \in Nat /\ currentPos < Size
    BY InvMeans, SizeAssumption DEF Placed, Offsets
<1>2. input # NoInput => input \in Patterns
    BY DEF Inv, TypeOK
<1>3. Kept \in Matches
    BY <1>1, NoMatchIsMatch DEF Kept
<1>4. input # NoInput => NextMatch(input, currentPos + 1, Kept) \subseteq Matches
    BY <1>1, <1>2, <1>3, SearchType
<1>5. ASSUME input # NoInput, currentPos > 0
      PROVE  PreviousMatch(input, currentPos - 1, Kept) \subseteq Matches
    <2>1. currentPos - 1 \in Nat /\ currentPos - 1 <= Size
        BY <1>1, <1>5, SizeAssumption
    <2> QED BY <1>2, <1>3, <1>5, <2>1, SearchType
<1> QED BY <1>1, <1>2, <1>3, <1>4, <1>5 DEF Searched

LEMMA FindsHandled ==
    ASSUME Inv, Find
    PROVE  Handled
<1>1. Good(selection) /\ Good(Clear(selection)) /\ match \in Matches /\ currentPos \in Nat
    BY InvMeans, GoodCleared
<1>2. newRequest \in BOOLEAN /\ input \in Patterns \cup {NoInput} /\ searching \in BOOLEAN
    BY DEF Inv, TypeOK
<1>3. ASSUME NEW align, NEW take, NEW p \in Patterns \cup {NoInput},
             ShowFindDialog(p, align, take)
      PROVE  Handled
    <2>1. (IF p = NoInput THEN {match} ELSE NextMatch(p, currentPos, NoMatch)) \subseteq Matches
        BY <1>1, NoMatchIsMatch, SearchType
    <2>2. /\ \E m \in Matches : Answer(m, align, take, selection)
          /\ input' = p /\ newRequest' = (p = NoInput)
        BY <1>3, <2>1 DEF ShowFindDialog
    <2> QED BY <1>1, <2>2, AnswerHandled DEF Handled
<1>4. ASSUME NEW align, NEW take, FindNext(align, take) PROVE Handled
    <2>1. /\ \E m \in Matches : Answer(m, align, take, Clear(selection))
          /\ input' = input /\ newRequest' \in BOOLEAN
        BY <1>4, SearchedType DEF FindNext, RequestTaken
    <2> QED BY <1>1, <1>2, <2>1, AnswerHandled DEF Handled
<1>5. ASSUME NEW align, NEW take, FindPrevious(align, take) PROVE Handled
    <2>1. CASE currentPos = 0
        <3>1. UNCHANGED vars
            BY <1>5, <2>1 DEF FindPrevious
        <3>2. UNCHANGED <<view, selection>> /\ Unsearched
            BY <3>1 DEF vars, Unsearched
        <3> QED BY <3>2, StayHandled
    <2>2. CASE currentPos # 0
        <3>1. Searched(PreviousMatch(input, currentPos - 1, Kept)) \subseteq Matches
            BY <1>1, <2>2, SearchedType
        <3>2. /\ \E m \in Matches : Answer(m, align, take, Clear(selection))
              /\ input' = input /\ newRequest' \in BOOLEAN
            BY <1>5, <2>2, <3>1 DEF FindPrevious, RequestTaken
        <3> QED BY <1>1, <1>2, <3>2, AnswerHandled DEF Handled
    <2> QED BY <2>1, <2>2
<1>6. ASSUME NEW p \in Patterns \cup {NoInput}, CancelFindDialog(p) PROVE Handled
    <2>1. /\ UNCHANGED view /\ selection' = selection /\ Layout' = Layout /\ input' = p
          /\ newRequest' = newRequest /\ match' = match /\ searching' = searching
        BY <1>6 DEF CancelFindDialog
    <2> QED BY <1>1, <1>2, <2>1, StandStill DEF Handled
<1>7. CASE FindPreviousForever
    <2>1. /\ UNCHANGED view /\ selection' = Clear(selection) /\ Layout' = Layout
          /\ input' = input /\ newRequest' \in BOOLEAN /\ match' = NoMatch /\ searching' = TRUE
        BY <1>7 DEF FindPreviousForever, RequestTaken
    <2> QED BY <1>1, <1>2, <2>1, StandStill, NoMatchIsMatch DEF Handled
<1> QED BY <1>3, <1>4, <1>5, <1>6, <1>7 DEF Find

-----------------------------------------------------------------------------
(* The theorems.                                                            *)

LEMMA HandledKeepsInv ==
    ASSUME Inv, Handled
    PROVE  Inv'
<1>1. Good(selection)' <=> (selection \in Selections /\ SelectionInFile)'
    BY GoodIsTheInvariant, PTL
<1>2. (selection \in Selections /\ SelectionInFile)'
    BY <1>1 DEF Handled, Good
<1>3. ViewBelowCursor'
    BY DEF Handled, ViewStep, ViewBelowCursor
<1>4. /\ match' \in [at : 0 .. Size * WideBytes, len : Nat, unit : {1, WideBytes}]
      /\ OfText(match)'
    BY DEF Handled, Matches, OfText
<1>5. TypeOK'
    BY <1>2, <1>4 DEF TypeOK, Handled, ViewStep, Inv
<1> QED BY <1>2, <1>3, <1>4, <1>5 DEF Inv

LEMMA ResizeKeepsInv ==
    ASSUME Inv, NEW l \in Layouts, UpdateViewSizes(l)
    PROVE  Inv'
BY DEF Inv, TypeOK, ViewBelowCursor, SelectionInFile, OfText, UpdateViewSizes,
       view, find

LEMMA StutterKeepsInv ==
    ASSUME Inv, UNCHANGED vars
    PROVE  Inv'
BY DEF Inv, TypeOK, ViewBelowCursor, SelectionInFile, OfText, vars, view, find

LEMMA NextIsHandled ==
    ASSUME Inv, [Next]_vars
    PROVE  Handled \/ (\E l \in Layouts : UpdateViewSizes(l)) \/ UNCHANGED vars
BY MovesHandled, ScrollsHandled, MarksHandled, FindsHandled DEF Next

LEMMA InvInductive == Spec => []Inv
<1>1. Init => Inv
    <2> SUFFICES ASSUME Init PROVE Inv
        OBVIOUS
    <2>1. 0 \in Offsets /\ 0 <= 0
        BY SizeAssumption DEF Offsets
    <2>2. selection \in Selections /\ \A i \in ZoneIndex : selection.zones[i] = NoZone
        BY NoZonesType DEF Init, Selections, NoZones
    <2>3. /\ NoMatch \in [at : 0 .. Size * WideBytes, len : Nat, unit : {1, WideBytes}]
          /\ OfText(NoMatch)
        BY NoMatchIsMatch DEF Matches
    <2>4. TypeOK
        BY <2>1, <2>2, <2>3 DEF Init, TypeOK
    <2>5. SelectionInFile
        BY <2>2 DEF SelectionInFile, ProperZones
    <2> QED BY <2>1, <2>3, <2>4, <2>5 DEF Init, Inv, ViewBelowCursor
<1>2. Inv /\ [Next]_vars => Inv'
    BY NextIsHandled, HandledKeepsInv, ResizeKeepsInv, StutterKeepsInv
<1> QED BY <1>1, <1>2, PTL DEF Spec

\* Every variable of the hex view keeps to its type.
THEOREM TypeCorrect == Spec => []TypeOK
<1>1. Inv => TypeOK
    BY DEF Inv
<1> QED BY <1>1, InvInductive, PTL

\* In a file of any size and windows of any sizes, no sequence of moves, scrolls,
\* resizes, pushes from other windows and searches leaves the window's start after
\* the cursor: the unsigned subtractions of MoveTo and of Home and End do not wrap.
THEOREM CursorBelowStart == Spec => []ViewBelowCursor
<1>1. Inv => ViewBelowCursor
    BY DEF Inv
<1> QED BY <1>1, InvInductive, PTL

\* Every selected range runs forward, starts or ends where it was begun, and ends
\* at most one byte after the file, for any number of zones.
THEOREM SelectionStaysInFile == Spec => []SelectionInFile
<1>1. Inv => SelectionInFile
    BY DEF Inv
<1> QED BY <1>1, InvInductive, PTL

\* What an ASCII or a binary search makes the view jump to is a place where one of
\* the texts of these searches occurs, whether or not texts overlap themselves.  The
\* places of a Unicode search are not.
THEOREM MatchesAreReal == Spec => []MatchIsReal
<1>1. Inv => MatchIsReal
    BY DEF Inv, OfText, MatchIsReal
<1> QED BY <1>1, InvInductive, PTL

\* A cursor that is in the window stays in it, whatever the user does short of
\* changing the window's size.
THEOREM KeepsCursorInSight == Spec => CursorStaysInSight
<1>1. ASSUME Inv, [Next]_vars
      PROVE  [CursorInSight /\ Layout' = Layout => CursorInSight']_vars
    <2> SUFFICES ASSUME CursorInSight, Layout' = Layout, ~UNCHANGED vars
                 PROVE  CursorInSight'
        OBVIOUS
    <2>1. InWindow(currentPos', startView') => CursorInSight'
        BY DEF CursorInSight, InWindow, Shown
    <2>2. CASE Handled
        BY <2>1, <2>2 DEF Handled, ViewStep, CursorInSight
    <2>3. CASE \E l \in Layouts : UpdateViewSizes(l)
        <3>1. startView' = startView /\ currentPos' = currentPos
            BY <2>3 DEF UpdateViewSizes, view
        <3> QED BY <3>1 DEF CursorInSight, InWindow, Shown
    <2> QED BY <1>1, <2>2, <2>3, NextIsHandled
<1> QED BY <1>1, InvInductive, PTL DEF Spec, CursorStaysInSight

------------------------------------------------------------------------------
(* What a step does, beyond keeping the invariant.                          *)

\* A selecting move writes one range, and ends it where it leaves the cursor.
LEMMA MoveSelects ==
    ASSUME Inv, NEW offset \in Nat, NEW select, MoveTo(offset, select), selection' # selection
    PROVE  OneRangeFollows
<1> DEFINE p == Clamp(offset)
           b == BeginsIn(selection, currentPos)
<1>1. /\ currentPos' = p /\ p \in Nat /\ currentPos \in Nat /\ Good(selection)
      /\ p \in 0 .. Size /\ currentPos \in 0 .. Size
    BY InvMeans, ClampIn, SizeAssumption DEF MoveTo, Placed, Offsets
<1>2. selection' = SelectFromTo(selection, currentPos, p)
    BY DEF MoveTo
<1> HIDE DEF p
<1>3. \A i \in ZoneIndex : i \notin b => selection'.zones[i] = selection.zones[i]
    BY <1>2 DEF SelectFromTo
<1>4. \A i \in ZoneIndex : i \in b => EndsAt(selection'.zones[i], p)
    <2> TAKE i \in ZoneIndex
    <2> HAVE i \in b
    <2>1. PICK a \in 0 .. Size : selection'.zones[i] = Span(a, p)
        <3>1. CASE Holds(selection.zones[i], currentPos)
            <4>1. selection'.zones[i] = Span(selection.zones[i].anchor, p)
                BY <1>2, <3>1 DEF SelectFromTo
            <4>2. Sound(selection.zones[i])
                BY <1>1, <3>1 DEF Holds, Good
            <4>3. selection.zones[i].anchor \in 0 .. Size
                BY <1>1, <3>1, <4>2, AnchorInFile
            <4> QED BY <4>1, <4>3
        <3>2. CASE ~Holds(selection.zones[i], currentPos)
            <4>1. selection'.zones[i] = Span(currentPos, p)
                BY <1>2, <3>2 DEF SelectFromTo
            <4> QED BY <1>1, <4>1
        <3> QED BY <3>1, <3>2
    <2>2. Span(a, p) # NoZone
        BY <1>1, SpanInFile, NoZoneAssumption
    <2>3. p \in {Span(a, p).start, Span(a, p).end}
        BY <1>1 DEF Span
    <2> QED BY <2>1, <2>2, <2>3 DEF EndsAt
<1>5. \E i \in ZoneIndex : i \in b
    <2> SUFFICES ASSUME \A i \in ZoneIndex : i \notin b PROVE FALSE
        OBVIOUS
    <2>1. selection \in Selections
        BY <1>1 DEF Good
    <2>2. [i \in ZoneIndex |-> IF i \notin BeginsIn(selection, currentPos) THEN selection.zones[i]
               ELSE IF Holds(selection.zones[i], currentPos)
                    THEN Span(selection.zones[i].anchor, p)
                    ELSE Span(currentPos, p)] = selection.zones
        BY <2>1 DEF Selections
    <2>3. [selection EXCEPT !.zones = selection.zones] = selection
        BY <2>1 DEF Selections
    <2> QED BY <1>2, <2>2, <2>3 DEF SelectFromTo
<1>6. \A i, j \in ZoneIndex : i \in b /\ j \in b => i = j
    BY DEF BeginsIn
<1> QED BY <1>1, <1>3, <1>4, <1>5, <1>6 DEF OneRangeFollows

LEMMA MoveSelectsOne ==
    ASSUME Inv, Move, selection' # selection
    PROVE  OneRangeFollows
<1>1. selection' = selection \/ \E offset \in Nat : \E select \in BOOLEAN : MoveTo(offset, select)
    <2>1. ASSUME NEW select \in BOOLEAN, NEW key \in DOMAIN KeyTargets, MoveKey(key, select)
          PROVE  \E offset \in Nat : MoveTo(offset, select)
        BY <2>1, TargetsAreOffsets DEF MoveKey
    <2>2. ASSUME NEW select \in BOOLEAN, Left(select), selection' # selection
          PROVE  \E offset \in Nat : MoveTo(offset, select)
        <3>1. currentPos > 0 /\ MoveTo(currentPos - 1, select) /\ currentPos \in Nat
            BY <2>2, InvMeans DEF Left
        <3> QED BY <3>1
    <2>3. ASSUME NEW select \in BOOLEAN, NEW p \in 0 .. Size, Jump(p, select) \/ Mouse(p, select),
                 selection' # selection
          PROVE  \E offset \in Nat : MoveTo(offset, select)
        <3>1. p \in Nat /\ MoveTo(p, select)
            BY <2>3, SizeAssumption DEF Jump, Mouse
        <3> QED BY <3>1
    <2>4. ASSUME NEW select \in BOOLEAN, NEW startOfZone \in BOOLEAN,
                 MoveToZone(startOfZone, select), selection' # selection
          PROVE  \E offset \in Nat : MoveTo(offset, select)
        <3>1. PICK z \in OffsetToZone(PaintedZones, currentPos) :
                  MoveTo(IF startOfZone THEN z.low ELSE z.high, select)
            BY <2>4 DEF MoveToZone
        <3>2. z.low \in Nat /\ z.high \in Nat
            BY ZonesAssumption DEF OffsetToZone, Around, PaintedZones, Cached
        <3> QED BY <3>1, <3>2
    <2>5. ASSUME NEW select \in BOOLEAN, SkipCurentCaracter(select) \/ MoveTillEndBlock(select)
          PROVE  \E offset \in Nat : MoveTo(offset, select)
        BY <2>5, RunEnds DEF SkipCurentCaracter, MoveTillEndBlock
    <2>6. ASSUME NEW i \in ZoneIndex, MoveToSelection(i) PROVE selection' = selection
        BY <2>6 DEF MoveToSelection, MoveTo
    <2>7. Offsets \subseteq 0 .. Size
        BY SizeAssumption DEF Offsets
    <2> QED BY <2>1, <2>2, <2>3, <2>4, <2>5, <2>6, <2>7 DEF Move
<1> QED BY <1>1, MoveSelects

\* The cache's order has a first zone among those around an offset.
LEMMA InnermostFound ==
    ASSUME NEW p \in Nat, NEW zones, zones \subseteq [low : Nat, high : Nat],
           Around(zones, p) # {}
    PROVE  OffsetToZone(zones, p) # {}
<1> DEFINE A == Around(zones, p)
           lows == {z.low : z \in A}
           l == LastOf(lows)
           highs == {z.high : z \in {y \in A : y.low = l}}
           h == FirstOf(highs)
<1>1. A \subseteq [low : Nat, high : Nat] /\ \A z \in A : z.low \in 0 .. p
    BY DEF Around
<1>2. lows # {} /\ lows \subseteq 0 .. p
    BY <1>1
<1>3. l \in lows /\ \A x \in lows : x <= l
    BY <1>2, LastIsIn
<1>4. highs # {} /\ highs \subseteq Nat
    BY <1>1, <1>3
<1>5. h \in highs /\ \A x \in highs : h <= x
    BY <1>4, FirstIsIn
<1>6. PICK z \in A : z.low = l /\ z.high = h
    BY <1>5
<1>7. \A y \in A : y = z \/ Precedes(z, y)
    <2> TAKE y \in A
    <2>1. /\ y \in [low : Nat, high : Nat] /\ z \in [low : Nat, high : Nat]
          /\ y.low <= l /\ (y.low = l => h <= y.high)
        BY <1>1, <1>3, <1>5
    <2>2. y.low = z.low /\ y.high = z.high => y = z
        BY <2>1
    <2> QED BY <1>6, <2>1, <2>2 DEF Precedes
<1> QED BY <1>6, <1>7 DEF OffsetToZone

LEMMA ZoneKeyStep ==
    ASSUME Inv, CursorInSight, currentPos < startView + Layout.cols * (Layout.rows - 1),
           Around(FileZones, currentPos) # {}, NEW startOfZone, NEW select,
           MoveToZone(startOfZone, select)
    PROVE  \E z \in Around(FileZones, currentPos) :
              /\ currentPos' = Clamp(IF startOfZone THEN z.low ELSE z.high)
              /\ \A y \in Around(FileZones, currentPos) : y.low <= z.low
<1> DEFINE high == startView + Layout.cols * (Layout.rows - 1)
<1>1. currentPos \in Nat /\ startView \in Nat /\ startView <= currentPos /\ currentPos < high
    BY InvMeans DEF Placed
<1>2. high \in Int
    <2>1. Layout.cols \in Nat /\ Layout.rows \in Nat
        BY InvMeans, ShownType
    <2>2. ASSUME NEW c \in Nat, NEW r \in Nat PROVE c * (r - 1) \in Int
        BY Z3
    <2> QED BY <1>1, <2>1, <2>2
<1> HIDE DEF high
<1>3. Around(Cached(FileZones, startView, high), currentPos) = Around(FileZones, currentPos)
    <2> SUFFICES ASSUME NEW z \in FileZones, z.low <= currentPos, currentPos <= z.high
                 PROVE  z \in Cached(FileZones, startView, high)
        BY DEF Around, Cached
    <2>1. z.low \in Nat /\ z.high \in Nat
        BY ZonesAssumption
    <2> QED BY <1>1, <1>2, <2>1 DEF Cached
<1>4. Cached(FileZones, startView, high) \subseteq [low : Nat, high : Nat]
    BY ZonesAssumption DEF Cached
<1>5. OffsetToZone(PaintedZones, currentPos) # {}
    BY <1>1, <1>3, <1>4, InnermostFound DEF PaintedZones, high
<1>6. PICK z \in OffsetToZone(PaintedZones, currentPos) :
          MoveTo(IF startOfZone THEN z.low ELSE z.high, select)
    BY <1>5 DEF MoveToZone
<1>7. /\ z \in Around(FileZones, currentPos)
      /\ \A y \in Around(FileZones, currentPos) : y = z \/ Precedes(z, y)
    BY <1>3 DEF OffsetToZone, PaintedZones, high
<1>8. \A y \in Around(FileZones, currentPos) : y.low \in Nat
    BY ZonesAssumption DEF Around
<1>9. \A y \in Around(FileZones, currentPos) : y.low <= z.low
    BY <1>7, <1>8 DEF Precedes
<1>10. currentPos' = Clamp(IF startOfZone THEN z.low ELSE z.high)
    BY <1>6 DEF MoveTo
<1> QED BY <1>7, <1>9, <1>10

\* In one block, a search of ASCII meets the occurrences ahead and nothing else.
LEMMA OneBlockAhead ==
    ASSUME NEW p \in Patterns, p.unit = 1, NEW from \in Nat, Size - from <= CacheSize, NEW m
    PROVE  LET ahead == {a \in p.at : from <= a}
           IN  Search(p, from, FALSE, m) =
                  IF ahead = {} THEN {m} ELSE {[at |-> FirstOf(ahead), len |-> p.len, unit |-> 1]}
<1> DEFINE ahead == {a \in p.at : from <= a}
           low == BlockLow(from, 0)
           high == BlockHigh(from, 0)
           here == Within(p, low, high)
           found == KeptOf(p, low, here, FALSE)
<1>0. /\ Size \in Nat /\ CacheSize \in Nat /\ CacheSize > 0 /\ Size > 0
      /\ \A a \in p.at : a \in Nat /\ a <= Size - 1 /\ a + p.len <= Size
      /\ p.len \in Nat /\ p.len > 0
    BY Bytes
<1>1. low = from /\ high \in Nat /\ (from <= Size => high = Size) /\ high <= Size
      /\ 0 \in BlockNumbers
    BY <1>0 DEF BlockLow, BlockHigh, BlockNumbers
<1>2. ASSUME NEW k \in BlockNumbers, k # 0
      PROVE  Block(p, from, k) = {} /\ Behind(p, BlockLow(from, k), BlockHigh(from, k)) = {}
    <2> DEFINE b == BlockLow(from, k)
               e == BlockHigh(from, k)
    <2>1. b \in Nat /\ b >= Size
        <3>1. ASSUME NEW x \in Nat, NEW c \in Nat, x >= 1 PROVE x * c \in Nat /\ x * c >= c
            <4>1. x * c = (x - 1) * c + c
                BY <3>1, Z3
            <4>2. x - 1 \in Nat
                BY <3>1
            <4>3. (x - 1) * c \in Nat
                BY <4>2
            <4> QED BY <4>1, <4>3
        <3>2. k \in Nat /\ k >= 1
            BY <1>2 DEF BlockNumbers
        <3> QED BY <1>0, <3>1, <3>2 DEF BlockLow
    <2>2. e = Size
        BY <1>0, <2>1 DEF BlockHigh
    <2> HIDE DEF b, e
    <2>3. Within(p, b, e) = {} /\ Behind(p, b, e) = {}
        BY <1>0, <2>1, <2>2 DEF Within, Behind
    <2> QED BY <2>3 DEF Block, b, e
<1>3. here = {i \in 0 .. Size - from : from + i \in ahead} /\ here = Block(p, from, 0)
    <2>1. CASE from <= Size
        BY <1>0, <1>1, <2>1 DEF Within, Block
    <2>2. CASE ~(from <= Size)
        BY <1>0, <1>1, <2>2 DEF Within, Block
    <2> QED BY <2>1, <2>2
<1>4. Behind(p, low, high) = {} /\ Seen(p, low, high) = {here}
    <2>1. Behind(p, low, high) = {}
        BY <1>0, <1>1 DEF Behind
    <2> QED BY <2>1 DEF Seen
<1>5. /\ QuietBehind(p, from, -1) <=> here = {}
      /\ QuietBehind(p, from, 0)
    BY <1>1, <1>2, <1>3 DEF QuietBehind, BlockNumbers
<1>6. ASSUME NEW k \in BlockNumbers, k # 0
      PROVE  Seen(p, BlockLow(from, k), BlockHigh(from, k)) \ {{}} = {}
    BY <1>2, <1>6 DEF Seen, Block
<1>7. Search(p, from, FALSE, m) = IF here = {} THEN {m} ELSE {found}
    <2> HIDE DEF here, found, low, high
    <2> DEFINE K(k) == {KeptOf(p, BlockLow(from, k), S, FALSE) :
                           S \in Seen(p, BlockLow(from, k), BlockHigh(from, k)) \ {{}}}
               Ks == {K(k) : k \in {b \in BlockNumbers : QuietBehind(p, from, b)}}
    <2>1. Search(p, from, FALSE, m) = {n \in {m} : QuietBehind(p, from, -1)} \cup UNION Ks
        BY DEF Search
    <2>2. \A k \in BlockNumbers : k # 0 => K(k) = {}
        BY <1>6
    <2>3. K(0) = IF here = {} THEN {} ELSE {found}
        BY <1>4 DEF found, low, high
    <2>4. UNION Ks = K(0)
        <3>1. K(0) \in Ks
            BY <1>1, <1>5
        <3>2. \A X \in Ks : X = K(0) \/ X = {}
            BY <2>2
        <3> QED BY <3>1, <3>2
    <2> QED BY <1>5, <2>1, <2>3, <2>4
<1>8. CASE ahead = {}
    BY <1>3, <1>7, <1>8
<1>9. CASE ahead # {}
    <2>1. PICK a \in ahead : TRUE
        BY <1>9
    <2>2. ahead \subseteq Nat /\ from <= Size
        BY <1>0, <2>1
    <2>3. \A b \in ahead : b - from \in here
        BY <1>0, <1>3, <2>2
    <2>4. here # {} /\ here \subseteq Nat /\ FirstOf(here) \in here /\ \A i \in here : FirstOf(here) <= i
        BY <1>3, <2>1, <2>3, FirstIsIn
    <2>5. FirstOf(ahead) \in ahead /\ \A b \in ahead : FirstOf(ahead) <= b
        BY <1>9, <2>2, FirstIsIn
    <2>6. from + FirstOf(here) = FirstOf(ahead)
        <3>1. from + FirstOf(here) \in ahead /\ FirstOf(ahead) - from \in here
            BY <1>3, <2>3, <2>4, <2>5
        <3>2. FirstOf(ahead) <= from + FirstOf(here) /\ FirstOf(here) <= FirstOf(ahead) - from
            BY <2>4, <2>5, <3>1
        <3>3. FirstOf(ahead) \in Nat /\ FirstOf(here) \in Nat
            BY <2>2, <2>4, <2>5
        <3> QED BY <3>2, <3>3
    <2>7. found = [at |-> FirstOf(ahead), len |-> p.len, unit |-> 1]
        <3>1. found = MatchOf(p, from, 0, FirstOf(here))
            BY <1>1 DEF KeptOf
        <3>2. from + 0 * p.unit + (FirstOf(here) - 0) = FirstOf(ahead)
            BY <2>4, <2>6
        <3> QED BY <3>1, <3>2 DEF MatchOf
    <2> QED BY <1>7, <1>9, <2>4, <2>7
<1> QED BY <1>8, <1>9

LEMMA FindNextStep ==
    ASSUME Inv, input # NoInput, input.unit = 1, Size - (currentPos + 1) <= CacheSize,
           NEW align, NEW take, FindNext(align, take)
    PROVE  LET ahead == {a \in input.at : a > currentPos}
           IN  IF ahead = {} THEN match' = Kept
               ELSE match' = [at |-> FirstOf(ahead), len |-> input.len, unit |-> 1]
<1>1. input \in Patterns /\ currentPos \in Nat /\ currentPos + 1 \in Nat
    BY InvMeans DEF Inv, TypeOK
<1>2. match' \in Search(input, currentPos + 1, FALSE, Kept)
    BY DEF FindNext, Answer, Searched, NextMatch
<1>3. {a \in input.at : currentPos + 1 <= a} = {a \in input.at : a > currentPos}
    <2>1. \A a \in input.at : a \in Nat
        BY <1>1, Bytes
    <2> QED BY <1>1, <2>1
<1> DEFINE from == currentPos + 1
           ahead == {a \in input.at : from <= a}
<1>4. from \in Nat /\ Size - from <= CacheSize /\ match' \in Search(input, from, FALSE, Kept)
    BY <1>1, <1>2
<1> HIDE DEF from
<1>5. Search(input, from, FALSE, Kept) =
         IF ahead = {} THEN {Kept} ELSE {[at |-> FirstOf(ahead), len |-> input.len, unit |-> 1]}
    BY <1>1, <1>4, OneBlockAhead
<1>6. ahead = {a \in input.at : a > currentPos}
    BY <1>3 DEF from
<1> HIDE DEF ahead
<1> QED BY <1>4, <1>5, <1>6

LEMMA FindPreviousStep ==
    ASSUME Inv, currentPos > 1, match' # match, HasResults(match'), input.unit = 1,
           NEW align, NEW take, FindPrevious(align, take)
    PROVE  LET near == {a \in input.at : /\ a + input.len <= currentPos - 2
                                         /\ a >= currentPos - 1 - CacheSize}
           IN  match'.at \in near /\ \A a \in near : a < match'.at + input.len
<1> DEFINE near == {a \in input.at : /\ a + input.len <= currentPos - 2
                                     /\ a >= currentPos - 1 - CacheSize}
           from == currentPos - 1
           low == IF CacheSize > from THEN 0 ELSE from - CacheSize
           found == Within(input, low, from - 1)
           T == Taken(found, input.len)
           i == LastOf(T)
           start == LastOf({0} \cup {j + input.len : j \in T \ {i}})
<1>1. /\ currentPos \in Nat /\ from \in Nat /\ from # 0 /\ currentPos # 0
      /\ CacheSize \in Nat /\ currentPos < Size
    BY InvMeans, Bytes DEF Placed, Offsets
<1>2. match' \in Searched(PreviousMatch(input, from, Kept))
    BY <1>1 DEF FindPrevious, Answer
<1>3. input # NoInput /\ match' \in PreviousMatch(input, from, Kept)
    BY <1>2 DEF Searched
<1>4. input \in Patterns
    BY <1>3 DEF Inv, TypeOK
<1>5. /\ \A a \in input.at : a \in Nat /\ a + input.len <= Size /\ a <= Size
      /\ input.len \in Nat /\ input.len > 0
    BY <1>4, Bytes
<1>6. low \in Nat /\ from - 1 \in Nat
    BY <1>1
<1>7. match' = IF found = {} THEN Kept ELSE KeptOf(input, low, found, TRUE)
    <2>1. PICK S \in Seen(input, low, from - 1) :
              match' = IF S = {} THEN Kept ELSE KeptOf(input, low, S, TRUE)
        BY <1>1, <1>3 DEF PreviousMatch
    <2>2. S = found
        BY <1>4, <1>6, SeenIs
    <2> QED BY <2>1, <2>2
<1>8. found # {}
    <2>1. ~HasResults(NoMatch)
        BY DEF HasResults, NoMatch
    <2> QED BY <1>7, <2>1 DEF Kept
<1>9. \A a \in Nat : a - low \in found <=> a >= low /\ a \in near
    BY <1>1, <1>5, <1>6 DEF Within
<1>10. found \subseteq 0 .. from - 1 - low /\ from - 1 - low \in Nat
    <2>1. found \subseteq 0 .. from - 1 - low
        BY DEF Within
    <2> QED BY <1>6, <1>8, <2>1
<1>11. \A a \in near : a >= low
    BY <1>1, <1>5
<1>12. i \in found /\ start \in 0 .. i /\ \A a \in found : a < i + input.len
    BY <1>5, <1>8, <1>10, LastTaken
<1>13. match' = MatchOf(input, low, start, i)
    BY <1>7, <1>8 DEF KeptOf
<1> HIDE DEF found, near, i, start, T
<1>14. i \in Nat /\ start \in Nat
    BY <1>10, <1>12
<1>15. match'.at = low + i
    BY <1>6, <1>13, <1>14 DEF MatchOf
<1> HIDE DEF low
<1>16. low + i \in near
    <2>1. low + i \in Nat /\ (low + i) - low = i
        BY <1>6, <1>14
    <2> QED BY <1>9, <1>12, <2>1
<1>17. ASSUME NEW a \in near PROVE a < low + i + input.len
    <2>1. a \in Nat /\ a >= low
        BY <1>5, <1>11 DEF near
    <2>2. a - low < i + input.len
        BY <1>9, <1>12, <2>1
    <2> QED BY <1>5, <1>6, <1>14, <2>1, <2>2
<1> QED BY <1>15, <1>16, <1>17 DEF near

\* A move with Shift or a drag that changes the selection changes one range, and
\* the cursor is then an end of it.
THEOREM RangeFollowsCursor == Spec => SelectionFollowsCursor
<1>1. ASSUME Inv, Move, selection' # selection
      PROVE  OneRangeFollows
    BY <1>1, MoveSelectsOne
<1>2. Inv => [selection' # selection => OneRangeFollows \/ ~Move]_vars
    BY <1>1
<1> QED BY <1>2, InvInductive, PTL DEF Spec, SelectionFollowsCursor

\* Ctrl+PageUp and Ctrl+PageDown take the cursor to an end of the innermost zone
\* around it, for a cursor in any row of the window but the last.
THEOREM InnermostZone == Spec => ZoneKeyIsInnermost
<1>1. Inv => [/\ CursorInSight
              /\ currentPos < startView + Layout.cols * (Layout.rows - 1)
              /\ Around(FileZones, currentPos) # {}
              => \A startOfZone \in BOOLEAN : \A select \in BOOLEAN :
                    MoveToZone(startOfZone, select)
                    => \E z \in Around(FileZones, currentPos) :
                          /\ currentPos' = Clamp(IF startOfZone THEN z.low ELSE z.high)
                          /\ \A y \in Around(FileZones, currentPos) : y.low <= z.low]_vars
    BY ZoneKeyStep
<1> QED BY <1>1, InvInductive, PTL DEF Spec, ZoneKeyIsInnermost

\* Find Next, in an ASCII or a binary search, finds the nearest match after the
\* cursor when the rest of the file is one search block, and keeps the match it has
\* when there is none: for any such text, those that overlap themselves included.
THEOREM NearestFound == Spec => NextIsNearest
<1>1. Inv => [\A align \in BOOLEAN : \A take \in BOOLEAN :
                 /\ input # NoInput /\ input.unit = 1 /\ Size - (currentPos + 1) <= CacheSize
                 /\ FindNext(align, take)
                 =>
                    LET ahead == {a \in input.at : a > currentPos}
                    IN  IF ahead = {} THEN match' = Kept
                        ELSE match' = [at |-> FirstOf(ahead), len |-> input.len, unit |-> 1]]_vars
    BY FindNextStep
<1> QED BY <1>1, InvInductive, PTL DEF Spec, NextIsNearest

\* Find Previous, in an ASCII or a binary search with at least two bytes before the
\* cursor, never answers a new match at or after the cursor, and in the one block it
\* reads passes over no match that ends two bytes before the cursor but those that
\* overlap the one it answers.
THEOREM PreviousFound == Spec => PreviousIsBefore
<1>1. Inv => [\A align \in BOOLEAN : \A take \in BOOLEAN :
                 /\ currentPos > 1 /\ match' # match /\ HasResults(match') /\ input.unit = 1
                 /\ FindPrevious(align, take)
                 =>
                    LET near == {a \in input.at : /\ a + input.len <= currentPos - 2
                                                  /\ a >= currentPos - 1 - CacheSize}
                    IN  /\ match'.at \in near
                        /\ \A a \in near : a < match'.at + input.len]_vars
    BY FindPreviousStep
<1> QED BY <1>1, InvInductive, PTL DEF Spec, PreviousIsBefore
==============================================================================
